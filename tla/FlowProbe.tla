------------------------------ MODULE FlowProbe ------------------------------
(***************************************************************************)
(* plugins/systems/fprobe_container_crawler.py with utils/process_utils.py *)
(* and utils/socket_utils.py: a softflowd on each container interface, a   *)
(* collector that watches it, and fprobes_started, which remembers the     *)
(* softflowd of an interface by a PID that may be another process's by     *)
(* now.  softflowd exits with its interface; it may also die, and its PID  *)
(* be taken by any other process.  A collector may die too: the plugin     *)
(* never looks for it again.                                               *)
(***************************************************************************)
EXTENDS ProbeFiles

Collector == [iface : Ifaces, watch_pid : Pids]
ASSUME FlowAssumption == None \notin Collector

VARIABLES
  collectors,  \* the running collectors: the interface and the watched PID
  started,     \* fprobes_started
  loaded,      \* has the plugin been loaded: "no", "yes", or "failed"
  pair,        \* the softflowd whose collector start_netflow_collection starts next
  bereft       \* history: PIDs of the softflowds whose collector has died, or of
               \* which the crawler died before it had started one

flowVars == <<collectors, started, loaded, pair, bereft>>
fprobeVars == <<probeVars, proc, flowVars>>

Probes(i) == {p \in Pids : proc[p] = i}

-----------------------------------------------------------------------------
(* The processes: a softflowd is known by its interface. *)

ProbeDies(p) ==
  /\ proc[p] \in Ifaces /\ Fault
  /\ proc' = [proc EXCEPT ![p] = "free"]
  /\ bereft' = bereft \ {p}
  /\ UNCHANGED <<feature, iface, dirVars, cleanup, pc, roundVars, collectors, started, loaded, pair>>

\* socket-datacollector sees that no process has its watch_pid any more.
CollectorEnds(c) ==
  /\ c \in collectors /\ proc[c.watch_pid] = "free"
  /\ collectors' = collectors \ {c}
  /\ UNCHANGED <<probeVars, proc, started, loaded, pair, bereft>>

\* Its softflowd, if it still runs, goes on without it.
CollectorDies(c) ==
  /\ c \in collectors /\ Fault
  /\ collectors' = collectors \ {c}
  /\ bereft' = bereft \union {p \in Probes(c.iface) : p = c.watch_pid}
  /\ UNCHANGED <<feature, iface, dirVars, cleanup, pc, roundVars, proc, started, loaded, pair>>

FlowIfaceGoes(i) ==
  /\ Disappear(i)
  /\ proc' = [p \in Pids |-> IF proc[p] = i THEN "free" ELSE proc[p]]
  /\ bereft' = bereft \ Probes(i)
  /\ UNCHANGED <<collectors, started, loaded, pair>>

CollectorWrites(f) ==
  /\ \E c \in collectors : BeginFile(f, c.iface)
  /\ UNCHANGED <<proc, flowVars>>

-----------------------------------------------------------------------------
(* The plugin. *)

\* Mutant of RunningProbes: nothing is looked for when the plugin is loaded.
NothingRuns == [i \in Ifaces |-> None]

\* interfaces_with_fprobes: the last process found for an interface counts.
RunningProbes ==
  [i \in Ifaces |-> IF Probes(i) = {} THEN None ELSE CHOOSE p \in Probes(i) : TRUE]

Load ==
  /\ loaded = "no"
  /\ loaded' = "yes"
  /\ started' = RunningProbes
  /\ UNCHANGED <<probeVars, proc, collectors, pair, bereft>>

\* A process goes away while it is looked at, or a softflowd has no arguments: the
\* import raises, and the crawler goes on without the plugin.
LoadFails ==
  /\ loaded = "no" /\ Fault
  /\ loaded' = "failed"
  /\ UNCHANGED <<feature, iface, dirVars, cleanup, pc, roundVars, proc, collectors, started, pair,
                 bereft>>

FlowCleanup ==
  /\ Cleanup({i \in Ifaces : started[i] # None})
  /\ started' = [i \in Ifaces |-> IF Exists(i) THEN started[i] ELSE None]
  /\ UNCHANGED <<proc, collectors, loaded, pair, bereft>>

\* Mutant of need_start_fprobe: a remembered PID is enough.
AnyPid(i) == started[i] = None

\* No PID is remembered, or something else runs under it by now.
need_start_fprobe(i) == started[i] \notin Probes(i)

AlreadyProbed(i) ==
  /\ NamedPeer(i) /\ ~need_start_fprobe(i)
  /\ UNCHANGED <<pc, faults, proc, flowVars>>

\* Mutant of StartFails: the -1 of start_child is remembered.
StartFailsStored(i) ==
  /\ NamedPeer(i) /\ need_start_fprobe(i) /\ Fault
  /\ started' = [started EXCEPT ![i] = "failed"]
  /\ UNCHANGED <<pc, proc, collectors, loaded, pair, bereft>>

\* No such user, no directory, no port, or start_child fails to fork or exec:
\* no softflowd.  An entry for the PID of something else is gone all the same.
StartFails(i) ==
  /\ NamedPeer(i) /\ need_start_fprobe(i) /\ Fault
  /\ started' = [started EXCEPT ![i] = None]
  /\ UNCHANGED <<pc, proc, collectors, loaded, pair, bereft>>

\* start_fprobe by start_child: the softflowd is nobody's child when it returns.
StartFprobe(i, p) ==
  /\ NamedPeer(i) /\ need_start_fprobe(i) /\ start_child(p, i)
  /\ started' = [started EXCEPT ![i] = None]
  /\ pair' = [iface |-> i, watch_pid |-> p]
  /\ pc' = "pair"
  /\ UNCHANGED <<faults, collectors, loaded, bereft>>

StartCollector ==
  /\ pc = "pair"
  /\ collectors' = collectors \union {pair}
  /\ started' = [started EXCEPT ![pair.iface] = pair.watch_pid]
  /\ bereft' = bereft \ {pair.watch_pid}
  /\ pair' = None /\ pc' = "peers"
  /\ UNCHANGED <<feature, iface, dirVars, cleanup, roundVars, faults, proc, loaded>>

\* The softflowd is killed by its PID.  When nothing has that PID any more,
\* os.kill raises and the round over the peers ends.
CollectorFails ==
  /\ pc = "pair" /\ Fault
  /\ proc' = [proc EXCEPT ![pair.watch_pid] = "free"]
  /\ peers' = IF proc[pair.watch_pid] = "free" THEN {} ELSE peers
  /\ bereft' = bereft \ {pair.watch_pid}
  /\ pc' = "peers" /\ pair' = None
  /\ UNCHANGED <<feature, iface, dirVars, cleanup, crawled, ifnames, globs, held,
                 collectors, started, loaded>>

start_container_fprobes ==
  \/ Peers /\ UNCHANGED <<proc, flowVars>>
  \/ \E i \in Ifaces : AlreadyProbed(i) \/ StartFails(i) \/ \E p \in Pids : StartFprobe(i, p)
  \/ StartCollector \/ CollectorFails

CollectFlowFiles == Collect /\ UNCHANGED <<proc, flowVars>>

\* A softflowd that has no collector yet does not get one any more.
Crash ==
  /\ loaded # "no" /\ Fault
  /\ ForgetRound
  /\ bereft' = IF pc = "pair" THEN bereft \union (Probes(pair.iface) \intersect {pair.watch_pid})
                              ELSE bereft
  /\ loaded' = "no" /\ pair' = None
  /\ started' = [i \in Ifaces |-> None]
  /\ UNCHANGED <<proc, collectors>>

-----------------------------------------------------------------------------

FlowInit ==
  /\ ProbeFilesInit
  /\ collectors = {}
  /\ started = [i \in Ifaces |-> None]
  /\ loaded = "no" /\ pair = None /\ bereft = {}

\* The crawler's own steps.  The plugin is loaded before it is called.
FlowCrawler ==
  /\ feature = "fprobe"
  /\ \/ Load \/ LoadFails
     \/ loaded = "yes" /\ StartCrawl /\ UNCHANGED <<proc, flowVars>>
     \/ FlowCleanup \/ start_container_fprobes \/ CollectFlowFiles

FlowHost ==
  /\ feature = "fprobe"
  /\ \/ Host /\ UNCHANGED flowVars
     \/ \E p \in Pids : ProbeDies(p)
     \/ \E c \in collectors : CollectorEnds(c) \/ CollectorDies(c)
     \/ \E i \in Ifaces : FlowIfaceGoes(i)
     \/ \E f \in Files : CollectorWrites(f)
     \/ Crash

FlowNext == FlowCrawler \/ FlowHost

\* The crawler goes on crawling.
FlowSpec == FlowInit /\ [][FlowNext]_fprobeVars /\ WF_fprobeVars(FlowCrawler) /\ ClockFairness

-----------------------------------------------------------------------------

FlowTypeOK ==
  /\ ProbeFilesTypeOK
  /\ pc \in {"idle", "cleanup", "inspect", "peers", "pair", "collect", "yield"}
  /\ proc \in [Pids -> {"free", "other"} \union Ifaces]
  /\ collectors \subseteq Collector
  /\ started \in [Ifaces -> Pids \union {None}]
  /\ loaded \in {"no", "yes", "failed"}
  /\ pair \in Collector \union {None}
  /\ bereft \subseteq {p \in Pids : proc[p] \in Ifaces}

(* No interface ever has two probes, whatever dies, whoever takes over a PID, *)
(* and whenever the crawler is restarted: its packets would be counted twice. *)
OneProbe == \A i \in Ifaces : \A p, q \in Probes(i) : p = q

(* A softflowd and a collector that watches it; a softflowd that has lost its *)
(* collector to something else than the plugin.                               *)
Paired(i) == \E c \in collectors : c.iface = i /\ proc[c.watch_pid] = i
Bereft(i) == Probes(i) \intersect bereft # {}
=============================================================================
