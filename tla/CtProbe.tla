------------------------------- MODULE CtProbe -------------------------------
(***************************************************************************)
(* plugins/systems/ctprobe_container_crawler.py: one conntrackprobe for    *)
(* all interfaces.  It is asked to watch an interface once; what it has    *)
(* been asked is remembered in ifaces_monitored, which must be forgotten   *)
(* when it dies.                                                           *)
(*                                                                         *)
(* The crawler is not restarted here: it does not look for the             *)
(* conntrackprobe it had, and what a second one makes of the first one's   *)
(* socket is not in this repository.                                       *)
(***************************************************************************)
EXTENDS ProbeFiles

VARIABLES
  ctprobe_pid,       \* None for 0, "failed" for -1
  ifaces_monitored,
  configured         \* the interfaces the process under each PID has been asked to watch

ctVars == <<ctprobe_pid, ifaces_monitored, configured>>
ctprobeVars == <<probeVars, proc, ctVars>>

Runs(p) == p \in Pids /\ proc[p] = "conntrackprobe"

-----------------------------------------------------------------------------
(* The conntrackprobe process. *)

CtProbeDies(p) ==
  /\ Runs(p) /\ Fault
  /\ proc' = [proc EXCEPT ![p] = "free"]
  /\ UNCHANGED <<feature, iface, dirVars, cleanup, pc, roundVars, ctVars>>

CtProbeWrites(f) ==
  /\ \E p \in Pids : Runs(p) /\ \E i \in configured[p] : Exists(i) /\ BeginFile(f, i)
  /\ UNCHANGED <<proc, ctVars>>

CtIfaceGoes(i) == Disappear(i) /\ UNCHANGED <<proc, ctVars>>

-----------------------------------------------------------------------------
(* The plugin. *)

\* check_ctprobe_alive.
CrawlWithProbe ==
  /\ Runs(ctprobe_pid) /\ StartCrawl
  /\ UNCHANGED <<proc, ctVars>>

\* Mutant of CrawlRestarts: check_ctprobe_alive does not forget.
RestartOnly(p) ==
  /\ ~Runs(ctprobe_pid) /\ start_child(p, "conntrackprobe") /\ StartCrawl
  /\ configured' = [configured EXCEPT ![p] = {}]
  /\ ctprobe_pid' = p
  /\ UNCHANGED ifaces_monitored

\* It has gone: start_ctprobe starts another one.
CrawlRestarts(p) ==
  /\ ~Runs(ctprobe_pid) /\ start_child(p, "conntrackprobe") /\ StartCrawl
  /\ configured' = [configured EXCEPT ![p] = {}]
  /\ ctprobe_pid' = p
  /\ ifaces_monitored' = {}

\* It has gone and cannot be started: crawl() returns without collecting.
CrawlGivesUp ==
  /\ pc = "idle" /\ ~Runs(ctprobe_pid) /\ Fault
  /\ crawled' = NextOf[crawled]
  /\ ctprobe_pid' = "failed"
  /\ ifaces_monitored' = {}
  /\ UNCHANGED <<feature, iface, dirVars, cleanup, pc, peers, ifnames, globs, held,
                 proc, configured>>

CtCleanup ==
  /\ Cleanup(ifaces_monitored)
  /\ ifaces_monitored' = {i \in ifaces_monitored : Exists(i)}
  /\ UNCHANGED <<proc, ctprobe_pid, configured>>

AlreadyMonitored(i) ==
  /\ i \in ifaces_monitored
  /\ NamedPeer(i)
  /\ UNCHANGED <<pc, faults, proc, ctVars>>

\* start_netlink_collection: no such user, or no output directory.
SetupFails(i) ==
  /\ i \notin ifaces_monitored /\ Fault
  /\ NamedPeer(i)
  /\ UNCHANGED <<pc, proc, ctVars>>

\* add_collector is answered with 200.
Configure(i) ==
  /\ i \notin ifaces_monitored /\ Runs(ctprobe_pid)
  /\ NamedPeer(i)
  /\ configured' = [configured EXCEPT ![ctprobe_pid] = @ \union {i}]
  /\ ifaces_monitored' = ifaces_monitored \union {i}
  /\ UNCHANGED <<pc, faults, proc, ctprobe_pid>>

\* Mutant of ConfigureFails: the conntrackprobe is not killed.
ConfigureGivesUp(i) ==
  /\ i \notin ifaces_monitored /\ ctprobe_pid \in Pids /\ proc[ctprobe_pid] # "free"
  /\ IF Runs(ctprobe_pid) THEN Fault ELSE UNCHANGED faults
  /\ NamedPeer(i)
  /\ ifaces_monitored' = {}
  /\ ctprobe_pid' = None
  /\ UNCHANGED <<pc, proc, configured>>

\* add_collector fails; terminate_ctprobe kills the conntrackprobe if it is one,
\* and the round goes on without any.
ConfigureFails(i) ==
  /\ i \notin ifaces_monitored /\ ctprobe_pid \in Pids /\ proc[ctprobe_pid] # "free"
  /\ IF Runs(ctprobe_pid) THEN Fault ELSE UNCHANGED faults
  /\ NamedPeer(i)
  /\ proc' = IF Runs(ctprobe_pid) THEN [proc EXCEPT ![ctprobe_pid] = "free"] ELSE proc
  /\ ifaces_monitored' = {}
  /\ ctprobe_pid' = None
  /\ UNCHANGED <<pc, configured>>

\* add_collector fails because there is no process any more; so does
\* terminate_ctprobe, and the round over the peers ends.
ConfigureRaises(i) ==
  /\ i \notin ifaces_monitored
  /\ ctprobe_pid \in Pids => proc[ctprobe_pid] = "free"
  /\ pc = "peers" /\ i \in peers /\ Exists(i)
  /\ ifnames' = ifnames \union {i}
  /\ peers' = {}
  /\ UNCHANGED <<feature, iface, dirVars, cleanup, pc, crawled, globs, held, faults,
                 proc, ctVars>>

start_container_ctprobes ==
  \/ Peers /\ UNCHANGED <<proc, ctVars>>
  \/ \E i \in Ifaces : \/ AlreadyMonitored(i) \/ SetupFails(i) \/ Configure(i)
                       \/ ConfigureFails(i) \/ ConfigureRaises(i)

CollectCtFiles == Collect /\ UNCHANGED <<proc, ctVars>>

-----------------------------------------------------------------------------

CtInit ==
  /\ ProbeFilesInit
  /\ ctprobe_pid = None
  /\ ifaces_monitored = {}
  /\ configured = [p \in Pids |-> {}]

CtCrawler ==
  /\ feature = "ctprobe"
  /\ \/ CrawlWithProbe \/ CrawlGivesUp \/ \E p \in Pids : CrawlRestarts(p)
     \/ CtCleanup \/ start_container_ctprobes \/ CollectCtFiles

CtHost ==
  /\ feature = "ctprobe"
  /\ \/ Host /\ UNCHANGED ctVars
     \/ \E p \in Pids : CtProbeDies(p)
     \/ \E f \in Files : CtProbeWrites(f)
     \/ \E i \in Ifaces : CtIfaceGoes(i)

CtNext == CtCrawler \/ CtHost

\* The crawler goes on crawling.
CtSpec == CtInit /\ [][CtNext]_ctprobeVars /\ WF_ctprobeVars(CtCrawler) /\ ClockFairness

-----------------------------------------------------------------------------

CtTypeOK ==
  /\ ProbeFilesTypeOK
  /\ pc \in {"idle", "cleanup", "inspect", "peers", "collect", "yield"}
  /\ proc \in [Pids -> {"free", "other", "conntrackprobe"}]
  /\ ctprobe_pid \in Pids \union {None, "failed"}
  /\ ifaces_monitored \subseteq Ifaces
  /\ configured \in [Pids -> SUBSET Ifaces]

(* What the plugin takes for monitored, the running conntrackprobe has been   *)
(* asked to watch: a new process under a new or an old PID never inherits the *)
(* list of its predecessor, which would leave interfaces unwatched for ever.  *)
ListConfigured ==
  Runs(ctprobe_pid) => ifaces_monitored \subseteq configured[ctprobe_pid]

(* There is one conntrackprobe at most, and the plugin knows it.              *)
OneConntrackprobe == \A p \in Pids : Runs(p) => p = ctprobe_pid

(* The running conntrackprobe watches the interface.                          *)
Monitored(i) == Runs(ctprobe_pid) /\ i \in configured[ctprobe_pid]
=============================================================================
