------------------------------ MODULE ProbeFiles ------------------------------
(***************************************************************************)
(* What the two plugins that run network probes on container interfaces    *)
(* share: the interfaces, the directory the probes' data files are in, the *)
(* round over the peers of one container and the collection of its files.  *)
(* fprobe_container_crawler.py and ctprobe_container_crawler.py hold the   *)
(* same code for it; FlowProbe and CtProbe extend it with their probes.    *)
(*                                                                         *)
(* Host interface names are not used twice.  Whatever fails, fails at most *)
(* MaxFaults times, all failures together.                                 *)
(***************************************************************************)
EXTENDS Naturals, FiniteSets

CONSTANTS
  Containers,
  NextOf,     \* the container crawled after each
  Ifaces,     \* names of interfaces on the host whose peers are in containers
  OwnerOf,    \* the container the peer of each interface is in
  Files,      \* names of data files
  Pids,
  None,
  MaxFaults   \* bound of the failures

FileStates == {"tmp", "garbled", "ready"}
DataFile == [iface : Ifaces, state : FileStates, old : BOOLEAN]

ASSUME ProbeAssumption ==
  /\ NextOf \in [Containers -> Containers]
  /\ OwnerOf \in [Ifaces -> Containers]
  /\ None \notin Ifaces \union Files \union Pids \union DataFile
  /\ {"free", "other", "conntrackprobe"} \intersect Ifaces = {}
  /\ "failed" \notin Pids
  /\ MaxFaults \in Nat

VARIABLES
  feature,   \* which of the two plugins --features has enabled
  proc,      \* what runs under each PID: "free", "other", or a probe
  iface,     \* state of each interface
  disk,      \* content of the output directory
  sent,      \* how often the content of each file has been yielded
  cleanup,   \* next_cleanup: "first" (0), "later", or "due"
  pc,        \* where crawl() is
  crawled,   \* container_id
  peers,     \* interfaces start_container_*probes still has to go through
  ifnames,   \* interfaces whose files are to be collected
  globs,     \* files of the glob being collected
  held,      \* a file read and removed, not yet yielded
  faults

dirVars == <<disk, sent>>
roundVars == <<crawled, peers, ifnames, globs, held>>
probeVars == <<feature, iface, disk, sent, cleanup, pc, crawled, peers, ifnames, globs, held, faults>>

Present(f) == disk[f] # None
FilesOf(S) == {f \in Files : Present(f) /\ disk[f].iface \in S}
Without(S) == [f \in Files |-> IF f \in S THEN None ELSE disk[f]]

\* if_indextoname knows the interface.
Exists(i) == iface[i] \in {"bare", "up"}

\* start_child: it forks twice and leaves a process of nobody's that runs prog.
start_child(p, prog) == proc[p] = "free" /\ proc' = [proc EXCEPT ![p] = prog]

Fault == faults < MaxFaults /\ faults' = faults + 1

-----------------------------------------------------------------------------
(* The host. *)

\* A container's interface comes up, with an address or without one yet.
Appear(i) ==
  /\ iface[i] = "absent"
  /\ \E s \in {"bare", "up"} : iface' = [iface EXCEPT ![i] = s]
  /\ UNCHANGED <<feature, dirVars, cleanup, pc, roundVars, faults>>

GetAddress(i) ==
  /\ iface[i] = "bare"
  /\ iface' = [iface EXCEPT ![i] = "up"]
  /\ UNCHANGED <<feature, dirVars, cleanup, pc, roundVars, faults>>

\* Its container has stopped.
Disappear(i) ==
  /\ Exists(i)
  /\ iface' = [iface EXCEPT ![i] = "gone"]
  /\ UNCHANGED <<feature, dirVars, cleanup, pc, roundVars, faults>>

\* A PID is taken by a process that has nothing to do with the crawler.
OtherStarts(p) ==
  /\ proc[p] = "free" /\ Fault
  /\ proc' = [proc EXCEPT ![p] = "other"]
  /\ UNCHANGED <<feature, iface, dirVars, cleanup, pc, roundVars>>

OtherEnds(p) ==
  /\ proc[p] = "other"
  /\ proc' = [proc EXCEPT ![p] = "free"]
  /\ UNCHANGED probeVars

\* Whoever writes data for the interface opens a file, and later closes it.
BeginFile(f, i) ==
  /\ ~Present(f) /\ sent[f] = 0 /\ held # f
  /\ disk' = [disk EXCEPT ![f] = [iface |-> i, state |-> "tmp", old |-> FALSE]]
  /\ UNCHANGED <<feature, iface, sent, cleanup, pc, roundVars, faults>>

EndFile(f) ==
  /\ Present(f) /\ disk[f].state = "tmp"
  /\ disk' = [disk EXCEPT ![f].state = "ready"]
  /\ UNCHANGED <<feature, iface, sent, cleanup, pc, roundVars, faults>>

\* What it wrote is not JSON.
SpoilFile(f) ==
  /\ Present(f) /\ disk[f].state = "tmp" /\ Fault
  /\ disk' = [disk EXCEPT ![f].state = "garbled"]
  /\ UNCHANGED <<feature, iface, sent, cleanup, pc, roundVars>>

\* STALE_FILE_TIMEOUT passes for a file.
GrowOld(f) ==
  /\ Present(f) /\ ~disk[f].old
  /\ disk' = [disk EXCEPT ![f].old = TRUE]
  /\ UNCHANGED <<feature, iface, sent, cleanup, pc, roundVars, faults>>

\* The thirty seconds after a cleanup pass.
ComesDue ==
  /\ cleanup = "later" /\ cleanup' = "due"
  /\ UNCHANGED <<feature, iface, dirVars, pc, roundVars, faults>>

-----------------------------------------------------------------------------
(* crawl(). *)

\* The crawler calls the plugin for one container after another; there is
\* nothing to clean up until time.time() > next_cleanup.
StartCrawl ==
  /\ pc = "idle"
  /\ crawled' = NextOf[crawled]
  /\ pc' = IF cleanup = "later" THEN "inspect" ELSE "cleanup"
  /\ UNCHANGED <<feature, iface, dirVars, cleanup, peers, ifnames, globs, held, faults>>

\* Mutant of OldFiles: remove_old_files is only called the first time.
OldFilesOnce == IF cleanup = "due" THEN {} ELSE {f \in Files : Present(f) /\ disk[f].old}

\* remove_old_files, which is not called the first time.
OldFiles == IF cleanup = "first" THEN {} ELSE {f \in Files : Present(f) /\ disk[f].old}

\* os.remove may fail for some of the files, which then stay.
RemoveFiles(S) ==
  \E kept \in SUBSET S :
    /\ disk' = Without(S \ kept)
    /\ IF kept = {} THEN UNCHANGED faults ELSE Fault

\* Mutant of Cleanup: it does not look whether an interface has disappeared.
CleanupAll(known) ==
  /\ pc = "cleanup" /\ cleanup # "later"
  /\ RemoveFiles(OldFiles \union FilesOf(known))
  /\ cleanup' = "later"
  /\ pc' = "inspect"
  /\ UNCHANGED <<feature, iface, sent, roundVars>>

\* remove_old_files, then cleanup() for the interfaces known to the plugin; an
\* interface that has gone is forgotten also when its files could not be removed.
Cleanup(known) ==
  /\ pc = "cleanup" /\ cleanup # "later"
  /\ RemoveFiles(OldFiles \union FilesOf({i \in known : ~Exists(i)}))
  /\ cleanup' = "later"
  /\ pc' = "inspect"
  /\ UNCHANGED <<feature, iface, sent, roundVars>>

\* exec_dockerinspect raises: so does crawl(), and the caller goes on with the
\* next plugin.
InspectRaises ==
  /\ pc = "inspect" /\ Fault
  /\ pc' = "idle"
  /\ UNCHANGED <<feature, iface, dirVars, cleanup, roundVars>>

\* run_as_another_namespace raises or has no answer: nothing is started, and
\* no file is collected.
NoPeers ==
  /\ pc = "inspect" /\ Fault
  /\ pc' = "collect"
  /\ UNCHANGED <<feature, iface, dirVars, cleanup, roundVars>>

\* _crawl_in_system in the container's network namespace.  A peer that has no
\* address yet is left to the next crawl.
ReadPeers ==
  /\ pc = "inspect"
  /\ peers' = {i \in Ifaces : OwnerOf[i] = crawled /\ iface[i] = "up"}
  /\ pc' = "peers"
  /\ UNCHANGED <<feature, iface, dirVars, cleanup, crawled, ifnames, globs, held, faults>>

\* if_indextoname raises: the interface has gone in the meantime.
SkipPeer(i) ==
  /\ pc = "peers" /\ i \in peers /\ ~Exists(i)
  /\ peers' = peers \ {i}
  /\ UNCHANGED <<feature, iface, dirVars, cleanup, pc, crawled, ifnames, globs, held, faults>>

\* The bookkeeping for a peer whose name is known.
NamedPeer(i) ==
  /\ pc = "peers" /\ i \in peers /\ Exists(i)
  /\ peers' = peers \ {i}
  /\ ifnames' = ifnames \union {i}
  /\ UNCHANGED <<feature, iface, dirVars, cleanup, crawled, globs, held>>

PeersDone ==
  /\ pc = "peers" /\ peers = {}
  /\ pc' = "collect"
  /\ UNCHANGED <<feature, iface, dirVars, cleanup, roundVars, faults>>

-----------------------------------------------------------------------------
(* collect_files(), a generator that add_features reads to its end. *)

\* glob of the next interface, without the .tmp files.
NextGlob(i) ==
  /\ pc = "collect" /\ globs = {} /\ i \in ifnames
  /\ ifnames' = ifnames \ {i}
  /\ globs' = {f \in FilesOf({i}) : disk[f].state # "tmp"}
  /\ UNCHANGED <<feature, iface, dirVars, cleanup, pc, crawled, peers, held, faults>>

\* The file cannot be read; it stays where it is.
SkipFile(f) ==
  /\ pc = "collect" /\ f \in globs /\ disk[f].state = "garbled"
  /\ globs' = globs \ {f}
  /\ UNCHANGED <<feature, iface, dirVars, cleanup, pc, crawled, peers, ifnames, held, faults>>

\* Mutant of KeepFile: a file that cannot be removed is yielded all the same.
YieldUnremoved(f) ==
  /\ pc = "collect" /\ f \in globs /\ disk[f].state = "ready" /\ Fault
  /\ globs' = globs \ {f}
  /\ held' = f /\ pc' = "yield"
  /\ UNCHANGED <<feature, iface, dirVars, cleanup, crawled, peers, ifnames>>

\* os.remove raises: what was read is dropped, and read again in a later crawl.
KeepFile(f) ==
  /\ pc = "collect" /\ f \in globs /\ disk[f].state = "ready" /\ Fault
  /\ globs' = globs \ {f}
  /\ UNCHANGED <<feature, iface, dirVars, cleanup, pc, crawled, peers, ifnames, held>>

TakeFile(f) ==
  /\ pc = "collect" /\ f \in globs /\ disk[f].state = "ready"
  /\ globs' = globs \ {f}
  /\ disk' = Without({f})
  /\ held' = f /\ pc' = "yield"
  /\ UNCHANGED <<feature, iface, sent, cleanup, crawled, peers, ifnames, faults>>

Yield ==
  /\ pc = "yield"
  /\ sent' = [sent EXCEPT ![held] = @ + 1]
  /\ held' = None /\ pc' = "collect"
  /\ UNCHANGED <<feature, iface, disk, cleanup, crawled, peers, ifnames, globs, faults>>

CollectDone ==
  /\ pc = "collect" /\ globs = {} /\ ifnames = {}
  /\ pc' = "idle"
  /\ UNCHANGED <<feature, iface, dirVars, cleanup, roundVars, faults>>

-----------------------------------------------------------------------------

Ends == \E p \in Pids : OtherEnds(p)

\* What happens on the host whether or not there are probes.
Host ==
  \/ UNCHANGED proc /\ \E i \in Ifaces : Appear(i) \/ GetAddress(i)
  \/ UNCHANGED proc /\ \E f \in Files : EndFile(f) \/ SpoilFile(f) \/ GrowOld(f)
  \/ UNCHANGED proc /\ ComesDue
  \/ Ends \/ \E p \in Pids : OtherStarts(p)

\* The part of start_container_*probes before an interface is handled.
Peers == InspectRaises \/ NoPeers \/ ReadPeers \/ PeersDone \/ \E i \in Ifaces : SkipPeer(i)

Collect ==
  \/ \E i \in Ifaces : NextGlob(i)
  \/ \E f \in Files : SkipFile(f) \/ KeepFile(f) \/ TakeFile(f)
  \/ Yield \/ CollectDone

\* Time goes on, and processes that have nothing to do with the crawler do not
\* keep their PIDs for ever.
ClockFairness ==
  /\ WF_proc(Ends)
  /\ WF_probeVars(ComesDue)
  /\ \A f \in Files : WF_probeVars(GrowOld(f))

\* The crawler dies and starts again: what plugins remember in class attributes
\* is lost, what is on the host is not.
ForgetRound ==
  /\ cleanup' = "first" /\ pc' = "idle"
  /\ peers' = {} /\ ifnames' = {} /\ globs' = {} /\ held' = None
  /\ UNCHANGED <<feature, iface, dirVars, crawled>>

ProbeFilesInit ==
  /\ feature \in {"fprobe", "ctprobe"}
  /\ proc = [p \in Pids |-> "free"]
  /\ iface \in [Ifaces -> {"absent", "gone"}]
  /\ disk = [f \in Files |-> None]
  /\ sent = [f \in Files |-> 0]
  /\ cleanup = "first" /\ pc = "idle"
  /\ crawled \in Containers
  /\ peers = {} /\ ifnames = {} /\ globs = {} /\ held = None
  /\ faults \in 0..MaxFaults

ProbeFilesTypeOK ==
  /\ feature \in {"fprobe", "ctprobe"}
  /\ iface \in [Ifaces -> {"absent", "bare", "up", "gone"}]
  /\ disk \in [Files -> DataFile \union {None}]
  /\ sent \in [Files -> Nat]
  /\ cleanup \in {"first", "later", "due"}
  /\ crawled \in Containers
  /\ peers \subseteq Ifaces /\ ifnames \subseteq Ifaces
  /\ globs \subseteq Files
  /\ held \in Files \union {None}
  /\ faults \in 0..MaxFaults
-----------------------------------------------------------------------------

(* The content of a data file is never yielded twice, not after a failed      *)
(* removal and not after a restart.                                           *)
YieldedOnce == \A f \in Files : sent[f] <= 1

(* A data file disappears only because its content is about to be yielded,    *)
(* because nobody will ask for it any more (its interface is gone), or        *)
(* because it is older than the timeout.                                      *)
DropsOnlyStale ==
  [][\A f \in Files : Present(f) /\ disk'[f] = None =>
       held' = f \/ ~Exists(disk[f].iface) \/ disk[f].old]_<<disk, held>>
=============================================================================
