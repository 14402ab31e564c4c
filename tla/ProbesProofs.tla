----------------------------- MODULE ProbesProofs -----------------------------
(***************************************************************************)
(* Proofs about the two probe plugins, for any number of containers,       *)
(* interfaces, files, PIDs and failures.                                   *)
(*                                                                         *)
(* The inductive invariant has a part for the data files, which both       *)
(* plugins have, and one for the processes of each.                        *)
(***************************************************************************)
EXTENDS ProbePlugins, TLAPS

\* A file has been read and removed exactly while its content is to be yielded;
\* what a glob has found is there; nothing on the disk has been yielded.
FilesKept ==
  /\ pc = "yield" <=> held # None
  /\ pc \notin {"collect", "yield"} => globs = {}
  /\ \A f \in globs : Present(f)
  /\ \A f \in Files : /\ sent[f] <= 1
                      /\ Present(f) \/ held = f => sent[f] = 0
                      /\ ~(Present(f) /\ held = f)

\* What the plugin remembers of an interface is its softflowd, if it has one; but
\* the one just started is remembered only when its collector runs too.
Remembered ==
  loaded = "yes" => \A i \in Ifaces : \A p \in Probes(i) :
                      started[i] = p \/ (pc = "pair" /\ pair = [iface |-> i, watch_pid |-> p])

FlowKept ==
  /\ pc = "pair" => pair \in Collector /\ started[pair.iface] = None
  /\ loaded # "yes" => pc = "idle"
  /\ \A i \in Ifaces : Probes(i) # {} => Exists(i)
  /\ Remembered
  /\ OneProbe

SharedInv == ProbeFilesTypeOK /\ FilesKept
FlowInv == FlowTypeOK /\ FilesKept /\ FlowKept
CtInv == CtTypeOK /\ FilesKept /\ ListConfigured /\ OneConntrackprobe

IInv == IF feature = "fprobe" THEN FlowInv ELSE CtInv

-----------------------------------------------------------------------------
(* The part both plugins share. *)

\* A failure is counted up to the bound.
LEMMA FaultTyped ==
  ASSUME faults \in 0..MaxFaults, Fault
  PROVE  faults' \in 0..MaxFaults
BY ProbeAssumption DEF Fault

\* What happens on the host neither takes a file away nor touches the crawler.
LEMMA HostShared ==
  ASSUME SharedInv, Host
  PROVE  SharedInv' /\ pc' = pc /\ \A f \in Files : Present(f) => Present(f)'
<1>1. CASE \E i \in Ifaces : Appear(i) \/ GetAddress(i)
  <2> PICK i \in Ifaces : Appear(i) \/ GetAddress(i)
    BY <1>1
  <2> QED
    BY ProbeAssumption DEF SharedInv, ProbeFilesTypeOK, FilesKept, Present, Appear, GetAddress,
       dirVars, roundVars
<1>2. CASE \E f \in Files : EndFile(f) \/ SpoilFile(f) \/ GrowOld(f)
  <2> PICK f \in Files : EndFile(f) \/ SpoilFile(f) \/ GrowOld(f)
    BY <1>2
  <2>1. disk[f] \in DataFile /\ Present(f)
    BY DEF SharedInv, ProbeFilesTypeOK, Present, EndFile, SpoilFile, GrowOld
  <2>2. PICK d \in DataFile : disk' = [disk EXCEPT ![f] = d]
    <3>1. CASE EndFile(f)
      <4> DEFINE d == [disk[f] EXCEPT !.state = "ready"]
      <4>1. d \in DataFile
        BY <2>1 DEF DataFile, FileStates
      <4> QED
        BY <3>1, <4>1 DEF EndFile
    <3>2. CASE SpoilFile(f)
      <4> DEFINE d == [disk[f] EXCEPT !.state = "garbled"]
      <4>1. d \in DataFile
        BY <2>1 DEF DataFile, FileStates
      <4> QED
        BY <3>2, <4>1 DEF SpoilFile
    <3>3. CASE GrowOld(f)
      <4> DEFINE d == [disk[f] EXCEPT !.old = TRUE]
      <4>1. d \in DataFile
        BY <2>1 DEF DataFile, FileStates
      <4> QED
        BY <3>3, <4>1 DEF GrowOld
    <3> QED
      BY <3>1, <3>2, <3>3
  <2>3. faults' \in 0..MaxFaults
    BY FaultTyped DEF SharedInv, ProbeFilesTypeOK, EndFile, SpoilFile, GrowOld
  <2>4. UNCHANGED <<feature, iface, sent, cleanup, pc, roundVars>>
    BY DEF EndFile, SpoilFile, GrowOld
  <2>5. disk' \in [Files -> DataFile \union {None}]
    BY <2>2 DEF SharedInv, ProbeFilesTypeOK
  <2>6. \A g \in Files : Present(g)' <=> Present(g)
    BY <2>1, <2>2, ProbeAssumption DEF SharedInv, ProbeFilesTypeOK, Present
  <2> QED
    BY <2>3, <2>4, <2>5, <2>6 DEF SharedInv, ProbeFilesTypeOK, FilesKept, roundVars
<1>3. CASE ComesDue
  BY <1>3 DEF SharedInv, ProbeFilesTypeOK, FilesKept, Present, ComesDue, dirVars, roundVars
<1>4. CASE Ends
  BY <1>4 DEF SharedInv, ProbeFilesTypeOK, FilesKept, Present, Ends, OtherEnds, probeVars
<1>5. CASE \E p \in Pids : OtherStarts(p)
  BY <1>5, FaultTyped DEF SharedInv, ProbeFilesTypeOK, FilesKept, Present, OtherStarts, dirVars,
     roundVars
<1> QED
  BY <1>1, <1>2, <1>3, <1>4, <1>5 DEF Host

\* An interface that disappears leaves its files where they are.
LEMMA DisappearShared ==
  ASSUME SharedInv, NEW i \in Ifaces, Disappear(i)
  PROVE  SharedInv' /\ pc' = pc
BY DEF SharedInv, ProbeFilesTypeOK, FilesKept, Present, Disappear, dirVars, roundVars

\* A file that is begun has not been yielded and is not about to be.
LEMMA BeginShared ==
  ASSUME SharedInv, NEW f \in Files, NEW i \in Ifaces, BeginFile(f, i)
  PROVE  SharedInv' /\ pc' = pc /\ \A g \in Files : Present(g) => Present(g)'
<1>1. [iface |-> i, state |-> "tmp", old |-> FALSE] \in DataFile
  BY DEF DataFile, FileStates
<1>2. disk' \in [Files -> DataFile \union {None}]
  BY <1>1 DEF SharedInv, ProbeFilesTypeOK, BeginFile
<1>3. Present(f)' /\ \A g \in Files \ {f} : Present(g)' <=> Present(g)
  BY <1>1, ProbeAssumption DEF SharedInv, ProbeFilesTypeOK, BeginFile, Present
<1> QED
  BY <1>2, <1>3 DEF SharedInv, ProbeFilesTypeOK, FilesKept, BeginFile, roundVars

\* A crawl begins with the files as they are.
LEMMA CrawlShared ==
  ASSUME SharedInv, StartCrawl
  PROVE  SharedInv' /\ pc' \in {"inspect", "cleanup"}
BY ProbeAssumption DEF SharedInv, ProbeFilesTypeOK, FilesKept, Present, StartCrawl, dirVars

\* Files disappear when nothing has been found by a glob yet.
LEMMA CleanupShared ==
  ASSUME SharedInv, NEW known, Cleanup(known)
  PROVE  SharedInv' /\ pc' = "inspect"
<1>1. PICK S : disk' = Without(S)
  BY DEF Cleanup, RemoveFiles
<1>2. disk' \in [Files -> DataFile \union {None}]
  BY <1>1 DEF SharedInv, ProbeFilesTypeOK, Without
<1>3. \A f \in Files : Present(f)' => Present(f)
  BY <1>1 DEF Without, Present
<1>4. faults' \in 0..MaxFaults
  BY FaultTyped DEF SharedInv, ProbeFilesTypeOK, Cleanup, RemoveFiles
<1> QED
  BY <1>2, <1>3, <1>4 DEF SharedInv, ProbeFilesTypeOK, FilesKept, Cleanup, roundVars

\* Looking for the peers of a container touches no file.
LEMMA PeersShared ==
  ASSUME SharedInv, Peers
  PROVE  SharedInv' /\ pc' \in {"idle", "collect", "peers"}
<1>1. faults' \in 0..MaxFaults
  BY FaultTyped DEF SharedInv, ProbeFilesTypeOK, Peers, InspectRaises, NoPeers, ReadPeers, PeersDone,
     SkipPeer
<1>2. peers' \subseteq Ifaces
  BY DEF SharedInv, ProbeFilesTypeOK, Peers, InspectRaises, NoPeers, ReadPeers, PeersDone, SkipPeer,
     roundVars
<1>3. UNCHANGED <<feature, iface, disk, sent, cleanup, crawled, ifnames, globs, held>>
  BY DEF Peers, InspectRaises, NoPeers, ReadPeers, PeersDone, SkipPeer, dirVars, roundVars
<1>4. pc \in {"inspect", "peers"} /\ pc' \in {"idle", "collect", "peers"}
  BY DEF Peers, InspectRaises, NoPeers, ReadPeers, PeersDone, SkipPeer
<1> QED
  BY <1>1, <1>2, <1>3, <1>4 DEF SharedInv, ProbeFilesTypeOK, FilesKept, Present

\* Nor does going on to the next interface.
LEMMA NamedShared ==
  ASSUME SharedInv, NEW i \in Ifaces, NamedPeer(i), faults' \in 0..MaxFaults,
         pc' \in {"peers", "pair"}
  PROVE  SharedInv'
BY DEF SharedInv, ProbeFilesTypeOK, FilesKept, Present, NamedPeer, dirVars

\* A file's content is yielded once because the file has been removed before.
LEMMA CollectShared ==
  ASSUME SharedInv, Collect
  PROVE  SharedInv' /\ pc' \in {"idle", "collect", "yield"}
<1>1. CASE \E i \in Ifaces : NextGlob(i)
  BY <1>1 DEF SharedInv, ProbeFilesTypeOK, FilesKept, Present, NextGlob, FilesOf, dirVars
<1>2. CASE \E f \in Files : SkipFile(f) \/ KeepFile(f)
  <2> PICK f \in Files : SkipFile(f) \/ KeepFile(f)
    BY <1>2
  <2>1. faults' \in 0..MaxFaults
    BY FaultTyped DEF SharedInv, ProbeFilesTypeOK, SkipFile, KeepFile
  <2> QED
    BY <2>1 DEF SharedInv, ProbeFilesTypeOK, FilesKept, Present, SkipFile, KeepFile, dirVars
<1>3. CASE \E f \in Files : TakeFile(f)
  <2> PICK f \in Files : TakeFile(f)
    BY <1>3
  <2>1. disk' \in [Files -> DataFile \union {None}]
    BY DEF SharedInv, ProbeFilesTypeOK, TakeFile, Without
  <2>2. \A g \in Files : Present(g)' <=> Present(g) /\ g # f
    BY DEF TakeFile, Without, Present
  <2>3. Present(f) /\ held = None /\ held' = f
    BY DEF SharedInv, FilesKept, TakeFile
  <2>4. ProbeFilesTypeOK'
    BY <2>1, <2>3 DEF SharedInv, ProbeFilesTypeOK, TakeFile
  <2>5. FilesKept'
    BY <2>2, <2>3, ProbeAssumption DEF SharedInv, ProbeFilesTypeOK, FilesKept, TakeFile
  <2> QED
    BY <2>4, <2>5 DEF SharedInv, TakeFile
<1>4. CASE Yield
  <2>1. held \in Files /\ sent[held] = 0
    BY <1>4 DEF SharedInv, ProbeFilesTypeOK, FilesKept, Yield
  <2>2. sent' \in [Files -> Nat] /\ sent' = [sent EXCEPT ![held] = 1]
    BY <1>4, <2>1 DEF SharedInv, ProbeFilesTypeOK, Yield
  <2>3. ProbeFilesTypeOK'
    BY <1>4, <2>2 DEF SharedInv, ProbeFilesTypeOK, Yield
  <2>4. \A f \in Files : Present(f)' <=> Present(f)
    BY <1>4 DEF Yield, Present
  <2>5. \A f \in Files : /\ sent'[f] <= 1
                        /\ Present(f)' => sent'[f] = 0
    BY <2>1, <2>2, <2>4 DEF SharedInv, ProbeFilesTypeOK, FilesKept
  <2>6. FilesKept'
    BY <1>4, <2>4, <2>5, ProbeAssumption DEF SharedInv, ProbeFilesTypeOK, FilesKept, Yield
  <2> QED
    BY <1>4, <2>3, <2>6 DEF SharedInv, Yield
<1>5. CASE CollectDone
  BY <1>5 DEF SharedInv, ProbeFilesTypeOK, FilesKept, Present, CollectDone, dirVars, roundVars
<1> QED
  BY <1>1, <1>2, <1>3, <1>4, <1>5 DEF Collect

\* What was found for a crawl is forgotten with it; the files stay.
LEMMA ForgetShared ==
  ASSUME SharedInv, ForgetRound, faults' \in 0..MaxFaults
  PROVE  SharedInv' /\ pc' = "idle"
BY ProbeAssumption DEF SharedInv, ProbeFilesTypeOK, FilesKept, Present, ForgetRound, dirVars

-----------------------------------------------------------------------------
(* softflowd and its collectors. *)

\* The part of the flow probes' invariant that both plugins share.
LEMMA FlowInvShared == FlowInv <=> SharedInv /\ FlowTypeOK /\ FlowKept
BY DEF FlowInv, SharedInv, FlowTypeOK

\* A step that starts no softflowd and leaves the plugin's memory alone.
LEMMA FewerProbes ==
  ASSUME FlowKept, UNCHANGED <<started, loaded, pair>>,
         pc' = "pair" <=> pc = "pair", loaded # "yes" => pc' = "idle",
         \A i \in Ifaces : Probes(i)' \subseteq Probes(i),
         \A i \in Ifaces : Probes(i)' # {} => Exists(i)'
  PROVE  FlowKept'
<1>1. Remembered'
  BY DEF FlowKept, Remembered
<1>2. OneProbe'
  BY DEF FlowKept, OneProbe
<1> QED
  BY <1>1, <1>2 DEF FlowKept

\* The same for a step that leaves the processes and the interfaces alone.
LEMMA SameProbes ==
  ASSUME FlowKept, UNCHANGED <<proc, iface, started, loaded, pair>>,
         pc' = "pair" <=> pc = "pair", loaded # "yes" => pc' = "idle"
  PROVE  FlowKept'
<1>1. \A i \in Ifaces : Probes(i)' = Probes(i) /\ (Exists(i)' <=> Exists(i))
  BY DEF Probes, Exists
<1> QED
  BY <1>1, FewerProbes DEF FlowKept

\* interfaces_with_fprobes finds the softflowd of every interface that has one,
\* because no interface has two.
LEMMA LoadFinds ==
  ASSUME FlowInv, Load
  PROVE  FlowInv'
<1>1. started' \in [Ifaces -> Pids \union {None}]
  BY DEF Load, RunningProbes, Probes
<1>2. \A i \in Ifaces : Probes(i)' = Probes(i) /\ (Exists(i)' <=> Exists(i))
  BY DEF Load, probeVars, Probes, Exists
<1>3. ASSUME NEW i \in Ifaces, NEW p \in Probes(i)
      PROVE  started'[i] = p
  <2>1. started'[i] \in Probes(i)
    BY <1>3 DEF Load, RunningProbes
  <2> QED
    BY <1>3, <2>1 DEF FlowInv, FlowKept, OneProbe
<1>4. SharedInv'
  BY DEF FlowInv, SharedInv, FlowTypeOK, ProbeFilesTypeOK, FilesKept, Present, Load, probeVars
<1>5. FlowTypeOK'
  BY <1>1, <1>4 DEF FlowInv, FlowTypeOK, SharedInv, Load, probeVars
<1>6. Remembered' /\ OneProbe'
  BY <1>2, <1>3 DEF FlowInv, FlowKept, Remembered, OneProbe
<1>7. FlowKept'
  BY <1>2, <1>6 DEF FlowInv, FlowKept, Load, probeVars
<1> QED
  BY <1>4, <1>5, <1>7 DEF FlowInv, SharedInv

\* A plugin that could not be imported neither remembers nor starts anything.
LEMMA LoadFailsKeeps ==
  ASSUME FlowInv, LoadFails
  PROVE  FlowInv'
<1>1. faults' \in 0..MaxFaults
  BY FaultTyped DEF FlowInv, FlowTypeOK, ProbeFilesTypeOK, LoadFails
<1>2. SharedInv'
  BY <1>1 DEF FlowInv, SharedInv, FlowTypeOK, ProbeFilesTypeOK, FilesKept, Present, LoadFails,
     dirVars, roundVars
<1>3. FlowTypeOK'
  BY <1>2 DEF FlowInv, FlowTypeOK, SharedInv, LoadFails
<1>4. \A i \in Ifaces : Probes(i)' = Probes(i) /\ (Exists(i)' <=> Exists(i))
  BY DEF LoadFails, Probes, Exists
<1>5. Remembered' /\ OneProbe'
  BY <1>4 DEF FlowInv, FlowKept, Remembered, OneProbe, LoadFails
<1>6. FlowKept'
  BY <1>4, <1>5 DEF FlowInv, FlowKept, LoadFails
<1> QED
  BY <1>2, <1>3, <1>6 DEF FlowInv, SharedInv

\* Only interfaces without a softflowd are forgotten.
LEMMA FlowCleanupKeeps ==
  ASSUME FlowInv, FlowCleanup
  PROVE  FlowInv'
<1>1. SharedInv' /\ pc' = "inspect"
  BY FlowInvShared, CleanupShared DEF FlowCleanup
<1>2. \A i \in Ifaces : Probes(i)' = Probes(i) /\ (Exists(i)' <=> Exists(i))
  BY DEF FlowCleanup, Cleanup, Probes, Exists
<1>3. FlowTypeOK'
  BY <1>1 DEF FlowInv, FlowTypeOK, SharedInv, FlowCleanup
<1>4. pc = "cleanup"
  BY DEF FlowCleanup, Cleanup
<1>5. Remembered'
  BY <1>2, <1>4 DEF FlowInv, FlowKept, Remembered, FlowCleanup
<1>6. OneProbe'
  BY <1>2 DEF FlowInv, FlowKept, OneProbe
<1>7. FlowKept'
  BY <1>1, <1>2, <1>4, <1>5, <1>6 DEF FlowInv, FlowKept, FlowCleanup
<1> QED
  BY <1>1, <1>3, <1>7 DEF FlowInv, SharedInv

\* When a softflowd is needed, the interface has none: the PID remembered is that
\* of its only one.
LEMMA NeededWhenNone ==
  ASSUME FlowInv, NEW i \in Ifaces, pc = "peers", need_start_fprobe(i)
  PROVE  Probes(i) = {}
BY DEF FlowInv, FlowKept, Remembered, need_start_fprobe

\* A softflowd that does not start leaves the interface without one.
LEMMA StartFailsKeeps ==
  ASSUME FlowInv, NEW i \in Ifaces, StartFails(i)
  PROVE  FlowInv'
<1>1. Probes(i) = {} /\ pc = "peers"
  BY NeededWhenNone DEF StartFails, NamedPeer
<1>2. faults' \in 0..MaxFaults
  BY FaultTyped DEF FlowInv, FlowTypeOK, ProbeFilesTypeOK, StartFails
<1>3. SharedInv'
  BY <1>1, <1>2, NamedShared, FlowInvShared DEF StartFails
<1>4. FlowTypeOK'
  BY <1>3 DEF FlowInv, FlowTypeOK, SharedInv, StartFails
<1>5. \A j \in Ifaces : Probes(j)' = Probes(j) /\ (Exists(j)' <=> Exists(j))
  BY DEF StartFails, NamedPeer, Probes, Exists
<1>6. Remembered'
  BY <1>1, <1>5 DEF FlowInv, FlowTypeOK, FlowKept, Remembered, StartFails
<1>7. OneProbe'
  BY <1>5 DEF FlowInv, FlowKept, OneProbe
<1>8. FlowKept'
  BY <1>1, <1>5, <1>6, <1>7 DEF FlowInv, FlowKept, StartFails
<1> QED
  BY <1>3, <1>4, <1>8 DEF FlowInv, SharedInv

\* The one softflowd started is the only one of its interface.
LEMMA StartFprobeKeeps ==
  ASSUME FlowInv, NEW i \in Ifaces, NEW p \in Pids, StartFprobe(i, p)
  PROVE  FlowInv'
<1>1. Probes(i) = {} /\ pc = "peers" /\ loaded = "yes"
  BY NeededWhenNone DEF StartFprobe, NamedPeer, FlowInv, FlowKept
<1>2. SharedInv'
  BY <1>1, NamedShared, FlowInvShared DEF StartFprobe, SharedInv, ProbeFilesTypeOK
<1>3. pair' = [iface |-> i, watch_pid |-> p] /\ pair' \in Collector
  BY DEF StartFprobe, Collector
<1>4. proc' = [proc EXCEPT ![p] = i] /\ proc[p] = "free" /\ "free" \notin Ifaces
  BY ProbeAssumption DEF StartFprobe, start_child
<1>5. FlowTypeOK'
  BY <1>2, <1>3, <1>4 DEF FlowInv, FlowTypeOK, SharedInv, StartFprobe
<1>6. Probes(i)' = {p}
  BY <1>1, <1>4 DEF FlowInv, FlowTypeOK, Probes
<1>7. \A j \in Ifaces \ {i} : Probes(j)' = Probes(j)
  BY <1>4 DEF FlowInv, FlowTypeOK, Probes
<1>8. \A j \in Ifaces : Exists(j)' <=> Exists(j)
  BY DEF StartFprobe, NamedPeer, Exists
<1>9. started' = [started EXCEPT ![i] = None] /\ pc' = "pair" /\ loaded' = loaded
  BY DEF StartFprobe
<1>10. Exists(i)
  BY DEF StartFprobe, NamedPeer
<1>11. Remembered'
  <2> SUFFICES ASSUME NEW j \in Ifaces, NEW q \in Probes(j)'
               PROVE  started'[j] = q \/ pair' = [iface |-> j, watch_pid |-> q]
    BY <1>9 DEF Remembered
  <2>1. CASE j = i
    BY <2>1, <1>3, <1>6
  <2>2. CASE j # i
    <3>1. q \in Probes(j)
      BY <2>2, <1>7
    <3>2. started[j] = q
      BY <3>1, <1>1 DEF FlowInv, FlowKept, Remembered
    <3> QED
      BY <2>2, <3>2, <1>9 DEF FlowInv, FlowTypeOK
  <2> QED
    BY <2>1, <2>2
<1>12. OneProbe'
  BY <1>6, <1>7 DEF FlowInv, FlowKept, OneProbe
<1>13. started'[pair'.iface] = None
  BY <1>3, <1>9 DEF FlowInv, FlowTypeOK
<1>14. \A j \in Ifaces : Probes(j)' # {} => Exists(j)'
  BY <1>7, <1>8, <1>10 DEF FlowInv, FlowKept
<1>15. FlowKept'
  BY <1>1, <1>3, <1>9, <1>11, <1>12, <1>13, <1>14 DEF FlowKept
<1> QED
  BY <1>2, <1>5, <1>15 DEF FlowInv, SharedInv

\* What is remembered now is the softflowd that was started.
LEMMA StartCollectorKeeps ==
  ASSUME FlowInv, StartCollector
  PROVE  FlowInv'
<1>1. pair \in Collector /\ started[pair.iface] = None /\ loaded = "yes" /\ held = None /\ globs = {}
  BY DEF FlowInv, FlowKept, FilesKept, StartCollector
<1>2. pair.iface \in Ifaces /\ pair.watch_pid \in Pids
  BY <1>1 DEF Collector
<1>3. SharedInv'
  BY <1>1 DEF FlowInv, SharedInv, FlowTypeOK, ProbeFilesTypeOK, FilesKept, Present, StartCollector,
     dirVars, roundVars
<1>4. FlowTypeOK'
  BY <1>1, <1>2, <1>3 DEF FlowInv, FlowTypeOK, SharedInv, StartCollector
<1>5. \A i \in Ifaces : Probes(i)' = Probes(i) /\ (Exists(i)' <=> Exists(i))
  BY DEF StartCollector, Probes, Exists
<1>6. started' = [started EXCEPT ![pair.iface] = pair.watch_pid]
  BY DEF StartCollector
<1>7. Remembered'
  <2> SUFFICES ASSUME NEW i \in Ifaces, NEW p \in Probes(i)
               PROVE  started'[i] = p
    BY <1>5 DEF Remembered
  <2>1. started[i] = p \/ pair = [iface |-> i, watch_pid |-> p]
    BY <1>1 DEF FlowInv, FlowKept, Remembered
  <2>2. p \in Pids /\ p # None
    BY ProbeAssumption DEF Probes
  <2> QED
    BY <1>1, <1>2, <1>6, <2>1, <2>2 DEF FlowInv, FlowTypeOK
<1>8. OneProbe'
  BY <1>5 DEF FlowInv, FlowKept, OneProbe
<1>9. FlowKept'
  BY <1>1, <1>5, <1>7, <1>8 DEF FlowInv, FlowKept, StartCollector
<1> QED
  BY <1>3, <1>4, <1>9 DEF FlowInv, SharedInv

\* The softflowd without a collector is killed, or whatever has its PID by now.
LEMMA CollectorFailsKeeps ==
  ASSUME FlowInv, CollectorFails
  PROVE  FlowInv'
<1>1. pair \in Collector /\ loaded = "yes" /\ held = None /\ globs = {} /\ pc = "pair"
  BY DEF FlowInv, FlowKept, FilesKept, CollectorFails
<1>2. pair.watch_pid \in Pids
  BY <1>1 DEF Collector
<1>3. faults' \in 0..MaxFaults
  BY FaultTyped DEF FlowInv, FlowTypeOK, ProbeFilesTypeOK, CollectorFails
<1>4. SharedInv'
  BY <1>1, <1>3 DEF FlowInv, SharedInv, FlowTypeOK, ProbeFilesTypeOK, FilesKept, Present,
     CollectorFails, dirVars
<1>5. FlowTypeOK'
  BY <1>4 DEF FlowInv, FlowTypeOK, SharedInv, CollectorFails
<1>6. \A i \in Ifaces : Probes(i)' \subseteq Probes(i) \ {pair.watch_pid}
  BY <1>2, ProbeAssumption DEF FlowInv, FlowTypeOK, CollectorFails, Probes
<1>7. \A i \in Ifaces : Exists(i)' <=> Exists(i)
  BY DEF CollectorFails, Exists
<1>8. Remembered'
  <2> SUFFICES ASSUME NEW i \in Ifaces, NEW p \in Probes(i)'
               PROVE  started'[i] = p
    BY DEF Remembered
  <2>1. p \in Probes(i) /\ p # pair.watch_pid
    BY <1>6
  <2>2. started[i] = p \/ pair = [iface |-> i, watch_pid |-> p]
    BY <1>1, <2>1 DEF FlowInv, FlowKept, Remembered
  <2> QED
    BY <2>1, <2>2 DEF CollectorFails
<1>9. OneProbe'
  BY <1>6 DEF FlowInv, FlowKept, OneProbe
<1>10. FlowKept'
  BY <1>1, <1>6, <1>7, <1>8, <1>9 DEF FlowInv, FlowKept, CollectorFails
<1> QED
  BY <1>4, <1>5, <1>10 DEF FlowInv, SharedInv

\* Every step of the crawler with fprobe.
LEMMA FlowCrawlerInductive ==
  ASSUME FlowInv, FlowCrawler
  PROVE  FlowInv'
<1>1. SharedInv /\ FlowTypeOK /\ FlowKept
  BY FlowInvShared
<1>2. CASE loaded = "yes" /\ StartCrawl /\ UNCHANGED <<proc, flowVars>>
  <2>1. SharedInv' /\ pc' \in {"inspect", "cleanup"}
    BY <1>1, <1>2, CrawlShared
  <2>2. FlowTypeOK'
    BY <1>1, <1>2, <2>1 DEF FlowTypeOK, SharedInv, flowVars
  <2>3. FlowKept'
    BY <1>1, <1>2, <2>1, SameProbes DEF StartCrawl, flowVars
  <2> QED
    BY <2>1, <2>2, <2>3, FlowInvShared DEF FlowInv, SharedInv
<1>3. CASE Peers /\ UNCHANGED <<proc, flowVars>>
  <2>1. SharedInv' /\ pc' \in {"idle", "collect", "peers"}
    BY <1>1, <1>3, PeersShared
  <2>2. FlowTypeOK'
    BY <1>1, <1>3, <2>1 DEF FlowTypeOK, SharedInv, flowVars
  <2>3. pc \in {"inspect", "peers"} /\ iface' = iface
    BY <1>3 DEF Peers, InspectRaises, NoPeers, ReadPeers, PeersDone, SkipPeer
  <2>4. FlowKept'
    BY <1>1, <1>3, <2>1, <2>3, SameProbes DEF FlowKept, flowVars
  <2> QED
    BY <2>1, <2>2, <2>4 DEF FlowInv, SharedInv
<1>4. ASSUME NEW i \in Ifaces, AlreadyProbed(i)
      PROVE  FlowInv'
  <2>1. SharedInv' /\ pc' = "peers"
    BY <1>1, <1>4, NamedShared DEF SharedInv, ProbeFilesTypeOK, AlreadyProbed, NamedPeer
  <2>2. FlowTypeOK'
    BY <1>1, <1>4, <2>1 DEF FlowTypeOK, SharedInv, AlreadyProbed, flowVars
  <2>3. FlowKept'
    BY <1>1, <1>4, <2>1, SameProbes DEF FlowKept, AlreadyProbed, NamedPeer, flowVars
  <2> QED
    BY <2>1, <2>2, <2>3 DEF FlowInv, SharedInv
<1>5. CASE CollectFlowFiles
  <2>1. SharedInv' /\ pc' \in {"idle", "collect", "yield"}
    BY <1>1, <1>5, CollectShared DEF CollectFlowFiles
  <2>2. FlowTypeOK'
    BY <1>1, <1>5, <2>1 DEF FlowTypeOK, SharedInv, CollectFlowFiles, flowVars
  <2>3. pc \in {"collect", "yield"} /\ iface' = iface
    BY <1>5 DEF CollectFlowFiles, Collect, NextGlob, SkipFile, KeepFile, TakeFile, Yield, CollectDone
  <2>4. FlowKept'
    BY <1>1, <1>5, <2>1, <2>3, SameProbes DEF FlowKept, CollectFlowFiles, flowVars
  <2> QED
    BY <2>1, <2>2, <2>4 DEF FlowInv, SharedInv
<1> QED
  BY <1>2, <1>3, <1>4, <1>5, LoadFinds, LoadFailsKeeps, FlowCleanupKeeps, StartFailsKeeps, StartFprobeKeeps,
     StartCollectorKeeps, CollectorFailsKeeps DEF FlowCrawler, start_container_fprobes

\* Every other step: processes only end, files are written, the crawler dies.
LEMMA FlowHostInductive ==
  ASSUME FlowInv, FlowHost
  PROVE  FlowInv'
<1>1. SharedInv /\ FlowTypeOK /\ FlowKept
  BY FlowInvShared
<1>2. CASE Host /\ UNCHANGED flowVars
  <2>1. SharedInv' /\ pc' = pc
    BY <1>1, <1>2, HostShared
  <2>2. proc' \in [Pids -> {"free", "other"} \union Ifaces]
    BY <1>1, <1>2 DEF FlowTypeOK, Host, Ends, OtherEnds, OtherStarts
  <2>3. FlowTypeOK'
    <3>1. \A p \in Pids : proc[p] \in Ifaces => proc'[p] = proc[p]
      BY <1>1, <1>2, ProbeAssumption DEF FlowTypeOK, Host, Ends, OtherEnds, OtherStarts
    <3>2. bereft' \subseteq {p \in Pids : proc'[p] \in Ifaces}
      BY <1>1, <1>2, <3>1 DEF FlowTypeOK, flowVars
    <3> QED
      BY <1>1, <1>2, <2>1, <2>2, <3>2 DEF FlowTypeOK, SharedInv, flowVars
  <2>4. \A i \in Ifaces : Probes(i)' \subseteq Probes(i)
    BY <1>1, <1>2, ProbeAssumption DEF FlowTypeOK, Host, Ends, OtherEnds, OtherStarts, Probes
  <2>5. \A i \in Ifaces : Exists(i) => Exists(i)'
    BY <1>1, <1>2 DEF FlowTypeOK, ProbeFilesTypeOK, Host, Appear, GetAddress, EndFile, SpoilFile,
       GrowOld, ComesDue, Ends, OtherEnds, OtherStarts, probeVars, Exists
  <2>6. \A i \in Ifaces : Probes(i)' # {} => Exists(i)'
    BY <1>1, <2>4, <2>5 DEF FlowKept
  <2>7. FlowKept'
    BY <1>1, <1>2, <2>1, <2>4, <2>6, FewerProbes DEF FlowKept, flowVars
  <2> QED
    BY <2>1, <2>3, <2>7 DEF FlowInv, SharedInv
<1>3. ASSUME NEW p \in Pids, ProbeDies(p)
      PROVE  FlowInv'
  <2>1. faults' \in 0..MaxFaults
    BY <1>1, <1>3, FaultTyped DEF FlowTypeOK, ProbeFilesTypeOK, ProbeDies
  <2>2. SharedInv'
    BY <1>1, <1>3, <2>1 DEF SharedInv, ProbeFilesTypeOK, FilesKept, Present, ProbeDies, dirVars,
       roundVars
  <2>3. FlowTypeOK'
    BY <1>1, <1>3, <2>2 DEF FlowTypeOK, SharedInv, ProbeDies, flowVars
  <2>4. \A i \in Ifaces : Probes(i)' \subseteq Probes(i) /\ (Exists(i)' <=> Exists(i))
    BY <1>1, <1>3, ProbeAssumption DEF FlowTypeOK, ProbeDies, Probes, Exists
  <2>5. \A i \in Ifaces : Probes(i)' # {} => Exists(i)'
    BY <1>1, <2>4 DEF FlowKept
  <2>6. FlowKept'
    BY <1>1, <1>3, <2>4, <2>5, FewerProbes DEF FlowKept, ProbeDies, flowVars
  <2> QED
    BY <2>2, <2>3, <2>6 DEF FlowInv, SharedInv
<1>4. ASSUME NEW c \in collectors, CollectorEnds(c)
      PROVE  FlowInv'
  <2>1. SharedInv'
    BY <1>1, <1>4 DEF SharedInv, ProbeFilesTypeOK, FilesKept, Present, CollectorEnds, probeVars
  <2>2. FlowTypeOK'
    BY <1>1, <1>4, <2>1 DEF FlowTypeOK, SharedInv, CollectorEnds, probeVars
  <2>3. FlowKept'
    BY <1>1, <1>4, SameProbes DEF FlowKept, CollectorEnds, probeVars
  <2> QED
    BY <2>1, <2>2, <2>3 DEF FlowInv, SharedInv
<1>8. ASSUME NEW c \in collectors, CollectorDies(c)
      PROVE  FlowInv'
  <2>1. faults' \in 0..MaxFaults
    BY <1>1, <1>8, FaultTyped DEF FlowTypeOK, ProbeFilesTypeOK, CollectorDies
  <2>2. SharedInv'
    BY <1>1, <1>8, <2>1 DEF SharedInv, ProbeFilesTypeOK, FilesKept, Present, CollectorDies, dirVars,
       roundVars
  <2>3. FlowTypeOK'
    <3>1. c.iface \in Ifaces
      BY <1>1 DEF FlowTypeOK, Collector
    <3>2. bereft' \subseteq {p \in Pids : proc'[p] \in Ifaces}
      BY <1>1, <1>8, <3>1 DEF FlowTypeOK, CollectorDies, Probes
    <3> QED
      BY <1>1, <1>8, <2>2, <3>2 DEF FlowTypeOK, SharedInv, CollectorDies
  <2>4. FlowKept'
    BY <1>1, <1>8, SameProbes DEF FlowKept, CollectorDies
  <2> QED
    BY <2>2, <2>3, <2>4 DEF FlowInv, SharedInv
<1>5. ASSUME NEW i \in Ifaces, FlowIfaceGoes(i)
      PROVE  FlowInv'
  <2>1. SharedInv' /\ pc' = pc
    BY <1>1, <1>5, DisappearShared DEF FlowIfaceGoes
  <2>2. FlowTypeOK'
    <3>1. bereft' \subseteq {p \in Pids : proc'[p] \in Ifaces}
      BY <1>1, <1>5 DEF FlowTypeOK, FlowIfaceGoes, Probes
    <3>2. proc' \in [Pids -> {"free", "other"} \union Ifaces]
      BY <1>1, <1>5 DEF FlowTypeOK, FlowIfaceGoes
    <3> QED
      BY <1>1, <1>5, <2>1, <3>1, <3>2 DEF FlowTypeOK, SharedInv, FlowIfaceGoes
  <2>3. \A j \in Ifaces : Probes(j)' \subseteq Probes(j)
    BY <1>1, <1>5, ProbeAssumption DEF FlowTypeOK, FlowIfaceGoes, Probes
  <2>4. Probes(i)' = {}
    BY <1>1, <1>5, ProbeAssumption DEF FlowTypeOK, FlowIfaceGoes, Probes
  <2>5. \A j \in Ifaces \ {i} : Exists(j)' <=> Exists(j)
    BY <1>1, <1>5 DEF FlowTypeOK, ProbeFilesTypeOK, FlowIfaceGoes, Disappear, Exists
  <2>6. \A j \in Ifaces : Probes(j)' # {} => Exists(j)'
    BY <1>1, <2>3, <2>4, <2>5 DEF FlowKept
  <2>7. FlowKept'
    BY <1>1, <1>5, <2>1, <2>3, <2>6, FewerProbes DEF FlowKept, FlowIfaceGoes, flowVars
  <2> QED
    BY <2>1, <2>2, <2>7 DEF FlowInv, SharedInv
<1>6. ASSUME NEW f \in Files, CollectorWrites(f)
      PROVE  FlowInv'
  <2>1. PICK c \in collectors : BeginFile(f, c.iface)
    BY <1>6 DEF CollectorWrites
  <2>2. c.iface \in Ifaces
    BY <1>1 DEF FlowTypeOK, Collector
  <2>3. SharedInv' /\ pc' = pc
    BY <1>1, <2>1, <2>2, BeginShared
  <2>4. FlowTypeOK'
    BY <1>1, <1>6, <2>3 DEF FlowTypeOK, SharedInv, CollectorWrites, flowVars
  <2>5. FlowKept'
    BY <1>1, <1>6, <2>1, <2>3, SameProbes DEF FlowKept, CollectorWrites, BeginFile, flowVars
  <2> QED
    BY <2>3, <2>4, <2>5 DEF FlowInv, SharedInv
<1>7. CASE Crash
  <2>1. faults' \in 0..MaxFaults
    BY <1>1, <1>7, FaultTyped DEF FlowTypeOK, ProbeFilesTypeOK, Crash
  <2>2. SharedInv' /\ pc' = "idle"
    BY <1>1, <1>7, <2>1, ForgetShared DEF Crash
  <2>3. FlowTypeOK'
    <3>1. pc = "pair" => pair.iface \in Ifaces
      BY <1>1 DEF FlowKept, Collector
    <3>2. bereft' \subseteq {p \in Pids : proc'[p] \in Ifaces}
      BY <1>1, <1>7, <3>1 DEF FlowTypeOK, Crash, Probes
    <3> QED
      BY <1>1, <1>7, <2>2, <3>2 DEF FlowTypeOK, SharedInv, Crash
  <2>4. \A i \in Ifaces : Probes(i)' = Probes(i) /\ (Exists(i)' <=> Exists(i))
    BY <1>7 DEF Crash, ForgetRound, Probes, Exists
  <2>5. OneProbe'
    BY <1>1, <2>4 DEF FlowKept, OneProbe
  <2>6. Remembered'
    BY <1>7 DEF Remembered, Crash
  <2>7. FlowKept'
    BY <1>1, <2>2, <2>4, <2>5, <2>6 DEF FlowKept
  <2> QED
    BY <2>2, <2>3, <2>7 DEF FlowInv, SharedInv
<1> QED
  BY <1>2, <1>3, <1>4, <1>5, <1>6, <1>7, <1>8 DEF FlowHost

-----------------------------------------------------------------------------
(* conntrackprobe. *)

\* The part of the connection tracking probes' invariant that both plugins share.
LEMMA CtInvShared == CtInv <=> SharedInv /\ CtTypeOK /\ ListConfigured /\ OneConntrackprobe
BY DEF CtInv, SharedInv, CtTypeOK

\* A step that starts no conntrackprobe and leaves the plugin's memory alone.
LEMMA FewerConntrackprobes ==
  ASSUME CtTypeOK, ListConfigured, OneConntrackprobe, UNCHANGED ctVars,
         \A p \in Pids : Runs(p)' => Runs(p)
  PROVE  ListConfigured' /\ OneConntrackprobe'
<1>1. UNCHANGED <<ctprobe_pid, ifaces_monitored, configured>>
  BY DEF ctVars
<1>2. Runs(ctprobe_pid)' => Runs(ctprobe_pid)
  BY <1>1 DEF Runs
<1> QED
  BY <1>1, <1>2 DEF ListConfigured, OneConntrackprobe

\* start_ctprobe: the one that has just been started has been asked nothing, and
\* nothing is remembered.
LEMMA CrawlRestartsKeeps ==
  ASSUME CtInv, NEW p \in Pids, CrawlRestarts(p)
  PROVE  CtInv'
<1>1. SharedInv' /\ pc' \in {"inspect", "cleanup"}
  BY CtInvShared, CrawlShared DEF CrawlRestarts
<1>2. proc' = [proc EXCEPT ![p] = "conntrackprobe"]
  BY DEF CrawlRestarts, start_child
<1>3. CtTypeOK'
  BY <1>1, <1>2 DEF CtInv, CtTypeOK, SharedInv, CrawlRestarts
<1>4. \A q \in Pids : ~Runs(q)
  BY DEF CtInv, OneConntrackprobe, CrawlRestarts
<1>5. OneConntrackprobe'
  BY <1>2, <1>4 DEF CtInv, CtTypeOK, OneConntrackprobe, Runs, CrawlRestarts
<1>6. ListConfigured'
  BY DEF ListConfigured, CrawlRestarts
<1> QED
  BY <1>1, <1>3, <1>5, <1>6 DEF CtInv, SharedInv

\* A crawl without a conntrackprobe ends before anything is configured.
LEMMA CrawlGivesUpKeeps ==
  ASSUME CtInv, CrawlGivesUp
  PROVE  CtInv'
<1>1. faults' \in 0..MaxFaults
  BY FaultTyped DEF CtInv, CtTypeOK, ProbeFilesTypeOK, CrawlGivesUp
<1>2. SharedInv'
  BY <1>1, ProbeAssumption DEF CtInv, SharedInv, CtTypeOK, ProbeFilesTypeOK, FilesKept, Present,
     CrawlGivesUp, dirVars
<1>3. CtTypeOK'
  BY <1>2 DEF CtInv, CtTypeOK, SharedInv, CrawlGivesUp
<1>4. \A p \in Pids : ~Runs(p)'
  BY DEF CtInv, OneConntrackprobe, CrawlGivesUp, Runs
<1>5. ListConfigured' /\ OneConntrackprobe'
  BY <1>4 DEF ListConfigured, OneConntrackprobe, Runs
<1> QED
  BY <1>2, <1>3, <1>5 DEF CtInv, SharedInv

\* The cleanup removes files, not probes.
LEMMA CtCleanupKeeps ==
  ASSUME CtInv, CtCleanup
  PROVE  CtInv'
<1>1. SharedInv' /\ pc' = "inspect"
  BY CtInvShared, CleanupShared DEF CtCleanup
<1>2. CtTypeOK'
  BY <1>1 DEF CtInv, CtTypeOK, SharedInv, CtCleanup
<1>3. \A p : Runs(p)' <=> Runs(p)
  BY DEF CtCleanup, Runs
<1>4. UNCHANGED <<ctprobe_pid, configured>> /\ ifaces_monitored' \subseteq ifaces_monitored
  BY DEF CtCleanup
<1>5. Runs(ctprobe_pid)' <=> Runs(ctprobe_pid)
  BY <1>4 DEF CtCleanup, Runs
<1>6. ListConfigured'
  BY <1>4, <1>5 DEF CtInv, ListConfigured
<1>7. OneConntrackprobe'
  BY <1>3, <1>4 DEF CtInv, OneConntrackprobe
<1> QED
  BY <1>1, <1>2, <1>6, <1>7 DEF CtInv, SharedInv

\* The interface configured is one that the running conntrackprobe now watches.
LEMMA ConfigureKeeps ==
  ASSUME CtInv, NEW i \in Ifaces, Configure(i)
  PROVE  CtInv'
<1>1. pc = "peers" /\ pc' = pc /\ Runs(ctprobe_pid) /\ ctprobe_pid \in Pids
  BY DEF Configure, NamedPeer, Runs
<1>2. SharedInv'
  BY <1>1, CtInvShared, NamedShared DEF SharedInv, ProbeFilesTypeOK, Configure
<1>3. CtTypeOK'
  BY <1>1, <1>2 DEF CtInv, CtTypeOK, SharedInv, Configure
<1>4. UNCHANGED <<proc, ctprobe_pid>>
  BY DEF Configure
<1>5. configured'[ctprobe_pid] = configured[ctprobe_pid] \union {i}
  BY <1>1 DEF CtInv, CtTypeOK, Configure
<1>6. ListConfigured'
  BY <1>1, <1>4, <1>5 DEF CtInv, ListConfigured, Configure
<1>7. OneConntrackprobe'
  BY <1>4 DEF CtInv, OneConntrackprobe, Runs
<1> QED
  BY <1>2, <1>3, <1>6, <1>7 DEF CtInv, SharedInv

\* terminate_ctprobe: forgotten and killed, not one without the other.
LEMMA ConfigureFailsKeeps ==
  ASSUME CtInv, NEW i \in Ifaces, ConfigureFails(i)
  PROVE  CtInv'
<1>1. pc = "peers" /\ pc' = pc
  BY DEF ConfigureFails, NamedPeer
<1>2. faults' \in 0..MaxFaults
  BY FaultTyped DEF CtInv, CtTypeOK, ProbeFilesTypeOK, ConfigureFails
<1>3. SharedInv'
  BY <1>1, <1>2, CtInvShared, NamedShared DEF ConfigureFails
<1>4. CtTypeOK'
  BY <1>1, <1>3 DEF CtInv, CtTypeOK, SharedInv, ConfigureFails
<1>5. \A p \in Pids : ~Runs(p)'
  <2>1. CASE Runs(ctprobe_pid)
    BY <2>1 DEF CtInv, CtTypeOK, OneConntrackprobe, ConfigureFails, Runs
  <2>2. CASE ~Runs(ctprobe_pid)
    BY <2>2 DEF CtInv, OneConntrackprobe, ConfigureFails, Runs
  <2> QED
    BY <2>1, <2>2
<1>6. ListConfigured' /\ OneConntrackprobe'
  BY <1>5 DEF ListConfigured, OneConntrackprobe, Runs
<1> QED
  BY <1>3, <1>4, <1>6 DEF CtInv, SharedInv

\* Every step of the crawler with ctprobe.
LEMMA CtCrawlerInductive ==
  ASSUME CtInv, CtCrawler
  PROVE  CtInv'
<1>1. SharedInv /\ CtTypeOK /\ ListConfigured /\ OneConntrackprobe
  BY CtInvShared
<1>2. ASSUME UNCHANGED <<proc, ctVars>>, SharedInv',
             pc' \in {"idle", "cleanup", "inspect", "peers", "collect", "yield"}
      PROVE  CtInv'
  <2>1. CtTypeOK'
    BY <1>1, <1>2 DEF CtTypeOK, SharedInv, ctVars
  <2>2. ListConfigured' /\ OneConntrackprobe'
    BY <1>1, <1>2, FewerConntrackprobes DEF Runs
  <2> QED
    BY <1>2, <2>1, <2>2 DEF CtInv, SharedInv
<1>3. CASE CrawlWithProbe
  BY <1>1, <1>2, <1>3, CrawlShared DEF CrawlWithProbe
<1>4. CASE Peers /\ UNCHANGED <<proc, ctVars>>
  BY <1>1, <1>2, <1>4, PeersShared
<1>5. CASE CollectCtFiles
  BY <1>1, <1>2, <1>5, CollectShared DEF CollectCtFiles
<1>6. ASSUME NEW i \in Ifaces, AlreadyMonitored(i) \/ SetupFails(i)
      PROVE  CtInv'
  <2>1. faults' \in 0..MaxFaults
    BY <1>1, <1>6, FaultTyped DEF SharedInv, ProbeFilesTypeOK, AlreadyMonitored, SetupFails
  <2>2. NamedPeer(i) /\ pc' = "peers" /\ UNCHANGED <<proc, ctVars>>
    BY <1>6 DEF AlreadyMonitored, SetupFails, NamedPeer
  <2>3. SharedInv'
    BY <1>1, <2>1, <2>2, NamedShared
  <2> QED
    BY <1>2, <2>2, <2>3
<1>7. ASSUME NEW i \in Ifaces, ConfigureRaises(i)
      PROVE  CtInv'
  <2>1. SharedInv'
    BY <1>1, <1>7 DEF SharedInv, ProbeFilesTypeOK, FilesKept, Present, ConfigureRaises, dirVars
  <2> QED
    BY <1>2, <1>7, <2>1 DEF ConfigureRaises
<1> QED
  BY <1>3, <1>4, <1>5, <1>6, <1>7, CrawlRestartsKeeps, CrawlGivesUpKeeps, CtCleanupKeeps,
     ConfigureKeeps, ConfigureFailsKeeps DEF CtCrawler, start_container_ctprobes

\* Every other step: conntrackprobe dies or writes, interfaces go.
LEMMA CtHostInductive ==
  ASSUME CtInv, CtHost
  PROVE  CtInv'
<1>1. SharedInv /\ CtTypeOK /\ ListConfigured /\ OneConntrackprobe
  BY CtInvShared
<1>2. ASSUME SharedInv', pc' = pc, UNCHANGED ctVars,
             proc' \in [Pids -> {"free", "other", "conntrackprobe"}],
             \A p \in Pids : Runs(p)' => Runs(p)
      PROVE  CtInv'
  <2>1. CtTypeOK'
    BY <1>1, <1>2 DEF CtTypeOK, SharedInv, ctVars
  <2>2. ListConfigured' /\ OneConntrackprobe'
    BY <1>1, <1>2, FewerConntrackprobes
  <2> QED
    BY <1>2, <2>1, <2>2 DEF CtInv, SharedInv
<1>3. CASE Host /\ UNCHANGED ctVars
  <2>1. SharedInv' /\ pc' = pc
    BY <1>1, <1>3, HostShared
  <2>2. proc' \in [Pids -> {"free", "other", "conntrackprobe"}]
    BY <1>1, <1>3 DEF CtTypeOK, Host, Ends, OtherEnds, OtherStarts
  <2>3. \A p \in Pids : Runs(p)' => Runs(p)
    BY <1>1, <1>3 DEF CtTypeOK, Host, Ends, OtherEnds, OtherStarts, Runs
  <2> QED
    BY <1>2, <1>3, <2>1, <2>2, <2>3
<1>4. ASSUME NEW p \in Pids, CtProbeDies(p)
      PROVE  CtInv'
  <2>1. faults' \in 0..MaxFaults
    BY <1>1, <1>4, FaultTyped DEF CtTypeOK, ProbeFilesTypeOK, CtProbeDies
  <2>2. SharedInv'
    BY <1>1, <1>4, <2>1 DEF SharedInv, ProbeFilesTypeOK, FilesKept, Present, CtProbeDies, dirVars,
       roundVars
  <2>3. \A q \in Pids : Runs(q)' => Runs(q)
    BY <1>1, <1>4 DEF CtTypeOK, CtProbeDies, Runs
  <2>4. proc' \in [Pids -> {"free", "other", "conntrackprobe"}]
    BY <1>1, <1>4 DEF CtTypeOK, CtProbeDies
  <2> QED
    BY <1>2, <1>4, <2>2, <2>3, <2>4 DEF CtProbeDies
<1>5. ASSUME NEW f \in Files, CtProbeWrites(f)
      PROVE  CtInv'
  <2>1. PICK i \in Ifaces : BeginFile(f, i)
    BY <1>1, <1>5 DEF CtTypeOK, CtProbeWrites
  <2>2. SharedInv' /\ pc' = pc
    BY <1>1, <2>1, BeginShared
  <2> QED
    BY <1>1, <1>2, <1>5, <2>2 DEF CtTypeOK, CtProbeWrites, Runs
<1>6. ASSUME NEW i \in Ifaces, CtIfaceGoes(i)
      PROVE  CtInv'
  <2>1. SharedInv' /\ pc' = pc
    BY <1>1, <1>6, DisappearShared DEF CtIfaceGoes
  <2> QED
    BY <1>1, <1>2, <1>6, <2>1 DEF CtTypeOK, CtIfaceGoes, Runs
<1> QED
  BY <1>3, <1>4, <1>5, <1>6 DEF CtHost

-----------------------------------------------------------------------------
(* A crawler with one of the two. *)

\* The plugins begin without a probe, a file or anything they remember.
LEMMA InitiallyInv ==
  ASSUME Init
  PROVE  IInv
<1>1. SharedInv
  BY DEF Init, FlowInit, ProbeFilesInit, SharedInv, ProbeFilesTypeOK, FilesKept, Present
<1>2. FlowTypeOK /\ CtTypeOK
  BY <1>1 DEF Init, FlowInit, CtInit, ProbeFilesInit, SharedInv, FlowTypeOK, CtTypeOK
<1>3. \A i \in Ifaces : Probes(i) = {}
  BY ProbeAssumption DEF Init, FlowInit, ProbeFilesInit, Probes
<1>4. FlowKept
  BY <1>3 DEF FlowKept, Remembered, OneProbe, Init, FlowInit, ProbeFilesInit
<1>5. ListConfigured /\ OneConntrackprobe
  BY DEF ListConfigured, OneConntrackprobe, Runs, Init, CtInit, ProbeFilesInit
<1> QED
  BY <1>1, <1>2, <1>4, <1>5 DEF IInv, FlowInv, CtInv, SharedInv

\* No step changes which plugin is enabled.
LEMMA FeatureStays ==
  ASSUME Next
  PROVE  feature' = feature
<1>1. CASE FlowCrawler
  BY <1>1 DEF FlowCrawler, Load, LoadFails, StartCrawl, FlowCleanup, Cleanup, start_container_fprobes, Peers,
     InspectRaises, NoPeers, ReadPeers, PeersDone, SkipPeer, AlreadyProbed, StartFails, StartFprobe,
     NamedPeer, StartCollector, CollectorFails, CollectFlowFiles, Collect, NextGlob, SkipFile,
     KeepFile, TakeFile, Yield, CollectDone, probeVars
<1>2. CASE CtCrawler
  BY <1>2 DEF CtCrawler, CrawlWithProbe, CrawlGivesUp, CrawlRestarts, StartCrawl, CtCleanup, Cleanup,
     start_container_ctprobes, Peers, InspectRaises, NoPeers, ReadPeers, PeersDone, SkipPeer,
     AlreadyMonitored, SetupFails, Configure, ConfigureFails, ConfigureRaises, NamedPeer,
     CollectCtFiles, Collect, NextGlob, SkipFile, KeepFile, TakeFile, Yield, CollectDone
<1>3. ASSUME Host
      PROVE  feature' = feature
  BY <1>3 DEF Host, Appear, GetAddress, EndFile, SpoilFile, GrowOld, ComesDue, Ends, OtherEnds,
     OtherStarts, probeVars
<1>4. CASE FlowHost
  BY <1>3, <1>4 DEF FlowHost, ProbeDies, CollectorEnds, CollectorDies, FlowIfaceGoes, Disappear, CollectorWrites,
     BeginFile, Crash, ForgetRound, probeVars
<1>5. CASE CtHost
  BY <1>3, <1>5 DEF CtHost, CtProbeDies, CtProbeWrites, BeginFile, CtIfaceGoes, Disappear
<1> QED
  BY <1>1, <1>2, <1>4, <1>5 DEF Next, Crawler, World

\* Only one of the plugins is at work, and each of its steps keeps its invariant.
LEMMA Inductive ==
  ASSUME IInv, [Next]_vars
  PROVE  IInv'
<1>1. CASE Next
  <2>1. CASE feature = "fprobe"
    <3>1. FlowInv /\ (FlowCrawler \/ FlowHost)
      BY <1>1, <2>1 DEF IInv, Next, Crawler, World, CtCrawler, CtHost
    <3>2. FlowInv'
      BY <3>1, FlowCrawlerInductive, FlowHostInductive
    <3> QED
      BY <1>1, <2>1, <3>2, FeatureStays DEF IInv
  <2>2. CASE feature # "fprobe"
    <3>1. CtInv /\ (CtCrawler \/ CtHost)
      BY <1>1, <2>2 DEF IInv, Next, Crawler, World, FlowCrawler, FlowHost
    <3>2. CtInv'
      BY <3>1, CtCrawlerInductive, CtHostInductive
    <3> QED
      BY <1>1, <2>2, <3>2, FeatureStays DEF IInv
  <2> QED
    BY <2>1, <2>2
<1>2. CASE UNCHANGED vars
  <2> USE <1>2 DEF vars, probeVars, flowVars, ctVars
  <2>1. FilesKept' <=> FilesKept
    BY DEF FilesKept, Present
  <2>2. FlowTypeOK' <=> FlowTypeOK
    BY DEF FlowTypeOK, ProbeFilesTypeOK
  <2>3. CtTypeOK' <=> CtTypeOK
    BY DEF CtTypeOK, ProbeFilesTypeOK
  <2>4. FlowKept' <=> FlowKept
    BY DEF FlowKept, Remembered, OneProbe, Probes, Exists
  <2>5. ListConfigured' /\ OneConntrackprobe' <=> ListConfigured /\ OneConntrackprobe
    BY DEF ListConfigured, OneConntrackprobe, Runs
  <2> QED
    BY <2>1, <2>2, <2>3, <2>4, <2>5 DEF IInv, FlowInv, CtInv
<1> QED
  BY <1>1, <1>2

\* The invariant on which the theorems below rest.
LEMMA Invariant == Spec => []IInv
<1>1. Init => IInv
  BY InitiallyInv
<1>2. IInv /\ [Next]_vars => IInv'
  BY Inductive
<1> QED
  BY <1>1, <1>2, PTL DEF Spec

(* The variables of the plugin at work keep their types: no -1 of start_child *)
(* gets into fprobes_started, and a peer's collector watches a real PID.      *)
THEOREM TypeCorrect == Spec => []TypeOK
<1>1. IInv => TypeOK
  BY DEF IInv, FlowInv, CtInv, TypeOK
<1> QED
  BY <1>1, Invariant, PTL

(* No interface has two softflowd and there are never two conntrackprobes,    *)
(* whatever dies, whoever takes over its PID, and whenever a crawler with     *)
(* fprobe is restarted.                                                       *)
THEOREM NeverTwoProbes == Spec => []ProbesOnce
<1>1. IInv => ProbesOnce
  BY DEF IInv, FlowInv, FlowKept, CtInv, ProbesOnce
<1> QED
  BY <1>1, Invariant, PTL

(* What ctprobe takes for monitored, the running conntrackprobe was asked to  *)
(* watch.                                                                     *)
THEOREM NothingUnwatched == Spec => []MonitoredConfigured
<1>1. IInv => MonitoredConfigured
  BY DEF IInv, CtInv, MonitoredConfigured
<1> QED
  BY <1>1, Invariant, PTL

(* collect_files yields the content of no file twice.                         *)
THEOREM NeverYieldedTwice == Spec => []YieldedOnce
<1>1. IInv => YieldedOnce
  BY DEF IInv, FlowInv, CtInv, FilesKept, YieldedOnce
<1> QED
  BY <1>1, Invariant, PTL

-----------------------------------------------------------------------------
(* What may happen to the data files. *)

MayDrop(f) == Present(f) /\ disk'[f] = None => held' = f \/ ~Exists(disk[f].iface) \/ disk[f].old

\* What the cleanup removes is old, or of an interface that is gone.
LEMMA CleanupDrops ==
  ASSUME NEW known, Cleanup(known)
  PROVE  \A f \in Files : MayDrop(f)
<1> SUFFICES ASSUME NEW f \in Files, Present(f), disk'[f] = None
             PROVE  ~Exists(disk[f].iface) \/ disk[f].old
  BY DEF MayDrop
<1>1. f \in OldFiles \union FilesOf({i \in known : ~Exists(i)})
  BY DEF Cleanup, RemoveFiles, Without, Present
<1> QED
  BY <1>1 DEF OldFiles, FilesOf

\* What is collected has been read before it is removed.
LEMMA CollectDrops ==
  ASSUME Collect
  PROVE  \A f \in Files : MayDrop(f)
<1>1. CASE \E f \in Files : TakeFile(f)
  BY <1>1 DEF TakeFile, Without, Present, MayDrop
<1>2. CASE disk' = disk
  BY <1>2 DEF Present, MayDrop
<1> QED
  BY <1>1, <1>2 DEF Collect, NextGlob, SkipFile, KeepFile, TakeFile, Yield, CollectDone, dirVars

\* Nothing but a cleanup and the collection takes a file away.
LEMMA NextDrops ==
  ASSUME IInv, Next
  PROVE  \A f \in Files : MayDrop(f)
<1>1. SharedInv
  BY DEF IInv, FlowInv, CtInv, FlowTypeOK, CtTypeOK, SharedInv
<1>2. ASSUME disk' = disk \/ \A f \in Files : Present(f) => Present(f)'
      PROVE  \A f \in Files : MayDrop(f)
  BY <1>2 DEF Present, MayDrop
<1>3. ASSUME Host
      PROVE  \A f \in Files : MayDrop(f)
  BY <1>1, <1>2, <1>3, HostShared
<1>4. CASE FlowCrawler
  <2>1. CASE FlowCleanup
    BY <2>1, CleanupDrops DEF FlowCleanup
  <2>2. CASE CollectFlowFiles
    BY <2>2, CollectDrops DEF CollectFlowFiles
  <2>3. CASE ~FlowCleanup /\ ~CollectFlowFiles
    <3>1. disk' = disk
      BY <1>4, <2>3 DEF FlowCrawler, Load, LoadFails, StartCrawl, start_container_fprobes, Peers, InspectRaises,
         NoPeers, ReadPeers, PeersDone, SkipPeer, AlreadyProbed, StartFails, StartFprobe, NamedPeer,
         StartCollector, CollectorFails, dirVars, probeVars
    <3> QED
      BY <1>2, <3>1
  <2> QED
    BY <2>1, <2>2, <2>3
<1>5. CASE CtCrawler
  <2>1. CASE CtCleanup
    BY <2>1, CleanupDrops DEF CtCleanup
  <2>2. CASE CollectCtFiles
    BY <2>2, CollectDrops DEF CollectCtFiles
  <2>3. CASE ~CtCleanup /\ ~CollectCtFiles
    <3>1. disk' = disk
      BY <1>5, <2>3 DEF CtCrawler, CrawlWithProbe, CrawlGivesUp, CrawlRestarts, StartCrawl,
         start_container_ctprobes, Peers, InspectRaises, NoPeers, ReadPeers, PeersDone, SkipPeer,
         AlreadyMonitored, SetupFails, Configure, ConfigureFails, ConfigureRaises, NamedPeer, dirVars
    <3> QED
      BY <1>2, <3>1
  <2> QED
    BY <2>1, <2>2, <2>3
<1>6. CASE FlowHost
  <2>1. ASSUME NEW f \in Files, CollectorWrites(f)
        PROVE  \A g \in Files : MayDrop(g)
    <3>1. feature = "fprobe"
      BY <1>6 DEF FlowHost
    <3>2. PICK c \in collectors : BeginFile(f, c.iface)
      BY <2>1 DEF CollectorWrites
    <3>3. c.iface \in Ifaces
      BY <3>1 DEF IInv, FlowInv, FlowTypeOK, Collector
    <3> QED
      BY <1>1, <1>2, <3>2, <3>3, BeginShared
  <2>2. CASE \/ \E p \in Pids : ProbeDies(p)
             \/ \E c \in collectors : CollectorEnds(c) \/ CollectorDies(c)
             \/ \E i \in Ifaces : FlowIfaceGoes(i)
             \/ Crash
    <3>1. disk' = disk
      BY <2>2 DEF ProbeDies, CollectorEnds, CollectorDies, FlowIfaceGoes, Disappear, Crash, ForgetRound, dirVars,
         probeVars
    <3> QED
      BY <1>2, <3>1
  <2> QED
    BY <1>3, <1>6, <2>1, <2>2 DEF FlowHost
<1>7. CASE CtHost
  <2>1. ASSUME NEW f \in Files, CtProbeWrites(f)
        PROVE  \A g \in Files : MayDrop(g)
    <3>1. feature = "ctprobe"
      BY <1>7 DEF CtHost
    <3>2. PICK i \in Ifaces : BeginFile(f, i)
      BY <2>1, <3>1 DEF CtProbeWrites, IInv, CtInv, CtTypeOK
    <3> QED
      BY <1>1, <1>2, <3>2, BeginShared
  <2>2. CASE \/ \E p \in Pids : CtProbeDies(p)
             \/ \E i \in Ifaces : CtIfaceGoes(i)
    <3>1. disk' = disk
      BY <2>2 DEF CtProbeDies, CtIfaceGoes, Disappear, dirVars
    <3> QED
      BY <1>2, <3>1
  <2> QED
    BY <1>3, <1>7, <2>1, <2>2 DEF CtHost
<1> QED
  BY <1>4, <1>5, <1>6, <1>7 DEF Next, Crawler, World

(* A data file is removed only to be yielded, because its interface has gone, *)
(* or because it is too old: cleanup and remove_old_files take nothing that a *)
(* later crawl could still have yielded.                                      *)
THEOREM DropsNothingElse == Spec => DropsOnlyStale
<1>1. IInv /\ [Next]_vars =>
        [\A f \in Files : Present(f) /\ disk'[f] = None =>
           held' = f \/ ~Exists(disk[f].iface) \/ disk[f].old]_<<disk, held>>
  <2> SUFFICES ASSUME IInv, [Next]_vars
               PROVE  (\A f \in Files : MayDrop(f)) \/ UNCHANGED <<disk, held>>
    BY DEF MayDrop
  <2> QED
    BY NextDrops DEF vars, probeVars
<1> QED
  BY <1>1, Invariant, PTL DEF Spec, DropsOnlyStale
=============================================================================
