------------------------ MODULE ContainersCrawlProofs ------------------------
(***************************************************************************)
(* Theorems about ContainersCrawl, for any number of containers, plugins   *)
(* and emitters.                                                           *)
(***************************************************************************)
EXTENDS ContainersCrawl, TLAPS

\* While a frame is filled or emitted there is one.
FrameInHand == pc \in {"plugins", "emit"} => frame \in Frame

Agree == \A i, j \in Emitters : emitted[i] = emitted[j]

\* The emitters called already have the frame on top of what the others have.
Split ==
  \A i, j \in Emitters :
    /\ (i < emitter <=> j < emitter) => emitted[i] = emitted[j]
    /\ i < emitter /\ emitter <= j => emitted[i] = Append(emitted[j], frame)

\* The emitters agree except inside EmittersManager.emit, where the crawler
\* may also have died.
EmittersSplit == /\ pc \notin {"emit", "dead"} => Agree
                 /\ pc = "emit" => Split
                 /\ pc = "dead" => Agree \/ Split

IInv == TypeOK /\ FrameInHand

-----------------------------------------------------------------------------
\* The namespace of a PID is a namespace of the host, or none at all.
LEMMA NamespaceType ==
  ASSUME NEW pid
  PROVE get_pid_namespace(pid) \in Namespaces \cup {None}
<1>1. CASE \E c \in Running : PidOf[c] = pid
  <2>1. (CHOOSE c \in Running : PidOf[c] = pid) \in Containers
    BY <1>1 DEF Running
  <2> QED BY <1>1, <2>1 DEF get_pid_namespace, Namespace, Namespaces
<1>2. CASE ~(\E c \in Running : PidOf[c] = pid)
  BY <1>2 DEF get_pid_namespace
<1> QED BY <1>1, <1>2

\* add_features keeps a frame a frame.
LEMMA AddFeaturesType ==
  ASSUME frame \in Frame, plugin \in 1 .. Len(Plugins),
         NEW n \in Nat, NEW m \in Nat, AddFeatures(n, m)
  PROVE frame' \in Frame /\ plugin' \in Nat \ {0}
<1>1. Len(Plugins) \in Nat
  BY CrawlAssumption
<1>2. [frame.data EXCEPT ![plugin] = n] \in [1 .. Len(Plugins) -> Nat]
  BY DEF Frame
<1>3. frame' = [frame EXCEPT !.data = [frame.data EXCEPT ![plugin] = n],
                             !.num_features = @ + m]
  BY DEF AddFeatures
<1>4. frame.id \in Containers /\ frame.num \in Nat
      /\ frame.num_features + m \in Nat
  BY DEF Frame
<1>5. frame' = [id |-> frame.id, num |-> frame.num,
                data |-> [frame.data EXCEPT ![plugin] = n],
                num_features |-> frame.num_features + m]
  BY <1>3 DEF Frame
<1>6. frame' \in Frame
  BY <1>2, <1>4, <1>5 DEF Frame
<1> QED BY <1>1, <1>6 DEF AddFeatures

\* The docker host does not touch the crawler's memory.
LEMMA HostStep ==
  ASSUME NEW c, Start(c) \/ Exit(c) \/ Remove(c)
  PROVE UNCHANGED crawler
BY DEF Start, Exit, Remove

\* No step takes a variable out of its type, nor the frame from the plugins
\* and the emitters that work on it.
LEMMA Inductive == IInv /\ [Next]_vars => IInv'
<1> SUFFICES ASSUME IInv, [Next]_vars PROVE IInv'
  OBVIOUS
<1> USE CrawlAssumption DEF IInv, TypeOK, FrameInHand, PCs, Causes, listing
<1>1. ASSUME NEW c \in Containers, Start(c) \/ Exit(c) \/ Remove(c) PROVE IInv'
  BY <1>1 DEF Start, Exit, Remove, crawler, States
<1>2. CASE Ps BY <1>2 DEF Ps, Running
<1>3. ASSUME NEW c \in Containers, InspectOne(c) PROVE IInv'
  BY <1>3 DEF InspectOne, Inspect
<1>4. ASSUME NEW c \in Containers, InspectRemoved(c) PROVE IInv'
  BY <1>4 DEF InspectRemoved, Die
<1>5. CASE DaemonFails BY <1>5 DEF DaemonFails, Die
<1>6. CASE PsDone BY <1>6 DEF PsDone
<1>7. CASE Build
  <2>1. Head(inspects) \in Inspect /\ Tail(inspects) \in Seq(Inspect)
    BY <1>7 DEF Build
  <2>2. Head(inspects).id \in Containers
    BY <2>1 DEF Inspect
  <2>3. Append(list, Head(inspects).id) \in Seq(Containers)
    BY <2>2
  <2>4. get_pid_namespace(Head(inspects).pid) \in Namespaces \cup {None}
    BY NamespaceType
  <2>5. list' \in Seq(Containers)
    BY <1>7, <2>3 DEF Build
  <2>6. visited' \subseteq Namespaces \cup {None}
    BY <1>7, <2>4 DEF Build
  <2> QED BY <1>7, <2>1, <2>5, <2>6 DEF Build
<1>8. CASE BuildRaises BY <1>8 DEF BuildRaises, Die
<1>9. CASE BuildDone BY <1>9 DEF BuildDone
<1>10. CASE NextContainer
  <2>1. Head(list) \in Containers /\ Tail(list) \in Seq(Containers)
    BY <1>10 DEF NextContainer
  <2>2. frame' \in Frame
    BY <1>10, <2>1 DEF NextContainer, NewFrame, Frame
  <2> QED BY <1>10, <2>1, <2>2 DEF NextContainer
<1>11. CASE PluginReturns
  <2>1. frame' \in Frame /\ plugin' \in Nat \ {0}
    BY <1>11, AddFeaturesType DEF PluginReturns
  <2> QED BY <1>11, <2>1 DEF PluginReturns
<1>12. CASE PluginRaises
  <2>1. frame' \in Frame /\ plugin' \in Nat \ {0}
    BY <1>12, AddFeaturesType DEF PluginRaises
  <2> QED BY <1>12, <2>1 DEF PluginRaises
<1>13. CASE PluginsDone BY <1>13 DEF PluginsDone
<1>14. CASE Emit
  <2>1. emitter \in Emitters
    BY <1>14 DEF Emit, Emitters
  <2>2. emitted' \in [Emitters -> Seq(Frame)]
    BY <1>14, <2>1 DEF Emit
  <2> QED BY <1>14, <2>1, <2>2 DEF Emit
<1>15. CASE EmitRaises BY <1>15 DEF EmitRaises, Die
<1>16. CASE EmitDone BY <1>16 DEF EmitDone
<1>17. CASE CrawlDone BY <1>17 DEF CrawlDone
<1>18. CASE UNCHANGED vars BY <1>18 DEF vars
<1> QED BY <1>1, <1>2, <1>3, <1>4, <1>5, <1>6, <1>7, <1>8, <1>9, <1>10,
           <1>11, <1>12, <1>13, <1>14, <1>15, <1>16, <1>17, <1>18
        DEF Next, Host, Crawler

\* The invariant on which the theorems below rest.
LEMMA Invariance == Spec => []IInv
<1>1. Init => IInv
  BY CrawlAssumption
  DEF Init, IInv, TypeOK, FrameInHand, PCs, States, Causes, NoFrame, Emitters
<1> QED BY <1>1, Inductive, PTL DEF Spec

\* The state of a crawl stays what its comments say it is: lists of known
\* containers, frames for each emitter, namespaces in visited_ns.
THEOREM TypeCorrect == Spec => []TypeOK
<1>1. IInv => TypeOK BY DEF IInv
<1> QED BY <1>1, Invariance, PTL

-----------------------------------------------------------------------------
\* The emitter that is given the frame joins those that have it.
LEMMA EmitKeepsSplit ==
  ASSUME TypeOK, Split, Emit
  PROVE Split'
<1> DEFINE base == emitted[emitter]
           top == Append(base, frame)
<1>1. /\ NEmitters \in Nat /\ emitter \in 1 .. NEmitters
      /\ emitter' = emitter + 1 /\ frame' = frame
  BY CrawlAssumption DEF Emit, TypeOK
<1>2. \A i \in Emitters : i \in Int /\ emitter \in Int
  BY <1>1 DEF Emitters
<1>3. \A i \in Emitters : i >= emitter => emitted[i] = base
  BY <1>1 DEF Split, Emitters
<1>4. \A i \in Emitters : i < emitter => emitted[i] = top
  BY <1>1 DEF Split, Emitters
<1>5. \A i \in Emitters :
        emitted'[i] = IF i = emitter THEN top ELSE emitted[i]
  BY <1>1 DEF Emit, TypeOK
<1>6. top = Append(base, frame)
  OBVIOUS
<1> HIDE DEF base, top
<1>7. \A i \in Emitters : emitted'[i] = IF i < emitter' THEN top ELSE base
  <2> SUFFICES ASSUME NEW i \in Emitters
               PROVE emitted'[i] = IF i < emitter' THEN top ELSE base
    OBVIOUS
  <2>1. CASE i < emitter BY <1>1, <1>2, <1>4, <1>5, <2>1
  <2>2. CASE i = emitter BY <1>1, <1>2, <1>5, <2>2
  <2>3. CASE i > emitter BY <1>1, <1>2, <1>3, <1>5, <2>3
  <2> QED BY <1>2, <2>1, <2>2, <2>3
<1>8. ASSUME NEW i \in Emitters, NEW j \in Emitters,
             i < emitter' <=> j < emitter'
      PROVE emitted'[i] = emitted'[j]
  BY <1>7, <1>8
<1>9. ASSUME NEW i \in Emitters, NEW j \in Emitters,
             i < emitter', emitter' <= j
      PROVE emitted'[i] = Append(emitted'[j], frame')
  <2>1. ~(j < emitter')
    BY <1>1, <1>2, <1>9
  <2>2. emitted'[i] = top /\ emitted'[j] = base
    BY <1>7, <1>9, <2>1
  <2> QED BY <1>1, <1>6, <2>2
<1> QED BY <1>8, <1>9 DEF Split

\* No step lets the emitters diverge by more than the frame being emitted.
LEMMA SplitInductive ==
  IInv /\ EmittersSplit /\ [Next]_vars => EmittersSplit'
<1> SUFFICES ASSUME IInv, EmittersSplit, [Next]_vars PROVE EmittersSplit'
  OBVIOUS
<1> USE DEF EmittersSplit, Agree, Split, listing
<1>1. ASSUME NEW c \in Containers, Start(c) \/ Exit(c) \/ Remove(c)
      PROVE EmittersSplit'
  BY <1>1, HostStep DEF crawler
<1>2. CASE Ps BY <1>2 DEF Ps
<1>3. ASSUME NEW c \in Containers, InspectOne(c) PROVE EmittersSplit'
  BY <1>3 DEF InspectOne
<1>4. ASSUME NEW c \in Containers, InspectRemoved(c) PROVE EmittersSplit'
  BY <1>4 DEF InspectRemoved, Die
<1>5. CASE DaemonFails BY <1>5 DEF DaemonFails, Die
<1>6. CASE PsDone BY <1>6 DEF PsDone
<1>7. CASE Build BY <1>7 DEF Build
<1>8. CASE BuildRaises BY <1>8 DEF BuildRaises, Die
<1>9. CASE BuildDone BY <1>9 DEF BuildDone
<1>10. CASE NextContainer BY <1>10 DEF NextContainer
<1>11. CASE PluginReturns BY <1>11 DEF PluginReturns, AddFeatures
<1>12. CASE PluginRaises BY <1>12 DEF PluginRaises, AddFeatures
<1>13. CASE PluginsDone
  BY <1>13, CrawlAssumption DEF PluginsDone, Emitters
<1>14. CASE Emit
  <2>1. pc = "emit" /\ pc' = pc
    BY <1>14 DEF Emit
  <2>2. TypeOK /\ Split
    BY <2>1 DEF IInv
  <2>3. Split'
    BY <1>14, <2>2, EmitKeepsSplit
  <2> QED BY <2>1, <2>3
<1>15. CASE EmitRaises BY <1>15 DEF EmitRaises, Die
<1>16. CASE EmitDone
  BY <1>16, CrawlAssumption DEF EmitDone, Emitters, IInv, TypeOK
<1>17. CASE CrawlDone BY <1>17 DEF CrawlDone
<1>18. CASE UNCHANGED vars BY <1>18 DEF vars
<1> QED BY <1>1, <1>2, <1>3, <1>4, <1>5, <1>6, <1>7, <1>8, <1>9, <1>10,
           <1>11, <1>12, <1>13, <1>14, <1>15, <1>16, <1>17, <1>18
        DEF Next, Host, Crawler

\* EmittersManager.emit keeps the emitters in step, also when one of them
\* raises and the crawler dies.
THEOREM InStep == Spec => []EmittersInStep
<1>1. Init => EmittersSplit
  BY DEF Init, EmittersSplit, Agree
<1>2. IInv /\ EmittersSplit => EmittersInStep
  BY DEF IInv, TypeOK, EmittersSplit, Agree, Split, EmittersInStep, Emitters,
         PCs
<1> QED BY <1>1, <1>2, SplitInductive, Invariance, PTL DEF Spec

-----------------------------------------------------------------------------
\* A PID is used again at most for a container of the same PID namespace.
PidsTellNamespaces ==
  \A c, d \in Containers : PidOf[c] = PidOf[d] => Namespace(c) = Namespace(d)

SteadyRun == steady \subseteq Running

\* exec_dockerinspect gave the PID of the container, or 0.
RecordsTrue == \A k \in 1 .. Len(inspects) :
                 inspects[k].pid \in {PidOf[inspects[k].id], 0}

\* What exec_dockerps has of a container that was running when inspected.
Recorded(c) == \E k \in 1 .. Len(inspects) :
                 inspects[k] = [id |-> c, pid |-> PidOf[c]]

Listed(ns) == \E k \in 1 .. Len(list) : Namespace(list[k]) = ns

\* The frame under construction or being emitted is one of namespace ns.
InHand(ns) == /\ pc \in {"plugins", "emit"}
              /\ Namespace(frame.id) = ns

Told(ns) == \A e \in Emitters : \E d \in Reported(e) : Namespace(d) = ns

\* The frame is one of this iteration, and the emitters called already have it.
FrameGiven == /\ pc \in {"plugins", "emit"} => frame.num = iter_count
              /\ pc = "emit" => \A e \in Emitters :
                                  e < emitter => frame.id \in Reported(e)

\* Where the crawl has got with the containers that run all along.
Followed ==
  /\ pc = "inspect" => \A c \in steady : c \in ids \/ Recorded(c)
  /\ pc = "build" => /\ \A c \in steady : Selected(c) =>
                          Recorded(c) \/ Namespace(c) \in visited
                     /\ \A ns \in visited \ {None} : Listed(ns)
  /\ pc \in {"next", "plugins", "emit"} =>
       \A c \in steady : Selected(c) =>
         LET ns == Namespace(c) IN Listed(ns) \/ InHand(ns) \/ Told(ns)

CrawlInv == SteadyRun /\ RecordsTrue /\ FrameGiven /\ Followed

\* The host may end a container, which is then no longer one that ran all
\* along, and touches nothing of what the crawler holds.
LEMMA HostKeepsCrawl ==
  ASSUME IInv, CrawlInv, NEW c \in Containers, Start(c) \/ Exit(c) \/ Remove(c)
  PROVE CrawlInv'
<1> USE DEF IInv, CrawlInv
<1>1. UNCHANGED crawler
  BY HostStep
<1>2. /\ pc' = pc /\ iter_count' = iter_count /\ ids' = ids
      /\ inspects' = inspects /\ visited' = visited /\ list' = list
      /\ frame' = frame /\ emitter' = emitter /\ emitted' = emitted
  BY <1>1 DEF crawler, listing
<1>3. steady' \subseteq steady
  BY DEF Start, Exit, Remove
<1>4. SteadyRun'
  BY DEF Start, Exit, Remove, SteadyRun, Running, TypeOK
<1>5. RecordsTrue' /\ FrameGiven'
  BY <1>2 DEF RecordsTrue, FrameGiven, Reported
<1>6. /\ \A d : Recorded(d)' = Recorded(d)
      /\ \A ns : Listed(ns)' = Listed(ns)
      /\ \A ns : InHand(ns)' = InHand(ns)
      /\ \A ns : Told(ns)' = Told(ns)
  BY <1>2 DEF Recorded, Listed, InHand, Told, Reported
<1>7. Followed'
  BY <1>2, <1>3, <1>6 DEF Followed
<1> QED BY <1>4, <1>5, <1>7

\* A container that is running is recorded with its own PID.
LEMMA InspectKeepsCrawl ==
  ASSUME IInv, CrawlInv, NEW c \in Containers, InspectOne(c)
  PROVE CrawlInv'
<1> DEFINE new == [id |-> c, pid |-> IF state[c] = "running"
                                     THEN PidOf[c] ELSE 0]
<1> USE DEF IInv, CrawlInv
<1>1. /\ pc = "inspect" /\ pc' = pc /\ steady' = steady /\ state' = state
      /\ ids' = ids \ {c} /\ inspects' = Append(inspects, new)
  BY DEF InspectOne
<1>2. /\ inspects \in Seq(Inspect) /\ new \in Inspect
      /\ new.id = c /\ new.pid \in {PidOf[new.id], 0}
  BY CrawlAssumption DEF TypeOK, Inspect
<1>3. c \in steady => new = [id |-> c, pid |-> PidOf[c]]
  BY DEF SteadyRun, Running
<1> HIDE DEF new
<1>4. /\ Len(inspects') = Len(inspects) + 1
      /\ \A k \in 1 .. Len(inspects) : inspects'[k] = inspects[k]
      /\ inspects'[Len(inspects) + 1] = new
  BY <1>1, <1>2
<1>5. Len(inspects) \in Nat
  BY <1>2
<1>6. SteadyRun'
  BY <1>1 DEF SteadyRun, Running
<1>7. RecordsTrue'
  <2> SUFFICES ASSUME NEW k \in 1 .. Len(inspects')
               PROVE inspects'[k].pid \in {PidOf[inspects'[k].id], 0}
    BY DEF RecordsTrue
  <2>1. CASE k \in 1 .. Len(inspects)
    BY <1>4, <2>1 DEF RecordsTrue
  <2>2. CASE k = Len(inspects) + 1
    BY <1>2, <1>4, <2>2
  <2> QED BY <1>4, <1>5, <2>1, <2>2
<1>8. \A d \in Containers : Recorded(d) => Recorded(d)'
  BY <1>4, <1>5 DEF Recorded
<1>9. c \in steady => Recorded(c)'
  BY <1>3, <1>4, <1>5 DEF Recorded
<1>10. FrameGiven'
  BY <1>1 DEF FrameGiven
<1>11. \A d \in steady : d \in ids' \/ Recorded(d)'
  BY <1>1, <1>8, <1>9 DEF Followed, TypeOK
<1>12. Followed'
  BY <1>1, <1>11 DEF Followed
<1> QED BY <1>6, <1>7, <1>10, <1>12

\* Whoever has a container's recorded PID is in that container's namespace.
LEMMA NamespaceKnown ==
  ASSUME PidsTellNamespaces, NEW c \in Containers,
         NEW pid \in {PidOf[c], 0}
  PROVE /\ get_pid_namespace(pid) \in {Namespace(c), None}
        /\ pid = PidOf[c] /\ c \in Running =>
             get_pid_namespace(pid) = Namespace(c)
<1>1. CASE \E d \in Running : PidOf[d] = pid
  <2>1. PICK d : /\ d = CHOOSE x \in Running : PidOf[x] = pid
                 /\ d \in Running /\ PidOf[d] = pid
    BY <1>1
  <2>2. d \in Containers /\ pid # 0
    BY <2>1, CrawlAssumption DEF Running
  <2>3. Namespace(d) = Namespace(c)
    BY <2>1, <2>2 DEF PidsTellNamespaces
  <2>4. get_pid_namespace(pid) = Namespace(d)
    BY <1>1, <2>1 DEF get_pid_namespace
  <2> QED BY <2>3, <2>4
<1>2. CASE ~(\E d \in Running : PidOf[d] = pid)
  <2>1. get_pid_namespace(pid) = None
    BY <1>2 DEF get_pid_namespace
  <2>2. ~(pid = PidOf[c] /\ c \in Running)
    BY <1>2
  <2> QED BY <2>1, <2>2
<1> QED BY <1>1, <1>2

\* The namespace of a container is remembered together with a container of
\* that namespace in the list.
LEMMA BuildKeepsCrawl ==
  ASSUME PidsTellNamespaces, IInv, CrawlInv, Build
  PROVE CrawlInv'
<1> USE DEF IInv, CrawlInv
<1>1. PICK i, ns : i = Head(inspects) /\ ns = get_pid_namespace(i.pid)
  OBVIOUS
<1>2. /\ pc = "build" /\ pc' = pc /\ steady' = steady /\ state' = state
      /\ inspects # <<>> /\ inspects' = Tail(inspects)
  BY DEF Build
<1>3. IF Selected(i.id) /\ ns \notin visited
      THEN visited' = visited \cup {ns} /\ list' = Append(list, i.id)
      ELSE visited' = visited /\ list' = list
  BY <1>1 DEF Build
<1>4. /\ inspects \in Seq(Inspect) /\ list \in Seq(Containers)
  BY DEF TypeOK
<1>5. /\ i = inspects[1] /\ i \in Inspect
      /\ Len(inspects) \in Nat \ {0}
      /\ Len(inspects') = Len(inspects) - 1
      /\ \A k \in 1 .. Len(inspects') : inspects'[k] = inspects[k + 1]
  BY <1>1, <1>2, <1>4
<1>6. i.id \in Containers /\ i.pid \in {PidOf[i.id], 0}
  BY <1>5 DEF RecordsTrue, Inspect
<1>7. /\ ns \in {Namespace(i.id), None}
      /\ i.pid = PidOf[i.id] /\ i.id \in Running => ns = Namespace(i.id)
  BY <1>1, <1>6, NamespaceKnown
<1>8. SteadyRun'
  BY <1>2 DEF SteadyRun, Running
<1>9. RecordsTrue'
  BY <1>5 DEF RecordsTrue
<1>10. FrameGiven'
  BY <1>2 DEF FrameGiven
<1>11. ASSUME NEW c \in steady, Selected(c)
       PROVE Recorded(c)' \/ Namespace(c) \in visited'
  <2>1. c \in Running /\ c \in Containers
    BY DEF SteadyRun, Running
  <2>2. CASE Namespace(c) \in visited
    BY <1>3, <2>2
  <2>3. CASE Recorded(c)
    <3>1. PICK k \in 1 .. Len(inspects) :
            inspects[k] = [id |-> c, pid |-> PidOf[c]]
      BY <2>3 DEF Recorded
    <3>2. CASE k = 1
      <4>1. i.id = c /\ i.pid = PidOf[c]
        BY <1>5, <3>1, <3>2
      <4>2. ns = Namespace(c)
        BY <1>7, <2>1, <4>1
      <4> QED BY <1>3, <1>11, <4>1, <4>2
    <3>3. CASE k # 1
      <4>1. k - 1 \in 1 .. Len(inspects') /\ (k - 1) + 1 = k
        BY <1>5, <3>1, <3>3
      <4>2. inspects'[k - 1] = [id |-> c, pid |-> PidOf[c]]
        BY <1>5, <3>1, <4>1
      <4> QED BY <4>1, <4>2 DEF Recorded
    <3> QED BY <3>2, <3>3
  <2> QED BY <1>2, <1>11, <2>2, <2>3 DEF Followed
<1>12. ASSUME NEW m \in visited' \ {None} PROVE Listed(m)'
  <2>1. CASE m \in visited
    <3>1. PICK k \in 1 .. Len(list) : Namespace(list[k]) = m
      BY <1>2, <1>12, <2>1 DEF Followed, Listed
    <3>2. k \in 1 .. Len(list') /\ list'[k] = list[k]
      <4>1. list' \in {list, Append(list, i.id)}
        BY <1>3
      <4> QED BY <1>4, <1>6, <3>1, <4>1
    <3> QED BY <3>1, <3>2 DEF Listed
  <2>2. CASE m \notin visited
    <3>1. m = ns /\ list' = Append(list, i.id) /\ m = Namespace(i.id)
      BY <1>3, <1>7, <1>12, <2>2
    <3>2. Len(list) + 1 \in 1 .. Len(list') /\ list'[Len(list) + 1] = i.id
      BY <1>4, <1>5, <3>1
    <3> QED BY <3>1, <3>2 DEF Listed
  <2> QED BY <2>1, <2>2
<1>13. Followed'
  BY <1>2, <1>11, <1>12 DEF Followed, Selected
<1> QED BY <1>8, <1>9, <1>10, <1>13

\* The head of the list becomes the frame in hand.
LEMMA NextKeepsCrawl ==
  ASSUME IInv, CrawlInv, NextContainer
  PROVE CrawlInv'
<1> USE DEF IInv, CrawlInv
<1>1. /\ pc = "next" /\ pc' = "plugins" /\ steady' = steady /\ state' = state
      /\ inspects' = inspects /\ list # <<>> /\ list' = Tail(list)
      /\ frame' = NewFrame(Head(list)) /\ iter_count' = iter_count
      /\ emitted' = emitted
  BY DEF NextContainer, listing
<1>2. frame'.id = list[1] /\ frame'.num = iter_count
  BY <1>1 DEF NewFrame, TypeOK
<1>3. /\ Len(list) \in Nat \ {0}
      /\ Len(list') = Len(list) - 1
      /\ \A k \in 1 .. Len(list') : list'[k] = list[k + 1]
  BY <1>1 DEF TypeOK
<1>4. SteadyRun' /\ RecordsTrue' /\ FrameGiven'
  BY <1>1, <1>2 DEF SteadyRun, Running, RecordsTrue, FrameGiven
<1>5. ASSUME NEW ns, Listed(ns) PROVE Listed(ns)' \/ InHand(ns)'
  <2>1. PICK k \in 1 .. Len(list) : Namespace(list[k]) = ns
    BY <1>5 DEF Listed
  <2>2. CASE k = 1 BY <1>1, <1>2, <2>1, <2>2 DEF InHand
  <2>3. CASE k # 1
    <3>1. k - 1 \in 1 .. Len(list') /\ list'[k - 1] = list[k]
      BY <1>3, <2>1, <2>3
    <3> QED BY <2>1, <3>1 DEF Listed
  <2> QED BY <2>2, <2>3
<1>6. \A ns : ~InHand(ns) /\ (Told(ns) => Told(ns)')
  BY <1>1 DEF InHand, Told, Reported
<1>7. Followed'
  BY <1>1, <1>5, <1>6 DEF Followed, Selected
<1> QED BY <1>4, <1>7

\* Features are added to the frame in hand.
LEMMA FeaturesKeepCrawl ==
  ASSUME IInv, CrawlInv, PluginReturns \/ PluginRaises
  PROVE CrawlInv'
<1> USE DEF IInv, CrawlInv
<1>1. /\ pc = "plugins" /\ pc' = pc /\ steady' = steady /\ state' = state
      /\ inspects' = inspects /\ list' = list /\ iter_count' = iter_count
      /\ emitted' = emitted /\ visited' = visited
  BY DEF PluginReturns, PluginRaises, listing
<1>2. \E n, m : AddFeatures(n, m)
  BY DEF PluginReturns, PluginRaises
<1>3. frame'.id = frame.id /\ frame'.num = frame.num
  BY <1>1, <1>2 DEF AddFeatures, FrameInHand, Frame
<1>4. SteadyRun' /\ RecordsTrue' /\ FrameGiven'
  BY <1>1, <1>3 DEF SteadyRun, Running, RecordsTrue, FrameGiven
<1>5. \A ns : /\ Listed(ns) => Listed(ns)'
              /\ InHand(ns) => InHand(ns)'
              /\ Told(ns) => Told(ns)'
  BY <1>1, <1>3 DEF Listed, InHand, Told, Reported
<1>6. Followed'
  BY <1>1, <1>5 DEF Followed, Selected
<1> QED BY <1>4, <1>6

\* An emitter that is given the frame has reported its container.
LEMMA EmitReports ==
  ASSUME IInv, Emit
  PROVE /\ \A e \in Emitters : Reported(e) \subseteq Reported(e)'
        /\ frame.num = iter_count =>
             \A e \in Emitters : e = emitter => frame.id \in Reported(e)'
<1> USE DEF IInv, TypeOK
<1>1. /\ emitter \in Emitters /\ iter_count' = iter_count
      /\ emitted' = [emitted EXCEPT ![emitter] = Append(@, frame)]
      /\ frame \in Frame
  BY DEF Emit, Emitters, FrameInHand
<1>2. ASSUME NEW e \in Emitters
      PROVE /\ Len(emitted[e]) \in Nat
            /\ Len(emitted[e]) <= Len(emitted'[e]) /\ Len(emitted'[e]) \in Nat
            /\ \A a \in 1 .. Len(emitted[e]) : emitted'[e][a] = emitted[e][a]
  <2>1. emitted[e] \in Seq(Frame)
    OBVIOUS
  <2>2. CASE e = emitter
    <3>1. emitted'[e] = Append(emitted[e], frame)
      BY <1>1, <2>2
    <3> QED BY <1>1, <2>1, <3>1
  <2>3. CASE e # emitter
    <3>1. emitted'[e] = emitted[e]
      BY <1>1, <2>3
    <3> QED BY <2>1, <3>1
  <2> QED BY <2>2, <2>3
<1>3. ASSUME NEW e \in Emitters, NEW d \in Reported(e)
      PROVE d \in Reported(e)'
  <2>1. PICK a \in 1 .. Len(emitted[e]) :
          emitted[e][a].num = iter_count /\ emitted[e][a].id = d
    BY DEF Reported
  <2>2. a \in 1 .. Len(emitted'[e]) /\ emitted'[e][a] = emitted[e][a]
    BY <1>2, <2>1
  <2> QED BY <1>1, <2>1, <2>2 DEF Reported
<1>4. ASSUME frame.num = iter_count, NEW e \in Emitters, e = emitter
      PROVE frame.id \in Reported(e)'
  <2>2. emitted'[e] = Append(emitted[e], frame) /\ emitted[e] \in Seq(Frame)
    BY <1>1, <1>4
  <2>3. PICK a \in Nat : a = Len(emitted'[e]) /\ a >= 1
                         /\ emitted'[e][a] = frame
    BY <1>1, <2>2
  <2>4. a \in 1 .. Len(emitted'[e])
    BY <2>3
  <2>5. frame.id \in {emitted'[e][b].id :
                        b \in {x \in 1 .. Len(emitted'[e]) :
                                 emitted'[e][x].num = iter_count}}
    BY <1>4, <2>3, <2>4
  <2> QED BY <1>1, <2>5 DEF Reported
<1> QED BY <1>3, <1>4

\* Giving the frame to one more emitter takes nothing from the others.
LEMMA EmitKeepsCrawl ==
  ASSUME IInv, CrawlInv, Emit
  PROVE CrawlInv'
<1> USE DEF IInv, CrawlInv
<1>1. /\ pc = "emit" /\ pc' = pc /\ steady' = steady /\ state' = state
      /\ inspects' = inspects /\ list' = list /\ iter_count' = iter_count
      /\ frame' = frame /\ emitter' = emitter + 1
      /\ emitter \in Emitters
  BY DEF Emit, listing, Emitters, TypeOK
<1>2. /\ \A e \in Emitters : Reported(e) \subseteq Reported(e)'
      /\ frame.num = iter_count =>
           \A e \in Emitters : e = emitter => frame.id \in Reported(e)'
  BY EmitReports
<1>3. ASSUME NEW e \in Emitters, e < emitter' PROVE frame.id \in Reported(e)'
  <2>1. CASE e = emitter BY <1>1, <1>2, <2>1 DEF FrameGiven
  <2>2. CASE e # emitter
    <3>1. e < emitter
      BY <1>1, <1>3, <2>2 DEF Emitters
    <3>2. frame.id \in Reported(e)
      BY <1>1, <3>1 DEF FrameGiven
    <3> QED BY <1>2, <3>2
  <2> QED BY <2>1, <2>2
<1>4. SteadyRun' /\ RecordsTrue'
  BY <1>1 DEF SteadyRun, Running, RecordsTrue
<1>5. FrameGiven'
  BY <1>1, <1>3 DEF FrameGiven
<1>6. \A ns : /\ Listed(ns) => Listed(ns)'
              /\ InHand(ns) => InHand(ns)'
              /\ Told(ns) => Told(ns)'
  BY <1>1, <1>2 DEF Listed, InHand, Told
<1>7. Followed'
  BY <1>1, <1>6 DEF Followed, Selected
<1> QED BY <1>4, <1>5, <1>7

\* A frame that was given to every emitter has told its namespace to all.
LEMMA EmitDoneKeepsCrawl ==
  ASSUME IInv, CrawlInv, EmitDone
  PROVE CrawlInv'
<1> USE DEF IInv, CrawlInv
<1>1. /\ pc = "emit" /\ pc' = "next" /\ steady' = steady /\ state' = state
      /\ inspects' = inspects /\ list' = list /\ iter_count' = iter_count
      /\ frame' = frame /\ emitted' = emitted /\ emitter > NEmitters
  BY DEF EmitDone, listing
<1>2. \A e \in Emitters : frame.id \in Reported(e)
  BY <1>1, CrawlAssumption DEF FrameGiven, Emitters, TypeOK
<1>3. \A ns : /\ Listed(ns) => Listed(ns)'
              /\ InHand(ns) => Told(ns)
              /\ Told(ns) => Told(ns)'
  BY <1>1, <1>2 DEF Listed, InHand, Told, Reported
<1>4. SteadyRun' /\ RecordsTrue' /\ FrameGiven'
  BY <1>1 DEF SteadyRun, Running, RecordsTrue, FrameGiven
<1>5. Followed'
  BY <1>1, <1>3 DEF Followed, Selected
<1> QED BY <1>4, <1>5

\* A crawl loses sight of no container that runs all along.
LEMMA CrawlInductive ==
  ASSUME PidsTellNamespaces
  PROVE IInv /\ CrawlInv /\ [Next]_vars => CrawlInv'
<1> SUFFICES ASSUME IInv, CrawlInv, [Next]_vars PROVE CrawlInv'
  OBVIOUS
<1>1. ASSUME NEW c \in Containers, Start(c) \/ Exit(c) \/ Remove(c)
      PROVE CrawlInv'
  BY <1>1, HostKeepsCrawl
<1>2. ASSUME NEW c \in Containers, InspectOne(c) PROVE CrawlInv'
  BY <1>2, InspectKeepsCrawl
<1>3. CASE Build BY <1>3, BuildKeepsCrawl
<1>4. CASE NextContainer BY <1>4, NextKeepsCrawl
<1>5. CASE PluginReturns \/ PluginRaises BY <1>5, FeaturesKeepCrawl
<1>6. CASE Emit BY <1>6, EmitKeepsCrawl
<1>7. CASE EmitDone BY <1>7, EmitDoneKeepsCrawl
<1> USE DEF CrawlInv, listing
<1>8. ASSUME NEW cause, Die(cause) PROVE CrawlInv'
  BY <1>8 DEF Die, SteadyRun, Running, RecordsTrue, FrameGiven, Followed
<1>9. CASE DaemonFails BY <1>8, <1>9 DEF DaemonFails
<1>10. ASSUME NEW c \in Containers, InspectRemoved(c) PROVE CrawlInv'
  BY <1>8, <1>10 DEF InspectRemoved
<1>11. CASE BuildRaises BY <1>8, <1>11 DEF BuildRaises
<1>12. CASE EmitRaises BY <1>8, <1>12 DEF EmitRaises
<1>13. CASE Ps
  BY <1>13 DEF Ps, SteadyRun, Running, RecordsTrue, FrameGiven, Followed
<1>14. CASE PsDone
  <2>1. \A c \in steady : Recorded(c)'
    BY <1>14 DEF PsDone, Followed, Recorded
  <2> QED BY <1>14, <2>1
          DEF PsDone, SteadyRun, Running, RecordsTrue, FrameGiven, Followed
<1>15. CASE BuildDone
  <2>1. \A c \in steady : ~Recorded(c)
    BY <1>15 DEF BuildDone, Recorded
  <2>2. ASSUME NEW c \in steady, Selected(c) PROVE Listed(Namespace(c))'
    <3>1. c \in Containers
      BY DEF SteadyRun, Running
    <3>2. Namespace(c) \in visited \ {None}
      BY <1>15, <2>1, <2>2, <3>1, CrawlAssumption
      DEF BuildDone, Followed, Namespace
    <3>3. Listed(Namespace(c))
      BY <1>15, <3>2 DEF BuildDone, Followed
    <3> QED BY <1>15, <3>3 DEF BuildDone, Listed
  <2> QED BY <1>15, <2>2
          DEF BuildDone, SteadyRun, Running, RecordsTrue, FrameGiven,
              Followed, Selected
<1>16. CASE PluginsDone
  <2>1. \A ns : /\ Listed(ns) => Listed(ns)'
                /\ InHand(ns) => InHand(ns)'
                /\ Told(ns) => Told(ns)'
    BY <1>16 DEF PluginsDone, Listed, InHand, Told, Reported
  <2>2. FrameGiven'
    BY <1>16 DEF PluginsDone, FrameGiven, Emitters
  <2>3. Followed'
    BY <1>16, <2>1 DEF PluginsDone, Followed, Selected
  <2> QED BY <1>16, <2>2, <2>3 DEF PluginsDone, SteadyRun, Running, RecordsTrue
<1>17. CASE CrawlDone
  BY <1>17 DEF CrawlDone, SteadyRun, Running, RecordsTrue, FrameGiven, Followed
<1>18. CASE UNCHANGED vars
  BY <1>18 DEF vars, SteadyRun, Running, RecordsTrue, FrameGiven, Followed,
               Recorded, Listed, InHand, Told, Reported
<1> QED BY <1>1, <1>2, <1>3, <1>4, <1>5, <1>6, <1>7, <1>9, <1>10, <1>11,
           <1>12, <1>13, <1>14, <1>15, <1>16, <1>17, <1>18
        DEF Next, Host, Crawler

\* When a crawl ends, every PID namespace with a container that ran all along
\* (and that the user and the environment admit) has a frame at every
\* emitter, although containers come and go between client.containers(), the
\* inspections, get_pid_namespace and the crawl, and although only one
\* container of a namespace is crawled.
THEOREM NamespacesCrawled ==
  ASSUME PidsTellNamespaces
  PROVE Spec => []EveryNamespaceCrawled
<1>1. Init => CrawlInv
  BY DEF Init, CrawlInv, SteadyRun, RecordsTrue, FrameGiven, Followed
<1>2. IInv /\ CrawlInv /\ [Next]_vars => CrawlInv'
  BY CrawlInductive
<1>3. CrawlInv => EveryNamespaceCrawled
  <2> SUFFICES ASSUME CrawlInv, pc = "next", list = <<>>,
                      NEW c \in steady, Selected(c)
               PROVE Told(Namespace(c))
    BY DEF EveryNamespaceCrawled, CrawlComplete, Told
  <2>1. ~Listed(Namespace(c)) /\ ~InHand(Namespace(c))
    BY DEF Listed, InHand
  <2> QED BY <2>1 DEF CrawlInv, Followed
<1> QED BY <1>1, <1>2, <1>3, Invariance, PTL DEF Spec
=============================================================================
