--------------------------- MODULE LogsLinkerProofs ---------------------------
(***************************************************************************)
(* Theorems about the logs linker.  About LogsLinker, for any containers,  *)
(* names, PIDs and PID namespaces, and any number of failures and          *)
(* restarts: its types, LinksExact and RunningLinked.  About               *)
(* ContainerLogs, for any storage driver, mounts, logs and files: its      *)
(* types, and LinksComplete.                                               *)
(***************************************************************************)
EXTENDS LogsLinker, ContainerLogs, SequenceTheorems, TLAPS

\* No two objects of S stand for containers of the same name.
NamesDiffer(S) ==
  \A o, p \in S : NameOf[o.id] = NameOf[p.id] => o = p

\* Containers that stay: their directories are left alone.
Kept == containers_list \ new

\* What the directories belong to at this point of update_containers_list and
\* link_containers.
Linked == IF pc \in {"idle", "poll"} THEN containers_list
          ELSE Kept \cup deleted

Wrong == damaged \cup forgotten

HostNames == \A c, d \in Existing : NameOf[c] = NameOf[d] => c = d

\* What a poll has found bears names that differ: docker ps saw them at once.
ListNames ==
  /\ \A c, d \in ids : NameOf[c] = NameOf[d] => c = d
  /\ NamesDiffer(inspects \cup curr)
  /\ \A c \in ids, o \in inspects \cup curr : NameOf[c] # NameOf[o.id]

Bookkeeping == /\ pc \in {"idle", "poll", "dead"} => new = {} /\ deleted = {}
               /\ pc = "link" => deleted = {}
               /\ new \subseteq containers_list
               /\ deleted \cap containers_list = {}
               /\ NamesDiffer(containers_list)
               /\ NamesDiffer(deleted)

\* A directory is removed under a container that stays only when that container
\* was mistaken for another.
Mixed == \A p \in Kept, o \in deleted :
           NameOf[p.id] = NameOf[o.id] => NameOf[o.id] \in damaged

\* A container finds its name's directory there when it cannot have it.
Left == \A o \in Kept : LET n == NameOf[o.id]
                        IN n \in damaged \/ n \notin forgotten \/ links[n] # None

\* A linker that died has no lists any more.
Exactly == pc # "dead" => LinksAre(Linked, Wrong)

Directories == Bookkeeping /\ Mixed /\ Left /\ Exactly

IInv == TypeOK /\ HostNames /\ ListNames /\ Directories

-----------------------------------------------------------------------------
\* Every object the linker has is one of a known container.
LEMMA TypeInductive == TypeOK /\ [Next]_vars => TypeOK'
<1> SUFFICES ASSUME TypeOK, [Next]_vars PROVE TypeOK'
  OBVIOUS
<1> USE LinkerAssumption
    DEF TypeOK, PCs, States, memory, listing, lists, polls, directories, docker,
        Fails, Forgets
<1>1. ASSUME NEW c \in Containers, NEW p \in Pids, Start(c, p) PROVE TypeOK'
  BY <1>1 DEF Start, linker
<1>2. ASSUME NEW c \in Containers, Exit(c) \/ RemoveContainer(c) PROVE TypeOK'
  BY <1>2 DEF Exit, RemoveContainer, linker
<1>3. CASE Ps BY <1>3 DEF Ps, Running
<1>4. ASSUME NEW c \in ids, InspectOne(c) PROVE TypeOK'
  <2>1. [id |-> c, pid |-> pids[c]] \in Object
    BY DEF Object
  <2> QED BY <1>4, <2>1 DEF InspectOne
<1>5. CASE InspectRaises \/ DockerFails \/ LinkRaises
  BY <1>5 DEF InspectRaises, DockerFails, LinkRaises
<1>6. ASSUME NEW i \in inspects, Build(i) PROVE TypeOK'
  <2>1. PidNamespace(i.pid) \in SUBSET {NsOf[c] : c \in Containers}
    BY DEF PidNamespace, Running
  <2> HIDE DEF PidNamespace
  <2> QED BY <1>6, <2>1 DEF Build
<1>7. CASE Update BY <1>7 DEF Update, Compared, Minus, Mistaken
<1>8. ASSUME NEW o \in deleted, Unlink(o) \/ UnlinkFails(o) PROVE TypeOK'
  BY <1>8 DEF Unlink, UnlinkFails, Object
<1>9. CASE UnlinkDone BY <1>9 DEF UnlinkDone
<1>10. ASSUME NEW o \in new, Link(o) \/ LinkFails(o) PROVE TypeOK'
  BY <1>10 DEF Link, LinkFails, Object
<1>11. CASE LinkDone BY <1>11 DEF LinkDone
<1>12. CASE Restart BY <1>12 DEF Restart
<1>13. CASE UNCHANGED vars BY <1>13 DEF vars
<1> QED BY <1>1, <1>2, <1>3, <1>4, <1>5, <1>6, <1>7, <1>8, <1>9, <1>10, <1>11,
           <1>12, <1>13
        DEF Next, Host, Linker, Failure

\* Whatever the host does, fails and is restarted, the linker's lists hold
\* objects of known containers and the directories link to some.
THEOREM TypeCorrect == Spec => []TypeOK
<1>1. Init => TypeOK
  BY LinkerAssumption DEF Init, TypeOK, PCs, States
<1> QED BY <1>1, TypeInductive, PTL DEF Spec

-----------------------------------------------------------------------------
\* Python's set differences compare by PID only.  At the names of containers
\* that were not mistaken for one another they are those of the containers
\* themselves: a poll plans to bring the directories from those of the previous
\* poll to those of this one.
LEMMA UpdateStep ==
  ASSUME IInv, Update
  PROVE Directories'
<1> USE DEF IInv, TypeOK, Directories
<1>1. PICK S \in SUBSET curr : /\ IsSetOf(S, curr)
                               /\ new' = Minus(S, containers_list)
                               /\ deleted' = Minus(containers_list, S)
                               /\ Compared(S)
  BY DEF Update
<1>2. /\ pc = "poll" /\ pc' = "unlink" /\ links' = links
      /\ containers_list' = S /\ forgotten' = forgotten
      /\ damaged' = damaged \cup Mistaken(S, containers_list)
  BY <1>1 DEF Update, Polled, Compared
<1>3. Linked = containers_list /\ Kept = containers_list
  BY <1>2 DEF Linked, Kept, Bookkeeping
<1>4. /\ Kept' = {o \in S : \E q \in containers_list : Same(o, q)}
      /\ deleted' = {q \in containers_list : \A o \in S : ~Same(q, o)}
      /\ Linked' = Kept' \cup deleted'
  BY <1>1, <1>2 DEF Kept, Minus, Linked
<1>5. ASSUME NEW o \in S, NEW q \in containers_list, Same(o, q)
      PROVE o.id = q.id \/ (NameOf[o.id] \in damaged' /\ NameOf[q.id] \in damaged')
  <2>1. NameOf[o.id] \in Names /\ NameOf[q.id] \in Names
    BY LinkerAssumption DEF Object
  <2> QED BY <1>2, <1>5, <2>1 DEF Mistaken
<1>6. NamesDiffer(S)
  BY DEF ListNames, NamesDiffer
<1>7. Bookkeeping'
  <2>1. new' \subseteq S /\ deleted' \subseteq containers_list
    BY <1>1 DEF Minus
  <2>2. deleted' \cap S = {}
    BY <1>1 DEF Minus, Same
  <2> QED BY <1>2, <1>6, <2>1, <2>2 DEF Bookkeeping, NamesDiffer
<1>8. Mixed'
  <2> SUFFICES ASSUME NEW p \in Kept', NEW o \in deleted',
                      NameOf[p.id] = NameOf[o.id]
               PROVE NameOf[o.id] \in damaged'
    BY DEF Mixed
  <2>1. PICK q \in containers_list : p \in S /\ Same(p, q)
    BY <1>4
  <2>2. CASE p.id = q.id
    <3>1. q = o
      BY <1>4, <2>2 DEF Bookkeeping, NamesDiffer
    <3> QED BY <1>4, <2>1, <3>1 DEF Same
  <2> QED BY <1>5, <2>1, <2>2
<1>9. Left'
  <2> SUFFICES ASSUME NEW p \in Kept', NameOf[p.id] \notin damaged',
                      NameOf[p.id] \in forgotten
               PROVE links[NameOf[p.id]] # None
    BY <1>2 DEF Left
  <2>1. PICK q \in containers_list : p \in S /\ Same(p, q)
    BY <1>4
  <2>2. p.id = q.id
    BY <1>5, <2>1
  <2>3. NameOf[q.id] \notin damaged
    BY <1>2, <2>2
  <2> QED BY <1>3, <2>2, <2>3 DEF Left
<1>10. Exactly'
  <2> SUFFICES ASSUME NEW n \in Names, n \notin damaged', n \notin forgotten,
                      NEW c \in Containers
               PROVE links[n] = c <=>
                       NameOf[c] = n /\ \E o \in Kept' \cup deleted' : o.id = c
    <3>1. Wrong' = damaged' \cup forgotten
      BY <1>2 DEF Wrong
    <3> SUFFICES \A n \in Names \ Wrong', c \in Containers :
                   links'[n] = c <=> NameOf[c] = n /\ \E o \in Linked' : o.id = c
      BY DEF LinksAre, Exactly
    <3> QED BY <1>2, <1>4, <3>1
  <2>1. links[n] = c <=> NameOf[c] = n /\ \E o \in containers_list : o.id = c
    BY <1>2, <1>3 DEF LinksAre, Wrong, Exactly
  <2>2. ASSUME NEW q \in containers_list, NameOf[q.id] = n
        PROVE \E o \in Kept' \cup deleted' : o.id = q.id
    <3>1. CASE q \in deleted'
      BY <3>1
    <3>2. CASE q \notin deleted'
      <4>1. PICK o \in S : Same(q, o)
        BY <1>4, <3>2
      <4>2. Same(o, q)
        BY <4>1 DEF Same
      <4>3. o \in Kept' /\ o.id = q.id
        BY <1>4, <1>5, <2>2, <4>2
      <4> QED BY <4>3
    <3> QED BY <3>1, <3>2
  <2>3. ASSUME NEW o \in Kept' \cup deleted', NameOf[o.id] = n
        PROVE \E q \in containers_list : q.id = o.id
    <3>1. CASE o \in deleted'
      BY <1>4, <3>1
    <3>2. CASE o \in Kept'
      <4>1. PICK q \in containers_list : o \in S /\ Same(o, q)
        BY <1>4, <3>2
      <4> QED BY <1>5, <2>3, <4>1
    <3> QED BY <3>1, <3>2
  <2> QED BY <2>1, <2>2, <2>3
<1> QED BY <1>7, <1>8, <1>9, <1>10

\* Removing a directory sets right what was wrong with it, unless a container
\* that stays has its name; if it fails, the name is damaged.
LEMMA UnlinkStep ==
  ASSUME IInv, NEW o \in deleted, Unlink(o) \/ UnlinkFails(o)
  PROVE Directories'
<1> USE DEF IInv, TypeOK, Directories
<1> DEFINE n == NameOf[o.id]
           stays == \E p \in containers_list \ new : NameOf[p.id] = n
<1>1. /\ pc = "unlink" /\ pc' = pc /\ containers_list' = containers_list
      /\ new' = new /\ deleted' = deleted \ {o}
  BY DEF Unlink, UnlinkFails, polls
<1>2. n \in Names /\ o.id \in Containers
  BY LinkerAssumption DEF Object
<1>3. \A m \in Names \ {n} : links'[m] = links[m]
  BY DEF Unlink, UnlinkFails
<1>4. /\ \A m \in Names \ {n} : /\ m \in damaged' <=> m \in damaged
                                /\ m \in forgotten' <=> m \in forgotten
      /\ stays /\ n \in damaged => n \in damaged'
      /\ n \notin damaged' => links'[n] = None /\ ~stays
  <2>1. CASE Unlink(o)
    <3>1. stays => n \in damaged
      BY DEF Mixed, Kept
    <3> QED BY <1>2, <2>1, <3>1 DEF Unlink
  <2>2. CASE UnlinkFails(o)
    BY <1>2, <2>2 DEF UnlinkFails
  <2> QED BY <2>1, <2>2
<1> HIDE DEF n, stays
<1>5. Kept' = Kept /\ Linked = Kept \cup deleted /\ Linked' = Kept \cup (deleted \ {o})
  BY <1>1 DEF Kept, Linked
<1>6. \A p \in Kept \cup deleted : p.id \in Containers /\ NameOf[p.id] \in Names
  BY LinkerAssumption DEF Object, Kept
<1>7. Bookkeeping'
  BY <1>1 DEF Bookkeeping, NamesDiffer
<1>8. Mixed'
  <2> SUFFICES ASSUME NEW p \in Kept, NEW q \in deleted \ {o},
                      NameOf[p.id] = NameOf[q.id]
               PROVE NameOf[q.id] \in damaged'
    BY <1>1, <1>5 DEF Mixed
  <2>1. NameOf[q.id] \in damaged
    BY DEF Mixed
  <2>2. NameOf[q.id] # n
    BY DEF n, Bookkeeping, NamesDiffer
  <2> QED BY <1>4, <1>6, <2>1, <2>2
<1>9. Left'
  <2> SUFFICES ASSUME NEW p \in Kept, NameOf[p.id] \notin damaged',
                      NameOf[p.id] \in forgotten'
               PROVE links'[NameOf[p.id]] # None
    BY <1>5 DEF Left
  <2>1. NameOf[p.id] # n
    BY <1>4 DEF stays, Kept
  <2> QED BY <1>3, <1>4, <1>6, <2>1 DEF Left
<1>10. Exactly'
  <2> SUFFICES ASSUME NEW m \in Names, m \notin damaged', m \notin forgotten',
                      NEW c \in Containers
               PROVE links'[m] = c <=>
                 NameOf[c] = m /\ \E p \in Kept \cup (deleted \ {o}) : p.id = c
    <3> SUFFICES \A m \in Names \ Wrong', c \in Containers :
                   links'[m] = c <=> NameOf[c] = m /\ \E p \in Linked' : p.id = c
      BY DEF LinksAre, Exactly
    <3> QED BY <1>5 DEF Wrong
  <2>1. CASE m = n
    <3>1. links'[m] # c
      BY <1>4, <2>1, LinkerAssumption
    <3>2. \A p \in Kept : NameOf[p.id] # n
      BY <1>4, <2>1 DEF stays, Kept
    <3>3. \A p \in deleted \ {o} : NameOf[p.id] # n
      BY DEF n, Bookkeeping, NamesDiffer
    <3> QED BY <2>1, <3>1, <3>2, <3>3
  <2>2. CASE m # n
    <3>1. links'[m] = links[m] /\ m \notin Wrong
      BY <1>3, <1>4, <2>2 DEF Wrong
    <3>2. links[m] = c <=> NameOf[c] = m /\ \E p \in Kept \cup deleted : p.id = c
      BY <1>1, <1>5, <3>1 DEF LinksAre, Exactly
    <3> QED BY <2>2, <3>1, <3>2 DEF n
  <2> QED BY <2>1, <2>2
<1> QED BY <1>7, <1>8, <1>9, <1>10

\* A new container finds no directory, unless something was wrong with that of
\* its name; and what it finds empty or its own is right again.
LEMMA LinkStep ==
  ASSUME IInv, NEW o \in new, Link(o) \/ LinkFails(o)
  PROVE Directories'
<1> USE DEF IInv, TypeOK, Directories
<1> DEFINE n == NameOf[o.id]
<1>1. /\ pc = "link" /\ pc' = pc /\ containers_list' = containers_list
      /\ deleted' = deleted /\ new' = new \ {o} /\ deleted = {}
  BY DEF Link, LinkFails, polls, Bookkeeping
<1>2. n \in Names /\ o.id \in Containers
  BY LinkerAssumption DEF Object
<1>3. \A m \in Names \ {n} : /\ links'[m] = links[m]
                             /\ m \in damaged' <=> m \in damaged
                             /\ m \in forgotten' <=> m \in forgotten
  BY DEF Link, LinkFails
<1>4. \/ n \in damaged'
      \/ links'[n] = o.id /\ n \notin forgotten'
      \/ links'[n] = links[n] /\ links[n] \notin {None, o.id}
         /\ damaged' = damaged /\ forgotten' = forgotten
  <2>1. CASE Link(o) /\ links[n] \in {None, o.id}
    BY <1>2, <2>1 DEF Link
  <2>2. CASE Link(o) /\ links[n] \notin {None, o.id}
    BY <1>2, <2>2 DEF Link
  <2>3. CASE LinkFails(o)
    BY <1>2, <2>3 DEF LinkFails
  <2> QED BY <2>1, <2>2, <2>3
<1>5. /\ o \in containers_list /\ o \notin Kept /\ Kept' = Kept \cup {o}
      /\ Linked = Kept /\ Linked' = Kept \cup {o}
  BY <1>1 DEF Kept, Linked, Bookkeeping
<1>6. \A p \in Kept : /\ p.id \in Containers /\ NameOf[p.id] \in Names
                      /\ NameOf[p.id] # n
  BY <1>5, LinkerAssumption DEF Object, Kept, Bookkeeping, NamesDiffer
<1> HIDE DEF n
<1>7. Bookkeeping' /\ Mixed'
  BY <1>1 DEF Bookkeeping, Mixed, NamesDiffer
<1>8. Left'
  <2> SUFFICES ASSUME NEW p \in Kept \cup {o}, NameOf[p.id] \notin damaged',
                      NameOf[p.id] \in forgotten'
               PROVE links'[NameOf[p.id]] # None
    BY <1>5 DEF Left
  <2>1. CASE p = o
    BY <1>4, <2>1 DEF n
  <2>2. CASE p \in Kept
    BY <1>3, <1>6, <2>2 DEF Left
  <2> QED BY <2>1, <2>2
<1>9. Exactly'
  <2> SUFFICES ASSUME NEW m \in Names, m \notin damaged', m \notin forgotten',
                      NEW c \in Containers
               PROVE links'[m] = c <=>
                       NameOf[c] = m /\ \E p \in Kept \cup {o} : p.id = c
    <3> SUFFICES \A m \in Names \ Wrong', c \in Containers :
                   links'[m] = c <=> NameOf[c] = m /\ \E p \in Linked' : p.id = c
      BY DEF LinksAre, Exactly
    <3> QED BY <1>5 DEF Wrong
  <2>1. CASE m = n
    <3>1. links'[n] = o.id
      <4> SUFFICES ASSUME links[n] \notin {None, o.id}, damaged' = damaged,
                          forgotten' = forgotten
                   PROVE FALSE
        BY <1>4, <2>1
      <4>1. links[n] \in Containers /\ n \notin Wrong
        BY <1>2, <2>1 DEF Wrong
      <4>2. PICK p \in Kept : p.id = links[n] /\ NameOf[p.id] = n
        BY <1>1, <1>2, <1>5, <4>1 DEF LinksAre, Exactly
      <4> QED BY <1>6, <4>2
    <3> QED BY <1>6, <2>1, <3>1 DEF n
  <2>2. CASE m # n
    <3>1. links'[m] = links[m] /\ m \notin Wrong
      BY <1>3, <2>2 DEF Wrong
    <3>2. links[m] = c <=> NameOf[c] = m /\ \E p \in Kept : p.id = c
      BY <1>1, <1>5, <3>1 DEF LinksAre, Exactly
    <3> QED BY <2>2, <3>1, <3>2 DEF n
  <2> QED BY <2>1, <2>2
<1> QED BY <1>7, <1>8, <1>9

\* A step that leaves the lists and the directories alone keeps what relates
\* them.
LEMMA SameLists ==
  ASSUME IInv, UNCHANGED <<lists, directories>>, pc' \in PCs \ {"dead"},
         pc # "dead",
         \/ pc' = pc
         \/ pc = "idle" /\ pc' = "poll"
         \/ pc = "unlink" /\ pc' = "link" /\ deleted = {}
         \/ pc = "link" /\ pc' = "idle" /\ new = {}
  PROVE Directories'
<1> USE DEF IInv, Directories, lists, directories
<1>1. Kept' = Kept /\ Wrong' = Wrong
  BY DEF Kept, Wrong
<1>2. Bookkeeping'
  BY DEF Bookkeeping, NamesDiffer
<1>3. Linked' = Linked
  BY <1>1 DEF Linked, Kept, Bookkeeping
<1> QED BY <1>1, <1>2, <1>3 DEF Mixed, Left, Exactly, LinksAre

\* Neither death nor a restart leaves anything in the lists; a restart finds all
\* directories that are there forgotten.
LEMMA NoLists ==
  ASSUME TypeOK, Forgets, pc' \in {"dead", "idle"},
         pc' = "idle" => /\ links' = links
                         /\ forgotten' = {n \in Names : links[n] # None}
  PROVE Directories' /\ ListNames'
<1>1. Kept' = {} /\ Linked' = {}
  BY DEF Forgets, Kept, Linked
<1>2. ASSUME pc' = "idle" PROVE LinksAre({}, Wrong)'
  BY <1>2, LinkerAssumption DEF TypeOK, LinksAre, Wrong
<1> QED BY <1>1, <1>2
        DEF Forgets, Directories, Bookkeeping, NamesDiffer, Mixed, Left, Exactly,
            ListNames

\* The host moves names and PIDs on, but never one name to two containers.
LEMMA HostStep ==
  ASSUME TypeOK, HostNames, NEW c \in Containers,
         (\E p \in Pids : Start(c, p)) \/ Exit(c) \/ RemoveContainer(c)
  PROVE HostNames' /\ UNCHANGED linker
BY DEF Start, Exit, RemoveContainer, HostNames, Existing, TypeOK

\* One directory at a time is brought from the containers of the previous poll
\* to those of this one.
LEMMA Inductive == IInv /\ [Next]_vars => IInv'
<1> SUFFICES ASSUME IInv, [Next]_vars PROVE IInv'
  OBVIOUS
<1>1. TypeOK'
  BY TypeInductive DEF IInv
<1> USE DEF IInv
<1>2. ASSUME NEW c \in Containers,
             (\E p \in Pids : Start(c, p)) \/ Exit(c) \/ RemoveContainer(c)
      PROVE IInv'
  <2>1. HostNames' /\ UNCHANGED linker
    BY <1>2, HostStep
  <2> QED BY <1>1, <2>1
          DEF linker, memory, listing, directories, Directories, ListNames,
              NamesDiffer, Bookkeeping, Mixed, Left, Exactly, Linked, Kept, Wrong, LinksAre
<1>3. ASSUME UNCHANGED docker PROVE HostNames'
  BY <1>3 DEF docker, HostNames, Existing
<1>4. CASE Ps
  <2>1. ListNames'
    BY <1>4 DEF Ps, ListNames, NamesDiffer, HostNames, Existing, Running
  <2> QED BY <1>1, <1>3, <1>4, <2>1, SameLists DEF Ps, PCs
<1>5. ASSUME NEW c \in ids, InspectOne(c) PROVE IInv'
  <2>1. ListNames'
    <3> DEFINE i == [id |-> c, pid |-> pids[c]]
    <3>1. /\ ids' = ids \ {c} /\ inspects' = inspects \cup {i} /\ curr' = curr
          /\ i.id = c
      BY <1>5 DEF InspectOne
    <3> HIDE DEF i
    <3> QED BY <3>1 DEF ListNames, NamesDiffer
  <2> QED BY <1>1, <1>3, <1>5, <2>1, SameLists DEF InspectOne, PCs, TypeOK
<1>6. CASE InspectRaises \/ DockerFails \/ LinkRaises
  BY <1>1, <1>3, <1>6, NoLists DEF InspectRaises, DockerFails, LinkRaises
<1>7. ASSUME NEW i \in inspects, Build(i) PROVE IInv'
  <2>1. /\ ids' = ids /\ inspects' \subseteq inspects
        /\ curr' \subseteq curr \cup {i}
    BY <1>7 DEF Build
  <2>2. ListNames'
    BY <2>1 DEF ListNames, NamesDiffer
  <2> QED BY <1>1, <1>3, <1>7, <2>2, SameLists DEF Build, PCs, TypeOK
<1>8. CASE Update
  <2>1. ListNames'
    BY <1>8 DEF Update, Compared, ListNames, NamesDiffer
  <2>2. UNCHANGED docker
    BY <1>8 DEF Update, Compared
  <2> QED BY <1>1, <1>3, <1>8, <2>1, <2>2, UpdateStep
<1>9. ASSUME UNCHANGED listing PROVE ListNames'
  BY <1>9 DEF listing, ListNames, NamesDiffer
<1>10. ASSUME NEW o \in deleted, Unlink(o) \/ UnlinkFails(o) PROVE IInv'
  <2>1. UNCHANGED <<docker, listing>>
    BY <1>10 DEF Unlink, UnlinkFails, polls
  <2> QED BY <1>1, <1>3, <1>9, <1>10, <2>1, UnlinkStep
<1>11. ASSUME NEW o \in new, Link(o) \/ LinkFails(o) PROVE IInv'
  <2>1. UNCHANGED <<docker, listing>>
    BY <1>11 DEF Link, LinkFails, polls
  <2> QED BY <1>1, <1>3, <1>9, <1>11, <2>1, LinkStep
<1>12. CASE UnlinkDone
  BY <1>1, <1>3, <1>9, <1>12, SameLists DEF UnlinkDone, memory, lists, PCs
<1>13. CASE LinkDone
  BY <1>1, <1>3, <1>9, <1>13, SameLists DEF LinkDone, memory, lists, PCs
<1>14. CASE Restart
  BY <1>1, <1>3, <1>14, NoLists DEF Restart
<1>15. CASE UNCHANGED vars
  BY <1>1, <1>3, <1>9, <1>15
     DEF vars, memory, listing, directories, Directories, NamesDiffer,
         Bookkeeping, Mixed, Left, Exactly, Linked, Kept, Wrong, LinksAre
<1> QED BY <1>2, <1>4, <1>5, <1>6, <1>7, <1>8, <1>10, <1>11, <1>12, <1>13,
           <1>14, <1>15
        DEF Next, Host, Linker, Failure

\* At first there is neither a container nor a directory.
LEMMA Initially == Init => IInv
BY LinkerAssumption
DEF Init, IInv, TypeOK, PCs, States, HostNames, Existing, ListNames, Directories,
    Bookkeeping, NamesDiffer, Kept, Mixed, Left, Exactly, Linked, LinksAre

\* Whatever containers come and go, whatever names and PIDs are given again,
\* fails or is restarted: between two polls a directory is there exactly for
\* the containers the last poll kept, except at names of which a call failed,
\* a PID was mistaken or a restart found a directory, until that is made good.
THEOREM Exact == Spec => []LinksExact
<1>1. IInv => LinksExact
  BY DEF IInv, Directories, Exactly, LinksExact, Linked, Wrong
<1> QED BY <1>1, Initially, Inductive, PTL DEF Spec

\* Between two polls every container that the last poll kept has its own logs:
\* link_logfiles finds either no directory or the right one and ignores "file
\* exists" rightly, except after the mishaps that RunningLinked names.
THEOREM RunningAreLinked == Spec => []RunningLinked
<1>1. ASSUME IInv PROVE RunningLinked
  <2> SUFFICES ASSUME pc = "idle", NEW o \in containers_list,
                      NameOf[o.id] \notin damaged,
                      ~(NameOf[o.id] \in forgotten /\ links[NameOf[o.id]] # None)
               PROVE links[NameOf[o.id]] = o.id
    BY DEF RunningLinked
  <2> USE <1>1 DEF IInv, Directories
  <2>1. o.id \in Containers /\ NameOf[o.id] \in Names
    BY LinkerAssumption DEF TypeOK, Object
  <2>2. o \in Kept
    BY DEF Kept, Bookkeeping
  <2>3. NameOf[o.id] \notin forgotten
    BY <2>2 DEF Left
  <2> QED BY <2>1, <2>3 DEF Exactly, LinksAre, Linked, Wrong
<1> QED BY <1>1, Initially, Inductive, PTL DEF Spec

-----------------------------------------------------------------------------
(* Which files are linked for one container (ContainerLogs). *)

\* A link of this name that leads to source is the one the container needs.
Right(name, source) ==
  IF name = DockerLog THEN source = <<"docker", host.json>>
                      ELSE Clear(name) => source = Sees(name)
RightLogs(S) == \A l \in S : Right(l.name, l.source)
SourcesOf(S) == {l.source[1] : l \in S}
NamesOf(S) == {l.name : l \in S}

\* What LinksComplete wants a link for.
Needed == {n \in LogNames : ~Relative(n) /\ ~Glob(n) /\ Apart(n)} \union
          IF host.json = "none" \/ ~Apart(DockerLog) THEN {} ELSE {DockerLog}

\* The names a link may have: what a log may stand for, and the json log's.
LinkNames == {d \in Path : \E m \in LogNames \union {DockerLog} : Covers(m, d)}

\* Types, and where the sources of the links still to be made begin.
LinksTyped ==
  /\ LogsTypeOK
  /\ stage \in {"root", "env", "options", "map"} => obj # Nil
  /\ stage # "link" => todo = {}
  /\ obj # Nil => SourcesOf(obj.logs) \subseteq Bases
  /\ SourcesOf(todo) \subseteq Bases

\* Nothing else is linked, so that a log that is apart from the others finds no
\* link in its way.
AllNamed ==
  /\ obj # Nil => NamesOf(obj.logs) \subseteq LinkNames
  /\ NamesOf(todo) \union DOMAIN symlinks \subseteq LinkNames

\* Unless another directory has been taken for the root, all links that are made
\* or prepared are right, whatever container they were made for.
AllRight ==
  ~misled => /\ obj # Nil => obj.root \in {"rootfs", Nil} /\ RightLogs(obj.logs)
             /\ RightLogs(todo)
             /\ \A d \in DOMAIN symlinks : Right(d, symlinks[d])

\* A DockerContainer whose container still runs loses no log on the way from the
\* environment to its list of logs.
BuiltComplete ==
  obj # Nil /\ pid = obj.pid =>
    /\ stage = "options" => UserLogs \subseteq obj.input
    /\ stage = "map" => LogNames \subseteq obj.input
    /\ stage = "update" /\ obj.root # Nil => Needed \subseteq NamesOf(obj.logs)

\* What is not linked yet is still to be linked.
LinkedComplete ==
  known # 0 /\ known = pid /\ rooted => Needed \subseteq DOMAIN symlinks \union NamesOf(todo)

LogsInv == LinksTyped /\ AllNamed /\ AllRight /\ BuiltComplete /\ LinkedComplete

-----------------------------------------------------------------------------
(* Paths. *)

\* Paths are sequences: what the lemmas below use of them.
LEMMA PathLength ==
  ASSUME NEW s \in Path
  PROVE  Len(s) \in Nat /\ DOMAIN s = 1..Len(s) /\ (s # <<>> => Len(s) # 0)
BY LenProperties, EmptySeq DEF Path

LEMMA PathEqual ==
  ASSUME NEW s \in Path, NEW t \in Path, Len(s) = Len(t), \A i \in 1..Len(s) : s[i] = t[i]
  PROVE  s = t
BY SeqEqual DEF Path

LEMMA PathConcat ==
  ASSUME NEW s \in Path, NEW t \in Path
  PROVE  /\ s \o t \in Path /\ Len(s \o t) = Len(s) + Len(t)
         /\ \A i \in 1..(Len(s) + Len(t)) : (s \o t)[i] = IF i <= Len(s) THEN s[i] ELSE t[i - Len(s)]
BY ConcatProperties DEF Path

LEMMA PathPart ==
  ASSUME NEW s \in Path, NEW m \in Nat \ {0}, NEW n \in Nat, n <= Len(s)
  PROVE  /\ SubSeq(s, m, n) \in Path
         /\ m <= n + 1 => Len(SubSeq(s, m, n)) = n - m + 1
         /\ \A i \in 1..(n - m + 1) : SubSeq(s, m, n)[i] = s[m + i - 1]
<1>1. \A i \in m..n : s[i] \in Parts
  <2>1. ASSUME NEW i \in m..n PROVE i \in 1..Len(s)
    BY PathLength
  <2> QED BY <2>1, ElementOfSeq DEF Path
<1>2. m \in Int /\ n \in Int
  OBVIOUS
<1>3. /\ SubSeq(s, m, n) \in Path
      /\ Len(SubSeq(s, m, n)) = IF m <= n THEN n - m + 1 ELSE 0
      /\ \A i \in 1..(n - m + 1) : SubSeq(s, m, n)[i] = s[m + i - 1]
  BY <1>1, <1>2, SubSeqProperties DEF Path
<1> HIDE DEF Path
<1> QED BY <1>3

\* A path is below another when it has the names of the other first.
LEMMA PrefixItems ==
  ASSUME NEW s \in Path, NEW t \in Path
  PROVE  IsPrefix(s, t) <=> Len(s) <= Len(t) /\ \A i \in 1..Len(s) : s[i] = t[i]
<1> SUFFICES ASSUME Len(s) <= Len(t)
             PROVE  SubSeq(s, 1, Len(s)) = SubSeq(t, 1, Len(s)) <=> \A i \in 1..Len(s) : s[i] = t[i]
  BY DEF IsPrefix
<1>1. Len(s) \in Nat /\ Len(t) \in Nat
  BY PathLength
<1>2. SubSeq(s, 1, Len(s)) = s
  BY SubSeqFull DEF Path
<1> DEFINE start == SubSeq(t, 1, Len(s))
<1>3. /\ start \in Path /\ Len(start) = Len(s)
      /\ \A i \in 1..Len(s) : start[i] = t[i]
  <2>1. /\ start \in Path
        /\ Len(start) = Len(s) - 1 + 1
        /\ \A i \in 1..(Len(s) - 1 + 1) : start[i] = t[1 + i - 1]
    BY <1>1, PathPart
  <2> HIDE DEF start
  <2> QED BY <2>1, <1>1
<1> HIDE DEF start
<1>4. (\A i \in 1..Len(s) : s[i] = t[i]) => s = start
  BY <1>3, PathEqual
<1>5. s = start <=> \A i \in 1..Len(s) : s[i] = t[i]
  BY <1>3, <1>4
<1> QED BY <1>2, <1>5 DEF start

\* Below takes the other's names off.
LEMMA BelowItems ==
  ASSUME NEW s \in Path, NEW u \in Path
  PROVE  /\ Below(u, s) \in Path
         /\ Len(s) <= Len(u) => Len(Below(u, s)) = Len(u) - Len(s)
         /\ \A i \in 1..(Len(u) - Len(s)) : Below(u, s)[i] = u[Len(s) + i]
<1>1. Len(s) \in Nat /\ Len(u) \in Nat
  BY PathLength
<1>2. /\ Below(u, s) \in Path
      /\ Len(s) <= Len(u) => Len(Below(u, s)) = Len(u) - (Len(s) + 1) + 1
      /\ \A i \in 1..(Len(u) - (Len(s) + 1) + 1) : Below(u, s)[i] = u[(Len(s) + 1) + i - 1]
  BY <1>1, PathPart DEF Below
<1> QED BY <1>1, <1>2

\* A path is what it is below and the names that Below leaves of it.
LEMMA UnderConcat ==
  ASSUME NEW s \in Path, NEW t \in Path, Under(t, s)
  PROVE  t = s \o Below(t, s)
<1>1. Len(s) \in Nat /\ Len(t) \in Nat
  BY PathLength
<1>2. Len(s) <= Len(t) /\ \A i \in 1..Len(s) : s[i] = t[i]
  BY PrefixItems DEF Under
<1> DEFINE b == Below(t, s)
<1>3. /\ b \in Path /\ Len(b) = Len(t) - Len(s)
      /\ \A i \in 1..(Len(t) - Len(s)) : b[i] = t[Len(s) + i]
  BY <1>2, BelowItems
<1> HIDE DEF b
<1>4. /\ s \o b \in Path /\ Len(s \o b) = Len(s) + Len(b)
      /\ \A i \in 1..(Len(s) + Len(b)) : (s \o b)[i] = IF i <= Len(s) THEN s[i] ELSE b[i - Len(s)]
  BY <1>3, PathConcat
<1>5. Len(s) + Len(b) = Len(t)
  BY <1>1, <1>3
<1>6. ASSUME NEW i \in 1..Len(t) PROVE t[i] = (s \o b)[i]
  <2>1. CASE i <= Len(s)
    BY <2>1, <1>1, <1>2, <1>4, <1>5
  <2>2. CASE ~(i <= Len(s))
    <3>1. i - Len(s) \in 1..(Len(t) - Len(s)) /\ Len(s) + (i - Len(s)) = i
      BY <2>2, <1>1
    <3>2. b[i - Len(s)] = t[i]
      BY <3>1, <1>3
    <3> QED BY <3>2, <2>2, <1>4, <1>5
  <2> QED BY <2>1, <2>2
<1> QED BY <1>4, <1>5, <1>6, PathEqual DEF b

\* And the other way round.
LEMMA ConcatUnder ==
  ASSUME NEW s \in Path, NEW t \in Path
  PROVE  Under(s \o t, s) /\ Below(s \o t, s) = t
<1>1. Len(s) \in Nat /\ Len(t) \in Nat
  BY PathLength
<1> DEFINE c == s \o t
<1>2. /\ c \in Path /\ Len(c) = Len(s) + Len(t)
      /\ \A i \in 1..(Len(s) + Len(t)) : c[i] = IF i <= Len(s) THEN s[i] ELSE t[i - Len(s)]
  BY PathConcat
<1> HIDE DEF c
<1>3. Len(s) <= Len(c) /\ \A i \in 1..Len(s) : s[i] = c[i]
  BY <1>1, <1>2
<1>4. Under(c, s)
  BY <1>2, <1>3, PrefixItems DEF Under
<1>5. /\ Below(c, s) \in Path /\ Len(Below(c, s)) = Len(c) - Len(s)
      /\ \A i \in 1..(Len(c) - Len(s)) : Below(c, s)[i] = c[Len(s) + i]
  BY <1>2, <1>3, BelowItems
<1>6. Len(c) - Len(s) = Len(t)
  BY <1>1, <1>2
<1>7. ASSUME NEW i \in 1..Len(t) PROVE Below(c, s)[i] = t[i]
  <2>1. Below(c, s)[i] = c[Len(s) + i]
    BY <1>5, <1>6
  <2>2. /\ Len(s) + i \in 1..(Len(s) + Len(t)) /\ ~(Len(s) + i <= Len(s))
        /\ (Len(s) + i) - Len(s) = i
    BY <1>1
  <2> QED BY <2>1, <2>2, <1>2
<1>8. Below(c, s) = t
  BY <1>5, <1>6, <1>7, PathEqual
<1> QED BY <1>4, <1>8 DEF c

\* What Destination being the start of a name's string says of their names.
LEMMA StartItems ==
  ASSUME NEW d \in Path, NEW e \in Path, e # <<>>
  PROVE  StartsWith(d, e) <=>
           /\ Len(e) <= Len(d) /\ \A i \in 1..(Len(e) - 1) : e[i] = d[i]
           /\ e[Len(e)] = d[Len(e)] \/ <<e[Len(e)], d[Len(e)]>> \in Longer
<1>1. Len(e) \in Nat \ {0} /\ Len(d) \in Nat
  BY PathLength
<1> DEFINE f == Front(e)
<1>2. /\ f \in Path /\ Len(f) = Len(e) - 1
      /\ \A i \in 1..(Len(e) - 1) : f[i] = e[i]
  <2>1. /\ f \in Path
        /\ Len(f) = (Len(e) - 1) - 1 + 1
        /\ \A i \in 1..((Len(e) - 1) - 1 + 1) : f[i] = e[1 + i - 1]
    <3>1. /\ Len(e) - 1 \in Nat /\ Len(e) - 1 <= Len(e)
          /\ 1 \in Nat \ {0} /\ 1 <= (Len(e) - 1) + 1
      BY <1>1
    <3>2. /\ SubSeq(e, 1, Len(e) - 1) \in Path
          /\ Len(SubSeq(e, 1, Len(e) - 1)) = (Len(e) - 1) - 1 + 1
          /\ \A i \in 1..((Len(e) - 1) - 1 + 1) : SubSeq(e, 1, Len(e) - 1)[i] = e[1 + i - 1]
      BY <3>1, PathPart, Zenon
    <3>3. f = SubSeq(e, 1, Len(e) - 1)
      BY DEF Front
    <3> QED BY <3>2, <3>3
  <2> HIDE DEF f
  <2>2. Len(f) = Len(e) - 1
    BY <1>1, <2>1
  <2>3. ASSUME NEW i \in 1..(Len(e) - 1) PROVE f[i] = e[i]
    <3>1. i \in 1..((Len(e) - 1) - 1 + 1) /\ 1 + i - 1 = i
      BY <1>1
    <3> QED BY <3>1, <2>1
  <2> QED BY <2>1, <2>2, <2>3
<1> HIDE DEF f
<1>3. IsPrefix(f, d) <=> Len(f) <= Len(d) /\ \A i \in 1..Len(f) : f[i] = d[i]
  BY <1>2, PrefixItems
<1>4. StartsWith(d, e) <=> /\ Len(e) <= Len(d) /\ IsPrefix(f, d)
                           /\ e[Len(e)] = d[Len(e)] \/ <<e[Len(e)], d[Len(e)]>> \in Longer
  BY DEF StartsWith, f
<1>5. Len(e) <= Len(d) =>
        (IsPrefix(f, d) <=> \A i \in 1..(Len(e) - 1) : e[i] = d[i])
  BY <1>1, <1>2, <1>3
<1> QED BY <1>4, <1>5

\* A name below a Destination starts with it.
LEMMA UnderStarts ==
  ASSUME NEW d \in Path, NEW e \in Path, e # <<>>, Under(d, e)
  PROVE  StartsWith(d, e)
<1>1. Len(e) \in Nat \ {0}
  BY PathLength
<1>2. Len(e) <= Len(d) /\ \A i \in 1..Len(e) : e[i] = d[i]
  BY PrefixItems DEF Under
<1>3. (\A i \in 1..(Len(e) - 1) : e[i] = d[i]) /\ e[Len(e)] = d[Len(e)]
  BY <1>1, <1>2
<1> QED BY <1>2, <1>3, StartItems

\* What a pattern covers can be put after the same path.
LEMMA CoversConcat ==
  ASSUME NEW s \in Path, NEW n \in Path, NEW u \in Path, Covers(n, u)
  PROVE  Covers(s \o n, s \o u)
<1>1. /\ Len(s) \in Nat /\ Len(n) \in Nat /\ Len(u) = Len(n)
      /\ \A i \in 1..Len(n) : n[i] \in {u[i], "*"}
  BY PathLength DEF Covers
<1>2. /\ DOMAIN (s \o u) = 1..(Len(s) + Len(n)) /\ Len(s \o u) = Len(s) + Len(n)
      /\ \A i \in 1..(Len(s) + Len(n)) : (s \o u)[i] = IF i <= Len(s) THEN s[i] ELSE u[i - Len(s)]
  <2> DEFINE c == s \o u
  <2>1. /\ c \in Path /\ Len(c) = Len(s) + Len(u)
        /\ \A i \in 1..(Len(s) + Len(u)) : c[i] = IF i <= Len(s) THEN s[i] ELSE u[i - Len(s)]
    BY PathConcat
  <2> HIDE DEF c
  <2>2. DOMAIN c = 1..Len(c)
    BY <2>1, PathLength
  <2>3. /\ DOMAIN c = 1..(Len(s) + Len(n)) /\ Len(c) = Len(s) + Len(n)
        /\ \A i \in 1..(Len(s) + Len(n)) : c[i] = IF i <= Len(s) THEN s[i] ELSE u[i - Len(s)]
    BY <1>1, <2>1, <2>2
  <2> QED BY <2>3 DEF c
<1>3. /\ Len(s \o n) = Len(s) + Len(n)
      /\ \A i \in 1..(Len(s) + Len(n)) : (s \o n)[i] = IF i <= Len(s) THEN s[i] ELSE n[i - Len(s)]
  BY PathConcat
<1>4. ASSUME NEW i \in 1..(Len(s) + Len(n)) PROVE (s \o n)[i] \in {(s \o u)[i], "*"}
  <2>1. CASE i <= Len(s)
    BY <2>1, <1>2, <1>3
  <2>2. CASE ~(i <= Len(s))
    <3>1. i - Len(s) \in 1..Len(n)
      BY <2>2, <1>1
    <3> QED BY <3>1, <2>2, <1>1, <1>2, <1>3
  <2> QED BY <2>1, <2>2
<1> QED BY <1>2, <1>3, <1>4 DEF Covers

\* A file that a pattern stands for is below what the pattern begins with, up to
\* the first "*".
LEMMA CoversBelow ==
  ASSUME NEW base \in Path, NEW rest \in Path, NEW f \in Path,
         "*" \notin ToSet(base), Covers(base \o rest, f)
  PROVE  Under(f, base) /\ Covers(rest, Below(f, base))
<1>1. Len(base) \in Nat /\ Len(rest) \in Nat /\ DOMAIN base = 1..Len(base)
  BY PathLength
<1> DEFINE c == base \o rest
<1>2. /\ Len(c) = Len(base) + Len(rest)
      /\ \A i \in 1..(Len(base) + Len(rest)) : c[i] = IF i <= Len(base) THEN base[i] ELSE rest[i - Len(base)]
  BY PathConcat
<1>3. Covers(c, f)
  OBVIOUS
<1> HIDE DEF c
<1>4. /\ Len(f) = Len(base) + Len(rest)
      /\ \A i \in 1..(Len(base) + Len(rest)) : c[i] \in {f[i], "*"}
  BY <1>2, <1>3, PathLength DEF Covers
<1>5. ASSUME NEW i \in 1..Len(base) PROVE base[i] = f[i]
  <2>1. base[i] # "*"
    BY <1>1 DEF ToSet
  <2>2. i \in 1..(Len(base) + Len(rest)) /\ i <= Len(base)
    BY <1>1
  <2> QED BY <2>1, <2>2, <1>2, <1>4
<1>6. Under(f, base)
  <2>1. Len(base) <= Len(f)
    BY <1>1, <1>4
  <2> QED BY <2>1, <1>5, PrefixItems DEF Under
<1> DEFINE u == Below(f, base)
<1>7. /\ u \in Path /\ Len(u) = Len(f) - Len(base)
      /\ \A i \in 1..(Len(f) - Len(base)) : u[i] = f[Len(base) + i]
  <2>1. Len(base) <= Len(f)
    BY <1>1, <1>4
  <2> QED BY <2>1, BelowItems
<1> HIDE DEF u
<1>8. Len(u) = Len(rest) /\ DOMAIN u = 1..Len(rest) /\ Len(f) - Len(base) = Len(rest)
  BY <1>1, <1>4, <1>7, PathLength
<1>9. ASSUME NEW i \in 1..Len(rest) PROVE rest[i] \in {u[i], "*"}
  <2>1. /\ Len(base) + i \in 1..(Len(base) + Len(rest)) /\ ~(Len(base) + i <= Len(base))
        /\ (Len(base) + i) - Len(base) = i
    BY <1>1
  <2>2. c[Len(base) + i] = rest[i]
    BY <2>1, <1>2
  <2>3. u[i] = f[Len(base) + i]
    BY <1>7, <1>8
  <2> QED BY <2>1, <2>2, <2>3, <1>4
<1>10. Covers(rest, u)
  BY <1>8, <1>9 DEF Covers
<1> QED BY <1>6, <1>10 DEF u

\* A path stands for itself.
LEMMA CoversSelf == ASSUME NEW n \in Path PROVE Covers(n, n)
BY DEF Covers

\* l is made of one file that the rest of the pattern stands for.
MadeOf(l, part, base, rest) ==
  \E u \in Path : l = [name |-> part \o u, source |-> base \o u] /\ Covers(rest, u)

\* A link made of a pattern has the host's part of it and the container's, each
\* with what was found of the rest.
LEMMA Expanded ==
  ASSUME NEW name \in Path, NEW base \in Path, NEW part \in Path, NEW rest \in Path,
         name = part \o rest, "*" \notin ToSet(base), files \subseteq Path,
         NEW l \in Expand(name, base \o rest, base, part)
  PROVE  MadeOf(l, part, base, rest)
<1>1. CASE Glob(name)
  <2>1. PICK f \in Matching(base \o rest) : l = [name |-> part \o Below(f, base), source |-> f]
    BY <1>1 DEF Expand
  <2>2. f \in Path /\ Covers(base \o rest, f)
    BY DEF Matching
  <2>3. Under(f, base) /\ Covers(rest, Below(f, base))
    BY <2>2, CoversBelow
  <2>4. f = base \o Below(f, base) /\ Below(f, base) \in Path
    BY <2>2, <2>3, UnderConcat, BelowItems
  <2> QED BY <2>1, <2>3, <2>4 DEF MadeOf
<1>2. CASE ~Glob(name)
  <2>1. l = [name |-> name, source |-> base \o rest]
    BY <1>2 DEF Expand
  <2> QED BY <2>1, CoversSelf DEF MadeOf
<1> QED BY <1>1, <1>2

-----------------------------------------------------------------------------
(* Names of logs, mounts, and where the container sees them. *)

\* What is known of the mounts of a host.
LEMMA MountPaths ==
  ASSUME host \in Hosts
  PROVE  /\ Len(host.mounts) \in Nat /\ DOMAIN host.mounts = 1..Len(host.mounts)
         /\ host.mounts # <<>> =>
              Len(host.mounts) \in DOMAIN host.mounts /\ Last(host.mounts) = host.mounts[Len(host.mounts)]
         /\ \A i \in DOMAIN host.mounts : LET m == host.mounts[i] IN
              /\ m \in ToSet(host.mounts)
              /\ m.src \in Path /\ m.src # <<>> /\ "*" \notin ToSet(m.src)
              /\ m.dst \in Path /\ m.dst # <<>> /\ "*" \notin ToSet(m.dst)
<1> DEFINE Mount == [src : Path, dst : Path]
           ms == host.mounts
<1>1. ms \in Seq(Mount) /\ \A m \in ToSet(ms) : /\ m.src # <<>> /\ "*" \notin ToSet(m.src)
                                               /\ m.dst # <<>> /\ "*" \notin ToSet(m.dst)
  BY LogsAssumption
<1> HIDE DEF ms
<1>2. /\ Len(ms) \in Nat /\ DOMAIN ms = 1..Len(ms) /\ (ms # <<>> => Len(ms) \in Nat \ {0})
      /\ \A i \in DOMAIN ms : ms[i] \in Mount
  <2> HIDE DEF Mount
  <2>1. /\ Len(ms) \in Nat /\ DOMAIN ms = 1..Len(ms) /\ ms \in [1..Len(ms) -> Mount]
    BY <1>1, LenProperties
  <2>2. ms # <<>> => Len(ms) \in Nat \ {0}
    BY <1>1, EmptySeq
  <2> QED BY <2>1, <2>2
<1>3. ASSUME NEW i \in DOMAIN ms
      PROVE  LET m == ms[i] IN
              /\ m \in ToSet(ms)
              /\ m.src \in Path /\ m.src # <<>> /\ "*" \notin ToSet(m.src)
              /\ m.dst \in Path /\ m.dst # <<>> /\ "*" \notin ToSet(m.dst)
  <2>1. ms[i] \in ToSet(ms)
    BY DEF ToSet
  <2>2. ms[i] \in Mount
    BY <1>2
  <2> QED BY <2>1, <2>2, <1>1
<1>4. ms # <<>> => Len(ms) \in DOMAIN ms /\ Last(ms) = ms[Len(ms)]
  BY <1>2 DEF Last
<1> QED BY <1>2, <1>3, <1>4 DEF ms

\* A log that starts with no Destination is in the container's root.
LEMMA SeesRoot ==
  ASSUME host \in Hosts, NEW d \in Path,
         \A i \in DOMAIN host.mounts : ~StartsWith(d, host.mounts[i].dst)
  PROVE  Sees(d) = <<"rootfs">> \o d
<1>1. ASSUME NEW m \in Mounts(d) PROVE FALSE
  <2>1. PICK i \in DOMAIN host.mounts : m = host.mounts[i]
    BY DEF Mounts, ToSet
  <2>2. Under(d, m.dst)
    BY DEF Mounts
  <2>3. m.dst \in Path /\ m.dst # <<>>
    BY <2>1, MountPaths
  <2> QED BY <2>1, <2>2, <2>3, UnderStarts
<1> QED BY <1>1 DEF Sees

\* A log below the last Destination and no other is in the last mount.
LEMMA SeesMount ==
  ASSUME host \in Hosts, host.mounts # <<>>, NEW d \in Path, Clear(d),
         Under(d, Last(host.mounts).dst)
  PROVE  Sees(d) = Last(host.mounts).src \o Below(d, Last(host.mounts).dst)
<1> DEFINE last == Last(host.mounts)
<1>1. last \in Mounts(d)
  BY MountPaths DEF Mounts
<1>2. ASSUME NEW m \in Mounts(d) PROVE m = last
  <2>1. PICK i \in DOMAIN host.mounts : m = host.mounts[i]
    BY DEF Mounts, ToSet
  <2>2. Under(d, m.dst) /\ m.dst \in Path /\ m.dst # <<>>
    BY <2>1, MountPaths DEF Mounts
  <2>3. i = Len(host.mounts)
    BY <2>1, <2>2, UnderStarts DEF Clear
  <2> QED BY <2>1, <2>3, MountPaths
<1>3. Len(last.dst) \in Nat
  BY MountPaths, PathLength
<1> HIDE DEF last
<1>4. (CHOOSE m \in Mounts(d) : \A o \in Mounts(d) : Len(o.dst) <= Len(m.dst)) = last
  <2>1. \A o \in Mounts(d) : Len(o.dst) <= Len(last.dst)
    BY <1>2, <1>3
  <2> QED BY <1>1, <1>2, <2>1
<1>5. Sees(d) = last.src \o Below(d, last.dst)
  BY <1>1, <1>4 DEF Sees
<1> QED BY <1>5 DEF last

\* A pattern that starts with a Destination without being below it covers only
\* what does the same.
LEMMA BesideCovers ==
  ASSUME NEW n \in Path, NEW u \in Path, NEW e \in Path, e # <<>>, "*" \notin ToSet(e),
         Covers(n, u), StartsWith(n, e), ~Under(n, e)
  PROVE  StartsWith(u, e) /\ ~Under(u, e)
<1> DEFINE k == Len(e)
<1>1. k \in Nat \ {0} /\ DOMAIN e = 1..k /\ Len(u) = Len(n) /\ Len(n) \in Nat
  BY PathLength DEF Covers
<1>2. /\ k <= Len(n) /\ \A i \in 1..(k - 1) : e[i] = n[i]
      /\ e[k] = n[k] \/ <<e[k], n[k]>> \in Longer
  BY StartItems
<1>3. \A i \in 1..Len(n) : n[i] = u[i] \/ n[i] = "*"
  BY <1>1, PathLength DEF Covers
<1>4. \A i \in 1..k : e[i] # "*"
  BY <1>1 DEF ToSet
<1>5. e[k] # n[k]
  <2>1. ASSUME e[k] = n[k] PROVE FALSE
    <3>1. k <= Len(n) /\ \A i \in 1..k : e[i] = n[i]
      BY <1>1, <1>2, <2>1
    <3> QED BY <3>1, PrefixItems DEF Under
  <2> QED BY <2>1
<1>6. <<e[k], n[k]>> \in Longer /\ n[k] # "*"
  BY <1>2, <1>5, LogsAssumption
<1>7. u[k] = n[k]
  BY <1>1, <1>2, <1>3, <1>6
<1>8. ASSUME NEW i \in 1..(k - 1) PROVE e[i] = u[i]
  <2>1. i \in 1..k /\ i \in 1..Len(n)
    BY <1>1, <1>2
  <2> QED BY <2>1, <1>2, <1>3, <1>4
<1>9. StartsWith(u, e)
  BY <1>1, <1>2, <1>6, <1>7, <1>8, StartItems
<1>10. ~Under(u, e)
  BY <1>1, <1>5, <1>7, PrefixItems DEF Under
<1> QED BY <1>9, <1>10

\* Paths of one name, and of none.
LEMMA ShortPaths ==
  /\ <<>> \in Path /\ \A u \in Path : <<>> \o u = u
  /\ \A r \in Parts \ {"*"} : <<r>> \in Path /\ <<r>> # <<>> /\ "*" \notin ToSet(<<r>>) /\ <<r>>[1] = r
<1>1. <<>> \in Path /\ \A u \in Path : <<>> \o u = u
  BY ConcatEmptySeq, EmptySeq DEF Path
<1>2. ASSUME NEW r \in Parts \ {"*"}
      PROVE  <<r>> \in Path /\ <<r>> # <<>> /\ "*" \notin ToSet(<<r>>) /\ <<r>>[1] = r
  BY DEF Path, ToSet
<1> QED BY <1>1, <1>2

\* A path begins with what it is put together from.
LEMMA FirstName ==
  ASSUME NEW s \in Path, NEW t \in Path, s # <<>>
  PROVE  (s \o t)[1] = s[1]
<1>1. Len(s) \in Nat \ {0} /\ Len(t) \in Nat
  BY PathLength
<1>2. \A i \in 1..(Len(s) + Len(t)) : (s \o t)[i] = IF i <= Len(s) THEN s[i] ELSE t[i - Len(s)]
  BY PathConcat
<1>3. 1 \in 1..(Len(s) + Len(t)) /\ 1 <= Len(s)
  BY <1>1
<1> QED BY <1>2, <1>3

\* What is right about a link made of the log n by _expand_and_map_log_link.
Maps(n, r, l) ==
  /\ l \in LogFileLink /\ Covers(n, l.name) /\ l.source[1] \in Bases
  /\ r = "rootfs" /\ Clear(l.name) => l.source = Sees(l.name)

\* A log that does not start with the last Destination is mapped to the root.
LEMMA MappedToRoot ==
  ASSUME host \in Hosts, files \subseteq Path, NEW n \in LogNames, NEW r \in {"rootfs", "elsewhere"},
         host.mounts = <<>> \/ ~StartsWith(n, Last(host.mounts).dst),
         NEW l \in FromRoot(n, r)
  PROVE  Maps(n, r, l)
<1>1. n \in Path
  BY LogsAssumption
<1>2. <<r>> \in Path /\ <<r>> # <<>> /\ "*" \notin ToSet(<<r>>) /\ <<r>>[1] = r
  <2>1. r \in Parts /\ r # "*"
    BY LogsAssumption
  <2> QED BY <2>1, ShortPaths, Zenon
<1>3. l \in Expand(n, <<r>> \o n, <<r>>, <<>>)
  BY DEF FromRoot
<1>4. PICK u \in Path : l = [name |-> <<>> \o u, source |-> <<r>> \o u] /\ Covers(n, u)
  <2>1. <<>> \in Path /\ n = <<>> \o n
    BY <1>1, ShortPaths
  <2>2. MadeOf(l, <<>>, <<r>>, n)
    BY <1>1, <1>2, <1>3, <2>1, Expanded
  <2> QED BY <2>2 DEF MadeOf
<1>5. l.name = u /\ l.source = <<r>> \o u
  BY <1>4, ShortPaths
<1>6. l.source \in Path /\ l.source[1] = r
  BY <1>2, <1>5, PathConcat, FirstName
<1>7. l \in LogFileLink
  BY <1>4, <1>5, <1>6, ShortPaths DEF LogFileLink
<1>8. ASSUME Clear(u), NEW i \in DOMAIN host.mounts, StartsWith(u, host.mounts[i].dst) PROVE FALSE
  <2>1. i = Len(host.mounts) /\ StartsWith(n, host.mounts[i].dst)
    BY <1>4, <1>8 DEF Clear
  <2>2. host.mounts # <<>> /\ Last(host.mounts) = host.mounts[i]
    <3>1. host.mounts # <<>>
      BY MountPaths
    <3> QED BY <3>1, <2>1, MountPaths
  <2> QED BY <2>1, <2>2
<1>9. Clear(u) => Sees(u) = <<"rootfs">> \o u
  BY <1>8, SeesRoot
<1> QED BY <1>4, <1>5, <1>6, <1>7, <1>9 DEF Maps, Bases

\* One that starts with it is mapped to the mount when it is below it.
LEMMA MappedToMount ==
  ASSUME host \in Hosts, files \subseteq Path, NEW n \in LogNames, NEW r,
         host.mounts # <<>>, StartsWith(n, Last(host.mounts).dst),
         NEW l \in FromMount(n, Last(host.mounts))
  PROVE  Maps(n, r, l)
<1> DEFINE m == Last(host.mounts)
<1>1. /\ m \in ToSet(host.mounts)
      /\ m.src \in Path /\ m.src # <<>> /\ "*" \notin ToSet(m.src)
      /\ m.dst \in Path /\ m.dst # <<>> /\ "*" \notin ToSet(m.dst)
  BY MountPaths
<1>2. n \in Path
  BY LogsAssumption
<1>3. CASE Under(n, m.dst)
  <2> DEFINE rest == Below(n, m.dst)
  <2>1. rest \in Path /\ n = m.dst \o rest
    BY <1>1, <1>2, <1>3, UnderConcat, BelowItems
  <2>2. l \in Expand(n, m.src \o rest, m.src, m.dst)
    BY <1>3 DEF FromMount
  <2> HIDE DEF rest, m
  <2>3. PICK u \in Path : l = [name |-> m.dst \o u, source |-> m.src \o u] /\ Covers(rest, u)
    <3>1. MadeOf(l, m.dst, m.src, rest)
      BY <1>1, <1>2, <2>1, <2>2, Expanded
    <3> QED BY <3>1 DEF MadeOf
  <2>4. l.name = m.dst \o u /\ l.source = m.src \o u
    BY <2>3
  <2>5. l.name \in Path /\ l.source \in Path /\ l.source[1] = m.src[1]
    BY <1>1, <2>4, PathConcat, FirstName
  <2>6. l \in LogFileLink
    BY <2>3, <2>4, <2>5 DEF LogFileLink
  <2>7. l.source[1] \in Bases
    BY <1>1, <2>5 DEF Bases
  <2>8. Covers(n, l.name)
    BY <1>1, <2>1, <2>3, <2>4, CoversConcat
  <2>9. Under(l.name, m.dst) /\ Below(l.name, m.dst) = u
    BY <1>1, <2>4, ConcatUnder
  <2>10. Clear(l.name) => Sees(l.name) = m.src \o Below(l.name, m.dst)
    BY <2>5, <2>9, SeesMount DEF m
  <2> QED BY <2>4, <2>6, <2>7, <2>8, <2>9, <2>10 DEF Maps
<1>4. CASE ~Under(n, m.dst)
  <2>1. <<"beside">> \in Path /\ <<"beside">> # <<>> /\ "*" \notin ToSet(<<"beside">>) /\ <<"beside">>[1] = "beside"
    <3>1. "beside" \in Parts /\ "beside" # "*"
      BY LogsAssumption
    <3> QED BY <3>1, ShortPaths, Zenon
  <2>2. l \in Expand(n, <<"beside">> \o n, <<"beside">>, <<>>)
    BY <1>4 DEF FromMount
  <2>3. PICK u \in Path : l = [name |-> <<>> \o u, source |-> <<"beside">> \o u] /\ Covers(n, u)
    <3>1. <<>> \in Path /\ n = <<>> \o n
      BY <1>2, ShortPaths
    <3>2. MadeOf(l, <<>>, <<"beside">>, n)
      BY <1>2, <2>1, <2>2, <3>1, Expanded
    <3> QED BY <3>2 DEF MadeOf
  <2>4. l.name = u /\ l.source = <<"beside">> \o u
    BY <2>3, ShortPaths
  <2>5. l.source \in Path /\ l.source[1] = "beside"
    BY <2>1, <2>4, PathConcat, FirstName
  <2>6. l \in LogFileLink
    BY <2>3, <2>4, <2>5, ShortPaths DEF LogFileLink
  <2>7. StartsWith(u, m.dst) /\ ~Under(u, m.dst)
    BY <1>1, <1>2, <1>4, <2>3, BesideCovers
  <2>8. ~Clear(u)
    BY <2>7, MountPaths DEF Clear
  <2> QED BY <2>3, <2>4, <2>5, <2>6, <2>8 DEF Maps, Bases
<1> QED BY <1>3, <1>4

\* So is what _expand_and_map_log_link makes of a log, and one that is not a
\* pattern is among it.
LEMMA Mapped ==
  ASSUME host \in Hosts, files \subseteq Path, NEW n \in LogNames, NEW r \in {"rootfs", "elsewhere"}
  PROVE  /\ \A l \in MapLog(n, r) : Maps(n, r, l)
         /\ ~Glob(n) => n \in NamesOf(MapLog(n, r))
<1>1. CASE host.mounts = <<>> \/ ~StartsWith(n, Last(host.mounts).dst)
  <2>1. MapLog(n, r) = FromRoot(n, r)
    BY <1>1 DEF MapLog
  <2>2. ~Glob(n) => n \in NamesOf(FromRoot(n, r))
    BY DEF FromRoot, Expand, NamesOf
  <2> QED BY <1>1, <2>1, <2>2, MappedToRoot
<1>2. CASE ~(host.mounts = <<>> \/ ~StartsWith(n, Last(host.mounts).dst))
  <2>1. MapLog(n, r) = FromMount(n, Last(host.mounts))
    BY <1>2 DEF MapLog
  <2>2. ~Glob(n) => n \in NamesOf(FromMount(n, Last(host.mounts)))
    BY DEF FromMount, Expand, NamesOf
  <2> QED BY <1>2, <2>1, <2>2, MappedToMount
<1> QED BY <1>1, <1>2

\* The logs of a container whose root has been found are well formed, each that
\* needs a link is among them, and when the root is the right one they are right.
LEMMA ListedLogs ==
  ASSUME LinksTyped, obj # Nil, obj.root # Nil
  PROVE  /\ LogsList(obj) \subseteq LogFileLink /\ SourcesOf(LogsList(obj)) \subseteq Bases
         /\ NamesOf(LogsList(obj)) \subseteq LinkNames
         /\ obj.root = "rootfs" => RightLogs(LogsList(obj))
         /\ LogNames \subseteq obj.input => Needed \subseteq NamesOf(LogsList(obj))
<1>1. /\ host \in Hosts /\ files \subseteq Path
      /\ obj.input \subseteq LogNames /\ obj.root \in {"rootfs", "elsewhere"}
  BY LogsAssumption DEF LinksTyped, LogsTypeOK, DockerContainer
<1>2. /\ host.json \in {"default", "LogPath", "HostnamePath", "none"}
      /\ JsonLogs = IF host.json = "none" THEN {}
                    ELSE {[name |-> DockerLog, source |-> <<"docker", host.json>>]}
  BY <1>1, LogsAssumption DEF JsonLogs
<1>3. ASSUME NEW l \in JsonLogs
      PROVE  /\ l \in LogFileLink /\ l.source[1] \in Bases /\ l.name \in LinkNames
             /\ Right(l.name, l.source)
  <2>1. l = [name |-> DockerLog, source |-> <<"docker", host.json>>] /\ host.json # "none"
    BY <1>2, <1>3
  <2>2. {"docker", "docker.log", host.json} \subseteq Parts
    BY <1>2, <2>1, LogsAssumption
  <2>3. DockerLog \in Path /\ <<"docker", host.json>> \in Path
    BY <2>2 DEF DockerLog, Path
  <2>4. DockerLog \in LinkNames
    BY <2>3, CoversSelf DEF LinkNames
  <2> QED BY <2>1, <2>3, <2>4 DEF LogFileLink, Bases, Right
<1>4. ASSUME NEW n \in obj.input, NEW l \in MapLog(n, obj.root)
      PROVE  /\ l \in LogFileLink /\ l.source[1] \in Bases /\ l.name \in LinkNames
             /\ obj.root = "rootfs" => Right(l.name, l.source)
  <2>1. n \in LogNames /\ Maps(n, obj.root, l)
    BY <1>1, Mapped
  <2>2. l.name # DockerLog
    BY <2>1, LogsAssumption DEF Maps
  <2>3. l.name \in LinkNames
    BY <2>1 DEF Maps, LogFileLink, LinkNames
  <2> QED BY <2>1, <2>2, <2>3 DEF Maps, Right
<1>5. ASSUME NEW l \in LogsList(obj)
      PROVE  l \in JsonLogs \/ \E n \in obj.input : l \in MapLog(n, obj.root)
  BY <1>5 DEF LogsList
<1>6. /\ LogsList(obj) \subseteq LogFileLink /\ SourcesOf(LogsList(obj)) \subseteq Bases
      /\ NamesOf(LogsList(obj)) \subseteq LinkNames
  BY <1>3, <1>4, <1>5 DEF SourcesOf, NamesOf
<1>7. obj.root = "rootfs" => RightLogs(LogsList(obj))
  BY <1>3, <1>4, <1>5 DEF RightLogs
<1>8. ASSUME LogNames \subseteq obj.input, NEW n \in Needed PROVE n \in NamesOf(LogsList(obj))
  <2>1. CASE n \in LogNames /\ ~Relative(n) /\ ~Glob(n)
    <3>1. n \in NamesOf(MapLog(n, obj.root))
      BY <1>1, <2>1, Mapped
    <3>2. MapLog(n, obj.root) \subseteq LogsList(obj)
      BY <1>8, <2>1 DEF LogsList
    <3> QED BY <3>1, <3>2 DEF NamesOf
  <2>2. CASE n = DockerLog /\ host.json # "none"
    <3>1. [name |-> DockerLog, source |-> <<"docker", host.json>>] \in LogsList(obj)
      BY <1>2, <2>2 DEF LogsList
    <3> QED BY <2>2, <3>1 DEF NamesOf
  <2> QED BY <1>8, <2>1, <2>2 DEF Needed
<1> QED BY <1>6, <1>7, <1>8

\* Of all the links there may be, none is in the way of a log that is apart.
LEMMA ApartAlone ==
  ASSUME NEW n \in LinkNames, Apart(n), DOMAIN symlinks \subseteq LinkNames
  PROVE  Nested(n) = {}
<1> SUFFICES ASSUME NEW d \in LinkNames, d # n, Under(n, d) \/ Under(d, n) PROVE FALSE
  BY DEF Nested
<1>1. PICK m \in LogNames \union {DockerLog} : Covers(m, d)
  BY DEF LinkNames
<1>2. d \in Path /\ n \in Path
  BY DEF LinkNames
<1>3. /\ Len(d) \in Nat /\ DOMAIN d = 1..Len(d)
      /\ Len(n) \in Nat /\ DOMAIN n = 1..Len(n)
  BY <1>2, PathLength
<1>4. \A i \in DOMAIN d \intersect DOMAIN n : d[i] = n[i]
  BY <1>2, <1>3, PrefixItems DEF Under
<1>5. Len(d) # Len(n)
  BY <1>2, <1>3, <1>4, PathEqual
<1>6. Len(m) = Len(d) /\ \A i \in DOMAIN d : m[i] \in {d[i], "*"}
  BY <1>1 DEF Covers
<1>7. m \in Path
  <2>1. DockerLog \in Path
    BY LogsAssumption DEF DockerLog, Path
  <2> QED BY <2>1, LogsAssumption
<1>8. DOMAIN m = DOMAIN d
  BY <1>3, <1>6, <1>7, PathLength
<1>9. Overlaps(m, n)
  BY <1>4, <1>5, <1>6, <1>8 DEF Overlaps
<1> QED BY <1>9 DEF Apart

\* Whatever the driver, what is found is the root, some other directory or none.
LEMMA RootKinds ==
  ASSUME driver \in SUPPORTED_DRIVERS \union {Nil}
  PROVE  rootfs_path \subseteq {"rootfs", "elsewhere", Nil}
BY DEF rootfs_path, rootfs_dm, rootfs_btrfs, rootfs_aufs, rootfs_vfs, At, SUPPORTED_DRIVERS

-----------------------------------------------------------------------------
(* The invariant, part by part. *)

\* Every step keeps the types, and begins todo with sources in known places.
LEMMA TypedStep == LinksTyped /\ [LogsNext]_logsVars => LinksTyped'
<1> SUFFICES ASSUME LinksTyped, [LogsNext]_logsVars PROVE LinksTyped'
  OBVIOUS
<1>1. MaxPid \in Nat /\ MaxFaults \in Nat /\ Nil \notin DockerContainer
  BY LogsAssumption
<1>2. CASE NoVersion
  BY <1>2 DEF NoVersion, LinksTyped, LogsTypeOK, world, linking
<1>3. CASE InfoDriver
  BY <1>3 DEF InfoDriver, LinksTyped, LogsTypeOK, world, linking
<1>4. CASE GuessDriver
  <2>1. driver' \in SUPPORTED_DRIVERS \union {Nil}
    BY <1>4 DEF GuessDriver, SUPPORTED_DRIVERS
  <2>2. faults' \in 0..MaxFaults
    BY <1>1, <1>4 DEF GuessDriver, Fault, LinksTyped, LogsTypeOK
  <2> QED BY <1>4, <2>1, <2>2 DEF GuessDriver, LinksTyped, LogsTypeOK, world, linking
<1>5. CASE PsRaises
  BY <1>5 DEF PsRaises, LinksTyped, LogsTypeOK, world, linking
<1>6. CASE ExecDockerps
  <2>1. CASE pid = 0
    BY <1>6, <2>1 DEF ExecDockerps, LinksTyped, LogsTypeOK, world, linking
  <2>2. CASE pid # 0
    <3>1. NewContainer \in DockerContainer
      BY <1>1, <2>2 DEF NewContainer, DockerContainer, LinksTyped, LogsTypeOK
    <3>2. obj' = NewContainer /\ stage' = "root"
      BY <1>6, <2>2 DEF ExecDockerps
    <3>3. obj' # Nil /\ SourcesOf(obj.logs)' = {}
      BY <1>1, <3>1, <3>2 DEF NewContainer, SourcesOf
    <3> QED BY <1>6, <3>1, <3>2, <3>3 DEF ExecDockerps, LinksTyped, LogsTypeOK, world, linking
  <2> QED BY <2>1, <2>2
<1>7. CASE RootFs
  <2>1. PICK r \in rootfs_path : obj' = [obj EXCEPT !.root = r]
    BY <1>7 DEF RootFs
  <2>2. r \in {"rootfs", "elsewhere", Nil} /\ obj \in DockerContainer
    BY <1>7, RootKinds DEF RootFs, LinksTyped, LogsTypeOK
  <2>3. obj' \in DockerContainer /\ obj'.logs = obj.logs
    BY <2>1, <2>2 DEF DockerContainer
  <2>4. obj' # Nil /\ SourcesOf(obj.logs)' \subseteq Bases
    BY <1>1, <2>2, <2>3 DEF SourcesOf, LinksTyped
  <2>5. misled' \in BOOLEAN
    BY <1>7 DEF RootFs
  <2> QED BY <1>7, <2>3, <2>4, <2>5 DEF RootFs, LinksTyped, LogsTypeOK, world, linking
<1>8. CASE ReadEnv
  <2>1. obj \in DockerContainer /\ UserLogs \subseteq LogNames
    BY <1>8 DEF ReadEnv, LinksTyped, LogsTypeOK, LogNames
  <2>2. obj' \in DockerContainer /\ obj'.logs = obj.logs
    BY <1>8, <2>1 DEF ReadEnv, DockerContainer
  <2>3. obj' # Nil /\ SourcesOf(obj.logs)' \subseteq Bases
    BY <1>1, <2>1, <2>2 DEF SourcesOf, LinksTyped
  <2> QED BY <1>8, <2>2, <2>3 DEF ReadEnv, LinksTyped, LogsTypeOK, world, linking
<1>9. CASE CloudsightOptions \/ ClusterOptions
  <2>1. stage = "options" /\ SetOptions
    BY <1>9 DEF CloudsightOptions, ClusterOptions
  <2>2. obj \in DockerContainer /\ Defaults \subseteq LogNames
    BY <2>1 DEF LinksTyped, LogsTypeOK, LogNames
  <2>3. obj' \in DockerContainer /\ obj'.logs = obj.logs
    BY <2>1, <2>2 DEF SetOptions, DockerContainer
  <2>4. obj' # Nil /\ SourcesOf(obj.logs)' \subseteq Bases
    BY <1>1, <2>2, <2>3 DEF SourcesOf, LinksTyped
  <2> QED BY <2>1, <2>3, <2>4 DEF SetOptions, LinksTyped, LogsTypeOK, world, linking
<1>10. CASE OptionsRaise
  BY <1>10 DEF OptionsRaise, LinksTyped, LogsTypeOK, world, linking
<1>11. CASE InvalidEnvironment
  BY <1>11 DEF InvalidEnvironment, LinksTyped, LogsTypeOK, world, linking
<1>12. CASE SetLogsList
  <2>1. obj \in DockerContainer /\ obj # Nil /\ obj' = [obj EXCEPT !.logs = LogsList(obj)]
    BY <1>1, <1>12 DEF SetLogsList, LinksTyped, LogsTypeOK
  <2>2. LogsList(obj) \subseteq LogFileLink /\ SourcesOf(LogsList(obj)) \subseteq Bases
    <3>1. CASE obj.root = Nil
      BY <3>1 DEF LogsList, SourcesOf
    <3>2. CASE obj.root # Nil
      BY <2>1, <3>2, ListedLogs
    <3> QED BY <3>1, <3>2
  <2>3. obj' \in DockerContainer /\ obj'.logs = LogsList(obj)
    BY <2>1, <2>2 DEF DockerContainer
  <2>4. obj' # Nil /\ SourcesOf(obj.logs)' \subseteq Bases
    BY <1>1, <2>2, <2>3 DEF SourcesOf
  <2> QED BY <1>12, <2>3, <2>4 DEF SetLogsList, LinksTyped, LogsTypeOK, world, linking
<1>13. CASE UpdateList
  <2>1. todo = {}
    BY <1>13 DEF UpdateList, LinksTyped
  <2>2. known' \in 0..MaxPid
    BY <1>1, <1>13 DEF UpdateList, LinksTyped, LogsTypeOK, DockerContainer
  <2>3. CASE known = known'
    BY <1>13, <2>1, <2>2, <2>3 DEF UpdateList, LinksTyped, LogsTypeOK, world, linking
  <2>4. CASE known # known'
    <3>1. /\ stage' = "link" /\ todo' = IF obj = Nil THEN {} ELSE obj.logs
          /\ symlinks' = IF known = 0 THEN symlinks ELSE <<>>
          /\ rooted' = (obj # Nil /\ obj.root # Nil)
      BY <1>13, <2>4 DEF UpdateList
    <3>2. todo' \subseteq LogFileLink
      BY <3>1 DEF LinksTyped, LogsTypeOK, DockerContainer
    <3>3. SourcesOf(todo)' \subseteq Bases
      BY <3>1 DEF SourcesOf, LinksTyped
    <3>4. \A d \in DOMAIN symlinks' : symlinks'[d][1] \in Bases
      BY <3>1 DEF LinksTyped, LogsTypeOK
    <3>5. rooted' \in BOOLEAN
      BY <3>1
    <3> QED BY <1>13, <2>2, <3>1, <3>2, <3>3, <3>4, <3>5
            DEF UpdateList, LinksTyped, LogsTypeOK, world
  <2> QED BY <2>3, <2>4
<1>14. ASSUME NEW l \in todo, LinkLog(l) PROVE LinksTyped'
  <2>1. todo' \subseteq LogFileLink /\ SourcesOf(todo)' \subseteq Bases
    BY <1>14 DEF LinkLog, SourcesOf, LinksTyped, LogsTypeOK
  <2>2. l.source[1] \in Bases
    BY DEF SourcesOf, LinksTyped
  <2>3. \A d \in DOMAIN symlinks' : symlinks'[d][1] \in Bases
    BY <1>14, <2>2 DEF LinkLog, LinksTyped, LogsTypeOK
  <2> QED BY <1>14, <2>1, <2>3 DEF LinkLog, LinksTyped, LogsTypeOK, world
<1>15. CASE LinkLogsDone
  BY <1>15 DEF LinkLogsDone, LinksTyped, LogsTypeOK, world, linking
<1>16. CASE RestartLinker
  <2>1. faults' \in 0..MaxFaults
    BY <1>1, <1>16 DEF RestartLinker, Fault, LinksTyped, LogsTypeOK
  <2>2. SourcesOf(todo)' = {}
    BY <1>16 DEF RestartLinker, SourcesOf
  <2> QED BY <1>1, <1>16, <2>1, <2>2 DEF RestartLinker, LinksTyped, LogsTypeOK, world
<1>17. CASE Container \/ DaemonChanges \/ RootChanges
  <2>1. UNCHANGED crawler
    BY <1>17 DEF Container, StartContainer, StopContainer, Write, DaemonChanges, RootChanges
  <2>2. /\ daemon' \in BOOLEAN /\ pid' \in 0..MaxPid /\ visible' \in BOOLEAN
        /\ files' \subseteq MayAppear /\ faults' \in 0..MaxFaults
    <3> /\ daemon \in BOOLEAN /\ pid \in 0..MaxPid /\ visible \in BOOLEAN
        /\ files \subseteq MayAppear /\ faults \in 0..MaxFaults
      BY DEF LinksTyped, LogsTypeOK
    <3>1. ASSUME NEW p \in 1..MaxPid, StartContainer(p)
          PROVE  /\ daemon' \in BOOLEAN /\ pid' \in 0..MaxPid /\ visible' \in BOOLEAN
                 /\ files' \subseteq MayAppear /\ faults' \in 0..MaxFaults
      BY <1>1, <3>1 DEF StartContainer
    <3>2. CASE StopContainer
      BY <1>1, <3>2 DEF StopContainer, Fault
    <3>3. ASSUME NEW f \in MayAppear, Write(f)
          PROVE  /\ daemon' \in BOOLEAN /\ pid' \in 0..MaxPid /\ visible' \in BOOLEAN
                 /\ files' \subseteq MayAppear /\ faults' \in 0..MaxFaults
      BY <3>3 DEF Write
    <3>4. CASE DaemonChanges
      BY <1>1, <3>4 DEF DaemonChanges, Fault
    <3>5. CASE RootChanges
      BY <1>1, <3>5 DEF RootChanges, Fault
    <3> QED BY <1>17, <3>1, <3>2, <3>3, <3>4, <3>5 DEF Container
  <2> QED BY <2>1, <2>2 DEF crawler, linking, LinksTyped, LogsTypeOK
<1>18. CASE UNCHANGED logsVars
  BY <1>18 DEF logsVars, world, linking, LinksTyped, LogsTypeOK
<1>19. ASSUME NEW l \in todo, LinkNested(l) PROVE LinksTyped'
  <2>1. todo' \subseteq LogFileLink /\ SourcesOf(todo)' \subseteq Bases /\ files' \subseteq MayAppear
    BY <1>19 DEF LinkNested, SourcesOf, LinksTyped, LogsTypeOK
  <2> QED BY <1>19, <2>1 DEF LinkNested, LinksTyped, LogsTypeOK
<1> QED BY <1>2, <1>3, <1>4, <1>5, <1>6, <1>7, <1>8, <1>9, <1>10, <1>11, <1>12, <1>13, <1>14,
           <1>15, <1>16, <1>17, <1>18, <1>19 DEF LogsNext, Poll

\* The host, its mounts and so where the container sees a log never change.
LEMMA HostStays ==
  ASSUME [LogsNext]_logsVars
  PROVE  /\ host' = host /\ Needed' = Needed
         /\ \A d : (Clear(d)' <=> Clear(d)) /\ Sees(d)' = Sees(d)
<1>1. host' = host
  BY DEF LogsNext, Poll, NoVersion, InfoDriver, GuessDriver, PsRaises, ExecDockerps, RootFs, ReadEnv,
         CloudsightOptions, ClusterOptions, SetOptions, OptionsRaise, InvalidEnvironment, SetLogsList,
         UpdateList, LinkLog, LinkNested, LinkLogsDone, RestartLinker, Container, StartContainer, StopContainer,
         Write, DaemonChanges, RootChanges, logsVars, world, crawler
<1>2. \A d : Clear(d)' <=> Clear(d)
  BY <1>1 DEF Clear
<1>3. Needed' = Needed
  BY <1>1 DEF Needed
<1>4. \A d : Sees(d)' = Sees(d)
  <2>1. ASSUME NEW CONSTANT d PROVE Sees(d)' = Sees(d)
    <3> DEFINE In(M) == IF M = {} THEN <<"rootfs">> \o d
                        ELSE LET m == CHOOSE m \in M : \A o \in M : Len(o.dst) <= Len(m.dst)
                             IN  m.src \o Below(d, m.dst)
    <3>1. Sees(d) = In(Mounts(d)) /\ Sees(d)' = In(Mounts(d)')
      BY Zenon DEF Sees
    <3>2. Mounts(d)' = Mounts(d)
      BY <1>1 DEF Mounts
    <3> HIDE DEF In
    <3> QED BY <3>1, <3>2
  <2> QED BY <2>1
<1> QED BY <1>1, <1>2, <1>3, <1>4

\* No step makes a link with another name.
LEMMA NamedStep == LinksTyped /\ AllNamed /\ [LogsNext]_logsVars => AllNamed'
<1> SUFFICES ASSUME LinksTyped, AllNamed, [LogsNext]_logsVars
             PROVE  /\ obj' # Nil => NamesOf(obj.logs)' \subseteq LinkNames
                    /\ NamesOf(todo)' \subseteq LinkNames
                    /\ DOMAIN symlinks' \subseteq LinkNames
  BY DEF AllNamed
<1>1. /\ obj # Nil => NamesOf(obj.logs) \subseteq LinkNames
      /\ NamesOf(todo) \subseteq LinkNames /\ DOMAIN symlinks \subseteq LinkNames
  BY DEF AllNamed
<1>2. obj # Nil => obj \in DockerContainer
  BY DEF LinksTyped, LogsTypeOK
<1> DEFINE ObjNamed == obj # Nil => NamesOf(obj.logs) \subseteq LinkNames
<1>3. ASSUME obj' = Nil \/ (obj # Nil /\ obj'.logs = obj.logs) PROVE ObjNamed'
  BY <1>1, <1>3 DEF NamesOf
<1>4. ASSUME todo' \subseteq todo PROVE NamesOf(todo)' \subseteq LinkNames
  BY <1>1, <1>4 DEF NamesOf
<1>5. CASE ExecDockerps
  <2>1. UNCHANGED <<todo, symlinks>> /\ obj' \in {obj, NewContainer}
    BY <1>5 DEF ExecDockerps, linking
  <2>2. NamesOf(NewContainer.logs) = {}
    BY DEF NewContainer, NamesOf
  <2> QED BY <1>1, <2>1, <2>2, <1>4 DEF NamesOf
<1>6. CASE RootFs \/ ReadEnv \/ CloudsightOptions \/ ClusterOptions
  <2>1. UNCHANGED <<todo, symlinks>> /\ obj # Nil
    BY <1>6 DEF RootFs, ReadEnv, CloudsightOptions, ClusterOptions, SetOptions, linking, LinksTyped
  <2>2. \E S : obj' = [obj EXCEPT !.root = S] \/ obj' = [obj EXCEPT !.input = S]
    BY <1>6 DEF RootFs, ReadEnv, CloudsightOptions, ClusterOptions, SetOptions
  <2>3. obj'.logs = obj.logs
    BY <1>2, <2>1, <2>2 DEF DockerContainer
  <2> QED BY <1>1, <1>3, <1>4, <2>1, <2>3
<1>7. CASE SetLogsList
  <2>1. UNCHANGED <<todo, symlinks>> /\ obj # Nil /\ obj' = [obj EXCEPT !.logs = LogsList(obj)]
    BY <1>7 DEF SetLogsList, linking, LinksTyped
  <2>2. obj'.logs = LogsList(obj)
    BY <1>2, <2>1 DEF DockerContainer
  <2>3. NamesOf(LogsList(obj)) \subseteq LinkNames
    <3>1. CASE obj.root = Nil
      BY <3>1 DEF LogsList, NamesOf
    <3>2. CASE obj.root # Nil
      BY <2>1, <3>2, ListedLogs
    <3> QED BY <3>1, <3>2
  <2> QED BY <1>1, <1>4, <2>1, <2>2, <2>3 DEF NamesOf
<1>8. CASE UpdateList
  <2>1. obj' = Nil /\ todo' \subseteq todo \union (IF obj = Nil THEN {} ELSE obj.logs)
    BY <1>8 DEF UpdateList, linking
  <2>2. symlinks' \in {symlinks, <<>>}
    BY <1>8 DEF UpdateList, linking
  <2> QED BY <1>1, <2>1, <2>2 DEF NamesOf
<1>9. ASSUME NEW l \in todo, LinkLog(l) \/ LinkNested(l)
      PROVE  ObjNamed' /\ NamesOf(todo)' \subseteq LinkNames /\ DOMAIN symlinks' \subseteq LinkNames
  <2>1. /\ UNCHANGED obj /\ todo' \subseteq todo
        /\ DOMAIN symlinks' \subseteq DOMAIN symlinks \union {l.name}
    BY <1>9 DEF LinkLog, LinkNested
  <2>2. l.name \in LinkNames
    BY <1>1 DEF NamesOf
  <2> QED BY <1>1, <1>4, <2>1, <2>2 DEF NamesOf
<1>10. CASE InvalidEnvironment \/ RestartLinker
  <2>1. obj' = Nil /\ todo' \subseteq todo /\ UNCHANGED symlinks
    BY <1>10 DEF InvalidEnvironment, RestartLinker, linking
  <2> QED BY <1>1, <1>3, <1>4, <2>1
<1>11. CASE NoVersion \/ InfoDriver \/ GuessDriver \/ PsRaises \/ OptionsRaise \/ LinkLogsDone
            \/ Container \/ DaemonChanges \/ RootChanges \/ UNCHANGED logsVars
  <2>1. UNCHANGED <<obj, todo, symlinks>>
    BY <1>11 DEF NoVersion, InfoDriver, GuessDriver, PsRaises, OptionsRaise, LinkLogsDone, Container,
                 StartContainer, StopContainer, Write, DaemonChanges, RootChanges, logsVars, linking, crawler
  <2> QED BY <1>1, <1>4, <2>1 DEF NamesOf
<1> QED BY <1>5, <1>6, <1>7, <1>8, <1>9, <1>10, <1>11 DEF LogsNext, Poll

\* Every step leaves what has been linked, and what will be, right.
LEMMA RightStep == LinksTyped /\ AllRight /\ [LogsNext]_logsVars => AllRight'
<1> SUFFICES ASSUME LinksTyped, AllRight, [LogsNext]_logsVars, ~misled'
             PROVE  /\ obj' # Nil => obj'.root \in {"rootfs", Nil} /\ RightLogs(obj.logs)'
                    /\ RightLogs(todo)'
                    /\ \A d \in DOMAIN symlinks' : Right(d, symlinks[d])'
  BY DEF AllRight
<1>1. ~misled
  BY DEF LogsNext, Poll, NoVersion, InfoDriver, GuessDriver, PsRaises, ExecDockerps, RootFs, ReadEnv,
         CloudsightOptions, ClusterOptions, SetOptions, OptionsRaise, InvalidEnvironment, SetLogsList,
         UpdateList, LinkLog, LinkNested, LinkLogsDone, RestartLinker, Container, StartContainer, StopContainer,
         Write, DaemonChanges, RootChanges, logsVars, crawler
<1>2. /\ obj # Nil => obj.root \in {"rootfs", Nil} /\ RightLogs(obj.logs)
      /\ RightLogs(todo)
      /\ \A d \in DOMAIN symlinks : Right(d, symlinks[d])
  BY <1>1 DEF AllRight
<1> DEFINE ObjRight == obj # Nil => obj.root \in {"rootfs", Nil} /\ RightLogs(obj.logs)
           LinksRight == \A d \in DOMAIN symlinks : Right(d, symlinks[d])
<1>3. ASSUME NEW S, NEW T, S \subseteq T, RightLogs(T) PROVE (\A l \in S : Right(l.name, l.source)')
  BY <1>3, HostStays DEF RightLogs, Right
<1>4. ASSUME UNCHANGED obj PROVE ObjRight'
  BY <1>2, <1>4, HostStays DEF RightLogs, Right
<1>5. ASSUME todo' \subseteq todo PROVE RightLogs(todo)'
  BY <1>2, <1>3, <1>5 DEF RightLogs
<1>6. ASSUME UNCHANGED symlinks PROVE LinksRight'
  BY <1>2, <1>6, HostStays DEF Right
<1>7. ASSUME obj # Nil, obj'.root \in {"rootfs", Nil}, obj'.logs \subseteq obj.logs PROVE ObjRight'
  BY <1>2, <1>3, <1>7 DEF RightLogs
<1> HIDE DEF ObjRight, LinksRight
<1>8. CASE NoVersion \/ InfoDriver \/ GuessDriver \/ PsRaises \/ OptionsRaise \/ LinkLogsDone
           \/ Container \/ DaemonChanges \/ RootChanges \/ UNCHANGED logsVars
  <2>1. UNCHANGED <<obj, todo, symlinks>>
    BY <1>8 DEF NoVersion, InfoDriver, GuessDriver, PsRaises, OptionsRaise, LinkLogsDone, Container,
                StartContainer, StopContainer, Write, DaemonChanges, RootChanges, logsVars, linking, crawler
  <2> QED BY <2>1, <1>4, <1>5, <1>6 DEF ObjRight, LinksRight
<1>9. CASE ExecDockerps
  <2>1. UNCHANGED <<todo, symlinks>> /\ obj' \in {obj, NewContainer}
    BY <1>9 DEF ExecDockerps, linking
  <2>2. CASE obj' = NewContainer
    <3>1. obj'.root = Nil /\ obj'.logs = {}
      BY <2>2 DEF NewContainer
    <3>2. ObjRight'
      BY <3>1 DEF ObjRight, RightLogs
    <3> QED BY <2>1, <3>2, <1>5, <1>6 DEF ObjRight, LinksRight
  <2> QED BY <2>1, <2>2, <1>4, <1>5, <1>6 DEF ObjRight, LinksRight
<1>10. CASE RootFs
  <2>1. PICK r \in rootfs_path : obj' = [obj EXCEPT !.root = r] /\ misled' = (misled \/ r = "elsewhere")
    BY <1>10 DEF RootFs
  <2>2. obj \in DockerContainer /\ obj # Nil /\ r \in {"rootfs", Nil}
    BY <1>10, <2>1, RootKinds, LogsAssumption DEF RootFs, LinksTyped, LogsTypeOK
  <2>3. obj'.root \in {"rootfs", Nil} /\ obj'.logs = obj.logs
    BY <2>1, <2>2 DEF DockerContainer
  <2>4. UNCHANGED <<todo, symlinks>>
    BY <1>10 DEF RootFs, linking
  <2> QED BY <2>2, <2>3, <2>4, <1>5, <1>6, <1>7 DEF ObjRight, LinksRight
<1>11. CASE ReadEnv \/ CloudsightOptions \/ ClusterOptions
  <2>1. PICK S : obj' = [obj EXCEPT !.input = S]
    BY <1>11 DEF ReadEnv, CloudsightOptions, ClusterOptions, SetOptions
  <2>2. obj \in DockerContainer /\ obj # Nil
    BY <1>11 DEF ReadEnv, CloudsightOptions, ClusterOptions, LinksTyped, LogsTypeOK
  <2>3. obj'.root = obj.root /\ obj'.logs = obj.logs
    BY <2>1, <2>2 DEF DockerContainer
  <2>4. UNCHANGED <<todo, symlinks>>
    BY <1>11 DEF ReadEnv, CloudsightOptions, ClusterOptions, SetOptions, linking
  <2> QED BY <2>2, <2>3, <2>4, <1>2, <1>5, <1>6, <1>7 DEF ObjRight, LinksRight
<1>12. CASE InvalidEnvironment
  <2>1. UNCHANGED <<todo, symlinks>> /\ obj' = Nil
    BY <1>12 DEF InvalidEnvironment, linking
  <2> QED BY <2>1, <1>5, <1>6 DEF LinksRight
<1>13. CASE SetLogsList
  <2>1. obj \in DockerContainer /\ obj # Nil /\ obj' = [obj EXCEPT !.logs = LogsList(obj)]
    BY <1>13 DEF SetLogsList, LinksTyped, LogsTypeOK
  <2>2. obj'.root = obj.root /\ obj'.logs = LogsList(obj)
    BY <2>1 DEF DockerContainer
  <2>3. RightLogs(LogsList(obj))
    <3>1. CASE obj.root = Nil
      BY <3>1 DEF LogsList, RightLogs
    <3>2. CASE obj.root # Nil
      BY <1>2, <2>1, <3>2, ListedLogs
    <3> QED BY <3>1, <3>2
  <2>4. ObjRight'
    BY <1>2, <1>3, <2>1, <2>2, <2>3 DEF ObjRight, RightLogs
  <2>5. UNCHANGED <<todo, symlinks>>
    BY <1>13 DEF SetLogsList, linking
  <2> QED BY <2>4, <2>5, <1>5, <1>6 DEF ObjRight, LinksRight
<1>14. CASE UpdateList
  <2>1. obj' = Nil /\ todo' \subseteq todo \union (IF obj = Nil THEN {} ELSE obj.logs)
    BY <1>14 DEF UpdateList, linking
  <2>2. symlinks' \in {symlinks, <<>>}
    BY <1>14 DEF UpdateList, linking
  <2>3. RightLogs(todo)'
    BY <1>2, <1>3, <2>1 DEF RightLogs
  <2>4. LinksRight'
    BY <1>6, <2>2 DEF LinksRight
  <2> QED BY <2>1, <2>3, <2>4 DEF LinksRight
<1>15. ASSUME NEW l \in todo, LinkLog(l)
       PROVE  ObjRight' /\ RightLogs(todo)' /\ LinksRight'
  <2>1. UNCHANGED obj /\ todo' \subseteq todo
    BY <1>15 DEF LinkLog
  <2>2. ASSUME NEW d \in DOMAIN symlinks' PROVE Right(d, symlinks[d])'
    <3>1. CASE d \in DOMAIN symlinks
      <4>1. symlinks'[d] = symlinks[d] /\ Right(d, symlinks[d])
        BY <1>2, <1>15, <3>1 DEF LinkLog
      <4> QED BY <4>1, HostStays DEF Right
    <3>2. CASE d \notin DOMAIN symlinks
      <4>1. d = l.name /\ symlinks'[d] = l.source /\ Right(l.name, l.source)
        BY <1>2, <1>15, <3>2 DEF LinkLog, RightLogs
      <4> QED BY <4>1, HostStays DEF Right
    <3> QED BY <3>1, <3>2
  <2> QED BY <2>1, <2>2, <1>4, <1>5 DEF LinksRight
<1>16. CASE RestartLinker
  <2>1. UNCHANGED symlinks /\ obj' = Nil /\ todo' = {}
    BY <1>16 DEF RestartLinker
  <2> QED BY <2>1, <1>5, <1>6 DEF LinksRight
<1>17. ASSUME NEW l \in todo, LinkNested(l)
       PROVE  ObjRight' /\ RightLogs(todo)' /\ LinksRight'
  <2>1. UNCHANGED <<obj, symlinks>> /\ todo' \subseteq todo
    BY <1>17 DEF LinkNested
  <2> QED BY <2>1, <1>4, <1>5, <1>6
<1> QED BY <1>8, <1>9, <1>10, <1>11, <1>12, <1>13, <1>14, <1>15, <1>16, <1>17
        DEF LogsNext, Poll, ObjRight, LinksRight

\* A DockerContainer whose container still runs loses no log while it is built.
LEMMA BuiltStep == LinksTyped /\ BuiltComplete /\ [LogsNext]_logsVars => BuiltComplete'
<1> SUFFICES ASSUME LinksTyped, BuiltComplete, [LogsNext]_logsVars, obj' # Nil, pid' = obj'.pid
             PROVE  /\ stage' = "options" => UserLogs \subseteq obj'.input
                    /\ stage' = "map" => LogNames \subseteq obj'.input
                    /\ stage' = "update" /\ obj'.root # Nil => Needed' \subseteq NamesOf(obj.logs)'
  BY DEF BuiltComplete
<1>1. Needed' = Needed
  BY HostStays
<1>2. obj # Nil => obj \in DockerContainer /\ obj.pid \in 1..MaxPid
  BY DEF LinksTyped, LogsTypeOK, DockerContainer
<1>3. CASE NoVersion \/ InfoDriver \/ GuessDriver \/ PsRaises \/ OptionsRaise \/ LinkLogsDone \/ RootFs
           \/ RestartLinker \/ (\E l \in todo : LinkLog(l) \/ LinkNested(l))
  <2>1. stage' \notin {"options", "map", "update"}
    BY <1>3 DEF NoVersion, InfoDriver, GuessDriver, PsRaises, OptionsRaise, LinkLogsDone, RootFs,
                RestartLinker, LinkLog, LinkNested
  <2> QED BY <2>1
<1>4. CASE InvalidEnvironment \/ UpdateList
  <2>1. obj' = Nil
    BY <1>4 DEF InvalidEnvironment, UpdateList
  <2> QED BY <2>1
<1>5. CASE ExecDockerps
  <2>1. CASE pid = 0
    <3>1. obj' = obj /\ pid' = 0
      BY <1>5, <2>1 DEF ExecDockerps, world
    <3> QED BY <1>2, <3>1
  <2>2. CASE pid # 0
    BY <1>5, <2>2 DEF ExecDockerps
  <2> QED BY <2>1, <2>2
<1>6. CASE ReadEnv
  <2>1. obj \in DockerContainer /\ pid' = pid /\ stage' = "options"
    BY <1>2, <1>6 DEF ReadEnv, LinksTyped, world
  <2>2. obj'.pid = obj.pid /\ obj'.input = IF pid = obj.pid THEN UserLogs ELSE {}
    BY <1>6, <2>1 DEF ReadEnv, DockerContainer
  <2> QED BY <2>1, <2>2
<1>7. CASE CloudsightOptions \/ ClusterOptions
  <2>1. stage = "options" /\ SetOptions
    BY <1>7 DEF CloudsightOptions, ClusterOptions
  <2>2. obj \in DockerContainer /\ obj # Nil /\ pid' = pid /\ stage' = "map"
    BY <1>2, <2>1 DEF SetOptions, LinksTyped, world
  <2>3. obj'.pid = obj.pid /\ obj'.input = obj.input \union Defaults
    BY <2>1, <2>2 DEF SetOptions, DockerContainer
  <2>4. UserLogs \subseteq obj.input
    BY <2>1, <2>2, <2>3 DEF BuiltComplete
  <2> QED BY <2>2, <2>3, <2>4 DEF LogNames
<1>8. CASE SetLogsList
  <2>1. stage = "map" /\ stage' = "update" /\ pid' = pid /\ obj' = [obj EXCEPT !.logs = LogsList(obj)]
    BY <1>8 DEF SetLogsList, world
  <2>2. obj \in DockerContainer /\ obj # Nil
    BY <1>2, <2>1 DEF LinksTyped
  <2>3. obj'.pid = obj.pid /\ obj'.root = obj.root /\ obj'.logs = LogsList(obj)
    BY <2>1, <2>2 DEF DockerContainer
  <2>4. LogNames \subseteq obj.input
    BY <2>1, <2>2, <2>3 DEF BuiltComplete
  <2>5. obj.root # Nil => Needed \subseteq NamesOf(LogsList(obj))
    BY <2>2, <2>4, ListedLogs
  <2> QED BY <1>1, <2>1, <2>3, <2>5 DEF NamesOf
<1>9. CASE Container \/ DaemonChanges \/ RootChanges \/ UNCHANGED logsVars
  <2>1. UNCHANGED <<stage, obj>>
    BY <1>9 DEF Container, StartContainer, StopContainer, Write, DaemonChanges, RootChanges, logsVars, crawler
  <2>2. pid' \in {pid, 0}
    BY <1>9, <2>1 DEF Container, StartContainer, StopContainer, Write, DaemonChanges, RootChanges,
                      logsVars, world
  <2>3. pid = obj.pid
    BY <1>2, <2>1, <2>2
  <2> QED BY <1>1, <2>1, <2>3 DEF BuiltComplete, NamesOf
<1> QED BY <1>3, <1>4, <1>5, <1>6, <1>7, <1>8, <1>9 DEF LogsNext, Poll

\* What a container needs and has no link for yet is still to be linked.
LEMMA LinkedStep ==
  LinksTyped /\ AllNamed /\ BuiltComplete /\ LinkedComplete /\ [LogsNext]_logsVars => LinkedComplete'
<1> SUFFICES ASSUME LinksTyped, AllNamed, BuiltComplete, LinkedComplete, [LogsNext]_logsVars,
                    known' # 0, known' = pid', rooted'
             PROVE  Needed' \subseteq DOMAIN symlinks' \union NamesOf(todo)'
  BY DEF LinkedComplete
<1>1. Needed' = Needed
  BY HostStays
<1>2. known \in 0..MaxPid /\ MaxPid \in Nat
  BY LogsAssumption DEF LinksTyped, LogsTypeOK
<1>3. CASE UNCHANGED <<known, pid, linking>>
  BY <1>1, <1>3 DEF LinkedComplete, NamesOf, linking
<1>4. CASE Container
  <2>1. UNCHANGED <<known, linking>>
    BY <1>4 DEF Container, StartContainer, StopContainer, Write, crawler
  <2>2. CASE UNCHANGED pid
    BY <1>3, <2>1, <2>2
  <2>3. ASSUME NEW p \in 1..MaxPid, StartContainer(p) PROVE FALSE
    <3>1. pid' = p /\ p > known
      BY <2>3 DEF StartContainer
    <3>2. known = p
      BY <2>1, <3>1
    <3> QED BY <3>1, <3>2
  <2>4. CASE StopContainer
    BY <2>1, <2>4 DEF StopContainer
  <2> QED BY <1>4, <2>2, <2>3, <2>4 DEF Container, Write
<1>5. CASE UpdateList
  <2>1. CASE known = known'
    BY <1>3, <1>5, <2>1 DEF UpdateList, world
  <2>2. CASE known # known'
    <3>1. /\ stage = "update" /\ pid' = pid /\ known' = IF obj = Nil THEN 0 ELSE obj.pid
          /\ todo' = IF obj = Nil THEN {} ELSE obj.logs
          /\ rooted' = (obj # Nil /\ obj.root # Nil)
      BY <1>5, <2>2 DEF UpdateList, world
    <3>2. obj # Nil /\ obj.root # Nil /\ pid = obj.pid /\ todo' = obj.logs
      BY <3>1
    <3>3. Needed \subseteq NamesOf(obj.logs)
      BY <3>1, <3>2 DEF BuiltComplete
    <3> QED BY <1>1, <3>2, <3>3 DEF NamesOf
  <2> QED BY <2>1, <2>2
<1>6. ASSUME NEW l \in todo, LinkLog(l)
      PROVE  Needed' \subseteq DOMAIN symlinks' \union NamesOf(todo)'
  <2>1. /\ UNCHANGED <<known, pid, rooted>> /\ todo' = todo \ {l}
        /\ DOMAIN symlinks' = DOMAIN symlinks \union {l.name}
    BY <1>6 DEF LinkLog, world
  <2>2. Needed \subseteq DOMAIN symlinks \union NamesOf(todo)
    BY <2>1 DEF LinkedComplete
  <2> QED BY <1>1, <2>1, <2>2 DEF NamesOf
<1>7. CASE RestartLinker
  BY <1>7 DEF RestartLinker
<1>8. CASE NoVersion \/ InfoDriver \/ GuessDriver \/ PsRaises \/ ExecDockerps \/ RootFs \/ ReadEnv
           \/ CloudsightOptions \/ ClusterOptions \/ OptionsRaise \/ InvalidEnvironment \/ SetLogsList
           \/ LinkLogsDone \/ DaemonChanges \/ RootChanges \/ UNCHANGED logsVars
  <2>1. UNCHANGED <<known, pid, linking>>
    BY <1>8 DEF NoVersion, InfoDriver, GuessDriver, PsRaises, ExecDockerps, RootFs, ReadEnv, SetOptions,
                CloudsightOptions, ClusterOptions, OptionsRaise, InvalidEnvironment, SetLogsList,
                LinkLogsDone, DaemonChanges, RootChanges, logsVars, world, crawler
  <2> QED BY <2>1, <1>3
<1>9. ASSUME NEW l \in todo, LinkNested(l)
      PROVE  Needed' \subseteq DOMAIN symlinks' \union NamesOf(todo)'
  <2>1. UNCHANGED <<known, pid, rooted, symlinks>> /\ todo' = todo \ {l} /\ Nested(l.name) # {}
    BY <1>9 DEF LinkNested
  <2>2. Needed \subseteq DOMAIN symlinks \union NamesOf(todo)
    BY <2>1 DEF LinkedComplete
  <2>3. l.name \in LinkNames /\ DOMAIN symlinks \subseteq LinkNames
    BY DEF AllNamed, NamesOf
  <2>4. ~Apart(l.name)
    BY <2>1, <2>3, ApartAlone
  <2>5. l.name \notin Needed
    BY <2>4 DEF Needed
  <2> QED BY <1>1, <2>1, <2>2, <2>5 DEF NamesOf
<1> QED BY <1>4, <1>5, <1>6, <1>7, <1>8, <1>9 DEF LogsNext, Poll

\* The invariant holds at first.
LEMMA LogsInitially == LogsInit => LogsInv
<1> SUFFICES ASSUME LogsInit PROVE LogsInv
  OBVIOUS
<1>1. LinksTyped
  <2>1. MaxPid \in Nat /\ MaxFaults \in Nat
    BY LogsAssumption
  <2>2. LogsTypeOK
    <3>1. /\ host \in Hosts /\ daemon \in BOOLEAN /\ pid \in 0..MaxPid /\ visible \in BOOLEAN
          /\ files \subseteq MayAppear /\ faults \in 0..MaxFaults
      BY <2>1 DEF LogsInit
    <3>2. /\ driver \in SUPPORTED_DRIVERS \union {Nil} /\ stage = "import"
          /\ obj \in DockerContainer \union {Nil} /\ todo \subseteq LogFileLink
          /\ known \in 0..MaxPid
      BY <2>1 DEF LogsInit
    <3>3. {rooted, misled} \subseteq BOOLEAN
      BY Zenon DEF LogsInit
    <3>4. DOMAIN symlinks = {}
      BY DEF LogsInit
    <3> QED BY <3>1, <3>2, <3>3, <3>4 DEF LogsTypeOK
  <2>3. SourcesOf(todo) = {}
    BY DEF LogsInit, SourcesOf
  <2> QED BY <2>2, <2>3 DEF LogsInit, LinksTyped
<1>2. AllNamed /\ AllRight
  BY DEF LogsInit, AllNamed, AllRight, RightLogs, NamesOf
<1>3. BuiltComplete /\ LinkedComplete
  BY DEF LogsInit, BuiltComplete, LinkedComplete
<1> QED BY <1>1, <1>2, <1>3 DEF LogsInv

\* The linker's lists of logs and its links keep their types, and every link
\* leads into the root, a mount's Source, beside them or to docker's own log.
THEOREM LogsTypeCorrect == LogsSpec => []LogsTypeOK
<1>1. LogsInit => LinksTyped
  BY LogsInitially DEF LogsInv
<1>2. LinksTyped => LogsTypeOK
  BY DEF LinksTyped
<1> QED BY <1>1, <1>2, TypedStep, PTL DEF LogsSpec

\* Whatever fails, stops and is restarted while a container is inspected and
\* linked: once it has been linked, each of its logs that is not a pattern and
\* its json log have a link, unless one is above another; and links lead to the
\* files the container sees.
THEOREM LinksAreComplete == LogsSpec => []LinksComplete
<1>1. LogsInit => LogsInv
  BY LogsInitially
<1>2. LogsInv /\ [LogsNext]_logsVars => LogsInv'
  BY TypedStep, NamedStep, RightStep, BuiltStep, LinkedStep DEF LogsInv
<1>3. LogsInv => LinksComplete
  <2> SUFFICES ASSUME LogsInv, stage = "idle", known # 0, known = pid, ~misled
               PROVE  /\ \A d \in DOMAIN symlinks \ {DockerLog} : Clear(d) => symlinks[d] = Sees(d)
                      /\ rooted =>
                           /\ \A n \in LogNames : Relative(n) \/ Glob(n) \/ ~Apart(n) \/ n \in DOMAIN symlinks
                           /\ host.json # "none" /\ Apart(DockerLog) =>
                                symlinks[DockerLog] = <<"docker", host.json>>
    BY DEF LinksComplete
  <2>1. \A d \in DOMAIN symlinks : Right(d, symlinks[d])
    BY DEF LogsInv, AllRight
  <2>2. rooted => Needed \subseteq DOMAIN symlinks
    BY DEF LogsInv, LinkedComplete, LinksTyped, NamesOf
  <2> QED BY <2>1, <2>2 DEF Right, Needed
<1> QED BY <1>1, <1>2, <1>3, PTL DEF LogsSpec
=============================================================================
