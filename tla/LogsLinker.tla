------------------------------ MODULE LogsLinker ------------------------------
(***************************************************************************)
(* The logs linker (crawler/containers_logs_linker.py): it polls the       *)
(* running containers, compares them with those of the previous poll and   *)
(* keeps, below /var/log/crawler_container_logs, one directory of symlinks *)
(* for each of them.  Containers are compared by PID (Container.__eq__),   *)
(* directories are named after the container (log_prefix), and the set of  *)
(* known containers lives in memory only.                                  *)
(***************************************************************************)
EXTENDS Integers, FiniteSets

CONSTANTS Containers,   \* docker containers (long ids)
          Names,        \* container names
          NameOf,       \* the name of each container
          Pids,         \* PIDs, given to one container after another
          NsOf,         \* PID namespace, shared by containers run with --pid
          MaxFailures,  \* bound: calls that fail, and restarts of the linker
          None          \* no directory

ASSUME LinkerAssumption ==
  /\ NameOf \in [Containers -> Names]
  /\ 0 \notin Pids
  /\ MaxFailures \in Nat
  /\ None \notin Containers

VARIABLES state,            \* docker's view of each container
          pids,             \* State.Pid of each container, 0 if it has none
          pc,               \* where the linker is
          ids,              \* exec_dockerps: ids that are still to be inspected
          inspects,         \* inspections that are still to be made objects
          visited_ns,       \* PID namespaces of list_all_containers
          curr,             \* the list get_containers is building
          containers_list,  \* self.containers_list
          new,              \* self.new, what is left of it to link
          deleted,          \* self.deleted, what is left of it to unlink
          links,            \* whose logs the directory of a name links to
          failures,         \* how many calls failed, or restarts there were
          damaged,          \* history: names for which a call on the directory
                            \* failed or two containers passed for one
          forgotten         \* history: names of the directories that a former
                            \* run of the linker left

docker == <<state, pids>>
listing == <<ids, inspects, visited_ns, curr>>
memory == <<listing, containers_list, new, deleted>>
directories == <<links, damaged, forgotten>>
vars == <<docker, pc, memory, directories, failures>>

States == {"absent", "running", "exited", "removed"}
PCs == {"idle", "poll", "unlink", "link", "dead"}

\* What is left of a DockerContainer object here: its id and its PID.
Object == [id : Containers, pid : Pids \cup {0}]

Running == {c \in Containers : state[c] = "running"}
Existing == {c \in Containers : state[c] \in {"running", "exited"}}

Init == /\ state = [c \in Containers |-> "absent"]
        /\ pids = [c \in Containers |-> 0]
        /\ pc = "idle"
        /\ ids = {} /\ inspects = {} /\ visited_ns = {} /\ curr = {}
        /\ containers_list = {} /\ new = {} /\ deleted = {}
        /\ links = [n \in Names |-> None]
        /\ failures = 0
        /\ damaged = {} /\ forgotten = {}

Fails == failures < MaxFailures /\ failures' = failures + 1

\* With the process goes its memory.
Forgets == /\ ids' = {} /\ inspects' = {} /\ visited_ns' = {} /\ curr' = {}
           /\ containers_list' = {} /\ new' = {} /\ deleted' = {}

-----------------------------------------------------------------------------
(* The docker host, at any moment *)

linker == <<pc, memory, directories, failures>>

\* docker run and docker start.  A name belongs to one existing container at a
\* time, a PID to one running process at a time.
Start(c, p) == /\ state[c] \in {"absent", "exited"}
               /\ \A d \in Existing \ {c} : NameOf[d] # NameOf[c]
               /\ \A d \in Running : pids[d] # p
               /\ state' = [state EXCEPT ![c] = "running"]
               /\ pids' = [pids EXCEPT ![c] = p]
               /\ UNCHANGED linker

Exit(c) == /\ state[c] = "running"
           /\ state' = [state EXCEPT ![c] = "exited"]
           /\ pids' = [pids EXCEPT ![c] = 0]
           /\ UNCHANGED linker

RemoveContainer(c) == /\ c \in Existing
                      /\ state' = [state EXCEPT ![c] = "removed"]
                      /\ pids' = [pids EXCEPT ![c] = 0]
                      /\ UNCHANGED linker

Host == \E c \in Containers : \/ \E p \in Pids : Start(c, p)
                              \/ Exit(c)
                              \/ RemoveContainer(c)

-----------------------------------------------------------------------------
(* update_containers_list: get_containers *)

lists == <<containers_list, new, deleted>>

\* exec_dockerps: client.containers() ...
Ps == /\ pc = "idle"
      /\ pc' = "poll"
      /\ ids' = Running
      /\ inspects' = {} /\ visited_ns' = {} /\ curr' = {}
      /\ UNCHANGED <<docker, lists, directories, failures>>

\* ... and the inspection of each of them, of which one that has exited since
\* reports PID 0.  (Docker orders its list; here any order may occur.)
InspectOne(c) ==
  /\ pc = "poll"
  /\ state[c] # "removed"
  /\ ids' = ids \ {c}
  /\ inspects' = inspects \cup {[id |-> c, pid |-> pids[c]]}
  /\ UNCHANGED <<docker, pc, visited_ns, curr, lists, directories, failures>>

\* A container that cannot be inspected any more ends the linker ...
InspectRaises == /\ pc = "poll"
                 /\ \E c \in ids : state[c] = "removed"
                 /\ pc' = "dead" /\ Forgets
                 /\ UNCHANGED <<docker, directories, failures>>

\* ... and so does a docker daemon that does not answer.
DockerFails == /\ pc = "idle" \/ (pc = "poll" /\ ids # {})
               /\ Fails
               /\ pc' = "dead" /\ Forgets
               /\ UNCHANGED <<docker, directories>>

\* get_pid_namespace: that of the process that has the PID now, if any.
PidNamespace(p) == {NsOf[c] : c \in {d \in Running : pids[d] = p}}

\* DockerContainer and list_all_containers: of the containers in one PID
\* namespace, or in none, only the first is kept.
Build(i) ==
  /\ pc = "poll" /\ ids = {}
  /\ inspects' = inspects \ {i}
  /\ LET curr_ns == PidNamespace(i.pid)
     IN /\ visited_ns' = visited_ns \cup {curr_ns}
        /\ curr' = IF curr_ns \in visited_ns THEN curr ELSE curr \cup {i}
  /\ UNCHANGED <<docker, pc, ids, lists, directories, failures>>

-----------------------------------------------------------------------------
(* update_containers_list: the comparison with the previous poll *)

\* Container.__eq__
Same(o, p) == o.pid = p.pid

\* set(...) keeps one of several equal objects.
IsSetOf(S, T) == /\ S \subseteq T
                 /\ \A o, p \in S : Same(o, p) => o = p
                 /\ \A p \in T : \E o \in S : Same(o, p)

\* Mutant of Minus: it yields ids, not container objects.
MinusIds(S, T) == {o.id : o \in {p \in S : \A q \in T : ~Same(p, q)}}

\* S - T of Python sets: the objects of S that equal none of T.
Minus(S, T) == {o \in S : \A p \in T : ~Same(o, p)}

\* Names of containers of which one passes for the other: both had one PID.
Mistaken(S, T) == {n \in Names : \E o \in S, p \in T :
                     Same(o, p) /\ o.id # p.id /\ n \in {NameOf[o.id], NameOf[p.id]}}

Polled == pc = "poll" /\ ids = {} /\ inspects = {}

\* What Update does besides comparing; S is curr_containers.
Compared(S) ==
  /\ pc' = "unlink"
  /\ containers_list' = S
  /\ visited_ns' = {} /\ curr' = {}
  /\ damaged' = damaged \cup Mistaken(S, containers_list)
  /\ UNCHANGED <<docker, ids, inspects, links, forgotten, failures>>

\* Mutant of Update: containers that went away are not noticed.
UpdateKeepsDeleted == /\ Polled
                      /\ \E S \in SUBSET curr :
                           /\ IsSetOf(S, curr)
                           /\ new' = Minus(S, containers_list)
                           /\ deleted' = {}
                           /\ Compared(S)

\* Mutant of Update: the new list is stored before it is compared.
UpdateTooEarly == /\ Polled
                  /\ \E S \in SUBSET curr :
                       /\ IsSetOf(S, curr)
                       /\ new' = {}
                       /\ deleted' = Minus(containers_list, S)
                       /\ Compared(S)

\* The two set differences.
Update == /\ Polled
          /\ \E S \in SUBSET curr :
               /\ IsSetOf(S, curr)
               /\ new' = Minus(S, containers_list)
               /\ deleted' = Minus(containers_list, S)
               /\ Compared(S)

-----------------------------------------------------------------------------
(* link_containers: first every unlink_logfiles, then every link_logfiles *)

polls == <<listing, containers_list>>

\* shutil.rmtree of the directory named after the container.  What was wrong
\* with that directory is over, unless a container that stays has its name.
Unlink(o) ==
  LET n == NameOf[o.id]
      stays == \E p \in containers_list \ new : NameOf[p.id] = n
  IN /\ pc = "unlink"
     /\ deleted' = deleted \ {o}
     /\ links' = [links EXCEPT ![n] = None]
     /\ damaged' = IF stays THEN damaged ELSE damaged \ {n}
     /\ forgotten' = IF stays THEN forgotten ELSE forgotten \ {n}
     /\ UNCHANGED <<docker, pc, polls, new, failures>>

\* An error of rmtree is logged and the container forgotten all the same; the
\* directory may keep some of its links.
UnlinkFails(o) ==
  /\ pc = "unlink"
  /\ Fails
  /\ deleted' = deleted \ {o}
  /\ \E left \in {links[NameOf[o.id]], None} :
       links' = [links EXCEPT ![NameOf[o.id]] = left]
  /\ damaged' = damaged \cup {NameOf[o.id]}
  /\ UNCHANGED <<docker, pc, polls, new, forgotten>>

\* Mutant of UnlinkDone: the links are made before everything is unlinked.
UnlinkDoneEarly == /\ pc = "unlink"
                   /\ pc' = "link"
                   /\ UNCHANGED <<docker, memory, directories, failures>>

UnlinkDone == /\ pc = "unlink"
              /\ deleted = {}
              /\ pc' = "link"
              /\ UNCHANGED <<docker, memory, directories, failures>>

\* os.symlink, whose "file exists" is ignored: what is there stays there.
Link(o) ==
  LET n == NameOf[o.id]
      ours == links[n] \in {None, o.id}
  IN /\ pc = "link"
     /\ new' = new \ {o}
     /\ links' = [links EXCEPT ![n] = IF ours THEN o.id ELSE @]
     /\ damaged' = IF ours THEN damaged \ {n} ELSE damaged
     /\ forgotten' = IF ours THEN forgotten \ {n} ELSE forgotten
     /\ UNCHANGED <<docker, pc, polls, deleted, failures>>

\* Every other error of a link is taken for "file exists" too.
LinkFails(o) ==
  LET n == NameOf[o.id]
  IN /\ pc = "link"
     /\ Fails
     /\ new' = new \ {o}
     /\ \E made \in {links[n], o.id} :
          links' = [links EXCEPT ![n] = IF @ = None THEN made ELSE @]
     /\ damaged' = damaged \cup {n}
     /\ UNCHANGED <<docker, pc, polls, deleted, forgotten>>

\* Only the makedirs of the container's own directory may raise.
LinkRaises == /\ pc = "link"
              /\ \E o \in new : links[NameOf[o.id]] = None
              /\ Fails
              /\ pc' = "dead" /\ Forgets
              /\ UNCHANGED <<docker, directories>>

LinkDone == /\ pc = "link"
            /\ new = {}
            /\ pc' = "idle"
            /\ UNCHANGED <<docker, memory, directories, failures>>

-----------------------------------------------------------------------------

\* The linker is killed or died, and is started again: only links survives.
Restart == /\ Fails
           /\ pc' = "idle" /\ Forgets
           /\ damaged' = {}
           /\ forgotten' = {n \in Names : links[n] # None}
           /\ UNCHANGED <<docker, links>>

Linker == \/ Ps
          \/ \E c \in ids : InspectOne(c)
          \/ InspectRaises
          \/ \E i \in inspects : Build(i)
          \/ Update
          \/ \E o \in deleted : Unlink(o)
          \/ UnlinkDone
          \/ \E o \in new : Link(o)
          \/ LinkDone

Failure == \/ DockerFails
           \/ \E o \in deleted : UnlinkFails(o)
           \/ \E o \in new : LinkFails(o)
           \/ LinkRaises

Next == Host \/ Linker \/ Failure \/ Restart

Spec == Init /\ [][Next]_vars

\* The linker polls for ever; containers, failures and restarts come as they
\* please.
FairSpec == Spec /\ WF_vars(Linker)

-----------------------------------------------------------------------------
(* Properties *)

TypeOK == /\ state \in [Containers -> States]
          /\ pids \in [Containers -> Pids \cup {0}]
          /\ pc \in PCs
          /\ ids \subseteq Containers
          /\ inspects \subseteq Object
          /\ visited_ns \subseteq SUBSET {NsOf[c] : c \in Containers}
          /\ curr \subseteq Object
          /\ containers_list \subseteq Object
          /\ new \subseteq Object
          /\ deleted \subseteq Object
          /\ links \in [Names -> Containers \cup {None}]
          /\ failures \in 0 .. MaxFailures
          /\ damaged \subseteq Names
          /\ forgotten \subseteq Names

\* The directories of names not in N are those of the containers in S, each
\* with its own logs.
LinksAre(S, N) == \A n \in Names \ N, c \in Containers :
                    links[n] = c <=> NameOf[c] = n /\ \E o \in S : o.id = c

\* Between two polls the directories are exactly those of the containers that
\* the last poll kept, also when a name or a PID passed from one container to
\* another in between.  Of a name this may fail only from a call that failed
\* on its directory, from a PID that passed to another container between two
\* polls, or from a restart that found the directory there; and only until the
\* directory is next removed, or made for a container that finds nothing of
\* another's in it.
LinksExact == pc = "idle" => LinksAre(containers_list, damaged \cup forgotten)

\* Between two polls every container that the last poll kept has its own logs
\* in its directory, whatever the linker forgot in a restart; but for failed
\* calls and reused PIDs, and for a container that, after a restart, finds a
\* directory of its name with the logs of another.
RunningLinked ==
  pc = "idle" => \A o \in containers_list :
                   LET n == NameOf[o.id]
                   IN \/ links[n] = o.id
                      \/ n \in damaged
                      \/ n \in forgotten /\ links[n] # None

\* The directory of a container that is gone is removed in the end, unless its
\* container runs again, the linker dies for good, the removal failed, the
\* container was mistaken for another, or a restart forgot it: none of these
\* is ever made up for.
EventuallyUnlinked ==
  \A c \in Containers :
    state[c] \in {"exited", "removed"} ~> \/ links[NameOf[c]] # c
                                          \/ state[c] = "running"
                                          \/ pc = "dead"
                                          \/ NameOf[c] \in damaged \cup forgotten

\* A container that keeps running gets its directory in the end, unless the
\* linker dies for good, a call failed on that directory, the container was
\* mistaken for another, finds the directory that another left before a
\* restart, or shares its PID namespace.
EventuallyLinked ==
  \A c \in Containers :
    state[c] = "running" ~> \/ links[NameOf[c]] = c
                            \/ state[c] # "running"
                            \/ pc = "dead"
                            \/ NameOf[c] \in damaged
                            \/ NameOf[c] \in forgotten /\ links[NameOf[c]] # None
                            \/ \E d \in Running \ {c} : NsOf[d] = NsOf[c]
=============================================================================
