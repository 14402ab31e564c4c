--------------------------- MODULE ContainersCrawl ---------------------------
(***************************************************************************)
(* One crawl of all containers and the emission of its frames, iteration   *)
(* after iteration: exec_dockerps, get_docker_containers,                  *)
(* list_all_containers and get_containers, ContainersCrawler.crawl and     *)
(* crawl_container, BaseFrame.add_features, EmittersManager.emit and the   *)
(* loop of Worker.iterate that ties them together.  The containers start,  *)
(* exit and are removed while the crawl goes on.                           *)
(***************************************************************************)
EXTENDS Integers, Sequences, FiniteSets

CONSTANTS Containers,     \* docker containers (long ids)
          PidOf,          \* the host PID of each container's first process
          HostPid,        \* containers run with --pid=host
          NoEnvironment,  \* containers the environment plugin rejects
          UserList,       \* --crawlContainers; "ALL" is Containers
          Plugins,        \* the crawl plugins, "list" or "generator" each
          Features,       \* features a plugin finds in a container
          NEmitters,      \* number of emitters of the EmittersManager
          MaxIter,        \* bound: number of crawls
          HostNs,         \* the PID namespace of the host
          None            \* Python's None

ASSUME CrawlAssumption ==
  /\ PidOf \in [Containers -> Nat \ {0}]
  /\ HostPid \subseteq Containers
  /\ NoEnvironment \subseteq Containers
  /\ UserList \subseteq Containers
  /\ Plugins \in Seq({"list", "generator"})
  /\ Features \in Nat \ {0}
  /\ NEmitters \in Nat \ {0}
  /\ MaxIter \in Nat
  /\ HostNs \notin Containers /\ None \notin Containers \cup {HostNs}

VARIABLES state,       \* docker's view of each container
          pc,          \* where the crawler process is
          iter_count,  \* Worker.iter_count
          ids,         \* ids of client.containers() not inspected yet
          inspects,    \* inspect records collected by exec_dockerps
          visited,     \* visited_ns of list_all_containers
          list,        \* containers still to crawl (get_containers' result)
          frame,       \* the frame under construction or being emitted
          plugin,      \* index of the next plugin to run
          emitter,     \* index of the next emitter to call
          emitted,     \* the frames each emitter was given
          steady,      \* history: containers running ever since this crawl's ps
          why          \* history: what killed the crawler

listing == <<ids, inspects, visited>>
vars == <<state, pc, iter_count, listing, list, frame, plugin, emitter,
          emitted, steady, why>>

States == {"absent", "running", "exited", "removed"}
PCs == {"idle", "inspect", "build", "next", "plugins", "emit", "dead"}
Causes == {"none", "daemon", "vanished", "emitter"}
Emitters == 1 .. NEmitters
Namespaces == Containers \cup {HostNs}
Inspect == [id : Containers, pid : Nat]
Frame == [id : Containers, num : Nat, data : [1 .. Len(Plugins) -> Nat],
          num_features : Nat]

Namespace(c) == IF c \in HostPid THEN HostNs ELSE c
Running == {c \in Containers : state[c] = "running"}

\* namespace.get_pid_namespace(pid): whoever holds the PID at that moment.
get_pid_namespace(pid) ==
  IF \E c \in Running : PidOf[c] = pid
  THEN Namespace(CHOOSE c \in Running : PidOf[c] = pid)
  ELSE None

\* No two running containers have the same PID.
PidsDiffer(S) == \A c, d \in S : c # d => PidOf[c] # PidOf[d]

NewFrame(c) == [id |-> c, num |-> iter_count,
                data |-> [p \in 1 .. Len(Plugins) |-> 0], num_features |-> 0]

\* NoFrame is what frame holds before the first container is crawled.
NoFrame == None

Init == /\ \E S \in SUBSET Containers :
             /\ PidsDiffer(S)
             /\ state = [c \in Containers |->
                           IF c \in S THEN "running" ELSE "absent"]
        /\ pc = "idle"
        /\ iter_count = 0
        /\ ids = {}
        /\ inspects = <<>>
        /\ visited = {}
        /\ list = <<>>
        /\ frame = NoFrame
        /\ plugin = 1
        /\ emitter = 1
        /\ emitted = [e \in Emitters |-> <<>>]
        /\ steady = {}
        /\ why = "none"

-----------------------------------------------------------------------------
(* The docker host *)

crawler == <<pc, iter_count, listing, list, frame, plugin, emitter, emitted,
             why>>

Start(c) == /\ state[c] = "absent"
            /\ PidsDiffer(Running \cup {c})
            /\ state' = [state EXCEPT ![c] = "running"]
            /\ UNCHANGED <<crawler, steady>>

\* The container's processes end; docker keeps its record, with PID 0.
Exit(c) == /\ state[c] = "running"
           /\ state' = [state EXCEPT ![c] = "exited"]
           /\ steady' = steady \ {c}
           /\ UNCHANGED crawler

\* docker rm, or docker run --rm: inspecting it is an error from now on.
Remove(c) == /\ state[c] \in {"running", "exited"}
             /\ state' = [state EXCEPT ![c] = "removed"]
             /\ steady' = steady \ {c}
             /\ UNCHANGED crawler

Host == \E c \in Containers : Start(c) \/ Exit(c) \/ Remove(c)

-----------------------------------------------------------------------------
(* An exception that nobody catches ends the process: Worker and main() let *)
(* everything but KeyboardInterrupt through.                               *)

Die(cause) == /\ pc' = "dead"
              /\ why' = cause
              /\ UNCHANGED <<state, iter_count, listing, list, frame, plugin,
                             emitter, emitted, steady>>

(* exec_dockerps *)

\* client.containers(): the running containers of this moment.
Ps == /\ pc = "idle"
      /\ iter_count < MaxIter
      /\ pc' = "inspect"
      /\ ids' = Running
      /\ inspects' = <<>>
      /\ steady' = Running
      /\ UNCHANGED <<state, iter_count, visited, list, frame, plugin, emitter,
                     emitted, why>>

\* exec_dockerinspect of one of them; an exited container reports PID 0.
InspectOne(c) ==
  /\ pc = "inspect"
  /\ c \in ids
  /\ state[c] # "removed"
  /\ ids' = ids \ {c}
  /\ inspects' = Append(inspects,
                        [id |-> c,
                         pid |-> IF state[c] = "running" THEN PidOf[c] ELSE 0])
  /\ UNCHANGED <<state, pc, iter_count, visited, list, frame, plugin, emitter,
                 emitted, steady, why>>

\* docker.errors.NotFound, rethrown as DockerutilsException
InspectRemoved(c) == /\ pc = "inspect"
                     /\ c \in ids
                     /\ state[c] = "removed"
                     /\ Die("vanished")

\* The daemon refuses the connection or answers with an error (while the
\* containers are built, to an environment plugin that inspects them again).
DaemonFails == /\ \/ pc = "idle" /\ iter_count < MaxIter
                  \/ pc = "inspect" /\ ids # {}
                  \/ pc = "build" /\ inspects # <<>>
               /\ Die("daemon")

PsDone == /\ pc = "inspect"
          /\ ids = {}
          /\ pc' = "build"
          /\ visited' = {}
          /\ list' = <<>>
          /\ UNCHANGED <<state, iter_count, ids, inspects, frame, plugin,
                         emitter, emitted, steady, why>>

-----------------------------------------------------------------------------
(* get_docker_containers, list_all_containers, get_containers *)

Selected(c) == c \in UserList /\ c \notin NoEnvironment

\* Mutant of Build: the containers visited are remembered by PID.
BuildByPid ==
  /\ pc = "build"
  /\ inspects # <<>>
  /\ inspects' = Tail(inspects)
  /\ LET i == Head(inspects)
     IN IF Selected(i.id) /\ i.pid \notin visited
        THEN visited' = visited \cup {i.pid} /\ list' = Append(list, i.id)
        ELSE UNCHANGED <<visited, list>>
  /\ UNCHANGED <<state, pc, iter_count, ids, frame, plugin, emitter, emitted,
                 steady, why>>

\* Mutant of Build: the user's list is taken for a list to leave out.
BuildComplement ==
  /\ pc = "build"
  /\ inspects # <<>>
  /\ inspects' = Tail(inspects)
  /\ LET i  == Head(inspects)
         ns == get_pid_namespace(i.pid)
     IN IF ~Selected(i.id) /\ ns \notin visited
        THEN visited' = visited \cup {ns} /\ list' = Append(list, i.id)
        ELSE UNCHANGED <<visited, list>>
  /\ UNCHANGED <<state, pc, iter_count, ids, frame, plugin, emitter, emitted,
                 steady, why>>

\* The DockerContainer of the next inspect record is constructed, which looks
\* up the namespace of the PID recorded earlier; it is kept unless the user
\* did not ask for it, its environment is invalid, or a container with the
\* same PID namespace is kept already.
Build ==
  /\ pc = "build"
  /\ inspects # <<>>
  /\ inspects' = Tail(inspects)
  /\ LET i  == Head(inspects)
         ns == get_pid_namespace(i.pid)
     IN IF Selected(i.id) /\ ns \notin visited
        THEN visited' = visited \cup {ns} /\ list' = Append(list, i.id)
        ELSE UNCHANGED <<visited, list>>
  /\ UNCHANGED <<state, pc, iter_count, ids, frame, plugin, emitter, emitted,
                 steady, why>>

\* The constructor of a container that is gone may raise something other than
\* ContainerInvalidEnvironment: the kubernetes and icp environments inspect
\* the container once more.
BuildRaises == /\ pc = "build"
               /\ inspects # <<>>
               /\ Head(inspects).id \in UserList
               /\ state[Head(inspects).id] = "removed"
               /\ Die("vanished")

BuildDone == /\ pc = "build"
             /\ inspects = <<>>
             /\ pc' = "next"
             /\ UNCHANGED <<state, iter_count, listing, list, frame, plugin,
                            emitter, emitted, steady, why>>

-----------------------------------------------------------------------------
(* ContainersCrawler.crawl and crawl_container *)

NextContainer == /\ pc = "next"
                 /\ list # <<>>
                 /\ frame' = NewFrame(Head(list))
                 /\ list' = Tail(list)
                 /\ plugin' = 1
                 /\ pc' = "plugins"
                 /\ UNCHANGED <<state, iter_count, listing, emitter, emitted,
                                steady, why>>

\* frame.data grows by n features of the plugin, num_features by m.
AddFeatures(n, m) ==
  /\ frame' = [frame EXCEPT !.data[plugin] = n, !.num_features = @ + m]
  /\ plugin' = plugin + 1

\* The plugin's crawl() ran to its end.  add_features extends the data, then
\* asks for len(features): a generator has none, and the TypeError is ignored.
PluginReturns ==
  /\ pc = "plugins"
  /\ plugin <= Len(Plugins)
  /\ AddFeatures(Features, IF Plugins[plugin] = "list" THEN Features ELSE 0)
  /\ UNCHANGED <<state, pc, iter_count, listing, list, emitter, emitted,
                 steady, why>>

\* The plugin raised, a generator possibly after some of its features; the
\* exception is ignored and what was added so far stays.
PluginRaises ==
  /\ pc = "plugins"
  /\ plugin <= Len(Plugins)
  /\ \E n \in 0 .. Features - 1 :
       /\ Plugins[plugin] = "list" => n = 0
       /\ AddFeatures(n, 0)
  /\ UNCHANGED <<state, pc, iter_count, listing, list, emitter, emitted,
                 steady, why>>

PluginsDone == /\ pc = "plugins"
               /\ plugin > Len(Plugins)
               /\ pc' = "emit"
               /\ emitter' = 1
               /\ UNCHANGED <<state, iter_count, listing, list, frame, plugin,
                              emitted, steady, why>>

-----------------------------------------------------------------------------
(* EmittersManager.emit *)

\* Mutant of EmitRaises: the loop goes on with the next emitter.
EmitRaisesOn == /\ pc = "emit"
                /\ emitter <= NEmitters
                /\ emitter' = emitter + 1
                /\ UNCHANGED <<state, pc, iter_count, listing, list, frame,
                               plugin, emitted, steady, why>>

Emit == /\ pc = "emit"
        /\ emitter <= NEmitters
        /\ emitted' = [emitted EXCEPT ![emitter] = Append(@, frame)]
        /\ emitter' = emitter + 1
        /\ UNCHANGED <<state, pc, iter_count, listing, list, frame, plugin,
                       steady, why>>

\* No emitter's exception is caught: those after it do not get the frame.
EmitRaises == /\ pc = "emit"
              /\ emitter <= NEmitters
              /\ Die("emitter")

EmitDone == /\ pc = "emit"
            /\ emitter > NEmitters
            /\ pc' = "next"
            /\ UNCHANGED <<state, iter_count, listing, list, frame, plugin,
                           emitter, emitted, steady, why>>

\* The generator is exhausted: Worker.iterate counts the iteration.
CrawlDone == /\ pc = "next"
             /\ list = <<>>
             /\ iter_count' = iter_count + 1
             /\ pc' = "idle"
             /\ UNCHANGED <<state, listing, list, frame, plugin, emitter,
                            emitted, steady, why>>

Crawler == \/ Ps \/ PsDone \/ DaemonFails
           \/ \E c \in Containers : InspectOne(c) \/ InspectRemoved(c)
           \/ Build \/ BuildRaises \/ BuildDone
           \/ NextContainer \/ PluginReturns \/ PluginRaises \/ PluginsDone
           \/ Emit \/ EmitRaises \/ EmitDone
           \/ CrawlDone

Next == Host \/ Crawler

Spec == Init /\ [][Next]_vars

\* The crawler is a running process; nobody has to start or stop a container.
FairSpec == Spec /\ WF_vars(Crawler)

-----------------------------------------------------------------------------
(* Properties *)

TypeOK == /\ state \in [Containers -> States]
          /\ pc \in PCs
          /\ iter_count \in Nat
          /\ ids \subseteq Containers
          /\ inspects \in Seq(Inspect)
          /\ visited \subseteq Namespaces \cup {None}
          /\ list \in Seq(Containers)
          /\ frame \in Frame \cup {NoFrame}
          /\ plugin \in Nat \ {0}
          /\ emitter \in Nat \ {0}
          /\ emitted \in [Emitters -> Seq(Frame)]
          /\ steady \subseteq Containers
          /\ why \in Causes

\* The emitters see the same frames in the same order, and an emitter is ahead
\* of a later one by the frame being emitted at most, even after an exception
\* stopped EmittersManager.emit half way.
EmittersInStep ==
  \A i, j \in Emitters :
    i < j => \/ emitted[i] = emitted[j]
             \/ emitted[i] = Append(emitted[j], frame)

\* The containers of which this iteration's crawl gave a frame to emitter e.
Reported(e) == {emitted[e][a].id :
                  a \in {b \in 1 .. Len(emitted[e]) :
                           emitted[e][b].num = iter_count}}

CrawlComplete == pc = "next" /\ list = <<>>

\* When a crawl ends, every PID namespace with a container that ran all along
\* (and that the user and the environment admit) has a frame at every emitter,
\* whatever the other containers did in the meantime.
EveryNamespaceCrawled ==
  CrawlComplete =>
    \A c \in steady : Selected(c) =>
      \A e \in Emitters :
        \E d \in Reported(e) : Namespace(d) = Namespace(c)

\* A container that is running when an iteration begins is reported through
\* to the last emitter (or one that shares its PID namespace is), unless it
\* goes away first or the crawler is killed.
EventuallyReported ==
  \A c \in Containers :
    (pc = "idle" /\ iter_count < MaxIter /\ Selected(c) /\ c \in Running)
      ~> \/ pc = "dead"
         \/ c \notin Running
         \/ \E a \in 1 .. Len(emitted[NEmitters]) :
              Namespace(emitted[NEmitters][a].id) = Namespace(c)
=============================================================================
