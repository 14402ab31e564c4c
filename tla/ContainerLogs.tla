---------------------------- MODULE ContainerLogs ----------------------------
(***************************************************************************)
(* Which files the logs linker links for one container: how dockerutils.py *)
(* finds the root of the container's file system, how DockerContainer      *)
(* (dockercontainer.py) maps the names of its logs through globs and       *)
(* mounts, and what link_logfiles makes of them.  The linker polls;        *)
(* LogsLinker has the polls of several containers, this module what        *)
(* happens inside one poll of one container.                               *)
(*                                                                         *)
(* A path is a sequence of names; on the host its first name says where it *)
(* begins: in the container's root, in the source of a mount, or elsewhere.*)
(* No mount's Destination occurs twice in the name of a log.               *)
(***************************************************************************)
EXTENDS Naturals, Sequences, SequencesExt

CONSTANTS
  Parts,      \* names of directories and files
  Hosts,      \* [storage, newer, mounts, json, environment]
  UserLogs,   \* LOG_LOCATIONS of the container
  Defaults,   \* DEFAULT_LOG_FILES
  MayAppear,  \* files, by their paths on the host, that the container writes
  Longer,     \* pairs of names of which the second starts with the first
  Nil,
  MaxPid,     \* bound: how often the container is started
  MaxFaults   \* bound of the failures

Path == Seq(Parts)
LogNames == UserLogs \union Defaults
DockerLog == <<"docker.log">>

\* Could f be a file, or the name of one, that the pattern stands for?
Covers(pattern, f) ==
  Len(f) = Len(pattern) /\ \A i \in DOMAIN f : pattern[i] \in {f[i], "*"}

\* What is kept of a LogFileLink, and of a DockerContainer while it is built.
LogFileLink == [name : Path, source : Path]
DockerContainer == [pid : 1..MaxPid, root : {"rootfs", "elsewhere", Nil},
                    input : SUBSET LogNames, logs : SUBSET LogFileLink]

\* "*" occurs in names of logs only, and none of them is /docker.log.
ASSUME LogsAssumption ==
  /\ MaxPid \in Nat /\ MaxFaults \in Nat /\ Nil \notin DockerContainer
  /\ {"rootfs", "elsewhere", "beside", "docker", "docker.log",
      "default", "LogPath", "HostnamePath"} \subseteq Parts
  /\ \A p \in MayAppear \union LogNames : p \in Path /\ p # <<>>
  /\ \A n \in LogNames : ~Covers(n, DockerLog)
  /\ \A l \in Longer : l[2] # "*"
  /\ \A h \in Hosts :
       /\ h.json \in {"default", "LogPath", "HostnamePath", "none"}
       /\ h.mounts \in Seq([src : Path, dst : Path])
       /\ \A m \in ToSet(h.mounts) : /\ m.src # <<>> /\ "*" \notin ToSet(m.src)
                                     /\ m.dst # <<>> /\ "*" \notin ToSet(m.dst)

VARIABLES
  host,     \* one of Hosts
  daemon,   \* does docker answer?
  pid,      \* of the container, 0 when it does not run
  visible,  \* can its root be found?
  files,
  faults,
  driver,   \* driver of dockerutils, found when the module is loaded
  stage,
  obj,      \* the DockerContainer being built
  known,    \* PID of the container in containers_list, or 0
  todo,     \* what link_logfiles still has to link
  symlinks, \* the container's directory: names of logs and where they lead
  rooted,   \* history: did the object whose logs were linked have a root?
  misled    \* history: has some other directory been taken for the root?

world == <<host, daemon, pid, visible, files>>
linking == <<todo, symlinks, rooted>>
logsVars == <<world, faults, driver, stage, obj, known, linking, misled>>

SUPPORTED_DRIVERS == {"btrfs", "devicemapper", "aufs", "vfs"}
Fault == faults < MaxFaults /\ faults' = faults + 1

LogsInit ==
  /\ host \in Hosts
  /\ daemon \in BOOLEAN /\ pid = 0 /\ visible = TRUE /\ files = {} /\ faults = 0
  /\ driver = Nil /\ stage = "import" /\ obj = Nil /\ known = 0
  /\ todo = {} /\ symlinks = <<>> /\ rooted = FALSE /\ misled = FALSE

-----------------------------------------------------------------------------
(* The host. *)

crawler == <<host, driver, stage, obj, known, linking, misled>>

DaemonChanges == /\ daemon' = ~daemon /\ Fault
                 /\ UNCHANGED <<pid, visible, files, crawler>>
RootChanges == /\ visible' = ~visible /\ Fault
               /\ UNCHANGED <<daemon, pid, files, crawler>>

\* PIDs are not reused here.
StartContainer(p) == /\ pid = 0 /\ p > known /\ (obj # Nil => p > obj.pid)
                     /\ pid' = p
                     /\ UNCHANGED <<daemon, visible, files, faults, crawler>>
StopContainer == /\ pid # 0 /\ Fault
                 /\ pid' = 0
                 /\ UNCHANGED <<daemon, visible, files, crawler>>
Write(f) == /\ pid # 0 /\ f \notin files
            /\ files' = files \union {f}
            /\ UNCHANGED <<daemon, pid, visible, faults, crawler>>

-----------------------------------------------------------------------------
(* dockerutils.py is loaded: what is found now is used until the end. *)

NoVersion == /\ stage = "import" /\ ~daemon
             /\ driver' = Nil /\ stage' = "idle"
             /\ UNCHANGED <<world, faults, obj, known, linking, misled>>

InfoDriver == /\ stage = "import" /\ daemon /\ host.storage \in SUPPORTED_DRIVERS
              /\ driver' = host.storage /\ stage' = "idle"
              /\ UNCHANGED <<world, faults, obj, known, linking, misled>>

\* docker info fails, or names another driver: /proc/mounts may have the
\* directory of the one used, and devicemapper is the last resort.
GuessDriver == /\ stage = "import" /\ daemon
               /\ IF host.storage \in SUPPORTED_DRIVERS THEN Fault ELSE UNCHANGED faults
               /\ driver' \in ({host.storage} \intersect SUPPORTED_DRIVERS) \union {"devicemapper"}
               /\ stage' = "idle"
               /\ UNCHANGED <<world, obj, known, linking, misled>>

-----------------------------------------------------------------------------
(* get_docker_container_rootfs_path, one operator for each driver: what it *)
(* may find.  Where the root is depends on the driver and on whether the   *)
(* version of docker is at least 1.10.                                     *)

Places == CASE host.storage = "devicemapper" -> {"device"}
            [] host.newer /\ host.storage \in {"btrfs", "aufs", "vfs"} -> {"mount-id"}
            [] ~host.newer /\ host.storage = "btrfs" -> {"subvolume"}
            [] ~host.newer /\ host.storage = "aufs" -> {"mnt", "diff"}
            [] OTHER -> {}
At(S) == IF visible /\ driver = host.storage /\ S \intersect Places # {} THEN {"rootfs"} ELSE {Nil}

\* The container is inspected again, and its /proc/<pid>/mounts read.  With
\* another driver there is no device, and any mount may be taken for it.
rootfs_dm == IF ~daemon \/ pid = 0 THEN {Nil}
             ELSE IF driver = host.storage THEN At({"device"}) ELSE {Nil, "elsewhere"}
rootfs_btrfs == IF host.newer THEN At({"mount-id"}) ELSE At({"subvolume"})
rootfs_aufs == IF host.newer THEN At({"mount-id"}) ELSE At({"mnt", "diff"})
rootfs_vfs == At({"mount-id"})

rootfs_path == CASE driver = Nil -> {Nil}
                 [] driver = "devicemapper" -> rootfs_dm
                 [] driver = "btrfs" -> rootfs_btrfs
                 [] driver = "aufs" -> rootfs_aufs
                 [] driver = "vfs" -> rootfs_vfs

-----------------------------------------------------------------------------
(* _expand_and_map_log_link. *)

Relative(name) == ".." \in ToSet(name)
Glob(name) == "*" \in ToSet(name)
Matching(pattern) == {f \in files : Covers(pattern, f)}

\* Is the path below d?  And does its string start with that of d?
Under(name, d) == IsPrefix(d, name)
StartsWith(name, d) ==
  /\ Len(d) <= Len(name) /\ IsPrefix(Front(d), name)
  /\ d[Len(d)] = name[Len(d)] \/ <<d[Len(d)], name[Len(d)]>> \in Longer
Below(name, d) == SubSeq(name, Len(d) + 1, Len(name))

\* What is at source, or matches it, under the names it has for the container:
\* cut off the host's part, put back the container's.
Expand(name, source, hostPart, part) ==
  IF Glob(name) THEN {[name |-> part \o Below(f, hostPart), source |-> f] : f \in Matching(source)}
                ELSE {[name |-> name, source |-> source]}

FromRoot(name, root) == Expand(name, <<root>> \o name, <<root>>, <<>>)

\* Destination is replaced by Source in the string.
FromMount(name, m) ==
  IF Under(name, m.dst) THEN Expand(name, m.src \o Below(name, m.dst), m.src, m.dst)
                        ELSE Expand(name, <<"beside">> \o name, <<"beside">>, <<>>)

\* Each turn of the loop over the mounts replaces the result of the one before.
MapLog(name, root) ==
  IF host.mounts = <<>> \/ ~StartsWith(name, Last(host.mounts).dst)
  THEN FromRoot(name, root) ELSE FromMount(name, Last(host.mounts))

\* get_docker_container_json_logs_path: the default place, LogPath, or beside
\* HostnamePath.
JsonLogs == {[name |-> DockerLog, source |-> <<"docker", p>>] :
               p \in {host.json} \intersect {"default", "LogPath", "HostnamePath"}}

\* Mutant of LogsList: it goes on without a root.
LogsListRootless(o) ==
  JsonLogs \union UNION {MapLog(n, o.root) : n \in {n \in o.input : ~Relative(n)}}

\* _set_logs_list
LogsList(o) ==
  IF o.root = Nil THEN {}
  ELSE JsonLogs \union UNION {MapLog(n, o.root) : n \in {n \in o.input : ~Relative(n)}}

-----------------------------------------------------------------------------
(* One poll. *)

\* exec_dockerps raises, and the linker ends.
PsRaises == /\ stage = "idle" /\ ~daemon
            /\ stage' = "dead"
            /\ UNCHANGED <<world, faults, driver, obj, known, linking, misled>>

\* DockerContainer.__init__ begins; its root, input and logs are set below.
NewContainer == [pid |-> pid, root |-> Nil, input |-> {}, logs |-> {}]

ExecDockerps == /\ stage = "idle" /\ daemon
                /\ IF pid = 0 THEN stage' = "update" /\ UNCHANGED obj
                              ELSE stage' = "root" /\ obj' = NewContainer
                /\ UNCHANGED <<world, faults, driver, known, linking, misled>>

RootFs == /\ stage = "root"
          /\ \E r \in rootfs_path : /\ obj' = [obj EXCEPT !.root = r]
                                    /\ misled' = (misled \/ r = "elsewhere")
          /\ stage' = "env"
          /\ UNCHANGED <<world, faults, driver, known, linking>>

\* /proc/<pid>/environ is gone with the container.
ReadEnv == /\ stage = "env"
           /\ obj' = [obj EXCEPT !.input = IF pid = obj.pid THEN UserLogs ELSE {}]
           /\ stage' = "options"
           /\ UNCHANGED <<world, faults, driver, known, linking, misled>>

\* The environment names the container and its default logs.
SetOptions == /\ obj' = [obj EXCEPT !.input = @ \union Defaults]
              /\ stage' = "map"
              /\ UNCHANGED <<world, faults, driver, known, linking, misled>>

CloudsightOptions == stage = "options" /\ host.environment = "cloudsight" /\ SetOptions

\* In a cluster the container is inspected once more, and is left out when it
\* has no labels.
ClusterOptions == stage = "options" /\ host.environment = "kubernetes" /\ daemon /\ SetOptions
OptionsRaise == /\ stage = "options" /\ host.environment # "cloudsight" /\ ~daemon
                /\ stage' = "dead"
                /\ UNCHANGED <<world, faults, driver, obj, known, linking, misled>>
InvalidEnvironment == /\ stage = "options" /\ host.environment = "unmanaged" /\ daemon
                      /\ obj' = Nil /\ stage' = "update"
                      /\ UNCHANGED <<world, faults, driver, known, linking, misled>>

SetLogsList == /\ stage = "map"
               /\ obj' = [obj EXCEPT !.logs = LogsList(obj)]
               /\ stage' = "update"
               /\ UNCHANGED <<world, faults, driver, known, linking, misled>>

\* A container with a PID seen before is not linked again, whatever it has been
\* found to have in this poll.
UpdateList == /\ stage = "update"
              /\ known' = IF obj = Nil THEN 0 ELSE obj.pid
              /\ IF known = known' THEN stage' = "idle" /\ UNCHANGED linking
                 ELSE /\ stage' = "link"
                      /\ todo' = IF obj = Nil THEN {} ELSE obj.logs
                      /\ symlinks' = IF known = 0 THEN symlinks ELSE <<>>
                      /\ rooted' = (obj # Nil /\ obj.root # Nil)
              /\ obj' = Nil
              /\ UNCHANGED <<world, faults, driver, misled>>

\* A link above or below that of the name.
Nested(name) == {d \in DOMAIN symlinks : d # name /\ (Under(name, d) \/ Under(d, name))}

\* Mutant of LinkLog: a file that does not exist is not linked.
LinkLogExisting(l) ==
  /\ stage = "link" /\ l \in todo /\ Nested(l.name) = {}
  /\ todo' = todo \ {l}
  /\ symlinks' = [d \in DOMAIN symlinks \union (IF l.source \in files THEN {l.name} ELSE {}) |->
                    IF d \in DOMAIN symlinks THEN symlinks[d] ELSE l.source]
  /\ UNCHANGED <<world, faults, driver, stage, obj, known, rooted, misled>>

\* The file need not exist; a link that exists is left alone.
LinkLog(l) ==
  /\ stage = "link" /\ l \in todo /\ Nested(l.name) = {}
  /\ todo' = todo \ {l}
  /\ symlinks' = [d \in DOMAIN symlinks \union {l.name} |->
                    IF d \in DOMAIN symlinks THEN symlinks[d] ELSE l.source]
  /\ UNCHANGED <<world, faults, driver, stage, obj, known, rooted, misled>>

\* A directory is where the link should be, or a link where its directory should
\* be.  The error is taken for a link that exists; but through a link to a
\* directory that exists, a link is made among the container's own files.
LinkNested(l) ==
  /\ stage = "link" /\ l \in todo /\ Nested(l.name) # {}
  /\ todo' = todo \ {l}
  /\ \E S \in SUBSET {symlinks[d] \o Below(l.name, d) :
                        d \in {d \in Nested(l.name) : Under(l.name, d)}} :
       files' = files \union (S \intersect MayAppear)
  /\ UNCHANGED <<host, daemon, pid, visible, faults, driver, stage, obj, known, symlinks,
                 rooted, misled>>

LinkLogsDone == /\ stage = "link" /\ todo = {}
                /\ stage' = "idle"
                /\ UNCHANGED <<world, faults, driver, obj, known, linking, misled>>

\* The linker has died, or is killed, and starts again: its links stay.
RestartLinker == /\ IF stage = "dead" THEN UNCHANGED faults ELSE Fault
                 /\ stage' = "import" /\ driver' = Nil /\ obj' = Nil /\ known' = 0 /\ todo' = {}
                 /\ UNCHANGED <<world, symlinks, rooted, misled>>

Poll == \/ NoVersion \/ InfoDriver \/ GuessDriver
        \/ PsRaises \/ ExecDockerps \/ RootFs \/ ReadEnv
        \/ CloudsightOptions \/ ClusterOptions \/ OptionsRaise \/ InvalidEnvironment \/ SetLogsList
        \/ UpdateList \/ (\E l \in todo : LinkLog(l) \/ LinkNested(l)) \/ LinkLogsDone

Container == \/ \E p \in 1..MaxPid : StartContainer(p)
             \/ StopContainer
             \/ \E f \in MayAppear : Write(f)

LogsNext == Poll \/ RestartLinker \/ Container \/ DaemonChanges \/ RootChanges

LogsSpec == LogsInit /\ [][LogsNext]_logsVars

-----------------------------------------------------------------------------

Bases == {"rootfs", "elsewhere", "beside", "docker"} \union
         {m.src[1] : m \in UNION {ToSet(h.mounts) : h \in Hosts}}

LogsTypeOK ==
  /\ host \in Hosts /\ daemon \in BOOLEAN /\ pid \in 0..MaxPid /\ visible \in BOOLEAN
  /\ files \subseteq MayAppear /\ faults \in 0..MaxFaults
  /\ driver \in SUPPORTED_DRIVERS \union {Nil}
  /\ stage \in {"import", "idle", "root", "env", "options", "map", "update", "link", "dead"}
  /\ obj \in DockerContainer \union {Nil} /\ todo \subseteq LogFileLink
  /\ known \in 0..MaxPid /\ {rooted, misled} \subseteq BOOLEAN
  /\ \A d \in DOMAIN symlinks : symlinks[d][1] \in Bases

\* The file the container sees under a name: the one in the innermost mount.
Mounts(d) == {m \in ToSet(host.mounts) : Under(d, m.dst)}
Sees(d) ==
  IF Mounts(d) = {} THEN <<"rootfs">> \o d
  ELSE LET m == CHOOSE m \in Mounts(d) : \A o \in Mounts(d) : Len(o.dst) <= Len(m.dst)
       IN m.src \o Below(d, m.dst)

\* No mount but the last one has, or seems to have, a log, and this one has all
\* or nothing of what a pattern stands for.
Clear(d) ==
  \A i \in DOMAIN host.mounts :
    StartsWith(d, host.mounts[i].dst) =>
      /\ i = Len(host.mounts) /\ Under(d, host.mounts[i].dst)
      /\ \A n \in LogNames : Covers(n, d) => StartsWith(n, host.mounts[i].dst)

\* Can a link of the one name be in the way of one of the other?
Overlaps(m, n) ==
  /\ Len(m) # Len(n)
  /\ \A i \in DOMAIN m \intersect DOMAIN n : m[i] = n[i] \/ "*" \in {m[i], n[i]}
Apart(n) == \A m \in LogNames \union {DockerLog} : ~Overlaps(m, n)

(* When a running container has been linked, in spite of crashes half way and *)
(* of failures to find its root before, its directory has a link for each of *)
(* its logs that is not a pattern, written already or not, and for its json   *)
(* log; and every link leads to the file the container itself has under that  *)
(* name -- with these exceptions, which are the code's: no link is made for a *)
(* container whose root was not found when it was first seen; the mounts      *)
(* before the last are ignored, and a Destination is compared as a string, to *)
(* a pattern before it is expanded, which may find what a mount hides;        *)
(* another directory may be taken for the root under a guessed driver; and of *)
(* two logs, one below the other, only the one that comes first is linked.    *)
LinksComplete ==
  stage = "idle" /\ known # 0 /\ known = pid /\ ~misled =>
    /\ \A d \in DOMAIN symlinks \ {DockerLog} : Clear(d) => symlinks[d] = Sees(d)
    /\ rooted =>
         /\ \A n \in LogNames : Relative(n) \/ Glob(n) \/ ~Apart(n) \/ n \in DOMAIN symlinks
         /\ host.json # "none" /\ Apart(DockerLog) =>
              symlinks[DockerLog] = <<"docker", host.json>>
=============================================================================
