# TLA+ models of the agentless system crawler

The crawler looks into hosts, containers and virtual machines from the outside
and sends what it finds ("frames" of "features") to emitters.  This directory
holds TLA+ models of its core, TLC configurations that check them on small
instances, and TLAPS proofs of theorems that hold for every instance.

Source paths below are relative to `src/crawler/`.

## 1. Inventory

| component | state it keeps | operations | talks to |
|---|---|---|---|
| main loop (`worker.py`, `crawler.py`) | `iter_count`, `frequency`, `next_iteration_time` | `run`, `iterate`, `_get_next_iteration_time` | calls the crawler for frames, the emitters manager for each frame |
| containers crawl (`containers_crawler.py`, `containers.py`, `base_crawler.py`) | none between crawls; a frame and `visited_ns` during one | `crawl`, `crawl_container`, `add_features`, `list_all_containers`, `get_containers` | docker, `/proc`, the plugins |
| emitters manager (`emitters_manager.py`) | list of emitters | `emit` | every emitter in turn |
| container objects (`container.py`, `dockercontainer.py`) | PID, namespace, name, root file system, mounts, log links | equality, `_set_logs_list`, `link_logfiles`, `unlink_logfiles`, cgroup paths | the file system, `/proc`, docker, the environment plugin |
| docker access (`utils/dockerutils.py`) | `driver` and `server_version`, found once at import | `exec_dockerps`, `exec_dockerinspect`, root file system paths, json logs | the docker daemon, `/var/lib/docker` |
| logs linker (`containers_logs_linker.py`) | `containers_list`, `new`, `deleted`; directories below `/var/log/crawler_container_logs` | `update_containers_list`, `link_containers` | docker, the file system; run by the main loop |
| MTGraphite client (`utils/mtgraphite.py`) | connection, `sequence`, `msgset`, `next_timeout` | `send_messages`, `_write_messages`, `_get_socket`, `close` | a server over TLS |
| namespace execution (`utils/namespace.py`) | child processes, queues, namespace descriptors | `run_as_another_namespace`, `run_as_another_process` | kernel, two generations of child processes |
| other emitters, formatters (`plugins/emitters/*`, `formatters.py`, `utils/misc.py`) | URL of each plugin object; attempts made; the frame being formatted | `init`, `emit`, `post`, `call_with_retries` | HTTP, SAS, Kafka, Fluentd, COS servers |
| plugins manager (`plugins_manager.py`) | plugin singletons, shared configuration | loading, choosing, merging arguments | yapsy, `crawler.conf` |
| flow probes (`plugins/systems/fprobe_container_crawler.py`) | `fprobes_started` (interface to PID), `next_cleanup`; data files | start, check, collect, clean up | a softflowd and a collector for each interface |
| connection tracking probes (`plugins/systems/ctprobe_container_crawler.py`) | `ctprobe_pid`, `ifaces_monitored`, `next_cleanup`; data files | check, restart, configure, collect, clean up | one conntrackprobe |
| rate caches (`plugins/systems/{interface,cpu,metric,diskio}_*`) | previous counters, by key, with their time | `crawl` | `/proc`, psutil, psvmi, cgroups |
| config file crawl (`utils/config_utils.py`) | the caller's list of known files, changed in place | `crawl_config_files` | the file system |
| host and VM crawl | list of VMs | `crawl` | libvirt, psvmi |
| package, OS, jar, application plugins | none | parse one file or answer | files, HTTP |

The crawler is one thread in one process.  What makes it hard is what goes on
around it: containers start, exit and are removed between any two of its calls
to docker; PIDs and names are reused; the clock moves between two readings; it
may be killed and restarted (the shipped kubernetes DaemonSet restarts it)
with nothing but its files left; a connection fails half way through a batch.
Almost no exception is caught above the plugins: `main()` lets everything but
`KeyboardInterrupt` through, so one failing call ends the process.

What each part has to get right:

- main loop: no drift, no early crawl, no slot twice, no sleeping through slots;
- containers crawl: nothing that runs is left out because of what others do;
  frames are complete and are told apart;
- emitters manager: all emitters see the same frames in the same order;
- logs linker: one directory for each running container, with its own logs, and
  no directory for any other, but for what a failed call or a restart spoiled;
- emitters: what `emit` has gone past has arrived, in order, or the crawler
  ends, or the emitter is one that loses items, and then only where it may;
- log links: every link leads to the file the container itself has under that
  name, and no log is forgotten;
- probes: one probe for each interface, every interface watched some day, no
  data counted twice, no data file kept for ever;
- rates: two readings of one counter, and nothing else;
- MTGraphite: in order, without gaps, nothing forgotten before it has arrived;
- namespace execution: the caller gets what happened, in time, and no process
  stays in a container.

## 2. Modules

| module | models |
|---|---|
| `PeriodicSchedule` | abstract: when crawls may happen, with none of the loop's variables |
| `Worker` | `worker.py`: `Worker.run` and everything below it; one action for each stretch between two readings of `time.time()` |
| `WorkerProofs` | theorems about `Worker` |
| `ContainersCrawl` | one crawl after another of all containers, composed with the docker host and with `EmittersManager.emit` |
| `ContainersCrawlProofs` | theorems about `ContainersCrawl` |
| `LogsLinker` | the linker composed with the docker host and the link directories |
| `LogsLinkerProofs` | theorems about `LogsLinker` and `ContainerLogs` |
| `OrderedDelivery` | abstract: what a batching client owes its caller |
| `MTGraphite` | the MTGraphite client composed with the network and the server |
| `MTGraphiteProofs` | theorems about `MTGraphite`, among them that it implements `OrderedDelivery` |
| `NamespaceExec` | one call of `run_as_another_namespace`: the crawler, its child and its grandchild, composed with the kernel and Python's multiprocessing |
| `NamespaceExecProofs` | theorems about `NamespaceExec` |
| `ProbeFiles` | what both probe plugins share: interfaces, processes, data files, one crawl's round over a container's peers |
| `FlowProbe`, `CtProbe` | extend it with softflowd and its collectors, and with conntrackprobe |
| `ProbePlugins` | composes the two: one of the plugins is enabled |
| `ProbesProofs` | theorems about `ProbePlugins` |
| `Emission` | emitters from URLs and configuration, `EmittersManager.emit`, every emitter with its attempts, composed with the servers |
| `EmissionProofs` | theorems about `Emission` |
| `Rates` | the six plugins with a cache of counters, and the crawl of the host, of containers or of virtual machines that calls them |
| `RatesProofs` | theorems about `Rates` |
| `ContainerLogs` | one poll of the linker for one container: root file system, mounts, globs, json log, links |
| `MC*` | values of the constants for TLC |

Some operators are marked "Mutant of": each is a definition changed the way a
plausible bug would change it.  No specification uses them.  Replacing the
original by its mutant makes TLC report the property named with it in
`PROJECT.json`, which shows that the property does depend on that code.

### Worker

State: the attributes of `Worker`, the locals of `run` and `iterate`, and `pc`,
which says where the loop is.  `Snapshot`, `Arm`, `PollSleep`/`PollReturn`,
`StartCrawl`/`FinishCrawl`, `Plan`, `SkipSlot`/`CaughtUp` and `Measure` follow
the code from one reading of the clock to the next; `Tick` comes between any
two of them.  `polling_crawl` is a sleep and the answer `None` in every crawler
of the repository (`poll_docker_containers` only sleeps), so the emission in
the polling phase never happens and is left out.  Time is an integer and is
never set back; the code uses floats, of which only order and sums matter here.
A crawl is one step with any duration, or it raises (`CrawlRaises`).

`KeepsSchedule` is refinement: with `due` mapped to the slot after the current
crawl's, every step of `Worker` is a step of `PeriodicSchedule` or stutters.

### ContainersCrawl

Containers are model values with a state (`absent`, `running`, `exited`,
`removed`), a PID, and a PID namespace (their own, or the host's for
`--pid=host`).  `Start`, `Exit` and `RemoveContainer` happen at any time, between any
two calls the crawler makes: `Ps` (`client.containers()`), `InspectOne` for
each container in any order, `Build` for each record (constructor, user list,
environment, namespace deduplication), `NextContainer`, one step per plugin
(`PluginReturns`, `PluginRaises`), one per emitter (`Emit`, `EmitRaises`), and
`CrawlDone`, which counts the iteration.  `DaemonFails`, `InspectRemoved`,
`BuildRaises` and `EmitRaises` end the process.  The data of a frame is how many
features each plugin put into it.  `steady` and `why` are history variables for
the properties only.  The wait between two crawls is left to `Worker`.

### LogsLinker

`Ps` (`client.containers()`), `InspectOne` for each container, `Build` for each
record (constructor and the deduplication by PID namespace of
`list_all_containers`), `Update` (the two set differences), `Unlink` for each
deleted object, `UnlinkDone`, `Link` for each new one, `LinkDone`; containers
start, exit and are removed between any two of these.  Python sets are modelled
by what `__eq__` makes of them: `IsSetOf` keeps one of several equal objects,
`Minus` removes what equals something.  PIDs are given again, to any container,
and an exited container that is inspected has PID 0 and no namespace.  A
directory is whose logs it links to; `Link` leaves an existing one alone, as the
ignored `OSError` does.

What fails: `DockerFails` and `InspectRaises` end the linker in a poll, and so
does `LinkRaises`, the `makedirs` of a container's own directory; `UnlinkFails`
is an `rmtree` whose error is logged, after which the container is forgotten and
its directory stays or has lost some of its links; `LinkFails` is any other
error of a link, which is taken for one that exists.  `Restart` starts the linker
again with its memory lost and the directories kept.  All of these together
happen at most `MaxFailures` times.

The code makes up for none of them, so the properties cannot claim exact
directories everywhere.  Two history variables say where they may not be exact:
`damaged` has the names for which a call on the directory failed, or whose
container passed for another because both had one PID in two polls (`Mistaken`);
`forgotten` has the names of the directories that a restart found.  A name leaves
them when its directory is removed, or made for a container that finds nothing of
another's in it: what is wrong with one name does not excuse another, nor the
same name for ever.

The order of docker's list is left open: of the containers in one PID namespace
any may be kept.  Names do not change (`docker rename`), an environment does not
reject a container (`ContainersCrawl` has that), and processes of the host have no
namespace here: a PID of a container that went away is another container's or
nobody's.

### MTGraphite

`SendMessages` queues the lines of a frame and decides whether to write
(`BatchSize`, or `late`, which stands for `time.time() > next_timeout`).  `Try`,
`Connect`, `LoginAccepted`, `LoginRefused`, `ConnectRaises`, `Build`, `Write`
(one message at a time), `AllWritten`, `Confirmed`, `OtherReply`,
`SocketRaises` and `Failed` are the write with its retries.  Every connection is
a queue of its own; when the client has closed one, what is still on it may
arrive later (`Arrive`) or be lost (`Lose`).  `reliable`, chosen in the initial
state, says whether the client never reads anything but `1A`; otherwise it may
read an error code or the end of the stream as well.  `KeepsSchedule`'s
counterpart here is `DeliversInOrder`, the refinement of `OrderedDelivery`.

### NamespaceExec

The crawler calls `run_as_another_process` for a process ("context") that
attaches to the container's namespaces and itself calls
`run_as_another_process` for the process ("function") that runs the crawl
function; the code is the same, so `Start`, `Poll`, `Receive`, `GetTimesOut`,
`Joined` and `Kill` take the caller as a parameter, and `Arm`, `Flush`, `Exit`
and `Hangup` the child.  `result` is the pair `(result, child_exception)` of
the code, with `"none"` for `(None, None)`.

What is not in the repository is modelled from how Python 2.7 and Linux behave
there: `Queue.put` leaves the writing to a feeder thread, and a process exits
only when that has finished (an answer larger than the pipe needs a reader) and
when the `multiprocessing` children it has started have exited; `queue.get` has
a timeout for the first byte only; SIGHUP comes when the parent dies after, and
not before, the call of `prctl`; the function is in the PID namespace of the
container and dies with it.  A signal between `prctl` and `signal.signal` kills
the process at once; the model lets it unwind, which is the same for a process
that has no child yet.  `hack_to_pre_load_modules`, a fork before the call, is
left out.

Time is counted from the call.  `Tick` waits for a timer that is due and for an
answer that is being read, everything else may take any time.

### ProbeFiles, FlowProbe, CtProbe

`StartCrawl` to `CollectDone` are one `crawl(container_id)`: the cleanup when
`next_cleanup` is due, the peers of the container one after another
(`start_container_fprobes`, `start_container_ctprobes`), then its files, glob by
glob and file by file.  A generator stops at each `yield`, so `TakeFile`
(removed) and `Yield` (handed over) are two steps.  Containers are crawled in
turn.  A PID is free, another process's, or a probe's; `OtherStarts` takes a
free one.  In `FlowProbe`, `Load` is the import of the plugin, which looks for
running probes, and `Crash` forgets everything but processes and files.  In
`CtProbe` what conntrackprobe has been asked to watch (`configured`) is kept
apart from what the plugin believes (`ifaces_monitored`).

`LoadFails` is an import that raises: the scan of the processes meets one that
has just gone, or a softflowd without arguments.  The crawler then works without
the plugin until it is restarted.  A collector may end because its softflowd has
gone (`CollectorEnds`) or on its own (`CollectorDies`), and the crawler may be
killed anywhere, also between starting a softflowd and its collector: the code
looks for softflowd only, so that neither collector ever comes back while the
softflowd runs.  The history variable `bereft` has these softflowds.
`EventuallyWatched` excepts them and a plugin that was not loaded, and nothing
else: other starts that fail half way, PIDs that are taken over and restarts are
made good.  `RemoveFiles` removes files of which any may resist.

Names of host interfaces are not used twice, so that what the code does when a
name passes to another container's interface is not exercised.  The crawler is not
restarted with conntrackprobe: the code does not look for the one it had.

### Emission

The plugins are loaded in yapsy's order, and for each of them the URLs one after
another as in `load_emitter_plugins`: `SkipUrl` is a URL of another protocol,
`LoadUrl` one that is served, `LoadConf` a section of `crawler.conf` that enables
the plugin, and `NextPlugin` the end of its turn.  There is one object for each
protocol: two URLs of one protocol give two entries that both send to the last
URL, as the code has it, and `InOrder` is about lists without such a pair
(`OneEach`).  Then `EmitFrame`, and for each entry `EmitOne` (format, and split into lines or not)
and `Send`, of which each attempt is a step: `Sent`, `Retry`, `GiveUp`,
`CutOff` (`ChunkedEncodingError`, which ends the attempts), `SendRaises`.  A
failed attempt may have reached the server (`MayArrive`).  To format a frame may
raise in every emitter, which ends the crawler.  MTGraphite has its own module.

What "arrived" means differs.  For http, https and sas it is an answer 200.  For
Kafka, `requirements.txt` pins pykafka 1.1.0, whose `produce` returns after the
broker's answer.  File and stdout have been written, and cos has returned from
the upload.  For fluentd `emit_with_time` has no error when the socket took the
bytes; `HungUp` is a server that closes the connection without reading them, now
or before, of which nobody is told.  `unread` (history) has these items,
`listed` the URL for which each entry was put into the list; `Delivers` is about
that URL and names every exception: a later URL of the same protocol
(`Overridden`), the losses of http, https and sas, the frames sas and cos leave
out, and `unread`.

### Rates

A reading says which system, and which life of it, it comes from (`of`), so
that a property can say what the two readings of a rate have to do with each
other.  The keys know nothing of that: a container's interface has the long id
and the PID, and `Restart` gives any free PID, the container's former one and
another container's included.  `interface_container` inspects the container
(`Inspect`) and later enters the namespace of whoever has the PID then (`Enter`),
or fails to (`EnterFails`: no such process, a timeout); `CachePut` and the report
are further steps, and the container may restart between any two of them.
Nothing is ever removed from the cache.  So the code does compare the counters of
two namespaces in two cases, which the history variable `mixed` has: a container
gets a PID it had before, and a PID is given away between `Inspect` and `Enter`.
`OwnCounter` excepts keys of which that happened and no others; without the PID
or without the long id in the key it is violated (`ContainerKeyWithoutPid`,
`ContainerKeyWithoutId`).
`cpu_container` reads twice at its first crawl (`FirstRead`, `SecondRead`), and
opens one more file after it has cached what it read (`ReportCpuRaises`).  A
listing of VMs may leave out any that run (a qemu without `-name`), or raise.
`ContainerInterfaceKey`, `ContainerCpuKey`, `VmKey` and `HostKey` are the cache
keys.  Of a rate only the sign is kept.  A division by zero is an exception that
`crawl_container`, `crawl_vm` and `HostCrawler.crawl` swallow.

### ContainerLogs

`NoVersion`, `InfoDriver` and `GuessDriver` are the import of `dockerutils`;
`ExecDockerps` to `SetLogsList` the constructor of `DockerContainer`, one step for
each look at the host; `UpdateList`, `LinkLog` and `LinkLogsDone` the rest of the
poll, and `stage` says how far it is.  The container may stop, and start again
under a new PID, between any two of these steps.  A path is a sequence of names
(`Parts`), and on the host begins with where it is: in the root, in a mount's
source, or beside.  A name is a pattern when `*` is among its parts.
`StartsWith` is Python's: `/var/logs` starts with `/var/log`.  Where a log is
named below another (`Nested`), the link of the one is in the way of the other's:
`LinkNested` makes none, or, through a link that leads to a directory, one among
the container's own files.  `LogsLinker` has several containers, equality by PID,
names that pass on, racy polls and other errors of a link;
`ContainerLogs` has one container, whose PIDs are not reused, and what happens
inside its `Build`.  `Clear` says which names of logs `LinksComplete` is about: it
is the list of the code's exceptions, and section 3 has them in words.

## 3. Runs

Runs that pass:

| run | instance | shows |
|---|---|---|
| `worker` | frequencies -1, 0, 1, 2; clock to 9; up to 6 iterations | types, `NeverEarly`, `KeepsSchedule`, `WakesUp` |
| `containers_crawl` | 3 containers, 2 of them in the host's namespace, a list and a generator plugin, 2 emitters, one crawl, fair | types, `EmittersInStep`, `EveryNamespaceCrawled`, `EventuallyReported` |
| `logs_linker` | 3 containers, 2 of them in one PID namespace, 2 names, 2 PIDs, 2 failures or restarts; 3.8 million states | types, `LinksExact`, `RunningLinked` |
| `logs_linker_ends` | 2 containers with names of their own, 2 PIDs, 1 failure or restart, fair; 0.6 million states | `EventuallyLinked`, `EventuallyUnlinked` |
| `mtgraphite` | 3 messages, batches of 2, 2 attempts, 3 connections, a reliable server or not, fair | types, `NoGaps`, `NumbersInARow`, `DeliversInOrder`, `EventuallyArrives` |
| `namespace_exec` | timeout 2, clock to 6, a value larger or smaller than a pipe, every failure, fair | types, `Honest`, `ReturnsInTime`, `NoOrphan`, `CallEnds`, `HungFunctionEnds` |
| `probes` | either plugin; 2 containers with an interface each, of which one is there with two failures or both with one; 1 data file, 2 PIDs; fair; 0.3 million states | types, `ProbesOnce`, `MonitoredConfigured`, `YieldedOnce`, `DropsOnlyStale`, `EventuallyWatched`, `FilesGo` |
| `emission` | 11 command lines and configurations, 7 protocols, 2 frames of 1 feature, `max_retries` 2, fair; 0.5 million states | types, `Delivers`, `InOrder`, `EmitEnds` |
| `rates` | 6 plugins, 2 systems, 3 PIDs, 1 restart each, clock 1..2 and set back, counters 0..1; 2.1 million states | types, `OwnCounter`, `NeverNegative` |
| `log_files` | 7 hosts, 6 user logs (a pattern in a mount, one that reaches into a mount, a name like a mount's, a relative one, one below another) and a default one, 3 files written, 2 starts, 3 failures; 4.2 million states | types, `LinksComplete` |

Runs in which the code does not do what a docstring, comment or test says; each
is a finding in `PROJECT.json` with the sentence it contradicts:

| run | what TLC finds |
|---|---|
| `mtgraphite_other_reply` | a batch is cleared when the server answers with an error or closes the connection |
| `dies_with_parent` | when the crawler dies while a function hangs in a container, the process between them waits for the function for ever, and the function is told nothing |

While modelling, other places were met where the code does less than one may
expect; the models have them, and the properties are stated so that they do not
claim the opposite:

- a container removed between the listing and its inspection ends the crawler
  (`utils/dockerutils.py:38`; `InspectRemoved`), and one whose PID is reused
  before its namespace is looked up may be left out (`dockercontainer.py:167`;
  `containers_crawl` has PIDs that are not reused);
- `add_features` extends the frame and then fails to count what a generator
  yielded (`base_crawler.py:24`; `PluginRaises`);
- a restarted linker has forgotten the directories it made, and a container that
  takes over a name keeps its predecessor's links (`dockercontainer.py:361`;
  `forgotten` in `LogsLinker`);
- a directory that `rmtree` cannot remove is never tried again
  (`dockercontainer.py:392`; `UnlinkFails`), a link that cannot be made is taken
  for one that exists (`dockercontainer.py:361`; `LinkFails`), and a container that
  has the PID of one that went away since the last poll is taken for it
  (`container.py:72`; `Mistaken`);
- a failure of docker in one poll, or of `makedirs`, ends the linker
  (`utils/dockerutils.py:40`, `dockercontainer.py:343`);
- of two logs, one named below the other, only one gets its link, and the other's
  may end up inside the container's file system (`dockercontainer.py:357`;
  `LinkNested`);
- a softflowd whose collector has died, or was never started because the crawler
  was killed, is left without one (`fprobe_container_crawler.py:382`; `Bereft`), and
  an import of the plugin that raises is not repeated
  (`fprobe_container_crawler.py:479`; `LoadFails`);
- what fluentd's socket has taken counts as sent (`fluentd_emitter.py:67`; `HungUp`);
- a container that gets a PID again has its rates taken against the counters of
  its former life (`interface_container_crawler.py:67`; `mixed` in `Rates`);
- of several mounts only the last one decides where a log is
  (`dockercontainer.py:447`), a Destination is compared as a string, and with a
  pattern before it is expanded: for `/var/*/app` and a mount at `/var/log` the
  linker may link the `var/log/app` of the root file system, which the mount hides
  from the container;
- a log that is called `/docker.log` takes the place of the json log, whose link
  has that name (`dockercontainer.py:127`; `LogsAssumption` has no such log);
- a container whose root file system was not found when it was first seen is not
  linked at all, its json log included (`dockercontainer.py:493`);
- the storage driver is found once, at import: a crawler started before docker
  finds no root file system (`utils/dockerutils.py:242`), and with a driver that
  is not supported, overlay2 for one, `devicemapper` is assumed and another
  container's mount may be taken (`misled` in `ContainerLogs`);
- the cache keys of interfaces in virtual machines do not name the machine
  (`interface_vm_crawler.py:66`), and that of CPU times survives a restart of
  the container, after which the usage is negative (`cpu_container_crawler.py:34`):
  `OwnCounter` is about containers' interfaces only;
- two URLs of one protocol share a plugin object and the second URL gets both
  copies (`plugins_manager.py:73`; `Overridden`), although the manager's objects are
  "one per url" (`emitters_manager.py:15`) and `emit` "Sends a frame to the URLs
  specified at __init__" (`emitters_manager.py:52`); `plugins_manager.py:86` notes
  that same emitters are not supported.

Bounds.  `MaxClock` 9 and frequency 2 leave room for a first crawl, a late one
and two slots given up in a row.  Three containers are what a lost container, the
one it is mistaken for and a bystander need.  In `logs_linker` two PIDs for three
containers make every reuse possible between any two steps, the third container
takes over the first one's name, and two failures let one spoil what the code
made of the other; `logs_linker_ends` checks liveness, which takes longer, and
has two containers and one failure.  One crawl is enough: all a crawl
leaves to the next is the iteration count and what the emitters have, and the
proofs cover any number of crawls.  Two emitters are enough for one to be ahead.  Three messages
in batches of two make a full batch and a batch written because of its age; two
attempts and three connections let what is left of one connection arrive between
the writes on the next, and end with a bail-out.  A timeout of 2 lets things
happen between the start and the timeout; the clock goes on to three timeouts, one
more than the longest call.

Two interfaces show that one's probe is not taken for the other's, two PIDs that
one is reused while the other is busy, one file every order of writing, reading,
removing and cleaning up; two failures are enough for one to undo what the code
made of the other (a probe dies and its PID is taken; a removal fails and the
crawler restarts).  `max_retries` 2 has a first, a middle and a last attempt for
the emitters that try once more, two frames are what order needs, and a frame
that is sent line by line has two lines.  A counter, a clock and a life of a
system that go up, down or stay are all that the sign of a rate depends on.  Three
PIDs are the two systems' own and one that nobody had; one restart gives a system
any of them, and the proof covers any number of restarts.
The hosts of `log_files` are the storage drivers before and after docker 1.10 and
one that is not supported, with no mount, one, and two in both orders; three
failures let the linker be restarted while docker or the root goes and comes
back; `/opt` and `/opt/app` are two logs of which one is below the other.

Deadlock checking is on in `rates` and `log_files`: elsewhere the program, or the
bounded model, may really stop (a one-shot crawl, an uncaught exception or an
import that raised with no failure left to restart after, a bound).

Fairness.  `WF(Step)`, `WF(Crawler)`, `WF(Linker)`, `WF(Client)`
and `WF(Emission)`: the crawler is a process
that the scheduler lets run, and each of its calls returns or raises (docker
calls, sleeps and sockets have timeouts or fail; `requests.post` is given no
timeout, so `EmitEnds` holds for servers that answer or hang up).  `WF(Tick)` and
`WF(TimePasses)`: time goes on.  `WF(Emitter)` in `MTGraphite`: the main loop
keeps producing frames, possibly empty ones.  The docker host, the network and
restarts are not fair: no property relies on a container starting or stopping or
on a message getting through.  In `probes` other processes end some day
(`ClockFairness`), so that PIDs become free, and data files grow old; probes need
not write.  `rates` and `log_files` have safety properties only.  In `NamespaceExec` the processes and the clock
are fair; that a crawl function returns is not assumed, nor that the crawler or
the container stops.

## 4. Proofs

All theorems are proved for every value of the constants under the `ASSUME`s of
the component's module, which every run evaluates.

- `WorkerProofs`: `TypeCorrect`, `SleepBounded`, `CrawlNotEarly`, and
  `KeepsItsSchedule`, the refinement.  The properties are not inductive alone:
  `IInv` adds that only a positive frequency has a schedule (`HasSchedule`),
  that every point of the loop is bound to wait at least for the slot
  (`WaitsForSlot`) and at most one period from its last reading of the clock
  (`EndsInTime`).  The integers are unbounded in the proof: `MaxClock` and
  `MaxIter` are any numbers.
- `ContainersCrawlProofs`: `TypeCorrect`, `InStep` (`EmittersInStep`) and
  `NamespacesCrawled` (`EveryNamespaceCrawled`).  For the second, `Split` says
  that inside `emit` the emitters called already hold what the others hold plus
  the frame; `EmittersSplit` carries it through the death of the process.  The
  third assumes `PidsTellNamespaces`: a PID is used again at most for a container
  of the same PID namespace.  Without it the property is false: a container whose
  PID passes to one of another namespace is kept under that namespace, and what
  runs there is skipped.  `CrawlInv` follows every container that runs all along
  from `ids` to its inspect record (`Recorded`), to `visited`, whose every
  namespace has a container in the list (`Listed`), to the frame in hand and to
  every emitter (`Told`); `FrameGiven` says that the frame belongs to this
  iteration and that the emitters called already have it.
- `LogsLinkerProofs`: `TypeCorrect`, `Exact` (`LinksExact`) and
  `RunningAreLinked` (`RunningLinked`), for any containers, names, PIDs, PID
  namespaces and number of failures, and without further hypotheses.  The
  invariant follows the directories through a poll.  `Exactly`: at names that are
  neither `damaged` nor `forgotten` (`Wrong`) they are those of `Linked`, which is
  the old list before the unlinking, what stays of it plus what is still to be
  deleted during it, shrinks by each `Unlink`, grows by each `Link` and is the new
  list in the end.  `Bookkeeping` says that the lists name each container's
  directory once (`NamesDiffer`), `HostNames` and `ListNames` that this comes from
  docker's names: those in use at one time differ, also those seen by a poll that
  takes time.  `Mixed` says that a directory to be removed is one of a container
  that stays only if one was mistaken for the other, and `Left` that a container
  that stays and was linked after a restart has its directory, whoever's logs it
  has.  `UpdateStep` is the heart: outside of the names of mistaken containers, the
  set differences by PID are those by container.
- `LogsLinkerProofs` also has `LogsTypeCorrect` (`LogsTypeOK`) and
  `LinksAreComplete` (`LinksComplete`) of `ContainerLogs`, for any hosts, mounts,
  names of logs, nested ones included, patterns, files and failures.  `LogsAssumption` gives the types
  of the constants, keeps `*` out of mounts and `/docker.log` out of the names of
  logs.  What the code computes is in lemmas about paths: `UnderStarts`, that what
  is below a Destination also seems to be; `ConcatUnder`, that cutting off the
  host's part of a path and putting back the container's gives the name;
  `CoversBelow`, the same for a pattern and what it matches; and, on top of them,
  `MappedToRoot`, `MappedToMount` and `ListedLogs`, that every source put on the
  list is what the container sees under the name, if the name is `Clear`.
  `LogsInv` carries that through polls, crashes and restarts.  It needs four
  parts.  `LinksTyped` adds to the types where each stage leaves `obj` and `todo`.
  `AllRight` says that all links are right, made or only prepared, whichever start
  of the container they were made for: a link that exists is left alone, so a
  wrong one would stay.  `BuiltComplete` says that an object whose container still
  has its PID has lost no log, from the environment to the list; and
  `LinkedComplete` that what has no link yet is still in `todo`, so that nothing is
  missing when the linker is idle again.
- `MTGraphiteProofs`: `TypeCorrect`, `NoGapsEver` (`NoGaps`), `Numbering`
  (`NumbersInARow`, an action property) and `Implements`, the refinement of
  `OrderedDelivery`, for any batch size, any number of messages, retries, logins
  and connections.  `IInv` has eight parts.  Four are about the client: its
  counters (`Counted`), its connection being the newest (`Connected`), its queue
  being the last messages handed over (`Queued`), what is left of the batch being
  the end of the queue with the numbers that follow (`Planned`).  `Numbered` ties
  the numbers in a connection to `sequence`.  `Known` and `Ordered` are about what
  arrives: as long as only `1A` is read, the server has the first k messages for
  some k that covers all the client has forgotten, and no connection, old or new,
  goes on with a later one than k + 1 (`Reached`).  That old connections still
  deliver is why the invariant speaks of all of them.
- `NamespaceExecProofs`: `TypeCorrect`, `InTime` (`ReturnsInTime`), `NobodyLeft`
  (`NoOrphan`) and `Honesty` (`Honest`).  All rest on `Shape`: where each process
  can be, and that an answer does not change once it is in a pipe.  `Timers`
  bounds the clock in each state of the crawler; it needs that no process stops
  in the middle of an answer to a crawler that is alive.  `Childless` says that
  a process that hands over an answer has no child left, and `Truthful` what
  each outcome says about the function, at both levels.
- `ProbesProofs`: `TypeCorrect`, `NeverTwoProbes` (`ProbesOnce`),
  `NothingUnwatched` (`MonitoredConfigured`), `NeverYieldedTwice` (`YieldedOnce`)
  and `DropsNothingElse` (`DropsOnlyStale`, an action property), for any number of
  interfaces, containers, files, PIDs and failures.  `FilesKept` says that a file
  that is there has not been yielded and that the one just removed (`held`) is not
  there any more.  For softflowd, `Remembered` says that a loaded plugin knows every running probe but the one
  that waits for its collector, so that it never starts a second one.
- `EmissionProofs`: `TypeCorrect`, `NothingLost` (`Delivers`) and `OrderKept`
  (`InOrder`), for any plugins, URLs, sections of the configuration, retries,
  features and frames.  `Placed` says where the manager is between frames,
  emitters and items, `Targeted` that every entry has a URL, `ListedLast` that of
  the entries of one protocol the last one has the URL they all send to, and
  `Carried` that what is behind has reached that URL or is one of the exceptions
  that `Delivers` names: it speaks of every entry and holds in every state, also
  after the crawler's death.  `OnlyReached` says that a URL has got nothing but
  what its emitter is done with or is just retrying: that is what makes the next
  item the largest.
- `RatesProofs`: `TypeCorrect`, `OneNamespace` (`OwnCounter`) and
  `DiskNotNegative` (`NeverNegative`), for any systems, restarts, counters and
  clocks, set back or not, and any PIDs, given to whatever is started next.
  `OwnPids` says that two systems that run have two PIDs and that `had` remembers
  them; `EnterOwn`, `ReadOwn`, `CacheOwn` and `SameProcess` follow a container's
  counters from the PID it was inspected for to the namespace that is entered, the
  cache and the report: unless container and PID are `mixed`, what is there under
  their key is of the one process they stand for.  `PreviousNotNegative` says that
  what `diskio_host` repeats after a negative rate is not negative itself.

Every assumption of a theorem beyond the `ASSUME`s is a hypothesis in its
statement; the values the runs give to the constants satisfy it.

Model-checked only:

- liveness (`WakesUp`, `EventuallyReported`, `EventuallyUnlinked`,
  `EventuallyLinked`, `EventuallyArrives`, `CallEnds`, `HungFunctionEnds`,
  `EventuallyWatched`, `FilesGo`, `EmitEnds`): it rests on fairness, hence on
  `ENABLED`, which is out of the prover's reach.
`SleepBounded` is about `SleepAtMostOnePeriod`, which no run checks by itself.

## 5. Not modelled

- Parsing and layout of text: packages, OS release files, processes, connections,
  jar files, application status pages, what a formatted line looks like.  These
  read a file, a command or an answer once, return features and keep no state.
- `crawl_config_files`: one pass over a directory.  It rewrites the caller's list
  of known files in place (`utils/config_utils.py:33`), so that a list used for
  two containers has the first one's absolute paths when the second is crawled.
- Choosing crawl plugins by feature, crawl mode and platform, and merging their
  arguments (`plugins_manager.py:104`ff): done once, before the first crawl.
- `docker rename`, setting the clock back (except in `Rates`), raw (non-docker)
  containers, which `get_containers` lists only when asked to, docker events,
  which no crawler reads, the image history.
- `hack_to_pre_load_modules`, `get_pid_namespace`'s own failures and the timeout
  decorator of `timeout_utils.py`.
- What softflowd, socket-datacollector, conntrackprobe, docker, Kafka's library
  and the servers do inside: external actions, as the code relies on them.
- Values of rates, percentages and quotas; names, images and metadata of
  containers.

`PROJECT.json` lists the components with their status.

## 6. Plan

What is listed in section 2 is modelled and checked, and every safety property of
a run is a theorem.  Left is an abstract specification of a call in a namespace
(one call, one answer or exception, and none after it) that `NamespaceExec`
implements; `Honest` has most of what it would say.
