-------------------------------- MODULE Rates --------------------------------
(***************************************************************************)
(* The plugins that report rates (plugins/systems/{interface_vm,           *)
(* interface_container,interface_host,diskio_host,cpu_container,           *)
(* metric_vm}_crawler.py) and the crawl of virtual machines                *)
(* (vms_crawler.py, virtual_machine.py) that calls two of them.            *)
(*                                                                         *)
(* A plugin object lives as long as the crawler and keeps the counters of  *)
(* its last crawl with the time they were cached; the rate is the          *)
(* difference of the counters divided by the time since.  What is behind a *)
(* cache key changes meanwhile: systems restart, and get PIDs that they or *)
(* others have had, counters are reset, the clock is set.  One counter     *)
(* stands for the six of an interface, the four of a disk and the times of *)
(* the CPUs, and of a rate only the sign is kept.  (metric_vm: the -1 of a *)
(* VM without support is left out.)                                        *)
(***************************************************************************)
EXTENDS Integers, FiniteSets

CONSTANTS
  Kinds,        \* the plugins considered, one of which runs
  Systems,      \* containers, or the virtual machines of --crawlVMs
  Host,         \* the host, a member of Systems: the only one host plugins see
  Pids, NoPid,  \* of their main processes, or of qemu
  ClockSetBack, \* TRUE: the clock may be set back
  MaxClock, MaxCount, MaxBoot \* bounds

ASSUME RatesAssumption ==
  Host \in Systems /\ NoPid \notin Pids /\ MaxBoot \in Nat /\ {MaxClock, MaxCount} \subseteq Nat \ {0}

VARIABLES
  kind,         \* the plugin
  clock,
  boot,         \* times a system has been started: each time another process
  pid,          \* its PID, or NoPid when it does not run
  had,          \* history: <<s, p>>: s has been given the PID p
  count,        \* the counter in the system
  uptime,       \* CPU time of the system, busy or not
  todo,         \* systems of this crawl still to do, with the PID listed
  pc,
  asked,        \* the system being crawled, with its PID
  reading,      \* counters just read: [of, count, sys, time]
  cache,        \* _cached_values: the last reading for each key
  prev,         \* what _cache_get_value returned
  previous,     \* _previous_rates of diskio_host
  out,          \* the last rate reported and the readings it comes from
  mixed         \* history: <<s, p>>: two processes may have been found behind it

plugin == <<todo, pc, asked, reading, cache, prev, previous, out>>
system == <<boot, pid, had, mixed, count, uptime>>
vars == <<kind, clock, system, plugin>>

VmKinds == {"interface_vm", "metric_vm"}
HostKinds == {"interface_host", "diskio_host"}
Watched == IF kind \in HostKinds THEN {Host} ELSE Systems
Of(s) == <<s, boot[s]>>
Runs(s) == pid[s] # NoPid
Holders(p) == {s \in Systems : pid[s] = p}
Nothing == [of |-> <<>>, count |-> 0, sys |-> 0, time |-> 0]
Sources == {<<>>} \cup Systems \X (0..MaxBoot)
Readings == [of : Sources, count : 0..MaxCount, sys : 0..MaxClock, time : 0..MaxClock]

(***************************************************************************)
(* The key a reading is cached under: 'OUTVM-interface-eth0' and           *)
(* 'OUTVM-process-1' do not name the VM, 'INVM-...' need not name the      *)
(* host; a container's interface has its long id and its PID, its CPU the  *)
(* long id only.  A system is given as <<s, PID>>.                         *)
(***************************************************************************)
ContainerKeyWithoutPid(v) == <<v[1]>>  \* Mutants of ContainerInterfaceKey
ContainerKeyWithoutId(v) == <<v[2]>>
ContainerInterfaceKey(v) == v
ContainerCpuKey(v) == <<v[1]>>
VmKey(v) == <<>>
HostKey(v) == <<>>
Key(v) == CASE kind = "interface_container" -> ContainerInterfaceKey(v)
            [] kind = "cpu_container" -> ContainerCpuKey(v)
            [] kind \in VmKinds -> VmKey(v)
            [] kind \in HostKinds -> HostKey(v)
Cached(k) == IF k \in DOMAIN cache THEN cache[k] ELSE Nothing
Forget == asked' = <<>> /\ reading' = Nothing /\ prev' = Nothing
NoRate == [rate |-> 0, for |-> <<>>, from |-> <<>>, to |-> <<>>]
Sign(x) == IF x > 0 THEN 1 ELSE IF x < 0 THEN -1 ELSE 0

Init ==
  /\ kind \in Kinds
  /\ clock = 1 /\ boot = [s \in Systems |-> 0]
  /\ pid \in [Systems -> Pids] /\ \A s, t \in Systems : pid[s] = pid[t] => s = t
  /\ had = {<<s, pid[s]>> : s \in Systems} /\ mixed = {}
  /\ count = [s \in Systems |-> 1] /\ uptime = [s \in Systems |-> 1]
  /\ todo = {} /\ pc = "idle" /\ asked = <<>> /\ reading = Nothing /\ cache = <<>> /\ prev = Nothing
  /\ previous = 0 /\ out = NoRate

-----------------------------------------------------------------------------
(***************************************************************************)
(* The systems.                                                            *)
(***************************************************************************)
Work(s) ==
  /\ Runs(s) /\ count[s] < MaxCount
  /\ count' = [count EXCEPT ![s] = @ + 1]
  /\ UNCHANGED <<kind, clock, boot, pid, had, mixed, uptime, plugin>>

(***************************************************************************)
(* A counter wraps, or an interface is removed and added again.            *)
(***************************************************************************)
Reset(s) ==
  /\ kind # "cpu_container" /\ Runs(s) /\ count[s] > 0
  /\ count' = [count EXCEPT ![s] = 0]
  /\ UNCHANGED <<kind, clock, boot, pid, had, mixed, uptime, plugin>>

Stop(s) ==
  /\ kind \notin HostKinds /\ Runs(s)
  /\ pid' = [pid EXCEPT ![s] = NoPid]
  /\ UNCHANGED <<kind, clock, boot, had, mixed, count, uptime, plugin>>

(***************************************************************************)
(* The PID is any that is free: the one s had before, or one that another  *)
(* had, which is perhaps just being looked for.  A container takes longer  *)
(* than 0.1 seconds to restart.  (MaxBoot bounds the restarts of all.)     *)
(***************************************************************************)
Restart(s, p) ==
  /\ ~ Runs(s) /\ Holders(p) = {} /\ pc # "sleep"
  /\ \A t \in Systems : boot[t] < MaxBoot
  /\ pid' = [pid EXCEPT ![s] = p] /\ boot' = [boot EXCEPT ![s] = @ + 1]
  /\ had' = had \cup {<<s, p>>}
  /\ mixed' = mixed \cup (had \cap {<<s, p>>})
                   \cup {v \in {asked} : pc = "enter" /\ v[2] = p}
  /\ count' = [count EXCEPT ![s] = 0] /\ uptime' = [uptime EXCEPT ![s] = 0]
  /\ UNCHANGED <<kind, clock, plugin>>

Tick ==
  /\ clock < MaxClock /\ clock' = clock + 1
  /\ uptime' = IF kind # "metric_vm" THEN uptime
               ELSE [s \in Systems |-> IF Runs(s) /\ uptime[s] < MaxClock
                                       THEN uptime[s] + 1 ELSE uptime[s]]
  /\ UNCHANGED <<kind, boot, pid, had, mixed, count, plugin>>

SetBack ==
  /\ ClockSetBack /\ clock > 1 /\ clock' = clock - 1
  /\ UNCHANGED <<kind, system, plugin>>

-----------------------------------------------------------------------------
(***************************************************************************)
(* Which systems a crawl visits, and with which PID.  QemuVirtualMachine   *)
(* goes through all processes of the host; a VM that has no process is     *)
(* left out, and so is any VM while some qemu has been started without     *)
(* -name (a ValueError).                                                   *)
(***************************************************************************)
Running == {<<s, pid[s]>> : s \in {s \in Watched : Runs(s)}}

UpdateList ==
  /\ pc = "idle"
  /\ \E L \in SUBSET Running : (kind \notin VmKinds => L = Running) /\ todo' = L
  /\ pc' = "crawl"
  /\ UNCHANGED <<kind, clock, system, asked, reading, cache, prev, previous, out>>

(***************************************************************************)
(* A process that ends while psutil looks at it ends the crawler.          *)
(***************************************************************************)
ListingRaises ==
  /\ pc = "idle" /\ kind \in VmKinds
  /\ pc' = "dead"
  /\ UNCHANGED <<kind, clock, system, todo, asked, reading, cache, prev, previous, out>>

(***************************************************************************)
(* The usage of a container's CPUs is a file of its cgroup, under docker/  *)
(* or somewhere under kubepods/, which goes when the container stops.      *)
(***************************************************************************)
HasCgroup(s) == Runs(s)

(***************************************************************************)
(* A VM is asked by the PID of the listing, whoever has it now; of a       *)
(* container, inspected anew, its cgroup is read.                          *)
(***************************************************************************)
Found(v) == IF kind = "cpu_container" THEN {s \in {v[1]} : HasCgroup(s)} ELSE Holders(v[2])

(***************************************************************************)
(* crawl_vm, crawl_container and HostCrawler.crawl ignore what a plugin    *)
(* raises: a system that has gone is left out.                             *)
(***************************************************************************)
Gone(v) ==
  /\ pc = "crawl" /\ v \in todo
  /\ IF kind = "interface_container" THEN ~ Runs(v[1]) ELSE Found(v) = {}
  /\ todo' = todo \ {v}
  /\ UNCHANGED <<kind, clock, system, pc, asked, reading, cache, prev, previous, out>>

CrawlDone ==
  /\ pc = "crawl" /\ todo = {}
  /\ pc' = "idle" /\ out' = NoRate
  /\ UNCHANGED <<kind, clock, system, todo, asked, reading, cache, prev, previous>>

Counters(s, t) == [of |-> Of(s), count |-> count[s],
                   sys |-> IF kind = "metric_vm" THEN uptime[s] ELSE 0,
                   time |-> IF kind = "cpu_container" THEN t ELSE 0]

(***************************************************************************)
(* interface_container: the container is inspected for its PID, and        *)
(* another process enters the network namespace of whatever has that PID   *)
(* then, the container, another container or a process of the host.  It    *)
(* may find none, time out or fail: the container is left out.             *)
(***************************************************************************)
Inspect(v) ==
  /\ pc = "crawl" /\ kind = "interface_container" /\ v \in todo /\ Runs(v[1])
  /\ asked' = <<v[1], pid[v[1]]>>
  /\ todo' = todo \ {v} /\ pc' = "enter"
  /\ out' = NoRate
  /\ UNCHANGED <<kind, clock, system, reading, cache, prev, previous>>

Enter ==
  /\ pc = "enter"
  /\ \E s \in Holders(asked[2]) : reading' = Counters(s, clock)
  /\ pc' = "put"
  /\ UNCHANGED <<kind, clock, system, todo, asked, cache, prev, previous, out>>

EnterFails ==
  /\ pc = "enter"
  /\ pc' = "crawl" /\ Forget
  /\ UNCHANGED <<kind, clock, system, todo, cache, previous, out>>

(***************************************************************************)
(* The counters are read, and are put into the cache later.                *)
(***************************************************************************)
Read(v) ==
  /\ pc = "crawl" /\ kind # "interface_container" /\ v \in todo
  /\ kind = "cpu_container" => Key(v) \in DOMAIN cache
  /\ \E s \in Found(v) : reading' = Counters(s, clock)
  /\ asked' = v
  /\ todo' = todo \ {v} /\ pc' = "put"
  /\ out' = NoRate
  /\ UNCHANGED <<kind, clock, system, cache, prev, previous>>

(***************************************************************************)
(* cpu_container has no cached times for this container: it reads them,    *)
(* sleeps for a fixed time (from 0 to 1 here) and reads them again.        *)
(***************************************************************************)
FirstRead(v) ==
  /\ pc = "crawl" /\ kind = "cpu_container" /\ v \in todo
  /\ Key(v) \notin DOMAIN cache
  /\ \E s \in Found(v) : prev' = Counters(s, 0)
  /\ asked' = v
  /\ todo' = todo \ {v} /\ pc' = "sleep"
  /\ out' = NoRate
  /\ UNCHANGED <<kind, clock, system, reading, cache, previous>>

SecondRead ==
  /\ pc = "sleep"
  /\ IF HasCgroup(asked[1])
     THEN /\ reading' = Counters(asked[1], 1) /\ pc' = "sampled"
          /\ UNCHANGED <<asked, prev>>
     ELSE pc' = "crawl" /\ Forget
  /\ UNCHANGED <<kind, clock, system, todo, cache, previous, out>>

ReadKey == Key(asked)

(***************************************************************************)
(* Mutant of CachePut: the value it replaces is put back.                  *)
(***************************************************************************)
CachePutBack ==
  /\ pc \in {"put", "sampled"}
  /\ prev' = IF pc = "put" THEN Cached(ReadKey) ELSE prev
  /\ cache' = [k \in DOMAIN cache \cup {ReadKey} |-> IF k = ReadKey THEN prev' ELSE cache[k]]
  /\ pc' = "report"
  /\ UNCHANGED <<kind, clock, system, todo, asked, reading, previous, out>>

CachePut ==
  /\ pc \in {"put", "sampled"}
  /\ prev' = IF pc = "put" THEN Cached(ReadKey) ELSE prev
  /\ cache' = [k \in DOMAIN cache \cup {ReadKey} |->
                 IF k = ReadKey THEN [reading EXCEPT !.time = clock] ELSE cache[k]]
  /\ pc' = "report"
  /\ UNCHANGED <<kind, clock, system, todo, asked, reading, previous, out>>

-----------------------------------------------------------------------------
First == prev.of = <<>>
Interval == (IF kind = "cpu_container" THEN reading.time ELSE clock) - prev.time
Rate == Sign((reading.count - prev.count) * Interval)

Yield(r) ==
  /\ out' = [rate |-> r, for |-> asked, from |-> prev.of, to |-> reading.of]
  /\ pc' = "crawl" /\ Forget

(***************************************************************************)
(* interface_*: 0 for a first measurement.                                 *)
(***************************************************************************)
ReportInterface ==
  /\ pc = "report" /\ kind \in {"interface_vm", "interface_container", "interface_host"}
  /\ First \/ Interval # 0
  /\ Yield(IF First THEN 0 ELSE Rate)
  /\ UNCHANGED <<kind, clock, system, todo, cache, previous>>

ReportCpu ==
  /\ pc = "report" /\ kind = "cpu_container" /\ HasCgroup(asked[1]) /\ Interval # 0
  /\ Yield(Rate)
  /\ UNCHANGED <<kind, clock, system, todo, cache, previous>>

(***************************************************************************)
(* Mutant of ReportDisk: the test is made on the counters' difference.     *)
(***************************************************************************)
ReportDiskByCount ==
  /\ pc = "report" /\ kind = "diskio_host" /\ (First \/ Interval # 0)
  /\ previous' = IF First THEN 0 ELSE IF reading.count < prev.count THEN previous ELSE Rate
  /\ Yield(previous')
  /\ UNCHANGED <<kind, clock, system, todo, cache>>

(***************************************************************************)
(* diskio_host: a negative rate is taken for a counter that has wrapped,   *)
(* and the previous rate is reported again.                                *)
(***************************************************************************)
ReportDisk ==
  /\ pc = "report" /\ kind = "diskio_host" /\ (First \/ Interval # 0)
  /\ previous' = IF First THEN 0 ELSE IF Rate < 0 THEN previous ELSE Rate
  /\ Yield(previous')
  /\ UNCHANGED <<kind, clock, system, todo, cache>>

(***************************************************************************)
(* metric_vm: CPU time of a process in CPU time of its system.             *)
(***************************************************************************)
ReportMetric ==
  /\ pc = "report" /\ kind = "metric_vm"
  /\ Yield(IF prev.count = 0 \/ prev.sys = 0 THEN 0
           ELSE Sign((reading.count - prev.count) * (reading.sys - prev.sys)))
  /\ UNCHANGED <<kind, clock, system, todo, cache, previous>>

(***************************************************************************)
(* ZeroDivisionError: the features of this system are left out.            *)
(***************************************************************************)
DivisionRaises ==
  /\ pc = "report" /\ kind # "metric_vm" /\ ~ First /\ Interval = 0
  /\ pc' = "crawl" /\ Forget
  /\ UNCHANGED <<kind, clock, system, todo, cache, previous, out>>

(***************************************************************************)
(* cpu_container opens one more file of the cgroup, cpuacct.stat, before   *)
(* it reports.                                                             *)
(***************************************************************************)
ReportCpuRaises ==
  /\ pc = "report" /\ kind = "cpu_container" /\ ~ HasCgroup(asked[1])
  /\ pc' = "crawl" /\ Forget
  /\ UNCHANGED <<kind, clock, system, todo, cache, previous, out>>

Report == ReportInterface \/ ReportCpu \/ ReportCpuRaises \/ ReportDisk \/ ReportMetric \/ DivisionRaises

Crawl == \/ UpdateList \/ ListingRaises \/ CrawlDone \/ Enter \/ EnterFails
         \/ SecondRead \/ CachePut \/ Report
         \/ \E v \in todo : Gone(v) \/ Inspect(v) \/ Read(v) \/ FirstRead(v)

World == \/ Tick \/ SetBack
         \/ \E s \in Watched : Work(s) \/ Reset(s) \/ Stop(s) \/ \E p \in Pids : Restart(s, p)

Next == Crawl \/ World
Spec == Init /\ [][Next]_vars

-----------------------------------------------------------------------------
(***************************************************************************)
(* The types of the variables.                                             *)
(***************************************************************************)
TypeOK ==
  /\ kind \in Kinds /\ clock \in 1..MaxClock
  /\ boot \in [Systems -> 0..MaxBoot] /\ pid \in [Systems -> Pids \cup {NoPid}]
  /\ {had, mixed} \subseteq SUBSET (Systems \X Pids)
  /\ count \in [Systems -> 0..MaxCount] /\ uptime \in [Systems -> 0..MaxClock]
  /\ todo \subseteq Systems \X Pids /\ asked \in (Systems \X Pids) \cup {<<>>}
  /\ pc \in {"idle", "crawl", "enter", "sleep", "put", "sampled", "report", "dead"}
  /\ reading \in Readings /\ prev \in Readings
  /\ \A k \in DOMAIN cache : cache[k] \in Readings /\ cache[k].of # <<>>
  /\ previous \in -1..1 /\ out.rate \in -1..1 /\ {out.from, out.to} \subseteq Sources

(***************************************************************************)
(* A rate of a container's interface is the difference of two readings in  *)
(* one network namespace, that of one main process: although containers    *)
(* restart between the crawls and within one, PIDs are given again, also   *)
(* to other containers, and what has once been cached stays.  Exceptions,  *)
(* which are the code's: the container itself had this PID before, or the  *)
(* PID was given away between the inspection and the entering of the       *)
(* namespace, in this crawl or in an earlier one.  The plugins of VMs and  *)
(* CPUs do not have this property.                                         *)
(***************************************************************************)
OwnCounter ==
  kind = "interface_container" => out.from \in {<<>>, out.to} \/ out.for \in mixed

(***************************************************************************)
(* diskio_host never reports a negative rate, neither when a counter has   *)
(* wrapped nor when the clock has been set back.                           *)
(***************************************************************************)
NeverNegative == kind = "diskio_host" => out.rate >= 0

=============================================================================
