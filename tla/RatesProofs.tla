----------------------------- MODULE RatesProofs -----------------------------
(***************************************************************************)
(* Theorems about Rates, for any systems, PIDs and bounds: its types, that *)
(* the rate of a container's interface compares two readings of one        *)
(* process unless PIDs have been mixed up, and that the disk's is never    *)
(* negative.                                                               *)
(***************************************************************************)
EXTENDS Rates, TLAPS

(***************************************************************************)
(* Between a reading and its report it is known what was read; only        *)
(* cpu_container reads twice, and only interface_container enters.         *)
(***************************************************************************)
Sampling == /\ pc \in {"enter", "sleep", "put", "sampled", "report"} => asked # <<>>
            /\ pc \in {"put", "sampled", "report"} => reading.of # <<>>
            /\ pc \in {"sleep", "sampled"} => prev.of # <<>> /\ kind = "cpu_container"
            /\ pc = "enter" => kind = "interface_container"

(***************************************************************************)
(* Two systems that run have two PIDs, and had remembers them.             *)
(***************************************************************************)
OwnPids == \A s \in Systems : Runs(s) => /\ <<s, pid[s]>> \in had
                                         /\ Holders(pid[s]) = {s}

(***************************************************************************)
(* x, which was read for v, is the process that v stands for, if it stands *)
(* for any now.                                                            *)
(***************************************************************************)
Behind(v, x) == pid[v[1]] = v[2] => x = Of(v[1])

(***************************************************************************)
(* Unless two processes may have been found behind a container and its     *)
(* PID, whatever is entered, read or cached for it is the one it stands    *)
(* for, and what is read is what was cached.                               *)
(***************************************************************************)
EnterOwn == pc = "enter" => /\ asked \in had
                            /\ asked \in mixed \/ Holders(asked[2]) \subseteq {asked[1]}
ReadOwn == pc = "put" =>
             /\ asked \in had
             /\ \/ asked \in mixed
                \/ /\ Behind(asked, reading.of)
                   /\ asked \in DOMAIN cache => cache[asked].of = reading.of
CacheOwn == \A v \in DOMAIN cache : v \in had /\ (v \in mixed \/ Behind(v, cache[v].of))
SameProcess == pc = "report" => asked \in mixed \/ prev.of \in {<<>>, reading.of}
Owned == kind = "interface_container" => EnterOwn /\ ReadOwn /\ CacheOwn /\ SameProcess

(***************************************************************************)
(* What diskio_host would report again is not negative.                    *)
(***************************************************************************)
PreviousNotNegative == kind = "diskio_host" => previous >= 0

IInv == /\ TypeOK
        /\ Sampling
        /\ OwnPids
        /\ Owned
        /\ OwnCounter
        /\ PreviousNotNegative
        /\ NeverNegative

-----------------------------------------------------------------------------
(***************************************************************************)
(* What a system's counters give is a reading of that system.              *)
(***************************************************************************)
LEMMA CountersType ==
  ASSUME TypeOK, NEW s \in Systems, NEW t \in 0..MaxClock
  PROVE  Counters(s, t) \in Readings /\ Counters(s, t).of = Of(s) /\ Of(s) # <<>>
<1>1. Of(s) \in Sources /\ Of(s) # <<>>
  BY DEF TypeOK, Of, Sources
<1>2. count[s] \in 0..MaxCount /\ uptime[s] \in 0..MaxClock
  BY DEF TypeOK
<1>3. 0 \in 0..MaxClock
  BY RatesAssumption
<1> QED BY <1>1, <1>2, <1>3 DEF Counters, Readings

\* The product of two differences.
LEMMA ProductType == \A a, b \in Int : a * b \in Int
OBVIOUS

(***************************************************************************)
(* The sign of a rate.                                                     *)
(***************************************************************************)
LEMMA SignType == ASSUME NEW x \in Int PROVE Sign(x) \in -1..1
BY DEF Sign

(***************************************************************************)
(* The cache gives a reading, or nothing.                                  *)
(***************************************************************************)
LEMMA CachedType ==
  ASSUME TypeOK, NEW k
  PROVE  /\ Cached(k) \in Readings
         /\ Cached(k).of = IF k \in DOMAIN cache THEN cache[k].of ELSE <<>>
<1>1. Nothing \in Readings /\ Nothing.of = <<>>
  BY RatesAssumption DEF Nothing, Readings, Sources
<1> QED BY <1>1 DEF Cached, TypeOK

(***************************************************************************)
(* The types of what a plugin does not change, and of what it does.        *)
(***************************************************************************)
SystemsOK == /\ kind \in Kinds /\ clock \in 1..MaxClock
             /\ boot \in [Systems -> 0..MaxBoot] /\ pid \in [Systems -> Pids \cup {NoPid}]
             /\ {had, mixed} \subseteq SUBSET (Systems \X Pids)
             /\ count \in [Systems -> 0..MaxCount] /\ uptime \in [Systems -> 0..MaxClock]

CacheOK == \A k \in DOMAIN cache : cache[k] \in Readings /\ cache[k].of # <<>>

PluginOK == /\ todo \subseteq Systems \X Pids /\ asked \in (Systems \X Pids) \cup {<<>>}
            /\ pc \in {"idle", "crawl", "enter", "sleep", "put", "sampled", "report", "dead"}
            /\ reading \in Readings /\ prev \in Readings
            /\ CacheOK
            /\ previous \in -1..1 /\ out.rate \in -1..1
            /\ {out.from, out.to} \subseteq Sources

\* The types of the systems and those of the plugin, primed or not.
LEMMA TypeParts == /\ TypeOK <=> SystemsOK /\ PluginOK
                   /\ TypeOK' <=> SystemsOK' /\ PluginOK'
BY DEF TypeOK, SystemsOK, CacheOK, PluginOK

(***************************************************************************)
(* Systems start, stop and count, the clock goes on or back.               *)
(***************************************************************************)
LEMMA WorldTypes ==
  ASSUME IInv, World
  PROVE  TypeOK'
<1> USE RatesAssumption
<1>1. UNCHANGED <<kind, plugin>>
  BY DEF World, Tick, SetBack, Work, Reset, Stop, Restart
<1>2. SystemsOK /\ PluginOK
  BY TypeParts DEF IInv
<1>3. SystemsOK'
  <2> USE DEF SystemsOK, system
  <2>1. CASE Tick
    <3>1. uptime' \in [Systems -> 0..MaxClock]
      <4>1. CASE uptime' = uptime BY <1>2, <4>1
      <4>2. CASE uptime' = [s \in Systems |-> IF Runs(s) /\ uptime[s] < MaxClock
                                             THEN uptime[s] + 1 ELSE uptime[s]]
        BY <1>2, <4>2
      <4> QED BY <2>1, <4>1, <4>2 DEF Tick
    <3> QED BY <1>2, <2>1, <3>1 DEF Tick
  <2>2. CASE SetBack BY <1>2, <2>2 DEF SetBack
  <2>3. ASSUME NEW s \in Watched, Work(s) PROVE SystemsOK'
    <3>1. s \in Systems
      BY DEF Watched
    <3>2. count[s] + 1 \in 0..MaxCount
      BY <1>2, <2>3, <3>1 DEF Work
    <3>3. count' = [count EXCEPT ![s] = count[s] + 1]
      BY <2>3 DEF Work
    <3>4. count' \in [Systems -> 0..MaxCount]
      BY <1>2, <3>2, <3>3
    <3> QED BY <1>2, <2>3, <3>4 DEF Work
  <2>4. ASSUME NEW s \in Watched, Reset(s) PROVE SystemsOK'
    <3>1. 0 \in 0..MaxCount /\ count' = [count EXCEPT ![s] = 0]
      BY <2>4 DEF Reset
    <3>2. count' \in [Systems -> 0..MaxCount]
      BY <1>2, <3>1
    <3> QED BY <1>2, <2>4, <3>2 DEF Reset
  <2>5. ASSUME NEW s \in Watched, Stop(s) PROVE SystemsOK'
    BY <1>2, <2>5 DEF Stop
  <2>6. ASSUME NEW s \in Watched, NEW p \in Pids, Restart(s, p) PROVE SystemsOK'
    <3>1. s \in Systems /\ boot[s] + 1 \in 0..MaxBoot
      BY <1>2, <2>6 DEF Restart, Watched
    <3>2. pid' \in [Systems -> Pids \cup {NoPid}] /\ boot' \in [Systems -> 0..MaxBoot]
      <4>1. boot' = [boot EXCEPT ![s] = boot[s] + 1] /\ pid' = [pid EXCEPT ![s] = p]
        BY <2>6 DEF Restart
      <4> QED BY <1>2, <3>1, <4>1
    <3>3. had' \subseteq Systems \X Pids
      BY <1>2, <2>6, <3>1 DEF Restart
    <3>4. mixed' \subseteq Systems \X Pids
      <4>1. pc = "enter" => asked \in Systems \X Pids
        BY <1>2 DEF IInv, Sampling, PluginOK
      <4> QED BY <1>2, <2>6, <3>1, <4>1 DEF Restart
    <3>5. count' \in [Systems -> 0..MaxCount] /\ uptime' \in [Systems -> 0..MaxClock]
      <4>1. 0 \in 0..MaxCount /\ 0 \in 0..MaxClock
        OBVIOUS
      <4>2. count' = [count EXCEPT ![s] = 0] /\ uptime' = [uptime EXCEPT ![s] = 0]
        BY <2>6 DEF Restart
      <4> QED BY <1>2, <4>1, <4>2
    <3> QED BY <1>2, <2>6, <3>2, <3>3, <3>4, <3>5 DEF Restart
  <2> QED BY <2>1, <2>2, <2>3, <2>4, <2>5, <2>6 DEF World
<1>4. PluginOK'
  BY <1>1, <1>2 DEF PluginOK, CacheOK, plugin
<1> QED BY <1>3, <1>4, TypeParts

(***************************************************************************)
(* The PIDs, and what was found behind them, in a step that leaves both    *)
(* alone.                                                                  *)
(***************************************************************************)
LEMMA PidsStay ==
  ASSUME IInv, UNCHANGED <<kind, boot, pid, had, mixed, plugin>>
  PROVE  OwnPids' /\ Owned'
BY DEF IInv, OwnPids, Runs, Holders, Owned, EnterOwn, ReadOwn, CacheOwn, SameProcess,
       Behind, Of, plugin

(***************************************************************************)
(* A PID that is given again is given to nobody else who runs, and mixes   *)
(* up what was read and cached for it before.                              *)
(***************************************************************************)
LEMMA RestartOwn ==
  ASSUME IInv, NEW s \in Systems, NEW p \in Pids, Restart(s, p)
  PROVE  OwnPids' /\ Owned'
<1>1. SystemsOK /\ PluginOK /\ NoPid \notin Pids
  BY TypeParts, RatesAssumption DEF IInv
<1>2. /\ UNCHANGED <<kind, plugin>>
      /\ ~ Runs(s) /\ Holders(p) = {}
      /\ pid' = [pid EXCEPT ![s] = p] /\ boot' = [boot EXCEPT ![s] = boot[s] + 1]
      /\ had' = had \cup {<<s, p>>}
  BY DEF Restart
<1>3. /\ mixed \subseteq mixed'
      /\ <<s, p>> \in had => <<s, p>> \in mixed'
      /\ pc = "enter" /\ asked[2] = p => asked \in mixed'
  BY DEF Restart
<1>4. /\ pid'[s] = p
      /\ \A t \in Systems \ {s} : pid'[t] = pid[t] /\ boot'[t] = boot[t]
  BY <1>1, <1>2 DEF SystemsOK
<1>5. \A q \in Pids : Holders(q)' = IF q = p THEN {s} ELSE Holders(q)
  <2>1. pid[s] = NoPid /\ s \notin Holders(p)
    BY <1>1, <1>2 DEF Runs, Holders
  <2> QED BY <1>1, <1>2, <1>4, <2>1 DEF Holders
<1>6. OwnPids'
  <2> SUFFICES ASSUME NEW t \in Systems, Runs(t)'
               PROVE  <<t, pid'[t]>> \in had' /\ Holders(pid[t])' = {t}
    BY DEF OwnPids
  <2>1. CASE t = s
    BY <1>2, <1>4, <1>5, <2>1
  <2>2. CASE t # s
    <3>1. Runs(t) /\ pid'[t] = pid[t] /\ pid[t] \in Pids
      BY <1>1, <1>4, <2>2 DEF Runs, SystemsOK
    <3>2. <<t, pid[t]>> \in had /\ Holders(pid[t]) = {t}
      BY <3>1 DEF IInv, OwnPids
    <3>3. pid[t] # p
      BY <1>2, <3>2
    <3> QED BY <1>2, <1>5, <3>1, <3>2, <3>3 DEF Holders
  <2> QED BY <2>1, <2>2
<1>7. ASSUME NEW v \in had, NEW x, v \in mixed \/ Behind(v, x)
      PROVE  v \in mixed' \/ Behind(v, x)'
  <2>1. v \in Systems \X Pids
    BY <1>1, <1>7 DEF SystemsOK
  <2>2. CASE v = <<s, p>>
    BY <1>3, <2>2
  <2>3. CASE v # <<s, p>> /\ v[1] = s
    BY <1>4, <2>1, <2>3 DEF Behind
  <2>4. CASE v[1] # s
    BY <1>3, <1>4, <1>7, <2>1, <2>4 DEF Behind, Of
  <2> QED BY <2>2, <2>3, <2>4
<1>8. Owned'
  <2> SUFFICES ASSUME kind = "interface_container"
               PROVE  EnterOwn' /\ ReadOwn' /\ CacheOwn' /\ SameProcess'
    BY <1>2 DEF Owned
  <2>1. EnterOwn /\ ReadOwn /\ CacheOwn /\ SameProcess
    BY DEF IInv, Owned
  <2>5. UNCHANGED <<asked, reading, cache, prev, pc>>
    BY <1>2 DEF plugin
  <2>2. EnterOwn'
    <3> SUFFICES ASSUME pc = "enter"
                 PROVE  asked \in had' /\ (asked \in mixed' \/ Holders(asked[2])' \subseteq {asked[1]})
      BY <2>5 DEF EnterOwn
    <3>1. asked \in had /\ (asked \in mixed \/ Holders(asked[2]) \subseteq {asked[1]})
      BY <2>1 DEF EnterOwn
    <3>2. asked[2] \in Pids
      BY <1>1, <3>1 DEF SystemsOK
    <3>3. asked[2] # p => Holders(asked[2])' = Holders(asked[2])
      BY <1>5, <2>5, <3>2
    <3> QED BY <1>2, <1>3, <3>1, <3>3
  <2>3. ReadOwn'
    <3>1. asked \in had /\ (asked \in mixed \/ Behind(asked, reading.of))
          => asked \in mixed' \/ Behind(asked, reading.of)'
      BY <1>7, <2>5 DEF Behind
    <3> QED BY <1>2, <1>3, <2>1, <2>5, <3>1 DEF ReadOwn
  <2>4. CacheOwn'
    <3> SUFFICES ASSUME NEW v \in DOMAIN cache
                 PROVE  v \in had' /\ (v \in mixed' \/ Behind(v, cache[v].of)')
      BY <1>2 DEF CacheOwn, plugin
    <3>1. v \in had /\ (v \in mixed \/ Behind(v, cache[v].of))
      BY <2>1 DEF CacheOwn
    <3>2. cache' = cache
      BY <1>2 DEF plugin
    <3> QED BY <1>2, <1>7, <3>1, <3>2 DEF Behind
  <2>6. SameProcess'
    BY <1>2, <1>3, <2>1 DEF SameProcess, plugin
  <2> QED BY <2>2, <2>3, <2>4, <2>6
<1> QED BY <1>6, <1>8

(***************************************************************************)
(* A system that ends is behind no PID.                                    *)
(***************************************************************************)
LEMMA StopOwn ==
  ASSUME IInv, NEW s \in Systems, Stop(s)
  PROVE  OwnPids' /\ Owned'
<1>1. SystemsOK /\ PluginOK /\ NoPid \notin Pids
  BY TypeParts, RatesAssumption DEF IInv
<1>2. /\ UNCHANGED <<kind, boot, had, mixed, plugin>>
      /\ pid' = [pid EXCEPT ![s] = NoPid]
  BY DEF Stop
<1>3. pid'[s] = NoPid /\ \A t \in Systems \ {s} : pid'[t] = pid[t]
  BY <1>1, <1>2 DEF SystemsOK
<1>4. \A q \in Pids : Holders(q)' = Holders(q) \ {s}
  BY <1>1, <1>3 DEF Holders
<1>5. OwnPids'
  <2> SUFFICES ASSUME NEW t \in Systems, Runs(t)'
               PROVE  <<t, pid'[t]>> \in had' /\ Holders(pid[t])' = {t}
    BY DEF OwnPids
  <2>1. t # s
    BY <1>3 DEF Runs
  <2>2. Runs(t) /\ pid'[t] = pid[t] /\ pid[t] \in Pids
    BY <1>1, <1>3, <2>1 DEF Runs, SystemsOK
  <2>3. <<t, pid[t]>> \in had /\ Holders(pid[t]) = {t}
    BY <2>2 DEF IInv, OwnPids
  <2> QED BY <1>2, <1>4, <2>1, <2>2, <2>3 DEF Holders
<1>6. ASSUME NEW v \in had, NEW x, Behind(v, x) PROVE Behind(v, x)'
  <2>1. v \in Systems \X Pids
    BY <1>1 DEF SystemsOK
  <2> QED BY <1>1, <1>2, <1>3, <1>6, <2>1 DEF Behind, Of
<1>7. Owned'
  <2> SUFFICES ASSUME kind = "interface_container"
               PROVE  EnterOwn' /\ ReadOwn' /\ CacheOwn' /\ SameProcess'
    BY <1>2 DEF Owned
  <2>1. EnterOwn /\ ReadOwn /\ CacheOwn /\ SameProcess
    BY DEF IInv, Owned
  <2>2. UNCHANGED <<asked, reading, cache, prev, pc>>
    BY <1>2 DEF plugin
  <2>3. EnterOwn'
    <3> SUFFICES ASSUME pc = "enter"
                 PROVE  asked \in had /\ (asked \in mixed \/ Holders(asked[2])' \subseteq {asked[1]})
      BY <1>2, <2>2 DEF EnterOwn
    <3>1. asked \in had /\ (asked \in mixed \/ Holders(asked[2]) \subseteq {asked[1]})
      BY <2>1 DEF EnterOwn
    <3>2. asked[2] \in Pids
      BY <1>1, <3>1 DEF SystemsOK
    <3>3. Holders(asked[2])' \subseteq Holders(asked[2])
      BY <1>4, <2>2, <3>2
    <3> QED BY <3>1, <3>3
  <2>4. ReadOwn'
    <3>1. asked \in had /\ Behind(asked, reading.of) => Behind(asked, reading.of)'
      BY <1>6, <2>2 DEF Behind
    <3> QED BY <1>2, <2>1, <2>2, <3>1 DEF ReadOwn
  <2>5. CacheOwn'
    <3>1. \A v \in DOMAIN cache : v \in had /\ Behind(v, cache[v].of) => Behind(v, cache[v].of)'
      BY <1>6, <2>2 DEF Behind
    <3> QED BY <1>2, <2>1, <2>2, <3>1 DEF CacheOwn
  <2>6. SameProcess'
    BY <1>2, <2>1, <2>2 DEF SameProcess
  <2> QED BY <2>3, <2>4, <2>5, <2>6
<1> QED BY <1>5, <1>7

(***************************************************************************)
(* What the systems and the clock do leaves the plugin's readings alone.   *)
(***************************************************************************)
LEMMA WorldStep ==
  ASSUME IInv, World
  PROVE  IInv'
<1>1. UNCHANGED <<kind, plugin>>
  BY DEF World, Tick, SetBack, Work, Reset, Stop, Restart
<1>2. mixed \subseteq mixed'
  BY DEF World, Tick, SetBack, Work, Reset, Stop, Restart, system
<1>3. /\ Sampling' /\ OwnCounter'
      /\ PreviousNotNegative' /\ NeverNegative'
  BY <1>1, <1>2
     DEF IInv, plugin, Sampling, OwnCounter, PreviousNotNegative, NeverNegative
<1>4. OwnPids' /\ Owned'
  <2>1. CASE UNCHANGED <<boot, pid, had, mixed>>
    BY <1>1, <2>1, PidsStay
  <2>2. ASSUME NEW s \in Watched, Stop(s) PROVE OwnPids' /\ Owned'
    BY <2>2, StopOwn, RatesAssumption DEF Watched
  <2>3. ASSUME NEW s \in Watched, NEW p \in Pids, Restart(s, p) PROVE OwnPids' /\ Owned'
    BY <2>3, RestartOwn, RatesAssumption DEF Watched
  <2> QED BY <2>1, <2>2, <2>3 DEF World, Tick, SetBack, Work, Reset, system
<1> QED BY <1>3, <1>4, WorldTypes DEF IInv

-----------------------------------------------------------------------------
(***************************************************************************)
(* What the steps that put nothing into the cache and report nothing have  *)
(* in common.                                                              *)
(***************************************************************************)
LEMMA KeepsCache ==
  ASSUME IInv, UNCHANGED <<kind, clock, system, cache, previous>>,
         out' = out \/ out' = NoRate,
         todo' \subseteq Systems \X Pids, asked' \in (Systems \X Pids) \cup {<<>>},
         reading' \in Readings, prev' \in Readings,
         pc' \in {"idle", "crawl", "enter", "sleep", "put", "sampled", "dead"}, Sampling',
         kind = "interface_container" => EnterOwn' /\ ReadOwn'
  PROVE  IInv'
<1>1. NoRate.rate = 0 /\ NoRate.from = <<>> /\ NoRate.to = <<>> /\ <<>> \in Sources
  BY DEF NoRate, Sources
<1>2. SystemsOK /\ PluginOK
  BY TypeParts DEF IInv
<1>3. SystemsOK'
  BY <1>2 DEF SystemsOK, system
<1>4. out'.rate \in -1..1 /\ {out'.from, out'.to} \subseteq Sources
  BY <1>1, <1>2 DEF PluginOK
<1>5. PluginOK'
  BY <1>2, <1>4 DEF PluginOK, CacheOK
<1>6. TypeOK'
  BY <1>3, <1>5, TypeParts
<1>7. OwnPids' /\ PreviousNotNegative'
  BY DEF IInv, OwnPids, Runs, Holders, PreviousNotNegative, system
<1>8. Owned'
  <2>1. CacheOwn => CacheOwn'
    BY DEF CacheOwn, Behind, Of, system
  <2>2. SameProcess'
    BY DEF SameProcess
  <2> QED BY <2>1, <2>2 DEF IInv, Owned
<1>9. OwnCounter' /\ NeverNegative'
  BY <1>1 DEF IInv, OwnCounter, NeverNegative, system
<1> QED BY <1>6, <1>7, <1>8, <1>9 DEF IInv

(***************************************************************************)
(* A crawl lists the systems and goes from one to the next.                *)
(***************************************************************************)
LEMMA ListStep ==
  ASSUME IInv, \/ UpdateList \/ ListingRaises \/ CrawlDone
               \/ \E v \in todo : Gone(v)
  PROVE  IInv'
<1>1. UNCHANGED <<kind, clock, system, asked, reading, cache, prev, previous>>
  BY DEF UpdateList, ListingRaises, CrawlDone, Gone
<1>2. pc' \in {"idle", "crawl", "dead"} /\ (out' = out \/ out' = NoRate)
  BY DEF UpdateList, ListingRaises, CrawlDone, Gone
<1>3. PluginOK /\ pid \in [Systems -> Pids \cup {NoPid}]
  BY TypeParts DEF IInv, SystemsOK
<1>4. todo' \subseteq Systems \X Pids
  <2>1. Running \subseteq Systems \X Pids
    BY <1>3, RatesAssumption DEF Running, Watched, Runs
  <2> QED BY <1>3, <2>1 DEF UpdateList, ListingRaises, CrawlDone, Gone, PluginOK
<1>5. Sampling' /\ EnterOwn' /\ ReadOwn'
  BY <1>2 DEF Sampling, EnterOwn, ReadOwn
<1> QED BY <1>1, <1>2, <1>3, <1>4, <1>5, KeepsCache DEF PluginOK

(***************************************************************************)
(* A container is inspected, and the namespace behind its PID is entered,  *)
(* which is its own unless the PID has been given away.                    *)
(***************************************************************************)
LEMMA EnterStep ==
  ASSUME IInv, \/ Enter \/ EnterFails
               \/ \E v \in todo : Inspect(v)
  PROVE  IInv'
<1>1. Nothing \in Readings
  BY RatesAssumption DEF Nothing, Readings, Sources
<1>2. /\ SystemsOK /\ PluginOK
      /\ todo \subseteq Systems \X Pids /\ {reading, prev} \subseteq Readings
  BY TypeParts DEF IInv, PluginOK
<1>3. ASSUME NEW v \in todo, Inspect(v) PROVE IInv'
  <2>1. /\ UNCHANGED <<kind, clock, system, reading, cache, prev, previous>>
        /\ out' = NoRate /\ todo' \subseteq todo /\ pc' = "enter"
        /\ kind = "interface_container" /\ Runs(v[1]) /\ asked' = <<v[1], pid[v[1]]>>
    BY <1>3 DEF Inspect
  <2>2. v[1] \in Systems /\ pid[v[1]] \in Pids
    BY <1>2, <2>1 DEF Runs, SystemsOK
  <2>3. asked' \in Systems \X Pids /\ asked' # <<>> /\ asked'[1] = v[1] /\ asked'[2] = pid[v[1]]
    BY <2>1, <2>2
  <2>4. asked' \in had /\ Holders(asked'[2]) = {asked'[1]}
    BY <2>1, <2>2, <2>3 DEF IInv, OwnPids
  <2>5. Sampling'
    BY <2>1, <2>3 DEF Sampling
  <2>6. EnterOwn'
    BY <2>1, <2>4 DEF EnterOwn, Holders, system
  <2>7. ReadOwn'
    BY <2>1 DEF ReadOwn
  <2> QED BY <1>2, <2>1, <2>3, <2>5, <2>6, <2>7, KeepsCache
<1>4. CASE Enter
  <2>1. PICK s \in Holders(asked[2]) : reading' = Counters(s, clock)
    BY <1>4 DEF Enter
  <2>2. /\ UNCHANGED <<kind, clock, system, todo, asked, cache, prev, previous, out>>
        /\ pc = "enter" /\ pc' = "put"
    BY <1>4 DEF Enter
  <2>3. s \in Systems /\ pid[s] = asked[2]
    BY <2>1 DEF Holders
  <2>4. reading' \in Readings /\ reading'.of = Of(s) /\ Of(s) # <<>>
    <3>1. clock \in 0..MaxClock
      BY <1>2 DEF SystemsOK
    <3> QED BY <2>1, <2>3, <3>1, CountersType DEF IInv
  <2>5. asked \in (Systems \X Pids) \cup {<<>>} /\ asked # <<>> /\ kind = "interface_container"
    BY <1>2, <2>2 DEF PluginOK, IInv, Sampling
  <2>6. Sampling'
    BY <2>2, <2>4, <2>5 DEF Sampling
  <2>7. EnterOwn'
    BY <2>2 DEF EnterOwn
  <2>8. /\ asked \in had
        /\ asked \notin mixed => reading'.of = Of(asked[1]) /\ pid[asked[1]] = asked[2]
    BY <2>1, <2>2, <2>3, <2>4, <2>5 DEF IInv, Owned, EnterOwn
  <2>9. asked \notin mixed /\ asked \in DOMAIN cache => cache[asked].of = reading'.of
    <3>1. CacheOwn
      BY <2>5 DEF IInv, Owned
    <3> QED BY <2>8, <3>1 DEF CacheOwn, Behind
  <2>10. ReadOwn'
    <3>1. UNCHANGED <<had, mixed, pid, boot>>
      BY <2>2 DEF system
    <3>2. asked \notin mixed => Behind(asked, reading.of)'
      BY <2>2, <2>8, <3>1 DEF Behind, Of
    <3> QED BY <2>2, <2>8, <2>9, <3>1, <3>2 DEF ReadOwn
  <2> QED BY <1>2, <2>2, <2>4, <2>5, <2>6, <2>7, <2>10, KeepsCache
<1>5. CASE EnterFails
  <2>1. /\ UNCHANGED <<kind, clock, system, todo, cache, previous, out>> /\ pc' = "crawl"
        /\ asked' = <<>> /\ reading' = Nothing /\ prev' = Nothing
    BY <1>5 DEF EnterFails, Forget
  <2>2. Sampling' /\ EnterOwn' /\ ReadOwn'
    BY <2>1 DEF Sampling, EnterOwn, ReadOwn
  <2> QED BY <1>1, <1>2, <2>1, <2>2, KeepsCache
<1> QED BY <1>3, <1>4, <1>5

\* Reading a counter leaves the cache and the results alone.
LEMMA ReadStep ==
  ASSUME IInv, \/ SecondRead
               \/ \E v \in todo : Read(v) \/ FirstRead(v)
  PROVE  IInv'
<1> USE RatesAssumption
<1>1. Nothing \in Readings
  BY DEF Nothing, Readings, Sources
<1>2. clock \in 0..MaxClock /\ {0, 1} \subseteq 0..MaxClock
  BY DEF IInv, TypeOK
<1>3. todo \subseteq Systems \X Pids /\ {reading, prev} \subseteq Readings
  BY DEF IInv, TypeOK
<1>4. ASSUME NEW v \in todo PROVE Found(v) \subseteq Systems /\ v # <<>>
  BY <1>3 DEF Found, Holders
<1>5. ASSUME NEW v \in todo, Read(v) PROVE IInv'
  <2>1. PICK s \in Systems : reading' = Counters(s, clock)
    BY <1>4, <1>5 DEF Read
  <2>2. reading' \in Readings /\ reading'.of # <<>>
    BY <1>2, <2>1, CountersType DEF IInv
  <2>3. /\ UNCHANGED <<kind, clock, system, cache, prev, previous>>
        /\ out' = NoRate /\ todo' \subseteq todo /\ pc' = "put" /\ asked' = v
        /\ kind # "interface_container"
    BY <1>5 DEF Read
  <2>4. Sampling'
    BY <1>4, <2>2, <2>3 DEF Sampling
  <2> QED BY <1>3, <2>2, <2>3, <2>4, KeepsCache
<1>6. ASSUME NEW v \in todo, FirstRead(v) PROVE IInv'
  <2>1. PICK s \in Systems : prev' = Counters(s, 0)
    BY <1>4, <1>6 DEF FirstRead
  <2>2. prev' \in Readings /\ prev'.of # <<>>
    BY <1>2, <2>1, CountersType DEF IInv
  <2>3. /\ UNCHANGED <<kind, clock, system, reading, cache, previous>>
        /\ out' = NoRate /\ todo' \subseteq todo /\ pc' = "sleep" /\ asked' = v
        /\ kind = "cpu_container"
    BY <1>6 DEF FirstRead
  <2>4. Sampling'
    BY <1>4, <2>2, <2>3 DEF Sampling
  <2> QED BY <1>3, <2>2, <2>3, <2>4, KeepsCache
<1>7. CASE SecondRead
  <2>1. /\ UNCHANGED <<kind, clock, system, todo, cache, previous, out>>
        /\ pc = "sleep" /\ kind = "cpu_container"
        /\ asked \in Systems \X Pids
    BY <1>7 DEF SecondRead, IInv, Sampling, TypeOK
  <2>2. CASE HasCgroup(asked[1])
    <3>1. prev.of # <<>> /\ asked # <<>> /\ asked[1] \in Systems
      BY <2>1 DEF IInv, Sampling
    <3>2. reading' = Counters(asked[1], 1) /\ pc' = "sampled" /\ prev' = prev /\ asked' = asked
      BY <1>7, <2>2 DEF SecondRead
    <3>3. reading' \in Readings /\ reading'.of # <<>>
      BY <1>2, <3>1, <3>2, CountersType DEF IInv
    <3>4. Sampling'
      BY <2>1, <3>1, <3>2, <3>3 DEF Sampling
    <3> QED BY <1>3, <2>1, <3>2, <3>3, <3>4, KeepsCache
  <2>3. CASE ~ HasCgroup(asked[1])
    <3>1. pc' = "crawl" /\ asked' = <<>> /\ reading' = Nothing /\ prev' = Nothing
      BY <1>7, <2>3 DEF SecondRead, Forget
    <3>2. Sampling'
      BY <3>1 DEF Sampling
    <3> QED BY <1>1, <1>3, <2>1, <3>1, <3>2, KeepsCache
  <2> QED BY <2>2, <2>3
<1> QED BY <1>5, <1>6, <1>7

(***************************************************************************)
(* The reading replaces what was cached under its key.                     *)
(***************************************************************************)
LEMMA CacheStep ==
  ASSUME IInv, CachePut
  PROVE  IInv'
<1> USE RatesAssumption
<1>1. /\ pc \in {"put", "sampled"} /\ pc' = "report"
      /\ UNCHANGED <<kind, clock, system, todo, asked, reading, previous, out>>
      /\ prev' = IF pc = "put" THEN Cached(ReadKey) ELSE prev
  BY DEF CachePut
<1>2. SystemsOK /\ PluginOK
  BY TypeParts DEF IInv
<1>3. reading \in Readings /\ reading.of # <<>> /\ clock \in 0..MaxClock
  BY <1>1 DEF IInv, TypeOK, Sampling
<1>4. prev' \in Readings
  BY <1>1, CachedType DEF IInv, TypeOK
<1>5. \A k \in DOMAIN cache' :
        /\ cache'[k] \in Readings
        /\ k = ReadKey => cache'[k].of = reading.of
        /\ k # ReadKey => k \in DOMAIN cache /\ cache'[k] = cache[k]
  <2> DEFINE timed == [reading EXCEPT !.time = clock]
  <2>1. timed \in Readings /\ timed.of = reading.of
    BY <1>3 DEF Readings
  <2>2. ASSUME NEW k \in DOMAIN cache'
        PROVE  /\ k = ReadKey => cache'[k] = timed
               /\ k # ReadKey => k \in DOMAIN cache /\ cache'[k] = cache[k]
    BY DEF CachePut
  <2> HIDE DEF timed
  <2> QED BY <1>2, <2>1, <2>2 DEF PluginOK, CacheOK
<1>6. CacheOK'
  BY <1>2, <1>3, <1>5 DEF PluginOK, CacheOK
<1>7. TypeOK'
  <2>1. SystemsOK'
    BY <1>1, <1>2 DEF SystemsOK, system
  <2>2. PluginOK'
    BY <1>1, <1>2, <1>4, <1>6 DEF PluginOK
  <2> QED BY <2>1, <2>2, TypeParts
<1>8. Sampling' /\ OwnCounter' /\ PreviousNotNegative' /\ NeverNegative'
  BY <1>1, <1>3
     DEF IInv, Sampling, OwnCounter, PreviousNotNegative, NeverNegative, system
<1>9. OwnPids'
  BY <1>1 DEF IInv, OwnPids, Runs, Holders, system
<1>10. Owned'
  <2> SUFFICES ASSUME kind = "interface_container"
               PROVE  EnterOwn' /\ ReadOwn' /\ CacheOwn' /\ SameProcess'
    BY <1>1 DEF Owned
  <2>1. pc = "put" /\ ReadOwn /\ CacheOwn
    BY <1>1 DEF IInv, Sampling, Owned
  <2>2. ReadKey = asked
    BY DEF ReadKey, Key, ContainerInterfaceKey, VmKinds, HostKinds
  <2>3. UNCHANGED <<had, mixed, pid, boot>>
    BY <1>1 DEF system
  <2>4. EnterOwn' /\ ReadOwn'
    BY <1>1 DEF EnterOwn, ReadOwn
  <2>5. CacheOwn'
    <3> SUFFICES ASSUME NEW v \in DOMAIN cache'
                 PROVE  v \in had /\ (v \in mixed \/ Behind(v, cache'[v].of))
      BY <2>3 DEF CacheOwn, Behind, Of
    <3>1. CASE v = asked
      BY <1>5, <2>1, <2>2, <3>1 DEF ReadOwn
    <3>2. CASE v # asked
      BY <1>5, <2>1, <2>2, <3>2 DEF CacheOwn
    <3> QED BY <3>1, <3>2
  <2>6. SameProcess'
    <3>1. prev'.of = IF asked \in DOMAIN cache THEN cache[asked].of ELSE <<>>
      BY <1>1, <2>1, <2>2, CachedType DEF IInv
    <3> QED BY <1>1, <2>1, <2>3, <3>1 DEF SameProcess, ReadOwn
  <2> QED BY <2>4, <2>5, <2>6
<1> QED BY <1>7, <1>8, <1>9, <1>10 DEF IInv

-----------------------------------------------------------------------------
(***************************************************************************)
(* A rate compares two readings, and only that of a disk is remembered.    *)
(***************************************************************************)
LEMMA ReportStep ==
  ASSUME IInv, Report
  PROVE  IInv'
<1> USE RatesAssumption
<1>1. /\ pc = "report" /\ pc' = "crawl" /\ asked' = <<>> /\ reading' = Nothing /\ prev' = Nothing
      /\ UNCHANGED <<kind, clock, system, todo, cache>>
  BY DEF Report, ReportInterface, ReportCpu, ReportCpuRaises, ReportDisk, ReportMetric,
         DivisionRaises, Yield, Forget
<1>2. Nothing \in Readings
  BY DEF Nothing, Readings, Sources
<1>3. SystemsOK /\ PluginOK
  BY TypeParts DEF IInv
<1>4. Rate \in -1..1
  <2>1. reading.count - prev.count \in Int
    BY <1>3 DEF PluginOK, Readings
  <2>2. Interval \in Int
    <3>1. clock \in Int /\ reading.time \in Int /\ prev.time \in Int
      <4>1. clock \in 1..MaxClock /\ reading \in Readings /\ prev \in Readings
        BY <1>3 DEF SystemsOK, PluginOK
      <4> QED BY <4>1 DEF Readings
    <3> QED BY <3>1 DEF Interval
  <2>3. (reading.count - prev.count) * Interval \in Int
    BY <2>1, <2>2, ProductType
  <2> QED BY <2>3, SignType DEF Rate
<1>5. /\ previous' \in -1..1
      /\ kind = "diskio_host" => previous' >= 0
  <2>1. CASE ReportDisk
    <3>1. previous' = IF First THEN 0 ELSE IF Rate < 0 THEN previous ELSE Rate
      BY <2>1 DEF ReportDisk
    <3> HIDE DEF Rate, First
    <3> QED BY <1>3, <1>4, <3>1 DEF PluginOK, IInv, PreviousNotNegative
  <2>2. CASE ~ ReportDisk
    <3>1. previous' = previous
      BY <2>2 DEF Report, ReportInterface, ReportCpu, ReportCpuRaises, ReportMetric, DivisionRaises
    <3> QED BY <1>3, <3>1 DEF PluginOK, IInv, PreviousNotNegative
  <2> QED BY <2>1, <2>2
<1>6. \/ out' = out
      \/ /\ out'.for = asked /\ out'.from = prev.of /\ out'.to = reading.of
         /\ out'.rate \in -1..1
         /\ kind = "diskio_host" => out'.rate >= 0
  <2>1. CASE ReportInterface
    <3>1. PICK r \in {0, Rate} : Yield(r)
      BY <2>1 DEF ReportInterface
    <3> QED BY <1>4, <2>1, <3>1 DEF Yield, ReportInterface
  <2>2. CASE ReportCpu
    BY <1>4, <2>2 DEF ReportCpu, Yield
  <2>3. CASE ReportDisk
    <3>1. out' = [rate |-> previous', for |-> asked, from |-> prev.of, to |-> reading.of]
      BY <2>3 DEF ReportDisk, Yield
    <3> QED BY <1>5, <3>1
  <2>4. CASE ReportMetric
    <3>1. (reading.count - prev.count) * (reading.sys - prev.sys) \in Int
      <4>1. reading.count - prev.count \in Int /\ reading.sys - prev.sys \in Int
        BY <1>3 DEF PluginOK, Readings
      <4> QED BY <4>1, ProductType
    <3>2. Sign((reading.count - prev.count) * (reading.sys - prev.sys)) \in -1..1
      BY <3>1, SignType
    <3>3. PICK r \in -1..1 : Yield(r)
      BY <2>4, <3>2 DEF ReportMetric
    <3> QED BY <2>4, <3>3 DEF Yield, ReportMetric
  <2>5. CASE DivisionRaises \/ ReportCpuRaises
    BY <2>5 DEF DivisionRaises, ReportCpuRaises
  <2> QED BY <2>1, <2>2, <2>3, <2>4, <2>5 DEF Report
<1>7. TypeOK'
  <2>1. SystemsOK'
    BY <1>1, <1>3 DEF SystemsOK, system
  <2>2. out'.rate \in -1..1 /\ {out'.from, out'.to} \subseteq Sources
    BY <1>3, <1>6 DEF PluginOK, Readings
  <2>3. PluginOK'
    BY <1>1, <1>2, <1>3, <1>5, <2>2 DEF PluginOK, CacheOK
  <2> QED BY <2>1, <2>3, TypeParts
<1>8. Sampling' /\ OwnPids' /\ PreviousNotNegative'
  BY <1>1, <1>5 DEF Sampling, IInv, OwnPids, Runs, Holders, PreviousNotNegative, system
<1>9. Owned'
  <2>1. CacheOwn => CacheOwn'
    BY <1>1 DEF CacheOwn, Behind, Of, system
  <2>2. EnterOwn' /\ ReadOwn' /\ SameProcess'
    BY <1>1 DEF EnterOwn, ReadOwn, SameProcess
  <2> QED BY <1>1, <2>1, <2>2 DEF IInv, Owned
<1>10. OwnCounter' /\ NeverNegative'
  <2>1. kind = "interface_container" => asked \in mixed \/ prev.of \in {<<>>, reading.of}
    BY <1>1 DEF IInv, Owned, SameProcess
  <2> QED BY <1>1, <1>6, <2>1 DEF IInv, OwnCounter, NeverNegative, system
<1> QED BY <1>7, <1>8, <1>9, <1>10 DEF IInv

-----------------------------------------------------------------------------
(***************************************************************************)
(* The parts above are all there is.                                       *)
(***************************************************************************)
LEMMA Inductive == Spec => []IInv
<1>1. Init => IInv
  <2> SUFFICES ASSUME Init PROVE IInv
    OBVIOUS
  <2> USE RatesAssumption DEF Init
  <2>1. Nothing \in Readings /\ Nothing.of = <<>>
    BY DEF Nothing, Readings, Sources
  <2>2. NoRate.rate = 0 /\ NoRate.from = <<>> /\ NoRate.to = <<>> /\ <<>> \in Sources
    BY DEF NoRate, Sources
  <2>3. SystemsOK
    BY DEF SystemsOK
  <2>4. PluginOK
    BY <2>1, <2>2 DEF PluginOK, CacheOK
  <2>5. Sampling /\ PreviousNotNegative
    BY DEF Sampling, PreviousNotNegative
  <2>6. OwnPids
    BY DEF OwnPids, Holders
  <2>7. Owned
    BY DEF Owned, EnterOwn, ReadOwn, CacheOwn, SameProcess
  <2>8. OwnCounter /\ NeverNegative
    BY <2>2 DEF OwnCounter, NeverNegative
  <2> QED BY <2>3, <2>4, <2>5, <2>6, <2>7, <2>8, TypeParts DEF IInv
<1>2. IInv /\ [Next]_vars => IInv'
  <2> SUFFICES ASSUME IInv, [Next]_vars PROVE IInv'
    OBVIOUS
  <2>1. CASE UNCHANGED vars
    <3>1. SystemsOK /\ PluginOK
      BY TypeParts DEF IInv
    <3>2. SystemsOK'
      BY <2>1, <3>1 DEF vars, system, SystemsOK
    <3>3. PluginOK'
      BY <2>1, <3>1 DEF vars, plugin, PluginOK, CacheOK
    <3>4. OwnPids' /\ Owned'
      BY <2>1, PidsStay DEF vars, system
    <3> QED
      BY <2>1, <3>2, <3>3, <3>4, TypeParts
         DEF vars, system, plugin, IInv, Sampling, OwnCounter,
             PreviousNotNegative, NeverNegative
  <2> QED BY <2>1, WorldStep, ListStep, EnterStep, ReadStep, CacheStep, ReportStep
          DEF Next, Crawl
<1> QED BY <1>1, <1>2, PTL DEF Spec

(***************************************************************************)
(* Every value a plugin caches is a reading, and what it reports is        *)
(* computed from readings, in every crawl and whatever the systems and the *)
(* clock do in between.                                                    *)
(***************************************************************************)
THEOREM TypeCorrect == Spec => []TypeOK
<1>1. IInv => TypeOK
  BY DEF IInv
<1> QED BY <1>1, Inductive, PTL

(***************************************************************************)
(* interface_container: for any number of containers, PIDs and restarts a  *)
(* rate is computed from two readings in one network namespace, unless the *)
(* container has been given the PID twice or somebody else has between its *)
(* inspection and the entering, because the long id and the PID are both   *)
(* part of the cache key.                                                  *)
(***************************************************************************)
THEOREM OneNamespace == Spec => []OwnCounter
<1>1. IInv => OwnCounter
  BY DEF IInv
<1> QED BY <1>1, Inductive, PTL

(***************************************************************************)
(* diskio_host reports no negative rate, however its counters and the      *)
(* clock go: what it repeats instead was not negative either.              *)
(***************************************************************************)
THEOREM DiskNotNegative == Spec => []NeverNegative
<1>1. IInv => NeverNegative
  BY DEF IInv
<1> QED BY <1>1, Inductive, PTL
=============================================================================
