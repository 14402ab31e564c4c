---------------------------- MODULE EmissionProofs ----------------------------
(***************************************************************************)
(* Proofs about the emission of frames, for any emitters, command lines    *)
(* and crawler.conf, any number of retries, features and frames.           *)
(***************************************************************************)
EXTENDS Emission, TLAPS

\* Every emitter of the list has been given a URL.
Targeted == \A e \in DOMAIN emitters : target[emitters[e]] \in Urls

\* A plugin object has the URL of its last place in the list.
ListedLast ==
  /\ Len(listed) = Len(emitters)
  /\ \A e \in DOMAIN emitters : Overridden(e) \/ target[emitters[e]] = listed[e]

\* What an emitter is done with has reached the URL of its plugin object, but for
\* what Delivers excepts.
Excepted(e, f, i) ==
  \/ emitters[e] \in Lossy /\ worst >= MaxRetries
  \/ emitters[e] \in {"sas", "cos"} /\ setting.skips
  \/ emitters[e] = "fluentd" /\ <<e, f, i>> \in unread

Carried ==
  \A e \in DOMAIN emitters, f \in 1..frame : \A i \in 1..Items(emitters[e]) :
    Passed(e, f, i) => <<f, i>> \in ToSet(log[target[emitters[e]]]) \/ Excepted(e, f, i)

\* Where the manager is: nothing has been sent while emitters are loaded; between
\* emitters the next item is the first one; between frames all have been called.
Placed ==
  /\ pc = "load" => frame = 0 /\ at = 0 /\ \A u \in Urls : log[u] = <<>>
  /\ pc \in {"load", "idle", "emit"} => item = 1
  /\ pc = "idle" => frame = 0 \/ at = Len(emitters) + 1
  /\ pc \in {"emit", "send"} => frame > 0 /\ at > 0
  /\ pc = "send" => at <= Len(emitters) /\ item <= Items(Emitter)

\* What is in the log of an emitter's URL: what it is done with, and the item it
\* is sending if an attempt has failed.
Reached(e, x) == Passed(e, x[1], x[2]) \/ (e = at /\ x = <<frame, item>> /\ worst > 0)

OnlyReached ==
  /\ \A u \in Urls : (\A e \in DOMAIN emitters : target[emitters[e]] # u) => log[u] = <<>>
  /\ OneEach => \A e \in DOMAIN emitters : \A x \in ToSet(log[target[emitters[e]]]) : Reached(e, x)

IInv == TypeOK /\ Targeted /\ ListedLast /\ Placed /\ Carried /\ OnlyReached /\ InOrder

-----------------------------------------------------------------------------
(* Facts about the constants and the current setting. *)

\* What a log holds: the number of a frame and that of an item.
Sendings == (1..MaxFrame) \X (1..(Features + 1))

\* A plugin sends a frame in at least one item and in one more than there are
\* features at most.
LEMMA ItemsTyped ==
  ASSUME NEW p
  PROVE  Items(p) \in 1..(Features + 1)
BY EmissionAssumption DEF Items

\* An item is sent at least once; a plugin that loses it has used its retries up.
LEMMA AttemptsTyped ==
  ASSUME NEW p
  PROVE  /\ Attempts(p) \in 1..(MaxRetries + 1)
         /\ p \in Lossy => Attempts(p) = MaxRetries
<1>1. p \in Lossy => p \notin Raising
  BY DEF Lossy, Raising
<1> QED
  BY <1>1, EmissionAssumption DEF Attempts

\* Every plugin that is chosen is given a URL of the setting.
LEMMA UrlTyped ==
  ASSUME TypeOK, Loading
  PROVE  /\ Plugin \in ToSet(Plugins)
         /\ ServesUrl => Url \in Urls
         /\ InConf => setting.conf[Plugin].url \in Urls
<1>1. Plugins \in Seq(STRING) /\ n \in 0..Len(Plugins) /\ n < Len(Plugins)
  BY EmissionAssumption DEF TypeOK, Loading
<1>2. n + 1 \in DOMAIN Plugins
  BY <1>1
<1>3. Plugin \in ToSet(Plugins)
  BY <1>2 DEF Plugin, ToSet
<1>4. setting \in Settings /\ setting.urls \in Seq([proto : STRING, id : Nat])
  BY EmissionAssumption DEF TypeOK
<1>5. ASSUME ServesUrl
      PROVE  Url \in Urls
  <2>1. seen + 1 \in DOMAIN setting.urls
    BY <1>4, <1>5 DEF TypeOK, ServesUrl, AtUrl
  <2>2. Url \in ToSet(setting.urls)
    BY <2>1 DEF Url, ToSet
  <2> QED
    BY <1>4, <2>2 DEF Urls
<1>6. ASSUME InConf
      PROVE  setting.conf[Plugin].url \in Urls
  BY <1>4, <1>6 DEF InConf, Urls
<1> QED
  BY <1>3, <1>5, <1>6

-----------------------------------------------------------------------------
(* Loading the emitters. *)

\* Nothing is loaded and nothing has been sent yet.
LEMMA InitiallyInv ==
  ASSUME Init
  PROVE  IInv
<1>1. emitters = <<>> /\ DOMAIN emitters = {}
  BY DEF Init
<1>2. setting.urls \in Seq([proto : STRING, id : Nat]) /\ Plugins \in Seq(STRING)
  BY EmissionAssumption DEF Init
<1>3. TypeOK
  BY <1>2, EmissionAssumption DEF Init, TypeOK
<1>4. Targeted /\ ListedLast /\ Placed
  BY <1>1 DEF Init, Targeted, ListedLast, Placed
<1>5. Carried
  BY <1>1 DEF Carried
<1>6. OnlyReached
  BY <1>1 DEF Init, OnlyReached
<1>7. InOrder
  BY DEF Init, InOrder
<1> QED
  BY <1>3, <1>4, <1>5, <1>6, <1>7 DEF IInv

\* A plugin object is given a URL and is listed.
LEMMA InitPluginKeeps ==
  ASSUME TypeOK, Targeted, ListedLast, NEW url \in Urls, Loading, InitPlugin(url)
  PROVE  /\ target' \in [ToSet(Plugins) -> Urls \cup {NoUrl}]
         /\ emitters' \in Seq(ToSet(Plugins)) /\ listed' \in Seq(Urls)
         /\ Len(emitters') = Len(emitters) + 1
         /\ Targeted' /\ ListedLast'
<1>1. Plugin \in ToSet(Plugins)
  BY UrlTyped
<1>2. target \in [ToSet(Plugins) -> Urls \cup {NoUrl}] /\ emitters \in Seq(ToSet(Plugins))
      /\ listed \in Seq(Urls) /\ Len(listed) = Len(emitters)
  BY DEF TypeOK, ListedLast
<1>3. target' = [target EXCEPT ![Plugin] = url] /\ emitters' = Append(emitters, Plugin)
      /\ listed' = Append(listed, url)
  BY DEF InitPlugin
<1>4. target' \in [ToSet(Plugins) -> Urls \cup {NoUrl}]
  BY <1>1, <1>2, <1>3
<1>5. emitters' \in Seq(ToSet(Plugins)) /\ Len(emitters') = Len(emitters) + 1
  BY <1>1, <1>2, <1>3
<1>6. ASSUME NEW e \in DOMAIN emitters'
      PROVE  target'[emitters'[e]] \in Urls
  <2>1. CASE e \in DOMAIN emitters
    <3>1. emitters'[e] = emitters[e] /\ emitters[e] \in ToSet(Plugins)
      BY <1>2, <1>3, <2>1
    <3>2. target[emitters[e]] \in Urls
      BY <2>1 DEF Targeted
    <3> QED
      BY <1>2, <1>3, <3>1, <3>2
  <2>2. CASE e \notin DOMAIN emitters
    <3>1. e = Len(emitters) + 1
      BY <1>2, <1>3, <1>6, <2>2
    <3>2. emitters'[e] = Plugin
      BY <1>2, <1>3, <3>1
    <3> QED
      BY <1>1, <1>2, <1>3, <3>2
  <2> QED
    BY <2>1, <2>2
<1>7. listed' \in Seq(Urls) /\ Len(listed') = Len(emitters')
  BY <1>2, <1>3
<1>8. ASSUME NEW e \in DOMAIN emitters'
      PROVE  \/ \E d \in DOMAIN emitters' : d > e /\ emitters'[d] = emitters'[e]
             \/ target'[emitters'[e]] = listed'[e]
  <2> DEFINE last == Len(emitters) + 1
  <2>1. last \in DOMAIN emitters' /\ emitters'[last] = Plugin /\ listed'[last] = url
        /\ target'[Plugin] = url
    BY <1>1, <1>2, <1>3
  <2>2. CASE e = last
    BY <2>1, <2>2
  <2>3. CASE e # last
    <3>1. /\ e \in DOMAIN emitters /\ e < last
          /\ emitters'[e] = emitters[e] /\ emitters[e] \in ToSet(Plugins)
          /\ listed'[e] = listed[e]
      BY <1>2, <1>3, <1>8, <2>3
    <3>2. CASE emitters[e] = Plugin
      BY <2>1, <3>1, <3>2
    <3>3. CASE emitters[e] # Plugin /\ target[emitters[e]] = listed[e]
      BY <1>2, <1>3, <3>1, <3>3
    <3>4. CASE Overridden(e)
      <4>1. PICK d \in DOMAIN emitters : d > e /\ emitters[d] = emitters[e]
        BY <3>4 DEF Overridden
      <4>2. d \in DOMAIN emitters' /\ emitters'[d] = emitters[d]
        BY <1>2, <1>3, <4>1
      <4> QED
        BY <3>1, <4>1, <4>2
    <3> QED
      BY <3>1, <3>2, <3>3, <3>4 DEF ListedLast
  <2> QED
    BY <2>2, <2>3
<1> QED
  BY <1>4, <1>5, <1>6, <1>7, <1>8 DEF Targeted, ListedLast, Overridden

\* While the plugins are loaded nothing is sent, and each of the list is given a URL.
LEMMA LoadKeeps ==
  ASSUME IInv, Load
  PROVE  IInv'
<1>1. pc = "load" /\ frame = 0 /\ at = 0 /\ item = 1 /\ \A u \in Urls : log[u] = <<>>
  BY DEF Load, SkipUrl, LoadUrl, LoadConf, NextPlugin, UnsupportedFormat, KafkaInitRaises,
     FluentdInitRaises, ConnectRaises, Loaded, Chosen, ServesUrl, InConf, AtUrl, AtConf, Loading,
     IInv, Placed
<1>2. UNCHANGED <<setting, frame, at, item, tries, log, worst, unread>>
  BY DEF Load, SkipUrl, LoadUrl, LoadConf, NextPlugin, UnsupportedFormat, KafkaInitRaises,
     FluentdInitRaises, ConnectRaises, Loaded, loading, Emitting
<1>3. setting.urls \in Seq([proto : STRING, id : Nat]) /\ Plugins \in Seq(STRING)
  BY EmissionAssumption DEF IInv, TypeOK
<1>4. n' \in 0..Len(Plugins) /\ seen' \in 0..Len(setting.urls)
  <2>1. n \in 0..Len(Plugins) /\ seen \in 0..Len(setting.urls)
    BY DEF IInv, TypeOK
  <2>2. Len(Plugins) \in Nat /\ Len(setting.urls) \in Nat
    BY <1>3
  <2>3. CASE SkipUrl \/ LoadUrl
    <3>1. seen < Len(setting.urls) /\ seen' = seen + 1 /\ n' = n
      BY <2>3 DEF SkipUrl, LoadUrl, ServesUrl, AtUrl
    <3> QED
      BY <2>1, <2>2, <3>1
  <2>4. CASE LoadConf \/ NextPlugin
    <3>1. n < Len(Plugins) /\ n' = n + 1 /\ seen' = 0
      BY <2>4 DEF LoadConf, NextPlugin, InConf, AtConf, Loading
    <3> QED
      BY <2>1, <2>2, <3>1
  <2>5. CASE UNCHANGED loading
    BY <2>1, <2>5 DEF loading
  <2> QED
    BY <2>3, <2>4, <2>5 DEF Load, UnsupportedFormat, KafkaInitRaises, FluentdInitRaises,
       ConnectRaises, Loaded
<1>5. pc' \in {"load", "idle", "dead"}
  BY <1>1 DEF Load, SkipUrl, LoadUrl, LoadConf, NextPlugin, UnsupportedFormat, KafkaInitRaises,
     FluentdInitRaises, ConnectRaises, Loaded
<1>6. /\ target' \in [ToSet(Plugins) -> Urls \cup {NoUrl}]
      /\ emitters' \in Seq(ToSet(Plugins)) /\ Len(emitters') \in Nat
      /\ listed' \in Seq(Urls) /\ Len(emitters) \in Nat /\ Len(emitters') >= Len(emitters)
      /\ Targeted' /\ ListedLast'
  <2>1. CASE LoadUrl
    <3>1. Loading /\ Url \in Urls /\ InitPlugin(Url)
      BY <2>1, UrlTyped DEF LoadUrl, ServesUrl, AtUrl, IInv
    <3> QED
      BY <3>1, InitPluginKeeps DEF IInv
  <2>2. CASE LoadConf
    <3>1. Loading /\ setting.conf[Plugin].url \in Urls /\ InitPlugin(setting.conf[Plugin].url)
      BY <2>2, UrlTyped DEF LoadConf, InConf, AtConf, IInv
    <3> QED
      BY <3>1, InitPluginKeeps DEF IInv
  <2>3. CASE UNCHANGED <<target, emitters, listed>>
    BY <2>3 DEF IInv, TypeOK, Targeted, ListedLast, Overridden
  <2> QED
    BY <2>1, <2>2, <2>3 DEF Load, SkipUrl, NextPlugin, UnsupportedFormat, KafkaInitRaises,
       FluentdInitRaises, ConnectRaises, Loaded, loading
<1>7. TypeOK'
  <2>1. unread' \subseteq (DOMAIN emitters') \X (1..MaxFrame) \X (1..(Features + 1))
    <3>1. DOMAIN emitters \subseteq DOMAIN emitters'
      BY <1>6 DEF IInv, TypeOK
    <3> QED
      BY <1>2, <3>1 DEF IInv, TypeOK
  <2>2. setting' \in Settings /\ n' \in 0..Len(Plugins) /\ seen' \in 0..Len(setting'.urls)
    BY <1>2, <1>4 DEF IInv, TypeOK
  <2>3. /\ frame' \in 0..MaxFrame /\ at' \in 0..(Len(emitters') + 1)
        /\ item' \in 1..(Features + 1) /\ tries' \in 0..MaxRetries /\ worst' \in 0..(MaxRetries + 1)
    BY <1>1, <1>2, <1>6, EmissionAssumption DEF IInv, TypeOK
  <2>4. log' \in [Urls -> Seq((1..MaxFrame) \X (1..(Features + 1)))]
    BY <1>2 DEF IInv, TypeOK
  <2>5. pc' \in {"load", "idle", "emit", "send", "dead"}
    BY <1>5
  <2> QED
    BY <1>6, <2>1, <2>2, <2>3, <2>4, <2>5 DEF TypeOK
<1>8. Placed'
  BY <1>1, <1>2, <1>5 DEF Placed
<1>9. Carried' /\ OnlyReached' /\ InOrder'
  <2>1. frame' = 0 /\ \A u \in Urls : log'[u] = <<>>
    BY <1>1, <1>2
  <2>2. Carried'
    BY <2>1 DEF Carried
  <2>3. OnlyReached'
    <3>1. ToSet(<<>>) = {}
      BY DEF ToSet
    <3> QED
      BY <1>6, <2>1, <3>1 DEF OnlyReached, Targeted
  <2>4. InOrder'
    BY <2>1 DEF InOrder
  <2> QED
    BY <2>2, <2>3, <2>4
<1> QED
  BY <1>6, <1>7, <1>8, <1>9 DEF IInv

-----------------------------------------------------------------------------
(* Calling the emitters: the logs stay as they are. *)

\* The step is done with nothing more, but for an emitter that leaves frames out.
NothingPassed ==
  \A e \in DOMAIN emitters, f \in 1..frame' : \A i \in 1..Items(emitters[e]) :
    Passed(e, f, i)' => \/ f <= frame /\ Passed(e, f, i)
                        \/ emitters[e] \in {"sas", "cos"} /\ setting.skips

StillReached == \A e \in DOMAIN emitters, x \in Sendings : Reached(e, x) => Reached(e, x)'

\* A step between two items: what was done stays done, and only an emitter that
\* leaves frames out is done with more.
LEMMA QuietKeeps ==
  ASSUME IInv, UNCHANGED <<loading, log, worst, unread>>, frame' \in Nat, NothingPassed, StillReached
  PROVE  Targeted' /\ ListedLast' /\ Carried' /\ OnlyReached' /\ InOrder'
<1>1. UNCHANGED <<setting, target, emitters, listed>> /\ frame \in Nat
  BY DEF loading, IInv, TypeOK
<1>2. \A p : Items(p)' = Items(p)
  BY <1>1 DEF Items, PerLine, FormatOf, found_plugin
<1>3. Targeted' /\ ListedLast'
  BY <1>1 DEF IInv, Targeted, ListedLast, Overridden
<1>4. Carried'
  <2> SUFFICES ASSUME NEW e \in DOMAIN emitters, NEW f \in 1..frame',
                      NEW i \in 1..Items(emitters[e]), Passed(e, f, i)'
               PROVE  <<f, i>> \in ToSet(log[target[emitters[e]]]) \/ Excepted(e, f, i)
    BY <1>1, <1>2 DEF Carried, Excepted
  <2>1. CASE f <= frame /\ Passed(e, f, i)
    BY <1>1, <2>1 DEF IInv, Carried
  <2> QED
    BY <2>1 DEF NothingPassed, Excepted
<1>5. OnlyReached'
  <2>1. ASSUME OneEach, NEW e \in DOMAIN emitters, NEW x \in ToSet(log[target[emitters[e]]])
        PROVE  Reached(e, x)'
    <3>1. Reached(e, x)
      BY <2>1 DEF IInv, OnlyReached
    <3>2. log[target[emitters[e]]] \in Seq(Sendings)
      BY DEF IInv, Targeted, TypeOK, Sendings
    <3>3. x \in Sendings
      BY <2>1, <3>2 DEF ToSet
    <3> QED
      BY <3>1, <3>3 DEF StillReached
  <2>2. OneEach' <=> OneEach
    BY <1>1 DEF OneEach
  <2> QED
    BY <1>1, <2>1, <2>2 DEF IInv, OnlyReached
<1>6. InOrder'
  BY <1>1 DEF IInv, InOrder, OneEach
<1> QED
  BY <1>3, <1>4, <1>5, <1>6

\* EmitFrame: the emitters are called for the next frame when all of them are done
\* with the one before.
LEMMA EmitFrameKeeps ==
  ASSUME IInv, EmitFrame
  PROVE  IInv'
<1>1. /\ pc = "idle" /\ frame \in 0..MaxFrame /\ frame < MaxFrame /\ MaxFrame \in Nat
      /\ frame' = frame + 1 /\ at' = 1 /\ pc' = "emit" /\ item = 1
      /\ frame = 0 \/ at = Len(emitters) + 1
      /\ UNCHANGED <<loading, item, tries, log, worst, unread>>
  BY EmissionAssumption DEF EmitFrame, IInv, TypeOK, Placed
<1>2. UNCHANGED <<setting, target, emitters, listed, n, seen>> /\ emitters \in Seq(ToSet(Plugins))
  BY <1>1 DEF loading, IInv, TypeOK
<1>3. TypeOK'
  BY <1>1, <1>2 DEF IInv, TypeOK
<1>4. Placed'
  BY <1>1, <1>2 DEF Placed
<1>5. ASSUME NEW e \in DOMAIN emitters, NEW f \in 1..frame', NEW i \in 1..Items(emitters[e]),
             Passed(e, f, i)'
      PROVE  \/ f <= frame /\ Passed(e, f, i)
             \/ emitters[e] \in {"sas", "cos"} /\ setting.skips
  <2>1. e \in 1..Len(emitters) /\ i >= 1
    BY <1>2, ItemsTyped
  <2> QED
    BY <1>1, <1>5, <2>1 DEF Passed
<1>6. ASSUME NEW e \in DOMAIN emitters, NEW x \in Sendings, Reached(e, x)
      PROVE  Reached(e, x)'
  <2>1. x[1] \in 1..MaxFrame /\ x[2] \in 1..(Features + 1) /\ x[1] <= frame
    BY <1>1, <1>6 DEF Sendings, Reached, Passed
  <2> QED
    BY <1>1, <2>1 DEF Reached, Passed
<1>7. frame' \in Nat /\ UNCHANGED <<loading, log, worst, unread>>
  BY <1>1
<1>8. Targeted' /\ ListedLast' /\ Carried' /\ OnlyReached' /\ InOrder'
  <2>1. NothingPassed
    BY <1>5 DEF NothingPassed
  <2>2. StillReached
    BY <1>6 DEF StillReached
  <2> QED
    BY <1>7, <2>1, <2>2, QuietKeeps
<1> QED
  BY <1>3, <1>4, <1>8 DEF IInv

\* A step that only moves pc.
LEMMA MoveKeeps ==
  ASSUME IInv, UNCHANGED <<loading, Emitting>>, pc # "load", pc' \in {"idle", "emit", "send", "dead"},
         pc' = "idle" => item = 1 /\ at = Len(emitters) + 1,
         pc' = "emit" => item = 1 /\ frame > 0 /\ at > 0,
         pc' = "send" => frame > 0 /\ at > 0 /\ at <= Len(emitters) /\ item <= Items(Emitter)
  PROVE  IInv'
<1>1. UNCHANGED <<setting, target, emitters, listed, n, seen, frame, at, item, tries, log, worst, unread>>
  BY DEF loading, Emitting
<1>2. TypeOK'
  BY <1>1 DEF IInv, TypeOK
<1>3. Items(Emitter)' = Items(Emitter)
  BY <1>1 DEF Items, PerLine, FormatOf, found_plugin, Emitter
<1>4. Placed'
  BY <1>1, <1>3 DEF Placed
<1>5. ASSUME NEW e \in DOMAIN emitters, NEW f \in 1..frame', NEW i \in 1..Items(emitters[e]),
             Passed(e, f, i)'
      PROVE  \/ f <= frame /\ Passed(e, f, i)
             \/ emitters[e] \in {"sas", "cos"} /\ setting.skips
  BY <1>1, <1>5, EmissionAssumption DEF IInv, TypeOK, Passed
<1>6. ASSUME NEW e \in DOMAIN emitters, NEW x \in Sendings, Reached(e, x)
      PROVE  Reached(e, x)'
  BY <1>1, <1>6 DEF Reached, Passed
<1>7. frame' \in Nat /\ UNCHANGED <<loading, log, worst, unread>>
  BY <1>1, EmissionAssumption DEF IInv, TypeOK
<1>8. Targeted' /\ ListedLast' /\ Carried' /\ OnlyReached' /\ InOrder'
  <2>1. NothingPassed
    BY <1>5 DEF NothingPassed
  <2>2. StillReached
    BY <1>6 DEF StillReached
  <2> QED
    BY <1>7, <2>1, <2>2, QuietKeeps
<1> QED
  BY <1>2, <1>4, <1>8 DEF IInv

\* An emitter that leaves the frame out is done with it.
LEMMA SkipKeeps ==
  ASSUME IInv, Calling, Skip, Emitter \in {"sas", "cos"}, setting.skips
  PROVE  IInv'
<1>1. /\ pc = "emit" /\ pc' = pc /\ item = 1 /\ item' = item /\ at' = at + 1 /\ frame' = frame
      /\ at <= Len(emitters) /\ at \in Nat /\ at > 0 /\ frame \in Nat /\ frame > 0
      /\ UNCHANGED <<loading, tries, log, worst, unread>>
  BY EmissionAssumption DEF Calling, Skip, IInv, TypeOK, Placed
<1>2. UNCHANGED <<setting, target, emitters, listed, n, seen>> /\ emitters \in Seq(ToSet(Plugins))
  BY <1>1 DEF loading, IInv, TypeOK
<1>3. TypeOK'
  <2>1. at' \in 0..(Len(emitters) + 1)
    BY <1>1, <1>2
  <2> QED
    BY <1>1, <1>2, <2>1 DEF IInv, TypeOK
<1>4. Placed'
  BY <1>1, <1>2 DEF Placed
<1>5. ASSUME NEW e \in DOMAIN emitters, NEW f \in 1..frame', NEW i \in 1..Items(emitters[e]),
             Passed(e, f, i)'
      PROVE  \/ f <= frame /\ Passed(e, f, i)
             \/ emitters[e] \in {"sas", "cos"} /\ setting.skips
  <2>1. e \in 1..Len(emitters) /\ i >= 1
    BY <1>2, ItemsTyped
  <2>2. CASE e = at
    BY <2>2 DEF Emitter
  <2>3. CASE e # at
    BY <1>1, <1>5, <2>1, <2>3 DEF Passed
  <2> QED
    BY <2>2, <2>3
<1>6. ASSUME NEW e \in DOMAIN emitters, NEW x \in Sendings, Reached(e, x)
      PROVE  Reached(e, x)'
  <2>1. x[1] \in 1..MaxFrame /\ x[2] \in 1..(Features + 1) /\ e \in 1..Len(emitters)
    BY <1>2 DEF Sendings
  <2> QED
    BY <1>1, <1>6, <2>1 DEF Reached, Passed
<1>7. frame' \in Nat /\ UNCHANGED <<loading, log, worst, unread>>
  BY <1>1
<1>8. Targeted' /\ ListedLast' /\ Carried' /\ OnlyReached' /\ InOrder'
  <2>1. NothingPassed
    BY <1>5 DEF NothingPassed
  <2>2. StillReached
    BY <1>6 DEF StillReached
  <2> QED
    BY <1>7, <2>1, <2>2, QuietKeeps
<1> QED
  BY <1>3, <1>4, <1>8 DEF IInv

\* The first part of every emitter's emit().
LEMMA EmitOneKeeps ==
  ASSUME IInv, EmitOne
  PROVE  IInv'
<1>1. \/ Calling /\ (EmitRaises \/ Start)
      \/ Calling /\ Skip /\ Emitter \in {"sas", "cos"} /\ setting.skips
  BY DEF EmitOne, HttpEmits, KafkaEmits, FluentdEmits, StartPlain, FileEmits, StdoutEmits, SasEmits,
     CosEmits
<1>2. CASE Calling /\ (EmitRaises \/ Start)
  <2>1. pc = "emit" /\ at <= Len(emitters) /\ item = 1 /\ frame > 0 /\ at > 0
    BY <1>2 DEF Calling, IInv, Placed
  <2>2. 1 <= Items(Emitter)
    BY ItemsTyped
  <2>3. UNCHANGED <<loading, Emitting>> /\ pc' \in {"dead", "send"}
    BY <1>2 DEF EmitRaises, Start
  <2> QED
    BY <2>1, <2>2, <2>3, MoveKeeps
<1> QED
  BY <1>1, <1>2, SkipKeeps

\* A frame is done when every plugin of the list has had its turn.
LEMMA EmitDoneKeeps ==
  ASSUME IInv, EmitDone
  PROVE  IInv'
<1>1. pc = "emit" /\ item = 1 /\ at > Len(emitters) /\ at \in 0..(Len(emitters) + 1)
  BY DEF EmitDone, IInv, TypeOK, Placed
<1>2. Len(emitters) \in Nat
  BY DEF IInv, TypeOK
<1>3. at = Len(emitters) + 1
  BY <1>1, <1>2
<1> QED
  BY <1>1, <1>3, MoveKeeps DEF EmitDone

-----------------------------------------------------------------------------
(* Sending an item: the log of one URL may grow by it. *)

\* While an item is sent, its plugin is one of the list and has a target.
LEMMA SendingTyped ==
  ASSUME IInv, pc = "send"
  PROVE  /\ emitters \in Seq(ToSet(Plugins)) /\ DOMAIN emitters = 1..Len(emitters)
         /\ at \in 1..Len(emitters) /\ at \in DOMAIN emitters
         /\ frame \in 1..MaxFrame /\ item \in 1..(Features + 1) /\ item <= Items(Emitter)
         /\ target[Emitter] \in Urls
         /\ \A u \in Urls : log[u] \in Seq(Sendings)
         /\ worst \in Nat /\ MaxFrame \in Nat /\ Features \in Nat
<1>1. emitters \in Seq(ToSet(Plugins)) /\ at \in 0..(Len(emitters) + 1) /\ at > 0 /\ at <= Len(emitters)
  BY DEF IInv, TypeOK, Placed
<1>2. at \in 1..Len(emitters) /\ at \in DOMAIN emitters
  BY <1>1
<1>3. target[Emitter] \in Urls
  BY <1>2 DEF IInv, Targeted, Emitter
<1>4. frame \in 0..MaxFrame /\ frame > 0 /\ item \in 1..(Features + 1) /\ item <= Items(Emitter)
  BY DEF IInv, TypeOK, Placed
<1>5. \A u \in Urls : log[u] \in Seq(Sendings)
  BY DEF IInv, TypeOK, Sendings
<1> QED
  BY <1>1, <1>2, <1>3, <1>4, <1>5, EmissionAssumption DEF IInv, TypeOK

\* What arrives is told by the number of its frame and of its item.
LEMMA SendingsAreNumbers ==
  ASSUME NEW x \in Sendings
  PROVE  x[1] \in Nat /\ x[2] \in Nat
<1>1. x[1] \in 1..MaxFrame /\ x[2] \in 1..(Features + 1)
  BY DEF Sendings
<1> QED
  BY <1>1, EmissionAssumption

\* Appending to a sequence adds one element to its set.
LEMMA AppendedSet ==
  ASSUME NEW s \in Seq(Sendings), NEW x \in Sendings
  PROVE  ToSet(Append(s, x)) = ToSet(s) \cup {x}
<1> DEFINE t == Append(s, x)
<1>1. DOMAIN t = 1..(Len(s) + 1) /\ DOMAIN s = 1..Len(s) /\ Len(s) \in Nat
  OBVIOUS
<1>2. t[Len(s) + 1] = x /\ \A i \in 1..Len(s) : t[i] = s[i]
  OBVIOUS
<1> HIDE DEF t
<1>3. ToSet(t) \subseteq ToSet(s) \cup {x}
  <2> SUFFICES ASSUME NEW i \in DOMAIN t
               PROVE  t[i] \in ToSet(s) \cup {x}
    BY DEF ToSet
  <2>1. i \in 1..Len(s) \/ i = Len(s) + 1
    BY <1>1
  <2> QED
    BY <1>1, <1>2, <2>1 DEF ToSet
<1>4. ToSet(s) \subseteq ToSet(t)
  <2> SUFFICES ASSUME NEW i \in DOMAIN s
               PROVE  s[i] \in ToSet(t)
    BY DEF ToSet
  <2>1. i \in DOMAIN t /\ t[i] = s[i]
    BY <1>1, <1>2
  <2> QED
    BY <2>1 DEF ToSet
<1>5. x \in ToSet(t)
  <2>1. Len(s) + 1 \in DOMAIN t
    BY <1>1
  <2> QED
    BY <1>2, <2>1 DEF ToSet
<1> QED
  BY <1>3, <1>4, <1>5 DEF t

\* Whatever becomes of an item, it can only be added to the log of its target.
LEMMA Arrival ==
  ASSUME IInv, pc = "send", MayArrive
  PROVE  /\ log' \in [Urls -> Seq((1..MaxFrame) \X (1..(Features + 1)))]
         /\ \A u \in Urls : ToSet(log[u]) \subseteq ToSet(log'[u])
         /\ \A u \in Urls : u # target[Emitter] => log'[u] = log[u]
         /\ ToSet(log'[target[Emitter]]) \subseteq ToSet(log[target[Emitter]]) \cup {<<frame, item>>}
         /\ Arrives => <<frame, item>> \in ToSet(log'[target[Emitter]])
<1>1. PICK U \in Urls : U = target[Emitter] /\ log[U] \in Seq(Sendings)
  BY SendingTyped
<1>2. PICK x \in Sendings : x = <<frame, item>>
  BY SendingTyped DEF Sendings
<1>3. log \in [Urls -> Seq(Sendings)]
  BY DEF IInv, TypeOK, Sendings
<1>4. CASE Arrives
  <2>1. log' = [log EXCEPT ![U] = Append(log[U], x)]
    BY <1>1, <1>2, <1>4 DEF Arrives
  <2>2. log'[U] = Append(log[U], x) /\ Append(log[U], x) \in Seq(Sendings)
    BY <1>1, <1>2, <1>3, <2>1
  <2>3. log' \in [Urls -> Seq(Sendings)]
    BY <1>3, <2>1, <2>2
  <2>4. ToSet(Append(log[U], x)) = ToSet(log[U]) \cup {x}
    BY <1>1, <1>2, AppendedSet
  <2>5. \A u \in Urls : u # U => log'[u] = log[u]
    BY <1>3, <2>1
  <2> QED
    BY <1>1, <1>2, <2>2, <2>3, <2>4, <2>5 DEF Sendings
<1>5. CASE ~Arrives
  <2>1. log' = log
    BY <1>5 DEF MayArrive
  <2> QED
    BY <1>3, <1>5, <2>1 DEF Sendings
<1> QED
  BY <1>4, <1>5

\* What arrives is the item after those that have, or one of which an attempt has
\* failed.
LEMMA ArrivalInOrder ==
  ASSUME IInv, pc = "send", MayArrive, UNCHANGED loading, worst' \in Nat, worst' >= worst
  PROVE  InOrder'
<1>1. UNCHANGED <<target, emitters>>
  BY DEF loading
<1> SUFFICES ASSUME OneEach, NEW u \in Urls,
                    NEW i \in DOMAIN log'[u], NEW j \in DOMAIN log'[u], i < j
             PROVE  \/ log'[u][i][1] < log'[u][j][1]
                    \/ log'[u][i][1] = log'[u][j][1] /\ log'[u][i][2] < log'[u][j][2]
                    \/ log'[u][i] = log'[u][j] /\ worst' > 0
  BY <1>1 DEF InOrder, OneEach
<1>2. worst \in Nat
  BY SendingTyped
<1>3. CASE j \in DOMAIN log[u] /\ i \in DOMAIN log[u] /\ log'[u][i] = log[u][i] /\ log'[u][j] = log[u][j]
  <2>1. \/ log[u][i][1] < log[u][j][1]
        \/ log[u][i][1] = log[u][j][1] /\ log[u][i][2] < log[u][j][2]
        \/ log[u][i] = log[u][j] /\ worst > 0
    BY <1>3 DEF IInv, InOrder
  <2> QED
    BY <1>2, <1>3, <2>1
<1>4. CASE log'[u] = log[u]
  BY <1>3, <1>4
<1>5. CASE Arrives /\ u = target[Emitter]
  <2>1. log[u] \in Seq(Sendings) /\ log \in [Urls -> Seq(Sendings)]
    BY DEF IInv, TypeOK, Sendings
  <2>2. log'[u] = Append(log[u], <<frame, item>>)
    BY <1>5, <2>1 DEF Arrives
  <2>3. CASE j \in DOMAIN log[u]
    <3>1. i \in DOMAIN log[u]
      BY <2>1, <2>2, <2>3
    <3>2. log'[u][i] = log[u][i] /\ log'[u][j] = log[u][j]
      BY <2>1, <2>2, <2>3, <3>1
    <3> QED
      BY <1>3, <2>3, <3>1, <3>2
  <2>4. CASE j \notin DOMAIN log[u]
    <3>1. j = Len(log[u]) + 1
      BY <2>1, <2>2, <2>4
    <3>2. i \in DOMAIN log[u]
      BY <2>1, <2>2, <3>1
    <3>3. log'[u][i] = log[u][i] /\ log'[u][j] = <<frame, item>>
      BY <2>1, <2>2, <3>1, <3>2
    <3>4. log[u][i] \in ToSet(log[u]) /\ log[u][i] \in Sendings
      BY <2>1, <3>2 DEF ToSet
    <3>5. Reached(at, log[u][i])
      BY <1>5, <3>4, SendingTyped DEF IInv, OnlyReached, Emitter
    <3>6. at \in Nat /\ frame \in Nat /\ item \in Nat
      BY SendingTyped
    <3>7. log[u][i][1] \in Nat /\ log[u][i][2] \in Nat
      BY <3>4, SendingsAreNumbers
    <3> QED
      BY <1>2, <3>3, <3>5, <3>6, <3>7 DEF Reached, Passed
  <2> QED
    BY <2>3, <2>4
<1>6. CASE ~(Arrives /\ u = target[Emitter])
  BY <1>4, <1>6, Arrival DEF MayArrive
<1> QED
  BY <1>5, <1>6

\* A step after which the same item is still the one being sent.
LEMMA StayKeeps ==
  ASSUME IInv, pc = "send", MayArrive, UNCHANGED <<loading, frame, at, item, unread>>,
         worst' \in 1..(MaxRetries + 1), worst' >= worst, tries' \in 0..MaxRetries,
         pc' \in {"send", "dead"}
  PROVE  IInv'
<1>1. UNCHANGED <<setting, target, emitters, listed, n, seen>>
  BY DEF loading
<1>2. worst \in Nat /\ worst' \in Nat
  BY SendingTyped, EmissionAssumption
<1>3. TypeOK'
  <2>1. log' \in [Urls -> Seq((1..MaxFrame) \X (1..(Features + 1)))]
    BY Arrival
  <2>2. worst' \in 0..(MaxRetries + 1) /\ pc' \in {"load", "idle", "emit", "send", "dead"}
    BY <1>2
  <2> QED
    BY <1>1, <2>1, <2>2 DEF IInv, TypeOK
<1>4. \A p : Items(p)' = Items(p)
  BY <1>1 DEF Items, PerLine, FormatOf, found_plugin
<1>5. Emitter' = Emitter
  BY <1>1 DEF Emitter
<1>6. Targeted' /\ ListedLast' /\ Placed'
  BY <1>1, <1>4, <1>5 DEF IInv, Targeted, ListedLast, Overridden, Placed
<1>7. Carried'
  <2> SUFFICES ASSUME NEW e \in DOMAIN emitters, NEW f \in 1..frame,
                      NEW i \in 1..Items(emitters[e]), Passed(e, f, i)
               PROVE  <<f, i>> \in ToSet(log'[target[emitters[e]]]) \/ Excepted(e, f, i)'
    BY <1>1, <1>4 DEF Carried, Passed
  <2>1. target[emitters[e]] \in Urls
    BY DEF IInv, Targeted
  <2>2. <<f, i>> \in ToSet(log[target[emitters[e]]]) \/ Excepted(e, f, i)
    BY DEF IInv, Carried
  <2>3. Excepted(e, f, i) => Excepted(e, f, i)'
    BY <1>1, <1>2, EmissionAssumption DEF Excepted
  <2> QED
    BY <2>1, <2>2, <2>3, Arrival
<1>8. OnlyReached'
  <2>1. ASSUME NEW u \in Urls, \A e \in DOMAIN emitters : target[emitters[e]] # u
        PROVE  log'[u] = <<>>
    <3>1. u # target[Emitter] /\ log[u] = <<>>
      BY <2>1, SendingTyped DEF Emitter, IInv, OnlyReached
    <3> QED
      BY <3>1, Arrival
  <2>2. ASSUME OneEach, NEW e \in DOMAIN emitters, NEW x \in ToSet(log'[target[emitters[e]]])
        PROVE  Reached(e, x)'
    <3>1. CASE x \in ToSet(log[target[emitters[e]]])
      <4>1. Reached(e, x)
        BY <2>2, <3>1 DEF IInv, OnlyReached
      <4> QED
        BY <1>2, <4>1 DEF Reached, Passed
    <3>2. CASE x \notin ToSet(log[target[emitters[e]]])
      <4>1. target[emitters[e]] = target[emitters[at]]
        BY <2>2, <3>2, Arrival DEF IInv, Targeted, Emitter
      <4>2. e = at
        BY <2>2, <4>1, SendingTyped DEF OneEach
      <4>3. x = <<frame, item>>
        BY <3>2, <2>2, <4>1, Arrival DEF Emitter
      <4> QED
        BY <1>2, <4>2, <4>3 DEF Reached
    <3> QED
      BY <3>1, <3>2
  <2> QED
    BY <1>1, <2>1, <2>2 DEF OnlyReached, OneEach
<1>9. InOrder'
  BY <1>2, ArrivalInOrder
<1> QED
  BY <1>3, <1>6, <1>7, <1>8, <1>9 DEF IInv

\* A step after which the next item is to be sent, or the next emitter called: the
\* item has arrived, or is given up after as many failures as are allowed.
LEMMA NextKeeps ==
  ASSUME IInv, pc = "send", MayArrive, NextItem, UNCHANGED <<loading, frame>>,
         worst' \in 0..(MaxRetries + 1), worst' >= worst,
         unread \subseteq unread', unread' \subseteq unread \cup {<<at, frame, item>>},
         \/ Arrives
         \/ Emitter \in Lossy /\ worst' >= MaxRetries
         \/ Emitter = "fluentd" /\ <<at, frame, item>> \in unread'
  PROVE  IInv'
<1>1. UNCHANGED <<setting, target, emitters, listed, n, seen>>
  BY DEF loading
<1>2. worst \in Nat /\ worst' \in Nat
  BY SendingTyped, EmissionAssumption
<1>3. /\ at \in Nat /\ at \in 1..Len(emitters) /\ Len(emitters) \in Nat /\ frame \in Nat
      /\ DOMAIN emitters = 1..Len(emitters)
      /\ frame > 0 /\ item \in Nat /\ item <= Items(Emitter)
      /\ Items(Emitter) \in 1..(Features + 1) /\ Features \in Nat
  BY SendingTyped, ItemsTyped
<1>4. \/ item < Items(Emitter) /\ item' = item + 1 /\ at' = at /\ pc' = "send" /\ tries' = 0
      \/ item = Items(Emitter) /\ item' = 1 /\ at' = at + 1 /\ pc' = "emit" /\ tries' = 0
  BY <1>3 DEF NextItem
<1>5. TypeOK'
  <2>1. item' \in 1..(Features + 1) /\ at' \in 0..(Len(emitters) + 1) /\ tries' \in 0..MaxRetries
    <3>1. item' \in 1..(Features + 1)
      BY <1>3, <1>4
    <3>2. at' \in 0..(Len(emitters) + 1)
      BY <1>3, <1>4
    <3>3. tries' \in 0..MaxRetries
      BY <1>4, EmissionAssumption
    <3> QED
      BY <3>1, <3>2, <3>3
  <2>2. pc' \in {"load", "idle", "emit", "send", "dead"}
    BY <1>4
  <2>3. unread' \subseteq (DOMAIN emitters) \X (1..MaxFrame) \X (1..(Features + 1))
    <3> DEFINE All == (DOMAIN emitters) \X (1..MaxFrame) \X (1..(Features + 1))
    <3>1. <<at, frame, item>> \in All
      BY SendingTyped
    <3>2. unread \subseteq All
      BY DEF IInv, TypeOK
    <3> HIDE DEF All
    <3>3. unread' \subseteq All
      BY <3>1, <3>2
    <3> QED
      BY <3>3 DEF All
  <2> QED
    BY <1>1, <2>1, <2>2, <2>3, Arrival DEF IInv, TypeOK
<1>6. \A p : Items(p)' = Items(p)
  BY <1>1 DEF Items, PerLine, FormatOf, found_plugin
<1>7. Targeted' /\ ListedLast'
  BY <1>1 DEF IInv, Targeted, ListedLast, Overridden
<1>8. Placed'
  <2>1. at' = at => Items(Emitter)' = Items(Emitter)
    BY <1>1, <1>6 DEF Emitter
  <2> QED
    BY <1>1, <1>3, <1>4, <2>1 DEF Placed
<1>9. Carried'
  <2> SUFFICES ASSUME NEW e \in DOMAIN emitters, NEW f \in 1..frame,
                      NEW i \in 1..Items(emitters[e]), Passed(e, f, i)'
               PROVE  <<f, i>> \in ToSet(log'[target[emitters[e]]]) \/ Excepted(e, f, i)'
    BY <1>1, <1>6 DEF Carried
  <2>1. target[emitters[e]] \in Urls
    BY DEF IInv, Targeted
  <2>2. e \in Nat /\ f \in Nat /\ i \in Nat /\ i >= 1
    <3>1. e \in 1..Len(emitters)
      BY <1>3
    <3>2. Items(emitters[e]) \in Nat
      BY ItemsTyped, EmissionAssumption
    <3> QED
      BY <1>3, <3>1, <3>2
  <2>3. CASE Passed(e, f, i)
    <3>1. <<f, i>> \in ToSet(log[target[emitters[e]]]) \/ Excepted(e, f, i)
      BY <2>3 DEF IInv, Carried
    <3>2. Excepted(e, f, i) => Excepted(e, f, i)'
      BY <1>1, <1>2, EmissionAssumption DEF Excepted
    <3> QED
      BY <2>1, <3>1, <3>2, Arrival
  <2>4. CASE ~Passed(e, f, i)
    <3>1. f = frame /\ e = at
      BY <1>3, <1>4, <2>2, <2>4 DEF Passed
    <3>2. i = item
      BY <1>3, <1>4, <2>2, <2>4, <3>1 DEF Passed, Emitter
    <3>3. emitters[e] = Emitter
      BY <3>1 DEF Emitter
    <3> QED
      BY <1>1, <3>1, <3>2, <3>3, Arrival DEF Excepted
  <2> QED
    BY <2>3, <2>4
<1>10. OnlyReached'
  <2>1. ASSUME NEW u \in Urls, \A e \in DOMAIN emitters : target[emitters[e]] # u
        PROVE  log'[u] = <<>>
    <3>1. u # target[Emitter] /\ log[u] = <<>>
      BY <2>1, SendingTyped DEF Emitter, IInv, OnlyReached
    <3> QED
      BY <3>1, Arrival
  <2>2. ASSUME NEW e \in DOMAIN emitters, NEW x \in Sendings,
               Reached(e, x) \/ (e = at /\ x = <<frame, item>>)
        PROVE  Reached(e, x)'
    <3>1. x[1] \in Nat /\ x[2] \in Nat /\ e \in 1..Len(emitters)
      BY <1>3, SendingsAreNumbers
    <3>2. \/ x[1] < frame
          \/ x[1] = frame /\ (e < at \/ (e = at /\ x[2] <= item))
      <4>1. CASE Passed(e, x[1], x[2])
        BY <1>3, <3>1, <4>1 DEF Passed
      <4>2. CASE e = at /\ x = <<frame, item>>
        BY <1>3, <4>2
      <4> QED
        BY <2>2, <4>1, <4>2 DEF Reached
    <3>3. CASE item' = item + 1 /\ at' = at
      BY <1>3, <3>1, <3>2, <3>3 DEF Passed, Reached
    <3>4. CASE at' = at + 1
      BY <1>3, <3>1, <3>2, <3>4 DEF Passed, Reached
    <3> QED
      BY <1>4, <3>3, <3>4
  <2>3. ASSUME OneEach, NEW e \in DOMAIN emitters, NEW x \in ToSet(log'[target[emitters[e]]])
        PROVE  Reached(e, x)'
    <3>1. target[emitters[e]] \in Urls
      BY DEF IInv, Targeted
    <3>2. x \in Sendings
      <4>1. log'[target[emitters[e]]] \in Seq(Sendings)
        BY <3>1, Arrival DEF Sendings
      <4> QED
        BY <2>3, <4>1 DEF ToSet
    <3>3. CASE x \in ToSet(log[target[emitters[e]]])
      BY <2>2, <2>3, <3>2, <3>3 DEF IInv, OnlyReached
    <3>4. CASE x \notin ToSet(log[target[emitters[e]]])
      <4>1. target[emitters[e]] = target[emitters[at]]
        BY <2>3, <3>1, <3>4, Arrival DEF Emitter
      <4>2. e = at
        BY <2>3, <4>1, SendingTyped DEF OneEach
      <4>3. x = <<frame, item>>
        BY <2>3, <3>4, <4>1, Arrival DEF Emitter
      <4> QED
        BY <2>2, <3>2, <4>2, <4>3
    <3> QED
      BY <3>3, <3>4
  <2> QED
    BY <1>1, <2>1, <2>3 DEF OnlyReached, OneEach
<1>11. InOrder'
  BY <1>2, ArrivalInOrder
<1> QED
  BY <1>5, <1>7, <1>8, <1>9, <1>10, <1>11 DEF IInv

\* What every emitter's loop is made of.
LEMMA SendKeeps ==
  ASSUME IInv, Send
  PROVE  IInv'
<1>1. pc = "send"
  BY DEF Send
<1>2. \/ Sent \/ Retry \/ SendRaises
      \/ Emitter \in Lossy /\ (CutOff \/ GiveUp)
      \/ Emitter = "fluentd" /\ HungUp
  BY DEF Send, Post, SasPost, Produce, FluentdSend, CallWithRetries, WriteFile, WriteOut, PutObject,
     Lossy
<1>3. /\ Attempts(Emitter) \in 1..(MaxRetries + 1)
      /\ Emitter \in Lossy => Attempts(Emitter) = MaxRetries
  BY AttemptsTyped
<1>4. MaxRetries \in Nat /\ MaxRetries > 0 /\ tries \in 0..MaxRetries /\ worst \in 0..(MaxRetries + 1)
  BY EmissionAssumption DEF IInv, TypeOK
<1>5. CASE Sent
  <2>1. worst' = worst /\ unread' = unread
    BY <1>5 DEF Sent
  <2> QED
    BY <1>1, <1>4, <1>5, <2>1, NextKeeps DEF Sent, MayArrive
<1>6. CASE Retry
  <2>1. tries + 1 < Attempts(Emitter) /\ tries' = tries + 1 /\ pc' = "send"
    BY <1>1, <1>6 DEF Retry
  <2>2. worst' \in 1..(MaxRetries + 1) /\ worst' >= worst
    BY <1>3, <1>4, <1>6, <2>1 DEF Retry, Worse
  <2>3. tries' \in 0..MaxRetries
    BY <1>3, <1>4, <2>1
  <2> QED
    BY <1>1, <1>6, <2>1, <2>2, <2>3, StayKeeps DEF Retry
<1>7. CASE SendRaises
  <2>1. worst' \in 1..(MaxRetries + 1) /\ worst' >= worst
    BY <1>3, <1>4, <1>7 DEF SendRaises, Worse
  <2>2. tries' \in 0..MaxRetries /\ pc' = "dead"
    BY <1>4, <1>7 DEF SendRaises
  <2> QED
    BY <1>1, <1>7, <2>1, <2>2, StayKeeps DEF SendRaises
<1>8. CASE Emitter \in Lossy /\ CutOff
  <2>1. worst' \in 0..(MaxRetries + 1) /\ worst' >= worst /\ worst' >= MaxRetries
    BY <1>4, <1>8 DEF CutOff, Worse
  <2> QED
    BY <1>1, <1>8, <2>1, NextKeeps DEF CutOff
<1>9. CASE Emitter \in Lossy /\ GiveUp
  <2>1. worst' \in 0..(MaxRetries + 1) /\ worst' >= worst /\ worst' >= MaxRetries
    BY <1>3, <1>4, <1>9 DEF GiveUp, Worse
  <2> QED
    BY <1>1, <1>9, <2>1, NextKeeps DEF GiveUp
<1>10. CASE Emitter = "fluentd" /\ HungUp
  <2>1. worst' = worst /\ log' = log /\ unread' = unread \cup {<<at, frame, item>>}
    BY <1>10 DEF HungUp
  <2> QED
    BY <1>1, <1>4, <1>10, <2>1, NextKeeps DEF HungUp, MayArrive
<1> QED
  BY <1>2, <1>5, <1>6, <1>7, <1>8, <1>9, <1>10

-----------------------------------------------------------------------------
(* The invariants of the specification. *)

\* Every step of loading and of emission keeps the invariant.
LEMMA Inductive ==
  ASSUME IInv, [Next]_vars
  PROVE  IInv'
<1>1. CASE UNCHANGED vars
  <2> USE <1>1 DEF vars, loading
  <2>1. TypeOK'
    BY DEF IInv, TypeOK
  <2>2. \A p : Items(p)' = Items(p)
    BY DEF Items, PerLine, FormatOf, found_plugin
  <2>3. Targeted' /\ ListedLast' /\ Placed'
    BY <2>2 DEF IInv, Targeted, ListedLast, Overridden, Placed, Emitter
  <2>4. Carried'
    BY <2>2 DEF IInv, Carried, Excepted, Passed
  <2>5. OnlyReached'
    BY DEF IInv, OnlyReached, OneEach, Reached, Passed
  <2>6. InOrder'
    BY DEF IInv, InOrder, OneEach
  <2> QED
    BY <2>1, <2>3, <2>4, <2>5, <2>6 DEF IInv
<1> QED
  BY <1>1, LoadKeeps, EmitOneKeeps, EmitDoneKeeps, SendKeeps, EmitFrameKeeps DEF Next, Emission

\* The invariant on which the theorems below rest.
LEMMA Invariant == Spec => []IInv
<1>1. Init => IInv
  BY InitiallyInv
<1>2. IInv /\ [Next]_vars => IInv'
  BY Inductive
<1> QED
  BY <1>1, <1>2, PTL DEF Spec

(***************************************************************************)
(* The variables keep their types: at never runs past the end of the list, *)
(* and no item fails more often than call_with_retries tries.              *)
(***************************************************************************)
THEOREM TypeCorrect == Spec => []TypeOK
<1>1. IInv => TypeOK
  BY DEF IInv
<1> QED
  BY <1>1, Invariant, PTL

(***************************************************************************)
(* EmittersManager.emit and the retry loops lose nothing but what Delivers *)
(* excepts: http, https and sas after max_retries failures, fluentd what   *)
(* its server does not read, and of two URLs of a protocol the first one   *)
(* gets nothing, its frames going to the last one.                         *)
(***************************************************************************)
THEOREM NothingLost == Spec => []Delivers
<1>1. IInv => Delivers
  BY DEF IInv, ListedLast, Carried, Excepted, Delivers
<1> QED
  BY <1>1, Invariant, PTL

(***************************************************************************)
(* A server that one emitter sends to gets frames and lines in the order   *)
(* of emit() and the formatters, whatever is sent again.                   *)
(***************************************************************************)
THEOREM OrderKept == Spec => []InOrder
<1>1. IInv => InOrder
  BY DEF IInv
<1> QED
  BY <1>1, Invariant, PTL
=============================================================================
