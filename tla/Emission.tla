------------------------------ MODULE Emission ------------------------------
(***************************************************************************)
(* From the command line and crawler.conf to the servers: the emitters     *)
(* that plugins_manager.py loads, EmittersManager.emit, and the retry      *)
(* loops of the emitters (plugins/emitters/, utils/misc.py).               *)
(*                                                                         *)
(* One plugin object serves a protocol, however many URLs name it.  A      *)
(* frame is its metadata and its features; an emitter sends it whole, or   *)
(* line by line.  http, https and sas try max_retries times and then go on *)
(* in silence ("lossy"); kafka and fluentd try once more than max_retries  *)
(* and then raise, but fluentd knows only what its socket took; the others *)
(* try once.  What is raised ends the crawler.                             *)
(***************************************************************************)
EXTENDS Integers, Sequences, SequencesExt

CONSTANTS
  Plugins,      \* protocols of the emitter plugins, in the order yapsy finds them
  Settings,     \* possible settings: [urls, format, compress, conf]
  MaxRetries,   \* the emitters' max_retries
  Features,     \* number of features in a frame
  MaxFrame      \* bound: frames emitted

ASSUME EmissionAssumption ==
  /\ Plugins \in Seq(STRING)
  /\ \A s \in Settings : s.urls \in Seq([proto : STRING, id : Nat])
  /\ MaxRetries \in Nat \ {0} /\ Features \in Nat /\ MaxFrame \in Nat

VARIABLES
  setting,      \* one of Settings; conf maps protocols enabled in crawler.conf
  target,       \* the url attribute of each plugin object
  emitters,     \* emitter_plugins: protocols of the plugin objects, in order
  listed,       \* history: the URL for which each of them was listed
  n,            \* plugins load_emitter_plugins is done with
  seen,         \* URLs of the command line it has looked at for the next plugin
  pc,
  frame,        \* number of the frame being, or last, emitted
  at,           \* index of the emitter called
  item,         \* index of the item it sends: a line, or the whole frame
  tries,        \* failed attempts to send that item
  log,          \* what has reached each URL: a sequence of <<frame, item>>
  worst,        \* history: the most attempts an item has failed; an answer
                \* that is cut off counts for all of them
  unread        \* history: <<emitter, frame, item>> that the sender's socket took
                \* and no server has read

loading == <<setting, target, emitters, listed, n, seen>>
vars == <<loading, pc, frame, at, item, tries, log, worst, unread>>

Lossy == {"http", "https", "sas"}
Raising == {"kafka", "fluentd"}
Formats == {"csv", "graphite", "json", "logstash"}
SasSupports(f) == f = "csv"
FluentdSupports(f) == f = "json"
Supports(p, f) == /\ p # "fluentd" => f \in Formats
                  /\ p = "sas" => SasSupports(f)
                  /\ p = "fluentd" => FluentdSupports(f)

(***************************************************************************)
(* Is there a URL of the command line that p serves?  Without one, p's     *)
(* section of crawler.conf decides.                                        *)
(***************************************************************************)
found_plugin(p) == \E u \in ToSet(setting.urls) : u.proto = p
FormatOf(p) == IF found_plugin(p) THEN setting.format ELSE setting.conf[p].format

NoUrl == [proto |-> "none", id |-> 0]
Urls == UNION {ToSet(s.urls) \cup {s.conf[p].url : p \in DOMAIN s.conf} : s \in Settings}

Emitter == emitters[at]
PerLine(p) == \/ p = "fluentd"
              \/ p \in {"http", "https", "kafka"} /\ FormatOf(p) = "json"
Items(p) == IF PerLine(p) THEN Features + 1 ELSE 1

(***************************************************************************)
(* Mutant of Attempts: call_with_retries counts the retries of every       *)
(* emitter, one more than the attempts.                                    *)
(***************************************************************************)
AttemptsPlusOne(p) == MaxRetries + 2

(***************************************************************************)
(* Attempts an emitter makes: range(max_retries) in post(), the call and   *)
(* max_retries retries in call_with_retries, one elsewhere.                *)
(***************************************************************************)
Attempts(p) == CASE p \in Lossy -> MaxRetries [] p \in Raising -> MaxRetries + 1
                 [] OTHER -> 1

Init ==
  /\ setting \in Settings
  /\ target = [p \in ToSet(Plugins) |-> NoUrl] /\ emitters = <<>> /\ listed = <<>>
  /\ n = 0 /\ seen = 0
  /\ pc = "load" /\ frame = 0 /\ at = 0 /\ item = 1 /\ tries = 0
  /\ log = [u \in Urls |-> <<>>] /\ worst = 0 /\ unread = {}

-----------------------------------------------------------------------------
(***************************************************************************)
(* load_emitter_plugins.  A plugin object is initialised and listed once   *)
(* for each of its URLs, so that it ends up with the last one.             *)
(***************************************************************************)
Plugin == Plugins[n + 1]
Url == setting.urls[seen + 1]
Loading == pc = "load" /\ n < Len(Plugins)
AtUrl == Loading /\ seen < Len(setting.urls)
AtConf == Loading /\ seen = Len(setting.urls)
Emitting == <<frame, at, item, tries, log, worst, unread>>

\* Is the plugin to be initialised now?
ServesUrl == AtUrl /\ Url.proto = Plugin
InConf == AtConf /\ ~ found_plugin(Plugin) /\ Plugin \in DOMAIN setting.conf
Chosen == ServesUrl \/ InConf

InitPlugin(url) ==
  /\ Supports(Plugin, FormatOf(Plugin))
  /\ target' = [target EXCEPT ![Plugin] = url]
  /\ emitters' = Append(emitters, Plugin) /\ listed' = Append(listed, url)

SkipUrl ==
  /\ AtUrl /\ ~ ServesUrl
  /\ seen' = seen + 1
  /\ UNCHANGED <<setting, target, emitters, listed, n, pc, Emitting>>

LoadUrl ==
  /\ ServesUrl /\ InitPlugin(Url)
  /\ seen' = seen + 1
  /\ UNCHANGED <<setting, n, pc, Emitting>>

LoadConf ==
  /\ InConf /\ InitPlugin(setting.conf[Plugin].url)
  /\ n' = n + 1 /\ seen' = 0
  /\ UNCHANGED <<setting, pc, Emitting>>

NextPlugin ==
  /\ AtConf /\ ~ InConf
  /\ n' = n + 1 /\ seen' = 0
  /\ UNCHANGED <<setting, target, emitters, listed, pc, Emitting>>

UnsupportedFormat ==
  /\ Chosen /\ ~ Supports(Plugin, FormatOf(Plugin))
  /\ pc' = "dead"
  /\ UNCHANGED <<loading, Emitting>>

(***************************************************************************)
(* A URL that cannot be taken apart, or a server that is not there after   *)
(* all retries.                                                            *)
(***************************************************************************)
ConnectRaises(p) ==
  /\ Chosen /\ Plugin = p /\ Supports(p, FormatOf(p))
  /\ pc' = "dead"
  /\ UNCHANGED <<loading, Emitting>>

KafkaInitRaises == ConnectRaises("kafka")
FluentdInitRaises == ConnectRaises("fluentd")

Loaded ==
  /\ pc = "load" /\ n = Len(Plugins)
  /\ pc' = IF emitters = <<>> THEN "dead" ELSE "idle"
  /\ UNCHANGED <<loading, Emitting>>

Load == \/ SkipUrl \/ LoadUrl \/ LoadConf \/ NextPlugin \/ UnsupportedFormat
        \/ KafkaInitRaises \/ FluentdInitRaises \/ Loaded

-----------------------------------------------------------------------------
(***************************************************************************)
(* EmittersManager.emit calls the emitters in turn.                        *)
(***************************************************************************)
EmitFrame ==
  /\ pc = "idle" /\ frame < MaxFrame
  /\ frame' = frame + 1 /\ at' = 1 /\ pc' = "emit"
  /\ UNCHANGED <<loading, item, tries, log, worst, unread>>

EmitDone ==
  /\ pc = "emit" /\ at > Len(emitters)
  /\ pc' = "idle"
  /\ UNCHANGED <<loading, Emitting>>

Calling == pc = "emit" /\ at <= Len(emitters)
EmitRaises == pc' = "dead" /\ UNCHANGED <<loading, Emitting>>
Skip == at' = at + 1 /\ UNCHANGED <<loading, pc, frame, item, tries, log, worst, unread>>
Start == pc' = "send" /\ UNCHANGED <<loading, Emitting>>

(***************************************************************************)
(* The first part of each emitter's emit(): to format the frame (for       *)
(* fluentd, to take its timestamp apart) may raise, and gzip is for file,  *)
(* stdout and cos only.                                                    *)
(***************************************************************************)
StartPlain(ps) == /\ Calling /\ Emitter \in ps
                  /\ EmitRaises \/ (~ setting.compress /\ Start)

HttpEmits == StartPlain({"http", "https"})
KafkaEmits == StartPlain({"kafka"})
FluentdEmits == StartPlain({"fluentd"})
FileEmits == Calling /\ Emitter = "file" /\ (EmitRaises \/ Start)
StdoutEmits == Calling /\ Emitter = "stdout" /\ (EmitRaises \/ Start)

(***************************************************************************)
(* sas asserts that its token files exist, and leaves out containers with  *)
(* a colon in their namespace.                                             *)
(***************************************************************************)
SasEmits ==
  /\ Calling /\ Emitter = "sas"
  /\ \/ EmitRaises
     \/ ~ setting.compress /\ setting.skips /\ Skip
     \/ ~ setting.compress /\ Start

(***************************************************************************)
(* cos compresses always.  It looks for the metadata in lines as csv has   *)
(* them, returns when its URL has not two parts, and asserts that its      *)
(* files exist.                                                            *)
(***************************************************************************)
CosEmits ==
  /\ Calling /\ Emitter = "cos"
  /\ \/ EmitRaises
     \/ FormatOf("cos") = "csv" /\ setting.skips /\ Skip
     \/ FormatOf("cos") = "csv" /\ Start

EmitOne == \/ HttpEmits \/ KafkaEmits \/ FluentdEmits \/ FileEmits
           \/ StdoutEmits \/ SasEmits \/ CosEmits

-----------------------------------------------------------------------------
(***************************************************************************)
(* Sending one item.  What an attempt sends may arrive although it fails.  *)
(* (A failed attempt of fluentd stays in the sender's buffer and arrives   *)
(* with the next one: here it arrives, if at all, before it.)              *)
(***************************************************************************)
Arrives == log' = [log EXCEPT ![target[Emitter]] = Append(@, <<frame, item>>)]
MayArrive == Arrives \/ UNCHANGED log
Worse(k) == worst' = IF k > worst THEN k ELSE worst

NextItem ==
  /\ tries' = 0
  /\ IF item < Items(Emitter) THEN item' = item + 1 /\ UNCHANGED <<at, pc>>
                              ELSE item' = 1 /\ at' = at + 1 /\ pc' = "emit"

Sent ==
  /\ Arrives /\ NextItem
  /\ UNCHANGED <<loading, frame, worst, unread>>

(***************************************************************************)
(* sendall has put the item into the buffer of the socket, and the server  *)
(* closes the connection, or has closed it, without reading it: no error   *)
(* is set, and the next item is written on.                                *)
(***************************************************************************)
HungUp ==
  /\ NextItem
  /\ unread' = unread \cup {<<at, frame, item>>}
  /\ UNCHANGED <<loading, frame, log, worst>>

CutOff ==
  /\ MayArrive /\ NextItem
  /\ Worse(MaxRetries)
  /\ UNCHANGED <<loading, frame, unread>>

(***************************************************************************)
(* Mutants of Retry: the whole frame is sent again; the count starts anew  *)
(* within the loop.                                                        *)
(***************************************************************************)
RetryFrame ==
  /\ tries + 1 < Attempts(Emitter)
  /\ MayArrive /\ item' = 1 /\ tries' = tries + 1 /\ Worse(tries + 1)
  /\ UNCHANGED <<loading, pc, frame, at, unread>>

RetryReset ==
  /\ tries' = (tries + 1) % Attempts(Emitter)
  /\ UNCHANGED <<loading, pc, frame, at, item, log, worst, unread>>

Retry ==
  /\ tries + 1 < Attempts(Emitter)
  /\ MayArrive /\ tries' = tries + 1 /\ Worse(tries + 1)
  /\ UNCHANGED <<loading, pc, frame, at, item, unread>>

(***************************************************************************)
(* Mutant of GiveUp: range(1, max_retries).                                *)
(***************************************************************************)
GiveUpEarly ==
  /\ tries + 2 >= Attempts(Emitter)
  /\ MayArrive /\ NextItem /\ Worse(tries + 1)
  /\ UNCHANGED <<loading, frame, unread>>

GiveUp ==
  /\ tries + 1 = Attempts(Emitter)
  /\ MayArrive /\ NextItem /\ Worse(tries + 1)
  /\ UNCHANGED <<loading, frame, unread>>

SendRaises ==
  /\ tries + 1 = Attempts(Emitter)
  /\ MayArrive /\ pc' = "dead" /\ Worse(tries + 1)
  /\ UNCHANGED <<loading, frame, at, item, tries, unread>>

(***************************************************************************)
(* The loops made of them.                                                 *)
(***************************************************************************)
Post == Emitter \in {"http", "https"} /\ (Sent \/ CutOff \/ Retry \/ GiveUp)
SasPost == Emitter = "sas" /\ (Sent \/ CutOff \/ Retry \/ GiveUp)
CallWithRetries == Sent \/ Retry \/ SendRaises
Produce == Emitter = "kafka" /\ CallWithRetries
FluentdSend == Emitter = "fluentd" /\ (CallWithRetries \/ HungUp)
WriteFile == Emitter = "file" /\ (Sent \/ SendRaises)
WriteOut == Emitter = "stdout" /\ (Sent \/ SendRaises)
PutObject == Emitter = "cos" /\ (Sent \/ SendRaises)

Send == /\ pc = "send"
        /\ \/ Post \/ SasPost \/ Produce \/ FluentdSend
           \/ WriteFile \/ WriteOut \/ PutObject

Emission == Load \/ EmitOne \/ EmitDone \/ Send
Next == Emission \/ EmitFrame
Spec == Init /\ [][Next]_vars
FairSpec == Spec /\ WF_vars(Emission)

-----------------------------------------------------------------------------
(***************************************************************************)
(* The types of the variables.                                             *)
(***************************************************************************)
TypeOK ==
  /\ setting \in Settings /\ n \in 0..Len(Plugins) /\ seen \in 0..Len(setting.urls)
  /\ target \in [ToSet(Plugins) -> Urls \cup {NoUrl}]
  /\ emitters \in Seq(ToSet(Plugins)) /\ listed \in Seq(Urls)
  /\ pc \in {"load", "idle", "emit", "send", "dead"}
  /\ frame \in 0..MaxFrame /\ at \in 0..(Len(emitters) + 1)
  /\ item \in 1..(Features + 1) /\ tries \in 0..MaxRetries
  /\ log \in [Urls -> Seq((1..MaxFrame) \X (1..(Features + 1)))]
  /\ worst \in 0..(MaxRetries + 1)
  /\ unread \subseteq (DOMAIN emitters) \X (1..MaxFrame) \X (1..(Features + 1))

(***************************************************************************)
(* Nothing is lost on the way from emit() to a server: an item behind the  *)
(* one being sent, of this frame or of an earlier one, has reached the URL *)
(* that the emitter was listed for, whatever other emitters did in between *)
(* and even if the crawler has died since.  To reach it is to be answered  *)
(* with 200 (http, https, sas), to be acknowledged by the broker (kafka),  *)
(* to be written (file, stdout), to be put (cos) and, for fluentd, to be   *)
(* read by the server.  The exceptions:                                    *)
(*   - of two URLs of a protocol only the last one gets anything: the      *)
(*     frames of the first one go there as well;                           *)
(*   - http, https and sas lose an item when a server has failed           *)
(*     max_retries times in a row or cut off an answer;                    *)
(*   - sas and cos leave out the frames of some containers;                *)
(*   - fluentd loses what its server closed the connection on.             *)
(***************************************************************************)
Passed(e, f, i) == f < frame \/ (f = frame /\ (e < at \/ (e = at /\ i < item)))
Overridden(e) == \E d \in DOMAIN emitters : d > e /\ emitters[d] = emitters[e]

Delivers ==
  \A e \in DOMAIN emitters, f \in 1..frame : \A i \in 1..Items(emitters[e]) :
    Passed(e, f, i) =>
      \/ ~ Overridden(e) /\ <<f, i>> \in ToSet(log[listed[e]])
      \/ Overridden(e) /\ <<f, i>> \in ToSet(log[target[emitters[e]]])
      \/ emitters[e] \in Lossy /\ worst >= MaxRetries
      \/ emitters[e] \in {"sas", "cos"} /\ setting.skips
      \/ emitters[e] = "fluentd" /\ <<e, f, i>> \in unread

(***************************************************************************)
(* When no two emitters of the list send to the same URL, a server gets    *)
(* frames and lines in order, and gets one twice only at once and only     *)
(* after a failed attempt.                                                 *)
(***************************************************************************)
OneEach ==
  \A d, e \in DOMAIN emitters : target[emitters[d]] = target[emitters[e]] => d = e

InOrder ==
  OneEach => \A u \in Urls : \A i, j \in DOMAIN log[u] : i < j =>
    \/ log[u][i][1] < log[u][j][1]
    \/ log[u][i][1] = log[u][j][1] /\ log[u][i][2] < log[u][j][2]
    \/ log[u][i] = log[u][j] /\ worst > 0

(***************************************************************************)
(* However often servers fail, the emission of a frame ends (for requests  *)
(* that end: no timeout is given to requests.post).                        *)
(***************************************************************************)
EmitEnds == pc = "emit" ~> pc \in {"idle", "dead"}

=============================================================================
