--------------------------- MODULE MTGraphiteProofs ---------------------------
(***************************************************************************)
(* Theorems about MTGraphite, for any batch size, number of retries,       *)
(* messages and connections: its types, the sequence numbers of a          *)
(* connection, the order of what arrives, and that the client implements   *)
(* OrderedDelivery.                                                        *)
(***************************************************************************)
EXTENDS MTGraphite, SequenceTheorems, FiniteSetTheorems, TLAPS

\* The messages up to this one are forgotten by the client.
settled == accepted - Len(msgset)

\* How far the local counters are when they are about to be raised.
Counted == /\ pc = "try" => retries <= MaxEmitRetries
           /\ pc = "login" => logins <= 1

\* The client holds the newest connection or none, and nothing has happened on
\* those not opened yet.
Connected == /\ conn # None => conn = opened
             /\ pc \in {"login", "build", "write", "reply"} => conn # None
             /\ pc = "connect" => conn = None
             /\ \A c \in Conns : c > opened => wire[c] = <<>> /\ seen[c] = 0

\* The queue holds the newest messages, in order.
Queued == /\ Len(msgset) <= accepted
          /\ \A i \in 1 .. Len(msgset) : msgset[i] = settled + i

\* What is still to be written of a batch is its end, numbered up to the
\* sequence number that comes next.
Planned == /\ pc \in {"write", "reply"} =>
                /\ Len(unwritten) <= Len(msgset)
                /\ Len(unwritten) < sequence
                /\ \A i \in 1 .. Len(unwritten) :
                     /\ unwritten[i].num = sequence - Len(unwritten) + i - 1
                     /\ unwritten[i].msg = accepted - Len(unwritten) + i
           /\ pc = "reply" => unwritten = <<>>

\* What is under way on a connection has the numbers that follow the last one
\* to arrive, and the client goes on with the number after those.
Pending == IF pc = "write" THEN Len(unwritten) ELSE 0

Numbered == /\ \A c \in Conns : \A i \in 1 .. Len(wire[c]) :
                 wire[c][i].num = seen[c] + i
            /\ conn # None /\ pc \notin {"failed", "dead"} =>
                 seen[conn] + Len(wire[conn]) + 1 = sequence - Pending

\* Only what was handed over is under way or has arrived.
Known == /\ received \subseteq 1 .. accepted
         /\ \A c \in Conns : \A i \in 1 .. Len(wire[c]) :
              wire[c][i].msg <= accepted

\* From here on: what holds so long as nothing but "1A" is read.  A connection
\* carries part of one batch, in order, ...
Consecutive == \A c \in Conns : \A i \in 1 .. Len(wire[c]) :
                 wire[c][i].msg = wire[c][1].msg + i - 1

\* ... nothing between two batches, ...
Emptied == conn # None /\ pc \in {"idle", "try", "login", "build", "ended"}
              => wire[conn] = <<>>

\* ... and in a batch what was written last.
Followed == pc \in {"write", "reply"} /\ wire[conn] # <<>> =>
              wire[conn][Len(wire[conn])].msg = accepted - Len(unwritten)

\* The server has the first k messages, those the client has forgotten among
\* them, and no connection, old or new, goes on with a later one than the next.
Reached(k) ==
  /\ received = 1 .. k
  /\ settled <= k
  /\ \A c \in Conns : wire[c] # <<>> => wire[c][1].msg <= k + 1
  /\ pc \in {"write", "reply"} /\ wire[conn] = <<>> =>
       accepted - Len(unwritten) <= k

Ordered == reliable => /\ Consecutive /\ Emptied /\ Followed
                       /\ \E k \in 0 .. accepted : Reached(k)

IInv == /\ TypeOK
        /\ Counted
        /\ Connected
        /\ Queued
        /\ Planned
        /\ Numbered
        /\ Known
        /\ Ordered

-----------------------------------------------------------------------------
(* Sequences *)

\* The messages of a frame, a sequence of the next n numbers.
LEMMA FrameSeq ==
  ASSUME NEW a \in Nat, NEW n \in Nat, a + n <= MaxMessages
  PROVE  /\ [i \in 1 .. n |-> a + i] \in Seq(Messages)
         /\ Len([i \in 1 .. n |-> a + i]) = n
<1>1. \A i \in 1 .. n : a + i \in Messages
  BY MTGraphiteAssumption DEF Messages
<1> QED BY <1>1

\* The batch of Build, numbered from s.
LEMMA BatchSeq ==
  ASSUME NEW s \in Nat \ {0}, NEW b \in Seq(Messages),
         NEW u, u = [i \in 1 .. Len(b) |-> [num |-> s + i - 1, msg |-> b[i]]]
  PROVE  /\ u \in Seq(Item)
         /\ Len(u) = Len(b)
         /\ \A i \in 1 .. Len(b) : u[i].num = s + i - 1 /\ u[i].msg = b[i]
<1>1. Len(b) \in Nat
  BY LenProperties
<1>2. \A i \in 1 .. Len(b) : [num |-> s + i - 1, msg |-> b[i]] \in Item
  BY <1>1, ElementOfSeq DEF Item
<1>3. u \in Seq(Item)
  BY <1>1, <1>2
<1>4. Len(u) = Len(b)
  BY <1>1
<1> QED BY <1>3, <1>4

-----------------------------------------------------------------------------
(* Types *)

\* Every step keeps the types: the local counters stay within their bounds
\* because of Counted, a connection number is one because of Connected.
LEMMA TypeInductive ==
  ASSUME TypeOK, Counted, Connected, [Next]_vars
  PROVE  TypeOK'
<1> USE MTGraphiteAssumption DEF TypeOK, PCs, Conns
<1>1. ASSUME NEW n \in 0 .. MaxMessages, SendMessages(n)
      PROVE TypeOK'
  <2>1. n \in Nat /\ accepted \in Nat /\ accepted + n <= MaxMessages
    BY <1>1 DEF SendMessages
  <2>2. [i \in 1 .. n |-> accepted + i] \in Seq(Messages)
    BY <2>1, FrameSeq
  <2>3. msgset' \in Seq(Messages)
    BY <1>1, <2>2, ConcatProperties DEF SendMessages
  <2>4. accepted' \in 0 .. MaxMessages /\ retries' \in 0 .. MaxEmitRetries + 1
    BY <1>1 DEF SendMessages
  <2> QED BY <1>1, <2>3, <2>4 DEF SendMessages, network
<1>2. CASE End BY <1>2 DEF End, network
<1>3. CASE TimePasses BY <1>3 DEF TimePasses, network
<1>4. CASE Try BY <1>4 DEF Try, Counted, network
<1>5. CASE Connect BY <1>5 DEF Connect, network
<1>6. CASE LoginAccepted
  BY <1>6 DEF LoginAccepted, SendLogin, Counted, network
<1>7. CASE LoginRefused
  BY <1>7 DEF LoginRefused, SendLogin, Counted, network
<1>8. CASE ConnectRaises BY <1>8 DEF ConnectRaises, network
<1>9. CASE Failed BY <1>9 DEF Failed, network
<1>10. CASE Build
  <2>1. unwritten' \in Seq(Item)
    BY <1>10, BatchSeq DEF Build
  <2>2. sequence' \in Nat \ {0}
    BY <1>10, LenProperties DEF Build
  <2> QED BY <1>10, <2>1, <2>2 DEF Build, network
<1>11. CASE Write
  <2>1. Head(unwritten) \in Item /\ Tail(unwritten) \in Seq(Item)
    BY <1>11, HeadTailProperties DEF Write
  <2>2. conn \in Conns
    BY <1>11 DEF Write, Connected
  <2>3. Append(wire[conn], Head(unwritten)) \in Seq(Item)
    BY <2>1, <2>2, AppendProperties
  <2> QED BY <1>11, <2>1, <2>3 DEF Write
<1>12. CASE AllWritten BY <1>12 DEF AllWritten, network
<1>13. CASE Confirmed BY <1>13, EmptySeq DEF Confirmed, Written, network
<1>14. CASE OtherReply BY <1>14, EmptySeq DEF OtherReply, Written, network
<1>15. CASE SocketRaises BY <1>15 DEF SocketRaises, network
<1>16. ASSUME NEW c \in Conns, Arrive(c) PROVE TypeOK'
  <2>1. Head(wire[c]) \in Item /\ Tail(wire[c]) \in Seq(Item)
    BY <1>16, HeadTailProperties DEF Arrive
  <2>2. Head(wire[c]).num \in Nat /\ Head(wire[c]).msg \in Messages
    BY <2>1 DEF Item
  <2> QED BY <1>16, <2>1, <2>2 DEF Arrive, client
<1>17. ASSUME NEW c \in Conns, Lose(c) PROVE TypeOK'
  BY <1>17, EmptySeq DEF Lose, client
<1>18. CASE UNCHANGED vars BY <1>18 DEF vars, client, network
<1> QED BY <1>1, <1>2, <1>3, <1>4, <1>5, <1>6, <1>7, <1>8, <1>9, <1>10, <1>11,
        <1>12, <1>13, <1>14, <1>15, <1>16, <1>17, <1>18
        DEF Next, Client, Emitter, Network

-----------------------------------------------------------------------------
(* Reading and writing a connection *)

\* Write moves the first message from what is unwritten to the end of what is
\* under way.
LEMMA WriteMoves ==
  ASSUME TypeOK, Connected, Write
  PROVE  /\ conn \in Conns
         /\ Len(unwritten) \in Nat \ {0}
         /\ Len(unwritten') = Len(unwritten) - 1
         /\ \A i \in 1 .. Len(unwritten') : unwritten'[i] = unwritten[i + 1]
         /\ Len(wire'[conn]) = Len(wire[conn]) + 1
         /\ \A i \in 1 .. Len(wire[conn]) : wire'[conn][i] = wire[conn][i]
         /\ wire'[conn][Len(wire[conn]) + 1] = unwritten[1]
         /\ \A c \in Conns \ {conn} : wire'[c] = wire[c]
<1>1. conn \in Conns /\ unwritten \in Seq(Item) /\ unwritten # <<>>
  BY DEF Write, TypeOK, Connected
<1>2. wire[conn] \in Seq(Item)
  BY <1>1 DEF TypeOK
<1>3. wire'[conn] = Append(wire[conn], Head(unwritten))
  BY <1>1 DEF Write, TypeOK
<1>4. \A c \in Conns \ {conn} : wire'[c] = wire[c]
  BY <1>1 DEF Write, TypeOK
<1>5. /\ Len(unwritten) \in Nat \ {0}
      /\ Head(unwritten) \in Item
      /\ Head(unwritten) = unwritten[1]
      /\ Len(Tail(unwritten)) = Len(unwritten) - 1
      /\ \A i \in 1 .. Len(Tail(unwritten)) :
           Tail(unwritten)[i] = unwritten[i + 1]
  BY <1>1, HeadTailProperties, EmptySeq
<1>6. /\ Len(wire'[conn]) = Len(wire[conn]) + 1
      /\ \A i \in 1 .. Len(wire[conn]) : wire'[conn][i] = wire[conn][i]
      /\ wire'[conn][Len(wire[conn]) + 1] = unwritten[1]
  BY <1>2, <1>3, <1>5, AppendProperties
<1>7. unwritten' = Tail(unwritten)
  BY DEF Write
<1> QED BY <1>1, <1>4, <1>5, <1>6, <1>7

\* Arrive takes the first message off a connection.
LEMMA ArriveTakes ==
  ASSUME TypeOK, NEW c \in Conns, Arrive(c)
  PROVE  /\ Len(wire[c]) \in Nat \ {0}
         /\ wire[c][1] \in Item
         /\ Len(wire'[c]) = Len(wire[c]) - 1
         /\ \A i \in 1 .. Len(wire'[c]) : wire'[c][i] = wire[c][i + 1]
         /\ \A d \in Conns \ {c} : wire'[d] = wire[d] /\ seen'[d] = seen[d]
         /\ seen'[c] = wire[c][1].num
         /\ received' = received \cup {wire[c][1].msg}
<1>1. wire[c] \in Seq(Item) /\ wire[c] # <<>>
  BY DEF TypeOK, Arrive
<1>2. /\ Len(wire[c]) \in Nat \ {0}
      /\ Head(wire[c]) \in Item
      /\ Head(wire[c]) = wire[c][1]
      /\ Len(Tail(wire[c])) = Len(wire[c]) - 1
      /\ \A i \in 1 .. Len(Tail(wire[c])) : Tail(wire[c])[i] = wire[c][i + 1]
  BY <1>1, HeadTailProperties, EmptySeq
<1>3. /\ wire'[c] = Tail(wire[c])
      /\ seen'[c] = Head(wire[c]).num
      /\ \A d \in Conns \ {c} : wire'[d] = wire[d] /\ seen'[d] = seen[d]
      /\ received' = received \cup {Head(wire[c]).msg}
  BY DEF Arrive, TypeOK
<1> QED BY <1>2, <1>3

-----------------------------------------------------------------------------
(* The client *)

\* Retries and logins are counted from zero and compared before the next one.
LEMMA CountedInductive ==
  ASSUME TypeOK, Counted, [Next]_vars
  PROVE  Counted'
BY MTGraphiteAssumption
   DEF TypeOK, Counted, vars, client, network, Next, Client, Emitter, Network,
       SendMessages, End, TimePasses, Try, Connect, SendLogin, LoginAccepted,
       LoginRefused, ConnectRaises, Failed, Build, Write, AllWritten, Confirmed,
       OtherReply, Written, SocketRaises, Arrive, Lose

\* A connection is replaced only by a newer one.
LEMMA ConnectedInductive ==
  ASSUME TypeOK, Connected, [Next]_vars
  PROVE  Connected'
<1> USE MTGraphiteAssumption DEF TypeOK, Connected, Conns
<1>1. CASE Connect
  <2>1. /\ opened \in Nat /\ opened' = opened + 1 /\ conn' = opened'
        /\ pc' = "login" /\ wire' = wire /\ seen' = seen
    BY <1>1 DEF Connect, network
  <2>2. conn' # None
    BY <2>1
  <2>3. \A c \in Conns : c > opened' => wire'[c] = <<>> /\ seen'[c] = 0
    BY <2>1
  <2> QED BY <2>1, <2>2, <2>3
<1>2. CASE Write
  <2>1. conn \in Conns /\ conn = opened
    BY <1>2 DEF Write
  <2>2. \A c \in Conns : c > opened => wire'[c] = wire[c]
    BY <1>2, <2>1 DEF Write
  <2> QED BY <1>2, <2>2 DEF Write
<1>3. ASSUME NEW c \in Conns, Arrive(c) PROVE Connected'
  <2>1. ~(c > opened)
    BY <1>3 DEF Arrive
  <2>2. \A d \in Conns : d > opened => wire'[d] = wire[d] /\ seen'[d] = seen[d]
    BY <1>3, <2>1 DEF Arrive
  <2> QED BY <1>3, <2>2 DEF Arrive, client
<1>4. ASSUME NEW c \in Conns, Lose(c) PROVE Connected'
  <2>1. \A d \in Conns : wire'[d] = wire[d] \/ wire'[d] = <<>>
    BY <1>4 DEF Lose
  <2> QED BY <1>4, <2>1 DEF Lose, client
<1>5. CASE /\ UNCHANGED <<opened, wire, seen>>
           /\ \/ conn' = None /\ pc' \notin {"login", "build", "write", "reply"}
              \/ conn' = conn /\ pc' \in {"idle", "try", "failed", "dead", "ended"}
              \/ conn' = conn /\ conn = None /\ pc' = "connect"
              \/ conn' = conn /\ conn # None /\ pc' # "connect"
              \/ conn' = conn /\ pc' = pc
  <2>1. \A c \in Conns : c > opened' => wire'[c] = <<>> /\ seen'[c] = 0
    BY <1>5
  <2>2. conn' # None => conn' = opened'
    BY <1>5
  <2>3. /\ pc' \in {"login", "build", "write", "reply"} => conn' # None
        /\ pc' = "connect" => conn' = None
    BY <1>5
  <2> QED BY <2>1, <2>2, <2>3
<1>6. \/ LoginAccepted \/ LoginRefused \/ ConnectRaises \/ Failed
      => Connected'
  BY <1>5
     DEF SendLogin, LoginAccepted, LoginRefused, ConnectRaises, Failed, network
<1>7. Build \/ AllWritten \/ Confirmed \/ OtherReply \/ SocketRaises
      => Connected'
  BY <1>5
     DEF Build, AllWritten, Confirmed, OtherReply, Written, SocketRaises, network
<1>8. Try => Connected'
  BY <1>5 DEF Try, network
<1>9. Emitter \/ End \/ TimePasses \/ UNCHANGED vars => Connected'
  BY <1>5
     DEF Emitter, SendMessages, End, TimePasses, vars, client, network
<1> QED BY <1>1, <1>2, <1>3, <1>4, <1>6, <1>7, <1>8, <1>9
        DEF Next, Client, Network

\* A frame goes to the end of the queue, and nothing of the queue is forgotten.
LEMMA FrameQueued ==
  ASSUME TypeOK, Queued, NEW n \in 0 .. MaxMessages, SendMessages(n)
  PROVE  /\ n \in Nat /\ accepted \in Nat
         /\ accepted' = accepted + n
         /\ settled' = settled
         /\ Queued'
<1> USE DEF TypeOK, Queued, settled
<1> DEFINE frame == [i \in 1 .. n |-> accepted + i]
<1>1. n \in Nat /\ accepted \in Nat /\ accepted + n <= MaxMessages
  BY MTGraphiteAssumption DEF SendMessages
<1>2. frame \in Seq(Messages) /\ Len(frame) = n
  BY <1>1, FrameSeq
<1>3. /\ Len(msgset \o frame) = Len(msgset) + n
      /\ \A i \in 1 .. Len(msgset) + n :
           (msgset \o frame)[i] = IF i <= Len(msgset) THEN msgset[i]
                                  ELSE frame[i - Len(msgset)]
  BY <1>2, ConcatProperties
<1>4. msgset' = msgset \o frame /\ accepted' = accepted + n
  BY DEF SendMessages
<1>5. Len(msgset) \in Nat
  BY LenProperties
<1>6. ASSUME NEW i \in 1 .. Len(msgset) + n
      PROVE (msgset \o frame)[i] = accepted - Len(msgset) + i
  <2>1. CASE i <= Len(msgset) BY <1>1, <1>3, <1>5, <2>1
  <2>2. CASE i > Len(msgset)
    <3>1. i - Len(msgset) \in 1 .. n BY <1>1, <1>5, <2>2
    <3>2. frame[i - Len(msgset)] = accepted + (i - Len(msgset)) BY <3>1
    <3> QED BY <1>1, <1>3, <1>5, <2>2, <3>2
  <2> QED BY <1>5, <2>1, <2>2
<1> HIDE DEF frame
<1>7. Len(msgset') = Len(msgset) + n
  BY <1>3, <1>4
<1>8. /\ Len(msgset') <= accepted'
      /\ accepted' - Len(msgset') = accepted - Len(msgset)
  BY <1>1, <1>4, <1>5, <1>7
<1>9. \A i \in 1 .. Len(msgset') : msgset'[i] = accepted - Len(msgset) + i
  BY <1>3, <1>4, <1>6
<1> QED BY <1>1, <1>4, <1>8, <1>9

\* The queue grows at its end by the message handed over and shrinks at its head
\* by a batch that was written.
LEMMA QueuedInductive ==
  ASSUME TypeOK, Queued, [Next]_vars
  PROVE  Queued'
<1>1. ASSUME NEW n \in 0 .. MaxMessages, SendMessages(n) PROVE Queued'
  BY <1>1, FrameQueued
<1> USE DEF TypeOK, Queued, settled
<1>2. Written /\ UNCHANGED accepted => Queued'
  BY MTGraphiteAssumption, EmptySeq DEF Written
<1>3. UNCHANGED <<accepted, msgset>> => Queued'
  OBVIOUS
<1> QED
  BY <1>1, <1>2, <1>3
     DEF vars, client, network, Next, Client, Emitter, Network, End, TimePasses,
         Try, Connect, SendLogin, LoginAccepted, LoginRefused, ConnectRaises,
         Failed, Build, Write, AllWritten, Confirmed, OtherReply, SocketRaises,
         Arrive, Lose

\* Writing takes the first message of the batch that is left.
LEMMA PlannedInductive ==
  ASSUME TypeOK, Connected, Queued, Planned, [Next]_vars
  PROVE  Planned'
<1> USE DEF Planned
<1>1. CASE Build
  <2>1. msgset \in Seq(Messages) /\ sequence \in Nat \ {0} /\ accepted \in Nat
    BY MTGraphiteAssumption DEF TypeOK
  <2>2. Len(msgset) \in Nat
    BY <2>1, LenProperties
  <2>3. /\ Len(unwritten') = Len(msgset)
        /\ \A i \in 1 .. Len(msgset) : /\ unwritten'[i].num = sequence + i - 1
                                     /\ unwritten'[i].msg = msgset[i]
    BY <1>1, <2>1, BatchSeq DEF Build
  <2>4. /\ sequence' = sequence + Len(msgset) /\ pc' = "write"
        /\ msgset' = msgset /\ accepted' = accepted
    BY <1>1 DEF Build
  <2>5. \A i \in 1 .. Len(msgset) : msgset[i] = accepted - Len(msgset) + i
    BY DEF Queued, settled
  <2>6. ASSUME NEW i \in 1 .. Len(unwritten')
        PROVE  /\ unwritten'[i].num = sequence' - Len(unwritten') + i - 1
               /\ unwritten'[i].msg = accepted' - Len(unwritten') + i
    <3>1. i \in 1 .. Len(msgset)
      BY <2>3
    <3>2. unwritten'[i].num = sequence + i - 1 /\ unwritten'[i].msg = msgset[i]
      BY <2>3, <3>1
    <3>3. msgset[i] = accepted - Len(msgset) + i
      BY <2>5, <3>1
    <3> QED BY <2>1, <2>2, <2>3, <2>4, <3>1, <3>2, <3>3
  <2> QED BY <2>1, <2>2, <2>3, <2>4, <2>6
<1>2. CASE Write
  <2>1. sequence \in Nat /\ accepted \in Nat /\ Len(msgset) \in Nat
    BY MTGraphiteAssumption, LenProperties DEF TypeOK
  <2>2. /\ Len(unwritten) \in Nat \ {0}
        /\ Len(unwritten') = Len(unwritten) - 1
        /\ \A i \in 1 .. Len(unwritten') : unwritten'[i] = unwritten[i + 1]
    BY <1>2, WriteMoves
  <2>3. /\ pc = "write" /\ pc' = pc /\ sequence' = sequence
        /\ accepted' = accepted /\ msgset' = msgset
    BY <1>2 DEF Write
  <2>4. ASSUME NEW i \in 1 .. Len(unwritten')
        PROVE  /\ unwritten'[i].num = sequence - Len(unwritten') + i - 1
               /\ unwritten'[i].msg = accepted - Len(unwritten') + i
    <3>1. i + 1 \in 1 .. Len(unwritten) /\ unwritten'[i] = unwritten[i + 1]
      BY <2>2
    <3>2. /\ unwritten[i + 1].num = sequence - Len(unwritten) + (i + 1) - 1
          /\ unwritten[i + 1].msg = accepted - Len(unwritten) + (i + 1)
      BY <2>3, <3>1
    <3> QED BY <2>1, <2>2, <3>1, <3>2
  <2>5. Len(unwritten) <= Len(msgset) /\ Len(unwritten) < sequence
    BY <2>3
  <2>6. Len(unwritten') <= Len(msgset') /\ Len(unwritten') < sequence'
    BY <2>1, <2>2, <2>3, <2>5
  <2>7. pc' = "write"
    BY <2>3
  <2> QED BY <2>3, <2>4, <2>6, <2>7
<1>3. pc' \notin {"write", "reply"} => Planned'
  OBVIOUS
<1>4. CASE AllWritten
  <2>1. /\ pc = "write" /\ pc' = "reply"
        /\ UNCHANGED <<accepted, msgset, sequence, unwritten>>
    BY <1>4 DEF AllWritten
  <2>2. unwritten' = <<>>
    BY <1>4 DEF AllWritten
  <2>3. /\ Len(unwritten') <= Len(msgset')
        /\ Len(unwritten') < sequence'
        /\ \A i \in 1 .. Len(unwritten') :
             /\ unwritten'[i].num = sequence' - Len(unwritten') + i - 1
             /\ unwritten'[i].msg = accepted' - Len(unwritten') + i
    BY <2>1
  <2> HIDE DEF Planned
  <2> QED BY <2>2, <2>3 DEF Planned
<1>5. UNCHANGED <<accepted, msgset, sequence, unwritten, pc>> => Planned'
  OBVIOUS
<1> QED
  BY <1>1, <1>2, <1>3, <1>4, <1>5
     DEF vars, client, network, Next, Client, Emitter, Network, End, TimePasses,
         SendMessages, Try, Connect, SendLogin, LoginAccepted, LoginRefused,
         ConnectRaises, Failed, Confirmed, OtherReply, Written, SocketRaises,
         Arrive, Lose

\* A sequence number is given to one message of a connection; a new connection
\* begins at 1 again.
LEMMA NumberedInductive ==
  ASSUME TypeOK, Connected, Planned, Numbered, [Next]_vars
  PROVE  Numbered'
<1>1. \A c \in Conns : wire[c] \in Seq(Item) /\ Len(wire[c]) \in Nat
  BY LenProperties DEF TypeOK
<1>2. sequence \in Nat /\ \A c \in Conns : seen[c] \in Nat
  BY DEF TypeOK
<1>3. Len(msgset) \in Nat /\ Len(unwritten) \in Nat
  BY LenProperties DEF TypeOK
<1>4. conn # None => conn \in Conns
  BY DEF TypeOK
<1>5. CASE Connect
  <2>1. /\ opened' = opened + 1 /\ conn' = opened' /\ opened < MaxConns
        /\ sequence' = 1 /\ pc' = "login" /\ wire' = wire /\ seen' = seen
    BY <1>5 DEF Connect, network
  <2>2. opened' \in Conns /\ opened' > opened
    BY <2>1, MTGraphiteAssumption DEF TypeOK, Conns
  <2>3. wire[opened'] = <<>> /\ seen[opened'] = 0
    BY <2>2 DEF Connected
  <2> QED BY <2>1, <2>3, EmptySeq DEF Numbered, Pending
<1>6. CASE Build
  <2>1. Len(unwritten') = Len(msgset)
    BY <1>6, BatchSeq DEF Build, TypeOK
  <2>2. /\ sequence' = sequence + Len(msgset) /\ pc = "build" /\ pc' = "write"
        /\ wire' = wire /\ seen' = seen /\ conn' = conn
    BY <1>6 DEF Build, network
  <2> QED BY <1>2, <1>3, <2>1, <2>2 DEF Numbered, Pending
<1>7. CASE Write
  <2>1. /\ conn \in Conns
        /\ Len(unwritten) \in Nat \ {0}
        /\ Len(unwritten') = Len(unwritten) - 1
        /\ Len(wire'[conn]) = Len(wire[conn]) + 1
        /\ \A i \in 1 .. Len(wire[conn]) : wire'[conn][i] = wire[conn][i]
        /\ wire'[conn][Len(wire[conn]) + 1] = unwritten[1]
        /\ \A c \in Conns \ {conn} : wire'[c] = wire[c]
    BY <1>7, WriteMoves
  <2>2. /\ pc = "write" /\ pc' = pc /\ sequence' = sequence /\ conn' = conn
        /\ seen' = seen /\ conn # None
    BY <1>7 DEF Write, Connected
  <2>3. /\ unwritten[1].num = sequence - Len(unwritten)
        /\ seen[conn] + Len(wire[conn]) + 1 = sequence - Len(unwritten)
    BY <1>2, <2>1, <2>2 DEF Planned, Numbered, Pending
  <2>4. ASSUME NEW i \in 1 .. Len(wire'[conn])
        PROVE  wire'[conn][i].num = seen[conn] + i
    <3>1. CASE i <= Len(wire[conn])
      <4>1. i \in 1 .. Len(wire[conn]) BY <1>1, <2>1, <3>1
      <4> QED BY <2>1, <4>1 DEF Numbered
    <3>2. CASE i = Len(wire[conn]) + 1
      <4>1. wire'[conn][i].num = sequence - Len(unwritten)
        BY <2>1, <2>3, <3>2
      <4> QED BY <1>1, <1>2, <2>1, <2>3, <3>2, <4>1
    <3> QED BY <1>1, <2>1, <3>1, <3>2
  <2>5. seen[conn] + Len(wire'[conn]) + 1 = sequence - Len(unwritten')
    <3>1. seen[conn] \in Nat /\ Len(wire[conn]) \in Nat
      BY <1>1, <1>2, <2>1
    <3>2. Len(wire'[conn]) = Len(wire[conn]) + 1
      BY <2>1
    <3>3. Len(unwritten) \in Nat /\ Len(unwritten') = Len(unwritten) - 1
      BY <2>1
    <3> QED BY <1>2, <2>3, <3>1, <3>2, <3>3
  <2>6. ASSUME NEW c \in Conns, NEW i \in 1 .. Len(wire'[c])
        PROVE  wire'[c][i].num = seen[c] + i
    <3>1. CASE c = conn BY <2>4, <3>1
    <3>2. CASE c # conn
      <4>1. wire'[c] = wire[c] BY <2>1, <3>2
      <4> QED BY <4>1 DEF Numbered
    <3> QED BY <3>1, <3>2
  <2> QED BY <2>2, <2>5, <2>6 DEF Numbered, Pending
<1>8. CASE AllWritten
  BY <1>2, <1>8, EmptySeq DEF AllWritten, network, Numbered, Pending
<1>9. ASSUME NEW c \in Conns, Arrive(c) PROVE Numbered'
  <2>1. /\ Len(wire[c]) \in Nat \ {0}
        /\ Len(wire'[c]) = Len(wire[c]) - 1
        /\ \A i \in 1 .. Len(wire'[c]) : wire'[c][i] = wire[c][i + 1]
        /\ \A d \in Conns \ {c} : wire'[d] = wire[d] /\ seen'[d] = seen[d]
        /\ seen'[c] = wire[c][1].num
    BY <1>9, ArriveTakes
  <2>2. seen'[c] = seen[c] + 1
    BY <2>1 DEF Numbered
  <2>3. ASSUME NEW i \in 1 .. Len(wire'[c])
        PROVE  wire'[c][i].num = seen'[c] + i
    <3>1. i + 1 \in 1 .. Len(wire[c]) /\ wire'[c][i] = wire[c][i + 1]
      BY <2>1
    <3>2. wire[c][i + 1].num = seen[c] + (i + 1)
      BY <3>1 DEF Numbered
    <3> QED BY <1>2, <2>2, <3>1, <3>2
  <2>4. /\ conn' = conn /\ pc' = pc /\ sequence' = sequence
        /\ unwritten' = unwritten
    BY <1>9 DEF Arrive, client
  <2>5. seen'[c] + Len(wire'[c]) = seen[c] + Len(wire[c])
    <3>1. seen[c] \in Nat /\ Len(wire[c]) \in Nat
      BY <1>1, <1>2
    <3>2. Len(wire'[c]) = Len(wire[c]) - 1
      BY <2>1
    <3> QED BY <2>2, <3>1, <3>2
  <2>6. ASSUME NEW d \in Conns, NEW i \in 1 .. Len(wire'[d])
        PROVE  wire'[d][i].num = seen'[d] + i
    <3>1. CASE d = c BY <2>3, <3>1
    <3>2. CASE d # c BY <2>1, <3>2 DEF Numbered
    <3> QED BY <3>1, <3>2
  <2>7. conn # None =>
          seen'[conn] + Len(wire'[conn]) = seen[conn] + Len(wire[conn])
    BY <1>4, <2>1, <2>5
  <2> QED BY <2>4, <2>6, <2>7 DEF Numbered, Pending
<1>10. ASSUME NEW c \in Conns, Lose(c) PROVE Numbered'
  <2>1. wire'[c] = <<>> /\ \A d \in Conns \ {c} : wire'[d] = wire[d]
    BY <1>10 DEF Lose, TypeOK
  <2>2. /\ conn' = conn /\ pc' = pc /\ sequence' = sequence /\ seen' = seen
        /\ unwritten' = unwritten /\ c # conn
    BY <1>10 DEF Lose, client
  <2> QED BY <1>4, <2>1, <2>2, EmptySeq DEF Numbered, Pending
<1>11. CASE /\ UNCHANGED <<wire, seen>>
            /\ \/ conn' = None
               \/ pc' \in {"failed", "dead"}
               \/ /\ UNCHANGED <<conn, sequence>>
                  /\ pc \notin {"write", "failed", "dead"} /\ pc' # "write"
               \/ UNCHANGED <<conn, sequence, unwritten, pc>>
  BY <1>11 DEF Numbered, Pending
<1> QED
  BY <1>5, <1>6, <1>7, <1>8, <1>9, <1>10, <1>11
     DEF vars, client, network, Next, Client, Emitter, Network, End, TimePasses,
         SendMessages, Try, SendLogin, LoginAccepted, LoginRefused,
         ConnectRaises, Failed, Confirmed, OtherReply, Written, SocketRaises

-----------------------------------------------------------------------------
(* The order of what arrives *)

\* What is written was queued, and what is queued was handed over.
LEMMA KnownInductive ==
  ASSUME TypeOK, Connected, Queued, Planned, Known, [Next]_vars
  PROVE  Known'
<1>1. accepted \in Nat /\ Len(unwritten) \in Nat
  BY MTGraphiteAssumption, LenProperties DEF TypeOK
<1>2. ASSUME NEW c \in Conns, NEW i \in 1 .. Len(wire[c])
      PROVE  wire[c][i].msg \in Messages
  <2>1. wire[c] \in Seq(Item) BY DEF TypeOK
  <2>2. wire[c][i] \in Item BY <2>1, ElementOfSeq
  <2> QED BY <2>2 DEF Item
<1>3. ASSUME NEW n \in 0 .. MaxMessages, SendMessages(n) PROVE Known'
  <2>1. accepted' = accepted + n /\ n \in Nat
    BY <1>3, FrameQueued
  <2>2. \A m \in Messages : m <= accepted => m <= accepted'
    BY <1>1, <2>1 DEF Messages
  <2>3. wire' = wire /\ received' = received
    BY <1>3 DEF SendMessages, network
  <2>4. received \subseteq 1 .. accepted'
    BY <1>1, <2>1 DEF Known
  <2>5. \A c \in Conns : \A i \in 1 .. Len(wire[c]) :
          wire[c][i].msg <= accepted'
    BY <1>2, <2>2 DEF Known
  <2> QED BY <2>3, <2>4, <2>5 DEF Known
<1>4. CASE Write
  <2>1. /\ conn \in Conns
        /\ Len(unwritten) \in Nat \ {0}
        /\ Len(wire[conn]) \in Nat
        /\ Len(wire'[conn]) = Len(wire[conn]) + 1
        /\ \A i \in 1 .. Len(wire[conn]) : wire'[conn][i] = wire[conn][i]
        /\ wire'[conn][Len(wire[conn]) + 1] = unwritten[1]
        /\ \A c \in Conns \ {conn} : wire'[c] = wire[c]
    BY <1>4, WriteMoves, LenProperties DEF TypeOK
  <2>2. unwritten[1].msg = accepted - Len(unwritten) + 1
    BY <1>4, <2>1 DEF Write, Planned
  <2>3. unwritten[1].msg <= accepted
    BY <1>1, <2>1, <2>2
  <2>4. ASSUME NEW i \in 1 .. Len(wire'[conn])
        PROVE  wire'[conn][i].msg <= accepted
    <3>1. CASE i = Len(wire[conn]) + 1 BY <2>1, <2>3, <3>1
    <3>2. CASE i \in 1 .. Len(wire[conn])
      <4>1. wire'[conn][i] = wire[conn][i] BY <2>1, <3>2
      <4> QED BY <2>1, <3>2, <4>1 DEF Known
    <3> QED BY <2>1, <3>1, <3>2
  <2>5. ASSUME NEW c \in Conns, NEW i \in 1 .. Len(wire'[c])
        PROVE  wire'[c][i].msg <= accepted
    <3>1. CASE c = conn BY <2>4, <3>1
    <3>2. CASE c # conn
      <4>1. wire'[c] = wire[c] BY <2>1, <3>2
      <4> QED BY <4>1 DEF Known
    <3> QED BY <3>1, <3>2
  <2>6. accepted' = accepted /\ received' = received
    BY <1>4 DEF Write
  <2> QED BY <2>5, <2>6 DEF Known
<1>5. ASSUME NEW c \in Conns, Arrive(c) PROVE Known'
  <2>1. /\ Len(wire[c]) \in Nat \ {0}
        /\ Len(wire'[c]) = Len(wire[c]) - 1
        /\ \A i \in 1 .. Len(wire'[c]) : wire'[c][i] = wire[c][i + 1]
        /\ \A d \in Conns \ {c} : wire'[d] = wire[d]
        /\ received' = received \cup {wire[c][1].msg}
        /\ accepted' = accepted
    BY <1>5, ArriveTakes DEF Arrive, client
  <2>2. wire[c][1].msg \in 1 .. accepted
    <3>1. 1 \in 1 .. Len(wire[c])
      BY <2>1
    <3>2. wire[c][1].msg \in Messages /\ wire[c][1].msg <= accepted
      BY <1>2, <3>1 DEF Known
    <3> QED BY <1>1, <3>2 DEF Messages
  <2>3. ASSUME NEW i \in 1 .. Len(wire'[c]) PROVE wire'[c][i].msg <= accepted
    <3>1. i + 1 \in 1 .. Len(wire[c]) /\ wire'[c][i] = wire[c][i + 1]
      BY <2>1
    <3> QED BY <3>1 DEF Known
  <2> QED BY <2>1, <2>2, <2>3 DEF Known
<1>6. ASSUME NEW c \in Conns, Lose(c) PROVE Known'
  <2>1. wire'[c] = <<>> /\ \A d \in Conns \ {c} : wire'[d] = wire[d]
    BY <1>6 DEF Lose, TypeOK
  <2> QED BY <1>6, <2>1, EmptySeq DEF Lose, client, Known
<1>7. UNCHANGED <<accepted, wire, received>> => Known'
  BY DEF Known
<1> QED
  BY <1>3, <1>4, <1>5, <1>6, <1>7
     DEF vars, client, network, Next, Client, Emitter, Network, End, TimePasses,
         Try, Connect, SendLogin, LoginAccepted, LoginRefused, ConnectRaises,
         Failed, Build, AllWritten, Confirmed, OtherReply, Written, SocketRaises

\* What arrives is known already or the next message, and what is behind it on
\* its connection follows on.
LEMMA ArriveInOrder ==
  ASSUME TypeOK, Known, NEW c \in Conns, Arrive(c),
         Consecutive, Emptied, Followed, NEW k \in 0 .. accepted, Reached(k)
  PROVE  /\ Consecutive' /\ Emptied' /\ Followed'
         /\ \E n \in 0 .. accepted' : Reached(n)'
<1> DEFINE m == wire[c][1].msg
<1> PICK n : n = IF m = k + 1 THEN k + 1 ELSE k
  OBVIOUS
<1>1. /\ Len(wire[c]) \in Nat \ {0}
      /\ wire[c][1] \in Item
      /\ Len(wire'[c]) = Len(wire[c]) - 1
      /\ \A i \in 1 .. Len(wire'[c]) : wire'[c][i] = wire[c][i + 1]
      /\ \A d \in Conns \ {c} : wire'[d] = wire[d]
      /\ received' = received \cup {m}
  BY ArriveTakes
<1>2. UNCHANGED <<accepted, msgset, conn, pc, unwritten>> /\ wire[c] # <<>>
  BY DEF Arrive, client
<1>3. accepted \in Nat /\ k \in Nat /\ m \in Nat \ {0}
  BY <1>1, MTGraphiteAssumption DEF TypeOK, Item, Messages
<1>4. conn # None => conn \in Conns
  BY DEF TypeOK
<1>5. /\ wire[c] \in Seq(Item) /\ wire'[c] \in Seq(Item)
      /\ wire'[c] # <<>> => Len(wire'[c]) \in Nat \ {0}
      /\ Len(wire'[c]) # 0 => wire'[c] # <<>>
  <2>1. wire[c] \in Seq(Item) /\ wire'[c] = Tail(wire[c])
    BY DEF TypeOK, Arrive
  <2> QED BY <1>2, <2>1, HeadTailProperties, EmptySeq
<1>6. ASSUME NEW i \in 1 .. Len(wire'[c])
      PROVE  wire'[c][i].msg = m + i
  <2>1. i + 1 \in 1 .. Len(wire[c]) /\ wire'[c][i] = wire[c][i + 1]
    BY <1>1
  <2>2. wire[c][i + 1].msg = m + (i + 1) - 1
    BY <2>1 DEF Consecutive
  <2> QED BY <1>3, <2>1, <2>2
<1>7. m <= k + 1 /\ m <= accepted
  <2>1. 1 \in 1 .. Len(wire[c])
    BY <1>1
  <2> QED BY <1>2, <2>1 DEF Reached, Known
<1>8. n \in 0 .. accepted /\ k <= n /\ m <= n
  BY <1>3, <1>7
<1>9. received' = 1 .. n
  BY <1>1, <1>3, <1>7 DEF Reached
<1>10. Consecutive'
  <2>1. ASSUME NEW i \in 1 .. Len(wire'[c])
        PROVE  wire'[c][i].msg = wire'[c][1].msg + i - 1
    <3>1. 1 \in 1 .. Len(wire'[c]) BY <1>1
    <3>2. wire'[c][1].msg = m + 1 BY <1>6, <3>1
    <3>3. wire'[c][i].msg = m + i BY <1>6
    <3> QED BY <1>3, <3>2, <3>3
  <2>2. ASSUME NEW d \in Conns, NEW i \in 1 .. Len(wire'[d])
        PROVE  wire'[d][i].msg = wire'[d][1].msg + i - 1
    <3>1. CASE d = c BY <2>1, <3>1
    <3>2. CASE d # c
      <4>1. wire'[d] = wire[d] BY <1>1, <3>2
      <4> QED BY <4>1 DEF Consecutive
    <3> QED BY <3>1, <3>2
  <2> QED BY <2>2 DEF Consecutive
<1>11. Emptied'
  BY <1>1, <1>2, <1>4 DEF Emptied
<1>12. Followed'
  <2> SUFFICES ASSUME pc \in {"write", "reply"}, wire'[conn] # <<>>
               PROVE  wire'[conn][Len(wire'[conn])].msg
                        = accepted - Len(unwritten)
    BY <1>2 DEF Followed
  <2>1. CASE conn = c
    <3>1. Len(wire'[c]) \in 1 .. Len(wire'[c])
      BY <1>5, <2>1
    <3>2. wire'[c][Len(wire'[c])] = wire[c][Len(wire'[c]) + 1]
      BY <1>1, <3>1
    <3>3. Len(wire'[c]) + 1 = Len(wire[c])
      BY <1>1
    <3> QED BY <1>2, <2>1, <3>2, <3>3 DEF Followed
  <2>2. CASE conn # c
    <3>1. wire'[conn] = wire[conn] BY <2>2 DEF Arrive
    <3> QED BY <3>1 DEF Followed
  <2> QED BY <2>1, <2>2
<1>13. settled' <= n
  BY <1>2, <1>3, <1>8, LenProperties DEF Reached, settled, TypeOK
<1>14. ASSUME NEW d \in Conns, wire'[d] # <<>>
       PROVE  wire'[d][1].msg <= n + 1
  <2>1. CASE d = c
    <3>1. 1 \in 1 .. Len(wire'[c]) BY <1>5, <1>14, <2>1
    <3>2. wire'[c][1].msg = m + 1 BY <1>6, <3>1
    <3> QED BY <1>3, <1>8, <2>1, <3>2
  <2>2. CASE d # c
    <3>1. wire'[d] = wire[d] BY <1>1, <2>2
    <3>2. wire[d][1].msg <= k + 1 BY <1>14, <3>1 DEF Reached
    <3>3. wire[d][1].msg \in Nat
      <4>1. wire[d] \in Seq(Item) /\ wire[d] # <<>>
        BY <1>14, <3>1 DEF TypeOK
      <4>2. wire[d][1] \in Item
        BY <4>1, ElementOfSeq, EmptySeq
      <4> QED BY <4>2 DEF Item, Messages
    <3> QED BY <1>3, <1>8, <3>1, <3>2, <3>3
  <2> QED BY <2>1, <2>2
<1>15. pc \in {"write", "reply"} /\ wire'[conn] = <<>> =>
         accepted - Len(unwritten) <= n
  <2> SUFFICES ASSUME pc \in {"write", "reply"}, wire'[conn] = <<>>
               PROVE  accepted - Len(unwritten) <= n
    OBVIOUS
  <2>1. Len(unwritten) \in Nat
    BY LenProperties DEF TypeOK
  <2>2. CASE conn = c
    <3>1. Len(wire[c]) = 1
      BY <1>1, <1>5, <2>2, EmptySeq
    <3>2. m = accepted - Len(unwritten)
      BY <1>2, <2>2, <3>1 DEF Followed
    <3> QED BY <1>8, <3>2
  <2>3. CASE conn # c
    <3>1. wire'[conn] = wire[conn] BY <2>3 DEF Arrive
    <3>2. accepted - Len(unwritten) <= k BY <3>1 DEF Reached
    <3> QED BY <1>3, <1>8, <2>1, <3>2
  <2> QED BY <2>2, <2>3
<1>16. Reached(n)'
  BY <1>2, <1>9, <1>13, <1>14, <1>15 DEF Reached
<1> QED BY <1>2, <1>8, <1>10, <1>11, <1>12, <1>16

\* What is written follows what is under way, or if that has all arrived, what
\* the server has.
LEMMA WriteInOrder ==
  ASSUME TypeOK, Connected, Planned, Write,
         Consecutive, Followed, NEW k \in 0 .. accepted, Reached(k)
  PROVE  /\ Consecutive' /\ Emptied' /\ Followed'
         /\ Reached(k)'
<1> DEFINE last == Len(wire[conn])
<1>1. /\ conn \in Conns
      /\ Len(unwritten) \in Nat \ {0}
      /\ Len(unwritten') = Len(unwritten) - 1
      /\ Len(wire'[conn]) = last + 1
      /\ \A i \in 1 .. last : wire'[conn][i] = wire[conn][i]
      /\ wire'[conn][last + 1] = unwritten[1]
      /\ \A c \in Conns \ {conn} : wire'[c] = wire[c]
  BY WriteMoves
<1>2. /\ UNCHANGED <<accepted, msgset, conn, pc, received>>
      /\ pc = "write" /\ conn # None
  BY DEF Write, Connected
<1>3. wire[conn] \in Seq(Item) /\ last \in Nat /\ accepted \in Nat /\ k \in Nat
  BY <1>1, MTGraphiteAssumption, LenProperties DEF TypeOK
<1>4. last # 0 <=> wire[conn] # <<>>
  BY <1>3, EmptySeq
<1>5. unwritten[1].msg = accepted - Len(unwritten) + 1
  BY <1>1, <1>2 DEF Planned
<1>6. last # 0 => wire[conn][1].msg \in Nat
  <2> SUFFICES ASSUME last # 0 PROVE wire[conn][1].msg \in Nat
    OBVIOUS
  <2>1. 1 \in 1 .. last
    BY <1>3
  <2>2. wire[conn][1] \in Item
    BY <1>3, <2>1, ElementOfSeq
  <2> QED BY <2>2 DEF Item, Messages
<1>7. last # 0 => unwritten[1].msg = wire[conn][1].msg + last
  <2> SUFFICES ASSUME last # 0 PROVE unwritten[1].msg = wire[conn][1].msg + last
    OBVIOUS
  <2>1. last \in 1 .. last /\ 1 \in 1 .. last
    BY <1>3
  <2>2. wire[conn][1].msg \in Nat
    BY <1>6
  <2>3. wire[conn][last].msg = wire[conn][1].msg + last - 1
    BY <1>1, <2>1 DEF Consecutive
  <2>4. wire[conn][last].msg = accepted - Len(unwritten)
    BY <1>2, <1>4 DEF Followed
  <2>5. Len(unwritten) \in Nat
    BY <1>1
  <2>6. accepted - Len(unwritten) = wire[conn][1].msg + last - 1
    BY <2>3, <2>4
  <2>7. last \in Nat /\ accepted \in Nat
    BY <1>3
  <2>8. accepted - Len(unwritten) + 1 = wire[conn][1].msg + last
    BY <2>2, <2>5, <2>6, <2>7
  <2> QED BY <1>5, <2>8
<1>8. Consecutive'
  <2>1. ASSUME NEW i \in 1 .. last + 1
        PROVE  wire'[conn][i].msg = wire'[conn][1].msg + i - 1
    <3>1. CASE last = 0
      <4>1. i = 1 BY <1>3, <3>1
      <4>2. wire'[conn][1].msg \in Int BY <1>1, <1>3, <1>5, <3>1
      <4> QED BY <4>1, <4>2
    <3>2. CASE last # 0 /\ i <= last
      <4>1. i \in 1 .. last /\ 1 \in 1 .. last BY <1>3, <3>2
      <4>2. wire[conn][i].msg = wire[conn][1].msg + i - 1
        BY <1>1, <4>1 DEF Consecutive
      <4> QED BY <1>1, <4>1, <4>2
    <3>3. CASE last # 0 /\ i = last + 1
      <4>1. 1 \in 1 .. last BY <1>3, <3>3
      <4>2. wire[conn][1].msg \in Nat
        BY <1>6, <3>3
      <4> QED BY <1>1, <1>3, <1>7, <3>3, <4>1, <4>2
    <3> QED BY <1>3, <3>1, <3>2, <3>3
  <2>2. ASSUME NEW c \in Conns, NEW i \in 1 .. Len(wire'[c])
        PROVE  wire'[c][i].msg = wire'[c][1].msg + i - 1
    <3>1. CASE c = conn
      <4>1. i \in 1 .. last + 1 BY <1>1, <3>1
      <4> QED BY <2>1, <3>1, <4>1
    <3>2. CASE c # conn
      <4>1. wire'[c] = wire[c] BY <1>1, <3>2
      <4> QED BY <4>1 DEF Consecutive
    <3> QED BY <3>1, <3>2
  <2> QED BY <2>2 DEF Consecutive
<1>9. Emptied'
  BY <1>2 DEF Emptied
<1>10. Followed'
  BY <1>1, <1>2, <1>3, <1>5 DEF Followed
<1>11. wire'[conn] # <<>>
  BY <1>1, <1>3, EmptySeq
<1>12. wire'[conn][1].msg <= k + 1
  <2>1. CASE last = 0
    <3>1. accepted - Len(unwritten) <= k BY <1>2, <1>4, <2>1 DEF Reached
    <3> QED BY <1>1, <1>3, <1>5, <2>1, <3>1
  <2>2. CASE last # 0
    <3>1. 1 \in 1 .. last BY <1>3, <2>2
    <3> QED BY <1>1, <1>4, <2>2, <3>1 DEF Reached
  <2> QED BY <2>1, <2>2
<1>13. Reached(k)'
  BY <1>1, <1>2, <1>11, <1>12 DEF Reached, settled
<1> QED BY <1>8, <1>9, <1>10, <1>13

\* As long as only "1A" is read, a batch is sent again from its start and the
\* server has all messages up to some k.
LEMMA OrderedInductive ==
  ASSUME TypeOK, Connected, Queued, Planned, Known, Ordered, [Next]_vars
  PROVE  Ordered'
<1> SUFFICES ASSUME reliable'
             PROVE  /\ Consecutive' /\ Emptied' /\ Followed'
                    /\ \E k \in 0 .. accepted' : Reached(k)'
  BY DEF Ordered
<1>1. reliable
  BY DEF vars, client, network, Next, Client, Emitter, Network, SendMessages,
         End, TimePasses, Try, Connect, SendLogin, LoginAccepted, LoginRefused,
         ConnectRaises, Failed, Build, Write, AllWritten, Confirmed, OtherReply,
         SocketRaises, Arrive, Lose
<1>2. Consecutive /\ Emptied /\ Followed
  BY <1>1 DEF Ordered
<1>3. PICK k \in 0 .. accepted : Reached(k)
  BY <1>1 DEF Ordered
<1>4. accepted \in Nat /\ Len(msgset) \in Nat /\ Len(unwritten) \in Nat
  BY MTGraphiteAssumption, LenProperties DEF TypeOK
<1>5. conn # None => conn \in Conns
  BY DEF TypeOK
<1>6. ASSUME NEW n \in 0 .. MaxMessages, SendMessages(n)
      PROVE  /\ Consecutive' /\ Emptied' /\ Followed'
             /\ \E i \in 0 .. accepted' : Reached(i)'
  <2>1. n \in Nat /\ accepted' = accepted + n /\ settled' = settled
    BY <1>6, FrameQueued
  <2>2. /\ UNCHANGED <<wire, conn, received>>
        /\ pc = "idle" /\ pc' \in {"idle", "try"}
    BY <1>6 DEF SendMessages, network
  <2>3. k \in 0 .. accepted'
    BY <1>4, <2>1
  <2>4. Reached(k)'
    BY <1>3, <2>1, <2>2 DEF Reached
  <2> QED BY <1>2, <2>2, <2>3, <2>4 DEF Consecutive, Emptied, Followed
<1>7. CASE Connect
  <2>1. /\ conn' = opened + 1 /\ opened < MaxConns /\ pc' = "login"
        /\ UNCHANGED <<accepted, msgset, wire, received>>
    BY <1>7 DEF Connect, network
  <2>2. wire[opened + 1] = <<>>
    BY <2>1, MTGraphiteAssumption DEF TypeOK, Conns, Connected
  <2>3. Reached(k)'
    BY <1>3, <2>1 DEF Reached, settled
  <2> QED
    BY <1>2, <1>3, <2>1, <2>2, <2>3 DEF Consecutive, Emptied, Followed
<1>8. CASE Build
  <2>1. Len(unwritten') = Len(msgset)
    BY <1>8, BatchSeq DEF Build, TypeOK
  <2>2. /\ pc = "build" /\ pc' = "write" /\ conn # None
        /\ UNCHANGED <<accepted, msgset, conn, wire, received>>
    BY <1>8 DEF Build, network, Connected
  <2>3. wire[conn] = <<>>
    BY <1>2, <2>2 DEF Emptied
  <2>4. Reached(k)'
    BY <1>3, <2>1, <2>2 DEF Reached, settled
  <2> QED BY <1>2, <1>3, <2>2, <2>3, <2>4 DEF Consecutive, Emptied, Followed
<1>9. CASE Write
  <2>1. accepted' = accepted
    BY <1>9 DEF Write
  <2> QED BY <1>2, <1>3, <1>9, <2>1, WriteInOrder
<1>10. CASE AllWritten
  <2>1. UNCHANGED <<accepted, msgset, conn, wire, received, unwritten>>
    BY <1>10 DEF AllWritten, network
  <2>2. pc = "write" /\ pc' = "reply"
    BY <1>10 DEF AllWritten
  <2>3. Reached(k)'
    BY <1>3, <2>1, <2>2 DEF Reached, settled
  <2> QED BY <1>2, <1>3, <2>1, <2>2, <2>3 DEF Consecutive, Emptied, Followed
<1>11. CASE Confirmed
  <2>1. /\ pc = "reply" /\ pc' = "idle" /\ wire[conn] = <<>> /\ msgset' = <<>>
        /\ UNCHANGED <<accepted, conn, wire, received>>
    BY <1>11 DEF Confirmed, Written, network
  <2>2. accepted <= k
    BY <1>3, <1>4, <2>1, EmptySeq DEF Reached, Planned
  <2>3. settled' <= k
    BY <1>4, <2>1, <2>2, EmptySeq DEF settled
  <2>4. Reached(k)'
    BY <1>3, <2>1, <2>3 DEF Reached
  <2> QED BY <1>2, <1>3, <2>1, <2>4 DEF Consecutive, Emptied, Followed
<1>12. CASE OtherReply
  BY <1>1, <1>12 DEF OtherReply
<1>13. ASSUME NEW c \in Conns, Arrive(c)
       PROVE  /\ Consecutive' /\ Emptied' /\ Followed'
              /\ \E i \in 0 .. accepted' : Reached(i)'
  BY <1>2, <1>3, <1>13, ArriveInOrder
<1>14. ASSUME NEW c \in Conns, Lose(c)
       PROVE  /\ Consecutive' /\ Emptied' /\ Followed'
              /\ \E i \in 0 .. accepted' : Reached(i)'
  <2>1. /\ wire'[c] = <<>> /\ \A d \in Conns \ {c} : wire'[d] = wire[d]
        /\ c # conn
        /\ UNCHANGED <<accepted, msgset, conn, pc, unwritten, received>>
    BY <1>14 DEF Lose, client, TypeOK
  <2>2. conn # None => wire'[conn] = wire[conn]
    BY <1>5, <2>1
  <2>3. pc \in {"write", "reply"} => conn # None
    BY DEF Connected
  <2>4. Reached(k)'
    BY <1>3, <2>1, <2>2, <2>3 DEF Reached, settled
  <2>5. Consecutive'
    BY <1>2, <2>1, EmptySeq DEF Consecutive
  <2> QED BY <1>2, <1>3, <2>1, <2>2, <2>3, <2>4, <2>5 DEF Emptied, Followed
<1>15. CASE /\ UNCHANGED <<accepted, msgset, wire, received>>
            /\ \/ UNCHANGED <<conn, pc, unwritten>>
               \/ conn' = None /\ pc' \notin {"write", "reply"}
               \/ pc' \in {"failed", "dead", "connect"}
               \/ /\ conn' = conn
                  /\ pc \in {"idle", "try", "login", "build"}
                  /\ pc' \in {"idle", "try", "login", "build", "ended"}
  <2>1. Reached(k)'
    BY <1>3, <1>15 DEF Reached, settled
  <2> QED BY <1>2, <1>3, <1>15, <2>1 DEF Consecutive, Emptied, Followed
<1> QED
  BY <1>6, <1>7, <1>8, <1>9, <1>10, <1>11, <1>12, <1>13, <1>14, <1>15
     DEF vars, client, network, Next, Client, Emitter, Network, End, TimePasses,
         Try, SendLogin, LoginAccepted, LoginRefused, ConnectRaises, Failed,
         SocketRaises

-----------------------------------------------------------------------------
(* Theorems *)

\* The conjuncts of the invariant support each other in this order.
LEMMA Inductive == Spec => []IInv
<1>1. Init => IInv
  <2> SUFFICES ASSUME Init PROVE IInv
    OBVIOUS
  <2> USE MTGraphiteAssumption DEF Init
  <2>1. TypeOK
    <3>1. <<>> \in Seq(Messages) /\ <<>> \in Seq(Item)
      BY EmptySeq
    <3>2. wire \in [Conns -> Seq(Item)] /\ seen \in [Conns -> Nat]
      BY <3>1
    <3>3. msgset \in Seq(Messages) /\ unwritten \in Seq(Item)
      BY <3>1
    <3>4. /\ reliable \in BOOLEAN /\ late \in BOOLEAN /\ pc \in PCs
          /\ conn \in Conns \cup {None} /\ received \subseteq Messages
      BY DEF PCs
    <3>5. /\ accepted \in 0 .. MaxMessages /\ retries \in 0 .. MaxEmitRetries + 1
          /\ opened \in 0 .. MaxConns /\ logins \in 0 .. 2
          /\ sequence \in Nat \ {0}
      OBVIOUS
    <3> QED BY <3>2, <3>3, <3>4, <3>5 DEF TypeOK
  <2> USE EmptySeq
  <2>2. Counted /\ Connected /\ Queued /\ Planned /\ Numbered /\ Known
    BY DEF Counted, Connected, Queued, settled, Planned, Numbered, Pending,
           Known, Conns
  <2>3. Reached(0)
    BY DEF Reached, settled, Conns
  <2>4. Ordered
    BY <2>3 DEF Ordered, Consecutive, Emptied, Followed, Conns
  <2> QED BY <2>1, <2>2, <2>4 DEF IInv
<1>2. IInv /\ [Next]_vars => IInv'
  BY TypeInductive, CountedInductive, ConnectedInductive, QueuedInductive,
     PlannedInductive, NumberedInductive, KnownInductive, OrderedInductive
     DEF IInv
<1> QED BY <1>1, <1>2, PTL DEF Spec

\* However often the client fails, reconnects and writes a batch again, its
\* counters stay in bounds (an emission gives up after max_emit_retries more
\* attempts, a connection after a second login) and what it queues, writes and
\* has under way are numbered messages.
THEOREM TypeCorrect == Spec => []TypeOK
<1>1. IInv => TypeOK
  BY DEF IInv
<1> QED BY <1>1, Inductive, PTL

\* The server has the first so many messages at any moment, for every batch
\* size and number of retries and connections: a batch that is written again
\* (_write_messages) skips nothing and reorders nothing.
THEOREM NoGapsEver == Spec => []NoGaps
<1>1. IInv => NoGaps
  <2> SUFFICES ASSUME IInv, reliable
               PROVE  received = 1 .. Cardinality(received)
    BY DEF NoGaps
  <2>1. PICK k \in 0 .. accepted : received = 1 .. k
    BY DEF IInv, Ordered, Reached
  <2>2. k \in Nat
    BY MTGraphiteAssumption DEF IInv, TypeOK
  <2>3. Cardinality(1 .. k) = k
    BY <2>2, FS_Interval
  <2> QED BY <2>1, <2>3
<1> QED BY <1>1, Inductive, PTL

\* On a connection the numbers of what arrives count up one by one, whatever
\* has gone wrong on the ones before (_get_socket resets the sequence).
THEOREM Numbering == Spec => NumbersInARow
<1>1. IInv /\ [Next]_vars
        => [\A c \in Conns : seen'[c] \in {seen[c], seen[c] + 1}]_vars
  <2> SUFFICES ASSUME IInv, Next, NEW c \in Conns
               PROVE  seen'[c] \in {seen[c], seen[c] + 1}
    OBVIOUS
  <2>1. ASSUME NEW d \in Conns, Arrive(d)
        PROVE  seen'[c] \in {seen[c], seen[c] + 1}
    <3>1. /\ Len(wire[d]) \in Nat \ {0}
          /\ seen'[d] = wire[d][1].num
          /\ d # c => seen'[c] = seen[c]
      BY <2>1, ArriveTakes DEF IInv
    <3>2. wire[d][1].num = seen[d] + 1
      <4>1. 1 \in 1 .. Len(wire[d]) BY <3>1
      <4> QED BY <4>1 DEF IInv, Numbered
    <3> QED BY <3>1, <3>2
  <2>2. seen' = seen => seen'[c] \in {seen[c], seen[c] + 1}
    OBVIOUS
  <2> QED
    BY <2>1, <2>2
       DEF client, network, Next, Client, Emitter, Network, SendMessages, End,
           TimePasses, Try, Connect, SendLogin, LoginAccepted, LoginRefused,
           ConnectRaises, Failed, Build, Write, AllWritten, Confirmed,
           OtherReply, SocketRaises, Lose
<1> QED BY <1>1, Inductive, PTL DEF Spec, NumbersInARow

-----------------------------------------------------------------------------
(* The client implements OrderedDelivery *)

\* One more message makes one more, or none if it had arrived before.
LEMMA OneMore ==
  ASSUME NEW n \in Nat, NEW S, S \subseteq 1 .. n, NEW m \in 1 .. n
  PROVE  /\ Cardinality(S) \in Nat
         /\ \/ Cardinality(S \cup {m}) = Cardinality(S)
            \/ /\ Cardinality(S \cup {m}) = Cardinality(S) + 1
               /\ Cardinality(S) < n
<1>1. IsFiniteSet(1 .. n) /\ Cardinality(1 .. n) = n
  BY FS_Interval
<1>2. IsFiniteSet(S) /\ Cardinality(S) \in Nat
  BY <1>1, FS_Subset, FS_CardinalityType
<1>3. CASE m \in S
  BY <1>2, <1>3, FS_AddElement
<1>4. CASE m \notin S
  <2>1. Cardinality(S \cup {m}) = Cardinality(S) + 1
    BY <1>2, <1>4, FS_AddElement
  <2>2. (S \cup {m}) \in SUBSET (1 .. n)
    OBVIOUS
  <2>3. Cardinality(S \cup {m}) <= n
    BY <1>1, <2>2, FS_Subset
  <2> QED BY <1>2, <2>1, <2>3
<1> QED BY <1>3, <1>4

\* Every step of the client, the emitter and the network accepts, receives or
\* settles messages as OrderedDelivery allows, or changes nothing it sees.
LEMMA StepImplements ==
  ASSUME IInv, [Next]_vars
  PROVE  [Delivery!Next]_(Delivery!vars)
<1> USE DEF Delivery!Next, Delivery!vars, Delivery!Accept, Delivery!Receive,
            Delivery!Settle
<1>1. /\ accepted \in Nat /\ Len(msgset) \in Nat /\ Len(<<>>) = 0
      /\ TypeOK /\ Connected /\ Queued
  BY MTGraphiteAssumption, LenProperties, EmptySeq DEF IInv, TypeOK
<1>2. ASSUME NEW n \in 0 .. MaxMessages, SendMessages(n)
      PROVE  [Delivery!Next]_(Delivery!vars)
  <2>1. n \in Nat /\ accepted' = accepted + n /\ settled' = settled
    BY <1>1, <1>2, FrameQueued
  <2>2. UNCHANGED <<reliable, received>>
    BY <1>2 DEF SendMessages, network
  <2> QED BY <1>1, <2>1, <2>2 DEF settled
<1>3. CASE Confirmed
  <2>1. /\ pc = "reply" /\ wire[conn] = <<>> /\ msgset' = <<>>
        /\ UNCHANGED <<reliable, accepted, received>>
    BY <1>3 DEF Confirmed, Written, network
  <2>2. ASSUME reliable PROVE Cardinality(received) = accepted
    <3>1. PICK k \in 0 .. accepted : Reached(k)
      BY <2>2 DEF IInv, Ordered
    <3>2. unwritten = <<>>
      BY <2>1 DEF IInv, Planned
    <3>3. k = accepted /\ received = 1 .. accepted
      BY <1>1, <2>1, <3>1, <3>2 DEF Reached
    <3> QED BY <1>1, <3>3, FS_Interval
  <2> QED BY <1>1, <2>1, <2>2
<1>4. CASE OtherReply
  <2>1. ~reliable /\ msgset' = <<>> /\ UNCHANGED <<reliable, accepted, received>>
    BY <1>4 DEF OtherReply, Written, network
  <2> QED BY <1>1, <2>1
<1>5. ASSUME NEW c \in Conns, Arrive(c)
      PROVE  [Delivery!Next]_(Delivery!vars)
  <2>1. received' = received \cup {wire[c][1].msg} /\ Len(wire[c]) \in Nat \ {0}
    BY <1>1, <1>5, ArriveTakes
  <2>2. UNCHANGED <<reliable, accepted, msgset>>
    BY <1>5 DEF Arrive, client
  <2>3. wire[c][1].msg \in received'
    BY <2>1
  <2>4. received' \subseteq 1 .. accepted
    BY <2>2, KnownInductive DEF IInv, Known
  <2>5. \/ Cardinality(received') = Cardinality(received)
        \/ /\ Cardinality(received') = Cardinality(received) + 1
           /\ Cardinality(received) < accepted
    BY <1>1, <2>1, <2>3, <2>4, OneMore DEF IInv, Known
  <2> QED BY <2>2, <2>5
<1>6. UNCHANGED <<reliable, accepted, received, msgset>>
        => [Delivery!Next]_(Delivery!vars)
  OBVIOUS
<1> QED
  BY <1>2, <1>3, <1>4, <1>5, <1>6
     DEF vars, client, network, Next, Client, Emitter, Network, End, TimePasses,
         Try, Connect, SendLogin, LoginAccepted, LoginRefused, ConnectRaises,
         Failed, Build, Write, AllWritten, SocketRaises, Lose

\* For any constants the client is a batching client as OrderedDelivery wants
\* it: nothing arrives before it was handed over, and a batch is forgotten only
\* when all of it has arrived, so long as nothing but "1A" is ever read.
THEOREM Implements == Spec => DeliversInOrder
<1>1. Init => Delivery!Init
  <2>1. Cardinality({}) = 0
    BY FS_EmptySet
  <2> SUFFICES ASSUME Init PROVE Delivery!Init
    OBVIOUS
  <2>2. Cardinality(received) = 0 /\ accepted = 0 /\ reliable \in BOOLEAN
    BY <2>1 DEF Init
  <2>3. Len(msgset) = 0
    BY EmptySeq DEF Init
  <2>4. accepted - Len(msgset) = 0
    BY <2>2, <2>3
  <2> QED BY <2>2, <2>4 DEF Delivery!Init
<1>2. IInv /\ [Next]_vars => [Delivery!Next]_(Delivery!vars)
  BY StepImplements
<1> QED BY <1>1, <1>2, Inductive, PTL DEF Spec, DeliversInOrder, Delivery!Spec
=============================================================================
