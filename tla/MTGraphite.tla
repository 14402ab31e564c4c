------------------------------ MODULE MTGraphite ------------------------------
(***************************************************************************)
(* The client of the mtgraphite emitter (crawler/utils/mtgraphite.py): it  *)
(* queues messages, writes them in batches over a connection it keeps      *)
(* open, and on any exception closes it, reconnects and writes the whole   *)
(* batch again.  Messages are numbered in the order send_messages gets     *)
(* them.  A connection carries what was written in order; what is under    *)
(* way when the client closes it may still arrive, or be lost.             *)
(***************************************************************************)
EXTENDS Naturals, Sequences, FiniteSets

CONSTANTS BatchSize,       \* batch_send_every_n
          MaxEmitRetries,  \* max_emit_retries of _write_messages
          MaxMessages,     \* bound: messages handed to the client
          MaxConns,        \* bound: connections opened
          None             \* Python's None

ASSUME MTGraphiteAssumption == /\ BatchSize \in Nat \ {0}
                               /\ MaxEmitRetries \in Nat
                               /\ MaxMessages \in Nat
                               /\ MaxConns \in Nat
                               /\ None \notin Nat

VARIABLES reliable,   \* does the client never read anything but "1A"?
          accepted,   \* number of messages send_messages was given
          msgset,     \* self.msgset
          late,       \* time.time() > self.next_timeout
          pc,         \* where the client is
          retries,    \* local of _write_messages
          conn,       \* self.conn: None or the number of the connection
          opened,     \* how many connections were opened
          logins,     \* authentication messages sent on the newest connection
          sequence,   \* self.sequence
          unwritten,  \* what of messages_string is not written yet
          wire,       \* what is under way on each connection
          seen,       \* the last sequence number to arrive on each connection
          received    \* the messages that have arrived

client == <<accepted, msgset, late, pc, retries, conn, opened, logins,
            sequence, unwritten>>
network == <<reliable, wire, seen, received>>
vars == <<client, network>>

PCs == {"idle", "try", "connect", "login", "build", "write", "reply",
        "failed", "dead", "ended"}
Conns == 1 .. MaxConns
Messages == 1 .. MaxMessages
Item == [num : Nat, msg : Messages]

Init == /\ reliable \in BOOLEAN
        /\ accepted = 0
        /\ msgset = <<>>
        /\ late = FALSE
        /\ pc = "idle"
        /\ retries = 0
        /\ conn = None
        /\ opened = 0
        /\ logins = 0
        /\ sequence = 1
        /\ unwritten = <<>>
        /\ wire = [c \in Conns |-> <<>>]
        /\ seen = [c \in Conns |-> 0]
        /\ received = {}

-----------------------------------------------------------------------------
(* send_messages *)

\* batch_send_every_t seconds have gone by since the last batch.
TimePasses == /\ late' = TRUE
              /\ UNCHANGED <<accepted, msgset, pc, retries, conn, opened,
                             logins, sequence, unwritten, network>>

\* Mutant of SendMessages: a batch is written when it is full, never because
\* of its age.
SendMessagesBySize(n) ==
  /\ pc = "idle"
  /\ accepted + n <= MaxMessages
  /\ accepted' = accepted + n
  /\ msgset' = msgset \o [i \in 1 .. n |-> accepted + i]
  /\ retries' = 0
  /\ pc' = IF Len(msgset') >= BatchSize THEN "try" ELSE "idle"
  /\ UNCHANGED <<late, conn, opened, logins, sequence, unwritten, network>>

\* MtGraphiteEmitter.emit hands over the lines of a frame, possibly none.
SendMessages(n) ==
  /\ pc = "idle"
  /\ accepted + n <= MaxMessages
  /\ accepted' = accepted + n
  /\ msgset' = msgset \o [i \in 1 .. n |-> accepted + i]
  /\ retries' = 0
  /\ pc' = IF Len(msgset') >= BatchSize \/ late THEN "try" ELSE "idle"
  /\ UNCHANGED <<late, conn, opened, logins, sequence, unwritten, network>>

\* The crawl is over and the process ends; nobody flushes the queue.
End == /\ pc = "idle"
       /\ pc' = "ended"
       /\ UNCHANGED <<accepted, msgset, late, retries, conn, opened, logins,
                      sequence, unwritten, network>>

\* _write_messages came back: the batch is forgotten.
Written == /\ pc' = "idle"
           /\ msgset' = <<>>
           /\ late' = FALSE

-----------------------------------------------------------------------------
(* _write_messages and _get_socket *)

Try == /\ pc = "try"
       /\ retries' = retries + 1
       /\ pc' = IF conn = None THEN "connect" ELSE "build"
       /\ UNCHANGED <<accepted, msgset, late, conn, opened, logins, sequence,
                      unwritten, network>>

\* Mutant of Connect: the sequence numbers go on.
ConnectSameSequence ==
  /\ pc = "connect"
  /\ opened < MaxConns
  /\ opened' = opened + 1
  /\ conn' = opened'
  /\ logins' = 0
  /\ pc' = "login"
  /\ UNCHANGED <<accepted, msgset, late, retries, sequence, unwritten, network>>

Connect == /\ pc = "connect"
           /\ opened < MaxConns
           /\ opened' = opened + 1
           /\ conn' = opened'
           /\ sequence' = 1
           /\ logins' = 0
           /\ pc' = "login"
           /\ UNCHANGED <<accepted, msgset, late, retries, unwritten, network>>

SendLogin == /\ pc = "login"
             /\ logins' = logins + 1

LoginAccepted == /\ SendLogin
                 /\ pc' = "build"
                 /\ UNCHANGED <<accepted, msgset, late, retries, conn, opened,
                                sequence, unwritten, network>>

\* The server answers "0A" (or the first login raises for another reason): the
\* first time, the client logs in once more.
LoginRefused == /\ SendLogin
                /\ IF logins = 0 THEN UNCHANGED <<pc, conn>>
                   ELSE pc' = "failed" /\ conn' = None
                /\ UNCHANGED <<accepted, msgset, late, retries, opened,
                               sequence, unwritten, network>>

\* No connection, or an exception during the identification: _get_socket
\* closes what there is and raises.
ConnectRaises == /\ pc \in {"connect", "login"}
                 /\ pc' = "failed"
                 /\ conn' = None
                 /\ sequence' = 1
                 /\ UNCHANGED <<accepted, msgset, late, retries, opened, logins,
                                unwritten, network>>

\* Mutant of Failed: one attempt too many.
FailedOnceMore ==
  /\ pc = "failed"
  /\ IF retries <= MaxEmitRetries + 1
     THEN pc' = "try" /\ conn' = None
     ELSE pc' = "dead" /\ UNCHANGED conn
  /\ UNCHANGED <<accepted, msgset, late, retries, opened, logins, sequence,
                 unwritten, network>>

\* Mutant of Failed: the last exception is swallowed.
FailedSwallows ==
  /\ pc = "failed"
  /\ IF retries <= MaxEmitRetries
     THEN /\ pc' = "try"
          /\ conn' = None
          /\ UNCHANGED <<msgset, late>>
     ELSE /\ Written
          /\ UNCHANGED conn
  /\ UNCHANGED <<accepted, retries, opened, logins, sequence, unwritten,
                 network>>

\* Any exception: close and try again, or let it end the crawler.
Failed == /\ pc = "failed"
          /\ IF retries <= MaxEmitRetries
             THEN pc' = "try" /\ conn' = None
             ELSE pc' = "dead" /\ UNCHANGED conn
          /\ UNCHANGED <<accepted, msgset, late, retries, opened, logins,
                         sequence, unwritten, network>>

-----------------------------------------------------------------------------
(* _write_messages_no_retries *)

\* Mutant of Build: an attempt goes on where the last one stopped writing.
BuildRest == /\ pc = "build"
             /\ unwritten' = IF unwritten # <<>> THEN unwritten
                             ELSE [i \in 1 .. Len(msgset) |->
                                     [num |-> sequence + i - 1,
                                      msg |-> msgset[i]]]
             /\ sequence' = sequence + Len(msgset)
             /\ pc' = "write"
             /\ UNCHANGED <<accepted, msgset, late, retries, conn, opened,
                            logins, network>>

\* messages_string holds the whole batch, numbered.
Build == /\ pc = "build"
         /\ unwritten' = [i \in 1 .. Len(msgset) |->
                            [num |-> sequence + i - 1, msg |-> msgset[i]]]
         /\ sequence' = sequence + Len(msgset)
         /\ pc' = "write"
         /\ UNCHANGED <<accepted, msgset, late, retries, conn, opened, logins,
                        network>>

\* s.write() takes some of the bytes: here, one message.
Write == /\ pc = "write"
         /\ unwritten # <<>>
         /\ wire' = [wire EXCEPT ![conn] = Append(@, Head(unwritten))]
         /\ unwritten' = Tail(unwritten)
         /\ UNCHANGED <<accepted, msgset, late, pc, retries, conn, opened,
                        logins, sequence, reliable, seen, received>>

AllWritten == /\ pc = "write"
              /\ unwritten = <<>>
              /\ pc' = "reply"
              /\ UNCHANGED <<accepted, msgset, late, retries, conn, opened,
                             logins, sequence, unwritten, network>>

\* The server confirms a batch that has arrived.
Confirmed == /\ pc = "reply"
             /\ wire[conn] = <<>>
             /\ Written
             /\ UNCHANGED <<accepted, retries, conn, opened, logins, sequence,
                            unwritten, network>>

\* Whatever else s.read() returns, and that includes the empty string of a
\* connection the server has closed, counts as success too.
OtherReply == /\ pc = "reply"
              /\ ~reliable
              /\ Written
              /\ UNCHANGED <<accepted, retries, conn, opened, logins, sequence,
                             unwritten, network>>

\* s.write() or s.read() raises, or times out after 120 seconds.
SocketRaises == /\ pc \in {"write", "reply"}
                /\ pc' = "failed"
                /\ UNCHANGED <<accepted, msgset, late, retries, conn, opened,
                               logins, sequence, unwritten, network>>

-----------------------------------------------------------------------------
(* The network and the server *)

Arrive(c) == /\ wire[c] # <<>>
             /\ wire' = [wire EXCEPT ![c] = Tail(@)]
             /\ seen' = [seen EXCEPT ![c] = Head(wire[c]).num]
             /\ received' = received \cup {Head(wire[c]).msg}
             /\ UNCHANGED <<client, reliable>>

\* A connection that is not in use any more loses what it still carries.
Lose(c) == /\ c # conn
           /\ wire[c] # <<>>
           /\ wire' = [wire EXCEPT ![c] = <<>>]
           /\ UNCHANGED <<client, reliable, seen, received>>

Network == \E c \in Conns : Arrive(c) \/ Lose(c)

Client == \/ Try \/ Connect \/ LoginAccepted \/ LoginRefused \/ ConnectRaises
          \/ Failed \/ Build \/ Write \/ AllWritten
          \/ Confirmed \/ OtherReply \/ SocketRaises

Emitter == \E n \in 0 .. MaxMessages : SendMessages(n)

Next == Client \/ Emitter \/ End \/ TimePasses \/ Network

Spec == Init /\ [][Next]_vars

\* Calls come to an end, time passes, the crawler goes on emitting frames (but
\* it need not find anything to put into them), and what was written to a
\* connection arrives, is lost, or makes the client time out.
FairSpec == /\ Spec
            /\ WF_vars(Client) /\ WF_vars(TimePasses) /\ WF_vars(Emitter)

-----------------------------------------------------------------------------
(* Properties *)

TypeOK == /\ reliable \in BOOLEAN
          /\ accepted \in 0 .. MaxMessages
          /\ msgset \in Seq(Messages)
          /\ late \in BOOLEAN
          /\ pc \in PCs
          /\ retries \in 0 .. MaxEmitRetries + 1
          /\ conn \in Conns \cup {None}
          /\ opened \in 0 .. MaxConns
          /\ logins \in 0 .. 2
          /\ sequence \in Nat \ {0}
          /\ unwritten \in Seq(Item)
          /\ wire \in [Conns -> Seq(Item)]
          /\ seen \in [Conns -> Nat]
          /\ received \subseteq Messages

\* Retries duplicate messages but never skip or reorder one: at any moment the
\* server has the first so many messages, also when leftovers of an abandoned
\* connection arrive between those of the next, so long as nothing but "1A" is
\* ever read.
NoGaps == reliable => received = 1 .. Cardinality(received)

\* On every connection the sequence numbers count from 1 without a gap,
\* whatever failed on the connections before it.
NumbersInARow == [][\A c \in Conns : seen'[c] \in {seen[c], seen[c] + 1}]_vars

Delivery == INSTANCE OrderedDelivery
              WITH received <- Cardinality(received),
                   settled <- accepted - Len(msgset)

\* Nothing arrives before it was handed over, and the client forgets a batch
\* only when all of it has arrived, so long as nothing but "1A" is ever read.
DeliversInOrder == Delivery!Spec

\* A message that was handed over arrives in the end, though nothing but later
\* frames makes the client send it, unless the crawler ends or dies first; so
\* long as nothing but "1A" is ever read.
EventuallyArrives ==
  \A m \in Messages : reliable /\ m <= accepted
                         ~> m \in received \/ pc \in {"dead", "ended"}

\* A batch is forgotten without an exception only if it has arrived
\* (send_messages: "raises on error").
RaisesOnError == [][msgset # <<>> /\ msgset' = <<>> =>
                      \A i \in 1 .. Len(msgset) : msgset[i] \in received]_vars
=============================================================================
