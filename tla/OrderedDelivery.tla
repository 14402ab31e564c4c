--------------------------- MODULE OrderedDelivery ---------------------------
(***************************************************************************)
(* What a batching client owes to whoever hands it messages: they reach    *)
(* the server in the order they were accepted, none is skipped, and the    *)
(* client lets go of them only when the server has them all, which it can  *)
(* know only from a reliable server.  A message that arrives again changes *)
(* nothing here.                                                           *)
(***************************************************************************)
EXTENDS Naturals

VARIABLES reliable,  \* does the server tell what it has received?
          accepted,  \* messages handed to the client so far
          received,  \* how many of them have reached the server
          settled    \* messages 1 .. settled are forgotten by the client

vars == <<reliable, accepted, received, settled>>

Init == /\ reliable \in BOOLEAN
        /\ accepted = 0 /\ received = 0 /\ settled = 0

Accept == /\ accepted' > accepted
          /\ UNCHANGED <<reliable, received, settled>>

Receive == /\ received < accepted
           /\ received' = received + 1
           /\ UNCHANGED <<reliable, accepted, settled>>

Settle == /\ reliable => received = accepted
          /\ settled' = accepted
          /\ UNCHANGED <<reliable, accepted, received>>

Next == Accept \/ Receive \/ Settle

Spec == Init /\ [][Next]_vars
=============================================================================
