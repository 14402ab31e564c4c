-------------------------- MODULE PeriodicSchedule --------------------------
(***************************************************************************)
(* What the worker's main loop promises about WHEN it crawls, with none of *)
(* the variables it uses to get there.  With a positive period, crawls     *)
(* happen on the points of a grid, first, first + period, first +          *)
(* 2*period, ... (a "slot" each): a slot is crawled at most once and never *)
(* before its time, and it is given up only when the slot after it has     *)
(* gone by as well.  Period zero crawls back to back, a negative one once. *)
(***************************************************************************)
EXTENDS Integers

CONSTANTS NotYet     \* the value of due while there is no grid

VARIABLES now,       \* the time of day
          period,    \* the distance of two slots
          due,       \* the earliest slot neither crawled nor given up
          busy       \* a crawl is going on

vars == <<now, period, due, busy>>

Init == /\ now = 0
        /\ period \in Int
        /\ due = NotYet
        /\ busy = FALSE

\* Time goes by.
Pass == /\ now' > now
        /\ UNCHANGED <<period, due, busy>>

\* The first crawl lays the grid: its slot, number zero, is a moment that is
\* not in the future.
First == /\ ~busy
         /\ busy' = TRUE
         /\ period # 0
         /\ due = NotYet
         /\ \E first \in 0 .. now : due' = first + period
         /\ UNCHANGED <<now, period>>

\* A slot whose time has come is crawled.
Serve == /\ ~busy
         /\ busy' = TRUE
         /\ period > 0
         /\ due # NotYet
         /\ due <= now
         /\ due' = due + period
         /\ UNCHANGED <<now, period>>

\* Without a period there is no grid to keep to.
AtOnce == /\ ~busy
          /\ busy' = TRUE
          /\ period = 0
          /\ UNCHANGED <<now, period, due>>

Finish == /\ busy
          /\ busy' = FALSE
          /\ UNCHANGED <<now, period, due>>

\* A slot is given up, but only if the next one is already in the past.
Skip == /\ ~busy
        /\ period > 0
        /\ due # NotYet
        /\ due + period < now
        /\ due' = due + period
        /\ UNCHANGED <<now, period, busy>>

Next == Pass \/ First \/ Serve \/ AtOnce \/ Finish \/ Skip

Spec == Init /\ [][Next]_vars
=============================================================================
