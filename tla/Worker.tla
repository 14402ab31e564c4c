------------------------------- MODULE Worker -------------------------------
(***************************************************************************)
(* The crawler's main loop (crawler/worker.py): Worker.run, the polling    *)
(* phase and the crawl of Worker.iterate, and the computation of the next  *)
(* iteration time.  Every read of time.time() is a step of its own, so     *)
(* the clock may move between any two of them.  The work of one            *)
(* crawler.crawl() is a single step here; ContainersCrawl models it.       *)
(***************************************************************************)
EXTENDS Integers

CONSTANTS Frequencies,  \* the values of --frequency considered
          None,         \* Python's None
          MaxClock,     \* bound: time stops there
          MaxIter       \* bound: no iteration starts at that iter_count

ASSUME WorkerAssumption == /\ Frequencies \subseteq Int
                           /\ None \notin Int
                           /\ MaxClock \in Nat
                           /\ MaxIter \in Nat

VARIABLES clock,                \* time.time(), never set back
          frequency,            \* self.frequency
          next_iteration_time,  \* self.next_iteration_time
          iter_count,           \* self.iter_count
          pc,                   \* where run() is
          timeout,              \* time_to_sleep of run(), timeout of iterate()
          snapshot_time,        \* local of run()
          end_time,             \* local of iterate()
          wake                  \* when the sleep of polling_crawl is over

locals == <<timeout, snapshot_time, end_time, wake>>
vars == <<clock, frequency, next_iteration_time, iter_count, pc, locals>>

PCs == {"snapshot", "arm", "poll", "sleeping", "crawl", "plan", "skip",
        "measure", "done", "dead"}

\* Mutant of Init: the iteration counter starts before zero.
InitNegative == /\ clock = 0
                /\ frequency \in Frequencies
                /\ next_iteration_time = None
                /\ iter_count = -1
                /\ pc = "snapshot"
                /\ timeout = 0
                /\ snapshot_time = 0
                /\ end_time = 0
                /\ wake = 0

Init == /\ clock = 0
        /\ frequency \in Frequencies
        /\ next_iteration_time = None
        /\ iter_count = 0
        /\ pc = "snapshot"
        /\ timeout = 0
        /\ snapshot_time = 0
        /\ end_time = 0
        /\ wake = 0

-----------------------------------------------------------------------------
(* Worker.run *)

\* snapshot_time = time.time()
Snapshot == /\ pc = "snapshot"
            /\ iter_count < MaxIter
            /\ snapshot_time' = clock
            /\ pc' = "arm"
            /\ UNCHANGED <<clock, frequency, next_iteration_time, iter_count,
                           timeout, end_time, wake>>

(* Worker.iterate *)

\* end_time = time.time() + timeout
Arm == /\ pc = "arm"
       /\ end_time' = clock + timeout
       /\ pc' = "poll"
       /\ UNCHANGED <<clock, frequency, next_iteration_time, iter_count,
                      timeout, snapshot_time, wake>>

\* polling_crawl(timeout) starts; in every crawler it comes down to
\* time.sleep(timeout) and the answer None.
PollSleep == /\ pc = "poll"
             /\ timeout > 0
             /\ wake' = clock + timeout
             /\ pc' = "sleeping"
             /\ UNCHANGED <<clock, frequency, next_iteration_time, iter_count,
                            timeout, snapshot_time, end_time>>

\* Mutant of PollReturn: what is left of the timeout is not computed anew.
PollReturnStale == /\ pc = "sleeping"
                   /\ clock >= wake
                   /\ iter_count' = iter_count + 1
                   /\ pc' = "poll"
                   /\ UNCHANGED <<clock, frequency, next_iteration_time, locals>>

\* The sleep is over, what is left of the timeout is computed anew.
PollReturn == /\ pc = "sleeping"
              /\ clock >= wake
              /\ timeout' = end_time - clock
              /\ iter_count' = iter_count + 1
              /\ pc' = "poll"
              /\ UNCHANGED <<clock, frequency, next_iteration_time,
                             snapshot_time, end_time, wake>>

\* Mutant of StartCrawl: the remaining timeout is not looked at.
StartCrawlAtOnce == /\ pc = "poll"
                    /\ pc' = "crawl"
                    /\ UNCHANGED <<clock, frequency, next_iteration_time,
                                   iter_count, locals>>

StartCrawl == /\ pc = "poll"
              /\ timeout <= 0
              /\ pc' = "crawl"
              /\ UNCHANGED <<clock, frequency, next_iteration_time, iter_count,
                             locals>>

\* All frames are crawled and emitted.
FinishCrawl == /\ pc = "crawl"
               /\ iter_count' = iter_count + 1
               /\ pc' = "plan"
               /\ UNCHANGED <<clock, frequency, next_iteration_time, locals>>

\* Nothing in run() or main() catches an exception of crawl() or of emit().
CrawlRaises == /\ pc = "crawl"
               /\ pc' = "dead"
               /\ UNCHANGED <<clock, frequency, next_iteration_time,
                              iter_count, locals>>

-----------------------------------------------------------------------------
\* A negative frequency ends the run after the first iteration.
RunOnce == /\ pc = "plan"
           /\ frequency < 0
           /\ pc' = "done"
           /\ UNCHANGED <<clock, frequency, next_iteration_time, iter_count,
                          locals>>

(* Worker._get_next_iteration_time *)

\* Frequency zero: crawl again at once, keep no schedule.
NoSchedule == /\ pc = "plan"
              /\ frequency = 0
              /\ timeout' = 0
              /\ pc' = "snapshot"
              /\ UNCHANGED <<clock, frequency, next_iteration_time, iter_count,
                             snapshot_time, end_time, wake>>

NextSlot == IF next_iteration_time = None
            THEN snapshot_time + frequency
            ELSE next_iteration_time + frequency

Plan == /\ pc = "plan"
        /\ frequency > 0
        /\ next_iteration_time' = NextSlot
        /\ pc' = "skip"
        /\ UNCHANGED <<clock, frequency, iter_count, locals>>

\* Mutants of Behind: the slot itself, not the one after it, is compared with
\* the clock; the frequency is subtracted.
BehindBySlot == next_iteration_time < clock
BehindWrongSign == next_iteration_time - frequency < clock

\* The test of the while loop, which reads the clock every time round.
Behind == next_iteration_time + frequency < clock

SkipSlot == /\ pc = "skip"
            /\ Behind
            /\ next_iteration_time' = next_iteration_time + frequency
            /\ UNCHANGED <<clock, frequency, iter_count, pc, locals>>

CaughtUp == /\ pc = "skip"
            /\ ~Behind
            /\ pc' = "measure"
            /\ UNCHANGED <<clock, frequency, next_iteration_time, iter_count,
                           locals>>

\* time_to_sleep, with yet another reading of the clock; it may be negative.
Measure == /\ pc = "measure"
           /\ timeout' = next_iteration_time - clock
           /\ pc' = "snapshot"
           /\ UNCHANGED <<clock, frequency, next_iteration_time, iter_count,
                          snapshot_time, end_time, wake>>

-----------------------------------------------------------------------------
Tick == /\ clock < MaxClock
        /\ clock' = clock + 1
        /\ UNCHANGED <<frequency, next_iteration_time, iter_count, pc, locals>>

Step == \/ Snapshot \/ Arm \/ PollSleep \/ PollReturn \/ StartCrawl
        \/ FinishCrawl \/ CrawlRaises
        \/ RunOnce \/ NoSchedule \/ Plan \/ SkipSlot \/ CaughtUp \/ Measure

Next == Step \/ Tick

Spec == Init /\ [][Next]_vars

\* The loop is an ordinary process (it runs when it can) and time goes on.
FairSpec == Spec /\ WF_vars(Step) /\ WF_vars(Tick)

-----------------------------------------------------------------------------
(* Properties *)

TypeOK == /\ clock \in Nat
          /\ frequency \in Frequencies
          /\ next_iteration_time \in Int \cup {None}
          /\ iter_count \in Nat
          /\ pc \in PCs
          /\ timeout \in Int
          /\ snapshot_time \in Nat
          /\ end_time \in Int
          /\ wake \in Int

\* run() never asks iterate() to sleep for more than one period, however the
\* clock moved between its readings: a schedule that ran ahead of the clock
\* would make the crawler sleep through slots.
SleepAtMostOnePeriod == frequency >= 0 => timeout <= frequency

\* A regular crawl never starts before the time it is scheduled for, though
\* the sleep is computed from clock readings taken in three different places.
NeverEarly ==
  pc = "crawl" /\ next_iteration_time # None => next_iteration_time <= clock

\* The slot the schedule waits for: the one after the current crawl's once
\* that crawl has started.  There is none when the frequency is zero.
Due == IF frequency = 0 THEN None
       ELSE IF pc \in {"crawl", "plan", "done", "dead"} THEN NextSlot
       ELSE next_iteration_time

Schedule == INSTANCE PeriodicSchedule
              WITH NotYet <- None, now <- clock, period <- frequency,
                   due <- Due, busy <- pc \in {"crawl", "dead"}

\* Worker.run keeps the schedule of PeriodicSchedule: no drift from the grid
\* laid by the first snapshot, no slot crawled twice or early, a slot dropped
\* only when its successor is already in the past, and one crawl only when
\* the frequency is negative.
KeepsSchedule == Schedule!Spec

\* A sleep that ends within the modelled time is followed by a crawl.
WakesUp == (pc = "sleeping" /\ wake <= MaxClock) ~> (pc \in {"crawl", "dead"})

=============================================================================
