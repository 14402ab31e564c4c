---------------------------- MODULE WorkerProofs ----------------------------
(***************************************************************************)
(* Theorems about Worker, for every set of frequencies and every horizon.  *)
(* The schedule is right only because three facts travel together round    *)
(* the loop: the sleep planned reaches at least to the slot (WaitsForSlot), *)
(* it reaches no further than one period (EndsInTime), and only a crawler  *)
(* with a positive frequency has a slot at all (HasSchedule).              *)
(***************************************************************************)
EXTENDS Worker, TLAPS

HasSchedule ==
  /\ next_iteration_time # None => frequency > 0
  /\ pc \in {"skip", "measure"} => next_iteration_time # None

WaitsForSlot ==
  next_iteration_time # None =>
    /\ pc \in {"snapshot", "arm", "poll"} =>
         next_iteration_time <= clock + timeout
    /\ pc \in {"poll", "sleeping"} => next_iteration_time <= end_time
    /\ pc \in {"crawl", "plan"} => next_iteration_time <= clock
    /\ pc \in {"skip", "measure"} => next_iteration_time <= clock + frequency

EndsInTime ==
  /\ snapshot_time <= clock
  /\ frequency >= 0 /\ pc \in {"poll", "sleeping"} =>
       end_time <= clock + frequency

IInv == /\ TypeOK
        /\ HasSchedule
        /\ WaitsForSlot
        /\ SleepAtMostOnePeriod
        /\ EndsInTime

-----------------------------------------------------------------------------
\* Every step of the loop, and every tick of the clock, keeps the invariant.
LEMMA Inductive == IInv /\ [Next]_vars => IInv'
<1> SUFFICES ASSUME IInv, [Next]_vars PROVE IInv'
  OBVIOUS
<1> USE WorkerAssumption
    DEF IInv, TypeOK, PCs, HasSchedule, WaitsForSlot, SleepAtMostOnePeriod,
        EndsInTime, locals
<1>1. CASE Snapshot    BY <1>1 DEF Snapshot
<1>2. CASE Arm         BY <1>2 DEF Arm
<1>3. CASE PollSleep   BY <1>3 DEF PollSleep
<1>4. CASE PollReturn  BY <1>4 DEF PollReturn
<1>5. CASE StartCrawl  BY <1>5 DEF StartCrawl
<1>6. CASE FinishCrawl BY <1>6 DEF FinishCrawl
<1>7. CASE CrawlRaises BY <1>7 DEF CrawlRaises
<1>8. CASE NoSchedule  BY <1>8 DEF NoSchedule
<1>9. CASE Plan        BY <1>9 DEF Plan, NextSlot
<1>10. CASE SkipSlot   BY <1>10 DEF SkipSlot, Behind
<1>11. CASE CaughtUp   BY <1>11 DEF CaughtUp, Behind
<1>12. CASE Measure    BY <1>12 DEF Measure
<1>13. CASE Tick       BY <1>13 DEF Tick
<1>14. CASE RunOnce    BY <1>14 DEF RunOnce
<1>15. CASE UNCHANGED vars BY <1>15 DEF vars
<1> QED BY <1>1, <1>2, <1>3, <1>4, <1>5, <1>6, <1>7, <1>8, <1>9, <1>10,
           <1>11, <1>12, <1>13, <1>14, <1>15 DEF Next, Step

\* The invariant holds in every reachable state.
LEMMA Invariance == Spec => []IInv
<1>1. Init => IInv
  BY WorkerAssumption
  DEF Init, IInv, TypeOK, PCs, HasSchedule, WaitsForSlot,
      SleepAtMostOnePeriod, EndsInTime
<1> QED BY <1>1, Inductive, PTL DEF Spec

\* The types of worker.py's variables are kept by every step of run().
THEOREM TypeCorrect == Spec => []TypeOK
<1>1. IInv => TypeOK BY DEF IInv
<1> QED BY <1>1, Invariance, PTL

\* run() never hands iterate() a timeout longer than the frequency.
THEOREM SleepBounded == Spec => []SleepAtMostOnePeriod
<1>1. IInv => SleepAtMostOnePeriod BY DEF IInv
<1> QED BY <1>1, Invariance, PTL

\* The crawl of an iteration does not start before next_iteration_time.
THEOREM CrawlNotEarly == Spec => []NeverEarly
<1>1. IInv => NeverEarly
  BY DEF IInv, WaitsForSlot, NeverEarly
<1> QED BY <1>1, Invariance, PTL

-----------------------------------------------------------------------------
\* A step of the worker is a step of the abstract schedule or leaves it alone.
LEMMA StepRefines == IInv /\ [Next]_vars => [Schedule!Next]_(Schedule!vars)
<1> SUFFICES ASSUME IInv, [Next]_vars
             PROVE [Schedule!Next]_(Schedule!vars)
  OBVIOUS
<1> USE WorkerAssumption
    DEF IInv, TypeOK, PCs, HasSchedule, WaitsForSlot, EndsInTime, locals,
        Due, NextSlot, Schedule!vars, Schedule!Next
<1>1. CASE Snapshot    BY <1>1 DEF Snapshot
<1>2. CASE Arm         BY <1>2 DEF Arm
<1>3. CASE PollSleep   BY <1>3 DEF PollSleep
<1>4. CASE PollReturn  BY <1>4 DEF PollReturn
<1>5. CASE StartCrawl
  <2>1. CASE frequency = 0
    BY <1>5, <2>1 DEF StartCrawl, Schedule!AtOnce
  <2>2. CASE frequency # 0 /\ next_iteration_time = None
    <3>1. Due' = snapshot_time + frequency /\ snapshot_time \in 0 .. clock
      BY <1>5, <2>2 DEF StartCrawl
    <3> QED BY <1>5, <2>2, <3>1 DEF StartCrawl, Schedule!First
  <2>3. CASE frequency # 0 /\ next_iteration_time # None
    BY <1>5, <2>3 DEF StartCrawl, Schedule!Serve
  <2> QED BY <2>1, <2>2, <2>3
<1>6. CASE FinishCrawl BY <1>6 DEF FinishCrawl, Schedule!Finish
<1>7. CASE CrawlRaises BY <1>7 DEF CrawlRaises
<1>8. CASE NoSchedule  BY <1>8 DEF NoSchedule
<1>9. CASE Plan        BY <1>9 DEF Plan
<1>10. CASE SkipSlot   BY <1>10 DEF SkipSlot, Behind, Schedule!Skip
<1>11. CASE CaughtUp   BY <1>11 DEF CaughtUp, Behind
<1>12. CASE Measure    BY <1>12 DEF Measure
<1>13. CASE Tick       BY <1>13 DEF Tick, Schedule!Pass
<1>14. CASE RunOnce    BY <1>14 DEF RunOnce
<1>15. CASE UNCHANGED vars BY <1>15 DEF vars
<1> QED BY <1>1, <1>2, <1>3, <1>4, <1>5, <1>6, <1>7, <1>8, <1>9, <1>10,
           <1>11, <1>12, <1>13, <1>14, <1>15 DEF Next, Step

\* worker.py's loop implements the periodic schedule.
THEOREM KeepsItsSchedule == Spec => KeepsSchedule
<1>1. Init => Schedule!Init
  BY WorkerAssumption DEF Init, Schedule!Init, Due
<1> QED BY <1>1, StepRefines, Invariance, PTL
    DEF Spec, KeepsSchedule, Schedule!Spec
=============================================================================
