------------------------- MODULE NamespaceExecProofs -------------------------
(***************************************************************************)
(* Theorems about NamespaceExec, for every timeout.                        *)
(***************************************************************************)
EXTENDS NamespaceExec, TLAPS

\* Where each process can be.
Places == /\ pc["crawler"] \in {"start", "get", "recv", "join", "ended",
                                "killed"}
          /\ pc["context"] \notin {"run", "ended"}
          /\ pc["function"] \in {"unborn", "born", "run", "flush", "exit",
                                 "gone", "killed"}
          /\ pc["crawler"] = "start" => pc["context"] = "unborn"
          /\ pc["context"] \in {"unborn", "born", "attach", "start"} =>
               pc["function"] = "unborn"

\* A process that has an answer does nothing any more that would change it, and
\* what is in a pipe is an answer.
Final == {"flush", "exit", "gone", "killed"}
Answers ==
  /\ result["function"] # "running" => pc["function"] \in Final
  /\ pc["function"] = "flush" => result["function"] # "running"
  /\ pc["context"] \in {"detach", "flush"} => result["context"] \in Outcomes
  /\ pipe["context"] # "empty" => /\ pc["context"] \in Final
                                 /\ result["context"] \in Outcomes
  /\ pipe["function"] # "empty" =>
       result["function"] \in {"value", "none", "error", "garbled"}
  /\ \A c \in Children : pipe[c] = "partial" => result[c] = "value"

Shape == TypeOK /\ Places /\ Answers

\* Before the call there are no children and no answers.
LEMMA ShapeInit == Init => Shape
BY NamespaceExecAssumption
   DEF Init, Shape, TypeOK, Places, Answers, Procs, Callers, Children, Endings,
       Outcomes

\* A process moves on from where it is, and an answer is given once.
LEMMA ShapeStep == Shape /\ [Next]_vars => Shape'
<1>. SUFFICES ASSUME Shape, [Next]_vars PROVE Shape'
  OBVIOUS
<1>. USE NamespaceExecAssumption
     DEF Shape, TypeOK, Places, Answers, Final, Procs, Callers, Children,
         ChildOf, ParentOf, Endings, Outcomes
<1>1. ASSUME NEW p \in Callers, Start(p) PROVE Shape'
  BY <1>1 DEF Start
<1>2. ASSUME NEW p \in Callers, StartFails(p) PROVE Shape'
  BY <1>2 DEF StartFails, Conclude
<1>3. ASSUME NEW p \in Callers, Poll(p) PROVE Shape'
  BY <1>3 DEF Poll
<1>4. ASSUME NEW p \in Callers, Receive(p) PROVE Shape'
  BY <1>4 DEF Receive, Join
<1>5. ASSUME NEW p \in Callers, GetTimesOut(p) PROVE Shape'
  BY <1>5 DEF GetTimesOut, Join
<1>6. ASSUME NEW p \in Callers, Joined(p) PROVE Shape'
  BY <1>6 DEF Joined, Conclude, Dead
<1>7. ASSUME NEW p \in Callers, Kill(p) PROVE Shape'
  BY <1>7 DEF Kill, Dead, Orphaned
<1>8. ASSUME NEW c \in Children, Arm(c) PROVE Shape'
  BY <1>8 DEF Arm
<1>9. ASSUME NEW c \in Children, Flush(c) PROVE Shape'
  BY <1>9 DEF Flush, Big
<1>10. ASSUME NEW c \in Children, FlushFirst(c) PROVE Shape'
  BY <1>10 DEF FlushFirst, Big
<1>11. ASSUME NEW c \in Children, FlushRest(c) PROVE Shape'
  BY <1>11 DEF FlushRest
<1>12. ASSUME NEW c \in Children, Exit(c) PROVE Shape'
  BY <1>12 DEF Exit, Dead
<1>13. ASSUME NEW c \in Children, Hangup(c) PROVE Shape'
  BY <1>13 DEF Hangup, Dead
<1>14. ASSUME Attach PROVE Shape'
  BY <1>14 DEF Attach
<1>15. ASSUME AttachFails PROVE Shape'
  BY <1>15 DEF AttachFails, Put
<1>16. ASSUME Detach PROVE Shape'
  BY <1>16 DEF Detach, Put
<1>17. ASSUME DetachFails PROVE Shape'
  BY <1>17 DEF DetachFails, Put
<1>18. ASSUME NEW a \in Endings, FunctionEnds(a) PROVE Shape'
  BY <1>18 DEF FunctionEnds, Put
<1>19. ASSUME ContainerStops PROVE Shape'
  BY <1>19 DEF ContainerStops, Killed, Orphaned, Dead
<1>20. ASSUME CrawlerDies PROVE Shape'
  BY <1>20 DEF CrawlerDies, Killed, Orphaned
<1>21. ASSUME Tick PROVE Shape'
  BY <1>21 DEF Tick, Due, Dead
<1>22. CASE UNCHANGED vars
  BY <1>22 DEF vars
<1>. QED BY <1>1, <1>2, <1>3, <1>4, <1>5, <1>6, <1>7, <1>8, <1>9, <1>10,
            <1>11, <1>12, <1>13, <1>14, <1>15, <1>16, <1>17, <1>18, <1>19,
            <1>20, <1>21, <1>22 DEF Next, Call, Wrapper, Context

\* The variables keep their types: each caller ends up with one of the outcomes
\* of run_as_another_process, or with nothing yet.
THEOREM TypeCorrect == Spec => []TypeOK
<1>1. Shape => TypeOK
  BY DEF Shape
<1>. QED BY <1>1, ShapeInit, ShapeStep, PTL DEF Spec

-----------------------------------------------------------------------------
(* ReturnsInTime *)

\* The crawler's timers; and while it waits nothing stops a process in the
\* middle of an answer to it.
Timers ==
  /\ pc["crawler"] = "start" => now = 0
  /\ pc["crawler"] = "get" => /\ now <= deadline["crawler"]
                             /\ deadline["crawler"] = Timeout
  /\ pc["crawler"] = "recv" => now <= Timeout
  /\ pc["crawler"] = "join" => /\ now <= deadline["crawler"]
                              /\ deadline["crawler"] <= 2 * Timeout
  /\ pc["crawler"] # "killed" => ~hup["context"]
  /\ pc["context"] = "killed" => pc["crawler"] \in {"ended", "killed"}
  /\ pipe["context"] = "partial" =>
       pc["context"] \in {"flush", "killed"} \/ hup["context"]

\* The crawler sets a deadline from the clock whenever it begins to wait, and its
\* child is not cut off while it waits.
LEMMA TimersStep == Shape /\ Timers /\ [Next]_vars => Timers'
<1>. SUFFICES ASSUME Shape, Timers, [Next]_vars PROVE Timers'
  OBVIOUS
<1>. USE NamespaceExecAssumption
     DEF Timers, Shape, TypeOK, Places, Answers, Final, Procs, Callers,
         Children,
         ChildOf, ParentOf, Endings, Outcomes
<1>1. ASSUME NEW p \in Callers, Start(p) PROVE Timers'
  BY <1>1 DEF Start
<1>2. ASSUME NEW p \in Callers, StartFails(p) PROVE Timers'
  BY <1>2 DEF StartFails, Conclude
<1>3. ASSUME NEW p \in Callers, Poll(p) PROVE Timers'
  BY <1>3 DEF Poll
<1>4. ASSUME NEW p \in Callers, Receive(p) PROVE Timers'
  BY <1>4 DEF Receive, Join
<1>5. ASSUME NEW p \in Callers, GetTimesOut(p) PROVE Timers'
  BY <1>5 DEF GetTimesOut, Join
<1>6. ASSUME NEW p \in Callers, Joined(p) PROVE Timers'
  BY <1>6 DEF Joined, Conclude, Dead
<1>7. ASSUME NEW p \in Callers, Kill(p) PROVE Timers'
  BY <1>7 DEF Kill, Dead, Orphaned
<1>8. ASSUME NEW c \in Children, Arm(c) PROVE Timers'
  BY <1>8 DEF Arm
<1>9. ASSUME NEW c \in Children, Flush(c) PROVE Timers'
  BY <1>9 DEF Flush, Big
<1>10. ASSUME NEW c \in Children, FlushFirst(c) PROVE Timers'
  BY <1>10 DEF FlushFirst, Big
<1>11. ASSUME NEW c \in Children, FlushRest(c) PROVE Timers'
  BY <1>11 DEF FlushRest
<1>12. ASSUME NEW c \in Children, Exit(c) PROVE Timers'
  BY <1>12 DEF Exit, Dead
<1>13. ASSUME NEW c \in Children, Hangup(c) PROVE Timers'
  BY <1>13 DEF Hangup, Dead
<1>14. ASSUME Attach PROVE Timers'
  BY <1>14 DEF Attach
<1>15. ASSUME AttachFails PROVE Timers'
  BY <1>15 DEF AttachFails, Put
<1>16. ASSUME Detach PROVE Timers'
  BY <1>16 DEF Detach, Put
<1>17. ASSUME DetachFails PROVE Timers'
  BY <1>17 DEF DetachFails, Put
<1>18. ASSUME NEW a \in Endings, FunctionEnds(a) PROVE Timers'
  BY <1>18 DEF FunctionEnds, Put
<1>19. ASSUME ContainerStops PROVE Timers'
  BY <1>19 DEF ContainerStops, Killed, Orphaned, Dead
<1>20. ASSUME CrawlerDies PROVE Timers'
  BY <1>20 DEF CrawlerDies, Killed, Orphaned
<1>21. ASSUME Tick PROVE Timers'
  BY <1>21 DEF Tick, Due, Dead
<1>22. CASE UNCHANGED vars
  BY <1>22 DEF vars
<1>. QED BY <1>1, <1>2, <1>3, <1>4, <1>5, <1>6, <1>7, <1>8, <1>9, <1>10,
            <1>11, <1>12, <1>13, <1>14, <1>15, <1>16, <1>17, <1>18, <1>19,
            <1>20, <1>21, <1>22 DEF Next, Call, Wrapper, Context

\* The crawler waits no longer than two periods, whatever the container, the
\* function and the two processes do.
THEOREM InTime == Spec => []ReturnsInTime
<1>1. Init => Timers
  BY NamespaceExecAssumption DEF Init, Timers, Procs, Callers, Children
<1>2. Shape /\ Timers => ReturnsInTime
  BY NamespaceExecAssumption
     DEF Shape, TypeOK, Timers, ReturnsInTime, Callers
<1>. QED BY <1>1, <1>2, ShapeInit, ShapeStep, TimersStep, PTL DEF Spec

-----------------------------------------------------------------------------
(* NoOrphan *)

\* A process that hands over an answer, or has gone by itself, has no child
\* left.
Childless ==
  /\ pc["context"] \in {"detach", "flush", "gone"} => Dead("function")
  /\ Ended => Dead("context")

\* A process that has ended leaves no child behind it.
LEMMA ChildlessStep == Shape /\ Childless /\ [Next]_vars => Childless'
<1>. SUFFICES ASSUME Shape, Childless, [Next]_vars PROVE Childless'
  OBVIOUS
<1>. USE NamespaceExecAssumption
     DEF Childless, Ended, Dead, Shape, TypeOK, Places, Answers, Final, Procs,
         Callers, Children,
         ChildOf, ParentOf, Endings, Outcomes
<1>1. ASSUME NEW p \in Callers, Start(p) PROVE Childless'
  BY <1>1 DEF Start
<1>2. ASSUME NEW p \in Callers, StartFails(p) PROVE Childless'
  BY <1>2 DEF StartFails, Conclude
<1>3. ASSUME NEW p \in Callers, Poll(p) PROVE Childless'
  BY <1>3 DEF Poll
<1>4. ASSUME NEW p \in Callers, Receive(p) PROVE Childless'
  BY <1>4 DEF Receive, Join
<1>5. ASSUME NEW p \in Callers, GetTimesOut(p) PROVE Childless'
  BY <1>5 DEF GetTimesOut, Join
<1>6. ASSUME NEW p \in Callers, Joined(p) PROVE Childless'
  BY <1>6 DEF Joined, Conclude, Dead
<1>7. ASSUME NEW p \in Callers, Kill(p) PROVE Childless'
  BY <1>7 DEF Kill, Dead, Orphaned
<1>8. ASSUME NEW c \in Children, Arm(c) PROVE Childless'
  BY <1>8 DEF Arm
<1>9. ASSUME NEW c \in Children, Flush(c) PROVE Childless'
  BY <1>9 DEF Flush, Big
<1>10. ASSUME NEW c \in Children, FlushFirst(c) PROVE Childless'
  BY <1>10 DEF FlushFirst, Big
<1>11. ASSUME NEW c \in Children, FlushRest(c) PROVE Childless'
  BY <1>11 DEF FlushRest
<1>12. ASSUME NEW c \in Children, Exit(c) PROVE Childless'
  BY <1>12 DEF Exit, Dead
<1>13. ASSUME NEW c \in Children, Hangup(c) PROVE Childless'
  BY <1>13 DEF Hangup, Dead
<1>14. ASSUME Attach PROVE Childless'
  BY <1>14 DEF Attach
<1>15. ASSUME AttachFails PROVE Childless'
  BY <1>15 DEF AttachFails, Put
<1>16. ASSUME Detach PROVE Childless'
  BY <1>16 DEF Detach, Put
<1>17. ASSUME DetachFails PROVE Childless'
  BY <1>17 DEF DetachFails, Put
<1>18. ASSUME NEW a \in Endings, FunctionEnds(a) PROVE Childless'
  BY <1>18 DEF FunctionEnds, Put
<1>19. ASSUME ContainerStops PROVE Childless'
  BY <1>19 DEF ContainerStops, Killed, Orphaned, Dead
<1>20. ASSUME CrawlerDies PROVE Childless'
  BY <1>20 DEF CrawlerDies, Killed, Orphaned
<1>21. ASSUME Tick PROVE Childless'
  BY <1>21 DEF Tick, Due, Dead
<1>22. CASE UNCHANGED vars
  BY <1>22 DEF vars
<1>. QED BY <1>1, <1>2, <1>3, <1>4, <1>5, <1>6, <1>7, <1>8, <1>9, <1>10,
            <1>11, <1>12, <1>13, <1>14, <1>15, <1>16, <1>17, <1>18, <1>19,
            <1>20, <1>21, <1>22 DEF Next, Call, Wrapper, Context

\* When the call ends its processes are gone, but for a function whose parent
\* the crawler has killed.
THEOREM NobodyLeft == Spec => []NoOrphan
<1>1. Init => Childless
  BY DEF Init, Childless, Ended, Dead, Procs, Callers, Children
<1>2. Shape /\ Childless => NoOrphan
  BY DEF Shape, Places, Childless, NoOrphan, Ended, Dead
<1>. QED BY <1>1, <1>2, ShapeInit, ShapeStep, ChildlessStep, PTL DEF Spec

-----------------------------------------------------------------------------
(* Honest *)

\* What an outcome says of the function.
Truth(outcome) ==
  /\ outcome \in {"value", "error"} => result["function"] = outcome
  /\ outcome = "unknown" => result["function"] \in {"none", "garbled"}
  /\ outcome = "timeout" => now >= Timeout

Truthful ==
  /\ \A p \in Callers : Truth(result[p])
  /\ \A p \in Callers : pc[p] \in {"get", "join"} => deadline[p] >= Timeout
  /\ pc["context"] = "join" /\ result["context"] = "none" =>
       result["function"] \in {"none", "garbled"}
  /\ pc["crawler"] = "join" => result["crawler"] # "none"
  /\ Ended => result["crawler"] \in Outcomes

\* What a caller reports is what its child answered, or that it did not.
LEMMA TruthfulStep == Shape /\ Truthful /\ [Next]_vars => Truthful'
<1>. SUFFICES ASSUME Shape, Truthful, [Next]_vars PROVE Truthful'
  OBVIOUS
<1>. USE NamespaceExecAssumption
     DEF Truthful, Truth, Ended, Shape, TypeOK, Places, Answers, Final, Procs,
         Callers, Children,
         ChildOf, ParentOf, Endings, Outcomes
<1>1. ASSUME NEW p \in Callers, Start(p) PROVE Truthful'
  BY <1>1 DEF Start
<1>2. ASSUME NEW p \in Callers, StartFails(p) PROVE Truthful'
  BY <1>2 DEF StartFails, Conclude
<1>3. ASSUME NEW p \in Callers, Poll(p) PROVE Truthful'
  BY <1>3 DEF Poll
<1>4. ASSUME NEW p \in Callers, Receive(p) PROVE Truthful'
  BY <1>4 DEF Receive, Join
<1>5. ASSUME NEW p \in Callers, GetTimesOut(p) PROVE Truthful'
  BY <1>5 DEF GetTimesOut, Join
<1>6. ASSUME NEW p \in Callers, Joined(p) PROVE Truthful'
  BY <1>6 DEF Joined, Conclude, Dead
<1>7. ASSUME NEW p \in Callers, Kill(p) PROVE Truthful'
  BY <1>7 DEF Kill, Dead, Orphaned
<1>8. ASSUME NEW c \in Children, Arm(c) PROVE Truthful'
  BY <1>8 DEF Arm
<1>9. ASSUME NEW c \in Children, Flush(c) PROVE Truthful'
  BY <1>9 DEF Flush, Big
<1>10. ASSUME NEW c \in Children, FlushFirst(c) PROVE Truthful'
  BY <1>10 DEF FlushFirst, Big
<1>11. ASSUME NEW c \in Children, FlushRest(c) PROVE Truthful'
  BY <1>11 DEF FlushRest
<1>12. ASSUME NEW c \in Children, Exit(c) PROVE Truthful'
  BY <1>12 DEF Exit, Dead
<1>13. ASSUME NEW c \in Children, Hangup(c) PROVE Truthful'
  BY <1>13 DEF Hangup, Dead
<1>14. ASSUME Attach PROVE Truthful'
  BY <1>14 DEF Attach
<1>15. ASSUME AttachFails PROVE Truthful'
  BY <1>15 DEF AttachFails, Put
<1>16. ASSUME Detach PROVE Truthful'
  BY <1>16 DEF Detach, Put
<1>17. ASSUME DetachFails PROVE Truthful'
  BY <1>17 DEF DetachFails, Put
<1>18. ASSUME NEW a \in Endings, FunctionEnds(a) PROVE Truthful'
  BY <1>18 DEF FunctionEnds, Put
<1>19. ASSUME ContainerStops PROVE Truthful'
  BY <1>19 DEF ContainerStops, Killed, Orphaned, Dead
<1>20. ASSUME CrawlerDies PROVE Truthful'
  BY <1>20 DEF CrawlerDies, Killed, Orphaned
<1>21. ASSUME Tick PROVE Truthful'
  BY <1>21 DEF Tick, Due, Dead
<1>22. CASE UNCHANGED vars
  BY <1>22 DEF vars
<1>. QED BY <1>1, <1>2, <1>3, <1>4, <1>5, <1>6, <1>7, <1>8, <1>9, <1>10,
            <1>11, <1>12, <1>13, <1>14, <1>15, <1>16, <1>17, <1>18, <1>19,
            <1>20, <1>21, <1>22 DEF Next, Call, Wrapper, Context

\* A value or an exception is the function's own, a timeout is not reported
\* early, and a crawl error means that the function gave nothing readable.
THEOREM Honesty == Spec => []Honest
<1>1. Init => Truthful
  BY DEF Init, Truthful, Truth, Ended, Procs, Callers, Children
<1>2. Shape /\ Truthful => Honest
  BY DEF Truthful, Truth, Honest, Callers
<1>. QED BY <1>1, <1>2, ShapeInit, ShapeStep, TruthfulStep, PTL DEF Spec
=============================================================================
