---------------------------- MODULE NamespaceExec ----------------------------
(***************************************************************************)
(* One call of run_as_another_namespace (crawler/utils/namespace.py).  The *)
(* crawler forks a process (here "context") that attaches to the           *)
(* container's namespaces and forks another (here "function") that runs    *)
(* the crawl function.  Results and exceptions come back through one queue *)
(* per fork; both callers wait IN_PROCESS_TIMEOUT for an answer and again  *)
(* for the exit, then kill.  Python's Queue and Process (a feeder thread   *)
(* that fills a pipe, an exit that waits for the feeder and for the        *)
(* children) and the kernel are modelled as the code uses them.            *)
(***************************************************************************)
EXTENDS Naturals

CONSTANTS Timeout,  \* IN_PROCESS_TIMEOUT
          MaxTime   \* bound on the clock

ASSUME NamespaceExecAssumption == Timeout \in Nat \ {0} /\ MaxTime \in Nat

VARIABLES now,       \* the time since the call
          big,       \* is the function's value larger than a pipe?
          pc,        \* where each process is
          deadline,  \* when the caller stops waiting
          result,    \* what the process got, or is about to hand on
          armed,     \* has the process called prctl(PR_SET_PDEATHSIG)?
          hup,       \* has it been sent SIGHUP?
          pipe       \* what of the child's answer is in its queue's pipe

vars == <<now, big, pc, deadline, result, armed, hup, pipe>>

Callers == {"crawler", "context"}
Children == {"context", "function"}
Procs == Callers \cup Children
ChildOf == [p \in Callers |-> IF p = "crawler" THEN "context" ELSE "function"]
ParentOf == [c \in Children |-> IF c = "context" THEN "crawler" ELSE "context"]

\* What a function may do: return a value or None, raise, or hand over what
\* cannot be pickled or cannot be unpickled.
Endings == {"value", "none", "error", "unpicklable", "garbled"}
\* What a call may come to: "unknown" is CrawlError, "timeout" is
\* CrawlTimeoutError, "os" is an OSError or NamespaceFailedSetns.
Outcomes == {"value", "error", "unknown", "timeout", "os"}

Dead(p) == pc[p] \in {"unborn", "gone", "killed"}
Big(c) == big /\ result[c] = "value"

Init == /\ now = 0
        /\ big \in BOOLEAN
        /\ pc = [p \in Procs |-> IF p = "crawler" THEN "start" ELSE "unborn"]
        /\ deadline = [p \in Callers |-> 0]
        /\ result = [p \in Procs |->
                       IF p = "function" THEN "running" ELSE "none"]
        /\ armed = [c \in Children |-> FALSE]
        /\ hup = [c \in Children |-> FALSE]
        /\ pipe = [c \in Children |-> "empty"]

-----------------------------------------------------------------------------
(* run_as_another_process *)

Start(p) == /\ pc[p] = "start"
            /\ pc' = [pc EXCEPT ![p] = "get", ![ChildOf[p]] = "born"]
            /\ deadline' = [deadline EXCEPT ![p] = now + Timeout]
            /\ UNCHANGED <<now, big, result, armed, hup, pipe>>

\* Caller p is done with its call; the context still has its finally clause.
Conclude(p, outcome) ==
  /\ result' = [result EXCEPT ![p] = outcome]
  /\ pc' = [pc EXCEPT ![p] = IF p = "crawler" THEN "ended" ELSE "detach"]

\* The fork fails, as it does in the namespace of a container that has ended.
StartFails(p) == /\ pc[p] = "start"
                 /\ Conclude(p, "os")
                 /\ UNCHANGED <<now, big, deadline, armed, hup, pipe>>

\* queue.get: once there is something to read there is no timeout any more.
Poll(p) == /\ pc[p] = "get"
           /\ pipe[ChildOf[p]] # "empty"
           /\ pc' = [pc EXCEPT ![p] = "recv"]
           /\ UNCHANGED <<now, big, deadline, result, armed, hup, pipe>>

\* Mutant of Join: the exit may take a period for each of the processes.
JoinLonger(p, got) == /\ result' = [result EXCEPT ![p] = got]
                      /\ pc' = [pc EXCEPT ![p] = "join"]
                      /\ deadline' = [deadline EXCEPT ![p] = now + 2 * Timeout]

Join(p, got) == /\ result' = [result EXCEPT ![p] = got]
                /\ pc' = [pc EXCEPT ![p] = "join"]
                /\ deadline' = [deadline EXCEPT ![p] = now + Timeout]

\* Mutant of Receive: what cannot be unpickled is taken for the answer.
ReceiveAnything(p) == /\ pc[p] = "recv"
                      /\ pipe[ChildOf[p]] = "full"
                      /\ Join(p, result[ChildOf[p]])
                      /\ UNCHANGED <<now, big, armed, hup, pipe>>

\* What cannot be unpickled is logged and dropped.
Receive(p) ==
  LET answer == result[ChildOf[p]]
  IN  /\ pc[p] = "recv"
      /\ pipe[ChildOf[p]] = "full"
      /\ Join(p, IF answer = "garbled" THEN "none" ELSE answer)
      /\ UNCHANGED <<now, big, armed, hup, pipe>>

\* Mutant of GetTimesOut: the handler forgets to set child_exception.
GetTimesOutSilently(p) ==
  /\ pc[p] = "get"
  /\ pipe[ChildOf[p]] = "empty"
  /\ now >= deadline[p]
  /\ Join(p, "none")
  /\ UNCHANGED <<now, big, armed, hup, pipe>>

\* Mutant of GetTimesOut: queue.get() has no timeout.
GetNeverTimesOut(p) == FALSE

GetTimesOut(p) == /\ pc[p] = "get"
                  /\ pipe[ChildOf[p]] = "empty"
                  /\ now >= deadline[p]
                  /\ Join(p, "timeout")
                  /\ UNCHANGED <<now, big, armed, hup, pipe>>

Joined(p) == /\ pc[p] = "join"
             /\ Dead(ChildOf[p])
             /\ Conclude(p, IF result[p] = "none" THEN "unknown" ELSE result[p])
             /\ UNCHANGED <<now, big, deadline, armed, hup, pipe>>

\* The kernel tells the children of a process that dies, if they asked for it.
Orphaned(p) == hup' = IF p \in Callers /\ armed[ChildOf[p]]
                      THEN [hup EXCEPT ![ChildOf[p]] = TRUE] ELSE hup

\* Mutant of Kill: a child that does not exit is left alone.
LeaveAlone(p) ==
  /\ pc[p] = "join"
  /\ now >= deadline[p]
  /\ ~Dead(ChildOf[p])
  /\ Conclude(p, "timeout")
  /\ UNCHANGED <<now, big, deadline, armed, hup, pipe>>

\* The answer, if there was one, is dropped.
Kill(p) ==
  /\ pc[p] = "join"
  /\ now >= deadline[p]
  /\ ~Dead(ChildOf[p])
  /\ result' = [result EXCEPT ![p] = "timeout"]
  /\ pc' = [pc EXCEPT ![p] = IF p = "crawler" THEN "ended" ELSE "detach",
                      ![ChildOf[p]] = "killed"]
  /\ Orphaned(ChildOf[p])
  /\ UNCHANGED <<now, big, deadline, armed, pipe>>

-----------------------------------------------------------------------------
(* _function_wrapper and _run_as_another_namespace *)

\* Mutant of Arm: prctl is not called.
StartUnarmed(c) ==
  /\ pc[c] = "born"
  /\ pc' = [pc EXCEPT ![c] = IF c = "context" THEN "attach" ELSE "run"]
  /\ UNCHANGED <<now, big, deadline, result, armed, hup, pipe>>

Arm(c) == /\ pc[c] = "born"
          /\ armed' = [armed EXCEPT ![c] = TRUE]
          /\ pc' = [pc EXCEPT ![c] = IF c = "context" THEN "attach" ELSE "run"]
          /\ UNCHANGED <<now, big, deadline, result, hup, pipe>>

Attach == /\ pc["context"] = "attach"
          /\ pc' = [pc EXCEPT !["context"] = "start"]
          /\ UNCHANGED <<now, big, deadline, result, armed, hup, pipe>>

\* queue.put: the child has its answer, and goes on to hand it over.
Put(c, answer) == /\ result' = [result EXCEPT ![c] = answer]
                  /\ pc' = [pc EXCEPT ![c] = "flush"]
                  /\ UNCHANGED <<now, big, deadline, armed, hup, pipe>>

\* The container is gone, or setns fails.
AttachFails == pc["context"] = "attach" /\ Put("context", "os")

\* context.detach() goes back to the namespaces of the host, or fails.
Detach == pc["context"] = "detach" /\ Put("context", result["context"])
DetachFails == pc["context"] = "detach" /\ Put("context", "os")

FunctionEnds(answer) == pc["function"] = "run" /\ Put("function", answer)

\* The feeder thread writes the answer, or fails to pickle it.
Flush(c) ==
  /\ pc[c] = "flush"
  /\ ~Big(c)
  /\ pipe' = IF result[c] = "unpicklable" THEN pipe
             ELSE [pipe EXCEPT ![c] = "full"]
  /\ pc' = [pc EXCEPT ![c] = "exit"]
  /\ UNCHANGED <<now, big, deadline, result, armed, hup>>

FlushFirst(c) == /\ pc[c] = "flush"
                 /\ Big(c)
                 /\ pipe[c] = "empty"
                 /\ pipe' = [pipe EXCEPT ![c] = "partial"]
                 /\ UNCHANGED <<now, big, pc, deadline, result, armed, hup>>

\* The rest of an answer larger than the pipe needs a reader.
FlushRest(c) == /\ pc[c] = "flush"
                /\ pipe[c] = "partial"
                /\ pc[ParentOf[c]] = "recv"
                /\ pipe' = [pipe EXCEPT ![c] = "full"]
                /\ pc' = [pc EXCEPT ![c] = "exit"]
                /\ UNCHANGED <<now, big, deadline, result, armed, hup>>

\* A Python process that exits waits for the children it has forked.
Exit(c) == /\ pc[c] = "exit"
           /\ c \in Callers => Dead(ChildOf[c])
           /\ pc' = [pc EXCEPT ![c] = "gone"]
           /\ UNCHANGED <<now, big, deadline, result, armed, hup, pipe>>

\* signal_handler_sighup: SystemExit unwinds whatever the process is doing.
Hangup(c) == /\ hup[c]
             /\ ~Dead(c)
             /\ pc[c] # "exit"
             /\ pc' = [pc EXCEPT ![c] = "exit"]
             /\ UNCHANGED <<now, big, deadline, result, armed, hup, pipe>>

-----------------------------------------------------------------------------
(* Around them *)

Killed(p) == /\ pc' = [pc EXCEPT ![p] = "killed"]
             /\ Orphaned(p)
             /\ UNCHANGED <<now, big, deadline, result, armed, pipe>>

\* The function lives in the PID namespace of the container and dies with it.
ContainerStops == ~Dead("function") /\ Killed("function")

CrawlerDies == pc["crawler"] # "killed" /\ Killed("crawler")

\* Timers go off when they are due, and an answer that is being read and
\* written takes no time.
Due(p) == \/ pc[p] \in {"get", "join"} /\ now >= deadline[p]
          \/ pc[p] = "recv" /\ ~(Dead(ChildOf[p]) /\ pipe[ChildOf[p]] = "partial")

Tick == /\ now < MaxTime
        /\ pc["crawler"] # "start"
        /\ \A p \in Callers : ~Due(p)
        /\ now' = now + 1
        /\ UNCHANGED <<big, pc, deadline, result, armed, hup, pipe>>

-----------------------------------------------------------------------------

Call(p) == \/ Start(p) \/ StartFails(p) \/ Poll(p) \/ Receive(p)
           \/ GetTimesOut(p) \/ Joined(p) \/ Kill(p)
Wrapper(c) == \/ Arm(c) \/ Flush(c) \/ FlushFirst(c) \/ FlushRest(c)
              \/ Exit(c) \/ Hangup(c)
Context == Attach \/ AttachFails \/ Detach \/ DetachFails

Next == \/ \E p \in Callers : Call(p)
        \/ \E c \in Children : Wrapper(c)
        \/ Context
        \/ \E answer \in Endings : FunctionEnds(answer)
        \/ ContainerStops \/ CrawlerDies \/ Tick

Spec == Init /\ [][Next]_vars

\* The processes run and time goes on; but nothing makes the crawl function
\* end, or the crawler or the container die.
FairSpec == /\ Spec
            /\ WF_vars(Call("crawler"))
            /\ WF_vars(Call("context") \/ Wrapper("context") \/ Context)
            /\ WF_vars(Wrapper("function"))
            /\ WF_vars(Tick)

-----------------------------------------------------------------------------
(* Properties *)

TypeOK == /\ now \in 0 .. MaxTime
          /\ big \in BOOLEAN
          /\ pc \in [Procs -> {"unborn", "born", "attach", "run", "start",
                               "get", "recv", "join", "detach", "flush",
                               "exit", "gone", "killed", "ended"}]
          /\ deadline \in [Callers -> 0 .. MaxTime + Timeout]
          /\ result \in [Procs -> Endings \cup Outcomes
                                      \cup {"none", "running"}]
          /\ result["function"] \in Endings \cup {"running"}
          /\ \A p \in Callers : result[p] \in Outcomes \cup {"none"}
          /\ armed \in [Children -> BOOLEAN]
          /\ hup \in [Children -> BOOLEAN]
          /\ pipe \in [Children -> {"empty", "partial", "full"}]

Ended == pc["crawler"] = "ended"

\* What the caller gets is what happened: a value or an exception of the
\* function is the one it ended with, a timeout is not reported early, and an
\* "Unknown crawl error" only for a function that gave nothing readable.
Honest == Ended =>
  /\ result["crawler"] \in Outcomes
  /\ result["crawler"] \in {"value", "error"} =>
       result["function"] = result["crawler"]
  /\ result["crawler"] = "unknown" => result["function"] \in {"none", "garbled"}
  /\ result["crawler"] = "timeout" => now >= Timeout

\* Two timeouts, one inside the other, take no longer than one: the crawler
\* gets its result or its exception after at most two periods, whatever the
\* container, the function and the two processes do.
ReturnsInTime == pc["crawler"] \in {"get", "recv", "join"} => now <= 2 * Timeout

\* When the call ends the process in the container's namespaces is gone, and
\* the function is too, unless the crawler had to kill the process that waits
\* for it.
NoOrphan == Ended => /\ Dead("context")
                     /\ ~Dead("function") => pc["context"] = "killed"

\* The call ends, however the function, the pipe and the container fail.
CallEnds == <>(pc["crawler"] \in {"ended", "killed"})

\* A function that never returns does not stay in the container for good: the
\* crawler's timeout kills its parent, and that ends it.
HungFunctionEnds == pc["function"] = "run" /\ ~Dead("context")
                      ~> Dead("function") \/ pc["crawler"] = "killed"

\* A process that is told of its parent's death exits ("Crawler parent process
\* died, so exiting... Bye!"), also when the function it waits for hangs.
DiesWithParent == \A c \in Children : hup[c] ~> Dead(c)
=============================================================================
