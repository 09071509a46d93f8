------------------------------ MODULE WorkerPool ------------------------------
(***************************************************************************)
(* The worker pool every asynchronous step of a container goes through     *)
(* (reads, pings, session timers, interval tasks), and the health flag     *)
(* that its queue length drives.                                           *)
(*                                                                         *)
(* Submit holds closeMu for reading while it offers the task to the queue; *)
(* Close takes it for writing before it closes the queue.  A monitor       *)
(* goroutine samples the queue length and sets the health flag on the      *)
(* samples where the queue crosses a threshold.                            *)
(***************************************************************************)
EXTENDS Naturals, Sequences

CONSTANTS Tasks, Workers, Buffer, Idle, Exited

ASSUME WorkerPoolAssumption ==
    /\ Buffer \in Nat \ {0}
    /\ Workers # {}
    /\ Idle \notin Tasks
    /\ Exited \notin Tasks
    /\ Idle # Exited

\* WorkerPoolT.loadDefault, for a configuration that only sets Buffer.
UpperThreshold == IF Buffer * 3 >= 4 THEN (Buffer * 3) \div 4 ELSE 1

\* Mutant: a smaller ratio, which rounds to zero.
LowerThresholdEighth == Buffer \div 8

LowerThreshold ==
    IF UpperThreshold <= Buffer \div 4 THEN UpperThreshold - 1 ELSE Buffer \div 4

VARIABLES
    task,           \* task[t]: how far t is
    queue,          \* taskQueue, a buffered channel
    worker,         \* worker[w]: the task it runs, Idle, or Exited
    closer,         \* progress of Close
    closed,         \* p.closed, set together with close(taskQueue)
    monitor,        \* TRUE while monitorQueue runs
    wasAboveUpper,
    wasBelowLower,
    healthy,
    shuttingDown    \* moduleDelivery.Shutdown has begun

sampled == <<monitor, wasAboveUpper, wasBelowLower>>
vars == <<task, queue, worker, closer, closed, sampled, healthy, shuttingDown>>

Init ==
    /\ task = [t \in Tasks |-> "new"]
    /\ queue = <<>>
    /\ worker = [w \in Workers |-> Idle]
    /\ closer = "none"
    /\ closed = FALSE
    /\ monitor = TRUE
    /\ wasAboveUpper = FALSE
    /\ wasBelowLower = FALSE
    /\ healthy = FALSE
    /\ shuttingDown = FALSE
-----------------------------------------------------------------------------
(* Submit *)

\* RLock, which waits for a writer that has already asked, and the closed test.
SubmitEnter(t) ==
    /\ task[t] = "new"
    /\ closer # "locking"
    /\ task' = [task EXCEPT ![t] = IF closed THEN "dropped" ELSE "sending"]
    /\ UNCHANGED <<queue, worker, closer, closed, sampled, healthy, shuttingDown>>

\* The select with a default branch, then RUnlock.
SubmitSend(t) ==
    /\ task[t] = "sending"
    /\ IF Len(queue) < Buffer
       THEN /\ queue' = Append(queue, t)
            /\ task' = [task EXCEPT ![t] = "queued"]
       ELSE /\ task' = [task EXCEPT ![t] = "dropped"]
            /\ UNCHANGED queue
    /\ UNCHANGED <<worker, closer, closed, sampled, healthy, shuttingDown>>
-----------------------------------------------------------------------------
(* The workers: range over the queue, run each task under a recover *)

TakeTask(w) ==
    /\ worker[w] = Idle
    /\ queue # <<>>
    /\ worker' = [worker EXCEPT ![w] = Head(queue)]
    /\ queue' = Tail(queue)
    /\ task' = [task EXCEPT ![Head(queue)] = "running"]
    /\ UNCHANGED <<closer, closed, sampled, healthy, shuttingDown>>

\* Mutant: without the recover inside the loop a panic ends the worker.
FinishTaskUnrecovered(w, panics) ==
    /\ worker[w] \in Tasks
    /\ task' = [task EXCEPT ![worker[w]] = "done"]
    /\ worker' = [worker EXCEPT ![w] = IF panics THEN Exited ELSE Idle]
    /\ UNCHANGED <<queue, closer, closed, sampled, healthy, shuttingDown>>

\* The task returns or panics; panicHandler only logs.
FinishTask(w, panics) ==
    /\ worker[w] \in Tasks
    /\ task' = [task EXCEPT ![worker[w]] = "done"]
    /\ worker' = [worker EXCEPT ![w] = Idle]
    /\ UNCHANGED <<queue, closer, closed, sampled, healthy, shuttingDown>>

\* A closed channel ends the range loop only once it is empty.
WorkerExits(w) ==
    /\ worker[w] = Idle
    /\ closed
    /\ queue = <<>>
    /\ worker' = [worker EXCEPT ![w] = Exited]
    /\ UNCHANGED <<task, queue, closer, closed, sampled, healthy, shuttingDown>>
-----------------------------------------------------------------------------
(* Shutdown of the module, and Close among its cleanup tasks *)

\* moduleDelivery.Shutdown: SetUnhealthy, then the cleanup tasks in order.
Shutdown ==
    /\ ~shuttingDown
    /\ shuttingDown' = TRUE
    /\ healthy' = FALSE
    /\ UNCHANGED <<task, queue, worker, closer, closed, sampled>>

\* close(p.done) and the call of closeMu.Lock.
CloseDone ==
    /\ shuttingDown
    /\ closer = "none"
    /\ closer' = "locking"
    /\ UNCHANGED <<task, queue, worker, closed, sampled, healthy, shuttingDown>>

\* Mutant: the queue is closed without waiting for Submit calls in flight.
CloseQueueUnlocked ==
    /\ closer = "locking"
    /\ closed' = TRUE
    /\ closer' = "waiting"
    /\ UNCHANGED <<task, queue, worker, sampled, healthy, shuttingDown>>

\* The critical section under the write lock: no Submit is inside.
CloseQueue ==
    /\ closer = "locking"
    /\ \A t \in Tasks : task[t] # "sending"
    /\ closed' = TRUE
    /\ closer' = "waiting"
    /\ UNCHANGED <<task, queue, worker, sampled, healthy, shuttingDown>>

\* Mutant: Close returns as soon as the queue is empty.
CloseReturnsEarly ==
    /\ closer = "waiting"
    /\ queue = <<>>
    /\ closer' = "returned"
    /\ UNCHANGED <<task, queue, worker, closed, sampled, healthy, shuttingDown>>

\* wg.Wait
CloseReturns ==
    /\ closer = "waiting"
    /\ \A w \in Workers : worker[w] = Exited
    /\ closer' = "returned"
    /\ UNCHANGED <<task, queue, worker, closed, sampled, healthy, shuttingDown>>
-----------------------------------------------------------------------------
(* The queue monitor *)

\* Mutant: wasBelowLower is not cleared when the queue grows again.
MonitorTickSticky ==
    /\ monitor
    /\ LET isAboveUpper == Len(queue) > UpperThreshold
           isBelowLower == Len(queue) < LowerThreshold
       IN /\ healthy' = CASE isAboveUpper /\ ~wasAboveUpper -> FALSE
                          [] isBelowLower /\ ~wasBelowLower -> TRUE
                          [] OTHER -> healthy
          /\ wasAboveUpper' = isAboveUpper
          /\ wasBelowLower' = (wasBelowLower \/ isBelowLower)
    /\ UNCHANGED <<task, queue, worker, closer, closed, monitor, shuttingDown>>

\* One tick.  Upper and lower cannot both be crossed (UpperThreshold exceeds
\* LowerThreshold), so the two Actions never run on the same tick.
MonitorTick ==
    /\ monitor
    /\ LET isAboveUpper == Len(queue) > UpperThreshold
           isBelowLower == Len(queue) < LowerThreshold
       IN /\ healthy' = CASE isAboveUpper /\ ~wasAboveUpper -> FALSE
                          [] isBelowLower /\ ~wasBelowLower -> TRUE
                          [] OTHER -> healthy
          /\ wasAboveUpper' = isAboveUpper
          /\ wasBelowLower' = isBelowLower
    /\ UNCHANGED <<task, queue, worker, closer, closed, monitor, shuttingDown>>

\* p.done is closed: select may still have taken a few ticks before.
MonitorStops ==
    /\ monitor
    /\ closer # "none"
    /\ monitor' = FALSE
    /\ UNCHANGED <<task, queue, worker, closer, closed, wasAboveUpper, wasBelowLower,
                   healthy, shuttingDown>>
-----------------------------------------------------------------------------
Work(w) == TakeTask(w) \/ WorkerExits(w) \/ \E panics \in BOOLEAN : FinishTask(w, panics)
Close == CloseDone \/ CloseQueue \/ CloseReturns

Next ==
    \/ \E t \in Tasks : SubmitEnter(t) \/ SubmitSend(t)
    \/ \E w \in Workers : Work(w)
    \/ Shutdown
    \/ Close
    \/ MonitorTick
    \/ MonitorStops

Spec == Init /\ [][Next]_vars

\* Goroutines run, a Submit in flight finishes (it never blocks), the ticker
\* ticks, and a task that was started ends.  Nobody has to submit or shut down.
Fairness ==
    /\ \A t \in Tasks : WF_vars(SubmitSend(t))
    /\ \A w \in Workers : WF_vars(Work(w))
    /\ WF_vars(Close)
    /\ WF_vars(MonitorTick)

FairSpec == Spec /\ Fairness
-----------------------------------------------------------------------------
(* Properties *)

\* Types, and the queue within the capacity of the channel.
TypeOK ==
    /\ task \in [Tasks -> {"new", "sending", "queued", "running", "done", "dropped"}]
    /\ queue \in Seq(Tasks)
    /\ Len(queue) <= Buffer
    /\ worker \in [Workers -> Tasks \cup {Idle, Exited}]
    /\ closer \in {"none", "locking", "waiting", "returned"}
    /\ closed \in BOOLEAN
    /\ monitor \in BOOLEAN
    /\ wasAboveUpper \in BOOLEAN
    /\ wasBelowLower \in BOOLEAN
    /\ healthy \in BOOLEAN
    /\ shuttingDown \in BOOLEAN

\* A send on a closed channel panics in the submitter (the poller, a timer, a
\* ticker): no Submit past its closed test ever meets a closed queue.
NoSendOnClosedQueue == \A t \in Tasks : task[t] = "sending" => ~closed

\* When Close returns, every task that Submit accepted has run to its end and
\* no worker is left, whatever was submitted while Close was under way.
DrainedWhenCloseReturns ==
    closer = "returned" =>
        /\ queue = <<>>
        /\ \A t \in Tasks : task[t] \notin {"sending", "queued", "running"}

\* The flag the load balancer reads agrees with the monitor's last sample: an
\* overfull queue means unhealthy, a queue below the lower threshold means
\* healthy unless the container is shutting down.
HealthFollowsQueue ==
    /\ wasAboveUpper => ~healthy
    /\ wasBelowLower /\ ~shuttingDown => healthy

\* An accepted task is eventually run, across panics of other tasks and a
\* Close in between.
AcceptedTaskRuns == \A t \in Tasks : task[t] = "queued" ~> task[t] = "done"

\* Once load subsides the container becomes healthy (it starts unhealthy)
\* unless it is shut down.
BecomesHealthy == ~healthy ~> healthy \/ shuttingDown
=============================================================================
