-------------------------- MODULE Container_proofs --------------------------
(***************************************************************************)
(* Proofs about what a container does on its own: its worker pool          *)
(* (WorkerPool), the configuration it starts with (Config), and the order in*)
(* which it starts and stops (Lifecycle).                                  *)
(***************************************************************************)
EXTENDS WorkerPool, Config, Lifecycle, TLAPS

\* A leaf that names no prover is tried with these, in this order.
USE SMTT(20), ZenonT(30), Z3T(30)

-----------------------------------------------------------------------------
(***************************************************************************)
(* WorkerPool, for any number of tasks and workers and any buffer size.    *)
(*                                                                         *)
(* The queue is closed with no Submit inside its critical section and      *)
(* none enters afterwards, so a closed queue only shrinks; a worker that   *)
(* has exited saw it closed and empty, which therefore stays so.           *)
(***************************************************************************)

\* A task that was accepted is where its progress says it is.
TasksAreHeld ==
    \A t \in Tasks :
        /\ task[t] = "queued" => \E i \in 1 .. Len(queue) : queue[i] = t
        /\ task[t] = "running" => \E w \in Workers : worker[w] = t

\* The queue is closed exactly when Close has passed its critical section.
ClosedByClose == closed <=> closer \in {"waiting", "returned"}

\* A worker exits only from a closed and empty queue.
ExitedMeansDrained == \A w \in Workers : worker[w] = Exited => closed /\ queue = <<>>

\* When Close has returned, the workers it waited for are gone.
ReturnedMeansExited == closer = "returned" => \A w \in Workers : worker[w] = Exited

IInv ==
    /\ TypeOK
    /\ NoSendOnClosedQueue
    /\ HealthFollowsQueue
    /\ TasksAreHeld
    /\ ClosedByClose
    /\ ExitedMeansDrained
    /\ ReturnedMeansExited

\* loadDefault keeps the thresholds apart, so that the two actions of the
\* monitor exclude each other.
LEMMA ThresholdsApart ==
    /\ UpperThreshold \in Nat
    /\ LowerThreshold \in Nat
    /\ LowerThreshold < UpperThreshold
  BY WorkerPoolAssumption DEF UpperThreshold, LowerThreshold

\* A pool that was just made satisfies the invariant.
LEMMA InitIInv == Init => IInv
<1> SUFFICES ASSUME Init PROVE IInv
  BY Zenon
<1>1. TypeOK
  <2>1. queue \in Seq(Tasks) /\ Len(queue) <= Buffer
    BY WorkerPoolAssumption DEF Init
  <2> QED
    BY <2>1, Zenon DEF Init, TypeOK
<1>2. TasksAreHeld /\ NoSendOnClosedQueue
  BY Zenon DEF Init, TasksAreHeld, NoSendOnClosedQueue
<1>3. HealthFollowsQueue /\ ClosedByClose /\ ReturnedMeansExited
  BY Zenon DEF Init, HealthFollowsQueue, ClosedByClose, ReturnedMeansExited
<1>4. ExitedMeansDrained
  BY WorkerPoolAssumption, Zenon DEF Init, ExitedMeansDrained
<1> QED
  BY <1>1, <1>2, <1>3, <1>4, Zenon DEF IInv

\* Every step of submitters, workers, monitor and Close keeps it.
LEMMA NextIInv == IInv /\ [Next]_vars => IInv'
<1> SUFFICES ASSUME IInv, [Next]_vars PROVE IInv'
  BY Zenon
<1> USE WorkerPoolAssumption DEF IInv, TypeOK, sampled
<1>1. ASSUME NEW t \in Tasks, SubmitEnter(t)
      PROVE  IInv'
  <2>1. TypeOK'
    BY <1>1, Zenon DEF SubmitEnter
  <2>2. NoSendOnClosedQueue'
    BY <1>1, Zenon DEF SubmitEnter, NoSendOnClosedQueue
  <2>3. HealthFollowsQueue'
    BY <1>1, Zenon DEF SubmitEnter, HealthFollowsQueue
  <2>4. TasksAreHeld'
    BY <1>1, ZenonT(40), SMTT(30) DEF SubmitEnter, TasksAreHeld
  <2>5. ClosedByClose'
    BY <1>1, Zenon DEF SubmitEnter, ClosedByClose
  <2>6. ExitedMeansDrained'
    BY <1>1, Zenon DEF SubmitEnter, ExitedMeansDrained
  <2>7. ReturnedMeansExited'
    BY <1>1, Zenon DEF SubmitEnter, ReturnedMeansExited
  <2> QED
    BY <2>1, <2>2, <2>3, <2>4, <2>5, <2>6, <2>7, Zenon
<1>2. ASSUME NEW t \in Tasks, SubmitSend(t)
      PROVE  IInv'
  <2>1. TypeOK'
    <3>1. task' \in [Tasks -> {"new", "sending", "queued", "running", "done", "dropped"}]
      BY <1>2, Zenon DEF SubmitSend
    <3>2. queue' \in Seq(Tasks) /\ Len(queue') <= Buffer
      <4>1. CASE Len(queue) < Buffer
        BY <1>2, <4>1 DEF SubmitSend
      <4>2. CASE ~(Len(queue) < Buffer)
        BY <1>2, <4>2, Zenon DEF SubmitSend
      <4> QED
        BY <4>1, <4>2, Zenon
    <3> QED
      BY <1>2, <3>1, <3>2, Zenon DEF SubmitSend
  <2>2. NoSendOnClosedQueue'
    BY <1>2, Zenon DEF SubmitSend, NoSendOnClosedQueue
  <2>3. HealthFollowsQueue'
    BY <1>2, Zenon DEF SubmitSend, HealthFollowsQueue
  <2>4. TasksAreHeld'
    <3>1. CASE Len(queue) < Buffer
      <4>1. queue' = Append(queue, t) /\ worker' = worker /\ task' = [task EXCEPT ![t] = "queued"]
        BY <1>2, <3>1, Zenon DEF SubmitSend
      <4>2. /\ Len(queue) \in Nat /\ Len(queue') = Len(queue) + 1
            /\ queue'[Len(queue) + 1] = t
            /\ \A i \in 1 .. Len(queue) : queue'[i] = queue[i]
        BY <4>1
      <4>3. /\ Len(queue) + 1 \in 1 .. Len(queue')
            /\ \A i \in 1 .. Len(queue) : i \in 1 .. Len(queue')
        BY <4>2
      <4>4. /\ task'[t] = "queued"
            /\ \A u \in Tasks \ {t} : task'[u] = task[u]
        BY <4>1, Zenon
      <4>5. ASSUME NEW u \in Tasks, task'[u] = "queued"
            PROVE  \E i \in 1 .. Len(queue') : queue'[i] = u
        <5>1. CASE u = t
          BY <4>2, <4>3, <5>1, Zenon
        <5>2. CASE u # t
          <6>1. PICK i \in 1 .. Len(queue) : queue[i] = u
            BY <4>4, <4>5, <5>2, Zenon DEF TasksAreHeld
          <6> QED
            BY <4>2, <4>3, <6>1, Zenon
        <5> QED
          BY <5>1, <5>2, Zenon
      <4>6. ASSUME NEW u \in Tasks, task'[u] = "running"
            PROVE  \E w \in Workers : worker'[w] = u
        BY <4>1, <4>4, <4>6, Zenon DEF TasksAreHeld
      <4> QED
        BY <4>5, <4>6, Zenon DEF TasksAreHeld
    <3>2. CASE ~(Len(queue) < Buffer)
      <4>1. /\ queue' = queue /\ worker' = worker
            /\ task'[t] = "dropped" /\ \A u \in Tasks \ {t} : task'[u] = task[u]
        BY <1>2, <3>2, Zenon DEF SubmitSend
      <4>2. \A u \in Tasks : task'[u] \in {"queued", "running"} => task'[u] = task[u]
        BY <4>1
      <4> QED
        BY <4>1, <4>2, ZenonT(40), SMTT(30) DEF TasksAreHeld
    <3> QED
      BY <3>1, <3>2, Zenon
  <2>5. ClosedByClose'
    BY <1>2, Zenon DEF SubmitSend, ClosedByClose
  <2>6. ExitedMeansDrained'
    BY <1>2, Zenon DEF SubmitSend, ExitedMeansDrained, NoSendOnClosedQueue
  <2>7. ReturnedMeansExited'
    BY <1>2, Zenon DEF SubmitSend, ReturnedMeansExited
  <2> QED
    BY <2>1, <2>2, <2>3, <2>4, <2>5, <2>6, <2>7, Zenon
<1>3. ASSUME NEW w \in Workers, TakeTask(w)
      PROVE  IInv'
  <2>1. TypeOK'
    BY <1>3 DEF TakeTask
  <2>2. NoSendOnClosedQueue'
    BY <1>3, Zenon DEF TakeTask, NoSendOnClosedQueue
  <2>3. HealthFollowsQueue'
    BY <1>3, Zenon DEF TakeTask, HealthFollowsQueue
  <2>4. TasksAreHeld'
    <3> SUFFICES ASSUME NEW t \in Tasks
                 PROVE  /\ task'[t] = "queued" => \E i \in 1 .. Len(queue') : queue'[i] = t
                        /\ task'[t] = "running" => \E x \in Workers : worker'[x] = t
      BY Zenon DEF TasksAreHeld
    <3>1. CASE t = Head(queue)
      BY <1>3, <3>1, Zenon DEF TakeTask
    <3>2. CASE t # Head(queue)
      <4>1. ASSUME task'[t] = "queued"
            PROVE  \E i \in 1 .. Len(queue') : queue'[i] = t
        <5>1. PICK i \in 1 .. Len(queue) : queue[i] = t
          BY <1>3, <3>2, <4>1, Zenon DEF TakeTask, TasksAreHeld
        <5>2. i - 1 \in 1 .. Len(queue') /\ queue'[i - 1] = t
          BY <1>3, <3>2, <5>1 DEF TakeTask
        <5> QED
          BY <5>2, Zenon
      <4>2. ASSUME task'[t] = "running"
            PROVE  \E x \in Workers : worker'[x] = t
        <5>1. PICK x \in Workers : worker[x] = t
          BY <1>3, <3>2, <4>2, Zenon DEF TakeTask, TasksAreHeld
        <5> QED
          BY <1>3, <5>1, Zenon DEF TakeTask
      <4> QED
        BY <4>1, <4>2, Zenon
    <3> QED
      BY <3>1, <3>2, Zenon
  <2>5. ClosedByClose'
    BY <1>3, Zenon DEF TakeTask, ClosedByClose
  <2>6. ExitedMeansDrained'
    BY <1>3 DEF TakeTask, ExitedMeansDrained
  <2>7. ReturnedMeansExited'
    BY <1>3, Zenon DEF TakeTask, ReturnedMeansExited
  <2> QED
    BY <2>1, <2>2, <2>3, <2>4, <2>5, <2>6, <2>7, Zenon
<1>4. ASSUME NEW w \in Workers, NEW panics \in BOOLEAN, FinishTask(w, panics)
      PROVE  IInv'
  <2>1. TypeOK'
    BY <1>4, ZenonT(40), SMTT(30) DEF FinishTask
  <2>2. NoSendOnClosedQueue'
    BY <1>4, Zenon DEF FinishTask, NoSendOnClosedQueue
  <2>3. HealthFollowsQueue'
    BY <1>4, Zenon DEF FinishTask, HealthFollowsQueue
  <2>4. TasksAreHeld'
    BY <1>4, ZenonT(40), SMTT(30) DEF FinishTask, TasksAreHeld
  <2>5. ClosedByClose'
    BY <1>4, Zenon DEF FinishTask, ClosedByClose
  <2>6. ExitedMeansDrained'
    BY <1>4, Zenon DEF FinishTask, ExitedMeansDrained
  <2>7. ReturnedMeansExited'
    BY <1>4, Zenon DEF FinishTask, ReturnedMeansExited
  <2> QED
    BY <2>1, <2>2, <2>3, <2>4, <2>5, <2>6, <2>7, Zenon
<1>5. ASSUME NEW w \in Workers, WorkerExits(w)
      PROVE  IInv'
  <2>1. TypeOK'
    BY <1>5, ZenonT(40), SMTT(30) DEF WorkerExits
  <2>2. NoSendOnClosedQueue'
    BY <1>5, Zenon DEF WorkerExits, NoSendOnClosedQueue
  <2>3. HealthFollowsQueue'
    BY <1>5, Zenon DEF WorkerExits, HealthFollowsQueue
  <2>4. TasksAreHeld'
    BY <1>5 DEF WorkerExits, TasksAreHeld
  <2>5. ClosedByClose'
    BY <1>5, Zenon DEF WorkerExits, ClosedByClose
  <2>6. ExitedMeansDrained'
    BY <1>5, Zenon DEF WorkerExits, ExitedMeansDrained
  <2>7. ReturnedMeansExited'
    BY <1>5, Zenon DEF WorkerExits, ReturnedMeansExited
  <2> QED
    BY <2>1, <2>2, <2>3, <2>4, <2>5, <2>6, <2>7, Zenon
<1>6. CASE Shutdown
  <2>1. TypeOK'
    BY <1>6, Zenon DEF Shutdown
  <2>2. NoSendOnClosedQueue'
    BY <1>6, Zenon DEF Shutdown, NoSendOnClosedQueue
  <2>3. HealthFollowsQueue'
    BY <1>6, Zenon DEF Shutdown, HealthFollowsQueue
  <2>4. TasksAreHeld'
    BY <1>6, Zenon DEF Shutdown, TasksAreHeld
  <2>5. ClosedByClose'
    BY <1>6, Zenon DEF Shutdown, ClosedByClose
  <2>6. ExitedMeansDrained'
    BY <1>6, Zenon DEF Shutdown, ExitedMeansDrained
  <2>7. ReturnedMeansExited'
    BY <1>6, Zenon DEF Shutdown, ReturnedMeansExited
  <2> QED
    BY <2>1, <2>2, <2>3, <2>4, <2>5, <2>6, <2>7, Zenon
<1>7. CASE CloseDone
  <2>1. TypeOK'
    BY <1>7, Zenon DEF CloseDone
  <2>2. NoSendOnClosedQueue'
    BY <1>7, Zenon DEF CloseDone, NoSendOnClosedQueue
  <2>3. HealthFollowsQueue'
    BY <1>7, Zenon DEF CloseDone, HealthFollowsQueue
  <2>4. TasksAreHeld'
    BY <1>7, Zenon DEF CloseDone, TasksAreHeld
  <2>5. ClosedByClose'
    BY <1>7, Zenon DEF CloseDone, ClosedByClose
  <2>6. ExitedMeansDrained'
    BY <1>7, Zenon DEF CloseDone, ExitedMeansDrained
  <2>7. ReturnedMeansExited'
    BY <1>7, Zenon DEF CloseDone, ReturnedMeansExited
  <2> QED
    BY <2>1, <2>2, <2>3, <2>4, <2>5, <2>6, <2>7, Zenon
<1>8. CASE CloseQueue
  <2>1. TypeOK'
    BY <1>8, Zenon DEF CloseQueue
  <2>2. NoSendOnClosedQueue'
    BY <1>8, Zenon DEF CloseQueue, NoSendOnClosedQueue
  <2>3. HealthFollowsQueue'
    BY <1>8, Zenon DEF CloseQueue, HealthFollowsQueue
  <2>4. TasksAreHeld'
    BY <1>8, Zenon DEF CloseQueue, TasksAreHeld
  <2>5. ClosedByClose'
    BY <1>8, Zenon DEF CloseQueue, ClosedByClose
  <2>6. ExitedMeansDrained'
    BY <1>8, Zenon DEF CloseQueue, ExitedMeansDrained
  <2>7. ReturnedMeansExited'
    BY <1>8, Zenon DEF CloseQueue, ReturnedMeansExited
  <2> QED
    BY <2>1, <2>2, <2>3, <2>4, <2>5, <2>6, <2>7, Zenon
<1>9. CASE CloseReturns
  <2>1. TypeOK'
    BY <1>9, Zenon DEF CloseReturns
  <2>2. NoSendOnClosedQueue'
    BY <1>9, Zenon DEF CloseReturns, NoSendOnClosedQueue
  <2>3. HealthFollowsQueue'
    BY <1>9, Zenon DEF CloseReturns, HealthFollowsQueue
  <2>4. TasksAreHeld'
    BY <1>9, Zenon DEF CloseReturns, TasksAreHeld
  <2>5. ClosedByClose'
    BY <1>9, Zenon DEF CloseReturns, ClosedByClose
  <2>6. ExitedMeansDrained'
    BY <1>9, Zenon DEF CloseReturns, ExitedMeansDrained
  <2>7. ReturnedMeansExited'
    BY <1>9, Zenon DEF CloseReturns, ReturnedMeansExited
  <2> QED
    BY <2>1, <2>2, <2>3, <2>4, <2>5, <2>6, <2>7, Zenon
<1>10. CASE MonitorTick
  <2>1. TypeOK'
    <3>1. wasAboveUpper' \in BOOLEAN /\ wasBelowLower' \in BOOLEAN
      BY <1>10 DEF MonitorTick
    <3>2. healthy' \in {TRUE, FALSE, healthy}
      BY <1>10, Zenon DEF MonitorTick
    <3> QED
      BY <1>10, <3>1, <3>2, Zenon DEF MonitorTick
  <2>2. NoSendOnClosedQueue'
    BY <1>10, Zenon DEF MonitorTick, NoSendOnClosedQueue
  <2>3. HealthFollowsQueue'
    BY <1>10, ThresholdsApart DEF MonitorTick, HealthFollowsQueue
  <2>4. TasksAreHeld'
    BY <1>10, Zenon DEF MonitorTick, TasksAreHeld
  <2>5. ClosedByClose'
    BY <1>10, Zenon DEF MonitorTick, ClosedByClose
  <2>6. ExitedMeansDrained'
    BY <1>10, Zenon DEF MonitorTick, ExitedMeansDrained
  <2>7. ReturnedMeansExited'
    BY <1>10, Zenon DEF MonitorTick, ReturnedMeansExited
  <2> QED
    BY <2>1, <2>2, <2>3, <2>4, <2>5, <2>6, <2>7, Zenon
<1>11. CASE MonitorStops
  <2>1. TypeOK'
    BY <1>11, Zenon DEF MonitorStops
  <2>2. NoSendOnClosedQueue'
    BY <1>11, Zenon DEF MonitorStops, NoSendOnClosedQueue
  <2>3. HealthFollowsQueue'
    BY <1>11, Zenon DEF MonitorStops, HealthFollowsQueue
  <2>4. TasksAreHeld'
    BY <1>11, Zenon DEF MonitorStops, TasksAreHeld
  <2>5. ClosedByClose'
    BY <1>11, Zenon DEF MonitorStops, ClosedByClose
  <2>6. ExitedMeansDrained'
    BY <1>11, Zenon DEF MonitorStops, ExitedMeansDrained
  <2>7. ReturnedMeansExited'
    BY <1>11, Zenon DEF MonitorStops, ReturnedMeansExited
  <2> QED
    BY <2>1, <2>2, <2>3, <2>4, <2>5, <2>6, <2>7, Zenon
<1>12. CASE UNCHANGED vars
  <2>1. TypeOK'
    BY <1>12, ZenonT(40), SMTT(30) DEF vars
  <2>2. NoSendOnClosedQueue'
    BY <1>12, Zenon DEF vars, NoSendOnClosedQueue
  <2>3. HealthFollowsQueue'
    BY <1>12, Zenon DEF vars, HealthFollowsQueue
  <2>4. TasksAreHeld'
    BY <1>12, Zenon DEF vars, TasksAreHeld
  <2>5. ClosedByClose'
    BY <1>12, Zenon DEF vars, ClosedByClose
  <2>6. ExitedMeansDrained'
    BY <1>12, Zenon DEF vars, ExitedMeansDrained
  <2>7. ReturnedMeansExited'
    BY <1>12, Zenon DEF vars, ReturnedMeansExited
  <2> QED
    BY <2>1, <2>2, <2>3, <2>4, <2>5, <2>6, <2>7, Zenon
<1> QED
  BY <1>1, <1>2, <1>3, <1>4, <1>5, <1>6, <1>7, <1>8, <1>9, <1>10, <1>11, <1>12, Zenon DEF Next,
     Work, Close

\* The pool's types, and a queue that never exceeds its capacity.
THEOREM TypeCorrect == Spec => []TypeOK
<1>1. IInv => TypeOK
  BY Zenon DEF IInv
<1> QED
  BY <1>1, InitIInv, NextIInv, PTL DEF Spec

\* The lock of Submit and Close keeps every send off a closed channel.
THEOREM NeverSendsOnClosedQueue == Spec => []NoSendOnClosedQueue
<1>1. IInv => NoSendOnClosedQueue
  BY Zenon DEF IInv
<1> QED
  BY <1>1, InitIInv, NextIInv, PTL DEF Spec

\* Close returns only after every accepted task has been run.
THEOREM CloseDrains == Spec => []DrainedWhenCloseReturns
<1>1. IInv => DrainedWhenCloseReturns
  <2> SUFFICES ASSUME IInv, closer = "returned"
               PROVE  queue = <<>> /\ \A t \in Tasks : task[t] \notin {"sending", "queued", "running"}
    BY Zenon DEF DrainedWhenCloseReturns
  <2>1. queue = <<>> /\ \A w \in Workers : worker[w] = Exited
    BY WorkerPoolAssumption, Zenon DEF IInv, ReturnedMeansExited, ExitedMeansDrained
  <2>2. \A t \in Tasks : task[t] # "queued"
    <3>1. 1 .. Len(queue) = {}
      BY <2>1
    <3> QED
      BY <3>1, Zenon DEF IInv, TasksAreHeld
  <2>3. \A t \in Tasks : task[t] # "running"
    BY <2>1, WorkerPoolAssumption, Zenon DEF IInv, TasksAreHeld
  <2>4. \A t \in Tasks : task[t] # "sending"
    BY Zenon DEF IInv, ClosedByClose, NoSendOnClosedQueue
  <2> QED
    BY <2>1, <2>2, <2>3, <2>4, Zenon
<1> QED
  BY <1>1, InitIInv, NextIInv, PTL DEF Spec

\* The health flag agrees with the monitor's last sample of the queue.
THEOREM HealthAgreesWithQueue == Spec => []HealthFollowsQueue
<1>1. IInv => HealthFollowsQueue
  BY Zenon DEF IInv
<1> QED
  BY <1>1, InitIInv, NextIInv, PTL DEF Spec

-----------------------------------------------------------------------------
(***************************************************************************)
(* Config: the numeric blocks settle whatever integers they are given:     *)
(* filling in defaults a second time changes nothing in an accepted        *)
(* block, a block that is acceptable as written stays acceptable, and a    *)
(* block with nothing set is accepted.                                     *)
(***************************************************************************)

WorkerPoolT == [workers : Int, buffer : Int, upper : Int, lower : Int]

ActiveConnectionT == [cutoff : Int, pendingTTL : Int, max : Int]

PingCheckerT == [idle : Int, timeout : Int]

RateLimiterT == [Limiters -> [rate : Int, burst : Int]]

\* Truncated division by four stays between zero and its dividend.
LEMMA QuotientByFour ==
    ASSUME NEW n \in Int
    PROVE  /\ Quotient(n, 4) \in Int
           /\ n >= 0 => Quotient(n, 4) >= 0
           /\ n < 0 => Quotient(n, 4) <= 0
  <1>1. CASE n >= 0
    BY <1>1, n \div 4 \in Int /\ n \div 4 >= 0 DEF Quotient
  <1>2. CASE ~(n >= 0)
    <2>1. -n \in Int /\ -n >= 0
      BY <1>2
    <2>2. (-n) \div 4 \in Int /\ (-n) \div 4 >= 0
      BY <2>1
    <2> QED
      BY <1>2, <2>2 DEF Quotient
  <1> QED
    BY <1>1, <1>2, Zenon

\* WorkerPoolT.loadDefault: the thresholds it derives stay put and stay apart.
THEOREM WorkerPoolSettles ==
    ASSUME NEW w \in WorkerPoolT
    PROVE  /\ WorkerPoolDefault(w) \in WorkerPoolT
           /\ WorkerPoolValid(WorkerPoolDefault(w)) =>
                  WorkerPoolDefault(WorkerPoolDefault(w)) = WorkerPoolDefault(w)
           /\ WorkerPoolValid(w) => WorkerPoolValid(WorkerPoolDefault(w))
           /\ w = ensureNonNil.workerPool => WorkerPoolValid(WorkerPoolDefault(w))
  <1> DEFINE buffer == OrDefault(w.buffer, 4096)
             ratio  == Quotient(buffer * 3, 4)
             upper  == OrDefault(w.upper, IF ratio < 1 THEN 1 ELSE ratio)
             lower  == OrDefault(w.lower, Quotient(buffer, 4))
             low    == IF upper <= lower THEN upper - 1 ELSE lower
             d      == [workers |-> w.workers, buffer |-> buffer, upper |-> upper, lower |-> low]
  <1>1. WorkerPoolDefault(w) = d
    BY DEF WorkerPoolDefault
  <1>2. w.workers \in Int /\ w.buffer \in Int /\ w.upper \in Int /\ w.lower \in Int
    BY Zenon DEF WorkerPoolT
  <1>3. buffer \in Int /\ buffer # 0 /\ buffer * 3 \in Int
    BY <1>2 DEF OrDefault
  <1>4. ratio \in Int /\ Quotient(buffer, 4) \in Int /\ (buffer >= 0 => Quotient(buffer, 4) >= 0)
    BY <1>3, QuotientByFour
  <1> HIDE DEF buffer, ratio
  <1>5. upper \in Int /\ upper # 0 /\ (w.upper # 0 => upper = w.upper) /\ (w.upper = 0 => upper >= 1)
    BY <1>2, <1>4 DEF OrDefault
  <1>6. lower \in Int /\ (w.lower # 0 => lower = w.lower) /\ (w.lower = 0 => lower = Quotient(buffer, 4))
    BY <1>2, <1>4, Zenon DEF OrDefault
  <1>7. d \in WorkerPoolT
    BY <1>2, <1>3, <1>5, <1>6 DEF WorkerPoolT
  <1>8. OrDefault(d.buffer, 4096) = buffer
    BY <1>3 DEF OrDefault
  <1>9. OrDefault(d.upper, IF ratio < 1 THEN 1 ELSE ratio) = upper
    BY <1>5, Zenon DEF OrDefault
  <1> HIDE DEF upper
  <1>10. buffer > 0 =>
         low = IF upper <= OrDefault(low, Quotient(buffer, 4))
                 THEN upper - 1 ELSE OrDefault(low, Quotient(buffer, 4))
    BY <1>2, <1>3, <1>4, <1>5, <1>6 DEF OrDefault
  <1>11. WorkerPoolValid(d) => WorkerPoolDefault(d) = d
    BY <1>3, <1>8, <1>9, <1>10 DEF WorkerPoolDefault, WorkerPoolValid, ratio
  <1>12. WorkerPoolValid(w) => WorkerPoolValid(d)
    <2> SUFFICES ASSUME WorkerPoolValid(w) PROVE WorkerPoolValid(d)
      BY Zenon
    <2>1. buffer > 0
      BY <1>2 DEF WorkerPoolValid, buffer, OrDefault
    <2>2. upper >= 1
      BY <1>2, <1>5 DEF WorkerPoolValid
    <2>3. lower >= 0
      BY <1>2, <1>3, <1>4, <1>6, <2>1 DEF WorkerPoolValid
    <2> QED
      BY <1>2, <1>5, <1>6, <2>1, <2>2, <2>3 DEF WorkerPoolValid
  <1>13. w = ensureNonNil.workerPool => WorkerPoolValid(d)
    <2> SUFFICES ASSUME w = ensureNonNil.workerPool PROVE WorkerPoolValid(d)
      BY Zenon
    <2>1. w.workers = 0 /\ w.buffer = 0 /\ w.upper = 0 /\ w.lower = 0
      BY ZenonT(40), SMTT(30) DEF ensureNonNil
    <2>2. buffer = 4096
      BY <2>1, ZenonT(40), SMTT(30) DEF buffer, OrDefault
    <2> QED
      BY <1>4, <1>5, <1>6, <2>1, <2>2 DEF WorkerPoolValid
  <1> QED
    BY <1>1, <1>7, <1>11, <1>12, <1>13, ZenonT(40), SMTT(30)

\* ActiveConnectionT.loadDefault: pending messages are kept for at least the cutoff.
THEOREM ActiveConnectionSettles ==
    ASSUME NEW a \in ActiveConnectionT
    PROVE  LET d == ActiveConnectionDefault(a)
           IN  /\ d \in ActiveConnectionT
               /\ ActiveConnectionDefault(d) = d
               /\ ActiveConnectionValid(a) => ActiveConnectionValid(d)
               /\ a = ensureNonNil.activeConnection => ActiveConnectionValid(d)
<1> DEFINE d == ActiveConnectionDefault(a)
<1>1. a.cutoff \in Int /\ a.pendingTTL \in Int /\ a.max \in Int
  BY DEF ActiveConnectionT
<1>2. /\ d.cutoff = (IF a.cutoff = 0 THEN 60 ELSE a.cutoff)
      /\ d.pendingTTL = (IF a.pendingTTL = 0 THEN 2 * d.cutoff ELSE a.pendingTTL)
      /\ d.max = a.max
  BY DEF ActiveConnectionDefault, OrDefault
<1>3. d = [cutoff |-> d.cutoff, pendingTTL |-> d.pendingTTL, max |-> d.max]
  BY DEF ActiveConnectionDefault
<1>4. ActiveConnectionDefault(d) =
        [cutoff |-> IF d.cutoff = 0 THEN 60 ELSE d.cutoff,
         pendingTTL |-> IF d.pendingTTL = 0
                          THEN 2 * (IF d.cutoff = 0 THEN 60 ELSE d.cutoff) ELSE d.pendingTTL,
         max |-> d.max]
  BY ZenonT(40), SMTT(30) DEF ActiveConnectionDefault, OrDefault
<1>5. ensureNonNil.activeConnection = [cutoff |-> 0, pendingTTL |-> 0, max |-> 0]
  BY DEF ensureNonNil
<1> HIDE DEF d
<1>6. d.cutoff \in Int /\ d.cutoff # 0
  BY <1>1, <1>2
<1>7. d.pendingTTL \in Int /\ d.pendingTTL # 0 /\ d.max \in Int
  BY <1>1, <1>2, <1>6
<1>8. d \in ActiveConnectionT
  BY <1>3, <1>6, <1>7 DEF ActiveConnectionT
<1>9. ActiveConnectionDefault(d) = d
  BY <1>3, <1>4, <1>6, <1>7, Zenon
<1>10. ActiveConnectionValid(a) => ActiveConnectionValid(d)
  BY <1>1, <1>2 DEF ActiveConnectionValid
<1>11. a = ensureNonNil.activeConnection => ActiveConnectionValid(d)
  BY <1>2, <1>5 DEF ActiveConnectionValid
<1> QED
  BY <1>8, <1>9, <1>10, <1>11, Zenon DEF d

\* PingCheckerT.loadDefault.
THEOREM PingCheckerSettles ==
    ASSUME NEW p \in PingCheckerT
    PROVE  LET d == PingCheckerDefault(p)
           IN  /\ d \in PingCheckerT
               /\ PingCheckerDefault(d) = d
               /\ PingCheckerValid(p) => PingCheckerValid(d)
               /\ p = ensureNonNil.pingChecker => PingCheckerValid(d)
<1> DEFINE d == PingCheckerDefault(p)
<1>1. p.idle \in Int /\ p.timeout \in Int
  BY DEF PingCheckerT
<1>2. /\ d.idle = (IF p.idle = 0 THEN 20 ELSE p.idle)
      /\ d.timeout = (IF p.timeout = 0 THEN 3 ELSE p.timeout)
      /\ d = [idle |-> d.idle, timeout |-> d.timeout]
  BY DEF PingCheckerDefault, OrDefault
<1>3. PingCheckerDefault(d) = [idle |-> IF d.idle = 0 THEN 20 ELSE d.idle,
                               timeout |-> IF d.timeout = 0 THEN 3 ELSE d.timeout]
  BY ZenonT(40), SMTT(30) DEF PingCheckerDefault, OrDefault
<1>4. ensureNonNil.pingChecker = [idle |-> 0, timeout |-> 0]
  BY DEF ensureNonNil
<1> HIDE DEF d
<1>5. d.idle \in Int /\ d.idle # 0 /\ d.timeout \in Int /\ d.timeout # 0
  BY <1>1, <1>2
<1>6. d \in PingCheckerT
  BY <1>2, <1>5 DEF PingCheckerT
<1>7. PingCheckerDefault(d) = d
  BY <1>2, <1>3, <1>5, Zenon
<1>8. PingCheckerValid(p) => PingCheckerValid(d)
  BY <1>1, <1>2 DEF PingCheckerValid
<1>9. p = ensureNonNil.pingChecker => PingCheckerValid(d)
  BY <1>2, <1>4 DEF PingCheckerValid
<1> QED
  BY <1>6, <1>7, <1>8, <1>9, Zenon DEF d

\* RateLimiterT.loadDefault: every limiter's burst is at least its rate.
THEOREM RateLimiterSettles ==
    ASSUME NEW r \in RateLimiterT
    PROVE  LET d == RateLimiterDefault(r)
           IN  /\ d \in RateLimiterT
               /\ RateLimiterDefault(d) = d
               /\ RateLimiterValid(r) => RateLimiterValid(d)
               /\ r = ensureNonNil.rateLimiter => RateLimiterValid(d)
  BY DEF RateLimiterT, RateLimiterDefault, RateLimiterValid, OrDefault, ensureNonNil,
         Limiters, DefaultRate, DefaultBurst

-----------------------------------------------------------------------------
(***************************************************************************)
(* Config: the other blocks.                                               *)
(***************************************************************************)

\* What loadDefault and validate promise of a block.
Settles(b, x) ==
    /\ Validate(b, LoadDefault(b, x)) => LoadDefault(b, LoadDefault(b, x)) = LoadDefault(b, x)
    /\ Validate(b, x) => Validate(b, LoadDefault(b, x))
    /\ x = ensureNonNil[b] /\ b \in Optional => Validate(b, LoadDefault(b, x))

\* A text that was filled in is not empty, and stays.
LEMMA TextStays ==
    ASSUME NEW t, NEW default, default # ""
    PROVE  OrText(OrText(t, default), default) = OrText(t, default)
BY Zenon DEF OrText

\* Two blocks without defaults.
LEMMA CorsSettles == ASSUME NEW x PROVE Settles("cors", x) /\ Settles("anonymousInstance", x)
<1>1. LoadDefault("cors", x) = x /\ LoadDefault("anonymousInstance", x) = x
  BY Zenon DEF LoadDefault
<1>2. ensureNonNil.cors.enabled = FALSE
  BY Zenon DEF ensureNonNil
<1>3. x = ensureNonNil["cors"] => Validate("cors", x)
  BY <1>2, Zenon DEF Validate, CorsValid
<1>4. "anonymousInstance" \notin Optional
  BY Zenon DEF Optional
<1> QED
  BY <1>1, <1>3, <1>4, Zenon DEF Settles

\* INFO: a name is generated for a container that has none.
LEMMA InfoSettles == ASSUME NEW x PROVE Settles("info", x)
<1> DEFINE d == InfoDefault(x)
<1>1. LoadDefault("info", x) = d /\ LoadDefault("info", d) = InfoDefault(d)
      /\ Validate("info", x) = InfoValid(x) /\ Validate("info", d) = InfoValid(d)
  BY Zenon DEF LoadDefault, Validate
<1>2. d.env = x.env /\ d.container = OrText(x.container, "generated")
  BY Zenon DEF InfoDefault
<1>3. InfoDefault(d) = d
  <2>1. OrText(d.container, "generated") = d.container
    BY <1>2, TextStays, Zenon
  <2> QED
    BY <1>2, <2>1, Zenon DEF InfoDefault
<1> HIDE DEF d
<1>4. InfoValid(x) => InfoValid(d)
  BY <1>2, Zenon DEF InfoValid, OrText
<1>5. "info" \notin Optional
  BY Zenon DEF Optional
<1> QED
  BY <1>1, <1>3, <1>4, <1>5, Zenon DEF Settles

\* OTEL: the exporter of a missing block discards.
LEMMA OtelSettles == ASSUME NEW x PROVE Settles("otel", x)
<1> DEFINE d == OtelDefault(x)
<1>1. LoadDefault("otel", x) = d /\ LoadDefault("otel", d) = OtelDefault(d)
      /\ Validate("otel", x) = OtelValid(x) /\ Validate("otel", d) = OtelValid(d)
  BY Zenon DEF LoadDefault, Validate
<1>2. d.enabled = x.enabled /\ d.exporter = OrText(x.exporter, "discard") /\ d.file = x.file /\ d.endpoint = x.endpoint
  BY Zenon DEF OtelDefault
<1>3. OtelDefault(d) = d
  <2>1. OrText(d.exporter, "discard") = d.exporter
    BY <1>2, TextStays, Zenon
  <2> QED
    BY <1>2, <2>1, Zenon DEF OtelDefault
<1> HIDE DEF d
<1>4. OtelValid(x) => OtelValid(d)
  BY <1>2, Zenon DEF OtelValid, OrText
<1>5. x = ensureNonNil["otel"] => OtelValid(d)
  <2>1. ensureNonNil["otel"].enabled = FALSE
    BY ZenonT(40), SMTT(30) DEF ensureNonNil
  <2> QED
    BY <1>2, <2>1, Zenon DEF OtelValid
<1> QED
  BY <1>1, <1>3, <1>4, <1>5, Zenon DEF Settles

\* An acceptable port was not left out.
LEMMA NoPortIsZero == 0 \notin Ports
BY SMT DEF Ports

\* METRICS: port and path are filled in apart.
LEMMA MetricsSettles == ASSUME NEW x, x.port \in Int PROVE Settles("metrics", x)
<1> DEFINE d == MetricsDefault(x)
<1>1. LoadDefault("metrics", x) = d /\ LoadDefault("metrics", d) = MetricsDefault(d)
      /\ Validate("metrics", x) = MetricsValid(x) /\ Validate("metrics", d) = MetricsValid(d)
  BY Zenon DEF LoadDefault, Validate
<1>2. d.enabled = x.enabled /\ d.allowlist = x.allowlist
  BY Zenon DEF MetricsDefault
<1>3. d.path = OrText(x.path, "ok")
  BY Zenon DEF MetricsDefault
<1>4. d.port = OrDefault(x.port, MetricsPort)
  BY Zenon DEF MetricsDefault
<1>5. OrDefault(d.port, MetricsPort) = d.port
  BY <1>4 DEF OrDefault, MetricsPort
<1>6. OrText(d.path, "ok") = d.path
  BY <1>3, TextStays, Zenon
<1>7. MetricsDefault(d) = d
  <2>1. MetricsDefault(d) = [enabled |-> d.enabled, port |-> d.port, path |-> d.path, allowlist |-> d.allowlist]
    BY <1>5, <1>6, Zenon DEF MetricsDefault
  <2>2. d = [enabled |-> d.enabled, port |-> d.port, path |-> d.path, allowlist |-> d.allowlist]
    BY Zenon DEF MetricsDefault
  <2> QED
    BY <2>1, <2>2, Zenon
<1> HIDE DEF d
<1>8. MetricsValid(x) => MetricsValid(d)
  <2> SUFFICES ASSUME MetricsValid(x), x.enabled
               PROVE  MetricsValid(d)
    BY <1>2, Zenon DEF MetricsValid
  <2>1. x.port # 0
    <3>1. x.port \in Ports
      BY Zenon DEF MetricsValid
    <3> QED
      BY <3>1, NoPortIsZero, Zenon
  <2>2. d.port = x.port
    BY <1>4, <2>1, Zenon DEF OrDefault
  <2>3. d.path = x.path
    BY <1>3, Zenon DEF MetricsValid, OrText
  <2> QED
    BY <1>2, <2>2, <2>3, Zenon DEF MetricsValid
<1>9. x = ensureNonNil["metrics"] => MetricsValid(d)
  <2>1. ensureNonNil["metrics"].enabled = FALSE
    BY Zenon DEF ensureNonNil
  <2> QED
    BY <1>2, <2>1, Zenon DEF MetricsValid
<1> QED
  BY <1>1, <1>7, <1>8, <1>9, Zenon DEF Settles

-----------------------------------------------------------------------------
(***************************************************************************)
(* Config: the SERVER section.                                             *)
(***************************************************************************)

ServerFields == DOMAIN ensureNonNil.server

\* A SERVER section as it can be read: its numbers are integers.
IsServer(s) ==
    /\ DOMAIN s = ServerFields
    /\ s.timeout \in Int /\ s.retryMax \in Int /\ s.pingInterval \in Int

\* The fields of the SERVER section.
LEMMA Fields ==
    ServerFields = {"repository", "signature", "handleMessage", "timeout", "retryMax", "ping", "pingInterval",
                    "bootCheck", "unhealthyAction", "transport", "driver", "apiKeys", "auth", "jwks", "pemFile",
                    "baseURL", "pubsubURL"}
BY Zenon DEF ServerFields, ensureNonNil

\* A number that was filled in is positive, and stays.
LEMMA NumberStays ==
    ASSUME NEW n \in Int, NEW default \in Nat \ {0}
    PROVE  OrPositive(OrPositive(n, default), default) = OrPositive(n, default)
BY Zenon DEF OrPositive

\* What loadDefault makes of each field of the SERVER section.
LEMMA ServerDefaultFields ==
    ASSUME NEW s, DOMAIN s = ServerFields
    PROVE  LET d == ServerDefault(s) IN
           /\ d = [f \in ServerFields |-> d[f]]
           /\ d.repository = OrText(s.repository, "postgres")
           /\ d.signature = OrText(s.signature, "enabled")
           /\ d.handleMessage = OrText(s.handleMessage, "sync")
           /\ d.timeout = OrPositive(s.timeout, 5)
           /\ d.retryMax = OrPositive(s.retryMax, 1)
           /\ d.pingInterval = (IF s.ping THEN OrPositive(s.pingInterval, 30) ELSE s.pingInterval)
           /\ d.bootCheck = (s.ping \/ s.bootCheck)
           /\ d.unhealthyAction = OrText(s.unhealthyAction, "log-only")
           /\ d.transport = OrText(s.transport, "webhook")
           /\ d.driver = (IF OrText(s.transport, "webhook") = "pubsub" THEN OrText(s.driver, "natsjs") ELSE s.driver)
           /\ d.ping = s.ping /\ d.apiKeys = s.apiKeys /\ d.auth = s.auth /\ d.jwks = s.jwks
           /\ d.pemFile = s.pemFile /\ d.baseURL = s.baseURL /\ d.pubsubURL = s.pubsubURL
BY Fields DEF ServerDefault

\* Two sections with the same fields are filled in alike.
LEMMA ServerDefaultStays ==
    ASSUME NEW s, IsServer(s)
    PROVE  ServerDefault(ServerDefault(s)) = ServerDefault(s)
<1> DEFINE d == ServerDefault(s)
           e == ServerDefault(d)
<1>1. /\ d = [f \in ServerFields |-> d[f]]
      /\ d.repository = OrText(s.repository, "postgres")
      /\ d.signature = OrText(s.signature, "enabled")
      /\ d.handleMessage = OrText(s.handleMessage, "sync")
      /\ d.timeout = OrPositive(s.timeout, 5)
      /\ d.retryMax = OrPositive(s.retryMax, 1)
      /\ d.pingInterval = (IF s.ping THEN OrPositive(s.pingInterval, 30) ELSE s.pingInterval)
      /\ d.bootCheck = (s.ping \/ s.bootCheck)
      /\ d.unhealthyAction = OrText(s.unhealthyAction, "log-only")
      /\ d.transport = OrText(s.transport, "webhook")
      /\ d.driver = (IF OrText(s.transport, "webhook") = "pubsub" THEN OrText(s.driver, "natsjs") ELSE s.driver)
      /\ d.ping = s.ping
  BY ServerDefaultFields, Zenon DEF IsServer
<1>2. DOMAIN d = ServerFields
  BY <1>1, Zenon
<1>3. LET x == ServerDefault(d) IN
      /\ x = [f \in ServerFields |-> x[f]]
      /\ x.repository = OrText(d.repository, "postgres")
      /\ x.signature = OrText(d.signature, "enabled")
      /\ x.handleMessage = OrText(d.handleMessage, "sync")
      /\ x.timeout = OrPositive(d.timeout, 5)
      /\ x.retryMax = OrPositive(d.retryMax, 1)
      /\ x.pingInterval = (IF d.ping THEN OrPositive(d.pingInterval, 30) ELSE d.pingInterval)
      /\ x.bootCheck = (d.ping \/ d.bootCheck)
      /\ x.unhealthyAction = OrText(d.unhealthyAction, "log-only")
      /\ x.transport = OrText(d.transport, "webhook")
      /\ x.driver = (IF OrText(d.transport, "webhook") = "pubsub" THEN OrText(d.driver, "natsjs") ELSE d.driver)
      /\ x.ping = d.ping /\ x.apiKeys = d.apiKeys /\ x.auth = d.auth /\ x.jwks = d.jwks
      /\ x.pemFile = d.pemFile /\ x.baseURL = d.baseURL /\ x.pubsubURL = d.pubsubURL
  BY <1>2, ServerDefaultFields, Zenon
<1> HIDE DEF d
<1>4. e.repository = d.repository /\ e.signature = d.signature /\ e.handleMessage = d.handleMessage
      /\ e.unhealthyAction = d.unhealthyAction /\ e.transport = d.transport
  BY <1>1, <1>3, ZenonT(40), SMTT(30) DEF OrText
<1>5. e.driver = d.driver
  BY <1>1, <1>3, ZenonT(40), SMTT(30) DEF OrText
<1>6. e.timeout = d.timeout /\ e.retryMax = d.retryMax
  BY <1>1, <1>3, NumberStays DEF IsServer
<1>7. e.pingInterval = d.pingInterval
  BY <1>1, <1>3, NumberStays DEF IsServer
<1>8. e.bootCheck = d.bootCheck
  BY <1>1, <1>3, Zenon
<1>9. e = [f \in ServerFields |-> e[f]]
  BY <1>3, Zenon
<1>10. ASSUME NEW f \in ServerFields
       PROVE  e[f] = d[f]
  BY <1>3, <1>4, <1>5, <1>6, <1>7, <1>8, Fields, ZenonT(40), SMTT(30)
<1> HIDE DEF e
<1> QED
  BY <1>1, <1>9, <1>10, Zenon DEF d, e

\* SERVER: the driver's default depends on the transport's, which is filled in first.
LEMMA ServerSettles == ASSUME NEW x, IsServer(x) PROVE Settles("server", x)
<1> DEFINE d == ServerDefault(x)
<1>1. LoadDefault("server", x) = d /\ LoadDefault("server", d) = ServerDefault(d)
      /\ Validate("server", x) = ServerValid(x) /\ Validate("server", d) = ServerValid(d)
  BY Zenon DEF LoadDefault, Validate
<1>2. ServerDefault(d) = d
  BY ServerDefaultStays, Zenon
<1>3. /\ d.repository = OrText(x.repository, "postgres")
      /\ d.signature = OrText(x.signature, "enabled")
      /\ d.handleMessage = OrText(x.handleMessage, "sync")
      /\ d.retryMax = OrPositive(x.retryMax, 1)
      /\ d.unhealthyAction = OrText(x.unhealthyAction, "log-only")
      /\ d.transport = OrText(x.transport, "webhook")
      /\ d.driver = (IF OrText(x.transport, "webhook") = "pubsub" THEN OrText(x.driver, "natsjs") ELSE x.driver)
      /\ d.apiKeys = x.apiKeys /\ d.auth = x.auth /\ d.jwks = x.jwks
      /\ d.pemFile = x.pemFile /\ d.baseURL = x.baseURL /\ d.pubsubURL = x.pubsubURL
  BY ServerDefaultFields, Zenon DEF IsServer
<1> HIDE DEF d
<1>4. ServerValid(x) => ServerValid(d)
  <2> SUFFICES ASSUME ServerValid(x)
               PROVE  ServerValid(d)
    BY Zenon
  <2>1. x.transport # "" /\ x.handleMessage # "" /\ x.signature # "" /\ x.repository # "" /\ x.unhealthyAction # ""
    BY Zenon DEF ServerValid
  <2>2. d.repository = x.repository /\ d.signature = x.signature /\ d.handleMessage = x.handleMessage
        /\ d.unhealthyAction = x.unhealthyAction /\ d.transport = x.transport
    BY <1>3, <2>1, Zenon DEF OrText
  <2>3. d.retryMax = x.retryMax
    BY <1>3 DEF ServerValid, OrPositive, IsServer
  <2>4. x.transport = "pubsub" => d.driver = x.driver
    <3>1. x.transport = "pubsub" => x.driver = "natsjs"
      BY Zenon DEF ServerValid
    <3> QED
      BY <1>3, <2>1, <3>1, Zenon DEF OrText
  <2> QED
    BY <1>3, <2>2, <2>3, <2>4, ZenonT(40), SMTT(30) DEF ServerValid
<1>5. "server" \notin Optional
  BY Zenon DEF Optional
<1> QED
  BY <1>1, <1>2, <1>4, <1>5, Zenon DEF Settles

\* The numeric blocks, as the loader sees them.
LEMMA NumericBlocksSettle ==
    /\ \A x \in WorkerPoolT : Settles("workerPool", x)
    /\ \A x \in ActiveConnectionT : Settles("activeConnection", x)
    /\ \A x \in PingCheckerT : Settles("pingChecker", x)
    /\ \A x \in RateLimiterT : Settles("rateLimiter", x)
<1>1. ASSUME NEW x \in WorkerPoolT
      PROVE  Settles("workerPool", x)
  <2> DEFINE d == WorkerPoolDefault(x)
  <2>1. LoadDefault("workerPool", x) = d /\ LoadDefault("workerPool", d) = WorkerPoolDefault(d)
        /\ Validate("workerPool", x) = WorkerPoolValid(x) /\ Validate("workerPool", d) = WorkerPoolValid(d)
        /\ ensureNonNil["workerPool"] = ensureNonNil.workerPool
    BY Zenon DEF LoadDefault, Validate
  <2> QED
    BY <2>1, WorkerPoolSettles, Zenon DEF Settles
<1>2. ASSUME NEW x \in ActiveConnectionT
      PROVE  Settles("activeConnection", x)
  <2> DEFINE d == ActiveConnectionDefault(x)
  <2>1. LoadDefault("activeConnection", x) = d /\ LoadDefault("activeConnection", d) = ActiveConnectionDefault(d)
        /\ Validate("activeConnection", x) = ActiveConnectionValid(x)
        /\ Validate("activeConnection", d) = ActiveConnectionValid(d)
    BY Zenon DEF LoadDefault, Validate
  <2> QED
    BY <2>1, ActiveConnectionSettles, Zenon DEF Settles
<1>3. ASSUME NEW x \in PingCheckerT
      PROVE  Settles("pingChecker", x)
  <2> DEFINE d == PingCheckerDefault(x)
  <2>1. LoadDefault("pingChecker", x) = d /\ LoadDefault("pingChecker", d) = PingCheckerDefault(d)
        /\ Validate("pingChecker", x) = PingCheckerValid(x) /\ Validate("pingChecker", d) = PingCheckerValid(d)
    BY Zenon DEF LoadDefault, Validate
  <2> QED
    BY <2>1, PingCheckerSettles, Zenon DEF Settles
<1>4. ASSUME NEW x \in RateLimiterT
      PROVE  Settles("rateLimiter", x)
  <2> DEFINE d == RateLimiterDefault(x)
  <2>1. LoadDefault("rateLimiter", x) = d /\ LoadDefault("rateLimiter", d) = RateLimiterDefault(d)
        /\ Validate("rateLimiter", x) = RateLimiterValid(x) /\ Validate("rateLimiter", d) = RateLimiterValid(d)
    BY Zenon DEF LoadDefault, Validate
  <2> QED
    BY <2>1, RateLimiterSettles, Zenon DEF Settles
<1> QED
  BY <1>1, <1>2, <1>3, <1>4, Zenon

\* Writing one more setting of a section keeps its numbers numbers.
LEMMA EditsAreServers ==
    ASSUME NEW S, \A s \in S : IsServer(s), NEW x \in ServerEdits(S)
    PROVE  IsServer(x)
<1>1. PICK s \in S : x \in UNION {ServerEdit(s, f) : f \in DOMAIN s}
  BY Zenon DEF ServerEdits
<1>2. PICK f \in DOMAIN s : x \in ServerEdit(s, f)
  BY <1>1, Zenon
<1>3. PICK a \in ServerWrites(f) : x = [s EXCEPT ![f] = a]
  BY <1>2, Zenon DEF ServerEdit
<1>4. DOMAIN s = ServerFields /\ s.timeout \in Int /\ s.retryMax \in Int /\ s.pingInterval \in Int
  BY Zenon DEF IsServer
<1>5. f \in {"timeout", "retryMax", "pingInterval"} => a \in Int
  <2>1. f \in {"timeout", "retryMax", "pingInterval"} => ServerWrites(f) = Settings
    BY Zenon DEF ServerWrites
  <2> QED
    BY <1>3, <2>1, SettingsAssumption, Zenon
<1>6. DOMAIN x = ServerFields
  BY <1>3, <1>4, Zenon
<1>7. x.timeout \in Int /\ x.retryMax \in Int /\ x.pingInterval \in Int
  <2>1. \A k \in DOMAIN s : x[k] = IF k = f THEN a ELSE s[k]
    BY <1>3, Zenon
  <2>2. {"timeout", "retryMax", "pingInterval"} \subseteq DOMAIN s
    BY <1>4, Fields, Zenon
  <2> QED
    BY <1>4, <1>5, <2>1, <2>2, Zenon
<1> QED
  BY <1>6, <1>7, Zenon DEF IsServer

\* The SERVER sections an operator may write, and the missing one.
LEMMA SectionsAreServers ==
    ASSUME NEW x \in ServerSections \union {ensureNonNil.server}
    PROVE  IsServer(x)
<1>1. ASSUME NEW s, s \in {ServerBase(""), ServerBase("pubsub"), ensureNonNil.server}
      PROVE  IsServer(s)
  <2> DEFINE m == ensureNonNil.server
  <2>1. DOMAIN m = ServerFields /\ m.timeout = 0 /\ m.retryMax = 0 /\ m.pingInterval = 0
    BY Zenon DEF ensureNonNil, ServerFields
  <2>2. ASSUME NEW t
        PROVE  DOMAIN ServerBase(t) = ServerFields /\ ServerBase(t).timeout = 0
               /\ ServerBase(t).retryMax = 0 /\ ServerBase(t).pingInterval = 0
    BY <2>1, ZenonT(40), SMTT(30) DEF ServerBase, ensureNonNil, ServerFields
  <2>3. 0 \in Int
    OBVIOUS
  <2> HIDE DEF m
  <2> QED
    BY <1>1, <2>1, <2>2, <2>3, Zenon DEF IsServer, m
<1>2. \A s \in ServerEdits({ServerBase(""), ServerBase("pubsub")}) : IsServer(s)
  BY <1>1, EditsAreServers, Zenon
<1> QED
  BY <1>1, <1>2, EditsAreServers, Zenon DEF ServerSections

(***************************************************************************)
(* Every block that can be read settles.                                   *)
(***************************************************************************)
Read(b) == Written(b) \union {ensureNonNil[b]}

\* Whatever an operator writes into a block, or leaves out of it.
LEMMA WrittenSettles ==
    ASSUME NEW b \in Blocks, NEW x \in Read(b)
    PROVE  Settles(b, x)
<1>0. 0 \in Int
  OBVIOUS
<1>1. CASE b = "workerPool"
  <2>1. Written(b) \subseteq WorkerPoolT
    BY <1>1, SettingsAssumption, Zenon DEF Written, WorkerPoolT
  <2>2. ensureNonNil[b] \in WorkerPoolT
    BY <1>0, <1>1, Zenon DEF ensureNonNil, WorkerPoolT
  <2> QED
    BY <1>1, <2>1, <2>2, NumericBlocksSettle, Zenon DEF Read
<1>2. CASE b = "activeConnection"
  <2>1. Written(b) \subseteq ActiveConnectionT
    BY <1>2, SettingsAssumption, Zenon DEF Written, ActiveConnectionT
  <2>2. ensureNonNil[b] \in ActiveConnectionT
    BY <1>0, <1>2, Zenon DEF ensureNonNil, ActiveConnectionT
  <2> QED
    BY <1>2, <2>1, <2>2, NumericBlocksSettle, Zenon DEF Read
<1>3. CASE b = "pingChecker"
  <2>1. Written(b) \subseteq PingCheckerT
    BY <1>3, SettingsAssumption, Zenon DEF Written, PingCheckerT
  <2>2. ensureNonNil[b] \in PingCheckerT
    BY <1>0, <1>3, ZenonT(40), SMTT(30) DEF ensureNonNil, PingCheckerT
  <2> QED
    BY <1>3, <2>1, <2>2, NumericBlocksSettle, Zenon DEF Read
<1>4. CASE b = "rateLimiter"
  <2> DEFINE m == ensureNonNil.rateLimiter
  <2>1. m \in RateLimiterT
    <3>1. m = [l \in Limiters |-> [rate |-> 0, burst |-> 0]]
      BY Zenon DEF ensureNonNil
    <3> QED
      BY <3>1 DEF RateLimiterT
  <2>2. Written(b) = UNION {{[m EXCEPT ![l] = r] : r \in [rate : Settings, burst : Settings]} : l \in Limiters}
    BY <1>4, Zenon DEF Written
  <2> HIDE DEF m
  <2>3. ASSUME NEW y \in Written(b)
        PROVE  y \in RateLimiterT
    <3>1. PICK l \in Limiters : y \in {[m EXCEPT ![l] = r] : r \in [rate : Settings, burst : Settings]}
      BY <2>2, Zenon
    <3>2. PICK r \in [rate : Settings, burst : Settings] : y = [m EXCEPT ![l] = r]
      BY <3>1, Zenon
    <3>3. r \in [rate : Int, burst : Int]
      BY <3>2, SettingsAssumption, Zenon
    <3> QED
      BY <2>1, <3>2, <3>3, Zenon DEF RateLimiterT
  <2>4. ensureNonNil[b] = m
    BY <1>4, Zenon DEF m
  <2> QED
    BY <1>4, <2>1, <2>3, <2>4, NumericBlocksSettle, Zenon DEF Read
<1>5. CASE b = "metrics"
  <2>1. Written(b) = [enabled : BOOLEAN, port : Settings, path : Texts, allowlist : SUBSET {"ok", "bad"}]
    BY <1>5, Zenon DEF Written
  <2>2. ASSUME NEW y \in [enabled : BOOLEAN, port : Settings, path : Texts, allowlist : SUBSET {"ok", "bad"}]
        PROVE  y.port \in Int
    BY SettingsAssumption, Zenon
  <2>3. ensureNonNil[b].port = 0
    BY <1>5, Zenon DEF ensureNonNil
  <2>4. x.port \in Int
    BY <1>0, <2>1, <2>2, <2>3, Zenon DEF Read
  <2> QED
    BY <1>5, <2>4, MetricsSettles, Zenon
<1>6. CASE b = "server"
  <2>1. Read(b) = ServerSections \union {ensureNonNil.server}
    BY <1>6, Zenon DEF Read, Written
  <2> QED
    BY <1>6, <2>1, SectionsAreServers, ServerSettles, Zenon
<1>7. CASE b \in {"info", "cors", "anonymousInstance", "otel"}
  BY <1>7, InfoSettles, CorsSettles, OtelSettles, Zenon
<1> QED
  BY <1>1, <1>2, <1>3, <1>4, <1>5, <1>6, <1>7, Zenon DEF Blocks

\* The block followed is one that was read, and loadDefault ran on it once.
ConfigInv ==
    verdict # "none" => block \in Blocks /\ raw \in Read(block) /\ loaded = LoadDefault(block, raw)

\* Every block settles (Config.loadDefault and validate, the SERVER section of
\* serverconfig.Load): a second load changes nothing in an accepted block, no block that
\* was acceptable as written is spoilt, and the missing optional ones are accepted, for
\* any numbers an operator may write.
THEOREM DefaultsSettleThm == ConfigSpec => []DefaultsSettle
<1>1. ConfigInit => ConfigInv
  BY Zenon DEF ConfigInit, ConfigInv
<1>2. ASSUME ConfigInv, [ConfigNext]_configVars
      PROVE  ConfigInv'
  <2>1. CASE Unmarshal
    <3>1. raw' \in (Read(block))'
      BY <2>1, Zenon DEF Unmarshal, Read
    <3>2. loaded' = (LoadDefault(block, raw))'
      BY <2>1, Zenon DEF Unmarshal, LoadDefault
    <3> QED
      BY <2>1, <3>1, <3>2, Zenon DEF Unmarshal, ConfigInv
  <2>2. CASE Accept
    BY <1>2, <2>2, Zenon DEF Accept, ConfigInv, Read
  <2>3. CASE UNCHANGED configVars
    BY <1>2, <2>3, Zenon DEF configVars, ConfigInv, Read
  <2> QED
    BY <1>2, <2>1, <2>2, <2>3, Zenon DEF ConfigNext
<1>3. ConfigInv => DefaultsSettle
  <2> SUFFICES ASSUME ConfigInv, verdict # "none"
               PROVE  DefaultsSettle
    BY Zenon DEF DefaultsSettle
  <2>1. Settles(block, raw) /\ loaded = LoadDefault(block, raw)
    BY WrittenSettles, Zenon DEF ConfigInv
  <2> QED
    BY <2>1, Zenon DEF Settles, DefaultsSettle
<1> QED
  BY <1>1, <1>2, <1>3, PTL DEF ConfigSpec

-----------------------------------------------------------------------------
(***************************************************************************)
(* Lifecycle: the order of the shutdown.                                   *)
(***************************************************************************)

\* What a cleanup task that has run has left behind.
CleanupHolds ==
    /\ "mediator" \notin todo => conns = 0 /\ feed["read"] = "off" /\ marked
    /\ "unsubscribe" \notin todo => feed["broadcast"] = "off"
    /\ "stopPings" \notin todo => feed["pings"] # "on"
    /\ "stopIntervals" \notin todo => feed["intervals"] # "on"
    /\ "pool" \notin todo => poolClosed /\ work = 0 /\ timers = 0

\* The progress of main, and what it says about the rest of the process.
LifecycleInv ==
    /\ WorkEndsInOrder
    /\ stage = "exited" <=> ~Alive
    /\ listening => stage \in {"serving", "admin", "client", "exited"}
    /\ stage \in {"module", "async"} => CleanupHolds
    /\ stage \notin {"config", "new", "module", "async", "exited"} => todo = CleanupTasks
    /\ poolClosed => stage \in {"module", "async", "exited"} /\ todo \subseteq {"pool", "report"}
    /\ stage = "async" => asyncDown
    /\ asyncDown => stage \in {"async", "exited"} /\ poolClosed

\* BootStep goes on to the next stage of main.
LEMMA BootGoesOn ==
    ASSUME stage \in BootStages, BootStep
    PROVE  /\ stage = "config" => stage' = "new"
           /\ stage = "new" => stage' = "signer"
           /\ stage \notin {"config", "new"} => stage' \in {"transport", "bootPing", "jwt", "migrate", "serving"}
<1> DEFINE p == Position(Boot, stage)
<1>1. \E i \in 1 .. Len(Boot) : Boot[i] = stage
  BY Zenon DEF BootStages
<1>2. p \in 1 .. Len(Boot) /\ Boot[p] = stage
  BY <1>1, Zenon DEF Position
<1>3. Len(Boot) = 7
  BY Zenon DEF Boot
<1>4. stage' = IF stage = Boot[7] THEN "serving" ELSE Boot[p + 1]
  BY <1>3, Zenon DEF BootStep
<1> HIDE DEF p
<1>5. p \in {1, 2, 3, 4, 5, 6, 7}
  BY <1>2, <1>3
<1> QED
  BY <1>2, <1>4, <1>5 DEF Boot

\* StopListeners goes on to the next stage of main.
LEMMA ShutdownGoesOn ==
    ASSUME StopListeners
    PROVE  \/ stage = "serving" /\ stage' = "admin"
           \/ stage = "admin" /\ stage' = "client"
           \/ stage = "client" /\ stage' = "metrics"
           \/ stage = "metrics" /\ stage' = "module"
<1> SUFFICES ASSUME stage \in {"admin", "client", "metrics"}, stage' = StopOrder[Position(StopOrder, stage) + 1]
             PROVE  \/ stage = "admin" /\ stage' = "client"
                    \/ stage = "client" /\ stage' = "metrics"
                    \/ stage = "metrics" /\ stage' = "module"
  BY Zenon DEF StopListeners
<1> DEFINE p == Position(StopOrder, stage)
<1>1. Len(StopOrder) = 5
  BY Zenon DEF StopOrder
<1>2. \E i \in 1 .. Len(StopOrder) : StopOrder[i] = stage
  <2>1. StopOrder[1] = "admin" /\ StopOrder[2] = "client" /\ StopOrder[3] = "metrics"
    BY Zenon DEF StopOrder
  <2> QED
    BY <1>1, <2>1
<1>3. p \in 1 .. Len(StopOrder) /\ StopOrder[p] = stage
  BY <1>2, Zenon DEF Position
<1>4. p \in {1, 2, 3, 4, 5} /\ stage' = StopOrder[p + 1]
  BY <1>1, <1>3
<1> HIDE DEF p
<1> QED
  BY <1>3, <1>4 DEF StopOrder

\* The stages of main, one by one.
LEMMA Stages ==
    /\ BootStages = {"config", "new", "signer", "transport", "bootPing", "jwt", "migrate"}
    /\ ShutdownStages = {"admin", "client", "metrics", "module", "async"}
<1>1. Len(Boot) = 7 /\ Len(StopOrder) = 5
  BY Zenon DEF Boot, StopOrder
<1>2. 1 .. 7 = {1, 2, 3, 4, 5, 6, 7} /\ 1 .. 5 = {1, 2, 3, 4, 5}
  OBVIOUS
<1>3. BootStages = {"config", "new", "signer", "transport", "bootPing", "jwt", "migrate"}
  BY <1>1, <1>2 DEF BootStages, Boot
<1>4. ShutdownStages = {"admin", "client", "metrics", "module", "async"}
  BY <1>1, <1>2 DEF ShutdownStages, StopOrder
<1> QED
  BY <1>3, <1>4, Zenon

\* Only the report may run together with or after the closing of the pool.
LEMMA PoolClosesLate ==
    ASSUME NEW t \in CleanupTasks, Priority("pool") <= Priority(t)
    PROVE  t \in {"pool", "report"}
BY DEF Priority, CleanupTasks, Earlyest, Normal, Late, Latest

\* The inductive step, action by action.
LEMMA LifecycleStep ==
    ASSUME LifecycleInv, [LifecycleNext]_lifecycleVars
    PROVE  LifecycleInv'
<1> USE LifecycleAssumption, Stages
<1> USE DEF LifecycleInv, WorkEndsInOrder, LifecycleTypeOK, CleanupHolds, Alive
<1>1. CASE UNCHANGED lifecycleVars
  BY <1>1 DEF lifecycleVars
<1>2. CASE BootStep
  <2>1. /\ stage = "config" => stage' = "new"
        /\ stage = "new" => stage' = "signer"
        /\ stage \notin {"config", "new"} => stage' \in {"transport", "bootPing", "jwt", "migrate", "serving"}
    BY <1>2, BootGoesOn, Zenon DEF BootStep
  <2>2. feed' \in [Sources -> {"on", "told", "off"}]
    BY <1>2, ZenonT(40), SMTT(30) DEF BootStep
  <2> QED
    BY <1>2, <2>1, <2>2, ZenonT(40), SMTT(30) DEF BootStep
<1>3. CASE Fatal
  BY <1>3 DEF Fatal
<1>4. ASSUME NEW b \in BOOLEAN, Cancel(b)
      PROVE  LifecycleInv'
  BY <1>4, ZenonT(40), SMTT(30) DEF Cancel
<1>5. CASE ClientConnects
  <2>1. feed' \in [Sources -> {"on", "told", "off"}]
    BY <1>5, ZenonT(40), SMTT(30) DEF ClientConnects
  <2> QED
    BY <1>5, <2>1 DEF ClientConnects
<1>6. CASE ClientLeaves
  <2>1. /\ feed' \in [Sources -> {"on", "told", "off"}]
        /\ \A s \in Sources : feed'[s] \in {feed[s], "off"}
        /\ feed["read"] = "off" => feed'["read"] = "off"
    BY <1>6, Zenon DEF ClientLeaves, Sources
  <2> QED
    BY <1>6, <2>1 DEF ClientLeaves, Sources
<1>7. ASSUME NEW s \in Sources, TakeEvent(s) \/ SubmitWork(s) \/ TickerStops(s)
      PROVE  LifecycleInv'
  <2>1. CASE TakeEvent(s)
    BY <2>1, ZenonT(40), SMTT(30) DEF TakeEvent
  <2>2. CASE SubmitWork(s)
    BY <2>2 DEF SubmitWork
  <2>3. CASE TickerStops(s)
    <3>1. /\ feed' \in [Sources -> {"on", "told", "off"}]
          /\ \A r \in Sources : feed'[r] \in {feed[r], "off"}
      BY <2>3, Zenon DEF TickerStops
    <3> QED
      BY <2>3, <3>1 DEF TickerStops, Sources
  <2> QED
    BY <1>7, <2>1, <2>2, <2>3, Zenon
<1>8. CASE FinishWork
  BY <1>8 DEF FinishWork
<1>9. CASE TimerEnds
  BY <1>9 DEF TimerEnds
<1>10. CASE StopListeners
  <2>1. \/ stage = "serving" /\ stage' = "admin"
        \/ stage = "admin" /\ stage' = "client"
        \/ stage = "client" /\ stage' = "metrics"
        \/ stage = "metrics" /\ stage' = "module"
    BY <1>10, ShutdownGoesOn, Zenon
  <2>2. todo = CleanupTasks
    BY <2>1, Zenon
  <2> QED
    BY <1>10, <2>1, <2>2, ZenonT(40), SMTT(30) DEF StopListeners, CleanupTasks
<1>11. ASSUME NEW t \in CleanupTasks, RunCleanup(t)
       PROVE  LifecycleInv'
  <2>1. /\ feed' \in [Sources -> {"on", "told", "off"}]
        /\ \A s \in Sources : feed'[s] \in {feed[s], "off"} \/ feed'[s] = "told"
        /\ feed["read"] = "off" \/ t = "mediator" => feed'["read"] = "off"
        /\ feed["broadcast"] = "off" \/ t = "unsubscribe" => feed'["broadcast"] = "off"
        /\ feed["pings"] # "on" \/ t = "stopPings" => feed'["pings"] # "on"
        /\ feed["intervals"] # "on" \/ t = "stopIntervals" => feed'["intervals"] # "on"
    BY <1>11, Zenon DEF RunCleanup, Sources
  <2>2. stage = "module" /\ todo' = todo \ {t}
    BY <1>11, Zenon DEF RunCleanup
  <2>3. poolClosed => t \notin {"mediator", "hub", "unsubscribe", "stopPings", "stopIntervals"}
    BY <1>11, Zenon DEF RunCleanup, MayRun
  <2>4. LifecycleTypeOK'
    BY <1>11, <2>1, <2>2 DEF RunCleanup
  <2>5. CleanupHolds'
    BY <1>11, <2>1, <2>2, <2>3, Zenon DEF RunCleanup
  <2> QED
    BY <1>11, <2>1, <2>2, <2>3, <2>4, <2>5, Zenon DEF RunCleanup
<1>12. CASE ClosePool
  <2>1. todo \subseteq {"pool", "report"}
    BY <1>12, PoolClosesLate, Zenon DEF ClosePool, MayRun
  <2>2. stage = "module" /\ stage' = stage /\ exitCode = -1
    BY <1>12, Zenon DEF ClosePool
  <2>3. conns = 0 /\ marked /\ feed["read"] = "off" /\ \A s \in Sources : feed[s] # "on"
    BY <2>1, <2>2, Zenon DEF Sources
  <2>4. feed["broadcast"] = "off"
    BY <2>1, <2>2, Zenon
  <2>5. LifecycleTypeOK'
    BY <1>12, <2>1, ZenonT(40), SMTT(30) DEF ClosePool
  <2>6. CleanupHolds'
    BY <1>12, <2>1, <2>2 DEF ClosePool
  <2> QED
    BY <1>12, <2>1, <2>2, <2>3, <2>4, <2>5, <2>6, ZenonT(40), SMTT(30) DEF ClosePool
<1>13. CASE StopAsync
  <2>1. CASE stage = "module"
    BY <1>13, <2>1 DEF StopAsync
  <2>2. CASE stage = "async"
    <3>1. stage' = "exited" /\ exitCode' = (IF backendDown THEN 1 ELSE 0) /\ asyncDown' = asyncDown
      BY <1>13, <2>2, Zenon DEF StopAsync
    <3>2. LifecycleTypeOK'
      BY <1>13, <3>1, Zenon DEF StopAsync
    <3> QED
      BY <1>13, <2>2, <3>1, <3>2 DEF StopAsync
  <2> QED
    BY <1>13, <2>1, <2>2, ZenonT(40), SMTT(30) DEF StopAsync
<1> HIDE DEF LifecycleInv
<1> QED
  BY <1>1, <1>2, <1>3, <1>4, <1>5, <1>6, <1>7, <1>8, <1>9, <1>10, <1>11, <1>12, <1>13, ZenonT(40),
     SMTT(30) DEF LifecycleNext

\* Work ends in the order of main and of the cleanup tasks (StopOrder, RunTasks): the pool
\* closes after the last source of work has stopped and nothing is left in it, and the
\* asynchronous transport after the pool, for any number of connections, timers and
\* tasks.
THEOREM WorkEndsInOrderThm == LifecycleSpec => []WorkEndsInOrder
<1>1. LifecycleInit => LifecycleInv
  <2> SUFFICES ASSUME LifecycleInit
               PROVE  LifecycleInv
    BY Zenon
  <2>1. feed \in [Sources -> {"on", "told", "off"}]
    BY Zenon DEF LifecycleInit
  <2>2. {stopAsked, backendDown, marked, listening, poolClosed, asyncDown} \subseteq BOOLEAN
    BY Zenon DEF LifecycleInit
  <2>3. conns \in 0 .. MaxConns /\ work \in 0 .. MaxWork /\ timers \in 0 .. MaxConns
    BY LifecycleAssumption DEF LifecycleInit
  <2>4. LifecycleTypeOK
    BY <2>1, <2>2, <2>3, Stages, Zenon DEF LifecycleInit, LifecycleTypeOK
  <2> QED
    BY <2>4, Zenon DEF LifecycleInit, LifecycleInv, WorkEndsInOrder, Alive
<1>2. LifecycleInv /\ [LifecycleNext]_lifecycleVars => LifecycleInv'
  BY LifecycleStep, Zenon
<1>3. LifecycleInv => WorkEndsInOrder
  BY Zenon DEF LifecycleInv
<1> QED
  BY <1>1, <1>2, <1>3, PTL DEF LifecycleSpec
=============================================================================
