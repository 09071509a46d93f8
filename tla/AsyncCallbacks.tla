---------------------------- MODULE AsyncCallbacks ----------------------------
(***************************************************************************)
(* The fire-and-forget callbacks of pipewave-server and the way its main   *)
(* function shuts down.  Hooks Emit events into a bounded queue; one       *)
(* goroutine takes them out and posts them to the backend (webhook         *)
(* transport, with retries on timers) or publishes them to a broker        *)
(* (pubsub transport, one attempt).                                        *)
(*                                                                         *)
(* The module is at rest until Start has chosen the transport.             *)
(***************************************************************************)
EXTENDS Naturals, Sequences

CONSTANTS
    Events,             \* each is emitted once
    NoEvent,
    AsyncQueueSize,     \* asyncQueueSize and queueSize
    AsyncRetryMax       \* ASYNC_RETRY_MAX

ASSUME AsyncAssumption ==
    /\ NoEvent \notin Events
    /\ AsyncQueueSize \in Nat /\ AsyncRetryMax \in Nat \ {0}

VARIABLES
    transport,      \* "none" before Start, then "webhook" or "pubsub"
    proc,           \* how far main is: "serving", "listeners", "core",
                    \* "waiting" in Shutdown of the transport, "exited"
    expired,        \* shutdownCtx is over
    eventQueue,     \* the channel
    retryTimers,    \* events whose AfterFunc is pending
    inFlight,       \* the event in deliver, or NoEvent
    loop,           \* the goroutine: "select", "drain" or "exited"
    closed,         \* the channel closed is closed
    fate,           \* fate[e]: "new", "held", "delivered", or why it was dropped
    attempts,       \* asyncJob.attempt
    early           \* events emitted before the core was shut down

jobVars == <<eventQueue, retryTimers, inFlight, loop, fate, attempts>>
asyncVars == <<transport, proc, expired, closed, early, jobVars>>

AsyncInit ==
    /\ transport = "none"
    /\ proc = "serving"
    /\ expired = FALSE
    /\ eventQueue = <<>>
    /\ retryTimers = {}
    /\ inFlight = NoEvent
    /\ loop = "select"
    /\ closed = FALSE
    /\ fate = [e \in Events |-> "new"]
    /\ attempts = [e \in Events |-> 0]
    /\ early = {}

Start ==
    /\ transport = "none"
    /\ transport' \in {"webhook", "pubsub"}
    /\ UNCHANGED <<proc, expired, closed, early, jobVars>>

Running == transport # "none" /\ proc # "exited"

HasRoom == Len(eventQueue) < AsyncQueueSize

\* Emit, from a hook of a connection or of one being closed: a select with a
\* default branch.
Emit(e) ==
    /\ Running
    /\ fate[e] = "new"
    /\ IF HasRoom
       THEN /\ eventQueue' = Append(eventQueue, e)
            /\ fate' = [fate EXCEPT ![e] = "held"]
       ELSE /\ fate' = [fate EXCEPT ![e] = "queueFull"]
            /\ UNCHANGED eventQueue
    /\ early' = IF proc = "waiting" THEN early ELSE early \cup {e}
    /\ UNCHANGED <<transport, proc, expired, closed,
                   retryTimers, inFlight, loop, attempts>>
-----------------------------------------------------------------------------
(* The loop *)

\* Both selects: a job is taken as long as there is one.
TakeJob ==
    /\ Running
    /\ loop \in {"select", "drain"}
    /\ inFlight = NoEvent
    /\ eventQueue # <<>>
    /\ inFlight' = Head(eventQueue)
    /\ eventQueue' = Tail(eventQueue)
    /\ UNCHANGED <<transport, proc, expired, closed, early,
                   retryTimers, loop, fate, attempts>>

\* Mutant: the loop returns as soon as it sees closed.
SeeClosedReturns ==
    /\ Running
    /\ loop = "select" /\ inFlight = NoEvent
    /\ closed
    /\ loop' = "exited"
    /\ UNCHANGED <<transport, proc, expired, closed, early,
                   eventQueue, retryTimers, inFlight, fate, attempts>>

\* The outer select takes the closed case, also if the queue is not empty.
SeeClosed ==
    /\ Running
    /\ loop = "select" /\ inFlight = NoEvent
    /\ closed
    /\ loop' = "drain"
    /\ UNCHANGED <<transport, proc, expired, closed, early,
                   eventQueue, retryTimers, inFlight, fate, attempts>>

\* The inner select finds the queue empty.
DrainDone ==
    /\ Running
    /\ loop = "drain" /\ inFlight = NoEvent
    /\ eventQueue = <<>>
    /\ loop' = "exited"
    /\ UNCHANGED <<transport, proc, expired, closed, early,
                   eventQueue, retryTimers, inFlight, fate, attempts>>

Delivered(e) ==
    /\ inFlight = e
    /\ fate' = [fate EXCEPT ![e] = "delivered"]
    /\ attempts' = [attempts EXCEPT ![e] = @ + 1]
    /\ inFlight' = NoEvent
    /\ UNCHANGED <<transport, proc, expired, closed, early,
                   eventQueue, retryTimers, loop>>

\* Mutant: an event that has used up its attempts is put on a timer again.
FailedForever(e) ==
    /\ inFlight = e
    /\ attempts' = [attempts EXCEPT ![e] = IF @ < AsyncRetryMax THEN @ + 1 ELSE @]
    /\ inFlight' = NoEvent
    /\ retryTimers' = retryTimers \cup {e}
    /\ UNCHANGED <<transport, proc, expired, closed, early,
                   eventQueue, loop, fate>>

\* No 2xx: PubsubTransport leaves it at that, AsyncDispatcher starts a timer
\* unless the attempts are used up.
Failed(e) ==
    LET last == transport = "pubsub" \/ attempts[e] + 1 >= AsyncRetryMax IN
    /\ inFlight = e
    /\ attempts' = [attempts EXCEPT ![e] = @ + 1]
    /\ inFlight' = NoEvent
    /\ IF last
       THEN /\ fate' = [fate EXCEPT ![e] = "exhausted"]
            /\ UNCHANGED retryTimers
       ELSE /\ retryTimers' = retryTimers \cup {e}
            /\ UNCHANGED fate
    /\ UNCHANGED <<transport, proc, expired, closed, early, eventQueue, loop>>

Deliver(e) == Running /\ (Delivered(e) \/ Failed(e))

\* The AfterFunc of a retry.  Its select takes any case that is ready, and the
\* default branch, which drops the event, if none is.
RetryTimer(e) ==
    /\ Running
    /\ e \in retryTimers
    /\ retryTimers' = retryTimers \ {e}
    /\ \/ /\ closed
          /\ fate' = [fate EXCEPT ![e] = "shutdown"]
          /\ UNCHANGED eventQueue
       \/ /\ HasRoom
          /\ eventQueue' = Append(eventQueue, e)
          /\ UNCHANGED fate
       \/ /\ ~closed /\ ~HasRoom
          /\ fate' = [fate EXCEPT ![e] = "queueFull"]
          /\ UNCHANGED eventQueue
    /\ UNCHANGED <<transport, proc, expired, closed, early,
                   inFlight, loop, attempts>>
-----------------------------------------------------------------------------
(* main, from the end of the root context *)

\* SIGTERM, or stopSignals in onUnhealthy.
RootDone ==
    /\ Running
    /\ proc = "serving"
    /\ proc' = "listeners"
    /\ UNCHANGED <<transport, expired, closed, early, jobVars>>

\* Shutdown of admin, client and metrics listeners.
StopListeners ==
    /\ proc = "listeners"
    /\ proc' = "core"
    /\ UNCHANGED <<transport, expired, closed, early, jobVars>>

\* pw.Shutdown has returned: all connections were closed, and asyncTransport's
\* Shutdown closes closed and waits for the loop.
StopTransport ==
    /\ proc = "core"
    /\ proc' = "waiting"
    /\ closed' = TRUE
    /\ UNCHANGED <<transport, expired, early, jobVars>>

\* The 30 seconds of shutdownCtx.
Expire ==
    /\ proc \in {"listeners", "core", "waiting"}
    /\ ~expired
    /\ expired' = TRUE
    /\ UNCHANGED <<transport, proc, closed, early, jobVars>>

Exit ==
    /\ proc = "waiting"
    /\ loop = "exited" \/ expired
    /\ proc' = "exited"
    /\ UNCHANGED <<transport, expired, closed, early, jobVars>>

AsyncNext ==
    \/ Start
    \/ \E e \in Events : Emit(e) \/ Deliver(e) \/ RetryTimer(e)
    \/ TakeJob
    \/ SeeClosed
    \/ DrainDone
    \/ RootDone
    \/ StopListeners
    \/ StopTransport
    \/ Expire
    \/ Exit

\* The loop runs, posts end, timers fire, main goes on once it is told to stop.
AsyncFairness ==
    /\ WF_asyncVars(TakeJob)
    /\ WF_asyncVars(SeeClosed)
    /\ WF_asyncVars(DrainDone)
    /\ \A e \in Events : WF_asyncVars(Deliver(e)) /\ WF_asyncVars(RetryTimer(e))
    /\ WF_asyncVars(StopListeners \/ StopTransport \/ Exit)
-----------------------------------------------------------------------------
(* Properties *)

\* The type invariant of the asynchronous callbacks.
AsyncTypeOK ==
    /\ transport \in {"none", "webhook", "pubsub"}
    /\ proc \in {"serving", "listeners", "core", "waiting", "exited"}
    /\ expired \in BOOLEAN /\ closed \in BOOLEAN
    /\ eventQueue \in Seq(Events) /\ Len(eventQueue) <= AsyncQueueSize
    /\ retryTimers \subseteq Events
    /\ inFlight \in Events \cup {NoEvent}
    /\ loop \in {"select", "drain", "exited"}
    /\ fate \in [Events -> {"new", "held", "delivered", "queueFull", "exhausted", "shutdown"}]
    /\ attempts \in [Events -> 0..AsyncRetryMax]
    /\ early \subseteq Events

\* Where an event is: at an index of the queue, on a timer (0) or being delivered
\* (one past the queue).
Places(e) ==
    {i \in DOMAIN eventQueue : eventQueue[i] = e}
    \cup (IF e \in retryTimers THEN {0} ELSE {})
    \cup (IF e = inFlight THEN {Len(eventQueue) + 1} ELSE {})

\* An event is in one place: an undecided one is queued, on a timer or being
\* delivered, never in two of them, and a decided one in none, however loop,
\* timers, Emit and shutdown interleave.  So no attempt of a job overlaps
\* another, and no event disappears without a reason on record.
EachEventHeldOnce ==
    \A e \in Events :
        IF fate[e] = "held" THEN \E p \in Places(e) : Places(e) = {p} ELSE Places(e) = {}

\* When the process ends before the 30 seconds are over, every event emitted
\* before the core had shut down, the close events of its last connections
\* included, was attempted or had met a full queue: main closes the transport
\* after the core, and the loop drains the queue before it returns.
CleanExitAttemptsAll ==
    /\ AsyncTypeOK
    /\ proc = "exited" /\ ~expired =>
           \A e \in early : attempts[e] > 0 \/ fate[e] = "queueFull"

Status(f) ==
    CASE f = "new" -> "new" [] f = "held" -> "taken"
      [] f = "delivered" -> "delivered" [] OTHER -> "dropped"

Transport == INSTANCE AsyncTransport
                 WITH status <- [e \in Events |-> Status(fate[e])], shut <- closed

\* Both transports implement AsyncTransport: every event is taken or dropped by
\* Emit and settled at most once, and always unless a shutdown comes first.
ImplementsTransport == Transport!Promise
=============================================================================
