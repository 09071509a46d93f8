----------------------------- MODULE Lifecycle -----------------------------
(***************************************************************************)
(* The life of a pipewave-server process: main boots stage by stage, serves *)
(* until its context is cancelled, and shuts down.  moduleDelivery.Shutdown *)
(* runs the cleanup tasks by priority; tasks of one priority may run in any *)
(* order (sort.Slice is not stable, and the order of registration is that   *)
(* of dependency injection).  Meanwhile connections, subscriptions and      *)
(* tickers go on submitting work to the worker pool until they are stopped. *)
(*                                                                          *)
(* Work that runs may emit an event to the asynchronous callback transport, *)
(* which drops what comes after its own shutdown.                           *)
(***************************************************************************)
EXTENDS Integers, Sequences

CONSTANTS MaxConns,     \* bound on open connections
          MaxWork       \* bound on tasks in the worker pool's queue

ASSUME LifecycleAssumption == MaxConns \in Nat \ {0} /\ MaxWork \in Nat \ {0}

\* The stages of main, in order; each of the first group may be fatal.
Boot == <<"config", "new", "signer", "transport", "bootPing", "jwt", "migrate">>

StopOrder == <<"admin", "client", "metrics", "module", "async">>

\* RegTask: the cleanup tasks and their priorities, registered while pipewave.New
\* wires the container.
CleanupTasks == {"stopIntervals", "stopPings", "unsubscribe", "mediator", "hub", "pubsub",
                 "queue", "cache", "otel", "metrics", "pool", "report"}

Earlyest == -9999
Normal == 0
Late == 100
Latest == 9999

\* The mutant closes the pool together with what submits to it.
PriorityPoolNormal(t) ==
    CASE t \in {"stopIntervals", "stopPings", "unsubscribe"} -> Earlyest
      [] t = "report" -> Latest
      [] OTHER -> Normal

Priority(t) ==
    CASE t \in {"stopIntervals", "stopPings", "unsubscribe"} -> Earlyest
      [] t = "pool" -> Late
      [] t = "report" -> Latest
      [] OTHER -> Normal

\* The goroutines that submit work.
Sources == {"read", "broadcast", "pings", "intervals"}

VARIABLES stage,        \* where main is: a stage, "serving" or "exited"
          stopAsked,    \* rootCtx is done
          backendDown,  \* unhealthyDueToBackend
          exitCode,     \* -1 while the process runs
          todo,         \* cleanup tasks still to run
          conns,        \* open WebSocket connections
          marked,       \* MarkShuttingDown was called
          listening,    \* the client listener accepts
          feed,         \* [source -> "on", "told" to stop or "off"]
          inFlight,     \* sources holding an event they are about to submit
          work,         \* tasks queued or running in the pool
          timers,       \* tasks of the pool that wait for a session's timer
          poolClosed,   \* the pool's queue is closed
          asyncDown     \* the callback transport was shut down

lifecycleVars == <<stage, stopAsked, backendDown, exitCode, todo, conns, marked, listening, feed,
                   inFlight, work, timers, poolClosed, asyncDown>>

Position(seq, s) == CHOOSE i \in 1..Len(seq) : seq[i] = s

BootStages == {Boot[i] : i \in 1..Len(Boot)}

ShutdownStages == {StopOrder[i] : i \in 1..Len(StopOrder)}

LifecycleTypeOK ==
    /\ stage \in BootStages \union ShutdownStages \union {"serving", "exited"}
    /\ {stopAsked, backendDown, marked, listening, poolClosed, asyncDown} \subseteq BOOLEAN
    /\ exitCode \in {-1, 0, 1}
    /\ todo \subseteq CleanupTasks
    /\ conns \in 0..MaxConns
    /\ feed \in [Sources -> {"on", "told", "off"}]
    /\ inFlight \subseteq Sources
    /\ work \in 0..MaxWork
    /\ timers \in 0..MaxConns

LifecycleInit ==
    /\ stage = "config" /\ exitCode = -1
    /\ stopAsked = FALSE /\ backendDown = FALSE
    /\ todo = {} /\ conns = 0 /\ marked = FALSE /\ listening = FALSE
    /\ feed = [s \in Sources |-> "off"] /\ inFlight = {}
    /\ work = 0 /\ timers = 0 /\ poolClosed = FALSE /\ asyncDown = FALSE

Alive == exitCode = -1

---------------------------------------------------------------------------
(***************************************************************************)
(* main, up to the listeners.                                              *)
(***************************************************************************)

\* A stage succeeds.  pipewave.New starts the tickers and the subscriptions and
\* registers the cleanup tasks; after the last stage both listeners are started.
BootStep ==
    /\ Alive /\ stage \in BootStages
    /\ stage' = IF stage = Boot[Len(Boot)] THEN "serving" ELSE Boot[Position(Boot, stage) + 1]
    /\ listening' = (stage' = "serving")
    /\ IF stage = "new"
         THEN todo' = CleanupTasks /\ feed' = [s \in Sources |-> IF s = "read" THEN "off" ELSE "on"]
         ELSE UNCHANGED <<todo, feed>>
    /\ UNCHANGED <<stopAsked, backendDown, exitCode, conns, marked, inFlight, work, timers,
                   poolClosed, asyncDown>>

\* fatal: a stage fails, or a listener stops for another reason than its shutdown.
Fatal ==
    /\ Alive /\ stage \in BootStages \union {"serving", "admin", "client"}
    /\ exitCode' = 1 /\ stage' = "exited"
    /\ UNCHANGED <<stopAsked, backendDown, todo, conns, marked, listening, feed, inFlight, work,
                   timers, poolClosed, asyncDown>>

\* A signal, or the health monitor with UNHEALTHY_ACTION=shutdown, cancels rootCtx;
\* signals are handled from the stage after pipewave.New.
Cancel(byBackend) ==
    /\ Alive /\ stage \notin {"config", "new"}
    /\ byBackend => stage = "serving" /\ ~stopAsked
    /\ stopAsked' = TRUE
    /\ backendDown' = (backendDown \/ byBackend)
    /\ UNCHANGED <<stage, exitCode, todo, conns, marked, listening, feed, inFlight, work, timers,
                   poolClosed, asyncDown>>

---------------------------------------------------------------------------
(***************************************************************************)
(* The work of a serving container.                                        *)
(***************************************************************************)

ClientConnects ==
    /\ Alive /\ listening /\ conns < MaxConns
    /\ conns' = conns + 1
    /\ feed' = [feed EXCEPT !["read"] = "on"]
    /\ UNCHANGED <<stage, stopAsked, backendDown, exitCode, todo, marked, listening, inFlight, work,
                   timers, poolClosed, asyncDown>>

\* onClose of a client that leaves: unless the container is shutting down or the
\* pool refuses it, a task of the pool waits for the session's timer.
ClientLeaves ==
    /\ Alive /\ conns > 0
    /\ conns' = conns - 1
    /\ feed' = [feed EXCEPT !["read"] = IF conns = 1 THEN "off" ELSE @]
    /\ timers' \in {timers} \union
                   (IF marked \/ poolClosed \/ timers = MaxConns THEN {} ELSE {timers + 1})
    /\ UNCHANGED <<stage, stopAsked, backendDown, exitCode, todo, marked, listening, inFlight, work,
                   poolClosed, asyncDown>>

\* A source takes an event: a readable socket, a published message or a tick.  A
\* ticker that was told to stop may still choose a tick that is due.
TakeEvent(s) ==
    /\ Alive /\ feed[s] # "off" /\ s \notin inFlight
    /\ inFlight' = inFlight \union {s}
    /\ UNCHANGED <<stage, stopAsked, backendDown, exitCode, todo, conns, marked, listening, feed, work,
                   timers, poolClosed, asyncDown>>

\* Submit: refused by a full queue or a closed pool.
SubmitWork(s) ==
    /\ Alive /\ s \in inFlight
    /\ inFlight' = inFlight \ {s}
    /\ work' = IF poolClosed \/ work = MaxWork THEN work ELSE work + 1
    /\ UNCHANGED <<stage, stopAsked, backendDown, exitCode, todo, conns, marked, listening, feed,
                   timers, poolClosed, asyncDown>>

TickerStops(s) ==
    /\ Alive /\ feed[s] = "told" /\ s \notin inFlight
    /\ feed' = [feed EXCEPT ![s] = "off"]
    /\ UNCHANGED <<stage, stopAsked, backendDown, exitCode, todo, conns, marked, listening, inFlight,
                   work, timers, poolClosed, asyncDown>>

FinishWork ==
    /\ Alive /\ work > 0
    /\ work' = work - 1
    /\ UNCHANGED <<stage, stopAsked, backendDown, exitCode, todo, conns, marked, listening, feed,
                   inFlight, timers, poolClosed, asyncDown>>

TimerEnds ==
    /\ Alive /\ timers > 0
    /\ timers' = timers - 1
    /\ UNCHANGED <<stage, stopAsked, backendDown, exitCode, todo, conns, marked, listening, feed,
                   inFlight, work, poolClosed, asyncDown>>

---------------------------------------------------------------------------
(***************************************************************************)
(* main, from the cancelled context on.                                    *)
(***************************************************************************)

\* The listeners and the metrics are shut down in turn; from then on no client
\* can connect.  WebSocket connections stay open.
StopListeners ==
    /\ Alive
    /\ \/ stage = "serving" /\ stopAsked /\ stage' = "admin"
       \/ stage \in {"admin", "client", "metrics"} /\ stage' = StopOrder[Position(StopOrder, stage) + 1]
    /\ listening' = (listening /\ stage # "client")
    /\ UNCHANGED <<stopAsked, backendDown, exitCode, todo, conns, marked, feed, inFlight, work,
                   timers, poolClosed, asyncDown>>

\* Get sorts by priority: a task runs when no smaller priority is left.
MayRun(t) == t \in todo /\ \A u \in todo : Priority(t) <= Priority(u)

\* One cleanup task: tickers are told to stop, subscriptions are cancelled, the
\* mediator hands over and closes every connection, the hub cancels its timers.
\* The stores and exporters are closed; nothing here depends on them.
RunCleanup(t) ==
    /\ Alive /\ stage = "module" /\ MayRun(t) /\ t # "pool"
    /\ todo' = todo \ {t}
    /\ feed' = [s \in Sources |->
                    CASE t = "stopIntervals" /\ s = "intervals" -> "told"
                      [] t = "stopPings" /\ s = "pings" -> "told"
                      [] t = "unsubscribe" /\ s = "broadcast" -> "off"
                      [] t = "mediator" /\ s = "read" -> "off"
                      [] OTHER -> feed[s]]
    /\ conns' = IF t = "mediator" THEN 0 ELSE conns
    /\ marked' = (marked \/ t = "mediator")
    /\ timers' = IF t = "hub" THEN 0 ELSE timers
    /\ UNCHANGED <<stage, stopAsked, backendDown, exitCode, listening, inFlight, work, poolClosed, asyncDown>>

\* The pool's Close: the queue is closed, and Close waits for the workers.
ClosePool ==
    /\ Alive /\ stage = "module" /\ MayRun("pool")
    /\ \/ ~poolClosed /\ poolClosed' = TRUE /\ UNCHANGED todo
       \/ poolClosed /\ work = 0 /\ timers = 0 /\ todo' = todo \ {"pool"} /\ UNCHANGED poolClosed
    /\ UNCHANGED <<stage, stopAsked, backendDown, exitCode, conns, marked, listening, feed, inFlight,
                   work, timers, asyncDown>>

\* The callback transport is shut down last.
StopAsync ==
    /\ Alive
    /\ \/ stage = "module" /\ todo = {} /\ stage' = "async" /\ asyncDown' = TRUE /\ UNCHANGED exitCode
       \/ stage = "async" /\ stage' = "exited" /\ exitCode' = (IF backendDown THEN 1 ELSE 0)
          /\ UNCHANGED asyncDown
    /\ UNCHANGED <<stopAsked, backendDown, todo, conns, marked, listening, feed, inFlight, work,
                   timers, poolClosed>>

LifecycleNext ==
    \/ BootStep \/ Fatal \/ \E b \in BOOLEAN : Cancel(b)
    \/ ClientConnects \/ ClientLeaves
    \/ \E s \in Sources : TakeEvent(s) \/ SubmitWork(s) \/ TickerStops(s)
    \/ FinishWork \/ TimerEnds
    \/ StopListeners \/ (\E t \in CleanupTasks : RunCleanup(t)) \/ ClosePool \/ StopAsync

LifecycleSpec == LifecycleInit /\ [][LifecycleNext]_lifecycleVars

---------------------------------------------------------------------------
(***************************************************************************)
(* Properties.                                                             *)
(***************************************************************************)

\* Whatever the order within a priority, the pool's queue closes only after every
\* connection is closed and every source stopped or told to stop, so that it
\* refuses only what was taken before; and the callback transport is shut down only
\* after the work the pool had accepted has run, so that none of its events is lost
\* to the order of shutdown.  A process that came that far ends with 1 only for the
\* backend's sake.
WorkEndsInOrder ==
    /\ LifecycleTypeOK
    /\ poolClosed => conns = 0 /\ feed["read"] = "off" /\ feed["broadcast"] = "off" /\ marked
    /\ poolClosed => \A s \in Sources : feed[s] # "on"
    /\ asyncDown => work = 0 /\ timers = 0
    /\ asyncDown /\ exitCode = 1 => backendDown
===========================================================================
