---------------------------- MODULE SyncCallbacks ----------------------------
(***************************************************************************)
(* The synchronous callbacks of pipewave-server: the hooks InspectToken,   *)
(* OnNewConnection and HandleMessage post to the backend and wait for its  *)
(* answer, behind a circuit breaker.  A pinger and a watcher of the        *)
(* breaker report the backend's health to a monitor, whose onUnhealthy     *)
(* only logs or cancels the root context.                                  *)
(*                                                                         *)
(* Time is counted in units of which Cooldown and MaxOpen are multiples.   *)
(* The module is at rest until Configure has read the configuration.       *)
(***************************************************************************)
EXTENDS Integers

CONSTANTS
    Calls,          \* slots for concurrent calls, reused when a call returns
    Threshold, Cooldown,        \* of the breaker
    MaxOpen,        \* BREAKER_OPEN_SHUTDOWN
    FailThreshold,  \* of the pinger
    RetryMaxes      \* SYNC_RETRY.MAX as it reaches NewSyncCaller

ASSUME SyncAssumption ==
    /\ {Threshold, FailThreshold} \subseteq Nat \ {0}
    /\ {Cooldown, MaxOpen} \subseteq Nat
    /\ RetryMaxes \subseteq Int

VARIABLES
    cfg,            \* the configuration, or NoConfig before Configure
    backend,        \* environment: "up", or "down" while posts fail, for
                    \* whatever reason, a cancelled request context included
    failures,       \* CircuitBreaker.failures, no higher than Threshold
    openAge,        \* time since openedAt, no higher than MaxOpen
    hookCall,       \* hookCall[c]: progress and outcome of a SyncCaller.Call
    streak,         \* consecutive failed pings, no higher than FailThreshold
    healthy, fired, \* of the HealthMonitor
    firing,         \* sources between the unlock in SetUnhealthy and onUnhealthy
    fires,          \* how often onUnhealthy ran
    rootDone        \* the root context is cancelled

monitorVars == <<streak, healthy, fired, firing, fires, rootDone>>
syncVars == <<cfg, backend, failures, openAge, hookCall, monitorVars>>

NoConfig == [on |-> FALSE]
\* What Sender.Post returns; "failure" is a 5xx or no answer at all.
Answers == {"2xx", "3xx", "4xx", "failure"}
NoCall == [pc |-> "idle", attempt |-> 0, answer |-> "none", result |-> "none"]

SyncInit ==
    /\ cfg = NoConfig
    /\ backend = "up"
    /\ failures = 0
    /\ openAge = 0
    /\ hookCall = [c \in Calls |-> NoCall]
    /\ streak = 0
    /\ healthy = TRUE
    /\ fired = FALSE
    /\ firing = {}
    /\ fires = 0
    /\ rootDone = FALSE

\* Mutant: a retry maximum below one is taken as it is.
RetryMaxUnchecked(configured) == configured

\* NewSyncCaller makes at least one attempt.
RetryMax(configured) == IF configured < 1 THEN 1 ELSE configured

\* main builds caller, breaker, monitor and, if enabled, pinger and watcher.
Configure ==
    /\ ~cfg.on
    /\ \E ping, watch, shutdown \in BOOLEAN, max \in RetryMaxes :
          cfg' = [on |-> TRUE, ping |-> ping, watch |-> watch,
                  shutdown |-> shutdown, retryMax |-> RetryMax(max)]
    /\ UNCHANGED <<backend, failures, openAge, hookCall, monitorVars>>

BackendChanges ==
    /\ cfg.on
    /\ backend' = IF backend = "up" THEN "down" ELSE "up"
    /\ UNCHANGED <<cfg, failures, openAge, hookCall, monitorVars>>
-----------------------------------------------------------------------------
(* CircuitBreaker *)

IsOpen == failures >= Threshold

Allow == ~IsOpen \/ openAge >= Cooldown

\* Mutant: a success does not reset the failures of an open breaker.
RecordSticky(success) ==
    /\ failures' = IF success THEN (IF IsOpen THEN failures ELSE 0)
                   ELSE IF IsOpen THEN failures ELSE failures + 1
    /\ openAge' = IF ~success /\ failures + 1 >= Threshold THEN 0 ELSE openAge

\* Every failure of an open breaker sets openedAt again.
Record(success) ==
    /\ failures' = IF success THEN 0
                   ELSE IF IsOpen THEN failures ELSE failures + 1
    /\ openAge' = IF success \/ failures + 1 >= Threshold THEN 0 ELSE openAge

TimePasses ==
    /\ cfg.on
    /\ IsOpen
    /\ openAge < MaxOpen
    /\ openAge' = openAge + 1
    /\ UNCHANGED <<cfg, backend, failures, hookCall, monitorVars>>
-----------------------------------------------------------------------------
(* SyncCaller.Call *)

Begin(c) ==
    /\ cfg.on
    /\ hookCall[c].pc = "idle"
    /\ hookCall' = [hookCall EXCEPT ![c] =
                   [NoCall EXCEPT !.pc = IF cfg.retryMax = 0 THEN "return" ELSE "allow"]]
    /\ UNCHANGED <<cfg, backend, failures, openAge, monitorVars>>

\* breaker.Allow before each attempt; ErrCircuitOpen ends the call.
AskBreaker(c) ==
    /\ hookCall[c].pc = "allow"
    /\ hookCall' = [hookCall EXCEPT ![c].pc = IF Allow THEN "post" ELSE "return",
                            ![c].answer = IF Allow THEN @ ELSE "circuitOpen"]
    /\ UNCHANGED <<cfg, backend, failures, openAge, monitorVars>>

AnswersOf(b) == IF b = "up" THEN {"2xx", "3xx", "4xx"} ELSE {"failure"}

IsFailure(answer) == answer = "failure"

\* Post returns: transport errors and 5xx are failures and retried, any other
\* answer is a success for the breaker and ends the call.
PostReturns(c, answer) ==
    LET more == IsFailure(answer) /\ hookCall[c].attempt + 1 < cfg.retryMax IN
    /\ hookCall[c].pc = "post"
    /\ answer \in AnswersOf(backend)
    /\ Record(~IsFailure(answer))
    /\ hookCall' = [hookCall EXCEPT ![c].pc = IF more THEN "backoff" ELSE "return",
                            ![c].attempt = @ + 1,
                            ![c].answer = answer]
    /\ UNCHANGED <<cfg, backend, monitorVars>>

\* The select between the backoff and the end of the caller's context.
Backoff(c) ==
    /\ hookCall[c].pc = "backoff"
    /\ \E next \in {"allow", "return"} : hookCall' = [hookCall EXCEPT ![c].pc = next]
    /\ UNCHANGED <<cfg, backend, failures, openAge, monitorVars>>

\* What a hook makes of Call's return.  nil lets the client through, unless a
\* 2xx body does not decode or names no user; a 4xx carries the backend's own
\* words, anything else a generic error.  Call returns lastErr at the end, which
\* is nil if no attempt was made.
HookResults(answer) ==
    CASE answer = "2xx" -> {"ok", "generic"}
      [] answer = "none" -> {"ok"}
      [] answer = "4xx" -> {"rejected"}
      [] OTHER -> {"generic"}

Return(c) ==
    /\ hookCall[c].pc = "return"
    /\ \E r \in HookResults(hookCall[c].answer) :
          hookCall' = [hookCall EXCEPT ![c] = [NoCall EXCEPT !.result = r]]
    /\ UNCHANGED <<cfg, backend, failures, openAge, monitorVars>>
-----------------------------------------------------------------------------
(* HealthMonitor, Pinger.Run, WatchBreakerOpen *)

\* SetUnhealthy up to the unlock.
SetUnhealthy(source) ==
    /\ healthy' = FALSE
    /\ firing' = IF fired THEN firing ELSE firing \cup {source}
    /\ fired' = TRUE

\* A tick of the pinger: it blocks on the ping and, below, on onUnhealthy.  A
\* backend that is up answers pings with 2xx.
PingTick ==
    /\ cfg.on /\ cfg.ping /\ ~rootDone
    /\ "pinger" \notin firing
    /\ IF backend = "up"
       THEN /\ streak' = 0
            /\ healthy' = TRUE
            /\ UNCHANGED <<fired, firing>>
       ELSE /\ streak' = IF streak < FailThreshold THEN streak + 1 ELSE streak
            /\ IF streak' >= FailThreshold
               THEN SetUnhealthy("pinger")
               ELSE UNCHANGED <<healthy, fired, firing>>
    /\ UNCHANGED <<cfg, backend, failures, openAge, hookCall, fires, rootDone>>

\* A tick of the watcher that finds the breaker open for MaxOpen.  It never
\* sets healthy again: only the pinger does.
WatchTick ==
    /\ cfg.on /\ cfg.watch /\ ~rootDone
    /\ "watcher" \notin firing
    /\ IsOpen /\ openAge >= MaxOpen
    /\ SetUnhealthy("watcher")
    /\ UNCHANGED <<cfg, backend, failures, openAge, hookCall, streak, fires, rootDone>>

\* onUnhealthy of main, outside the lock.
OnUnhealthy(source) ==
    /\ source \in firing
    /\ firing' = firing \ {source}
    /\ fired' = TRUE
    /\ fires' = fires + 1
    /\ rootDone' = (rootDone \/ cfg.shutdown)
    /\ UNCHANGED <<cfg, backend, failures, openAge, hookCall, streak, healthy>>

Sources == {"pinger", "watcher"}

SyncNext ==
    \/ Configure
    \/ BackendChanges
    \/ TimePasses
    \/ \E c \in Calls :
          \/ Begin(c)
          \/ AskBreaker(c)
          \/ \E answer \in Answers : PostReturns(c, answer)
          \/ Backoff(c)
          \/ Return(c)
    \/ PingTick
    \/ WatchTick
    \/ \E source \in Sources : OnUnhealthy(source)

\* The clock runs, goroutines run, a post ends by answer or timeout, tickers
\* tick.  Whether anyone calls, and what the backend does, is up to them.
SyncFairness ==
    /\ WF_syncVars(TimePasses)
    /\ \A c \in Calls :
          WF_syncVars(\/ AskBreaker(c) \/ Backoff(c) \/ Return(c)
                      \/ \E answer \in Answers : PostReturns(c, answer))
    /\ WF_syncVars(PingTick)
    /\ WF_syncVars(WatchTick)
    /\ \A source \in Sources : WF_syncVars(OnUnhealthy(source))
-----------------------------------------------------------------------------
(* Properties *)

\* The type invariant of the synchronous callbacks; in particular onUnhealthy
\* runs at most once, although pinger and watcher report concurrently and every
\* tick at or above the threshold reports again.
SyncTypeOK ==
    /\ cfg = NoConfig \/ cfg \in [on : {TRUE}, ping : BOOLEAN, watch : BOOLEAN,
                                  shutdown : BOOLEAN, retryMax : Nat]
    /\ backend \in {"up", "down"}
    /\ failures \in 0..Threshold
    /\ openAge \in 0..MaxOpen
    /\ hookCall \in [Calls -> [pc : {"idle", "allow", "post", "backoff", "return"},
                           attempt : Nat,
                           answer : Answers \cup {"none", "circuitOpen"},
                           result : {"none", "ok", "rejected", "generic"}]]
    /\ streak \in 0..FailThreshold
    /\ healthy \in BOOLEAN /\ fired \in BOOLEAN /\ rootDone \in BOOLEAN
    /\ firing \subseteq Sources
    /\ fires \in {0, 1}

\* A hook lets a client through only on a 2xx answer to its own last attempt:
\* whatever retries, an open breaker, timeouts and the configured number of
\* attempts do, no path of SyncCaller.Call returns nil without one.
HooksFailClosed ==
    /\ []SyncTypeOK
    /\ [][\A c \in Calls : hookCall[c].pc = "return" /\ hookCall'[c].result = "ok"
                               => hookCall[c].answer = "2xx"]_syncVars

Busy == \E c \in Calls : hookCall[c].pc # "idle"

\* When the backend stays up and hooks keep being called, the breaker ends
\* closed: an open breaker lets a probe through after Cooldown, and late
\* failures of earlier posts do not keep it open.
BreakerRecovers ==
    (<>[](backend = "up") /\ []<>Busy) => <>[](cfg.on => ~IsOpen)

\* With the pinger enabled, the monitor ends healthy, unless it has shut
\* the process down: /healthz recovers by itself.
HealthRecovers ==
    (<>[](backend = "up") /\ []<>Busy) => <>[](cfg.on /\ cfg.ping => healthy \/ rootDone)

\* A backend that recovered is noticed, by the breaker and by the monitor.
RecoveryIsNoticed == BreakerRecovers /\ HealthRecovers
=============================================================================
