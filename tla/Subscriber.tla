----------------------------- MODULE Subscriber -----------------------------
(***************************************************************************)
(* A container's two subscriptions, to its own channel and to the          *)
(* broadcast channel: the retry loop of the Valkey and Redis adapters      *)
(* (which are the same but for their names), the cleanup that unsubscribes *)
(* and the restart that a dead subscription asks for.                      *)
(***************************************************************************)
EXTENDS Naturals

CONSTANTS
    Channels,       \* the container's channel and the broadcast channel
    MaxRetries,     \* Config.MaxSubscribeRetries
    MaxDrops        \* bound: how often a server drops the connection

ASSUME SubscriberAssumption == MaxRetries \in Nat \ {0} /\ MaxDrops \in Nat

VARIABLES
    loopAt,         \* loopAt[ch]: "off", "receive" before the server's answer,
                    \* "subscribed", "backoff" or "ended"
    attempt,        \* attempt[ch]: the loop's counter
    cancelled,      \* cancelled[ch]: subCtx is cancelled
    panicked,       \* panicked[ch]: the loop was ended by recover
    reported,       \* channels whose loop has called CallbackFn, which sends SIGTERM
    stopping,       \* progress of the container: "run", "term", "cleaned"
    drops           \* connections dropped so far

subVars == <<loopAt, attempt, cancelled, panicked, reported, stopping, drops>>

SubInit ==
    /\ loopAt = [ch \in Channels |-> "off"]
    /\ attempt = [ch \in Channels |-> 0]
    /\ cancelled = [ch \in Channels |-> FALSE]
    /\ panicked = [ch \in Channels |-> FALSE]
    /\ reported = {}
    /\ stopping = "run"
    /\ drops = 0

Goes(ch, where) == loopAt' = [loopAt EXCEPT ![ch] = where]

\* startSubscriber, for one channel: Subscribe starts the loop and returns.
Subscribe(ch) ==
    /\ loopAt[ch] = "off" /\ stopping = "run"
    /\ Goes(ch, "receive")
    /\ UNCHANGED <<attempt, cancelled, panicked, reported, stopping, drops>>

\* SUBSCRIBE succeeds; Receive goes on.
Confirmed(ch) ==
    /\ loopAt[ch] = "receive"
    /\ Goes(ch, "subscribed")
    /\ UNCHANGED <<attempt, cancelled, panicked, reported, stopping, drops>>

\* A message is handled; a handler that panics is recovered from outside the loop.
HandlerPanics(ch) ==
    /\ loopAt[ch] = "subscribed" /\ drops < MaxDrops
    /\ Goes(ch, "ended")
    /\ panicked' = [panicked EXCEPT ![ch] = TRUE]
    /\ drops' = drops + 1
    /\ UNCHANGED <<attempt, cancelled, reported, stopping>>

\* Mutant: the last attempt ends the loop without the callback.
GivesUpSilently(ch) == UNCHANGED reported

GivesUp(ch) == reported' = reported \cup {ch}

\* Receive returns an error: the connection is refused or dropped.
Dropped(ch) ==
    /\ loopAt[ch] \in {"receive", "subscribed"} /\ ~cancelled[ch] /\ drops < MaxDrops
    /\ drops' = drops + 1
    /\ attempt' = [attempt EXCEPT ![ch] = @ + 1]
    /\ IF attempt'[ch] >= MaxRetries
       THEN Goes(ch, "ended") /\ GivesUp(ch)
       ELSE Goes(ch, "backoff") /\ UNCHANGED reported
    /\ UNCHANGED <<cancelled, panicked, stopping>>

\* subscribeRetryBackoff is over.
Retries(ch) ==
    /\ loopAt[ch] = "backoff" /\ ~cancelled[ch]
    /\ Goes(ch, "receive")
    /\ UNCHANGED <<attempt, cancelled, panicked, reported, stopping, drops>>

\* Receive or the wait returns because subCtx is cancelled.
SeesCancelled(ch) ==
    /\ cancelled[ch] /\ loopAt[ch] \in {"receive", "subscribed", "backoff"}
    /\ Goes(ch, "ended")
    /\ UNCHANGED <<attempt, cancelled, panicked, reported, stopping, drops>>

\* SIGTERM, from restartOnDeadSubscription or from outside.
Terminate ==
    /\ stopping = "run" /\ \A ch \in Channels : loopAt[ch] # "off"
    /\ stopping' = "term"
    /\ UNCHANGED <<loopAt, attempt, cancelled, panicked, reported, drops>>

\* The cleanup task of startSubscriber calls both unsubscribe functions.
Unsubscribe ==
    /\ stopping = "term"
    /\ cancelled' = [ch \in Channels |-> TRUE]
    /\ stopping' = "cleaned"
    /\ UNCHANGED <<loopAt, attempt, panicked, reported, drops>>

SubNext ==
    \/ \E ch \in Channels :
          \/ Subscribe(ch)
          \/ Confirmed(ch)
          \/ HandlerPanics(ch)
          \/ Dropped(ch)
          \/ Retries(ch)
          \/ SeesCancelled(ch)
    \/ Terminate
    \/ Unsubscribe

SubSpec == SubInit /\ [][SubNext]_subVars
-----------------------------------------------------------------------------
(* Properties *)

\* The type invariant of the subscriptions.
SubTypeOK ==
    /\ loopAt \in [Channels -> {"off", "receive", "subscribed", "backoff", "ended"}]
    /\ attempt \in [Channels -> 0..MaxRetries]
    /\ cancelled \in [Channels -> BOOLEAN]
    /\ panicked \in [Channels -> BOOLEAN]
    /\ reported \subseteq Channels
    /\ stopping \in {"run", "term", "cleaned"}
    /\ drops \in 0..MaxDrops

\* A subscription that is gone while the container runs has asked for the
\* restart itself, unless a handler panicked: what happened on the other channel
\* does not count, nor that the cleanup races the last attempt.
LostSubscriptionIsReported ==
    /\ SubTypeOK
    /\ \A ch \in Channels :
          loopAt[ch] = "ended" => cancelled[ch] \/ panicked[ch] \/ ch \in reported

=============================================================================
