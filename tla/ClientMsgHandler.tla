--------------------------- MODULE ClientMsgHandler ---------------------------
(***************************************************************************)
(* The handler of a client's messages: rate limiter, deduplication,        *)
(* heartbeat throttle, the application's HandleMessage and the response.   *)
(* One session, Me, sends the same message again until it is answered, and *)
(* heartbeats; other sessions of its user share the user's token bucket.   *)
(* Handlers of one session overlap: long polling posts messages as         *)
(* requests of their own, and a handler may outlive its connection.        *)
(*                                                                         *)
(* Deduplication and throttle are the same data structure, a map from keys *)
(* to times: key "msg" is the message, "s" the session, "u" the user.      *)
(***************************************************************************)
EXTENDS Naturals, FiniteSets

CONSTANTS
    Sessions, Me,   \* sessions of the user, and the one studied
    Handlers,       \* goroutines that run handleMessage
    Burst,          \* RateLimiter.UserBurst
    TTL             \* msgDeduplicateTTL and heartbeatThrottleDuration, in ticks

ASSUME HandlerAssumption ==
    /\ Me \in Sessions
    /\ Burst \in Nat \ {0} /\ TTL \in Nat \ {0}

VARIABLES
    online,         \* sessions whose onNew is done and onClose has not run
    userSessions,   \* rateLimiter.userSessions of the user
    bucket,         \* tokens of rateLimiter.userLimiter, or NoBucket
    entries,        \* entries[k]: age of the key's entry, up to TTL, or NoEntry
    clearing,       \* key that clearExpiredEntries has found expired, or "none"
    handler,        \* handler[h]
    answered        \* the message was handled and its response written

limiterVars == <<userSessions, bucket>>
handlerVars == <<online, limiterVars, entries, clearing, handler, answered>>

Keys == {"msg", "s", "u"}
NoEntry == TTL + 1
NoBucket == Burst + 1
Resting == [pc |-> "idle", kind |-> "none", key |-> "msg", live |-> FALSE, final |-> FALSE]

HandlerInit ==
    /\ online = {}
    /\ userSessions = {}
    /\ bucket = NoBucket
    /\ entries = [k \in Keys |-> NoEntry]
    /\ clearing = "none"
    /\ handler = [h \in Handlers |-> Resting]
    /\ answered = FALSE

Goto(h, pc) == handler' = [handler EXCEPT ![h].pc = pc]
Ends(h) == handler' = [handler EXCEPT ![h] = Resting]
-----------------------------------------------------------------------------
(* Rate limiter *)

NewLimiter(s) ==
    /\ userSessions' = userSessions \cup {s}
    /\ bucket' = IF bucket = NoBucket THEN Burst ELSE bucket

RemoveLimiter(s) ==
    /\ userSessions' = userSessions \ {s}
    /\ bucket' = IF userSessions' = {} THEN NoBucket ELSE bucket

\* Get, which creates what Remove has taken away, and Allow.
GetAllow(s, allowed) ==
    IF bucket = NoBucket
    THEN allowed /\ userSessions' = userSessions \cup {s} /\ bucket' = Burst - 1
    ELSE /\ allowed = (bucket > 0)
         /\ bucket' = IF allowed THEN bucket - 1 ELSE bucket
         /\ UNCHANGED userSessions

\* onNew and onClose, as far as they concern the handler.
Connect(s) ==
    /\ s \notin online
    /\ online' = online \cup {s}
    /\ NewLimiter(s)
    /\ UNCHANGED <<entries, clearing, handler, answered>>

HandlersLose(s) ==
    handler' = IF s = Me THEN [h \in Handlers |-> [handler[h] EXCEPT !.live = FALSE]]
                         ELSE handler

Disconnect(s) ==
    /\ s \in online
    /\ online' = online \ {s}
    /\ RemoveLimiter(s)
    /\ HandlersLose(s)
    /\ UNCHANGED <<entries, clearing, answered>>

\* A message of another session of the user.
OtherAsks(s) ==
    /\ s \in online \ {Me}
    /\ \E allowed \in BOOLEAN : GetAllow(s, allowed)
    /\ UNCHANGED <<online, entries, clearing, handler, answered>>
-----------------------------------------------------------------------------
(* heartbeatThrottle and msgDeduplicator *)

Fresh(k) == entries[k] < TTL

\* Mutant: a key that is seen again counts as new, so that its entry never ages
\* while it is repeated.
LoadRefreshes(h) ==
    LET k == handler[h].key IN
    /\ handler[h].pc = "load"
    /\ IF Fresh(k)
       THEN /\ entries' = [entries EXCEPT ![k] = 0]
            /\ IF k = "msg" THEN Ends(h)
               ELSE handler' = [handler EXCEPT ![h].pc = IF k = "s" THEN "load" ELSE "reply",
                                               ![h].key = "u"]
       ELSE Goto(h, "store") /\ UNCHANGED entries
    /\ UNCHANGED <<online, limiterVars, clearing, answered>>

\* A duplicate ends without a response; a throttled heartbeat goes on.
Load(h) ==
    LET k == handler[h].key IN
    /\ handler[h].pc = "load"
    /\ IF ~Fresh(k) THEN Goto(h, "store")
       ELSE IF k = "msg" THEN Ends(h)
       ELSE handler' = [handler EXCEPT ![h].pc = IF k = "s" THEN "load" ELSE "reply",
                                       ![h].key = "u"]
    /\ UNCHANGED <<online, limiterVars, entries, clearing, answered>>

Store(h) ==
    /\ handler[h].pc = "store"
    /\ entries' = [entries EXCEPT ![handler[h].key] = 0]
    /\ Goto(h, "act")
    /\ UNCHANGED <<online, limiterVars, clearing, answered>>

\* clearExpiredEntries looks at a value and deletes the key afterwards.
ClearFinds(k) ==
    /\ clearing = "none"
    /\ entries[k] = TTL
    /\ clearing' = k
    /\ UNCHANGED <<online, limiterVars, entries, handler, answered>>

ClearDeletes ==
    /\ clearing # "none"
    /\ entries' = [entries EXCEPT ![clearing] = NoEntry]
    /\ clearing' = "none"
    /\ UNCHANGED <<online, limiterVars, handler, answered>>

\* Entries age and the bucket gains a token.
ClockTicks ==
    /\ entries' = [k \in Keys |-> IF Fresh(k) THEN entries[k] + 1 ELSE entries[k]]
    /\ bucket' = IF bucket < Burst THEN bucket + 1 ELSE bucket
    /\ UNCHANGED <<online, userSessions, clearing, handler, answered>>
-----------------------------------------------------------------------------
(* handleMessage *)

Kinds == {"request", "heartbeat", "ack"}

Receive(h, kind) ==
    /\ Me \in online
    /\ handler[h] = Resting
    /\ kind = "request" => ~answered
    /\ handler' = [handler EXCEPT ![h] =
          [Resting EXCEPT !.pc = "limit", !.kind = kind, !.live = TRUE,
                          !.key = IF kind = "heartbeat" THEN "s" ELSE "msg"]]
    /\ UNCHANGED <<online, limiterVars, entries, clearing, answered>>

\* A frame that cannot be decoded is answered before the limiter is asked.
ReceiveGarbage(h) ==
    /\ Me \in online
    /\ handler[h] = Resting
    /\ handler' = [handler EXCEPT ![h] = [Resting EXCEPT !.pc = "reply", !.live = TRUE]]
    /\ UNCHANGED <<online, limiterVars, entries, clearing, answered>>

\* closeOnVersionMismatch closes the session's connection; one that cannot send
\* a close code (long polling) stays.
ReceiveWrongVersion(h) ==
    /\ Me \in online
    /\ handler[h] = Resting
    /\ online' = online \ {Me}
    /\ RemoveLimiter(Me)
    /\ HandlersLose(Me)
    /\ UNCHANGED <<entries, clearing, answered>>

\* A refused request is told so, heartbeats and ACKs are not.  What an ACK does
\* is in AckManager.
Limit(h) ==
    /\ handler[h].pc = "limit"
    /\ \E allowed \in BOOLEAN :
          /\ GetAllow(Me, allowed)
          /\ CASE handler[h].kind = "ack" -> Ends(h)
               [] allowed -> Goto(h, "load")
               [] handler[h].kind = "heartbeat" -> Ends(h)
               [] OTHER -> Goto(h, "reply")
    /\ UNCHANGED <<online, entries, clearing, answered>>

\* The application's HandleMessage: its result or error is the response, or it
\* has none.
HandleMessage(h) ==
    /\ handler[h].pc = "act" /\ handler[h].kind = "request"
    /\ \/ /\ handler' = [handler EXCEPT ![h].pc = "reply", ![h].final = TRUE]
          /\ UNCHANGED answered
       \/ /\ Ends(h)
          /\ answered' = TRUE
    /\ UNCHANGED <<online, limiterVars, entries, clearing>>

\* One of the heartbeat's two writes, which may fail: the session's, then the
\* user's.
HandleHeartbeat(h) ==
    /\ handler[h].pc = "act" /\ handler[h].kind = "heartbeat"
    /\ handler' = [handler EXCEPT ![h].pc = IF handler[h].key = "s" THEN "load" ELSE "reply",
                                  ![h].key = "u"]
    /\ UNCHANGED <<online, limiterVars, entries, clearing, answered>>

\* A write on a connection closed meanwhile is lost.
ReplyFrame(h) ==
    /\ handler[h].pc = "reply"
    /\ answered' = (answered \/ (handler[h].final /\ handler[h].live))
    /\ Ends(h)
    /\ UNCHANGED <<online, limiterVars, entries, clearing>>

HandlerStep(h) ==
    \/ Limit(h)
    \/ Load(h)
    \/ Store(h)
    \/ HandleMessage(h)
    \/ HandleHeartbeat(h)
    \/ ReplyFrame(h)

HandlerNext ==
    \/ \E s \in Sessions : Connect(s) \/ Disconnect(s) \/ OtherAsks(s)
    \/ \E k \in Keys : ClearFinds(k)
    \/ ClearDeletes
    \/ ClockTicks
    \/ \E h \in Handlers :
          \/ \E kind \in Kinds : Receive(h, kind)
          \/ ReceiveGarbage(h)
          \/ ReceiveWrongVersion(h)
          \/ HandlerStep(h)

\* Time passes and handlers run; nobody has to send anything.
HandlerFairness ==
    /\ WF_handlerVars(ClockTicks)
    /\ \A h \in Handlers : WF_handlerVars(HandlerStep(h))
-----------------------------------------------------------------------------
(* Properties *)

\* The type invariant of the handler; the two maps of the rate limiter have the
\* same users.
HandlerTypeOK ==
    /\ online \subseteq Sessions
    /\ userSessions \subseteq Sessions
    /\ bucket \in 0..NoBucket
    /\ bucket = NoBucket <=> userSessions = {}
    /\ entries \in [Keys -> 0..NoEntry]
    /\ clearing \in Keys \cup {"none"}
    /\ handler \in [Handlers -> [pc : {"idle", "limit", "load", "store", "act", "reply"},
                                 kind : Kinds \cup {"none"}, key : Keys,
                                 live : BOOLEAN, final : BOOLEAN]]
    /\ answered \in BOOLEAN

Admitted(kind) == \E h \in Handlers : handler[h].kind = kind /\ handler[h].pc = "load"

Writes(k) == \E h \in Handlers : handler[h].pc = "act" /\ handler[h].key = k

\* Repetition gets through.  A message whose retries pass the rate limiter again
\* and again is answered once the connection stays: a response lost with the
\* first connection, the silence that duplicates meet and the sweep of expired
\* entries only delay it.  And a client that keeps sending heartbeats keeps
\* having them written, for its session and for its user.
RepeatsGetThrough ==
    /\ []HandlerTypeOK
    /\ (<>[](Me \in online) /\ []<>Admitted("request")) => <>answered
    /\ []<>Admitted("heartbeat") => ([]<>Writes("s") /\ []<>Writes("u"))
=============================================================================
