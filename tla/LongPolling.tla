----------------------------- MODULE LongPolling -----------------------------
(***************************************************************************)
(* The long-polling transport of one session in one container.  A poll is  *)
(* an HTTP handler that finds or makes the session's connection, takes     *)
(* messages from the session's queue in Valkey, waiting for the first, and *)
(* arms the idle timer that closes the connection when no poll follows.    *)
(* Closing removes the session's entry from the ConnectionManager, by      *)
(* session and not by connection.  Senders find the connection there and   *)
(* publish to the queue later.                                             *)
(*                                                                         *)
(* A session served by a WebSocket answers 409 and changes nothing; it is  *)
(* left out.  The module is at rest until OpenLP.                          *)
(***************************************************************************)
EXTENDS Naturals, FiniteSets, FiniteSetsExt

CONSTANTS
    LPConns,        \* LongPollingConn objects, reused once nobody refers to them
    NoLPConn,
    Polls,          \* slots for handlers, reused
    LPMessages,     \* how many messages are sent
    Batch           \* lpQueueSize

ASSUME LPAssumption ==
    NoLPConn \notin LPConns /\ IsFiniteSet(Polls) /\ Batch \in Nat \ {0} /\ LPMessages \in Nat

VARIABLES
    lpOpen,         \* the endpoint is served
    entry,          \* the session's entry in the ConnectionManager
    lpClosed,       \* lpClosed[k]: LongPollingConn.closed
    idleTimer,      \* idleTimer[k]: armed
    timerRuns,      \* timerRuns[k]: goroutines of timers that have fired
    lpClosing,      \* lpClosing[k]: where the Close that won the swap is
    poll,           \* poll[p]: a handler
    unsent,         \* messages still to be sent
    sending,        \* messages whose sender has found the connection
    queue, ttl,     \* length of the list in Valkey, and whether it has an expiry
    settled,        \* messages that were put into a response, or expired
    overlapped      \* history: two handlers ran at the same time and the session
                    \* has not come to rest since

connVars == <<entry, lpClosed, idleTimer, timerRuns, lpClosing>>
queueVars == <<unsent, sending, queue, ttl, settled>>
lpVars == <<lpOpen, connVars, poll, queueVars, overlapped>>

Idle == [pc |-> "idle", conn |-> NoLPConn, dup |-> NoLPConn, got |-> 0]

LPInit ==
    /\ lpOpen = FALSE
    /\ entry = NoLPConn
    /\ lpClosed = [k \in LPConns |-> FALSE]
    /\ idleTimer = [k \in LPConns |-> FALSE]
    /\ timerRuns = [k \in LPConns |-> FALSE]
    /\ lpClosing = [k \in LPConns |-> "no"]
    /\ poll = [p \in Polls |-> Idle]
    /\ unsent = LPMessages
    /\ sending = 0
    /\ queue = 0
    /\ ttl = FALSE
    /\ settled = 0
    /\ overlapped = FALSE

OpenLP ==
    /\ ~lpOpen
    /\ lpOpen' = TRUE
    /\ UNCHANGED <<connVars, poll, queueVars, overlapped>>

AtRest ==
    /\ entry = NoLPConn
    /\ \A p \in Polls : poll[p] = Idle
    /\ \A k \in LPConns : ~idleTimer[k] /\ ~timerRuns[k] /\ lpClosing[k] \in {"no", "done"}

Step(p, pc) == poll' = [poll EXCEPT ![p].pc = pc]
-----------------------------------------------------------------------------
(* The queue in Valkey: a list that exists while it is not empty *)

Fetch(n) == IF queue < n THEN queue ELSE n

\* LPOP: the expiry goes with the last element.
Popped(n) ==
    /\ queue' = queue - n
    /\ ttl' = (ttl /\ queue' # 0)
    /\ UNCHANGED <<unsent, sending, settled>>

\* EXPIRE does nothing to a list that does not exist.
SetChannelTTL == ttl' = (queue # 0)

QueueExpires ==
    /\ ttl
    /\ queue' = 0
    /\ ttl' = FALSE
    /\ settled' = settled + queue
    /\ UNCHANGED <<lpOpen, connVars, poll, unsent, sending, overlapped>>

\* A sender finds the connection; Send publishes whether or not it is closed.
FindConn ==
    /\ unsent > 0
    /\ entry \in LPConns
    /\ unsent' = unsent - 1
    /\ sending' = sending + 1
    /\ UNCHANGED <<lpOpen, connVars, poll, queue, ttl, settled, overlapped>>

SendToQueue ==
    /\ sending > 0
    /\ sending' = sending - 1
    /\ queue' = queue + 1
    /\ UNCHANGED <<lpOpen, connVars, poll, unsent, ttl, settled, overlapped>>
-----------------------------------------------------------------------------
(* Close *)

\* The swap of closed and, if it succeeds, the idle timer's stop.
Close(k) ==
    /\ lpClosed' = [lpClosed EXCEPT ![k] = TRUE]
    /\ idleTimer' = [idleTimer EXCEPT ![k] = @ /\ lpClosed[k]]
    /\ lpClosing' = [lpClosing EXCEPT ![k] = IF lpClosed[k] THEN @ ELSE "onClose"]

TimerFires(k) ==
    /\ idleTimer[k]
    /\ idleTimer' = [idleTimer EXCEPT ![k] = FALSE]
    /\ timerRuns' = [timerRuns EXCEPT ![k] = TRUE]
    /\ UNCHANGED <<lpOpen, entry, lpClosed, lpClosing, poll, queueVars, overlapped>>

TimerCloses(k) ==
    /\ timerRuns[k]
    /\ timerRuns' = [timerRuns EXCEPT ![k] = FALSE]
    /\ Close(k)
    /\ UNCHANGED <<lpOpen, entry, poll, queueVars, overlapped>>

\* DisconnectSession or Shutdown, which take the connection from the manager.
ServerCloses(k) ==
    /\ entry = k
    /\ ~lpClosed[k]
    /\ Close(k)
    /\ UNCHANGED <<lpOpen, entry, timerRuns, poll, queueVars, overlapped>>

\* The rest of Close: the channel's expiry, then RemoveConnection in onClose.
RemoveConnection(k) ==
    /\ lpClosing[k] = "onClose"
    /\ SetChannelTTL
    /\ lpClosing' = [lpClosing EXCEPT ![k] = "done"]
    /\ entry' = NoLPConn
    /\ UNCHANGED <<lpOpen, lpClosed, idleTimer, timerRuns, poll, unsent, sending, queue, settled, overlapped>>

\* The object is collected.
Forget(k) ==
    /\ lpClosing[k] = "done" /\ ~timerRuns[k] /\ ~idleTimer[k] /\ entry # k
    /\ \A p \in Polls : poll[p].conn # k
    /\ lpClosing' = [lpClosing EXCEPT ![k] = "no"]
    /\ lpClosed' = [lpClosed EXCEPT ![k] = FALSE]
    /\ UNCHANGED <<lpOpen, entry, idleTimer, timerRuns, poll, queueVars, overlapped>>
-----------------------------------------------------------------------------
(* The handler *)

Free(k) ==
    /\ lpClosing[k] = "no" /\ ~timerRuns[k] /\ ~idleTimer[k] /\ entry # k
    /\ \A p \in Polls : poll[p].conn # k

NewConn == CHOOSE k \in LPConns : Free(k)

InFlight(p) == poll[p].pc # "idle"

\* Authenticated request: a new connection, or the one there is.
Lookup(p) ==
    /\ lpOpen /\ ~InFlight(p)
    /\ overlapped' = ((overlapped /\ ~AtRest) \/ \E q \in Polls : InFlight(q))
    /\ \/ /\ entry = NoLPConn
          /\ \E k \in LPConns : Free(k)
          /\ poll' = [poll EXCEPT ![p] = [Idle EXCEPT !.pc = "duplicate", !.conn = NewConn]]
       \/ /\ entry \in LPConns
          /\ poll' = [poll EXCEPT ![p] = [Idle EXCEPT !.pc = "stop", !.conn = entry]]
    /\ UNCHANGED <<lpOpen, connVars, queueVars>>

\* onNew closes a connection registered meanwhile, in its own goroutine if it
\* wins the swap.
CloseOldPoll(p) ==
    /\ poll[p].pc = "duplicate"
    /\ IF entry \in LPConns
       THEN /\ Close(entry)
            /\ poll' = [poll EXCEPT ![p].pc = IF lpClosed[entry] THEN "add" ELSE "closing",
                                    ![p].dup = IF lpClosed[entry] THEN NoLPConn ELSE entry]
       ELSE /\ Step(p, "add")
            /\ UNCHANGED <<lpClosed, idleTimer, lpClosing>>
    /\ UNCHANGED <<lpOpen, entry, timerRuns, queueVars, overlapped>>

DuplicateClosed(p) ==
    /\ poll[p].pc = "closing"
    /\ lpClosing[poll[p].dup] # "onClose"
    /\ poll' = [poll EXCEPT ![p].pc = "add", ![p].dup = NoLPConn]
    /\ UNCHANGED <<lpOpen, connVars, queueVars, overlapped>>

\* The record is written and the connection registered, or the request fails.
AddConnection(p) ==
    /\ poll[p].pc = "add"
    /\ \/ /\ entry' = poll[p].conn
          /\ Step(p, "stop")
       \/ /\ poll' = [poll EXCEPT ![p] = Idle]
          /\ UNCHANGED entry
    /\ UNCHANGED <<lpOpen, lpClosed, idleTimer, timerRuns, lpClosing, queueVars, overlapped>>

\* Mutant: the watchdog runs on during the poll.
StopIdleTimerMissing(p) ==
    /\ poll[p].pc = "stop"
    /\ Step(p, "fetch")
    /\ UNCHANGED <<lpOpen, connVars, queueVars, overlapped>>

StopIdleTimer(p) ==
    /\ poll[p].pc = "stop"
    /\ idleTimer' = [idleTimer EXCEPT ![poll[p].conn] = FALSE]
    /\ Step(p, "fetch")
    /\ UNCHANGED <<lpOpen, entry, lpClosed, timerRuns, lpClosing, queueVars, overlapped>>

\* drainOrWait, fast path.
FetchMany(p) ==
    LET got == Fetch(Batch) IN
    /\ poll[p].pc = "fetch"
    /\ Popped(got)
    /\ poll' = [poll EXCEPT ![p].pc = IF got = 0 THEN "block" ELSE "reset",
                            ![p].got = got]
    /\ UNCHANGED <<lpOpen, connVars, overlapped>>

\* BlockFetchOne: a message, or the end of the 30 seconds or of the request.
BlockFetchOne(p) ==
    /\ poll[p].pc = "block"
    /\ queue > 0
    /\ Popped(1)
    /\ poll' = [poll EXCEPT ![p].pc = "more", ![p].got = 1]
    /\ UNCHANGED <<lpOpen, connVars, overlapped>>

BlockEnds(p) ==
    /\ poll[p].pc = "block"
    /\ Step(p, "reset")
    /\ UNCHANGED <<lpOpen, connVars, queueVars, overlapped>>

FetchMore(p) ==
    LET more == Fetch(Batch - 1) IN
    /\ poll[p].pc = "more"
    /\ Popped(more)
    /\ poll' = [poll EXCEPT ![p].pc = "reset", ![p].got = @ + more]
    /\ UNCHANGED <<lpOpen, connVars, overlapped>>

\* The end of the handler: the channel's expiry and the response, which nobody
\* acknowledges.
Respond(p) ==
    /\ SetChannelTTL
    /\ settled' = settled + poll[p].got
    /\ poll' = [poll EXCEPT ![p] = Idle]
    /\ UNCHANGED <<unsent, sending, queue>>

\* Mutant: a closed connection is answered with 410, whatever was fetched.
TestClosedGone(p) ==
    /\ poll[p].pc = "reset"
    /\ IF lpClosed[poll[p].conn]
       THEN poll' = [poll EXCEPT ![p] = Idle] /\ UNCHANGED queueVars
       ELSE Step(p, "arm") /\ UNCHANGED queueVars
    /\ UNCHANGED <<lpOpen, connVars, overlapped>>

\* resetIdleTimer tests closed before it takes the lock.
TestClosed(p) ==
    /\ poll[p].pc = "reset"
    /\ IF lpClosed[poll[p].conn]
       THEN Respond(p)
       ELSE Step(p, "arm") /\ UNCHANGED queueVars
    /\ UNCHANGED <<lpOpen, connVars, overlapped>>

\* Mutant: a poll that timed out does not arm the watchdog.
ArmIfMessages(p) ==
    /\ poll[p].pc = "arm"
    /\ idleTimer' = [idleTimer EXCEPT ![poll[p].conn] = @ \/ poll[p].got > 0]
    /\ Respond(p)
    /\ UNCHANGED <<lpOpen, entry, lpClosed, timerRuns, lpClosing, overlapped>>

\* The timer starts before the response is written.
Arm(p) ==
    /\ poll[p].pc = "arm"
    /\ idleTimer' = [idleTimer EXCEPT ![poll[p].conn] = TRUE]
    /\ Respond(p)
    /\ UNCHANGED <<lpOpen, entry, lpClosed, timerRuns, lpClosing, overlapped>>

PollStep(p) ==
    \/ CloseOldPoll(p)
    \/ DuplicateClosed(p)
    \/ AddConnection(p)
    \/ StopIdleTimer(p)
    \/ FetchMany(p)
    \/ BlockFetchOne(p)
    \/ BlockEnds(p)
    \/ FetchMore(p)
    \/ TestClosed(p)
    \/ Arm(p)

LPNext ==
    \/ OpenLP
    \/ QueueExpires
    \/ FindConn
    \/ SendToQueue
    \/ \E k \in LPConns :
          \/ TimerFires(k) \/ TimerCloses(k) \/ ServerCloses(k)
          \/ RemoveConnection(k) \/ Forget(k)
    \/ \E p \in Polls : Lookup(p) \/ PollStep(p)

\* Handlers, timers and closes run to their end, objects are collected, and
\* senders publish; no one has to poll.
LPFairness ==
    /\ \A p \in Polls : WF_lpVars(PollStep(p))
    /\ \A k \in LPConns :
          /\ WF_lpVars(TimerFires(k)) /\ WF_lpVars(TimerCloses(k))
          /\ WF_lpVars(RemoveConnection(k)) /\ WF_lpVars(Forget(k))
    /\ WF_lpVars(SendToQueue)
-----------------------------------------------------------------------------
(* Properties *)

\* The type invariant of the long-polling transport.
LPTypeOK ==
    /\ lpOpen \in BOOLEAN /\ overlapped \in BOOLEAN
    /\ entry \in LPConns \cup {NoLPConn}
    /\ lpClosed \in [LPConns -> BOOLEAN]
    /\ idleTimer \in [LPConns -> BOOLEAN]
    /\ timerRuns \in [LPConns -> BOOLEAN]
    /\ lpClosing \in [LPConns -> {"no", "onClose", "done"}]
    /\ \A p \in Polls : /\ poll[p].conn \in LPConns \cup {NoLPConn}
                        /\ poll[p].dup \in LPConns \cup {NoLPConn}
                        /\ poll[p].got \in 0..Batch
    /\ {unsent, sending, queue, settled} \subseteq 0..LPMessages
    /\ ttl \in BOOLEAN

Waiting(p) == poll[p].pc \in {"fetch", "block", "more", "reset"}

\* While a poll waits, no idle timer of its connection is armed, as long as the
\* client polls one request at a time: stopIdleTimer and resetIdleTimer keep
\* the watchdog off for the up to 30 seconds of drainOrWait, also when a timer
\* of an earlier poll fires around the arrival of the next.
NoWatchdogUnderPoll ==
    ~overlapped => \A p \in Polls : Waiting(p) => ~idleTimer[poll[p].conn]

\* A poll that waits on an open connection is the one the ConnectionManager
\* leads to, as long as requests do not overlap: a Close that is still under
\* way, which removes the entry by session, never removes a successor's.
WaitingPollIsRoutable ==
    ~overlapped => \A p \in Polls : Waiting(p) /\ ~lpClosed[poll[p].conn]
                                        => entry = poll[p].conn

\* A poll keeps the connection it waits on.
PollKeepsItsConnection == NoWatchdogUnderPoll /\ WaitingPollIsRoutable

\* A client that stops polling is noticed: whatever polls overlapped, fired
\* timers and closes there were, in the end no long-polling connection is
\* registered.
AbandonedConnectionCloses ==
    <>[](\A p \in Polls : ~InFlight(p)) => <>[](entry \notin LPConns)

\* No message is lost between the steps of a poll: what was fetched, in one go
\* or as first message and rest, ends in a response, and what no poll took stays
\* in the queue, also if it was published to a connection closed since its
\* sender found it.
EveryMessageAccounted ==
    LPTypeOK /\ unsent + sending + queue + settled
        + MapThenSumSet(LAMBDA p : poll[p].got, Polls) = LPMessages
=============================================================================
