------------------------------- MODULE Session -------------------------------
(***************************************************************************)
(* The life of one session (userID, instanceID) over several containers.   *)
(*                                                                         *)
(* A client opens one connection after another, on any container.  Each    *)
(* connection runs the onNew hook when it is accepted and the onClose hook *)
(* when it is closed; both work on state keyed by the session, not by the  *)
(* connection:                                                             *)
(*   cm[c]   the ConnectionManager entry of container c;                   *)
(*   rec     the ActiveConnection record in the shared database;           *)
(*   reg[c]  the MessageHub registry entry of c, with its ExpiredTimer.    *)
(* Containers signal each other over pubsub (ResumeSession,                *)
(* DisconnectSession); one goroutine per container handles the messages in *)
(* order.  Every database call is a step of its own.                       *)
(*                                                                         *)
(* A connection registers with the hub at most once, so the connection     *)
(* stands for the generation number of its registration.                   *)
(*                                                                         *)
(* Faults names what the environment may do, so that a run can say under   *)
(* which circumstances a property holds:                                   *)
(*   overlap     a connection is opened before the last one is closed;     *)
(*   earlyClose  the peer goes away while onNew still runs;                *)
(*   shutdownRace  a connection opens or closes while its container        *)
(*               shuts down;                                               *)
(*   loss        pubsub drops a message;                                   *)
(*   delay       a pubsub message is still on its way at the next connect; *)
(*   lapse       no heartbeat comes for HeartbeatCutoff, or for the        *)
(*               record's TTL, from a silent client or an absent one;      *)
(*   race        a timer's expiry overlaps a reconnect or a shutdown;      *)
(*   refuse      the worker pool refuses the timer's task;                 *)
(*   dbError     a database call fails.                                    *)
(***************************************************************************)
EXTENDS Naturals, Sequences

CONSTANTS Containers, Conns, NoConn, NoHolder, NoRecord, Faults

FaultKinds ==
    {"overlap", "earlyClose", "shutdownRace", "loss", "delay", "lapse", "race", "refuse",
     "dbError"}

Record == [holder : Containers \cup {NoHolder},
           status : {"Connected", "TempDisconnected", "Transferring"},
           fresh  : BOOLEAN]   \* LastHeartbeat is within HeartbeatCutoff

ASSUME SessionAssumption ==
    /\ NoConn \notin Conns
    /\ NoHolder \notin Containers
    /\ NoRecord \notin Record
    /\ Faults \subseteq FaultKinds

VARIABLES
    at,       \* at[k]: container that accepted k, NoHolder before that
    new,      \* new[k]: progress of k's onNew hook
    seen,     \* seen[k]: the HolderID that onNew read and is about to resume
    waits,    \* waits[k]: connection whose Close the onNew hook of k runs inline
    close,    \* close[k]: progress of k's Close and onClose hook
    cm,       \* cm[c]: ConnectionManager entry
    rec,      \* ActiveConnection record
    reg,      \* reg[c]: MessageHub registry entry (its generation)
    timer,    \* timer[k]: the ExpiredTimer of k's registration
    net,      \* net[c]: pubsub messages on their way to c
    busy,     \* busy[c]: connection c's subscription goroutine is closing
    phase,    \* phase[c]: progress of the container's shutdown
    hubDown   \* containers whose MessageHub was shut down

hooks == <<at, new, seen, waits, close>>
hub == <<reg, timer, hubDown>>
vars == <<hooks, cm, rec, hub, net, busy, phase>>

Init ==
    /\ at = [k \in Conns |-> NoHolder]
    /\ new = [k \in Conns |-> "none"]
    /\ seen = [k \in Conns |-> NoHolder]
    /\ waits = [k \in Conns |-> NoConn]
    /\ close = [k \in Conns |-> "none"]
    /\ cm = [c \in Containers |-> NoConn]
    /\ rec = NoRecord
    /\ reg = [c \in Containers |-> NoConn]
    /\ timer = [k \in Conns |-> "off"]
    /\ net = [c \in Containers |-> << >>]
    /\ busy = [c \in Containers |-> NoConn]
    /\ phase = [c \in Containers |-> "run"]
    /\ hubDown = {}
-----------------------------------------------------------------------------
(* State predicates *)

\* onNew is between its first and its last step.
Connecting(k) == new[k] \notin {"none", "open", "failed"}

\* onClose is between its first and its last step.
Closing(k) == close[k] \notin {"none", "done"}

\* Served: onNew is through and nobody closed the connection.
Live(k) == new[k] = "open" /\ close[k] = "none"

\* The connection is over for good.
Ended(k) ==
    /\ ~Connecting(k)
    /\ close[k] = "done" \/ (new[k] = "failed" /\ close[k] = "none")

\* GetInstanceConnection: a record without a recent heartbeat is not found.
Visible == rec # NoRecord /\ rec.fresh

\* Close() called on k by someone: the CAS lets only the first one through.
CloseOn(k, cl) == IF cl[k] = "none" THEN [cl EXCEPT ![k] = "remove"] ELSE cl

\* A message for c is delivered unless c has unsubscribed.
Publish(c, msg) ==
    net' = IF phase[c] = "run" THEN [net EXCEPT ![c] = Append(@, msg)] ELSE net

\* cancel() of a registration's context.  If the timer has already elapsed the
\* goroutine's select may still pick the timer, which then wins.
Cancelled(k, t) ==
    IF k # NoConn /\ t[k] = "armed" THEN [t EXCEPT ![k] = "off"] ELSE t

\* Mutant: the entry goes, its timer keeps running.
DeregisterKeepsTimer(c) ==
    /\ reg' = [reg EXCEPT ![c] = NoConn]
    /\ UNCHANGED timer

Deregister(c) ==
    /\ reg' = [reg EXCEPT ![c] = NoConn]
    /\ timer' = Cancelled(reg[c], timer)
-----------------------------------------------------------------------------
(* onNew *)

\* The endpoint upgraded the request; from here on the peer can hang up.
Accept(k, c) ==
    /\ new[k] = "none"
    /\ phase[c] = "run"
    /\ "overlap" \in Faults \/ \A j \in Conns : new[j] # "none" => Ended(j)
    /\ "race" \in Faults \/ \A j \in Conns : timer[j] \notin {"elapsed", "expiring"}
    /\ "delay" \in Faults \/ \A d \in Containers : net[d] = << >>
    /\ at' = [at EXCEPT ![k] = c]
    /\ new' = [new EXCEPT ![k] = "dedup"]
    /\ UNCHANGED <<seen, waits, close, cm, rec, hub, net, busy, phase>>

\* Close a stale connection of the session on this container, and wait for the
\* Close to return: its onClose runs in this goroutine if its CAS succeeds.
CloseDuplicate(k) ==
    LET old == cm[at[k]] IN
    /\ new[k] = "dedup"
    /\ new' = [new EXCEPT ![k] = "lookup"]
    /\ IF old # NoConn /\ close[old] = "none"
       THEN /\ close' = CloseOn(old, close)
            /\ waits' = [waits EXCEPT ![k] = old]
       ELSE UNCHANGED <<close, waits>>
    /\ UNCHANGED <<at, seen, cm, rec, hub, net, busy, phase>>

InlineCloseDone(k) == \A j \in Conns : waits[k] = j => close[j] = "done"

\* GetInstanceConnection and the switch on the status it finds.  A failing
\* read is treated like a missing record.
LookupPrevious(k) ==
    /\ new[k] = "lookup"
    /\ InlineCloseDone(k)
    /\ waits' = [waits EXCEPT ![k] = NoConn]
    /\ \/ /\ Visible
          /\ seen' = IF rec.status = "TempDisconnected"
                     THEN [seen EXCEPT ![k] = rec.holder] ELSE seen
          /\ new' = [new EXCEPT ![k] =
                       CASE rec.status = "Connected" -> "disconnect"
                         [] rec.status = "TempDisconnected" -> "resume"
                         [] rec.status = "Transferring" -> "upsert"]
       \/ /\ ~Visible \/ "dbError" \in Faults
          /\ new' = [new EXCEPT ![k] = "upsert"]
          /\ UNCHANGED seen
    /\ UNCHANGED <<at, close, cm, rec, hub, net, busy, phase>>

\* DisconnectSession, first half of findSessionConn: a connection in memory.
DisconnectLocal(k) ==
    LET other == cm[at[k]] IN
    /\ new[k] = "disconnect"
    /\ IF other = NoConn
       THEN /\ new' = [new EXCEPT ![k] = "disconnectRemote"]
            /\ UNCHANGED <<close, waits>>
       ELSE /\ new' = [new EXCEPT ![k] = "upsert"]
            /\ close' = CloseOn(other, close)
            /\ waits' = [waits EXCEPT ![k] = IF close[other] = "none" THEN other ELSE NoConn]
    /\ UNCHANGED <<at, seen, cm, rec, hub, net, busy, phase>>

\* Second half: the record is read again and its holder is told to disconnect.
DisconnectRemote(k) ==
    /\ new[k] = "disconnectRemote"
    /\ new' = [new EXCEPT ![k] = "upsert"]
    /\ IF Visible /\ rec.holder # NoHolder
       THEN Publish(rec.holder, "disconnect")
       ELSE UNCHANGED net
    /\ UNCHANGED <<at, seen, waits, close, cm, rec, hub, busy, phase>>

\* ResumeSession: cancel the old registration here, or tell its holder to.
ResumeSession(k) ==
    /\ new[k] = "resume"
    /\ new' = [new EXCEPT ![k] = "upsert"]
    /\ IF seen[k] = at[k]
       THEN Deregister(at[k]) /\ UNCHANGED net
       ELSE /\ UNCHANGED <<reg, timer>>
            /\ IF seen[k] = NoHolder THEN UNCHANGED net ELSE Publish(seen[k], "resume")
    /\ seen' = [seen EXCEPT ![k] = NoHolder]
    /\ UNCHANGED <<at, waits, close, cm, rec, hubDown, busy, phase>>

\* Mutant: the upsert keeps the holder of an existing record.
UpsertKeepsHolder(k) ==
    /\ new[k] = "upsert"
    /\ InlineCloseDone(k)
    /\ waits' = [waits EXCEPT ![k] = NoConn]
    /\ rec' = [holder |-> IF rec = NoRecord THEN at[k] ELSE rec.holder,
               status |-> "Connected", fresh |-> TRUE]
    /\ new' = [new EXCEPT ![k] = "add"]
    /\ UNCHANGED <<at, seen, close, cm, hub, net, busy, phase>>

\* AddConnection: the upsert claims the session for this container.  When it
\* fails onNew fails: the WebSocket endpoint closes the connection, the
\* long-polling endpoint just drops it.
UpsertRecord(k) ==
    /\ new[k] = "upsert"
    /\ InlineCloseDone(k)
    /\ waits' = [waits EXCEPT ![k] = NoConn]
    /\ \/ /\ rec' = [holder |-> at[k], status |-> "Connected", fresh |-> TRUE]
          /\ new' = [new EXCEPT ![k] = "add"]
          /\ UNCHANGED close
       \/ /\ "dbError" \in Faults
          /\ new' = [new EXCEPT ![k] = "failed"]
          /\ close' \in {close, CloseOn(k, close)}
          /\ UNCHANGED rec
    /\ UNCHANGED <<at, seen, cm, hub, net, busy, phase>>

\* BeginDrain, ConnectionManager.AddConnection, rateLimiter.New.
AddToManager(k) ==
    /\ new[k] = "add"
    /\ new' = [new EXCEPT ![k] = "drain"]
    /\ cm' = [cm EXCEPT ![at[k]] = k]
    /\ UNCHANGED <<at, seen, waits, close, rec, hub, net, busy, phase>>

\* Consume, SendDirect of what was pending, EndDrain.
FinishOnNew(k) ==
    /\ new[k] = "drain"
    /\ new' = [new EXCEPT ![k] = "open"]
    /\ UNCHANGED <<at, seen, waits, close, cm, rec, hub, net, busy, phase>>
-----------------------------------------------------------------------------
(* Close and onClose *)

\* The peer hangs up, a read fails, or a ping is not answered.
PeerClose(k) ==
    /\ new[k] # "none" /\ close[k] = "none"
    /\ "earlyClose" \in Faults \/ ~Connecting(k)
    /\ "shutdownRace" \in Faults \/ phase[at[k]] = "run"
    /\ close' = CloseOn(k, close)
    /\ UNCHANGED <<at, new, seen, waits, cm, rec, hub, net, busy, phase>>

\* ConnectionManager.RemoveConnection(auth), whichever connection is there,
\* rateLimiter.Remove, and the early return of a container shutting down.
RemoveFromManager(k) ==
    /\ close[k] = "remove"
    /\ cm' = [cm EXCEPT ![at[k]] = NoConn]
    /\ close' = [close EXCEPT ![k] =
                   IF phase[at[k]] \in {"run", "unsubscribed"} THEN "status" ELSE "done"]
    /\ UNCHANGED <<at, new, seen, waits, rec, hub, net, busy, phase>>

\* UpdateStatus(TempDisconnected): only the status, whoever holds the session.
UpdateStatus(k) ==
    /\ close[k] = "status"
    /\ \/ /\ rec' = IF rec = NoRecord THEN rec
                    ELSE [rec EXCEPT !.status = "TempDisconnected"]
          /\ close' = [close EXCEPT ![k] = "register"]
       \/ /\ "dbError" \in Faults  \* fall back to RemoveConnection
          /\ rec' \in {rec, NoRecord}
          /\ close' = [close EXCEPT ![k] = "done"]
    /\ UNCHANGED <<at, new, seen, waits, cm, hub, net, busy, phase>>

\* MessageHub.Register: replaces and cancels an older entry, starts the timer
\* on the worker pool; a refused Submit is ignored.
Register(k) ==
    /\ close[k] = "register"
    /\ close' = [close EXCEPT ![k] = "done"]
    /\ reg' = [reg EXCEPT ![at[k]] = k]
    /\ \/ timer' = [Cancelled(reg[at[k]], timer) EXCEPT ![k] = "armed"]
       \/ "refuse" \in Faults /\ timer' = [Cancelled(reg[at[k]], timer) EXCEPT ![k] = "refused"]
    /\ UNCHANGED <<at, new, seen, waits, cm, rec, hubDown, net, busy, phase>>
-----------------------------------------------------------------------------
(* The ExpiredTimer goroutine *)

TimerElapses(k) ==
    /\ timer[k] = "armed"
    /\ \/ "race" \in Faults
       \/ /\ phase[at[k]] = "run"
          /\ \A j \in Conns : ~Connecting(j)
          /\ \A c \in Containers : net[c] = << >>
    /\ timer' = [timer EXCEPT ![k] = "elapsed"]
    /\ UNCHANGED <<hooks, cm, rec, reg, hubDown, net, busy, phase>>

\* Mutant: the expired entry stays in the registry.
ExpireKeepsEntry(k) ==
    /\ timer[k] = "elapsed"
    /\ timer' = [timer EXCEPT ![k] = "expiring"]
    /\ UNCHANGED <<hooks, cm, rec, reg, hubDown, net, busy, phase>>

\* case <-timer.C: the entry goes only if it is still this generation's, but
\* onExpired is called in any case.
ExpireEntry(k) ==
    /\ timer[k] = "elapsed"
    /\ timer' = [timer EXCEPT ![k] = "expiring"]
    /\ reg' = IF reg[at[k]] = k THEN [reg EXCEPT ![at[k]] = NoConn] ELSE reg
    /\ UNCHANGED <<hooks, cm, rec, hubDown, net, busy, phase>>

\* case <-ctx.Done(), both being ready.
CancelWins(k) ==
    /\ timer[k] = "elapsed"
    /\ reg[at[k]] # k
    /\ timer' = [timer EXCEPT ![k] = "off"]
    /\ UNCHANGED <<hooks, cm, rec, reg, hubDown, net, busy, phase>>

\* Mutant: onExpired forgets the record.
OnExpiredKeepsRecord(k) ==
    /\ timer[k] = "expiring"
    /\ timer' = [timer EXCEPT ![k] = "off"]
    /\ UNCHANGED <<hooks, cm, rec, reg, hubDown, net, busy, phase>>

\* onExpired: RemoveConnection, whoever holds the session (and the purge of
\* its pending messages).
OnExpired(k) ==
    /\ timer[k] = "expiring"
    /\ timer' = [timer EXCEPT ![k] = "off"]
    /\ rec' \in {NoRecord} \cup (IF "dbError" \in Faults THEN {rec} ELSE {})
    /\ UNCHANGED <<hooks, cm, reg, hubDown, net, busy, phase>>
-----------------------------------------------------------------------------
(* The subscription goroutine: one message at a time *)

Handling(c, msg) ==
    /\ net[c] # << >> /\ Head(net[c]) = msg
    /\ \A k \in Conns : busy[c] = k => close[k] = "done"
    /\ net' = [net EXCEPT ![c] = Tail(@)]

HandleResume(c) ==
    /\ Handling(c, "resume")
    /\ busy' = [busy EXCEPT ![c] = NoConn]
    /\ Deregister(c)
    /\ UNCHANGED <<hooks, cm, rec, hubDown, phase>>

HandleDisconnect(c) ==
    LET conn == cm[c] IN
    /\ Handling(c, "disconnect")
    /\ IF conn # NoConn /\ close[conn] = "none"
       THEN /\ close' = CloseOn(conn, close)
            /\ busy' = [busy EXCEPT ![c] = conn]
       ELSE /\ busy' = [busy EXCEPT ![c] = NoConn]
            /\ UNCHANGED close
    /\ UNCHANGED <<at, new, seen, waits, cm, rec, hub, phase>>

LoseMessage(c) ==
    /\ "loss" \in Faults
    /\ net[c] # << >>
    /\ net' = [net EXCEPT ![c] = Tail(@)]
    /\ UNCHANGED <<hooks, cm, rec, hub, busy, phase>>
-----------------------------------------------------------------------------
(* Heartbeats *)

\* A heartbeat frame, possibly read while the connection is being closed.
UpdateHeartBeat(k) ==
    /\ new[k] = "open" /\ close[k] # "done"
    /\ rec # NoRecord /\ ~rec.fresh
    /\ rec' = [rec EXCEPT !.fresh = TRUE]
    /\ UNCHANGED <<hooks, cm, hub, net, busy, phase>>

\* HeartbeatCutoff, a configured time, passes without a heartbeat.
HeartbeatLapses ==
    /\ "lapse" \in Faults
    /\ rec # NoRecord /\ rec.fresh
    /\ rec' = [rec EXCEPT !.fresh = FALSE]
    /\ UNCHANGED <<hooks, cm, hub, net, busy, phase>>

\* CleanUpExpiredConnections, called by the embedding application if at all.
\* It goes by the TTL, a fixed time after the last heartbeat that may be shorter
\* or longer than HeartbeatCutoff: the record may be fresh or not.
CleanUpExpired ==
    /\ "lapse" \in Faults
    /\ rec # NoRecord
    /\ rec' = NoRecord
    /\ UNCHANGED <<hooks, cm, hub, net, busy, phase>>
-----------------------------------------------------------------------------
(* Graceful shutdown of a container; the tasks run one after the other *)

Unsubscribe(c) ==
    /\ phase[c] = "run"
    /\ \/ "shutdownRace" \in Faults
       \/ \A k \in Conns : at[k] = c => ~Connecting(k) /\ ~Closing(k)
    /\ phase' = [phase EXCEPT ![c] = "unsubscribed"]
    /\ net' = [net EXCEPT ![c] = << >>]
    /\ UNCHANGED <<hooks, cm, rec, hub, busy>>

MarkShuttingDown(c) ==
    /\ phase[c] = "unsubscribed"
    /\ phase' = [phase EXCEPT ![c] = "marked"]
    /\ UNCHANGED <<hooks, cm, rec, hub, net, busy>>

\* Mutant: the connections are closed before they are handed over.
ListConnectionsSkipsTransfer(c) ==
    /\ phase[c] = "marked"
    /\ phase' = [phase EXCEPT ![c] = "closing"]
    /\ UNCHANGED <<hooks, cm, rec, hub, net, busy>>

\* The snapshot of the connections that are to be handed over.
ListConnections(c) ==
    /\ phase[c] = "marked"
    /\ phase' = [phase EXCEPT ![c] = IF cm[c] = NoConn THEN "closing" ELSE "transferring"]
    /\ UNCHANGED <<hooks, cm, rec, hub, net, busy>>

\* Mutant: the holder is not cleared.
TransferKeepsHolder(c) ==
    /\ phase[c] = "transferring"
    /\ phase' = [phase EXCEPT ![c] = "closing"]
    /\ rec' = IF rec = NoRecord THEN rec ELSE [rec EXCEPT !.status = "Transferring"]
    /\ UNCHANGED <<hooks, cm, hub, net, busy>>

\* transitionConnectionToTransferring: status and holder in one statement.
UpdateStatusTransferring(c) ==
    /\ phase[c] = "transferring"
    /\ phase' = [phase EXCEPT ![c] = "closing"]
    /\ \/ rec' = IF rec = NoRecord THEN rec
                 ELSE [rec EXCEPT !.status = "Transferring", !.holder = NoHolder]
       \/ "dbError" \in Faults /\ rec' = rec
    /\ UNCHANGED <<hooks, cm, hub, net, busy>>

CloseAllConnections(c) ==
    /\ phase[c] = "closing"
    /\ phase' = [phase EXCEPT ![c] = "stopped"]
    /\ close' = IF cm[c] = NoConn THEN close ELSE CloseOn(cm[c], close)
    /\ UNCHANGED <<at, new, seen, waits, cm, rec, hub, net, busy>>

\* MessageHub.Shutdown has the same priority as the mediator's: before or after.
HubShutdown(c) ==
    /\ phase[c] \in {"unsubscribed", "stopped"}
    /\ c \notin hubDown
    /\ hubDown' = hubDown \cup {c}
    /\ Deregister(c)
    /\ UNCHANGED <<hooks, cm, rec, net, busy, phase>>
-----------------------------------------------------------------------------
OnNew(k) ==
    \/ CloseDuplicate(k) \/ LookupPrevious(k)
    \/ DisconnectLocal(k) \/ DisconnectRemote(k) \/ ResumeSession(k)
    \/ UpsertRecord(k) \/ AddToManager(k) \/ FinishOnNew(k)

OnClose(k) == RemoveFromManager(k) \/ UpdateStatus(k) \/ Register(k)

Timer(k) == TimerElapses(k) \/ ExpireEntry(k) \/ CancelWins(k) \/ OnExpired(k)

Subscriber(c) == HandleResume(c) \/ HandleDisconnect(c)

ShutdownStep(c) ==
    \/ MarkShuttingDown(c) \/ ListConnections(c) \/ UpdateStatusTransferring(c)
    \/ CloseAllConnections(c) \/ HubShutdown(c)

Next ==
    \/ \E k \in Conns, c \in Containers : Accept(k, c)
    \/ \E k \in Conns : OnNew(k) \/ PeerClose(k) \/ OnClose(k) \/ Timer(k) \/ UpdateHeartBeat(k)
    \/ \E c \in Containers : Subscriber(c) \/ LoseMessage(c) \/ Unsubscribe(c) \/ ShutdownStep(c)
    \/ HeartbeatLapses
    \/ CleanUpExpired

Spec == Init /\ [][Next]_vars

\* Goroutines run, timers elapse, an established subscription delivers, and a
\* shutdown that has begun goes on.  Clients owe nothing: they may stay away.
Fairness ==
    /\ \A k \in Conns : WF_vars(OnNew(k)) /\ WF_vars(OnClose(k)) /\ WF_vars(Timer(k))
    /\ \A c \in Containers : WF_vars(Subscriber(c)) /\ WF_vars(ShutdownStep(c))

FairSpec == Spec /\ Fairness
-----------------------------------------------------------------------------
(* Properties *)

TypeOK ==
    /\ at \in [Conns -> Containers \cup {NoHolder}]
    /\ new \in [Conns -> {"none", "dedup", "lookup", "disconnect", "disconnectRemote",
                          "resume", "upsert", "add", "drain", "open", "failed"}]
    /\ seen \in [Conns -> Containers \cup {NoHolder}]
    /\ waits \in [Conns -> Conns \cup {NoConn}]
    /\ close \in [Conns -> {"none", "remove", "status", "register", "done"}]
    /\ cm \in [Containers -> Conns \cup {NoConn}]
    /\ rec \in Record \cup {NoRecord}
    /\ reg \in [Containers -> Conns \cup {NoConn}]
    /\ timer \in [Conns -> {"off", "armed", "refused", "elapsed", "expiring"}]
    /\ net \in [Containers -> Seq({"resume", "disconnect"})]
    /\ busy \in [Containers -> Conns \cup {NoConn}]
    /\ phase \in [Containers -> {"run", "unsubscribed", "marked", "transferring",
                                 "closing", "stopped"}]
    /\ hubDown \subseteq Containers

Settled ==
    /\ \A k \in Conns : ~Connecting(k) /\ ~Closing(k) /\ timer[k] \notin {"elapsed", "expiring"}
    /\ \A c \in Containers : net[c] = << >> /\ phase[c] \in {"run", "stopped"}

\* An armed ExpiredTimer is always the current registry entry of its container,
\* so ResumeSession, a new registration and Shutdown can reach and cancel it.
ArmedTimerIsRegistered ==
    \A k \in Conns : timer[k] = "armed" => reg[at[k]] = k

\* A registry entry is never left behind: its timer is running or has just
\* elapsed, unless the worker pool refused to run it.
EntryHasTimer ==
    \A c \in Containers : reg[c] # NoConn => timer[reg[c]] \in {"armed", "elapsed", "refused"}

\* Entries of the registry and timers belong together: a timer that is armed can
\* be cancelled through its entry, and no entry outlives its timer.
HubEntriesAreTimed == TypeOK /\ ArmedTimerIsRegistered /\ EntryHasTimer

\* A record that says Connected always names a holder to route to, and one
\* that says Transferring never does, whichever containers wrote it last.
HolderMatchesStatus ==
    rec # NoRecord =>
        /\ rec.status = "Connected" => rec.holder # NoHolder
        /\ rec.status = "Transferring" => rec.holder = NoHolder

\* Once all hooks and messages have settled, a served connection is the one in
\* its container's ConnectionManager and the record routes to it.
LiveSessionIsRoutable ==
    Settled => \A k \in Conns : Live(k) =>
        /\ cm[at[k]] = k
        /\ rec # NoRecord /\ rec.holder = at[k] /\ rec.status = "Connected"

\* Once all has settled, no running container still counts down to remove the
\* record of a session that is being served.
NoTimerOverLiveSession ==
    Settled => \A k, j \in Conns : Live(k) /\ timer[j] = "armed" => phase[at[j]] # "run"

\* The early return of onClose on a container that is shutting down relies on
\* the shutdown having handed the session over: the record it leaves alone is
\* already Transferring.
ShutdownHandsOverBeforeClose ==
    [][\A k \in Conns :
         close[k] = "remove" /\ close'[k] = "done" /\ rec # NoRecord
            => rec.status = "Transferring"]_vars

\* What the MessageHub interface says of Register: onExpired is called when
\* the TTL elapses without reconnect.
ExpiredMeansNoReconnect ==
    \A k \in Conns : timer[k] = "expiring" => \A j \in Conns : ~Live(j)

\* A session nobody serves or reconnects is forgotten: its record goes, unless
\* the pool refused its timer or a shutdown took the timer away.  (A
\* ResumeSession that arrives too late also takes it away: see delay.)  A close
\* that is done stays done, so this is asked after each of them.
AbandonedSessionIsForgotten ==
    <>[](\E k \in Conns : close[k] = "done") =>
        []<>(\/ rec = NoRecord
             \/ \E k \in Conns : Live(k) \/ Connecting(k) \/ timer[k] = "refused"
             \/ \E c \in Containers : phase[c] # "run")
====
