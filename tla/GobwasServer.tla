----------------------------- MODULE GobwasServer -----------------------------
(***************************************************************************)
(* The netpoll WebSocket server of one container: admission of a           *)
(* connection against MaxConnections, the oneshot read cycle, and the      *)
(* removal of a connection that any goroutine may ask for.                 *)
(*                                                                         *)
(* The accept goroutine, the poller, the pool's workers and whoever calls  *)
(* Close share the atomic counters, the closed flag and, under descMu, the *)
(* poll descriptor.                                                        *)
(***************************************************************************)
EXTENDS Integers, FiniteSets

CONSTANTS
    Conns,
    MaxConns    \* ActiveConnection.MaxConnections; 0 disables the cap

ASSUME GobwasAssumption ==
    /\ IsFiniteSet(Conns)
    /\ MaxConns \in Nat

VARIABLES
    acc,          \* acc[k]: progress of NewConnection
    loaded,       \* loaded[k]: the count reserveSlot last loaded
    connections,  \* atomic counter of held slots
    accepted,     \* stats.ConnectionsAccepted
    closedStat,   \* stats.ConnectionsClosed
    closed,       \* closed[k]: the atomic flag of the connection
    removal,      \* removal[k]: progress of removeClient past its CAS
    hasDesc,      \* hasDesc[k]: client.desc # nil
    desc,         \* desc[k]: the descriptor as the poller sees it
    callback,     \* callback[k]: a read event was delivered, callback to run
    reading,      \* reading[k]: read tasks in the pool, waiting or running
    toResume,     \* toResume[k]: goroutines about to call resumeRead
    resuming,     \* resuming[k]: one of them holds descMu, about to Resume
    onClosed      \* onClosed[k]: how often onClose.Do was called

admission == <<acc, loaded>>
counters == <<connections, accepted, closedStat>>
teardown == <<closed, removal, onClosed>>
readCycle == <<callback, reading, toResume, resuming>>
vars == <<admission, counters, teardown, hasDesc, desc, readCycle>>

Init ==
    /\ acc = [k \in Conns |-> "new"]
    /\ loaded = [k \in Conns |-> 0]
    /\ connections = 0
    /\ accepted = 0
    /\ closedStat = 0
    /\ closed = [k \in Conns |-> FALSE]
    /\ removal = [k \in Conns |-> "no"]
    /\ hasDesc = [k \in Conns |-> FALSE]
    /\ desc = [k \in Conns |-> "none"]
    /\ callback = [k \in Conns |-> FALSE]
    /\ reading = [k \in Conns |-> 0]
    /\ toResume = [k \in Conns |-> 0]
    /\ resuming = [k \in Conns |-> FALSE]
    /\ onClosed = [k \in Conns |-> 0]
-----------------------------------------------------------------------------
(* removeClient *)

\* Mutant: the flag is stored without the compare.
CloseAgain(k) ==
    /\ closed' = [closed EXCEPT ![k] = TRUE]
    /\ removal' = [removal EXCEPT ![k] = "closed"]

\* client.Close: only the winner of the CAS goes on to remove the client.
Close(k) ==
    IF closed[k]
    THEN UNCHANGED <<closed, removal>>
    ELSE /\ closed' = [closed EXCEPT ![k] = TRUE]
         /\ removal' = [removal EXCEPT ![k] = "closed"]

CountClosed(k) ==
    /\ removal[k] = "closed"
    /\ removal' = [removal EXCEPT ![k] = "counted"]
    /\ closedStat' = closedStat + 1
    /\ UNCHANGED <<admission, connections, accepted, closed, onClosed, hasDesc, desc, readCycle>>

ReleaseSlot(k) ==
    /\ removal[k] = "counted"
    /\ removal' = [removal EXCEPT ![k] = "released"]
    /\ connections' = connections - 1
    /\ UNCHANGED <<admission, accepted, closedStat, closed, onClosed, hasDesc, desc, readCycle>>

\* The critical section on descMu, which resumeRead may hold.
Detach(k) ==
    /\ removal[k] = "released"
    /\ ~resuming[k]
    /\ removal' = [removal EXCEPT ![k] = "detached"]
    /\ hasDesc' = [hasDesc EXCEPT ![k] = FALSE]
    /\ UNCHANGED <<admission, counters, closed, onClosed, desc, readCycle>>

\* Mutant: the removal ends without calling onClose.
StopPollingSilent(k) ==
    /\ removal[k] = "detached"
    /\ removal' = [removal EXCEPT ![k] = "done"]
    /\ desc' = [desc EXCEPT ![k] = "closed"]
    /\ UNCHANGED <<admission, counters, closed, onClosed, hasDesc, readCycle>>

\* poller.Stop, desc.Close and conn.Close; the fd may now be reused.
StopPolling(k) ==
    /\ removal[k] = "detached"
    /\ removal' = [removal EXCEPT ![k] = "stopped"]
    /\ desc' = [desc EXCEPT ![k] = "closed"]
    /\ UNCHANGED <<admission, counters, closed, onClosed, hasDesc, readCycle>>

NotifyClosed(k) ==
    /\ removal[k] = "stopped"
    /\ removal' = [removal EXCEPT ![k] = "done"]
    /\ onClosed' = [onClosed EXCEPT ![k] = @ + 1]
    /\ UNCHANGED <<admission, counters, closed, hasDesc, desc, readCycle>>

Remove(k) ==
    CountClosed(k) \/ ReleaseSlot(k) \/ Detach(k) \/ StopPolling(k) \/ NotifyClosed(k)

\* Anybody who holds the connection: a duplicate, the shutdown, a failed send,
\* the ping loop, a version mismatch.
CloseCalled(k) ==
    /\ acc[k] = "open"
    /\ Close(k)
    /\ UNCHANGED <<admission, counters, onClosed, hasDesc, desc, readCycle>>
-----------------------------------------------------------------------------
(* NewConnection *)

\* The health gate.
RefuseUnhealthy(k) ==
    /\ acc[k] = "new"
    /\ acc' = [acc EXCEPT ![k] = "failed"]
    /\ UNCHANGED <<loaded, counters, teardown, hasDesc, desc, readCycle>>

\* reserveSlot, the load; without a cap it is one atomic add.
LoadConnections(k) ==
    /\ acc[k] \in {"new", "retry"}
    /\ loaded' = [loaded EXCEPT ![k] = connections]
    /\ IF MaxConns = 0
       THEN /\ acc' = [acc EXCEPT ![k] = "slot"]
            /\ connections' = connections + 1
       ELSE /\ acc' = [acc EXCEPT ![k] = IF connections >= MaxConns THEN "failed" ELSE "swap"]
            /\ UNCHANGED connections
    /\ UNCHANGED <<accepted, closedStat, teardown, hasDesc, desc, readCycle>>

\* Mutant: check then increment.
SwapConnectionsBlind(k) ==
    /\ acc[k] = "swap"
    /\ acc' = [acc EXCEPT ![k] = "slot"]
    /\ connections' = connections + 1
    /\ UNCHANGED <<loaded, accepted, closedStat, teardown, hasDesc, desc, readCycle>>

\* reserveSlot, the compare-and-swap.
SwapConnections(k) ==
    /\ acc[k] = "swap"
    /\ IF connections = loaded[k]
       THEN /\ acc' = [acc EXCEPT ![k] = "slot"]
            /\ connections' = connections + 1
       ELSE /\ acc' = [acc EXCEPT ![k] = "retry"]
            /\ UNCHANGED connections
    /\ UNCHANGED <<loaded, accepted, closedStat, teardown, hasDesc, desc, readCycle>>

\* tcpConn.File fails.
FileFails(k) ==
    /\ acc[k] = "slot"
    /\ acc' = [acc EXCEPT ![k] = "failed"]
    /\ connections' = connections - 1
    /\ UNCHANGED <<loaded, accepted, closedStat, teardown, hasDesc, desc, readCycle>>

CountAccepted(k) ==
    /\ acc[k] = "slot"
    /\ acc' = [acc EXCEPT ![k] = "accepted"]
    /\ accepted' = accepted + 1
    /\ UNCHANGED <<loaded, connections, closedStat, teardown, hasDesc, desc, readCycle>>

\* netpoll.HandleReadOnce fails: close, releaseSlot, count as closed.
DescFails(k) ==
    /\ acc[k] = "accepted"
    /\ acc' = [acc EXCEPT ![k] = "failed"]
    /\ connections' = connections - 1
    /\ closedStat' = closedStat + 1
    /\ UNCHANGED <<loaded, accepted, teardown, hasDesc, desc, readCycle>>

DescCreated(k) ==
    /\ acc[k] = "accepted"
    /\ acc' = [acc EXCEPT ![k] = "desc"]
    /\ hasDesc' = [hasDesc EXCEPT ![k] = TRUE]
    /\ desc' = [desc EXCEPT ![k] = "idle"]
    /\ UNCHANGED <<loaded, counters, teardown, readCycle>>

\* poller.Start succeeds: from here events arrive, even before the caller's
\* onNew has run.
StartPolling(k) ==
    /\ acc[k] = "desc"
    /\ acc' = [acc EXCEPT ![k] = "open"]
    /\ desc' = [desc EXCEPT ![k] = "armed"]
    /\ UNCHANGED <<loaded, counters, teardown, hasDesc, readCycle>>

\* poller.Start fails: the slot is left to removeClient.
StartFails(k) ==
    /\ acc[k] = "desc"
    /\ acc' = [acc EXCEPT ![k] = "startFailed"]
    /\ Close(k)
    /\ UNCHANGED <<loaded, counters, onClosed, hasDesc, desc, readCycle>>

NewConnection(k) ==
    \/ RefuseUnhealthy(k)
    \/ LoadConnections(k) \/ SwapConnections(k)
    \/ FileFails(k) \/ CountAccepted(k)
    \/ DescFails(k) \/ DescCreated(k)
    \/ StartPolling(k) \/ StartFails(k)
-----------------------------------------------------------------------------
(* The read cycle *)

\* epoll delivers one event and disarms the oneshot descriptor.
PollFires(k) ==
    /\ desc[k] = "armed"
    /\ desc' = [desc EXCEPT ![k] = "fired"]
    /\ callback' = [callback EXCEPT ![k] = TRUE]
    /\ UNCHANGED <<admission, counters, teardown, hasDesc, reading, toResume, resuming>>

\* The callback with EventReadHup.
CallbackHup(k) ==
    /\ callback[k]
    /\ callback' = [callback EXCEPT ![k] = FALSE]
    /\ Close(k)
    /\ UNCHANGED <<admission, counters, onClosed, hasDesc, desc, reading, toResume, resuming>>

\* Mutant: the callback re-arms the descriptor as soon as the read is queued.
HandleClientDataRearms(k, submitted) ==
    /\ callback[k]
    /\ callback' = [callback EXCEPT ![k] = FALSE]
    /\ reading' = [reading EXCEPT ![k] = IF submitted THEN @ + 1 ELSE @]
    /\ toResume' = [toResume EXCEPT ![k] = @ + 1]
    /\ UNCHANGED <<admission, counters, teardown, hasDesc, desc, resuming>>

\* handleClientData: the pool takes the read, or a goroutine re-arms at once.
HandleClientData(k, submitted) ==
    /\ callback[k]
    /\ callback' = [callback EXCEPT ![k] = FALSE]
    /\ IF submitted
       THEN reading' = [reading EXCEPT ![k] = @ + 1] /\ UNCHANGED toResume
       ELSE toResume' = [toResume EXCEPT ![k] = @ + 1] /\ UNCHANGED reading
    /\ UNCHANGED <<admission, counters, teardown, hasDesc, desc, resuming>>

\* processClientMessage.  On EOF, a protocol error or a close frame it closes
\* the client; its resumeRead then finds the closed flag set.
ProcessClientMessage(k, closes) ==
    /\ reading[k] > 0
    /\ reading' = [reading EXCEPT ![k] = @ - 1]
    /\ toResume' = [toResume EXCEPT ![k] = @ + 1]
    /\ IF closes THEN Close(k) ELSE UNCHANGED <<closed, removal>>
    /\ UNCHANGED <<admission, counters, onClosed, hasDesc, desc, callback, resuming>>

\* resumeRead: lock descMu and look.
ResumeReadChecks(k) ==
    /\ toResume[k] > 0
    /\ ~resuming[k]
    /\ toResume' = [toResume EXCEPT ![k] = @ - 1]
    /\ resuming' = [resuming EXCEPT ![k] = ~closed[k] /\ hasDesc[k]]
    /\ UNCHANGED <<admission, counters, teardown, hasDesc, desc, callback, reading>>

\* resumeRead: poller.Resume, still under descMu.
ResumeReadRearms(k) ==
    /\ resuming[k]
    /\ resuming' = [resuming EXCEPT ![k] = FALSE]
    /\ desc' = [desc EXCEPT ![k] = "armed"]
    /\ UNCHANGED <<admission, counters, teardown, hasDesc, callback, reading, toResume>>

ResumeRead(k) == ResumeReadChecks(k) \/ ResumeReadRearms(k)

Callback(k) == CallbackHup(k) \/ \E submitted \in BOOLEAN : HandleClientData(k, submitted)
-----------------------------------------------------------------------------
Next ==
    \E k \in Conns :
        \/ NewConnection(k)
        \/ Remove(k)
        \/ CloseCalled(k)
        \/ PollFires(k)
        \/ Callback(k)
        \/ \E closes \in BOOLEAN : ProcessClientMessage(k, closes)
        \/ ResumeRead(k)

Spec == Init /\ [][Next]_vars

\* Goroutines that need nothing from the peer get to run: the removal, the
\* poller's callback and resumeRead.  A read may wait for the peer for ever.
Fairness ==
    \A k \in Conns : WF_vars(Remove(k)) /\ WF_vars(Callback(k)) /\ WF_vars(ResumeRead(k))

FairSpec == Spec /\ Fairness
-----------------------------------------------------------------------------
(* Properties *)

TypeOK ==
    /\ acc \in [Conns -> {"new", "retry", "swap", "slot", "accepted", "desc", "open",
                          "failed", "startFailed"}]
    /\ loaded \in [Conns -> Nat]
    /\ connections \in Nat
    /\ accepted \in Nat
    /\ closedStat \in Nat
    /\ closed \in [Conns -> BOOLEAN]
    /\ removal \in [Conns -> {"no", "closed", "counted", "released", "detached", "stopped", "done"}]
    /\ hasDesc \in [Conns -> BOOLEAN]
    /\ desc \in [Conns -> {"none", "idle", "armed", "fired", "closed"}]
    /\ callback \in [Conns -> BOOLEAN]
    /\ reading \in [Conns -> Nat]
    /\ toResume \in [Conns -> Nat]
    /\ resuming \in [Conns -> BOOLEAN]
    /\ onClosed \in [Conns -> Nat]

\* The cap is exact: however many accepts race at the limit, the container
\* never holds more than MaxConnections slots.
SlotCap == MaxConns # 0 => connections <= MaxConns

Holding ==
    {k \in Conns : /\ acc[k] \in {"slot", "accepted", "desc", "open", "startFailed"}
                   /\ removal[k] \in {"no", "closed", "counted"}}

\* The counter is the number of connections that hold a slot: each failure
\* path of NewConnection and each removal gives back exactly one slot.
SlotsBalance == connections = Cardinality(Holding)

\* Slots are exact: never more than the cap, and held by whom they count.
SlotsExact == SlotCap /\ SlotsBalance

\* At rest the three counters that PrintStats shows agree.
CountersAgree ==
    (\A k \in Conns : /\ acc[k] \in {"new", "open", "failed", "startFailed"}
                      /\ removal[k] \in {"no", "done"})
        => connections = accepted - closedStat

\* At most one goroutine reads a connection, and none while epoll can fire.
OneReader ==
    \A k \in Conns : reading[k] <= 1 /\ (desc[k] = "armed" => reading[k] = 0)

\* Resume is never applied to a descriptor that was stopped and closed, whose
\* fd may already belong to another connection.
ResumeOnLiveDesc == \A k \in Conns : resuming[k] => desc[k] # "closed"

\* Reads are handed over without a gap: the two properties above, which the
\* oneshot descriptor, the pool task and descMu keep together.
ReadIsSafe == OneReader /\ ResumeOnLiveDesc

\* The close callback, which moves the session to TempDisconnected, runs at
\* most once per connection however many goroutines call Close.
OnCloseOnce == \A k \in Conns : onClosed[k] <= 1

\* A read the pool refused is not lost: an open connection whose oneshot event
\* was consumed is armed again, read, or closed.
ReadIsResumed ==
    \A k \in Conns :
        desc[k] = "fired" /\ reading[k] = 0 ~> desc[k] = "armed" \/ reading[k] > 0 \/ closed[k]

\* A connection somebody closed is removed to the end: slot released, polling
\* stopped and the close callback called.  (closed is never reset.)
ClosedIsRemoved == \A k \in Conns : <>[]closed[k] => []<>(onClosed[k] = 1)

\* A connection never hangs between its steps: the two properties above.
ConnectionsMoveOn == ReadIsResumed /\ ClosedIsRemoved
=============================================================================
