--------------------------- MODULE Session_proofs ---------------------------
(***************************************************************************)
(* Proofs of the properties of Session, for any number of containers and   *)
(* of connections.                                                         *)
(*                                                                         *)
(* Three invariants, each under the faults it can bear.  IInv holds under  *)
(* all of them and ties the registry to its timers.  SeqInv holds while    *)
(* connections follow each other and no database call fails.  CalmInv      *)
(* holds in a calm environment, where nothing goes wrong but that the      *)
(* worker pool refuses a timer's task or that a ResumeSession message is   *)
(* late: every step of the hooks finds what the steps before it have       *)
(* written, and every timer of a running container has a session that is   *)
(* away or a message under way that cancels it.                            *)
(***************************************************************************)
EXTENDS Session, TLAPS

\* A leaf that names no prover is tried with these, in this order.
USE SMTT(20), ZenonT(30), Z3T(30)

-----------------------------------------------------------------------------
(* Under all faults *)

\* Hooks and timers belong to connections that were accepted; a timer is
\* started by the last step of onClose.
OpenedBeforeUse ==
    \A k \in Conns :
        /\ new[k] = "none" => close[k] = "none"
        /\ new[k] # "none" => at[k] \in Containers
        /\ timer[k] # "off" => close[k] = "done"

\* The entries of a container are connections that it accepted.
EntriesAreLocal ==
    \A c \in Containers :
        /\ cm[c] # NoConn => new[cm[c]] # "none" /\ at[cm[c]] = c
        /\ reg[c] # NoConn => at[reg[c]] = c

IInv == HubEntriesAreTimed /\ OpenedBeforeUse /\ EntriesAreLocal /\ HolderMatchesStatus

-----------------------------------------------------------------------------
(* With one connection at a time *)

Sequential == Faults \cap {"overlap", "shutdownRace", "dbError"} = {}

\* No two connections of the session are under way.
OneAtATime ==
    /\ \A k \in Conns : new[k] # "failed"
    /\ \A j, k \in Conns : j # k /\ new[j] # "none" /\ new[k] # "none" => Ended(j) \/ Ended(k)

\* No connection is to be found through the record.
NotRouted == rec = NoRecord \/ rec.status = "Transferring"

\* A container that shuts down has nothing in progress but the closing of the
\* connection that it has handed over.
QuietShutdown ==
    /\ \A c \in Containers : phase[c] # "run" => net[c] = << >>
    /\ \A k \in Conns : new[k] # "none" /\ phase[at[k]] # "run" =>
          /\ ~Connecting(k)
          /\ close[k] \in {"none", "remove", "done"}
          /\ close[k] = "remove" => phase[at[k]] = "stopped" /\ NotRouted

\* What is still in the ConnectionManager when connections are closed was
\* handed over.
HandedOverFirst ==
    \A c \in Containers :
        phase[c] = "closing" /\ cm[c] # NoConn /\ close[cm[c]] = "none" => NotRouted

SeqInv == IInv /\ OneAtATime /\ QuietShutdown /\ HandedOverFirst

-----------------------------------------------------------------------------
(* Types *)

\* The absence of a connection is not one.
LEMMA NeverNoConn == \A k \in Conns : k # NoConn
BY SessionAssumption, Zenon

\* Close changes nothing but the progress of onClose.
LEMMA CloseOnType ==
    ASSUME TypeOK, NEW k \in Conns
    PROVE  /\ CloseOn(k, close) \in [Conns -> {"none", "remove", "status", "register", "done"}]
           /\ \A j \in Conns : /\ close[j] = "done" => CloseOn(k, close)[j] = "done"
                               /\ CloseOn(k, close)[j] = "none" => close[j] = "none"
                               /\ j # k => CloseOn(k, close)[j] = close[j]
BY Zenon DEF TypeOK, CloseOn

\* A published message goes to a queue or nowhere.
LEMMA PublishType ==
    ASSUME TypeOK, NEW c \in Containers, NEW msg \in {"resume", "disconnect"}, Publish(c, msg)
    PROVE  net' \in [Containers -> Seq({"resume", "disconnect"})]
BY DEF TypeOK, Publish

\* cancel() stops a timer that is armed and touches no other.
LEMMA CancelledType ==
    ASSUME TypeOK, NEW k \in Conns \cup {NoConn}
    PROVE  /\ Cancelled(k, timer) \in [Conns -> {"off", "armed", "refused", "elapsed", "expiring"}]
           /\ \A j \in Conns : /\ j # k => Cancelled(k, timer)[j] = timer[j]
                               /\ Cancelled(k, timer)[j] \in {timer[j], "off"}
           /\ k \in Conns => Cancelled(k, timer)[k] # "armed"
BY SessionAssumption, ZenonT(40), SMTT(30) DEF TypeOK, Cancelled

\* A statement on the record writes the fields it names.
LEMMA RecordWrites ==
    ASSUME TypeOK, rec # NoRecord
    PROVE  /\ rec \in Record /\ rec.holder \in Containers \cup {NoHolder}
           /\ rec.status \in {"Connected", "TempDisconnected", "Transferring"}
           /\ LET away == [rec EXCEPT !.status = "TempDisconnected"] IN
              /\ away \in Record
              /\ away.status = "TempDisconnected" /\ away.holder = rec.holder /\ away.fresh = rec.fresh
           /\ LET moving == [rec EXCEPT !.status = "Transferring", !.holder = NoHolder] IN
              /\ moving \in Record
              /\ moving.status = "Transferring" /\ moving.holder = NoHolder /\ moving.fresh = rec.fresh
           /\ LET beat == [rec EXCEPT !.fresh = TRUE] IN
              beat \in Record /\ beat.status = rec.status /\ beat.holder = rec.holder
           /\ LET late == [rec EXCEPT !.fresh = FALSE] IN
              late \in Record /\ late.status = rec.status /\ late.holder = rec.holder
<1>1. rec \in Record
  BY Zenon DEF TypeOK
<1>2. /\ rec.holder \in Containers \cup {NoHolder}
      /\ rec.status \in {"Connected", "TempDisconnected", "Transferring"}
  BY <1>1, Zenon DEF Record
<1>3. LET away == [rec EXCEPT !.status = "TempDisconnected"] IN
      /\ away \in Record
      /\ away.status = "TempDisconnected" /\ away.holder = rec.holder /\ away.fresh = rec.fresh
  BY <1>1, Zenon DEF Record
<1>4. LET moving == [rec EXCEPT !.status = "Transferring", !.holder = NoHolder] IN
      /\ moving \in Record
      /\ moving.status = "Transferring" /\ moving.holder = NoHolder /\ moving.fresh = rec.fresh
  BY <1>1, Zenon DEF Record
<1>5. LET beat == [rec EXCEPT !.fresh = TRUE] IN
      beat \in Record /\ beat.status = rec.status /\ beat.holder = rec.holder
  BY <1>1, Zenon DEF Record
<1>6. LET late == [rec EXCEPT !.fresh = FALSE] IN
      late \in Record /\ late.status = rec.status /\ late.holder = rec.holder
  BY <1>1, Zenon DEF Record
<1> QED
  BY <1>1, <1>2, <1>3, <1>4, <1>5, <1>6, Zenon

\* What onNew finds decides what it does next.
LEMMA LookupOutcome ==
    ASSUME TypeOK, NEW k \in Conns, LookupPrevious(k)
    PROVE  \E step \in {"disconnect", "resume", "upsert"} :
             /\ new' = [new EXCEPT ![k] = step]
             /\ step = "disconnect" => Visible /\ rec.status = "Connected"
             /\ step = "resume" => Visible /\ rec.status = "TempDisconnected"
             /\ step = "upsert" =>
                   ~Visible \/ rec.status = "Transferring" \/ "dbError" \in Faults
             /\ seen' = IF step = "resume" THEN [seen EXCEPT ![k] = rec.holder] ELSE seen
<1>1. CASE /\ ~Visible \/ "dbError" \in Faults
           /\ new' = [new EXCEPT ![k] = "upsert"]
           /\ UNCHANGED seen
  BY <1>1, Zenon
<1>2. CASE /\ Visible
           /\ seen' = IF rec.status = "TempDisconnected"
                      THEN [seen EXCEPT ![k] = rec.holder] ELSE seen
           /\ new' = [new EXCEPT ![k] =
                        CASE rec.status = "Connected" -> "disconnect"
                          [] rec.status = "TempDisconnected" -> "resume"
                          [] rec.status = "Transferring" -> "upsert"]
  <2>1. rec.status \in {"Connected", "TempDisconnected", "Transferring"}
    BY <1>2, Zenon DEF TypeOK, Record, Visible
  <2>2. CASE rec.status = "Connected"
    <3>1. (CASE rec.status = "Connected" -> "disconnect"
             [] rec.status = "TempDisconnected" -> "resume"
             [] rec.status = "Transferring" -> "upsert") = "disconnect"
      BY <2>2, Zenon
    <3> QED
      BY <1>2, <2>2, <3>1, Zenon
  <2>3. CASE rec.status = "TempDisconnected"
    <3>1. (CASE rec.status = "Connected" -> "disconnect"
             [] rec.status = "TempDisconnected" -> "resume"
             [] rec.status = "Transferring" -> "upsert") = "resume"
      BY <2>3, Zenon
    <3> QED
      BY <1>2, <2>3, <3>1, Zenon
  <2>4. CASE rec.status = "Transferring"
    <3>1. (CASE rec.status = "Connected" -> "disconnect"
             [] rec.status = "TempDisconnected" -> "resume"
             [] rec.status = "Transferring" -> "upsert") = "upsert"
      BY <2>4, Zenon
    <3> QED
      BY <1>2, <2>4, <3>1, Zenon
  <2> QED
    BY <2>1, <2>2, <2>3, <2>4, Zenon
<1> QED
  BY <1>1, <1>2, Zenon DEF LookupPrevious

\* Every step keeps the types.
LEMMA TypeStep ==
    ASSUME IInv, [Next]_vars
    PROVE  TypeOK'
<1> TypeOK
  BY Zenon DEF IInv, HubEntriesAreTimed
<1>1. ASSUME NEW k \in Conns, NEW c \in Containers, Accept(k, c)
      PROVE  TypeOK'
  BY <1>1, Zenon DEF Accept, hub, TypeOK
<1>2. ASSUME NEW k \in Conns, CloseDuplicate(k)
      PROVE  TypeOK'
  <2>1. at[k] \in Containers /\ cm[at[k]] \in Conns \cup {NoConn}
    BY <1>2, Zenon DEF IInv, OpenedBeforeUse, CloseDuplicate, TypeOK
  <2>2. close' \in [Conns -> {"none", "remove", "status", "register", "done"}]
    BY <1>2, <2>1, CloseOnType DEF CloseDuplicate, TypeOK
  <2>3. waits' \in [Conns -> Conns \cup {NoConn}]
    BY <1>2, <2>1, ZenonT(40), SMTT(30) DEF CloseDuplicate, TypeOK
  <2> QED
    BY <1>2, <2>2, <2>3, Zenon DEF CloseDuplicate, hub, TypeOK
<1>3. ASSUME NEW k \in Conns, LookupPrevious(k)
      PROVE  TypeOK'
  <2> PICK step \in {"disconnect", "resume", "upsert"} :
             /\ new' = [new EXCEPT ![k] = step]
             /\ step = "resume" => Visible
             /\ seen' = IF step = "resume" THEN [seen EXCEPT ![k] = rec.holder] ELSE seen
    BY <1>3, LookupOutcome, Zenon
  <2>1. Visible => rec.holder \in Containers \cup {NoHolder}
    BY Zenon DEF Visible, TypeOK, Record
  <2> QED
    BY <1>3, <2>1, Zenon DEF LookupPrevious, hub, TypeOK
<1>4. ASSUME NEW k \in Conns, DisconnectLocal(k)
      PROVE  TypeOK'
  <2>1. at[k] \in Containers /\ cm[at[k]] \in Conns \cup {NoConn}
    BY <1>4, Zenon DEF IInv, OpenedBeforeUse, DisconnectLocal, TypeOK
  <2>2. close' \in [Conns -> {"none", "remove", "status", "register", "done"}]
    BY <1>4, <2>1, CloseOnType DEF DisconnectLocal, TypeOK
  <2>3. waits' \in [Conns -> Conns \cup {NoConn}]
    BY <1>4, <2>1, ZenonT(40), SMTT(30) DEF DisconnectLocal, TypeOK
  <2> QED
    BY <1>4, <2>2, <2>3, ZenonT(40), SMTT(30) DEF DisconnectLocal, hub, TypeOK
<1>5. ASSUME NEW k \in Conns, DisconnectRemote(k)
      PROVE  TypeOK'
  <2>1. CASE Visible /\ rec.holder # NoHolder
    <3>1. rec.holder \in Containers
      BY <2>1, Zenon DEF Visible, TypeOK, Record
    <3>2. net' \in [Containers -> Seq({"resume", "disconnect"})]
      BY <1>5, <2>1, <3>1, PublishType, Zenon DEF DisconnectRemote
    <3> QED
      BY <1>5, <3>2, Zenon DEF DisconnectRemote, hub, TypeOK
  <2> QED
    BY <1>5, <2>1, Zenon DEF DisconnectRemote, hub, TypeOK
<1>6. ASSUME NEW k \in Conns, ResumeSession(k)
      PROVE  TypeOK'
  <2>1. at[k] \in Containers
    BY <1>6, Zenon DEF IInv, OpenedBeforeUse, ResumeSession
  <2>2. net' \in [Containers -> Seq({"resume", "disconnect"})]
    BY <1>6, PublishType, ZenonT(40), SMTT(30) DEF ResumeSession, TypeOK
  <2>3. reg' \in [Containers -> Conns \cup {NoConn}]
    BY <1>6, <2>1, Zenon DEF ResumeSession, Deregister, TypeOK
  <2>4. timer' \in [Conns -> {"off", "armed", "refused", "elapsed", "expiring"}]
    BY <1>6, <2>1, CancelledType DEF ResumeSession, Deregister, TypeOK
  <2> QED
    BY <1>6, <2>2, <2>3, <2>4, Zenon DEF ResumeSession, TypeOK
<1>7. ASSUME NEW k \in Conns, UpsertRecord(k)
      PROVE  TypeOK'
  <2>1. at[k] \in Containers
    BY <1>7, Zenon DEF IInv, OpenedBeforeUse, UpsertRecord
  <2>2. rec' \in Record \cup {NoRecord}
    <3>1. [holder |-> at[k], status |-> "Connected", fresh |-> TRUE] \in Record
      BY <2>1, ZenonT(40), SMTT(30) DEF Record
    <3> QED
      BY <1>7, <3>1, Zenon DEF UpsertRecord, TypeOK
  <2>3. /\ close' \in [Conns -> {"none", "remove", "status", "register", "done"}]
        /\ new' \in [Conns -> {"none", "dedup", "lookup", "disconnect", "disconnectRemote",
                               "resume", "upsert", "add", "drain", "open", "failed"}]
        /\ waits' \in [Conns -> Conns \cup {NoConn}]
    BY <1>7, CloseOnType DEF UpsertRecord, TypeOK
  <2> QED
    BY <1>7, <2>2, <2>3, Zenon DEF UpsertRecord, hub, TypeOK
<1>8. ASSUME NEW k \in Conns, AddToManager(k) \/ FinishOnNew(k)
      PROVE  TypeOK'
  BY <1>8, ZenonT(40), SMTT(30) DEF AddToManager, FinishOnNew, hub, TypeOK
<1>9. ASSUME NEW k \in Conns, PeerClose(k)
      PROVE  TypeOK'
  BY <1>9, CloseOnType, Zenon DEF PeerClose, hub, TypeOK
<1>10. ASSUME NEW k \in Conns, RemoveFromManager(k)
       PROVE  TypeOK'
  BY <1>10, Zenon DEF RemoveFromManager, hub, TypeOK
<1>11. ASSUME NEW k \in Conns, UpdateStatus(k)
       PROVE  TypeOK'
  <2>1. rec' \in Record \cup {NoRecord}
    BY <1>11, RecordWrites, Zenon DEF UpdateStatus, TypeOK
  <2> QED
    BY <1>11, <2>1, Zenon DEF UpdateStatus, hub, TypeOK
<1>12. ASSUME NEW k \in Conns, Register(k)
       PROVE  TypeOK'
  <2>1. at[k] \in Containers /\ reg[at[k]] \in Conns \cup {NoConn}
    BY <1>12, Zenon DEF IInv, OpenedBeforeUse, Register, TypeOK
  <2>2. timer' \in [Conns -> {"off", "armed", "refused", "elapsed", "expiring"}]
    <3>1. Cancelled(reg[at[k]], timer)
             \in [Conns -> {"off", "armed", "refused", "elapsed", "expiring"}]
      BY <2>1, CancelledType, Zenon
    <3> QED
      BY <1>12, <3>1, Zenon DEF Register
  <2> QED
    BY <1>12, <2>2, Zenon DEF Register, TypeOK
<1>13. ASSUME NEW k \in Conns, Timer(k)
       PROVE  TypeOK'
  <2>1. CASE TimerElapses(k)
    BY <2>1, Zenon DEF TimerElapses, hooks, TypeOK
  <2>4. CASE CancelWins(k)
    BY <2>4, Zenon DEF CancelWins, hooks, TypeOK
  <2>2. CASE ExpireEntry(k)
    BY <2>2, Zenon DEF ExpireEntry, hooks, TypeOK
  <2>3. CASE OnExpired(k)
    BY <2>3, Zenon DEF OnExpired, hooks, TypeOK
  <2> QED
    BY <1>13, <2>1, <2>2, <2>3, <2>4, Zenon DEF Timer
<1>14. ASSUME NEW c \in Containers, HandleResume(c)
       PROVE  TypeOK'
  <2>1. /\ reg' \in [Containers -> Conns \cup {NoConn}]
        /\ timer' \in [Conns -> {"off", "armed", "refused", "elapsed", "expiring"}]
    BY <1>14, CancelledType, ZenonT(40), SMTT(30) DEF HandleResume, Deregister, TypeOK
  <2>2. net' \in [Containers -> Seq({"resume", "disconnect"})]
    BY <1>14 DEF HandleResume, Handling, TypeOK
  <2> QED
    BY <1>14, <2>1, <2>2, Zenon DEF HandleResume, hooks, TypeOK
<1>15. ASSUME NEW c \in Containers, HandleDisconnect(c)
       PROVE  TypeOK'
  <2>1. close' \in [Conns -> {"none", "remove", "status", "register", "done"}]
    BY <1>15, CloseOnType DEF HandleDisconnect, TypeOK
  <2>2. net' \in [Containers -> Seq({"resume", "disconnect"})]
    BY <1>15 DEF HandleDisconnect, Handling, TypeOK
  <2>3. busy' \in [Containers -> Conns \cup {NoConn}]
    <3>1. cm[c] \in Conns \cup {NoConn} /\ busy \in [Containers -> Conns \cup {NoConn}]
      BY Zenon DEF TypeOK
    <3> QED
      BY <1>15, <3>1, Zenon DEF HandleDisconnect
  <2> QED
    BY <1>15, <2>1, <2>2, <2>3, ZenonT(40), SMTT(30) DEF HandleDisconnect, hub, TypeOK
<1>16. ASSUME NEW c \in Containers, LoseMessage(c) \/ Unsubscribe(c)
       PROVE  TypeOK'
  <2>1. net' \in [Containers -> Seq({"resume", "disconnect"})]
    <3>1. CASE LoseMessage(c)
      BY <3>1 DEF LoseMessage, TypeOK
    <3>2. CASE Unsubscribe(c)
      BY <3>2 DEF Unsubscribe, TypeOK
    <3> QED
      BY <1>16, <3>1, <3>2, Zenon
  <2> QED
    BY <1>16, <2>1, ZenonT(40), SMTT(30) DEF LoseMessage, Unsubscribe, hooks, hub, TypeOK
<1>17. ASSUME NEW c \in Containers,
              MarkShuttingDown(c) \/ ListConnections(c) \/ UpdateStatusTransferring(c)
       PROVE  TypeOK'
  <2>1. rec' \in Record \cup {NoRecord}
    BY <1>17, RecordWrites, ZenonT(40), SMTT(30) DEF MarkShuttingDown, ListConnections,
       UpdateStatusTransferring, TypeOK
  <2> QED
    BY <1>17, <2>1, ZenonT(40), SMTT(30) DEF MarkShuttingDown, ListConnections,
       UpdateStatusTransferring, hooks, hub, TypeOK
<1>18. ASSUME NEW c \in Containers, CloseAllConnections(c)
       PROVE  TypeOK'
  BY <1>18, CloseOnType DEF CloseAllConnections, hub, TypeOK
<1>19. ASSUME NEW c \in Containers, HubShutdown(c)
       PROVE  TypeOK'
  <2>1. /\ reg' \in [Containers -> Conns \cup {NoConn}]
        /\ timer' \in [Conns -> {"off", "armed", "refused", "elapsed", "expiring"}]
    BY <1>19, CancelledType, Zenon DEF HubShutdown, Deregister, TypeOK
  <2> QED
    BY <1>19, <2>1, ZenonT(40), SMTT(30) DEF HubShutdown, hooks, TypeOK
<1>20. CASE \/ \E k \in Conns : UpdateHeartBeat(k)
            \/ HeartbeatLapses \/ CleanUpExpired
  <2>1. rec' \in Record \cup {NoRecord}
    BY <1>20, RecordWrites, ZenonT(40), SMTT(30) DEF UpdateHeartBeat, HeartbeatLapses,
       CleanUpExpired, TypeOK
  <2> QED
    BY <1>20, <2>1, ZenonT(40), SMTT(30) DEF UpdateHeartBeat, HeartbeatLapses, CleanUpExpired,
       hooks, hub, TypeOK
<1>21. CASE UNCHANGED vars
  BY <1>21, Zenon DEF vars, hooks, hub, TypeOK
<1> QED
  BY <1>1, <1>2, <1>3, <1>4, <1>5, <1>6, <1>7, <1>8, <1>9, <1>10, <1>11, <1>12, <1>13, <1>14,
     <1>15, <1>16, <1>17, <1>18, <1>19, <1>20, <1>21, Zenon
     DEF Next, OnNew, OnClose, Subscriber, ShutdownStep

-----------------------------------------------------------------------------
(* The record *)

\* Whichever container writes it, a Connected record has a holder and a
\* Transferring one has none: each statement writes what keeps them together.
LEMMA HolderStep ==
    ASSUME IInv, [Next]_vars
    PROVE  HolderMatchesStatus'
<1> TypeOK /\ HolderMatchesStatus
  BY Zenon DEF IInv, HubEntriesAreTimed
<1>1. ASSUME NEW k \in Conns, UpsertRecord(k)
      PROVE  HolderMatchesStatus'
  <2>1. at[k] \in Containers
    BY <1>1, Zenon DEF IInv, OpenedBeforeUse, UpsertRecord
  <2> QED
    BY <1>1, <2>1, SessionAssumption DEF UpsertRecord, HolderMatchesStatus
<1>2. ASSUME NEW k \in Conns, UpdateStatus(k)
      PROVE  HolderMatchesStatus'
  <2>1. CASE rec = NoRecord
    BY <1>2, <2>1, Zenon DEF UpdateStatus, HolderMatchesStatus
  <2>2. CASE rec # NoRecord
    <3>1. \/ rec' = [rec EXCEPT !.status = "TempDisconnected"]
          \/ rec' \in {rec, NoRecord}
      BY <1>2, <2>2, Zenon DEF UpdateStatus
    <3>2. rec' = [rec EXCEPT !.status = "TempDisconnected"] => rec'.status = "TempDisconnected"
      BY <2>2, RecordWrites, Zenon
    <3> QED
      BY <2>2, <3>1, <3>2, Zenon DEF HolderMatchesStatus
  <2> QED
    BY <2>1, <2>2, Zenon
<1>3. ASSUME NEW k \in Conns, OnExpired(k)
      PROVE  HolderMatchesStatus'
  BY <1>3, Zenon DEF OnExpired, HolderMatchesStatus
<1>4. ASSUME NEW k \in Conns, UpdateHeartBeat(k)
      PROVE  HolderMatchesStatus'
  BY <1>4, RecordWrites, Zenon DEF UpdateHeartBeat, HolderMatchesStatus
<1>5. ASSUME NEW c \in Containers, UpdateStatusTransferring(c)
      PROVE  HolderMatchesStatus'
  <2>1. rec' = rec \/ (rec # NoRecord /\ rec'.status = "Transferring" /\ rec'.holder = NoHolder)
    BY <1>5, RecordWrites, Zenon DEF UpdateStatusTransferring
  <2> QED
    BY <2>1, Zenon DEF HolderMatchesStatus
<1>6. CASE HeartbeatLapses \/ CleanUpExpired
  BY <1>6, RecordWrites, ZenonT(40), SMTT(30) DEF HeartbeatLapses, CleanUpExpired, HolderMatchesStatus
<1>7. CASE UNCHANGED rec
  BY <1>7, Zenon DEF HolderMatchesStatus
<1>8. ASSUME NEW k \in Conns,
             OnNew(k) \/ PeerClose(k) \/ OnClose(k) \/ Timer(k) \/ UpdateHeartBeat(k)
      PROVE  HolderMatchesStatus'
  BY <1>8, <1>1, <1>2, <1>3, <1>4, <1>7, ZenonT(40), SMTT(30) DEF OnNew, OnClose, Timer, PeerClose,
     CloseDuplicate, LookupPrevious, DisconnectLocal, DisconnectRemote, ResumeSession, AddToManager,
     FinishOnNew, RemoveFromManager, Register, TimerElapses, ExpireEntry, CancelWins
<1>9. ASSUME NEW c \in Containers,
             Subscriber(c) \/ LoseMessage(c) \/ Unsubscribe(c) \/ ShutdownStep(c)
      PROVE  HolderMatchesStatus'
  BY <1>9, <1>5, <1>7, Zenon DEF Subscriber, HandleResume, HandleDisconnect, LoseMessage, Unsubscribe,
     ShutdownStep, MarkShuttingDown, ListConnections, CloseAllConnections, HubShutdown
<1>10. ASSUME NEW k \in Conns, NEW c \in Containers, Accept(k, c)
       PROVE  HolderMatchesStatus'
  BY <1>10, <1>7, Zenon DEF Accept
<1> QED
  BY <1>6, <1>7, <1>8, <1>9, <1>10, Zenon DEF Next, vars

-----------------------------------------------------------------------------
(* Connections go forward *)

\* A hook that has ended stays so, and only Accept begins one.
LEMMA HooksAdvance ==
    ASSUME IInv, [Next]_vars, NEW k \in Conns
    PROVE  /\ close[k] = "done" => close'[k] = "done"
           /\ close'[k] = "none" => close[k] = "none"
           /\ new[k] = "none" => close'[k] = "none"
           /\ new[k] # "none" => new'[k] # "none" /\ at'[k] = at[k]
           /\ new[k] # "none" /\ ~Connecting(k) => new'[k] = new[k]
           /\ new[k] = "none" /\ new'[k] # "none" => \E c \in Containers : Accept(k, c)
           /\ new'[k] = "failed" => new[k] = "failed" \/ "dbError" \in Faults
<1> DEFINE Goal == /\ close[k] = "done" => close'[k] = "done"
                   /\ close'[k] = "none" => close[k] = "none"
                   /\ new[k] = "none" => close'[k] = "none"
                   /\ new[k] # "none" => new'[k] # "none" /\ at'[k] = at[k]
                   /\ new[k] # "none" /\ ~Connecting(k) => new'[k] = new[k]
                   /\ new[k] = "none" /\ new'[k] # "none" => \E c \in Containers : Accept(k, c)
                   /\ new'[k] = "failed" => new[k] = "failed" \/ "dbError" \in Faults
<1>t. TypeOK /\ OpenedBeforeUse /\ EntriesAreLocal
  BY Zenon DEF IInv, HubEntriesAreTimed
<1>c. \A c \in Containers : cm[c] \in Conns \cup {NoConn} /\ (cm[c] # NoConn => new[cm[c]] # "none")
  BY <1>t, Zenon DEF EntriesAreLocal, TypeOK
<1>o. ASSUME NEW j \in Conns, new[j] # "none", close' = CloseOn(j, close)
      PROVE  /\ close[k] = "done" => close'[k] = "done"
             /\ close'[k] = "none" => close[k] = "none"
             /\ new[k] = "none" => close'[k] = "none"
  BY <1>t, <1>o, CloseOnType DEF OpenedBeforeUse
<1>s. ASSUME close' = close
      PROVE  /\ close[k] = "done" => close'[k] = "done"
             /\ close'[k] = "none" => close[k] = "none"
             /\ new[k] = "none" => close'[k] = "none"
  BY <1>t, <1>s, Zenon DEF OpenedBeforeUse
<1>n. ASSUME NEW j \in Conns, Connecting(j), at' = at, NEW step, step # "none",
             new' = [new EXCEPT ![j] = step]
      PROVE  /\ new[k] # "none" => new'[k] # "none" /\ at'[k] = at[k]
             /\ new[k] # "none" /\ ~Connecting(k) => new'[k] = new[k]
             /\ new[k] = "none" => new'[k] = "none"
             /\ new'[k] \in {new[k], step}
  BY <1>t, <1>n, Zenon DEF Connecting, TypeOK
<1>1. ASSUME NEW j \in Conns, NEW c \in Containers, Accept(j, c)
      PROVE  Goal
  BY <1>1, <1>t, <1>s, ZenonT(40), SMTT(30) DEF Accept, Connecting, TypeOK
<1>2. ASSUME NEW j \in Conns, CloseDuplicate(j)
      PROVE  Goal
  <2>1. Connecting(j) /\ at[j] \in Containers
    BY <1>2, <1>t, Zenon DEF CloseDuplicate, Connecting, OpenedBeforeUse
  <2>2. close' = close \/ (cm[at[j]] # NoConn /\ close' = CloseOn(cm[at[j]], close))
    BY <1>2, Zenon DEF CloseDuplicate
  <2> QED
    BY <1>2, <2>1, <2>2, <1>c, <1>o, <1>s, <1>n, ZenonT(40), SMTT(30) DEF CloseDuplicate
<1>3. ASSUME NEW j \in Conns, LookupPrevious(j)
      PROVE  Goal
  <2>1. PICK step \in {"disconnect", "resume", "upsert"} : new' = [new EXCEPT ![j] = step]
    BY <1>3, <1>t, LookupOutcome, Zenon
  <2>2. Connecting(j) /\ at' = at /\ close' = close
    BY <1>3, Zenon DEF LookupPrevious, Connecting
  <2> QED
    BY <2>1, <2>2, <1>s, <1>n, Zenon
<1>4. ASSUME NEW j \in Conns, DisconnectLocal(j)
      PROVE  Goal
  <2>1. Connecting(j) /\ at[j] \in Containers
    BY <1>4, <1>t, Zenon DEF DisconnectLocal, Connecting, OpenedBeforeUse
  <2>2. close' = close \/ (cm[at[j]] # NoConn /\ close' = CloseOn(cm[at[j]], close))
    BY <1>4, Zenon DEF DisconnectLocal
  <2>3. at' = at /\ \E step \in {"disconnectRemote", "upsert"} : new' = [new EXCEPT ![j] = step]
    BY <1>4, Zenon DEF DisconnectLocal
  <2> QED
    BY <2>1, <2>2, <2>3, <1>c, <1>o, <1>s, <1>n, Zenon
<1>5. ASSUME NEW j \in Conns,
             DisconnectRemote(j) \/ ResumeSession(j) \/ AddToManager(j) \/ FinishOnNew(j)
      PROVE  Goal
  <2>1. /\ Connecting(j) /\ at' = at /\ close' = close
        /\ \E step \in {"upsert", "drain", "open"} : new' = [new EXCEPT ![j] = step]
    BY <1>5, Zenon DEF DisconnectRemote, ResumeSession, AddToManager, FinishOnNew, Connecting
  <2> QED
    BY <2>1, <1>s, <1>n, Zenon
<1>6. ASSUME NEW j \in Conns, UpsertRecord(j)
      PROVE  Goal
  <2>1. /\ Connecting(j) /\ at' = at /\ (close' = close \/ close' = CloseOn(j, close))
        /\ \E step \in {"add", "failed"} : /\ new' = [new EXCEPT ![j] = step]
                                           /\ step = "failed" => "dbError" \in Faults
    BY <1>6, Zenon DEF UpsertRecord, Connecting
  <2> QED
    BY <2>1, <1>s, <1>n, <1>o, Zenon DEF Connecting
<1>7. ASSUME NEW j \in Conns, PeerClose(j)
      PROVE  Goal
  BY <1>7, <1>o, Zenon DEF PeerClose
<1>8. ASSUME NEW j \in Conns, OnClose(j)
      PROVE  Goal
  <2>1. /\ at' = at /\ new' = new /\ close[j] # "none"
        /\ \E step \in {"status", "register", "done"} : close' = [close EXCEPT ![j] = step]
        /\ close[j] # "done"
    BY <1>8, Zenon DEF OnClose, RemoveFromManager, UpdateStatus, Register
  <2> QED
    BY <2>1, <1>t, ZenonT(40), SMTT(30) DEF OpenedBeforeUse, TypeOK
<1>9. ASSUME NEW c \in Containers, HandleDisconnect(c) \/ CloseAllConnections(c)
      PROVE  Goal
  <2>1. /\ at' = at /\ new' = new
        /\ close' = close \/ (cm[c] # NoConn /\ close' = CloseOn(cm[c], close))
    BY <1>9, Zenon DEF HandleDisconnect, CloseAllConnections
  <2> QED
    BY <2>1, <1>c, <1>o, <1>s, Zenon
<1>10. ASSUME UNCHANGED hooks
       PROVE  Goal
  BY <1>10, <1>s, Zenon DEF hooks
<1>11. ASSUME NEW j \in Conns, Timer(j) \/ UpdateHeartBeat(j)
       PROVE  UNCHANGED hooks
  BY <1>11, Zenon DEF Timer, TimerElapses, ExpireEntry, CancelWins, OnExpired, UpdateHeartBeat
<1>12. ASSUME NEW c \in Containers,
              \/ HandleResume(c) \/ LoseMessage(c) \/ Unsubscribe(c) \/ MarkShuttingDown(c)
              \/ ListConnections(c) \/ UpdateStatusTransferring(c) \/ HubShutdown(c)
       PROVE  UNCHANGED hooks
  BY <1>12, Zenon DEF HandleResume, LoseMessage, Unsubscribe, MarkShuttingDown, ListConnections,
     UpdateStatusTransferring, HubShutdown
<1>13. HeartbeatLapses \/ CleanUpExpired \/ UNCHANGED vars => UNCHANGED hooks
  BY Zenon DEF HeartbeatLapses, CleanUpExpired, vars
<1> HIDE DEF Goal
<1>14. ASSUME NEW j \in Conns, OnNew(j)
       PROVE  Goal
  BY <1>14, <1>2, <1>3, <1>4, <1>5, <1>6, Zenon DEF OnNew
<1>15. ASSUME NEW j \in Conns, PeerClose(j) \/ OnClose(j) \/ Timer(j) \/ UpdateHeartBeat(j)
       PROVE  Goal
  BY <1>15, <1>7, <1>8, <1>10, <1>11, Zenon
<1>16. ASSUME NEW c \in Containers,
              Subscriber(c) \/ LoseMessage(c) \/ Unsubscribe(c) \/ ShutdownStep(c)
       PROVE  Goal
  BY <1>16, <1>9, <1>10, <1>12, Zenon DEF Subscriber, ShutdownStep
<1>17. Goal
  BY <1>1, <1>10, <1>13, <1>14, <1>15, <1>16, Zenon DEF Next
<1> QED
  BY <1>17, Zenon DEF Goal

-----------------------------------------------------------------------------
(* The registry and its timers *)

HubInv == ArmedTimerIsRegistered /\ EntryHasTimer /\ OpenedBeforeUse /\ EntriesAreLocal

\* What an entry says of its connection.
LEMMA EntryOf ==
    ASSUME IInv
    PROVE  \A c \in Containers, k \in Conns :
              reg[c] = k => at[k] = c /\ timer[k] \in {"armed", "elapsed", "refused"}
BY NeverNoConn DEF IInv, HubEntriesAreTimed, EntryHasTimer, EntriesAreLocal

\* Steps that leave the hub alone keep the registry right.
LEMMA HubLeftAlone ==
    ASSUME IInv, [Next]_vars, UNCHANGED <<at, reg, timer>>,
           \A c \in Containers :
              cm'[c] \in {cm[c], NoConn} \cup {k \in Conns : new[k] # "none" /\ at[k] = c}
    PROVE  HubInv'
<1> TypeOK'
  BY TypeStep, Zenon
<1> USE DEF IInv, HubEntriesAreTimed, TypeOK
<1>1. ArmedTimerIsRegistered' /\ EntryHasTimer'
  BY Zenon DEF ArmedTimerIsRegistered, EntryHasTimer
<1>2. OpenedBeforeUse'
  <2> SUFFICES ASSUME NEW k \in Conns
               PROVE  /\ new'[k] = "none" => close'[k] = "none"
                      /\ new'[k] # "none" => at'[k] \in Containers
                      /\ timer'[k] # "off" => close'[k] = "done"
    BY Zenon DEF OpenedBeforeUse
  <2>1. CASE new[k] # "none"
    BY <2>1, HooksAdvance, Zenon DEF OpenedBeforeUse
  <2>2. CASE new[k] = "none"
    <3>1. close'[k] = "none" /\ timer[k] = "off"
      BY <2>2, HooksAdvance, ZenonT(40), SMTT(30) DEF OpenedBeforeUse
    <3>2. new'[k] # "none" => at'[k] \in Containers
      BY <2>2, HooksAdvance DEF Accept
    <3> QED
      BY <3>1, <3>2, Zenon
  <2> QED
    BY <2>1, <2>2, Zenon
<1>3. EntriesAreLocal'
  <2> SUFFICES ASSUME NEW c \in Containers
               PROVE  /\ cm'[c] # NoConn => new'[cm'[c]] # "none" /\ at[cm'[c]] = c
                      /\ reg[c] # NoConn => at[reg[c]] = c
    BY ZenonT(40), SMTT(30) DEF EntriesAreLocal
  <2>1. cm'[c] # NoConn => cm'[c] \in Conns /\ new[cm'[c]] # "none" /\ at[cm'[c]] = c
    BY DEF EntriesAreLocal
  <2> QED
    BY <2>1, HooksAdvance, Zenon DEF EntriesAreLocal
<1> QED
  BY <1>1, <1>2, <1>3, Zenon DEF HubInv

\* Taking an entry out cancels the timer that belongs to it.
LEMMA DeregisterKeeps ==
    ASSUME IInv, NEW c \in Containers, Deregister(c), UNCHANGED <<at, close, cm>>,
           \A k \in Conns : new'[k] = "none" <=> new[k] = "none"
    PROVE  HubInv'
<1> USE DEF IInv, HubEntriesAreTimed
<1>1. /\ reg \in [Containers -> Conns \cup {NoConn}] /\ reg[c] \in Conns \cup {NoConn}
      /\ reg' = [reg EXCEPT ![c] = NoConn]
      /\ timer' = Cancelled(reg[c], timer)
  BY Zenon DEF Deregister, TypeOK
<1>2. /\ \A j \in Conns : /\ j # reg[c] => timer'[j] = timer[j]
                          /\ timer'[j] \in {timer[j], "off"}
      /\ reg[c] \in Conns => timer'[reg[c]] # "armed"
  BY <1>1, CancelledType, Zenon
<1>3. ArmedTimerIsRegistered'
  <2> SUFFICES ASSUME NEW k \in Conns, timer'[k] = "armed"
               PROVE  reg'[at[k]] = k
    BY Zenon DEF ArmedTimerIsRegistered
  <2>1. timer[k] = "armed" /\ k # reg[c]
    BY <1>2, Zenon
  <2>2. reg[at[k]] = k /\ at[k] \in Containers
    BY <2>1, Zenon DEF ArmedTimerIsRegistered, OpenedBeforeUse, TypeOK
  <2> QED
    BY <1>1, <2>1, <2>2, Zenon
<1>4. EntryHasTimer'
  <2> SUFFICES ASSUME NEW d \in Containers, reg'[d] # NoConn
               PROVE  timer'[reg'[d]] \in {"armed", "elapsed", "refused"}
    BY Zenon DEF EntryHasTimer
  <2>1. d # c /\ reg'[d] = reg[d] /\ reg[d] \in Conns
    BY <1>1, Zenon
  <2>2. reg[d] # reg[c]
    BY <2>1, SessionAssumption DEF EntriesAreLocal
  <2> QED
    BY <1>2, <2>1, <2>2 DEF EntryHasTimer
<1>5. OpenedBeforeUse'
  BY <1>2, Zenon DEF OpenedBeforeUse
<1>6. EntriesAreLocal'
  BY <1>1 DEF EntriesAreLocal, TypeOK
<1> QED
  BY <1>3, <1>4, <1>5, <1>6, Zenon DEF HubInv

\* Every step keeps entries and timers together.
LEMMA HubStep ==
    ASSUME IInv, [Next]_vars
    PROVE  HubInv'
<1> TypeOK /\ TypeOK'
  BY TypeStep, Zenon DEF IInv, HubEntriesAreTimed
<1>1. ASSUME NEW k \in Conns, NEW c \in Containers, Accept(k, c)
      PROVE  HubInv'
  <2> USE <1>1 DEF Accept, hub, IInv, HubEntriesAreTimed, TypeOK
  <2>1. timer[k] = "off" /\ \A d \in Containers : cm[d] # k /\ reg[d] # k
    <3>1. timer[k] = "off"
      BY Zenon DEF OpenedBeforeUse
    <3>2. \A d \in Containers : reg[d] # k
      BY <3>1, EntryOf, ZenonT(40), SMTT(30)
    <3>3. \A d \in Containers : cm[d] # k
      BY NeverNoConn DEF EntriesAreLocal
    <3> QED
      BY <3>1, <3>2, <3>3, Zenon
  <2>2. ArmedTimerIsRegistered'
    BY <2>1 DEF ArmedTimerIsRegistered
  <2>3. EntryHasTimer' /\ OpenedBeforeUse'
    BY <2>1 DEF EntryHasTimer, OpenedBeforeUse
  <2>4. EntriesAreLocal'
    BY <2>1 DEF EntriesAreLocal
  <2> QED
    BY <2>2, <2>3, <2>4, Zenon DEF HubInv
<1>5. ASSUME NEW k \in Conns, ResumeSession(k)
      PROVE  HubInv'
  <2>1. /\ at[k] \in Containers
        /\ \A j \in Conns : new'[j] = "none" <=> new[j] = "none"
    BY <1>5 DEF ResumeSession, TypeOK, IInv, OpenedBeforeUse
  <2>2. CASE seen[k] = at[k]
    BY <1>5, <2>1, <2>2, DeregisterKeeps, Zenon DEF ResumeSession
  <2>3. CASE seen[k] # at[k]
    BY <1>5, <2>3, HubLeftAlone, Zenon DEF ResumeSession
  <2> QED
    BY <2>2, <2>3, ZenonT(40), SMTT(30)
<1>7. ASSUME NEW k \in Conns, AddToManager(k)
      PROVE  HubInv'
  <2>1. \A c \in Containers :
           cm'[c] \in {cm[c], NoConn} \cup {j \in Conns : new[j] # "none" /\ at[j] = c}
    BY <1>7 DEF AddToManager, TypeOK
  <2> QED
    BY <1>7, <2>1, HubLeftAlone, ZenonT(40), SMTT(30) DEF AddToManager, hub
<1>9. ASSUME NEW k \in Conns, RemoveFromManager(k)
      PROVE  HubInv'
  <2>1. \A c \in Containers : cm'[c] \in {cm[c], NoConn}
    BY <1>9 DEF RemoveFromManager, TypeOK
  <2> QED
    BY <1>9, <2>1, HubLeftAlone, ZenonT(40), SMTT(30) DEF RemoveFromManager, hub
<1>10. ASSUME NEW k \in Conns, Register(k)
       PROVE  HubInv'
  <2> DEFINE old == reg[at[k]]
  <2> USE DEF IInv, HubEntriesAreTimed
  <2>1. /\ at[k] \in Containers /\ old \in Conns \cup {NoConn} /\ timer[k] = "off"
        /\ close' = [close EXCEPT ![k] = "done"] /\ reg' = [reg EXCEPT ![at[k]] = k]
    BY <1>10, Zenon DEF Register, OpenedBeforeUse, TypeOK
  <2> \A c \in Containers : reg[c] # k
    BY <2>1, NeverNoConn, Zenon DEF EntryHasTimer
  <2>2. /\ timer'[k] \in {"armed", "refused"}
        /\ \A j \in Conns \ {k} : timer'[j] = Cancelled(old, timer)[j]
    <3>1. Cancelled(old, timer) \in [Conns -> {"off", "armed", "refused", "elapsed", "expiring"}]
      BY <2>1, CancelledType, Zenon
    <3> QED
      BY <1>10, <3>1, Zenon DEF Register
  <2>3. /\ \A j \in Conns \ {k} : /\ j # old => timer'[j] = timer[j]
                                  /\ timer'[j] \in {timer[j], "off"}
        /\ old \in Conns => timer'[old] # "armed"
    BY <2>1, <2>2, CancelledType, Zenon
  <2> HIDE DEF old
  <2>4. ArmedTimerIsRegistered'
    <3> SUFFICES ASSUME NEW j \in Conns, timer'[j] = "armed"
                 PROVE  reg'[at[j]] = j
      BY <1>10, ZenonT(40), SMTT(30) DEF ArmedTimerIsRegistered, Register
    <3>1. CASE j = k
      BY <2>1, <3>1 DEF TypeOK
    <3>2. CASE j # k
      <4>1. j # old /\ timer[j] = "armed"
        BY <2>3, <3>2, Zenon
      <4>2. reg[at[j]] = j /\ at[j] # at[k]
        BY <4>1, Zenon DEF ArmedTimerIsRegistered, old
      <4> QED
        BY <2>1, <4>2 DEF TypeOK
    <3> QED
      BY <3>1, <3>2, Zenon
  <2>5. EntryHasTimer'
    <3> SUFFICES ASSUME NEW c \in Containers, reg'[c] # NoConn
                 PROVE  timer'[reg'[c]] \in {"armed", "elapsed", "refused"}
      BY ZenonT(40), SMTT(30) DEF EntryHasTimer
    <3>1. CASE c = at[k]
      BY <2>1, <2>2, <3>1 DEF TypeOK
    <3>2. CASE c # at[k]
      <4>1. reg'[c] = reg[c] /\ reg[c] \in Conns \ {k}
        BY <2>1, <3>2 DEF TypeOK
      <4>2. reg[c] # old
        BY <2>1, <3>2, <4>1, SessionAssumption, ZenonT(40), SMTT(30) DEF EntriesAreLocal, old
      <4> QED
        BY <2>3, <4>1, <4>2, ZenonT(40), SMTT(30) DEF EntryHasTimer
    <3> QED
      BY <3>1, <3>2, Zenon
  <2>6. OpenedBeforeUse'
    BY <1>10, <2>1, <2>3 DEF Register, OpenedBeforeUse, TypeOK
  <2>7. EntriesAreLocal'
    BY <1>10, <2>1 DEF Register, EntriesAreLocal, TypeOK
  <2> QED
    BY <2>4, <2>5, <2>6, <2>7, Zenon DEF HubInv
<1>11. ASSUME NEW k \in Conns, Timer(k)
       PROVE  HubInv'
  <2> USE DEF IInv, HubEntriesAreTimed, hooks, TypeOK
  <2>1. CASE TimerElapses(k)
    <3>1. timer' = [timer EXCEPT ![k] = "elapsed"] /\ timer[k] = "armed"
      BY <2>1, Zenon DEF TimerElapses
    <3> QED
      BY <2>1, <3>1 DEF TimerElapses, HubInv, ArmedTimerIsRegistered, EntryHasTimer,
         OpenedBeforeUse, EntriesAreLocal
  <2>2. CASE ExpireEntry(k)
    <3>1. \A c \in Containers : reg[c] = k => c = at[k]
      BY NeverNoConn, ZenonT(40), SMTT(30) DEF EntriesAreLocal
    <3>2. ArmedTimerIsRegistered'
      BY <2>2 DEF ExpireEntry, ArmedTimerIsRegistered, OpenedBeforeUse
    <3>3. EntryHasTimer'
      BY <2>2, <3>1 DEF ExpireEntry, EntryHasTimer, OpenedBeforeUse
    <3>4. OpenedBeforeUse' /\ EntriesAreLocal'
      BY <2>2 DEF ExpireEntry, OpenedBeforeUse, EntriesAreLocal
    <3> QED
      BY <3>2, <3>3, <3>4, Zenon DEF HubInv
  <2>3. CASE CancelWins(k)
    <3>1. \A c \in Containers : reg[c] # k
      BY <2>3, EntryOf, ZenonT(40), SMTT(30) DEF CancelWins
    <3> QED
      BY <2>3, <3>1 DEF CancelWins, HubInv, ArmedTimerIsRegistered, EntryHasTimer,
         OpenedBeforeUse, EntriesAreLocal
  <2>4. CASE OnExpired(k)
    <3>1. \A c \in Containers : reg[c] # k
      BY <2>4, EntryOf, Zenon DEF OnExpired
    <3> QED
      BY <2>4, <3>1 DEF OnExpired, HubInv, ArmedTimerIsRegistered, EntryHasTimer,
         OpenedBeforeUse, EntriesAreLocal
  <2> QED
    BY <1>11, <2>1, <2>2, <2>3, <2>4, ZenonT(40), SMTT(30) DEF Timer
<1>12. ASSUME NEW c \in Containers, HandleResume(c) \/ HubShutdown(c)
       PROVE  HubInv'
  BY <1>12, DeregisterKeeps, Zenon DEF HandleResume, HubShutdown, hooks
<1>13. CASE UNCHANGED <<at, cm, reg, timer>>
  BY <1>13, HubLeftAlone, Zenon
<1>14. ASSUME NEW k \in Conns,
              \/ CloseDuplicate(k) \/ LookupPrevious(k) \/ DisconnectLocal(k) \/ DisconnectRemote(k)
              \/ UpsertRecord(k) \/ FinishOnNew(k) \/ PeerClose(k) \/ UpdateStatus(k)
              \/ UpdateHeartBeat(k)
       PROVE  HubInv'
  BY <1>13, <1>14, Zenon DEF CloseDuplicate, LookupPrevious, DisconnectLocal, DisconnectRemote,
     UpsertRecord, FinishOnNew, PeerClose, UpdateStatus, UpdateHeartBeat, hooks, hub
<1>15. ASSUME NEW c \in Containers,
              \/ HandleDisconnect(c) \/ LoseMessage(c) \/ Unsubscribe(c) \/ MarkShuttingDown(c)
              \/ ListConnections(c) \/ UpdateStatusTransferring(c) \/ CloseAllConnections(c)
       PROVE  HubInv'
  BY <1>13, <1>15, Zenon DEF HandleDisconnect, LoseMessage, Unsubscribe, MarkShuttingDown,
     ListConnections, UpdateStatusTransferring, CloseAllConnections, hooks, hub
<1>16. CASE HeartbeatLapses \/ CleanUpExpired \/ UNCHANGED vars
  BY <1>13, <1>16, Zenon DEF HeartbeatLapses, CleanUpExpired, vars, hooks, hub
<1> QED
  BY <1>1, <1>5, <1>7, <1>9, <1>10, <1>11, <1>12, <1>14, <1>15, <1>16, Zenon
     DEF Next, OnNew, OnClose, Subscriber, ShutdownStep

-----------------------------------------------------------------------------
(* Theorems that hold under all faults *)

\* No container holds anything at first.
LEMMA InitIInv == Init => IInv
BY SessionAssumption DEF Init, IInv, HubEntriesAreTimed, TypeOK, ArmedTimerIsRegistered, EntryHasTimer,
   OpenedBeforeUse, EntriesAreLocal, HolderMatchesStatus

\* Every step keeps the invariant.
LEMMA NextIInv == IInv /\ [Next]_vars => IInv'
BY TypeStep, HolderStep, HubStep, Zenon DEF IInv, HubEntriesAreTimed, HubInv

\* The invariant holds of every state the hooks reach.
LEMMA AlwaysIInv == Spec => []IInv
BY InitIInv, NextIInv, PTL DEF Spec

\* Whatever the environment does, an armed ExpiredTimer is the current entry of
\* its container's MessageHub and no entry outlives its timer.
THEOREM HubEntriesAreTimedThm == Spec => []HubEntriesAreTimed
<1>1. IInv => HubEntriesAreTimed
  BY Zenon DEF IInv
<1> QED
  BY <1>1, AlwaysIInv, PTL

\* Whatever the environment does, a record that says Connected names a holder
\* and one that says Transferring names none.
THEOREM HolderMatchesStatusThm == Spec => []HolderMatchesStatus
<1>1. IInv => HolderMatchesStatus
  BY Zenon DEF IInv
<1> QED
  BY <1>1, AlwaysIInv, PTL

-----------------------------------------------------------------------------
(* Who writes what *)

\* The statements that write the record.
LEMMA RecordMoves ==
    ASSUME [Next]_vars
    PROVE  \/ rec' = rec
           \/ \E k \in Conns : UpsertRecord(k) \/ UpdateStatus(k) \/ UpdateHeartBeat(k) \/ OnExpired(k)
           \/ \E c \in Containers : UpdateStatusTransferring(c)
           \/ HeartbeatLapses \/ CleanUpExpired
<1>1. ASSUME NEW k \in Conns, NEW c \in Containers, Accept(k, c)
      PROVE  rec' = rec
  BY <1>1, Zenon DEF Accept
<1>2. ASSUME NEW k \in Conns, OnNew(k)
      PROVE  rec' = rec \/ UpsertRecord(k)
  BY <1>2, Zenon DEF OnNew, CloseDuplicate, LookupPrevious, DisconnectLocal, DisconnectRemote,
     ResumeSession, AddToManager, FinishOnNew
<1>3. ASSUME NEW k \in Conns, PeerClose(k) \/ OnClose(k) \/ Timer(k)
      PROVE  rec' = rec \/ UpdateStatus(k) \/ OnExpired(k)
  BY <1>3, Zenon DEF PeerClose, OnClose, RemoveFromManager, Register, Timer, TimerElapses, ExpireEntry,
     CancelWins
<1>4. ASSUME NEW c \in Containers,
             Subscriber(c) \/ LoseMessage(c) \/ Unsubscribe(c) \/ ShutdownStep(c)
      PROVE  rec' = rec \/ UpdateStatusTransferring(c)
  BY <1>4, Zenon DEF Subscriber, HandleResume, HandleDisconnect, LoseMessage, Unsubscribe, ShutdownStep,
     MarkShuttingDown, ListConnections, CloseAllConnections, HubShutdown
<1> QED
  BY <1>1, <1>2, <1>3, <1>4, Zenon DEF Next, vars

\* The steps that write the ConnectionManager.
LEMMA ManagerMoves ==
    ASSUME [Next]_vars
    PROVE  cm' = cm \/ \E k \in Conns : AddToManager(k) \/ RemoveFromManager(k)
<1>1. ASSUME NEW k \in Conns, NEW c \in Containers, Accept(k, c)
      PROVE  cm' = cm
  BY <1>1, Zenon DEF Accept
<1>2. ASSUME NEW k \in Conns, OnNew(k)
      PROVE  cm' = cm \/ AddToManager(k)
  BY <1>2, Zenon DEF OnNew, CloseDuplicate, LookupPrevious, DisconnectLocal, DisconnectRemote,
     ResumeSession, UpsertRecord, FinishOnNew
<1>3. ASSUME NEW k \in Conns, PeerClose(k) \/ OnClose(k) \/ Timer(k) \/ UpdateHeartBeat(k)
      PROVE  cm' = cm \/ RemoveFromManager(k)
  BY <1>3, Zenon DEF PeerClose, OnClose, UpdateStatus, Register, Timer, TimerElapses, ExpireEntry,
     CancelWins, OnExpired, UpdateHeartBeat
<1>4. ASSUME NEW c \in Containers,
             Subscriber(c) \/ LoseMessage(c) \/ Unsubscribe(c) \/ ShutdownStep(c)
      PROVE  cm' = cm
  BY <1>4, Zenon DEF Subscriber, HandleResume, HandleDisconnect, LoseMessage, Unsubscribe, ShutdownStep,
     MarkShuttingDown, ListConnections, UpdateStatusTransferring, CloseAllConnections, HubShutdown
<1> QED
  BY <1>1, <1>2, <1>3, <1>4, Zenon DEF Next, HeartbeatLapses, CleanUpExpired, vars

\* A shutdown goes through its tasks in their order.
LEMMA PhaseMoves ==
    ASSUME TypeOK, [Next]_vars, NEW c \in Containers
    PROVE  \/ phase'[c] = phase[c]
           \/ Unsubscribe(c) /\ phase'[c] = "unsubscribed"
           \/ MarkShuttingDown(c) /\ phase'[c] = "marked"
           \/ ListConnections(c) /\ phase'[c] = IF cm[c] = NoConn THEN "closing" ELSE "transferring"
           \/ UpdateStatusTransferring(c) /\ phase'[c] = "closing"
           \/ CloseAllConnections(c) /\ phase'[c] = "stopped"
<1> DEFINE Goal == \/ phase'[c] = phase[c]
                   \/ Unsubscribe(c) /\ phase'[c] = "unsubscribed"
                   \/ MarkShuttingDown(c) /\ phase'[c] = "marked"
                   \/ ListConnections(c) /\ phase'[c] = IF cm[c] = NoConn THEN "closing" ELSE "transferring"
                   \/ UpdateStatusTransferring(c) /\ phase'[c] = "closing"
                   \/ CloseAllConnections(c) /\ phase'[c] = "stopped"
<1>1. ASSUME NEW k \in Conns, NEW d \in Containers, Accept(k, d)
      PROVE  phase' = phase
  BY <1>1, Zenon DEF Accept
<1>2. ASSUME NEW k \in Conns, OnNew(k)
      PROVE  phase' = phase
  BY <1>2, Zenon DEF OnNew, CloseDuplicate, LookupPrevious, DisconnectLocal, DisconnectRemote,
     ResumeSession, UpsertRecord, AddToManager, FinishOnNew
<1>3. ASSUME NEW k \in Conns, PeerClose(k) \/ OnClose(k) \/ Timer(k) \/ UpdateHeartBeat(k)
      PROVE  phase' = phase
  BY <1>3, Zenon DEF PeerClose, OnClose, RemoveFromManager, UpdateStatus, Register, Timer, TimerElapses,
     ExpireEntry, CancelWins, OnExpired, UpdateHeartBeat
<1>4. ASSUME NEW d \in Containers, Subscriber(d) \/ LoseMessage(d) \/ HubShutdown(d)
      PROVE  phase' = phase
  BY <1>4, Zenon DEF Subscriber, HandleResume, HandleDisconnect, LoseMessage, HubShutdown
<1>5. ASSUME NEW d \in Containers,
             \/ Unsubscribe(d) \/ MarkShuttingDown(d) \/ ListConnections(d)
             \/ UpdateStatusTransferring(d) \/ CloseAllConnections(d)
      PROVE  Goal
  <2>1. CASE d = c
    BY <1>5, <2>1 DEF Unsubscribe, MarkShuttingDown, ListConnections, UpdateStatusTransferring,
       CloseAllConnections, TypeOK
  <2>2. CASE d # c
    BY <1>5, <2>2, ZenonT(40), SMTT(30) DEF Unsubscribe, MarkShuttingDown, ListConnections,
       UpdateStatusTransferring, CloseAllConnections, TypeOK
  <2> QED
    BY <2>1, <2>2, Zenon
<1>6. HeartbeatLapses \/ CleanUpExpired \/ UNCHANGED vars => phase' = phase
  BY Zenon DEF HeartbeatLapses, CleanUpExpired, vars
<1>7. ASSUME phase' = phase
      PROVE  Goal
  BY <1>7, Zenon
<1> HIDE DEF Goal
<1>8. Goal
  BY <1>1, <1>2, <1>3, <1>4, <1>5, <1>6, <1>7, Zenon DEF Next, ShutdownStep
<1> QED
  BY <1>8, Zenon DEF Goal

\* Close runs once; its first step is taken by whoever closes the connection,
\* the others by onClose.
LEMMA CloseMoves ==
    ASSUME IInv, [Next]_vars, NEW k \in Conns
    PROVE  \/ close'[k] = close[k]
           \/ OnClose(k)
           \/ /\ close[k] = "none" /\ close'[k] = "remove"
              /\ \/ PeerClose(k)
                 \/ UpsertRecord(k) /\ "dbError" \in Faults
                 \/ \E j \in Conns : /\ cm[at[j]] = k /\ at[j] \in Containers
                                     /\ CloseDuplicate(j) \/ DisconnectLocal(j)
                 \/ \E c \in Containers : cm[c] = k /\ (HandleDisconnect(c) \/ CloseAllConnections(c))
<1> DEFINE Closer == \/ PeerClose(k)
                     \/ UpsertRecord(k) /\ "dbError" \in Faults
                     \/ \E j \in Conns : /\ cm[at[j]] = k /\ at[j] \in Containers
                                         /\ CloseDuplicate(j) \/ DisconnectLocal(j)
                     \/ \E c \in Containers :
                           cm[c] = k /\ (HandleDisconnect(c) \/ CloseAllConnections(c))
           Goal == close'[k] = close[k] \/ OnClose(k) \/ (close[k] = "none" /\ close'[k] = "remove" /\ Closer)
<1>t. TypeOK /\ OpenedBeforeUse
  BY Zenon DEF IInv, HubEntriesAreTimed
<1>o. ASSUME NEW j, j = NoConn \/ j \in Conns, close' = close \/ (j # NoConn /\ close' = CloseOn(j, close)),
             j = k => Closer
      PROVE  Goal
  BY <1>o, <1>t, ZenonT(40), SMTT(30) DEF CloseOn, TypeOK
<1>1. ASSUME NEW j \in Conns, NEW c \in Containers, Accept(j, c)
      PROVE  close' = close
  BY <1>1, Zenon DEF Accept
<1>2. ASSUME NEW j \in Conns, CloseDuplicate(j) \/ DisconnectLocal(j)
      PROVE  Goal
  <2>1. at[j] \in Containers
    BY <1>2, <1>t, ZenonT(40), SMTT(30) DEF CloseDuplicate, DisconnectLocal, OpenedBeforeUse
  <2>2. cm[at[j]] = NoConn \/ cm[at[j]] \in Conns
    BY <2>1, <1>t DEF TypeOK
  <2>3. close' = close \/ (cm[at[j]] # NoConn /\ close' = CloseOn(cm[at[j]], close))
    BY <1>2, Zenon DEF CloseDuplicate, DisconnectLocal
  <2> QED
    BY <1>2, <1>o, <2>1, <2>2, <2>3, Zenon
<1>3. ASSUME NEW j \in Conns,
             LookupPrevious(j) \/ DisconnectRemote(j) \/ ResumeSession(j) \/ AddToManager(j) \/ FinishOnNew(j)
      PROVE  close' = close
  BY <1>3, Zenon DEF LookupPrevious, DisconnectRemote, ResumeSession, AddToManager, FinishOnNew
<1>4. ASSUME NEW j \in Conns, UpsertRecord(j)
      PROVE  Goal
  <2>1. close' = close \/ ("dbError" \in Faults /\ close' = CloseOn(j, close))
    BY <1>4, Zenon DEF UpsertRecord
  <2> QED
    BY <1>4, <1>o, <2>1, NeverNoConn, Zenon
<1>5. ASSUME NEW j \in Conns, PeerClose(j)
      PROVE  Goal
  BY <1>5, <1>o, NeverNoConn, Zenon DEF PeerClose
<1>6. ASSUME NEW j \in Conns, OnClose(j)
      PROVE  Goal
  <2>1. \E step \in {"status", "register", "done"} : close' = [close EXCEPT ![j] = step]
    BY <1>6, Zenon DEF OnClose, RemoveFromManager, UpdateStatus, Register
  <2> QED
    BY <1>6, <2>1, <1>t, ZenonT(40), SMTT(30) DEF TypeOK
<1>7. ASSUME NEW c \in Containers, HandleDisconnect(c) \/ CloseAllConnections(c)
      PROVE  Goal
  <2>1. cm[c] = NoConn \/ cm[c] \in Conns
    BY <1>t, Zenon DEF TypeOK
  <2>2. close' = close \/ (cm[c] # NoConn /\ close' = CloseOn(cm[c], close))
    BY <1>7, Zenon DEF HandleDisconnect, CloseAllConnections
  <2> QED
    BY <1>7, <1>o, <2>1, <2>2, Zenon
<1>8. ASSUME NEW j \in Conns, Timer(j) \/ UpdateHeartBeat(j)
      PROVE  close' = close
  BY <1>8, Zenon DEF Timer, TimerElapses, ExpireEntry, CancelWins, OnExpired, UpdateHeartBeat, hooks
<1>9. ASSUME NEW c \in Containers,
             \/ HandleResume(c) \/ LoseMessage(c) \/ Unsubscribe(c) \/ MarkShuttingDown(c)
             \/ ListConnections(c) \/ UpdateStatusTransferring(c) \/ HubShutdown(c)
      PROVE  close' = close
  BY <1>9, Zenon DEF HandleResume, LoseMessage, Unsubscribe, MarkShuttingDown, ListConnections,
     UpdateStatusTransferring, HubShutdown, hooks
<1>10. HeartbeatLapses \/ CleanUpExpired \/ UNCHANGED vars => close' = close
  BY Zenon DEF HeartbeatLapses, CleanUpExpired, vars, hooks
<1>11. ASSUME close' = close
       PROVE  Goal
  BY <1>11, Zenon
<1>12. Goal
  <2> HIDE DEF Goal
  <2>1. ASSUME NEW j \in Conns, OnNew(j)
        PROVE  Goal
    BY <2>1, <1>2, <1>3, <1>4, <1>11, Zenon DEF OnNew
  <2>2. ASSUME NEW c \in Containers,
               Subscriber(c) \/ LoseMessage(c) \/ Unsubscribe(c) \/ ShutdownStep(c)
        PROVE  Goal
    BY <2>2, <1>7, <1>9, <1>11, Zenon DEF Subscriber, ShutdownStep
  <2> QED
    BY <2>1, <2>2, <1>1, <1>5, <1>6, <1>8, <1>10, <1>11, Zenon DEF Next
<1> QED
  BY <1>12, Zenon

-----------------------------------------------------------------------------
(* One connection at a time *)

\* An ended connection stays so.
LEMMA EndedStays ==
    ASSUME SeqInv, [Next]_vars, NEW k \in Conns, Ended(k)
    PROVE  Ended(k)'
<1>1. new[k] # "none" /\ ~Connecting(k) /\ close[k] = "done"
  BY Zenon DEF Ended, Connecting, SeqInv, OneAtATime, IInv, OpenedBeforeUse
<1>2. new'[k] = new[k] /\ close'[k] = "done"
  BY <1>1, HooksAdvance, Zenon DEF SeqInv
<1> QED
  BY <1>1, <1>2, Zenon DEF Ended, Connecting

\* Without overlapping hooks, the next connection comes after the last one ended.
LEMMA OneAtATimeStep ==
    ASSUME Sequential, SeqInv, [Next]_vars
    PROVE  OneAtATime'
<1>1. ASSUME NEW k \in Conns
      PROVE  new'[k] # "failed"
  BY HooksAdvance, Zenon DEF SeqInv, OneAtATime, Sequential
<1>2. ASSUME NEW j \in Conns, NEW k \in Conns, j # k, new[j] = "none", new'[j] # "none", new'[k] # "none"
      PROVE  Ended(k)'
  <2>1. PICK c \in Containers : Accept(j, c)
    BY <1>2, HooksAdvance, Zenon DEF SeqInv
  <2>2. new[k] # "none"
    BY <1>2, <2>1, ZenonT(40), SMTT(30) DEF Accept, SeqInv, IInv, HubEntriesAreTimed, TypeOK
  <2>3. Ended(k)
    BY <2>1, <2>2, Zenon DEF Accept, Sequential
  <2> QED
    BY <2>3, EndedStays, Zenon
<1>3. ASSUME NEW j \in Conns, NEW k \in Conns, j # k, new'[j] # "none", new'[k] # "none"
      PROVE  Ended(j)' \/ Ended(k)'
  <2>1. CASE new[j] = "none" \/ new[k] = "none"
    BY <2>1, <1>2, <1>3, Zenon
  <2>2. CASE new[j] # "none" /\ new[k] # "none"
    <3>1. Ended(j) \/ Ended(k)
      BY <1>3, <2>2, Zenon DEF SeqInv, OneAtATime
    <3> QED
      BY <3>1, EndedStays, Zenon
  <2> QED
    BY <2>1, <2>2, Zenon
<1> QED
  BY <1>1, <1>3, Zenon DEF OneAtATime

\* A connection that is in the middle of its hooks is the only one.
LEMMA OnlyOne ==
    ASSUME SeqInv, NEW j \in Conns, NEW k \in Conns,
           new[j] # "none", ~Ended(j), new[k] # "none", ~Ended(k)
    PROVE  j = k
BY Zenon DEF SeqInv, OneAtATime

\* The shutdown's statement takes the holder out.
LEMMA TransferUnroutes ==
    ASSUME Sequential, TypeOK, NEW c \in Containers, UpdateStatusTransferring(c)
    PROVE  NotRouted'
<1>1. rec' = IF rec = NoRecord THEN rec ELSE [rec EXCEPT !.status = "Transferring", !.holder = NoHolder]
  BY Zenon DEF UpdateStatusTransferring, Sequential
<1>2. CASE rec = NoRecord
  BY <1>1, <1>2, Zenon DEF NotRouted
<1>3. CASE rec # NoRecord
  BY <1>1, <1>3, RecordWrites, Zenon DEF NotRouted
<1> QED
  BY <1>2, <1>3, Zenon

\* A record that routes nowhere stays so until onNew or onClose writes it.
LEMMA NotRoutedStays ==
    ASSUME Sequential, TypeOK, [Next]_vars, NotRouted,
           ~\E k \in Conns : UpsertRecord(k) \/ UpdateStatus(k)
    PROVE  NotRouted'
<1>1. ASSUME NEW k \in Conns, UpdateHeartBeat(k)
      PROVE  NotRouted'
  BY <1>1, RecordWrites, Zenon DEF UpdateHeartBeat, NotRouted
<1>2. ASSUME HeartbeatLapses
      PROVE  NotRouted'
  BY <1>2, RecordWrites, Zenon DEF HeartbeatLapses, NotRouted
<1>3. ASSUME NEW k \in Conns, OnExpired(k)
      PROVE  NotRouted'
  BY <1>3, Zenon DEF OnExpired, NotRouted, Sequential
<1>4. ASSUME NEW c \in Containers, UpdateStatusTransferring(c)
      PROVE  NotRouted'
  BY <1>4, TransferUnroutes, Zenon
<1>5. CASE CleanUpExpired
  BY <1>5, Zenon DEF CleanUpExpired, NotRouted
<1>6. CASE rec' = rec
  BY <1>6, Zenon DEF NotRouted
<1> QED
  BY <1>1, <1>2, <1>3, <1>4, <1>5, <1>6, RecordMoves, Zenon

\* While a connection of a container that shuts down waits to be closed or is
\* being closed, nobody else writes the record.
LEMMA NobodyElseRoutes ==
    ASSUME SeqInv, NEW k \in Conns, new[k] # "none", ~Connecting(k), close[k] \in {"none", "remove"}
    PROVE  ~\E j \in Conns : UpsertRecord(j) \/ UpdateStatus(j)
<1> SUFFICES ASSUME NEW j \in Conns, UpsertRecord(j) \/ UpdateStatus(j)
             PROVE  FALSE
  BY Zenon
<1>1. new[j] # "none" /\ ~Ended(j) /\ (Connecting(j) \/ close[j] = "status")
  BY Zenon DEF UpsertRecord, UpdateStatus, Connecting, Ended, SeqInv, IInv, OpenedBeforeUse
<1>2. ~Ended(k)
  BY Zenon DEF Ended, SeqInv, OneAtATime
<1> QED
  BY <1>1, <1>2, OnlyOne, Zenon

\* Who publishes does so to a running container.
LEMMA QueuesOfRunning ==
    ASSUME SeqInv, [Next]_vars, NEW c \in Containers, phase'[c] # "run"
    PROVE  net'[c] = << >>
<1>t. TypeOK
  BY Zenon DEF SeqInv, IInv, HubEntriesAreTimed
<1>q. phase[c] # "run" => net[c] = << >>
  BY Zenon DEF SeqInv, QuietShutdown
<1>p. ASSUME NEW d \in Containers, NEW msg, Publish(d, msg), phase' = phase
      PROVE  net'[c] = << >>
  BY <1>p, <1>t, <1>q, Zenon DEF Publish, TypeOK
<1>1. ASSUME NEW k \in Conns, OnNew(k)
      PROVE  net'[c] = << >>
  <2>1. phase' = phase
    BY <1>1, Zenon DEF OnNew, CloseDuplicate, LookupPrevious, DisconnectLocal, DisconnectRemote,
       ResumeSession, UpsertRecord, AddToManager, FinishOnNew
  <2>2. CASE net' = net
    BY <2>1, <2>2, <1>q, Zenon
  <2>3. CASE DisconnectRemote(k)
    <3>1. Visible => rec.holder \in Containers \cup {NoHolder}
      BY <1>t, RecordWrites, Zenon DEF Visible
    <3> QED
      BY <3>1, <2>1, <2>2, <2>3, <1>p, Zenon DEF DisconnectRemote
  <2>4. CASE ResumeSession(k)
    <3>1. seen[k] \in Containers \cup {NoHolder}
      BY <1>t, Zenon DEF TypeOK
    <3> QED
      BY <3>1, <2>1, <2>2, <2>4, <1>p, Zenon DEF ResumeSession
  <2> QED
    BY <1>1, <2>2, <2>3, <2>4, Zenon DEF OnNew, CloseDuplicate, LookupPrevious, DisconnectLocal,
       UpsertRecord, AddToManager, FinishOnNew
<1>2. ASSUME NEW d \in Containers, LoseMessage(d) \/ Subscriber(d)
      PROVE  net'[c] = << >>
  BY <1>2, <1>q, <1>t, Zenon DEF LoseMessage, Subscriber, HandleResume, HandleDisconnect, Handling,
     TypeOK
<1>3. ASSUME NEW d \in Containers, Unsubscribe(d)
      PROVE  net'[c] = << >>
  BY <1>3, <1>q, <1>t, Zenon DEF Unsubscribe, TypeOK
<1>4. ASSUME NEW d \in Containers, ShutdownStep(d)
      PROVE  net'[c] = << >>
  BY <1>4, <1>q, <1>t, ZenonT(40), SMTT(30) DEF ShutdownStep, MarkShuttingDown, ListConnections,
     UpdateStatusTransferring, CloseAllConnections, HubShutdown, TypeOK
<1>5. ASSUME UNCHANGED <<net, phase>>
      PROVE  net'[c] = << >>
  BY <1>5, <1>q, Zenon
<1>6. ASSUME NEW k \in Conns, PeerClose(k) \/ OnClose(k) \/ Timer(k) \/ UpdateHeartBeat(k)
      PROVE  UNCHANGED <<net, phase>>
  BY <1>6, Zenon DEF PeerClose, OnClose, RemoveFromManager, UpdateStatus, Register, Timer, TimerElapses,
     ExpireEntry, CancelWins, OnExpired, UpdateHeartBeat
<1>7. ASSUME NEW k \in Conns, NEW d \in Containers, Accept(k, d)
      PROVE  UNCHANGED <<net, phase>>
  BY <1>7, Zenon DEF Accept
<1>8. HeartbeatLapses \/ CleanUpExpired \/ UNCHANGED vars => UNCHANGED <<net, phase>>
  BY Zenon DEF HeartbeatLapses, CleanUpExpired, vars
<1> QED
  BY <1>1, <1>2, <1>3, <1>4, <1>5, <1>6, <1>7, <1>8, Zenon DEF Next

\* A container that shuts down closes only what it has handed over.
LEMMA QuietConnection ==
    ASSUME Sequential, SeqInv, [Next]_vars, NEW k \in Conns, new'[k] # "none", phase'[at'[k]] # "run"
    PROVE  /\ ~Connecting(k)'
           /\ close'[k] \in {"none", "remove", "done"}
           /\ close'[k] = "remove" => phase'[at'[k]] = "stopped" /\ NotRouted'
<1>t. TypeOK /\ IInv
  BY Zenon DEF SeqInv, IInv, HubEntriesAreTimed
<1>1. new[k] # "none" /\ at'[k] = at[k] /\ at[k] \in Containers
  <2>1. ASSUME NEW c \in Containers, Accept(k, c)
        PROVE  FALSE
    BY <1>t, <2>1, Zenon DEF Accept, TypeOK
  <2>2. new[k] # "none"
    BY <1>t, <2>1, HooksAdvance, Zenon
  <2> QED
    BY <2>2, <1>t, HooksAdvance, Zenon DEF IInv, OpenedBeforeUse
<1>2. CASE phase[at[k]] = "run"
  <2>1. Unsubscribe(at[k])
    BY <1>1, <1>2, <1>t, PhaseMoves, Zenon DEF MarkShuttingDown, ListConnections,
       UpdateStatusTransferring, CloseAllConnections
  <2>2. ~Connecting(k) /\ close[k] \in {"none", "done"} /\ new' = new /\ close' = close
    BY <2>1, <1>t, Zenon DEF Unsubscribe, Sequential, Closing, TypeOK, hooks
  <2> QED
    BY <2>2, Zenon DEF Connecting
<1>3. CASE phase[at[k]] # "run"
  <2>1. /\ ~Connecting(k)
        /\ close[k] \in {"none", "remove", "done"}
        /\ close[k] = "remove" => phase[at[k]] = "stopped" /\ NotRouted
    BY <1>1, <1>3, Zenon DEF SeqInv, QuietShutdown
  <2>2. ~Connecting(k)'
    BY <2>1, <1>1, <1>t, HooksAdvance, Zenon DEF Connecting
  <2>3. CASE close[k] = "done"
    BY <2>2, <2>3, <1>t, HooksAdvance, Zenon
  <2>4. CASE close[k] = "remove"
    <3>1. ~\E j \in Conns : UpsertRecord(j) \/ UpdateStatus(j)
      BY <1>1, <2>1, <2>4, NobodyElseRoutes, Zenon
    <3>2. NotRouted'
      BY <3>1, <2>1, <2>4, <1>t, NotRoutedStays, Zenon
    <3>3. phase'[at[k]] = "stopped"
      BY <2>1, <2>4, <1>1, <1>t, PhaseMoves, Zenon DEF Unsubscribe, MarkShuttingDown, ListConnections,
         UpdateStatusTransferring, CloseAllConnections
    <3>4. OnClose(k) => close'[k] = "done"
      BY <2>1, <2>4, <1>t, Zenon DEF OnClose, RemoveFromManager, UpdateStatus, Register, TypeOK
    <3>5. close'[k] \in {"remove", "done"}
      BY <2>4, <3>4, <1>t, CloseMoves, Zenon
    <3> QED
      BY <2>2, <3>2, <3>3, <3>5, <1>1, Zenon
  <2>5. CASE close[k] = "none"
    <3>1. ASSUME close'[k] # "none"
          PROVE  CloseAllConnections(at[k]) /\ cm[at[k]] = k /\ close'[k] = "remove"
      <4>1. ~OnClose(k)
        BY <2>5, Zenon DEF OnClose, RemoveFromManager, UpdateStatus, Register
      <4>2. ~PeerClose(k)
        BY <1>3, Zenon DEF PeerClose, Sequential
      <4>3. ASSUME NEW j \in Conns, cm[at[j]] = k, at[j] \in Containers, CloseDuplicate(j) \/ DisconnectLocal(j)
            PROVE  FALSE
        <5>1. at[j] = at[k]
          BY <4>3, <1>t, NeverNoConn, Zenon DEF IInv, EntriesAreLocal
        <5>2. Connecting(j) /\ new[j] # "none"
          BY <4>3, Zenon DEF CloseDuplicate, DisconnectLocal, Connecting
        <5> QED
          BY <5>1, <5>2, <1>3, Zenon DEF SeqInv, QuietShutdown
      <4>4. ASSUME NEW c \in Containers, cm[c] = k
            PROVE  c = at[k]
        BY <4>4, <1>t, NeverNoConn, Zenon DEF IInv, EntriesAreLocal
      <4>5. ~HandleDisconnect(at[k])
        BY <1>1, <1>3, Zenon DEF HandleDisconnect, Handling, SeqInv, QuietShutdown
      <4>6. "dbError" \notin Faults
        BY Zenon DEF Sequential
      <4> QED
        BY <2>5, <3>1, <4>1, <4>2, <4>3, <4>4, <4>5, <4>6, <1>t, CloseMoves, ZenonT(40), SMTT(30)
    <3>2. ASSUME CloseAllConnections(at[k]), cm[at[k]] = k
          PROVE  phase'[at[k]] = "stopped" /\ NotRouted'
      <4>1. NotRouted
        BY <3>2, <2>5, <1>1, NeverNoConn, Zenon DEF SeqInv, HandedOverFirst, CloseAllConnections
      <4> QED
        BY <4>1, <3>2, <1>1, <1>t, Zenon DEF CloseAllConnections, NotRouted, TypeOK
    <3> QED
      BY <3>1, <3>2, <2>2, <1>1, Zenon
  <2> QED
    BY <2>1, <2>3, <2>4, <2>5, Zenon
<1> QED
  BY <1>2, <1>3, Zenon

\* A container closes its connections only once the record is not routed to it.
LEMMA HandedOverStep ==
    ASSUME Sequential, SeqInv, [Next]_vars
    PROVE  HandedOverFirst'
<1> SUFFICES ASSUME NEW c \in Containers,
                    phase'[c] = "closing", cm'[c] # NoConn, close'[cm'[c]] = "none"
             PROVE  NotRouted'
  BY Zenon DEF HandedOverFirst
<1>t. TypeOK /\ IInv
  BY Zenon DEF SeqInv, IInv, HubEntriesAreTimed
<1>1. phase[c] \notin {"run", "unsubscribed"}
  BY <1>t, PhaseMoves, Zenon DEF Unsubscribe, MarkShuttingDown, ListConnections,
     UpdateStatusTransferring, CloseAllConnections
<1>2. cm'[c] = cm[c]
  <2>1. ASSUME NEW k \in Conns, AddToManager(k)
        PROVE  at[k] # c /\ at[k] \in Containers
    BY <2>1, <1>1, <1>t, Zenon DEF AddToManager, Connecting, SeqInv, QuietShutdown, IInv,
       OpenedBeforeUse
  <2>2. ASSUME NEW k \in Conns, RemoveFromManager(k)
        PROVE  cm'[c] \in {cm[c], NoConn}
    BY <2>2, <1>t, ZenonT(40), SMTT(30) DEF RemoveFromManager, TypeOK
  <2> QED
    BY <2>1, <2>2, <1>t, ManagerMoves DEF AddToManager, TypeOK
<1>3. PICK k \in Conns : k = cm[c]
  BY <1>2, <1>t, Zenon DEF TypeOK
<1>4. /\ new[k] # "none" /\ at[k] = c /\ ~Connecting(k)
      /\ close[k] = "none"
  <2>1. new[k] # "none" /\ at[k] = c
    BY <1>3, <1>t, NeverNoConn, Zenon DEF IInv, EntriesAreLocal
  <2> QED
    BY <2>1, <1>1, <1>2, <1>3, <1>t, HooksAdvance DEF SeqInv, QuietShutdown
<1>5. CASE phase[c] = "closing"
  <2>1. NotRouted
    BY <1>3, <1>4, <1>5, NeverNoConn, Zenon DEF SeqInv, HandedOverFirst
  <2>2. ~\E j \in Conns : UpsertRecord(j) \/ UpdateStatus(j)
    BY <1>4, NobodyElseRoutes, Zenon
  <2> QED
    BY <2>1, <2>2, <1>t, NotRoutedStays, Zenon
<1>6. CASE phase[c] # "closing"
  <2>1. UpdateStatusTransferring(c)
    BY <1>6, <1>2, <1>t, PhaseMoves, Zenon
  <2> QED
    BY <2>1, <1>t, TransferUnroutes, Zenon
<1> QED
  BY <1>5, <1>6, Zenon

\* Before the first connection nothing has to be handed over.
LEMMA InitSeqInv == Init => SeqInv
BY InitIInv, ZenonT(40), SMTT(30) DEF Init, SeqInv, OneAtATime, QuietShutdown, HandedOverFirst

\* Every step of a sequential deployment keeps the invariant.
LEMMA NextSeqInv == Sequential /\ SeqInv /\ [Next]_vars => SeqInv'
<1> SUFFICES ASSUME Sequential, SeqInv, [Next]_vars
             PROVE  SeqInv'
  BY Zenon
<1>1. IInv'
  BY NextIInv, Zenon DEF SeqInv
<1>2. QuietShutdown'
  BY QuietConnection, QueuesOfRunning, Zenon DEF QuietShutdown
<1> QED
  BY <1>1, <1>2, OneAtATimeStep, HandedOverStep, Zenon DEF SeqInv

\* While connections follow each other, do not race with a shutdown, and the
\* database answers, an onClose that returns early because its container shuts
\* down leaves a record that the shutdown has handed over.
THEOREM ShutdownHandsOverThm == Sequential => (Spec => ShutdownHandsOverBeforeClose)
<1> SUFFICES ASSUME Sequential
             PROVE  Spec => ShutdownHandsOverBeforeClose
  BY Zenon
<1>1. Init => SeqInv
  BY InitSeqInv, Zenon
<1>2. SeqInv /\ [Next]_vars => SeqInv'
  BY NextSeqInv, Zenon
<1>3. SeqInv /\ [Next]_vars =>
        [\A k \in Conns : close[k] = "remove" /\ close'[k] = "done" /\ rec # NoRecord
                             => rec.status = "Transferring"]_vars
  <2> SUFFICES ASSUME SeqInv, [Next]_vars, NEW k \in Conns,
                      close[k] = "remove", close'[k] = "done", rec # NoRecord
               PROVE  rec.status = "Transferring"
    BY Zenon
  <2>1. IInv /\ TypeOK
    BY Zenon DEF SeqInv, IInv, HubEntriesAreTimed
  <2>2. RemoveFromManager(k)
    BY <2>1, CloseMoves, Zenon DEF OnClose, UpdateStatus, Register
  <2>3. phase[at[k]] \notin {"run", "unsubscribed"}
    BY <2>1, <2>2, Zenon DEF RemoveFromManager, TypeOK
  <2>4. new[k] # "none"
    BY <2>1, Zenon DEF IInv, OpenedBeforeUse
  <2> QED
    BY <2>3, <2>4, Zenon DEF SeqInv, QuietShutdown, NotRouted
<1> QED
  BY <1>1, <1>2, <1>3, PTL DEF Spec, ShutdownHandsOverBeforeClose

-----------------------------------------------------------------------------
(* In a calm environment *)

Calm == Faults \subseteq {"refuse", "delay"}

\* The record as onNew of k wrote it.
ClaimedBy(k) == rec # NoRecord /\ rec.holder = at[k] /\ rec.status = "Connected"

Over(k) == new[k] = "none" \/ (new[k] = "open" /\ close[k] = "done")

\* What the next step of a connection relies on: nobody has changed what its
\* steps so far have written.
FindsItsOwn(k) ==
    /\ new[k] \in {"none", "dedup", "lookup", "resume", "upsert", "add", "drain", "open"}
    /\ new[k] # "open" => close[k] = "none"
    /\ new[k] \in {"add", "drain"} => ClaimedBy(k)
    /\ new[k] = "drain" => cm[at[k]] = k
    /\ Live(k) => /\ cm[at[k]] = k
                  /\ phase[at[k]] # "stopped"
                  /\ phase[at[k]] # "closing" => ClaimedBy(k)
    /\ close[k] = "remove" /\ phase[at[k]] = "run" => ClaimedBy(k)
    /\ close[k] = "status" => ClaimedBy(k)
    /\ close[k] = "register" =>
          rec # NoRecord /\ rec.holder = at[k] /\ rec.status = "TempDisconnected"

\* Nothing is left in a ConnectionManager by a connection that is over.
ManagerHoldsCurrent ==
    \A c \in Containers :
        /\ cm[c] # NoConn => new[cm[c]] \in {"drain", "open"} /\ close[cm[c]] \in {"none", "remove"}
        /\ phase[c] = "transferring" => cm[c] # NoConn

\* Whoever finds the record Connected finds a connection that is not over.
ConnectedIsCurrent ==
    rec # NoRecord =>
        /\ rec.fresh
        /\ rec.status = "Connected" =>
              \E k \in Conns : ~Over(k) /\ new[k] \in {"add", "drain", "open"}

\* The connection whose timer it is left the session last, and whoever resumes
\* it will see so.
Resumable(j) ==
    /\ rec # NoRecord /\ rec.status = "TempDisconnected" /\ rec.holder = at[j]
    /\ \A k \in Conns :
          /\ Over(k) \/ new[k] \in {"dedup", "lookup", "resume"}
          /\ new[k] = "resume" => seen[k] = at[j]

\* A timer of a running container is that of a session that is away, or a
\* ResumeSession message that will cancel it is on its way.
TimersAreResumable ==
    \A j \in Conns : timer[j] = "armed" /\ phase[at[j]] = "run" =>
        net[at[j]] # << >> \/ Resumable(j)

\* Nothing else goes on when a session expires.
ExpiryIsAlone ==
    \A j \in Conns : timer[j] \in {"elapsed", "expiring"} =>
        /\ \A k \in Conns : Over(k)
        /\ \A c \in Containers : net[c] = << >>
        /\ \A i \in Conns \ {j} :
              /\ timer[i] \notin {"elapsed", "expiring"}
              /\ timer[i] = "armed" => phase[at[i]] # "run"

CalmInv ==
    /\ SeqInv
    /\ net \in [Containers -> Seq({"resume"})]
    /\ \A k \in Conns : FindsItsOwn(k)
    /\ ManagerHoldsCurrent /\ ConnectedIsCurrent
    /\ TimersAreResumable /\ ExpiryIsAlone

-----------------------------------------------------------------------------
(* What holds of a connection that is under way *)

\* The setting of the lemmas on the single actions.
CalmStep == CalmInv /\ [Next]_vars /\ Calm /\ SeqInv'

\* A calm deployment is a sequential one.
LEMMA CalmIsSequential == Calm => Sequential
BY Zenon DEF Calm, Sequential

\* A connection that is over has nothing to rely on.
LEMMA OverFinds ==
    ASSUME CalmStep, NEW k \in Conns, Over(k)'
    PROVE  FindsItsOwn(k)'
BY Zenon DEF CalmStep, Over, FindsItsOwn, Live, SeqInv, IInv, OpenedBeforeUse

\* A connection that is not over is alone.
LEMMA Alone ==
    ASSUME CalmInv, NEW k \in Conns, ~Over(k)
    PROVE  /\ \A j \in Conns : j # k => Over(j)
           /\ \A c \in Containers : cm[c] # NoConn => cm[c] = k /\ at[k] = c
           /\ \A j \in Conns : timer[j] \notin {"elapsed", "expiring"}
           /\ new[k] # "none" /\ at[k] \in Containers
           /\ Connecting(k) => phase[at[k]] = "run"
<1>1. ASSUME NEW j \in Conns, ~Over(j)
      PROVE  new[j] # "none" /\ ~Ended(j)
  BY <1>1, Zenon DEF CalmInv, FindsItsOwn, Over, Ended, Connecting
<1>2. \A j \in Conns : j # k => Over(j)
  BY <1>1, OnlyOne, Zenon DEF CalmInv
<1>3. ASSUME NEW c \in Containers, cm[c] # NoConn
      PROVE  cm[c] = k /\ at[k] = c
  <2>1. cm[c] \in Conns
    BY <1>3, Zenon DEF CalmInv, SeqInv, IInv, HubEntriesAreTimed, TypeOK
  <2>2. ~Over(cm[c])
    BY <1>3, Zenon DEF CalmInv, ManagerHoldsCurrent, Over
  <2> QED
    BY <1>2, <1>3, <2>1, <2>2, Zenon DEF CalmInv, SeqInv, IInv, EntriesAreLocal
<1>4. \A j \in Conns : timer[j] \notin {"elapsed", "expiring"}
  BY Zenon DEF CalmInv, ExpiryIsAlone
<1>5. new[k] # "none" /\ at[k] \in Containers
  BY <1>1, Zenon DEF CalmInv, SeqInv, IInv, OpenedBeforeUse
<1>6. Connecting(k) => phase[at[k]] = "run"
  BY <1>5, Zenon DEF CalmInv, SeqInv, QuietShutdown
<1> QED
  BY <1>2, <1>3, <1>4, <1>5, <1>6, Zenon

\* A connection that has got as far as claiming the session leaves nothing to
\* resume: the timers of the past have their message under way.
LEMMA NothingToResume ==
    ASSUME CalmInv, NEW k \in Conns, ~Over(k), new[k] \notin {"dedup", "lookup", "resume"}
    PROVE  \A j \in Conns : ~Resumable(j)
BY Zenon DEF Resumable

\* A timer says where its connection was.
LEMMA TimerIsPlaced ==
    ASSUME IInv, NEW j \in Conns, timer[j] # "off"
    PROVE  new[j] # "none" /\ at[j] \in Containers /\ close[j] = "done"
BY Zenon DEF IInv, OpenedBeforeUse

\* What a step of a hook leaves to show, when hub, queues and phases stay.
LEMMA OwnStep ==
    ASSUME CalmStep, NEW k \in Conns,
           ~Over(k) \/ \A j \in Conns : timer[j] \notin {"elapsed", "expiring"},
           \A j \in Conns : j # k => Over(j),
           \A j \in Conns : j # k => new'[j] = new[j] /\ close'[j] = close[j],
           UNCHANGED <<reg, timer, net, phase>>,
           \A j \in Conns : Resumable(j) /\ timer[j] = "armed" => Resumable(j)',
           FindsItsOwn(k)', ManagerHoldsCurrent', ConnectedIsCurrent'
    PROVE  CalmInv'
<1>i. CalmInv /\ IInv /\ [Next]_vars
  BY Zenon DEF CalmStep, CalmInv, SeqInv
<1>1. \A j \in Conns : FindsItsOwn(j)'
  BY OverFinds, Zenon DEF Over
<1>2. ExpiryIsAlone'
  BY <1>i, Alone, Zenon DEF ExpiryIsAlone
<1>3. TimersAreResumable'
  <2> SUFFICES ASSUME NEW j \in Conns, timer'[j] = "armed", phase'[at'[j]] = "run"
               PROVE  net'[at'[j]] # << >> \/ Resumable(j)'
    BY Zenon DEF TimersAreResumable
  <2>1. at'[j] = at[j]
    BY <1>i, TimerIsPlaced, HooksAdvance, Zenon
  <2> QED
    BY <2>1, <1>i, Zenon DEF CalmInv, TimersAreResumable
<1>4. net' \in [Containers -> Seq({"resume"})]
  BY <1>i, Zenon DEF CalmInv
<1> QED
  BY <1>1, <1>2, <1>3, <1>4, Zenon DEF CalmInv, CalmStep
-----------------------------------------------------------------------------
(* onNew *)

\* A step of onNew leaves the connection under way; the steps up to
\* ResumeSession leave the record alone, which no one else has claimed.
LEMMA CalmAccept ==
    ASSUME CalmStep, NEW k \in Conns, NEW c \in Containers, Accept(k, c)
    PROVE  CalmInv'
<1>i. CalmInv /\ IInv /\ TypeOK
  BY Zenon DEF CalmStep, CalmInv, SeqInv, IInv, HubEntriesAreTimed
<1>a. /\ new[k] = "none" /\ close[k] = "none"
      /\ new' = [new EXCEPT ![k] = "dedup"] /\ at' = [at EXCEPT ![k] = c]
      /\ UNCHANGED <<seen, waits, close, cm, rec, reg, timer, net, busy, phase>>
  BY <1>i, Zenon DEF Accept, hub, IInv, OpenedBeforeUse
<1>1. /\ \A j \in Conns : j # k => new'[j] = new[j] /\ at'[j] = at[j]
      /\ new'[k] = "dedup"
  BY <1>a, <1>i, Zenon DEF TypeOK
<1>2. \A j \in Conns : Over(j)
  <2> SUFFICES ASSUME NEW j \in Conns, new[j] # "none"
               PROVE  Over(j)
    BY Zenon DEF Over
  <2>1. Ended(j)
    BY Zenon DEF Accept, CalmStep, Calm
  <2> QED
    BY <2>1, <1>i, Zenon DEF Ended, Connecting, Over, CalmInv, FindsItsOwn
<1>3. \A j \in Conns : timer[j] \notin {"elapsed", "expiring"}
  BY Zenon DEF Accept, CalmStep, Calm
<1>4. FindsItsOwn(k)'
  BY <1>a, <1>1, Zenon DEF FindsItsOwn, Live
<1>5. ManagerHoldsCurrent'
  <2>1. \A d \in Containers : cm[d] = NoConn
    <3> SUFFICES ASSUME NEW d \in Containers, cm[d] # NoConn
                 PROVE  FALSE
      BY Zenon
    <3>1. cm[d] \in Conns
      BY <1>i, Zenon DEF TypeOK
    <3>2. ~Over(cm[d])
      BY <1>i, Zenon DEF CalmInv, ManagerHoldsCurrent, Over
    <3> QED
      BY <3>1, <3>2, <1>2, Zenon
  <2> QED
    BY <2>1, <1>a, <1>i, Zenon DEF CalmInv, ManagerHoldsCurrent
<1>6. ConnectedIsCurrent'
  BY <1>2, <1>a, <1>i, ZenonT(40), SMTT(30) DEF CalmInv, ConnectedIsCurrent
<1>7. ASSUME NEW j \in Conns, Resumable(j), timer[j] = "armed"
      PROVE  Resumable(j)'
  <2>1. j # k
    BY <1>7, <1>a, <1>i, TimerIsPlaced, Zenon
  <2> QED
    BY <1>7, <2>1, <1>a, <1>1 DEF Resumable, Over
<1> QED
  BY <1>1, <1>2, <1>3, <1>4, <1>5, <1>6, <1>7, <1>a, OwnStep, Zenon

\* What the steps of onNew have in common.
LEMMA OnNewStep ==
    ASSUME CalmStep, NEW k \in Conns, NEW step \in {"lookup", "resume", "upsert", "add", "drain", "open"},
           Connecting(k), new' = [new EXCEPT ![k] = step], UNCHANGED <<at, close>>
    PROVE  /\ CalmInv /\ IInv /\ TypeOK
           /\ ~Over(k) /\ at[k] \in Containers /\ phase[at[k]] = "run"
           /\ new'[k] = step /\ close'[k] = "none" /\ ~Over(k)'
           /\ \A j \in Conns : j # k => /\ Over(j) /\ Over(j)'
                                        /\ new'[j] = new[j] /\ close'[j] = close[j]
           /\ \A c \in Containers : cm[c] # NoConn => cm[c] = k /\ at[k] = c /\ new[k] = "drain"
           /\ rec # NoRecord => rec.fresh
           /\ rec # NoRecord /\ rec.status = "Connected" => new[k] \in {"add", "drain"}
<1>i. CalmInv /\ IInv /\ TypeOK
  BY Zenon DEF CalmStep, CalmInv, SeqInv, IInv, HubEntriesAreTimed
<1>1. ~Over(k) /\ close[k] = "none"
  BY <1>i, Zenon DEF Connecting, Over, CalmInv, FindsItsOwn
<1>2. /\ new'[k] = step /\ close'[k] = "none"
      /\ \A j \in Conns : j # k => new'[j] = new[j] /\ close'[j] = close[j]
  BY <1>1, <1>i, ZenonT(40), SMTT(30) DEF TypeOK
<1>3. \A j \in Conns : j # k => Over(j) /\ Over(j)'
  BY <1>1, <1>2, <1>i, Alone DEF Over
<1>4. ASSUME NEW c \in Containers, cm[c] # NoConn
      PROVE  cm[c] = k /\ at[k] = c /\ new[k] = "drain"
  BY <1>4, <1>1, <1>i, Alone, ZenonT(40), SMTT(30) DEF CalmInv, ManagerHoldsCurrent, Connecting
<1>5. ASSUME rec # NoRecord, rec.status = "Connected"
      PROVE  new[k] \in {"add", "drain"}
  <2>1. PICK j \in Conns : ~Over(j) /\ new[j] \in {"add", "drain", "open"}
    BY <1>5, <1>i, Zenon DEF CalmInv, ConnectedIsCurrent
  <2> QED
    BY <2>1, <1>3, Zenon DEF Connecting
<1>6. rec # NoRecord => rec.fresh
  BY <1>i, Zenon DEF CalmInv, ConnectedIsCurrent
<1> QED
  BY <1>1, <1>2, <1>3, <1>4, <1>5, <1>6, <1>i, Alone, ZenonT(40), SMTT(30) DEF Over

\* No duplicate is found.
LEMMA CalmDedup ==
    ASSUME CalmStep, NEW k \in Conns, CloseDuplicate(k)
    PROVE  CalmInv'
<1>1. Connecting(k) /\ new[k] = "dedup" /\ new' = [new EXCEPT ![k] = "lookup"] /\ at' = at
  BY Zenon DEF CloseDuplicate, Connecting
<1>2. cm[at[k]] = NoConn
  <2>1. CalmInv /\ ~Over(k)
    BY <1>1, Zenon DEF CalmStep, Over
  <2> QED
    BY <2>1, <1>1, Alone, ZenonT(40), SMTT(30) DEF CalmInv, ManagerHoldsCurrent
<1>3. UNCHANGED <<at, seen, close, cm, rec, reg, timer, net, phase>>
  BY <1>1, <1>2, Zenon DEF CloseDuplicate, hub
<1>s. /\ CalmInv /\ IInv /\ TypeOK
      /\ ~Over(k) /\ new'[k] = "lookup" /\ close'[k] = "none"
      /\ \A j \in Conns : j # k => /\ Over(j) /\ Over(j)'
                                   /\ new'[j] = new[j] /\ close'[j] = close[j]
      /\ \A c \in Containers : cm[c] = NoConn
      /\ rec # NoRecord => rec.fresh /\ rec.status # "Connected"
  BY <1>1, <1>3, OnNewStep, Zenon
<1>4. FindsItsOwn(k)' /\ ConnectedIsCurrent'
  BY <1>s, <1>3, Zenon DEF FindsItsOwn, Live, ConnectedIsCurrent
<1>5. ManagerHoldsCurrent'
  BY <1>s, <1>3, ZenonT(40), SMTT(30) DEF ManagerHoldsCurrent, CalmInv
<1>6. \A j \in Conns : Resumable(j) => Resumable(j)'
  BY <1>s, <1>3 DEF Resumable
<1> QED
  BY <1>s, <1>3, <1>4, <1>5, <1>6, OwnStep, Zenon

\* A record that is found says that the session is away or handed over.
LEMMA CalmLookup ==
    ASSUME CalmStep, NEW k \in Conns, LookupPrevious(k)
    PROVE  CalmInv'
<1>i. CalmInv /\ IInv /\ TypeOK
  BY Zenon DEF CalmStep, CalmInv, SeqInv, IInv, HubEntriesAreTimed
<1>1. Connecting(k) /\ new[k] = "lookup" /\ UNCHANGED <<at, close, cm, rec, reg, timer, net, phase>>
  BY Zenon DEF LookupPrevious, Connecting, hub
<1>2. rec # NoRecord => rec.fresh /\ rec.status # "Connected"
  <2>1. ~Over(k)
    BY <1>1, Zenon DEF Over
  <2> QED
    BY <2>1, <1>1, <1>i, Alone, Zenon DEF CalmInv, ConnectedIsCurrent
<1>3. PICK step \in {"resume", "upsert"} :
         /\ new' = [new EXCEPT ![k] = step]
         /\ step = "resume" => /\ rec # NoRecord /\ rec.status = "TempDisconnected"
                               /\ seen' = [seen EXCEPT ![k] = rec.holder]
         /\ step = "upsert" => rec = NoRecord \/ rec.status = "Transferring"
  BY <1>i, <1>2, LookupOutcome, Zenon DEF Visible, CalmStep, Calm
<1>s. /\ ~Over(k) /\ new'[k] = step /\ close'[k] = "none"
      /\ \A j \in Conns : j # k => /\ Over(j) /\ Over(j)'
                                   /\ new'[j] = new[j] /\ close'[j] = close[j]
      /\ \A c \in Containers : cm[c] = NoConn
  BY <1>1, <1>3, OnNewStep, ZenonT(40), SMTT(30)
<1>4. FindsItsOwn(k)' /\ ConnectedIsCurrent'
  BY <1>s, <1>1, <1>2, Zenon DEF FindsItsOwn, Live, ConnectedIsCurrent
<1>5. ManagerHoldsCurrent'
  BY <1>s, <1>1, <1>i, Zenon DEF ManagerHoldsCurrent, CalmInv
<1>6. ASSUME NEW j \in Conns, Resumable(j)
      PROVE  Resumable(j)'
  <2>1. step = "resume" /\ seen'[k] = at[j]
    BY <1>6, <1>3, <1>i, ZenonT(40), SMTT(30) DEF Resumable, TypeOK
  <2>2. \A i \in Conns : i # k => Over(i)' /\ new'[i] # "resume"
    BY <1>s, Zenon DEF Over
  <2> QED
    BY <1>6, <2>1, <2>2, <1>s, <1>1, Zenon DEF Resumable
<1> QED
  BY <1>s, <1>1, <1>4, <1>5, <1>6, OwnStep, Zenon

\* The upsert claims the session.
LEMMA CalmUpsert ==
    ASSUME CalmStep, NEW k \in Conns, UpsertRecord(k)
    PROVE  CalmInv'
<1>1. /\ Connecting(k) /\ new[k] = "upsert" /\ new' = [new EXCEPT ![k] = "add"]
      /\ rec' = [holder |-> at[k], status |-> "Connected", fresh |-> TRUE]
      /\ UNCHANGED <<at, close, cm, reg, timer, net, phase>>
  BY Zenon DEF UpsertRecord, Connecting, hub, CalmStep, Calm
<1>s. /\ CalmInv /\ IInv /\ TypeOK
      /\ ~Over(k) /\ new'[k] = "add" /\ close'[k] = "none" /\ at[k] \in Containers
      /\ \A j \in Conns : j # k => /\ Over(j)
                                   /\ new'[j] = new[j] /\ close'[j] = close[j]
      /\ \A c \in Containers : cm[c] = NoConn
  BY <1>1, OnNewStep, Zenon
<1>2. rec' # NoRecord
  <2>1. rec' \in Record
    BY <1>1, <1>s, Zenon DEF Record
  <2> QED
    BY <2>1, SessionAssumption, Zenon
<1>3. FindsItsOwn(k)'
  BY <1>s, <1>1, <1>2, Zenon DEF FindsItsOwn, Live, ClaimedBy
<1>4. ConnectedIsCurrent'
  BY <1>s, <1>1, Zenon DEF ConnectedIsCurrent, Over
<1>5. ManagerHoldsCurrent'
  BY <1>s, <1>1, Zenon DEF ManagerHoldsCurrent, CalmInv
<1> QED
  BY <1>s, <1>1, <1>3, <1>4, <1>5, OwnStep, NothingToResume, Zenon

\* AddConnection puts the current connection into the manager.
LEMMA CalmAdd ==
    ASSUME CalmStep, NEW k \in Conns, AddToManager(k)
    PROVE  CalmInv'
<1>1. /\ Connecting(k) /\ new[k] = "add" /\ new' = [new EXCEPT ![k] = "drain"]
      /\ cm' = [cm EXCEPT ![at[k]] = k]
      /\ UNCHANGED <<at, close, rec, reg, timer, net, phase>>
  BY Zenon DEF AddToManager, Connecting, hub
<1>s. /\ CalmInv /\ IInv /\ TypeOK
      /\ ~Over(k) /\ new'[k] = "drain" /\ close'[k] = "none" /\ at[k] \in Containers
      /\ phase[at[k]] = "run"
      /\ \A j \in Conns : j # k => /\ Over(j)
                                   /\ new'[j] = new[j] /\ close'[j] = close[j]
      /\ \A c \in Containers : cm[c] = NoConn
      /\ rec # NoRecord => rec.fresh
  BY <1>1, OnNewStep, Zenon
<1>2. /\ cm'[at[k]] = k
      /\ \A c \in Containers : cm'[c] \in {NoConn, k}
  BY <1>1, <1>s, ZenonT(40), SMTT(30) DEF TypeOK
<1>3. FindsItsOwn(k)'
  <2>1. ClaimedBy(k)
    BY <1>s, <1>1, Zenon DEF CalmInv, FindsItsOwn
  <2> QED
    BY <2>1, <1>s, <1>1, <1>2, Zenon DEF FindsItsOwn, Live, ClaimedBy
<1>4. ConnectedIsCurrent'
  BY <1>s, <1>1, Zenon DEF ConnectedIsCurrent, Over
<1>5. ManagerHoldsCurrent'
  BY <1>s, <1>1, <1>2, Zenon DEF ManagerHoldsCurrent, CalmInv
<1> QED
  BY <1>s, <1>1, <1>3, <1>4, <1>5, OwnStep, NothingToResume, Zenon

\* The end of onNew opens the connection.
LEMMA CalmFinish ==
    ASSUME CalmStep, NEW k \in Conns, FinishOnNew(k)
    PROVE  CalmInv'
<1>1. /\ Connecting(k) /\ new[k] = "drain" /\ new' = [new EXCEPT ![k] = "open"]
      /\ UNCHANGED <<at, close, cm, rec, reg, timer, net, phase>>
  BY Zenon DEF FinishOnNew, Connecting, hub
<1>i. CalmInv /\ IInv /\ TypeOK
  BY Zenon DEF CalmStep, CalmInv, SeqInv, IInv, HubEntriesAreTimed
<1>0. ~Over(k) /\ close[k] = "none"
  BY <1>1, <1>i, Zenon DEF Over, CalmInv, FindsItsOwn
<1>s. /\ new'[k] = "open" /\ close'[k] = "none" /\ at[k] \in Containers
      /\ phase[at[k]] = "run"
      /\ \A j \in Conns : j # k => /\ Over(j)
                                   /\ new'[j] = new[j] /\ close'[j] = close[j]
      /\ rec # NoRecord => rec.fresh
  BY <1>0, <1>1, <1>i, Alone DEF TypeOK, CalmInv, ConnectedIsCurrent
<1>2. \A c \in Containers : cm[c] # NoConn => cm[c] = k
  BY <1>0, <1>i, <1>s, Alone, Zenon
<1>3. FindsItsOwn(k)'
  <2>1. ClaimedBy(k) /\ cm[at[k]] = k
    BY <1>0, <1>i, <1>s, <1>1, Zenon DEF CalmInv, FindsItsOwn
  <2> QED
    BY <2>1, <1>s, <1>1, Zenon DEF FindsItsOwn, Live, ClaimedBy
<1>4. ConnectedIsCurrent'
  BY <1>0, <1>i, <1>s, <1>1, Zenon DEF ConnectedIsCurrent, Over
<1>5. ManagerHoldsCurrent'
  BY <1>0, <1>i, <1>s, <1>1, <1>2, Zenon DEF ManagerHoldsCurrent, CalmInv
<1> QED
  BY <1>0, <1>i, <1>s, <1>1, <1>3, <1>4, <1>5, OwnStep, NothingToResume, Zenon

\* ResumeSession cancels the timer of the session, or sends the message that
\* will.
LEMMA CalmResume ==
    ASSUME CalmStep, NEW k \in Conns, ResumeSession(k)
    PROVE  CalmInv'
<1>1. /\ Connecting(k) /\ new[k] = "resume" /\ new' = [new EXCEPT ![k] = "upsert"]
      /\ UNCHANGED <<at, close, cm, rec, phase>>
  BY Zenon DEF ResumeSession, Connecting
<1>s. /\ CalmInv /\ IInv /\ TypeOK
      /\ ~Over(k) /\ new'[k] = "upsert" /\ close'[k] = "none" /\ at[k] \in Containers
      /\ \A j \in Conns : j # k => Over(j)'
      /\ \A c \in Containers : cm[c] = NoConn
      /\ rec # NoRecord => rec.fresh /\ rec.status # "Connected"
  BY <1>1, OnNewStep, Zenon
<1>2. \A j \in Conns : FindsItsOwn(j)'
  <2>1. FindsItsOwn(k)'
    BY <1>s, <1>1, Zenon DEF FindsItsOwn, Live
  <2> QED
    BY <2>1, <1>s, OverFinds, Zenon
<1>3. ConnectedIsCurrent'
  BY <1>s, <1>1, Zenon DEF ConnectedIsCurrent
<1>4. ManagerHoldsCurrent'
  BY <1>s, <1>1, Zenon DEF ManagerHoldsCurrent, CalmInv
<1>5. seen[k] \in Containers \cup {NoHolder}
  BY <1>s, Zenon DEF TypeOK
<1>6. /\ net' \in [Containers -> Seq({"resume"})]
      /\ \A c \in Containers : net[c] # << >> => net'[c] # << >>
      /\ seen[k] # at[k] /\ seen[k] \in Containers /\ phase[seen[k]] = "run" => net'[seen[k]] # << >>
  <2>1. CASE net' = net /\ ~(seen[k] # at[k] /\ seen[k] \in Containers)
    BY <2>1, <1>s, Zenon DEF CalmInv
  <2>2. CASE seen[k] \in Containers /\ Publish(seen[k], "resume")
    <3>1. net \in [Containers -> Seq({"resume"})]
      BY <1>s, Zenon DEF CalmInv
    <3>2. CASE phase[seen[k]] # "run"
      BY <2>2, <3>1, <3>2, Zenon DEF Publish
    <3>3. CASE phase[seen[k]] = "run"
      <4> DEFINE longer == Append(net[seen[k]], "resume")
      <4>1. longer \in Seq({"resume"}) /\ longer # << >>
        <5>1. net[seen[k]] \in Seq({"resume"})
          BY <2>2, <3>1, Zenon
        <5>2. longer \in Seq({"resume"}) /\ Len(longer) = Len(net[seen[k]]) + 1
          BY <5>1
        <5>3. Len(net[seen[k]]) \in Nat /\ Len(<< >>) = 0
          BY <5>1
        <5> QED
          BY <5>2, <5>3
      <4>2. net' = [net EXCEPT ![seen[k]] = longer]
        BY <2>2, <3>3, Zenon DEF Publish
      <4> HIDE DEF longer
      <4> QED
        BY <2>2, <3>1, <4>1, <4>2, Zenon
    <3> QED
      BY <3>2, <3>3, Zenon
  <2>3. seen[k] = at[k] => net' = net
    BY Zenon DEF ResumeSession
  <2>4. seen[k] # at[k] /\ seen[k] # NoHolder => Publish(seen[k], "resume")
    BY Zenon DEF ResumeSession
  <2>5. seen[k] = NoHolder /\ seen[k] # at[k] => net' = net
    BY Zenon DEF ResumeSession
  <2> QED
    BY <2>1, <2>2, <2>3, <2>4, <2>5, <1>5, SessionAssumption, Zenon
<1>7. \A j \in Conns : /\ timer'[j] \in {timer[j], "off"}
                       /\ seen[k] = at[k] /\ reg[at[k]] = j => timer'[j] # "armed"
  <2>1. reg[at[k]] \in Conns \cup {NoConn}
    BY <1>s, Zenon DEF TypeOK
  <2>2. CASE seen[k] = at[k]
    <3>1. timer' = Cancelled(reg[at[k]], timer)
      BY <2>2, Zenon DEF ResumeSession, Deregister
    <3> QED
      BY <3>1, <2>1, <1>s, CancelledType, ZenonT(40), SMTT(30)
  <2>3. CASE seen[k] # at[k]
    BY <2>3, Zenon DEF ResumeSession
  <2> QED
    BY <2>2, <2>3, Zenon
<1>8. TimersAreResumable'
  <2> SUFFICES ASSUME NEW j \in Conns, timer'[j] = "armed", phase'[at'[j]] = "run"
               PROVE  net'[at[j]] # << >>
    BY <1>1, Zenon DEF TimersAreResumable
  <2>1. timer[j] = "armed" /\ phase[at[j]] = "run" /\ at[j] \in Containers
    BY <1>s, <1>1, <1>7, TimerIsPlaced, Zenon
  <2>2. CASE net[at[j]] # << >>
    BY <2>1, <2>2, <1>6, Zenon
  <2>3. CASE Resumable(j)
    <3>1. seen[k] = at[j]
      BY <2>3, <1>1, Zenon DEF Resumable
    <3>2. reg[at[j]] = j
      BY <2>1, <1>s, Zenon DEF IInv, HubEntriesAreTimed, ArmedTimerIsRegistered
    <3>3. seen[k] # at[k]
      BY <3>1, <3>2, <1>7, Zenon
    <3> QED
      BY <3>1, <3>3, <2>1, <1>6, Zenon
  <2> QED
    BY <2>1, <2>2, <2>3, <1>s, Zenon DEF CalmInv, TimersAreResumable
<1>9. ExpiryIsAlone'
  BY <1>s, <1>7, Alone, Zenon DEF ExpiryIsAlone
<1> QED
  BY <1>2, <1>3, <1>4, <1>6, <1>8, <1>9, Zenon DEF CalmInv, CalmStep

-----------------------------------------------------------------------------
(* onClose *)

\* What the steps of onClose have in common.
LEMMA OnCloseStep ==
    ASSUME CalmStep, NEW k \in Conns, NEW step \in {"remove", "status", "register", "done"},
           new[k] # "none", close[k] # "done", ~Connecting(k),
           close' = [close EXCEPT ![k] = step], UNCHANGED <<at, new>>
    PROVE  /\ CalmInv /\ IInv /\ TypeOK
           /\ ~Over(k) /\ new[k] = "open" /\ new'[k] = "open" /\ at[k] \in Containers
           /\ close'[k] = step
           /\ \A j \in Conns : j # k => /\ Over(j)
                                        /\ new'[j] = new[j] /\ close'[j] = close[j]
           /\ rec # NoRecord => rec.fresh
           /\ \A j \in Conns : ~Resumable(j)
<1>i. CalmInv /\ IInv /\ TypeOK
  BY Zenon DEF CalmStep, CalmInv, SeqInv, IInv, HubEntriesAreTimed
<1>1. ~Over(k) /\ new[k] = "open"
  BY <1>i, Zenon DEF Connecting, Over, CalmInv, FindsItsOwn
<1>2. /\ close'[k] = step
      /\ \A j \in Conns : j # k => new'[j] = new[j] /\ close'[j] = close[j]
  BY <1>i, Zenon DEF TypeOK
<1>3. \A j \in Conns : ~Resumable(j)
  BY <1>1, <1>i, NothingToResume, Zenon
<1>4. rec # NoRecord => rec.fresh
  BY <1>i, Zenon DEF CalmInv, ConnectedIsCurrent
<1> QED
  BY <1>1, <1>2, <1>3, <1>4, <1>i, Alone, Zenon

\* The peer closes the current connection.
LEMMA CalmPeerClose ==
    ASSUME CalmStep, NEW k \in Conns, PeerClose(k)
    PROVE  CalmInv'
<1>i. CalmInv /\ IInv /\ TypeOK
  BY Zenon DEF CalmStep, CalmInv, SeqInv, IInv, HubEntriesAreTimed
<1>1. /\ new[k] # "none" /\ close[k] = "none" /\ ~Connecting(k) /\ phase[at[k]] = "run"
      /\ UNCHANGED <<at, new, seen, cm, rec, reg, timer, net, phase>>
  BY Zenon DEF PeerClose, hub, CalmStep, Calm
<1>2. close' = [close EXCEPT ![k] = "remove"]
  BY <1>1, Zenon DEF PeerClose, CloseOn
<1>s. /\ ~Over(k) /\ new[k] = "open" /\ new'[k] = "open" /\ close'[k] = "remove" /\ at[k] \in Containers
      /\ \A j \in Conns : j # k => /\ Over(j)
                                   /\ new'[j] = new[j] /\ close'[j] = close[j]
      /\ rec # NoRecord => rec.fresh
      /\ \A j \in Conns : ~Resumable(j)
  BY <1>1, <1>2, OnCloseStep, Zenon
<1>3. FindsItsOwn(k)'
  <2>1. ClaimedBy(k)
    BY <1>1, <1>s, <1>i, Zenon DEF CalmInv, FindsItsOwn, Live
  <2> QED
    BY <2>1, <1>1, <1>s, Zenon DEF FindsItsOwn, Live, ClaimedBy
<1>4. ConnectedIsCurrent'
  BY <1>1, <1>s, Zenon DEF ConnectedIsCurrent, Over
<1>5. ManagerHoldsCurrent'
  <2>1. \A c \in Containers : cm[c] # NoConn => cm[c] = k
    BY <1>i, <1>s, Alone, Zenon
  <2> QED
    BY <2>1, <1>1, <1>s, <1>i, Zenon DEF ManagerHoldsCurrent, CalmInv
<1> QED
  BY <1>1, <1>s, <1>3, <1>4, <1>5, OwnStep, Zenon

\* On a container that is running the record still names it; on one that shuts
\* down it was handed over.
LEMMA CalmRemove ==
    ASSUME CalmStep, NEW k \in Conns, RemoveFromManager(k)
    PROVE  CalmInv'
<1>i. CalmInv /\ IInv /\ TypeOK
  BY Zenon DEF CalmStep, CalmInv, SeqInv, IInv, HubEntriesAreTimed
<1>1. /\ close[k] = "remove" /\ new[k] # "none" /\ ~Connecting(k)
      /\ UNCHANGED <<at, new, seen, rec, reg, timer, net, phase>>
      /\ cm' = [cm EXCEPT ![at[k]] = NoConn]
      /\ \E step \in {"status", "done"} : close' = [close EXCEPT ![k] = step]
  BY <1>i, Zenon DEF RemoveFromManager, hub, CalmInv, FindsItsOwn, Connecting, IInv, OpenedBeforeUse
<1>s. /\ ~Over(k) /\ new[k] = "open" /\ new'[k] = "open" /\ at[k] \in Containers
      /\ \A j \in Conns : j # k => /\ Over(j)
                                   /\ new'[j] = new[j] /\ close'[j] = close[j]
      /\ rec # NoRecord => rec.fresh
      /\ \A j \in Conns : ~Resumable(j)
  BY <1>1, OnCloseStep, Zenon
<1>2. CASE phase[at[k]] = "run"
  <2>1. ClaimedBy(k)
    BY <1>1, <1>2, <1>i, Zenon DEF CalmInv, FindsItsOwn
  <2>2. close'[k] = "status"
    BY <1>2, <1>i, Zenon DEF RemoveFromManager, TypeOK
  <2>3. FindsItsOwn(k)'
    BY <2>1, <2>2, <1>1, <1>s, Zenon DEF FindsItsOwn, Live, ClaimedBy
  <2>4. ConnectedIsCurrent'
    BY <2>2, <1>1, <1>s, Zenon DEF ConnectedIsCurrent, Over
  <2>5. ManagerHoldsCurrent'
    <3>1. \A c \in Containers : cm'[c] = NoConn
      BY <1>1, <1>s, <1>i, Alone DEF TypeOK
    <3>2. \A c \in Containers : phase[c] = "transferring" => c # at[k] /\ cm[c] # NoConn
      BY <1>2, <1>i, Zenon DEF CalmInv, ManagerHoldsCurrent
    <3> QED
      BY <3>1, <3>2, <1>1, <1>s, <1>i, Alone, ZenonT(40), SMTT(30) DEF ManagerHoldsCurrent
  <2> QED
    BY <1>1, <1>s, <2>3, <2>4, <2>5, OwnStep, Zenon
<1>3. CASE phase[at[k]] # "run"
  <2>1. phase[at[k]] = "stopped" /\ NotRouted
    BY <1>1, <1>3, <1>i, Zenon DEF CalmInv, SeqInv, QuietShutdown
  <2>2. close'[k] = "done"
    BY <2>1, <1>i, Zenon DEF RemoveFromManager, TypeOK
  <2>3. FindsItsOwn(k)'
    BY <2>2, <1>s, OverFinds, Zenon DEF Over
  <2>4. ConnectedIsCurrent'
    BY <2>1, <1>1, <1>s, Zenon DEF ConnectedIsCurrent, NotRouted
  <2>5. ManagerHoldsCurrent'
    <3>1. \A c \in Containers : cm'[c] = NoConn
      BY <1>1, <1>s, <1>i, Alone DEF TypeOK
    <3>2. \A c \in Containers : phase[c] = "transferring" => c # at[k] /\ cm[c] # NoConn
      BY <2>1, <1>i, Zenon DEF CalmInv, ManagerHoldsCurrent
    <3> QED
      BY <3>1, <3>2, <1>1, <1>s, <1>i, Alone, Zenon DEF ManagerHoldsCurrent
  <2> QED
    BY <1>1, <1>s, <2>3, <2>4, <2>5, OwnStep, Zenon
<1> QED
  BY <1>2, <1>3, Zenon

\* onClose writes the status of the connection that ended.
LEMMA CalmUpdateStatus ==
    ASSUME CalmStep, NEW k \in Conns, UpdateStatus(k)
    PROVE  CalmInv'
<1>i. CalmInv /\ IInv /\ TypeOK
  BY Zenon DEF CalmStep, CalmInv, SeqInv, IInv, HubEntriesAreTimed
<1>1. /\ close[k] = "status" /\ new[k] # "none" /\ ~Connecting(k) /\ ClaimedBy(k)
      /\ UNCHANGED <<at, new, seen, cm, reg, timer, net, phase>>
      /\ close' = [close EXCEPT ![k] = "register"]
  BY <1>i, ZenonT(40), SMTT(30) DEF UpdateStatus, hub, CalmInv, FindsItsOwn, Connecting, IInv,
     OpenedBeforeUse, CalmStep, Calm
<1>2. /\ rec' # NoRecord
      /\ rec'.status = "TempDisconnected" /\ rec'.holder = rec.holder /\ rec'.fresh = rec.fresh
  <2>1. rec # NoRecord
    BY <1>1, Zenon DEF ClaimedBy
  <2>2. rec' = [rec EXCEPT !.status = "TempDisconnected"]
    BY <2>1, Zenon DEF UpdateStatus, CalmStep, Calm
  <2> QED
    BY <2>1, <2>2, <1>i, RecordWrites, SessionAssumption, Zenon
<1>s. /\ ~Over(k) /\ new[k] = "open" /\ new'[k] = "open" /\ close'[k] = "register" /\ at[k] \in Containers
      /\ \A j \in Conns : j # k => /\ Over(j)
                                   /\ new'[j] = new[j] /\ close'[j] = close[j]
      /\ rec # NoRecord => rec.fresh
      /\ \A j \in Conns : ~Resumable(j)
  BY <1>1, OnCloseStep, Zenon
<1>3. FindsItsOwn(k)'
  BY <1>1, <1>2, <1>s, Zenon DEF FindsItsOwn, Live, ClaimedBy
<1>4. ConnectedIsCurrent'
  BY <1>1, <1>2, <1>s, Zenon DEF ConnectedIsCurrent, ClaimedBy
<1>5. ManagerHoldsCurrent'
  <2>1. \A c \in Containers : cm[c] = NoConn
    BY <1>1, <1>i, <1>s, Alone DEF ManagerHoldsCurrent, CalmInv
  <2> QED
    BY <2>1, <1>1, <1>i, ZenonT(40), SMTT(30) DEF ManagerHoldsCurrent, CalmInv
<1> QED
  BY <1>1, <1>s, <1>3, <1>4, <1>5, OwnStep, ZenonT(40), SMTT(30)

\* The timer that Register starts is that of a session that is away.
LEMMA CalmRegister ==
    ASSUME CalmStep, NEW k \in Conns, Register(k)
    PROVE  CalmInv'
<1>i. CalmInv /\ IInv /\ TypeOK
  BY Zenon DEF CalmStep, CalmInv, SeqInv, IInv, HubEntriesAreTimed
<1>1. /\ close[k] = "register" /\ new[k] # "none" /\ ~Connecting(k)
      /\ rec # NoRecord /\ rec.holder = at[k] /\ rec.status = "TempDisconnected"
      /\ UNCHANGED <<at, new, seen, cm, rec, net, phase>>
      /\ close' = [close EXCEPT ![k] = "done"]
  BY <1>i, Zenon DEF Register, CalmInv, FindsItsOwn, Connecting, IInv, OpenedBeforeUse
<1>s. /\ ~Over(k) /\ new[k] = "open" /\ new'[k] = "open" /\ close'[k] = "done" /\ at[k] \in Containers
      /\ \A j \in Conns : j # k => /\ Over(j)
                                   /\ new'[j] = new[j] /\ close'[j] = close[j]
      /\ rec # NoRecord => rec.fresh
      /\ \A j \in Conns : ~Resumable(j)
  BY <1>1, OnCloseStep, Zenon
<1>2. \A j \in Conns : Over(j)'
  BY <1>s, Zenon DEF Over
<1>3. ConnectedIsCurrent'
  BY <1>1, <1>s, Zenon DEF ConnectedIsCurrent
<1>4. ManagerHoldsCurrent'
  <2>1. \A c \in Containers : cm[c] = NoConn
    BY <1>1, <1>i, <1>s, Alone, Zenon DEF ManagerHoldsCurrent, CalmInv
  <2> QED
    BY <2>1, <1>1, <1>i, Zenon DEF ManagerHoldsCurrent, CalmInv
<1>5. \A j \in Conns : /\ j # k => timer'[j] \in {timer[j], "off"}
                       /\ timer'[k] \in {"armed", "refused"}
  <2>1. reg[at[k]] \in Conns \cup {NoConn}
    BY <1>i, <1>s, Zenon DEF TypeOK
  <2> DEFINE old == Cancelled(reg[at[k]], timer)
  <2>2. /\ old \in [Conns -> {"off", "armed", "refused", "elapsed", "expiring"}]
        /\ \A j \in Conns : old[j] \in {timer[j], "off"}
    BY <2>1, <1>i, CancelledType, Zenon
  <2>3. \E t \in {"armed", "refused"} : timer' = [old EXCEPT ![k] = t]
    BY Zenon DEF Register
  <2> HIDE DEF old
  <2> QED
    BY <2>2, <2>3, Zenon
<1>6. ExpiryIsAlone'
  BY <1>5, <1>i, <1>s, Alone, Zenon DEF ExpiryIsAlone
<1>7. TimersAreResumable'
  <2> SUFFICES ASSUME NEW j \in Conns, timer'[j] = "armed", phase'[at'[j]] = "run"
               PROVE  net'[at'[j]] # << >> \/ Resumable(j)'
    BY Zenon DEF TimersAreResumable
  <2>1. CASE j = k
    BY <2>1, <1>1, <1>2, <1>s DEF Resumable, Over
  <2>2. CASE j # k
    BY <2>2, <1>1, <1>5, <1>s, <1>i DEF CalmInv, TimersAreResumable
  <2> QED
    BY <2>1, <2>2, Zenon
<1>8. \A j \in Conns : FindsItsOwn(j)'
  BY <1>2, OverFinds, Zenon
<1> QED
  BY <1>1, <1>3, <1>4, <1>6, <1>7, <1>8, <1>i, ZenonT(40), SMTT(30) DEF CalmInv, CalmStep
-----------------------------------------------------------------------------
(* Containers and timers *)

\* Steps that leave the connections, their entries and the record alone keep
\* what these rely on, unless a shutdown begins or goes on.
LEMMA QuietStep ==
    ASSUME CalmStep, UNCHANGED <<hooks, cm, rec>>,
           net' \in [Containers -> Seq({"resume"})],
           \A c \in Containers : net[c] = << >> => net'[c] = << >>,
           \A c \in Containers :
              \/ phase'[c] = phase[c]
              \/ phase'[c] \in {"unsubscribed", "marked"} /\ phase[c] \in {"run", "unsubscribed"}
              \/ phase'[c] = "transferring" /\ phase[c] = "marked" /\ cm[c] # NoConn
              \/ phase'[c] = "closing" /\ phase[c] = "marked" /\ cm[c] = NoConn,
           \A j \in Conns : timer'[j] \in {timer[j], "off"},
           \A j \in Conns : timer'[j] = "armed" /\ phase'[at[j]] = "run" /\ net[at[j]] # << >>
                              => net'[at[j]] # << >>
    PROVE  CalmInv'
<1>i. CalmInv /\ IInv /\ TypeOK
  BY Zenon DEF CalmStep, CalmInv, SeqInv, IInv, HubEntriesAreTimed
<1>h. at' = at /\ new' = new /\ seen' = seen /\ close' = close /\ cm' = cm /\ rec' = rec
  BY Zenon DEF hooks
<1>o. \A k \in Conns : Over(k)' <=> Over(k)
  BY <1>h, Zenon DEF Over
<1>1. ASSUME NEW k \in Conns
      PROVE  FindsItsOwn(k)'
  <2>1. CASE Over(k)
    BY <2>1, <1>o, OverFinds, Zenon
  <2>2. CASE ~Over(k)
    <3>1. at[k] \in Containers /\ FindsItsOwn(k)
      BY <2>2, <1>i, Alone, Zenon DEF CalmInv
    <3> QED
      BY <3>1, <1>h, NeverNoConn, Zenon DEF FindsItsOwn, Live, ClaimedBy
  <2> QED
    BY <2>1, <2>2, Zenon
<1>2. ManagerHoldsCurrent'
  <2>1. ManagerHoldsCurrent
    BY <1>i, Zenon DEF CalmInv
  <2>2. ASSUME NEW c \in Containers, phase'[c] = "transferring"
        PROVE  phase[c] = "transferring" \/ cm[c] # NoConn
    BY <2>2, Zenon
  <2> QED
    BY <1>h, <2>1, <2>2, ZenonT(40), SMTT(30) DEF ManagerHoldsCurrent
<1>3. ConnectedIsCurrent'
  BY <1>h, <1>i, <1>o, Zenon DEF CalmInv, ConnectedIsCurrent
<1>p. ASSUME NEW j \in Conns, timer[j] # "off", phase'[at[j]] = "run"
      PROVE  phase[at[j]] = "run"
  BY <1>p, <1>i, TimerIsPlaced, Zenon
<1>4. TimersAreResumable'
  <2> SUFFICES ASSUME NEW j \in Conns, timer'[j] = "armed", phase'[at[j]] = "run"
               PROVE  net'[at[j]] # << >> \/ Resumable(j)'
    BY <1>h, Zenon DEF TimersAreResumable
  <2>1. timer[j] = "armed" /\ phase[at[j]] = "run"
    BY <1>p, Zenon
  <2>2. net[at[j]] # << >> \/ Resumable(j)
    BY <2>1, <1>i, Zenon DEF CalmInv, TimersAreResumable
  <2>3. Resumable(j) => Resumable(j)'
    BY <1>h, <1>o, ZenonT(40), SMTT(30) DEF Resumable
  <2> QED
    BY <2>2, <2>3, Zenon
<1>5. ExpiryIsAlone'
  <2> SUFFICES ASSUME NEW j \in Conns, timer'[j] \in {"elapsed", "expiring"}
               PROVE  /\ \A k \in Conns : Over(k)'
                      /\ \A c \in Containers : net'[c] = << >>
                      /\ \A i \in Conns \ {j} :
                            /\ timer'[i] \notin {"elapsed", "expiring"}
                            /\ timer'[i] = "armed" => phase'[at'[i]] # "run"
    BY Zenon DEF ExpiryIsAlone
  <2>1. timer[j] \in {"elapsed", "expiring"}
    BY Zenon
  <2> QED
    BY <2>1, <1>o, <1>h, <1>i, <1>p DEF CalmInv, ExpiryIsAlone
<1> QED
  BY <1>1, <1>2, <1>3, <1>4, <1>5, Zenon DEF CalmInv, CalmStep

\* Deregister stops the timer of the container and no other.
LEMMA DeregisterStops ==
    ASSUME IInv, NEW c \in Containers, Deregister(c)
    PROVE  \A j \in Conns : /\ timer'[j] \in {timer[j], "off"}
                            /\ timer'[j] = "armed" => at[j] # c
<1>1. TypeOK /\ reg[c] \in Conns \cup {NoConn}
  BY Zenon DEF IInv, HubEntriesAreTimed, TypeOK
<1>2. timer' = Cancelled(reg[c], timer)
  BY Zenon DEF Deregister
<1>3. ASSUME NEW j \in Conns
      PROVE  timer'[j] \in {timer[j], "off"} /\ (j = reg[c] => timer'[j] # "armed")
  BY <1>1, <1>2, CancelledType, Zenon
<1>4. ASSUME NEW j \in Conns, timer'[j] = "armed", at[j] = c
      PROVE  FALSE
  BY <1>3, <1>4, Zenon DEF IInv, HubEntriesAreTimed, ArmedTimerIsRegistered
<1> QED
  BY <1>3, <1>4, Zenon

\* A step of the subscription, or of a shutdown before connections are closed.
LEMMA CalmContainer ==
    ASSUME CalmStep, NEW c \in Containers,
           \/ HandleResume(c) \/ HubShutdown(c)
           \/ Unsubscribe(c) \/ MarkShuttingDown(c) \/ ListConnections(c)
    PROVE  CalmInv'
<1>i. CalmInv /\ IInv /\ TypeOK /\ net \in [Containers -> Seq({"resume"})]
  BY Zenon DEF CalmStep, CalmInv, SeqInv, IInv, HubEntriesAreTimed
<1>1. CASE HandleResume(c)
  <2>1. /\ UNCHANGED <<hooks, cm, rec, phase>> /\ net[c] # << >>
        /\ net' = [net EXCEPT ![c] = Tail(@)] /\ Deregister(c)
    BY <1>1, Zenon DEF HandleResume, Handling
  <2>2. Tail(net[c]) \in Seq({"resume"})
    BY <2>1, <1>i
  <2>3. \A d \in Containers : d # c => net'[d] = net[d]
    BY <2>1, <1>i, Zenon
  <2>4. /\ net' \in [Containers -> Seq({"resume"})]
        /\ \A d \in Containers : net[d] = << >> => net'[d] = << >>
    BY <2>1, <2>2, <2>3, <1>i, Zenon
  <2>5. \A j \in Conns : /\ timer'[j] \in {timer[j], "off"}
                         /\ timer'[j] = "armed" => at[j] # c
    BY <2>1, <1>i, DeregisterStops, Zenon
  <2>6. ASSUME NEW j \in Conns, timer'[j] = "armed"
        PROVE  net'[at[j]] = net[at[j]]
    BY <2>3, <2>5, <2>6, <1>i, TimerIsPlaced, Zenon
  <2> QED
    BY <2>1, <2>4, <2>5, <2>6, QuietStep, Zenon
<1>2. CASE HubShutdown(c)
  <2>1. UNCHANGED <<hooks, cm, rec, net, phase>> /\ Deregister(c)
    BY <1>2, Zenon DEF HubShutdown
  <2>2. \A j \in Conns : timer'[j] \in {timer[j], "off"}
    BY <2>1, <1>i, DeregisterStops, Zenon
  <2> QED
    BY <2>1, <2>2, <1>i, QuietStep, Zenon
<1>3. CASE Unsubscribe(c)
  <2>1. /\ UNCHANGED <<hooks, cm, rec, timer>> /\ phase[c] = "run"
        /\ phase' = [phase EXCEPT ![c] = "unsubscribed"] /\ net' = [net EXCEPT ![c] = << >>]
    BY <1>3, Zenon DEF Unsubscribe, hub
  <2>2. /\ \A d \in Containers : d # c => net'[d] = net[d] /\ phase'[d] = phase[d]
        /\ net'[c] = << >> /\ phase'[c] = "unsubscribed"
        /\ net' \in [Containers -> Seq({"resume"})]
    BY <2>1, <1>i DEF TypeOK
  <2>3. ASSUME NEW j \in Conns, timer'[j] = "armed", phase'[at[j]] = "run"
        PROVE  net'[at[j]] = net[at[j]]
    BY <2>1, <2>2, <2>3, <1>i, TimerIsPlaced, Zenon
  <2> QED
    BY <2>1, <2>2, <2>3, QuietStep, Zenon
<1>4. CASE MarkShuttingDown(c)
  <2>1. /\ UNCHANGED <<hooks, cm, rec, timer, net>> /\ phase[c] = "unsubscribed"
        /\ phase' = [phase EXCEPT ![c] = "marked"]
    BY <1>4, Zenon DEF MarkShuttingDown, hub
  <2>2. \A d \in Containers : phase'[d] = phase[d] \/ (d = c /\ phase'[d] = "marked")
    BY <2>1, <1>i, Zenon DEF TypeOK
  <2> QED
    BY <2>1, <2>2, <1>i, QuietStep, Zenon
<1>5. CASE ListConnections(c)
  <2>1. /\ UNCHANGED <<hooks, cm, rec, timer, net>> /\ phase[c] = "marked"
        /\ phase' = [phase EXCEPT ![c] = IF cm[c] = NoConn THEN "closing" ELSE "transferring"]
    BY <1>5, Zenon DEF ListConnections, hub
  <2>2. \A d \in Containers : \/ phase'[d] = phase[d]
                              \/ d = c /\ cm[c] = NoConn /\ phase'[d] = "closing"
                              \/ d = c /\ cm[c] # NoConn /\ phase'[d] = "transferring"
    BY <2>1, <1>i, Zenon DEF TypeOK
  <2> QED
    BY <2>1, <2>2, <1>i, QuietStep, Zenon
<1> QED
  BY <1>1, <1>2, <1>3, <1>4, <1>5, Zenon

\* The connection that is handed over is the one that is served.
LEMMA CalmTransfer ==
    ASSUME CalmStep, NEW c \in Containers, UpdateStatusTransferring(c)
    PROVE  CalmInv'
<1>i. CalmInv /\ IInv /\ TypeOK
  BY Zenon DEF CalmStep, CalmInv, SeqInv, IInv, HubEntriesAreTimed
<1>1. /\ phase[c] = "transferring" /\ phase' = [phase EXCEPT ![c] = "closing"]
      /\ UNCHANGED <<at, new, seen, close, cm, reg, timer, net>>
  BY Zenon DEF UpdateStatusTransferring, hooks, hub
<1>p. phase'[c] = "closing" /\ \A d \in Containers : d # c => phase'[d] = phase[d]
  BY <1>1, <1>i, Zenon DEF TypeOK
<1>2. PICK k \in Conns : cm[c] = k
  BY <1>1, <1>i, ZenonT(40), SMTT(30) DEF CalmInv, ManagerHoldsCurrent, TypeOK
<1>3. ~Over(k) /\ new[k] \in {"drain", "open"} /\ close[k] \in {"none", "remove"}
  BY <1>2, <1>i, NeverNoConn, Zenon DEF CalmInv, ManagerHoldsCurrent, Over
<1>4. /\ at[k] = c /\ new[k] = "open" /\ close[k] = "none"
      /\ \A j \in Conns : j # k => Over(j) /\ Over(j)'
  <2>1. at[k] = c /\ new[k] # "none"
    BY <1>2, <1>3, <1>i, Alone, NeverNoConn, Zenon
  <2>2. ~Connecting(k) /\ close[k] # "remove"
    BY <2>1, <1>1, <1>i, Zenon DEF CalmInv, SeqInv, QuietShutdown
  <2> QED
    BY <2>1, <2>2, <1>1, <1>3, <1>i, Alone, Zenon DEF Connecting, Over
<1>5. rec # NoRecord => rec'.fresh = rec.fresh
  BY <1>i, RecordWrites, Zenon DEF UpdateStatusTransferring
<1>6. NotRouted'
  BY <1>i, TransferUnroutes, CalmIsSequential, Zenon DEF CalmStep
<1>7. rec' # NoRecord => rec # NoRecord
  BY Zenon DEF UpdateStatusTransferring
<1>8. ConnectedIsCurrent'
  BY <1>5, <1>6, <1>7, <1>i, Zenon DEF ConnectedIsCurrent, NotRouted, CalmInv
<1>9. FindsItsOwn(k)'
  BY <1>1, <1>2, <1>4, <1>p, Zenon DEF FindsItsOwn, Live
<1>10. \A j \in Conns : FindsItsOwn(j)'
  BY <1>4, <1>9, OverFinds, Zenon
<1>11. ManagerHoldsCurrent'
  BY <1>1, <1>p, <1>i, Zenon DEF ManagerHoldsCurrent, CalmInv
<1>12. ExpiryIsAlone'
  BY <1>1, <1>3, <1>i, Alone, Zenon DEF ExpiryIsAlone
<1>13. TimersAreResumable'
  <2> SUFFICES ASSUME NEW j \in Conns, timer[j] = "armed", phase'[at[j]] = "run"
               PROVE  net[at[j]] # << >>
    BY <1>1, Zenon DEF TimersAreResumable
  <2>1. phase[at[j]] = "run"
    BY <1>p, <1>i, TimerIsPlaced, Zenon
  <2> QED
    BY <2>1, <1>3, <1>i, NothingToResume, Zenon DEF CalmInv, TimersAreResumable
<1> QED
  BY <1>1, <1>8, <1>10, <1>11, <1>12, <1>13, <1>i, Zenon DEF CalmInv, CalmStep

\* The shutdown closes what its container serves.
LEMMA CalmCloseAll ==
    ASSUME CalmStep, NEW c \in Containers, CloseAllConnections(c)
    PROVE  CalmInv'
<1>i. CalmInv /\ IInv /\ TypeOK
  BY Zenon DEF CalmStep, CalmInv, SeqInv, IInv, HubEntriesAreTimed
<1>1. /\ phase[c] = "closing" /\ phase' = [phase EXCEPT ![c] = "stopped"]
      /\ UNCHANGED <<at, new, seen, cm, rec, reg, timer, net>>
      /\ close' = IF cm[c] = NoConn THEN close ELSE CloseOn(cm[c], close)
  BY Zenon DEF CloseAllConnections, hub
<1>p. phase'[c] = "stopped" /\ \A d \in Containers : d # c => phase'[d] = phase[d]
  BY <1>1, <1>i, Zenon DEF TypeOK
<1>2. ASSUME NEW k \in Conns
      PROVE  close'[k] = close[k] \/ (cm[c] = k /\ close[k] = "none" /\ close'[k] = "remove")
  BY <1>1, <1>i, Zenon DEF CloseOn, TypeOK
<1>3. \A k \in Conns : Over(k)' <=> Over(k)
  <2>1. ASSUME NEW k \in Conns, close'[k] # close[k]
        PROVE  ~Over(k) /\ ~Over(k)'
    BY <2>1, <1>1, <1>2, <1>i, NeverNoConn, Zenon DEF Over, CalmInv, ManagerHoldsCurrent
  <2> QED
    BY <2>1, <1>1, Zenon DEF Over
<1>4. ASSUME NEW k \in Conns, ~Over(k)
      PROVE  FindsItsOwn(k)'
  <2>1. at[k] \in Containers /\ FindsItsOwn(k) /\ (cm[c] # NoConn => cm[c] = k /\ at[k] = c)
    BY <1>4, <1>i, Alone, Zenon DEF CalmInv
  <2>2. CASE at[k] # c
    BY <2>1, <2>2, <1>1, <1>2, <1>p, NeverNoConn, ZenonT(40), SMTT(30) DEF FindsItsOwn, Live, ClaimedBy
  <2>3. CASE at[k] = c
    <3>1. new[k] = "open" /\ close[k] \in {"none", "remove", "done"}
      BY <2>1, <2>3, <1>1, <1>4, <1>i, Zenon DEF CalmInv, SeqInv, QuietShutdown, FindsItsOwn,
         Connecting, Over
    <3>2. close'[k] \in {"remove", "done"}
      <4>1. close[k] = "none" => cm[c] = k
        BY <2>1, <2>3, <3>1, Zenon DEF FindsItsOwn, Live
      <4>2. close[k] = "none" => close'[k] = "remove"
        BY <4>1, <1>1, <1>i, NeverNoConn, Zenon DEF CloseOn, TypeOK
      <4> QED
        BY <3>1, <4>2, <1>2, Zenon
    <3> QED
      BY <2>3, <3>1, <3>2, <1>1, <1>p, Zenon DEF FindsItsOwn, Live
  <2> QED
    BY <2>2, <2>3, Zenon
<1>5. \A k \in Conns : FindsItsOwn(k)'
  BY <1>3, <1>4, OverFinds, Zenon
<1>6. ManagerHoldsCurrent'
  <2> SUFFICES ASSUME NEW d \in Containers
               PROVE  /\ cm[d] # NoConn => /\ new[cm[d]] \in {"drain", "open"}
                                           /\ close'[cm[d]] \in {"none", "remove"}
                      /\ phase'[d] = "transferring" => cm[d] # NoConn
    BY <1>1, Zenon DEF ManagerHoldsCurrent
  <2>1. cm[d] # NoConn => cm[d] \in Conns
    BY <1>i, Zenon DEF TypeOK
  <2> QED
    BY <2>1, <1>2, <1>p, <1>i, ZenonT(40), SMTT(30) DEF CalmInv, ManagerHoldsCurrent
<1>7. ConnectedIsCurrent'
  BY <1>1, <1>3, <1>i, Zenon DEF CalmInv, ConnectedIsCurrent
<1>8. ExpiryIsAlone'
  <2> SUFFICES ASSUME NEW j \in Conns, timer[j] \in {"elapsed", "expiring"}
               PROVE  /\ \A k \in Conns : Over(k)'
                      /\ \A d \in Containers : net[d] = << >>
                      /\ \A i \in Conns \ {j} :
                            /\ timer[i] \notin {"elapsed", "expiring"}
                            /\ timer[i] = "armed" => phase'[at[i]] # "run"
    BY <1>1, Zenon DEF ExpiryIsAlone
  <2>1. ASSUME NEW i \in Conns, timer[i] = "armed", phase'[at[i]] = "run"
        PROVE  phase[at[i]] = "run"
    BY <2>1, <1>p, <1>i, TimerIsPlaced, Zenon
  <2> QED
    BY <2>1, <1>3, <1>i, Zenon DEF CalmInv, ExpiryIsAlone
<1>9. TimersAreResumable'
  <2> SUFFICES ASSUME NEW j \in Conns, timer[j] = "armed", phase'[at[j]] = "run"
               PROVE  net[at[j]] # << >> \/ Resumable(j)'
    BY <1>1, Zenon DEF TimersAreResumable
  <2>1. phase[at[j]] = "run"
    BY <1>p, <1>i, TimerIsPlaced, Zenon
  <2>2. Resumable(j) => Resumable(j)'
    BY <1>1, <1>3, Zenon DEF Resumable
  <2> QED
    BY <2>1, <2>2, <1>i, Zenon DEF CalmInv, TimersAreResumable
<1> QED
  BY <1>1, <1>5, <1>6, <1>7, <1>8, <1>9, <1>i, Zenon DEF CalmInv, CalmStep

\* A timer elapses only over a session that is away, and then nothing else
\* goes on until the record is gone.
LEMMA CalmTimer ==
    ASSUME CalmStep, NEW k \in Conns, Timer(k)
    PROVE  CalmInv'
<1>i. CalmInv /\ IInv /\ TypeOK
  BY Zenon DEF CalmStep, CalmInv, SeqInv, IInv, HubEntriesAreTimed
<1>h. UNCHANGED <<at, new, seen, close, cm, net, phase>>
  BY Zenon DEF Timer, TimerElapses, ExpireEntry, CancelWins, OnExpired, hooks
<1>o. \A j \in Conns : Over(j)' <=> Over(j)
  BY <1>h, Zenon DEF Over
<1>m. ManagerHoldsCurrent'
  BY <1>h, <1>i, Zenon DEF ManagerHoldsCurrent, CalmInv
<1>t. timer[k] # "off" /\ \A j \in Conns : j # k => timer'[j] = timer[j]
  BY <1>i DEF Timer, TimerElapses, ExpireEntry, CancelWins, OnExpired, TypeOK
<1>1. CASE OnExpired(k)
  <2>1. timer[k] = "expiring" /\ timer'[k] = "off" /\ rec' = NoRecord
    BY <1>1, <1>i DEF OnExpired, TypeOK, CalmStep, Calm
  <2>2. /\ \A j \in Conns : Over(j)
        /\ \A j \in Conns : j # k => /\ timer[j] \notin {"elapsed", "expiring"}
                                     /\ timer[j] = "armed" => phase[at[j]] # "run"
    BY <2>1, <1>i, Zenon DEF CalmInv, ExpiryIsAlone
  <2>3. \A j \in Conns : FindsItsOwn(j)'
    BY <2>2, <1>o, OverFinds, Zenon
  <2>4. ConnectedIsCurrent' /\ TimersAreResumable' /\ ExpiryIsAlone'
    BY <2>1, <2>2, <1>t, <1>h, Zenon DEF ConnectedIsCurrent, TimersAreResumable, ExpiryIsAlone
  <2> QED
    BY <2>3, <2>4, <1>m, <1>h, <1>i, Zenon DEF CalmInv, CalmStep
<1>2. ASSUME rec' = rec
      PROVE  (\A j \in Conns : FindsItsOwn(j)') /\ ConnectedIsCurrent'
  <2>1. \A j \in Conns : FindsItsOwn(j)'
    BY <1>2, <1>h, <1>i, ZenonT(40), SMTT(30) DEF CalmInv, FindsItsOwn, Live, ClaimedBy
  <2> QED
    BY <2>1, <1>2, <1>o, <1>h, <1>i, Zenon DEF CalmInv, ConnectedIsCurrent
<1>3. ASSUME rec' = rec, timer'[k] # "armed"
      PROVE  TimersAreResumable'
  <2>1. \A j \in Conns : Resumable(j)' <=> Resumable(j)
    BY <1>3, <1>h, <1>o, Zenon DEF Resumable
  <2> QED
    BY <2>1, <1>3, <1>t, <1>h, <1>i, Zenon DEF CalmInv, TimersAreResumable
<1>4. CASE TimerElapses(k)
  <2>1. /\ timer[k] = "armed" /\ timer'[k] = "elapsed" /\ rec' = rec
        /\ phase[at[k]] = "run" /\ at[k] \in Containers
        /\ \A j \in Conns : ~Connecting(j)
        /\ \A c \in Containers : net[c] = << >>
    BY <1>4, <1>i, TimerIsPlaced, ZenonT(40), SMTT(30) DEF TimerElapses, TypeOK, CalmStep, Calm
  <2>2. Resumable(k)
    BY <2>1, <1>i, Zenon DEF CalmInv, TimersAreResumable
  <2>3. \A j \in Conns : Over(j)
    BY <2>1, <2>2, Zenon DEF Resumable, Connecting
  <2>4. ASSUME NEW i \in Conns, i # k
        PROVE  /\ timer[i] \notin {"elapsed", "expiring"}
               /\ timer[i] = "armed" => phase[at[i]] # "run"
    <3>1. timer[i] \notin {"elapsed", "expiring"}
      BY <2>1, <2>4, <1>i, Zenon DEF CalmInv, ExpiryIsAlone
    <3>2. ASSUME timer[i] = "armed", phase[at[i]] = "run"
          PROVE  FALSE
      <4>1. Resumable(i)
        BY <3>2, <2>1, <1>i, TimerIsPlaced, Zenon DEF CalmInv, TimersAreResumable
      <4>2. at[i] = at[k]
        BY <4>1, <2>2, Zenon DEF Resumable
      <4> QED
        BY <4>2, <3>2, <2>1, <2>4, <1>i, Zenon DEF IInv, HubEntriesAreTimed, ArmedTimerIsRegistered
    <3> QED
      BY <3>1, <3>2, Zenon
  <2>5. ExpiryIsAlone'
    BY <2>1, <2>3, <2>4, <1>o, <1>h, <1>t, ZenonT(40), SMTT(30) DEF ExpiryIsAlone
  <2> QED
    BY <2>1, <2>5, <1>2, <1>3, <1>m, <1>h, <1>i, Zenon DEF CalmInv, CalmStep
<1>5. CASE ExpireEntry(k) \/ CancelWins(k)
  <2>1. timer[k] = "elapsed" /\ timer'[k] \in {"expiring", "off"} /\ rec' = rec
    BY <1>5, <1>i, Zenon DEF ExpireEntry, CancelWins, TypeOK
  <2>2. /\ \A j \in Conns : Over(j)
        /\ \A c \in Containers : net[c] = << >>
        /\ \A j \in Conns : j # k => /\ timer[j] \notin {"elapsed", "expiring"}
                                     /\ timer[j] = "armed" => phase[at[j]] # "run"
    BY <2>1, <1>i, Zenon DEF CalmInv, ExpiryIsAlone
  <2>3. ExpiryIsAlone'
    BY <2>1, <2>2, <1>o, <1>h, <1>t, Zenon DEF ExpiryIsAlone
  <2> QED
    BY <2>1, <2>3, <1>2, <1>3, <1>m, <1>h, <1>i, Zenon DEF CalmInv, CalmStep
<1> QED
  BY <1>1, <1>4, <1>5, Zenon DEF Timer

\* The rest cannot happen.
LEMMA CalmNever ==
    ASSUME CalmStep
    PROVE  /\ \A k \in Conns : ~DisconnectLocal(k) /\ ~DisconnectRemote(k) /\ ~UpdateHeartBeat(k)
           /\ \A c \in Containers : ~HandleDisconnect(c) /\ ~LoseMessage(c)
           /\ ~HeartbeatLapses /\ ~CleanUpExpired
<1>1. ASSUME NEW k \in Conns
      PROVE  ~DisconnectLocal(k) /\ ~DisconnectRemote(k) /\ ~UpdateHeartBeat(k)
  BY Zenon DEF CalmStep, CalmInv, FindsItsOwn, ConnectedIsCurrent, DisconnectLocal, DisconnectRemote,
     UpdateHeartBeat
<1>2. ASSUME NEW c \in Containers, HandleDisconnect(c)
      PROVE  FALSE
  <2>1. net[c] \in Seq({"resume"}) /\ net[c] # << >> /\ Head(net[c]) = "disconnect"
    BY <1>2, Zenon DEF CalmStep, CalmInv, HandleDisconnect, Handling
  <2> QED
    BY <2>1
<1>3. /\ \A c \in Containers : ~LoseMessage(c)
      /\ ~HeartbeatLapses /\ ~CleanUpExpired
  BY Zenon DEF CalmStep, Calm, LoseMessage, HeartbeatLapses, CleanUpExpired
<1> QED
  BY <1>1, <1>2, <1>3, Zenon

-----------------------------------------------------------------------------
(* Theorems *)

\* Before the first connection there is nothing to find.
LEMMA InitCalmInv == Init => CalmInv
BY InitSeqInv DEF Init, CalmInv, FindsItsOwn, Live, ManagerHoldsCurrent, ConnectedIsCurrent,
   TimersAreResumable, ExpiryIsAlone

\* Every step of a calm deployment keeps the invariant.
LEMMA NextCalmInv == Calm /\ CalmInv /\ [Next]_vars => CalmInv'
<1> SUFFICES ASSUME Calm, CalmInv, [Next]_vars
             PROVE  CalmInv'
  BY Zenon
<1>1. CalmStep
  BY CalmIsSequential, NextSeqInv, Zenon DEF CalmStep, CalmInv
<1>2. CASE UNCHANGED vars
  <2>1. UNCHANGED <<hooks, cm, rec, net, phase, timer>>
    BY <1>2, Zenon DEF vars, hub
  <2> QED
    BY <2>1, <1>1, QuietStep, Zenon DEF CalmInv
<1>3. ASSUME NEW k \in Conns, OnNew(k)
      PROVE  CalmInv'
  BY <1>1, <1>3, CalmNever, CalmDedup, CalmLookup, CalmResume, CalmUpsert, CalmAdd, CalmFinish,
     Zenon DEF OnNew
<1>4. ASSUME NEW k \in Conns, PeerClose(k) \/ OnClose(k) \/ Timer(k) \/ UpdateHeartBeat(k)
      PROVE  CalmInv'
  BY <1>1, <1>4, CalmNever, CalmPeerClose, CalmRemove, CalmUpdateStatus, CalmRegister, CalmTimer, Zenon
     DEF OnClose
<1>5. ASSUME NEW c \in Containers,
             Subscriber(c) \/ LoseMessage(c) \/ Unsubscribe(c) \/ ShutdownStep(c)
      PROVE  CalmInv'
  BY <1>1, <1>5, CalmNever, CalmContainer, CalmTransfer, CalmCloseAll, Zenon DEF Subscriber,
     ShutdownStep
<1> QED
  BY <1>1, <1>2, <1>3, <1>4, <1>5, CalmNever, CalmAccept, Zenon DEF Next

\* The invariant holds of every state a calm deployment reaches.
LEMMA AlwaysCalmInv == Calm => (Spec => []CalmInv)
<1> SUFFICES ASSUME Calm
             PROVE  Spec => []CalmInv
  BY Zenon
<1>1. CalmInv /\ [Next]_vars => CalmInv'
  BY NextCalmInv, Zenon
<1> QED
  BY <1>1, InitCalmInv, PTL DEF Spec

\* In a calm environment, once everything has settled, the record routes to the
\* connection that is served and its container knows it.
THEOREM LiveSessionIsRoutableThm == Calm => (Spec => []LiveSessionIsRoutable)
<1> SUFFICES ASSUME Calm
             PROVE  Spec => []LiveSessionIsRoutable
  BY Zenon
<1>1. CalmInv => LiveSessionIsRoutable
  <2> SUFFICES ASSUME CalmInv, Settled, NEW k \in Conns, Live(k)
               PROVE  cm[at[k]] = k /\ ClaimedBy(k)
    BY Zenon DEF LiveSessionIsRoutable, ClaimedBy
  <2>1. at[k] \in Containers
    BY Alone, Zenon DEF Live, Over
  <2> QED
    BY <2>1, Zenon DEF CalmInv, FindsItsOwn, Settled
<1> QED
  BY <1>1, AlwaysCalmInv, PTL

\* In a calm environment, once everything has settled, no running container
\* counts down to remove a session that is served.
THEOREM NoTimerOverLiveSessionThm == Calm => (Spec => []NoTimerOverLiveSession)
<1> SUFFICES ASSUME Calm
             PROVE  Spec => []NoTimerOverLiveSession
  BY Zenon
<1>1. CalmInv => NoTimerOverLiveSession
  <2> SUFFICES ASSUME CalmInv, Settled, NEW k \in Conns, NEW j \in Conns, Live(k), timer[j] = "armed",
                      phase[at[j]] = "run"
               PROVE  FALSE
    BY Zenon DEF NoTimerOverLiveSession
  <2>1. ~Resumable(j)
    BY Zenon DEF Resumable, Live, Over
  <2>2. at[j] \in Containers
    BY TimerIsPlaced, Zenon DEF CalmInv, SeqInv
  <2> QED
    BY <2>1, <2>2, Zenon DEF CalmInv, TimersAreResumable, Settled
<1> QED
  BY <1>1, AlwaysCalmInv, PTL

\* In a calm environment onExpired is called only while the session is away, as
\* the comment on Register promises; the session_expiry run shows that a reconnect
\* that races with the timer breaks the promise.
THEOREM CalmExpiryThm == Calm => (Spec => []ExpiredMeansNoReconnect)
<1> SUFFICES ASSUME Calm
             PROVE  Spec => []ExpiredMeansNoReconnect
  BY Zenon
<1>1. CalmInv => ExpiredMeansNoReconnect
  BY Zenon DEF CalmInv, ExpiryIsAlone, ExpiredMeansNoReconnect, Over, Live
<1> QED
  BY <1>1, AlwaysCalmInv, PTL
=============================================================================
