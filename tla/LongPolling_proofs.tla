------------------------- MODULE LongPolling_proofs -------------------------
(***************************************************************************)
(* Proofs of the properties of LongPolling, for any connections, finitely  *)
(* many handlers, and any numbers of messages.                             *)
(*                                                                         *)
(* That a poll keeps its connection needs, while requests do not overlap,  *)
(* that only the entry's connection is being closed or has a timer.  That  *)
(* every message is accounted for needs what a sum over a finite set is:   *)
(* the facts about Total, each by way of a smallest counterexample.        *)
(***************************************************************************)
EXTENDS LongPolling, FiniteSetTheorems, TLAPS

\* A leaf that names no prover is tried with these, in this order.
USE SMTT(20), ZenonT(30), Z3T(30)

\* The stages of a handler.
PollPcs == {"idle", "duplicate", "closing", "add", "stop", "fetch", "block", "more", "reset", "arm"}
PollT == [pc : PollPcs, conn : LPConns \cup {NoLPConn}, dup : LPConns \cup {NoLPConn}, got : Nat]

\* The types, whatever polls overlap, and that closed is swapped when Close begins.
LPTypes ==
    /\ overlapped \in BOOLEAN
    /\ entry \in LPConns \cup {NoLPConn}
    /\ lpClosed \in [LPConns -> BOOLEAN]
    /\ idleTimer \in [LPConns -> BOOLEAN]
    /\ timerRuns \in [LPConns -> BOOLEAN]
    /\ lpClosing \in [LPConns -> {"no", "onClose", "done"}]
    /\ poll \in [Polls -> PollT]
    /\ queue \in Nat
    /\ \A p \in Polls : InFlight(p) => poll[p].conn \in LPConns
    /\ \A k \in LPConns : lpClosed[k] <=> lpClosing[k] # "no"

\* A Close under way, and a timer of an open connection, belong to the entry.
OwnsEntry(k) ==
    /\ lpClosing[k] = "onClose" => entry = k
    /\ ~lpClosed[k] /\ (idleTimer[k] \/ timerRuns[k]) => entry = k

\* A handler makes a connection when there is none, and has then registered the
\* one it works on, until that is closed.
Holds(p) ==
    /\ poll[p].pc \in {"duplicate", "add"} => entry = NoLPConn /\ ~lpClosed[poll[p].conn]
    /\ poll[p].pc # "closing"
    /\ poll[p].pc \in {"stop", "fetch", "block", "more", "reset", "arm"} /\ ~lpClosed[poll[p].conn]
          => entry = poll[p].conn
    /\ Waiting(p) => ~idleTimer[poll[p].conn]

\* At most one request is in flight.
Alone == \A p, q \in Polls : InFlight(p) /\ InFlight(q) => p = q

\* What holds while requests do not overlap.
Orderly ==
    ~overlapped => /\ Alone
                   /\ \A k \in LPConns : OwnsEntry(k)
                   /\ \A p \in Polls : Holds(p)

\* The inductive invariant.
LPInv == LPTypes /\ Orderly
-----------------------------------------------------------------------------
\* Close stops the timer of an open connection, and begins the removal once.
LEMMA CloseEffect ==
    ASSUME LPTypes, NEW k \in LPConns, Close(k)
    PROVE  /\ lpClosed' \in [LPConns -> BOOLEAN]
           /\ idleTimer' \in [LPConns -> BOOLEAN]
           /\ lpClosing' \in [LPConns -> {"no", "onClose", "done"}]
           /\ \A j \in LPConns :
                 /\ lpClosed'[j] <=> lpClosing'[j] # "no"
                 /\ lpClosed'[j] <=> (lpClosed[j] \/ j = k)
                 /\ lpClosing'[j] = "onClose" <=> (lpClosing[j] = "onClose" \/ (j = k /\ ~lpClosed[k]))
                 /\ idleTimer'[j] => idleTimer[j]
<1>1. /\ lpClosed' = [lpClosed EXCEPT ![k] = TRUE]
      /\ idleTimer' = [idleTimer EXCEPT ![k] = idleTimer[k] /\ lpClosed[k]]
      /\ lpClosing' = [lpClosing EXCEPT ![k] = IF lpClosed[k] THEN lpClosing[k] ELSE "onClose"]
  BY DEF Close
<1>2. lpClosed' \in [LPConns -> BOOLEAN]
  BY <1>1 DEF LPTypes
<1>3. idleTimer' \in [LPConns -> BOOLEAN]
  BY <1>1, Zenon DEF LPTypes
<1>4. lpClosing' \in [LPConns -> {"no", "onClose", "done"}]
  BY <1>1 DEF LPTypes
<1>5. ASSUME NEW j \in LPConns
      PROVE  /\ lpClosed'[j] <=> lpClosing'[j] # "no"
             /\ lpClosed'[j] <=> (lpClosed[j] \/ j = k)
             /\ lpClosing'[j] = "onClose" <=> (lpClosing[j] = "onClose" \/ (j = k /\ ~lpClosed[k]))
  BY <1>1 DEF LPTypes
<1>6. ASSUME NEW j \in LPConns
      PROVE  idleTimer'[j] => idleTimer[j]
  BY <1>1, Zenon DEF LPTypes
<1> QED
  BY <1>2, <1>3, <1>4, <1>5, <1>6, Zenon

\* The steps of a connection that no handler takes.
ConnStep(k) ==
    TimerFires(k) \/ TimerCloses(k) \/ ServerCloses(k) \/ RemoveConnection(k) \/ Forget(k)

\* What a connection's own step does.
LEMMA ConnStepInv ==
    ASSUME LPInv, NEW k \in LPConns, ConnStep(k)
    PROVE  LPInv'
<1>i. LPTypes /\ Orderly
  BY DEF LPInv
<1>p. poll' = poll /\ overlapped' = overlapped /\ queue' = queue
  BY DEF ConnStep, TimerFires, TimerCloses, ServerCloses, RemoveConnection, Forget, queueVars
<1>f. \A p \in Polls : (InFlight(p)' <=> InFlight(p)) /\ (Waiting(p)' <=> Waiting(p))
  BY <1>p, ZenonT(40), SMTT(30) DEF InFlight, Waiting
<1>1. LPTypes'
  <2> USE DEF LPTypes
  <2>1. CASE TimerFires(k)
    BY <1>i, <1>p, <1>f, <2>1 DEF TimerFires
  <2>2. CASE TimerCloses(k) \/ ServerCloses(k)
    <3>1. Close(k) /\ entry' = entry /\ timerRuns' \in [LPConns -> BOOLEAN]
      BY <1>i, <2>2, ZenonT(40), SMTT(30) DEF TimerCloses, ServerCloses
    <3> QED
      BY <1>i, <1>p, <1>f, <3>1, CloseEffect
  <2>3. CASE RemoveConnection(k)
    BY <1>i, <1>p, <1>f, <2>3 DEF RemoveConnection
  <2>4. CASE Forget(k)
    BY <1>i, <1>p, <1>f, <2>4 DEF Forget
  <2> QED
    BY <2>1, <2>2, <2>3, <2>4 DEF ConnStep
<1>2. ASSUME ~overlapped
      PROVE  (\A j \in LPConns : OwnsEntry(j)') /\ \A p \in Polls : Holds(p)'
  <2>i. (\A j \in LPConns : OwnsEntry(j)) /\ \A p \in Polls : Holds(p)
    BY <1>i, <1>2 DEF Orderly
  <2>c. \A p \in Polls : InFlight(p) => poll[p].conn \in LPConns
    BY <1>i DEF LPTypes
  <2> USE DEF LPTypes, OwnsEntry, Holds, Waiting, InFlight
  <2>1. CASE TimerFires(k)
    BY <1>i, <1>p, <2>i, <2>c, <2>1 DEF TimerFires
  <2>2. CASE TimerCloses(k) \/ ServerCloses(k)
    <3>1. /\ Close(k) /\ entry' = entry /\ (lpClosed[k] \/ entry = k)
          /\ \A j \in LPConns : timerRuns'[j] => timerRuns[j]
      BY <1>i, <2>i, <2>2 DEF TimerCloses, ServerCloses
    <3>2. \A j \in LPConns :
             /\ lpClosed'[j] <=> (lpClosed[j] \/ j = k)
             /\ lpClosing'[j] = "onClose" <=> (lpClosing[j] = "onClose" \/ (j = k /\ ~lpClosed[k]))
             /\ idleTimer'[j] => idleTimer[j]
      BY <1>i, <3>1, CloseEffect, ZenonT(40), SMTT(30)
    <3>3. \A j \in LPConns : OwnsEntry(j)'
      BY <2>i, <3>1, <3>2, ZenonT(40), SMTT(30)
    <3>4. ASSUME NEW p \in Polls
          PROVE  Holds(p)'
      <4>1. Holds(p) /\ poll'[p] = poll[p] /\ (poll[p].pc # "idle" => poll[p].conn \in LPConns)
        BY <1>p, <2>i, <2>c, ZenonT(40), SMTT(30)
      <4> QED
        BY <3>1, <3>2, <4>1, LPAssumption
    <3> QED
      BY <3>3, <3>4
  <2>3. CASE RemoveConnection(k)
    BY <1>i, <1>p, <2>i, <2>c, <2>3 DEF RemoveConnection
  <2>4. CASE Forget(k)
    BY <1>i, <1>p, <2>i, <2>c, <2>4 DEF Forget
  <2> QED
    BY <2>1, <2>2, <2>3, <2>4 DEF ConnStep
<1>3. Alone => Alone'
  BY <1>f, Zenon DEF Alone
<1> QED
  BY <1>1, <1>2, <1>3, <1>p, <1>i, Zenon DEF LPInv, Orderly

-----------------------------------------------------------------------------
(* A handler's steps *)

\* A request begins alone, or the polls overlap.
LEMMA LookupInv ==
    ASSUME LPInv, NEW p \in Polls, Lookup(p)
    PROVE  LPInv'
<1>i. LPTypes /\ Orderly
  BY DEF LPInv
<1>1. /\ UNCHANGED <<entry, lpClosed, idleTimer, timerRuns, lpClosing, queue>>
      /\ overlapped' = ((overlapped /\ ~AtRest) \/ \E q \in Polls : InFlight(q))
  BY DEF Lookup, connVars, queueVars
<1>2. \E pc \in {"duplicate", "stop"}, k \in LPConns :
         /\ poll' = [poll EXCEPT ![p] = [Idle EXCEPT !.pc = pc, !.conn = k]]
         /\ pc = "duplicate" => entry = NoLPConn /\ Free(k)
         /\ pc = "stop" => entry = k
  <2>1. CASE entry = NoLPConn
    <3>1. /\ \E k \in LPConns : Free(k)
          /\ poll' = [poll EXCEPT ![p] = [Idle EXCEPT !.pc = "duplicate", !.conn = NewConn]]
      BY <2>1, LPAssumption, Zenon DEF Lookup
    <3>2. NewConn \in LPConns /\ Free(NewConn)
      BY <3>1, Zenon DEF NewConn
    <3> QED
      BY <2>1, <3>1, <3>2, Zenon
  <2>2. CASE entry # NoLPConn
    BY <2>2, Zenon DEF Lookup
  <2> QED
    BY <2>1, <2>2, Zenon
<1>3. PICK pc \in {"duplicate", "stop"}, k \in LPConns :
         /\ poll' = [poll EXCEPT ![p] = [Idle EXCEPT !.pc = pc, !.conn = k]]
         /\ pc = "duplicate" => entry = NoLPConn /\ Free(k)
         /\ pc = "stop" => entry = k
  BY <1>2, Zenon
<1>4. /\ poll' \in [Polls -> PollT] /\ poll'[p].pc = pc /\ poll'[p].conn = k
      /\ \A q \in Polls \ {p} : poll'[q] = poll[q]
  BY <1>i, <1>3, Zenon DEF LPTypes, PollT, PollPcs, Idle
<1>5. LPTypes'
  <2>1. \A q \in Polls : InFlight(q)' => poll'[q].conn \in LPConns
    BY <1>i, <1>4 DEF LPTypes, InFlight
  <2>2. overlapped' \in BOOLEAN
    BY <1>1, Zenon
  <2> QED
    BY <1>i, <1>1, <1>4, <2>1, <2>2, ZenonT(40), SMTT(30) DEF LPTypes
<1>6. ASSUME ~overlapped'
      PROVE  Alone' /\ (\A j \in LPConns : OwnsEntry(j)') /\ \A q \in Polls : Holds(q)'
  <2>1. (\A q \in Polls : ~InFlight(q)) /\ (~overlapped \/ AtRest)
    BY <1>1, <1>6, ZenonT(40), SMTT(30)
  <2>2. \A j \in LPConns : OwnsEntry(j)
    <3>1. CASE AtRest
      BY <3>1 DEF AtRest, OwnsEntry
    <3>2. CASE ~overlapped
      BY <1>i, <3>2, Zenon DEF Orderly
    <3> QED
      BY <2>1, <3>1, <3>2
  <2>3. \A j \in LPConns : OwnsEntry(j)'
    BY <1>1, <2>2, Zenon DEF OwnsEntry
  <2>4. \A q \in Polls \ {p} : poll'[q].pc = "idle"
    BY <1>4, <2>1 DEF InFlight
  <2>5. Alone'
    BY <2>4, Zenon DEF Alone, InFlight
  <2>6. ~lpClosed[k] \/ pc = "stop"
    BY <1>i, <1>3 DEF LPTypes, Free
  <2>7. \A q \in Polls : Holds(q)'
    BY <1>1, <1>3, <1>4, <2>4, <2>6 DEF Holds, Waiting
  <2> QED
    BY <2>3, <2>5, <2>7
<1> QED
  BY <1>5, <1>6, Zenon DEF LPInv, Orderly

\* A poll that finds another connection registered closes it.
LEMMA CloseOldInv ==
    ASSUME LPInv, NEW p \in Polls, CloseOldPoll(p)
    PROVE  LPInv'
<1>i. LPTypes /\ Orderly
  BY DEF LPInv
<1>1. /\ UNCHANGED <<entry, timerRuns, queue, overlapped>> /\ poll[p].pc = "duplicate"
      /\ poll[p] \in PollT
  BY <1>i DEF CloseOldPoll, queueVars, LPTypes
<1>2. CASE entry \in LPConns
  <2>1. Close(entry)
    BY <1>2, Zenon DEF CloseOldPoll
  <2>2. overlapped
    BY <1>i, <1>1, <1>2, LPAssumption, ZenonT(40), SMTT(30) DEF Orderly, Holds
  <2>3. /\ poll' \in [Polls -> PollT]
        /\ \A q \in Polls : poll'[q].conn = poll[q].conn /\ (InFlight(q)' => InFlight(q))
    BY <1>i, <1>1, <1>2 DEF CloseOldPoll, LPTypes, PollT, PollPcs, InFlight
  <2>4. LPTypes'
    BY <1>i, <1>1, <1>2, <2>1, <2>3, CloseEffect, ZenonT(40), SMTT(30) DEF LPTypes
  <2> QED
    BY <1>1, <2>2, <2>4, Zenon DEF LPInv, Orderly
<1>3. CASE entry \notin LPConns
  <2>1. UNCHANGED <<lpClosed, idleTimer, lpClosing>> /\ Step(p, "add")
    BY <1>3, ZenonT(40), SMTT(30) DEF CloseOldPoll
  <2>2. /\ poll' \in [Polls -> PollT] /\ poll'[p].pc = "add"
        /\ \A q \in Polls : poll'[q].conn = poll[q].conn /\ (InFlight(q)' <=> InFlight(q))
        /\ \A q \in Polls \ {p} : poll'[q] = poll[q]
    BY <1>i, <1>1, <2>1 DEF Step, LPTypes, PollT, PollPcs, InFlight
  <2>3. LPTypes'
    BY <1>i, <1>1, <2>1, <2>2, Zenon DEF LPTypes
  <2>4. ASSUME ~overlapped
        PROVE  Alone' /\ (\A j \in LPConns : OwnsEntry(j)') /\ \A q \in Polls : Holds(q)'
    <3>1. Alone /\ (\A j \in LPConns : OwnsEntry(j)) /\ \A q \in Polls : Holds(q)
      BY <1>i, <2>4, Zenon DEF Orderly
    <3>2. Alone' /\ \A j \in LPConns : OwnsEntry(j)'
      BY <1>1, <2>1, <2>2, <3>1, ZenonT(40), SMTT(30) DEF Alone, OwnsEntry
    <3>3. \A q \in Polls : Holds(q)'
      BY <1>1, <2>1, <2>2, <3>1 DEF Holds, Waiting
    <3> QED
      BY <3>2, <3>3
  <2> QED
    BY <1>1, <2>3, <2>4, Zenon DEF LPInv, Orderly
<1> QED
  BY <1>2, <1>3

\* A step of handler p that leaves the other handlers alone, keeps its
\* connection or ends, and brings the queue to a natural number.
OnlyMoves(p) ==
    /\ overlapped' = overlapped /\ queue' \in Nat /\ InFlight(p)
    /\ poll' \in [Polls -> PollT] /\ \A q \in Polls \ {p} : poll'[q] = poll[q]
    /\ poll'[p].pc # "idle" => poll'[p].conn = poll[p].conn

\* Such a step takes no new handler in.
LEMMA MoveKeeps ==
    ASSUME LPTypes, NEW p \in Polls, OnlyMoves(p)
    PROVE  /\ \A q \in Polls : InFlight(q)' => InFlight(q) /\ poll'[q].conn \in LPConns
           /\ Alone => Alone'
           /\ \A q \in Polls \ {p} : Alone => poll'[q].pc = "idle"
<1>1. ASSUME NEW q \in Polls, InFlight(q)'
      PROVE  InFlight(q) /\ poll'[q].conn \in LPConns
  BY <1>1 DEF LPTypes, OnlyMoves, InFlight
<1>2. ASSUME NEW q \in Polls \ {p}, Alone
      PROVE  poll'[q].pc = "idle"
  BY <1>2 DEF Alone, OnlyMoves, InFlight
<1> QED
  BY <1>1, <1>2 DEF Alone

\* The steps that touch no connection.
QuietStep(p) ==
    \/ FetchMany(p) \/ BlockFetchOne(p) \/ BlockEnds(p) \/ FetchMore(p) \/ TestClosed(p)

\* How many messages a fetch takes.
LEMMA FetchTypes ==
    ASSUME LPTypes, NEW n \in Nat
    PROVE  Fetch(n) \in Nat /\ queue - Fetch(n) \in Nat
BY DEF LPTypes, Fetch

\* The record of a handler that is done with the duplicate.
LEMMA PollAdds ==
    ASSUME NEW r \in PollT, NEW s, s = [r EXCEPT !.pc = "add", !.dup = NoLPConn]
    PROVE  s \in PollT /\ s.pc = "add" /\ s.conn = r.conn
BY Zenon DEF PollT, PollPcs

\* A handler goes on to pc with got messages.
LEMMA Moved ==
    ASSUME LPTypes, NEW p \in Polls, NEW pc \in PollPcs, NEW got \in Nat,
           poll' = [poll EXCEPT ![p].pc = pc, ![p].got = got]
    PROVE  /\ poll' \in [Polls -> PollT] /\ poll'[p].pc = pc /\ poll'[p].conn = poll[p].conn
           /\ \A q \in Polls \ {p} : poll'[q] = poll[q]
<1>1. poll[p] \in PollT /\ poll'[p] = [poll[p] EXCEPT !.pc = pc, !.got = got]
  BY DEF LPTypes
<1>2. poll'[p] \in PollT /\ poll'[p].pc = pc /\ poll'[p].conn = poll[p].conn
  <2> DEFINE r == poll[p]
  <2>1. ASSUME NEW s, s = [r EXCEPT !.pc = pc, !.got = got], r \in PollT
        PROVE  s \in PollT /\ s.pc = pc /\ s.conn = r.conn
    BY <2>1, Zenon DEF PollT
  <2> QED
    BY <1>1, <2>1
<1>3. \A q \in Polls \ {p} : poll'[q] = poll[q]
  BY DEF LPTypes
<1>4. DOMAIN poll' = Polls /\ poll' = [q \in Polls |-> poll'[q]]
  BY Zenon DEF LPTypes
<1>5. \A q \in Polls : poll'[q] \in PollT
  BY <1>2, <1>3 DEF LPTypes
<1> QED
  BY <1>2, <1>3, <1>4, <1>5

\* A step without effect on connections moves one handler that waits.
LEMMA QuietMoves ==
    ASSUME LPTypes, NEW p \in Polls, QuietStep(p)
    PROVE  OnlyMoves(p) /\ UNCHANGED connVars /\ Waiting(p) /\ poll'[p].pc \in {"idle", "block", "more", "reset", "arm"}
<1> USE DEF OnlyMoves, LPTypes, PollT, PollPcs, InFlight, Waiting
<1>1. CASE FetchMany(p)
  <2>1. Fetch(Batch) \in Nat /\ queue - Fetch(Batch) \in Nat
    BY FetchTypes, LPAssumption
  <2> QED
    <3>1. PICK pc \in {"block", "reset"} : poll' = [poll EXCEPT ![p].pc = pc, ![p].got = Fetch(Batch)]
      BY <1>1, Zenon DEF FetchMany
    <3>2. /\ queue' = queue - Fetch(Batch) /\ UNCHANGED <<connVars, overlapped>> /\ poll[p].pc = "fetch"
      BY <1>1, ZenonT(40), SMTT(30) DEF FetchMany, Popped
    <3>3. pc \in PollPcs
      BY <3>1
    <3>4. /\ poll' \in [Polls -> PollT] /\ poll'[p].pc = pc /\ poll'[p].conn = poll[p].conn
          /\ \A q \in Polls \ {p} : poll'[q] = poll[q]
      BY <2>1, <3>1, <3>3, Moved, ZenonT(40), SMTT(30)
    <3> QED
      BY <2>1, <3>1, <3>2, <3>4
<1>2. CASE BlockFetchOne(p)
  <2>1. /\ poll' = [poll EXCEPT ![p].pc = "more", ![p].got = 1] /\ queue > 0 /\ queue' = queue - 1
        /\ UNCHANGED <<connVars, overlapped>> /\ poll[p].pc = "block"
    BY <1>2, ZenonT(40), SMTT(30) DEF BlockFetchOne, Popped
  <2>2. "more" \in PollPcs /\ 1 \in Nat
    OBVIOUS
  <2>3. /\ poll' \in [Polls -> PollT] /\ poll'[p].pc = "more" /\ poll'[p].conn = poll[p].conn
        /\ \A q \in Polls \ {p} : poll'[q] = poll[q]
    BY <2>1, <2>2, Moved, ZenonT(40), SMTT(30)
  <2> QED
    BY <2>1, <2>3
<1>3. CASE BlockEnds(p)
  BY <1>3 DEF BlockEnds, Step, queueVars
<1>4. CASE FetchMore(p)
  <2>1. Fetch(Batch - 1) \in Nat /\ queue - Fetch(Batch - 1) \in Nat
    BY FetchTypes, LPAssumption
  <2> QED
    <3>1. /\ poll' = [poll EXCEPT ![p].pc = "reset", ![p].got = poll[p].got + Fetch(Batch - 1)]
          /\ queue' = queue - Fetch(Batch - 1)
          /\ UNCHANGED <<connVars, overlapped>> /\ poll[p].pc = "more"
      BY <1>4, ZenonT(40), SMTT(30) DEF FetchMore, Popped
    <3>2. "reset" \in PollPcs /\ poll[p].got + Fetch(Batch - 1) \in Nat
      BY <2>1
    <3>3. /\ poll' \in [Polls -> PollT] /\ poll'[p].pc = "reset" /\ poll'[p].conn = poll[p].conn
          /\ \A q \in Polls \ {p} : poll'[q] = poll[q]
      BY <3>1, <3>2, Moved, ZenonT(40), SMTT(30)
    <3> QED
      BY <2>1, <3>1, <3>3
<1>5. CASE TestClosed(p)
  BY <1>5 DEF TestClosed, Respond, Step, queueVars, Idle
<1> QED
  BY <1>1, <1>2, <1>3, <1>4, <1>5 DEF QuietStep

\* And so it keeps the invariant.
LEMMA QuietInv ==
    ASSUME LPInv, NEW p \in Polls, QuietStep(p)
    PROVE  LPInv'
<1>i. LPTypes /\ Orderly
  BY DEF LPInv
<1>1. /\ OnlyMoves(p) /\ UNCHANGED <<entry, lpClosed, idleTimer, timerRuns, lpClosing>>
      /\ Waiting(p) /\ poll'[p].pc \in {"idle", "block", "more", "reset", "arm"}
  BY <1>i, QuietMoves, Zenon DEF connVars
<1>2. LPTypes'
  BY <1>i, <1>1, MoveKeeps, ZenonT(40), SMTT(30) DEF LPTypes, OnlyMoves
<1>3. ASSUME ~overlapped
      PROVE  Alone' /\ (\A j \in LPConns : OwnsEntry(j)') /\ \A q \in Polls : Holds(q)'
  <2>1. Alone /\ (\A j \in LPConns : OwnsEntry(j)) /\ Holds(p)
    BY <1>i, <1>3, ZenonT(40), SMTT(30) DEF Orderly
  <2>2. Alone' /\ (\A j \in LPConns : OwnsEntry(j)') /\ \A q \in Polls \ {p} : poll'[q].pc = "idle"
    BY <1>i, <1>1, <2>1, MoveKeeps, ZenonT(40), SMTT(30) DEF OwnsEntry
  <2>3. Holds(p)'
    BY <1>1, <2>1 DEF Holds, Waiting, OnlyMoves
  <2>4. \A q \in Polls \ {p} : Holds(q)'
    BY <2>2 DEF Holds, Waiting
  <2> QED
    BY <2>2, <2>3, <2>4
<1> QED
  BY <1>1, <1>2, <1>3, Zenon DEF LPInv, Orderly, OnlyMoves

\* The steps that touch the entry or the timer.
LoudStep(p) == DuplicateClosed(p) \/ AddConnection(p) \/ StopIdleTimer(p) \/ Arm(p)

\* What such a step does to the entry and to the timer.
LEMMA LoudMoves ==
    ASSUME LPTypes, NEW p \in Polls, LoudStep(p)
    PROVE  /\ OnlyMoves(p) /\ UNCHANGED <<lpClosed, timerRuns, lpClosing>>
           /\ entry' \in LPConns \cup {NoLPConn} /\ idleTimer' \in [LPConns -> BOOLEAN]
           /\ \/ poll[p].pc = "closing"
              \/ /\ poll[p].pc = "add" /\ idleTimer' = idleTimer
                 /\ \/ entry' = poll[p].conn /\ poll'[p].pc = "stop"
                    \/ entry' = entry /\ poll'[p].pc = "idle"
              \/ /\ poll[p].pc = "stop" /\ poll'[p].pc = "fetch" /\ entry' = entry
                 /\ idleTimer' = [idleTimer EXCEPT ![poll[p].conn] = FALSE]
              \/ /\ poll[p].pc = "arm" /\ poll'[p].pc = "idle" /\ entry' = entry
                 /\ idleTimer' = [idleTimer EXCEPT ![poll[p].conn] = TRUE]
<1> USE DEF OnlyMoves, LPTypes, PollT, PollPcs, InFlight
<1>1. CASE DuplicateClosed(p)
  <2>1. /\ poll' = [poll EXCEPT ![p].pc = "add", ![p].dup = NoLPConn] /\ poll[p].pc = "closing"
        /\ UNCHANGED <<entry, lpClosed, idleTimer, timerRuns, lpClosing, queue, overlapped>>
    BY <1>1, ZenonT(40), SMTT(30) DEF DuplicateClosed, connVars, queueVars
  <2>2. poll[p] \in PollT
    OBVIOUS
  <2>3. /\ poll'[p] = [poll[p] EXCEPT !.pc = "add", !.dup = NoLPConn]
        /\ \A q \in Polls \ {p} : poll'[q] = poll[q]
        /\ poll' = [q \in Polls |-> poll'[q]]
    BY <2>1, ZenonT(40), SMTT(30)
  <2> HIDE DEF PollT, PollPcs
  <2>4. poll'[p].conn = poll[p].conn /\ poll'[p].pc = "add" /\ poll'[p] \in PollT
    BY <2>2, <2>3, PollAdds, ZenonT(40), SMTT(30)
  <2>5. poll' \in [Polls -> PollT]
    BY <2>3, <2>4 DEF LPTypes
  <2> QED
    BY <2>1, <2>3, <2>4, <2>5
<1>2. CASE AddConnection(p)
  <2>1. CASE entry' = poll[p].conn /\ Step(p, "stop")
    BY <1>2, <2>1 DEF AddConnection, Step, queueVars
  <2>2. CASE poll' = [poll EXCEPT ![p] = Idle] /\ UNCHANGED entry
    BY <1>2, <2>2 DEF AddConnection, queueVars, Idle
  <2> QED
    BY <1>2, <2>1, <2>2, Zenon DEF AddConnection
<1>3. CASE StopIdleTimer(p)
  BY <1>3 DEF StopIdleTimer, Step, queueVars
<1>4. CASE Arm(p)
  BY <1>4 DEF Arm, Respond, Idle
<1> QED
  BY <1>1, <1>2, <1>3, <1>4 DEF LoudStep

\* And so it keeps the invariant.
LEMMA LoudInv ==
    ASSUME LPInv, NEW p \in Polls, LoudStep(p)
    PROVE  LPInv'
<1>i. LPTypes /\ Orderly
  BY DEF LPInv
<1>1. /\ OnlyMoves(p) /\ UNCHANGED <<lpClosed, timerRuns, lpClosing>>
      /\ entry' \in LPConns \cup {NoLPConn} /\ idleTimer' \in [LPConns -> BOOLEAN]
  BY <1>i, LoudMoves, Zenon
<1>2. LPTypes'
  BY <1>i, <1>1, MoveKeeps, Zenon DEF LPTypes, OnlyMoves
<1>3. ASSUME ~overlapped
      PROVE  Alone' /\ (\A j \in LPConns : OwnsEntry(j)') /\ \A q \in Polls : Holds(q)'
  <2>1. Alone /\ (\A j \in LPConns : OwnsEntry(j)) /\ Holds(p)
    BY <1>i, <1>3, Zenon DEF Orderly
  <2>2. Alone' /\ \A q \in Polls \ {p} : poll'[q].pc = "idle"
    BY <1>i, <1>1, <2>1, MoveKeeps, ZenonT(40), SMTT(30)
  <2>3. \A q \in Polls \ {p} : Holds(q)'
    BY <2>2 DEF Holds, Waiting
  <2>4. /\ poll[p].conn \in LPConns /\ (poll'[p].pc # "idle" => poll'[p].conn = poll[p].conn)
    BY <1>i, <1>1, ZenonT(40), SMTT(30) DEF LPTypes, OnlyMoves
  <2>5. ASSUME poll[p].pc = "add", idleTimer' = idleTimer
        PROVE  \A j \in LPConns : ~lpClosed[j] => ~idleTimer'[j] /\ ~timerRuns'[j]
    BY <1>1, <2>1, <2>5, LPAssumption DEF Holds, OwnsEntry
  <2>6. ASSUME poll[p].pc = "add", idleTimer' = idleTimer, entry' = poll[p].conn, poll'[p].pc = "stop"
        PROVE  (\A j \in LPConns : OwnsEntry(j)') /\ Holds(p)'
    BY <1>1, <2>1, <2>4, <2>5, <2>6, LPAssumption DEF Holds, OwnsEntry, Waiting
  <2>7. ASSUME poll[p].pc = "add", idleTimer' = idleTimer, entry' = entry, poll'[p].pc = "idle"
        PROVE  (\A j \in LPConns : OwnsEntry(j)') /\ Holds(p)'
    BY <1>1, <2>1, <2>7 DEF Holds, OwnsEntry, Waiting
  <2>8. ASSUME poll[p].pc = "stop", poll'[p].pc = "fetch", entry' = entry,
               idleTimer' = [idleTimer EXCEPT ![poll[p].conn] = FALSE]
        PROVE  (\A j \in LPConns : OwnsEntry(j)') /\ Holds(p)'
    BY <1>i, <1>1, <2>1, <2>4, <2>8 DEF LPTypes, Holds, OwnsEntry, Waiting
  <2>9. ASSUME poll[p].pc = "arm", poll'[p].pc = "idle", entry' = entry,
               idleTimer' = [idleTimer EXCEPT ![poll[p].conn] = TRUE]
        PROVE  (\A j \in LPConns : OwnsEntry(j)') /\ Holds(p)'
    BY <1>i, <1>1, <2>1, <2>4, <2>9 DEF LPTypes, Holds, OwnsEntry, Waiting
  <2>10. poll[p].pc # "closing"
    BY <2>1, Zenon DEF Holds
  <2>11. (\A j \in LPConns : OwnsEntry(j)') /\ Holds(p)'
    BY <1>i, <2>6, <2>7, <2>8, <2>9, <2>10, LoudMoves, ZenonT(40), SMTT(30)
  <2> QED
    BY <2>2, <2>3, <2>11
<1> QED
  BY <1>1, <1>2, <1>3, Zenon DEF LPInv, Orderly, OnlyMoves

\* LPInv is inductive.
LEMMA LPInvStep ==
    ASSUME LPInv, [LPNext]_lpVars
    PROVE  LPInv'
<1>1. ASSUME UNCHANGED <<connVars, poll, overlapped>>, queue' \in Nat
      PROVE  LPInv'
  BY <1>1, ZenonT(40), SMTT(30) DEF connVars, LPInv, LPTypes, Orderly, Alone, OwnsEntry, Holds,
     Waiting, InFlight
<1>2. queue \in Nat
  BY DEF LPInv, LPTypes
<1>3. CASE OpenLP \/ QueueExpires \/ FindConn \/ UNCHANGED lpVars
  BY <1>1, <1>2, <1>3 DEF OpenLP, QueueExpires, FindConn, lpVars, queueVars
<1>4. CASE SendToQueue
  BY <1>1, <1>2, <1>4 DEF SendToQueue
<1>5. ASSUME NEW p \in Polls, PollStep(p)
      PROVE  CloseOldPoll(p) \/ QuietStep(p) \/ LoudStep(p)
  BY <1>5, Zenon DEF PollStep, QuietStep, LoudStep
<1>6. \/ OpenLP \/ QueueExpires \/ FindConn \/ SendToQueue \/ UNCHANGED lpVars
      \/ \E k \in LPConns : ConnStep(k)
      \/ \E p \in Polls : Lookup(p) \/ PollStep(p)
  BY Zenon DEF LPNext, ConnStep
<1> QED
  BY <1>3, <1>4, <1>5, <1>6, ConnStepInv, LookupInv, CloseOldInv, QuietInv, LoudInv, ZenonT(40),
     SMTT(30)

\* LPInv holds at first.
LEMMA LPInvInit == LPInit => LPInv
<1>1. SUFFICES ASSUME LPInit PROVE LPInv
  OBVIOUS
<1>2. Idle \in PollT /\ Idle.pc = "idle" /\ \A p \in Polls : poll[p] = Idle
  BY <1>1 DEF LPInit, PollT, PollPcs, Idle
<1>3. LPTypes
  BY <1>1, <1>2, LPAssumption, ZenonT(40), SMTT(30) DEF LPInit, LPTypes, InFlight
<1>4. Orderly
  BY <1>1, <1>2 DEF LPInit, Orderly, Alone, OwnsEntry, Holds, Waiting, InFlight
<1> QED
  BY <1>3, <1>4 DEF LPInv

\* While requests do not overlap, a poll that waits in drainOrWait has no idle
\* timer over it and is the connection the ConnectionManager leads to, for any
\* number of connections and handlers.
THEOREM PollKeepsItsConnectionThm == LPInit /\ [][LPNext]_lpVars => []PollKeepsItsConnection
<1>1. LPInv => PollKeepsItsConnection
  BY DEF LPInv, Orderly, Holds, PollKeepsItsConnection, NoWatchdogUnderPoll, WaitingPollIsRoutable,
     Waiting
<1> QED
  BY <1>1, LPInvInit, LPInvStep, PTL
-----------------------------------------------------------------------------
(* Sums over finite sets *)

\* Among subsets of a finite set there is a smallest one.
LEMMA SmallestSubset ==
    ASSUME NEW S, IsFiniteSet(S), NEW Bad \in SUBSET SUBSET S, Bad # {}
    PROVE  \E T \in Bad : \A U \in Bad : U \subseteq T => U = T
<1>1. Bad \subseteq FiniteSubsetsOf(S)
  BY FS_Subset DEF FiniteSubsetsOf
<1>2. IsWellFoundedOn(StrictSubsetOrdering(S), FiniteSubsetsOf(S))
  BY FS_StrictSubsetOrderingWellFounded, Zenon
<1>3. PICK T \in Bad : \A U \in Bad : ~ (<<U, T>> \in StrictSubsetOrdering(S))
  BY <1>1, <1>2, WFMin, Zenon
<1>4. ASSUME NEW U \in Bad, U \subseteq T, U # T
      PROVE  FALSE
  <2>1. U \in SUBSET S /\ T \in SUBSET S
    OBVIOUS
  <2>2. <<U, T>> \in (SUBSET S) \X (SUBSET S) /\ <<U, T>>[1] = U /\ <<U, T>>[2] = T
    BY <2>1
  <2>3. <<U, T>> \in StrictSubsetOrdering(S)
    BY <1>4, <2>2, Zenon DEF StrictSubsetOrdering
  <2> QED
    BY <1>3, <2>3, ZenonT(40), SMTT(30)
<1>5. \A U \in Bad : U \subseteq T => U = T
  BY <1>4
<1> QED
  BY <1>5

\* The element a sum takes first, and what it leaves.
Pick(s) == CHOOSE x \in s : TRUE
Rest(s) == s \ {Pick(s)}

\* g adds up f over the subsets of S.
Adds(g, f, S) == g = [s \in SUBSET S |-> IF s = {} THEN 0 ELSE f[Pick(s)] + g[Rest(s)]]
Adder(f, S) == CHOOSE g : Adds(g, f, S)
Total(f, S) == Adder(f, S)[S]

\* What is left without the element picked is a smaller subset.
LEMMA RestIn ==
    ASSUME NEW S, NEW s \in SUBSET S, s # {}
    PROVE  Pick(s) \in s /\ Rest(s) \in SUBSET S /\ Rest(s) \subseteq s /\ Rest(s) # s
  BY DEF Pick, Rest

\* The equation at one subset.
LEMMA AddsAt ==
    ASSUME NEW S, NEW f, NEW g, Adds(g, f, S), NEW s \in SUBSET S
    PROVE  g[s] = IF s = {} THEN 0 ELSE f[Pick(s)] + g[Rest(s)]
  BY ZenonT(40), SMTT(30) DEF Adds

\* Two adders agree where both are defined.
LEMMA AddersAgree ==
    ASSUME NEW S, NEW T, NEW f, NEW g, NEW h, IsFiniteSet(S), Adds(g, f, S), Adds(h, f, T),
           NEW u \in SUBSET S, u \subseteq T
    PROVE  g[u] = h[u]
<1> DEFINE Bad == {s \in SUBSET S : s \subseteq T /\ g[s] # h[s]}
<1> SUFFICES ASSUME Bad # {} PROVE FALSE
  OBVIOUS
<1>1. PICK s \in Bad : \A t \in Bad : t \subseteq s => t = s
  <2>1. Bad \in SUBSET SUBSET S
    OBVIOUS
  <2> HIDE DEF Bad
  <2> QED
    BY <2>1, SmallestSubset
<1>2. /\ g[s] = IF s = {} THEN 0 ELSE f[Pick(s)] + g[Rest(s)]
      /\ h[s] = IF s = {} THEN 0 ELSE f[Pick(s)] + h[Rest(s)]
  BY <1>1, AddsAt
<1>3. s # {}
  BY <1>1, <1>2
<1>4. Rest(s) \in SUBSET S /\ Rest(s) \subseteq s /\ Rest(s) # s
  BY <1>1, <1>3, RestIn
<1>5. g[Rest(s)] = h[Rest(s)]
  BY <1>1, <1>4
<1> QED
  BY <1>1, <1>2, <1>3, <1>5

\* There is one.
LEMMA AdderAdds ==
    ASSUME NEW S, IsFiniteSet(S), NEW f
    PROVE  Adds(Adder(f, S), f, S)
<1> DEFINE Bad == {T \in SUBSET S : ~ Adds(Adder(f, T), f, T)}
<1>a. SUFFICES ASSUME Bad # {} PROVE FALSE
  OBVIOUS
<1>1. PICK T \in Bad : \A U \in Bad : U \subseteq T => U = T
  <2>1. Bad \in SUBSET SUBSET S
    OBVIOUS
  <2> HIDE DEF Bad
  <2> QED
    BY <1>a, <2>1, SmallestSubset
<1> DEFINE Below(s) == Adder(f, Rest(s))[Rest(s)]
           h == [s \in SUBSET T |-> IF s = {} THEN 0 ELSE f[Pick(s)] + Below(s)]
<1>2. ASSUME NEW s \in SUBSET T, s # {}
      PROVE  IsFiniteSet(Rest(s)) /\ Adds(Adder(f, Rest(s)), f, Rest(s))
  <2>1. Rest(s) \in SUBSET T /\ Rest(s) # T /\ Rest(s) \subseteq S
    BY <1>1, <1>2, RestIn, ZenonT(40), SMTT(30)
  <2> QED
    BY <1>1, <2>1, FS_Subset
<1>3. ASSUME NEW s \in SUBSET T, s # {}
      PROVE  Below(s) = h[Rest(s)]
  <2> DEFINE t == Rest(s)
  <2>1. t \in SUBSET T /\ t \in SUBSET t
    BY <1>3, RestIn
  <2>2. Adder(f, t)[t] = IF t = {} THEN 0 ELSE f[Pick(t)] + Adder(f, t)[Rest(t)]
    BY <1>2, <1>3, AddsAt, <2>1
  <2>3. h[t] = IF t = {} THEN 0 ELSE f[Pick(t)] + Below(t)
    BY <2>1
  <2>4. ASSUME t # {}
        PROVE  Adder(f, t)[Rest(t)] = Below(t)
    <3>1. Rest(t) \in SUBSET t /\ Rest(t) \subseteq Rest(t)
      BY <2>1, <2>4, RestIn
    <3>2. Adds(Adder(f, t), f, t) /\ IsFiniteSet(t) /\ Adds(Adder(f, Rest(t)), f, Rest(t))
      BY <1>2, <1>3, <2>1, <2>4
    <3> HIDE DEF t
    <3> QED
      BY <3>1, <3>2, AddersAgree
  <2> HIDE DEF t, h
  <2>5. Adder(f, t)[t] = h[t]
    BY <2>2, <2>3, <2>4
  <2> QED
    BY <2>5 DEF t
<1>4. Adds(h, f, T)
  <2>1. \A s \in SUBSET T : (IF s = {} THEN 0 ELSE f[Pick(s)] + Below(s))
                             = (IF s = {} THEN 0 ELSE f[Pick(s)] + h[Rest(s)])
    <3> HIDE DEF Below, h
    <3> QED
      BY <1>3
  <2> QED
    BY <2>1, Zenon DEF Adds
<1>5. Adds(Adder(f, T), f, T)
  <2> HIDE DEF h
  <2> QED
    BY <1>4, ZenonT(40), SMTT(30) DEF Adder
<1> QED
  BY <1>1, <1>5

\* The total is taken apart at the element that is picked.
LEMMA TotalPicks ==
    ASSUME NEW S, IsFiniteSet(S), NEW f
    PROVE  Total(f, S) = IF S = {} THEN 0 ELSE f[Pick(S)] + Total(f, Rest(S))
<1>1. Total(f, S) = IF S = {} THEN 0 ELSE f[Pick(S)] + Adder(f, S)[Rest(S)]
  <2>1. Adds(Adder(f, S), f, S) /\ S \in SUBSET S
    BY AdderAdds
  <2> QED
    BY <2>1, AddsAt DEF Total
<1>2. ASSUME S # {}
      PROVE  Adder(f, S)[Rest(S)] = Total(f, Rest(S))
  <2>1. Rest(S) \in SUBSET S /\ Rest(S) \subseteq Rest(S)
    BY <1>2, RestIn
  <2>2. Adds(Adder(f, S), f, S) /\ Adds(Adder(f, Rest(S)), f, Rest(S))
    BY <2>1, AdderAdds, FS_Subset
  <2> QED
    BY <2>1, <2>2, AddersAgree DEF Total
<1> QED
  BY <1>1, <1>2

\* The total of natural numbers is one.
LEMMA TotalNat ==
    ASSUME NEW S, IsFiniteSet(S), NEW f, \A p \in S : f[p] \in Nat
    PROVE  Total(f, S) \in Nat
<1> DEFINE Bad == {T \in SUBSET S : Total(f, T) \notin Nat}
<1>a. SUFFICES ASSUME Bad # {} PROVE FALSE
  OBVIOUS
<1>1. PICK T \in Bad : \A U \in Bad : U \subseteq T => U = T
  <2>1. Bad \in SUBSET SUBSET S
    OBVIOUS
  <2> HIDE DEF Bad
  <2> QED
    BY <1>a, <2>1, SmallestSubset
<1>2. T \in SUBSET S /\ IsFiniteSet(T)
  BY FS_Subset
<1>3. Total(f, T) = IF T = {} THEN 0 ELSE f[Pick(T)] + Total(f, Rest(T))
  BY <1>2, TotalPicks
<1>4. T # {}
  BY <1>3
<1>5. Pick(T) \in T /\ Rest(T) \in SUBSET S /\ Rest(T) \subseteq T /\ Rest(T) # T
  BY <1>2, <1>4, RestIn
<1>6. Total(f, Rest(T)) \in Nat
  BY <1>1, <1>5
<1>7. f[Pick(T)] \in Nat
  BY <1>2, <1>5
<1>8. Total(f, T) = f[Pick(T)] + Total(f, Rest(T))
  BY <1>3, <1>4
<1>9. Total(f, T) \in Nat
  BY <1>6, <1>7, <1>8
<1> QED
  BY <1>9

\* Nothing adds up to nothing.
LEMMA TotalZero ==
    ASSUME NEW S, IsFiniteSet(S), NEW f, \A p \in S : f[p] = 0
    PROVE  Total(f, S) = 0
<1> DEFINE Bad == {T \in SUBSET S : Total(f, T) # 0}
<1>a. SUFFICES ASSUME Bad # {} PROVE FALSE
  OBVIOUS
<1>1. PICK T \in Bad : \A U \in Bad : U \subseteq T => U = T
  <2>1. Bad \in SUBSET SUBSET S
    OBVIOUS
  <2> HIDE DEF Bad
  <2> QED
    BY <1>a, <2>1, SmallestSubset
<1>2. T \in SUBSET S /\ IsFiniteSet(T)
  BY FS_Subset
<1>3. Total(f, T) = IF T = {} THEN 0 ELSE f[Pick(T)] + Total(f, Rest(T))
  BY <1>2, TotalPicks
<1>4. T # {}
  BY <1>3
<1>5. Pick(T) \in T /\ Rest(T) \in SUBSET S /\ Rest(T) \subseteq T /\ Rest(T) # T
  BY <1>2, <1>4, RestIn
<1>6. Total(f, Rest(T)) = 0 /\ f[Pick(T)] = 0
  BY <1>1, <1>2, <1>5
<1> QED
  BY <1>3, <1>4, <1>6

\* What is picked makes no difference.
LEMMA TotalApart ==
    ASSUME NEW S, IsFiniteSet(S), NEW f, \A p \in S : f[p] \in Nat, NEW p \in S
    PROVE  Total(f, S) = f[p] + Total(f, S \ {p})
<1> DEFINE Bad == {T \in SUBSET S : \E q \in T : Total(f, T) # f[q] + Total(f, T \ {q})}
<1>a. SUFFICES ASSUME Bad # {} PROVE FALSE
  BY Zenon
<1>1. PICK T \in Bad : \A U \in Bad : U \subseteq T => U = T
  <2>1. Bad \in SUBSET SUBSET S
    OBVIOUS
  <2> HIDE DEF Bad
  <2> QED
    BY <1>a, <2>1, SmallestSubset
<1>2. PICK q \in T : Total(f, T) # f[q] + Total(f, T \ {q})
  OBVIOUS
<1>3. T \in SUBSET S /\ IsFiniteSet(T) /\ T # {}
  BY <1>2, FS_Subset
<1> DEFINE x == Pick(T)
<1>4. x \in T /\ Rest(T) = T \ {x}
  BY <1>3, RestIn DEF Rest
<1>5. Total(f, T) = f[x] + Total(f, T \ {x})
  BY <1>3, <1>4, TotalPicks
<1>6. x # q
  BY <1>2, <1>5
<1> HIDE DEF x
<1>7. Total(f, T \ {x}) = f[q] + Total(f, (T \ {x}) \ {q})
  <2>1. T \ {x} \notin Bad /\ T \ {x} \in SUBSET S /\ q \in T \ {x}
    BY <1>1, <1>3, <1>4, <1>6
  <2> QED
    BY <2>1, ZenonT(40), SMTT(30)
<1>8. Total(f, T \ {q}) = f[x] + Total(f, (T \ {q}) \ {x})
  <2>1. T \ {q} \notin Bad /\ T \ {q} \in SUBSET S /\ x \in T \ {q}
    BY <1>1, <1>3, <1>4, <1>6, ZenonT(40), SMTT(30)
  <2> QED
    BY <2>1, Zenon
<1>9. (T \ {x}) \ {q} = (T \ {q}) \ {x}
  OBVIOUS
<1>10. f[x] \in Nat /\ f[q] \in Nat /\ Total(f, (T \ {q}) \ {x}) \in Nat
  <2>1. IsFiniteSet((T \ {q}) \ {x}) /\ \A y \in (T \ {q}) \ {x} : f[y] \in Nat
    BY <1>3, FS_RemoveElement, ZenonT(40), SMTT(30)
  <2> QED
    BY <1>3, <1>4, <2>1, TotalNat
<1> HIDE DEF Bad
<1> QED
  BY <1>2, <1>5, <1>7, <1>8, <1>9, <1>10

\* Functions that agree on the set have the same total.
LEMMA TotalsAgree ==
    ASSUME NEW S, IsFiniteSet(S), NEW f, NEW g, \A p \in S : f[p] = g[p]
    PROVE  Total(f, S) = Total(g, S)
<1> DEFINE Bad == {T \in SUBSET S : Total(f, T) # Total(g, T)}
<1>a. SUFFICES ASSUME Bad # {} PROVE FALSE
  OBVIOUS
<1>1. PICK T \in Bad : \A U \in Bad : U \subseteq T => U = T
  <2>1. Bad \in SUBSET SUBSET S
    OBVIOUS
  <2> HIDE DEF Bad
  <2> QED
    BY <1>a, <2>1, SmallestSubset
<1>2. T \in SUBSET S /\ IsFiniteSet(T)
  BY FS_Subset
<1>3. /\ Total(f, T) = IF T = {} THEN 0 ELSE f[Pick(T)] + Total(f, Rest(T))
      /\ Total(g, T) = IF T = {} THEN 0 ELSE g[Pick(T)] + Total(g, Rest(T))
  BY <1>2, TotalPicks
<1>4. T # {}
  BY <1>3
<1>5. Pick(T) \in T /\ Rest(T) \in SUBSET S /\ Rest(T) \subseteq T /\ Rest(T) # T
  BY <1>2, <1>4, RestIn
<1>6. Total(f, Rest(T)) = Total(g, Rest(T)) /\ f[Pick(T)] = g[Pick(T)]
  BY <1>1, <1>2, <1>5
<1> QED
  BY <1>3, <1>4, <1>6

\* The sum of the community modules.
LEMMA SumIsTotal ==
    ASSUME NEW f, NEW S
    PROVE  MapThenSumSet(LAMBDA p : f[p].got, S) = Total([p \in S |-> f[p].got], S)
BY ZenonT(40), SMTT(30) DEF MapThenSumSet, MapThenFoldSet, Total, Adder, Adds, Rest, Pick
-----------------------------------------------------------------------------
(* Every message is accounted for *)

\* What each handler has fetched, and all of it.
Gots == [p \in Polls |-> poll[p].got]
Fetched == Total(Gots, Polls)

\* Before its first fetch a handler has nothing, and before the second one
\* message.
FetchesInOrder(p) ==
    /\ poll[p].got <= Batch
    /\ poll[p].pc \in {"idle", "duplicate", "closing", "add", "stop", "fetch", "block"} => poll[p].got = 0
    /\ poll[p].pc = "more" => poll[p].got = 1

\* The balance of the messages.
AccountInv ==
    /\ lpOpen \in BOOLEAN /\ ttl \in BOOLEAN
    /\ unsent \in Nat /\ sending \in Nat /\ settled \in Nat
    /\ \A p \in Polls : FetchesInOrder(p)
    /\ unsent + sending + queue + settled + Fetched = LPMessages

\* One handler's share is its own.
LEMMA FetchedMoves ==
    ASSUME LPTypes, LPTypes', NEW p \in Polls, \A q \in Polls \ {p} : poll'[q] = poll[q]
    PROVE  \E n \in Nat : Fetched = poll[p].got + n /\ Fetched' = poll'[p].got + n
<1>1. \A q \in Polls : poll[q].got \in Nat /\ poll'[q].got \in Nat
  BY DEF LPTypes, PollT
<1>2. /\ \A q \in Polls : Gots[q] \in Nat /\ Gots'[q] \in Nat
      /\ Gots[p] = poll[p].got /\ Gots'[p] = poll'[p].got
      /\ \A q \in Polls \ {p} : Gots'[q] = Gots[q]
  BY <1>1, Zenon DEF Gots
<1>3. IsFiniteSet(Polls) /\ IsFiniteSet(Polls \ {p})
  BY LPAssumption, FS_RemoveElement
<1>4. /\ Fetched = Gots[p] + Total(Gots, Polls \ {p})
      /\ Fetched' = Gots'[p] + Total(Gots', Polls \ {p})
  BY <1>2, <1>3, TotalApart DEF Fetched
<1>5. Total(Gots, Polls \ {p}) = Total(Gots', Polls \ {p})
  BY <1>2, <1>3, TotalsAgree
<1>6. Total(Gots, Polls \ {p}) \in Nat
  BY <1>2, <1>3, TotalNat
<1> QED
  BY <1>2, <1>4, <1>5, <1>6

\* A handler's step takes n messages from the queue, hands over what it has, or
\* neither.
Takes(p) ==
    \E n \in Nat :
       /\ queue' = queue - n /\ settled' = settled /\ poll'[p].got = poll[p].got + n
       /\ FetchesInOrder(p)'
HandsOver(p) ==
    /\ queue' = queue /\ settled' = settled + poll[p].got
    /\ poll'[p].got = 0 /\ poll'[p].pc = "idle"

\* The record of a handler that goes on.
LEMMA PollGoesOn ==
    ASSUME LPTypes, NEW p \in Polls, NEW pc, Step(p, pc)
    PROVE  /\ poll'[p].pc = pc /\ poll'[p].got = poll[p].got
           /\ \A q \in Polls \ {p} : poll'[q] = poll[q]
<1>1. poll'[p] = [poll[p] EXCEPT !.pc = pc] /\ \A q \in Polls \ {p} : poll'[q] = poll[q]
  BY DEF LPTypes, Step
<1>2. poll[p] \in PollT
  BY DEF LPTypes
<1>3. ASSUME NEW r \in PollT, NEW s, s = [r EXCEPT !.pc = pc]
      PROVE  s.pc = pc /\ s.got = r.got
  BY <1>3 DEF PollT
<1> QED
  BY <1>1, <1>2, <1>3, Zenon

\* A handler that fetches.
LEMMA PollFetches ==
    ASSUME LPTypes, NEW p \in Polls, NEW pc, NEW got,
           poll' = [poll EXCEPT ![p].pc = pc, ![p].got = got]
    PROVE  /\ poll'[p].pc = pc /\ poll'[p].got = got
           /\ \A q \in Polls \ {p} : poll'[q] = poll[q]
<1>1. poll'[p] = [poll[p] EXCEPT !.pc = pc, !.got = got] /\ \A q \in Polls \ {p} : poll'[q] = poll[q]
  BY DEF LPTypes
<1>2. poll[p] \in PollT
  BY DEF LPTypes
<1>3. ASSUME NEW r \in PollT, NEW s, s = [r EXCEPT !.pc = pc, !.got = got]
      PROVE  s.pc = pc /\ s.got = got
  BY <1>3 DEF PollT
<1> QED
  BY <1>1, <1>2, <1>3, Zenon

\* A handler that looks for a duplicate.
LEMMA PollSeeks ==
    ASSUME LPTypes, NEW p \in Polls, NEW pc, NEW dup,
           poll' = [poll EXCEPT ![p].pc = pc, ![p].dup = dup]
    PROVE  /\ poll'[p].pc = pc /\ poll'[p].got = poll[p].got
           /\ \A q \in Polls \ {p} : poll'[q] = poll[q]
<1>1. poll'[p] = [poll[p] EXCEPT !.pc = pc, !.dup = dup] /\ \A q \in Polls \ {p} : poll'[q] = poll[q]
  BY DEF LPTypes
<1>2. poll[p] \in PollT
  BY DEF LPTypes
<1>3. ASSUME NEW r \in PollT, NEW s, s = [r EXCEPT !.pc = pc, !.dup = dup]
      PROVE  s.pc = pc /\ s.got = r.got
  BY <1>3 DEF PollT
<1> QED
  BY <1>1, <1>2, <1>3, Zenon

\* A handler that ends.
LEMMA PollEnds ==
    ASSUME LPTypes, NEW p \in Polls, poll' = [poll EXCEPT ![p] = Idle]
    PROVE  /\ poll'[p].pc = "idle" /\ poll'[p].got = 0
           /\ \A q \in Polls \ {p} : poll'[q] = poll[q]
BY DEF LPTypes, Idle

\* What a handler's step does to the messages.
LEMMA HandlerTakes ==
    ASSUME LPTypes, AccountInv, NEW p \in Polls, Lookup(p) \/ PollStep(p)
    PROVE  /\ lpOpen' = lpOpen /\ ttl' \in BOOLEAN /\ unsent' = unsent /\ sending' = sending
           /\ \A q \in Polls \ {p} : poll'[q] = poll[q]
           /\ Takes(p) \/ HandsOver(p)
<1>g. poll[p].got \in Nat /\ queue \in Nat /\ Batch \in Nat \ {0}
  BY LPAssumption DEF LPTypes, PollT
<1>o. FetchesInOrder(p) /\ ttl \in BOOLEAN
  BY DEF AccountInv
<1> DEFINE Early == {"idle", "duplicate", "closing", "add", "stop", "fetch", "block"}
<1>n. ASSUME queue' = queue, settled' = settled, poll[p].pc \in Early, poll'[p].pc \in Early, 
             poll'[p].got = poll[p].got \/ poll'[p].got = 0
      PROVE  Takes(p)
  <2>1. poll[p].got = 0 /\ poll'[p].got = 0
    BY <1>o, <1>n DEF FetchesInOrder
  <2>2. FetchesInOrder(p)'
    BY <1>g, <1>n, <2>1 DEF FetchesInOrder
  <2>3. queue' = queue - 0 /\ poll'[p].got = poll[p].got + 0
    BY <1>g, <1>n, <2>1
  <2> QED
    BY <1>n, <2>2, <2>3 DEF Takes
<1>1. CASE Lookup(p)
  <2>1. /\ UNCHANGED <<lpOpen, ttl, unsent, sending, queue, settled>> /\ poll[p].pc = "idle"
        /\ \E pc \in {"duplicate", "stop"} : \E k : poll' = [poll EXCEPT ![p] = [Idle EXCEPT !.pc = pc, !.conn = k]]
    BY <1>1, Zenon DEF Lookup, queueVars, InFlight
  <2>2. poll'[p].pc \in {"duplicate", "stop"} /\ poll'[p].got = 0 /\ \A q \in Polls \ {p} : poll'[q] = poll[q]
    BY <2>1 DEF LPTypes, Idle
  <2> QED
    BY <1>o, <1>n, <2>1, <2>2
<1>2. CASE CloseOldPoll(p)
  <2>1. UNCHANGED <<lpOpen, ttl, unsent, sending, queue, settled>> /\ poll[p].pc = "duplicate"
    BY <1>2 DEF CloseOldPoll, queueVars
  <2>2. \/ Step(p, "add")
        \/ \E pc \in {"add", "closing"} : \E dup : poll' = [poll EXCEPT ![p].pc = pc, ![p].dup = dup]
    BY <1>2 DEF CloseOldPoll
  <2>3. /\ poll'[p].pc \in {"add", "closing"} /\ poll'[p].got = poll[p].got
        /\ \A q \in Polls \ {p} : poll'[q] = poll[q]
    <3>1. CASE Step(p, "add")
      BY <3>1, PollGoesOn, Zenon
    <3>2. ASSUME NEW pc \in {"add", "closing"}, NEW dup, poll' = [poll EXCEPT ![p].pc = pc, ![p].dup = dup]
          PROVE  /\ poll'[p].pc \in {"add", "closing"} /\ poll'[p].got = poll[p].got
                 /\ \A q \in Polls \ {p} : poll'[q] = poll[q]
      BY <3>2, PollSeeks, Zenon
    <3> QED
      BY <2>2, <3>1, <3>2, Zenon
  <2> QED
    BY <1>o, <1>n, <2>1, <2>3
<1>3. CASE DuplicateClosed(p)
  <2>1. /\ UNCHANGED <<lpOpen, ttl, unsent, sending, queue, settled>> /\ poll[p].pc = "closing"
        /\ poll' = [poll EXCEPT ![p].pc = "add", ![p].dup = NoLPConn]
    BY <1>3 DEF DuplicateClosed, queueVars
  <2>2. /\ poll'[p].pc = "add" /\ poll'[p].got = poll[p].got
        /\ \A q \in Polls \ {p} : poll'[q] = poll[q]
    BY <2>1, PollSeeks, ZenonT(40), SMTT(30)
  <2> QED
    BY <1>o, <1>n, <2>1, <2>2, Zenon
<1>4. CASE AddConnection(p)
  <2>1. /\ UNCHANGED <<lpOpen, ttl, unsent, sending, queue, settled>> /\ poll[p].pc = "add"
        /\ Step(p, "stop") \/ poll' = [poll EXCEPT ![p] = Idle]
    BY <1>4 DEF AddConnection, queueVars
  <2>2. /\ poll'[p].pc \in {"stop", "idle"} /\ (poll'[p].got = poll[p].got \/ poll'[p].got = 0)
        /\ \A q \in Polls \ {p} : poll'[q] = poll[q]
    BY <2>1, PollGoesOn, PollEnds
  <2> QED
    BY <1>o, <1>n, <2>1, <2>2
<1>5. CASE StopIdleTimer(p)
  <2>1. /\ UNCHANGED <<lpOpen, ttl, unsent, sending, queue, settled>> /\ poll[p].pc = "stop"
        /\ Step(p, "fetch")
    BY <1>5 DEF StopIdleTimer, queueVars
  <2>2. /\ poll'[p].pc = "fetch" /\ poll'[p].got = poll[p].got
        /\ \A q \in Polls \ {p} : poll'[q] = poll[q]
    BY <2>1, PollGoesOn, ZenonT(40), SMTT(30)
  <2> QED
    BY <1>o, <1>n, <2>1, <2>2
<1>6. CASE FetchMany(p)
  <2> DEFINE n == Fetch(Batch)
  <2>1. n \in Nat /\ n <= Batch
    BY <1>g DEF Fetch
  <2>2. PICK pc \in {"block", "reset"} :
           (pc = "block" => n = 0) /\ poll' = [poll EXCEPT ![p].pc = pc, ![p].got = n]
    BY <1>6, Zenon DEF FetchMany
  <2>3. /\ UNCHANGED <<lpOpen, unsent, sending, settled>> /\ poll[p].pc = "fetch" /\ queue' = queue - n
        /\ ttl' \in BOOLEAN
    BY <1>6, Zenon DEF FetchMany, Popped
  <2> HIDE DEF n
  <2>4. poll'[p].pc = pc /\ poll'[p].got = n /\ \A q \in Polls \ {p} : poll'[q] = poll[q]
    BY <2>2, PollFetches, ZenonT(40), SMTT(30)
  <2>5. FetchesInOrder(p)' /\ poll[p].got = 0
    <3>1. poll[p].got = 0
      BY <1>o, <2>3 DEF FetchesInOrder
    <3>2. poll'[p].got <= Batch /\ poll'[p].pc \in {"block", "reset"}
      BY <2>1, <2>2, <2>4
    <3>3. poll'[p].pc = "block" => poll'[p].got = 0
      BY <2>2, <2>4, ZenonT(40), SMTT(30)
    <3> QED
      BY <3>1, <3>2, <3>3 DEF FetchesInOrder
  <2>6. Takes(p)
    BY <2>1, <2>3, <2>4, <2>5 DEF Takes
  <2> QED
    BY <2>3, <2>4, <2>6
<1>7. CASE BlockFetchOne(p)
  <2>1. /\ UNCHANGED <<lpOpen, unsent, sending, settled>> /\ poll[p].pc = "block" /\ queue' = queue - 1
        /\ ttl' \in BOOLEAN /\ poll' = [poll EXCEPT ![p].pc = "more", ![p].got = 1]
    BY <1>7, Zenon DEF BlockFetchOne, Popped
  <2>2. poll'[p].pc = "more" /\ poll'[p].got = 1 /\ \A q \in Polls \ {p} : poll'[q] = poll[q]
    BY <2>1, PollFetches, Zenon
  <2>3. FetchesInOrder(p)' /\ poll[p].got = 0
    BY <1>o, <1>g, <2>1, <2>2 DEF FetchesInOrder
  <2>4. Takes(p)
    BY <2>1, <2>2, <2>3 DEF Takes
  <2> QED
    BY <2>1, <2>2, <2>4, Zenon
<1>8. CASE BlockEnds(p)
  <2>1. /\ UNCHANGED <<lpOpen, ttl, unsent, sending, queue, settled>> /\ poll[p].pc = "block"
        /\ Step(p, "reset")
    BY <1>8 DEF BlockEnds, queueVars
  <2>2. /\ poll'[p].pc = "reset" /\ poll'[p].got = poll[p].got
        /\ \A q \in Polls \ {p} : poll'[q] = poll[q]
    BY <2>1, PollGoesOn, ZenonT(40), SMTT(30)
  <2>3. FetchesInOrder(p)' /\ queue' = queue - 0 /\ poll'[p].got = poll[p].got + 0
    <3>1. poll[p].got = 0
      BY <1>o, <2>1 DEF FetchesInOrder
    <3>2. FetchesInOrder(p)'
      BY <1>g, <2>2, <3>1 DEF FetchesInOrder
    <3> QED
      BY <1>g, <2>1, <2>2, <3>2
  <2>4. Takes(p)
    BY <2>1, <2>3 DEF Takes
  <2> QED
    BY <1>o, <2>1, <2>2, <2>4
<1>9. CASE FetchMore(p)
  <2> DEFINE n == Fetch(Batch - 1)
  <2>1. n \in Nat /\ n <= Batch - 1
    BY <1>g DEF Fetch
  <2>2. /\ UNCHANGED <<lpOpen, unsent, sending, settled>> /\ poll[p].pc = "more" /\ queue' = queue - n
        /\ ttl' \in BOOLEAN /\ poll' = [poll EXCEPT ![p].pc = "reset", ![p].got = poll[p].got + n]
    BY <1>9, Zenon DEF FetchMore, Popped
  <2> HIDE DEF n
  <2>3. poll'[p].pc = "reset" /\ poll'[p].got = poll[p].got + n /\ \A q \in Polls \ {p} : poll'[q] = poll[q]
    BY <2>2, PollFetches, Zenon
  <2>4. FetchesInOrder(p)'
    BY <1>o, <1>g, <2>1, <2>2, <2>3 DEF FetchesInOrder
  <2>5. Takes(p)
    BY <2>1, <2>2, <2>3, <2>4 DEF Takes
  <2> QED
    BY <2>2, <2>3, <2>5, ZenonT(40), SMTT(30)
<1>10. ASSUME lpOpen' = lpOpen, Respond(p)
       PROVE  /\ lpOpen' = lpOpen /\ ttl' \in BOOLEAN /\ unsent' = unsent /\ sending' = sending
              /\ \A q \in Polls \ {p} : poll'[q] = poll[q]
              /\ HandsOver(p)
  <2>1. /\ UNCHANGED <<unsent, sending, queue>> /\ settled' = settled + poll[p].got /\ ttl' \in BOOLEAN
        /\ poll' = [poll EXCEPT ![p] = Idle]
    BY <1>10, Zenon DEF Respond, SetChannelTTL
  <2>2. poll'[p].pc = "idle" /\ poll'[p].got = 0 /\ \A q \in Polls \ {p} : poll'[q] = poll[q]
    BY <2>1, PollEnds, ZenonT(40), SMTT(30)
  <2> QED
    BY <1>10, <2>1, <2>2, Zenon DEF HandsOver
<1>11. CASE TestClosed(p)
  <2>1. poll[p].pc = "reset" /\ lpOpen' = lpOpen /\ (Respond(p) \/ (Step(p, "arm") /\ UNCHANGED queueVars))
    BY <1>11, ZenonT(40), SMTT(30) DEF TestClosed
  <2>2. CASE Step(p, "arm") /\ UNCHANGED queueVars
    <3>1. UNCHANGED <<ttl, unsent, sending, queue, settled>>
      BY <2>2 DEF queueVars
    <3>2. /\ poll'[p].pc = "arm" /\ poll'[p].got = poll[p].got
          /\ \A q \in Polls \ {p} : poll'[q] = poll[q]
      BY <2>2, PollGoesOn, ZenonT(40), SMTT(30)
    <3>3. FetchesInOrder(p)' /\ queue' = queue - 0 /\ poll'[p].got = poll[p].got + 0
      BY <1>o, <1>g, <3>1, <3>2 DEF FetchesInOrder
    <3>4. Takes(p)
      BY <3>1, <3>3 DEF Takes
    <3> QED
      BY <1>o, <2>1, <3>1, <3>2, <3>4
  <2> QED
    BY <1>10, <2>1, <2>2
<1>12. CASE Arm(p)
  BY <1>10, <1>12 DEF Arm
<1> QED
  BY <1>1, <1>2, <1>3, <1>4, <1>5, <1>6, <1>7, <1>8, <1>9, <1>11, <1>12, ZenonT(40), SMTT(30) DEF
     PollStep

\* AccountInv is inductive, as the types hold.
LEMMA AccountStep ==
    ASSUME LPInv, LPInv', AccountInv, [LPNext]_lpVars
    PROVE  AccountInv'
<1>i. LPTypes /\ LPTypes'
  BY DEF LPInv
<1>f. Fetched \in Nat /\ Fetched' \in Nat
  <2>1. IsFiniteSet(Polls) /\ \A q \in Polls : Gots[q] \in Nat /\ Gots'[q] \in Nat
    BY <1>i, LPAssumption DEF LPTypes, PollT, Gots
  <2> QED
    BY <2>1, TotalNat DEF Fetched
<1>q. queue \in Nat /\ queue' \in Nat /\ unsent \in Nat /\ sending \in Nat /\ settled \in Nat /\ LPMessages \in Nat
  BY <1>i, LPAssumption DEF LPTypes, AccountInv
<1>1. ASSUME poll' = poll, lpOpen' \in BOOLEAN, ttl' \in BOOLEAN,
             unsent' \in Nat, sending' \in Nat, settled' \in Nat,
             unsent' + sending' + queue' + settled' = unsent + sending + queue + settled
      PROVE  AccountInv'
  <2>1. Fetched' = Fetched
    BY <1>1, Zenon DEF Fetched, Gots
  <2>2. \A p \in Polls : FetchesInOrder(p)'
    BY <1>1, Zenon DEF AccountInv, FetchesInOrder
  <2>3. unsent' + sending' + queue' + settled' + Fetched' = LPMessages
    BY <1>1, <1>q, <1>f, <2>1, ZenonT(40), SMTT(30) DEF AccountInv
  <2> QED
    BY <1>1, <2>2, <2>3 DEF AccountInv
<1>2. CASE OpenLP \/ UNCHANGED lpVars
  <2>1. UNCHANGED <<poll, ttl, unsent, sending, queue, settled>> /\ lpOpen' \in BOOLEAN
    BY <1>2, Zenon DEF OpenLP, lpVars, queueVars, AccountInv
  <2> QED
    BY <1>1, <1>q, <2>1 DEF AccountInv
<1>3. CASE QueueExpires
  <2>1. UNCHANGED <<lpOpen, poll, unsent, sending>> /\ ttl' \in BOOLEAN /\ lpOpen \in BOOLEAN
    BY <1>3, Zenon DEF QueueExpires, AccountInv
  <2>2. queue' = 0 /\ settled' = settled + queue
    BY <1>3 DEF QueueExpires
  <2> QED
    BY <1>1, <1>q, <2>1, <2>2
<1>4. CASE FindConn
  BY <1>1, <1>4, <1>q DEF FindConn, AccountInv
<1>5. CASE SendToQueue
  BY <1>1, <1>5, <1>q DEF SendToQueue, AccountInv
<1>6. ASSUME NEW k \in LPConns, ConnStep(k)
      PROVE  AccountInv'
  <2>1. UNCHANGED <<lpOpen, poll, unsent, sending, queue, settled>> /\ ttl' \in BOOLEAN
    BY <1>6, Zenon DEF ConnStep, TimerFires, TimerCloses, ServerCloses, RemoveConnection, Forget,
                       SetChannelTTL, queueVars, AccountInv
  <2> QED
    BY <1>1, <1>q, <2>1 DEF AccountInv
<1>7. ASSUME NEW p \in Polls, Lookup(p) \/ PollStep(p)
      PROVE  AccountInv'
  <2>1. /\ lpOpen' = lpOpen /\ ttl' \in BOOLEAN /\ unsent' = unsent /\ sending' = sending
        /\ \A q \in Polls \ {p} : poll'[q] = poll[q]
        /\ Takes(p) \/ HandsOver(p)
    BY <1>i, <1>7, HandlerTakes, Zenon
  <2>2. PICK m \in Nat : Fetched = poll[p].got + m /\ Fetched' = poll'[p].got + m
    BY <1>i, <2>1, FetchedMoves, Zenon
  <2>3. poll[p].got \in Nat /\ poll'[p].got \in Nat
    BY <1>i DEF LPTypes, PollT
  <2>4. FetchesInOrder(p)'
    <3>1. CASE HandsOver(p)
      <4>1. poll'[p].got = 0 /\ poll'[p].pc = "idle" /\ Batch \in Nat
        BY <3>1, LPAssumption DEF HandsOver
      <4> QED
        BY <4>1 DEF FetchesInOrder
    <3> QED
      BY <2>1, <3>1, Zenon DEF Takes
  <2>5. \A q \in Polls : FetchesInOrder(q)'
    BY <2>1, <2>4, Zenon DEF FetchesInOrder, AccountInv
  <2>6. settled' \in Nat /\ unsent' + sending' + queue' + settled' + Fetched' = LPMessages
    <3>1. unsent + sending + queue + settled + Fetched = LPMessages
      BY DEF AccountInv
    <3>2. CASE Takes(p)
      <4>1. PICK n \in Nat : queue' = queue - n /\ settled' = settled /\ poll'[p].got = poll[p].got + n
        BY <3>2 DEF Takes
      <4> QED
        BY <1>q, <2>1, <2>2, <2>3, <3>1, <4>1
    <3>3. CASE HandsOver(p)
      <4>1. queue' = queue /\ settled' = settled + poll[p].got /\ poll'[p].got = 0
        BY <3>3 DEF HandsOver
      <4> QED
        BY <1>q, <2>1, <2>2, <2>3, <3>1, <4>1
    <3> QED
      BY <2>1, <3>2, <3>3, Zenon
  <2>7. /\ lpOpen \in BOOLEAN /\ unsent \in Nat /\ sending \in Nat
    BY DEF AccountInv
  <2> QED
    BY <2>1, <2>5, <2>6, <2>7, Zenon DEF AccountInv
<1>8. \/ OpenLP \/ QueueExpires \/ FindConn \/ SendToQueue \/ UNCHANGED lpVars
      \/ \E k \in LPConns : ConnStep(k)
      \/ \E p \in Polls : Lookup(p) \/ PollStep(p)
  BY Zenon DEF LPNext, ConnStep
<1> QED
  BY <1>2, <1>3, <1>4, <1>5, <1>6, <1>7, <1>8, ZenonT(40), SMTT(30)

\* No message is lost between the steps of a poll, for any finite number of
\* handlers, any number of messages and any batch size: what FetchMany,
\* BlockFetchOne and the fetch of the rest take from the channel ends in a
\* response.
THEOREM EveryMessageAccountedThm == LPInit /\ [][LPNext]_lpVars => []EveryMessageAccounted
<1>1. LPInit => AccountInv
  <2>1. SUFFICES ASSUME LPInit PROVE AccountInv
    OBVIOUS
  <2>2. Idle.pc = "idle" /\ Idle.got = 0 /\ \A p \in Polls : poll[p] = Idle
    BY <2>1 DEF LPInit, Idle
  <2>3. \A p \in Polls : Gots[p] = 0
    BY <2>2 DEF Gots
  <2>4. Fetched = 0
    BY <2>3, LPAssumption, TotalZero DEF Fetched
  <2>5. \A p \in Polls : FetchesInOrder(p)
    BY <2>2, LPAssumption DEF FetchesInOrder
  <2>6. /\ unsent \in Nat /\ sending \in Nat /\ settled \in Nat
        /\ unsent + sending + queue + settled + Fetched = LPMessages
    BY <2>1, <2>4, LPAssumption DEF LPInit
  <2>7. lpOpen \in BOOLEAN /\ ttl \in BOOLEAN
    BY <2>1, Zenon DEF LPInit
  <2> QED
    BY <2>5, <2>6, <2>7, Zenon DEF AccountInv
<1>2. LPInv /\ AccountInv => EveryMessageAccounted
  <2>1. SUFFICES ASSUME LPInv, AccountInv PROVE EveryMessageAccounted
    OBVIOUS
  <2>i. LPTypes
    BY <2>1 DEF LPInv
  <2>2. \A p \in Polls : poll[p] \in PollT /\ poll[p].got <= Batch
    BY <2>1, <2>i DEF LPTypes, AccountInv, FetchesInOrder
  <2>3. \A p \in Polls : /\ poll[p].conn \in LPConns \cup {NoLPConn}
                         /\ poll[p].dup \in LPConns \cup {NoLPConn}
                         /\ poll[p].got \in 0..Batch
    BY <2>2, LPAssumption DEF PollT
  <2>4. Fetched \in Nat
    <3>1. IsFiniteSet(Polls) /\ \A q \in Polls : Gots[q] \in Nat
      BY <2>2, LPAssumption DEF PollT, Gots
    <3> QED
      BY <3>1, TotalNat DEF Fetched
  <2>5. {unsent, sending, queue, settled} \subseteq 0..LPMessages
    <3>1. /\ unsent \in Nat /\ sending \in Nat /\ settled \in Nat /\ queue \in Nat
          /\ unsent + sending + queue + settled + Fetched = LPMessages
      BY <2>1, <2>i, Zenon DEF AccountInv, LPTypes
    <3>2. unsent <= LPMessages /\ sending <= LPMessages /\ settled <= LPMessages /\ queue <= LPMessages
      BY <2>4, <3>1, LPAssumption
    <3>3. unsent \in 0..LPMessages /\ sending \in 0..LPMessages /\ settled \in 0..LPMessages
          /\ queue \in 0..LPMessages
      BY <3>1, <3>2, LPAssumption
    <3> QED
      BY <3>3, Zenon
  <2>6. LPTypeOK
    BY <2>1, <2>i, <2>3, <2>5 DEF LPTypeOK, LPTypes, AccountInv
  <2>7. MapThenSumSet(LAMBDA p : poll[p].got, Polls) = Fetched
    BY SumIsTotal, Zenon DEF Fetched, Gots
  <2> QED
    BY <2>1, <2>6, <2>7 DEF EveryMessageAccounted, AccountInv
<1>3. LPInit /\ [][LPNext]_lpVars => []LPInv
  BY LPInvInit, LPInvStep, PTL
<1> QED
  BY <1>1, <1>2, <1>3, AccountStep, PTL
=============================================================================
