------------------------- MODULE GobwasServer_proofs -------------------------
(***************************************************************************)
(* Proofs of the safety properties of GobwasServer for any finite set of   *)
(* connections and any cap.                                                *)
(*                                                                         *)
(* Slots: the counter is the size of the set of holders, and every action  *)
(* that writes the counter moves exactly one connection in or out of it.   *)
(* Reads: one token travels from the armed descriptor through the callback *)
(* and the pool to resumeRead and back.  Teardown: the CAS admits one      *)
(* remover, which passes descMu before it stops the descriptor.            *)
(***************************************************************************)
EXTENDS GobwasServer, FiniteSetTheorems, TLAPS

\* A leaf that names no prover is tried with these, in this order.
USE SMTT(20), ZenonT(30), Z3T(30)

-----------------------------------------------------------------------------
(* The inductive invariant, the first state and the remover *)

\* What reserveSlot is about to swap is a count below the cap.
SwapBelowCap == \A k \in Conns : acc[k] = "swap" => loaded[k] < MaxConns

Counted ==
    {k \in Conns : /\ acc[k] \in {"accepted", "desc", "open", "startFailed"}
                   /\ removal[k] \in {"no", "closed"}}

\* The statistics differ by the connections accepted and not yet counted out.
StatsBalance == accepted - closedStat = Cardinality(Counted)

\* Only a connection that was handed to the poller is ever removed, and the
\* progress of the removal fixes the descriptor and the callback count.
RemovalFollows ==
    \A k \in Conns :
        /\ closed[k] <=> removal[k] # "no"
        /\ closed[k] => acc[k] \in {"open", "startFailed"}
        /\ desc[k] = "closed" <=> removal[k] \in {"stopped", "done"}
        /\ hasDesc[k] => removal[k] \in {"no", "closed", "counted", "released"}
        /\ resuming[k] => removal[k] \in {"no", "closed", "counted", "released"}
        /\ onClosed[k] = IF removal[k] = "done" THEN 1 ELSE 0

\* The right to read: the armed descriptor, the callback, one read task or
\* one goroutine on its way to resume.
ReadToken ==
    \A k \in Conns :
        /\ reading[k] \in {0, 1}
        /\ toResume[k] \in {0, 1}
        /\ desc[k] \in {"none", "idle", "armed"} =>
              reading[k] = 0 /\ toResume[k] = 0 /\ ~callback[k] /\ ~resuming[k]
        /\ callback[k] => reading[k] = 0 /\ toResume[k] = 0 /\ ~resuming[k]
        /\ resuming[k] => reading[k] = 0 /\ toResume[k] = 0
        /\ reading[k] = 1 => toResume[k] = 0
        /\ acc[k] \notin {"open", "startFailed"} => desc[k] \in {"none", "idle"}

IInv ==
    /\ TypeOK
    /\ SlotCap
    /\ SlotsBalance
    /\ SwapBelowCap
    /\ StatsBalance
    /\ RemovalFollows
    /\ ReadToken

\* Adding one connection to a set, or taking one out, moves its size by one.
LEMMA CardinalityStep ==
  ASSUME NEW S \in SUBSET Conns, NEW k \in Conns
  PROVE  /\ Cardinality(S) \in Nat
         /\ k \notin S => Cardinality(S \cup {k}) = Cardinality(S) + 1
         /\ k \in S => Cardinality(S \ {k}) = Cardinality(S) - 1 /\ Cardinality(S) > 0
<1>1. IsFiniteSet(S) /\ IsFiniteSet(S \ {k})
  BY GobwasAssumption, FS_Subset, Zenon
<1>2. Cardinality(S) \in Nat /\ Cardinality(S \ {k}) \in Nat
  BY <1>1, FS_CardinalityType, Zenon
<1>3. k \notin S => Cardinality(S \cup {k}) = Cardinality(S) + 1
  BY <1>1, FS_AddElement, Zenon
<1>4. k \in S => Cardinality(S \ {k}) = Cardinality(S) - 1
  BY <1>1, FS_RemoveElement, Zenon
<1> QED
  BY <1>2, <1>3, <1>4

\* An empty server satisfies the invariant.
LEMMA InitIInv == Init => IInv
<1> SUFFICES ASSUME Init PROVE IInv
  BY Zenon
<1>1. TypeOK
  BY Zenon DEF Init, TypeOK
<1>2. Holding = {} /\ Counted = {}
  BY Zenon DEF Init, Holding, Counted
<1>3. SlotsBalance /\ StatsBalance
  BY <1>2, FS_EmptySet DEF Init, SlotsBalance, StatsBalance
<1>4. SlotCap /\ SwapBelowCap
  BY GobwasAssumption DEF Init, SlotCap, SwapBelowCap
<1>5. RemovalFollows
  BY Zenon DEF Init, RemovalFollows
<1>6. ReadToken
  BY Zenon DEF Init, ReadToken
<1> QED
  BY <1>1, <1>3, <1>4, <1>5, <1>6, Zenon DEF IInv

\* client.Close without its branch.
LEMMA CloseEffect ==
  ASSUME TypeOK, RemovalFollows, NEW k \in Conns, Close(k)
  PROVE  /\ closed' = [closed EXCEPT ![k] = TRUE]
         /\ removal' = [removal EXCEPT ![k] = IF @ = "no" THEN "closed" ELSE @]
<1>1. CASE closed[k]
  BY <1>1 DEF Close, TypeOK, RemovalFollows
<1>2. CASE ~closed[k]
  BY <1>2, Zenon DEF Close, TypeOK, RemovalFollows
<1> QED
  BY <1>1, <1>2, Zenon

\* CardinalityStep for the two sets whose sizes the counters follow.
LEMMA HolderSizes ==
  ASSUME NEW k \in Conns
  PROVE  /\ Cardinality(Holding) \in Nat /\ Cardinality(Counted) \in Nat
         /\ k \notin Holding => Cardinality(Holding \cup {k}) = Cardinality(Holding) + 1
         /\ k \in Holding => /\ Cardinality(Holding \ {k}) = Cardinality(Holding) - 1
                            /\ Cardinality(Holding) > 0
         /\ k \notin Counted => Cardinality(Counted \cup {k}) = Cardinality(Counted) + 1
         /\ k \in Counted => Cardinality(Counted \ {k}) = Cardinality(Counted) - 1
<1>1. Holding \in SUBSET Conns /\ Counted \in SUBSET Conns
  BY Zenon DEF Holding, Counted
<1> QED
  BY <1>1, CardinalityStep, Zenon

\* Close and every step of removeClient keep the invariant.
LEMMA RemoveIInv ==
  ASSUME IInv, NEW j \in Conns, Remove(j) \/ CloseCalled(j)
  PROVE  IInv'
<1> USE GobwasAssumption DEF IInv, TypeOK, admission, counters, teardown, readCycle
<1>1. ASSUME NEW k \in Conns, CountClosed(k)
      PROVE  IInv'
  <2>1. Holding' = Holding
    BY <1>1, ZenonT(40), SMTT(30) DEF CountClosed, Holding, RemovalFollows
  <2>2. k \in Counted /\ Counted' = Counted \ {k}
    BY <1>1, ZenonT(40), SMTT(30) DEF CountClosed, Counted, RemovalFollows
  <2>3. SlotsBalance'
    BY <1>1, <2>1, HolderSizes, Zenon DEF CountClosed, SlotsBalance
  <2>4. StatsBalance'
    <3>1. Cardinality(Counted) \in Nat /\ Cardinality(Counted') = Cardinality(Counted) - 1
      BY <1>1, <2>2, HolderSizes, ZenonT(40), SMTT(30)
    <3> QED
      BY <1>1, <3>1 DEF CountClosed, StatsBalance
  <2>5. TypeOK'
    BY <1>1 DEF CountClosed
  <2>6. SlotCap' /\ SwapBelowCap'
    BY <1>1, ZenonT(40), SMTT(30) DEF CountClosed, SlotCap, SwapBelowCap
  <2>7. RemovalFollows'
    BY <1>1 DEF CountClosed, RemovalFollows, ReadToken
  <2>8. ReadToken'
    BY <1>1, ZenonT(40), SMTT(30) DEF CountClosed, RemovalFollows, ReadToken
  <2> QED
    BY <2>3, <2>4, <2>5, <2>6, <2>7, <2>8, ZenonT(40), SMTT(30)
<1>2. ASSUME NEW k \in Conns, ReleaseSlot(k)
      PROVE  IInv'
  <2>1. k \in Holding /\ Holding' = Holding \ {k}
    BY <1>2, ZenonT(40), SMTT(30) DEF ReleaseSlot, Holding, RemovalFollows
  <2>2. Counted' = Counted
    BY <1>2, Zenon DEF ReleaseSlot, Counted, RemovalFollows
  <2>3. SlotsBalance'
    BY <1>2, <2>1, HolderSizes, Zenon DEF ReleaseSlot, SlotsBalance
  <2>4. StatsBalance'
    BY <1>2, <2>2, ZenonT(40), SMTT(30) DEF ReleaseSlot, StatsBalance
  <2>5. TypeOK'
    <3>1. connections > 0
      BY <1>2, <2>1, HolderSizes, Zenon DEF SlotsBalance
    <3> QED
      BY <1>2, <3>1 DEF ReleaseSlot
  <2>6. SlotCap' /\ SwapBelowCap'
    BY <1>2 DEF ReleaseSlot, SlotCap, SwapBelowCap
  <2>7. RemovalFollows'
    BY <1>2 DEF ReleaseSlot, RemovalFollows, ReadToken
  <2>8. ReadToken'
    BY <1>2, ZenonT(40), SMTT(30) DEF ReleaseSlot, RemovalFollows, ReadToken
  <2> QED
    BY <2>3, <2>4, <2>5, <2>6, <2>7, <2>8, Zenon
<1>3. ASSUME NEW k \in Conns, Detach(k)
      PROVE  IInv'
  <2>1. Holding' = Holding
    BY <1>3, ZenonT(40), SMTT(30) DEF Detach, Holding, RemovalFollows
  <2>2. Counted' = Counted
    BY <1>3, Zenon DEF Detach, Counted, RemovalFollows
  <2>3. SlotsBalance'
    BY <1>3, <2>1, HolderSizes, Zenon DEF Detach, SlotsBalance
  <2>4. StatsBalance'
    BY <1>3, <2>2, Zenon DEF Detach, StatsBalance
  <2>5. TypeOK'
    BY <1>3, Zenon DEF Detach
  <2>6. SlotCap' /\ SwapBelowCap'
    BY <1>3, ZenonT(40), SMTT(30) DEF Detach, SlotCap, SwapBelowCap
  <2>7. RemovalFollows'
    BY <1>3 DEF Detach, RemovalFollows, ReadToken
  <2>8. ReadToken'
    BY <1>3, ZenonT(40), SMTT(30) DEF Detach, RemovalFollows, ReadToken
  <2> QED
    BY <2>3, <2>4, <2>5, <2>6, <2>7, <2>8, Zenon
<1>4. ASSUME NEW k \in Conns, StopPolling(k)
      PROVE  IInv'
  <2>1. Holding' = Holding
    BY <1>4, ZenonT(40), SMTT(30) DEF StopPolling, Holding, RemovalFollows
  <2>2. Counted' = Counted
    BY <1>4, Zenon DEF StopPolling, Counted, RemovalFollows
  <2>3. SlotsBalance'
    BY <1>4, <2>1, HolderSizes, Zenon DEF StopPolling, SlotsBalance
  <2>4. StatsBalance'
    BY <1>4, <2>2, Zenon DEF StopPolling, StatsBalance
  <2>5. TypeOK'
    BY <1>4, Zenon DEF StopPolling
  <2>6. SlotCap' /\ SwapBelowCap'
    BY <1>4, ZenonT(40), SMTT(30) DEF StopPolling, SlotCap, SwapBelowCap
  <2>7. RemovalFollows'
    BY <1>4 DEF StopPolling, RemovalFollows, ReadToken
  <2>8. ReadToken'
    BY <1>4 DEF StopPolling, RemovalFollows, ReadToken
  <2> QED
    BY <2>3, <2>4, <2>5, <2>6, <2>7, <2>8, Zenon
<1>5. ASSUME NEW k \in Conns, NotifyClosed(k)
      PROVE  IInv'
  <2>1. Holding' = Holding
    BY <1>5, Zenon DEF NotifyClosed, Holding, RemovalFollows
  <2>2. Counted' = Counted
    BY <1>5, Zenon DEF NotifyClosed, Counted, RemovalFollows
  <2>3. SlotsBalance'
    BY <1>5, <2>1, HolderSizes, Zenon DEF NotifyClosed, SlotsBalance
  <2>4. StatsBalance'
    BY <1>5, <2>2, Zenon DEF NotifyClosed, StatsBalance
  <2>5. TypeOK'
    BY <1>5 DEF NotifyClosed
  <2>6. SlotCap' /\ SwapBelowCap'
    BY <1>5, ZenonT(40), SMTT(30) DEF NotifyClosed, SlotCap, SwapBelowCap
  <2>7. RemovalFollows'
    BY <1>5 DEF NotifyClosed, RemovalFollows, ReadToken
  <2>8. ReadToken'
    BY <1>5, ZenonT(40), SMTT(30) DEF NotifyClosed, RemovalFollows, ReadToken
  <2> QED
    BY <2>3, <2>4, <2>5, <2>6, <2>7, <2>8, Zenon
<1>6. ASSUME NEW k \in Conns, CloseCalled(k)
      PROVE  IInv'
  <2>0. /\ closed' = [closed EXCEPT ![k] = TRUE]
        /\ removal' = [removal EXCEPT ![k] = IF @ = "no" THEN "closed" ELSE @]
    BY <1>6, CloseEffect, Zenon DEF CloseCalled
  <2>1. Holding' = Holding
    BY <1>6, <2>0, ZenonT(40), SMTT(30) DEF CloseCalled, Holding, RemovalFollows
  <2>2. Counted' = Counted
    BY <1>6, <2>0, ZenonT(40), SMTT(30) DEF CloseCalled, Counted, RemovalFollows
  <2>3. SlotsBalance'
    BY <1>6, <2>0, <2>1, HolderSizes, ZenonT(40), SMTT(30) DEF CloseCalled, SlotsBalance
  <2>4. StatsBalance'
    BY <1>6, <2>0, <2>2, Zenon DEF CloseCalled, StatsBalance
  <2>5. TypeOK'
    BY <1>6, <2>0, Zenon DEF CloseCalled
  <2>6. SlotCap' /\ SwapBelowCap'
    BY <1>6, <2>0, ZenonT(40), SMTT(30) DEF CloseCalled, SlotCap, SwapBelowCap
  <2>7. RemovalFollows'
    BY <1>6, <2>0 DEF CloseCalled, RemovalFollows, ReadToken
  <2>8. ReadToken'
    BY <1>6, <2>0, ZenonT(40), SMTT(30) DEF CloseCalled, RemovalFollows, ReadToken
  <2> QED
    BY <2>3, <2>4, <2>5, <2>6, <2>7, <2>8, Zenon
<1> HIDE DEF IInv, TypeOK
<1> QED
  BY <1>1, <1>2, <1>3, <1>4, <1>5, <1>6, ZenonT(40), SMTT(30) DEF Remove
-----------------------------------------------------------------------------
(* The accept goroutine *)

\* Every step of NewConnection, its failure paths included, keeps it.
LEMMA NewConnectionIInv ==
  ASSUME IInv, NEW j \in Conns, NewConnection(j)
  PROVE  IInv'
<1> USE GobwasAssumption DEF IInv, TypeOK, admission, counters, teardown, readCycle
<1>1. ASSUME NEW k \in Conns, RefuseUnhealthy(k)
      PROVE  IInv'
  <2>1. Holding' = Holding
    BY <1>1, Zenon DEF RefuseUnhealthy, Holding, RemovalFollows
  <2>2. Counted' = Counted
    BY <1>1, Zenon DEF RefuseUnhealthy, Counted, RemovalFollows
  <2>3. SlotsBalance'
    BY <1>1, <2>1, HolderSizes, Zenon DEF RefuseUnhealthy, SlotsBalance
  <2>4. StatsBalance'
    BY <1>1, <2>2, Zenon DEF RefuseUnhealthy, StatsBalance
  <2>5. TypeOK'
    BY <1>1, Zenon DEF RefuseUnhealthy
  <2>6. SlotCap' /\ SwapBelowCap'
    BY <1>1, ZenonT(40), SMTT(30) DEF RefuseUnhealthy, SlotCap, SwapBelowCap
  <2>7. RemovalFollows'
    BY <1>1 DEF RefuseUnhealthy, RemovalFollows, ReadToken
  <2>8. ReadToken'
    BY <1>1 DEF RefuseUnhealthy, RemovalFollows, ReadToken
  <2> QED
    BY <2>3, <2>4, <2>5, <2>6, <2>7, <2>8, ZenonT(40), SMTT(30)
<1>2. ASSUME NEW k \in Conns, LoadConnections(k)
      PROVE  IInv'
  <2>1. \/ Holding' = Holding /\ connections' = connections
        \/ k \notin Holding /\ Holding' = Holding \cup {k} /\ connections' = connections + 1
    BY <1>2 DEF LoadConnections, Holding, RemovalFollows
  <2>2. Counted' = Counted
    BY <1>2 DEF LoadConnections, Counted, RemovalFollows
  <2>3. SlotsBalance'
    BY <1>2, <2>1, HolderSizes, ZenonT(40), SMTT(30) DEF LoadConnections, SlotsBalance
  <2>4. StatsBalance'
    BY <1>2, <2>2, ZenonT(40), SMTT(30) DEF LoadConnections, StatsBalance
  <2>5. TypeOK'
    BY <1>2 DEF LoadConnections
  <2>6. SlotCap' /\ SwapBelowCap'
    BY <1>2 DEF LoadConnections, SlotCap, SwapBelowCap
  <2>7. RemovalFollows'
    BY <1>2 DEF LoadConnections, RemovalFollows, ReadToken
  <2>8. ReadToken'
    BY <1>2 DEF LoadConnections, RemovalFollows, ReadToken
  <2> QED
    BY <2>3, <2>4, <2>5, <2>6, <2>7, <2>8, Zenon
<1>3. ASSUME NEW k \in Conns, SwapConnections(k)
      PROVE  IInv'
  <2>1. \/ Holding' = Holding /\ connections' = connections
        \/ k \notin Holding /\ Holding' = Holding \cup {k} /\ connections' = connections + 1
    BY <1>3 DEF SwapConnections, Holding, RemovalFollows
  <2>2. Counted' = Counted
    BY <1>3 DEF SwapConnections, Counted, RemovalFollows
  <2>3. SlotsBalance'
    BY <1>3, <2>1, HolderSizes, Zenon DEF SwapConnections, SlotsBalance
  <2>4. StatsBalance'
    BY <1>3, <2>2, ZenonT(40), SMTT(30) DEF SwapConnections, StatsBalance
  <2>5. TypeOK'
    BY <1>3 DEF SwapConnections
  <2>6. SlotCap' /\ SwapBelowCap'
    BY <1>3 DEF SwapConnections, SlotCap, SwapBelowCap
  <2>7. RemovalFollows'
    BY <1>3 DEF SwapConnections, RemovalFollows, ReadToken
  <2>8. ReadToken'
    BY <1>3 DEF SwapConnections, RemovalFollows, ReadToken
  <2> QED
    BY <2>3, <2>4, <2>5, <2>6, <2>7, <2>8, Zenon
<1>4. ASSUME NEW k \in Conns, FileFails(k)
      PROVE  IInv'
  <2>1. k \in Holding /\ Holding' = Holding \ {k}
    BY <1>4, ZenonT(40), SMTT(30) DEF FileFails, Holding, RemovalFollows
  <2>2. Counted' = Counted
    BY <1>4, Zenon DEF FileFails, Counted, RemovalFollows
  <2>3. SlotsBalance'
    BY <1>4, <2>1, HolderSizes, Zenon DEF FileFails, SlotsBalance
  <2>4. StatsBalance'
    BY <1>4, <2>2, Zenon DEF FileFails, StatsBalance
  <2>5. TypeOK'
    <3>1. connections > 0
      BY <1>4, <2>1, HolderSizes, ZenonT(40), SMTT(30) DEF SlotsBalance
    <3> QED
      BY <1>4, <3>1 DEF FileFails
  <2>6. SlotCap' /\ SwapBelowCap'
    BY <1>4 DEF FileFails, SlotCap, SwapBelowCap
  <2>7. RemovalFollows'
    BY <1>4 DEF FileFails, RemovalFollows, ReadToken
  <2>8. ReadToken'
    BY <1>4 DEF FileFails, RemovalFollows, ReadToken
  <2> QED
    BY <2>3, <2>4, <2>5, <2>6, <2>7, <2>8, Zenon
<1>5. ASSUME NEW k \in Conns, CountAccepted(k)
      PROVE  IInv'
  <2>1. Holding' = Holding
    BY <1>5, ZenonT(40), SMTT(30) DEF CountAccepted, Holding, RemovalFollows
  <2>2. k \notin Counted /\ Counted' = Counted \cup {k}
    BY <1>5 DEF CountAccepted, Counted, RemovalFollows
  <2>3. SlotsBalance'
    BY <1>5, <2>1, HolderSizes, Zenon DEF CountAccepted, SlotsBalance
  <2>4. StatsBalance'
    <3>1. Cardinality(Counted) \in Nat /\ Cardinality(Counted') = Cardinality(Counted) + 1
      BY <1>5, <2>2, HolderSizes, ZenonT(40), SMTT(30)
    <3> QED
      BY <1>5, <3>1 DEF CountAccepted, StatsBalance
  <2>5. TypeOK'
    BY <1>5 DEF CountAccepted
  <2>6. SlotCap' /\ SwapBelowCap'
    BY <1>5, ZenonT(40), SMTT(30) DEF CountAccepted, SlotCap, SwapBelowCap
  <2>7. RemovalFollows'
    BY <1>5 DEF CountAccepted, RemovalFollows, ReadToken
  <2>8. ReadToken'
    BY <1>5 DEF CountAccepted, RemovalFollows, ReadToken
  <2> QED
    BY <2>3, <2>4, <2>5, <2>6, <2>7, <2>8, Zenon
<1>6. ASSUME NEW k \in Conns, DescFails(k)
      PROVE  IInv'
  <2>1. k \in Holding /\ Holding' = Holding \ {k}
    BY <1>6, ZenonT(40), SMTT(30) DEF DescFails, Holding, RemovalFollows
  <2>2. k \in Counted /\ Counted' = Counted \ {k}
    BY <1>6, ZenonT(40), SMTT(30) DEF DescFails, Counted, RemovalFollows
  <2>3. SlotsBalance'
    BY <1>6, <2>1, HolderSizes, ZenonT(40), SMTT(30) DEF DescFails, SlotsBalance
  <2>4. StatsBalance'
    <3>1. Cardinality(Counted) \in Nat /\ Cardinality(Counted') = Cardinality(Counted) - 1
      BY <1>6, <2>2, HolderSizes, ZenonT(40), SMTT(30)
    <3> QED
      BY <1>6, <3>1 DEF DescFails, StatsBalance
  <2>5. TypeOK'
    <3>1. connections > 0
      BY <1>6, <2>1, HolderSizes, Zenon DEF SlotsBalance
    <3> QED
      BY <1>6, <3>1 DEF DescFails
  <2>6. SlotCap' /\ SwapBelowCap'
    BY <1>6 DEF DescFails, SlotCap, SwapBelowCap
  <2>7. RemovalFollows'
    BY <1>6 DEF DescFails, RemovalFollows, ReadToken
  <2>8. ReadToken'
    BY <1>6 DEF DescFails, RemovalFollows, ReadToken
  <2> QED
    BY <2>3, <2>4, <2>5, <2>6, <2>7, <2>8, Zenon
<1>7. ASSUME NEW k \in Conns, DescCreated(k)
      PROVE  IInv'
  <2>1. Holding' = Holding
    BY <1>7, ZenonT(40), SMTT(30) DEF DescCreated, Holding, RemovalFollows
  <2>2. Counted' = Counted
    BY <1>7, ZenonT(40), SMTT(30) DEF DescCreated, Counted, RemovalFollows
  <2>3. SlotsBalance'
    BY <1>7, <2>1, HolderSizes, Zenon DEF DescCreated, SlotsBalance
  <2>4. StatsBalance'
    BY <1>7, <2>2, Zenon DEF DescCreated, StatsBalance
  <2>5. TypeOK'
    BY <1>7, Zenon DEF DescCreated
  <2>6. SlotCap' /\ SwapBelowCap'
    BY <1>7, ZenonT(40), SMTT(30) DEF DescCreated, SlotCap, SwapBelowCap
  <2>7. RemovalFollows'
    BY <1>7 DEF DescCreated, RemovalFollows, ReadToken
  <2>8. ReadToken'
    BY <1>7 DEF DescCreated, RemovalFollows, ReadToken
  <2> QED
    BY <2>3, <2>4, <2>5, <2>6, <2>7, <2>8, Zenon
<1>8. ASSUME NEW k \in Conns, StartPolling(k)
      PROVE  IInv'
  <2>1. Holding' = Holding
    BY <1>8, ZenonT(40), SMTT(30) DEF StartPolling, Holding, RemovalFollows
  <2>2. Counted' = Counted
    BY <1>8, ZenonT(40), SMTT(30) DEF StartPolling, Counted, RemovalFollows
  <2>3. SlotsBalance'
    BY <1>8, <2>1, HolderSizes, ZenonT(40), SMTT(30) DEF StartPolling, SlotsBalance
  <2>4. StatsBalance'
    BY <1>8, <2>2, Zenon DEF StartPolling, StatsBalance
  <2>5. TypeOK'
    BY <1>8, Zenon DEF StartPolling
  <2>6. SlotCap' /\ SwapBelowCap'
    BY <1>8, ZenonT(40), SMTT(30) DEF StartPolling, SlotCap, SwapBelowCap
  <2>7. RemovalFollows'
    BY <1>8 DEF StartPolling, RemovalFollows, ReadToken
  <2>8. ReadToken'
    BY <1>8 DEF StartPolling, RemovalFollows, ReadToken
  <2> QED
    BY <2>3, <2>4, <2>5, <2>6, <2>7, <2>8, Zenon
<1>9. ASSUME NEW k \in Conns, StartFails(k)
      PROVE  IInv'
  <2>0. /\ closed' = [closed EXCEPT ![k] = TRUE]
        /\ removal' = [removal EXCEPT ![k] = IF @ = "no" THEN "closed" ELSE @]
    BY <1>9, CloseEffect, Zenon DEF StartFails
  <2>1. Holding' = Holding
    BY <1>9, <2>0, ZenonT(40), SMTT(30) DEF StartFails, Holding, RemovalFollows
  <2>2. Counted' = Counted
    BY <1>9, <2>0, ZenonT(40), SMTT(30) DEF StartFails, Counted, RemovalFollows
  <2>3. SlotsBalance'
    BY <1>9, <2>0, <2>1, HolderSizes, Zenon DEF StartFails, SlotsBalance
  <2>4. StatsBalance'
    BY <1>9, <2>0, <2>2, Zenon DEF StartFails, StatsBalance
  <2>5. TypeOK'
    BY <1>9, <2>0, Zenon DEF StartFails
  <2>6. SlotCap' /\ SwapBelowCap'
    BY <1>9, <2>0, ZenonT(40), SMTT(30) DEF StartFails, SlotCap, SwapBelowCap
  <2>7. RemovalFollows'
    BY <1>9, <2>0 DEF StartFails, RemovalFollows, ReadToken
  <2>8. ReadToken'
    BY <1>9, <2>0 DEF StartFails, RemovalFollows, ReadToken
  <2> QED
    BY <2>3, <2>4, <2>5, <2>6, <2>7, <2>8, Zenon
<1> HIDE DEF IInv, TypeOK
<1> QED
  BY <1>1, <1>2, <1>3, <1>4, <1>5, <1>6, <1>7, <1>8, <1>9, Zenon DEF NewConnection
-----------------------------------------------------------------------------
(* The read cycle, and the conclusions *)

\* Every step of the accept goroutine, the poller, the workers and the remover
\* keeps the invariant.
LEMMA NextIInv == IInv /\ [Next]_vars => IInv'
<1> SUFFICES ASSUME IInv, [Next]_vars PROVE IInv'
  BY Zenon
<1> USE GobwasAssumption DEF IInv, TypeOK, admission, counters, teardown, readCycle
<1>1. ASSUME NEW k \in Conns, PollFires(k)
      PROVE  IInv'
  <2>1. Holding' = Holding
    BY <1>1, Zenon DEF PollFires, Holding, RemovalFollows
  <2>2. Counted' = Counted
    BY <1>1, Zenon DEF PollFires, Counted, RemovalFollows
  <2>3. SlotsBalance'
    BY <1>1, <2>1, HolderSizes, Zenon DEF PollFires, SlotsBalance
  <2>4. StatsBalance'
    BY <1>1, <2>2, Zenon DEF PollFires, StatsBalance
  <2>5. TypeOK'
    BY <1>1, Zenon DEF PollFires
  <2>6. SlotCap' /\ SwapBelowCap'
    BY <1>1, ZenonT(40), SMTT(30) DEF PollFires, SlotCap, SwapBelowCap
  <2>7. RemovalFollows'
    BY <1>1 DEF PollFires, RemovalFollows, ReadToken
  <2>8. ReadToken'
    BY <1>1 DEF PollFires, RemovalFollows, ReadToken
  <2> QED
    BY <2>3, <2>4, <2>5, <2>6, <2>7, <2>8, ZenonT(40), SMTT(30)
<1>2. ASSUME NEW k \in Conns, CallbackHup(k)
      PROVE  IInv'
  <2>0. /\ closed' = [closed EXCEPT ![k] = TRUE]
        /\ removal' = [removal EXCEPT ![k] = IF @ = "no" THEN "closed" ELSE @]
    BY <1>2, CloseEffect, Zenon DEF CallbackHup
  <2>1. Holding' = Holding
    BY <1>2, <2>0, ZenonT(40), SMTT(30) DEF CallbackHup, Holding, RemovalFollows
  <2>2. Counted' = Counted
    BY <1>2, <2>0, ZenonT(40), SMTT(30) DEF CallbackHup, Counted, RemovalFollows
  <2>3. SlotsBalance'
    BY <1>2, <2>0, <2>1, HolderSizes, Zenon DEF CallbackHup, SlotsBalance
  <2>4. StatsBalance'
    BY <1>2, <2>0, <2>2, Zenon DEF CallbackHup, StatsBalance
  <2>5. TypeOK'
    BY <1>2, <2>0, Zenon DEF CallbackHup
  <2>6. SlotCap' /\ SwapBelowCap'
    BY <1>2, <2>0, ZenonT(40), SMTT(30) DEF CallbackHup, SlotCap, SwapBelowCap
  <2>7. RemovalFollows'
    BY <1>2, <2>0 DEF CallbackHup, RemovalFollows, ReadToken
  <2>8. ReadToken'
    BY <1>2, <2>0 DEF CallbackHup, RemovalFollows, ReadToken
  <2> QED
    BY <2>3, <2>4, <2>5, <2>6, <2>7, <2>8, Zenon
<1>3. ASSUME NEW k \in Conns, NEW submitted \in BOOLEAN, HandleClientData(k, submitted)
      PROVE  IInv'
  <2>1. Holding' = Holding
    BY <1>3, Zenon DEF HandleClientData, Holding, RemovalFollows
  <2>2. Counted' = Counted
    BY <1>3, Zenon DEF HandleClientData, Counted, RemovalFollows
  <2>3. SlotsBalance'
    BY <1>3, <2>1, HolderSizes, Zenon DEF HandleClientData, SlotsBalance
  <2>4. StatsBalance'
    BY <1>3, <2>2, Zenon DEF HandleClientData, StatsBalance
  <2>5. TypeOK'
    BY <1>3 DEF HandleClientData
  <2>6. SlotCap' /\ SwapBelowCap'
    BY <1>3, Zenon DEF HandleClientData, SlotCap, SwapBelowCap
  <2>7. RemovalFollows'
    BY <1>3, ZenonT(40), SMTT(30) DEF HandleClientData, RemovalFollows, ReadToken
  <2>8. ReadToken'
    BY <1>3 DEF HandleClientData, RemovalFollows, ReadToken
  <2> QED
    BY <2>3, <2>4, <2>5, <2>6, <2>7, <2>8, Zenon
<1>4. ASSUME NEW k \in Conns, NEW closes \in BOOLEAN, ProcessClientMessage(k, closes)
      PROVE  IInv'
  <2>0. \/ UNCHANGED <<closed, removal>>
        \/ /\ closed' = [closed EXCEPT ![k] = TRUE]
           /\ removal' = [removal EXCEPT ![k] = IF @ = "no" THEN "closed" ELSE @]
    BY <1>4, CloseEffect, ZenonT(40), SMTT(30) DEF ProcessClientMessage
  <2>1. Holding' = Holding
    BY <1>4, <2>0 DEF ProcessClientMessage, Holding, RemovalFollows
  <2>2. Counted' = Counted
    BY <1>4, <2>0, ZenonT(40), SMTT(30) DEF ProcessClientMessage, Counted, RemovalFollows
  <2>3. SlotsBalance'
    BY <1>4, <2>0, <2>1, HolderSizes, Zenon DEF ProcessClientMessage, SlotsBalance
  <2>4. StatsBalance'
    BY <1>4, <2>0, <2>2, Zenon DEF ProcessClientMessage, StatsBalance
  <2>5. TypeOK'
    <3>1. closed' \in [Conns -> BOOLEAN] /\ removal' \in [Conns -> {"no", "closed", "counted", "released",
                                                               "detached", "stopped", "done"}]
      BY <1>4, <2>0, ZenonT(40), SMTT(30)
    <3>2. reading' \in [Conns -> Nat] /\ toResume' \in [Conns -> Nat]
      <4>1. /\ reading' = [reading EXCEPT ![k] = @ - 1] /\ reading[k] > 0
            /\ toResume' = [toResume EXCEPT ![k] = @ + 1]
        BY <1>4, Zenon DEF ProcessClientMessage
      <4>2. /\ reading \in [Conns -> Nat] /\ reading[k] - 1 \in Nat
            /\ toResume \in [Conns -> Nat] /\ toResume[k] + 1 \in Nat
        BY <4>1
      <4> QED
        BY <4>1, <4>2, Zenon
    <3> QED
      BY <1>4, <3>1, <3>2, Zenon DEF ProcessClientMessage
  <2>6. SlotCap' /\ SwapBelowCap'
    BY <1>4, <2>0, Zenon DEF ProcessClientMessage, SlotCap, SwapBelowCap
  <2>7. RemovalFollows'
    <3>1. UNCHANGED <<acc, desc, hasDesc, resuming, onClosed>>
      BY <1>4, Zenon DEF ProcessClientMessage, admission
    <3>2. acc[k] \in {"open", "startFailed"}
      BY <1>4 DEF ProcessClientMessage, ReadToken
    <3>3. CASE UNCHANGED <<closed, removal>>
      BY <3>1, <3>3, Zenon DEF RemovalFollows
    <3>4. CASE /\ closed' = [closed EXCEPT ![k] = TRUE]
               /\ removal' = [removal EXCEPT ![k] = IF @ = "no" THEN "closed" ELSE @]
      BY <3>1, <3>2, <3>4, ZenonT(40), SMTT(30) DEF RemovalFollows
    <3> QED
      BY <2>0, <3>3, <3>4, Zenon
  <2>8. ReadToken'
    BY <1>4, <2>0 DEF ProcessClientMessage, RemovalFollows, ReadToken
  <2> QED
    BY <2>3, <2>4, <2>5, <2>6, <2>7, <2>8, Zenon
<1>5. ASSUME NEW k \in Conns, ResumeReadChecks(k)
      PROVE  IInv'
  <2>1. Holding' = Holding
    BY <1>5, Zenon DEF ResumeReadChecks, Holding, RemovalFollows
  <2>2. Counted' = Counted
    BY <1>5, ZenonT(40), SMTT(30) DEF ResumeReadChecks, Counted, RemovalFollows
  <2>3. SlotsBalance'
    BY <1>5, <2>1, HolderSizes, Zenon DEF ResumeReadChecks, SlotsBalance
  <2>4. StatsBalance'
    BY <1>5, <2>2, Zenon DEF ResumeReadChecks, StatsBalance
  <2>5. TypeOK'
    BY <1>5 DEF ResumeReadChecks
  <2>6. SlotCap' /\ SwapBelowCap'
    BY <1>5, ZenonT(40), SMTT(30) DEF ResumeReadChecks, SlotCap, SwapBelowCap
  <2>7. RemovalFollows'
    BY <1>5 DEF ResumeReadChecks, RemovalFollows, ReadToken
  <2>8. ReadToken'
    BY <1>5 DEF ResumeReadChecks, RemovalFollows, ReadToken
  <2> QED
    BY <2>3, <2>4, <2>5, <2>6, <2>7, <2>8, Zenon
<1>6. ASSUME NEW k \in Conns, ResumeReadRearms(k)
      PROVE  IInv'
  <2>1. Holding' = Holding
    BY <1>6, Zenon DEF ResumeReadRearms, Holding, RemovalFollows
  <2>2. Counted' = Counted
    BY <1>6, Zenon DEF ResumeReadRearms, Counted, RemovalFollows
  <2>3. SlotsBalance'
    BY <1>6, <2>1, HolderSizes, Zenon DEF ResumeReadRearms, SlotsBalance
  <2>4. StatsBalance'
    BY <1>6, <2>2, Zenon DEF ResumeReadRearms, StatsBalance
  <2>5. TypeOK'
    BY <1>6, Zenon DEF ResumeReadRearms
  <2>6. SlotCap' /\ SwapBelowCap'
    BY <1>6, ZenonT(40), SMTT(30) DEF ResumeReadRearms, SlotCap, SwapBelowCap
  <2>7. RemovalFollows'
    BY <1>6 DEF ResumeReadRearms, RemovalFollows, ReadToken
  <2>8. ReadToken'
    BY <1>6 DEF ResumeReadRearms, RemovalFollows, ReadToken
  <2> QED
    BY <2>3, <2>4, <2>5, <2>6, <2>7, <2>8, Zenon
<1>7. CASE UNCHANGED vars
  <2>1. Holding' = Holding /\ Counted' = Counted
    BY <1>7, ZenonT(40), SMTT(30) DEF vars, Holding, Counted
  <2> QED
    BY <1>7, <2>1, ZenonT(40), SMTT(30) DEF vars, SlotCap, SlotsBalance, SwapBelowCap, StatsBalance,
       RemovalFollows, ReadToken
<1> HIDE DEF IInv, TypeOK
<1> QED
  BY RemoveIInv, NewConnectionIInv, <1>1, <1>2, <1>3, <1>4, <1>5, <1>6, <1>7, ZenonT(40), SMTT(30)
  DEF Next, Callback, ResumeRead

\* The server's types; in particular the slot counter never goes negative.
THEOREM TypeCorrect == Spec => []TypeOK
<1>1. IInv => TypeOK
  BY Zenon DEF IInv
<1> QED
  BY <1>1, InitIInv, NextIInv, PTL DEF Spec

\* The CAS loop of reserveSlot never lets the counter pass the cap, and no path
\* of NewConnection or removeClient leaks or double-frees a slot.
THEOREM SlotsAreExact == Spec => []SlotsExact
<1>1. IInv => SlotsExact
  BY Zenon DEF IInv, SlotsExact
<1> QED
  BY <1>1, InitIInv, NextIInv, PTL DEF Spec

\* At rest the number of open slots is accepted minus closed connections.
THEOREM StatsAgreeAtRest == Spec => []CountersAgree
<1>1. IInv => CountersAgree
  <2> SUFFICES ASSUME IInv,
                      \A k \in Conns : /\ acc[k] \in {"new", "open", "failed", "startFailed"}
                                       /\ removal[k] \in {"no", "done"}
               PROVE  connections = accepted - closedStat
    BY Zenon DEF CountersAgree
  <2>1. Holding = Counted
    BY Zenon DEF Holding, Counted
  <2> QED
    BY <2>1, Zenon DEF IInv, SlotsBalance, StatsBalance
<1> QED
  BY <1>1, InitIInv, NextIInv, PTL DEF Spec

\* The oneshot descriptor admits one reader per connection.
THEOREM ReadersExclude == Spec => []OneReader
<1>1. IInv => OneReader
  <2> SUFFICES ASSUME IInv, NEW k \in Conns
               PROVE  reading[k] <= 1 /\ (desc[k] = "armed" => reading[k] = 0)
    BY Zenon DEF OneReader
  <2>1. /\ reading[k] \in {0, 1}
        /\ desc[k] = "armed" => reading[k] = 0
    BY Zenon DEF IInv, ReadToken
  <2> QED
    BY <2>1
<1> QED
  BY <1>1, InitIInv, NextIInv, PTL DEF Spec

\* descMu keeps resumeRead off a descriptor that removeClient has closed.
THEOREM ResumeIsSafe == Spec => []ResumeOnLiveDesc
<1>1. IInv => ResumeOnLiveDesc
  BY Zenon DEF IInv, TypeOK, RemovalFollows, ResumeOnLiveDesc
<1> QED
  BY <1>1, InitIInv, NextIInv, PTL DEF Spec

\* The right to read is handed over without a gap or an overlap.
THEOREM ReadsAreSafe == Spec => []ReadIsSafe
BY ReadersExclude, ResumeIsSafe, PTL DEF ReadIsSafe

\* The CAS of removeClient lets one caller of Close reach the callback.
THEOREM ClosedOnce == Spec => []OnCloseOnce
<1>1. IInv => OnCloseOnce
  BY DEF IInv, RemovalFollows, OnCloseOnce
<1> QED
  BY <1>1, InitIInv, NextIInv, PTL DEF Spec
=============================================================================
