----------------------- MODULE PendingMessages_proofs -----------------------
(***************************************************************************)
(* Proofs of the properties of PendingMessages, for any number of messages *)
(* and of connections: in which order messages are read, that one is read  *)
(* once unless rows were read twice, and that it does not vanish.          *)
(***************************************************************************)
EXTENDS PendingMessages, FiniteSetTheorems, TLAPS

\* A leaf that names no prover is tried with these, in this order.
USE SMTT(20), ZenonT(30), Z3T(30)

\* The progress of a message from the insertion of its row, or its delivery, on.
Placed == {"stored", "received", "expired", "lost"}

\* What is in the table, fetched or read was placed: its stamp stays.
PlacedStays ==
    /\ \A m \in table : st[m] \in Placed
    /\ \A k \in Conns : \A i \in 1 .. Len(batch[k]) : st[batch[k][i]] \in Placed
    /\ \A k \in Conns : \A i \in 1 .. Len(received[k]) : st[received[k][i].msg] \in Placed

\* Senders reach a connection through the ConnectionManager, and so after
\* BeginDrain.
FoundWhileDraining ==
    /\ cm # NoConn => stage[cm] \notin {"none", "claimed"}
    /\ \A m \in Msgs : st[m] = "sending" => via[m] # NoConn
    /\ \A m \in Msgs : via[m] # NoConn => stage[via[m]] \notin {"none", "claimed"}

\* The stages of the drain.
DrainInOrder ==
    \A k \in Conns :
        /\ stage[k] \in {"none", "claimed", "added", "live"} => batch[k] = << >>
        /\ stage[k] = "fetched" => batch[k] # << >>
        /\ stage[k] \in {"none", "claimed", "added", "fetched"} => received[k] = << >>
        /\ stage[k] # "live" => \A i \in 1 .. Len(received[k]) : received[k][i].drained

\* What is still to be written is in order, and after what was written.
BatchInOrder ==
    \A k \in Conns :
        /\ \A i, j \in 1 .. Len(batch[k]) : i < j => at[batch[k][i]] <= at[batch[k][j]]
        /\ \A i \in 1 .. Len(received[k]), j \in 1 .. Len(batch[k]) :
              at[received[k][i].msg] <= at[batch[k][j]]

\* saveMessageHub gives up at the last retry.
RetriesLeft == \A m \in Msgs : st[m] \in {"new", "sending", "failed"} => tries[m] < MaxRetry

OrderInv ==
    /\ IsFiniteSet(table) /\ RetriesLeft
    /\ PendingFirstInOrder /\ PlacedStays /\ FoundWhileDraining /\ DrainInOrder /\ BatchInOrder

\* While nothing was read twice, a message is in one place.
OnePlace ==
    ~reread =>
        /\ \A j, k \in Conns : stage[j] = "fetched" /\ stage[k] = "fetched" => j = k
        /\ \A k \in Conns : \A i \in 1 .. Len(received[k]) : received[k][i].msg \notin table
        /\ \A k \in Conns : stage[k] # "fetched" => \A i \in 1 .. Len(batch[k]) : batch[k][i] \notin table
        /\ \A k, l \in Conns : \A i \in 1 .. Len(received[k]), j \in 1 .. Len(batch[l]) :
              received[k][i].msg # batch[l][j]
        /\ \A k, l \in Conns : \A i \in 1 .. Len(batch[k]), j \in 1 .. Len(batch[l]) :
              batch[k][i] = batch[l][j] => k = l /\ i = j

OnceInv == OrderInv /\ DuplicateOnlyIfReread /\ OnePlace

\* Times are taken once, and in order.
TimesDiffer ==
    /\ \A m \in Msgs : at[m] <= now
    /\ \A m, n \in Msgs : m # n /\ at[m] = at[n] => at[m] = 0
    /\ \A m \in Msgs : m \in table \/ st[m] = "stamped" => at[m] > 0

\* What was inserted after the rows were read is younger than them.
FetchedIsOldest ==
    \A k \in Conns : stage[k] = "fetched" =>
        \A m \in Msgs :
            /\ st[m] = "stamped" => at[m] > MaxSendAt(k)
            /\ m \in table /\ at[m] <= MaxSendAt(k) => m \in Fetched(k)

KeptInv == OrderInv /\ NothingVanishes /\ TimesDiffer /\ FetchedIsOldest
-----------------------------------------------------------------------------
(* Sequences *)

Read == [msg : Msgs, drained : BOOLEAN]

\* Append keeps what is there and adds one at the end.
LEMMA AppendAdds ==
    ASSUME NEW T, NEW s \in Seq(T), NEW e \in T
    PROVE  /\ Append(s, e) \in Seq(T)
           /\ Len(s) \in Nat /\ Len(Append(s, e)) = Len(s) + 1
           /\ \A i \in 1 .. Len(s) : Append(s, e)[i] = s[i]
           /\ Append(s, e)[Len(s) + 1] = e
OBVIOUS

\* Tail drops the first and moves the others up.
LEMMA TailDrops ==
    ASSUME NEW T, NEW s \in Seq(T), s # << >>
    PROVE  /\ Head(s) \in T /\ Head(s) = s[1]
           /\ Tail(s) \in Seq(T)
           /\ Len(s) \in Nat /\ Len(s) >= 1 /\ Len(Tail(s)) = Len(s) - 1
           /\ \A i \in 1 .. Len(Tail(s)) : Tail(s)[i] = s[i + 1]
OBVIOUS

\* A listing of a finite set has each element once.
LEMMA Listing ==
    ASSUME NEW S, IsFiniteSet(S), NEW s \in Listings(S)
    PROVE  /\ s \in Seq(S) /\ Len(s) \in Nat
           /\ \A i, j \in 1 .. Len(s) : s[i] = s[j] => i = j
           /\ \A e \in S : \E i \in 1 .. Len(s) : s[i] = e
<1>1. Cardinality(S) \in Nat
  BY FS_CardinalityType, Zenon
<1>2. /\ s \in [1 .. Cardinality(S) -> S]
      /\ \A i, j \in 1 .. Cardinality(S) : s[i] = s[j] => i = j
      /\ \A e \in S : \E i \in 1 .. Cardinality(S) : s[i] = e
  BY Zenon DEF Listings, Bijection, Injection, Surjection, IsInjective
<1>3. s \in Seq(S) /\ Len(s) = Cardinality(S)
  BY <1>1, <1>2
<1> QED
  BY <1>1, <1>2, <1>3, Zenon
-----------------------------------------------------------------------------
(* Types *)

\* Every step keeps the types, and the table finite.
LEMMA TypeStep ==
    ASSUME OrderInv, [Next]_vars
    PROVE  TypeOK' /\ IsFiniteSet(table')
<1>t. TypeOK /\ IsFiniteSet(table) /\ RetriesLeft /\ FoundWhileDraining
  BY Zenon DEF OrderInv, PendingFirstInOrder
<1>r. Read = [msg : Msgs, drained : BOOLEAN]
  BY Zenon DEF Read
<1>1. ASSUME NEW m \in Msgs, SendToSession(m) \/ CreateFails(m)
      PROVE  TypeOK' /\ IsFiniteSet(table')
  <2>1. st' \in [Msgs -> {"new", "sending", "failed", "saving", "stamped", "stored",
                          "received", "dropped", "expired", "lost"}]
    BY <1>1, <1>t, ZenonT(40), SMTT(30) DEF SendToSession, CreateFails, TypeOK
  <2>2. via' \in [Msgs -> Conns \cup {NoConn}]
    BY <1>1, <1>t, ZenonT(40), SMTT(30) DEF SendToSession, CreateFails, TypeOK
  <2>3. UNCHANGED <<at, tries, table, now, session, conns, reread>>
    BY <1>1, Zenon DEF SendToSession, CreateFails
  <2> QED
    BY <2>1, <2>2, <2>3, <1>t, Zenon DEF TypeOK, session, conns
<1>2. ASSUME NEW m \in Msgs, Send(m)
      PROVE  TypeOK' /\ IsFiniteSet(table')
  <2>1. via[m] \in Conns /\ Live(m) \in Read /\ received \in [Conns -> Seq(Read)]
    BY <1>2, <1>t, <1>r, ZenonT(40), SMTT(30) DEF Send, FoundWhileDraining, Live, Read, TypeOK
  <2>2. Append(received[via[m]], Live(m)) \in Seq(Read)
    BY <2>1, AppendAdds, Zenon
  <2>3. received' \in [Conns -> Seq(Read)]
    BY <1>2, <2>1, <2>2, ZenonT(40), SMTT(30) DEF Send
  <2> QED
    BY <1>2, <2>3, <1>t, <1>r, ZenonT(40), SMTT(30) DEF Send, TypeOK, session
<1>3. ASSUME NEW m \in Msgs, SaveMessageHub(m)
      PROVE  TypeOK' /\ IsFiniteSet(table')
  <2>1. tries' \in [Msgs -> 0 .. MaxRetry]
    <3>1. tries \in [Msgs -> 0 .. MaxRetry] /\ MaxRetry \in Nat /\ tries[m] < MaxRetry
      BY <1>3, <1>t, PendingAssumption, ZenonT(40), SMTT(30) DEF SaveMessageHub, RetriesLeft, TypeOK
    <3>2. tries[m] + 1 \in 0 .. MaxRetry
      BY <3>1
    <3>3. tries' = tries \/ tries' = [tries EXCEPT ![m] = tries[m] + 1]
      BY <1>3, Zenon DEF SaveMessageHub
    <3> QED
      BY <3>1, <3>2, <3>3, ZenonT(40), SMTT(30)
  <2>2. st' \in [Msgs -> {"new", "sending", "failed", "saving", "stamped", "stored",
                          "received", "dropped", "expired", "lost"}]
    BY <1>3, <1>t, ZenonT(40), SMTT(30) DEF SaveMessageHub, TypeOK
  <2>3. UNCHANGED <<at, via, table, now, session, conns, reread>>
    BY <1>3, Zenon DEF SaveMessageHub
  <2> QED
    BY <2>1, <2>2, <2>3, <1>t, ZenonT(40), SMTT(30) DEF TypeOK, session, conns
<1>4. ASSUME NEW m \in Msgs, Save(m)
      PROVE  TypeOK' /\ IsFiniteSet(table')
  <2>1. at' \in [Msgs -> 0 .. MaxTime]
    BY <1>4, <1>t, PendingAssumption DEF Save, TypeOK
  <2> QED
    BY <1>4, <2>1, <1>t, Zenon DEF Save, TypeOK, session, conns
<1>5. ASSUME NEW m \in Msgs, Create(m)
      PROVE  TypeOK' /\ IsFiniteSet(table')
  <2>1. table' \subseteq table \cup {m}
    BY <1>5, Zenon DEF Create
  <2>2. IsFiniteSet(table \cup {m})
    BY <1>t, FS_AddElement, Zenon
  <2>3. IsFiniteSet(table') /\ table' \subseteq Msgs
    BY <2>1, <2>2, <1>t, FS_Subset, ZenonT(40), SMTT(30) DEF TypeOK
  <2> QED
    BY <1>5, <2>3, <1>t, ZenonT(40), SMTT(30) DEF Create, TypeOK, session, conns
<1>6. ASSUME NEW k \in Conns, NEW fails \in BOOLEAN, GetAll(k, fails)
      PROVE  TypeOK' /\ IsFiniteSet(table')
  <2> DEFINE S == IF fails THEN {} ELSE table
  <2>1. IsFiniteSet(S) /\ S \subseteq Msgs
    BY <1>t, FS_EmptySet, Zenon DEF TypeOK
  <2>2. PICK rows \in Listings(S) :
           /\ batch' = [batch EXCEPT ![k] = rows]
           /\ stage' = [stage EXCEPT ![k] = IF rows = <<>> THEN "writing" ELSE "fetched"]
    BY <1>6, Zenon DEF GetAll
  <2> HIDE DEF S
  <2>3. rows \in Seq(S)
    BY <2>1, Listing, ZenonT(40), SMTT(30)
  <2>4. rows \in Seq(Msgs)
    BY <2>1, <2>3
  <2>5. batch' \in [Conns -> Seq(Msgs)]
    BY <2>2, <2>4, <1>t, ZenonT(40), SMTT(30) DEF TypeOK
  <2>6. stage' \in [Conns -> {"none", "claimed", "added", "fetched", "writing", "live"}]
    BY <2>2, <1>t, Zenon DEF TypeOK
  <2>7. reread' \in BOOLEAN
    BY <1>6, <1>t, Zenon DEF GetAll, TypeOK
  <2> QED
    BY <1>6, <2>5, <2>6, <2>7, <1>t, ZenonT(40), SMTT(30) DEF GetAll, TypeOK, sending, session
<1>7. ASSUME NEW k \in Conns, NEW fails \in BOOLEAN, DeleteUpTo(k, fails)
      PROVE  TypeOK' /\ IsFiniteSet(table')
  <2>1. table' \subseteq table
    BY <1>7, Zenon DEF DeleteUpTo
  <2>2. IsFiniteSet(table')
    BY <2>1, <1>t, FS_Subset, ZenonT(40), SMTT(30)
  <2>3. reread' \in BOOLEAN
    BY <1>7, <1>t, ZenonT(40), SMTT(30) DEF DeleteUpTo, TypeOK
  <2> QED
    BY <1>7, <2>1, <2>2, <2>3, <1>t, ZenonT(40), SMTT(30) DEF DeleteUpTo, TypeOK, sending, session
<1>8. ASSUME NEW k \in Conns, SendDirect(k)
      PROVE  TypeOK' /\ IsFiniteSet(table')
  <2>1. batch[k] \in Seq(Msgs) /\ batch[k] # <<>>
    BY <1>8, <1>t, Zenon DEF SendDirect, TypeOK
  <2>2. Head(batch[k]) \in Msgs /\ Tail(batch[k]) \in Seq(Msgs)
    BY <2>1, TailDrops, Zenon
  <2>3. Pending(Head(batch[k])) \in Read /\ received \in [Conns -> Seq(Read)]
    BY <2>2, <1>t, <1>r, ZenonT(40), SMTT(30) DEF Pending, Read, TypeOK
  <2>4. Append(received[k], Pending(Head(batch[k]))) \in Seq(Read)
    BY <2>3, AppendAdds, Zenon
  <2>5. received' \in [Conns -> Seq(Read)]
    BY <1>8, <2>3, <2>4, ZenonT(40), SMTT(30) DEF SendDirect
  <2>6. batch' \in [Conns -> Seq(Msgs)]
    BY <1>8, <2>2, <1>t, ZenonT(40), SMTT(30) DEF SendDirect, TypeOK
  <2>7. st' \in [Msgs -> {"new", "sending", "failed", "saving", "stamped", "stored",
                          "received", "dropped", "expired", "lost"}]
    BY <1>8, <2>2, <1>t, ZenonT(40), SMTT(30) DEF SendDirect, TypeOK
  <2> QED
    BY <1>8, <2>5, <2>6, <2>7, <1>t, <1>r, ZenonT(40), SMTT(30) DEF SendDirect, TypeOK, session
<1>9. ASSUME NEW k \in Conns, Claim(k) \/ AddConnection(k) \/ EndDrain(k)
      PROVE  TypeOK' /\ IsFiniteSet(table')
  BY <1>9, <1>t, ZenonT(40), SMTT(30) DEF Claim, AddConnection, EndDrain, TypeOK, sending, session
<1>10. ASSUME NEW k \in Conns, OnClose(k)
       PROVE  TypeOK' /\ IsFiniteSet(table')
  <2>1. life' \in [Conns -> {"none", "open", "handed", "closed", "removed", "updated", "gone"}]
    BY <1>10, <1>t, ZenonT(40), SMTT(30) DEF OnClose, UpdateStatusTransferring, Close,
       RemoveConnection, UpdateStatus, Register, TypeOK
  <2>2. /\ record' \in {"none", "Connected", "TempDisconnected", "Transferring"}
        /\ registered' \in BOOLEAN /\ cm' \in Conns \cup {NoConn}
    BY <1>10, <1>t, Zenon DEF OnClose, UpdateStatusTransferring, Close, RemoveConnection, UpdateStatus,
       Register, TypeOK,
       session
  <2>3. UNCHANGED <<sending, table, now, stage, batch, received, reread>>
    BY <1>10, Zenon DEF OnClose, UpdateStatusTransferring, Close, RemoveConnection, UpdateStatus,
       Register
  <2> QED
    BY <2>1, <2>2, <2>3, <1>t, Zenon DEF TypeOK, sending
<1>11. CASE Expire
  <2>1. IsFiniteSet(table')
    BY <1>11, FS_EmptySet, Zenon DEF Expire
  <2> QED
    BY <1>11, <2>1, <1>t, ZenonT(40), SMTT(30) DEF Expire, TypeOK, conns
<1>12. CASE Tick
  <2>1. now' \in 1 .. MaxTime
    BY <1>12, <1>t, PendingAssumption DEF Tick, TypeOK
  <2>2. UNCHANGED <<sending, table, session, conns, reread>>
    BY <1>12, Zenon DEF Tick
  <2> QED
    BY <2>1, <2>2, <1>t, ZenonT(40), SMTT(30) DEF TypeOK, sending, session, conns
<1>13. CASE UNCHANGED vars
  BY <1>13, <1>t, Zenon DEF vars, TypeOK, sending, session, conns
<1>14. ASSUME NEW m \in Msgs, Sender(m)
       PROVE  TypeOK' /\ IsFiniteSet(table')
  BY <1>14, <1>1, <1>2, <1>3, <1>4, <1>5, ZenonT(40), SMTT(30) DEF Sender
<1>15. ASSUME NEW k \in Conns, OnNew(k)
       PROVE  TypeOK' /\ IsFiniteSet(table')
  BY <1>15, <1>6, <1>7, <1>8, <1>9, ZenonT(40), SMTT(30) DEF OnNew
<1> QED
  BY <1>10, <1>11, <1>12, <1>13, <1>14, <1>15, Zenon DEF Next

-----------------------------------------------------------------------------
(* Who writes what *)

\* A placed message stays placed, and its stamp stays.
LEMMA StaysPlaced ==
    ASSUME TypeOK, [Next]_vars, NEW n \in Msgs, st[n] \in Placed
    PROVE  st'[n] \in Placed /\ at'[n] = at[n]
<1> USE DEF Placed
<1>1. ASSUME NEW m \in Msgs, Sender(m)
      PROVE  st'[n] \in Placed /\ at'[n] = at[n]
  <2>1. CASE m = n
    BY <1>1, <2>1, ZenonT(40), SMTT(30) DEF Sender, SendToSession, Send, SaveMessageHub, Save,
       Create, CreateFails
  <2>2. CASE m # n
    <3>1. st' = [st EXCEPT ![m] = st'[m]] /\ at' = [at EXCEPT ![m] = at'[m]]
      BY <1>1, ZenonT(40), SMTT(30) DEF Sender, SendToSession, Send, SaveMessageHub, Save, Create,
         CreateFails, TypeOK
    <3> QED
      BY <3>1, <2>2, Zenon DEF TypeOK
  <2> QED
    BY <2>1, <2>2, Zenon
<1>2. ASSUME NEW k \in Conns, SendDirect(k)
      PROVE  st'[n] \in Placed /\ at'[n] = at[n]
  BY <1>2, ZenonT(40), SMTT(30) DEF SendDirect, TypeOK
<1>3. ASSUME UNCHANGED <<st, at>>
      PROVE  st'[n] \in Placed /\ at'[n] = at[n]
  BY <1>3, Zenon
<1>4. ASSUME NEW k \in Conns, OnNew(k), ~SendDirect(k)
      PROVE  UNCHANGED <<st, at>>
  BY <1>4, Zenon DEF OnNew, Claim, AddConnection, GetAll, DeleteUpTo, EndDrain, sending
<1>5. ASSUME NEW k \in Conns, OnClose(k)
      PROVE  UNCHANGED <<st, at>>
  BY <1>5, Zenon DEF OnClose, UpdateStatusTransferring, Close, RemoveConnection, UpdateStatus,
     Register, sending
<1>6. CASE Expire
  BY <1>6, Zenon DEF Expire
<1>7. Tick \/ UNCHANGED vars => UNCHANGED <<st, at>>
  BY Zenon DEF Tick, vars, sending
<1> QED
  BY <1>1, <1>2, <1>3, <1>4, <1>5, <1>6, <1>7, ZenonT(40), SMTT(30) DEF Next

\* The steps that write what is fetched and what is read.
LEMMA FlowMoves ==
    ASSUME [Next]_vars
    PROVE  \/ UNCHANGED <<batch, received>>
           \/ \E m \in Msgs : Send(m)
           \/ \E k \in Conns, fails \in BOOLEAN : GetAll(k, fails)
           \/ \E k \in Conns : SendDirect(k)
<1>1. ASSUME NEW m \in Msgs, Sender(m)
      PROVE  Send(m) \/ UNCHANGED <<batch, received>>
  BY <1>1, Zenon DEF Sender, SendToSession, SaveMessageHub, Save, Create, CreateFails, conns
<1>2. ASSUME NEW k \in Conns, OnNew(k)
      PROVE  \/ UNCHANGED <<batch, received>>
             \/ (\E fails \in BOOLEAN : GetAll(k, fails)) \/ SendDirect(k)
  BY <1>2, Zenon DEF OnNew, Claim, AddConnection, DeleteUpTo, EndDrain
<1>3. ASSUME NEW k \in Conns, OnClose(k)
      PROVE  UNCHANGED <<batch, received>>
  BY <1>3, Zenon DEF OnClose, UpdateStatusTransferring, Close, RemoveConnection, UpdateStatus, Register
<1>4. Expire \/ Tick \/ UNCHANGED vars => UNCHANGED <<batch, received>>
  BY Zenon DEF Expire, Tick, vars, conns
<1> QED
  BY <1>1, <1>2, <1>3, <1>4, ZenonT(40), SMTT(30) DEF Next

\* The steps that write the table.
LEMMA TableMoves ==
    ASSUME [Next]_vars
    PROVE  \/ table' = table
           \/ \E m \in Msgs : Create(m)
           \/ \E k \in Conns, fails \in BOOLEAN : DeleteUpTo(k, fails)
           \/ Expire
<1>1. ASSUME NEW m \in Msgs, Sender(m)
      PROVE  Create(m) \/ table' = table
  BY <1>1, Zenon DEF Sender, SendToSession, Send, SaveMessageHub, Save, CreateFails
<1>2. ASSUME NEW k \in Conns, OnNew(k)
      PROVE  table' = table \/ \E fails \in BOOLEAN : DeleteUpTo(k, fails)
  BY <1>2, Zenon DEF OnNew, Claim, AddConnection, GetAll, SendDirect, EndDrain
<1>3. ASSUME NEW k \in Conns, OnClose(k)
      PROVE  table' = table
  BY <1>3, Zenon DEF OnClose, UpdateStatusTransferring, Close, RemoveConnection, UpdateStatus, Register
<1>4. Tick \/ UNCHANGED vars => table' = table
  BY Zenon DEF Tick, vars
<1> QED
  BY <1>1, <1>2, <1>3, <1>4, ZenonT(40), SMTT(30) DEF Next

\* The stages of a connection follow each other.
LEMMA StageMoves ==
    ASSUME TypeOK, [Next]_vars, NEW k \in Conns
    PROVE  \/ stage'[k] = stage[k]
           \/ stage[k] = "none" /\ stage'[k] = "claimed" /\ Claim(k)
           \/ stage[k] = "claimed" /\ stage'[k] = "added" /\ AddConnection(k)
           \/ stage[k] = "added" /\ stage'[k] \in {"fetched", "writing"} /\ \E fails \in BOOLEAN : GetAll(k, fails)
           \/ stage[k] = "fetched" /\ stage'[k] = "writing" /\ \E fails \in BOOLEAN : DeleteUpTo(k, fails)
           \/ stage[k] = "writing" /\ stage'[k] = "live" /\ EndDrain(k)
<1>1. ASSUME NEW m \in Msgs, Sender(m)
      PROVE  stage' = stage
  BY <1>1, Zenon DEF Sender, SendToSession, Send, SaveMessageHub, Save, Create, CreateFails, conns
<1>2. ASSUME NEW j \in Conns, OnNew(j), j # k
      PROVE  stage'[k] = stage[k]
  <2>1. stage' = stage \/ \E s : stage' = [stage EXCEPT ![j] = s]
    BY <1>2, Zenon DEF OnNew, Claim, AddConnection, GetAll, DeleteUpTo, SendDirect, EndDrain
  <2> QED
    BY <1>2, <2>1, ZenonT(40), SMTT(30) DEF TypeOK
<1>3. ASSUME NEW j \in Conns, OnClose(j)
      PROVE  stage' = stage
  BY <1>3, Zenon DEF OnClose, UpdateStatusTransferring, Close, RemoveConnection, UpdateStatus, Register
<1>4. Expire \/ Tick \/ UNCHANGED vars => stage' = stage
  BY Zenon DEF Expire, Tick, vars, conns
<1>5. ASSUME NEW fails \in BOOLEAN, GetAll(k, fails)
      PROVE  stage[k] = "added" /\ stage'[k] \in {"fetched", "writing"}
  BY <1>5, ZenonT(40), SMTT(30) DEF GetAll, TypeOK
<1>6. ASSUME NEW fails \in BOOLEAN, DeleteUpTo(k, fails)
      PROVE  stage[k] = "fetched" /\ stage'[k] = "writing"
  BY <1>6, Zenon DEF DeleteUpTo, TypeOK
<1>7. Claim(k) => stage[k] = "none" /\ stage'[k] = "claimed"
  BY Zenon DEF Claim, TypeOK
<1>8. AddConnection(k) => stage[k] = "claimed" /\ stage'[k] = "added"
  BY Zenon DEF AddConnection, TypeOK
<1>9. EndDrain(k) => stage[k] = "writing" /\ stage'[k] = "live"
  BY Zenon DEF EndDrain, TypeOK
<1>10. SendDirect(k) => stage' = stage
  BY Zenon DEF SendDirect
<1> QED
  BY <1>1, <1>2, <1>3, <1>4, <1>5, <1>6, <1>7, <1>8, <1>9, <1>10, ZenonT(40), SMTT(30) DEF Next, OnNew

-----------------------------------------------------------------------------
(* What the steps of the drain and of Send do to the queues *)

\* One more message was read on k.
Reads(k, e) ==
    /\ Len(received'[k]) = Len(received[k]) + 1
    /\ \A i \in 1 .. Len(received[k]) : received'[k][i] = received[k][i]
    /\ received'[k][Len(received[k]) + 1] = e
    /\ \A j \in Conns \ {k} : received'[j] = received[j]

\* The first fetched message of k was taken.
Takes(k) ==
    /\ Len(batch[k]) >= 1
    /\ Len(batch'[k]) = Len(batch[k]) - 1
    /\ \A i \in 1 .. Len(batch'[k]) : batch'[k][i] = batch[k][i + 1]
    /\ \A j \in Conns \ {k} : batch'[j] = batch[j]

\* What TypeOK says of the batch and of what the client has read.
LEMMA Lengths ==
    ASSUME TypeOK, NEW k \in Conns
    PROVE  /\ Len(batch[k]) \in Nat /\ Len(received[k]) \in Nat
           /\ batch[k] \in Seq(Msgs) /\ received[k] \in Seq(Read)
           /\ \A i \in 1 .. Len(batch[k]) : batch[k][i] \in Msgs
           /\ \A i \in 1 .. Len(received[k]) : received[k][i].msg \in Msgs
<1>1. batch[k] \in Seq(Msgs) /\ received[k] \in Seq(Read)
  BY Zenon DEF TypeOK, Read
<1>2. Len(batch[k]) \in Nat /\ Len(received[k]) \in Nat
  BY <1>1
<1>3. \A i \in 1 .. Len(batch[k]) : batch[k][i] \in Msgs
  BY <1>1
<1>4. \A i \in 1 .. Len(received[k]) : received[k][i] \in Read
  BY <1>1
<1> QED
  BY <1>1, <1>2, <1>3, <1>4, ZenonT(40), SMTT(30) DEF Read

\* A write the client receives is one more read of that connection.
LEMMA AppendReads ==
    ASSUME TypeOK, NEW k \in Conns, NEW e \in Read,
           received' = [received EXCEPT ![k] = Append(@, e)]
    PROVE  Reads(k, e)
<1>1. received[k] \in Seq(Read)
  BY Lengths, Zenon
<1>2. received'[k] = Append(received[k], e) /\ \A j \in Conns \ {k} : received'[j] = received[j]
  BY Zenon DEF TypeOK
<1> QED
  BY <1>1, <1>2, AppendAdds DEF Reads

\* A read after such a step was there before, or is the one added.
LEMMA ReadBefore ==
    ASSUME TypeOK, NEW k \in Conns, NEW e, Reads(k, e), NEW l \in Conns, NEW i \in 1 .. Len(received'[l])
    PROVE  \/ i \in 1 .. Len(received[l]) /\ received'[l][i] = received[l][i]
           \/ l = k /\ i = Len(received[k]) + 1 /\ received'[l][i] = e
BY Lengths DEF Reads

\* What is left of a batch was left before, one place further on.
LEMMA LeftBefore ==
    ASSUME TypeOK, NEW k \in Conns, Takes(k), NEW l \in Conns, NEW i \in 1 .. Len(batch'[l])
    PROVE  \/ l # k /\ i \in 1 .. Len(batch[l]) /\ batch'[l][i] = batch[l][i]
           \/ l = k /\ i + 1 \in 1 .. Len(batch[l]) /\ batch'[l][i] = batch[l][i + 1]
BY Lengths DEF Takes

\* sendDirect takes the head of the batch; the client reads it, or the write fails.
LEMMA SendDirectEffect ==
    ASSUME TypeOK, NEW k \in Conns, SendDirect(k)
    PROVE  /\ stage[k] = "writing" /\ Takes(k) /\ batch[k][1] \in Msgs
           /\ UNCHANGED <<at, table, stage, via, cm, now, reread>>
           /\ \/ received' = received
              \/ Reads(k, Pending(batch[k][1])) /\ st' = [st EXCEPT ![batch[k][1]] = "received"]
<1>1. batch[k] \in Seq(Msgs) /\ batch[k] # << >> /\ batch' = [batch EXCEPT ![k] = Tail(@)]
  BY Lengths, Zenon DEF SendDirect
<1>2. batch'[k] = Tail(batch[k]) /\ \A j \in Conns \ {k} : batch'[j] = batch[j]
  <2>1. batch \in [Conns -> Seq(Msgs)]
    BY Zenon DEF TypeOK
  <2> DEFINE rest == Tail(batch[k])
  <2>2. batch' = [batch EXCEPT ![k] = rest]
    BY <1>1, ZenonT(40), SMTT(30)
  <2>3. batch'[k] = rest /\ \A j \in Conns \ {k} : batch'[j] = batch[j]
    <3> HIDE DEF rest
    <3> QED
      BY <2>1, <2>2, ZenonT(40), SMTT(30)
  <2> QED
    BY <2>3, ZenonT(40), SMTT(30)
<1>3. Takes(k)
  <2>1. /\ Len(batch[k]) >= 1 /\ Len(Tail(batch[k])) = Len(batch[k]) - 1
        /\ \A i \in 1 .. Len(Tail(batch[k])) : Tail(batch[k])[i] = batch[k][i + 1]
    BY <1>1, TailDrops, ZenonT(40), SMTT(30)
  <2> QED
    BY <1>2, <2>1, ZenonT(40), SMTT(30) DEF Takes
<1>4. Head(batch[k]) = batch[k][1] /\ batch[k][1] \in Msgs
  BY <1>1, TailDrops, ZenonT(40), SMTT(30)
<1>5. Pending(batch[k][1]) \in Read
  BY <1>4, Zenon DEF Pending, Read
<1>6. \/ received' = received
      \/ /\ received' = [received EXCEPT ![k] = Append(@, Pending(batch[k][1]))]
         /\ st' = [st EXCEPT ![batch[k][1]] = "received"]
  BY <1>4, Zenon DEF SendDirect
<1>7. UNCHANGED <<at, table, stage, via, cm, now, reread>> /\ stage[k] = "writing"
  BY Zenon DEF SendDirect, session
<1> QED
  BY <1>3, <1>4, <1>5, <1>6, <1>7, AppendReads, Zenon

\* A live send goes to a connection that has ended its drain.
LEMMA SendEffect ==
    ASSUME OrderInv, NEW m \in Msgs, Send(m)
    PROVE  /\ via[m] \in Conns /\ stage[via[m]] = "live" /\ batch[via[m]] = << >>
           /\ st[m] = "sending"
           /\ UNCHANGED <<at, table, stage, via, cm, now, reread, batch>>
           /\ \/ received' = received
              \/ Reads(via[m], Live(m)) /\ st' = [st EXCEPT ![m] = "received"]
<1>t. TypeOK
  BY Zenon DEF OrderInv, PendingFirstInOrder
<1>1. st[m] = "sending" /\ via[m] \notin Draining
  BY Zenon DEF Send
<1>2. via[m] \in Conns /\ stage[via[m]] \notin {"none", "claimed"}
  BY <1>1, <1>t, ZenonT(40), SMTT(30) DEF OrderInv, FoundWhileDraining, TypeOK
<1>3. stage[via[m]] = "live"
  BY <1>1, <1>2, <1>t, ZenonT(40), SMTT(30) DEF Draining, TypeOK
<1>4. batch[via[m]] = << >>
  BY <1>2, <1>3, Zenon DEF OrderInv, DrainInOrder
<1>5. Live(m) \in Read
  BY Zenon DEF Live, Read
<1>6. \/ received' = received
      \/ received' = [received EXCEPT ![via[m]] = Append(@, Live(m))] /\ st' = [st EXCEPT ![m] = "received"]
  BY Zenon DEF Send
<1>7. UNCHANGED <<at, table, stage, via, cm, now, reread, batch>>
  BY Zenon DEF Send, session
<1> QED
  BY <1>t, <1>1, <1>2, <1>3, <1>4, <1>5, <1>6, <1>7, AppendReads, ZenonT(40), SMTT(30)

\* GetAll fills the batch of its connection with rows of the table, oldest first.
LEMMA GetAllEffect ==
    ASSUME OrderInv, NEW k \in Conns, NEW fails \in BOOLEAN, GetAll(k, fails)
    PROVE  /\ stage[k] = "added" /\ received[k] = << >>
           /\ UNCHANGED <<at, st, table, via, cm, now, received>>
           /\ \A j \in Conns \ {k} : batch'[j] = batch[j] /\ stage'[j] = stage[j]
           /\ Len(batch'[k]) \in Nat /\ batch'[k] \in Seq(Msgs)
           /\ \A i \in 1 .. Len(batch'[k]) : batch'[k][i] \in table
           /\ \A i, j \in 1 .. Len(batch'[k]) : i < j => at[batch'[k][i]] <= at[batch'[k][j]]
           /\ \A i, j \in 1 .. Len(batch'[k]) : batch'[k][i] = batch'[k][j] => i = j
           /\ \/ batch'[k] = << >> /\ stage'[k] = "writing"
              \/ /\ batch'[k] # << >> /\ stage'[k] = "fetched"
                 /\ \A m \in table : \E i \in 1 .. Len(batch'[k]) : batch'[k][i] = m
<1>t. TypeOK /\ IsFiniteSet(table)
  BY Zenon DEF OrderInv, PendingFirstInOrder
<1> DEFINE S == IF fails THEN {} ELSE table
<1>1. PICK rows \in Listings(S) :
          /\ \A i, j \in 1 .. Len(rows) : i < j => at[rows[i]] <= at[rows[j]]
          /\ batch' = [batch EXCEPT ![k] = rows]
          /\ stage' = [stage EXCEPT ![k] = IF rows = << >> THEN "writing" ELSE "fetched"]
  BY Zenon DEF GetAll
<1>2. IsFiniteSet(S)
  BY <1>t, FS_EmptySet, ZenonT(40), SMTT(30)
<1>3. /\ rows \in Seq(S) /\ Len(rows) \in Nat
      /\ \A i, j \in 1 .. Len(rows) : rows[i] = rows[j] => i = j
      /\ \A e \in S : \E i \in 1 .. Len(rows) : rows[i] = e
  BY <1>2, Listing, ZenonT(40), SMTT(30)
<1>4. rows \in Seq(Msgs) /\ \A i \in 1 .. Len(rows) : rows[i] \in S /\ rows[i] \in table
  <2>1. S \subseteq table /\ table \subseteq Msgs
    BY <1>t, Zenon DEF TypeOK
  <2> HIDE DEF S
  <2>2. \A i \in 1 .. Len(rows) : rows[i] \in S
    BY <1>3
  <2>3. \A i \in 1 .. Len(rows) : rows[i] \in table /\ rows[i] \in Msgs
    BY <2>1, <2>2, Zenon
  <2>4. rows \in Seq(Msgs)
    BY <1>3, <2>3
  <2> QED
    BY <2>2, <2>3, <2>4, Zenon
<1>5. rows # << >> => S = table
  <2>1. SUFFICES ASSUME rows # << >> PROVE 1 \in 1 .. Len(rows)
    BY <1>4, Zenon
  <2> QED
    BY <1>3, <2>1
<1>6. batch'[k] = rows /\ stage'[k] = IF rows = << >> THEN "writing" ELSE "fetched"
  BY <1>1, <1>t, Zenon DEF TypeOK
<1>7. \A j \in Conns \ {k} : batch'[j] = batch[j] /\ stage'[j] = stage[j]
  BY <1>1, <1>t, ZenonT(40), SMTT(30) DEF TypeOK
<1>8. UNCHANGED <<at, st, table, via, cm, now, received>> /\ stage[k] = "added"
  BY Zenon DEF GetAll, sending, session
<1>9. received[k] = << >>
  BY <1>8, Zenon DEF OrderInv, DrainInOrder
<1> HIDE DEF S
<1>10. /\ \A i, j \in 1 .. Len(batch'[k]) : i < j => at[batch'[k][i]] <= at[batch'[k][j]]
       /\ \A i, j \in 1 .. Len(batch'[k]) : batch'[k][i] = batch'[k][j] => i = j
       /\ \A i \in 1 .. Len(batch'[k]) : batch'[k][i] \in table
       /\ Len(batch'[k]) \in Nat /\ batch'[k] \in Seq(Msgs)
  <2>1. \A i, j \in 1 .. Len(rows) : i < j => at[rows[i]] <= at[rows[j]]
    BY <1>1, ZenonT(40), SMTT(30)
  <2> QED
    BY <2>1, <1>3, <1>4, <1>6, ZenonT(40), SMTT(30)
<1>11. \/ batch'[k] = << >> /\ stage'[k] = "writing"
       \/ /\ batch'[k] # << >> /\ stage'[k] = "fetched"
          /\ \A m \in table : \E i \in 1 .. Len(batch'[k]) : batch'[k][i] = m
  BY <1>3, <1>5, <1>6, ZenonT(40), SMTT(30)
<1> QED
  BY <1>7, <1>8, <1>9, <1>10, <1>11, ZenonT(40), SMTT(30)

-----------------------------------------------------------------------------
(* The order of delivery *)

\* What is in the table, fetched or read stays placed.
LEMMA PlacedStep ==
    ASSUME OrderInv, [Next]_vars
    PROVE  PlacedStays'
<1>t. TypeOK /\ PlacedStays
  BY Zenon DEF OrderInv, PendingFirstInOrder
<1>s. \A n \in Msgs : st[n] \in Placed => st'[n] \in Placed
  BY <1>t, StaysPlaced, ZenonT(40), SMTT(30)
<1>1. \A m \in table' : st'[m] \in Placed
  <2>1. CASE table' \subseteq table
    BY <1>s, <1>t, <2>1, ZenonT(40), SMTT(30) DEF PlacedStays, TypeOK
  <2>2. ASSUME NEW m \in Msgs, Create(m), NEW n \in table'
        PROVE  st'[n] \in Placed
    <3>1. st'[m] = "stored" /\ (n = m \/ n \in table)
      BY <2>2, <1>t, Zenon DEF Create, TypeOK
    <3>2. "stored" \in Placed
      BY Zenon DEF Placed
    <3> QED
      BY <3>1, <3>2, <1>s, <1>t, ZenonT(40), SMTT(30) DEF PlacedStays, TypeOK
  <2>3. ASSUME NEW k \in Conns, NEW fails \in BOOLEAN, DeleteUpTo(k, fails)
        PROVE  table' \subseteq table
    BY <2>3, Zenon DEF DeleteUpTo
  <2>4. Expire => table' \subseteq table
    BY Zenon DEF Expire
  <2> QED
    BY <2>1, <2>2, <2>3, <2>4, TableMoves, ZenonT(40), SMTT(30)
<1>2. ASSUME UNCHANGED <<batch, received>>
      PROVE  /\ \A k \in Conns : \A i \in 1 .. Len(batch'[k]) : st'[batch'[k][i]] \in Placed
             /\ \A k \in Conns : \A i \in 1 .. Len(received'[k]) : st'[received'[k][i].msg] \in Placed
  BY <1>2, <1>s, <1>t, Lengths, ZenonT(40), SMTT(30) DEF PlacedStays
<1>3. ASSUME NEW m \in Msgs, Send(m)
      PROVE  /\ \A k \in Conns : \A i \in 1 .. Len(batch'[k]) : st'[batch'[k][i]] \in Placed
             /\ \A k \in Conns : \A i \in 1 .. Len(received'[k]) : st'[received'[k][i].msg] \in Placed
  <2>1. via[m] \in Conns /\ batch' = batch
    BY <1>3, SendEffect, ZenonT(40), SMTT(30)
  <2>2. CASE received' = received
    BY <1>2, <2>1, <2>2, ZenonT(40), SMTT(30)
  <2>3. CASE Reads(via[m], Live(m)) /\ st' = [st EXCEPT ![m] = "received"]
    <3>1. st'[m] \in Placed /\ Live(m).msg = m
      BY <2>3, <1>t, ZenonT(40), SMTT(30) DEF Placed, Live, TypeOK
    <3>2. ASSUME NEW k \in Conns, NEW i \in 1 .. Len(received'[k])
          PROVE  st'[received'[k][i].msg] \in Placed
      <4>1. (i \in 1 .. Len(received[k]) /\ received'[k][i] = received[k][i]) \/ received'[k][i] = Live(m)
        BY <2>1, <2>3, <1>t, ReadBefore, ZenonT(40), SMTT(30)
      <4> QED
        BY <4>1, <3>1, <1>s, <1>t, Lengths, ZenonT(40), SMTT(30) DEF PlacedStays
    <3>3. \A k \in Conns : \A i \in 1 .. Len(batch'[k]) : st'[batch'[k][i]] \in Placed
      BY <2>1, <1>s, <1>t, Lengths, ZenonT(40), SMTT(30) DEF PlacedStays
    <3> QED
      BY <3>2, <3>3, ZenonT(40), SMTT(30)
  <2> QED
    BY <2>2, <2>3, <1>3, SendEffect, ZenonT(40), SMTT(30)
<1>4. ASSUME NEW k \in Conns, SendDirect(k)
      PROVE  /\ \A l \in Conns : \A i \in 1 .. Len(batch'[l]) : st'[batch'[l][i]] \in Placed
             /\ \A l \in Conns : \A i \in 1 .. Len(received'[l]) : st'[received'[l][i].msg] \in Placed
  <2>1. Takes(k) /\ batch[k][1] \in Msgs
    BY <1>4, <1>t, SendDirectEffect, ZenonT(40), SMTT(30)
  <2>2. ASSUME NEW l \in Conns, NEW i \in 1 .. Len(batch'[l])
        PROVE  st'[batch'[l][i]] \in Placed
    <3>1. \E j \in 1 .. Len(batch[l]) : batch'[l][i] = batch[l][j]
      BY <2>1, <1>t, LeftBefore, ZenonT(40), SMTT(30)
    <3> QED
      BY <3>1, <1>s, <1>t, Lengths, ZenonT(40), SMTT(30) DEF PlacedStays
  <2>3. ASSUME NEW l \in Conns, NEW i \in 1 .. Len(received'[l])
        PROVE  st'[received'[l][i].msg] \in Placed
    <3>1. \/ i \in 1 .. Len(received[l]) /\ received'[l][i] = received[l][i]
          \/ received'[l][i] = Pending(batch[k][1])
      BY <1>4, <1>t, ReadBefore, SendDirectEffect
    <3>2. Pending(batch[k][1]).msg = batch[k][1] /\ 1 \in 1 .. Len(batch[k])
      BY <2>1, <1>t, Lengths DEF Pending, Takes
    <3> QED
      BY <3>1, <3>2, <1>s, <1>t, Lengths, ZenonT(40), SMTT(30) DEF PlacedStays
  <2> QED
    BY <2>2, <2>3, ZenonT(40), SMTT(30)
<1>5. ASSUME NEW k \in Conns, NEW fails \in BOOLEAN, GetAll(k, fails)
      PROVE  /\ \A l \in Conns : \A i \in 1 .. Len(batch'[l]) : st'[batch'[l][i]] \in Placed
             /\ \A l \in Conns : \A i \in 1 .. Len(received'[l]) : st'[received'[l][i].msg] \in Placed
  <2>1. UNCHANGED <<st, received>>
    BY <1>5, GetAllEffect, ZenonT(40), SMTT(30)
  <2>2. ASSUME NEW l \in Conns, NEW i \in 1 .. Len(batch'[l])
        PROVE  batch'[l][i] \in table \/ batch'[l] = batch[l]
    BY <1>5, GetAllEffect, Zenon
  <2> QED
    BY <2>1, <2>2, <1>t, ZenonT(40), SMTT(30) DEF PlacedStays
<1> QED
  BY <1>1, <1>2, <1>3, <1>4, <1>5, FlowMoves, ZenonT(40), SMTT(30) DEF PlacedStays

\* A message that is still to be placed has a retry left.
LEMMA RetriesStep ==
    ASSUME OrderInv, [Next]_vars
    PROVE  RetriesLeft'
<1>t. TypeOK /\ RetriesLeft /\ PlacedStays
  BY Zenon DEF OrderInv, PendingFirstInOrder
<1> DEFINE Early == {"new", "sending", "failed"}
<1> SUFFICES ASSUME NEW n \in Msgs, st'[n] \in Early
             PROVE  tries'[n] < MaxRetry
  BY Zenon DEF RetriesLeft
<1>1. ASSUME NEW m \in Msgs, SaveMessageHub(m)
      PROVE  tries'[n] < MaxRetry
  <2>1. CASE n = m
    <3>1. tries[m] < MaxRetry /\ tries[m] \in Nat /\ MaxRetry \in Nat
      BY <1>1, <1>t, PendingAssumption DEF SaveMessageHub, RetriesLeft, TypeOK
    <3>2. tries'[m] = tries[m] \/ (tries'[m] = tries[m] + 1 /\ tries[m] + 1 # MaxRetry)
      BY <1>1, <2>1, <1>t, ZenonT(40), SMTT(30) DEF SaveMessageHub, TypeOK
    <3> QED
      BY <2>1, <3>1, <3>2
  <2>2. CASE n # m
    <3>1. st'[n] = st[n] /\ tries'[n] = tries[n]
      BY <1>1, <2>2, <1>t, ZenonT(40), SMTT(30) DEF SaveMessageHub, TypeOK
    <3> QED
      BY <3>1, <1>t, Zenon DEF RetriesLeft
  <2> QED
    BY <2>1, <2>2, ZenonT(40), SMTT(30)
<1>2. ASSUME tries' = tries, st[n] \in Early
      PROVE  tries'[n] < MaxRetry
  BY <1>2, <1>t, ZenonT(40), SMTT(30) DEF RetriesLeft
<1>3. ASSUME NEW m \in Msgs, Sender(m), ~SaveMessageHub(m)
      PROVE  tries' = tries /\ st[n] \in Early
  BY <1>3, <1>t, ZenonT(40), SMTT(30) DEF Sender, SendToSession, Send, Save, Create, CreateFails, TypeOK
<1>4. ASSUME NEW k \in Conns, OnNew(k)
      PROVE  tries' = tries /\ st[n] \in Early
  <2>1. CASE SendDirect(k)
    BY <1>4, <2>1, <1>t, ZenonT(40), SMTT(30) DEF SendDirect, TypeOK
  <2> QED
    BY <1>4, <2>1, Zenon DEF OnNew, Claim, AddConnection, GetAll, DeleteUpTo, EndDrain, sending
<1>5. ASSUME NEW k \in Conns, OnClose(k)
      PROVE  tries' = tries /\ st[n] \in Early
  BY <1>5, Zenon DEF OnClose, UpdateStatusTransferring, Close, RemoveConnection, UpdateStatus,
     Register, sending
<1>6. Expire => tries' = tries /\ st[n] \in Early
  BY Zenon DEF Expire
<1>7. Tick \/ UNCHANGED vars => tries' = tries /\ st[n] \in Early
  BY Zenon DEF Tick, vars, sending
<1> QED
  BY <1>1, <1>2, <1>3, <1>4, <1>5, <1>6, <1>7, ZenonT(40), SMTT(30) DEF Next

\* Senders find a connection only after its BeginDrain.
LEMMA FoundStep ==
    ASSUME OrderInv, [Next]_vars
    PROVE  FoundWhileDraining'
<1>t. TypeOK /\ FoundWhileDraining /\ TypeOK'
  BY TypeStep, Zenon DEF OrderInv, PendingFirstInOrder
<1>a. \A k \in Conns : stage[k] \notin {"none", "claimed"} => stage'[k] \notin {"none", "claimed"}
  BY <1>t, StageMoves, Zenon
<1>1. cm' # NoConn => stage'[cm'] \notin {"none", "claimed"}
  <2>1. ASSUME NEW m \in Msgs, Sender(m)
        PROVE  cm' = cm
    BY <2>1, Zenon DEF Sender, SendToSession, Send, SaveMessageHub, Save, Create, CreateFails, session
  <2>2. ASSUME NEW k \in Conns, OnNew(k)
        PROVE  cm' = cm \/ (AddConnection(k) /\ cm' = k)
    BY <2>2, Zenon DEF OnNew, Claim, AddConnection, GetAll, DeleteUpTo, SendDirect, EndDrain, session
  <2>3. ASSUME NEW k \in Conns, OnClose(k)
        PROVE  cm' = cm \/ cm' = NoConn
    BY <2>3, Zenon DEF OnClose, UpdateStatusTransferring, Close, RemoveConnection, UpdateStatus,
       Register, session
  <2>4. Expire \/ Tick \/ UNCHANGED vars => cm' = cm
    BY Zenon DEF Expire, Tick, vars, session
  <2>5. cm' = cm \/ cm' = NoConn \/ \E k \in Conns : AddConnection(k) /\ cm' = k
    BY <2>1, <2>2, <2>3, <2>4, ZenonT(40), SMTT(30) DEF Next
  <2>6. ASSUME NEW k \in Conns, AddConnection(k)
        PROVE  stage'[k] = "added"
    BY <2>6, <1>t, ZenonT(40), SMTT(30) DEF AddConnection, TypeOK
  <2>7. cm = NoConn \/ cm \in Conns
    BY <1>t, Zenon DEF TypeOK
  <2> QED
    BY <2>5, <2>6, <2>7, <1>a, <1>t, ZenonT(40), SMTT(30) DEF FoundWhileDraining
<1>2. ASSUME NEW n \in Msgs
      PROVE  /\ st'[n] = "sending" => via'[n] # NoConn
             /\ via'[n] # NoConn => stage'[via'[n]] \notin {"none", "claimed"}
  <2>1. ASSUME NEW m \in Msgs, SendToSession(m), n = m
        PROVE  (via'[n] = via[n] /\ st'[n] # "sending") \/ (via'[n] = cm /\ cm # NoConn)
    <3>1. \/ cm # NoConn /\ via' = [via EXCEPT ![m] = cm]
          \/ via' = via /\ st' = [st EXCEPT ![m] = "saving"]
          \/ via' = via /\ st' = [st EXCEPT ![m] = "dropped"]
      BY <2>1, Zenon DEF SendToSession
    <3>2. cm # NoConn /\ via' = [via EXCEPT ![m] = cm] => via'[n] = cm /\ cm # NoConn
      BY <2>1, <1>t, ZenonT(40), SMTT(30) DEF TypeOK
    <3>3. via' = via /\ st' = [st EXCEPT ![m] = "saving"] => via'[n] = via[n] /\ st'[n] # "sending"
      BY <2>1, <1>t, ZenonT(40), SMTT(30) DEF TypeOK
    <3>4. via' = via /\ st' = [st EXCEPT ![m] = "dropped"] => via'[n] = via[n] /\ st'[n] # "sending"
      BY <2>1, <1>t, ZenonT(40), SMTT(30) DEF TypeOK
    <3> QED
      BY <3>1, <3>2, <3>3, <3>4, ZenonT(40), SMTT(30)
  <2>2. ASSUME NEW m \in Msgs, Sender(m), ~(SendToSession(m) /\ n = m)
        PROVE  via'[n] = via[n] /\ (st'[n] = "sending" => st[n] = "sending")
    <3>1. CASE SendToSession(m)
      <4>1. n # m
        BY <2>2, <3>1, Zenon
      <4> QED
        BY <3>1, <4>1, <1>t DEF SendToSession, TypeOK
    <3>2. CASE ~SendToSession(m)
      <4>1. via' = via /\ \E to \in {"received", "failed", "dropped", "saving", "stamped", "stored"} :
                             st' = [st EXCEPT ![m] = to] \/ st' = st
        <5>1. Send(m) \/ SaveMessageHub(m) \/ Save(m) \/ Create(m) \/ CreateFails(m)
          BY <2>2, <3>2, Zenon DEF Sender
        <5>2. CASE Send(m)
          BY <5>2, Zenon DEF Send
        <5>3. CASE SaveMessageHub(m)
          BY <5>3, Zenon DEF SaveMessageHub
        <5>4. CASE Save(m) \/ Create(m) \/ CreateFails(m)
          BY <5>4, Zenon DEF Save, Create, CreateFails
        <5> QED
          BY <5>1, <5>2, <5>3, <5>4, Zenon
      <4>2. st'[n] = "sending" => st[n] = "sending"
        BY <4>1, <1>t, Zenon DEF TypeOK
      <4> QED
        BY <4>1, <4>2, Zenon
    <3> QED
      BY <3>1, <3>2, ZenonT(40), SMTT(30)
  <2>3. ASSUME NEW k \in Conns, OnNew(k)
        PROVE  via'[n] = via[n] /\ (st'[n] = "sending" => st[n] = "sending")
    <3>1. CASE SendDirect(k)
      BY <3>1, <1>t, ZenonT(40), SMTT(30) DEF SendDirect, TypeOK
    <3> QED
      BY <2>3, <3>1, Zenon DEF OnNew, Claim, AddConnection, GetAll, DeleteUpTo, EndDrain, sending
  <2>4. ASSUME NEW k \in Conns, OnClose(k)
        PROVE  via'[n] = via[n] /\ (st'[n] = "sending" => st[n] = "sending")
    BY <2>4, Zenon DEF OnClose, UpdateStatusTransferring, Close, RemoveConnection, UpdateStatus,
       Register, sending
  <2>5. Expire => via'[n] = via[n] /\ (st'[n] = "sending" => st[n] = "sending")
    BY Zenon DEF Expire
  <2>6. Tick \/ UNCHANGED vars => via'[n] = via[n] /\ (st'[n] = "sending" => st[n] = "sending")
    BY Zenon DEF Tick, vars, sending
  <2>7. \/ via'[n] = via[n] /\ (st'[n] = "sending" => st[n] = "sending")
        \/ via'[n] = cm /\ cm # NoConn
    BY <2>1, <2>2, <2>3, <2>4, <2>5, <2>6, ZenonT(40), SMTT(30) DEF Next
  <2>8. via[n] \in Conns \cup {NoConn} /\ cm \in Conns \cup {NoConn}
    BY <1>t, Zenon DEF TypeOK
  <2> QED
    BY <2>7, <2>8, <1>a, <1>t, ZenonT(40), SMTT(30) DEF FoundWhileDraining
<1> QED
  BY <1>1, <1>2, Zenon DEF FoundWhileDraining

\* Every step keeps to the stages of the drain.
LEMMA DrainStep ==
    ASSUME OrderInv, [Next]_vars
    PROVE  DrainInOrder'
<1>t. TypeOK /\ DrainInOrder
  BY Zenon DEF OrderInv, PendingFirstInOrder
<1> DEFINE Ok(k) == /\ stage'[k] \in {"none", "claimed", "added", "live"} => batch'[k] = << >>
                    /\ stage'[k] = "fetched" => batch'[k] # << >>
                    /\ stage'[k] \in {"none", "claimed", "added", "fetched"} => received'[k] = << >>
                    /\ stage'[k] # "live" => \A i \in 1 .. Len(received'[k]) : received'[k][i].drained
<1> SUFFICES ASSUME NEW k \in Conns PROVE Ok(k)
  BY Zenon DEF DrainInOrder
<1>0. /\ stage[k] \in {"none", "claimed", "added", "live"} => batch[k] = << >>
      /\ stage[k] = "fetched" => batch[k] # << >>
      /\ stage[k] \in {"none", "claimed", "added", "fetched"} => received[k] = << >>
      /\ stage[k] # "live" => \A i \in 1 .. Len(received[k]) : received[k][i].drained
  BY <1>t, Zenon DEF DrainInOrder
<1>1. ASSUME UNCHANGED <<batch, received>>, ~ \E fails \in BOOLEAN : GetAll(k, fails)
      PROVE  Ok(k)
  <2>1. EndDrain(k) => batch[k] = << >>
    BY Zenon DEF EndDrain
  <2> QED
    BY <1>0, <1>1, <1>t, <2>1, StageMoves, ZenonT(40), SMTT(30)
<1>2. ASSUME NEW j \in Conns, NEW fails \in BOOLEAN, GetAll(j, fails)
      PROVE  Ok(k)
  BY <1>0, <1>2, GetAllEffect, Zenon
<1>3. ASSUME NEW m \in Msgs, Send(m)
      PROVE  Ok(k)
  <2>1. stage' = stage /\ batch' = batch /\ (stage[k] # "live" => received'[k] = received[k])
    BY <1>3, SendEffect, Zenon DEF Reads
  <2> QED
    BY <2>1, <1>0, Zenon
<1>4. ASSUME NEW j \in Conns, SendDirect(j)
      PROVE  Ok(k)
  <2>1. stage' = stage /\ stage[j] = "writing" /\ Takes(j)
    BY <1>4, <1>t, SendDirectEffect, Zenon
  <2>2. CASE k # j
    <3>1. batch'[k] = batch[k] /\ received'[k] = received[k]
      BY <1>4, <1>t, <2>1, <2>2, SendDirectEffect, ZenonT(40), SMTT(30) DEF Takes, Reads
    <3> QED
      BY <3>1, <2>1, <1>0, Zenon
  <2>3. CASE k = j
    <3>1. ASSUME NEW i \in 1 .. Len(received'[k])
          PROVE  received'[k][i].drained
      <4>1. \/ i \in 1 .. Len(received[k]) /\ received'[k][i] = received[k][i]
            \/ received'[k][i] = Pending(batch[j][1])
        BY <1>4, <1>t, ReadBefore, SendDirectEffect
      <4>2. Pending(batch[j][1]).drained
        BY Zenon DEF Pending
      <4> QED
        BY <4>1, <4>2, <1>0, <2>1, <2>3, ZenonT(40), SMTT(30)
    <3> QED
      BY <3>1, <2>1, <2>3, Zenon
  <2> QED
    BY <2>2, <2>3, Zenon
<1> HIDE DEF Ok
<1> QED
  BY <1>1, <1>2, <1>3, <1>4, FlowMoves, ZenonT(40), SMTT(30)

\* An element of a queue after a step was there before, with the same stamp.
LEMMA BatchInOrderStep ==
    ASSUME OrderInv, [Next]_vars
    PROVE  BatchInOrder'
<1>t. TypeOK /\ PlacedStays /\ BatchInOrder
  BY Zenon DEF OrderInv, PendingFirstInOrder
<1>s. \A n \in Msgs : st[n] \in Placed => at'[n] = at[n]
  BY <1>t, StaysPlaced, Zenon
<1>b. \A k \in Conns : \A i \in 1 .. Len(batch[k]) : at'[batch[k][i]] = at[batch[k][i]]
  BY <1>s, <1>t, Lengths, Zenon DEF PlacedStays
<1>r. \A k \in Conns : \A i \in 1 .. Len(received[k]) : at'[received[k][i].msg] = at[received[k][i].msg]
  BY <1>s, <1>t, Lengths, ZenonT(40), SMTT(30) DEF PlacedStays
<1> DEFINE Ok(k) == /\ \A i, j \in 1 .. Len(batch'[k]) : i < j => at'[batch'[k][i]] <= at'[batch'[k][j]]
                    /\ \A i \in 1 .. Len(received'[k]), j \in 1 .. Len(batch'[k]) :
                          at'[received'[k][i].msg] <= at'[batch'[k][j]]
<1> SUFFICES ASSUME NEW k \in Conns PROVE Ok(k)
  BY Zenon DEF BatchInOrder
<1>0. /\ \A i, j \in 1 .. Len(batch[k]) : i < j => at[batch[k][i]] <= at[batch[k][j]]
      /\ \A i \in 1 .. Len(received[k]), j \in 1 .. Len(batch[k]) :
            at[received[k][i].msg] <= at[batch[k][j]]
  BY <1>t, Zenon DEF BatchInOrder
<1>1. ASSUME batch'[k] = batch[k], received'[k] = received[k]
      PROVE  Ok(k)
  <2>1. ASSUME NEW i \in 1 .. Len(batch[k]), NEW j \in 1 .. Len(batch[k]), i < j
        PROVE  at'[batch[k][i]] <= at'[batch[k][j]]
    BY <1>0, <1>b, <2>1, Zenon
  <2>2. ASSUME NEW i \in 1 .. Len(received[k]), NEW j \in 1 .. Len(batch[k])
        PROVE  at'[received[k][i].msg] <= at'[batch[k][j]]
    BY <1>0, <1>b, <1>r, Zenon
  <2> QED
    BY <1>1, <2>1, <2>2, Zenon
<1>2. ASSUME NEW l \in Conns, NEW fails \in BOOLEAN, GetAll(l, fails)
      PROVE  Ok(k)
  <2>1. CASE k # l
    BY <1>1, <1>2, <2>1, GetAllEffect
  <2>2. CASE k = l
    <3>1. received'[k] = << >> /\ at' = at
      BY <1>2, <2>2, GetAllEffect, Zenon
    <3>2. \A i, j \in 1 .. Len(batch'[k]) : i < j => at[batch'[k][i]] <= at[batch'[k][j]]
      BY <1>2, <2>2, GetAllEffect, ZenonT(40), SMTT(30)
    <3> QED
      BY <3>1, <3>2
  <2> QED
    BY <2>1, <2>2, ZenonT(40), SMTT(30)
<1>3. ASSUME NEW m \in Msgs, Send(m)
      PROVE  Ok(k)
  <2>1. batch' = batch /\ (k = via[m] => batch[k] = << >>) /\ (k # via[m] => received'[k] = received[k])
    BY <1>3, SendEffect, ZenonT(40), SMTT(30) DEF Reads
  <2> QED
    BY <2>1, <1>1
<1>4. ASSUME NEW l \in Conns, SendDirect(l)
      PROVE  Ok(k)
  <2>1. at' = at /\ Takes(l)
    BY <1>4, <1>t, SendDirectEffect, Zenon
  <2>2. CASE k # l
    <3>1. batch'[k] = batch[k] /\ received'[k] = received[k]
      BY <1>4, <1>t, <2>1, <2>2, SendDirectEffect, ZenonT(40), SMTT(30) DEF Takes, Reads
    <3> QED
      BY <3>1, <1>1, Zenon
  <2>3. CASE k = l
    <3>0. 1 \in 1 .. Len(batch[k]) /\ Len(batch[k]) \in Nat
      BY <2>1, <2>3, <1>t, Lengths DEF Takes
    <3>1. \A j \in 1 .. Len(batch'[k]) : j + 1 \in 1 .. Len(batch[k]) /\ batch'[k][j] = batch[k][j + 1]
      BY <2>1, <2>3, <1>t, LeftBefore
    <3>2. ASSUME NEW i \in 1 .. Len(batch'[k]), NEW j \in 1 .. Len(batch'[k]), i < j
          PROVE  at[batch'[k][i]] <= at[batch'[k][j]]
      <4>1. i + 1 < j + 1 /\ i + 1 \in 1 .. Len(batch[k]) /\ j + 1 \in 1 .. Len(batch[k])
        BY <3>1, <3>2
      <4> QED
        BY <3>1, <4>1, <1>0, Zenon
    <3>3. ASSUME NEW i \in 1 .. Len(received'[k]), NEW j \in 1 .. Len(batch'[k])
          PROVE  at[received'[k][i].msg] <= at[batch'[k][j]]
      <4>1. \/ i \in 1 .. Len(received[k]) /\ received'[k][i] = received[k][i]
            \/ received'[k][i] = Pending(batch[k][1])
        BY <1>4, <2>3, <1>t, ReadBefore, SendDirectEffect
      <4>2. Pending(batch[k][1]).msg = batch[k][1]
        BY Zenon DEF Pending
      <4>3. at[batch[k][1]] <= at[batch[k][j + 1]]
        <5>1. j + 1 \in 1 .. Len(batch[k])
          BY <3>1, Zenon
        <5>2. 1 < j + 1
          OBVIOUS
        <5> QED
          BY <1>0, <3>0, <5>1, <5>2, Zenon
      <4> QED
        BY <4>1, <4>2, <4>3, <3>1, <1>0, ZenonT(40), SMTT(30)
    <3> QED
      BY <2>1, <3>2, <3>3, Zenon
  <2> QED
    BY <2>2, <2>3, Zenon
<1> HIDE DEF Ok
<1> QED
  BY <1>1, <1>2, <1>3, <1>4, FlowMoves, ZenonT(40), SMTT(30)

\* What is read stays in order.
LEMMA ReadInOrderStep ==
    ASSUME OrderInv, [Next]_vars
    PROVE  PendingFirstInOrder'
<1>t. TypeOK /\ PlacedStays /\ BatchInOrder /\ PendingFirstInOrder /\ TypeOK'
  BY TypeStep, Zenon DEF OrderInv, PendingFirstInOrder
<1>s. \A n \in Msgs : st[n] \in Placed => at'[n] = at[n]
  BY <1>t, StaysPlaced, Zenon
<1>r. \A k \in Conns : \A i \in 1 .. Len(received[k]) : at'[received[k][i].msg] = at[received[k][i].msg]
  BY <1>s, <1>t, Lengths, Zenon DEF PlacedStays
<1> DEFINE Ok(k) == \A j \in 1 .. Len(received'[k]) : \A i \in 1 .. j - 1 :
                      received'[k][j].drained =>
                          /\ received'[k][i].drained
                          /\ at'[received'[k][i].msg] <= at'[received'[k][j].msg]
<1> SUFFICES ASSUME NEW k \in Conns PROVE Ok(k)
  BY <1>t, Zenon DEF PendingFirstInOrder
<1>0. \A j \in 1 .. Len(received[k]) : \A i \in 1 .. j - 1 :
          received[k][j].drained =>
              /\ received[k][i].drained
              /\ at[received[k][i].msg] <= at[received[k][j].msg]
  BY <1>t, Zenon DEF PendingFirstInOrder
<1>l. Len(received[k]) \in Nat
  BY <1>t, Lengths, Zenon
<1>1. ASSUME NEW j \in 1 .. Len(received[k]), NEW i \in 1 .. j - 1, received[k][j].drained
      PROVE  received[k][i].drained /\ at'[received[k][i].msg] <= at'[received[k][j].msg]
  <2>1. i \in 1 .. Len(received[k])
    BY <1>l
  <2>2. at'[received[k][i].msg] = at[received[k][i].msg] /\ at'[received[k][j].msg] = at[received[k][j].msg]
    BY <1>r, <2>1, Zenon
  <2> QED
    BY <1>0, <1>1, <2>2, Zenon
<1>2. ASSUME received'[k] = received[k]
      PROVE  Ok(k)
  BY <1>1, <1>2, Zenon
<1>3. ASSUME NEW e, Reads(k, e), NEW j \in 1 .. Len(received'[k]), NEW i \in 1 .. j - 1
      PROVE  /\ i \in 1 .. Len(received[k]) /\ received'[k][i] = received[k][i]
             /\ \/ j \in 1 .. Len(received[k]) /\ received'[k][j] = received[k][j]
                \/ received'[k][j] = e
  BY <1>3, <1>l DEF Reads
<1>4. ASSUME NEW m \in Msgs, Reads(k, Live(m))
      PROVE  Ok(k)
  <2>1. ~Live(m).drained
    BY Zenon DEF Live
  <2> QED
    BY <1>1, <1>3, <1>4, <2>1
<1>5. ASSUME SendDirect(k), Reads(k, Pending(batch[k][1]))
      PROVE  Ok(k)
  <2>1. stage[k] = "writing" /\ at' = at /\ 1 \in 1 .. Len(batch[k])
    BY <1>5, <1>t, Lengths, SendDirectEffect DEF Takes
  <2>2. \A i \in 1 .. Len(received[k]) :
            received[k][i].drained /\ at'[received[k][i].msg] <= at'[batch[k][1]]
    BY <2>1, Zenon DEF OrderInv, DrainInOrder, BatchInOrder
  <2>3. Pending(batch[k][1]).msg = batch[k][1]
    BY Zenon DEF Pending
  <2> QED
    BY <1>1, <1>3, <1>5, <2>2, <2>3
<1>6. ASSUME NEW l \in Conns, NEW fails \in BOOLEAN, GetAll(l, fails)
      PROVE  received'[k] = received[k]
  BY <1>6, GetAllEffect, ZenonT(40), SMTT(30)
<1>7. ASSUME NEW m \in Msgs, Send(m)
      PROVE  received'[k] = received[k] \/ Reads(k, Live(m))
  BY <1>7, SendEffect DEF Reads
<1>8. ASSUME NEW l \in Conns, SendDirect(l)
      PROVE  received'[k] = received[k] \/ (l = k /\ Reads(k, Pending(batch[k][1])))
  BY <1>8, <1>t, SendDirectEffect, Zenon DEF Reads
<1> HIDE DEF Ok
<1> QED
  BY <1>2, <1>4, <1>5, <1>6, <1>7, <1>8, FlowMoves, ZenonT(40), SMTT(30)

\* Nothing has been sent or read: the invariant holds.
LEMMA OrderInit ==
    Init => OrderInv
<1> SUFFICES ASSUME Init PROVE OrderInv
  BY Zenon
<1>1. TypeOK
  <2>1. << >> \in Seq(Msgs) /\ << >> \in Seq([msg : Msgs, drained : BOOLEAN])
    OBVIOUS
  <2>2. now \in 1 .. MaxTime /\ 0 \in 0 .. MaxTime /\ 0 \in 0 .. MaxRetry
    BY PendingAssumption DEF Init
  <2> QED
    BY <2>1, <2>2, Zenon DEF Init, TypeOK
<1>2. IsFiniteSet(table)
  BY FS_EmptySet, Zenon DEF Init
<1>3. \A k \in Conns : batch[k] = << >> /\ received[k] = << >> /\ stage[k] = "none"
  BY Zenon DEF Init
<1>4. RetriesLeft /\ FoundWhileDraining
  BY PendingAssumption DEF Init, RetriesLeft, FoundWhileDraining
<1>5. PlacedStays
  <2>1. table = {}
    BY Zenon DEF Init
  <2> QED
    BY <1>3, <2>1 DEF PlacedStays
<1>6. DrainInOrder /\ BatchInOrder
  BY <1>3 DEF DrainInOrder, BatchInOrder
<1>7. PendingFirstInOrder
  BY <1>1, <1>3 DEF PendingFirstInOrder
<1> QED
  BY <1>2, <1>4, <1>5, <1>6, <1>7, Zenon DEF OrderInv

\* Every step keeps the whole invariant.
LEMMA OrderStep ==
    OrderInv /\ [Next]_vars => OrderInv'
BY TypeStep, RetriesStep, FoundStep, PlacedStep, DrainStep, BatchInOrderStep, ReadInOrderStep, Zenon
   DEF OrderInv

\* On every connection the client reads what was buffered first, and in the
\* order of its send times, whatever the deployment excludes or not.
THEOREM PendingFirstInOrderThm ==
    Spec => []PendingFirstInOrder
<1>1. OrderInv => PendingFirstInOrder
  BY Zenon DEF OrderInv
<1> QED
  BY OrderInit, OrderStep, <1>1, PTL DEF Spec

-----------------------------------------------------------------------------
(* Duplicates *)

\* The conjuncts of OnePlace and, in the first, of DuplicateOnlyIfReread.
ReadOnce ==
    \A k, l \in Conns : \A i \in 1 .. Len(received[k]), j \in 1 .. Len(received[l]) :
        received[k][i].msg = received[l][j].msg => k = l /\ i = j
OneConsumer == \A j, k \in Conns : stage[j] = "fetched" /\ stage[k] = "fetched" => j = k
ReadIsGone == \A k \in Conns : \A i \in 1 .. Len(received[k]) : received[k][i].msg \notin table
WrittenIsGone ==
    \A k \in Conns : stage[k] # "fetched" => \A i \in 1 .. Len(batch[k]) : batch[k][i] \notin table
ReadIsNotLeft ==
    \A k, l \in Conns : \A i \in 1 .. Len(received[k]), j \in 1 .. Len(batch[l]) :
        received[k][i].msg # batch[l][j]
FetchedOnce ==
    \A k, l \in Conns : \A i \in 1 .. Len(batch[k]), j \in 1 .. Len(batch[l]) :
        batch[k][i] = batch[l][j] => k = l /\ i = j
Once == ReadOnce /\ OneConsumer /\ ReadIsGone /\ WrittenIsGone /\ ReadIsNotLeft /\ FetchedOnce

\* The invariant, apart from the deployments that read a row again.
LEMMA OnceIs ==
    OnceInv <=> OrderInv /\ (~reread => Once)
<1>1. (~reread => ReadOnce) <=> DuplicateOnlyIfReread
  BY DEF ReadOnce, DuplicateOnlyIfReread
<1>2. (~reread => OneConsumer /\ ReadIsGone /\ WrittenIsGone /\ ReadIsNotLeft /\ FetchedOnce) <=> OnePlace
  BY Zenon DEF OnePlace, OneConsumer, ReadIsGone, WrittenIsGone, ReadIsNotLeft, FetchedOnce
<1> QED
  BY <1>1, <1>2, Zenon DEF OnceInv, Once

\* A step that leaves reread FALSE.
LEMMA RereadMoves ==
    ASSUME [Next]_vars, ~reread'
    PROVE  /\ ~reread
           /\ \A k \in Conns, fails \in BOOLEAN :
                 /\ GetAll(k, fails) => \A j \in Conns : stage[j] # "fetched"
                 /\ DeleteUpTo(k, fails) => ~fails
<1>1. ASSUME NEW m \in Msgs, Sender(m)
      PROVE  reread' = reread
  BY <1>1, Zenon DEF Sender, SendToSession, Send, SaveMessageHub, Save, Create, CreateFails
<1>2. ASSUME NEW k \in Conns, OnNew(k)
      PROVE  reread' = reread \/ \E fails \in BOOLEAN : GetAll(k, fails) \/ DeleteUpTo(k, fails)
  BY <1>2, Zenon DEF OnNew, Claim, AddConnection, SendDirect, EndDrain
<1>3. ASSUME NEW k \in Conns, OnClose(k)
      PROVE  reread' = reread
  BY <1>3, Zenon DEF OnClose, UpdateStatusTransferring, Close, RemoveConnection, UpdateStatus, Register
<1>4. Expire \/ Tick \/ UNCHANGED vars => reread' = reread
  BY Zenon DEF Expire, Tick, vars
<1>5. ASSUME NEW k \in Conns, NEW fails \in BOOLEAN, GetAll(k, fails)
      PROVE  ~reread /\ \A j \in Conns : stage[j] # "fetched"
  BY <1>5, Zenon DEF GetAll
<1>6. ASSUME NEW k \in Conns, NEW fails \in BOOLEAN, DeleteUpTo(k, fails)
      PROVE  ~reread /\ ~fails
  BY <1>6, Zenon DEF DeleteUpTo
<1>7. ~reread
  BY <1>1, <1>2, <1>3, <1>4, <1>5, <1>6, ZenonT(40), SMTT(30) DEF Next
<1> QED
  BY <1>5, <1>6, <1>7, Zenon

\* DeleteUpTo removes every row that was fetched.
LEMMA DeletesFetched ==
    ASSUME OrderInv, NEW k \in Conns, DeleteUpTo(k, FALSE), NEW i \in 1 .. Len(batch[k])
    PROVE  batch[k][i] \notin table'
<1>t. TypeOK /\ BatchInOrder
  BY Zenon DEF OrderInv, PendingFirstInOrder
<1>1. Len(batch[k]) \in Nat /\ Len(batch[k]) \in 1 .. Len(batch[k])
  BY <1>t, Lengths
<1>2. batch[k][i] \in Msgs /\ batch[k][Len(batch[k])] \in Msgs
  BY <1>1, <1>t, Lengths, Zenon
<1>3. at[batch[k][i]] <= at[batch[k][Len(batch[k])]]
  <2>1. at[batch[k][i]] \in Nat
    BY <1>2, <1>t DEF TypeOK
  <2> QED
    BY <1>1, <1>t, <2>1 DEF BatchInOrder
<1>4. at[batch[k][i]] \in Nat /\ at[batch[k][Len(batch[k])]] \in Nat
  BY <1>2, <1>t DEF TypeOK
<1>5. table' = {m \in table : at[m] > at[batch[k][Len(batch[k])]]}
  BY Zenon DEF DeleteUpTo, MaxSendAt
<1> QED
  BY <1>3, <1>4, <1>5

\* Only a message that has no place yet gets a row.
LEMMA TableGrows ==
    ASSUME OrderInv, [Next]_vars, NEW n \in table'
    PROVE  n \in table \/ st[n] \notin Placed
<1>t. TypeOK
  BY Zenon DEF OrderInv, PendingFirstInOrder
<1>1. ASSUME NEW m \in Msgs, Create(m)
      PROVE  n \in table \/ st[n] \notin Placed
  BY <1>1 DEF Create, Placed
<1>2. ASSUME NEW k \in Conns, NEW fails \in BOOLEAN, DeleteUpTo(k, fails)
      PROVE  n \in table
  BY <1>2, Zenon DEF DeleteUpTo
<1>3. Expire => n \in table
  BY Zenon DEF Expire
<1> QED
  BY <1>1, <1>2, <1>3, TableMoves, Zenon

\* Unless a row is read again, one connection consumes at a time.
LEMMA OneConsumerStep ==
    ASSUME OrderInv, [Next]_vars, ~reread', OneConsumer
    PROVE  OneConsumer'
<1>t. TypeOK
  BY Zenon DEF OrderInv, PendingFirstInOrder
<1>1. ASSUME NEW k \in Conns, stage'[k] = "fetched"
      PROVE  stage[k] = "fetched" \/ \E fails \in BOOLEAN : GetAll(k, fails)
  BY <1>1, <1>t, StageMoves, ZenonT(40), SMTT(30)
<1>2. ASSUME NEW k \in Conns, NEW fails \in BOOLEAN, GetAll(k, fails), NEW j \in Conns, stage'[j] = "fetched"
      PROVE  j = k
  <2>1. stage[j] # "fetched"
    BY <1>2, RereadMoves, Zenon
  <2> QED
    BY <1>2, <2>1, GetAllEffect
<1> QED
  BY <1>1, <1>2, Zenon DEF OneConsumer

\* Without a change of the queues.
LEMMA OnceQuiet ==
    ASSUME OrderInv, [Next]_vars, ~reread', Once, UNCHANGED <<batch, received>>
    PROVE  Once'
<1>t. TypeOK /\ PlacedStays
  BY Zenon DEF OrderInv, PendingFirstInOrder
<1>1. ReadOnce' /\ ReadIsNotLeft' /\ FetchedOnce'
  BY DEF Once, ReadOnce, ReadIsNotLeft, FetchedOnce
<1>2. ReadIsGone'
  <2> SUFFICES ASSUME NEW k \in Conns, NEW i \in 1 .. Len(received[k]), received[k][i].msg \in table'
               PROVE  FALSE
    BY Zenon DEF ReadIsGone
  <2>1. st[received[k][i].msg] \in Placed
    BY <1>t, Zenon DEF PlacedStays
  <2> QED
    BY <2>1, TableGrows, Zenon DEF Once, ReadIsGone
<1>3. WrittenIsGone'
  <2> SUFFICES ASSUME NEW k \in Conns, stage'[k] # "fetched", NEW i \in 1 .. Len(batch[k]),
                      batch[k][i] \in table'
               PROVE  FALSE
    BY Zenon DEF WrittenIsGone
  <2>1. st[batch[k][i]] \in Placed
    BY <1>t, Zenon DEF PlacedStays
  <2>2. stage[k] = "fetched"
    BY <2>1, TableGrows, Zenon DEF Once, WrittenIsGone
  <2>3. DeleteUpTo(k, FALSE)
    BY <2>2, <1>t, StageMoves, RereadMoves, Zenon
  <2> QED
    BY <2>3, DeletesFetched, Zenon
<1> QED
  BY <1>1, <1>2, <1>3, OneConsumerStep, Zenon DEF Once

\* A message that was in no queue is read.
LEMMA OnceReads ==
    ASSUME OrderInv, Once, NEW k \in Conns, NEW e \in Read, Reads(k, e),
           \A l \in Conns : \A i \in 1 .. Len(received[l]) : received[l][i].msg # e.msg
    PROVE  ReadOnce'
<1>t. TypeOK
  BY Zenon DEF OrderInv, PendingFirstInOrder
<1> SUFFICES ASSUME NEW j \in Conns, NEW l \in Conns,
                    NEW i \in 1 .. Len(received'[j]), NEW h \in 1 .. Len(received'[l]),
                    received'[j][i].msg = received'[l][h].msg
             PROVE  j = l /\ i = h
  BY Zenon DEF ReadOnce
<1>1. \/ i \in 1 .. Len(received[j]) /\ received'[j][i] = received[j][i]
      \/ j = k /\ i = Len(received[k]) + 1 /\ received'[j][i] = e
  BY <1>t, ReadBefore
<1>2. \/ h \in 1 .. Len(received[l]) /\ received'[l][h] = received[l][h]
      \/ l = k /\ h = Len(received[k]) + 1 /\ received'[l][h] = e
  BY <1>t, ReadBefore
<1>3. CASE /\ i \in 1 .. Len(received[j]) /\ received'[j][i] = received[j][i]
           /\ h \in 1 .. Len(received[l]) /\ received'[l][h] = received[l][h]
  <2>1. ReadOnce
    BY Zenon DEF Once
  <2>2. received[j][i].msg = received[l][h].msg
    BY <1>3, Zenon
  <2> QED
    BY <1>3, <2>1, <2>2 DEF ReadOnce
<1>4. i \in 1 .. Len(received[j]) /\ received'[j][i] = received[j][i] => received'[l][h] # e
  BY Zenon
<1>5. h \in 1 .. Len(received[l]) /\ received'[l][h] = received[l][h] => received'[j][i] # e
  BY Zenon
<1> QED
  BY <1>1, <1>2, <1>3, <1>4, <1>5, Zenon

\* A live send delivers a message that is nowhere else.
LEMMA OnceSend ==
    ASSUME OrderInv, [Next]_vars, ~reread', Once, NEW m \in Msgs, Send(m)
    PROVE  Once'
<1>t. TypeOK /\ PlacedStays
  BY Zenon DEF OrderInv, PendingFirstInOrder
<1>1. /\ via[m] \in Conns /\ st[m] \notin Placed /\ UNCHANGED <<table, stage, batch>>
      /\ received' = received \/ Reads(via[m], Live(m))
  BY SendEffect, Zenon DEF Placed
<1>2. CASE received' = received
  BY <1>1, <1>2, OnceQuiet, Zenon
<1>3. CASE Reads(via[m], Live(m))
  <2>1. Live(m) \in Read /\ Live(m).msg = m
    BY Zenon DEF Live, Read
  <2>2. /\ m \notin table
        /\ \A l \in Conns : \A i \in 1 .. Len(received[l]) : received[l][i].msg # m
        /\ \A l \in Conns : \A i \in 1 .. Len(batch[l]) : batch[l][i] # m
    BY <1>1, <1>t, Zenon DEF PlacedStays
  <2>3. ReadOnce'
    BY <1>1, <1>3, <2>1, <2>2, OnceReads, ZenonT(40), SMTT(30)
  <2>4. ASSUME NEW l \in Conns, NEW i \in 1 .. Len(received'[l])
        PROVE  (i \in 1 .. Len(received[l]) /\ received'[l][i] = received[l][i]) \/ received'[l][i].msg = m
    BY <1>t, <1>1, <1>3, <2>1, ReadBefore, Zenon
  <2>5. ReadIsGone'
    BY <1>1, <2>2, <2>4, Zenon DEF Once, ReadIsGone
  <2>6. ReadIsNotLeft'
    BY <1>1, <2>2, <2>4 DEF Once, ReadIsNotLeft
  <2>7. WrittenIsGone' /\ FetchedOnce'
    BY <1>1 DEF Once, WrittenIsGone, FetchedOnce
  <2> QED
    BY <2>3, <2>5, <2>6, <2>7, OneConsumerStep, Zenon DEF Once
<1> QED
  BY <1>1, <1>2, <1>3, Zenon

\* sendDirect delivers a message and gives up its place in the batch.
LEMMA OnceSendDirect ==
    ASSUME OrderInv, [Next]_vars, ~reread', Once, NEW k \in Conns, SendDirect(k)
    PROVE  Once'
<1>t. TypeOK
  BY Zenon DEF OrderInv, PendingFirstInOrder
<1> DEFINE m == batch[k][1]
<1>1. /\ m \in Msgs /\ Takes(k) /\ stage[k] = "writing" /\ UNCHANGED <<table, stage>>
      /\ received' = received \/ Reads(k, Pending(m))
  BY <1>t, SendDirectEffect, Zenon
<1>2. 1 \in 1 .. Len(batch[k])
  BY <1>1, <1>t, Lengths DEF Takes
<1>3. /\ m \notin table
      /\ \A l \in Conns : \A i \in 1 .. Len(received[l]) : received[l][i].msg # m
  BY <1>1, <1>2, Zenon DEF Once, WrittenIsGone, ReadIsNotLeft
<1>4. Pending(m) \in Read /\ Pending(m).msg = m
  BY <1>1, ZenonT(40), SMTT(30) DEF Pending, Read
<1>5. ASSUME NEW l \in Conns, NEW i \in 1 .. Len(batch'[l])
      PROVE  batch'[l][i] # m
  <2>1. CASE l # k /\ i \in 1 .. Len(batch[l]) /\ batch'[l][i] = batch[l][i]
    BY <1>2, <2>1, Zenon DEF Once, FetchedOnce
  <2>2. CASE l = k /\ i + 1 \in 1 .. Len(batch[l]) /\ batch'[l][i] = batch[l][i + 1]
    <3>1. i + 1 # 1
      OBVIOUS
    <3> QED
      BY <1>2, <2>2, <3>1 DEF Once, FetchedOnce
  <2> QED
    BY <1>1, <1>t, <2>1, <2>2, LeftBefore
<1>6. ASSUME NEW l \in Conns, NEW i \in 1 .. Len(received'[l])
      PROVE  (i \in 1 .. Len(received[l]) /\ received'[l][i] = received[l][i]) \/ received'[l][i].msg = m
  BY <1>t, <1>1, <1>4, ReadBefore
<1> HIDE DEF m
<1>7. ReadOnce'
  <2>1. CASE received' = received
    BY <2>1 DEF Once, ReadOnce
  <2>2. CASE Reads(k, Pending(m))
    BY <1>3, <1>4, <2>2, OnceReads, ZenonT(40), SMTT(30)
  <2> QED
    BY <1>1, <2>1, <2>2, Zenon
<1>8. ReadIsGone'
  BY <1>1, <1>3, <1>6, Zenon DEF Once, ReadIsGone
<1>9. ASSUME NEW l \in Conns, NEW i \in 1 .. Len(batch'[l])
      PROVE  \E h \in 1 .. Len(batch[l]) : batch'[l][i] = batch[l][h]
  BY <1>1, <1>t, LeftBefore, ZenonT(40), SMTT(30)
<1>10. WrittenIsGone'
  BY <1>1, <1>9 DEF Once, WrittenIsGone
<1>11. ReadIsNotLeft'
  <2> SUFFICES ASSUME NEW j \in Conns, NEW l \in Conns,
                      NEW i \in 1 .. Len(received'[j]), NEW h \in 1 .. Len(batch'[l])
               PROVE  received'[j][i].msg # batch'[l][h]
    BY Zenon DEF ReadIsNotLeft
  <2>1. PICK g \in 1 .. Len(batch[l]) : batch'[l][h] = batch[l][g]
    BY <1>9, Zenon
  <2>2. CASE i \in 1 .. Len(received[j]) /\ received'[j][i] = received[j][i]
    BY <2>1, <2>2, ZenonT(40), SMTT(30) DEF Once, ReadIsNotLeft
  <2>3. CASE received'[j][i].msg = m
    BY <1>5, <2>3, Zenon
  <2> QED
    BY <1>6, <2>2, <2>3, Zenon
<1>12. FetchedOnce'
  <2> SUFFICES ASSUME NEW j \in Conns, NEW l \in Conns,
                      NEW i \in 1 .. Len(batch'[j]), NEW h \in 1 .. Len(batch'[l]),
                      batch'[j][i] = batch'[l][h]
               PROVE  j = l /\ i = h
    BY Zenon DEF FetchedOnce
  <2>1. \/ j # k /\ i \in 1 .. Len(batch[j]) /\ batch'[j][i] = batch[j][i]
        \/ j = k /\ i + 1 \in 1 .. Len(batch[j]) /\ batch'[j][i] = batch[j][i + 1]
    BY <1>1, <1>t, LeftBefore, Zenon
  <2>2. \/ l # k /\ h \in 1 .. Len(batch[l]) /\ batch'[l][h] = batch[l][h]
        \/ l = k /\ h + 1 \in 1 .. Len(batch[l]) /\ batch'[l][h] = batch[l][h + 1]
    BY <1>1, <1>t, LeftBefore, Zenon
  <2>3. i + 1 = h + 1 => i = h
    OBVIOUS
  <2> QED
    BY <2>1, <2>2, <2>3 DEF Once, FetchedOnce
<1> QED
  BY <1>7, <1>8, <1>10, <1>11, <1>12, OneConsumerStep, Zenon DEF Once

\* GetAll fetches rows that no other batch holds.
LEMMA OnceGetAll ==
    ASSUME OrderInv, [Next]_vars, ~reread', Once,
           NEW k \in Conns, NEW fails \in BOOLEAN, GetAll(k, fails)
    PROVE  Once'
<1>1. UNCHANGED <<received, table>>
  BY GetAllEffect, Zenon
<1>2. \A l \in Conns : stage[l] # "fetched"
  BY RereadMoves, Zenon
<1>3. \A l \in Conns \ {k} : batch'[l] = batch[l] /\ stage'[l] = stage[l]
  BY GetAllEffect
<1>4. /\ \A i \in 1 .. Len(batch'[k]) : batch'[k][i] \in table
      /\ \A i, j \in 1 .. Len(batch'[k]) : batch'[k][i] = batch'[k][j] => i = j
      /\ stage'[k] # "fetched" => batch'[k] = << >>
  BY GetAllEffect, ZenonT(40), SMTT(30)
<1>5. \A l \in Conns \ {k} : \A i \in 1 .. Len(batch[l]) : batch[l][i] \notin table
  BY <1>2, Zenon DEF Once, WrittenIsGone
<1>6. ReadOnce' /\ ReadIsGone'
  BY <1>1 DEF Once, ReadOnce, ReadIsGone
<1>7. WrittenIsGone'
  BY <1>1, <1>3, <1>4, <1>5 DEF WrittenIsGone
<1>8. ReadIsNotLeft'
  BY <1>1, <1>3, <1>4 DEF Once, ReadIsNotLeft, ReadIsGone
<1>9. FetchedOnce'
  <2> SUFFICES ASSUME NEW j \in Conns, NEW l \in Conns,
                      NEW i \in 1 .. Len(batch'[j]), NEW h \in 1 .. Len(batch'[l]),
                      batch'[j][i] = batch'[l][h]
               PROVE  j = l /\ i = h
    BY Zenon DEF FetchedOnce
  <2>1. CASE j = k \/ l = k
    BY <1>3, <1>4, <1>5, <2>1
  <2>2. CASE j # k /\ l # k
    BY <1>3, <2>2 DEF Once, FetchedOnce
  <2> QED
    BY <2>1, <2>2, Zenon
<1> QED
  BY <1>6, <1>7, <1>8, <1>9, OneConsumerStep, Zenon DEF Once

\* A client reads a message twice only if a DeleteUpTo failed or two
\* connections fetched at once, for every way in which the clock, the commits
\* and the reconnects may misbehave.
THEOREM DuplicateOnlyIfRereadThm ==
    Spec => []DuplicateOnlyIfReread
<1>1. Init => OnceInv
  <2> SUFFICES ASSUME Init PROVE Once
    BY OrderInit, OnceIs, Zenon
  <2>1. \A k \in Conns : batch[k] = << >> /\ received[k] = << >> /\ stage[k] = "none"
    BY Zenon DEF Init
  <2> QED
    BY <2>1 DEF Once, ReadOnce, OneConsumer, ReadIsGone, WrittenIsGone, ReadIsNotLeft, FetchedOnce
<1>2. OnceInv /\ [Next]_vars => OnceInv'
  <2> SUFFICES ASSUME OnceInv, [Next]_vars PROVE OnceInv'
    BY Zenon
  <2>1. OrderInv /\ OrderInv'
    BY OrderStep, Zenon DEF OnceInv
  <2>2. ~reread' => Once'
    <3> SUFFICES ASSUME ~reread' PROVE Once'
      BY Zenon
    <3>1. Once
      BY RereadMoves, OnceIs, Zenon
    <3> QED
      BY <2>1, <3>1, FlowMoves, OnceQuiet, OnceSend, OnceSendDirect, OnceGetAll, Zenon
  <2>3. OnceInv' <=> OrderInv' /\ (~reread' => Once')
    BY OnceIs, PTL
  <2> QED
    BY <2>1, <2>2, <2>3, Zenon
<1>3. OnceInv => DuplicateOnlyIfReread
  BY Zenon DEF OnceInv
<1> QED
  BY <1>1, <1>2, <1>3, PTL DEF Spec

-----------------------------------------------------------------------------
(* Nothing that was saved vanishes *)

\* No row is inserted after a read that its time precedes, and no two saves
\* take the same nanosecond.
Orderly == Faults \cap {"lateCommit", "collision"} = {}

\* Who stamps and who stores.
LEMMA StampMoves ==
    ASSUME TypeOK, [Next]_vars, NEW n \in Msgs
    PROVE  /\ st'[n] = "stamped" => st[n] = "stamped" \/ Save(n)
           /\ st'[n] = "stored" => st[n] = "stored" \/ Create(n)
           /\ UNCHANGED <<at, now>> \/ (at' = at /\ now' = now + 1)
                 \/ \E m \in Msgs : Save(m)
<1>1. ASSUME NEW m \in Msgs, Sender(m)
      PROVE  /\ st'[n] = "stamped" => st[n] = "stamped" \/ Save(n)
             /\ st'[n] = "stored" => st[n] = "stored" \/ Create(n)
             /\ UNCHANGED <<at, now>> \/ Save(m)
  <2>1. UNCHANGED <<at, now>> \/ Save(m)
    BY <1>1, Zenon DEF Sender, SendToSession, Send, SaveMessageHub, Create, CreateFails
  <2>2. CASE m # n
    <3>1. st' = st \/ \E s : st' = [st EXCEPT ![m] = s]
      BY <1>1, Zenon DEF Sender, SendToSession, Send, SaveMessageHub, Save, Create, CreateFails
    <3>2. st'[n] = st[n]
      BY <3>1, <2>2, Zenon DEF TypeOK
    <3> QED
      BY <2>1, <3>2, Zenon
  <2>3. CASE m = n
    <3>1. SendToSession(n) => st'[n] \notin {"stamped", "stored"}
      BY Zenon DEF SendToSession, TypeOK
    <3>2. Send(n) => st'[n] \notin {"stamped", "stored"}
      BY Zenon DEF Send, TypeOK
    <3>3. SaveMessageHub(n) => st'[n] \notin {"stamped", "stored"}
      BY Zenon DEF SaveMessageHub, TypeOK
    <3>4. CreateFails(n) => st'[n] \notin {"stamped", "stored"}
      BY Zenon DEF CreateFails, TypeOK
    <3>5. Save(n) => st'[n] = "stamped"
      BY Zenon DEF Save, TypeOK
    <3>6. Create(n) => st'[n] = "stored"
      BY Zenon DEF Create, TypeOK
    <3> QED
      BY <1>1, <2>1, <2>3, <3>1, <3>2, <3>3, <3>4, <3>5, <3>6, ZenonT(40), SMTT(30) DEF Sender
  <2> QED
    BY <2>2, <2>3, Zenon
<1>2. ASSUME NEW k \in Conns, OnNew(k)
      PROVE  /\ st'[n] \in {"stamped", "stored"} => st'[n] = st[n]
             /\ UNCHANGED <<at, now>>
  <2>1. CASE SendDirect(k)
    BY <2>1, Zenon DEF SendDirect, TypeOK
  <2> QED
    BY <1>2, <2>1, Zenon DEF OnNew, Claim, AddConnection, GetAll, DeleteUpTo, EndDrain, sending
<1>3. ASSUME NEW k \in Conns, OnClose(k)
      PROVE  UNCHANGED <<st, at, now>>
  BY <1>3, Zenon DEF OnClose, UpdateStatusTransferring, Close, RemoveConnection, UpdateStatus,
     Register, sending
<1>4. Expire => UNCHANGED <<at, now>> /\ (st'[n] \in {"stamped", "stored"} => st'[n] = st[n])
  BY Zenon DEF Expire
<1>5. Tick => UNCHANGED <<st, at>> /\ now' = now + 1
  BY Zenon DEF Tick, sending
<1>6. UNCHANGED vars => UNCHANGED <<st, at, now>>
  BY Zenon DEF vars, sending
<1> QED
  BY <1>1, <1>2, <1>3, <1>4, <1>5, <1>6, ZenonT(40), SMTT(30) DEF Next

\* Without collisions, every step keeps the send times apart.
LEMMA TimesStep ==
    ASSUME Orderly, KeptInv, [Next]_vars
    PROVE  TimesDiffer'
<1>t. TypeOK /\ TimesDiffer
  BY Zenon DEF KeptInv, OrderInv, PendingFirstInOrder
<1>n. now \in Nat /\ now > 0 /\ \A m \in Msgs : at[m] \in Nat
  BY <1>t DEF TypeOK
<1>1. ASSUME NEW m \in Msgs, Save(m)
      PROVE  /\ now' = now /\ at'[m] = now
             /\ \A n \in Msgs \ {m} : at'[n] = at[n]
             /\ \A n \in Msgs : at[n] # now
  BY <1>1, <1>t, Zenon DEF Save, TypeOK, Orderly
<1>2. \A m \in Msgs : at'[m] <= now'
  <2>1. CASE UNCHANGED <<at, now>> \/ (at' = at /\ now' = now + 1)
    BY <2>1, <1>t, <1>n DEF TimesDiffer
  <2>2. ASSUME NEW m \in Msgs, Save(m)
        PROVE  \A n \in Msgs : at'[n] <= now'
    BY <1>1, <2>2, <1>t, <1>n DEF TimesDiffer
  <2> QED
    BY <2>1, <2>2, <1>t, StampMoves, Zenon
<1>3. \A m, n \in Msgs : m # n /\ at'[m] = at'[n] => at'[m] = 0
  <2>1. CASE at' = at
    BY <2>1, <1>t, Zenon DEF TimesDiffer
  <2>2. ASSUME NEW m \in Msgs, Save(m)
        PROVE  \A j, n \in Msgs : j # n /\ at'[j] = at'[n] => at'[j] = 0
    BY <1>1, <2>2, <1>t, ZenonT(40), SMTT(30) DEF TimesDiffer
  <2> QED
    BY <2>1, <2>2, <1>t, StampMoves, Zenon
<1>4. ASSUME NEW n \in Msgs, n \in table' \/ st'[n] = "stamped"
      PROVE  at'[n] > 0
  <2>1. ASSUME NEW m \in Msgs, Save(m)
        PROVE  at'[n] > 0
    <3>1. table' = table
      BY <2>1, Zenon DEF Save
    <3>2. CASE n = m
      BY <1>1, <2>1, <3>2, <1>n, Zenon
    <3>3. CASE n # m
      BY <1>1, <1>4, <2>1, <3>1, <3>3, <1>t, ZenonT(40), SMTT(30) DEF Save, TimesDiffer, TypeOK
    <3> QED
      BY <3>2, <3>3, Zenon
  <2>2. ASSUME at' = at, ~Save(n)
        PROVE  at'[n] > 0
    <3>1. n \in table' => n \in table \/ st[n] = "stamped"
      <4>1. ASSUME NEW m \in Msgs, Create(m), n \in table'
            PROVE  n \in table \/ st[n] = "stamped"
        BY <4>1 DEF Create
      <4>2. ASSUME NEW k \in Conns, NEW fails \in BOOLEAN, DeleteUpTo(k, fails), n \in table'
            PROVE  n \in table
        BY <4>2, Zenon DEF DeleteUpTo
      <4>3. Expire => n \notin table'
        BY Zenon DEF Expire
      <4> QED
        BY <4>1, <4>2, <4>3, TableMoves, Zenon
    <3>2. st'[n] = "stamped" => st[n] = "stamped"
      BY <2>2, <1>t, StampMoves, Zenon
    <3> QED
      BY <1>4, <2>2, <3>1, <3>2, <1>t, Zenon DEF TimesDiffer
  <2> QED
    BY <2>1, <2>2, <1>t, StampMoves, Zenon
<1> QED
  BY <1>2, <1>3, <1>4, Zenon DEF TimesDiffer

\* In an orderly deployment no row is in the way of another one.
LEMMA CreateAdds ==
    ASSUME KeptInv, NEW m \in Msgs, Create(m)
    PROVE  table' = table \cup {m} /\ at' = at
<1>t. TypeOK /\ TimesDiffer /\ PlacedStays
  BY Zenon DEF KeptInv, OrderInv, PendingFirstInOrder
<1>1. st[m] = "stamped" /\ "stamped" \notin Placed
  BY Zenon DEF Create, Placed
<1>5. m \notin table
  BY <1>1, <1>t, Zenon DEF PlacedStays
<1>2. at[m] > 0 /\ at[m] \in Nat
  BY <1>1, <1>t DEF TimesDiffer, TypeOK
<1>3. \A n \in table : at[n] # at[m]
  <2>1. table \subseteq Msgs /\ \A n \in Msgs : m # n /\ at[m] = at[n] => at[m] = 0
    BY <1>t, Zenon DEF TimesDiffer, TypeOK
  <2> QED
    BY <1>2, <1>5, <2>1
<1>4. {n \in table : at[n] = at[m]} = {}
  BY <1>3, Zenon
<1> QED
  BY <1>4, Zenon DEF Create

\* Without late commits, what is inserted later is younger than what was fetched.
LEMMA OldestStep ==
    ASSUME Orderly, KeptInv, [Next]_vars
    PROVE  FetchedIsOldest'
<1>t. TypeOK /\ TimesDiffer /\ PlacedStays /\ FetchedIsOldest /\ DrainInOrder /\ OrderInv
  BY Zenon DEF KeptInv, OrderInv, PendingFirstInOrder
<1>n. now \in Nat /\ \A m \in Msgs : at[m] \in Nat
  BY <1>t DEF TypeOK
<1> SUFFICES ASSUME NEW k \in Conns, stage'[k] = "fetched", NEW n \in Msgs
             PROVE  /\ st'[n] = "stamped" => at'[n] > MaxSendAt(k)'
                    /\ n \in table' /\ at'[n] <= MaxSendAt(k)' => n \in Fetched(k)'
  BY Zenon DEF FetchedIsOldest
<1>1. ASSUME NEW fails \in BOOLEAN, GetAll(k, fails)
      PROVE  /\ st'[n] # "stamped"
             /\ n \in table' => n \in Fetched(k)'
  <2>1. st'[n] # "stamped"
    <3>1. "lateCommit" \notin Faults
      BY Zenon DEF Orderly
    <3>2. "lateCommit" \in Faults \/ st[n] # "stamped"
      BY <1>1, Zenon DEF GetAll
    <3>3. st' = st
      BY <1>1, Zenon DEF GetAll, sending
    <3> QED
      BY <3>1, <3>2, <3>3, Zenon
  <2>2. table' = table /\ \A m \in table : \E i \in 1 .. Len(batch'[k]) : batch'[k][i] = m
    BY <1>1, <1>t, GetAllEffect
  <2> QED
    BY <2>1, <2>2, Zenon DEF Fetched
<1>2. ASSUME stage[k] = "fetched"
      PROVE  /\ st'[n] = "stamped" => at'[n] > MaxSendAt(k)'
             /\ n \in table' /\ at'[n] <= MaxSendAt(k)' => n \in Fetched(k)'
  <2>1. batch'[k] = batch[k]
    <3>1. ASSUME NEW m \in Msgs, Send(m)
          PROVE  batch' = batch
      BY <3>1, Zenon DEF Send
    <3>2. ASSUME NEW j \in Conns, NEW fails \in BOOLEAN, GetAll(j, fails)
          PROVE  batch'[k] = batch[k]
      BY <1>2, <3>2, <1>t, GetAllEffect, Zenon
    <3>3. ASSUME NEW j \in Conns, SendDirect(j)
          PROVE  batch'[k] = batch[k]
      BY <1>2, <3>3, <1>t, SendDirectEffect, Zenon DEF Takes
    <3> QED
      BY <3>1, <3>2, <3>3, FlowMoves, Zenon
  <2> DEFINE z == batch[k][Len(batch[k])]
  <2>2. z \in Msgs /\ st[z] \in Placed
    <3>1. Len(batch[k]) \in 1 .. Len(batch[k])
      BY <1>2, <1>t, Lengths DEF DrainInOrder
    <3> QED
      BY <3>1, <1>t, Lengths, Zenon DEF PlacedStays
  <2>3. at'[z] = at[z]
    BY <2>2, <1>t, StaysPlaced, Zenon
  <2>4. /\ st[n] = "stamped" => at[n] > at[z]
        /\ n \in table /\ at[n] <= at[z] => n \in Fetched(k)
    BY <1>2, <1>t, Zenon DEF FetchedIsOldest, MaxSendAt
  <2> HIDE DEF z
  <2>5. ASSUME NEW m \in Msgs, Save(m)
        PROVE  /\ st'[n] = "stamped" => at'[n] > at'[z]
               /\ n \in table' /\ at'[n] <= at'[z] => n \in Fetched(k)
    <3>1. table' = table /\ at'[m] = now /\ st[m] = "saving" /\ at[z] # now
      BY <2>2, <2>5, <1>t, Zenon DEF Save, TypeOK, Orderly
    <3>2. at[z] <= now
      BY <2>2, <1>t, Zenon DEF TimesDiffer
    <3>3. CASE n = m
      <4>1. n \notin table
        BY <3>1, <3>3, <1>t, Zenon DEF PlacedStays, Placed
      <4> QED
        BY <2>2, <2>3, <3>1, <3>2, <3>3, <4>1, <1>n
    <3>4. CASE n # m
      <4>1. st'[n] = st[n] /\ at'[n] = at[n]
        BY <2>5, <3>4, <1>t, ZenonT(40), SMTT(30) DEF Save, TypeOK
      <4> QED
        BY <2>3, <2>4, <3>1, <4>1, Zenon
    <3> QED
      BY <3>3, <3>4, Zenon
  <2>6. ASSUME at' = at, ~ \E m \in Msgs : Save(m)
        PROVE  /\ st'[n] = "stamped" => at'[n] > at'[z]
               /\ n \in table' /\ at'[n] <= at'[z] => n \in Fetched(k)
    <3>1. st'[n] = "stamped" => st[n] = "stamped"
      BY <2>6, <1>t, StampMoves, Zenon
    <3>2. n \in table' => n \in table \/ st[n] = "stamped"
      <4>1. ASSUME NEW m \in Msgs, Create(m), n \in table'
            PROVE  n \in table \/ st[n] = "stamped"
        BY <4>1, Zenon DEF Create
      <4>2. ASSUME NEW j \in Conns, NEW fails \in BOOLEAN, DeleteUpTo(j, fails), n \in table'
            PROVE  n \in table
        BY <4>2, Zenon DEF DeleteUpTo
      <4>3. Expire => n \notin table'
        BY Zenon DEF Expire
      <4> QED
        BY <4>1, <4>2, <4>3, TableMoves, Zenon
    <3> QED
      BY <2>2, <2>4, <2>6, <3>1, <3>2, <1>n
  <2>7. /\ st'[n] = "stamped" => at'[n] > at'[z]
        /\ n \in table' /\ at'[n] <= at'[z] => n \in Fetched(k)
    BY <2>5, <2>6, <1>t, StampMoves, Zenon
  <2> QED
    BY <2>1, <2>7, Zenon DEF z, MaxSendAt, Fetched
<1> QED
  BY <1>1, <1>2, <1>t, StageMoves, Zenon

\* What SendDirect writes leaves the queue; everything else stays.
LEMMA LeavesQueue ==
    ASSUME OrderInv, [Next]_vars, NEW m \in Msgs, NEW k \in Conns, m \in Fetched(k)
    PROVE  \/ m \in Fetched(k)'
           \/ SendDirect(k) /\ m = batch[k][1]
<1>t. TypeOK /\ DrainInOrder
  BY Zenon DEF OrderInv, PendingFirstInOrder
<1>1. PICK i \in 1 .. Len(batch[k]) : batch[k][i] = m
  BY Zenon DEF Fetched
<1>2. CASE batch'[k] = batch[k]
  BY <1>2, Zenon DEF Fetched
<1>3. ASSUME NEW n \in Msgs, Send(n)
      PROVE  batch' = batch
  BY <1>3, Zenon DEF Send
<1>4. ASSUME NEW j \in Conns, NEW fails \in BOOLEAN, GetAll(j, fails)
      PROVE  batch'[k] = batch[k]
  <2>1. stage[j] = "added" /\ (j # k => batch'[k] = batch[k])
    BY <1>4, GetAllEffect
  <2>2. batch[k] # << >>
    BY <1>1
  <2> QED
    BY <2>1, <2>2, <1>t, ZenonT(40), SMTT(30) DEF DrainInOrder
<1>5. ASSUME NEW j \in Conns, SendDirect(j), j # k
      PROVE  batch'[k] = batch[k]
  BY <1>5, <1>t, SendDirectEffect, Zenon DEF Takes
<1>6. ASSUME SendDirect(k), i # 1
      PROVE  m \in Fetched(k)'
  <2>1. Takes(k) /\ Len(batch[k]) \in Nat
    BY <1>6, <1>t, SendDirectEffect, Lengths, Zenon
  <2>2. i - 1 \in 1 .. Len(batch'[k]) /\ batch'[k][i - 1] = batch[k][i]
    BY <1>6, <2>1 DEF Takes
  <2> QED
    BY <1>1, <2>2, Zenon DEF Fetched
<1> QED
  BY <1>1, <1>2, <1>3, <1>4, <1>5, <1>6, FlowMoves, ZenonT(40), SMTT(30)

\* A row that DeleteUpTo removes was fetched.
LEMMA VanishStep ==
    ASSUME Orderly, KeptInv, [Next]_vars
    PROVE  NothingVanishes'
<1>t. TypeOK /\ OrderInv /\ PlacedStays /\ NothingVanishes /\ FetchedIsOldest
  BY Zenon DEF KeptInv, OrderInv, PendingFirstInOrder
<1> DEFINE Kept(m) == m \in table' \/ \E k \in Conns : m \in Fetched(k)'
<1> SUFFICES ASSUME NEW m \in Msgs, st'[m] = "stored" PROVE Kept(m)
  BY Zenon DEF NothingVanishes
<1>1. CASE Create(m)
  BY <1>1, CreateAdds, Zenon
<1>2. ASSUME st[m] = "stored", m \in table, m \notin table'
      PROVE  Kept(m)
  <2>1. ASSUME NEW n \in Msgs, Create(n)
        PROVE  FALSE
    BY <1>2, <2>1, CreateAdds, Zenon
  <2>2. CASE Expire
    BY <1>2, <2>2, Zenon DEF Expire
  <2>3. ASSUME NEW k \in Conns, NEW fails \in BOOLEAN, DeleteUpTo(k, fails)
        PROVE  Kept(m)
    <3>1. stage[k] = "fetched" /\ batch' = batch /\ ~(at[m] > MaxSendAt(k))
      BY <1>2, <2>3, ZenonT(40), SMTT(30) DEF DeleteUpTo
    <3>2. at[m] \in Nat /\ MaxSendAt(k) \in Nat
      <4>1. Len(batch[k]) \in 1 .. Len(batch[k])
        BY <3>1, <1>t, Lengths DEF OrderInv, DrainInOrder
      <4>2. batch[k][Len(batch[k])] \in Msgs
        BY <4>1, <1>t, Lengths, Zenon
      <4> QED
        BY <4>2, <1>t DEF TypeOK, MaxSendAt
    <3>3. at[m] <= MaxSendAt(k)
      BY <3>1, <3>2
    <3> QED
      BY <1>2, <3>1, <3>3, <1>t, Zenon DEF FetchedIsOldest, Fetched
  <2> QED
    BY <1>2, <2>1, <2>2, <2>3, TableMoves, ZenonT(40), SMTT(30)
<1>3. ASSUME st[m] = "stored", m \notin table, m \notin table'
      PROVE  Kept(m)
  <2>1. PICK k \in Conns : m \in Fetched(k)
    BY <1>3, <1>t, Zenon DEF NothingVanishes
  <2>2. CASE m \in Fetched(k)'
    BY <2>2, Zenon
  <2>3. ASSUME SendDirect(k), m = batch[k][1]
        PROVE  FALSE
    <3>1. Head(batch[k]) = m
      BY <2>3, <1>t, Lengths, TailDrops, Zenon DEF SendDirect
    <3>2. st' = [st EXCEPT ![m] = "received"] \/ st' = [st EXCEPT ![m] = "lost"]
      BY <1>3, <2>3, <3>1, Zenon DEF SendDirect
    <3> QED
      BY <3>2, <1>t, Zenon DEF TypeOK
  <2> QED
    BY <2>1, <2>2, <2>3, <1>t, LeavesQueue, ZenonT(40), SMTT(30)
<1> HIDE DEF Kept
<1>4. m \in table' => Kept(m)
  BY Zenon DEF Kept
<1> QED
  BY <1>1, <1>2, <1>3, <1>4, <1>t, StampMoves, Zenon

\* A message whose Save reported success has a row or was fetched, provided
\* that no row is committed behind a read and that no two saves collide: then
\* DeleteUpTo removes nothing that its GetAll did not return, and no insert
\* meets a row of its own key.
THEOREM NothingVanishesThm ==
    Orderly => (Spec => []NothingVanishes)
<1> SUFFICES ASSUME Orderly PROVE Spec => []NothingVanishes
  BY Zenon
<1>1. Init => KeptInv
  <2> SUFFICES ASSUME Init PROVE NothingVanishes /\ TimesDiffer /\ FetchedIsOldest
    BY OrderInit, Zenon DEF KeptInv
  <2>1. NothingVanishes /\ FetchedIsOldest
    BY Zenon DEF Init, NothingVanishes, FetchedIsOldest
  <2>2. TimesDiffer
    BY DEF Init, TimesDiffer
  <2> QED
    BY <2>1, <2>2, Zenon
<1>2. KeptInv /\ [Next]_vars => KeptInv'
  BY OrderStep, TimesStep, OldestStep, VanishStep, Zenon DEF KeptInv
<1>3. KeptInv => NothingVanishes
  BY Zenon DEF KeptInv
<1> QED
  BY <1>1, <1>2, <1>3, PTL DEF Spec
=============================================================================
