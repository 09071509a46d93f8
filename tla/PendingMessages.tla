---------------------------- MODULE PendingMessages ----------------------------
(***************************************************************************)
(* The messages sent to one session while it disconnects and reconnects.   *)
(*                                                                         *)
(* A sender that finds the connection calls Send on it, which waits while  *)
(* the connection drains; a sender that finds the session away calls       *)
(* msgHub.Save, which takes the wall clock and then inserts a row keyed by *)
(* that time.  The reconnecting connection blocks Send, reads all rows,    *)
(* deletes up to the last one it read, writes them out and unblocks.       *)
(*                                                                         *)
(* How records, timers and containers race is the subject of Session; here *)
(* the record, the hub entry and the ConnectionManager are what senders    *)
(* find of the session, each written by its own step of onNew, onClose and *)
(* the shutdown.                                                           *)
(*                                                                         *)
(* Faults switches on what the deployment may or may not exclude:          *)
(*   lateCommit  a row is inserted after a read that its time precedes;    *)
(*   collision   two saves for the session take the same nanosecond;       *)
(*   overlap     the client reconnects before onNew and onClose of its     *)
(*               previous connection have ended.                           *)
(***************************************************************************)
EXTENDS Naturals, Sequences, FiniteSets, Functions

CONSTANTS Msgs, Conns, NoConn, MaxTime, MaxRetry, Faults

ASSUME PendingAssumption ==
    /\ NoConn \notin Conns
    /\ MaxTime \in Nat \ {0}
    /\ MaxRetry \in Nat \ {0}
    /\ Faults \subseteq {"lateCommit", "collision", "overlap"}

VARIABLES
    st,         \* st[m]: where the message is
    at,         \* at[m]: its send_at, once stamped
    tries,      \* tries[m]: retryNumber of saveMessageHub
    via,        \* via[m]: the connection Send was called on
    table,      \* messages with a row in pending_messages
    now,        \* the wall clock
    record,     \* Status of the ActiveConnection record
    registered, \* the holder's msgHub has an entry for the session
    cm,         \* the ConnectionManager's entry for the session
    stage,      \* stage[k]: progress of onNew on connection k
    life,       \* life[k]: the transport of k and the progress of its onClose
    batch,      \* batch[k]: fetched messages that onNew has yet to write
    received,   \* received[k]: what the client read on k
    reread      \* history: rows stayed after, or were read during, a Consume

sending == <<st, at, tries, via>>
session == <<record, registered, cm>>
conns == <<stage, life, batch, received>>
vars == <<sending, table, now, session, conns, reread>>

Init ==
    /\ st = [m \in Msgs |-> "new"]
    /\ at = [m \in Msgs |-> 0]
    /\ tries = [m \in Msgs |-> 0]
    /\ via = [m \in Msgs |-> NoConn]
    /\ table = {}
    /\ now = 1
    /\ record = "none"
    /\ registered = FALSE
    /\ cm = NoConn
    /\ stage = [k \in Conns |-> "none"]
    /\ life = [k \in Conns |-> "none"]
    /\ batch = [k \in Conns |-> <<>>]
    /\ received = [k \in Conns |-> <<>>]
    /\ reread = FALSE

Draining == {k \in Conns : stage[k] \in {"added", "fetched", "writing"}}
Writable(k) == life[k] \in {"open", "handed"}
Listings(S) == Bijection(1 .. Cardinality(S), S)
Fetched(k) == {batch[k][i] : i \in 1 .. Len(batch[k])}
MaxSendAt(k) == at[batch[k][Len(batch[k])]]
Pending(m) == [msg |-> m, drained |-> TRUE]
Live(m) == [msg |-> m, drained |-> FALSE]
-----------------------------------------------------------------------------
(* Senders *)

\* SendToSession, locally or through the holder's handler.  A session without
\* a holder, or with a hub entry, is saved for; one that is in neither place is
\* dropped, and so is a message whose publish is lost.
SendToSession(m) ==
    /\ st[m] = "new"
    /\ \/ /\ cm # NoConn
          /\ st' = [st EXCEPT ![m] = "sending"]
          /\ via' = [via EXCEPT ![m] = cm]
       \/ /\ record = "Transferring" \/ (cm = NoConn /\ registered)
          /\ st' = [st EXCEPT ![m] = "saving"]
          /\ UNCHANGED via
       \/ /\ st' = [st EXCEPT ![m] = "dropped"]
          /\ UNCHANGED via
    /\ UNCHANGED <<at, tries, table, now, session, conns, reread>>

\* Mutant: Send without drainMu.RLock.
SendUnlocked(m) ==
    /\ st[m] = "sending"
    /\ IF Writable(via[m])
       THEN /\ received' = [received EXCEPT ![via[m]] = Append(@, Live(m))]
            /\ st' = [st EXCEPT ![m] = "received"]
       ELSE /\ st' = [st EXCEPT ![m] = "failed"]
            /\ UNCHANGED received
    /\ UNCHANGED <<at, tries, via, table, now, session, stage, life, batch, reread>>

\* conn.Send, once drainMu is free for readers.
Send(m) ==
    /\ st[m] = "sending"
    /\ via[m] \notin Draining
    /\ IF Writable(via[m])
       THEN /\ received' = [received EXCEPT ![via[m]] = Append(@, Live(m))]
            /\ st' = [st EXCEPT ![m] = "received"]
       ELSE /\ st' = [st EXCEPT ![m] = "failed"]
            /\ UNCHANGED received
    /\ UNCHANGED <<at, tries, via, table, now, session, stage, life, batch, reread>>

\* saveMessageHub after a failed Send: while the record says Connected it
\* retries with a delay, maxRetryNumber times.  Without a record, or when the
\* pool refuses the task or the read fails, the message is dropped.
SaveMessageHub(m) ==
    /\ st[m] = "failed"
    /\ \/ /\ record = "Connected"
          /\ tries' = [tries EXCEPT ![m] = @ + 1]
          /\ st' = IF tries[m] + 1 = MaxRetry THEN [st EXCEPT ![m] = "dropped"] ELSE st
       \/ /\ record \in {"TempDisconnected", "Transferring"}
          /\ st' = [st EXCEPT ![m] = "saving"]
          /\ UNCHANGED tries
       \/ /\ st' = [st EXCEPT ![m] = "dropped"]
          /\ UNCHANGED tries
    /\ UNCHANGED <<at, via, table, now, session, conns, reread>>

\* msgHub.Save, time.Now: the row is inserted by a later step.
Save(m) ==
    /\ st[m] = "saving"
    /\ "collision" \in Faults \/ \A n \in Msgs : at[n] # now
    /\ st' = [st EXCEPT ![m] = "stamped"]
    /\ at' = [at EXCEPT ![m] = now]
    /\ UNCHANGED <<tries, via, table, now, session, conns, reread>>

\* repo.Create.  The key is the send time: Postgres keeps the first row of a
\* key, DynamoDB the last, and neither reports it.
Create(m) ==
    /\ st[m] = "stamped"
    /\ st' = [st EXCEPT ![m] = "stored"]
    /\ LET clash == {n \in table : at[n] = at[m]}
       IN table' \in IF clash = {} THEN {table \cup {m}}
                     ELSE {table, (table \ clash) \cup {m}}
    /\ UNCHANGED <<at, tries, via, now, session, conns, reread>>

CreateFails(m) ==
    /\ st[m] = "stamped"
    /\ st' = [st EXCEPT ![m] = "dropped"]
    /\ UNCHANGED <<at, tries, via, table, now, session, conns, reread>>
-----------------------------------------------------------------------------
(* onNew of a connection *)

\* ResumeSession and the upsert of the record.
Claim(k) ==
    /\ stage[k] = "none"
    /\ \/ "overlap" \in Faults
       \/ \A j \in Conns : stage[j] = "none" \/ (stage[j] = "live" /\ life[j] = "gone")
    /\ stage' = [stage EXCEPT ![k] = "claimed"]
    /\ life' = [life EXCEPT ![k] = "open"]
    /\ record' = "Connected"
    /\ registered' = FALSE
    /\ UNCHANGED <<sending, table, now, cm, batch, received, reread>>

\* BeginDrain, whose lock only Send on k contends for, and AddConnection.
AddConnection(k) ==
    /\ stage[k] = "claimed"
    /\ stage' = [stage EXCEPT ![k] = "added"]
    /\ cm' = k
    /\ UNCHANGED <<sending, table, now, record, registered, life, batch, received, reread>>

\* Consume, repo.GetAll in order of send_at; an error or no row ends Consume.
GetAll(k, fails) ==
    /\ stage[k] = "added"
    /\ "lateCommit" \in Faults \/ \A m \in Msgs : st[m] # "stamped"
    /\ \E rows \in Listings(IF fails THEN {} ELSE table) :
          /\ \A i, j \in 1 .. Len(rows) : i < j => at[rows[i]] <= at[rows[j]]
          /\ batch' = [batch EXCEPT ![k] = rows]
          /\ stage' = [stage EXCEPT ![k] = IF rows = <<>> THEN "writing" ELSE "fetched"]
    /\ reread' = (reread \/ \E j \in Conns : stage[j] = "fetched")
    /\ UNCHANGED <<sending, table, now, session, life, received>>

\* Mutant: DeleteAll, as Consume used to do.
DeleteAllRows(k, fails) ==
    /\ stage[k] = "fetched"
    /\ stage' = [stage EXCEPT ![k] = "writing"]
    /\ table' = IF fails THEN table ELSE {}
    /\ reread' = (reread \/ fails)
    /\ UNCHANGED <<sending, now, session, life, batch, received>>

\* Mutant: send_at < maxSendAt.
DeleteBelow(k, fails) ==
    /\ stage[k] = "fetched"
    /\ stage' = [stage EXCEPT ![k] = "writing"]
    /\ table' = IF fails THEN table ELSE {m \in table : at[m] >= MaxSendAt(k)}
    /\ reread' = (reread \/ fails)
    /\ UNCHANGED <<sending, now, session, life, batch, received>>

\* Consume, repo.DeleteUpTo(maxSendAt); an error is logged.
DeleteUpTo(k, fails) ==
    /\ stage[k] = "fetched"
    /\ stage' = [stage EXCEPT ![k] = "writing"]
    /\ table' = IF fails THEN table ELSE {m \in table : at[m] > MaxSendAt(k)}
    /\ reread' = (reread \/ fails)
    /\ UNCHANGED <<sending, now, session, life, batch, received>>

\* SendDirect of the next fetched message; an error is logged, the loop goes
\* on, and the message is lost unless its row is still there.
SendDirect(k) ==
    /\ stage[k] = "writing"
    /\ batch[k] # <<>>
    /\ LET m == Head(batch[k])
       IN IF Writable(k)
          THEN /\ received' = [received EXCEPT ![k] = Append(@, Pending(m))]
               /\ st' = [st EXCEPT ![m] = "received"]
          ELSE /\ st' = IF st[m] = "stored" /\ m \notin table THEN [st EXCEPT ![m] = "lost"] ELSE st
               /\ UNCHANGED received
    /\ batch' = [batch EXCEPT ![k] = Tail(@)]
    /\ UNCHANGED <<at, tries, via, table, now, session, stage, life, reread>>

EndDrain(k) ==
    /\ stage[k] = "writing"
    /\ batch[k] = <<>>
    /\ stage' = [stage EXCEPT ![k] = "live"]
    /\ UNCHANGED <<sending, table, now, session, life, batch, received, reread>>

-----------------------------------------------------------------------------
(* The end of a connection *)

\* Shutdown, UpdateStatusTransferring: the record loses its holder while the
\* connection still works.
UpdateStatusTransferring(k) ==
    /\ cm = k
    /\ life[k] = "open"
    /\ life' = [life EXCEPT ![k] = "handed"]
    /\ record' = "Transferring"
    /\ UNCHANGED <<sending, table, now, registered, cm, stage, batch, received, reread>>

\* The transport closes; writes fail from here on.
Close(k) ==
    /\ cm = k
    /\ life[k] = "open"
    /\ life' = [life EXCEPT ![k] = "closed"]
    /\ UNCHANGED <<sending, table, now, session, stage, batch, received, reread>>

\* onClose, RemoveConnection by auth.  A connection that was handed over is
\* closed by the shutdown and its onClose stops here.
RemoveConnection(k) ==
    /\ life[k] \in {"closed", "handed"}
    /\ life' = [life EXCEPT ![k] = IF life[k] = "handed" THEN "gone" ELSE "removed"]
    /\ cm' = NoConn
    /\ UNCHANGED <<sending, table, now, record, registered, stage, batch, received, reread>>

\* onClose, UpdateStatus(TempDisconnected).
UpdateStatus(k) ==
    /\ life[k] = "removed"
    /\ life' = [life EXCEPT ![k] = "updated"]
    /\ record' = "TempDisconnected"
    /\ UNCHANGED <<sending, table, now, registered, cm, stage, batch, received, reread>>

\* onClose, msgHub.Register.
Register(k) ==
    /\ life[k] = "updated"
    /\ life' = [life EXCEPT ![k] = "gone"]
    /\ registered' = TRUE
    /\ UNCHANGED <<sending, table, now, record, cm, stage, batch, received, reread>>
-----------------------------------------------------------------------------
(* The session's timer and the clock *)

\* onExpired: the record goes and DeleteAllPendingMessage clears the rows.
Expire ==
    /\ registered
    /\ registered' = FALSE
    /\ record' = "none"
    /\ table' = {}
    /\ st' = [m \in Msgs |-> IF m \in table /\ st[m] = "stored" THEN "expired" ELSE st[m]]
    /\ UNCHANGED <<at, tries, via, now, cm, conns, reread>>

\* Only the order of stamps matters: a time nobody took need not pass.
Tick ==
    /\ now < MaxTime
    /\ \E m \in Msgs : at[m] = now
    /\ now' = now + 1
    /\ UNCHANGED <<sending, table, session, conns, reread>>
-----------------------------------------------------------------------------
Sender(m) ==
    \/ SendToSession(m)
    \/ Send(m)
    \/ SaveMessageHub(m)
    \/ Save(m)
    \/ Create(m)
    \/ CreateFails(m)

OnNew(k) ==
    \/ Claim(k)
    \/ AddConnection(k)
    \/ \E fails \in BOOLEAN : GetAll(k, fails) \/ DeleteUpTo(k, fails)
    \/ SendDirect(k)
    \/ EndDrain(k)

OnClose(k) ==
    \/ UpdateStatusTransferring(k)
    \/ Close(k)
    \/ RemoveConnection(k)
    \/ UpdateStatus(k)
    \/ Register(k)

Next ==
    \/ \E m \in Msgs : Sender(m)
    \/ \E k \in Conns : OnNew(k) \/ OnClose(k)
    \/ Expire
    \/ Tick

Spec == Init /\ [][Next]_vars
-----------------------------------------------------------------------------
(* Properties *)

TypeOK ==
    /\ st \in [Msgs -> {"new", "sending", "failed", "saving", "stamped", "stored",
                        "received", "dropped", "expired", "lost"}]
    /\ at \in [Msgs -> 0 .. MaxTime]
    /\ tries \in [Msgs -> 0 .. MaxRetry]
    /\ via \in [Msgs -> Conns \cup {NoConn}]
    /\ table \subseteq Msgs
    /\ now \in 1 .. MaxTime
    /\ record \in {"none", "Connected", "TempDisconnected", "Transferring"}
    /\ registered \in BOOLEAN
    /\ cm \in Conns \cup {NoConn}
    /\ stage \in [Conns -> {"none", "claimed", "added", "fetched", "writing", "live"}]
    /\ life \in [Conns -> {"none", "open", "handed", "closed", "removed", "updated", "gone"}]
    /\ batch \in [Conns -> Seq(Msgs)]
    /\ received \in [Conns -> Seq([msg : Msgs, drained : BOOLEAN])]
    /\ reread \in BOOLEAN

\* A message whose Save reported success does not vanish: it has a row, or a
\* reconnecting connection has fetched it.  (A message received, expired with
\* the session or lost to a logged write error has left this state.)
NothingVanishes ==
    \A m \in Msgs :
        st[m] = "stored" => m \in table \/ \E k \in Conns : m \in Fetched(k)

\* A message that was saved is not lost on reconnect: Consume prefers to
\* deliver a message twice.
ConsumeLosesNothing ==
    \A m \in Msgs : st[m] # "lost"

\* On every connection the client reads the buffered messages before any
\* message that Send delivers, and the buffered ones in the order of their send times,
\* however senders and the drain interleave.
PendingFirstInOrder ==
    /\ TypeOK
    /\ \A k \in Conns : \A j \in 1 .. Len(received[k]) : \A i \in 1 .. j - 1 :
          received[k][j].drained =>
              /\ received[k][i].drained
              /\ at[received[k][i].msg] <= at[received[k][j].msg]

\* A client reads a message twice only if a DeleteUpTo had failed, or if a
\* second connection read the rows between the first one's GetAll and
\* DeleteUpTo.
DuplicateOnlyIfReread ==
    \A k, l \in Conns : \A i \in 1 .. Len(received[k]), j \in 1 .. Len(received[l]) :
        received[k][i].msg = received[l][j].msg /\ <<k, i>> # <<l, j>> => reread
=============================================================================
