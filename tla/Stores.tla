------------------------------- MODULE Stores -------------------------------
(***************************************************************************)
(* The repositories behind ActiveConnStore and PendingMessageRepo: the     *)
(* PostgreSQL one (core/repository/impl-postgres), where an operation is   *)
(* one statement, and the DynamoDB one (impl-dynamodb), where deletions    *)
(* query or scan page by page and then delete in batches, and where a      *)
(* filter compares encoded attribute values.                               *)
(*                                                                         *)
(* A behaviour uses one backend and one of the two tables.  It has at most *)
(* one listing or deletion (op) in progress; the writes of other           *)
(* containers go on beside it.  A record's TTL is written together with    *)
(* its LastHeartbeat, so it is not a field of its own.  A page holds one   *)
(* item.                                                                   *)
(***************************************************************************)
EXTENDS Integers, FiniteSets, FiniteSetsExt

CONSTANTS
    StoreUsers,       \* users
    StoreInstances,   \* instances of each user
    StoreHolders,     \* containers
    Stamps,           \* SendAt values of one session's pending messages
    Backends,         \* subset of {"postgres", "dynamodb"}
    HeartbeatCutoff,  \* ActiveConnection.HeartbeatCutoff
    RecordTTL,        \* 2 * GlobalHeartbeatRateDuration + 1 s
    PendingMsgTTL,    \* ActiveConnection.PendingMsgTTL
    BatchSize,        \* 25, the limit of BatchWriteItem
    Depth,            \* 2, the depth passed to RecursiveBatchWriteItem
    MaxClock          \* bound of the clock

ASSUME StoreAssumption ==
    /\ HeartbeatCutoff \in Nat \ {0} /\ RecordTTL \in Nat /\ PendingMsgTTL \in Nat
    /\ BatchSize \in Nat \ {0} /\ Depth \in Nat /\ MaxClock \in Nat
    /\ Stamps \subseteq Nat /\ Backends \subseteq {"postgres", "dynamodb"}

VARIABLES
    backend,   \* the repository this deployment was built with
    table,     \* the table this behaviour is about
    clock,
    records,   \* active_connections: key -> record
    rows,      \* pending_messages of the session: SendAt -> row
    op         \* the listing or deletion in progress, or its outcome

storeVars == <<backend, table, clock, records, rows, op>>

Keys == StoreUsers \X StoreInstances

NoHolder == ""

Record == [holder : StoreHolders \cup {NoHolder},
           status : {"connected", "tempDisconnected", "transferring"},
           connectedAt : 0..MaxClock, lastHeartbeat : 0..MaxClock]

\* settled: every replica that an eventually consistent read may ask has it.
Row == [expiresAt : 0..(MaxClock + PendingMsgTTL), settled : BOOLEAN]

NoOp == [kind |-> "none"]

StoreInit ==
    /\ backend \in Backends
    /\ table \in {"active_connections", "pending_messages"}
    /\ clock = 0
    /\ records = [k \in {} |-> {}]
    /\ rows = [s \in {} |-> {}]
    /\ op = NoOp

-----------------------------------------------------------------------------
(* Encoding and comparison of DynamoDB attribute values *)

\* UnixMilliTime: a number attribute.
MarshalDynamoDBAttributeValue(t) == [type |-> "N", value |-> t]

\* A plain time.Time, as the SDK's encoder writes it: an RFC 3339 string.
MarshalTime(t) == [type |-> "S", value |-> t]

\* A comparison of attributes of different types does not match.
AttributeGreater(a, b) == a.type = b.type /\ a.value > b.value

-----------------------------------------------------------------------------
(* Which records a read finds *)

Cutoff == clock - HeartbeatCutoff

Expired(r) == r.lastHeartbeat + RecordTTL < clock

PostgresFinds(r) == r.lastHeartbeat > Cutoff

\* A record as old as the cutoff is still found.
GetByUserAndSession(k) == k \in DOMAIN records /\ ~(records[k].lastHeartbeat < Cutoff)

\* The filter's operand is the time.Time cutoffTime itself.
HeartbeatFilter(r) ==
    AttributeGreater(MarshalDynamoDBAttributeValue(r.lastHeartbeat), MarshalTime(Cutoff))

QueryByUserID(u) == {k \in DOMAIN records : k[1] = u /\ HeartbeatFilter(records[k])}

SelectByUserIDs(us) == {k \in DOMAIN records : k[1] \in us /\ PostgresFinds(records[k])}

\* The sessions that the lookup of a single session finds.
GetInstanceConnection ==
    IF backend = "dynamodb" THEN {k \in Keys : GetByUserAndSession(k)}
                            ELSE {k \in DOMAIN records : PostgresFinds(records[k])}

-----------------------------------------------------------------------------
(* Writes of one record *)

Put(k, r) == records' = [j \in DOMAIN records \cup {k} |-> IF j = k THEN r ELSE records[j]]

\* ConnectedAt is kept when the record exists.
Claimed(k, h) ==
    [holder |-> h, status |-> "connected", lastHeartbeat |-> clock,
     connectedAt |-> IF k \in DOMAIN records THEN records[k].connectedAt ELSE clock]

\* A record written again is no longer one that a deletion in progress owes.
Excuse(k) ==
    op' = IF op.kind = "delete" THEN [op EXCEPT !.due = @ \ {k}] ELSE op

\* A listing owes only the sessions that stay active while it runs.
Unsteady(ks) ==
    IF op.kind = "list" /\ op.todo # {} THEN [op EXCEPT !.steady = @ \ ks] ELSE op

AddConnection(k, h) ==
    /\ table = "active_connections"
    /\ Put(k, Claimed(k, h))
    /\ Excuse(k)
    /\ UNCHANGED <<backend, table, clock, rows>>

Refreshed(r) == [r EXCEPT !.lastHeartbeat = clock]

UpdateHeartBeat(k) ==
    /\ k \in DOMAIN records
    /\ Put(k, Refreshed(records[k]))
    /\ Excuse(k)
    /\ UNCHANGED <<backend, table, clock, rows>>

WithStatus(r, s) == [r EXCEPT !.status = s]

UpdateStatus(k, s) ==
    /\ k \in DOMAIN records
    /\ Put(k, WithStatus(records[k], s))
    /\ UNCHANGED <<backend, table, clock, rows, op>>

Transferred(r) == [r EXCEPT !.status = "transferring", !.holder = NoHolder]

UpdateStatusTransferring(k) ==
    /\ k \in DOMAIN records
    /\ Put(k, Transferred(records[k]))
    /\ UNCHANGED <<backend, table, clock, rows, op>>

RemoveKeys(f, ks) == [j \in DOMAIN f \ ks |-> f[j]]

RemoveConnection(k) ==
    /\ k \in DOMAIN records
    /\ records' = RemoveKeys(records, {k})
    /\ op' = Unsteady({k})
    /\ UNCHANGED <<backend, table, clock, rows>>

\* DynamoDB's own TTL, which the table may have on TTLSeconds.
NativeTTLDeletes(k) ==
    /\ backend = "dynamodb"
    /\ k \in DOMAIN records /\ Expired(records[k])
    /\ records' = RemoveKeys(records, {k})
    /\ op' = Unsteady({k})
    /\ UNCHANGED <<backend, table, clock, rows>>

-----------------------------------------------------------------------------
(* Writes of one pending message; SendAt stamps are taken in increasing order *)

Create(s) ==
    /\ table = "pending_messages"
    /\ s \notin DOMAIN rows /\ \A t \in DOMAIN rows : t < s
    /\ rows' = [t \in DOMAIN rows \cup {s} |->
                  IF t = s THEN [expiresAt |-> clock + PendingMsgTTL,
                                 settled |-> backend = "postgres"]
                           ELSE rows[t]]
    /\ Excuse(s)
    /\ UNCHANGED <<backend, table, clock, records>>

Settles(s) ==
    /\ s \in DOMAIN rows /\ ~rows[s].settled
    /\ rows' = [rows EXCEPT ![s].settled = TRUE]
    /\ UNCHANGED <<backend, table, clock, records, op>>

ClockTick ==
    /\ clock < MaxClock
    /\ clock' = clock + 1
    /\ UNCHANGED <<backend, table, records, rows>>
    /\ op' = Unsteady(Keys \ GetInstanceConnection')

-----------------------------------------------------------------------------
(* Listing and counting: GetActiveConnections, GetActiveConnectionsByUserIDs, *)
(* CountActiveConnections, CountActiveConnectionsBatch, CountTotal...         *)

Idle == op.kind = "none"

BeginListing(us) ==
    /\ Idle /\ table = "active_connections"
    /\ op' = [kind |-> "list", todo |-> us, found |-> {}, failed |-> FALSE,
              steady |-> {k \in GetInstanceConnection : k[1] \in us}]
    /\ UNCHANGED <<backend, table, clock, records, rows>>

GetActiveConnections(u) == BeginListing({u})

\* A count is the number of records that a listing finds.
CountActiveConnections(u) == BeginListing({u})

CountActiveConnectionsBatch(us) == Cardinality(us) > 1 /\ BeginListing(us)

CountTotalActiveConnections == BeginListing(StoreUsers)

GetActiveConnectionsByUserIDs(us) == Cardinality(us) > 1 /\ BeginListing(us)

\* One statement for all users.
PostgresLists ==
    /\ backend = "postgres" /\ op.kind = "list" /\ op.todo # {}
    /\ op' = [op EXCEPT !.todo = {}, !.found = SelectByUserIDs(op.todo)]
    /\ UNCHANGED <<backend, table, clock, records, rows>>

\* One query per user.
DynamoListsUser(u) ==
    /\ backend = "dynamodb" /\ op.kind = "list" /\ u \in op.todo
    /\ op' = [op EXCEPT !.todo = @ \ {u}, !.found = @ \cup QueryByUserID(u)]
    /\ UNCHANGED <<backend, table, clock, records, rows>>

\* The first error ends the listing with no result.
ListingFails ==
    /\ op.kind = "list" /\ op.todo # {}
    /\ op' = [op EXCEPT !.todo = {}, !.found = {}, !.failed = TRUE]
    /\ UNCHANGED <<backend, table, clock, records, rows>>

-----------------------------------------------------------------------------
(* Deletions.  due is history: the items that were there, and visible to    *)
(* every replica, when the operation began and that nobody wrote again.     *)

ExpiredRecords == {k \in DOMAIN records : Expired(records[k])}

ExpiredRows == {s \in DOMAIN rows : rows[s].expiresAt < clock}

Matches(what, k) ==
    CASE what.name = "cleanUpConnections" -> k \in ExpiredRecords
      [] what.name = "cleanUpMessages"    -> k \in ExpiredRows
      [] what.name = "deleteUpTo"         -> k <= what.max
      [] what.name = "deleteAll"          -> TRUE

Items == IF table = "active_connections" THEN DOMAIN records ELSE DOMAIN rows

SettledItems == {k \in Items : table = "active_connections" \/ rows[k].settled}

DeleteItems(ks) ==
    /\ records' = RemoveKeys(records, ks)
    /\ rows' = RemoveKeys(rows, ks)

\* DELETE ... WHERE, one statement.
PostgresDeletes(what) ==
    /\ Idle /\ backend = "postgres"
    /\ DeleteItems({k \in Items : Matches(what, k)})
    /\ op' = [kind |-> "delete", what |-> what, phase |-> "done", ok |-> TRUE, pages |-> {},
              keys |-> {}, chunk |-> {}, tries |-> 0, left |-> {},
              due |-> {k \in Items : Matches(what, k)}]
    /\ UNCHANGED <<backend, table, clock>>

BeginDynamoDeletion(what) ==
    /\ Idle /\ backend = "dynamodb"
    /\ op' = [kind |-> "delete", what |-> what, phase |-> "read", ok |-> TRUE,
              pages |-> IF table = "active_connections" THEN Keys ELSE Stamps,
              keys |-> {}, chunk |-> {}, tries |-> 0, left |-> {},
              due |-> {k \in SettledItems : Matches(what, k)}]
    /\ UNCHANGED <<backend, table, clock, records, rows>>

Deletes(what) == PostgresDeletes(what) \/ BeginDynamoDeletion(what)

CleanUpExpiredConnections ==
    table = "active_connections" /\ Deletes([name |-> "cleanUpConnections", max |-> 0])

CleanUpExpiredPendingMessages ==
    table = "pending_messages" /\ Deletes([name |-> "cleanUpMessages", max |-> 0])

DeleteUpTo(s) ==
    /\ table = "pending_messages" /\ s \in DOMAIN rows
    /\ Deletes([name |-> "deleteUpTo", max |-> s])

DeleteAll ==
    table = "pending_messages" /\ Deletes([name |-> "deleteAll", max |-> 0])

Reading == op.kind = "delete" /\ op.phase = "read"

\* A page of the query or the scan; an item not yet settled may be missing.
ReadPage(k) ==
    /\ Reading /\ k \in op.pages
    /\ \E seen \in IF k \in Items /\ k \notin SettledItems THEN BOOLEAN ELSE {k \in Items} :
         op' = [op EXCEPT !.pages = @ \ {k},
                          !.keys = IF seen /\ Matches(op.what, k) THEN @ \cup {k} ELSE @]
    /\ UNCHANGED <<backend, table, clock, records, rows>>

ReadPageFails ==
    /\ Reading /\ op.pages # {}
    /\ op' = [op EXCEPT !.phase = "done", !.ok = FALSE]
    /\ UNCHANGED <<backend, table, clock, records, rows>>

ReadEnds ==
    /\ Reading /\ op.pages = {}
    /\ op' = [op EXCEPT !.phase = IF op.keys = {} THEN "done" ELSE "write"]
    /\ UNCHANGED <<backend, table, clock, records, rows>>

Writing == op.kind = "delete" /\ op.phase = "write"

\* lo.Chunk: the next BatchSize keys.
NextChunk ==
    /\ Writing /\ op.chunk = {} /\ op.keys # {}
    /\ \E c \in kSubset(Min({BatchSize, Cardinality(op.keys)}), op.keys) :
         op' = [op EXCEPT !.keys = @ \ c, !.chunk = c, !.tries = 0]
    /\ UNCHANGED <<backend, table, clock, records, rows>>

\* BatchWriteItem deletes some of the chunk and returns the rest.
BatchWriteItem(done) ==
    /\ Writing /\ op.chunk # {} /\ op.tries <= Depth
    /\ done \subseteq op.chunk
    /\ DeleteItems(done)
    /\ op' = [op EXCEPT !.chunk = @ \ done, !.tries = @ + 1]
    /\ UNCHANGED <<backend, table, clock>>

BatchWriteItemFails ==
    /\ Writing /\ op.chunk # {} /\ op.tries <= Depth
    /\ op' = [op EXCEPT !.left = @ \cup op.chunk, !.chunk = {}, !.ok = FALSE]
    /\ UNCHANGED <<backend, table, clock, records, rows>>

\* counter > depth: the chunk is returned as unprocessed.
ChunkGivenUp ==
    /\ Writing /\ op.chunk # {} /\ op.tries > Depth
    /\ op' = [op EXCEPT !.left = @ \cup op.chunk, !.chunk = {}]
    /\ UNCHANGED <<backend, table, clock, records, rows>>

\* A mutant: the unprocessed items are not looked at.
DeletionReturnsQuietly ==
    /\ Writing /\ op.chunk = {} /\ op.keys = {}
    /\ op' = [op EXCEPT !.phase = "done"]
    /\ UNCHANGED <<backend, table, clock, records, rows>>

\* An error, or unprocessed items, is an error of the operation.
DeletionReturns ==
    /\ Writing /\ op.chunk = {} /\ op.keys = {}
    /\ op' = [op EXCEPT !.phase = "done", !.ok = @ /\ op.left = {}]
    /\ UNCHANGED <<backend, table, clock, records, rows>>

\* The caller has its answer; another operation may begin.
OperationOver ==
    /\ \/ op.kind = "list" /\ op.todo = {}
       \/ op.kind = "delete" /\ op.phase = "done"
    /\ op' = NoOp
    /\ UNCHANGED <<backend, table, clock, records, rows>>

-----------------------------------------------------------------------------

StoreNext ==
    \/ \E k \in Keys, h \in StoreHolders : AddConnection(k, h)
    \/ \E k \in Keys : UpdateHeartBeat(k) \/ UpdateStatusTransferring(k)
                       \/ RemoveConnection(k) \/ NativeTTLDeletes(k)
    \/ \E k \in Keys : UpdateStatus(k, "tempDisconnected")
    \/ \E s \in Stamps : Create(s) \/ Settles(s)
    \/ ClockTick
    \/ \E u \in StoreUsers : \/ GetActiveConnections(u) \/ CountActiveConnections(u)
                              \/ DynamoListsUser(u)
    \/ \E us \in SUBSET StoreUsers :
          GetActiveConnectionsByUserIDs(us) \/ CountActiveConnectionsBatch(us)
    \/ CountTotalActiveConnections
    \/ PostgresLists \/ ListingFails
    \/ CleanUpExpiredConnections \/ CleanUpExpiredPendingMessages \/ DeleteAll
    \/ \E s \in Stamps : DeleteUpTo(s)
    \/ \E k \in (IF Reading THEN op.pages ELSE {}) : ReadPage(k)
    \/ ReadPageFails \/ ReadEnds
    \/ NextChunk
    \/ \E done \in SUBSET (IF Writing THEN op.chunk ELSE {}) : BatchWriteItem(done)
    \/ BatchWriteItemFails \/ ChunkGivenUp \/ DeletionReturns
    \/ OperationOver

StoreSpec == StoreInit /\ [][StoreNext]_storeVars

-----------------------------------------------------------------------------

StoreTypeOK ==
    /\ backend \in Backends /\ clock \in 0..MaxClock
    /\ DOMAIN records \subseteq Keys /\ DOMAIN rows \subseteq Stamps
    /\ \A k \in DOMAIN records : /\ records[k] \in Record
                                 /\ records[k].connectedAt <= records[k].lastHeartbeat
    /\ \A s \in DOMAIN rows : rows[s] \in Row

\* A deletion that returns no error has left nothing behind: whatever was to
\* be deleted when it began, and nobody wrote again, is gone, over all its
\* pages, batches and retries (RecursiveBatchWriteItem and its callers).
QuietReturnMeansGone ==
    /\ StoreTypeOK
    /\ op.kind = "delete" /\ op.phase = "done" /\ op.ok => op.due \cap Items = {}

\* QueryByUserID "returns all active connections for a user": a listing that
\* ends without an error has found every session that the lookup of that one
\* session found all the time the listing ran.
ListsEverySteadySession ==
    op.kind = "list" /\ op.todo = {} /\ ~op.failed => op.steady \subseteq op.found
=============================================================================
