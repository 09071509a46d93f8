------------------------------- MODULE Routing -------------------------------
(***************************************************************************)
(* One send to many: SendToUser, SendToUsers, SendToAnonymous,             *)
(* SendToAuthenticated, SendToAll or DisconnectUser, from the lookup of    *)
(* the recipients to the handlers on every container, while sessions come, *)
(* go and move.  SendToSession is in PendingMessages, the sends with an    *)
(* acknowledgement are in AckManager.                                      *)
(*                                                                         *)
(* A session comes and goes in the steps in which senders may find it; the *)
(* races of two connections of one session are in Session.                 *)
(***************************************************************************)
EXTENDS Naturals, FiniteSets

CONSTANTS
    Nodes, NoNode,  \* containers, and the HolderID of a session being transferred
    Origin,         \* the container where the send is called
    UserSessions,   \* sessions of the user that is sent to
    Strangers,      \* sessions of another user
    Anonymous       \* anonymous sessions

ASSUME RoutingAssumption == NoNode \notin Nodes /\ Origin \in Nodes

Authenticated == UserSessions \cup Strangers
AllSessions == Authenticated \cup Anonymous

VARIABLES
    actConn,        \* actConn[s]: ActiveConnection: status and holder
    manager,        \* manager[n]: sessions in the ConnectionManager
    hub,            \* hub[n]: sessions registered with the MessageHub
    move,           \* move[s]: progress of the onNew or onClose of the session
    send,           \* the send: progress, kind, payload, targets left
    signal,         \* signal[n]: "no", "queued", "lost": the pubsub message to n
    hand,           \* hand[n]: the handler on n, with the connections and the
                    \* temp-disconnected sessions it has read
    copies,         \* copies[s]: deliveries to the session, live or buffered
    stayed          \* sessions that have not moved since the send began

places == <<actConn, manager, hub, move>>
routeVars == <<places, send, signal, hand, copies, stayed>>

Absent == [status |-> "none", holder |-> NoNode]
NoSend == [pc |-> "none", kind |-> "user", nil |-> FALSE, targets |-> {}]
NoHand == [pc |-> "idle", conns |-> {}, temps |-> {}]

RouteInit ==
    /\ actConn = [s \in AllSessions |-> Absent]
    /\ manager = [n \in Nodes |-> {}]
    /\ hub = [n \in Nodes |-> {}]
    /\ move = [s \in AllSessions |-> "settled"]
    /\ send = NoSend
    /\ signal = [n \in Nodes |-> "no"]
    /\ hand = [n \in Nodes |-> NoHand]
    /\ copies = [s \in AllSessions |-> 0]
    /\ stayed = {}
-----------------------------------------------------------------------------
(* Sessions come and go *)

Without(f, s) == [n \in Nodes |-> f[n] \ {s}]

\* Sessions move until the send is over.
NothingRuns == \A n \in Nodes : signal[n] # "queued" /\ hand[n] = NoHand

Moves(s) ==
    /\ ~(send.pc \in {"done", "failed", "panic"} /\ NothingRuns)
    /\ stayed' = stayed \ {s}

\* onNew: the record is claimed, and a hub entry here or elsewhere is cancelled.
ClaimRecord(s, n) ==
    /\ move[s] = "settled" /\ \A m \in Nodes : s \notin manager[m]
    /\ actConn' = [actConn EXCEPT ![s] = [status |-> "connected", holder |-> n]]
    /\ hub' = Without(hub, s)
    /\ move' = [move EXCEPT ![s] = "opening"]
    /\ Moves(s)
    /\ UNCHANGED <<manager, send, signal, hand, copies>>

AddToManager(s) ==
    LET n == actConn[s].holder IN
    /\ move[s] = "opening"
    /\ manager' = [manager EXCEPT ![n] = @ \cup {s}]
    /\ move' = [move EXCEPT ![s] = "settled"]
    /\ UNCHANGED <<actConn, hub, send, signal, hand, copies, stayed>>

\* onClose: the manager first, then the record, then the hub.
DropConnection(s) ==
    /\ move[s] = "settled" /\ \E n \in Nodes : s \in manager[n]
    /\ manager' = Without(manager, s)
    /\ move' = [move EXCEPT ![s] = "closing"]
    /\ Moves(s)
    /\ UNCHANGED <<actConn, hub, send, signal, hand, copies>>

MarkTempDisconnected(s) ==
    /\ move[s] = "closing" /\ s \in Authenticated
    /\ actConn' = [actConn EXCEPT ![s].status = "temp"]
    /\ move' = [move EXCEPT ![s] = "closed"]
    /\ UNCHANGED <<manager, hub, send, signal, hand, copies, stayed>>

RegisterInHub(s) ==
    /\ move[s] = "closed"
    /\ hub' = [hub EXCEPT ![actConn[s].holder] = @ \cup {s}]
    /\ move' = [move EXCEPT ![s] = "settled"]
    /\ UNCHANGED <<actConn, manager, send, signal, hand, copies, stayed>>

\* An anonymous session is not remembered.
ForgetAnonymous(s) ==
    /\ move[s] = "closing" /\ s \in Anonymous
    /\ actConn' = [actConn EXCEPT ![s] = Absent]
    /\ move' = [move EXCEPT ![s] = "settled"]
    /\ UNCHANGED <<manager, hub, send, signal, hand, copies, stayed>>

\* The expiry of a remembered session.
ForgetSession(s) ==
    /\ move[s] = "settled" /\ actConn[s].status = "temp"
    /\ actConn' = [actConn EXCEPT ![s] = Absent]
    /\ hub' = Without(hub, s)
    /\ Moves(s)
    /\ UNCHANGED <<manager, move, send, signal, hand, copies>>

\* The shutdown of the session's container: the record has no holder.
TransferSession(s) ==
    /\ move[s] = "settled" /\ s \in Authenticated
    /\ \E n \in Nodes : s \in manager[n]
    /\ actConn' = [actConn EXCEPT ![s] = [status |-> "transferring", holder |-> NoNode]]
    /\ manager' = Without(manager, s)
    /\ Moves(s)
    /\ UNCHANGED <<hub, move, send, signal, hand, copies>>
-----------------------------------------------------------------------------
(* Finding the recipients *)

\* Messages to the containers that hold a session; the others go to every container.
ToHolders == {"user", "users", "disconnectUser"}

\* A publish needs a payload that is not nil: Marshal refuses it and lo.Must
\* panics.
BeginSend(kind, nil) ==
    /\ send.pc = "none"
    /\ send' = [NoSend EXCEPT !.pc = IF kind \in ToHolders THEN "find"
                                     ELSE IF nil THEN "panic" ELSE "publishAll",
                              !.kind = kind, !.nil = nil]
    /\ stayed' = {s \in AllSessions : move[s] = "settled"}
    /\ UNCHANGED <<places, signal, hand, copies>>

\* The calls of the mediator service.
CallSendToUser(nil) == BeginSend("user", nil)
CallSendToUsers(nil) == BeginSend("users", nil)
CallDisconnectUser == BeginSend("disconnectUser", FALSE)
CallSendToAnonymous(nil) == \E kind \in {"anonymous", "someAnonymous"} : BeginSend(kind, nil)
CallSendToAuthenticated(nil) == BeginSend("authenticated", nil)
CallSendToAll(nil) == BeginSend("all", nil)

Holders == {actConn[s].holder : s \in {t \in UserSessions : actConn[t].status # "none"}}

\* GetActiveConnections; an error that is not RecordNotFound ends the send.
FindRecords ==
    /\ send.pc = "find"
    /\ \/ send' = [send EXCEPT !.pc = "local", !.targets = Holders]
       \/ send' = [send EXCEPT !.pc = "failed"]
    /\ UNCHANGED <<places, signal, hand, copies, stayed>>

\* A mutant: findUserConn looks at the connections in memory only.
ActsHereInMemory(kind, n, holders) == manager[n] \cap UserSessions # {}

\* findUserConn also acts here when a record names this container;
\* findMultiUserConn only when a connection is in memory.
ActsHere(kind, n, holders) ==
    \/ manager[n] \cap UserSessions # {}
    \/ kind # "users" /\ n \in holders

AskMemory ==
    /\ send.pc = "local"
    /\ IF ActsHere(send.kind, Origin, send.targets)
       THEN /\ send' = [send EXCEPT !.pc = "acting", !.targets = @ \ {Origin, NoNode}]
            /\ hand' = [hand EXCEPT ![Origin].pc = "begun"]
       ELSE /\ send' = [send EXCEPT !.pc = "publish", !.targets = @ \ {Origin, NoNode}]
            /\ UNCHANGED hand
    /\ UNCHANGED <<places, signal, copies, stayed>>

\* The local action is a call.
LocalActionDone ==
    /\ send.pc = "acting" /\ hand[Origin].pc = "idle"
    /\ send' = [send EXCEPT !.pc = "publish"]
    /\ UNCHANGED <<places, signal, hand, copies, stayed>>

\* One Publish per container; the first that fails ends the loop.
PublishTo(n) ==
    /\ send.pc = "publish" /\ n \in send.targets
    /\ \/ /\ ~send.nil
          /\ send' = [send EXCEPT !.targets = @ \ {n}]
          /\ \E fate \in {"queued", "lost"} : signal' = [signal EXCEPT ![n] = fate]
       \/ /\ send' = [send EXCEPT !.pc = IF send.nil THEN "panic" ELSE "failed"]
          /\ UNCHANGED signal
    /\ UNCHANGED <<places, hand, copies, stayed>>

PublishDone ==
    /\ send.pc = "publish" /\ send.targets = {}
    /\ send' = [send EXCEPT !.pc = "done"]
    /\ UNCHANGED <<places, signal, hand, copies, stayed>>

\* One Publish on the channel that every container has subscribed, this one
\* included; each subscription may lose it.
PublishToAll ==
    /\ send.pc = "publishAll"
    /\ \/ /\ send' = [send EXCEPT !.pc = "done"]
          /\ signal' \in [Nodes -> {"queued", "lost"}]
       \/ /\ send' = [send EXCEPT !.pc = "failed"]
          /\ UNCHANGED signal
    /\ UNCHANGED <<places, hand, copies, stayed>>
-----------------------------------------------------------------------------
(* Handlers *)

\* handleMsg and handleBroadcastMsg: the dispatch on the message's type.
Dispatch(n) ==
    /\ signal[n] = "queued" /\ hand[n].pc = "idle"
    /\ signal' = [signal EXCEPT ![n] = "no"]
    /\ hand' = [hand EXCEPT ![n].pc = "begun"]
    /\ UNCHANGED <<places, send, copies, stayed>>

\* A handler of this kind reads the connections of who from the ConnectionManager.
Reads(n, kinds, who) ==
    /\ hand[n].pc = "begun" /\ send.kind \in kinds
    /\ hand' = [hand EXCEPT ![n].conns = manager[n] \cap who,
                            ![n].pc = IF send.kind = "user" THEN "listing" ELSE "read"]
    /\ UNCHANGED <<places, send, signal, copies, stayed>>

SendToUser(n) == Reads(n, {"user"}, UserSessions)

\* Only SendToUser also asks the MessageHub, after the ConnectionManager.
GetSessions(n) ==
    /\ hand[n].pc = "listing"
    /\ hand' = [hand EXCEPT ![n].temps = hub[n] \cap UserSessions, ![n].pc = "read"]
    /\ UNCHANGED <<places, send, signal, copies, stayed>>

SendToUsers(n) == Reads(n, {"users"}, UserSessions)

\* All anonymous connections, or those of the instances that are named.
SendToAnonymous(n) == Reads(n, {"anonymous", "someAnonymous"}, Anonymous)

SendToAuthenticated(n) == Reads(n, {"authenticated"}, Authenticated)

SendToAll(n) == Reads(n, {"all"}, AllSessions)

DisconnectUser(n) == Reads(n, {"disconnectUser"}, UserSessions)

\* Each connection is sent to; one closed since it was read gets nothing (its
\* message goes the way of PendingMessages).  What is in temps is saved.
HandleSend(n) ==
    /\ hand[n].pc = "read" /\ send.kind # "disconnectUser"
    /\ LET live == hand[n].conns \cap manager[n] IN
       copies' = [s \in AllSessions |-> copies[s] + (IF s \in live THEN 1 ELSE 0)
                                                  + (IF s \in hand[n].temps THEN 1 ELSE 0)]
    /\ hand' = [hand EXCEPT ![n] = NoHand]
    /\ UNCHANGED <<places, send, signal, stayed>>

\* The connections close; their onClose runs in the removal.
HandleDisconnect(n) ==
    /\ hand[n].pc = "read" /\ send.kind = "disconnectUser"
    /\ LET live == hand[n].conns \cap manager[n] IN
       /\ manager' = [manager EXCEPT ![n] = @ \ live]
       /\ move' = [s \in AllSessions |-> IF s \in live THEN "closing" ELSE move[s]]
    /\ hand' = [hand EXCEPT ![n] = NoHand]
    /\ UNCHANGED <<actConn, hub, send, signal, copies, stayed>>

RouteNext ==
    \/ \E s \in AllSessions :
          \/ \E n \in Nodes : ClaimRecord(s, n)
          \/ AddToManager(s)
          \/ DropConnection(s)
          \/ MarkTempDisconnected(s)
          \/ RegisterInHub(s)
          \/ ForgetAnonymous(s)
          \/ ForgetSession(s)
          \/ TransferSession(s)
    \/ CallDisconnectUser
    \/ \E nil \in BOOLEAN :
          \/ CallSendToUser(nil) \/ CallSendToUsers(nil) \/ CallSendToAnonymous(nil)
          \/ CallSendToAuthenticated(nil) \/ CallSendToAll(nil)
    \/ FindRecords
    \/ AskMemory
    \/ LocalActionDone
    \/ PublishDone
    \/ PublishToAll
    \/ \E n \in Nodes :
          \/ PublishTo(n)
          \/ Dispatch(n)
          \/ SendToUser(n) \/ GetSessions(n)
          \/ SendToUsers(n)
          \/ SendToAnonymous(n)
          \/ SendToAuthenticated(n)
          \/ SendToAll(n)
          \/ DisconnectUser(n)
          \/ HandleSend(n)
          \/ HandleDisconnect(n)
-----------------------------------------------------------------------------
(* Properties *)

\* The type invariant of a send to many.
RouteTypeOK ==
    /\ \A s \in AllSessions : actConn[s].holder \in Nodes \cup {NoNode}
    /\ manager \in [Nodes -> SUBSET AllSessions]
    /\ hub \in [Nodes -> SUBSET Authenticated]
    /\ move \in [AllSessions -> {"settled", "opening", "closing", "closed"}]
    /\ send.targets \subseteq Nodes \cup {NoNode}
    /\ signal \in [Nodes -> {"no", "queued", "lost"}]
    /\ \A n \in Nodes : hand[n].conns \subseteq AllSessions
    /\ stayed \subseteq AllSessions

\* The sessions a message is for.
Addressees(kind) ==
    CASE kind \in ToHolders -> UserSessions
      [] kind \in {"anonymous", "someAnonymous"} -> Anonymous
      [] kind = "authenticated" -> Authenticated
      [] kind = "all" -> AllSessions

Connected(s) == \E n \in Nodes : s \in manager[n]

RememberedSomewhere(s) == \E n \in Nodes : s \in hub[n]

\* What a session that did not move should get.
Expected(s) ==
    IF /\ s \in Addressees(send.kind)
       /\ send.kind # "disconnectUser"
       /\ Connected(s) \/ (send.kind = "user" /\ RememberedSomewhere(s))
    THEN 1 ELSE 0

SendIsOver ==
    /\ send.pc = "done"
    /\ NothingRuns /\ \A n \in Nodes : signal[n] = "no"

\* A session that does not move while a message is sent gets it exactly once if
\* the message is for it, whatever other sessions do, and else never: the local
\* call, the signals to the holders and the broadcast do not overlap and leave
\* no container out.  A remembered session counts for SendToUser, which buffers
\* for it, and not for the others.  DisconnectUser leaves none connected.
StayingSessionGetsItsCopy ==
    /\ RouteTypeOK
    /\ \A s \in stayed :
          /\ copies[s] <= Expected(s)
          /\ SendIsOver =>
                /\ copies[s] = Expected(s)
                /\ send.kind = "disconnectUser" /\ s \in UserSessions => ~Connected(s)
=============================================================================
