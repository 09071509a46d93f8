--------------------------- MODULE Routing_proofs ---------------------------
(***************************************************************************)
(* Proofs about the two places where sessions are looked up.  First, that  *)
(* a message reaches the sessions it is for, each once, for any containers *)
(* and sessions (Routing); then, that a deletion deletes what it owes and  *)
(* a PostgreSQL listing finds who stays (Stores, second half).             *)
(*                                                                         *)
(* A session that stayed is in one container, the one its record names     *)
(* (AllInPlace).  A container is told of the send once and works on it     *)
(* once (Turns), and has read every session that stayed there when it acts *)
(* (HandsRead).  So a session has its copy or its container is still busy, *)
(* and never both (Counted).                                               *)
(***************************************************************************)
EXTENDS Routing, Stores, TLAPS

\* A leaf that names no prover is tried with these, in this order.
USE SMTT(20), ZenonT(30), Z3T(30)

\* The sends, and the stages of one.
Kinds == ToHolders \cup {"anonymous", "someAnonymous", "authenticated", "all"}
SendPcs == {"none", "find", "local", "acting", "publish", "publishAll", "done", "failed", "panic"}

\* What a record, a send and a container's handler hold.
RecordT == [status : {"none", "connected", "temp", "transferring"}, holder : Nodes \cup {NoNode}]
SendT == [pc : SendPcs, kind : Kinds, nil : BOOLEAN, targets : SUBSET (Nodes \cup {NoNode})]
HandT == [pc : {"idle", "begun", "listing", "read"}, conns : SUBSET AllSessions,
          temps : SUBSET UserSessions]

\* The types.
RouteTypes ==
    /\ actConn \in [AllSessions -> RecordT]
    /\ manager \in [Nodes -> SUBSET AllSessions]
    /\ hub \in [Nodes -> SUBSET Authenticated]
    /\ move \in [AllSessions -> {"settled", "opening", "closing", "closed"}]
    /\ send \in SendT
    /\ signal \in [Nodes -> {"no", "queued", "lost"}]
    /\ hand \in [Nodes -> HandT]
    /\ copies \in [AllSessions -> Nat]
    /\ stayed \subseteq AllSessions

\* A connection or a hub entry is where the session's record says.
InPlace(s) ==
    /\ \A n \in Nodes : s \in manager[n] =>
          move[s] = "settled" /\ actConn[s].status = "connected" /\ actConn[s].holder = n
    /\ \A n \in Nodes : s \in hub[n] =>
          move[s] = "settled" /\ actConn[s].status = "temp" /\ actConn[s].holder = n
    /\ move[s] # "settled" => actConn[s].holder \in Nodes
    /\ move[s] = "opening" => actConn[s].status = "connected"
    /\ move[s] = "closed" => actConn[s].status = "temp" /\ s \in Authenticated

\* And so are all.
AllInPlace == \A s \in AllSessions : InPlace(s)

\* A session that stayed was settled and is, unless the send disconnects it.
StayedIsSettled ==
    /\ send.pc = "none" => stayed = {}
    /\ \A s \in stayed : /\ move[s] # "opening"
                         /\ move[s] # "settled" => send.kind = "disconnectUser"

\* The send has not come to container n yet.
Ahead(n) ==
    \/ send.pc \in {"none", "find", "local", "publishAll"}
    \/ send.pc \in {"acting", "publish"} /\ n \in send.targets

\* A container is still to be told, or told and not yet at work, or at work.
Turns ==
    /\ \A n \in Nodes :
          /\ Ahead(n) => signal[n] = "no" /\ hand[n] = NoHand
          /\ signal[n] # "no" => hand[n] = NoHand
          /\ hand[n].pc = "idle" => hand[n] = NoHand
    /\ send.pc \in {"acting", "publish"} => send.targets \subseteq Nodes \ {Origin}
    /\ send.pc \in {"find", "local"} => send.kind \in ToHolders

\* The sessions the send is for.
Meant == Addressees(send.kind)

\* The session is to be reached, and on container n.
Due(s, n) ==
    /\ s \in Meant
    /\ s \in manager[n] \/ (send.kind = "user" /\ s \in hub[n])

\* What a handler has read holds every session that stayed there.
HasRead(n) ==
    /\ hand[n].conns \subseteq Meant
    /\ hand[n].pc \in {"listing", "begun"} => hand[n].temps = {}
    /\ hand[n].pc = "listing" => send.kind = "user"
    /\ send.kind # "user" => hand[n].temps = {}
    /\ \A s \in stayed :
          /\ s \in hand[n].temps => s \in hub[n]
          /\ hand[n].pc \in {"listing", "read"} /\ s \in manager[n] /\ s \in Meant
                => s \in hand[n].conns
          /\ hand[n].pc = "read" /\ send.kind = "user" /\ s \in hub[n] /\ s \in UserSessions
                => s \in hand[n].temps

\* And so has every handler.
HandsRead == \A n \in Nodes : HasRead(n)

\* The send has work left on container n.
Busy(n) == Ahead(n) \/ signal[n] # "no" \/ hand[n].pc # "idle"

\* The session has its one copy.
Got(s) == send.kind # "disconnectUser" /\ copies[s] = 1

\* A session that stayed has its copy, or its container is still busy, never both.
CountedOnce(s) ==
    /\ copies[s] = 0 \/ (Got(s) /\ \E n \in Nodes : Due(s, n))
    /\ \A n \in Nodes : Due(s, n) =>
          /\ Busy(n) => copies[s] = 0
          /\ Busy(n) \/ Got(s) \/ send.pc \in {"failed", "panic"}
          /\ send.pc = "local" => n \in send.targets

\* Nothing is counted before the send.
Counted ==
    /\ send.pc = "none" => \A s \in AllSessions : copies[s] = 0
    /\ \A s \in stayed : CountedOnce(s)

\* The inductive invariant.
RouteInv == RouteTypes /\ AllInPlace /\ StayedIsSettled /\ Turns /\ HandsRead /\ Counted
-----------------------------------------------------------------------------
(* Steps of sessions *)

\* The steps of a session.
SessionStep(s) ==
    \/ \E n \in Nodes : ClaimRecord(s, n)
    \/ AddToManager(s)
    \/ DropConnection(s)
    \/ MarkTempDisconnected(s)
    \/ RegisterInHub(s)
    \/ ForgetAnonymous(s)
    \/ ForgetSession(s)
    \/ TransferSession(s)

\* Nothing about session t changes.
SamePlace(t) ==
    /\ actConn'[t] = actConn[t] /\ move'[t] = move[t]
    /\ \A n \in Nodes : (t \in manager'[n] <=> t \in manager[n]) /\ (t \in hub'[n] <=> t \in hub[n])

\* A step of a session leaves the others alone, and ends its staying unless
\* the session was already on its way.
SessionOutcome(s) ==
    /\ UNCHANGED <<send, signal, hand, copies>> /\ stayed' \subseteq stayed
    /\ \A t \in AllSessions \ {s} : SamePlace(t)
    /\ s \in stayed' => /\ move[s] # "settled" /\ move'[s] # "opening"
                        /\ move[s] = "opening" \/ manager' = manager
    /\ InPlace(s)'
    /\ actConn' \in [AllSessions -> RecordT]
    /\ manager' \in [Nodes -> SUBSET AllSessions]
    /\ hub' \in [Nodes -> SUBSET Authenticated]
    /\ move' \in [AllSessions -> {"settled", "opening", "closing", "closed"}]

\* Every step of a session has that outcome.
LEMMA SessionEffect ==
    ASSUME RouteTypes, NEW s \in AllSessions, InPlace(s), SessionStep(s)
    PROVE  SessionOutcome(s)
<1> USE RoutingAssumption DEF RouteTypes, RecordT, SamePlace, InPlace, SessionOutcome, AllSessions
<1>1. ASSUME NEW n \in Nodes, ClaimRecord(s, n)
      PROVE  SessionOutcome(s)
  BY <1>1 DEF ClaimRecord, Without, Moves
<1>2. CASE AddToManager(s)
  BY <1>2 DEF AddToManager
<1>3. CASE DropConnection(s)
  BY <1>3 DEF DropConnection, Without, Moves
<1>4. CASE MarkTempDisconnected(s)
  BY <1>4 DEF MarkTempDisconnected
<1>5. CASE RegisterInHub(s)
  BY <1>5 DEF RegisterInHub
<1>6. CASE ForgetAnonymous(s)
  BY <1>6 DEF ForgetAnonymous, Absent
<1>7. CASE ForgetSession(s)
  BY <1>7 DEF ForgetSession, Absent, Without, Moves
<1>8. CASE TransferSession(s)
  BY <1>8 DEF TransferSession, Without, Moves
<1> QED
  BY <1>1, <1>2, <1>3, <1>4, <1>5, <1>6, <1>7, <1>8, ZenonT(40), SMTT(30) DEF SessionStep

-----------------------------------------------------------------------------
(* The other steps *)

\* A handler reads the connections that the message is for.
ReadsMeant(n) ==
    /\ hand[n].pc = "begun"
    /\ hand' = [hand EXCEPT ![n].conns = manager[n] \cap Meant,
                            ![n].pc = IF send.kind = "user" THEN "listing" ELSE "read"]
    /\ UNCHANGED <<places, send, signal, copies, stayed>>

\* The steps of the sender after the first.
SendStep ==
    \/ FindRecords
    \/ AskMemory
    \/ LocalActionDone
    \/ PublishDone
    \/ PublishToAll
    \/ \E n \in Nodes : PublishTo(n)

\* The steps of a container that handles the message.
HandlerStep(n) ==
    \/ Dispatch(n)
    \/ ReadsMeant(n)
    \/ GetSessions(n)
    \/ HandleSend(n)
    \/ HandleDisconnect(n)

\* The steps, as the proofs tell them apart.
LEMMA RouteCases ==
    ASSUME [RouteNext]_routeVars
    PROVE  \/ \E s \in AllSessions : SessionStep(s)
           \/ \E kind \in Kinds, nil \in BOOLEAN : BeginSend(kind, nil)
           \/ SendStep
           \/ \E n \in Nodes : HandlerStep(n)
           \/ UNCHANGED routeVars
<1>1. ASSUME CallDisconnectUser
      PROVE  \E kind \in Kinds, nil \in BOOLEAN : BeginSend(kind, nil)
  BY <1>1, Zenon DEF CallDisconnectUser, Kinds, ToHolders
<1>2. ASSUME NEW nil \in BOOLEAN,
             \/ CallSendToUser(nil) \/ CallSendToUsers(nil) \/ CallSendToAnonymous(nil)
             \/ CallSendToAuthenticated(nil) \/ CallSendToAll(nil)
      PROVE  \E kind \in Kinds : BeginSend(kind, nil)
  BY <1>2, ZenonT(40), SMTT(30) DEF CallSendToUser, CallSendToUsers, CallSendToAnonymous,
     CallSendToAuthenticated, CallSendToAll, Kinds, ToHolders
<1>3. ASSUME NEW n \in Nodes,
             \/ SendToUser(n) \/ SendToUsers(n) \/ SendToAnonymous(n)
             \/ SendToAuthenticated(n) \/ SendToAll(n) \/ DisconnectUser(n)
      PROVE  ReadsMeant(n)
  BY <1>3 DEF SendToUser, SendToUsers, SendToAnonymous, SendToAuthenticated, SendToAll,
              DisconnectUser, Reads, ReadsMeant, Meant, Addressees, ToHolders
<1> QED
  BY <1>1, <1>2, <1>3, Zenon DEF RouteNext, SessionStep, SendStep, HandlerStep

\* The record of a send that goes on.
LEMMA SendRecord ==
    ASSUME NEW r \in SendT, NEW pc \in SendPcs, NEW targets \in SUBSET (Nodes \cup {NoNode})
    PROVE  /\ [r EXCEPT !.pc = pc, !.targets = targets] \in SendT
           /\ [r EXCEPT !.pc = pc, !.targets = targets].kind = r.kind
BY DEF SendT

\* A handler that begins.
LEMMA HandBegins ==
    ASSUME NEW f \in [Nodes -> HandT], NEW n \in Nodes
    PROVE  [f EXCEPT ![n].pc = "begun"] \in [Nodes -> HandT]
BY DEF HandT

\* A signal, or the local call, or the end of a handler: no place changes.
LEMMA SendTypes ==
    ASSUME RouteTypes, SendStep
    PROVE  /\ UNCHANGED <<places, copies, stayed>> /\ send'.kind = send.kind
           /\ send' \in SendT
           /\ signal' \in [Nodes -> {"no", "queued", "lost"}]
           /\ hand' \in [Nodes -> HandT]
<1> USE RoutingAssumption DEF RouteTypes, SendT, SendPcs
<1>1. CASE FindRecords
  <2>1. Holders \subseteq Nodes \cup {NoNode}
    BY DEF Holders, RecordT, AllSessions, Authenticated
  <2>2. [send EXCEPT !.pc = "local", !.targets = Holders] \in SendT
    BY <2>1
  <2>3. [send EXCEPT !.pc = "local", !.targets = Holders].kind = send.kind
    OBVIOUS
  <2>4. CASE send' = [send EXCEPT !.pc = "failed"]
    BY <1>1, <2>4 DEF FindRecords
  <2> QED
    BY <1>1, <2>2, <2>3, <2>4 DEF FindRecords
<1>2. CASE AskMemory
  <2>1. ASSUME NEW pc \in {"acting", "publish"}
        PROVE  /\ [send EXCEPT !.pc = pc, !.targets = @ \ {Origin, NoNode}] \in SendT
               /\ [send EXCEPT !.pc = pc, !.targets = @ \ {Origin, NoNode}].kind = send.kind
    <3>1. pc \in SendPcs /\ send.targets \ {Origin, NoNode} \in SUBSET (Nodes \cup {NoNode})
      BY <2>1
    <3> HIDE DEF SendT, SendPcs
    <3> QED
      BY <3>1, SendRecord, ZenonT(40), SMTT(30)
  <2>2. [hand EXCEPT ![Origin].pc = "begun"] \in [Nodes -> HandT]
    BY HandBegins, Zenon
  <2> QED
    BY <1>2, <2>1, <2>2 DEF AskMemory
<1>3. CASE LocalActionDone
  BY <1>3 DEF LocalActionDone
<1>4. CASE PublishDone
  BY <1>4 DEF PublishDone
<1>5. CASE PublishToAll
  BY <1>5 DEF PublishToAll
<1>6. ASSUME NEW n \in Nodes, PublishTo(n)
      PROVE  /\ UNCHANGED <<places, copies, stayed, hand>> /\ send'.kind = send.kind
             /\ send' \in SendT
             /\ signal' \in [Nodes -> {"no", "queued", "lost"}]
  BY <1>6 DEF PublishTo
<1> QED
  BY <1>1, <1>2, <1>3, <1>4, <1>5, <1>6, Zenon DEF SendStep

\* A send begins while nothing runs.
LEMMA BeginTypes ==
    ASSUME RouteTypes, NEW kind \in Kinds, NEW nil \in BOOLEAN, BeginSend(kind, nil)
    PROVE  /\ UNCHANGED <<places, signal, hand, copies>> /\ send.pc = "none"
           /\ send' \in SendT /\ send'.kind = kind /\ send'.targets = {}
           /\ send'.pc \in {"find", "panic", "publishAll"} /\ (send'.pc = "find" => kind \in ToHolders)
           /\ stayed' = {s \in AllSessions : move[s] = "settled"}
BY DEF BeginSend, RouteTypes, SendT, SendPcs, NoSend

\* A handler changes its own state, and what it delivers or closes.
LEMMA HandlerTypes ==
    ASSUME RouteTypes, NEW n \in Nodes, HandlerStep(n)
    PROVE  /\ UNCHANGED <<actConn, hub, send, stayed>>
           /\ manager' \in [Nodes -> SUBSET AllSessions]
           /\ move' \in [AllSessions -> {"settled", "opening", "closing", "closed"}]
           /\ signal' \in [Nodes -> {"no", "queued", "lost"}]
           /\ hand' \in [Nodes -> HandT]
           /\ copies' \in [AllSessions -> Nat]
<1> USE DEF RouteTypes, places
<1>1. CASE Dispatch(n)
  BY <1>1 DEF Dispatch, HandT
<1>2. CASE ReadsMeant(n)
  BY <1>2 DEF ReadsMeant, HandT
<1>3. CASE GetSessions(n)
  BY <1>3 DEF GetSessions, HandT
<1>4. CASE HandleSend(n)
  BY <1>4 DEF HandleSend, HandT, NoHand
<1>5. CASE HandleDisconnect(n)
  BY <1>5 DEF HandleDisconnect, HandT, NoHand
<1> QED
  BY <1>1, <1>2, <1>3, <1>4, <1>5, Zenon DEF HandlerStep

\* Every step keeps the types.
LEMMA RouteTypeStep ==
    ASSUME RouteTypes, AllInPlace, [RouteNext]_routeVars
    PROVE  RouteTypes'
<1>1. ASSUME NEW s \in AllSessions, SessionStep(s)
      PROVE  RouteTypes'
  BY <1>1, SessionEffect DEF AllInPlace, SessionOutcome, RouteTypes
<1>2. ASSUME NEW kind \in Kinds, NEW nil \in BOOLEAN, BeginSend(kind, nil)
      PROVE  RouteTypes'
  BY <1>2, BeginTypes DEF RouteTypes, places
<1>3. CASE SendStep
  BY <1>3, SendTypes DEF RouteTypes, places
<1>4. ASSUME NEW n \in Nodes, HandlerStep(n)
      PROVE  RouteTypes'
  BY <1>4, HandlerTypes DEF RouteTypes
<1>5. CASE UNCHANGED routeVars
  BY <1>5 DEF routeVars, places, RouteTypes
<1> QED
  BY <1>1, <1>2, <1>3, <1>4, <1>5, RouteCases, ZenonT(40), SMTT(30)

-----------------------------------------------------------------------------
(* Where sessions are *)

\* DisconnectUser takes from the manager what it has read and finds there still.
LEMMA DisconnectEffect ==
    ASSUME RouteTypes, AllInPlace, NEW n \in Nodes, HandleDisconnect(n)
    PROVE  /\ send.kind = "disconnectUser"
           /\ \A t \in AllSessions, m \in Nodes :
                 t \in manager'[m] <=> t \in manager[m] /\ ~(m = n /\ t \in hand[n].conns)
           /\ \A t \in AllSessions : move'[t] = move[t] \/ move'[t] = "closing"
           /\ AllInPlace'
<1> DEFINE live == hand[n].conns \cap manager[n]
<1>1. /\ send.kind = "disconnectUser"
      /\ manager' = [manager EXCEPT ![n] = @ \ live]
      /\ move' = [s \in AllSessions |-> IF s \in live THEN "closing" ELSE move[s]]
      /\ actConn' = actConn /\ hub' = hub
  BY ZenonT(40), SMTT(30) DEF HandleDisconnect
<1>2. \A t \in AllSessions, m \in Nodes :
         t \in manager'[m] <=> t \in manager[m] /\ ~(m = n /\ t \in hand[n].conns)
  BY <1>1 DEF RouteTypes
<1>3. \A t \in AllSessions : move'[t] = IF t \in live THEN "closing" ELSE move[t]
  BY <1>1, Zenon
<1>4. ASSUME NEW t \in AllSessions
      PROVE  InPlace(t)'
  <2>1. InPlace(t)
    BY ZenonT(40), SMTT(30) DEF AllInPlace
  <2>2. CASE t \in live
    <3>1. actConn[t].holder = n /\ actConn[t].status = "connected" /\ move'[t] = "closing"
      BY <2>1, <2>2, <1>3 DEF InPlace
    <3> QED
      BY <2>1, <2>2, <3>1, <1>1, <1>2 DEF InPlace
  <2>3. CASE t \notin live
    BY <2>1, <2>3, <1>1, <1>2, <1>3, Zenon DEF InPlace
  <2> QED
    BY <2>2, <2>3
<1> QED
  BY <1>1, <1>2, <1>3, <1>4, Zenon DEF AllInPlace

\* Every step keeps connections and hub entries where the records say.
LEMMA PlaceStep ==
    ASSUME RouteTypes, AllInPlace, [RouteNext]_routeVars
    PROVE  AllInPlace'
<1>0. ASSUME UNCHANGED places
      PROVE  AllInPlace'
  BY <1>0, ZenonT(40), SMTT(30) DEF places, AllInPlace, InPlace
<1>1. ASSUME NEW s \in AllSessions, SessionStep(s)
      PROVE  AllInPlace'
  <2>1. SessionOutcome(s)
    BY <1>1, SessionEffect, Zenon DEF AllInPlace
  <2>2. ASSUME NEW t \in AllSessions, t # s
        PROVE  InPlace(t)'
    <3>1. SamePlace(t) /\ InPlace(t)
      BY <2>1, <2>2, Zenon DEF SessionOutcome, AllInPlace
    <3> QED
      BY <3>1 DEF SamePlace, InPlace
  <2> QED
    BY <2>1, <2>2, Zenon DEF AllInPlace, SessionOutcome
<1>2. ASSUME NEW kind \in Kinds, NEW nil \in BOOLEAN, BeginSend(kind, nil)
      PROVE  AllInPlace'
  BY <1>2, <1>0, Zenon DEF BeginSend
<1>3. CASE SendStep
  BY <1>3, <1>0, SendTypes, Zenon
<1>4. ASSUME NEW n \in Nodes, HandlerStep(n)
      PROVE  AllInPlace'
  BY <1>4, <1>0, DisconnectEffect, Zenon
     DEF HandlerStep, Dispatch, ReadsMeant, GetSessions, HandleSend
<1>5. CASE UNCHANGED routeVars
  BY <1>5, <1>0, Zenon DEF routeVars
<1> QED
  BY <1>1, <1>2, <1>3, <1>4, <1>5, RouteCases, ZenonT(40), SMTT(30)

\* A session that stays is where it was, unless the send disconnects it.
LEMMA StayedKeepsPlace ==
    ASSUME RouteTypes, AllInPlace, StayedIsSettled, [RouteNext]_routeVars,
           send.pc # "none", NEW s \in stayed'
    PROVE  /\ s \in stayed /\ s \in AllSessions /\ send'.kind = send.kind /\ Meant' = Meant
           /\ \A n \in Nodes : s \in manager'[n] => s \in manager[n]
           /\ send.kind # "disconnectUser" => SamePlace(s)
           /\ move'[s] # "opening"
           /\ move'[s] # "settled" => send.kind = "disconnectUser"
<1> DEFINE Stays == /\ s \in stayed /\ send'.kind = send.kind
                    /\ \A n \in Nodes : s \in manager'[n] => s \in manager[n]
                    /\ send.kind # "disconnectUser" => SamePlace(s)
                    /\ move'[s] # "opening"
                    /\ move'[s] # "settled" => send.kind = "disconnectUser"
<1>a. s \in AllSessions
  BY RouteTypeStep, Zenon DEF RouteTypes
<1>0. ASSUME UNCHANGED <<places, stayed>>, send'.kind = send.kind
      PROVE  Stays
  BY <1>0, Zenon DEF places, SamePlace, StayedIsSettled
<1>1. ASSUME NEW t \in AllSessions, SessionStep(t)
      PROVE  Stays
  <2>1. SessionOutcome(t)
    BY <1>1, SessionEffect, Zenon DEF AllInPlace
  <2>2. s \in stayed /\ send' = send
    BY <2>1, Zenon DEF SessionOutcome
  <2>3. CASE s # t
    BY <2>1, <2>2, <2>3, <1>a, ZenonT(40), SMTT(30) DEF SessionOutcome, SamePlace, StayedIsSettled
  <2>4. CASE s = t
    BY <2>1, <2>2, <2>4, Zenon DEF SessionOutcome, StayedIsSettled
  <2> QED
    BY <2>3, <2>4, Zenon
<1>2. ASSUME NEW kind \in Kinds, NEW nil \in BOOLEAN, BeginSend(kind, nil)
      PROVE  Stays
  BY <1>2, Zenon DEF BeginSend
<1>3. ASSUME SendStep PROVE Stays
  BY <1>3, <1>0, SendTypes, Zenon
<1>4. ASSUME NEW n \in Nodes, HandlerStep(n)
      PROVE  Stays
  <2>1. CASE HandleDisconnect(n)
    <3>1. UNCHANGED <<send, stayed>>
      BY <2>1, Zenon DEF HandleDisconnect
    <3> QED
      BY <2>1, <3>1, <1>a, DisconnectEffect, ZenonT(40), SMTT(30) DEF StayedIsSettled
  <2> QED
    BY <1>4, <1>0, <2>1, Zenon DEF HandlerStep, Dispatch, ReadsMeant, GetSessions, HandleSend
<1>5. ASSUME UNCHANGED routeVars PROVE Stays
  BY <1>5, <1>0, Zenon DEF routeVars
<1>6. Stays
  BY <1>1, <1>2, <1>3, <1>4, <1>5, RouteCases, Zenon
<1>7. Meant' = Meant
  BY <1>6 DEF Meant, Addressees
<1> QED
  BY <1>a, <1>6, <1>7, ZenonT(40), SMTT(30)

\* A send that has begun stays begun.
LEMMA GoesOn ==
    ASSUME RouteTypes, AllInPlace, send.pc # "none", [RouteNext]_routeVars
    PROVE  send'.pc # "none"
<1>1. ASSUME NEW t \in AllSessions, SessionStep(t)
      PROVE  send' = send
  BY <1>1, SessionEffect, Zenon DEF AllInPlace, SessionOutcome
<1>2. CASE SendStep
  <2> USE DEF RouteTypes, SendT
  <2>1. CASE FindRecords
    BY <2>1 DEF FindRecords
  <2>2. CASE AskMemory
    BY <2>2 DEF AskMemory
  <2>3. CASE LocalActionDone \/ PublishDone \/ PublishToAll
    BY <2>3 DEF LocalActionDone, PublishDone, PublishToAll
  <2>4. ASSUME NEW n \in Nodes, PublishTo(n)
        PROVE  send'.pc # "none"
    BY <2>4 DEF PublishTo
  <2> QED
    BY <1>2, <2>1, <2>2, <2>3, <2>4, ZenonT(40), SMTT(30) DEF SendStep
<1>3. ASSUME NEW n \in Nodes, HandlerStep(n)
      PROVE  send' = send
  BY <1>3, HandlerTypes, Zenon
<1> QED
  BY <1>1, <1>2, <1>3, RouteCases, Zenon DEF BeginSend, routeVars

\* Every step keeps the sessions that stay settled.
LEMMA StayedStep ==
    ASSUME RouteTypes, AllInPlace, StayedIsSettled, [RouteNext]_routeVars
    PROVE  StayedIsSettled'
<1>1. CASE send.pc # "none"
  <2>1. send'.pc # "none"
    BY <1>1, GoesOn, Zenon
  <2> QED
    BY <1>1, <2>1, StayedKeepsPlace, ZenonT(40), SMTT(30) DEF StayedIsSettled
<1>2. CASE send.pc = "none"
  <2>1. ASSUME NEW t \in AllSessions, SessionStep(t)
        PROVE  stayed' = {}
    BY <1>2, <2>1, SessionEffect, Zenon DEF AllInPlace, SessionOutcome, StayedIsSettled
  <2>2. ASSUME NEW kind \in Kinds, NEW nil \in BOOLEAN, BeginSend(kind, nil)
        PROVE  StayedIsSettled'
    <3>1. /\ move' = move /\ stayed' = {s \in AllSessions : move[s] = "settled"}
          /\ send'.pc \in {"find", "panic", "publishAll"}
      BY <2>2, BeginTypes, Zenon DEF places
    <3> QED
      BY <3>1 DEF StayedIsSettled
  <2>3. CASE SendStep
    BY <1>2, <2>3, Zenon DEF SendStep, FindRecords, AskMemory, LocalActionDone, PublishDone,
       PublishToAll, PublishTo
  <2>4. ASSUME NEW n \in Nodes, HandlerStep(n)
        PROVE  stayed' = {}
    BY <1>2, <2>4, HandlerTypes, Zenon DEF StayedIsSettled
  <2>5. CASE UNCHANGED routeVars
    BY <1>2, <2>5, Zenon DEF routeVars, StayedIsSettled
  <2> QED
    BY <2>1, <2>2, <2>3, <2>4, <2>5, RouteCases, ZenonT(40), SMTT(30) DEF StayedIsSettled
<1> QED
  BY <1>1, <1>2, Zenon

-----------------------------------------------------------------------------
(* Whose turn it is *)

\* What a step of the send does to its progress and to the containers.
Fails == send'.pc \in {"failed", "panic"} /\ UNCHANGED <<signal, hand>>
Finds == send.pc = "find" /\ send'.pc = "local" /\ send'.targets = Holders /\ UNCHANGED <<signal, hand>>
Asks ==
    /\ send.pc = "local" /\ send'.targets = send.targets \ {Origin, NoNode} /\ signal' = signal
    /\ \/ send'.pc = "acting" /\ hand' = [hand EXCEPT ![Origin].pc = "begun"]
       \/ /\ send'.pc = "publish" /\ hand' = hand
          /\ ~ActsHere(send.kind, Origin, send.targets)
Returns == send.pc = "acting" /\ send'.pc = "publish" /\ send'.targets = send.targets /\ UNCHANGED <<signal, hand>>
Publishes(n) ==
    /\ send.pc = "publish" /\ send'.pc = "publish" /\ n \in send.targets
    /\ send'.targets = send.targets \ {n} /\ hand' = hand
    /\ signal'[n] \in {"queued", "lost"} /\ \A m \in Nodes \ {n} : signal'[m] = signal[m]
PublishesAll ==
    /\ send.pc = "publishAll" /\ send'.pc = "done" /\ hand' = hand
    /\ \A n \in Nodes : signal'[n] \in {"queued", "lost"}
Ends == send.pc = "publish" /\ send.targets = {} /\ send'.pc = "done" /\ UNCHANGED <<signal, hand>>

\* Every step of the sender is one of these.
LEMMA SendMoves ==
    ASSUME RouteTypes, SendStep
    PROVE  Fails \/ Finds \/ Asks \/ Returns \/ Ends \/ PublishesAll \/ \E n \in Nodes : Publishes(n)
<1> USE DEF RouteTypes, SendT
<1>1. CASE FindRecords
  <2>1. CASE send' = [send EXCEPT !.pc = "local", !.targets = Holders]
    BY <1>1, <2>1 DEF FindRecords, Finds
  <2>2. CASE send' = [send EXCEPT !.pc = "failed"]
    BY <1>1, <2>2 DEF FindRecords, Fails
  <2> QED
    BY <1>1, <2>1, <2>2, ZenonT(40), SMTT(30) DEF FindRecords
<1>2. CASE AskMemory
  <2>1. CASE ActsHere(send.kind, Origin, send.targets)
    BY <1>2, <2>1 DEF AskMemory, Asks
  <2>2. CASE ~ActsHere(send.kind, Origin, send.targets)
    BY <1>2, <2>2 DEF AskMemory, Asks
  <2> QED
    BY <2>1, <2>2
<1>3. CASE LocalActionDone
  BY <1>3 DEF LocalActionDone, Returns
<1>4. CASE PublishDone
  BY <1>4 DEF PublishDone, Ends
<1>5. CASE PublishToAll
  BY <1>5 DEF PublishToAll, PublishesAll, Fails
<1>6. ASSUME NEW n \in Nodes, PublishTo(n)
      PROVE  Publishes(n) \/ Fails
  <2>1. CASE send' = [send EXCEPT !.targets = @ \ {n}] /\ \E fate \in {"queued", "lost"} : signal' = [signal EXCEPT ![n] = fate]
    BY <1>6, <2>1 DEF PublishTo, Publishes
  <2>2. CASE send' = [send EXCEPT !.pc = IF send.nil THEN "panic" ELSE "failed"] /\ UNCHANGED signal
    BY <1>6, <2>2 DEF PublishTo, Fails
  <2> QED
    BY <1>6, <2>1, <2>2, ZenonT(40), SMTT(30) DEF PublishTo
<1> QED
  BY <1>1, <1>2, <1>3, <1>4, <1>5, <1>6, ZenonT(40), SMTT(30) DEF SendStep

\* What a handler's step does to signals and hands.
Begins(n) ==
    /\ signal[n] = "queued" /\ signal'[n] = "no" /\ hand'[n] = [hand[n] EXCEPT !.pc = "begun"]
    /\ \A m \in Nodes \ {n} : signal'[m] = signal[m] /\ hand'[m] = hand[m]
Works(n) ==
    /\ hand[n].pc # "idle" /\ signal' = signal /\ (hand'[n] = NoHand \/ hand'[n].pc # "idle")
    /\ \A m \in Nodes \ {n} : hand'[m] = hand[m]

\* Every step of a handler is one of these.
LEMMA HandlerMoves ==
    ASSUME RouteTypes, NEW n \in Nodes, HandlerStep(n)
    PROVE  Begins(n) \/ Works(n)
<1> USE DEF RouteTypes, HandT
<1>1. CASE Dispatch(n)
  BY <1>1 DEF Dispatch, Begins
<1>2. CASE ReadsMeant(n)
  BY <1>2 DEF ReadsMeant, Works
<1>3. CASE GetSessions(n)
  BY <1>3 DEF GetSessions, Works
<1>4. CASE HandleSend(n) \/ HandleDisconnect(n)
  BY <1>4 DEF HandleSend, HandleDisconnect, Works
<1> QED
  BY <1>1, <1>2, <1>3, <1>4, ZenonT(40), SMTT(30) DEF HandlerStep

\* Every step keeps a container from being told or at work twice.
LEMMA TurnStep ==
    ASSUME RouteTypes, AllInPlace, Turns, [RouteNext]_routeVars
    PROVE  Turns'
<1>0. ASSUME UNCHANGED <<send, signal, hand>>
      PROVE  Turns'
  BY <1>0, Zenon DEF Turns, Ahead
<1>1. ASSUME NEW s \in AllSessions, SessionStep(s)
      PROVE  Turns'
  BY <1>1, <1>0, SessionEffect, ZenonT(40), SMTT(30) DEF AllInPlace, SessionOutcome
<1>2. ASSUME NEW kind \in Kinds, NEW nil \in BOOLEAN, BeginSend(kind, nil)
      PROVE  Turns'
  <2>1. /\ UNCHANGED <<signal, hand>> /\ send.pc = "none" /\ send'.kind = kind
        /\ send'.pc \in {"find", "panic", "publishAll"} /\ (send'.pc = "find" => kind \in ToHolders)
    BY <1>2, BeginTypes, Zenon
  <2> QED
    BY <2>1 DEF Turns, Ahead
<1>3. CASE SendStep
  <2>k. send'.kind = send.kind
    BY <1>3, SendTypes, Zenon
  <2>h. NoHand.pc = "idle" /\ \A n \in Nodes : hand[n].pc = "idle" => hand[n] = NoHand
    BY ZenonT(40), SMTT(30) DEF NoHand, Turns
  <2>1. CASE Fails
    BY <2>k, <2>1 DEF Fails, Turns, Ahead
  <2>2. CASE Finds
    BY <2>k, <2>2 DEF Finds, Turns, Ahead
  <2>3. CASE Asks
    <3>1. /\ \A n \in Nodes : signal'[n] = "no" /\ hand[n] = NoHand
          /\ send'.pc \in {"acting", "publish"}
      BY <2>3, ZenonT(40), SMTT(30) DEF Asks, Turns, Ahead
    <3>2. send'.targets \subseteq Nodes \ {Origin}
      BY <2>3, RoutingAssumption DEF Asks, RouteTypes, SendT
    <3>3. \A n \in Nodes : hand'[n] = NoHand \/ (n = Origin /\ hand'[n].pc = "begun")
      BY <2>3, <3>1 DEF Asks, RouteTypes, HandT
    <3> QED
      BY <3>1, <3>2, <3>3 DEF Turns, Ahead
  <2>4. CASE Returns
    BY <2>4 DEF Returns, Turns, Ahead
  <2>5. CASE Ends
    BY <2>5 DEF Ends, Turns, Ahead
  <2>6. CASE PublishesAll
    BY <2>6 DEF PublishesAll, Turns, Ahead
  <2>7. ASSUME NEW n \in Nodes, Publishes(n)
        PROVE  Turns'
    BY <2>7 DEF Publishes, Turns, Ahead
  <2> QED
    BY <1>3, <2>1, <2>2, <2>3, <2>4, <2>5, <2>6, <2>7, SendMoves, ZenonT(40), SMTT(30)
<1>4. ASSUME NEW n \in Nodes, HandlerStep(n)
      PROVE  Turns'
  <2>1. send' = send
    BY <1>4, HandlerTypes, Zenon
  <2>2. CASE Begins(n)
    BY <2>1, <2>2 DEF Begins, Turns, Ahead, NoHand
  <2>3. CASE Works(n)
    BY <2>1, <2>3 DEF Works, Turns, Ahead, NoHand
  <2> QED
    BY <1>4, <2>2, <2>3, HandlerMoves, Zenon
<1>5. CASE UNCHANGED routeVars
  BY <1>5, <1>0, Zenon DEF routeVars
<1> QED
  BY <1>1, <1>2, <1>3, <1>4, <1>5, RouteCases, ZenonT(40), SMTT(30)

-----------------------------------------------------------------------------
(* What handlers have read *)

\* A send that has begun stays what it is, and so do its addressees.
LEMMA KindStays ==
    ASSUME RouteTypes, AllInPlace, send.pc # "none", [RouteNext]_routeVars
    PROVE  send'.kind = send.kind /\ Meant' = Meant
<1>1. ASSUME NEW s \in AllSessions, SessionStep(s)
      PROVE  send' = send
  BY <1>1, SessionEffect, Zenon DEF AllInPlace, SessionOutcome
<1>2. send'.kind = send.kind
  BY <1>1, SendTypes, HandlerTypes, RouteCases, ZenonT(40), SMTT(30) DEF BeginSend, routeVars
<1> QED
  BY <1>2 DEF Meant, Addressees

\* A handler that has read nothing.
LEMMA NothingRead ==
    ASSUME NEW n \in Nodes, hand'[n].conns = {}, hand'[n].temps = {}, hand'[n].pc \in {"idle", "begun"}
    PROVE  HasRead(n)'
BY DEF HasRead

\* What handlers have read stays complete.
LEMMA ReadStep ==
    ASSUME RouteInv, [RouteNext]_routeVars
    PROVE  HandsRead'
<1>i. RouteTypes /\ AllInPlace /\ StayedIsSettled /\ Turns /\ HandsRead
  BY Zenon DEF RouteInv
<1>0. ASSUME NEW n \in Nodes, hand'[n] = hand[n], send.pc # "none"
      PROVE  HasRead(n)'
  <2>1. send'.kind = send.kind /\ Meant' = Meant
    BY <1>i, <1>0, KindStays, ZenonT(40), SMTT(30)
  <2>2. HasRead(n)
    BY <1>i, ZenonT(40), SMTT(30) DEF HandsRead
  <2>3. ASSUME NEW s \in stayed'
        PROVE  /\ s \in hand'[n].temps => s \in hub'[n]
               /\ hand'[n].pc \in {"listing", "read"} /\ s \in manager'[n] /\ s \in Meant'
                      => s \in hand'[n].conns
               /\ hand'[n].pc = "read" /\ send'.kind = "user" /\ s \in hub'[n] /\ s \in UserSessions
                      => s \in hand'[n].temps
    <3>1. /\ s \in stayed /\ (s \in manager'[n] => s \in manager[n])
          /\ send.kind # "disconnectUser" => (s \in hub'[n] <=> s \in hub[n])
      BY <1>i, <1>0, StayedKeepsPlace, ZenonT(40), SMTT(30) DEF SamePlace
    <3>2. s \in hand[n].temps => send.kind = "user" /\ s \in hub[n]
      BY <2>2, <3>1, ZenonT(40), SMTT(30) DEF HasRead
    <3>3. "user" # "disconnectUser"
      OBVIOUS
    <3> QED
      BY <2>1, <2>2, <3>1, <3>2, <3>3, <1>0, ZenonT(40), SMTT(30) DEF HasRead
  <2> QED
    BY <2>1, <2>2, <2>3, <1>0, ZenonT(40), SMTT(30) DEF HasRead
<1>e. NoHand.pc = "idle" /\ NoHand.conns = {} /\ NoHand.temps = {}
  BY DEF NoHand
<1>1. ASSUME NEW s \in AllSessions, SessionStep(s)
      PROVE  hand' = hand
  BY <1>1, <1>i, SessionEffect, ZenonT(40), SMTT(30) DEF AllInPlace, SessionOutcome
<1>2. ASSUME send.pc = "none", hand' = hand
      PROVE  HandsRead'
  BY <1>2, <1>i, <1>e, NothingRead, ZenonT(40), SMTT(30) DEF Turns, Ahead, HandsRead
<1>3. ASSUME SendStep, NEW n \in Nodes
      PROVE  HasRead(n)'
  <2>1. send.pc # "none"
    BY <1>3, Zenon DEF SendStep, FindRecords, AskMemory, LocalActionDone, PublishDone, PublishToAll,
       PublishTo
  <2>2. CASE Asks
    <3>1. hand[n] = NoHand
      BY <1>i, <2>2, Zenon DEF Asks, Turns, Ahead
    <3>2. hand'[n].conns = {} /\ hand'[n].temps = {} /\ hand'[n].pc \in {"idle", "begun"}
      <4>1. hand \in [Nodes -> HandT]
        BY <1>i, ZenonT(40), SMTT(30) DEF RouteTypes
      <4>2. CASE hand' = [hand EXCEPT ![Origin].pc = "begun"]
        BY <4>1, <4>2, <1>e, <3>1 DEF HandT
      <4>3. CASE hand' = hand
        BY <4>3, <1>e, <3>1
      <4> QED
        BY <2>2, <4>2, <4>3, ZenonT(40), SMTT(30) DEF Asks
    <3> QED
      BY <3>2, NothingRead, ZenonT(40), SMTT(30)
  <2> QED
    BY <1>3, <1>i, <1>0, <2>1, <2>2, SendMoves, ZenonT(40), SMTT(30)
       DEF Fails, Finds, Returns, Ends, PublishesAll, Publishes
<1>4. ASSUME NEW n \in Nodes, HandlerStep(n), NEW m \in Nodes
      PROVE  HasRead(m)'
  <2>1. send.pc # "none"
    BY <1>4, <1>i, <1>e, HandlerMoves, ZenonT(40), SMTT(30) DEF Begins, Works, Turns, Ahead
  <2>2. CASE m # n
    BY <1>4, <1>i, <1>0, <2>1, <2>2, HandlerMoves, ZenonT(40), SMTT(30) DEF Begins, Works
  <2>3. CASE m = n
    <3>t. hand \in [Nodes -> HandT]
      BY <1>i, Zenon DEF RouteTypes
    <3>r. HasRead(n)
      BY <1>i, Zenon DEF HandsRead
    <3>1. CASE Dispatch(n)
      <4>1. hand[n] = NoHand
        BY <3>1, <1>i, Zenon DEF Dispatch, Turns
      <4>2. hand'[n].conns = {} /\ hand'[n].temps = {} /\ hand'[n].pc = "begun"
        BY <3>1, <3>t, <4>1, <1>e DEF Dispatch, HandT
      <4> QED
        BY <4>2, <2>3, NothingRead, Zenon
    <3>2. CASE ReadsMeant(n)
      <4>1. /\ hand'[n].conns = manager[n] \cap Meant /\ hand'[n].temps = {}
            /\ hand'[n].pc = IF send.kind = "user" THEN "listing" ELSE "read"
        BY <3>2, <3>t, <3>r DEF ReadsMeant, HandT, HasRead
      <4>2. manager' = manager /\ send' = send /\ stayed' = stayed /\ Meant' = Meant
        BY <3>2 DEF ReadsMeant, places, Meant, Addressees
      <4> QED
        BY <4>1, <4>2, <2>3 DEF HasRead
    <3>3. CASE GetSessions(n)
      <4>1. /\ hand'[n].conns = hand[n].conns /\ hand'[n].temps = hub[n] \cap UserSessions
            /\ hand'[n].pc = "read" /\ hand[n].pc = "listing"
        BY <3>3, <3>t DEF GetSessions, HandT
      <4>2. manager' = manager /\ hub' = hub /\ send' = send /\ stayed' = stayed /\ Meant' = Meant
        BY <3>3 DEF GetSessions, places, Meant, Addressees
      <4> QED
        BY <3>r, <4>1, <4>2, <2>3 DEF HasRead
    <3>4. CASE HandleSend(n) \/ HandleDisconnect(n)
      <4>1. hand'[n] = NoHand
        BY <3>4, <3>t DEF HandleSend, HandleDisconnect
      <4> QED
        BY <4>1, <1>e, <2>3, NothingRead, ZenonT(40), SMTT(30)
    <3> QED
      BY <1>4, <3>1, <3>2, <3>3, <3>4, ZenonT(40), SMTT(30) DEF HandlerStep
  <2> QED
    BY <2>2, <2>3
<1>5. ASSUME hand' = hand
      PROVE  HandsRead'
  BY <1>5, <1>0, <1>2, ZenonT(40), SMTT(30) DEF HandsRead
<1> QED
  BY <1>1, <1>3, <1>4, <1>5, RouteCases, ZenonT(40), SMTT(30) DEF HandsRead, BeginSend, routeVars

-----------------------------------------------------------------------------
(* Copies *)

\* A session is due on one container at most.
LEMMA DueOnce ==
    ASSUME AllInPlace, NEW s \in AllSessions, NEW m \in Nodes, NEW n \in Nodes, Due(s, m), Due(s, n)
    PROVE  m = n /\ ~(s \in manager[n] /\ s \in hub[n])
BY DEF AllInPlace, InPlace, Due

\* A step that delivers nothing and leaves the containers as busy as they were,
\* or ends the send with an error.
LEMMA QuietCount ==
    ASSUME RouteInv, [RouteNext]_routeVars, send.pc # "none", NEW s \in stayed', copies'[s] = copies[s],
           \A n \in Nodes : Due(s, n) /\ Due(s, n)' =>
               /\ Busy(n)' => Busy(n)
               /\ Busy(n) => Busy(n)' \/ send'.pc \in {"failed", "panic"}
               /\ send'.pc = "local" => n \in send'.targets,
           send.pc \in {"failed", "panic"} => send'.pc \in {"failed", "panic"}
    PROVE  CountedOnce(s)'
<1>i. RouteTypes /\ AllInPlace /\ StayedIsSettled
  BY Zenon DEF RouteInv
<1>1. /\ s \in stayed /\ send'.kind = send.kind /\ Meant' = Meant
      /\ \A n \in Nodes : s \in manager'[n] => s \in manager[n]
      /\ send.kind # "disconnectUser" => SamePlace(s)
  BY <1>i, StayedKeepsPlace, Zenon
<1>2. CountedOnce(s)
  BY <1>1, Zenon DEF RouteInv, Counted
<1>3. ASSUME NEW n \in Nodes, Due(s, n)'
      PROVE  Due(s, n)
  <2>1. "user" # "disconnectUser"
    OBVIOUS
  <2> QED
    BY <1>1, <1>3, <2>1, ZenonT(40), SMTT(30) DEF Due, SamePlace
<1>4. ASSUME NEW n \in Nodes, Due(s, n), send.kind # "disconnectUser"
      PROVE  Due(s, n)'
  BY <1>1, <1>4, Zenon DEF Due, SamePlace
<1>5. Got(s)' <=> Got(s)
  BY <1>1, Zenon DEF Got
<1>6. copies'[s] = 0 \/ (Got(s)' /\ \E n \in Nodes : Due(s, n)')
  BY <1>2, <1>4, <1>5, Zenon DEF CountedOnce, Got
<1>7. ASSUME NEW n \in Nodes, Due(s, n)'
      PROVE  /\ Busy(n)' => copies'[s] = 0
             /\ Busy(n)' \/ Got(s)' \/ send'.pc \in {"failed", "panic"}
             /\ send'.pc = "local" => n \in send'.targets
  BY <1>2, <1>3, <1>5, <1>7, ZenonT(40), SMTT(30) DEF CountedOnce
<1> QED
  BY <1>6, <1>7, Zenon DEF CountedOnce

\* HandleSend gives one copy to each session that stayed and is due here.
LEMMA HandleCount ==
    ASSUME RouteInv, NEW n \in Nodes, HandleSend(n), NEW s \in stayed
    PROVE  CountedOnce(s)'
<1>i. RouteTypes /\ AllInPlace /\ Turns /\ HasRead(n) /\ CountedOnce(s) /\ s \in AllSessions
  BY Zenon DEF RouteInv, HandsRead, Counted, RouteTypes
<1>1. /\ hand[n].pc = "read" /\ send.kind # "disconnectUser"
      /\ UNCHANGED <<places, send, signal, stayed>> /\ hand' = [hand EXCEPT ![n] = NoHand]
  BY Zenon DEF HandleSend
<1>2. copies'[s] = copies[s] + (IF s \in hand[n].conns \cap manager[n] THEN 1 ELSE 0)
                             + (IF s \in hand[n].temps THEN 1 ELSE 0)
  BY <1>i, Zenon DEF HandleSend
<1>3. \A m \in Nodes : Due(s, m)' <=> Due(s, m)
  BY <1>1 DEF Due, Meant, Addressees, places
<1>4. /\ \A m \in Nodes \ {n} : hand'[m] = hand[m]
      /\ hand'[n].pc = "idle"
  BY <1>1, <1>i DEF RouteTypes, NoHand
<1>5. ~Busy(n)' /\ Busy(n) /\ \A m \in Nodes \ {n} : Busy(m)' <=> Busy(m)
  <2>h. hand[n] # NoHand
    BY <1>1 DEF NoHand
  <2>1. signal[n] = "no" /\ ~Ahead(n)
    BY <1>i, <2>h, Zenon DEF Turns
  <2>2. \A m \in Nodes : Ahead(m)' <=> Ahead(m)
    BY <1>1, Zenon DEF Ahead
  <2> QED
    BY <1>1, <1>4, <2>1, <2>2 DEF Busy
<1>u. /\ send.kind = "user" => Meant = UserSessions
      /\ hand[n].temps \subseteq UserSessions
  BY <1>i DEF Meant, Addressees, ToHolders, RouteTypes, HandT
<1>c. s \in hand[n].conns => s \in Meant
  BY <1>i, Zenon DEF HasRead
<1>t. s \in hand[n].temps => send.kind = "user" /\ s \in hub[n] /\ s \in Meant
  BY <1>i, <1>u, Zenon DEF HasRead
<1>6. CASE Due(s, n)
  <2>1. copies[s] = 0
    BY <1>i, <1>5, <1>6, ZenonT(40), SMTT(30) DEF CountedOnce
  <2>2. ASSUME s \in manager[n]
        PROVE  copies'[s] = 1
    <3>1. s \in hand[n].conns /\ s \notin hand[n].temps
      BY <1>i, <1>1, <1>6, <1>t, <2>2, DueOnce, ZenonT(40), SMTT(30) DEF HasRead, Due
    <3> QED
      BY <1>2, <2>1, <2>2, <3>1
  <2>3. ASSUME s \notin manager[n]
        PROVE  copies'[s] = 1
    <3>1. s \in hand[n].temps
      BY <1>i, <1>1, <1>6, <1>u, <2>3, ZenonT(40), SMTT(30) DEF HasRead, Due
    <3> QED
      BY <1>2, <2>1, <2>3, <3>1
  <2>4. copies'[s] = 1
    BY <2>2, <2>3
  <2>5. Got(s)' /\ Due(s, n)'
    BY <1>1, <1>3, <1>6, <2>4, Zenon DEF Got
  <2>6. \A m \in Nodes : Due(s, m)' => m = n
    BY <1>i, <1>3, <1>6, DueOnce, ZenonT(40), SMTT(30)
  <2>7. send'.pc # "local"
    BY <1>i, <1>1, <1>5 DEF Turns, Ahead, NoHand
  <2> QED
    BY <1>5, <2>5, <2>6, <2>7, Zenon DEF CountedOnce
<1>7. CASE ~Due(s, n)
  <2>1. s \notin hand[n].conns \cap manager[n] /\ s \notin hand[n].temps
    BY <1>7, <1>c, <1>t DEF Due
  <2>2. copies'[s] = copies[s]
    BY <1>2, <1>i, <2>1 DEF RouteTypes
  <2>3. Got(s)' <=> Got(s)
    BY <1>1, <2>2, Zenon DEF Got
  <2>4. send' = send
    BY <1>1, ZenonT(40), SMTT(30)
  <2> QED
    BY <1>i, <1>3, <1>5, <1>7, <2>2, <2>3, <2>4, ZenonT(40), SMTT(30) DEF CountedOnce
<1> QED
  BY <1>6, <1>7

\* A step of the send takes no container out of the send that is due one.
LEMMA SendQuiet ==
    ASSUME RouteInv, SendStep, NEW s \in stayed
    PROVE  /\ \A n \in Nodes : Due(s, n) /\ Due(s, n)' =>
                 /\ Busy(n)' => Busy(n)
                 /\ Busy(n) => Busy(n)' \/ send'.pc \in {"failed", "panic"}
                 /\ send'.pc = "local" => n \in send'.targets
           /\ send.pc \in {"failed", "panic"} => send'.pc \in {"failed", "panic"}
<1>i. RouteTypes /\ AllInPlace /\ Turns /\ CountedOnce(s) /\ s \in AllSessions
  BY Zenon DEF RouteInv, Counted, RouteTypes
<1>0. send.pc \in {"find", "local", "acting", "publish", "publishAll"}
  BY Zenon DEF SendStep, FindRecords, AskMemory, LocalActionDone, PublishDone, PublishToAll, PublishTo
<1>k. send.pc \in {"find", "local"} =>
         send.kind \in ToHolders /\ Meant = UserSessions
  BY <1>i DEF Turns, Meant, Addressees, ToHolders
<1>1. ASSUME NEW n \in Nodes, Due(s, n)
      PROVE  /\ Busy(n)' => Busy(n)
             /\ Busy(n) => Busy(n)' \/ send'.pc \in {"failed", "panic"}
             /\ send'.pc = "local" => n \in send'.targets
  <2>1. CASE Fails
    BY <2>1 DEF Fails, Busy, Ahead
  <2>2. CASE Finds
    <3>1. s \in UserSessions /\ actConn[s].holder = n /\ actConn[s].status # "none"
      BY <1>i, <1>k, <1>1, <2>2 DEF Finds, Due, AllInPlace, InPlace
    <3>2. n \in Holders
      BY <3>1 DEF Holders
    <3> QED
      BY <2>2, <3>2 DEF Finds, Busy, Ahead
  <2>3. CASE Asks
    <3>1. n \in send.targets /\ send.pc = "local"
      BY <1>i, <1>1, <2>3, ZenonT(40), SMTT(30) DEF CountedOnce, Asks
    <3>2. CASE n # Origin
      <4>1. n \in send'.targets /\ send'.pc \in {"acting", "publish"}
        BY <2>3, <3>1, <3>2, RoutingAssumption DEF Asks
      <4> QED
        BY <3>1, <4>1 DEF Busy, Ahead
    <3>3. CASE n = Origin
      <4>1. ActsHere(send.kind, Origin, send.targets)
        BY <1>1, <1>k, <3>1, <3>3 DEF ActsHere, Due
      <4>2. hand' = [hand EXCEPT ![Origin].pc = "begun"] /\ send'.pc = "acting"
        BY <2>3, <4>1, Zenon DEF Asks
      <4>3. hand'[n].pc = "begun"
        BY <1>i, <3>3, <4>2 DEF RouteTypes, HandT
      <4> QED
        BY <3>1, <4>2, <4>3 DEF Busy, Ahead
    <3> QED
      BY <3>2, <3>3
  <2>4. CASE Returns
    BY <2>4 DEF Returns, Busy, Ahead
  <2>5. CASE Ends
    BY <2>5 DEF Ends, Busy, Ahead
  <2>6. CASE PublishesAll
    BY <2>6 DEF PublishesAll, Busy, Ahead
  <2>7. ASSUME NEW m \in Nodes, Publishes(m)
        PROVE  (Busy(n)' <=> Busy(n)) /\ send'.pc # "local"
    BY <2>7 DEF Publishes, Busy, Ahead
  <2> QED
    BY <1>i, <2>1, <2>2, <2>3, <2>4, <2>5, <2>6, <2>7, SendMoves, ZenonT(40), SMTT(30)
<1> QED
  BY <1>0, <1>1

\* A handler's step that delivers nothing keeps a container busy, unless it
\* disconnects the sessions that are due there.
LEMMA HandlerQuiet ==
    ASSUME RouteInv, NEW n \in Nodes, HandlerStep(n), ~HandleSend(n), NEW s \in stayed
    PROVE  /\ \A m \in Nodes : Due(s, m) /\ Due(s, m)' =>
                 /\ Busy(m)' => Busy(m)
                 /\ Busy(m) => Busy(m)' \/ send'.pc \in {"failed", "panic"}
                 /\ send'.pc = "local" => m \in send'.targets
           /\ send.pc \in {"failed", "panic"} => send'.pc \in {"failed", "panic"}
           /\ copies'[s] = copies[s]
<1>i. RouteTypes /\ AllInPlace /\ HasRead(n) /\ CountedOnce(s) /\ s \in AllSessions
  BY Zenon DEF RouteInv, Counted, RouteTypes, HandsRead
<1>1. send' = send /\ copies' = copies
  BY <1>i, HandlerTypes, Zenon DEF HandlerStep, Dispatch, ReadsMeant, GetSessions, HandleDisconnect
<1>2. \A m \in Nodes : Ahead(m)' <=> Ahead(m)
  BY <1>1, Zenon DEF Ahead
<1>3. \A m \in Nodes \ {n} : Busy(m)' <=> Busy(m)
  BY <1>i, <1>2, HandlerMoves, Zenon DEF Begins, Works, Busy
<1>4. ASSUME Due(s, n), Due(s, n)'
      PROVE  Busy(n)' /\ Busy(n)
  <2>t. hand \in [Nodes -> HandT]
    BY <1>i, Zenon DEF RouteTypes
  <2>1. CASE Dispatch(n)
    BY <2>1, <2>t DEF Dispatch, Busy, HandT
  <2>2. CASE ReadsMeant(n)
    BY <2>2, <2>t DEF ReadsMeant, Busy, HandT
  <2>3. CASE GetSessions(n)
    BY <2>3, <2>t DEF GetSessions, Busy, HandT
  <2>4. ~HandleDisconnect(n)
    <3>1. SUFFICES ASSUME HandleDisconnect(n) PROVE FALSE
      OBVIOUS
    <3>2. send.kind = "disconnectUser" /\ hand[n].pc = "read"
      BY <3>1, ZenonT(40), SMTT(30) DEF HandleDisconnect
    <3>3. s \in manager[n] /\ s \in manager'[n] /\ s \in Meant
      BY <1>1, <1>4, <3>2 DEF Due
    <3>4. s \in hand[n].conns
      BY <1>i, <3>2, <3>3, Zenon DEF HasRead
    <3> QED
      BY <1>i, <3>1, <3>3, <3>4, DisconnectEffect, ZenonT(40), SMTT(30)
  <2> QED
    BY <2>1, <2>2, <2>3, <2>4, Zenon DEF HandlerStep
<1>5. ASSUME NEW m \in Nodes, Due(s, m), Due(s, m)'
      PROVE  /\ Busy(m)' <=> Busy(m)
             /\ send'.pc = "local" => m \in send'.targets
  BY <1>i, <1>1, <1>3, <1>4, <1>5, Zenon DEF CountedOnce
<1> QED
  BY <1>1, <1>5, Zenon

\* Every step keeps the account.
LEMMA CountStep ==
    ASSUME RouteInv, [RouteNext]_routeVars
    PROVE  Counted'
<1>i. RouteTypes /\ AllInPlace /\ StayedIsSettled /\ Turns /\ HandsRead /\ Counted
  BY Zenon DEF RouteInv
<1>s. \A s \in stayed : s \in AllSessions /\ CountedOnce(s)
  BY <1>i, Zenon DEF RouteTypes, Counted
<1>0. ASSUME UNCHANGED <<send, signal, hand, copies>>
      PROVE  Counted'
  <2>1. CASE send.pc = "none"
    <3>1. stayed' = {}
      BY <2>1, <1>0, <1>i, StayedStep, Zenon DEF StayedIsSettled
    <3> QED
      BY <2>1, <3>1, <1>0, <1>i, Zenon DEF Counted
  <2>2. CASE send.pc # "none"
    <3>1. \A n \in Nodes : Busy(n)' <=> Busy(n)
      BY <1>0, Zenon DEF Busy, Ahead
    <3>2. ASSUME NEW s \in stayed'
          PROVE  CountedOnce(s)'
      <4>1. s \in stayed
        BY <1>i, <2>2, StayedKeepsPlace, Zenon
      <4>2. CountedOnce(s)
        BY <1>s, <4>1, Zenon
      <4>3. send' = send /\ copies' = copies
        BY <1>0, Zenon
      <4>4. \A n \in Nodes : Due(s, n) /\ Due(s, n)' =>
               /\ Busy(n)' => Busy(n)
               /\ Busy(n) => Busy(n)' \/ send'.pc \in {"failed", "panic"}
               /\ send'.pc = "local" => n \in send'.targets
        BY <4>2, <4>3, <3>1, Zenon DEF CountedOnce
      <4>5. send.pc \in {"failed", "panic"} => send'.pc \in {"failed", "panic"}
        BY <4>3, Zenon
      <4>6. copies'[s] = copies[s]
        BY <4>3, Zenon
      <4> QED
        BY <2>2, <4>4, <4>5, <4>6, QuietCount, ZenonT(40), SMTT(30)
    <3> QED
      BY <2>2, <3>2, <1>0, Zenon DEF Counted
  <2> QED
    BY <2>1, <2>2
<1>1. ASSUME NEW s \in AllSessions, SessionStep(s)
      PROVE  Counted'
  BY <1>1, <1>0, <1>i, SessionEffect, Zenon DEF AllInPlace, SessionOutcome
<1>2. ASSUME NEW kind \in Kinds, NEW nil \in BOOLEAN, BeginSend(kind, nil)
      PROVE  Counted'
  <2>1. /\ send.pc = "none" /\ copies' = copies /\ send'.pc \in {"find", "panic", "publishAll"}
        /\ stayed' \subseteq AllSessions
    BY <1>2, <1>i, BeginTypes
  <2>2. \A s \in AllSessions : copies'[s] = 0
    BY <1>i, <2>1, ZenonT(40), SMTT(30) DEF Counted
  <2>3. ASSUME NEW s \in stayed'
        PROVE  CountedOnce(s)'
    BY <2>1, <2>2 DEF CountedOnce, Busy, Ahead
  <2> QED
    BY <2>1, <2>2, <2>3, ZenonT(40), SMTT(30) DEF Counted
<1>3. CASE SendStep
  <2>1. send.pc # "none" /\ send'.pc # "none"
    BY <1>3, <1>i, GoesOn, Zenon
       DEF SendStep, FindRecords, AskMemory, LocalActionDone, PublishDone, PublishToAll, PublishTo
  <2>2. ASSUME NEW s \in stayed'
        PROVE  CountedOnce(s)'
    <3>1. s \in stayed
      BY <1>i, <2>1, StayedKeepsPlace, Zenon
    <3>2. copies' = copies
      BY <1>3, <1>i, SendTypes, Zenon
    <3> QED
      BY <1>3, <2>1, <3>1, <3>2, SendQuiet, QuietCount, Zenon
  <2> QED
    BY <2>1, <2>2, Zenon DEF Counted
<1>4. ASSUME NEW n \in Nodes, HandlerStep(n)
      PROVE  Counted'
  <2>0. NoHand.pc = "idle"
    BY DEF NoHand
  <2>1. send.pc # "none"
    BY <1>4, <1>i, <2>0, HandlerMoves, Zenon DEF Begins, Works, Turns, Ahead
  <2>3. send'.pc # "none" /\ stayed' = stayed
    BY <1>4, <1>i, <2>1, GoesOn, HandlerTypes, ZenonT(40), SMTT(30)
  <2>2. ASSUME NEW s \in stayed
        PROVE  CountedOnce(s)'
    <3>1. CASE HandleSend(n)
      BY <3>1, HandleCount, Zenon
    <3>2. CASE ~HandleSend(n)
      BY <1>4, <2>1, <2>3, <3>2, HandlerQuiet, QuietCount, Zenon
    <3> QED
      BY <3>1, <3>2
  <2> QED
    BY <2>3, <2>2, Zenon DEF Counted
<1>5. CASE UNCHANGED routeVars
  BY <1>5, <1>0, Zenon DEF routeVars
<1> QED
  BY <1>1, <1>2, <1>3, <1>4, <1>5, RouteCases, Zenon

\* Nothing has been sent.
LEMMA InitRouteInv ==
    ASSUME RouteInit
    PROVE  RouteInv
<1> USE RoutingAssumption DEF RouteInit, Absent, NoSend, NoHand
<1>1. RouteTypes
  BY DEF RouteTypes, RecordT, SendT, SendPcs, HandT, Kinds, ToHolders, AllSessions, Authenticated
<1>2. AllInPlace
  BY DEF AllInPlace, InPlace
<1>3. StayedIsSettled /\ Turns /\ Counted
  BY DEF StayedIsSettled, Turns, Ahead, Counted
<1>4. HandsRead
  BY DEF HandsRead, HasRead
<1> QED
  BY <1>1, <1>2, <1>3, <1>4, ZenonT(40), SMTT(30) DEF RouteInv

\* A send that is over has given what was expected.
LEMMA InvGivesCopies ==
    ASSUME RouteInv
    PROVE  StayingSessionGetsItsCopy
<1>i. RouteTypes /\ AllInPlace /\ StayedIsSettled /\ Turns /\ HandsRead /\ Counted
  BY Zenon DEF RouteInv
<1>1. RouteTypeOK
  BY <1>i DEF RouteTypes, RouteTypeOK, RecordT, SendT, HandT
<1>2. ASSUME NEW s \in stayed
      PROVE  /\ copies[s] <= Expected(s)
             /\ SendIsOver =>
                   /\ copies[s] = Expected(s)
                   /\ send.kind = "disconnectUser" /\ s \in UserSessions => ~Connected(s)
  <2>1. CountedOnce(s)
    BY <1>i, Zenon DEF Counted
  <2>2. Expected(s) = IF send.kind # "disconnectUser" /\ \E n \in Nodes : Due(s, n) THEN 1 ELSE 0
    BY DEF Expected, Due, Meant, Connected, RememberedSomewhere
  <2>3. copies[s] = 0 \/ (copies[s] = 1 /\ Expected(s) = 1)
    BY <2>1, <2>2 DEF CountedOnce, Got
  <2>4. ASSUME SendIsOver, NEW n \in Nodes, Due(s, n)
        PROVE  Got(s)
    <3>1. ~Busy(n) /\ send.pc = "done"
      BY <2>4 DEF SendIsOver, NothingRuns, NoHand, Busy, Ahead
    <3>2. Busy(n) \/ Got(s) \/ send.pc \in {"failed", "panic"}
      BY <2>1, <2>4, Zenon DEF CountedOnce
    <3> QED
      BY <3>1, <3>2
  <2>5. ASSUME SendIsOver
        PROVE  copies[s] = Expected(s)
    BY <2>2, <2>3, <2>4, <2>5 DEF Got
  <2>6. ASSUME SendIsOver, send.kind = "disconnectUser", s \in UserSessions, Connected(s)
        PROVE  FALSE
    <3>1. Meant = UserSessions
      BY <2>6 DEF Meant, Addressees, ToHolders
    <3>2. PICK n \in Nodes : s \in manager[n]
      BY <2>6, Zenon DEF Connected
    <3>3. Due(s, n)
      BY <2>6, <3>1, <3>2, Zenon DEF Due
    <3> QED
      BY <2>4, <2>6, <3>3, Zenon DEF Got
  <2>7. copies[s] <= Expected(s)
    BY <2>2, <2>3
  <2> QED
    BY <2>5, <2>6, <2>7, Zenon
<1> QED
  BY <1>1, <1>2, Zenon DEF StayingSessionGetsItsCopy

\* A session that does not move while SendToUser, the other sends or
\* DisconnectUser run is reached exactly once if the message is for it and else
\* never, for any containers, sessions and moves of the other sessions.
THEOREM StayingSessionGetsItsCopyThm == RouteInit /\ [][RouteNext]_routeVars => []StayingSessionGetsItsCopy
<1>1. RouteInv /\ [RouteNext]_routeVars => RouteInv'
  <2>1. SUFFICES ASSUME RouteInv, [RouteNext]_routeVars
                 PROVE  RouteInv'
    OBVIOUS
  <2>2. RouteTypes /\ AllInPlace /\ StayedIsSettled /\ Turns
    BY <2>1, Zenon DEF RouteInv
  <2> QED
    BY <2>1, <2>2, RouteTypeStep, PlaceStep, StayedStep, TurnStep, ReadStep, CountStep, Zenon DEF
       RouteInv
<1> QED
  BY <1>1, InitRouteInv, InvGivesCopies, PTL

-----------------------------------------------------------------------------
(***************************************************************************)
(* Stores: what a deletion owes is somewhere until it is deleted, and a    *)
(* listing in PostgreSQL finds what the lookups find.                      *)
(***************************************************************************)

\* Keys of items, the two tables, and what a listing and a deletion hold.
Everything == Keys \cup Stamps
StoreTables == {"active_connections", "pending_messages"}
DeletionNames == {"cleanUpConnections", "cleanUpMessages", "deleteUpTo", "deleteAll"}
WhatT == [name : DeletionNames, max : Stamps \cup {0}]
ListT == [kind : {"list"}, todo : SUBSET StoreUsers, found : SUBSET Keys, failed : BOOLEAN,
          steady : SUBSET Keys]
DeleteT == [kind : {"delete"}, what : WhatT, phase : {"read", "write", "done"}, ok : BOOLEAN,
            pages : SUBSET Everything, keys : SUBSET Everything, chunk : SUBSET Everything,
            tries : Nat, left : SUBSET Everything, due : SUBSET Everything]

\* The types, and that a heartbeat is not in the future.
StoreTypes ==
    /\ StoreTypeOK /\ table \in StoreTables
    /\ \A k \in DOMAIN records : records[k].lastHeartbeat <= clock
    /\ op = NoOp \/ op \in ListT \/ op \in DeleteT
    /\ op.kind = "delete" => (op.what.name = "cleanUpConnections" <=> table = "active_connections")

\* What a deletion owes and has not deleted is on a page it has not read, among
\* the keys it has read, in the batch it writes, or in what was given up.
DueIsKept ==
    op.kind = "delete" =>
        /\ op.phase = "read" =>
              \A k \in op.due : k \in Items =>
                 k \in SettledItems /\ Matches(op.what, k) /\ k \in op.pages \cup op.keys
        /\ op.phase = "read" => op.chunk = {} /\ op.left = {}
        /\ op.phase = "write" =>
              \A k \in op.due : k \in Items => k \in op.keys \cup op.chunk \cup op.left
        /\ op.phase = "done" /\ op.ok => \A k \in op.due : k \notin Items

\* The inductive invariant.
StoreInv == StoreTypes /\ DueIsKept

\* An operation is what its kind says.
LEMMA KindOfOperation ==
    ASSUME StoreTypes
    PROVE  /\ op.kind = "delete" => op \in DeleteT
           /\ op.kind = "list" => op \in ListT
<1>1. op = NoOp \/ op \in ListT \/ op \in DeleteT
  BY Zenon DEF StoreTypes
<1>2. NoOp.kind = "none"
  BY DEF NoOp
<1>3. op \in ListT => op.kind = "list"
  BY Zenon DEF ListT
<1>4. op \in DeleteT => op.kind = "delete"
  BY Zenon DEF DeleteT
<1> QED
  BY <1>1, <1>2, <1>3, <1>4
(* Writes beside the deletion *)

\* The writes of other calls.
WriteStep ==
    \/ \E k \in Keys, h \in StoreHolders : AddConnection(k, h)
    \/ \E k \in Keys : UpdateHeartBeat(k) \/ UpdateStatusTransferring(k)
                       \/ RemoveConnection(k) \/ NativeTTLDeletes(k)
    \/ \E k \in Keys : UpdateStatus(k, "tempDisconnected")
    \/ \E s \in Stamps : Create(s) \/ Settles(s)
    \/ ClockTick

\* The types of the tables.
DataTypes ==
    /\ StoreTypeOK /\ table \in StoreTables
    /\ \A k \in DOMAIN records : records[k].lastHeartbeat <= clock

\* A record that is not written by the step has the fields that a deletion looks at.
OldRecord(k) ==
    k \in DOMAIN records' =>
        k \in DOMAIN records /\ records'[k].lastHeartbeat = records[k].lastHeartbeat
OldRow(s) ==
    s \in DOMAIN rows' =>
        /\ s \in DOMAIN rows /\ rows'[s].expiresAt = rows[s].expiresAt
        /\ rows[s].settled => rows'[s].settled

\* A write touches one item, which no deletion owes any more, or removes it.
WriteOutcome ==
    /\ table' = table /\ clock <= clock' /\ clock' \in Nat
    /\ \/ op' = op /\ \A k : OldRecord(k) /\ OldRow(k)
       \/ \E x \in Everything : Excuse(x) /\ \A k : k # x => OldRecord(k) /\ OldRow(k)
       \/ (\E ks \in SUBSET Keys : op' = Unsteady(ks)) /\ \A k : OldRecord(k) /\ OldRow(k)

\* A table that the step leaves alone has its old records and rows.
LEMMA Untouched ==
    /\ records' = records => \A k : OldRecord(k)
    /\ rows' = rows => \A k : OldRow(k)
BY Zenon DEF OldRecord, OldRow

\* The clock, of a step that does not tick, has not gone back.
LEMMA ClockStays ==
    ASSUME StoreTypes, clock' = clock
    PROVE  clock <= clock' /\ clock' \in Nat
BY StoreAssumption DEF StoreTypes, StoreTypeOK

\* Writing a good record keeps the types, and changes no other record.
LEMMA PutKeeps ==
    ASSUME StoreTypes, NEW k \in Keys, NEW r \in Record, Put(k, r),
           r.connectedAt <= r.lastHeartbeat, r.lastHeartbeat <= clock,
           UNCHANGED <<backend, table, clock, rows>>
    PROVE  /\ DataTypes' /\ \A j : j # k => OldRecord(j) /\ OldRow(j)
           /\ OldRow(k) /\ records'[k] = r
<1>1. records' = [j \in DOMAIN records \cup {k} |-> IF j = k THEN r ELSE records[j]]
  BY Zenon DEF Put
<1>2. DOMAIN records' = DOMAIN records \cup {k} /\ records'[k] = r
  BY <1>1, Zenon
<1>3. ASSUME NEW j, j # k, j \in DOMAIN records'
      PROVE  j \in DOMAIN records /\ records'[j] = records[j]
  BY <1>1, <1>2, <1>3, Zenon
<1>4. ASSUME NEW j \in DOMAIN records'
      PROVE  /\ records'[j] \in Record
             /\ records'[j].connectedAt <= records'[j].lastHeartbeat /\ records'[j].lastHeartbeat <= clock
  <2>1. CASE j = k
    BY <1>2, <2>1, Zenon
  <2>2. CASE j # k
    BY <1>3, <2>2, Zenon DEF StoreTypes, StoreTypeOK
  <2> QED
    BY <2>1, <2>2
<1>5. DOMAIN records' \subseteq Keys
  BY <1>2, Zenon DEF StoreTypes, StoreTypeOK
<1>6. DataTypes'
  BY <1>4, <1>5, Zenon DEF DataTypes, StoreTypes, StoreTypeOK
<1>7. \A j : OldRow(j)
  BY Untouched, Zenon
<1>8. ASSUME NEW j, j # k
      PROVE  OldRecord(j)
  BY <1>3, <1>8, Zenon DEF OldRecord
<1> QED
  BY <1>2, <1>6, <1>7, <1>8, Zenon

\* What the types say of one record.
LEMMA RecordTypes ==
    ASSUME StoreTypes, NEW k \in DOMAIN records
    PROVE  /\ records[k] \in Record
           /\ records[k].connectedAt \in Nat /\ records[k].lastHeartbeat \in Nat /\ clock \in Nat
           /\ records[k].connectedAt <= records[k].lastHeartbeat /\ records[k].lastHeartbeat <= clock
           /\ records[k].connectedAt <= clock
<1>1. /\ records[k] \in Record
      /\ records[k].connectedAt <= records[k].lastHeartbeat /\ records[k].lastHeartbeat <= clock
  BY Zenon DEF StoreTypes, StoreTypeOK
<1>2. records[k].connectedAt \in 0..MaxClock /\ records[k].lastHeartbeat \in 0..MaxClock
  BY <1>1, Zenon DEF Record
<1>3. clock \in Nat
  BY StoreAssumption DEF StoreTypes, StoreTypeOK
<1> QED
  BY <1>1, <1>2, <1>3, StoreAssumption

\* A write that touches one record or row, and lets a deletion off it.
LEMMA ExcusedOutcome ==
    ASSUME StoreTypes, NEW x \in Everything, Excuse(x), UNCHANGED <<table, clock>>,
           \A k : k # x => OldRecord(k) /\ OldRow(k)
    PROVE  WriteOutcome
BY ClockStays, Zenon DEF WriteOutcome

\* Every write has that outcome.
LEMMA WriteEffect ==
    ASSUME StoreTypes, WriteStep
    PROVE  DataTypes' /\ WriteOutcome
<1>c. clock \in 0..MaxClock /\ clock \in Nat /\ clock <= clock
  BY StoreAssumption DEF StoreTypes, StoreTypeOK
<1>1. ASSUME NEW k \in Keys, NEW h \in StoreHolders, AddConnection(k, h)
      PROVE  DataTypes' /\ WriteOutcome
  <2>1. Put(k, Claimed(k, h)) /\ Excuse(k) /\ UNCHANGED <<backend, table, clock, rows>>
    BY <1>1, Zenon DEF AddConnection
  <2> DEFINE since == IF k \in DOMAIN records THEN records[k].connectedAt ELSE clock
  <2>2. since \in 0..MaxClock /\ since <= clock
    <3>1. CASE k \in DOMAIN records
      BY <1>c, <3>1, RecordTypes, StoreAssumption
    <3>2. CASE k \notin DOMAIN records
      BY <1>c, <3>2
    <3> QED
      BY <3>1, <3>2
  <2>3. Claimed(k, h) = [holder |-> h, status |-> "connected", lastHeartbeat |-> clock, connectedAt |-> since]
    BY Zenon DEF Claimed
  <2> HIDE DEF since
  <2>4. /\ Claimed(k, h) \in Record
        /\ Claimed(k, h).connectedAt = since /\ Claimed(k, h).lastHeartbeat = clock
    BY <1>c, <2>2, <2>3 DEF Record
  <2>5. Claimed(k, h).connectedAt <= Claimed(k, h).lastHeartbeat /\ Claimed(k, h).lastHeartbeat <= clock
    BY <1>c, <2>2, <2>4
  <2> QED
    BY <2>1, <2>4, <2>5, PutKeeps, ExcusedOutcome, Zenon DEF Everything
<1>2. ASSUME NEW k \in Keys, UpdateHeartBeat(k)
      PROVE  DataTypes' /\ WriteOutcome
  <2>1. /\ k \in DOMAIN records /\ Put(k, Refreshed(records[k]))
        /\ Excuse(k) /\ UNCHANGED <<backend, table, clock, rows>>
    BY <1>2, Zenon DEF UpdateHeartBeat
  <2>2. records[k] \in Record /\ records[k].connectedAt <= clock
    BY <2>1, RecordTypes
  <2>3. /\ Refreshed(records[k]) \in Record
        /\ Refreshed(records[k]).connectedAt = records[k].connectedAt
        /\ Refreshed(records[k]).lastHeartbeat = clock
    BY <1>c, <2>2, Zenon DEF Record, Refreshed
  <2>4. /\ Refreshed(records[k]).connectedAt <= Refreshed(records[k]).lastHeartbeat
        /\ Refreshed(records[k]).lastHeartbeat <= clock
    BY <1>c, <2>2, <2>3
  <2> QED
    BY <2>1, <2>3, <2>4, PutKeeps, ExcusedOutcome, Zenon DEF Everything
<1>s. ASSUME NEW k \in Keys, k \in DOMAIN records, NEW r \in Record, Put(k, r),
             r.connectedAt = records[k].connectedAt, r.lastHeartbeat = records[k].lastHeartbeat,
             UNCHANGED <<backend, table, clock, rows, op>>
      PROVE  DataTypes' /\ WriteOutcome
  <2>1. r.connectedAt <= r.lastHeartbeat /\ r.lastHeartbeat <= clock
    BY <1>s, RecordTypes
  <2>2. /\ DataTypes' /\ \A j : j # k => OldRecord(j) /\ OldRow(j)
        /\ OldRow(k) /\ records'[k] = r
    BY <1>s, <2>1, PutKeeps, Zenon
  <2>3. OldRecord(k)
    BY <1>s, <2>2, Zenon DEF OldRecord
  <2>4. \A j : OldRecord(j) /\ OldRow(j)
    BY <2>2, <2>3, Zenon
  <2> QED
    BY <1>s, <2>2, <2>4, ClockStays, Zenon DEF WriteOutcome
<1>3. ASSUME NEW k \in Keys, UpdateStatusTransferring(k)
      PROVE  DataTypes' /\ WriteOutcome
  <2>1. /\ k \in DOMAIN records /\ Put(k, Transferred(records[k]))
        /\ UNCHANGED <<backend, table, clock, rows, op>>
    BY <1>3, Zenon DEF UpdateStatusTransferring
  <2>2. records[k] \in Record
    BY <2>1, RecordTypes
  <2>3. /\ Transferred(records[k]) \in Record
        /\ Transferred(records[k]).connectedAt = records[k].connectedAt
        /\ Transferred(records[k]).lastHeartbeat = records[k].lastHeartbeat
    BY <2>2, Zenon DEF Record, Transferred
  <2> QED
    BY <1>s, <2>1, <2>3, Zenon
<1>4. ASSUME NEW k \in Keys, RemoveConnection(k) \/ NativeTTLDeletes(k)
      PROVE  DataTypes' /\ WriteOutcome
  <2>1. /\ records' = [j \in DOMAIN records \ {k} |-> records[j]] /\ op' = Unsteady({k})
        /\ UNCHANGED <<backend, table, clock, rows>>
    BY <1>4, Zenon DEF RemoveConnection, NativeTTLDeletes, RemoveKeys
  <2>2. DOMAIN records' = DOMAIN records \ {k} /\ \A j \in DOMAIN records' : records'[j] = records[j]
    BY <2>1, Zenon
  <2>3. DataTypes'
    BY <2>1, <2>2, Zenon DEF DataTypes, StoreTypes, StoreTypeOK
  <2>4. \A j : OldRecord(j) /\ OldRow(j)
    BY <2>1, <2>2, Untouched, Zenon DEF OldRecord
  <2> QED
    BY <2>1, <2>3, <2>4, ClockStays, Zenon DEF WriteOutcome
<1>5. ASSUME NEW k \in Keys, UpdateStatus(k, "tempDisconnected")
      PROVE  DataTypes' /\ WriteOutcome
  <2> DEFINE r == WithStatus(records[k], "tempDisconnected")
  <2>1. k \in DOMAIN records /\ Put(k, r) /\ UNCHANGED <<backend, table, clock, rows, op>>
    BY <1>5, Zenon DEF UpdateStatus
  <2>2. records[k] \in Record
    BY <2>1, RecordTypes
  <2>3. r \in Record /\ r.connectedAt = records[k].connectedAt /\ r.lastHeartbeat = records[k].lastHeartbeat
    BY <2>2, Zenon DEF Record, WithStatus
  <2> QED
    BY <1>s, <2>1, <2>3, Zenon
<1>6. ASSUME NEW s \in Stamps, Create(s)
      PROVE  DataTypes' /\ WriteOutcome
  <2> DEFINE new == [expiresAt |-> clock + PendingMsgTTL, settled |-> backend = "postgres"]
  <2>1. /\ rows' = [t \in DOMAIN rows \cup {s} |-> IF t = s THEN new ELSE rows[t]]
        /\ Excuse(s) /\ UNCHANGED <<backend, table, clock, records>>
    BY <1>6, Zenon DEF Create
  <2>2. clock + PendingMsgTTL \in 0..(MaxClock + PendingMsgTTL)
    BY <1>c, StoreAssumption
  <2>3. new \in Row
    BY <2>2, Zenon DEF Row
  <2> HIDE DEF new
  <2>4. /\ DOMAIN rows' = DOMAIN rows \cup {s} /\ rows'[s] = new
        /\ \A t \in DOMAIN rows' : t # s => t \in DOMAIN rows /\ rows'[t] = rows[t]
    BY <2>1, Zenon
  <2>5. DataTypes'
    BY <2>1, <2>3, <2>4, Zenon DEF DataTypes, StoreTypes, StoreTypeOK
  <2>6. \A t : t # s => OldRecord(t) /\ OldRow(t)
    BY <2>1, <2>4, Untouched, Zenon DEF OldRow
  <2> QED
    BY <2>1, <2>5, <2>6, ExcusedOutcome, Zenon DEF Everything
<1>7. ASSUME NEW s \in Stamps, Settles(s)
      PROVE  DataTypes' /\ WriteOutcome
  <2>1. /\ UNCHANGED <<backend, table, clock, records, op>> /\ s \in DOMAIN rows
        /\ rows' = [rows EXCEPT ![s].settled = TRUE]
    BY <1>7, Zenon DEF Settles
  <2>2. rows[s] \in Row /\ DOMAIN rows' = DOMAIN rows /\ rows'[s] = [rows[s] EXCEPT !.settled = TRUE]
    BY <2>1, Zenon DEF StoreTypes, StoreTypeOK
  <2>3. rows'[s] \in Row /\ rows'[s].expiresAt = rows[s].expiresAt /\ rows'[s].settled
    BY <2>2, Zenon DEF Row
  <2>4. \A t \in DOMAIN rows : t # s => rows'[t] = rows[t]
    BY <2>1, Zenon
  <2>5. DataTypes'
    BY <2>1, <2>2, <2>3, <2>4, Zenon DEF DataTypes, StoreTypes, StoreTypeOK
  <2>6. \A t : OldRecord(t) /\ OldRow(t)
    BY <2>1, <2>2, <2>3, <2>4, Untouched, ZenonT(40), SMTT(30) DEF OldRow
  <2> QED
    BY <2>1, <2>5, <2>6, ClockStays, Zenon DEF WriteOutcome
<1>8. CASE ClockTick
  <2>1. /\ clock < MaxClock /\ clock' = clock + 1 /\ UNCHANGED <<backend, table, records, rows>>
        /\ op' = Unsteady(Keys \ GetInstanceConnection')
    BY <1>8, Zenon DEF ClockTick
  <2>2. clock' \in 0..MaxClock /\ clock' \in Nat /\ clock <= clock'
    BY <1>c, <2>1, StoreAssumption
  <2>3. ASSUME NEW k \in DOMAIN records
        PROVE  records[k].lastHeartbeat <= clock'
    BY <1>c, <2>1, RecordTypes
  <2>4. DataTypes'
    BY <2>1, <2>2, <2>3, Zenon DEF DataTypes, StoreTypes, StoreTypeOK
  <2>5. \E ks \in SUBSET Keys : op' = Unsteady(ks)
    BY <2>1
  <2> QED
    BY <2>1, <2>2, <2>4, <2>5, Untouched, Zenon DEF WriteOutcome
<1> QED
  BY <1>1, <1>2, <1>3, <1>4, <1>5, <1>6, <1>7, <1>8, ZenonT(40), SMTT(30) DEF WriteStep

\* What a deletion owes stays as it was found, whatever is written beside it.
LEMMA WriteKeeps ==
    ASSUME StoreTypes, op.kind = "delete", WriteOutcome
    PROVE  /\ op' \in DeleteT /\ op'.due \subseteq op.due
           /\ op' = [op EXCEPT !.due = op'.due]
           /\ \A k \in op'.due : k \in Items' =>
                 /\ k \in Items
                 /\ k \in SettledItems => k \in SettledItems'
                 /\ Matches(op.what, k) => Matches(op.what, k)'
<1>t. op \in DeleteT
  BY KindOfOperation, Zenon
<1>1. op' = op \/ \E x \in Everything : op' = [op EXCEPT !.due = @ \ {x}]
  BY <1>t DEF WriteOutcome, Excuse, Unsteady
<1>2. op' \in DeleteT /\ op'.due \subseteq op.due /\ op' = [op EXCEPT !.due = op'.due]
  <2>1. CASE op' = op
    BY <1>t, <2>1 DEF DeleteT
  <2>2. ASSUME NEW x \in Everything, op' = [op EXCEPT !.due = @ \ {x}]
        PROVE  op' \in DeleteT /\ op'.due \subseteq op.due /\ op' = [op EXCEPT !.due = op'.due]
    BY <1>t, <2>2 DEF DeleteT
  <2> QED
    BY <1>1, <2>1, <2>2
<1>3. ASSUME NEW k \in op'.due
      PROVE  OldRecord(k) /\ OldRow(k)
  <2>1. ASSUME NEW x \in Everything, Excuse(x)
        PROVE  k # x
    BY <1>t, <1>3, <2>1 DEF Excuse, DeleteT
  <2> QED
    BY <2>1, Zenon DEF WriteOutcome
<1>4. ASSUME NEW k \in op'.due, k \in Items'
      PROVE  /\ k \in Items
             /\ k \in SettledItems => k \in SettledItems'
             /\ Matches(op.what, k) => Matches(op.what, k)'
  <2>1. OldRecord(k) /\ OldRow(k) /\ table' = table /\ clock <= clock' /\ clock' \in Nat
    BY <1>3, <1>4, Zenon DEF WriteOutcome
  <2>2. k \in Items /\ (k \in SettledItems => k \in SettledItems')
    BY <1>4, <2>1 DEF Items, SettledItems, OldRecord, OldRow
  <2>3. ASSUME k \in ExpiredRecords, table = "active_connections"
        PROVE  k \in ExpiredRecords'
    <3>1. k \in DOMAIN records' /\ k \in DOMAIN records /\ records'[k].lastHeartbeat = records[k].lastHeartbeat
      BY <1>4, <2>1, <2>3 DEF Items, OldRecord
    <3>2. records[k].lastHeartbeat \in Nat /\ clock \in Nat
      BY <3>1, StoreAssumption DEF StoreTypes, StoreTypeOK, Record
    <3> QED
      BY <2>1, <2>3, <3>1, <3>2, StoreAssumption DEF ExpiredRecords, Expired
  <2>4. ASSUME k \in ExpiredRows, table = "pending_messages"
        PROVE  k \in ExpiredRows'
    <3>1. k \in DOMAIN rows' /\ k \in DOMAIN rows /\ rows'[k].expiresAt = rows[k].expiresAt
      BY <1>4, <2>1, <2>4 DEF Items, OldRow
    <3>2. rows[k].expiresAt \in Nat /\ clock \in Nat
      BY <3>1, StoreAssumption DEF StoreTypes, StoreTypeOK, Row
    <3> QED
      BY <2>1, <2>4, <3>1, <3>2 DEF ExpiredRows
  <2>5. /\ op'.what = op.what /\ op.what.name \in DeletionNames
        /\ op.what.name = "cleanUpConnections" => table = "active_connections"
        /\ op.what.name = "cleanUpMessages" => table = "pending_messages"
    BY <1>t, <1>2 DEF DeleteT, WhatT, StoreTypes, StoreTables
  <2>6. Matches(op.what, k) => Matches(op.what, k)'
    BY <2>3, <2>4, <2>5, Zenon DEF Matches, DeletionNames
  <2> QED
    BY <2>2, <2>6
<1> QED
  BY <1>2, <1>4

\* A write keeps the invariant.
LEMMA WriteInv ==
    ASSUME StoreInv, WriteStep
    PROVE  StoreInv'
<1>i. StoreTypes /\ DueIsKept
  BY DEF StoreInv
<1>1. DataTypes' /\ WriteOutcome
  BY <1>i, WriteEffect, Zenon
<1>2. CASE op.kind = "delete"
  <2>1. /\ op' \in DeleteT /\ op'.due \subseteq op.due /\ op' = [op EXCEPT !.due = op'.due]
        /\ \A k \in op'.due : k \in Items' =>
                 /\ k \in Items
                 /\ k \in SettledItems => k \in SettledItems'
                 /\ Matches(op.what, k) => Matches(op.what, k)'
    BY <1>i, <1>1, <1>2, WriteKeeps, Zenon
  <2>2. /\ op'.kind = op.kind /\ op'.phase = op.phase /\ op'.what = op.what /\ op'.ok = op.ok
        /\ op'.pages = op.pages /\ op'.keys = op.keys /\ op'.chunk = op.chunk /\ op'.left = op.left
    <3>1. op \in DeleteT
      BY <1>i, <1>2, KindOfOperation, Zenon
    <3> QED
      BY <2>1, <3>1 DEF DeleteT
  <2>3. StoreTypes'
    BY <1>1, <1>i, <2>1, <2>2, Zenon DEF StoreTypes, DataTypes, WriteOutcome
  <2>4. DueIsKept'
    BY <1>i, <1>2, <2>1, <2>2 DEF DueIsKept
  <2> QED
    BY <2>3, <2>4 DEF StoreInv
<1>3. CASE op.kind # "delete"
  <2>1. op = NoOp \/ op \in ListT
    BY <1>i, <1>3 DEF StoreTypes, DeleteT
  <2>2. op' = op \/ (op \in ListT /\ \E ks \in SUBSET Keys : op' = [op EXCEPT !.steady = @ \ ks])
    BY <1>1, <1>3, <2>1 DEF WriteOutcome, Excuse, Unsteady, NoOp
  <2>3. (op' = NoOp \/ op' \in ListT) /\ op'.kind # "delete"
    BY <2>1, <2>2 DEF ListT, NoOp
  <2> QED
    BY <1>1, <2>3, Zenon DEF StoreInv, StoreTypes, DataTypes, DueIsKept
<1> QED
  BY <1>2, <1>3

(* Listings *)

\* The steps of a listing.
ListStep ==
    \/ \E us \in SUBSET StoreUsers : BeginListing(us)
    \/ \E u \in StoreUsers : DynamoListsUser(u)
    \/ PostgresLists \/ ListingFails \/ OperationOver

\* Listings write nothing.
LEMMA ListInv ==
    ASSUME StoreInv, ListStep
    PROVE  StoreInv'
<1>i. StoreTypes
  BY DEF StoreInv
<1>1. UNCHANGED <<backend, table, clock, records, rows>>
  BY Zenon DEF ListStep, BeginListing, DynamoListsUser, PostgresLists, ListingFails, OperationOver
<1>2. DataTypes'
  BY <1>i, <1>1 DEF StoreTypes, StoreTypeOK, DataTypes
<1>3. op' = NoOp \/ op' \in ListT
  <2>1. GetInstanceConnection \subseteq Keys /\ DOMAIN records \subseteq Keys
    BY <1>i DEF StoreTypes, StoreTypeOK, GetInstanceConnection
  <2>2. ASSUME NEW us \in SUBSET StoreUsers, BeginListing(us)
        PROVE  op' \in ListT
    BY <2>1, <2>2 DEF BeginListing, ListT
  <2>3. ASSUME op.kind = "list"
        PROVE  op \in ListT
    BY <1>i, <2>3, KindOfOperation, Zenon
  <2>4. ASSUME NEW u \in StoreUsers, DynamoListsUser(u)
        PROVE  op' \in ListT
    BY <2>1, <2>3, <2>4, Zenon DEF DynamoListsUser, QueryByUserID, ListT
  <2>5. ASSUME PostgresLists
        PROVE  op' \in ListT
    BY <2>1, <2>3, <2>5, Zenon DEF PostgresLists, SelectByUserIDs, ListT
  <2>6. ASSUME ListingFails
        PROVE  op' \in ListT
    BY <2>3, <2>6, Zenon DEF ListingFails, ListT
  <2> QED
    BY <2>2, <2>4, <2>5, <2>6, ZenonT(40), SMTT(30) DEF ListStep, OperationOver
<1>4. op'.kind # "delete"
  BY <1>3 DEF NoOp, ListT
<1> QED
  BY <1>2, <1>3, <1>4, Zenon DEF StoreInv, StoreTypes, DataTypes, DueIsKept
(* Deletions *)

\* A deletion is of the table it names.
Fits(what) == what \in WhatT /\ (what.name = "cleanUpConnections" <=> table = "active_connections")

\* The steps of a deletion in DynamoDB that delete nothing.
DeletionStep ==
    \/ ReadPageFails \/ ReadEnds \/ NextChunk
    \/ BatchWriteItemFails \/ ChunkGivenUp \/ DeletionReturns

\* Every deletion that begins looks at its own table.
LEMMA DeletionBegins ==
    ASSUME StoreTypes,
           \/ CleanUpExpiredConnections \/ CleanUpExpiredPendingMessages \/ DeleteAll
           \/ \E s \in Stamps : DeleteUpTo(s)
    PROVE  \E what : Fits(what) /\ Deletes(what)
<1>1. CASE CleanUpExpiredConnections
  <2>1. Fits([name |-> "cleanUpConnections", max |-> 0])
    BY <1>1 DEF CleanUpExpiredConnections, Fits, WhatT, DeletionNames
  <2> QED
    BY <1>1, <2>1, Zenon DEF CleanUpExpiredConnections
<1>2. CASE CleanUpExpiredPendingMessages
  <2>1. Fits([name |-> "cleanUpMessages", max |-> 0])
    BY <1>2 DEF CleanUpExpiredPendingMessages, Fits, WhatT, DeletionNames
  <2> QED
    BY <1>2, <2>1, Zenon DEF CleanUpExpiredPendingMessages
<1>3. CASE DeleteAll
  <2>1. Fits([name |-> "deleteAll", max |-> 0])
    BY <1>3 DEF DeleteAll, Fits, WhatT, DeletionNames
  <2> QED
    BY <1>3, <2>1, Zenon DEF DeleteAll
<1>4. ASSUME NEW s \in Stamps, DeleteUpTo(s)
      PROVE  \E what : Fits(what) /\ Deletes(what)
  <2>1. Fits([name |-> "deleteUpTo", max |-> s])
    BY <1>4 DEF DeleteUpTo, Fits, WhatT, DeletionNames
  <2> QED
    BY <1>4, <2>1, Zenon DEF DeleteUpTo
<1> QED
  BY <1>1, <1>2, <1>3, <1>4

\* Removing items leaves the others as they were.
LEMMA DeleteItemsKeeps ==
    ASSUME StoreTypes, NEW ks, DeleteItems(ks), UNCHANGED <<backend, table, clock>>
    PROVE  DataTypes' /\ Items' = Items \ ks
BY DEF StoreTypes, StoreTypeOK, DataTypes, DeleteItems, RemoveKeys, Items

\* PostgreSQL deletes in one statement all that it owes.
LEMMA PostgresInv ==
    ASSUME StoreInv, NEW what, Fits(what), PostgresDeletes(what)
    PROVE  StoreInv'
<1> DEFINE ks == {k \in Items : Matches(what, k)}
<1>i. StoreTypes
  BY DEF StoreInv
<1>1. DeleteItems(ks) /\ UNCHANGED <<backend, table, clock>>
  BY Zenon DEF PostgresDeletes
<1>2. DataTypes' /\ Items' = Items \ ks
  BY <1>i, <1>1, DeleteItemsKeeps, ZenonT(40), SMTT(30)
<1>3. ks \subseteq Everything
  BY <1>i DEF StoreTypes, StoreTypeOK, Items, Everything
<1>4. op' \in DeleteT /\ op'.phase = "done" /\ op'.due = ks /\ op'.what = what
  BY <1>3, Zenon DEF PostgresDeletes, DeleteT, Fits
<1>5. StoreTypes'
  BY <1>1, <1>2, <1>4, Zenon DEF StoreTypes, DataTypes, Fits
<1>6. DueIsKept'
  BY <1>2, <1>4, Zenon DEF DueIsKept
<1> QED
  BY <1>5, <1>6 DEF StoreInv

\* A deletion in DynamoDB begins with all pages to read.
LEMMA DynamoInv ==
    ASSUME StoreInv, NEW what, Fits(what), BeginDynamoDeletion(what)
    PROVE  StoreInv'
<1> DEFINE ks == {k \in SettledItems : Matches(what, k)}
<1>i. StoreTypes
  BY DEF StoreInv
<1>1. UNCHANGED <<backend, table, clock, records, rows>>
  BY ZenonT(40), SMTT(30) DEF BeginDynamoDeletion
<1>2. DataTypes' /\ Items' = Items /\ SettledItems' = SettledItems
  BY <1>i, <1>1 DEF StoreTypes, StoreTypeOK, DataTypes, Items, SettledItems
<1>3. /\ ks \subseteq Items
      /\ Items \subseteq IF table = "active_connections" THEN Keys ELSE Stamps
  BY <1>i DEF StoreTypes, StoreTypeOK, Items, SettledItems
<1>4. /\ op' \in DeleteT /\ op'.phase = "read" /\ op'.due = ks /\ op'.what = what
      /\ op'.chunk = {} /\ op'.left = {}
      /\ op'.pages = IF table = "active_connections" THEN Keys ELSE Stamps
  BY <1>3 DEF BeginDynamoDeletion, DeleteT, Fits, Everything
<1>5. StoreTypes'
  BY <1>1, <1>2, <1>4, Zenon DEF StoreTypes, DataTypes, Fits
<1>6. \A k \in ks : Matches(op'.what, k) /\ (Matches(op.what, k)' <=> Matches(op'.what, k))
  BY <1>1, <1>4, Zenon DEF Matches, ExpiredRecords, ExpiredRows, Expired
<1>7. DueIsKept'
  BY <1>2, <1>3, <1>4, <1>6, Zenon DEF DueIsKept
<1> QED
  BY <1>5, <1>7 DEF StoreInv

\* A page leaves what it matches among the keys.
LEMMA PageInv ==
    ASSUME StoreInv, NEW p, ReadPage(p)
    PROVE  StoreInv'
<1>i. StoreTypes /\ DueIsKept
  BY DEF StoreInv
<1>1. Reading /\ p \in op.pages /\ UNCHANGED <<backend, table, clock, records, rows>>
  BY Zenon DEF ReadPage
<1>t. op \in DeleteT
  BY <1>i, <1>1, KindOfOperation, Zenon DEF Reading
<1>2. PICK seen \in IF p \in Items /\ p \notin SettledItems THEN BOOLEAN ELSE {p \in Items} :
         op' = [op EXCEPT !.pages = @ \ {p},
                          !.keys = IF seen /\ Matches(op.what, p) THEN @ \cup {p} ELSE @]
  BY Zenon DEF ReadPage
<1>3. /\ op' \in DeleteT /\ op'.phase = "read" /\ op'.what = op.what /\ op'.due = op.due
      /\ op'.chunk = op.chunk /\ op'.left = op.left
      /\ op'.pages = op.pages \ {p}
      /\ op'.keys = IF seen /\ Matches(op.what, p) THEN op.keys \cup {p} ELSE op.keys
  BY <1>1, <1>2, <1>t, ZenonT(40), SMTT(30) DEF DeleteT, Reading
<1>4. DataTypes' /\ Items' = Items /\ SettledItems' = SettledItems
  BY <1>i, <1>1 DEF StoreTypes, StoreTypeOK, DataTypes, Items, SettledItems
<1>5. StoreTypes'
  <2>1. op.kind = "delete"
    BY <1>1, ZenonT(40), SMTT(30) DEF Reading
  <2> QED
    BY <1>i, <1>1, <1>3, <1>4, <2>1, Zenon DEF StoreTypes, DataTypes
<1>6. ASSUME NEW k \in op'.due, k \in Items'
      PROVE  k \in SettledItems' /\ Matches(op.what, k)' /\ k \in op'.pages \cup op'.keys
  <2>1. k \in SettledItems /\ Matches(op.what, k) /\ k \in op.pages \cup op.keys
    BY <1>i, <1>1, <1>3, <1>4, <1>6, Zenon DEF DueIsKept, Reading
  <2>2. Matches(op.what, k)'
    BY <1>1, <1>3, <2>1, Zenon DEF Matches, ExpiredRecords, ExpiredRows, Expired
  <2>3. k = p => seen
    BY <1>2, <1>4, <1>6, <2>1
  <2> QED
    BY <1>3, <1>4, <2>1, <2>2, <2>3
<1>7. DueIsKept'
  BY <1>i, <1>1, <1>3, <1>6, Zenon DEF DueIsKept, Reading
<1> QED
  BY <1>5, <1>7 DEF StoreInv

\* A step of a deletion that deletes nothing itself.
LEMMA DeletionInv ==
    ASSUME StoreInv, DeletionStep
    PROVE  StoreInv'
<1>i. StoreTypes /\ DueIsKept
  BY DEF StoreInv
<1>1. UNCHANGED <<backend, table, clock, records, rows>> /\ op.kind = "delete"
  BY Zenon DEF DeletionStep, ReadPageFails, ReadEnds, NextChunk, BatchWriteItemFails, ChunkGivenUp,
               DeletionReturns, Reading, Writing
<1>t. op \in DeleteT
  BY <1>i, <1>1, KindOfOperation, ZenonT(40), SMTT(30)
<1>2. DataTypes' /\ Items' = Items
  BY <1>i, <1>1 DEF StoreTypes, StoreTypeOK, DataTypes, Items
<1> DEFINE Goal == op' \in DeleteT /\ op'.what = op.what /\ DueIsKept'
<1>3. ASSUME ReadPageFails
      PROVE  Goal
  BY <1>i, <1>t, <1>3, ZenonT(40), SMTT(30) DEF ReadPageFails, DeleteT, DueIsKept
<1>4. ASSUME ReadEnds
      PROVE  Goal
  <2>1. op.phase = "read" /\ \A k \in op.due : k \in Items => k \in op.keys
    BY <1>i, <1>1, <1>4 DEF ReadEnds, Reading, DueIsKept
  <2>2. op' = [op EXCEPT !.phase = IF op.keys = {} THEN "done" ELSE "write"]
    BY <1>4, Zenon DEF ReadEnds
  <2>3. /\ op' \in DeleteT /\ op'.what = op.what /\ op'.due = op.due /\ op'.keys = op.keys
        /\ op'.phase = IF op.keys = {} THEN "done" ELSE "write"
    BY <1>t, <2>2 DEF DeleteT
  <2> QED
    BY <1>2, <2>1, <2>3 DEF DueIsKept
<1>5. ASSUME NextChunk
      PROVE  Goal
  <2>1. PICK c \in SUBSET op.keys : op' = [op EXCEPT !.keys = @ \ c, !.chunk = c, !.tries = 0]
    BY <1>5, Zenon DEF NextChunk, kSubset
  <2>2. op.chunk = {} /\ op.phase = "write"
    BY <1>5, Zenon DEF NextChunk, Writing
  <2>3. /\ op' \in DeleteT /\ op'.what = op.what /\ op'.due = op.due /\ op'.keys = op.keys \ c
        /\ op'.chunk = c /\ op'.left = op.left /\ op'.phase = "write"
    BY <1>t, <2>1, <2>2, ZenonT(40), SMTT(30) DEF DeleteT
  <2> QED
    BY <1>i, <1>1, <1>2, <2>2, <2>3, Zenon DEF DueIsKept
<1>6. ASSUME BatchWriteItemFails \/ ChunkGivenUp
      PROVE  Goal
  <2>1. /\ op' \in DeleteT /\ op'.what = op.what /\ op'.due = op.due /\ op'.keys = op.keys
        /\ op'.chunk = {} /\ op'.left = op.left \cup op.chunk /\ op'.phase = "write" /\ op.phase = "write"
    <3> DEFINE rest == op.left \cup op.chunk
    <3>1. rest \in SUBSET Everything /\ {} \in SUBSET Everything
      BY <1>t DEF DeleteT
    <3>2. op.phase = "write"
      BY <1>6, Zenon DEF BatchWriteItemFails, ChunkGivenUp, Writing
    <3>3. \/ op' = [op EXCEPT !.left = rest, !.chunk = {}, !.ok = FALSE]
          \/ op' = [op EXCEPT !.left = rest, !.chunk = {}]
      BY <1>6, Zenon DEF BatchWriteItemFails, ChunkGivenUp
    <3> HIDE DEF rest
    <3>4. CASE op' = [op EXCEPT !.left = rest, !.chunk = {}, !.ok = FALSE]
      <4>1. op' \in DeleteT
        BY <1>t, <3>1, <3>4, Zenon DEF DeleteT
      <4>2. /\ op'.what = op.what /\ op'.due = op.due /\ op'.keys = op.keys /\ op'.chunk = {}
            /\ op'.left = rest /\ op'.phase = op.phase
        BY <1>t, <3>4, Zenon DEF DeleteT
      <4> QED
        BY <3>2, <4>1, <4>2 DEF rest
    <3>5. CASE op' = [op EXCEPT !.left = rest, !.chunk = {}]
      <4>1. op' \in DeleteT
        BY <1>t, <3>1, <3>5, Zenon DEF DeleteT
      <4>2. /\ op'.what = op.what /\ op'.due = op.due /\ op'.keys = op.keys /\ op'.chunk = {}
            /\ op'.left = rest /\ op'.phase = op.phase
        BY <1>t, <3>5, ZenonT(40), SMTT(30) DEF DeleteT
      <4> QED
        BY <3>2, <4>1, <4>2 DEF rest
    <3> QED
      BY <3>3, <3>4, <3>5, Zenon
  <2> QED
    BY <1>i, <1>1, <1>2, <2>1 DEF DueIsKept
<1>7. ASSUME DeletionReturns
      PROVE  Goal
  <2>1. /\ op' \in DeleteT /\ op'.what = op.what /\ op'.due = op.due
        /\ op'.phase = "done" /\ op.phase = "write" /\ op.keys = {} /\ op.chunk = {}
        /\ op'.ok => op.left = {}
    BY <1>t, <1>7, Zenon DEF DeletionReturns, DeleteT, Writing
  <2> QED
    BY <1>i, <1>1, <1>2, <2>1 DEF DueIsKept
<1>8. Goal
  BY <1>3, <1>4, <1>5, <1>6, <1>7, Zenon DEF DeletionStep
<1> QED
  BY <1>i, <1>1, <1>2, <1>8, Zenon DEF StoreInv, StoreTypes, DataTypes

\* A batch: what it deletes is gone, and the rest stays in the chunk.
LEMMA BatchInv ==
    ASSUME StoreInv, NEW done, BatchWriteItem(done)
    PROVE  StoreInv'
<1>i. StoreTypes /\ DueIsKept
  BY DEF StoreInv
<1>1. /\ op.kind = "delete" /\ op.phase = "write" /\ done \subseteq op.chunk
      /\ DeleteItems(done) /\ UNCHANGED <<backend, table, clock>>
  BY Zenon DEF BatchWriteItem, Writing
<1>t. op \in DeleteT
  BY <1>i, <1>1, KindOfOperation, Zenon
<1>2. DataTypes' /\ Items' = Items \ done
  BY <1>i, <1>1, DeleteItemsKeeps, Zenon
<1>3. /\ op' \in DeleteT /\ op'.what = op.what /\ op'.due = op.due /\ op'.keys = op.keys
      /\ op'.chunk = op.chunk \ done /\ op'.left = op.left /\ op'.phase = "write"
  <2>1. op' = [op EXCEPT !.chunk = @ \ done, !.tries = @ + 1]
    BY Zenon DEF BatchWriteItem
  <2>2. op.tries + 1 \in Nat /\ op.chunk \ done \in SUBSET Everything
    BY <1>t DEF DeleteT
  <2> QED
    BY <1>t, <1>1, <2>1, <2>2, Zenon DEF DeleteT
<1>4. DueIsKept'
  BY <1>i, <1>1, <1>2, <1>3, Zenon DEF DueIsKept
<1> QED
  BY <1>i, <1>1, <1>2, <1>3, <1>4, Zenon DEF StoreInv, StoreTypes, DataTypes

\* The steps, as the proofs tell them apart.
LEMMA StoreCases ==
    ASSUME StoreTypes, StoreNext
    PROVE  \/ WriteStep \/ ListStep \/ DeletionStep
           \/ \E what : Fits(what) /\ Deletes(what)
           \/ \E k : ReadPage(k)
           \/ \E done : BatchWriteItem(done)
<1>1. StoreUsers \in SUBSET StoreUsers /\ \A u \in StoreUsers : {u} \in SUBSET StoreUsers
  OBVIOUS
<1>2. ASSUME \/ \E u \in StoreUsers : \/ GetActiveConnections(u) \/ CountActiveConnections(u)
                                     \/ DynamoListsUser(u)
             \/ \E us \in SUBSET StoreUsers :
                   GetActiveConnectionsByUserIDs(us) \/ CountActiveConnectionsBatch(us)
             \/ CountTotalActiveConnections
      PROVE  ListStep
  BY <1>1, <1>2, Zenon
     DEF GetActiveConnections, CountActiveConnections, GetActiveConnectionsByUserIDs,
         CountActiveConnectionsBatch, CountTotalActiveConnections, ListStep
<1> QED
  BY <1>2, DeletionBegins, Zenon DEF StoreNext, WriteStep, ListStep, DeletionStep

\* StoreInv is inductive.
LEMMA StoreInvStep ==
    ASSUME StoreInv, [StoreNext]_storeVars
    PROVE  StoreInv'
<1>1. CASE StoreNext
  <2>1. StoreTypes
    BY DEF StoreInv
  <2> QED
    BY <1>1, <2>1, StoreCases, WriteInv, ListInv, DeletionInv, PostgresInv, DynamoInv, PageInv,
       BatchInv, ZenonT(40), SMTT(30) DEF Deletes
<1>2. CASE UNCHANGED storeVars
  BY <1>2, Zenon DEF storeVars, StoreInv, StoreTypes, StoreTypeOK, DueIsKept, Items, SettledItems,
     Matches, ExpiredRecords, ExpiredRows, Expired
<1> QED
  BY <1>1, <1>2

\* No operation runs at first.
LEMMA StoreInitially == StoreInit => StoreInv /\ op.kind = "none"
<1> SUFFICES ASSUME StoreInit
             PROVE  StoreInv /\ op.kind = "none"
  OBVIOUS
<1>1. op = NoOp /\ op.kind = "none"
  BY Zenon DEF StoreInit, NoOp
<1>2. StoreTypeOK /\ table \in StoreTables /\ \A k \in DOMAIN records : records[k].lastHeartbeat <= clock
  BY StoreAssumption DEF StoreInit, StoreTypeOK, StoreTables
<1> QED
  BY <1>1, <1>2 DEF StoreInv, StoreTypes, DueIsKept

\* A deletion that returns without an error has left nothing behind of what it
\* owed, in PostgreSQL and over the pages, batches and retries of
\* RecursiveBatchWriteItem in DynamoDB, for any items and limits.
THEOREM QuietReturnMeansGoneThm == StoreSpec => []QuietReturnMeansGone
<1>1. StoreInv => QuietReturnMeansGone
  BY DEF StoreInv, StoreTypes, DueIsKept, QuietReturnMeansGone
<1> QED
  BY StoreInitially, <1>1, StoreInvStep, PTL DEF StoreSpec

(* Listings in PostgreSQL *)

\* What a listing owes is found by the lookup of a single session while it runs.
SteadyIsFound ==
    op.kind = "list" =>
        /\ op.todo # {} => \A k \in op.steady : k[1] \in op.todo /\ k \in GetInstanceConnection
        /\ op.todo = {} /\ ~op.failed => op.steady \subseteq op.found

\* That holds in PostgreSQL; DynamoDB's query has another condition.
PostgresListed == backend = "postgres" => SteadyIsFound

\* A write loses no session that a listing owes.
LEMMA WriteListed ==
    ASSUME StoreTypes, PostgresListed, WriteStep
    PROVE  PostgresListed'
<1>b. SUFFICES ASSUME backend' = "postgres", op'.kind = "list"
               PROVE  SteadyIsFound'
  BY Zenon DEF PostgresListed, SteadyIsFound
<1>0. WriteOutcome /\ backend' = backend
  BY WriteEffect, Zenon DEF WriteStep, AddConnection, UpdateHeartBeat, UpdateStatusTransferring,
     RemoveConnection, NativeTTLDeletes, UpdateStatus, Create, Settles, ClockTick
<1>t. op \in ListT
  BY <1>b, <1>0 DEF WriteOutcome, Excuse, Unsteady, StoreTypes, NoOp, DeleteT
<1>1. SteadyIsFound /\ op.kind = "list"
  BY <1>b, <1>0, <1>t DEF PostgresListed, ListT
<1>2. CASE op.todo = {}
  BY <1>0, <1>1, <1>2 DEF WriteOutcome, Excuse, Unsteady, SteadyIsFound
<1>3. ASSUME op.todo # {}
      PROVE  SteadyIsFound'
  <2>g. /\ GetInstanceConnection = {k \in DOMAIN records : PostgresFinds(records[k])}
        /\ GetInstanceConnection' = {k \in DOMAIN records' : PostgresFinds(records[k])'}
    BY <1>b, <1>0 DEF GetInstanceConnection
  <2>1. ASSUME op' = op, GetInstanceConnection \subseteq GetInstanceConnection'
        PROVE  SteadyIsFound'
    BY <1>1, <1>3, <2>1 DEF SteadyIsFound
  <2>2. ASSUME NEW ks, op' = Unsteady(ks), GetInstanceConnection \ ks \subseteq GetInstanceConnection'
        PROVE  SteadyIsFound'
    <3>1. op'.todo = op.todo /\ op'.steady = op.steady \ ks
      BY <1>1, <1>3, <1>t, <2>2 DEF Unsteady, ListT
    <3> QED
      BY <1>1, <1>3, <2>2, <3>1 DEF SteadyIsFound
  <2> USE StoreAssumption DEF StoreTypes, StoreTypeOK, PostgresFinds, Cutoff, Record
  <2>3. ASSUME NEW k \in Keys, NEW h \in StoreHolders, AddConnection(k, h)
        PROVE  SteadyIsFound'
    BY <1>1, <2>1, <2>3, <2>g DEF AddConnection, Put, Claimed, Excuse
  <2>4. ASSUME NEW k \in Keys, UpdateHeartBeat(k)
        PROVE  SteadyIsFound'
    BY <1>1, <2>1, <2>4, <2>g DEF UpdateHeartBeat, Put, Refreshed, Excuse
  <2>5. ASSUME NEW k \in Keys, UpdateStatusTransferring(k)
        PROVE  SteadyIsFound'
    BY <2>1, <2>5, <2>g DEF UpdateStatusTransferring, Put, Transferred
  <2>6. ASSUME NEW k \in Keys, RemoveConnection(k) \/ NativeTTLDeletes(k)
        PROVE  SteadyIsFound'
    BY <2>2, <2>6, <2>g DEF RemoveConnection, NativeTTLDeletes, RemoveKeys
  <2>7. ASSUME NEW k \in Keys, UpdateStatus(k, "tempDisconnected")
        PROVE  SteadyIsFound'
    BY <2>1, <2>7, <2>g DEF UpdateStatus, Put, WithStatus
  <2>8. ASSUME NEW s \in Stamps, Create(s) \/ Settles(s)
        PROVE  SteadyIsFound'
    BY <1>1, <2>1, <2>8, <2>g DEF Create, Settles, Excuse
  <2>9. CASE ClockTick
    BY <2>2, <2>9, <2>g DEF ClockTick
  <2> QED
    BY <2>3, <2>4, <2>5, <2>6, <2>7, <2>8, <2>9, ZenonT(40), SMTT(30) DEF WriteStep
<1> QED
  BY <1>2, <1>3

\* The statement of a listing finds what the lookups find.
LEMMA ListListed ==
    ASSUME StoreTypes, PostgresListed, ListStep
    PROVE  PostgresListed'
<1>b. SUFFICES ASSUME backend = "postgres", backend' = "postgres", SteadyIsFound
               PROVE  SteadyIsFound'
  BY Zenon DEF PostgresListed, ListStep, BeginListing, DynamoListsUser, PostgresLists, ListingFails,
     OperationOver
<1>g. /\ GetInstanceConnection = {k \in DOMAIN records : PostgresFinds(records[k])}
      /\ records' = records /\ clock' = clock => GetInstanceConnection' = GetInstanceConnection
  <2>1. backend # "dynamodb" /\ backend' # "dynamodb"
    BY <1>b
  <2>2. /\ GetInstanceConnection = {k \in DOMAIN records : PostgresFinds(records[k])}
        /\ GetInstanceConnection' = {k \in DOMAIN records : PostgresFinds(records[k])}'
    BY <2>1, Zenon DEF GetInstanceConnection
  <2> QED
    BY <2>2, Zenon DEF PostgresFinds, Cutoff
<1>l. op.kind = "list" => op \in ListT
  BY KindOfOperation, ZenonT(40), SMTT(30)
<1>1. ASSUME NEW us \in SUBSET StoreUsers, BeginListing(us)
      PROVE  SteadyIsFound'
  BY <1>1, <1>g DEF BeginListing, SteadyIsFound
<1>2. ASSUME NEW u \in StoreUsers, DynamoListsUser(u)
      PROVE  FALSE
  BY <1>2, <1>b DEF DynamoListsUser
<1>3. CASE PostgresLists
  <2>1. /\ op'.todo = {} /\ op'.steady = op.steady /\ op'.found = SelectByUserIDs(op.todo)
        /\ op.kind = "list" /\ op.todo # {}
    BY <1>3, <1>l DEF PostgresLists, ListT
  <2> QED
    BY <1>b, <1>g, <2>1, Zenon DEF SteadyIsFound, SelectByUserIDs
<1>4. CASE ListingFails
  BY <1>4, <1>l DEF ListingFails, SteadyIsFound, ListT
<1>5. CASE OperationOver
  BY <1>5 DEF OperationOver, SteadyIsFound, NoOp
<1> QED
  BY <1>1, <1>2, <1>3, <1>4, <1>5, Zenon DEF ListStep

\* A deletion is no listing.
LEMMA DeletionListed ==
    ASSUME StoreTypes,
           \/ DeletionStep \/ (\E what : Deletes(what)) \/ (\E k : ReadPage(k))
           \/ \E done : BatchWriteItem(done)
    PROVE  PostgresListed'
<1>1. op.kind = "delete" => op \in DeleteT
  BY KindOfOperation, Zenon
<1>2. ASSUME NEW what, Deletes(what)
      PROVE  op'.kind = "delete"
  <2>1. CASE PostgresDeletes(what)
    BY <2>1, Zenon DEF PostgresDeletes
  <2>2. CASE BeginDynamoDeletion(what)
    BY <2>2, Zenon DEF BeginDynamoDeletion
  <2> QED
    BY <1>2, <2>1, <2>2, Zenon DEF Deletes
<1>3. ASSUME NEW k, ReadPage(k)
      PROVE  op'.kind = "delete"
  BY <1>1, <1>3, Zenon DEF ReadPage, Reading, DeleteT
<1>4. ASSUME NEW done, BatchWriteItem(done)
      PROVE  op'.kind = "delete"
  BY <1>1, <1>4, Zenon DEF BatchWriteItem, Writing, DeleteT
<1>5. ASSUME DeletionStep
      PROVE  op'.kind = "delete"
  BY <1>1, <1>5, ZenonT(40), SMTT(30) DEF DeletionStep, ReadPageFails, ReadEnds, NextChunk,
     BatchWriteItemFails, ChunkGivenUp, DeletionReturns, Reading, Writing, DeleteT
<1>6. op'.kind = "delete"
  BY <1>2, <1>3, <1>4, <1>5, Zenon
<1> QED
  BY <1>6 DEF PostgresListed, SteadyIsFound

\* In PostgreSQL a listing that ends without an error has found every session
\* that a lookup found all the time; the stores_dynamodb run shows that DynamoDB's
\* does not.
THEOREM PostgresListsThm == StoreSpec => [](backend = "postgres" => ListsEverySteadySession)
<1>1. StoreInit => StoreInv /\ PostgresListed
  BY StoreInitially DEF PostgresListed, SteadyIsFound
<1>2. StoreInv /\ PostgresListed /\ [StoreNext]_storeVars => (StoreInv /\ PostgresListed)'
  <2>1. SUFFICES ASSUME StoreInv, PostgresListed, [StoreNext]_storeVars
                 PROVE  PostgresListed'
    BY StoreInvStep, Zenon
  <2>2. StoreTypes
    BY <2>1 DEF StoreInv
  <2>3. CASE StoreNext
    BY <2>1, <2>2, <2>3, StoreCases, WriteListed, ListListed, DeletionListed, ZenonT(40), SMTT(30)
  <2>4. CASE UNCHANGED storeVars
    BY <2>1, <2>4, Zenon DEF storeVars, PostgresListed, SteadyIsFound, GetInstanceConnection,
       PostgresFinds, GetByUserAndSession, Cutoff
  <2> QED
    BY <2>1, <2>3, <2>4
<1>3. PostgresListed => (backend = "postgres" => ListsEverySteadySession)
  BY Zenon DEF PostgresListed, SteadyIsFound, ListsEverySteadySession
<1> QED
  BY <1>1, <1>2, <1>3, PTL DEF StoreSpec
=============================================================================
