-------------------------- MODULE Calls_proofs --------------------------
(***************************************************************************)
(* Proofs about the calls a container makes and waits for: the acks of its *)
(* clients (AckManager), the synchronous hooks of its backend              *)
(* (SyncCallbacks) and the queue of asynchronous events (AsyncCallbacks),  *)
(* for any number of containers, calls and events and any thresholds.      *)
(***************************************************************************)
EXTENDS AckManager, SyncCallbacks, AsyncCallbacks, TLAPS

\* A leaf that names no prover is tried with these, in this order.
USE SMTT(20), ZenonT(30), Z3T(30)

-----------------------------------------------------------------------------
(***************************************************************************)
(* AckManager.                                                             *)
(*                                                                         *)
(* The argument follows one channel.  It is in the pending map of the      *)
(* caller's container and of no other, or it has left that map by          *)
(* ResolveAck or Shutdown and is then closed, once, by the goroutine that  *)
(* removed it.  While the caller waits, the channel can only have left the *)
(* map because a client's ACK was handled or because of Shutdown.          *)
(***************************************************************************)

\* A pending channel belongs to a call in progress on that container, and
\* nobody has closed it or is about to.
PendingIsOwned ==
    \A c \in Containers : \A a \in pending[c] :
        /\ c = src[a]
        /\ call[a] \in {"created", "waiting"}
        /\ closing[a] = 0
        /\ closes[a] = 0

\* The channel of a call in progress is pending or has a closer.
WaitedForOrClosed ==
    \A a \in AckIDs :
        call[a] \in {"created", "waiting"} =>
            /\ src[a] \in Containers
            /\ a \in pending[src[a]] \/ closing[a] + closes[a] = 1

\* Before CreateAck nothing knows the ack id.
UnknownBeforeCreate ==
    \A a \in AckIDs :
        call[a] = "none" =>
            /\ src[a] = NoContainer
            /\ closing[a] + closes[a] = 0
            /\ result[a] = "none"
            /\ a \notin sent
            /\ \A c \in Containers : SendMsg(c, a) \notin net

\* Everything that can resolve an ack from another container descends from a
\* client's ACK of a frame that was sent, and names the caller's container.
ResolvedByClient ==
    /\ clientAcked \subseteq sent
    /\ routed \subseteq clientAcked
    /\ \A c \in Containers : unrouted[c] \subseteq clientAcked
    /\ \A c \in Containers, a \in AckIDs : remoteAcks[c][a] \in {src[a], NoContainer}
    /\ \A c \in Containers, a \in AckIDs :
          AckResolvedMsg(c, a) \in net => a \in clientAcked /\ c = src[a]

\* While the call is in progress, its channel was taken by a client's ACK or
\* by a shutdown of the caller's container.
TakenByClientOrShutdown ==
    \A a \in AckIDs :
        call[a] # "returned" /\ closing[a] + closes[a] > 0 =>
            a \in clientAcked \/ src[a] \in down

IInv ==
    /\ TypeOK
    /\ ChannelClosedOnce
    /\ PendingIsOwned
    /\ WaitedForOrClosed
    /\ UnknownBeforeCreate
    /\ ResolvedByClient
    /\ TakenByClientOrShutdown
    /\ AckedOnlyByClientOrShutdown
    /\ RoutedAckReachesCaller

USE DEF caller, channels, ghosts, vars, allVars

\* The initial state, in which no call has been made, satisfies the invariant.
LEMMA InitIInv == Init => IInv
  BY NoContainerAssumption
     DEF Init, IInv, TypeOK, ChannelClosedOnce, PendingIsOwned, WaitedForOrClosed,
         UnknownBeforeCreate, ResolvedByClient, TakenByClientOrShutdown,
         AckedOnlyByClientOrShutdown, RoutedAckReachesCaller, SendMsg,
         AckResolvedMsg, Messages

\* ResolveAck without its branch: the entry is gone afterwards, and there is
\* one more goroutine to close the channel exactly if there was an entry.
LEMMA ResolveAckEffect ==
  ASSUME TypeOK, NEW c \in Containers, NEW a \in AckIDs, ResolveAck(c, a)
  PROVE  /\ pending' = [pending EXCEPT ![c] = @ \ {a}]
         /\ closing' = [closing EXCEPT ![a] = IF a \in pending[c] THEN @ + 1 ELSE @]
<1>1. CASE a \in pending[c]
  BY <1>1, Zenon DEF ResolveAck
<1>2. CASE a \notin pending[c]
  BY <1>2 DEF ResolveAck, TypeOK
<1> QED
  BY <1>1, <1>2, Zenon

\* RegisterRemoteAck writes one entry, and the written value is a container.
LEMMA RegisterRemoteAckEffect ==
  ASSUME TypeOK, NEW c \in Containers, NEW a \in AckIDs, RegisterRemoteAck(c, a)
  PROVE  /\ remoteAcks' \in [Containers -> [AckIDs -> Containers \cup {NoContainer}]]
         /\ \A d \in Containers, b \in AckIDs :
               remoteAcks'[d][b] \in {src[b], remoteAcks[d][b]}
<1>1. remoteAcks' = [remoteAcks EXCEPT ![c] = [remoteAcks[c] EXCEPT ![a] = src[a]]]
  BY Zenon DEF RegisterRemoteAck
<1>2. [remoteAcks[c] EXCEPT ![a] = src[a]] \in [AckIDs -> Containers \cup {NoContainer}]
  BY Zenon DEF TypeOK
<1>3. \A b \in AckIDs : [remoteAcks[c] EXCEPT ![a] = src[a]][b] \in {src[b], remoteAcks[c][b]}
  BY Zenon DEF TypeOK
<1> HIDE DEF RegisterRemoteAck
<1> QED
  BY <1>1, <1>2, <1>3, Zenon DEF TypeOK

\* Every step of the callers, handlers, subscribers and of Shutdown keeps it.
LEMMA NextIInv == IInv /\ [Next]_allVars => IInv'
<1> SUFFICES ASSUME IInv, [Next]_allVars PROVE IInv'
  BY Zenon
<1> USE NoContainerAssumption DEF SendMsg, AckResolvedMsg, Messages
<1>1. ASSUME NEW a \in AckIDs, CloseChannel(a)
      PROVE  IInv'
  <2>1. TypeOK'
    BY <1>1 DEF CloseChannel, IInv, TypeOK
  <2>2. ChannelClosedOnce'
    BY <1>1 DEF CloseChannel, IInv, TypeOK, ChannelClosedOnce, PendingIsOwned
  <2>3. PendingIsOwned'
    BY <1>1 DEF CloseChannel, IInv, TypeOK, PendingIsOwned, ChannelClosedOnce, UnknownBeforeCreate
  <2>4. WaitedForOrClosed'
    BY <1>1 DEF CloseChannel, IInv, TypeOK, WaitedForOrClosed, PendingIsOwned
  <2>5. UnknownBeforeCreate'
    BY <1>1 DEF CloseChannel, IInv, TypeOK, UnknownBeforeCreate, PendingIsOwned, ResolvedByClient
  <2>6. ResolvedByClient'
    BY <1>1, ZenonT(40), SMTT(30) DEF CloseChannel, IInv, TypeOK, ResolvedByClient,
       UnknownBeforeCreate, WaitedForOrClosed
  <2>7. TakenByClientOrShutdown'
    BY <1>1 DEF CloseChannel, IInv, TypeOK, TakenByClientOrShutdown, PendingIsOwned, ResolvedByClient
  <2>8. AckedOnlyByClientOrShutdown'
    BY <1>1, ZenonT(40), SMTT(30) DEF CloseChannel, IInv, TypeOK, AckedOnlyByClientOrShutdown,
       TakenByClientOrShutdown, UnknownBeforeCreate
  <2>9. RoutedAckReachesCaller'
    BY <1>1 DEF CloseChannel, IInv, TypeOK, RoutedAckReachesCaller, ChannelClosedOnce, PendingIsOwned,
       WaitedForOrClosed, ResolvedByClient, UnknownBeforeCreate
  <2> QED
    BY <2>1, <2>2, <2>3, <2>4, <2>5, <2>6, <2>7, <2>8, <2>9, ZenonT(40), SMTT(30) DEF IInv
<1>2. ASSUME NEW c \in Containers, Shutdown(c)
      PROVE  IInv'
  <2>1. TypeOK'
    BY <1>2 DEF Shutdown, IInv, TypeOK
  <2>2. ChannelClosedOnce'
    BY <1>2 DEF Shutdown, IInv, TypeOK, ChannelClosedOnce, PendingIsOwned
  <2>3. PendingIsOwned'
    BY <1>2 DEF Shutdown, IInv, TypeOK, PendingIsOwned, ChannelClosedOnce, UnknownBeforeCreate
  <2>4. WaitedForOrClosed'
    BY <1>2 DEF Shutdown, IInv, TypeOK, WaitedForOrClosed, PendingIsOwned
  <2>5. UnknownBeforeCreate'
    BY <1>2, Zenon DEF Shutdown, IInv, TypeOK, UnknownBeforeCreate, PendingIsOwned, ResolvedByClient
  <2>6. ResolvedByClient'
    BY <1>2, ZenonT(40), SMTT(30) DEF Shutdown, IInv, TypeOK, ResolvedByClient, UnknownBeforeCreate,
       WaitedForOrClosed
  <2>7. TakenByClientOrShutdown'
    BY <1>2, Zenon DEF Shutdown, IInv, TypeOK, TakenByClientOrShutdown, PendingIsOwned, ResolvedByClient
  <2>8. AckedOnlyByClientOrShutdown'
    BY <1>2, Zenon DEF Shutdown, IInv, TypeOK, AckedOnlyByClientOrShutdown, TakenByClientOrShutdown,
       UnknownBeforeCreate
  <2>9. RoutedAckReachesCaller'
    BY <1>2 DEF Shutdown, IInv, TypeOK, RoutedAckReachesCaller, ChannelClosedOnce, PendingIsOwned,
       WaitedForOrClosed, ResolvedByClient, UnknownBeforeCreate
  <2> QED
    BY <2>1, <2>2, <2>3, <2>4, <2>5, <2>6, <2>7, <2>8, <2>9, ZenonT(40), SMTT(30) DEF IInv
<1>3. ASSUME NEW c \in Containers, NEW a \in AckIDs, CreateAck(c, a)
      PROVE  IInv'
  <2>1. TypeOK'
    BY <1>3, ZenonT(40), SMTT(30) DEF CreateAck, IInv, TypeOK
  <2>2. ChannelClosedOnce'
    BY <1>3, Zenon DEF CreateAck, IInv, TypeOK, ChannelClosedOnce, PendingIsOwned
  <2>3. PendingIsOwned'
    BY <1>3 DEF CreateAck, IInv, TypeOK, PendingIsOwned, ChannelClosedOnce, UnknownBeforeCreate
  <2>4. WaitedForOrClosed'
    BY <1>3 DEF CreateAck, IInv, TypeOK, WaitedForOrClosed, PendingIsOwned
  <2>5. UnknownBeforeCreate'
    BY <1>3 DEF CreateAck, IInv, TypeOK, UnknownBeforeCreate, PendingIsOwned, ResolvedByClient
  <2>6. ResolvedByClient'
    BY <1>3 DEF CreateAck, IInv, TypeOK, ResolvedByClient, UnknownBeforeCreate, WaitedForOrClosed
  <2>7. TakenByClientOrShutdown'
    BY <1>3, ZenonT(40), SMTT(30) DEF CreateAck, IInv, TypeOK, TakenByClientOrShutdown,
       UnknownBeforeCreate
  <2>8. AckedOnlyByClientOrShutdown'
    BY <1>3, Zenon DEF CreateAck, IInv, TypeOK, AckedOnlyByClientOrShutdown, TakenByClientOrShutdown,
       UnknownBeforeCreate
  <2>9. RoutedAckReachesCaller'
    BY <1>3 DEF CreateAck, IInv, TypeOK, RoutedAckReachesCaller, ChannelClosedOnce, PendingIsOwned,
       WaitedForOrClosed, ResolvedByClient, UnknownBeforeCreate
  <2> QED
    BY <2>1, <2>2, <2>3, <2>4, <2>5, <2>6, <2>7, <2>8, <2>9, Zenon DEF IInv
<1>4. ASSUME NEW a \in AckIDs, SendNotFound(a)
      PROVE  IInv'
  <2>a. src[a] \in Containers
    BY <1>4, Zenon DEF SendNotFound, IInv, WaitedForOrClosed
  <2>0. /\ pending' = [pending EXCEPT ![src[a]] = @ \ {a}]
        /\ closing' = [closing EXCEPT ![a] = IF a \in pending[src[a]] THEN @ + 1 ELSE @]
    BY <1>4, <2>a, ResolveAckEffect, ZenonT(40), SMTT(30) DEF SendNotFound, IInv
  <2>1. TypeOK'
    BY <1>4, <2>a, <2>0 DEF SendNotFound, IInv, TypeOK
  <2>2. ChannelClosedOnce'
    BY <1>4, <2>a, <2>0 DEF SendNotFound, IInv, TypeOK, ChannelClosedOnce, PendingIsOwned
  <2>3. PendingIsOwned'
    BY <1>4, <2>0 DEF SendNotFound, IInv, TypeOK, PendingIsOwned, ChannelClosedOnce, UnknownBeforeCreate
  <2>4. WaitedForOrClosed'
    BY <1>4, <2>0 DEF SendNotFound, IInv, TypeOK, WaitedForOrClosed, PendingIsOwned
  <2>5. UnknownBeforeCreate'
    BY <1>4, <2>0 DEF SendNotFound, IInv, TypeOK, UnknownBeforeCreate, PendingIsOwned, ResolvedByClient
  <2>6. ResolvedByClient'
    BY <1>4, <2>0, ZenonT(40), SMTT(30) DEF SendNotFound, IInv, TypeOK, ResolvedByClient,
       UnknownBeforeCreate, WaitedForOrClosed
  <2>7. TakenByClientOrShutdown'
    BY <1>4, <2>0 DEF SendNotFound, IInv, TypeOK, TakenByClientOrShutdown, PendingIsOwned,
       ResolvedByClient
  <2>8. AckedOnlyByClientOrShutdown'
    BY <1>4, <2>0, ZenonT(40), SMTT(30) DEF SendNotFound, IInv, TypeOK, AckedOnlyByClientOrShutdown,
       TakenByClientOrShutdown, UnknownBeforeCreate
  <2>9. RoutedAckReachesCaller'
    BY <1>4, <2>0 DEF SendNotFound, IInv, TypeOK, RoutedAckReachesCaller, ChannelClosedOnce,
       PendingIsOwned, WaitedForOrClosed, ResolvedByClient, UnknownBeforeCreate
  <2> QED
    BY <2>1, <2>2, <2>3, <2>4, <2>5, <2>6, <2>7, <2>8, <2>9, Zenon DEF IInv
<1>5. ASSUME NEW a \in AckIDs, NEW local \in BOOLEAN, NEW targets \in SUBSET Containers,
                 SendFound(a, local, targets)
      PROVE  IInv'
  <2>a. src[a] \in Containers
    BY <1>5, Zenon DEF SendFound, IInv, WaitedForOrClosed
  <2>0. \A m \in net' : m \in net \/ \E d \in targets : m = SendMsg(d, a)
    BY <1>5, ZenonT(40), SMTT(30) DEF SendFound
  <2>1. TypeOK'
    <3>1. /\ remoteAcks' \in [Containers -> [AckIDs -> Containers \cup {NoContainer}]]
          /\ sent' \subseteq AckIDs
      <4>1. CASE local
        BY <1>5, <2>a, <4>1, RegisterRemoteAckEffect DEF SendFound, IInv, TypeOK
      <4>2. CASE ~local
        BY <1>5, <4>2, Zenon DEF SendFound, IInv, TypeOK
      <4> QED
        BY <4>1, <4>2, ZenonT(40), SMTT(30)
    <3> QED
      BY <1>5, <3>1 DEF SendFound, IInv, TypeOK
  <2>2. ChannelClosedOnce'
    BY <1>5, Zenon DEF SendFound, RegisterRemoteAck, IInv, TypeOK, ChannelClosedOnce, PendingIsOwned
  <2>3. PendingIsOwned'
    BY <1>5, ZenonT(40), SMTT(30) DEF SendFound, RegisterRemoteAck, IInv, TypeOK, PendingIsOwned,
       ChannelClosedOnce, UnknownBeforeCreate
  <2>4. WaitedForOrClosed'
    BY <1>5, ZenonT(40), SMTT(30) DEF SendFound, RegisterRemoteAck, IInv, TypeOK, WaitedForOrClosed,
       PendingIsOwned
  <2>5. UnknownBeforeCreate'
    BY <1>5, <2>0, ZenonT(40), SMTT(30) DEF SendFound, RegisterRemoteAck, IInv, TypeOK,
       UnknownBeforeCreate
  <2>6. ResolvedByClient'
    <3>1. \A d \in Containers, b \in AckIDs :
             AckResolvedMsg(d, b) \in net' => AckResolvedMsg(d, b) \in net
      BY <2>0, Zenon
    <3>2. \A d \in Containers, b \in AckIDs :
             remoteAcks'[d][b] \in {src[b], NoContainer}
      <4>1. CASE local
        <5>1. RegisterRemoteAck(src[a], a)
          BY <1>5, <4>1, Zenon DEF SendFound
        <5>2. \A d \in Containers, b \in AckIDs :
                 remoteAcks'[d][b] \in {src[b], remoteAcks[d][b]}
          BY <1>5, <2>a, <5>1, RegisterRemoteAckEffect, Zenon DEF IInv
        <5> QED
          BY <5>2 DEF IInv, ResolvedByClient
      <4>2. CASE ~local
        BY <1>5, <4>2, Zenon DEF SendFound, IInv, ResolvedByClient
      <4> QED
        BY <4>1, <4>2, ZenonT(40), SMTT(30)
    <3>3. sent \subseteq sent'
      BY <1>5, Zenon DEF SendFound
    <3> QED
      BY <1>5, <3>1, <3>2, <3>3, ZenonT(40), SMTT(30) DEF SendFound, IInv, ResolvedByClient
  <2>7. TakenByClientOrShutdown'
    BY <1>5, ZenonT(40), SMTT(30) DEF SendFound, RegisterRemoteAck, IInv, TypeOK,
       TakenByClientOrShutdown, PendingIsOwned, ResolvedByClient
  <2>8. AckedOnlyByClientOrShutdown'
    BY <1>5, Zenon DEF SendFound, RegisterRemoteAck, IInv, TypeOK, AckedOnlyByClientOrShutdown,
       TakenByClientOrShutdown, UnknownBeforeCreate
  <2>9. RoutedAckReachesCaller'
    BY <1>5 DEF SendFound, RegisterRemoteAck, IInv, TypeOK, RoutedAckReachesCaller, ChannelClosedOnce,
       PendingIsOwned, WaitedForOrClosed, ResolvedByClient, UnknownBeforeCreate
  <2> QED
    BY <2>1, <2>2, <2>3, <2>4, <2>5, <2>6, <2>7, <2>8, <2>9, Zenon DEF IInv
<1>6. ASSUME NEW a \in AckIDs, WaitForAck(a)
      PROVE  IInv'
  <2>1. TypeOK'
    BY <1>6, Zenon DEF WaitForAck, IInv, TypeOK
  <2>2. ChannelClosedOnce'
    BY <1>6, ZenonT(40), SMTT(30) DEF WaitForAck, IInv, TypeOK, ChannelClosedOnce, PendingIsOwned
  <2>3. PendingIsOwned'
    BY <1>6 DEF WaitForAck, IInv, TypeOK, PendingIsOwned, ChannelClosedOnce, UnknownBeforeCreate
  <2>4. WaitedForOrClosed'
    BY <1>6 DEF WaitForAck, IInv, TypeOK, WaitedForOrClosed, PendingIsOwned
  <2>5. UnknownBeforeCreate'
    BY <1>6 DEF WaitForAck, IInv, TypeOK, UnknownBeforeCreate, PendingIsOwned, ResolvedByClient
  <2>6. ResolvedByClient'
    BY <1>6, ZenonT(40), SMTT(30) DEF WaitForAck, IInv, TypeOK, ResolvedByClient,
       UnknownBeforeCreate, WaitedForOrClosed
  <2>7. TakenByClientOrShutdown'
    BY <1>6 DEF WaitForAck, IInv, TypeOK, TakenByClientOrShutdown, PendingIsOwned, ResolvedByClient
  <2>8. AckedOnlyByClientOrShutdown'
    BY <1>6 DEF WaitForAck, IInv, TypeOK, AckedOnlyByClientOrShutdown, TakenByClientOrShutdown,
       UnknownBeforeCreate
  <2>9. RoutedAckReachesCaller'
    BY <1>6 DEF WaitForAck, IInv, TypeOK, RoutedAckReachesCaller, ChannelClosedOnce, PendingIsOwned,
       WaitedForOrClosed, ResolvedByClient, UnknownBeforeCreate
  <2> QED
    BY <2>1, <2>2, <2>3, <2>4, <2>5, <2>6, <2>7, <2>8, <2>9, Zenon DEF IInv
<1>7. ASSUME NEW a \in AckIDs, WaitTimeout(a)
      PROVE  IInv'
  <2>1. TypeOK'
    BY <1>7, Zenon DEF WaitTimeout, IInv, TypeOK
  <2>2. ChannelClosedOnce'
    BY <1>7, ZenonT(40), SMTT(30) DEF WaitTimeout, IInv, TypeOK, ChannelClosedOnce, PendingIsOwned
  <2>3. PendingIsOwned'
    BY <1>7 DEF WaitTimeout, IInv, TypeOK, PendingIsOwned, ChannelClosedOnce, UnknownBeforeCreate
  <2>4. WaitedForOrClosed'
    BY <1>7, ZenonT(40), SMTT(30) DEF WaitTimeout, IInv, TypeOK, WaitedForOrClosed, PendingIsOwned
  <2>5. UnknownBeforeCreate'
    BY <1>7 DEF WaitTimeout, IInv, TypeOK, UnknownBeforeCreate, PendingIsOwned, ResolvedByClient
  <2>6. ResolvedByClient'
    BY <1>7, Zenon DEF WaitTimeout, IInv, TypeOK, ResolvedByClient, UnknownBeforeCreate,
       WaitedForOrClosed
  <2>7. TakenByClientOrShutdown'
    BY <1>7 DEF WaitTimeout, IInv, TypeOK, TakenByClientOrShutdown, PendingIsOwned, ResolvedByClient
  <2>8. AckedOnlyByClientOrShutdown'
    BY <1>7, Zenon DEF WaitTimeout, IInv, TypeOK, AckedOnlyByClientOrShutdown, TakenByClientOrShutdown,
       UnknownBeforeCreate
  <2>9. RoutedAckReachesCaller'
    BY <1>7 DEF WaitTimeout, IInv, TypeOK, RoutedAckReachesCaller, ChannelClosedOnce, PendingIsOwned,
       WaitedForOrClosed, ResolvedByClient, UnknownBeforeCreate
  <2> QED
    BY <2>1, <2>2, <2>3, <2>4, <2>5, <2>6, <2>7, <2>8, <2>9, Zenon DEF IInv
<1>8. ASSUME NEW c \in Containers, NEW a \in AckIDs, NEW connected \in BOOLEAN,
                 HandleSendWithAck(c, a, connected)
      PROVE  IInv'
  <2>1. TypeOK'
    <3>1. /\ remoteAcks' \in [Containers -> [AckIDs -> Containers \cup {NoContainer}]]
          /\ sent' \subseteq AckIDs
      <4>1. CASE connected
        BY <1>8, <4>1, RegisterRemoteAckEffect DEF HandleSendWithAck, IInv, TypeOK
      <4>2. CASE ~connected
        BY <1>8, <4>2, Zenon DEF HandleSendWithAck, IInv, TypeOK
      <4> QED
        BY <4>1, <4>2, Zenon
    <3> QED
      BY <1>8, <3>1, Zenon DEF HandleSendWithAck, IInv, TypeOK
  <2>2. ChannelClosedOnce'
    BY <1>8, Zenon DEF HandleSendWithAck, RegisterRemoteAck, IInv, TypeOK, ChannelClosedOnce,
       PendingIsOwned
  <2>3. PendingIsOwned'
    BY <1>8, ZenonT(40), SMTT(30) DEF HandleSendWithAck, RegisterRemoteAck, IInv, TypeOK,
       PendingIsOwned, ChannelClosedOnce, UnknownBeforeCreate
  <2>4. WaitedForOrClosed'
    BY <1>8, ZenonT(40), SMTT(30) DEF HandleSendWithAck, RegisterRemoteAck, IInv, TypeOK,
       WaitedForOrClosed, PendingIsOwned
  <2>5. UnknownBeforeCreate'
    <3>1. /\ UNCHANGED <<call, src, result, closing, closes>> /\ SendMsg(c, a) \in net
          /\ net' \subseteq net /\ sent' \subseteq sent \cup {a}
      <4>1. CASE connected
        BY <1>8, <4>1, Zenon DEF HandleSendWithAck
      <4>2. CASE ~connected
        BY <1>8, <4>2, Zenon DEF HandleSendWithAck
      <4> QED
        BY <4>1, <4>2, Zenon
    <3>2. call[a] # "none"
      BY <3>1, Zenon DEF IInv, UnknownBeforeCreate
    <3> QED
      BY <3>1, <3>2, ZenonT(40), SMTT(30) DEF IInv, UnknownBeforeCreate
  <2>6. ResolvedByClient'
    <3>1. \A d \in Containers, b \in AckIDs : remoteAcks'[d][b] \in {src[b], remoteAcks[d][b]}
      <4>1. CASE connected
        BY <1>8, <4>1, RegisterRemoteAckEffect, Zenon DEF HandleSendWithAck, IInv
      <4>2. CASE ~connected
        BY <1>8, <4>2, Zenon DEF HandleSendWithAck
      <4> QED
        BY <4>1, <4>2, Zenon
    <3>2. /\ sent \subseteq sent' /\ net' \subseteq net
          /\ UNCHANGED <<src, unrouted, clientAcked, routed>>
      BY <1>8, Zenon DEF HandleSendWithAck, caller, ghosts
    <3>3. \A d \in Containers, b \in AckIDs : remoteAcks'[d][b] \in {src'[b], NoContainer}
      <4>1. \A d \in Containers, b \in AckIDs : remoteAcks[d][b] \in {src[b], NoContainer}
        BY Zenon DEF IInv, ResolvedByClient
      <4>2. src' = src
        BY <3>2, Zenon
      <4> QED
        BY <3>1, <4>1, <4>2
    <3>4. \A d \in Containers, b \in AckIDs :
             AckResolvedMsg(d, b) \in net' => b \in clientAcked' /\ d = src'[b]
      BY <3>2 DEF IInv, ResolvedByClient
    <3> QED
      BY <3>2, <3>3, <3>4, Zenon DEF IInv, ResolvedByClient, AckResolvedMsg
  <2>7. TakenByClientOrShutdown'
    BY <1>8, Zenon DEF HandleSendWithAck, RegisterRemoteAck, IInv, TypeOK, TakenByClientOrShutdown,
       PendingIsOwned, ResolvedByClient
  <2>8. AckedOnlyByClientOrShutdown'
    BY <1>8, Zenon DEF HandleSendWithAck, RegisterRemoteAck, IInv, TypeOK, AckedOnlyByClientOrShutdown,
       TakenByClientOrShutdown, UnknownBeforeCreate
  <2>9. RoutedAckReachesCaller'
    BY <1>8, Zenon DEF HandleSendWithAck, RegisterRemoteAck, IInv, TypeOK, RoutedAckReachesCaller,
       ChannelClosedOnce, PendingIsOwned, WaitedForOrClosed, ResolvedByClient, UnknownBeforeCreate
  <2> QED
    BY <2>1, <2>2, <2>3, <2>4, <2>5, <2>6, <2>7, <2>8, <2>9, Zenon DEF IInv
<1>9. ASSUME NEW c \in Containers, NEW a \in AckIDs, HandleAckFrame(c, a)
      PROVE  IInv'
  <2>0. /\ pending' = [pending EXCEPT ![c] = @ \ {a}]
        /\ closing' = [closing EXCEPT ![a] = IF a \in pending[c] THEN @ + 1 ELSE @]
    BY <1>9, ResolveAckEffect, ZenonT(40), SMTT(30) DEF HandleAckFrame, IInv
  <2>a. /\ a \in sent
        /\ UNCHANGED <<call, src, result, closes, remoteAcks, sent, net, down, lost>>
    BY <1>9, Zenon DEF HandleAckFrame
  <2>b. /\ clientAcked' = clientAcked \cup {a}
        /\ routed' = IF a \in pending[c] THEN routed \cup {a} ELSE routed
        /\ unrouted' = IF a \in pending[c] THEN unrouted ELSE [unrouted EXCEPT ![c] = @ \cup {a}]
    BY <1>9, Zenon DEF HandleAckFrame
  <2>t. /\ call \in [AckIDs -> {"none", "created", "waiting", "returned"}]
        /\ closing \in [AckIDs -> Nat] /\ closes \in [AckIDs -> Nat]
        /\ pending \in [Containers -> SUBSET AckIDs] /\ unrouted \in [Containers -> SUBSET AckIDs]
    BY Zenon DEF IInv, TypeOK
  <2>c. /\ closing'[a] = IF a \in pending[c] THEN closing[a] + 1 ELSE closing[a]
        /\ \A b \in AckIDs \ {a} : closing'[b] = closing[b]
        /\ \A d \in Containers, b \in AckIDs : b \in pending'[d] <=> b \in pending[d] /\ <<d, b>> # <<c, a>>
    BY <2>0, <2>t
  <2>d. a \in pending[c] => c = src[a] /\ call[a] \in {"created", "waiting"} /\ closing[a] = 0 /\ closes[a] = 0
    BY Zenon DEF IInv, PendingIsOwned
  <2>1. TypeOK'
    <3>1. closing' \in [AckIDs -> Nat]
      BY <2>0, <2>t
    <3>2. pending' \in [Containers -> SUBSET AckIDs]
      BY <2>0, <2>t
    <3>3. unrouted' \in [Containers -> SUBSET AckIDs]
      BY <2>b, <2>t
    <3>4. clientAcked' \subseteq AckIDs /\ routed' \subseteq AckIDs
      BY <2>b DEF IInv, TypeOK
    <3> QED
      BY <2>a, <3>1, <3>2, <3>3, <3>4, Zenon DEF IInv, TypeOK
  <2>2. ChannelClosedOnce'
    <3>1. \A b \in AckIDs : closing[b] + closes[b] <= 1
      BY Zenon DEF IInv, ChannelClosedOnce
    <3> QED
      BY <2>a, <2>c, <2>d, <2>t, <3>1 DEF ChannelClosedOnce
  <2>3. PendingIsOwned'
    <3> SUFFICES ASSUME NEW d \in Containers, NEW b \in pending'[d]
                 PROVE  /\ d = src[b] /\ call[b] \in {"created", "waiting"}
                        /\ closing'[b] = 0 /\ closes[b] = 0
      BY <2>a, Zenon DEF PendingIsOwned
    <3>1. b \in AckIDs
      BY <2>0, <2>t
    <3>2. b \in pending[d] /\ <<d, b>> # <<c, a>>
      BY <2>c, <3>1, Zenon
    <3>3. d = src[b] /\ call[b] \in {"created", "waiting"} /\ closing[b] = 0 /\ closes[b] = 0
      BY <3>2, Zenon DEF IInv, PendingIsOwned
    <3> QED
      BY <2>c, <2>d, <3>1, <3>2, <3>3
  <2>4. WaitedForOrClosed'
    <3> SUFFICES ASSUME NEW b \in AckIDs, call[b] \in {"created", "waiting"}
                 PROVE  /\ src[b] \in Containers
                        /\ b \in pending'[src[b]] \/ closing'[b] + closes[b] = 1
      BY <2>a, Zenon DEF WaitedForOrClosed
    <3>1. src[b] \in Containers /\ (b \in pending[src[b]] \/ closing[b] + closes[b] = 1)
      BY Zenon DEF IInv, WaitedForOrClosed
    <3>2. CASE b = a
      BY <2>c, <2>d, <2>t, <3>1, <3>2
    <3>3. CASE b # a
      BY <2>c, <3>1, <3>3
    <3> QED
      BY <3>2, <3>3, Zenon
  <2>5. UnknownBeforeCreate'
    <3> SUFFICES ASSUME NEW b \in AckIDs, call[b] = "none"
                 PROVE  /\ src[b] = NoContainer /\ closing'[b] + closes[b] = 0 /\ result[b] = "none"
                        /\ b \notin sent /\ \A d \in Containers : SendMsg(d, b) \notin net
      BY <2>a, Zenon DEF UnknownBeforeCreate
    <3>1. /\ src[b] = NoContainer /\ closing[b] + closes[b] = 0 /\ result[b] = "none"
          /\ b \notin sent /\ \A d \in Containers : SendMsg(d, b) \notin net
      BY Zenon DEF IInv, UnknownBeforeCreate
    <3>2. b # a
      BY <2>a, <3>1, Zenon
    <3> QED
      BY <2>c, <3>1, <3>2, Zenon
  <2>6. ResolvedByClient'
    <3>1. clientAcked' \subseteq sent' /\ routed' \subseteq clientAcked'
      BY <2>a, <2>b DEF IInv, ResolvedByClient
    <3>2. \A d \in Containers : unrouted'[d] \subseteq clientAcked'
      BY <2>b, <2>t DEF IInv, ResolvedByClient
    <3> QED
      BY <2>a, <2>b, <3>1, <3>2, ZenonT(40), SMTT(30) DEF IInv, ResolvedByClient
  <2>7. TakenByClientOrShutdown'
    <3> SUFFICES ASSUME NEW b \in AckIDs, call[b] # "returned", closing'[b] + closes[b] > 0
                 PROVE  b \in clientAcked' \/ src[b] \in down
      BY <2>a, Zenon DEF TakenByClientOrShutdown
    <3>1. CASE b = a
      BY <2>b, <3>1, Zenon
    <3>2. CASE b # a
      BY <2>b, <2>c, <3>2, Zenon DEF IInv, TakenByClientOrShutdown
    <3> QED
      BY <3>1, <3>2, Zenon
  <2>8. AckedOnlyByClientOrShutdown'
    BY <2>a, <2>b, Zenon DEF IInv, AckedOnlyByClientOrShutdown
  <2>9. RoutedAckReachesCaller'
    <3> SUFFICES ASSUME NEW b \in routed'
                 PROVE  \/ AckResolvedMsg(src[b], b) \in net
                        \/ closing'[b] + closes[b] = 1
                        \/ b \in lost
                        \/ call[b] = "returned"
      BY <2>a, Zenon DEF RoutedAckReachesCaller
    <3>1. CASE a \in pending[c] /\ b = a
      BY <2>c, <2>d, <3>1
    <3>2. CASE ~(a \in pending[c] /\ b = a)
      <4>1. b \in routed /\ b \in AckIDs
        BY <2>b, <3>2, Zenon DEF IInv, TypeOK
      <4>2. closing'[b] = closing[b]
        BY <2>c, <3>2, <4>1, Zenon
      <4> QED
        BY <4>1, <4>2, Zenon DEF IInv, RoutedAckReachesCaller
    <3> QED
      BY <3>1, <3>2, Zenon
  <2> QED
    BY <2>1, <2>2, <2>3, <2>4, <2>5, <2>6, <2>7, <2>8, <2>9, Zenon DEF IInv
<1>10. ASSUME NEW c \in Containers, NEW a \in AckIDs, ResolveRemoteAck(c, a)
      PROVE  IInv'
  <2>0. \/ net' = net /\ routed' = routed
        \/ /\ src[a] \in Containers
           /\ net' = net \cup {AckResolvedMsg(src[a], a)}
           /\ routed' = routed \cup {a}
    <3>1. CASE remoteAcks[c][a] = NoContainer
      BY <1>10, <3>1, Zenon DEF ResolveRemoteAck
    <3>2. CASE remoteAcks[c][a] # NoContainer
      <4>1. remoteAcks[c][a] = src[a] /\ src[a] \in Containers
        BY <1>10, <3>2 DEF IInv, TypeOK, ResolvedByClient
      <4> QED
        BY <1>10, <3>2, <4>1, ZenonT(40), SMTT(30) DEF ResolveRemoteAck
    <3> QED
      BY <3>1, <3>2, Zenon
  <2>1. TypeOK'
    <3>1. /\ unrouted' = [unrouted EXCEPT ![c] = @ \ {a}]
          /\ remoteAcks' = [remoteAcks EXCEPT ![c] = [remoteAcks[c] EXCEPT ![a] = NoContainer]]
      BY <1>10, Zenon DEF ResolveRemoteAck
    <3>2. /\ unrouted \in [Containers -> SUBSET AckIDs]
          /\ remoteAcks \in [Containers -> [AckIDs -> Containers \cup {NoContainer}]]
      BY Zenon DEF IInv, TypeOK
    <3>3. unrouted' \in [Containers -> SUBSET AckIDs]
      BY <3>1, <3>2
    <3>4. [remoteAcks[c] EXCEPT ![a] = NoContainer] \in [AckIDs -> Containers \cup {NoContainer}]
      BY <3>2
    <3>5. remoteAcks' \in [Containers -> [AckIDs -> Containers \cup {NoContainer}]]
      BY <3>1, <3>2, <3>4, Zenon
    <3>6. net' \subseteq Messages /\ routed' \subseteq AckIDs
      BY <2>0 DEF IInv, TypeOK
    <3>7. UNCHANGED <<call, src, result, pending, closing, closes, sent, down, clientAcked, lost>>
      BY <1>10, Zenon DEF ResolveRemoteAck
    <3> QED
      BY <3>3, <3>5, <3>6, <3>7, Zenon DEF IInv, TypeOK
  <2>2. ChannelClosedOnce'
    BY <1>10, Zenon DEF ResolveRemoteAck, IInv, TypeOK, ChannelClosedOnce, PendingIsOwned
  <2>3. PendingIsOwned'
    BY <1>10, ZenonT(40), SMTT(30) DEF ResolveRemoteAck, IInv, TypeOK, PendingIsOwned,
       ChannelClosedOnce, UnknownBeforeCreate
  <2>4. WaitedForOrClosed'
    BY <1>10, Zenon DEF ResolveRemoteAck, IInv, TypeOK, WaitedForOrClosed, PendingIsOwned
  <2>5. UnknownBeforeCreate'
    <3>1. UNCHANGED <<call, src, result, closing, closes, sent>>
      BY <1>10, Zenon DEF ResolveRemoteAck
    <3>2. \A d \in Containers, b \in AckIDs : SendMsg(d, b) \in net' => SendMsg(d, b) \in net
      BY <2>0
    <3> QED
      BY <3>1, <3>2, ZenonT(40), SMTT(30) DEF IInv, UnknownBeforeCreate
  <2>6. ResolvedByClient'
    <3>1. \A d \in Containers, b \in AckIDs :
             remoteAcks'[d][b] \in {src[b], NoContainer}
      BY <1>10, ZenonT(40), SMTT(30) DEF ResolveRemoteAck, IInv, TypeOK, ResolvedByClient
    <3> QED
      BY <1>10, <2>0, <3>1 DEF ResolveRemoteAck, IInv, TypeOK, ResolvedByClient
  <2>7. TakenByClientOrShutdown'
    BY <1>10, Zenon DEF ResolveRemoteAck, IInv, TypeOK, TakenByClientOrShutdown, PendingIsOwned,
       ResolvedByClient
  <2>8. AckedOnlyByClientOrShutdown'
    BY <1>10, Zenon DEF ResolveRemoteAck, IInv, TypeOK, AckedOnlyByClientOrShutdown,
       TakenByClientOrShutdown, UnknownBeforeCreate
  <2>9. RoutedAckReachesCaller'
    BY <1>10, <2>0 DEF ResolveRemoteAck, IInv, TypeOK, RoutedAckReachesCaller
  <2> QED
    BY <2>1, <2>2, <2>3, <2>4, <2>5, <2>6, <2>7, <2>8, <2>9, Zenon DEF IInv
<1>11. ASSUME NEW c \in Containers, NEW a \in AckIDs, HandleAckResolved(c, a)
      PROVE  IInv'
  <2>0. /\ pending' = [pending EXCEPT ![c] = @ \ {a}]
        /\ closing' = [closing EXCEPT ![a] = IF a \in pending[c] THEN @ + 1 ELSE @]
    BY <1>11, ResolveAckEffect, ZenonT(40), SMTT(30) DEF HandleAckResolved, IInv
  <2>a. /\ AckResolvedMsg(c, a) \in net
        /\ UNCHANGED <<call, src, result, closes, remoteAcks, unrouted, sent, down>>
        /\ UNCHANGED <<clientAcked, routed, lost>>
    BY <1>11, Zenon DEF HandleAckResolved
  <2>b. net' = net \ {AckResolvedMsg(c, a)}
    BY <1>11, Zenon DEF HandleAckResolved
  <2>t. /\ call \in [AckIDs -> {"none", "created", "waiting", "returned"}]
        /\ closing \in [AckIDs -> Nat] /\ closes \in [AckIDs -> Nat]
        /\ pending \in [Containers -> SUBSET AckIDs]
    BY Zenon DEF IInv, TypeOK
  <2>c. /\ closing'[a] = IF a \in pending[c] THEN closing[a] + 1 ELSE closing[a]
        /\ \A b \in AckIDs \ {a} : closing'[b] = closing[b]
        /\ \A d \in Containers, b \in AckIDs : b \in pending'[d] <=> b \in pending[d] /\ <<d, b>> # <<c, a>>
    BY <2>0, <2>t
  <2>d. a \in pending[c] => c = src[a] /\ call[a] \in {"created", "waiting"} /\ closing[a] = 0 /\ closes[a] = 0
    BY Zenon DEF IInv, PendingIsOwned
  <2>e. a \in clientAcked /\ c = src[a] /\ a \in sent
    BY <2>a, Zenon DEF IInv, ResolvedByClient
  <2>f. /\ call[a] # "none"
        /\ call[a] \in {"created", "waiting"} => a \in pending[c] \/ closing[a] + closes[a] = 1
    BY <2>e, Zenon DEF IInv, UnknownBeforeCreate, WaitedForOrClosed
  <2>1. TypeOK'
    <3>1. closing' \in [AckIDs -> Nat]
      BY <2>0, <2>t
    <3>2. pending' \in [Containers -> SUBSET AckIDs]
      BY <2>0, <2>t
    <3>3. net' \subseteq Messages
      BY <2>b, Zenon DEF IInv, TypeOK
    <3> QED
      BY <2>a, <3>1, <3>2, <3>3, Zenon DEF IInv, TypeOK
  <2>2. ChannelClosedOnce'
    <3>1. \A b \in AckIDs : closing[b] + closes[b] <= 1
      BY Zenon DEF IInv, ChannelClosedOnce
    <3> QED
      BY <2>a, <2>c, <2>d, <2>t, <3>1 DEF ChannelClosedOnce
  <2>3. PendingIsOwned'
    <3> SUFFICES ASSUME NEW d \in Containers, NEW b \in pending'[d]
                 PROVE  /\ d = src[b] /\ call[b] \in {"created", "waiting"}
                        /\ closing'[b] = 0 /\ closes[b] = 0
      BY <2>a, Zenon DEF PendingIsOwned
    <3>1. b \in AckIDs
      BY <2>0, <2>t
    <3>2. b \in pending[d] /\ <<d, b>> # <<c, a>>
      BY <2>c, <3>1, Zenon
    <3>3. d = src[b] /\ call[b] \in {"created", "waiting"} /\ closing[b] = 0 /\ closes[b] = 0
      BY <3>2, Zenon DEF IInv, PendingIsOwned
    <3> QED
      BY <2>c, <2>e, <3>1, <3>2, <3>3
  <2>4. WaitedForOrClosed'
    <3> SUFFICES ASSUME NEW b \in AckIDs, call[b] \in {"created", "waiting"}
                 PROVE  /\ src[b] \in Containers
                        /\ b \in pending'[src[b]] \/ closing'[b] + closes[b] = 1
      BY <2>a, Zenon DEF WaitedForOrClosed
    <3>1. src[b] \in Containers /\ (b \in pending[src[b]] \/ closing[b] + closes[b] = 1)
      BY Zenon DEF IInv, WaitedForOrClosed
    <3>2. CASE b = a
      BY <2>c, <2>d, <2>t, <3>1, <3>2
    <3>3. CASE b # a
      BY <2>c, <3>1, <3>3
    <3> QED
      BY <3>2, <3>3, Zenon
  <2>5. UnknownBeforeCreate'
    <3> SUFFICES ASSUME NEW b \in AckIDs, call[b] = "none"
                 PROVE  /\ src[b] = NoContainer /\ closing'[b] + closes[b] = 0 /\ result[b] = "none"
                        /\ b \notin sent /\ \A d \in Containers : SendMsg(d, b) \notin net'
      BY <2>a, Zenon DEF UnknownBeforeCreate
    <3>1. /\ src[b] = NoContainer /\ closing[b] + closes[b] = 0 /\ result[b] = "none"
          /\ b \notin sent /\ \A d \in Containers : SendMsg(d, b) \notin net
      BY Zenon DEF IInv, UnknownBeforeCreate
    <3>2. b # a
      BY <2>e, <3>1, Zenon
    <3> QED
      BY <2>b, <2>c, <3>1, <3>2, Zenon
  <2>6. ResolvedByClient'
    <3>1. \A d \in Containers, b \in AckIDs : AckResolvedMsg(d, b) \in net' => AckResolvedMsg(d, b) \in net
      BY <2>b, Zenon
    <3> QED
      BY <2>a, <3>1, ZenonT(40), SMTT(30) DEF IInv, ResolvedByClient
  <2>7. TakenByClientOrShutdown'
    <3> SUFFICES ASSUME NEW b \in AckIDs, call[b] # "returned", closing'[b] + closes[b] > 0
                 PROVE  b \in clientAcked \/ src[b] \in down
      BY <2>a, Zenon DEF TakenByClientOrShutdown
    <3>1. CASE b = a
      BY <2>e, <3>1, Zenon
    <3>2. CASE b # a
      BY <2>c, <3>2, Zenon DEF IInv, TakenByClientOrShutdown
    <3> QED
      BY <3>1, <3>2, Zenon
  <2>8. AckedOnlyByClientOrShutdown'
    BY <2>a, Zenon DEF IInv, AckedOnlyByClientOrShutdown
  <2>9. RoutedAckReachesCaller'
    <3> SUFFICES ASSUME NEW b \in routed
                 PROVE  \/ AckResolvedMsg(src[b], b) \in net'
                        \/ closing'[b] + closes[b] = 1
                        \/ b \in lost
                        \/ call[b] = "returned"
      BY <2>a, Zenon DEF RoutedAckReachesCaller
    <3>1. CASE b = a
      BY <2>c, <2>d, <2>f, <2>t, <3>1
    <3>2. CASE b # a
      <4>1. closing'[b] = closing[b]
        BY <2>c, <3>2, Zenon DEF IInv, TypeOK
      <4>2. AckResolvedMsg(src[b], b) # AckResolvedMsg(c, a)
        BY <3>2
      <4> QED
        BY <2>b, <4>1, <4>2, Zenon DEF IInv, RoutedAckReachesCaller
    <3> QED
      BY <3>1, <3>2, Zenon
  <2> QED
    BY <2>1, <2>2, <2>3, <2>4, <2>5, <2>6, <2>7, <2>8, <2>9, Zenon DEF IInv
<1>12. ASSUME NEW m \in net, LoseMessage(m)
      PROVE  IInv'
  <2>1. TypeOK'
    BY <1>12, ZenonT(40), SMTT(30) DEF LoseMessage, IInv, TypeOK
  <2>2. ChannelClosedOnce'
    BY <1>12, Zenon DEF LoseMessage, IInv, TypeOK, ChannelClosedOnce, PendingIsOwned
  <2>3. PendingIsOwned'
    BY <1>12, ZenonT(40), SMTT(30) DEF LoseMessage, IInv, TypeOK, PendingIsOwned, ChannelClosedOnce,
       UnknownBeforeCreate
  <2>4. WaitedForOrClosed'
    BY <1>12, Zenon DEF LoseMessage, IInv, TypeOK, WaitedForOrClosed, PendingIsOwned
  <2>5. UnknownBeforeCreate'
    BY <1>12, Zenon DEF LoseMessage, IInv, TypeOK, UnknownBeforeCreate, PendingIsOwned, ResolvedByClient
  <2>6. ResolvedByClient'
    BY <1>12, Zenon DEF LoseMessage, IInv, TypeOK, ResolvedByClient, UnknownBeforeCreate,
       WaitedForOrClosed
  <2>7. TakenByClientOrShutdown'
    BY <1>12, Zenon DEF LoseMessage, IInv, TypeOK, TakenByClientOrShutdown, PendingIsOwned,
       ResolvedByClient
  <2>8. AckedOnlyByClientOrShutdown'
    BY <1>12, ZenonT(40), SMTT(30) DEF LoseMessage, IInv, TypeOK, AckedOnlyByClientOrShutdown,
       TakenByClientOrShutdown, UnknownBeforeCreate
  <2>9. RoutedAckReachesCaller'
    <3>1. /\ net' = net \ {m} /\ lost \subseteq lost'
          /\ m.kind = "ackResolved" => m.ack \in lost'
          /\ UNCHANGED <<call, src, closing, closes, routed>>
      BY <1>12 DEF LoseMessage
    <3> SUFFICES ASSUME NEW b \in routed
                 PROVE  \/ AckResolvedMsg(src[b], b) \in net'
                        \/ closing[b] + closes[b] = 1
                        \/ b \in lost'
                        \/ call[b] = "returned"
      BY <3>1, Zenon DEF RoutedAckReachesCaller
    <3>2. \/ AckResolvedMsg(src[b], b) \in net
          \/ closing[b] + closes[b] = 1
          \/ b \in lost
          \/ call[b] = "returned"
      BY Zenon DEF IInv, RoutedAckReachesCaller
    <3>3. AckResolvedMsg(src[b], b) = m => b \in lost'
      BY <3>1
    <3> QED
      BY <3>1, <3>2, <3>3, Zenon
  <2> QED
    BY <2>1, <2>2, <2>3, <2>4, <2>5, <2>6, <2>7, <2>8, <2>9, Zenon DEF IInv
<1>13. CASE UNCHANGED allVars
  BY <1>13, ZenonT(40), SMTT(30) DEF IInv, TypeOK, ChannelClosedOnce, PendingIsOwned, WaitedForOrClosed,
     UnknownBeforeCreate, ResolvedByClient, TakenByClientOrShutdown, AckedOnlyByClientOrShutdown,
     RoutedAckReachesCaller
<1> QED
  BY <1>1, <1>2, <1>3, <1>4, <1>5, <1>6, <1>7, <1>8, <1>9, <1>10, <1>11, <1>12, <1>13, Zenon DEF Next,
     CallerStep

\* The types of the AckManager's maps, of the calls and of the messages.
THEOREM TypeCorrect == Spec => []TypeOK
<1>1. IInv => TypeOK
  BY Zenon DEF IInv
<1> QED
  BY <1>1, InitIInv, NextIInv, PTL DEF Spec

\* No interleaving of ResolveAck, Shutdown and the caller closes a channel
\* twice, so the close in ResolveAck and in Shutdown never panics.
THEOREM ClosedAtMostOnce == Spec => []ChannelClosedOnce
<1>1. IInv => ChannelClosedOnce
  BY Zenon DEF IInv
<1> QED
  BY <1>1, InitIInv, NextIInv, PTL DEF Spec

\* A call that has returned has no entry left in any pending map: an entry
\* belongs to a call that is still in progress.
THEOREM PendingNeverLeaks == Spec => []NoPendingLeak
<1>1. IInv => NoPendingLeak
  BY Zenon DEF IInv, PendingIsOwned, NoPendingLeak, TypeOK
<1> QED
  BY <1>1, InitIInv, NextIInv, PTL DEF Spec

\* WaitForAck returns true only after a client acknowledged this message or
\* the caller's own container was shut down.
THEOREM AckedIsJustified == Spec => []AckedOnlyByClientOrShutdown
<1>1. IInv => AckedOnlyByClientOrShutdown
  BY Zenon DEF IInv
<1> QED
  BY <1>1, InitIInv, NextIInv, PTL DEF Spec

\* An ACK that found an entry to follow is not swallowed between containers.
THEOREM RoutedAckIsNotSwallowed == Spec => []RoutedAckReachesCaller
<1>1. IInv => RoutedAckReachesCaller
  BY Zenon DEF IInv
<1> QED
  BY <1>1, InitIInv, NextIInv, PTL DEF Spec

-----------------------------------------------------------------------------
(***************************************************************************)
(* SyncCallbacks.  A call returns nil only through the attempt that got a  *)
(* 2xx; the retries, the breaker and the two monitors are kept apart, one  *)
(* invariant each, because no step writes the state of two of them at      *)
(* odds with a third.                                                      *)
(***************************************************************************)

CallT == [pc : {"idle", "allow", "post", "backoff", "return"}, attempt : Nat,
          answer : Answers \cup {"none", "circuitOpen"}, result : {"none", "ok", "rejected", "generic"}]

ConfigT == [on : {TRUE}, ping : BOOLEAN, watch : BOOLEAN, shutdown : BOOLEAN, retryMax : Nat]

\* A call returns nil only after an attempt, and has no result while it is in progress.
CallsInv ==
    /\ hookCall \in [Calls -> CallT]
    /\ \A c \in Calls : hookCall[c].pc \in {"backoff", "return"} => hookCall[c].answer # "none"
    /\ \A c \in Calls : hookCall[c].pc # "idle" => hookCall[c].result = "none"

\* At least one attempt is configured.
ConfigInv == cfg = NoConfig \/ (cfg \in ConfigT /\ cfg.retryMax >= 1)

BreakerInv ==
    /\ backend \in {"up", "down"}
    /\ failures \in 0 .. Threshold
    /\ openAge \in 0 .. MaxOpen
    /\ streak \in 0 .. FailThreshold

\* SetUnhealthy lets one source through, and that one runs onUnhealthy once.
MonitorInv ==
    /\ healthy \in BOOLEAN /\ fired \in BOOLEAN /\ rootDone \in BOOLEAN
    /\ firing # {} => cfg # NoConfig
    /\ \/ ~fired /\ firing = {} /\ fires = 0
       \/ fired /\ fires = 0 /\ \E s \in Sources : firing = {s}
       \/ fired /\ firing = {} /\ fires = 1

SyncInv == CallsInv /\ ConfigInv /\ BreakerInv /\ MonitorInv

\* Configure comes first.
LEMMA Configured ==
    ASSUME ConfigInv, cfg # NoConfig
    PROVE  cfg \in ConfigT /\ cfg.on /\ cfg.retryMax >= 1 /\ cfg.retryMax \in Nat /\ cfg.shutdown \in BOOLEAN
BY Zenon DEF ConfigInv, ConfigT

\* A hook that is switched on was configured.
LEMMA OnMeansConfigured == cfg.on => cfg # NoConfig
BY DEF NoConfig

\* A step of one call that ends in a good state of it keeps all calls good.
LEMMA OneCallMoves ==
    ASSUME CallsInv, NEW c \in Calls, NEW k \in CallT, hookCall' = [hookCall EXCEPT ![c] = k],
           k.pc \in {"backoff", "return"} => k.answer # "none",
           k.pc # "idle" => k.result = "none"
    PROVE  CallsInv'
BY Zenon DEF CallsInv

\* A call that got an answer is a call.
LEMMA AnsweredCall ==
    ASSUME NEW h \in CallT, NEW next \in {"backoff", "return"}, NEW answer \in Answers
    PROVE  [h EXCEPT !.pc = next, !.attempt = @ + 1, !.answer = answer] \in CallT
<1> DEFINE n == h.attempt + 1
<1>1. n \in Nat
  BY DEF CallT
<1> HIDE DEF n
<1>2. [h EXCEPT !.pc = next, !.attempt = n, !.answer = answer] \in CallT
  BY <1>1, Zenon DEF CallT
<1> QED
  BY <1>2, Zenon DEF n

\* No step of a caller returns nil for an attempt nobody made.
LEMMA CallsStep ==
    ASSUME SyncInv, [SyncNext]_syncVars
    PROVE  CallsInv'
<1>0. CallsInv
  BY Zenon DEF SyncInv
<1>1. CASE UNCHANGED hookCall
  BY <1>0, <1>1, Zenon DEF CallsInv
<1>2. ASSUME NEW c \in Calls, Begin(c)
      PROVE  CallsInv'
  <2>1. cfg.retryMax \in Nat /\ cfg.retryMax # 0
    BY <1>2, Configured, OnMeansConfigured DEF Begin, SyncInv
  <2> DEFINE k == [NoCall EXCEPT !.pc = "allow"]
  <2>2. hookCall' = [hookCall EXCEPT ![c] = k]
    BY <1>2, <2>1, Zenon DEF Begin
  <2>3. k \in CallT /\ k.pc = "allow" /\ k.result = "none"
    BY Zenon DEF NoCall, CallT
  <2> HIDE DEF k
  <2> QED
    BY <1>0, <2>2, <2>3, OneCallMoves, Zenon
<1>3. ASSUME NEW c \in Calls, AskBreaker(c)
      PROVE  CallsInv'
  <2> DEFINE k == [hookCall[c] EXCEPT !.pc = IF Allow THEN "post" ELSE "return",
                                      !.answer = IF Allow THEN @ ELSE "circuitOpen"]
  <2>1. hookCall[c] \in CallT /\ hookCall[c].pc = "allow" /\ hookCall[c].result = "none"
    BY <1>0, <1>3, Zenon DEF CallsInv, AskBreaker
  <2>2. hookCall' = [hookCall EXCEPT ![c] = k]
    BY <1>3, Zenon DEF AskBreaker
  <2>3. k \in CallT /\ k.result = "none" /\ (k.pc \in {"post", "return"}) /\ (k.pc = "return" => k.answer # "none")
    BY <2>1, Zenon DEF CallT
  <2> HIDE DEF k
  <2> QED
    BY <1>0, <2>2, <2>3, OneCallMoves, Zenon
<1>4. ASSUME NEW c \in Calls, NEW answer \in Answers, PostReturns(c, answer)
      PROVE  CallsInv'
  <2> DEFINE next == IF IsFailure(answer) /\ hookCall[c].attempt + 1 < cfg.retryMax THEN "backoff" ELSE "return"
             k == [hookCall[c] EXCEPT !.pc = next, !.attempt = @ + 1, !.answer = answer]
  <2>1. hookCall[c] \in CallT /\ hookCall[c].pc = "post" /\ hookCall[c].result = "none"
    BY <1>0, <1>4, Zenon DEF CallsInv, PostReturns
  <2>2. hookCall' = [hookCall EXCEPT ![c] = k]
    BY <1>4, Zenon DEF PostReturns
  <2>3. next \in {"backoff", "return"}
    BY Zenon
  <2> HIDE DEF next
  <2>4. k.result = "none" /\ k.answer = answer /\ answer # "none"
    BY <2>1, Zenon DEF CallT, Answers
  <2>5. k \in CallT
    BY <2>1, <2>3, AnsweredCall, Zenon
  <2> HIDE DEF k
  <2> QED
    BY <1>0, <2>2, <2>4, <2>5, OneCallMoves, Zenon
<1>5. ASSUME NEW c \in Calls, Backoff(c)
      PROVE  CallsInv'
  <2>1. hookCall[c] \in CallT /\ hookCall[c].pc = "backoff" /\ hookCall[c].result = "none" /\ hookCall[c].answer # "none"
    BY <1>0, <1>5, Zenon DEF CallsInv, Backoff
  <2>2. PICK next \in {"allow", "return"} : hookCall' = [hookCall EXCEPT ![c].pc = next]
    BY <1>5, Zenon DEF Backoff
  <2> DEFINE k == [hookCall[c] EXCEPT !.pc = next]
  <2>3. k \in CallT /\ k.result = "none" /\ k.answer # "none"
    BY <2>1, Zenon DEF CallT
  <2>4. hookCall' = [hookCall EXCEPT ![c] = k]
    BY <2>2, Zenon
  <2> HIDE DEF k
  <2> QED
    BY <1>0, <2>3, <2>4, OneCallMoves, Zenon
<1>6. ASSUME NEW c \in Calls, Return(c)
      PROVE  CallsInv'
  <2>1. PICK r \in HookResults(hookCall[c].answer) : hookCall' = [hookCall EXCEPT ![c] = [NoCall EXCEPT !.result = r]]
    BY <1>6, Zenon DEF Return
  <2>2. r \in {"ok", "rejected", "generic"}
    BY Zenon DEF HookResults
  <2> DEFINE k == [NoCall EXCEPT !.result = r]
  <2>3. k \in CallT /\ k.pc = "idle"
    BY <2>2, Zenon DEF CallT, NoCall
  <2> HIDE DEF k
  <2> QED
    BY <1>0, <2>1, <2>3, OneCallMoves, Zenon DEF k
<1> QED
  BY <1>1, <1>2, <1>3, <1>4, <1>5, <1>6, Zenon
     DEF SyncNext, syncVars, Configure, BackendChanges, TimePasses, PingTick, WatchTick, OnUnhealthy

\* Configure runs once, and what it stores has at least one attempt (RetryMax).
LEMMA ConfigStep ==
    ASSUME ConfigInv, [SyncNext]_syncVars
    PROVE  ConfigInv' /\ (cfg # NoConfig => cfg' # NoConfig)
<1>1. CASE cfg' = cfg
  BY <1>1, Zenon DEF ConfigInv
<1>2. CASE Configure
  <2>1. PICK ping, watch, shutdown \in BOOLEAN, max \in RetryMaxes :
            cfg' = [on |-> TRUE, ping |-> ping, watch |-> watch, shutdown |-> shutdown, retryMax |-> RetryMax(max)]
    BY <1>2, Zenon DEF Configure
  <2>2. RetryMax(max) \in Nat /\ RetryMax(max) >= 1
    BY SyncAssumption DEF RetryMax
  <2>3. cfg' \in ConfigT /\ cfg'.on /\ cfg'.retryMax >= 1
    BY <2>1, <2>2, ZenonT(40), SMTT(30) DEF ConfigT
  <2>4. cfg' # NoConfig
    BY <2>3 DEF NoConfig
  <2> QED
    BY <2>3, <2>4, Zenon DEF ConfigInv
<1> QED
  BY <1>1, <1>2, ZenonT(40), SMTT(30) DEF SyncNext, syncVars, BackendChanges, TimePasses, Begin,
     AskBreaker, PostReturns, Backoff, Return, PingTick, WatchTick, OnUnhealthy

\* The breaker's counter, its clock and the monitor's streak stay within their bounds.
LEMMA BreakerStep ==
    ASSUME BreakerInv, [SyncNext]_syncVars
    PROVE  BreakerInv'
<1> USE SyncAssumption DEF BreakerInv
<1>1. CASE UNCHANGED <<backend, failures, openAge, streak>>
  BY <1>1, Zenon
<1>2. CASE BackendChanges
  BY <1>2, Zenon DEF BackendChanges, monitorVars
<1>3. CASE TimePasses
  BY <1>3 DEF TimePasses, monitorVars
<1>4. ASSUME NEW c \in Calls, NEW answer \in Answers, PostReturns(c, answer)
      PROVE  BreakerInv'
  <2>1. failures' \in 0 .. Threshold /\ openAge' \in 0 .. MaxOpen
    BY <1>4 DEF PostReturns, Record, IsOpen
  <2> QED
    BY <1>4, <2>1, Zenon DEF PostReturns, monitorVars
<1>5. CASE PingTick
  BY <1>5 DEF PingTick
<1> HIDE DEF BreakerInv
<1> QED
  BY <1>1, <1>2, <1>3, <1>4, <1>5, Zenon DEF SyncNext, syncVars, monitorVars, Configure, Begin,
     AskBreaker, Backoff, Return, WatchTick, OnUnhealthy

\* The callback is handed to one goroutine, once (SetUnhealthy).
LEMMA MonitorStep ==
    ASSUME ConfigInv, MonitorInv, [SyncNext]_syncVars
    PROVE  MonitorInv'
<1>0. cfg # NoConfig => cfg' # NoConfig
  BY ConfigStep, Zenon
<1>1. CASE UNCHANGED <<healthy, fired, firing, fires, rootDone>>
  BY <1>0, <1>1, Zenon DEF MonitorInv
<1>2. ASSUME NEW s \in Sources, SetUnhealthy(s), cfg # NoConfig, s \notin firing, UNCHANGED <<fires, rootDone>>
      PROVE  MonitorInv'
  BY <1>0, <1>2, Zenon DEF MonitorInv, SetUnhealthy
<1>3. CASE PingTick
  <2>1. cfg # NoConfig /\ "pinger" \in Sources /\ "pinger" \notin firing /\ UNCHANGED <<fires, rootDone>>
    BY <1>3, OnMeansConfigured, Zenon DEF PingTick, Sources
  <2>2. CASE SetUnhealthy("pinger")
    BY <1>2, <2>1, <2>2, Zenon
  <2>3. CASE UNCHANGED <<fired, firing>> /\ healthy' \in BOOLEAN
    BY <1>0, <2>1, <2>3, Zenon DEF MonitorInv
  <2> QED
    BY <1>3, <2>2, <2>3, Zenon DEF PingTick, MonitorInv
<1>4. CASE WatchTick
  <2>1. cfg # NoConfig /\ "watcher" \in Sources /\ "watcher" \notin firing /\ UNCHANGED <<fires, rootDone>>
    BY <1>4, OnMeansConfigured, Zenon DEF WatchTick, Sources
  <2> QED
    BY <1>2, <1>4, <2>1, Zenon DEF WatchTick
<1>5. ASSUME NEW s \in Sources, OnUnhealthy(s)
      PROVE  MonitorInv'
  <2>1. firing = {s} /\ fired /\ fires = 0 /\ cfg # NoConfig
    BY <1>5, Zenon DEF OnUnhealthy, MonitorInv
  <2>2. (rootDone \/ cfg.shutdown) \in BOOLEAN
    BY Zenon
  <2>3. healthy' \in BOOLEAN /\ fired' = TRUE /\ rootDone' \in BOOLEAN /\ firing' = {} /\ fires' = 1
    BY <1>5, <2>1, <2>2 DEF OnUnhealthy, MonitorInv
  <2> QED
    BY <2>3, Zenon DEF MonitorInv
<1> QED
  BY <1>1, <1>3, <1>4, <1>5, ZenonT(40), SMTT(30) DEF SyncNext, syncVars, monitorVars, Configure,
     BackendChanges, TimePasses, Begin, AskBreaker, PostReturns, Backoff, Return

\* No hook lets a client through without a 2xx answer to its own last attempt, and
\* onUnhealthy runs at most once (SyncCaller.Call, HealthMonitor.SetUnhealthy), for
\* any number of concurrent calls, thresholds and configured attempts.
THEOREM HooksFailClosedThm == SyncInit /\ [][SyncNext]_syncVars => HooksFailClosed
<1>1. SyncInit => SyncInv
  <2> SUFFICES ASSUME SyncInit
               PROVE  SyncInv
    BY Zenon
  <2>1. CallsInv
    BY Zenon DEF SyncInit, CallsInv, CallT, NoCall
  <2>2. ConfigInv /\ BreakerInv
    BY SyncAssumption DEF SyncInit, ConfigInv, BreakerInv
  <2>3. MonitorInv
    BY Zenon DEF SyncInit, MonitorInv
  <2> QED
    BY <2>1, <2>2, <2>3, Zenon DEF SyncInv
<1>2. SyncInv /\ [SyncNext]_syncVars => SyncInv'
  BY CallsStep, ConfigStep, BreakerStep, MonitorStep, Zenon DEF SyncInv
<1>t. SyncInv => SyncTypeOK
  <2> SUFFICES ASSUME SyncInv
               PROVE  SyncTypeOK
    BY Zenon
  <2>1. firing \subseteq Sources /\ fires \in {0, 1}
    BY Zenon DEF SyncInv, MonitorInv
  <2> QED
    BY <2>1, Zenon DEF SyncInv, SyncTypeOK, CallsInv, ConfigInv, BreakerInv, MonitorInv, CallT, ConfigT
<1>3. SyncInv /\ [SyncNext]_syncVars
          => [\A c \in Calls : hookCall[c].pc = "return" /\ hookCall'[c].result = "ok"
                                   => hookCall[c].answer = "2xx"]_syncVars
  <2> SUFFICES ASSUME SyncInv, SyncNext, NEW c \in Calls, hookCall[c].pc = "return", hookCall'[c].result = "ok"
               PROVE  hookCall[c].answer = "2xx"
    BY Zenon DEF syncVars
  <2>1. hookCall[c].result = "none" /\ hookCall[c].answer # "none" /\ DOMAIN hookCall = Calls
    BY Zenon DEF SyncInv, CallsInv
  <2>2. hookCall'[c] # hookCall[c]
    BY <2>1, Zenon
  <2>3. Return(c)
    BY <2>1, <2>2, ZenonT(40), SMTT(30) DEF SyncNext, Configure, BackendChanges, TimePasses, Begin,
       AskBreaker, PostReturns, Backoff, Return, PingTick, WatchTick, OnUnhealthy
  <2>4. PICK r \in HookResults(hookCall[c].answer) : hookCall' = [hookCall EXCEPT ![c] = [NoCall EXCEPT !.result = r]]
    BY <2>3, Zenon DEF Return
  <2>5. r = "ok"
    BY <2>1, <2>4, Zenon DEF NoCall
  <2> QED
    BY <2>1, <2>4, <2>5, Zenon DEF HookResults
<1> QED
  BY <1>1, <1>2, <1>t, <1>3, PTL DEF HooksFailClosed

-----------------------------------------------------------------------------
(***************************************************************************)
(* AsyncCallbacks.  An event that was accepted is in one place: the queue, *)
(* a retry timer, or the hands of the delivery loop.  The drain leaves the *)
(* loop only with an empty queue or at the deadline.                       *)
(***************************************************************************)

Fates == {"new", "held", "delivered", "queueFull", "exhausted", "shutdown"}

InQueue(e) == \E i \in 1 .. Len(eventQueue) : eventQueue[i] = e

\* An event that is held is in one place, and only then.
PlaceInv ==
    /\ eventQueue \in Seq(Events) /\ retryTimers \subseteq Events /\ inFlight \in Events \cup {NoEvent}
    /\ fate \in [Events -> Fates]
    /\ \A i, j \in 1 .. Len(eventQueue) : eventQueue[i] = eventQueue[j] => i = j
    /\ \A e \in Events : InQueue(e) => e # inFlight /\ e \notin retryTimers
    /\ inFlight \notin retryTimers
    /\ \A e \in Events : fate[e] = "held" <=> InQueue(e) \/ e = inFlight \/ e \in retryTimers

\* Attempts are counted, and an event that is still held has one left.
AttemptInv ==
    /\ attempts \in [Events -> 0 .. AsyncRetryMax]
    /\ \A e \in Events : fate[e] \in {"new", "held"} => attempts[e] < AsyncRetryMax
    /\ \A e \in Events : fate[e] \in {"delivered", "exhausted", "shutdown"} => attempts[e] > 0
    /\ \A e \in retryTimers : attempts[e] > 0

\* The queue after a job was taken from it.
LEMMA TakenFromQueue ==
    ASSUME PlaceInv, eventQueue # <<>>, eventQueue' = Tail(eventQueue)
    PROVE  /\ eventQueue' \in Seq(Events) /\ Head(eventQueue) \in Events
           /\ Len(eventQueue') = Len(eventQueue) - 1
           /\ \A i \in 1 .. Len(eventQueue') : i + 1 \in 1 .. Len(eventQueue) /\ eventQueue'[i] = eventQueue[i + 1]
           /\ \A e : InQueue(e)' <=> InQueue(e) /\ e # Head(eventQueue)
           /\ InQueue(Head(eventQueue))
<1>1. eventQueue \in Seq(Events) /\ Len(eventQueue) \in Nat /\ Len(eventQueue) >= 1 /\ Head(eventQueue) = eventQueue[1]
  BY DEF PlaceInv
<1>2. Head(eventQueue) \in Events /\ eventQueue' \in Seq(Events) /\ Len(eventQueue') = Len(eventQueue) - 1
  BY <1>1
<1>3. \A i \in 1 .. Len(eventQueue') : i + 1 \in 1 .. Len(eventQueue) /\ eventQueue'[i] = eventQueue[i + 1]
  BY <1>1, <1>2
<1>4. ASSUME NEW e
      PROVE  InQueue(e)' <=> InQueue(e) /\ e # Head(eventQueue)
  <2>1. ASSUME NEW i \in 1 .. Len(eventQueue'), eventQueue'[i] = e
        PROVE  InQueue(e) /\ e # Head(eventQueue)
    <3>1. i + 1 \in 1 .. Len(eventQueue) /\ eventQueue[i + 1] = e /\ i + 1 # 1 /\ 1 \in 1 .. Len(eventQueue)
      BY <1>1, <1>2, <1>3, <2>1
    <3>2. eventQueue[i + 1] # eventQueue[1]
      BY <3>1, Zenon DEF PlaceInv
    <3> QED
      BY <1>1, <3>1, <3>2, Zenon DEF InQueue
  <2>2. ASSUME NEW i \in 1 .. Len(eventQueue), eventQueue[i] = e, e # Head(eventQueue)
        PROVE  InQueue(e)'
    <3>1. i # 1 /\ i - 1 \in 1 .. Len(eventQueue')
      BY <1>1, <1>2, <2>2
    <3>2. eventQueue'[i - 1] = e
      BY <1>3, <2>2, <3>1
    <3> QED
      BY <3>1, <3>2, Zenon DEF InQueue
  <2> QED
    BY <2>1, <2>2, Zenon DEF InQueue
<1>5. InQueue(Head(eventQueue))
  BY <1>1 DEF InQueue
<1> QED
  BY <1>2, <1>3, <1>4, <1>5, Zenon

\* The queue after an event was put into it.
LEMMA PutIntoQueue ==
    ASSUME PlaceInv, NEW e \in Events, eventQueue' = Append(eventQueue, e)
    PROVE  /\ eventQueue' \in Seq(Events)
           /\ Len(eventQueue') = Len(eventQueue) + 1
           /\ \A i \in 1 .. Len(eventQueue) : eventQueue'[i] = eventQueue[i]
           /\ eventQueue'[Len(eventQueue) + 1] = e
           /\ \A x : InQueue(x)' <=> InQueue(x) \/ x = e
<1>1. eventQueue \in Seq(Events) /\ Len(eventQueue) \in Nat
  BY DEF PlaceInv
<1>2. /\ eventQueue' \in Seq(Events)
      /\ Len(eventQueue') = Len(eventQueue) + 1
      /\ \A i \in 1 .. Len(eventQueue) : eventQueue'[i] = eventQueue[i]
      /\ eventQueue'[Len(eventQueue) + 1] = e
  BY <1>1
<1>3. ASSUME NEW x
      PROVE  InQueue(x)' <=> InQueue(x) \/ x = e
  <2>1. ASSUME NEW i \in 1 .. Len(eventQueue'), eventQueue'[i] = x
        PROVE  InQueue(x) \/ x = e
    <3>1. i \in 1 .. Len(eventQueue) \/ i = Len(eventQueue) + 1
      BY <1>1, <1>2
    <3> QED
      BY <1>2, <2>1, <3>1, Zenon DEF InQueue
  <2>2. ASSUME NEW i \in 1 .. Len(eventQueue), eventQueue[i] = x
        PROVE  InQueue(x)'
    <3>1. i \in 1 .. Len(eventQueue') /\ eventQueue'[i] = x
      BY <1>1, <1>2, <2>2
    <3> QED
      BY <3>1, Zenon DEF InQueue
  <2>3. ASSUME x = e
        PROVE  InQueue(x)'
    <3>1. Len(eventQueue) + 1 \in 1 .. Len(eventQueue')
      BY <1>1, <1>2
    <3> QED
      BY <1>2, <2>3, <3>1, Zenon DEF InQueue
  <2> QED
    BY <2>1, <2>2, <2>3, Zenon DEF InQueue
<1> QED
  BY <1>2, <1>3, Zenon

\* What a step may do to the places of events, one case per action.
LEMMA PlaceMoves ==
    ASSUME [AsyncNext]_asyncVars
    PROVE  \/ UNCHANGED <<eventQueue, retryTimers, inFlight, fate, attempts>>
           \/ TakeJob
           \/ \E e \in Events : Emit(e) \/ Deliver(e) \/ RetryTimer(e)
BY Zenon DEF AsyncNext, asyncVars, jobVars, Start, SeeClosed, DrainDone, RootDone, StopListeners,
   StopTransport, Expire, Exit

\* An event that no place holds may be put into one.
LEMMA PlacePuts ==
    ASSUME PlaceInv, NEW e \in Events, eventQueue' = Append(eventQueue, e), ~InQueue(e), e # inFlight,
           inFlight' = inFlight, retryTimers' = retryTimers \ {e}, fate' = [fate EXCEPT ![e] = "held"]
    PROVE  PlaceInv'
<1>1. /\ eventQueue' \in Seq(Events)
      /\ Len(eventQueue') = Len(eventQueue) + 1
      /\ \A i \in 1 .. Len(eventQueue) : eventQueue'[i] = eventQueue[i]
      /\ eventQueue'[Len(eventQueue) + 1] = e
      /\ \A x : InQueue(x)' <=> InQueue(x) \/ x = e
  BY PutIntoQueue, ZenonT(40), SMTT(30)
<1>2. ASSUME NEW i \in 1 .. Len(eventQueue'), NEW j \in 1 .. Len(eventQueue'), eventQueue'[i] = eventQueue'[j]
      PROVE  i = j
  <2>0. Len(eventQueue) \in Nat
    BY DEF PlaceInv
  <2>1. (i \in 1 .. Len(eventQueue) \/ i = Len(eventQueue) + 1) /\ (j \in 1 .. Len(eventQueue) \/ j = Len(eventQueue) + 1)
    BY <1>1, <2>0
  <2> QED
    BY <1>1, <1>2, <2>1 DEF PlaceInv, InQueue
<1>3. fate' \in [Events -> Fates] /\ fate'[e] = "held" /\ \A x \in Events \ {e} : fate'[x] = fate[x]
  BY Zenon DEF PlaceInv, Fates
<1>4. \A x \in Events : InQueue(x)' => x # inFlight' /\ x \notin retryTimers'
  BY <1>1, Zenon DEF PlaceInv
<1>5. \A x \in Events : fate'[x] = "held" <=> InQueue(x)' \/ x = inFlight' \/ x \in retryTimers'
  BY <1>1, <1>3, Zenon DEF PlaceInv
<1>6. retryTimers' \subseteq Events /\ inFlight' \in Events \cup {NoEvent} /\ inFlight' \notin retryTimers'
  BY Zenon DEF PlaceInv
<1> QED
  BY <1>1, <1>2, <1>3, <1>4, <1>5, <1>6, Zenon DEF PlaceInv

\* No step puts an event into two places, or loses one that is held.
LEMMA PlaceStep ==
    ASSUME PlaceInv, [AsyncNext]_asyncVars
    PROVE  PlaceInv'
<1>n. NoEvent \notin Events
  BY AsyncAssumption, Zenon
<1>1. CASE UNCHANGED <<eventQueue, retryTimers, inFlight, fate, attempts>>
  BY <1>1, Zenon DEF PlaceInv, InQueue
<1>2. CASE TakeJob
  <2>1. inFlight = NoEvent /\ eventQueue # <<>> /\ inFlight' = Head(eventQueue) /\ eventQueue' = Tail(eventQueue)
        /\ retryTimers' = retryTimers /\ fate' = fate
    BY <1>2, Zenon DEF TakeJob
  <2>2. /\ eventQueue' \in Seq(Events) /\ Head(eventQueue) \in Events
        /\ Len(eventQueue') = Len(eventQueue) - 1
        /\ \A i \in 1 .. Len(eventQueue') : i + 1 \in 1 .. Len(eventQueue) /\ eventQueue'[i] = eventQueue[i + 1]
        /\ \A e : InQueue(e)' <=> InQueue(e) /\ e # Head(eventQueue)
        /\ InQueue(Head(eventQueue))
    BY <2>1, TakenFromQueue, Zenon
  <2>3. ASSUME NEW i \in 1 .. Len(eventQueue'), NEW j \in 1 .. Len(eventQueue'), eventQueue'[i] = eventQueue'[j]
        PROVE  i = j
    <3>1. i + 1 \in 1 .. Len(eventQueue) /\ j + 1 \in 1 .. Len(eventQueue)
          /\ eventQueue[i + 1] = eventQueue[j + 1]
      BY <2>2, <2>3, Zenon
    <3>2. i + 1 = j + 1
      BY <3>1, Zenon DEF PlaceInv
    <3> QED
      BY <3>2
  <2>4. \A e \in Events : InQueue(e)' => e # inFlight' /\ e \notin retryTimers'
    BY <2>1, <2>2, Zenon DEF PlaceInv
  <2>5. \A e \in Events : fate'[e] = "held" <=> InQueue(e)' \/ e = inFlight' \/ e \in retryTimers'
    BY <1>n, <2>1, <2>2, Zenon DEF PlaceInv
  <2>6. inFlight' \notin retryTimers'
    BY <2>1, <2>2, Zenon DEF PlaceInv
  <2> QED
    BY <2>1, <2>2, <2>3, <2>4, <2>5, <2>6, Zenon DEF PlaceInv
<1>3. ASSUME NEW e \in Events, Emit(e)
      PROVE  PlaceInv'
  <2>1. fate[e] = "new" /\ retryTimers' = retryTimers /\ inFlight' = inFlight
    BY <1>3, Zenon DEF Emit
  <2>2. ~InQueue(e) /\ e # inFlight /\ e \notin retryTimers
    BY <2>1, Zenon DEF PlaceInv
  <2>3. CASE HasRoom
    <3>1. eventQueue' = Append(eventQueue, e) /\ fate' = [fate EXCEPT ![e] = "held"] /\ retryTimers' = retryTimers \ {e}
      BY <1>3, <2>1, <2>2, <2>3, Zenon DEF Emit
    <3> QED
      BY <2>1, <2>2, <3>1, PlacePuts, Zenon
  <2>4. CASE ~HasRoom
    <3>1. eventQueue' = eventQueue /\ fate' = [fate EXCEPT ![e] = "queueFull"]
      BY <1>3, <2>4, Zenon DEF Emit
    <3>2. \A x : InQueue(x)' <=> InQueue(x)
      BY <3>1, Zenon DEF InQueue
    <3> QED
      BY <2>1, <2>2, <3>1, <3>2, ZenonT(40), SMTT(30) DEF PlaceInv, Fates
  <2> QED
    BY <2>3, <2>4, Zenon
<1>4. ASSUME NEW e \in Events, Deliver(e)
      PROVE  PlaceInv'
  <2>1. inFlight = e /\ inFlight' = NoEvent /\ eventQueue' = eventQueue
    BY <1>4, Zenon DEF Deliver, Delivered, Failed
  <2>2. ~InQueue(e) /\ e \notin retryTimers
    BY <2>1, Zenon DEF PlaceInv
  <2>3. \A x : InQueue(x)' <=> InQueue(x)
    BY <2>1, Zenon DEF InQueue
  <2>4. CASE retryTimers' = retryTimers /\ \E f \in {"delivered", "exhausted"} : fate' = [fate EXCEPT ![e] = f]
    BY <1>n, <2>1, <2>2, <2>3, <2>4, ZenonT(40), SMTT(30) DEF PlaceInv, Fates
  <2>5. CASE retryTimers' = retryTimers \cup {e} /\ fate' = fate
    BY <1>n, <2>1, <2>2, <2>3, <2>5, Zenon DEF PlaceInv
  <2> QED
    BY <1>4, <2>4, <2>5, Zenon DEF Deliver, Delivered, Failed
<1>5. ASSUME NEW e \in Events, RetryTimer(e)
      PROVE  PlaceInv'
  <2>1. e \in retryTimers /\ retryTimers' = retryTimers \ {e} /\ inFlight' = inFlight
    BY <1>5, Zenon DEF RetryTimer
  <2>2. ~InQueue(e) /\ e # inFlight /\ fate[e] = "held"
    BY <2>1, Zenon DEF PlaceInv
  <2>3. CASE eventQueue' = Append(eventQueue, e) /\ UNCHANGED fate
    <3>1. fate' = [fate EXCEPT ![e] = "held"]
      BY <2>2, <2>3, Zenon DEF PlaceInv
    <3> QED
      BY <2>1, <2>2, <2>3, <3>1, PlacePuts, Zenon
  <2>4. CASE eventQueue' = eventQueue /\ \E f \in {"shutdown", "queueFull"} : fate' = [fate EXCEPT ![e] = f]
    <3>1. \A x : InQueue(x)' <=> InQueue(x)
      BY <2>4, Zenon DEF InQueue
    <3> QED
      BY <2>1, <2>2, <2>4, <3>1, ZenonT(40), SMTT(30) DEF PlaceInv, Fates
  <2> QED
    BY <1>5, <2>3, <2>4, Zenon DEF RetryTimer
<1> QED
  BY <1>1, <1>2, <1>3, <1>4, <1>5, PlaceMoves, Zenon

\* Deliver counts its attempts, and an event ends only after one.
LEMMA AttemptStep ==
    ASSUME PlaceInv, AttemptInv, [AsyncNext]_asyncVars
    PROVE  AttemptInv'
<1> USE AsyncAssumption
<1>1. CASE UNCHANGED <<retryTimers, fate, attempts>>
  BY <1>1, Zenon DEF AttemptInv
<1>2. ASSUME NEW e \in Events, Emit(e)
      PROVE  AttemptInv'
  BY <1>2, ZenonT(40), SMTT(30) DEF Emit, AttemptInv, PlaceInv
<1>3. ASSUME NEW e \in Events, Deliver(e)
      PROVE  AttemptInv'
  <2>1. fate[e] = "held" /\ attempts[e] < AsyncRetryMax
    BY <1>3, ZenonT(40), SMTT(30) DEF Deliver, Delivered, Failed, PlaceInv, AttemptInv
  <2>2. /\ attempts' \in [Events -> 0 .. AsyncRetryMax]
        /\ attempts'[e] = attempts[e] + 1 /\ \A x \in Events \ {e} : attempts'[x] = attempts[x]
        /\ attempts'[e] > 0
    BY <1>3, <2>1 DEF Deliver, Delivered, Failed, AttemptInv
  <2>3. CASE retryTimers' = retryTimers /\ \E f \in {"delivered", "exhausted"} : fate' = [fate EXCEPT ![e] = f]
    BY <2>2, <2>3, ZenonT(40), SMTT(30) DEF AttemptInv, PlaceInv
  <2>4. CASE retryTimers' = retryTimers \cup {e} /\ fate' = fate /\ ~(attempts[e] + 1 >= AsyncRetryMax)
    <3>1. attempts'[e] < AsyncRetryMax
      BY <2>1, <2>2, <2>4 DEF AttemptInv
    <3>2. ASSUME NEW x \in Events
          PROVE  /\ fate'[x] \in {"new", "held"} => attempts'[x] < AsyncRetryMax
                 /\ fate'[x] \in {"delivered", "exhausted", "shutdown"} => attempts'[x] > 0
                 /\ x \in retryTimers' => attempts'[x] > 0
      <4>1. CASE x = e
        BY <4>1, <2>2, <3>1, Zenon
      <4>2. CASE x # e
        BY <4>2, <2>2, <2>4, Zenon DEF AttemptInv
      <4> QED
        BY <4>1, <4>2, Zenon
    <3>3. retryTimers' \subseteq Events
      BY <2>4, Zenon DEF PlaceInv
    <3> QED
      BY <2>2, <3>2, <3>3, Zenon DEF AttemptInv
  <2>5. CASE Delivered(e)
    BY <2>3, <2>5, Zenon DEF Delivered
  <2>6. CASE Failed(e)
    <3>1. CASE transport = "pubsub" \/ attempts[e] + 1 >= AsyncRetryMax
      BY <2>3, <2>6, <3>1, Zenon DEF Failed
    <3>2. CASE ~(transport = "pubsub" \/ attempts[e] + 1 >= AsyncRetryMax)
      BY <2>4, <2>6, <3>2, Zenon DEF Failed
    <3> QED
      BY <3>1, <3>2, Zenon
  <2> QED
    BY <1>3, <2>5, <2>6, Zenon DEF Deliver
<1>4. ASSUME NEW e \in Events, RetryTimer(e)
      PROVE  AttemptInv'
  BY <1>4, ZenonT(40), SMTT(30) DEF RetryTimer, AttemptInv, PlaceInv
<1> QED
  BY <1>1, <1>2, <1>3, <1>4, PlaceMoves, Zenon DEF TakeJob

\* How far main and the loop are, and what that says about early events: main closes
\* the transport last, and a loop that has ended has left none of them behind.
ExitInv ==
    /\ transport \in {"none", "webhook", "pubsub"}
    /\ proc \in {"serving", "listeners", "core", "waiting", "exited"}
    /\ expired \in BOOLEAN /\ closed \in BOOLEAN
    /\ loop \in {"select", "drain", "exited"}
    /\ early \subseteq Events
    /\ Len(eventQueue) <= AsyncQueueSize
    /\ closed <=> proc \in {"waiting", "exited"}
    /\ loop # "select" => closed
    /\ loop = "exited" => inFlight = NoEvent
    /\ loop = "exited" => \A e \in early : InQueue(e) => attempts[e] > 0
    /\ proc = "exited" /\ ~expired => loop = "exited"
    /\ \A e \in early : fate[e] # "new"

\* main closes the transport before it waits, and waits before it exits.
LEMMA ExitStep ==
    ASSUME PlaceInv, AttemptInv, ExitInv, [AsyncNext]_asyncVars
    PROVE  ExitInv'
<1> USE AsyncAssumption
<1>0. eventQueue \in Seq(Events) /\ Len(eventQueue) \in Nat
  BY DEF PlaceInv
<1>1. CASE Start \/ RootDone \/ StopListeners \/ Expire \/ Exit \/ UNCHANGED asyncVars
  <2>1. UNCHANGED <<jobVars, early, closed>>
    BY <1>1, Zenon DEF Start, RootDone, StopListeners, Expire, Exit, asyncVars
  <2>2. \A e : InQueue(e)' <=> InQueue(e)
    BY <2>1, Zenon DEF jobVars, InQueue
  <2> QED
    BY <1>1, <2>1, <2>2 DEF ExitInv, asyncVars, jobVars, Start, RootDone, StopListeners, Expire,
       Exit, Running
<1>2. CASE StopTransport
  <2>1. \A e : InQueue(e)' <=> InQueue(e)
    BY <1>2, Zenon DEF StopTransport, jobVars, InQueue
  <2> QED
    BY <1>2, <2>1, Zenon DEF StopTransport, ExitInv, jobVars
<1>3. CASE TakeJob
  <2>1. \A e : InQueue(e)' => InQueue(e)
    BY <1>3, TakenFromQueue, Zenon DEF TakeJob
  <2>2. Len(eventQueue') <= AsyncQueueSize
    <3>1. Len(eventQueue') = Len(eventQueue) - 1
      BY <1>3, TakenFromQueue, Zenon DEF TakeJob
    <3>2. Len(eventQueue) <= AsyncQueueSize
      BY Zenon DEF ExitInv
    <3> QED
      BY <1>0, <3>1, <3>2, AsyncAssumption
  <2> QED
    BY <1>3, <2>1, <2>2, Zenon DEF TakeJob, ExitInv
<1>4. CASE SeeClosed \/ DrainDone
  <2>1. \A e : InQueue(e)' <=> InQueue(e)
    BY <1>4, Zenon DEF SeeClosed, DrainDone, InQueue
  <2>2. CASE SeeClosed
    BY <2>1, <2>2, Zenon DEF SeeClosed, ExitInv
  <2>3. CASE DrainDone
    <3>1. \A e : ~InQueue(e)
      BY <2>3 DEF DrainDone, InQueue
    <3> QED
      BY <2>1, <2>3, <3>1, Zenon DEF DrainDone, ExitInv, Running
  <2> QED
    BY <1>4, <2>2, <2>3, Zenon
<1>5. ASSUME NEW e \in Events, Emit(e)
      PROVE  ExitInv'
  <2>1. e \notin early /\ fate[e] = "new"
    BY <1>5, Zenon DEF Emit, ExitInv
  <2>2. \A x : InQueue(x)' => InQueue(x) \/ x = e
    <3>1. CASE eventQueue' = Append(eventQueue, e)
      BY <3>1, PutIntoQueue, Zenon
    <3>2. CASE eventQueue' = eventQueue
      BY <3>2, Zenon DEF InQueue
    <3> QED
      BY <1>5, <3>1, <3>2, Zenon DEF Emit
  <2>3. Len(eventQueue') <= AsyncQueueSize
    <3>1. CASE HasRoom
      <4>1. eventQueue' = Append(eventQueue, e)
        BY <1>5, <3>1, Zenon DEF Emit
      <4> QED
        BY <1>0, <3>1, <4>1, PutIntoQueue DEF HasRoom
    <3>2. CASE ~HasRoom
      BY <1>5, <3>2, Zenon DEF Emit, ExitInv
    <3> QED
      BY <3>1, <3>2, Zenon
  <2>4. fate'[e] # "new" /\ \A x \in Events \ {e} : fate'[x] = fate[x]
    BY <1>5, Zenon DEF Emit, PlaceInv
  <2>5. loop = "exited" => early' = early
    BY <1>5, Zenon DEF Emit, ExitInv, Running
  <2>6. early' \subseteq Events /\ early' \subseteq early \cup {e} /\ \A x \in early' : fate'[x] # "new"
    BY <1>5, <2>1, <2>4, Zenon DEF Emit, ExitInv
  <2>7. loop' = loop /\ attempts' = attempts /\ inFlight' = inFlight /\ UNCHANGED <<transport, proc, expired, closed>>
    BY <1>5, Zenon DEF Emit
  <2>8. loop = "exited" => \A x \in early' : InQueue(x)' => attempts'[x] > 0
    BY <2>1, <2>2, <2>5, <2>7, Zenon DEF ExitInv
  <2> QED
    BY <2>3, <2>6, <2>7, <2>8, Zenon DEF ExitInv
<1>6. ASSUME NEW e \in Events, Deliver(e)
      PROVE  ExitInv'
  <2>1. inFlight = e /\ e # NoEvent /\ inFlight' = NoEvent /\ loop' = loop /\ eventQueue' = eventQueue
        /\ UNCHANGED <<transport, proc, expired, closed, early>>
    BY <1>6, Zenon DEF Deliver, Delivered, Failed
  <2>2. loop # "exited"
    BY <2>1, Zenon DEF ExitInv
  <2>3. \A x \in Events : fate[x] # "new" => fate'[x] # "new"
    BY <1>6, ZenonT(40), SMTT(30) DEF Deliver, Delivered, Failed, PlaceInv
  <2> QED
    BY <2>1, <2>2, <2>3, Zenon DEF ExitInv
<1>7. ASSUME NEW e \in Events, RetryTimer(e)
      PROVE  ExitInv'
  <2>1. e \in retryTimers /\ attempts[e] > 0 /\ attempts' = attempts /\ loop' = loop /\ inFlight' = inFlight
        /\ UNCHANGED <<transport, proc, expired, closed, early>>
    BY <1>7, Zenon DEF RetryTimer, AttemptInv
  <2>2. (\A x : InQueue(x)' => InQueue(x) \/ x = e) /\ Len(eventQueue') <= AsyncQueueSize
    <3>1. CASE HasRoom /\ eventQueue' = Append(eventQueue, e)
      BY <1>0, <3>1, PutIntoQueue DEF HasRoom
    <3>2. CASE eventQueue' = eventQueue
      BY <3>2, Zenon DEF InQueue, ExitInv
    <3> QED
      BY <1>7, <3>1, <3>2, ZenonT(40), SMTT(30) DEF RetryTimer
  <2>3. \A x \in Events : fate[x] # "new" => fate'[x] # "new"
    BY <1>7, Zenon DEF RetryTimer, PlaceInv
  <2> QED
    BY <2>1, <2>2, <2>3, Zenon DEF ExitInv
<1> QED
  BY <1>1, <1>2, <1>3, <1>4, <1>5, <1>6, <1>7, Zenon
     DEF AsyncNext, asyncVars, jobVars, Start, RootDone, StopListeners, Expire, Exit

AsyncInv == PlaceInv /\ AttemptInv /\ ExitInv

\* The inductive invariant of the asynchronous transport.
LEMMA AsyncInvHolds == AsyncInit /\ [][AsyncNext]_asyncVars => []AsyncInv
<1>1. AsyncInit => AsyncInv
  <2> SUFFICES ASSUME AsyncInit
               PROVE  AsyncInv
    BY Zenon
  <2>1. eventQueue \in Seq(Events) /\ Len(eventQueue) = 0 /\ (\A e : ~InQueue(e))
    BY DEF AsyncInit, InQueue
  <2>2. PlaceInv
    BY <2>1, AsyncAssumption DEF AsyncInit, PlaceInv, Fates
  <2>3. AttemptInv
    BY AsyncAssumption DEF AsyncInit, AttemptInv
  <2>4. ExitInv
    <3>1. expired \in BOOLEAN /\ closed \in BOOLEAN /\ ~closed
      BY Zenon DEF AsyncInit
    <3> QED
      BY <2>1, <3>1, AsyncAssumption DEF AsyncInit, ExitInv
  <2> QED
    BY <2>2, <2>3, <2>4, Zenon DEF AsyncInv
<1>2. AsyncInv /\ [AsyncNext]_asyncVars => AsyncInv'
  BY PlaceStep, AttemptStep, ExitStep, Zenon DEF AsyncInv
<1> QED
  BY <1>1, <1>2, PTL

\* A process that ends in time has attempted every early event (Shutdown's drain),
\* for any number of events, attempts and places in the queue.
THEOREM CleanExitAttemptsAllThm == AsyncInit /\ [][AsyncNext]_asyncVars => []CleanExitAttemptsAll
<1>1. AsyncInv => CleanExitAttemptsAll
  <2> SUFFICES ASSUME AsyncInv
               PROVE  CleanExitAttemptsAll
    BY Zenon
  <2>1. AsyncTypeOK
    BY Zenon DEF AsyncInv, PlaceInv, AttemptInv, ExitInv, AsyncTypeOK, Fates
  <2>2. ASSUME proc = "exited", ~expired, NEW e \in early
        PROVE  attempts[e] > 0 \/ fate[e] = "queueFull"
    <3>1. loop = "exited" /\ inFlight = NoEvent /\ fate[e] # "new" /\ e \in Events /\ e # NoEvent
      BY <2>2, AsyncAssumption, Zenon DEF AsyncInv, ExitInv
    <3>2. CASE fate[e] = "held"
      <4>1. InQueue(e) \/ e \in retryTimers
        BY <3>1, <3>2, Zenon DEF AsyncInv, PlaceInv
      <4> QED
        BY <2>2, <3>1, <4>1, Zenon DEF AsyncInv, ExitInv, AttemptInv
    <3>3. CASE fate[e] # "held"
      BY <3>1, <3>3, Zenon DEF AsyncInv, PlaceInv, AttemptInv, Fates
    <3> QED
      BY <3>2, <3>3, Zenon
  <2> QED
    BY <2>1, <2>2, Zenon DEF CleanExitAttemptsAll
<1> QED
  BY <1>1, AsyncInvHolds, PTL

\* An event is in one place while it is held and in none otherwise (queue, retry
\* timer or deliver), so that no attempt overlaps another of the same event.
THEOREM EachEventHeldOnceThm == AsyncInit /\ [][AsyncNext]_asyncVars => []EachEventHeldOnce
<1>1. PlaceInv => EachEventHeldOnce
  <2> SUFFICES ASSUME PlaceInv, NEW e \in Events
               PROVE  IF fate[e] = "held" THEN \E p \in Places(e) : Places(e) = {p} ELSE Places(e) = {}
    BY Zenon DEF EachEventHeldOnce
  <2> DEFINE places == {i \in DOMAIN eventQueue : eventQueue[i] = e}
  <2>0. DOMAIN eventQueue = 1 .. Len(eventQueue)
    BY DEF PlaceInv
  <2>1. CASE InQueue(e)
    <3>1. PICK i \in 1 .. Len(eventQueue) : eventQueue[i] = e
      BY <2>1, Zenon DEF InQueue
    <3>2. places = {i}
      BY <2>0, <3>1 DEF PlaceInv
    <3> HIDE DEF places
    <3>3. fate[e] = "held" /\ e # inFlight /\ e \notin retryTimers
      BY <2>1, ZenonT(40), SMTT(30) DEF PlaceInv
    <3>4. Places(e) = {i}
      BY <3>2, <3>3 DEF Places, places
    <3> QED
      BY <3>3, <3>4, Zenon
  <2>2. CASE ~InQueue(e)
    <3>1. places = {}
      BY <2>0, <2>2, Zenon DEF InQueue
    <3> HIDE DEF places
    <3>2. fate[e] = "held" <=> e = inFlight \/ e \in retryTimers
      BY <2>2, Zenon DEF PlaceInv
    <3>3. ~(e = inFlight /\ e \in retryTimers)
      BY Zenon DEF PlaceInv
    <3>4. Places(e) = (IF e \in retryTimers THEN {0} ELSE {}) \cup (IF e = inFlight THEN {Len(eventQueue) + 1} ELSE {})
      BY <3>1 DEF Places, places
    <3> QED
      BY <3>2, <3>3, <3>4
  <2> QED
    BY <2>1, <2>2, Zenon
<1>2. AsyncInv => PlaceInv
  BY Zenon DEF AsyncInv
<1> QED
  BY <1>1, <1>2, AsyncInvHolds, PTL

StatusOf == [e \in Events |-> Status(fate[e])]

\* A new fate of one event is a new status of that event.
LEMMA StatusMoves ==
    ASSUME PlaceInv, NEW e \in Events, NEW f \in Fates, fate' = [fate EXCEPT ![e] = f]
    PROVE  StatusOf' = [StatusOf EXCEPT ![e] = Status(f)]
<1>1. \A x \in Events : fate'[x] = IF x = e THEN f ELSE fate[x]
  BY Zenon DEF PlaceInv
<1>2. ASSUME NEW x \in Events
      PROVE  StatusOf'[x] = [StatusOf EXCEPT ![e] = Status(f)][x]
  BY <1>1 DEF StatusOf
<1> QED
  BY <1>2, Zenon DEF StatusOf

\* The abstract statuses are those AsyncTransport knows.
LEMMA Statuses ==
    /\ Status("new") = "new" /\ Status("held") = "taken" /\ Status("delivered") = "delivered"
    /\ Status("queueFull") = "dropped" /\ Status("exhausted") = "dropped" /\ Status("shutdown") = "dropped"
BY Zenon DEF Status

\* Every step of the queue, the loop, the timers and main is a step of AsyncTransport
\* or leaves it as it is: Emit takes or drops an event that is new, and an event that
\* was taken is settled once.
THEOREM TransportStepsRefine ==
    AsyncInit /\ [][AsyncNext]_asyncVars
        => Transport!TransportInit /\ [][Transport!TransportNext]_(Transport!transportVars)
<1>1. AsyncInit => Transport!TransportInit
  <2> SUFFICES ASSUME AsyncInit
               PROVE  Transport!TransportInit
    BY Zenon
  <2>1. StatusOf = [e \in Events |-> "new"]
    BY Statuses, Zenon DEF AsyncInit, StatusOf
  <2> QED
    BY <2>1, Zenon DEF AsyncInit, StatusOf, Transport!TransportInit
<1>2. AsyncInv /\ [AsyncNext]_asyncVars => [Transport!TransportNext]_(Transport!transportVars)
  <2> SUFFICES ASSUME AsyncInv, [AsyncNext]_asyncVars
               PROVE  \/ \E e \in Events : Transport!Take(e) \/ Transport!Settle(e)
                      \/ Transport!ShutDown
                      \/ StatusOf' = StatusOf /\ closed' = closed
    BY Zenon DEF Transport!TransportNext, Transport!transportVars, StatusOf
  <2>0. PlaceInv /\ DOMAIN StatusOf = Events /\ \A e \in Events : StatusOf[e] = Status(fate[e])
    BY Zenon DEF AsyncInv, StatusOf
  <2>1. CASE fate' = fate /\ closed' = closed
    BY <2>1, Zenon DEF StatusOf
  <2>2. CASE StopTransport
    <3>1. proc = "core" /\ closed' = TRUE /\ fate' = fate
      BY <2>2, Zenon DEF StopTransport, jobVars
    <3>2. ~closed
      BY <3>1, Zenon DEF AsyncInv, ExitInv
    <3>3. StatusOf' = StatusOf
      BY <3>1, Zenon DEF StatusOf
    <3> QED
      BY <3>1, <3>2, <3>3, Zenon DEF Transport!ShutDown, StatusOf
  <2>3. ASSUME NEW e \in Events, Emit(e)
        PROVE  Transport!Take(e)
    <3>1. fate[e] = "new" /\ closed' = closed
      BY <2>3, Zenon DEF Emit
    <3>2. PICK f \in {"held", "queueFull"} : fate' = [fate EXCEPT ![e] = f]
      BY <2>3, Zenon DEF Emit
    <3>3. StatusOf[e] = "new" /\ f \in Fates /\ Status(f) \in {"taken", "dropped"}
      BY <2>0, <3>1, Statuses, Zenon DEF Fates
    <3>4. StatusOf' = [StatusOf EXCEPT ![e] = Status(f)]
      BY <2>0, <3>2, <3>3, StatusMoves, Zenon
    <3> QED
      BY <3>1, <3>3, <3>4, Zenon DEF Transport!Take, StatusOf
  <2>4. ASSUME NEW e \in Events, NEW f \in {"delivered", "exhausted", "queueFull", "shutdown"},
               fate[e] = "held", fate' = [fate EXCEPT ![e] = f], closed' = closed
        PROVE  Transport!Settle(e)
    <3>1. StatusOf[e] = "taken" /\ f \in Fates /\ Status(f) \in {"delivered", "dropped"}
      BY <2>0, <2>4, Statuses, Zenon DEF Fates
    <3>2. StatusOf' = [StatusOf EXCEPT ![e] = Status(f)]
      BY <2>0, <2>4, <3>1, StatusMoves, Zenon
    <3> QED
      BY <2>4, <3>1, <3>2, Zenon DEF Transport!Settle, StatusOf
  <2>5. ASSUME NEW e \in Events, Deliver(e) \/ RetryTimer(e), fate' # fate
        PROVE  Transport!Settle(e)
    <3>1. fate[e] = "held" /\ closed' = closed
      BY <2>0, <2>5, Zenon DEF PlaceInv, Deliver, Delivered, Failed, RetryTimer
    <3>2. PICK f \in {"delivered", "exhausted", "queueFull", "shutdown"} : fate' = [fate EXCEPT ![e] = f]
      BY <2>5, Zenon DEF Deliver, Delivered, Failed, RetryTimer
    <3> QED
      BY <2>4, <3>1, <3>2, Zenon
  <2>6. ASSUME NEW e \in Events, Deliver(e) \/ RetryTimer(e)
        PROVE  closed' = closed
    BY <2>6, Zenon DEF Deliver, Delivered, Failed, RetryTimer
  <2> QED
    BY <2>1, <2>2, <2>3, <2>5, <2>6, Zenon DEF AsyncNext, asyncVars, jobVars, Start, TakeJob,
       SeeClosed, DrainDone, RootDone, StopListeners, Expire, Exit
<1> QED
  BY <1>1, <1>2, AsyncInvHolds, PTL
=============================================================================
