------------------------------ MODULE AckManager ------------------------------
(***************************************************************************)
(* Sending with acknowledgement across containers.                         *)
(*                                                                         *)
(* A caller on container c asks for a message to be delivered and waits    *)
(* for the client's ACK or for a timeout.  Every container owns one        *)
(* AckManager with two maps under one mutex:                               *)
(*   pending     ackID -> channel of a caller waiting on THIS container;   *)
(*   remoteAcks  ackID -> container whose caller waits for the ACK.        *)
(* The client's ACK arrives at the container that holds its connection;    *)
(* when the caller waits elsewhere it is routed back over the broadcast    *)
(* pubsub, which delivers at most once.                                    *)
(*                                                                         *)
(* ResolveAck removes the channel from pending under the mutex and closes  *)
(* it after the unlock, so a goroutine between the two steps is part of    *)
(* the state (closing).                                                    *)
(***************************************************************************)
EXTENDS Naturals

CONSTANTS Containers, AckIDs, NoContainer

ASSUME NoContainerAssumption == NoContainer \notin Containers

VARIABLES
    call,         \* call[a]: progress of the SendTo...WithAck call that made a
    src,          \* src[a]: the container the call runs on
    result,       \* result[a]: what WaitForAck (or the early return) returned
    pending,      \* pending[c]: the keys of AckManager.pending on c
    remoteAcks,   \* remoteAcks[c][a]: source container, or NoContainer
    closing,      \* closing[a]: goroutines that own a's channel, close pending
    closes,       \* closes[a]: how many times a's channel has been closed
    unrouted,     \* unrouted[c]: ACK handlers between the two lookups on c
    sent,         \* acks whose frame was handed to a client connection
    net,          \* pubsub messages in flight
    down          \* containers whose AckManager has been shut down

caller == <<call, src, result>>
channels == <<pending, closing, closes>>
vars == <<caller, channels, remoteAcks, unrouted, sent, net, down>>

\* History of what clients and the network did, read only by the properties.
VARIABLES
    clientAcked,  \* acks for which a client's ACK frame was handled
    routed,       \* acks whose client ACK found an entry to follow
    lost          \* acks whose AckResolved message was lost

ghosts == <<clientAcked, routed, lost>>
allVars == <<vars, ghosts>>

SendMsg(c, a) == [kind |-> "sendWithAck", to |-> c, ack |-> a]
AckResolvedMsg(c, a) == [kind |-> "ackResolved", to |-> c, ack |-> a]
Messages == [kind : {"sendWithAck", "ackResolved"}, to : Containers, ack : AckIDs]

Init ==
    /\ call = [a \in AckIDs |-> "none"]
    /\ src = [a \in AckIDs |-> NoContainer]
    /\ result = [a \in AckIDs |-> "none"]
    /\ pending = [c \in Containers |-> {}]
    /\ remoteAcks = [c \in Containers |-> [a \in AckIDs |-> NoContainer]]
    /\ closing = [a \in AckIDs |-> 0]
    /\ closes = [a \in AckIDs |-> 0]
    /\ unrouted = [c \in Containers |-> {}]
    /\ sent = {}
    /\ net = {}
    /\ down = {}
    /\ clientAcked = {}
    /\ routed = {}
    /\ lost = {}
-----------------------------------------------------------------------------
(* The AckManager's operations *)

\* Mutant: the lookup without the delete.
ResolveAckKeepsEntry(c, a) ==
    /\ closing' = IF a \in pending[c] THEN [closing EXCEPT ![a] = @ + 1] ELSE closing
    /\ UNCHANGED pending

\* The critical section of ResolveAck; the goroutine then still has to close.
ResolveAck(c, a) ==
    IF a \in pending[c]
    THEN /\ pending' = [pending EXCEPT ![c] = @ \ {a}]
         /\ closing' = [closing EXCEPT ![a] = @ + 1]
    ELSE UNCHANGED <<pending, closing>>

RegisterRemoteAck(c, a) ==
    remoteAcks' = [remoteAcks EXCEPT ![c][a] = src[a]]

\* close(ch) at the end of ResolveAck, outside the mutex.
CloseChannel(a) ==
    /\ closing[a] > 0
    /\ closing' = [closing EXCEPT ![a] = @ - 1]
    /\ closes' = [closes EXCEPT ![a] = @ + 1]
    /\ UNCHANGED <<caller, pending, remoteAcks, unrouted, sent, net, down, ghosts>>

\* Shutdown closes every pending channel and empties both maps under the mutex.
Shutdown(c) ==
    /\ c \notin down
    /\ down' = down \cup {c}
    /\ closes' = [a \in AckIDs |-> IF a \in pending[c] THEN closes[a] + 1 ELSE closes[a]]
    /\ pending' = [pending EXCEPT ![c] = {}]
    /\ remoteAcks' = [remoteAcks EXCEPT ![c] = [a \in AckIDs |-> NoContainer]]
    /\ UNCHANGED <<caller, closing, unrouted, sent, net, ghosts>>
-----------------------------------------------------------------------------
(* The caller: SendToSessionWithAck and SendToUserWithAck *)

CreateAck(c, a) ==
    /\ call[a] = "none"
    /\ call' = [call EXCEPT ![a] = "created"]
    /\ src' = [src EXCEPT ![a] = c]
    /\ pending' = [pending EXCEPT ![c] = @ \cup {a}]
    /\ UNCHANGED <<result, closing, closes, remoteAcks, unrouted, sent, net, down, ghosts>>

\* findThenAction fails, finds nobody, or buffers for a Transferring session:
\* the caller resolves its own ack and reports false.
SendNotFound(a) ==
    /\ call[a] = "created"
    /\ call' = [call EXCEPT ![a] = "returned"]
    /\ result' = [result EXCEPT ![a] = "notAcked"]
    /\ ResolveAck(src[a], a)
    /\ UNCHANGED <<src, closes, remoteAcks, unrouted, sent, net, down, ghosts>>

\* Somebody was found.  local: the broadcast handler, called directly, still
\* finds a connection here; targets: the containers the publish reached (it
\* stops at the first error, which is only logged), which may include this
\* one, when the stored holder is this container but the connection is gone.
SendFound(a, local, targets) ==
    /\ call[a] = "created"
    /\ call' = [call EXCEPT ![a] = "waiting"]
    /\ IF local
       THEN RegisterRemoteAck(src[a], a) /\ sent' = sent \cup {a}
       ELSE UNCHANGED <<remoteAcks, sent>>
    /\ net' = net \cup {SendMsg(c, a) : c \in targets}
    /\ UNCHANGED <<src, result, channels, unrouted, down, ghosts>>

\* Mutant: the caller takes the ACK as received without waiting for it.
WaitForAckUnchecked(a) ==
    /\ call[a] = "waiting"
    /\ call' = [call EXCEPT ![a] = "returned"]
    /\ result' = [result EXCEPT ![a] = "acked"]
    /\ UNCHANGED <<src, channels, remoteAcks, unrouted, sent, net, down, ghosts>>

\* WaitForAck, case <-ch.
WaitForAck(a) ==
    /\ call[a] = "waiting"
    /\ closes[a] > 0
    /\ call' = [call EXCEPT ![a] = "returned"]
    /\ result' = [result EXCEPT ![a] = "acked"]
    /\ UNCHANGED <<src, channels, remoteAcks, unrouted, sent, net, down, ghosts>>

\* Mutant: the timeout branch forgets to delete the entry.
WaitTimeoutKeepsEntry(a) ==
    /\ call[a] = "waiting"
    /\ call' = [call EXCEPT ![a] = "returned"]
    /\ result' = [result EXCEPT ![a] = "notAcked"]
    /\ UNCHANGED <<src, channels, remoteAcks, unrouted, sent, net, down, ghosts>>

\* Mutant: WaitForAck without the timer.
WaitTimeoutNever(a) == FALSE /\ UNCHANGED allVars

\* WaitForAck, case <-timer.C: select may take it even if ch is closed too.
WaitTimeout(a) ==
    /\ call[a] = "waiting"
    /\ call' = [call EXCEPT ![a] = "returned"]
    /\ result' = [result EXCEPT ![a] = "notAcked"]
    /\ pending' = [pending EXCEPT ![src[a]] = @ \ {a}]
    /\ UNCHANGED <<src, closing, closes, remoteAcks, unrouted, sent, net, down, ghosts>>
-----------------------------------------------------------------------------
(* The container that holds the connection *)

\* SendToSessionWithAck / SendToUserWithAck of the broadcast handler: without
\* a connection the message is dropped.
HandleSendWithAck(c, a, connected) ==
    /\ SendMsg(c, a) \in net
    /\ net' = net \ {SendMsg(c, a)}
    /\ IF connected
       THEN RegisterRemoteAck(c, a) /\ sent' = sent \cup {a}
       ELSE UNCHANGED <<remoteAcks, sent>>
    /\ UNCHANGED <<caller, channels, unrouted, down, ghosts>>

\* A client that received the frame sends its ACK; it may have reconnected to
\* any container meanwhile, and each session of a user answers for itself.
HandleAckFrame(c, a) ==
    /\ a \in sent
    /\ clientAcked' = clientAcked \cup {a}
    /\ routed' = IF a \in pending[c] THEN routed \cup {a} ELSE routed
    /\ ResolveAck(c, a)
    /\ unrouted' = IF a \in pending[c] THEN unrouted
                   ELSE [unrouted EXCEPT ![c] = @ \cup {a}]
    /\ UNCHANGED <<caller, closes, remoteAcks, sent, net, down, lost>>

\* Mutant: the answer is published to the container that got the ACK frame.
ResolveRemoteAckToSelf(c, a) ==
    /\ a \in unrouted[c]
    /\ unrouted' = [unrouted EXCEPT ![c] = @ \ {a}]
    /\ remoteAcks' = [remoteAcks EXCEPT ![c][a] = NoContainer]
    /\ IF remoteAcks[c][a] # NoContainer
       THEN /\ net' = net \cup {AckResolvedMsg(c, a)}
            /\ routed' = routed \cup {a}
       ELSE UNCHANGED <<net, routed>>
    /\ UNCHANGED <<caller, channels, sent, down, clientAcked, lost>>

\* The handler's second lookup, and the publish of AckResolved.
ResolveRemoteAck(c, a) ==
    /\ a \in unrouted[c]
    /\ unrouted' = [unrouted EXCEPT ![c] = @ \ {a}]
    /\ remoteAcks' = [remoteAcks EXCEPT ![c][a] = NoContainer]
    /\ IF remoteAcks[c][a] # NoContainer
       THEN /\ net' = net \cup {AckResolvedMsg(remoteAcks[c][a], a)}
            /\ routed' = routed \cup {a}
       ELSE UNCHANGED <<net, routed>>
    /\ UNCHANGED <<caller, channels, sent, down, clientAcked, lost>>

\* The subscription goroutine of the source container.
HandleAckResolved(c, a) ==
    /\ AckResolvedMsg(c, a) \in net
    /\ net' = net \ {AckResolvedMsg(c, a)}
    /\ ResolveAck(c, a)
    /\ UNCHANGED <<caller, closes, remoteAcks, unrouted, sent, down, ghosts>>

\* Pubsub is at most once: a message may vanish, a publish may fail.
LoseMessage(m) ==
    /\ net' = net \ {m}
    /\ lost' = IF m.kind = "ackResolved" THEN lost \cup {m.ack} ELSE lost
    /\ UNCHANGED <<caller, channels, remoteAcks, unrouted, sent, down, clientAcked, routed>>
-----------------------------------------------------------------------------
CallerStep(a) ==
    \/ SendNotFound(a)
    \/ \E local \in BOOLEAN, targets \in SUBSET Containers :
          SendFound(a, local, targets)
    \/ WaitForAck(a)
    \/ WaitTimeout(a)

Next ==
    \/ \E a \in AckIDs : CallerStep(a) \/ CloseChannel(a)
    \/ \E c \in Containers : Shutdown(c)
    \/ \E c \in Containers, a \in AckIDs :
          \/ CreateAck(c, a)
          \/ \E connected \in BOOLEAN : HandleSendWithAck(c, a, connected)
          \/ HandleAckFrame(c, a)
          \/ ResolveRemoteAck(c, a)
          \/ HandleAckResolved(c, a)
    \/ \E m \in net : LoseMessage(m)

Spec == Init /\ [][Next]_allVars

\* The timer always fires and the caller's goroutine always runs; nothing is
\* assumed of clients, of the network or of a shutdown.
Fairness == \A a \in AckIDs : WF_allVars(CallerStep(a))

FairSpec == Spec /\ Fairness
-----------------------------------------------------------------------------
(* Properties *)

TypeOK ==
    /\ call \in [AckIDs -> {"none", "created", "waiting", "returned"}]
    /\ src \in [AckIDs -> Containers \cup {NoContainer}]
    /\ result \in [AckIDs -> {"none", "acked", "notAcked"}]
    /\ pending \in [Containers -> SUBSET AckIDs]
    /\ remoteAcks \in [Containers -> [AckIDs -> Containers \cup {NoContainer}]]
    /\ closing \in [AckIDs -> Nat]
    /\ closes \in [AckIDs -> Nat]
    /\ unrouted \in [Containers -> SUBSET AckIDs]
    /\ sent \subseteq AckIDs
    /\ net \subseteq Messages
    /\ down \subseteq Containers
    /\ clientAcked \subseteq AckIDs
    /\ routed \subseteq AckIDs
    /\ lost \subseteq AckIDs

\* Closing a closed channel panics.  However the client handlers, the
\* subscription goroutine, the caller's own early return and Shutdown
\* interleave, a channel is closed at most once, counting the goroutines
\* that left ResolveAck's critical section and have yet to close it.
ChannelClosedOnce == \A a \in AckIDs : closing[a] + closes[a] <= 1

\* A call that has returned, by ACK, timeout, early return or shutdown, has
\* left no entry in the pending map of any container.
NoPendingLeak ==
    \A a \in AckIDs : call[a] = "returned" => \A c \in Containers : a \notin pending[c]

\* The caller is told "acked" only if a client did acknowledge this very
\* message, or if the caller's own AckManager was shut down while it waited.
AckedOnlyByClientOrShutdown ==
    \A a \in AckIDs : result[a] = "acked" => a \in clientAcked \/ src[a] \in down

\* An ACK frame that found an entry to follow, in pending or in remoteAcks, is
\* never swallowed between containers: its AckResolved is in flight to the
\* caller's container, or the channel is being or has been closed, or the
\* message was lost, or the caller has stopped waiting.
RoutedAckReachesCaller ==
    \A a \in routed :
        \/ AckResolvedMsg(src[a], a) \in net
        \/ closing[a] + closes[a] = 1
        \/ a \in lost
        \/ call[a] = "returned"

\* Every SendTo...WithAck call returns, whatever clients and pubsub do.
EveryCallReturns == \A a \in AckIDs : call[a] = "created" ~> call[a] = "returned"
=============================================================================
