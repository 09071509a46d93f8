----------------------------- MODULE PingChecker -----------------------------
(***************************************************************************)
(* What the netpoll server does with the frames of its connections, and    *)
(* how the ping loop notices peers that have gone without closing.  Reads  *)
(* have no deadline: a read of a frame whose rest never comes holds its    *)
(* worker until someone closes the connection.  Sweeps and pings run on    *)
(* the same worker pool.                                                   *)
(*                                                                         *)
(* The accept, the oneshot descriptor and the removal are in GobwasServer; *)
(* here they are single steps.  Time is counted in sweeps.                 *)
(***************************************************************************)
EXTENDS Naturals, FiniteSets

CONSTANTS
    Sockets,        \* GobwasConnection objects
    PoolWorkers,    \* workers of the pool
    IdleAfter,      \* PingChecker.PingIdleAfter
    PongTimeout     \* PingChecker.PongTimeout

ASSUME PingAssumption ==
    /\ IsFiniteSet(Sockets)
    /\ {PoolWorkers, IdleAfter, PongTimeout} \subseteq Nat \ {0}

VARIABLES
    sock,           \* sock[s]: "new", "open", "closed"
    peer,           \* peer[s]: "here", "gone"
    reader,         \* reader[s]: "armed", "reading", "reply", "off"
    quiet,          \* quiet[s]: time since lastReadAt, up to IdleAfter
    awaitingPong,   \* awaitingPong[s]
    pinged,         \* pinged[s]: time since lastPingAt, up to PongTimeout
    pingTask,       \* pingTask[s]: a ping is queued
    pinging         \* pinging[s]: "no", "write", "close": a ping is running

stateMu == <<quiet, awaitingPong, pinged>>
pingVars == <<sock, peer, reader, stateMu, pingTask, pinging>>

PingInit ==
    /\ sock = [s \in Sockets |-> "new"]
    /\ peer = [s \in Sockets |-> "here"]
    /\ reader = [s \in Sockets |-> "off"]
    /\ quiet = [s \in Sockets |-> 0]
    /\ awaitingPong = [s \in Sockets |-> FALSE]
    /\ pinged = [s \in Sockets |-> 0]
    /\ pingTask = [s \in Sockets |-> FALSE]
    /\ pinging = [s \in Sockets |-> "no"]

AcceptSocket(s) ==
    /\ sock[s] = "new"
    /\ sock' = [sock EXCEPT ![s] = "open"]
    /\ reader' = [reader EXCEPT ![s] = "armed"]
    /\ UNCHANGED <<peer, stateMu, pingTask, pinging>>

\* No FIN reaches the server.
PeerGoes(s) ==
    /\ sock[s] = "open" /\ peer[s] = "here"
    /\ peer' = [peer EXCEPT ![s] = "gone"]
    /\ UNCHANGED <<sock, reader, stateMu, pingTask, pinging>>

BusyWorkers ==
    Cardinality({s \in Sockets : reader[s] \in {"reading", "reply"}})
    + Cardinality({s \in Sockets : pinging[s] # "no"})

WorkerFree == BusyWorkers < PoolWorkers

\* Any goroutine's GobwasConnection.Close, with removeClient.
CloseSocket(s) == sock' = [sock EXCEPT ![s] = "closed"]

\* resumeRead, which does nothing on a closed connection.
Rearm(s) ==
    reader' = [reader EXCEPT ![s] = IF sock'[s] = "open" THEN "armed" ELSE "off"]
-----------------------------------------------------------------------------
(* Frames *)

Readable(s) ==
    /\ reader[s] = "armed" /\ sock[s] = "open" /\ peer[s] = "here"
    /\ WorkerFree
    /\ reader' = [reader EXCEPT ![s] = "reading"]
    /\ UNCHANGED <<sock, peer, stateMu, pingTask, pinging>>

NoteRead(s) ==
    /\ quiet' = [quiet EXCEPT ![s] = 0]
    /\ awaitingPong' = [awaitingPong EXCEPT ![s] = FALSE]
    /\ UNCHANGED pinged

\* The end of the stream, or a connection closed meanwhile.
ReadFails(s) ==
    /\ reader[s] = "reading"
    /\ peer[s] = "here" \/ sock[s] = "closed"
    /\ CloseSocket(s)
    /\ Rearm(s)
    /\ UNCHANGED <<peer, stateMu, pingTask, pinging>>

\* Another error while the header is read is reported, and the connection kept.
ReadErrs(s) ==
    /\ reader[s] = "reading" /\ peer[s] = "here" /\ sock[s] = "open"
    /\ UNCHANGED sock
    /\ Rearm(s)
    /\ UNCHANGED <<peer, stateMu, pingTask, pinging>>

\* A frame that is too large or against the protocol; nothing is noted.
RejectFrame(s) ==
    /\ reader[s] = "reading" /\ peer[s] = "here" /\ sock[s] = "open"
    /\ CloseSocket(s)
    /\ Rearm(s)
    /\ UNCHANGED <<peer, stateMu, pingTask, pinging>>

\* A fragment is a protocol error, a close frame is answered: both close.
ReadClosingFrame(s) ==
    /\ reader[s] = "reading" /\ peer[s] = "here" /\ sock[s] = "open"
    /\ NoteRead(s)
    /\ CloseSocket(s)
    /\ Rearm(s)
    /\ UNCHANGED <<peer, pingTask, pinging>>

\* A pong, a text frame, a ping beyond the control-frame rate; also a close
\* frame with a payload of one byte, which is answered without closing.
ReadQuietFrame(s) ==
    /\ reader[s] = "reading" /\ peer[s] = "here" /\ sock[s] = "open"
    /\ NoteRead(s)
    /\ UNCHANGED sock
    /\ Rearm(s)
    /\ UNCHANGED <<peer, pingTask, pinging>>

\* A binary frame or a ping: something may be written back.
ReadAnsweredFrame(s) ==
    /\ reader[s] = "reading" /\ peer[s] = "here" /\ sock[s] = "open"
    /\ NoteRead(s)
    /\ reader' = [reader EXCEPT ![s] = "reply"]
    /\ UNCHANGED <<sock, peer, pingTask, pinging>>

\* A failed write closes the connection.
Reply(s) ==
    /\ reader[s] = "reply"
    /\ \/ sock[s] = "open" /\ UNCHANGED sock
       \/ CloseSocket(s)
    /\ Rearm(s)
    /\ UNCHANGED <<peer, stateMu, pingTask, pinging>>

ReadSome(s) ==
    \/ ReadErrs(s)
    \/ RejectFrame(s)
    \/ ReadClosingFrame(s)
    \/ ReadQuietFrame(s)
    \/ ReadAnsweredFrame(s)
-----------------------------------------------------------------------------
(* The ping loop *)

Older(age, limit) == IF age < limit THEN age + 1 ELSE age

\* A sweep interval passes and the sweep's task queues a ping for every
\* connection in the ConnectionManager.
PingAllLocalConnections ==
    /\ \E s \in Sockets : sock[s] = "open"
    /\ WorkerFree
    /\ quiet' = [s \in Sockets |-> IF sock[s] = "open" THEN Older(quiet[s], IdleAfter) ELSE quiet[s]]
    /\ pinged' = [s \in Sockets |-> IF awaitingPong[s] THEN Older(pinged[s], PongTimeout) ELSE pinged[s]]
    /\ pingTask' = [s \in Sockets |-> pingTask[s] \/ sock[s] = "open"]
    /\ UNCHANGED <<sock, peer, reader, awaitingPong, pinging>>

\* Mutant: a ping that is skipped renews the time of the last one.
NextPingActionRenews(s) ==
    \/ /\ awaitingPong[s] /\ pinged[s] >= PongTimeout
       /\ pinging' = [pinging EXCEPT ![s] = "close"]
       /\ UNCHANGED stateMu
    \/ /\ awaitingPong[s] /\ pinged[s] < PongTimeout
       /\ pinged' = [pinged EXCEPT ![s] = 0]
       /\ UNCHANGED <<quiet, awaitingPong, pinging>>
    \/ /\ ~awaitingPong[s] /\ quiet[s] < IdleAfter
       /\ UNCHANGED <<stateMu, pinging>>
    \/ /\ ~awaitingPong[s] /\ quiet[s] >= IdleAfter
       /\ awaitingPong' = [awaitingPong EXCEPT ![s] = TRUE]
       /\ pinged' = [pinged EXCEPT ![s] = 0]
       /\ pinging' = [pinging EXCEPT ![s] = "write"]
       /\ UNCHANGED quiet

\* Close, skip, skip or send, under stateMu.
NextPingAction(s) ==
    \/ /\ awaitingPong[s] /\ pinged[s] >= PongTimeout
       /\ pinging' = [pinging EXCEPT ![s] = "close"]
       /\ UNCHANGED stateMu
    \/ /\ awaitingPong[s] /\ pinged[s] < PongTimeout
       /\ UNCHANGED <<stateMu, pinging>>
    \/ /\ ~awaitingPong[s] /\ quiet[s] < IdleAfter
       /\ UNCHANGED <<stateMu, pinging>>
    \/ /\ ~awaitingPong[s] /\ quiet[s] >= IdleAfter
       /\ awaitingPong' = [awaitingPong EXCEPT ![s] = TRUE]
       /\ pinged' = [pinged EXCEPT ![s] = 0]
       /\ pinging' = [pinging EXCEPT ![s] = "write"]
       /\ UNCHANGED quiet

Ping(s) ==
    /\ pingTask[s] /\ pinging[s] = "no"
    /\ WorkerFree
    /\ pingTask' = [pingTask EXCEPT ![s] = FALSE]
    /\ NextPingAction(s)
    /\ UNCHANGED <<sock, peer, reader>>

\* The ping frame is written, or the write fails and closes.
PingWrite(s) ==
    /\ pinging[s] = "write"
    /\ pinging' = [pinging EXCEPT ![s] = "no"]
    /\ \/ sock[s] = "open" /\ UNCHANGED <<sock, reader>>
       \/ /\ CloseSocket(s)
          /\ reader' = [reader EXCEPT ![s] = IF @ = "armed" THEN "off" ELSE @]
    /\ UNCHANGED <<peer, stateMu, pingTask>>

PingClose(s) ==
    /\ pinging[s] = "close"
    /\ pinging' = [pinging EXCEPT ![s] = "no"]
    /\ CloseSocket(s)
    /\ reader' = [reader EXCEPT ![s] = IF @ = "armed" THEN "off" ELSE @]
    /\ UNCHANGED <<peer, stateMu, pingTask>>

PingNext ==
    \/ PingAllLocalConnections
    \/ \E s \in Sockets :
          \/ AcceptSocket(s) \/ PeerGoes(s)
          \/ Readable(s) \/ ReadFails(s) \/ ReadSome(s) \/ Reply(s)
          \/ Ping(s) \/ PingWrite(s) \/ PingClose(s)

\* The ticker ticks and the pool runs what was submitted in its order, as long
\* as workers come free; a write ends.  A read need not end before the
\* connection is closed.
PingFairness ==
    /\ SF_pingVars(PingAllLocalConnections)
    /\ \A s \in Sockets :
          /\ SF_pingVars(Ping(s))
          /\ WF_pingVars(PingWrite(s)) /\ WF_pingVars(PingClose(s))
          /\ WF_pingVars(Reply(s))
          /\ WF_pingVars(ReadFails(s) /\ sock[s] = "closed")
-----------------------------------------------------------------------------
(* Properties *)

\* The type invariant of the ping checker; no more tasks run than workers.
PingTypeOK ==
    /\ sock \in [Sockets -> {"new", "open", "closed"}]
    /\ peer \in [Sockets -> {"here", "gone"}]
    /\ reader \in [Sockets -> {"armed", "reading", "reply", "off"}]
    /\ quiet \in [Sockets -> 0..IdleAfter]
    /\ awaitingPong \in [Sockets -> BOOLEAN]
    /\ pinged \in [Sockets -> 0..PongTimeout]
    /\ pingTask \in [Sockets -> BOOLEAN]
    /\ pinging \in [Sockets -> {"no", "write", "close"}]
    /\ BusyWorkers <= PoolWorkers

\* A peer that is gone is noticed, and its connection gives up its worker: a
\* frame read or a ping skipped before, and a read that waits for the rest of a
\* frame, only delay the ping that is not answered.  Needs more workers than
\* peers whose reads wait.  (A peer that is gone does not come back.)
SilentPeerIsClosed ==
    /\ []PingTypeOK
    /\ \A s \in Sockets : <>[](sock[s] # "new" /\ peer[s] = "gone")
                              => []<>(sock[s] = "closed" /\ reader[s] = "off")
=============================================================================
