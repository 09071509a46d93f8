---------------------------- MODULE AsyncTransport ----------------------------
(***************************************************************************)
(* What callback.AsyncTransport promises of each fire-and-forget event:    *)
(* Emit takes the event or drops it at once; a taken event is delivered or *)
(* dropped, once and for good, and that happens unless the transport is    *)
(* shut down first.  Nothing is promised of the order.                     *)
(***************************************************************************)
CONSTANT Events

VARIABLES
    status,     \* status[e]: "new", "taken", "delivered" or "dropped"
    shut        \* Shutdown has been called

transportVars == <<status, shut>>

TransportInit ==
    /\ status = [e \in Events |-> "new"]
    /\ shut = FALSE

Take(e) ==
    /\ status[e] = "new"
    /\ \E s \in {"taken", "dropped"} : status' = [status EXCEPT ![e] = s]
    /\ UNCHANGED shut

Settle(e) ==
    /\ status[e] = "taken"
    /\ \E s \in {"delivered", "dropped"} : status' = [status EXCEPT ![e] = s]
    /\ UNCHANGED shut

ShutDown ==
    /\ ~shut
    /\ shut' = TRUE
    /\ UNCHANGED status

TransportNext ==
    \/ \E e \in Events : Take(e) \/ Settle(e)
    \/ ShutDown

Promise ==
    /\ TransportInit
    /\ [][TransportNext]_transportVars
    /\ \A e \in Events : WF_transportVars(~shut /\ Settle(e))
=============================================================================
