------------------------------- MODULE MCCalls -------------------------------
(***************************************************************************)
(* Calls that wait for an answer, for TLC: acknowledgements of clients,    *)
(* the server's hooks with their breaker, and its asynchronous callbacks.  *)
(* They are checked in one run but do not interact: at most one leaves its *)
(* initial state.  With three containers an ACK can be local, remote,      *)
(* duplicated by a second session of the user, or sent to a container that *)
(* never heard of it.                                                      *)
(***************************************************************************)
EXTENDS AckManager, SyncCallbacks, AsyncCallbacks

CallsInit == Init /\ SyncInit /\ AsyncInit

CallsNext ==
    \/ SyncInit /\ AsyncInit /\ Next /\ UNCHANGED <<syncVars, asyncVars>>
    \/ Init /\ AsyncInit /\ SyncNext /\ UNCHANGED <<allVars, asyncVars>>
    \/ Init /\ SyncInit /\ AsyncNext /\ UNCHANGED <<allVars, syncVars>>

callsVars == <<allVars, syncVars, asyncVars>>

CallsSpec ==
    /\ CallsInit /\ [][CallsNext]_callsVars
    /\ Fairness /\ SyncFairness /\ AsyncFairness
=============================================================================
