------------------------------- MODULE MCEdge -------------------------------
(***************************************************************************)
(* Session and LongPolling for TLC.  They are checked in one run but do    *)
(* not interact: at most one leaves its initial state.  Liveness is        *)
(* checked, so symmetry is not used.                                       *)
(***************************************************************************)
EXTENDS Session, LongPolling

EdgeInit == Init /\ LPInit

EdgeNext ==
    \/ LPInit /\ Next /\ UNCHANGED lpVars
    \/ Init /\ LPNext /\ UNCHANGED vars

edgeVars == <<vars, lpVars>>

EdgeSpec == EdgeInit /\ [][EdgeNext]_edgeVars /\ Fairness /\ LPFairness
=============================================================================
