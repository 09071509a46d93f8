---------------------------- MODULE MCGobwasServer ----------------------------
(***************************************************************************)
(* The WebSocket side of a container for TLC: the netpoll server, its ping *)
(* loop and the handler of the client's messages.  They are checked in one *)
(* run but do not interact: at most one leaves its initial state.  Liveness *)
(* is checked, so symmetry is not used.                                    *)
(***************************************************************************)
EXTENDS GobwasServer, PingChecker, ClientMsgHandler

WebSocketInit == Init /\ PingInit /\ HandlerInit

WebSocketNext ==
    \/ PingInit /\ HandlerInit /\ Next /\ UNCHANGED <<pingVars, handlerVars>>
    \/ Init /\ HandlerInit /\ PingNext /\ UNCHANGED <<vars, handlerVars>>
    \/ Init /\ PingInit /\ HandlerNext /\ UNCHANGED <<vars, pingVars>>

webSocketVars == <<vars, pingVars, handlerVars>>

WebSocketSpec ==
    /\ WebSocketInit /\ [][WebSocketNext]_webSocketVars
    /\ Fairness /\ PingFairness /\ HandlerFairness
=============================================================================
