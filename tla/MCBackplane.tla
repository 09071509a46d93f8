----------------------------- MODULE MCBackplane -----------------------------
(***************************************************************************)
(* The parts around the sessions, model-checked together: sends to many,   *)
(* subscriptions, stores, startup migrations, configuration, the gate and  *)
(* the life of the process.  They share no state, so a behaviour lets one  *)
(* of them run, and the others stay in an initial state: the state spaces  *)
(* add up.                                                                 *)
(***************************************************************************)
EXTENDS Routing, Subscriber, Stores, Migrations, Config, Gate, Lifecycle, TLC

VARIABLE focus    \* the part that runs

MCSettings == {-8, -1, 0, 1, 2, 3, 60, 61, 70000}
MCBits == [k \in Whole |-> 8]

\* The user's sessions are interchangeable; only invariants are checked.
Symmetry == Permutations(UserSessions)

\* One initial state of the parts that have several.
StoreRests == backend = "postgres" /\ table = "active_connections"
MigrationRests ==
    /\ database = "postgres"
    /\ release = [r \in Replicas |-> 1] /\ auto = [r \in Replicas |-> TRUE]

BackplaneInit ==
    /\ focus \in {"routing", "subscriber", "stores", "migrations", "config", "gate", "lifecycle"}
    /\ RouteInit /\ SubInit /\ ConfigInit /\ GateInit /\ LifecycleInit
    /\ StoreInit /\ (focus # "stores" => StoreRests)
    /\ MigrationInit /\ (focus # "migrations" => MigrationRests)

BackplaneNext ==
    /\ UNCHANGED focus
    /\ \/ focus = "routing" /\ RouteNext
          /\ UNCHANGED <<subVars, storeVars, migrationVars, configVars, gateVars, lifecycleVars>>
       \/ focus = "subscriber" /\ SubNext
          /\ UNCHANGED <<routeVars, storeVars, migrationVars, configVars, gateVars, lifecycleVars>>
       \/ focus = "stores" /\ StoreNext
          /\ UNCHANGED <<routeVars, subVars, migrationVars, configVars, gateVars, lifecycleVars>>
       \/ focus = "migrations" /\ MigrationNext
          /\ UNCHANGED <<routeVars, subVars, storeVars, configVars, gateVars, lifecycleVars>>
       \/ focus = "config" /\ ConfigNext
          /\ UNCHANGED <<routeVars, subVars, storeVars, migrationVars, gateVars, lifecycleVars>>
       \/ focus = "gate" /\ GateNext
          /\ UNCHANGED <<routeVars, subVars, storeVars, migrationVars, configVars, lifecycleVars>>
       \/ focus = "lifecycle" /\ LifecycleNext
          /\ UNCHANGED <<routeVars, subVars, storeVars, migrationVars, configVars, gateVars>>

BackplaneSpec ==
    BackplaneInit /\ [][BackplaneNext]_<<focus, routeVars, subVars, storeVars, migrationVars,
                                         configVars, gateVars, lifecycleVars>>
==============================================================================
