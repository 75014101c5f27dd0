------------------------------- MODULE MCBridge -------------------------------
(***************************************************************************)
(* HostResources and Bridge for TLC: the application on top of the client  *)
(* is a script, which may make any call, or the bridge.                    *)
(***************************************************************************)
EXTENDS Bridge

VARIABLE application

(* The files the bridge starts with: of the largest size, with one pin and one
   bus, without flaws, and no output starts high. *)
Plain == /\ Len(config) = MaxEntries
         /\ \A e \in Range(config) : e.at # 0 /\ e.supported /\ e.fits /\ ~e.high

MCInit ==
  /\ BridgeInit
  /\ application \in {"script", "bridge"}
  /\ application = "bridge" => Plain /\ ~stopped

MCNext ==
  /\ \/ application = "script" /\ Next /\ UNCHANGED bridgeVars
     \/ application = "bridge" /\ BridgeNext
  /\ UNCHANGED application

MCSpec == MCInit /\ [][MCNext]_<<vars, bridgeVars, application>> /\ Fairness

(* Handles, board, services and polls keep their types and budgets. *)
HostTypeOK == TypeOK /\ BridgeTypeOK

=============================================================================
