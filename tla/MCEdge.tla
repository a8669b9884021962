---- MODULE MCEdge ----
(***************************************************************************)
(* The edge's gateway, turn machine, speculation and hand-over next to     *)
(* each other: the run's first state says which of them moves.             *)
(***************************************************************************)
EXTENDS TransportGateway, EdgeTurnMachine, EdgePlanner

VARIABLE side

mcVars == <<vars, edgeVars, specVars, handoffVars, side>>

(* STATE_TIMEOUTS_MS scaled down, in the same order. *)
MCTimeouts ==
  [s \in DOMAIN ValidEdge \ {"idle", "ended"} |->
     CASE s \in {"candidate_filler", "forwarding"} -> 1
       [] s \in {"buffering", "barge_in", "repairing"} -> 2
       [] s \in {"thinking", "listening"} -> 3
       [] s = "speaking" -> 4]

MCInit ==
  /\ Init /\ EdgeInit /\ SpecInit /\ HandoffInit
  /\ side \in {"gateway", "turns", "speculation", "handoff"}

MCNext ==
  /\ \/ side = "gateway" /\ Next /\ UNCHANGED <<edgeVars, specVars, handoffVars>>
     \/ side = "turns" /\ EdgeNext /\ UNCHANGED <<vars, specVars, handoffVars>>
     \/ side = "speculation" /\ SpecNext /\ UNCHANGED <<vars, edgeVars, handoffVars>>
     \/ side = "handoff" /\ HandoffNext /\ UNCHANGED <<vars, edgeVars, specVars>>
  /\ UNCHANGED side

MCSpec == MCInit /\ [][MCNext]_mcVars /\ (side = "turns" => EdgeFairness)

(* The turn machine's liveness, in the runs in which it moves. *)
EdgeTurnsSettle == side = "turns" => LeftAloneSettles

====
