--------------------------- MODULE MCTurnMachine ---------------------------
(* TurnMachine for TLC: the order of the timeouts of STATE_TIMEOUTS is kept, *)
(* their lengths are scaled down to a few ticks.                             *)
EXTENDS TurnMachine

MCTimeout ==
    [s \in TimedStates |->
        CASE s \in {"candidate_filler", "forwarding"} -> 1
          [] s \in {"buffering", "barge_in"}          -> 2
          [] s = "repairing"                          -> 3
          [] s = "thinking"                           -> 4
          [] s = "listening"                          -> 5
          [] s = "speaking"                           -> 6]
=============================================================================
