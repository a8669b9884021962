----------------------------- MODULE TurnTable -----------------------------
(***************************************************************************)
(* The transition table of the server's turn machine and the handlers that *)
(* a TurnStateMachine offers, as operators on one machine's record         *)
(*                                                                         *)
(*   [state |-> current state, prev |-> state before it, turn |-> turn id] *)
(*                                                                         *)
(* (server/pipeline/turn_state.py).  Every handler goes through            *)
(* try_transition, so a call the table does not allow returns the record   *)
(* unchanged.  The timers that run beside a machine are in TurnMachine.    *)
(***************************************************************************)
EXTENDS Naturals

States == {"idle", "listening", "buffering", "candidate_filler", "forwarding",
           "thinking", "speaking", "barge_in", "repairing", "ended"}

ValidTransitions ==
    [s \in States |->
        CASE s = "idle"             -> {"listening", "ended"}
          [] s = "listening"        -> {"buffering", "idle", "ended"}
          [] s = "buffering"        -> {"listening", "candidate_filler", "idle", "ended"}
          [] s = "candidate_filler" -> {"idle", "forwarding", "ended"}
          [] s = "forwarding"       -> {"thinking", "idle", "ended"}
          [] s = "thinking"         -> {"speaking", "idle", "barge_in", "ended"}
          [] s = "speaking"         -> {"idle", "barge_in", "ended"}
          [] s = "barge_in"         -> {"repairing", "listening", "ended"}
          [] s = "repairing"        -> {"listening", "idle", "ended"}
          [] s = "ended"            -> {}]

\* The keys of STATE_TIMEOUTS: the states a machine may not stay in for ever.
TimedStates == States \ {"idle", "ended"}

Machine == [state : States, prev : States \cup {"none"}, turn : Nat]

\* A plausible slip: the turn counter also moves when a barge-in or a resumed
\* utterance returns to LISTENING.
TurnIdOnAnyListening(m, to) == IF to = "listening" THEN m.turn + 1 ELSE m.turn

\* A turn starts when an idle machine begins to listen; an utterance that
\* interrupts the agent, or resumes after a pause, belongs to the same turn.
TurnId(m, to) ==
    IF to = "listening" /\ m.state = "idle" THEN m.turn + 1 ELSE m.turn

NewMachine == [state |-> "idle", prev |-> "none", turn |-> 0]

CanTransition(m, to) == to \in ValidTransitions[m.state]

TryTransition(m, to) ==
    IF CanTransition(m, to)
    THEN [state |-> to, prev |-> m.state, turn |-> TurnId(m, to)]
    ELSE m

OnSpeechStart(m) ==
    TryTransition(m, IF m.state = "speaking" THEN "barge_in" ELSE "listening")

OnSpeechEnd(m)       == TryTransition(m, "buffering")
OnTurnConfirmed(m)   == TryTransition(m, "candidate_filler")
OnFillerSelected(m)  == TryTransition(m, "idle")
OnPipelineNeeded(m)  == TryTransition(m, "forwarding")
OnPipelineStart(m)   == TryTransition(m, "thinking")
OnResponseReady(m)   == TryTransition(m, "speaking")
OnSpeakingDone(m)    == TryTransition(m, "idle")
OnSessionEnd(m)      == TryTransition(m, "ended")
OnError(m)           == TryTransition(m, "idle")

OnBargeInHandled(m) ==
    IF m.state = "barge_in" THEN TryTransition(m, "listening") ELSE m

Reset(m) == [m EXCEPT !.state = "idle", !.prev = "none"]

\* A plausible slip: one recovery state for every timeout.
RecoverAlwaysToIdle(s) == "idle"

\* Where a timeout sends the machine.
RecoveryState(s) == IF s = "barge_in" THEN "listening" ELSE "idle"

OnTimeout(m) == TryTransition(m, RecoveryState(m.state))
=============================================================================
