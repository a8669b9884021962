---- MODULE EdgeTurnMachine ----
(***************************************************************************)
(* edge/session/turn_state.py: the edge's turn machine, whose timeouts are *)
(* polled by the session loop.                                             *)
(***************************************************************************)
EXTENDS Integers, FiniteSetsExt

CONSTANTS
  TimeoutsMs,  \* STATE_TIMEOUTS_MS, in units of the clock
  MaxTurnId    \* turns of a run (bound)

VARIABLES
  tm,       \* state, turn id and how long the state has lasted, which is
            \* counted up to the longest timeout
  quiet     \* the session loop is left alone: only it polls

edgeVars == <<tm, quiet>>

ValidEdge ==
  [idle |-> {"listening", "ended"},
   listening |-> {"buffering", "idle", "ended"},
   buffering |-> {"listening", "candidate_filler", "idle", "ended"},
   candidate_filler |-> {"idle", "forwarding", "ended"},
   forwarding |-> {"thinking", "idle", "ended"},
   thinking |-> {"speaking", "idle", "barge_in", "ended"},
   speaking |-> {"idle", "barge_in", "ended"},
   barge_in |-> {"repairing", "listening", "ended"},
   repairing |-> {"listening", "idle", "ended"},
   ended |-> {}]

EdgeInit ==
  /\ tm = [state |-> "idle", lasted |-> 0, turn |-> 0]
  /\ quiet = FALSE

(* transition(): a new turn begins when idle is left to listen. *)
Moved(to) ==
  [state |-> to, lasted |-> 0,
   turn |-> IF to = "listening" /\ tm.state = "idle" THEN tm.turn + 1 ELSE tm.turn]

(* try_transition(): what the table does not allow is rejected. *)
TryEdge(to) == tm' = IF to \in ValidEdge[tm.state] THEN Moved(to) ELSE tm

OnSpeechStart == TryEdge(IF tm.state = "speaking" THEN "barge_in" ELSE "listening")
OnSpeechEnd == TryEdge("buffering")
OnTurnConfirmed == TryEdge("candidate_filler")
OnFillerHandled == TryEdge("idle")
OnPipelineNeeded == TryEdge("forwarding")
OnPipelineStart == TryEdge("thinking")
OnResponseReady == TryEdge("speaking")
OnSpeakingDone == TryEdge("idle")
OnBargeIn == TryEdge("barge_in")
OnRepairStart == TryEdge("repairing")
OnRepairDone == TryEdge("listening")
OnSessionEnd == TryEdge("ended")
ResetEdge == tm' = [tm EXCEPT !.state = "idle", !.lasted = 0]

EdgeHandler ==
  \/ OnSpeechStart \/ OnSpeechEnd \/ OnTurnConfirmed \/ OnFillerHandled \/ OnPipelineNeeded
  \/ OnPipelineStart \/ OnResponseReady \/ OnSpeakingDone \/ OnBargeIn \/ OnRepairStart
  \/ OnRepairDone \/ OnSessionEnd \/ ResetEdge

(* A mutation: every state recovers to idle, which barge_in cannot reach. *)
RecoveryToIdle(state) == "idle"

Recovery(state) == IF state = "barge_in" THEN "repairing" ELSE "idle"

TimedOut == tm.state \in DOMAIN TimeoutsMs /\ tm.lasted >= TimeoutsMs[tm.state]

(* check_timeout(): the recovery must be in the table, too. *)
CheckTimeout ==
  /\ tm' = IF TimedOut /\ Recovery(tm.state) \in ValidEdge[tm.state]
           THEN Moved(Recovery(tm.state)) ELSE tm
  /\ UNCHANGED quiet

Handle ==
  /\ ~quiet /\ EdgeHandler
  /\ tm'.turn <= MaxTurnId
  /\ UNCHANGED quiet

Longest == Max({TimeoutsMs[s] : s \in DOMAIN TimeoutsMs})

EdgeTick ==
  /\ tm.lasted < Longest
  /\ tm' = [tm EXCEPT !.lasted = @ + 1]
  /\ UNCHANGED quiet

FallSilent == ~quiet /\ quiet' = TRUE /\ UNCHANGED tm

EdgeNext ==
  \/ Handle \/ CheckTimeout \/ EdgeTick \/ FallSilent

(* The session loop polls, and time passes. *)
EdgeFairness == WF_edgeVars(CheckTimeout) /\ WF_edgeVars(EdgeTick)

-----------------------------------------------------------------------------

(* A turn whose user and pipeline have gone settles by polling alone, from *)
(* every state and however late the polls come: each recovery is one that  *)
(* the table allows, and every chain of recoveries ends.                   *)
LeftAloneSettles == quiet ~> tm.state \in {"idle", "ended"}

====
