---------------------------- MODULE TurnMachine ----------------------------
(***************************************************************************)
(* One TurnStateMachine with the asyncio tasks that watch its states       *)
(* (server/pipeline/turn_state.py).  Every accepted transition cancels the *)
(* task _timeout_task points to and, in a state with an entry in           *)
(* STATE_TIMEOUTS, starts another.  A task remembers the state it watches  *)
(* and the instant that state was entered; when its sleep ends it acts     *)
(* only if both still match.                                               *)
(*                                                                         *)
(* Time is relative: "age" is the time since _state_entered_at, and a      *)
(* task's "elapsed" the time since the entry it was started for, so the    *)
(* code's comparison of entered_at stamps is age = elapsed.  Two entries   *)
(* in the same clock tick have equal stamps, as time.time() may give.      *)
(***************************************************************************)
EXTENDS TurnTable

CONSTANTS
    Timeout,    \* STATE_TIMEOUTS, in clock ticks
    AgeCap,     \* bound: age stops counting once no timer can still match it
    MaxTurns    \* bound: turns of the session

ASSUME TimeoutAssumption ==
    /\ Timeout \in [TimedStates -> Nat \ {0}]
    /\ AgeCap \in Nat
    /\ \A s \in TimedStates : Timeout[s] < AgeCap

ASSUME MaxTurnsAssumption == MaxTurns \in Nat

VARIABLES
    machine,    \* the record of TurnTable: _state, _previous_state, _turn_id
    age,        \* time since _state_entered_at
    timers,     \* the timeout tasks that have neither finished nor been cancelled
    task        \* _timeout_task

vars == <<machine, age, timers, task>>

NoTask == [watch |-> "none", elapsed |-> 0]

TimerTask == [watch : TimedStates, elapsed : Nat]

\* The types of the state and its bounds.
TypeOK ==
    /\ machine \in Machine
    /\ machine.turn <= MaxTurns
    /\ age \in 0 .. AgeCap
    /\ timers \in SUBSET TimerTask
    /\ task \in TimerTask \cup {NoTask}

Init ==
    /\ machine = NewMachine
    /\ age = 0
    /\ timers = {}
    /\ task = NoTask

-----------------------------------------------------------------------------
\* A plausible slip: forgetting a task without cancelling it.
ForgetTask == timers

\* _cancel_timeout: a live task is cancelled and forgotten.
CancelTimeout == timers \ {task}

TaskAfterCancel == IF task \in timers THEN NoTask ELSE task

NewTask(to) == [watch |-> to, elapsed |-> 0]

\* The effects of transition() beside the record: the state is entered now, the
\* old task is cancelled and the new state's task, if it has one, is started.
EnterState(to) ==
    /\ age' = 0
    /\ IF to \in TimedStates
       THEN /\ timers' = CancelTimeout \cup {NewTask(to)}
            /\ task' = NewTask(to)
       ELSE /\ timers' = CancelTimeout
            /\ task' = TaskAfterCancel

\* A call of a handler; a call that try_transition blocks changes nothing.
Call(m) ==
    /\ m.state # machine.state
    /\ m.turn <= MaxTurns
    /\ machine' = m
    /\ EnterState(m.state)

SpeechStart     == Call(OnSpeechStart(machine))
SpeechEnd       == Call(OnSpeechEnd(machine))
TurnConfirmed   == Call(OnTurnConfirmed(machine))
FillerSelected  == Call(OnFillerSelected(machine))
PipelineNeeded  == Call(OnPipelineNeeded(machine))
PipelineStart   == Call(OnPipelineStart(machine))
ResponseReady   == Call(OnResponseReady(machine))
SpeakingDone    == Call(OnSpeakingDone(machine))
BargeInHandled  == Call(OnBargeInHandled(machine))
SessionEnd      == Call(OnSessionEnd(machine))
Error           == Call(OnError(machine))

\* try_transition called directly: the only way into REPAIRING.
Repair          == Call(TryTransition(machine, "repairing"))

ResetMachine ==
    /\ machine' = Reset(machine)
    /\ age' = 0
    /\ timers' = CancelTimeout
    /\ task' = TaskAfterCancel

-----------------------------------------------------------------------------
\* A plausible slip: the sleep ends one tick early.
DueEarly(t) == t.elapsed >= Timeout[t.watch] - 1

\* A plausible slip: one tick late.
DueLate(t) == t.elapsed > Timeout[t.watch]

Due(t) == t.elapsed >= Timeout[t.watch]

\* Why a task whose sleep has ended still acts.
StillCurrent(t) == machine.state = t.watch /\ age = t.elapsed

\* _timeout_worker after its sleep: the task ends, and if the machine is still
\* in the state the task was started for it forces the recovery transition.
\* _timeout_task is cleared first, so transition() has no task to cancel.  A
\* task that is not current any more would return without acting; OneTimer shows
\* that none is left to do so.
TimerActs(t) ==
    /\ Due(t) /\ StillCurrent(t)
    /\ CanTransition(machine, RecoveryState(t.watch))
    /\ LET m == OnTimeout(machine) IN
       /\ machine' = m
       /\ age' = 0
       /\ IF m.state \in TimedStates
          THEN /\ timers' = (timers \ {t}) \cup {NewTask(m.state)}
               /\ task' = NewTask(m.state)
          ELSE /\ timers' = timers \ {t}
               /\ task' = NoTask

TimerFires == \E t \in timers : TimerActs(t)

\* The clock does not pass an ended sleep: the event loop runs the task first.
Tick ==
    /\ \A t \in timers : ~Due(t)
    /\ age' = IF age < AgeCap THEN age + 1 ELSE age
    /\ timers' = {[t EXCEPT !.elapsed = @ + 1] : t \in timers}
    /\ task' = IF task \in timers THEN [task EXCEPT !.elapsed = @ + 1] ELSE task
    /\ UNCHANGED machine

Handler ==
    \/ SpeechStart \/ SpeechEnd \/ TurnConfirmed \/ FillerSelected
    \/ PipelineNeeded \/ PipelineStart \/ ResponseReady \/ SpeakingDone
    \/ BargeInHandled \/ SessionEnd \/ Error \/ Repair \/ ResetMachine

Next == Handler \/ TimerFires \/ Tick

Spec == Init /\ [][Next]_vars

\* Time passes and the event loop runs a task whose sleep has ended.
Fairness == WF_vars(Tick) /\ WF_vars(TimerFires)

FairSpec == Spec /\ Fairness

-----------------------------------------------------------------------------
(* Properties *)

\* Whatever handlers interleave with ended sleeps, exactly one live task watches
\* a timed state, started at its current entry, and it is the one a transition
\* would cancel; an untimed state has none.  An orphan task would later cut a
\* turn short, a missing one would leave the machine stuck.
OneTimer ==
    IF machine.state \in TimedStates
    THEN timers = {[watch |-> machine.state, elapsed |-> age]} /\ task \in timers
    ELSE timers = {}

\* STATE_TIMEOUTS is an upper bound on the stay in every timed state, whatever
\* path led there and however often the state was left and entered again.
BoundedStay ==
    machine.state \in TimedStates => age <= Timeout[machine.state]

\* A forced recovery happens only after the whole allowance of the present stay
\* is used up, never on account of an earlier stay in the same state.
FullStay ==
    [][(TimerFires /\ machine' # machine) => age = Timeout[machine.state]]_vars

\* If callers stop calling in the middle of a turn, the timeouts alone bring the
\* machine back to rest, through LISTENING when it was left in BARGE_IN.
AbandonedTurnSettles ==
    <>[][~Handler]_vars => <>[](machine.state \in {"idle", "ended"})

\* The turn id numbers the user's turns: between two steps it moves only by one
\* and only when the machine leaves rest, so a response that is interrupted and
\* the utterance that interrupts it, through any detour, share one id.
TurnIdPerRest ==
    [][machine'.turn # machine.turn =>
          /\ machine'.turn = machine.turn + 1
          /\ machine.state = "idle"]_vars
=============================================================================
