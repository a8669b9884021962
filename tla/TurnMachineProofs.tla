------------------------- MODULE TurnMachineProofs -------------------------
(* Proofs about TurnMachine for every choice of timeouts and of MaxTurns.    *)
EXTENDS TurnMachine, TLAPS

\* The inductive invariant.  OneTimer ties the only task to the present stay,
\* BoundedStay is what a task that is not yet due says about the age, and both
\* need the types.
IInv == TypeOK /\ OneTimer /\ BoundedStay

\* What a handler may return for m: a machine whose turn id is m's, or one more
\* if m was at rest.
Successors(m) ==
    {n \in Machine : \/ n.turn = m.turn
                     \/ n.turn = m.turn + 1 /\ m.state = "idle"}

LEMMA TryTransitionSuccessor ==
    ASSUME NEW m \in Machine, NEW to \in States
    PROVE  TryTransition(m, to) \in Successors(m)
  BY DEF Machine, TryTransition, TurnId, States, Successors

\* Every handler, allowed or not, returns a successor.
LEMMA HandlerSuccessor ==
    ASSUME NEW m \in Machine
    PROVE  /\ OnSpeechStart(m) \in Successors(m)
           /\ OnSpeechEnd(m) \in Successors(m)
           /\ OnTurnConfirmed(m) \in Successors(m)
           /\ OnFillerSelected(m) \in Successors(m)
           /\ OnPipelineNeeded(m) \in Successors(m)
           /\ OnPipelineStart(m) \in Successors(m)
           /\ OnResponseReady(m) \in Successors(m)
           /\ OnSpeakingDone(m) \in Successors(m)
           /\ OnBargeInHandled(m) \in Successors(m)
           /\ OnSessionEnd(m) \in Successors(m)
           /\ OnError(m) \in Successors(m)
           /\ OnTimeout(m) \in Successors(m)
           /\ TryTransition(m, "repairing") \in Successors(m)
           /\ Reset(m) \in Successors(m)
<1>1. {"idle", "listening", "buffering", "candidate_filler", "forwarding",
       "thinking", "speaking", "barge_in", "repairing", "ended"} \subseteq States
  BY DEF States
<1>2. RecoveryState(m.state) \in States
  BY <1>1 DEF RecoveryState
<1>3. Reset(m) \in Successors(m) /\ m \in Successors(m)
  BY <1>1 DEF Reset, Machine, Successors
<1> QED
  BY <1>1, <1>2, <1>3, TryTransitionSuccessor
  DEF OnSpeechStart, OnSpeechEnd, OnTurnConfirmed, OnFillerSelected,
      OnPipelineNeeded, OnPipelineStart, OnResponseReady, OnSpeakingDone,
      OnBargeInHandled, OnSessionEnd, OnError, OnTimeout

\* A state that a timeout leaves is left for another state: no machine can be
\* recovered into the state it is stuck in, and recovery is always allowed.
LEMMA RecoveryLeaves ==
    ASSUME NEW m \in Machine, m.state \in TimedStates
    PROVE  /\ CanTransition(m, RecoveryState(m.state))
           /\ OnTimeout(m).state = RecoveryState(m.state)
           /\ OnTimeout(m).state # m.state
           /\ OnTimeout(m).turn = m.turn
  BY DEF Machine, States, TimedStates, CanTransition, RecoveryState, OnTimeout,
         TryTransition, TurnId, ValidTransitions

-----------------------------------------------------------------------------
LEMMA InitIInv == Init => IInv
  BY TimeoutAssumption, MaxTurnsAssumption
  DEF Init, IInv, TypeOK, OneTimer, BoundedStay, NewMachine, Machine, NoTask,
      States, TimedStates

\* Any accepted handler call leaves one fresh timer or none.
LEMMA CallIInv ==
    ASSUME IInv, NEW m \in Machine, Call(m)
    PROVE  IInv'
<1> USE TimeoutAssumption
<1>1. machine' = m /\ m.turn <= MaxTurns /\ age' = 0
  BY DEF Call, EnterState
<1>2. CancelTimeout = {}
  BY DEF IInv, OneTimer, CancelTimeout
<1>3. CASE m.state \in TimedStates
  <2>1. timers' = {NewTask(m.state)} /\ task' = NewTask(m.state)
    BY <1>2, <1>3 DEF Call, EnterState
  <2> QED
    BY <1>1, <1>3, <2>1
    DEF IInv, TypeOK, OneTimer, BoundedStay, NewTask, TimerTask
<1>4. CASE m.state \notin TimedStates
  <2>1. timers' = {} /\ task' = TaskAfterCancel
    BY <1>2, <1>4 DEF Call, EnterState
  <2> QED
    BY <1>1, <1>4, <2>1
    DEF IInv, TypeOK, OneTimer, BoundedStay, TaskAfterCancel
<1> QED
  BY <1>3, <1>4

LEMMA ResetIInv == IInv /\ ResetMachine => IInv'
<1> SUFFICES ASSUME IInv, ResetMachine PROVE IInv'
  OBVIOUS
<1>1. timers' = {}
  BY DEF IInv, OneTimer, ResetMachine, CancelTimeout
<1>2. Reset(machine) \in Machine /\ Reset(machine).turn = machine.turn
      /\ Reset(machine).state \notin TimedStates
  BY DEF IInv, TypeOK, Reset, Machine, States, TimedStates
<1> QED
  BY <1>1, <1>2, TimeoutAssumption
  DEF IInv, TypeOK, OneTimer, BoundedStay, ResetMachine, TaskAfterCancel

LEMMA TimerIInv == IInv /\ TimerFires => IInv'
<1> SUFFICES ASSUME IInv, NEW t \in timers, TimerActs(t) PROVE IInv'
  BY DEF TimerFires
<1> USE TimeoutAssumption
<1> DEFINE m == OnTimeout(machine)
<1>1. machine.state \in TimedStates /\ timers = {t} /\ machine \in Machine
  BY DEF IInv, TypeOK, OneTimer
<1>2. m \in Machine /\ m.turn = machine.turn
  BY <1>1, HandlerSuccessor, RecoveryLeaves DEF Successors
<1>3. machine' = m /\ age' = 0
  BY DEF TimerActs
<1>4. m.turn <= MaxTurns
  BY <1>2 DEF IInv, TypeOK
<1> HIDE DEF m
<1>5. CASE m.state \in TimedStates
  <2>1. timers' = {NewTask(m.state)} /\ task' = NewTask(m.state)
    BY <1>1, <1>5 DEF TimerActs, m
  <2> QED
    BY <1>2, <1>3, <1>4, <1>5, <2>1
    DEF IInv, TypeOK, OneTimer, BoundedStay, NewTask, TimerTask
<1>6. CASE m.state \notin TimedStates
  <2>1. timers' = {} /\ task' = NoTask
    BY <1>1, <1>6 DEF TimerActs, m
  <2> QED
    BY <1>2, <1>3, <1>4, <1>6, <2>1
    DEF IInv, TypeOK, OneTimer, BoundedStay
<1> QED
  BY <1>5, <1>6

LEMMA TickIInv == IInv /\ Tick => IInv'
<1> SUFFICES ASSUME IInv, Tick PROVE IInv'
  OBVIOUS
<1> USE TimeoutAssumption
<1>1. CASE machine.state \in TimedStates
  <2> DEFINE t == [watch |-> machine.state, elapsed |-> age]
  <2>1. timers = {t} /\ task \in timers
    BY <1>1 DEF IInv, OneTimer
  <2>2. age \in Nat /\ age < Timeout[machine.state] /\ age < AgeCap
    BY <1>1, <2>1 DEF IInv, TypeOK, Tick, Due
  <2>3. age' = age + 1
    BY <2>2 DEF Tick
  <2>4. [t EXCEPT !.elapsed = @ + 1] = [watch |-> machine.state, elapsed |-> age']
    BY <2>3
  <2>5. task' = [watch |-> machine.state, elapsed |-> age']
    BY <2>1, <2>4 DEF Tick
  <2>6. timers' = {[watch |-> machine.state, elapsed |-> age']}
    BY <2>1, <2>4 DEF Tick
  <2> QED
    BY <1>1, <2>2, <2>3, <2>5, <2>6
    DEF IInv, TypeOK, OneTimer, BoundedStay, TimerTask, Tick
<1>2. CASE machine.state \notin TimedStates
  <2>1. timers = {}
    BY <1>2 DEF IInv, OneTimer
  <2>2. timers' = {} /\ task' = task
    BY <2>1 DEF Tick
  <2> QED
    BY <1>2, <2>2 DEF IInv, TypeOK, OneTimer, BoundedStay, Tick
<1> QED
  BY <1>1, <1>2

\* A handler step is a reset or an accepted call that returns a successor.
LEMMA HandlerCall ==
    ASSUME machine \in Machine, Handler
    PROVE  ResetMachine \/ \E m \in Successors(machine) : Call(m)
  BY HandlerSuccessor
  DEF Handler, SpeechStart, SpeechEnd, TurnConfirmed, FillerSelected,
      PipelineNeeded, PipelineStart, ResponseReady, SpeakingDone,
      BargeInHandled, SessionEnd, Error, Repair

LEMMA NextIInv == IInv /\ [Next]_vars => IInv'
<1> SUFFICES ASSUME IInv, [Next]_vars PROVE IInv'
  OBVIOUS
<1>1. machine \in Machine
  BY DEF IInv, TypeOK
<1>2. CASE Handler
  <2>1. CASE ResetMachine
    BY <2>1, ResetIInv
  <2>2. ASSUME NEW m \in Successors(machine), Call(m) PROVE IInv'
    BY <2>2, CallIInv DEF Successors
  <2> QED
    BY <1>1, <1>2, <2>1, <2>2, HandlerCall
<1>3. CASE TimerFires
  BY <1>3, TimerIInv
<1>4. CASE Tick
  BY <1>4, TickIInv
<1>5. CASE UNCHANGED vars
  BY <1>5 DEF IInv, TypeOK, OneTimer, BoundedStay, vars
<1> QED
  BY <1>2, <1>3, <1>4, <1>5 DEF Next

LEMMA Invariance == Spec => []IInv
<1> QED
  BY InitIInv, NextIInv, PTL DEF Spec

-----------------------------------------------------------------------------
\* TypeOK: the machine's record, its age and its tasks keep their types.
THEOREM TypeCorrect == Spec => []TypeOK
<1>1. IInv => TypeOK
  BY DEF IInv
<1> QED
  BY <1>1, Invariance, PTL

\* OneTimer, for every table of timeouts: no orphan task, and no timed state
\* without its watch.
THEOREM TimerDiscipline == Spec => []OneTimer
<1>1. IInv => OneTimer
  BY DEF IInv
<1> QED
  BY <1>1, Invariance, PTL

\* BoundedStay, for every table of timeouts: no stay outlives its allowance.
THEOREM StayIsBounded == Spec => []BoundedStay
<1>1. IInv => BoundedStay
  BY DEF IInv
<1> QED
  BY <1>1, Invariance, PTL

\* FullStay: a forced recovery never comes before the present stay's allowance
\* is used up.
THEOREM RecoveryAfterFullStay == Spec => FullStay
<1>1. IInv /\ [Next]_vars
        => [(TimerFires /\ machine' # machine) => age = Timeout[machine.state]]_vars
  <2> SUFFICES ASSUME IInv, NEW t \in timers, TimerActs(t)
               PROVE  age = Timeout[machine.state]
    BY DEF TimerFires
  <2>1. machine.state = t.watch /\ age = t.elapsed /\ machine.state \in TimedStates
    BY DEF TimerActs, StillCurrent, IInv, OneTimer
  <2>2. age >= Timeout[machine.state]
    BY <2>1 DEF TimerActs, Due
  <2> QED
    BY <2>1, <2>2, TimeoutAssumption DEF IInv, BoundedStay, TypeOK
<1> QED
  BY <1>1, Invariance, PTL DEF Spec, FullStay

\* TurnIdPerRest: no handler, timeout or reset moves the turn id but a start of
\* listening from rest, which adds one.
THEOREM TurnIdDiscipline == Spec => TurnIdPerRest
<1> DEFINE Moves == machine'.turn # machine.turn =>
                       /\ machine'.turn = machine.turn + 1
                       /\ machine.state = "idle"
<1>1. IInv /\ [Next]_vars => [Moves]_vars
  <2> SUFFICES ASSUME IInv, Next PROVE Moves
    OBVIOUS
  <2>1. machine \in Machine
    BY DEF IInv, TypeOK
  <2>2. CASE Handler
    <3>1. ASSUME NEW m \in Successors(machine), Call(m) PROVE Moves
      BY <3>1 DEF Successors, Call
    <3>2. CASE ResetMachine
      BY <3>2 DEF ResetMachine, Reset
    <3> QED
      BY <2>1, <2>2, <3>1, <3>2, HandlerCall
  <2>3. ASSUME NEW t \in timers, TimerActs(t) PROVE Moves
    <3>1. machine.state \in TimedStates
      BY <2>3 DEF IInv, OneTimer
    <3> QED
      BY <2>1, <2>3, <3>1, RecoveryLeaves DEF TimerActs
  <2>4. CASE Tick
    BY <2>4 DEF Tick
  <2> QED
    BY <2>2, <2>3, <2>4 DEF Next, TimerFires
<1> QED
  BY <1>1, Invariance, PTL DEF Spec, TurnIdPerRest
=============================================================================
