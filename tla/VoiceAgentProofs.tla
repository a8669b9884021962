--------------------------- MODULE VoiceAgentProofs ---------------------------
(***************************************************************************)
(* The voice server for any number of sessions and connections, any number *)
(* of frames, any history and any settings of the detectors: every turn is *)
(* closed, sessions keep apart, and what is said stays in order.           *)
(***************************************************************************)
EXTENDS VoiceAgent, SequenceTheorems, FiniteSetTheorems, TLAPS

-----------------------------------------------------------------------------
(* What the handlers of a turn machine may return *)

\* Machines as they are between two steps: a barge-in is handled in the step that
\* notices it.
Working == {m \in Machine : m.state # "barge_in"}

\* What a handler that may go on with a turn makes of m, and one that closes it.
Advanced(m) == {x \in Working : x.state = "ended" <=> m.state = "ended"}
Closings(m) == {x \in Advanced(m) : x.state \in {"idle", "ended"}}

\* A machine at work is a machine.
LEMMA WorkingIsMachine ==
  ASSUME NEW m \in Working
  PROVE  m \in Machine /\ m \in Advanced(m)
  BY DEF Working, Advanced

\* The handlers that close a turn close it from every state.
LEMMA ClosingHandlers ==
  ASSUME NEW m \in Working
  PROVE  /\ OnError(m) \in Closings(m)
         /\ OnFillerSelected(m) \in Closings(m)
         /\ OnSpeakingDone(m) \in Closings(m)
         /\ OnTimeout(m) \in Closings(m)
  BY DEF Working, Advanced, Closings, Machine, States, OnError, OnFillerSelected, OnSpeakingDone,
         OnTimeout, RecoveryState, TryTransition, CanTransition, ValidTransitions, TurnId

\* The handlers of the pipeline's way to the answer.
LEMMA PipelineHandlers ==
  ASSUME NEW m \in Working
  PROVE  /\ OnPipelineNeeded(m) \in Advanced(m)
         /\ OnPipelineStart(m) \in Advanced(m)
         /\ OnResponseReady(m) \in Advanced(m)
         /\ OnPipelineStart(OnPipelineNeeded(m)) \in Advanced(m)
  <1>1. ASSUME NEW n \in Working
        PROVE  OnPipelineNeeded(n) \in Advanced(n) /\ OnPipelineStart(n) \in Advanced(n)
               /\ OnResponseReady(n) \in Advanced(n)
    BY DEF Working, Advanced, Machine, States, OnPipelineNeeded, OnPipelineStart,
           OnResponseReady, TryTransition, CanTransition, ValidTransitions, TurnId
  <1>2. OnPipelineNeeded(m) \in Working
    BY <1>1 DEF Advanced
  <1>3. OnPipelineStart(OnPipelineNeeded(m)) \in Advanced(OnPipelineNeeded(m))
    BY <1>1, <1>2
  <1> QED
    BY <1>1, <1>3 DEF Advanced

\* The handlers of a frame: a completed segment, and a barge-in over a response.
LEMMA FrameHandlers ==
  ASSUME NEW m \in Working
  PROVE  /\ SegmentComplete(m) \in Advanced(m)
         /\ m.state = "speaking" => OnBargeInHandled(OnSpeechStart(m)) \in Advanced(m)
  <1>1. ASSUME NEW n \in Working
        PROVE  OnSpeechEnd(n) \in Advanced(n) /\ OnTurnConfirmed(n) \in Advanced(n)
    BY DEF Working, Advanced, Machine, States, OnSpeechEnd, OnTurnConfirmed, TryTransition,
           CanTransition, ValidTransitions, TurnId
  <1>2. m.state = "idle" => OnSpeechStart(m) \in Advanced(m)
    BY DEF Working, Advanced, Machine, States, OnSpeechStart, TryTransition, CanTransition,
           ValidTransitions, TurnId
  <1> DEFINE a == IF m.state = "idle" THEN OnSpeechStart(m) ELSE m
             b == OnSpeechEnd(a)
  <1>3. a \in Advanced(m) /\ a \in Working
    BY <1>2, WorkingIsMachine DEF Advanced
  <1> HIDE DEF a
  <1>4. b \in Advanced(a) /\ b \in Working
    BY <1>1, <1>3 DEF Advanced
  <1> HIDE DEF b
  <1>5. OnTurnConfirmed(b) \in Advanced(b)
    BY <1>1, <1>4
  <1>6. OnTurnConfirmed(b) \in Advanced(m)
    BY <1>3, <1>4, <1>5 DEF Advanced
  <1>7. m.state = "speaking" => OnBargeInHandled(OnSpeechStart(m)) \in Advanced(m)
    BY DEF Working, Advanced, Machine, States, OnSpeechStart, OnBargeInHandled, TryTransition,
           CanTransition, ValidTransitions, TurnId
  <1> QED
    BY <1>6, <1>7 DEF SegmentComplete, a, b

\* A frame that interrupts, or does not.
LEMMA InterruptHandler ==
  ASSUME NEW m \in Working, NEW voiced, NEW passed
  PROVE  InterruptedBy(m, BargeInCheck(m, voiced, passed)) \in Advanced(m)
  <1> DEFINE v == BargeInCheck(m, voiced, passed)
  <1>1. CASE m.state = "speaking"
    <2>1. OnBargeInHandled(OnSpeechStart(m)) \in Advanced(m) /\ m \in Advanced(m)
      BY <1>1, FrameHandlers, WorkingIsMachine
    <2> HIDE DEF v
    <2>2. InterruptedBy(m, v) \in Advanced(m)
      BY <2>1 DEF InterruptedBy
    <2> QED
      BY <2>2 DEF v
  <1>2. CASE m.state # "speaking"
    <2>1. v.event = FALSE
      BY <1>2, Zenon DEF BargeInCheck, Verdict
    <2> HIDE DEF v
    <2>2. InterruptedBy(m, v) = m
      BY <2>1, Zenon DEF InterruptedBy
    <2> QED
      BY <2>2, WorkingIsMachine DEF v
  <1> QED
    BY <1>1, <1>2

\* A new machine, and what the session's end makes of one.
LEMMA OtherMachines ==
  /\ NewMachine \in Working /\ NewMachine.state = "idle"
  /\ \A m \in Working : OnSessionEnd(m) \in Working /\ OnSessionEnd(m).state = "ended"
  BY DEF Working, Machine, States, NewMachine, OnSessionEnd, TryTransition, CanTransition,
         ValidTransitions, TurnId

-----------------------------------------------------------------------------
(* The inductive invariant *)

\* Positions at which the pipeline has still to close its turn, and at which its
\* answer is not yet recorded.
OpenAt == {"stt", "userText", "stall", "llm", "assistantText", "tts", "play"}
AnswerAt == {"filler", "fillerText", "stall", "llm", "assistantText"}

Feature == {"off", "running", "done"}

VadType == [speaking : BOOLEAN, buffer : Seq(Sessions), silence : Nat, preRoll : Seq(Sessions)]

BargeType == [speaking : BOOLEAN, count : 0 .. BargeInFrames - 1, quiet : 0 .. Cooldown]

\* A pipeline's objects exist.
RefsExist ==
    \A c \in Conns : Running(c) => /\ h[c].u.machine \in 1 .. Len(machines)
                                   /\ h[c].u.object \in 1 .. Len(objects)

\* A machine that has left rest is ended, or some pipeline has still to close it.
OpenTurnsHaveOwners ==
    \A i \in 1 .. Len(machines) :
        /\ machines[i].state # "barge_in"
        /\ \/ machines[i].state \in {"idle", "ended"}
           \/ \E c \in Conns : h[c].at \in OpenAt /\ h[c].u.machine = i

\* A registered machine has not ended, and is registered for one session, that of
\* the pipelines that use it.
MachinesKeptApart ==
    /\ \A s \in Sessions : machineOf[s] # 0 => machines[machineOf[s]].state # "ended"
    /\ \A s, t \in Sessions : machineOf[s] = machineOf[t] /\ machineOf[s] # 0 => s = t
    /\ \A c \in Conns, s \in Sessions :
          Running(c) /\ machineOf[s] = h[c].u.machine => s = SessionOf[c]

\* A session's callbacks are those of one of its connections.
CallbacksKeptApart ==
    \A s \in Sessions : callbacks[s] # None => SessionOf[callbacks[s]] = s

\* A connection that no client has made yet is not served.
NewAreNotServed ==
    \A c \in Conns : client[c] = "new" => h[c].at \in {"unborn", "ended"}

IInv ==
    /\ TypeOK /\ vad \in VadType
    /\ NewAreNotServed
    /\ RefsExist
    /\ OpenTurnsHaveOwners
    /\ MachinesKeptApart
    /\ CallbacksKeptApart
    /\ RoutedToOwnSession
    /\ NoPhantomSpeaker
    /\ NothingLeftBehind

\* A coroutine at a point of its pipeline, with the objects of its utterance.
LEMMA PipelinePoints ==
  /\ PlayAt \subseteq SendAt /\ SendAt \subseteq PipelineAt /\ OpenAt \subseteq PipelineAt
  /\ AnswerAt \subseteq PipelineAt /\ PipelineAt \subseteq At
  /\ "receive" \in At /\ "receive" \notin PipelineAt /\ "receive" \notin PlayAt
  /\ "ended" \in At /\ "ended" \notin PipelineAt /\ "unborn" \in At /\ "unborn" \notin PipelineAt
  BY DEF PlayAt, SendAt, PipelineAt, At, OpenAt, AnswerAt

-----------------------------------------------------------------------------
(* The steps of a pipeline, by what they do to each part of the state *)

CoroutineType == [at : At, u : Utterance]

\* The coroutine of c goes on, or returns to receive(); no other one moves.
HStep(c) ==
    /\ h' \in [Conns -> CoroutineType]
    /\ \A d \in Conns \ {c} : h'[d] = h[d]
    /\ \/ /\ h'[c].at \in PipelineAt
          /\ h'[c].u.number = h[c].u.number /\ h'[c].u.sources = h[c].u.sources
          /\ h'[c].u.machine = h[c].u.machine /\ h'[c].u.object = h[c].u.object
          /\ h'[c].u.sink = h[c].u.sink
       \/ h'[c].at = "receive" /\ h'[c].u = NoUtterance(h[c].u.number)

\* Its machine, and no other, takes a step to one in X.
MStep(c, X) == machines' = machines \/ \E x \in X : SetMachine(c, x)

\* The turn of its utterance is recorded.
OStep(c) ==
    \/ /\ objects' = objects
       /\ h'[c].at \in AnswerAt => h[c].at \in AnswerAt
    \/ Record(c, "user")
    \/ Record(c, "assistant") /\ h[c].at \in AnswerAt /\ h'[c].at \notin AnswerAt

\* The detector is told that the agent speaks only where it begins to.
BStep(c) ==
    \/ barge' = barge /\ h[c].at \notin PlayAt
    \/ \E on \in BOOLEAN : barge' = SetAgentSpeaking(barge, on) /\ (on => h'[c].at \in PlayAt)

PipelineStep(c) ==
    /\ h[c].at \in PipelineAt
    /\ HStep(c)
    /\ \/ MStep(c, Closings(MachineOf(c)))
       \/ MStep(c, Advanced(MachineOf(c))) /\ h[c].at \in OpenAt /\ h'[c].at \in OpenAt
    /\ h[c].at \in OpenAt /\ h'[c].at \notin OpenAt =>
          \E x \in Closings(MachineOf(c)) : SetMachine(c, x)
    /\ OStep(c)
    /\ BStep(c)
    /\ threads' \subseteq threads \cup {<<c, h[c].u.number>>}
    /\ UNCHANGED <<clientVars, registry, vad, speakers>>

-----------------------------------------------------------------------------
(* The detectors *)

\* The barge-in detector keeps its type, and says that the agent speaks exactly
\* as long as it is told so.
LEMMA BargeTypes ==
  ASSUME NEW d \in BargeType, NEW on \in BOOLEAN, NEW k \in Nat
  PROVE  /\ DetectorReset \in BargeType
         /\ SetAgentSpeaking(d, on) \in BargeType /\ SetAgentSpeaking(d, on).speaking = on
         /\ Elapse(d, k) \in BargeType /\ Elapse(d, k).speaking = d.speaking
         /\ CheckBargeIn(d, on).detector \in BargeType
         /\ CheckBargeIn(d, on).detector.speaking = d.speaking
  <1> USE BargeInAssumption
  <1>1. DetectorReset \in BargeType
    BY DEF DetectorReset, BargeType
  <1>0. 0 \in 0 .. BargeInFrames - 1 /\ 0 \in 0 .. Cooldown
    OBVIOUS
  <1>2. SetAgentSpeaking(d, on) \in BargeType /\ SetAgentSpeaking(d, on).speaking = on
    <2>1. CASE on
      BY <2>1 DEF SetAgentSpeaking, BargeType
    <2>2. CASE ~on
      <3> DEFINE x == [d EXCEPT !.speaking = FALSE, !.count = 0]
      <3>1. x \in BargeType /\ x.speaking = FALSE
        BY <1>0, Zenon DEF BargeType
      <3>2. SetAgentSpeaking(d, on) = x
        BY <2>2, Zenon DEF SetAgentSpeaking
      <3> QED
        BY <2>2, <3>1, <3>2, Zenon
    <2> QED
      BY <2>1, <2>2
  <1>3. Elapse(d, k) \in BargeType /\ Elapse(d, k).speaking = d.speaking
    BY DEF Elapse, BargeType
  <1> DEFINE n == CountFrame(d.count, on)
  <1>4. n \in Nat
    BY DEF CountFrame, BargeType
  <1> HIDE DEF n
  <1>5. CASE ~d.speaking
    <2> DEFINE x == [d EXCEPT !.count = 0]
    <2>1. x \in BargeType /\ x.speaking = d.speaking
      BY DEF BargeType
    <2> HIDE DEF x
    <2>2. CheckBargeIn(d, on) = Verdict(x, FALSE)
      BY <1>5, Zenon DEF CheckBargeIn, x
    <2>3. CheckBargeIn(d, on).detector = x
      BY <2>2 DEF Verdict
    <2> QED
      BY <1>1, <1>2, <1>3, <2>1, <2>3, Zenon
  <1>6. CASE d.speaking /\ Cooling(d)
    <2>1. CheckBargeIn(d, on) = Verdict(d, FALSE)
      BY <1>6, Zenon DEF CheckBargeIn
    <2>2. CheckBargeIn(d, on).detector = d
      BY <2>1 DEF Verdict
    <2> QED
      BY <1>1, <1>2, <1>3, <2>2, Zenon
  <1>7. CASE d.speaking /\ ~Cooling(d) /\ Enough(n)
    <2> DEFINE x == [d EXCEPT !.count = 0, !.quiet = 0]
    <2>1. x \in BargeType /\ x.speaking = d.speaking
      BY <1>0, Zenon DEF BargeType
    <2> HIDE DEF x
    <2>2. CheckBargeIn(d, on) = Verdict(x, TRUE)
      BY <1>7, Zenon DEF CheckBargeIn, x, n
    <2>3. CheckBargeIn(d, on).detector = x
      BY <2>2 DEF Verdict
    <2> QED
      BY <1>1, <1>2, <1>3, <2>1, <2>3, Zenon
  <1>8. CASE d.speaking /\ ~Cooling(d) /\ ~Enough(n)
    <2> DEFINE x == [d EXCEPT !.count = n]
    <2>0. n \in 0 .. BargeInFrames - 1
      BY <1>4, <1>8 DEF Enough
    <2>1. x \in BargeType /\ x.speaking = d.speaking
      BY <2>0, Zenon DEF BargeType
    <2> HIDE DEF x
    <2>2. CheckBargeIn(d, on) = Verdict(x, FALSE)
      BY <1>8, Zenon DEF CheckBargeIn, x, n
    <2>3. CheckBargeIn(d, on).detector = x
      BY <2>2 DEF Verdict
    <2> QED
      BY <1>1, <1>2, <1>3, <2>1, <2>3, Zenon
  <1> QED
    BY <1>5, <1>6, <1>7, <1>8, Zenon

\* A frame makes no one speak, nor silent, for the barge-in detector.
LEMMA CheckTypes ==
  ASSUME NEW m, barge \in BargeType, NEW voiced \in BOOLEAN, NEW passed \in Nat
  PROVE  /\ BargeInCheck(m, voiced, passed).detector \in BargeType
         /\ BargeInCheck(m, voiced, passed).detector.speaking = barge.speaking
  <1> DEFINE d == Elapse(barge, passed)
  <1>1. d \in BargeType /\ d.speaking = barge.speaking
    BY BargeTypes
  <1> HIDE DEF d
  <1>2. CheckBargeIn(d, voiced).detector \in BargeType
        /\ CheckBargeIn(d, voiced).detector.speaking = d.speaking
    BY <1>1, BargeTypes
  <1>3. CASE m.state = "speaking"
    <2>1. BargeInCheck(m, voiced, passed) = CheckBargeIn(d, voiced)
      BY <1>3, Zenon DEF BargeInCheck, d
    <2> QED
      BY <1>1, <1>2, <2>1, Zenon
  <1>4. CASE m.state # "speaking"
    <2>1. BargeInCheck(m, voiced, passed) = Verdict(d, FALSE)
      BY <1>4, Zenon DEF BargeInCheck, d
    <2>2. BargeInCheck(m, voiced, passed).detector = d
      BY <2>1 DEF Verdict
    <2> QED
      BY <1>1, <2>2, Zenon
  <1> QED
    BY <1>3, <1>4

\* The voice activity detector keeps its type; a segment is made of frames.
LEMMA VadTypes ==
  ASSUME NEW v \in VadType, NEW s \in Sessions, NEW voiced \in BOOLEAN
  PROVE  /\ VadReset \in VadType
         /\ ProcessFrame(v, s, voiced).vad \in VadType
         /\ ProcessFrame(v, s, voiced).segment \in Seq(Sessions)
  <1> DEFINE longer == Append(v.buffer, s)
             first == Append(v.preRoll, s)
             heard == [v EXCEPT !.buffer = Append(@, s), !.silence = @ + 1]
             pushed == [v EXCEPT !.preRoll = PushPreRoll(@, s)]
             resumed == IF v.speaking THEN ContinueSpeech(v, s) ELSE StartSpeech(v, s)
             kept == IF LongEnough(heard.buffer) THEN heard.buffer ELSE NoSegment
             ended == EndSpeech(heard)
  <1>1. /\ v.buffer \in Seq(Sessions) /\ v.preRoll \in Seq(Sessions)
        /\ v.silence \in Nat /\ v.silence + 1 \in Nat
    BY DEF VadType
  <1>2. longer \in Seq(Sessions) /\ first \in Seq(Sessions) /\ first # <<>> /\ <<>> \in Seq(Sessions)
    BY <1>1
  <1> DEFINE p == PushPreRoll(v.preRoll, s)
  <1>3. p \in Seq(Sessions)
    <2>1. Tail(first) \in Seq(Sessions)
      BY <1>2
    <2> QED
      BY <1>2, <2>1, Zenon DEF PushPreRoll
  <1> HIDE DEF longer, first, p
  <1>4. ASSUME NEW x \in VadType, NEW b \in Seq(Sessions), NEW n \in Nat, NEW q \in Seq(Sessions)
        PROVE  /\ [x EXCEPT !.buffer = b, !.silence = n] \in VadType
               /\ [x EXCEPT !.preRoll = q] \in VadType
               /\ [x EXCEPT !.speaking = TRUE, !.buffer = b, !.silence = n, !.preRoll = q] \in VadType
               /\ [x EXCEPT !.speaking = FALSE, !.buffer = b, !.silence = n] \in VadType
    BY Zenon DEF VadType
  <1>5. heard = [v EXCEPT !.buffer = longer, !.silence = v.silence + 1]
    BY Zenon DEF longer
  <1>6. heard \in VadType /\ heard.buffer \in Seq(Sessions)
    <2>1. heard \in VadType
      BY <1>1, <1>2, <1>4, <1>5
    <2> HIDE DEF heard
    <2> QED
      BY <2>1 DEF VadType
  <1>7. pushed \in VadType
    BY <1>3, <1>4, Zenon DEF p
  <1>8. resumed \in VadType
    <2>1. ContinueSpeech(v, s) = [v EXCEPT !.buffer = longer, !.silence = 0]
      BY Zenon DEF ContinueSpeech, longer
    <2>2. StartSpeech(v, s)
            = [v EXCEPT !.speaking = TRUE, !.buffer = first, !.silence = 0, !.preRoll = <<>>]
      BY Zenon DEF StartSpeech, first
    <2>3. ContinueSpeech(v, s) \in VadType
      BY <1>2, <2>1, 0 \in Nat, Zenon DEF VadType
    <2>4. StartSpeech(v, s) \in VadType
      BY <1>2, <2>2, 0 \in Nat, Zenon DEF VadType
    <2> QED
      BY <2>3, <2>4, Zenon
  <1> HIDE DEF heard
  <1>9. ended \in VadType
    BY <1>2, <1>4, <1>6 DEF EndSpeech
  <1>10. kept \in Seq(Sessions) /\ NoSegment \in Seq(Sessions)
    BY <1>2, <1>6, Zenon DEF NoSegment
  <1>11. VadReset \in VadType
    BY <1>2 DEF VadReset, VadType
  <1>12. \/ ProcessFrame(v, s, voiced) = Result(resumed, NoSegment)
         \/ ProcessFrame(v, s, voiced) = Result(pushed, NoSegment)
         \/ ProcessFrame(v, s, voiced) = Result(heard, NoSegment)
         \/ ProcessFrame(v, s, voiced) = Result(ended, kept)
    BY Zenon DEF ProcessFrame, heard
  <1> HIDE DEF resumed, pushed, kept, ended
  <1> QED
    BY <1>6, <1>7, <1>8, <1>9, <1>10, <1>11, <1>12 DEF Result

\* The coroutine goes on to another point of the pipeline.
LEMMA GotoStep ==
  ASSUME TypeOK, NEW c \in Conns, NEW at \in PipelineAt, Goto(c, at)
  PROVE  HStep(c) /\ h'[c].at = at
  <1>1. h \in [Conns -> CoroutineType]
    BY DEF TypeOK, CoroutineType
  <1>2. h' = [h EXCEPT ![c] = [at |-> at, u |-> h[c].u]]
    <2>1. [h[c] EXCEPT !.at = at] = [at |-> at, u |-> h[c].u]
      BY <1>1 DEF CoroutineType
    <2>2. h' = [h EXCEPT ![c] = [h[c] EXCEPT !.at = at]]
      BY Zenon DEF Goto
    <2> QED
      BY <2>1, <2>2, Zenon
  <1>3. [at |-> at, u |-> h[c].u] \in CoroutineType
    BY <1>1, PipelinePoints DEF CoroutineType
  <1>4. h'[c] = [at |-> at, u |-> h[c].u] /\ \A d \in Conns \ {c} : h'[d] = h[d]
    BY <1>1, <1>2
  <1>5. h'[c].at = at /\ h'[c].u = h[c].u
    BY <1>4
  <1>6. h' \in [Conns -> CoroutineType]
    BY <1>1, <1>2, <1>3
  <1> QED
    BY <1>4, <1>5, <1>6 DEF HStep

\* ... while the extraction of the utterance's features starts or ends.
LEMMA GotoWithFeature ==
  ASSUME TypeOK, NEW c \in Conns, NEW at \in PipelineAt, NEW f \in Feature,
         h' = [h EXCEPT ![c].at = at, ![c].u.feature = f]
  PROVE  HStep(c) /\ h'[c].at = at
  <1> DEFINE v == [h[c].u EXCEPT !.feature = f]
  <1>1. h \in [Conns -> CoroutineType] /\ h[c].u \in Utterance
    BY DEF TypeOK, CoroutineType
  <1>2. v \in Utterance
    BY <1>1, Zenon DEF Utterance, Feature
  <1>3. /\ v.number = h[c].u.number /\ v.sources = h[c].u.sources
        /\ v.machine = h[c].u.machine /\ v.object = h[c].u.object /\ v.sink = h[c].u.sink
    BY <1>1 DEF Utterance
  <1>4. h' = [h EXCEPT ![c] = [at |-> at, u |-> v]]
    <2> DEFINE w == [h[c] EXCEPT !.at = at]
    <2>1. w = [at |-> at, u |-> h[c].u]
      BY <1>1 DEF CoroutineType
    <2>2. h' = [[h EXCEPT ![c] = w] EXCEPT ![c] = [w EXCEPT !.u = [w.u EXCEPT !.feature = f]]]
      BY <1>1 DEF CoroutineType
    <2> HIDE DEF w
    <2>3. [w EXCEPT !.u = [w.u EXCEPT !.feature = f]] = [at |-> at, u |-> v]
      BY <2>1
    <2> QED
      BY <1>1, <2>2, <2>3
  <1> HIDE DEF v
  <1>5. [at |-> at, u |-> v] \in CoroutineType
    BY <1>2, PipelinePoints DEF CoroutineType
  <1>6. h'[c] = [at |-> at, u |-> v] /\ \A d \in Conns \ {c} : h'[d] = h[d]
    BY <1>1, <1>4
  <1>7. h'[c].at = at /\ h'[c].u = v
    <2> DEFINE x == [at |-> at, u |-> v]
    <2>1. x.at = at /\ x.u = v
      OBVIOUS
    <2> HIDE DEF x
    <2> QED
      BY <1>6, <2>1, Zenon DEF x
  <1>8. h' \in [Conns -> CoroutineType]
    BY <1>1, <1>4, <1>5
  <1> QED
    BY <1>3, <1>6, <1>7, <1>8 DEF HStep

\* A coroutine without an utterance is one of the states of a coroutine.
LEMMA NoUtteranceType ==
  ASSUME NEW n \in Nat, NEW at \in At
  PROVE  /\ NoUtterance(n) \in Utterance /\ NoUtterance(n).sink = None
         /\ NoUtterance(n).number = n
         /\ [at |-> at, u |-> NoUtterance(n)] \in CoroutineType
  BY DEF NoUtterance, Utterance, CoroutineType

\* The coroutine returns to receive().
LEMMA ReturnStep ==
  ASSUME TypeOK, NEW c \in Conns, Return(c)
  PROVE  HStep(c) /\ h'[c].at = "receive"
  <1>1. h \in [Conns -> CoroutineType] /\ h[c].u.number \in Nat
    BY DEF TypeOK, CoroutineType, Utterance
  <1> DEFINE v == NoUtterance(h[c].u.number)
  <1>2. [at |-> "receive", u |-> v] \in CoroutineType
    BY <1>1, NoUtteranceType, PipelinePoints
  <1>3. h' = [h EXCEPT ![c] = [at |-> "receive", u |-> v]]
    BY DEF Return
  <1> HIDE DEF v
  <1>4. h'[c] = [at |-> "receive", u |-> v] /\ \A d \in Conns \ {c} : h'[d] = h[d]
    BY <1>1, <1>3
  <1>5. h'[c].at = "receive" /\ h'[c].u = v
    BY <1>4
  <1>6. h' \in [Conns -> CoroutineType]
    BY <1>1, <1>2, <1>3
  <1> QED
    BY <1>4, <1>5, <1>6 DEF HStep, v

\* A registered machine, and the machine of a pipeline, is at work.
LEMMA OwnMachine ==
  ASSUME TypeOK, RefsExist, OpenTurnsHaveOwners
  PROVE  /\ \A i \in 1 .. Len(machines) : machines[i] \in Working
         /\ \A c \in Conns : Running(c) => MachineOf(c) \in Working
  BY DEF TypeOK, RefsExist, OpenTurnsHaveOwners, Working, MachineOf

\* What is common to the steps of a pipeline that fail.
LEMMA FailStep ==
  ASSUME IInv, NEW c \in Conns, h[c].at \in PipelineAt \ PlayAt, Fail(c), barge' = barge,
         UNCHANGED <<clientVars, objects, registry, vad, threads, speakers>>
  PROVE  PipelineStep(c)
  <1>1. HStep(c) /\ h'[c].at = "receive"
    BY ReturnStep DEF IInv, Fail
  <1>2. MachineOf(c) \in Working
    BY OwnMachine DEF IInv, Running
  <1>3. OnError(MachineOf(c)) \in Closings(MachineOf(c))
    BY <1>2, ClosingHandlers
  <1>4. \E x \in Closings(MachineOf(c)) : SetMachine(c, x)
    BY <1>3, Zenon DEF Fail
  <1>5. OStep(c)
    BY <1>1 DEF OStep, AnswerAt
  <1>6. BStep(c)
    BY DEF BStep
  <1> QED
    BY <1>1, <1>4, <1>5, <1>6, Zenon DEF PipelineStep, MStep

\* What is common to the steps that go on to another point.
LEMMA OnwardStep ==
  ASSUME IInv, NEW c \in Conns, NEW at \in PipelineAt, h[c].at \in PipelineAt,
         Goto(c, at) \/ (\E f \in Feature : h' = [h EXCEPT ![c].at = at, ![c].u.feature = f])
  PROVE  HStep(c) /\ h'[c].at = at /\ MachineOf(c) \in Working
  <1>1. HStep(c) /\ h'[c].at = at
    BY GotoStep, GotoWithFeature DEF IInv
  <1>2. MachineOf(c) \in Working
    BY OwnMachine DEF IInv, Running
  <1> QED
    BY <1>1, <1>2

\* The transcript of the user is sent, and the turn is routed.
LEMMA RouteStep ==
  ASSUME IInv, NEW c \in Conns, NEW at \in {"filler", "features", "stall", "llm"}, NEW m, NEW b,
         Route(c, at, m, b),
         MachineOf(c) \in Working =>
            IF at \in OpenAt THEN m \in Advanced(MachineOf(c)) ELSE m \in Closings(MachineOf(c)),
         b = barge \/ (b = SetAgentSpeaking(barge, TRUE) /\ at \in PlayAt)
  PROVE  PipelineStep(c)
  <1>1. h[c].at = "userText"
    BY DEF Route, RunsAt
  <1>2. at \in PipelineAt /\ "running" \in Feature
    BY DEF PipelineAt, SendAt, PlayAt, Feature
  <1>3. h[c].at \in PipelineAt /\ h[c].at \in OpenAt /\ h[c].at \notin PlayAt
    BY <1>1 DEF PipelineAt, SendAt, PlayAt, OpenAt
  <1>4. \E f \in Feature : h' = [h EXCEPT ![c].at = at, ![c].u.feature = f]
    BY <1>2, Zenon DEF Route
  <1>5. HStep(c) /\ h'[c].at = at /\ MachineOf(c) \in Working
    BY <1>2, <1>3, <1>4, OnwardStep
  <1>6. SetMachine(c, m) /\ Record(c, "user") /\ barge' = b
        /\ threads' = threads \cup {<<c, h[c].u.number>>}
        /\ UNCHANGED <<clientVars, registry, vad, speakers>>
    BY Zenon DEF Route
  <1>7. OStep(c)
    BY <1>6 DEF OStep
  <1>8. BStep(c)
    BY <1>3, <1>5, <1>6 DEF BStep
  <1>9. CASE at \in OpenAt
    <2>1. MStep(c, Advanced(MachineOf(c)))
      BY <1>5, <1>6, <1>9 DEF MStep
    <2> QED
      BY <1>3, <1>5, <1>6, <1>7, <1>8, <1>9, <2>1, Zenon DEF PipelineStep
  <1>10. CASE at \notin OpenAt
    <2>1. \E x \in Closings(MachineOf(c)) : SetMachine(c, x)
      BY <1>5, <1>6, <1>10, Zenon
    <2> QED
      BY <1>3, <1>5, <1>6, <1>7, <1>8, <1>10, <2>1, Zenon DEF PipelineStep, MStep
  <1> QED
    BY <1>9, <1>10

\* Every step of a pipeline that does not end its connection is such a step.
LEMMA ProceedSteps ==
  ASSUME IInv, NEW c \in Conns, Proceed(c), ~FeatureTimeout(c), ~Disconnect(c)
  PROVE  PipelineStep(c)
  <1> USE DEF RunsAt
  <1>p. PlayAt = {"filler", "stall", "play"} /\ SendAt \subseteq PipelineAt
        /\ PlayAt \cup {"userText", "fillerText", "assistantText", "metadata"} = SendAt
        /\ {"stt", "llm", "tts", "features", "featureWait"} \subseteq PipelineAt
    BY DEF PlayAt, SendAt, PipelineAt
  <1>w. h[c].at \in PipelineAt => MachineOf(c) \in Working
    BY OwnMachine DEF IInv, Running
  <1>1. CASE SttFails(c) \/ LlmFails(c) \/ TtsFails(c) \/ FeaturesFail(c)
    <2>1. h[c].at \in {"stt", "llm", "tts", "featureWait"}
      BY <1>1 DEF SttFails, LlmFails, TtsFails, FeaturesFail
    <2>2. h[c].at \in PipelineAt \ PlayAt
      BY <1>p, <2>1
    <2>3. Fail(c) /\ barge' = barge
          /\ UNCHANGED <<clientVars, objects, registry, vad, threads, speakers>>
      BY <1>1, Zenon DEF SttFails, LlmFails, TtsFails, FeaturesFail
    <2> QED
      BY <2>2, <2>3, FailStep
  <1>2. CASE RouteToFiller(c)
    <2>1. MachineOf(c) \in Working => OnFillerSelected(MachineOf(c)) \in Closings(MachineOf(c))
      BY ClosingHandlers
    <2>2. "filler" \notin OpenAt /\ "filler" \in PlayAt
      BY DEF OpenAt, PlayAt
    <2> QED
      BY <1>2, <2>1, <2>2, RouteStep DEF RouteToFiller
  <1>3. CASE RouteToSilentFiller(c)
    <2>1. MachineOf(c) \in Working => OnFillerSelected(MachineOf(c)) \in Closings(MachineOf(c))
      BY ClosingHandlers
    <2>2. "features" \notin OpenAt
      BY DEF OpenAt
    <2> QED
      BY <1>3, <2>1, <2>2, RouteStep DEF RouteToSilentFiller
  <1>4. CASE RouteToStall(c)
    <2>1. MachineOf(c) \in Working => OnPipelineNeeded(MachineOf(c)) \in Advanced(MachineOf(c))
      BY PipelineHandlers
    <2>2. "stall" \in OpenAt /\ "stall" \in PlayAt
      BY DEF OpenAt, PlayAt
    <2> QED
      BY <1>4, <2>1, <2>2, RouteStep DEF RouteToStall
  <1>5. CASE RouteToPipeline(c)
    <2>1. MachineOf(c) \in Working
            => OnPipelineStart(OnPipelineNeeded(MachineOf(c))) \in Advanced(MachineOf(c))
      BY PipelineHandlers
    <2>2. "llm" \in OpenAt
      BY DEF OpenAt
    <2> QED
      BY <1>5, <2>1, <2>2, RouteStep DEF RouteToPipeline
  <1>6. CASE SttReturns(c) \/ LlmReturns(c)
    <2> DEFINE at == IF h[c].at = "stt" THEN "userText" ELSE "assistantText"
    <2>1. h[c].at \in {"stt", "llm"} /\ Goto(c, at)
      BY <1>6 DEF SttReturns, LlmReturns
    <2>2. at \in PipelineAt /\ h[c].at \in PipelineAt /\ h[c].at \notin PlayAt
          /\ at \in OpenAt /\ h[c].at \in OpenAt
      BY <1>p, <2>1 DEF OpenAt
    <2>3. at \in AnswerAt => h[c].at \in AnswerAt
      BY <2>1 DEF AnswerAt
    <2> HIDE DEF at
    <2>4. HStep(c) /\ h'[c].at = at
      BY <2>1, <2>2, OnwardStep
    <2>5. UNCHANGED <<clientVars, machines, objects, registry, vad, barge, threads, speakers>>
      BY <1>6, Zenon DEF SttReturns, LlmReturns
    <2>6. OStep(c) /\ BStep(c) /\ MStep(c, Advanced(MachineOf(c)))
      BY <2>2, <2>3, <2>4, <2>5, Zenon DEF OStep, BStep, MStep
    <2>7. threads' \subseteq threads \cup {<<c, h[c].u.number>>}
      BY <2>5
    <2> QED
      BY <2>2, <2>4, <2>5, <2>6, <2>7, Zenon DEF PipelineStep
  <1>7. CASE FillerPlayed(c)
    <2>1. h[c].at = "filler" /\ Goto(c, "fillerText") /\ barge' = SetAgentSpeaking(barge, FALSE)
          /\ UNCHANGED <<clientVars, machines, objects, registry, vad, threads, speakers>>
      BY <1>7, Zenon DEF FillerPlayed
    <2>2. "fillerText" \in PipelineAt /\ h[c].at \in PipelineAt /\ h[c].at \notin OpenAt
          /\ h[c].at \in AnswerAt
      BY <1>p, <2>1 DEF OpenAt, AnswerAt
    <2>3. HStep(c) /\ h'[c].at = "fillerText"
      BY <2>1, <2>2, OnwardStep
    <2>4. OStep(c) /\ BStep(c) /\ MStep(c, Closings(MachineOf(c)))
      BY <2>1, <2>2, Zenon DEF OStep, BStep, MStep
    <2>5. threads' \subseteq threads \cup {<<c, h[c].u.number>>}
      BY <2>1
    <2> QED
      BY <2>1, <2>2, <2>3, <2>4, <2>5, Zenon DEF PipelineStep
  <1>8. CASE FillerTextSent(c)
    <2>1. h[c].at = "fillerText" /\ Goto(c, "features") /\ Record(c, "assistant")
          /\ UNCHANGED <<clientVars, machines, registry, vad, barge, threads, speakers>>
      BY <1>8, Zenon DEF FillerTextSent
    <2>2. "features" \in PipelineAt /\ h[c].at \in PipelineAt /\ h[c].at \notin OpenAt
          /\ h[c].at \in AnswerAt /\ "features" \notin AnswerAt /\ h[c].at \notin PlayAt
      BY <1>p, <2>1 DEF OpenAt, AnswerAt
    <2>3. HStep(c) /\ h'[c].at = "features"
      BY <2>1, <2>2, OnwardStep
    <2>4. OStep(c) /\ BStep(c) /\ MStep(c, Closings(MachineOf(c)))
      BY <2>1, <2>2, <2>3, Zenon DEF OStep, BStep, MStep
    <2>5. threads' \subseteq threads \cup {<<c, h[c].u.number>>}
      BY <2>1
    <2> QED
      BY <2>1, <2>2, <2>3, <2>4, <2>5, Zenon DEF PipelineStep
  <1>9. CASE StallPlayed(c)
    <2>1. h[c].at = "stall" /\ Goto(c, "llm") /\ barge' = SetAgentSpeaking(barge, FALSE)
          /\ SetMachine(c, OnPipelineStart(MachineOf(c)))
          /\ UNCHANGED <<clientVars, objects, registry, vad, threads, speakers>>
      BY <1>9, Zenon DEF StallPlayed
    <2>2. "llm" \in PipelineAt /\ h[c].at \in PipelineAt /\ h[c].at \in OpenAt
          /\ h[c].at \in AnswerAt /\ "llm" \in OpenAt
      BY <1>p, <2>1 DEF OpenAt, AnswerAt
    <2>3. HStep(c) /\ h'[c].at = "llm" /\ MachineOf(c) \in Working
      BY <2>1, <2>2, OnwardStep
    <2>4. OStep(c) /\ BStep(c)
      BY <2>1, <2>2, <2>3, Zenon DEF OStep, BStep
    <2>5. OnPipelineStart(MachineOf(c)) \in Advanced(MachineOf(c))
      BY <2>3, PipelineHandlers
    <2>6. MStep(c, Advanced(MachineOf(c)))
      BY <2>1, <2>5, Zenon DEF MStep
    <2>7. threads' \subseteq threads \cup {<<c, h[c].u.number>>}
      BY <2>1
    <2> QED
      BY <2>1, <2>2, <2>3, <2>4, <2>6, <2>7, Zenon DEF PipelineStep
  <1>10. CASE AssistantTextSent(c)
    <2>1. h[c].at = "assistantText" /\ Goto(c, "tts") /\ Record(c, "assistant")
          /\ UNCHANGED <<clientVars, machines, registry, vad, barge, threads, speakers>>
      BY <1>10, Zenon DEF AssistantTextSent
    <2>2. "tts" \in PipelineAt /\ h[c].at \in PipelineAt /\ h[c].at \in OpenAt
          /\ h[c].at \in AnswerAt /\ "tts" \in OpenAt /\ "tts" \notin AnswerAt /\ h[c].at \notin PlayAt
      BY <1>p, <2>1 DEF OpenAt, AnswerAt
    <2>3. HStep(c) /\ h'[c].at = "tts"
      BY <2>1, <2>2, OnwardStep
    <2>4. OStep(c) /\ BStep(c) /\ MStep(c, Advanced(MachineOf(c)))
      BY <2>1, <2>2, <2>3, Zenon DEF OStep, BStep, MStep
    <2>5. threads' \subseteq threads \cup {<<c, h[c].u.number>>}
      BY <2>1
    <2> QED
      BY <2>1, <2>2, <2>3, <2>4, <2>5, Zenon DEF PipelineStep
  <1>11. CASE TtsReturns(c)
    <2>1. h[c].at = "tts" /\ Goto(c, "play") /\ barge' = SetAgentSpeaking(barge, TRUE)
          /\ SetMachine(c, OnResponseReady(MachineOf(c)))
          /\ UNCHANGED <<clientVars, objects, registry, vad, threads, speakers>>
      BY <1>11, Zenon DEF TtsReturns
    <2>2. "play" \in PipelineAt /\ h[c].at \in PipelineAt /\ h[c].at \in OpenAt
          /\ "play" \in OpenAt /\ "play" \notin AnswerAt /\ "play" \in PlayAt
      BY <1>p, <2>1 DEF OpenAt, AnswerAt
    <2>3. HStep(c) /\ h'[c].at = "play" /\ MachineOf(c) \in Working
      BY <2>1, <2>2, OnwardStep
    <2>4. OStep(c) /\ BStep(c)
      BY <2>1, <2>2, <2>3, Zenon DEF OStep, BStep
    <2>5. OnResponseReady(MachineOf(c)) \in Advanced(MachineOf(c))
      BY <2>3, PipelineHandlers
    <2>6. MStep(c, Advanced(MachineOf(c)))
      BY <2>1, <2>5, Zenon DEF MStep
    <2>7. threads' \subseteq threads \cup {<<c, h[c].u.number>>}
      BY <2>1
    <2> QED
      BY <2>1, <2>2, <2>3, <2>4, <2>6, <2>7, Zenon DEF PipelineStep
  <1>12. CASE Played(c)
    <2>1. h[c].at = "play" /\ Goto(c, "features") /\ barge' = SetAgentSpeaking(barge, FALSE)
          /\ SetMachine(c, OnSpeakingDone(MachineOf(c)))
          /\ UNCHANGED <<clientVars, objects, registry, vad, threads, speakers>>
      BY <1>12, Zenon DEF Played
    <2>2. "features" \in PipelineAt /\ h[c].at \in PipelineAt /\ "features" \notin AnswerAt
      BY <1>p, <2>1 DEF AnswerAt
    <2>3. HStep(c) /\ h'[c].at = "features" /\ MachineOf(c) \in Working
      BY <2>1, <2>2, OnwardStep
    <2>4. OStep(c) /\ BStep(c)
      BY <2>1, <2>2, <2>3, Zenon DEF OStep, BStep
    <2>5. OnSpeakingDone(MachineOf(c)) \in Closings(MachineOf(c))
      BY <2>3, ClosingHandlers
    <2>6. \E x \in Closings(MachineOf(c)) : SetMachine(c, x)
      BY <2>1, <2>5, Zenon
    <2>7. threads' \subseteq threads \cup {<<c, h[c].u.number>>}
      BY <2>1
    <2> QED
      BY <2>1, <2>2, <2>3, <2>4, <2>6, <2>7, Zenon DEF PipelineStep, MStep
  <1>13. CASE CheckFeatures(c) \/ FeaturesArrive(c) \/ MetadataSent(c)
    <2>1. h[c].at \in {"features", "featureWait", "metadata"}
          /\ (Return(c) \/ Goto(c, "metadata") \/ Goto(c, "featureWait"))
          /\ UNCHANGED <<clientVars, machines, objects, registry, vad, barge, threads, speakers>>
      BY <1>13, Zenon DEF CheckFeatures, FeaturesArrive, MetadataSent
    <2>2. "metadata" \in PipelineAt /\ "featureWait" \in PipelineAt /\ h[c].at \in PipelineAt
          /\ h[c].at \notin PlayAt /\ h[c].at \notin OpenAt
      BY <1>p, <2>1 DEF OpenAt
    <2>3. HStep(c) /\ h'[c].at \in {"receive", "metadata", "featureWait"}
      BY <2>1, <2>2, OnwardStep, ReturnStep DEF IInv
    <2>4. h'[c].at \notin AnswerAt
      BY <2>3 DEF AnswerAt
    <2>5. OStep(c) /\ BStep(c) /\ MStep(c, Closings(MachineOf(c)))
      BY <2>1, <2>2, <2>4, Zenon DEF OStep, BStep, MStep
    <2>6. threads' \subseteq threads \cup {<<c, h[c].u.number>>}
      BY <2>1
    <2> QED
      BY <2>1, <2>2, <2>3, <2>5, <2>6, Zenon DEF PipelineStep
  <1> QED
    BY <1>1, <1>2, <1>3, <1>4, <1>5, <1>6, <1>7, <1>8, <1>9, <1>10, <1>11, <1>12, <1>13
       DEF Proceed

-----------------------------------------------------------------------------
(* What a step of a pipeline does to the machines and to the histories *)

\* The other machines are as they were, and an ended machine stays ended.
LEMMA MachineEffect ==
  ASSUME TypeOK, RefsExist, OpenTurnsHaveOwners, NEW c \in Conns, Running(c),
         NEW X \in SUBSET Advanced(MachineOf(c)), MStep(c, X)
  PROVE  /\ machines' \in Seq(Machine) /\ Len(machines') = Len(machines)
         /\ \A i \in 1 .. Len(machines) :
               /\ machines'[i] \in Advanced(machines[i])
               /\ i # h[c].u.machine => machines'[i] = machines[i]
         /\ machines' = machines \/ machines'[h[c].u.machine] \in X
  <1>1. machines \in Seq(Machine) /\ h[c].u.machine \in 1 .. Len(machines)
    BY DEF TypeOK, RefsExist
  <1>2. \A i \in 1 .. Len(machines) : machines[i] \in Advanced(machines[i])
    BY OwnMachine, WorkingIsMachine
  <1>3. CASE machines' = machines
    BY <1>1, <1>2, <1>3
  <1>4. CASE \E x \in X : SetMachine(c, x)
    <2>1. PICK x \in X : machines' = [machines EXCEPT ![h[c].u.machine] = x]
      BY <1>4 DEF SetMachine
    <2>2. x \in Advanced(machines[h[c].u.machine]) /\ x \in Machine
      BY DEF MachineOf, Advanced, Working
    <2>3. machines' \in Seq(Machine) /\ Len(machines') = Len(machines)
          /\ \A i \in 1 .. Len(machines) :
                machines'[i] = IF i = h[c].u.machine THEN x ELSE machines[i]
      BY <1>1, <2>1, <2>2
    <2> QED
      BY <1>1, <1>2, <2>2, <2>3
  <1> QED
    BY <1>3, <1>4 DEF MStep

\* Recording a turn: it comes last, behind as much of the history as fits.
LEMMA AddTurnKeeps ==
  ASSUME NEW history \in Seq(Turn), Len(history) <= MaxHistory, NEW t \in Turn
  PROVE  LET new == AddTurn(history, t) IN
         /\ new \in Seq(Turn) /\ new # <<>> /\ Len(new) <= MaxHistory
         /\ new[Len(new)] = t
         /\ \A i \in 2 .. Len(new) : i # Len(new) =>
               \E j \in 2 .. Len(history) : new[i] = history[j] /\ new[i - 1] = history[j - 1]
         /\ Len(new) > 1 => history # <<>> /\ new[Len(new) - 1] = history[Len(history)]
  <1> DEFINE longer == Append(history, t)
             k == Len(history)
  <1>0. MaxHistory \in Nat \ {0}
    BY VoiceAgentAssumption
  <1>1. /\ longer \in Seq(Turn) /\ Len(longer) = k + 1 /\ k \in Nat
        /\ \A i \in 1 .. k : longer[i] = history[i]
        /\ longer[k + 1] = t
    OBVIOUS
  <1> HIDE DEF longer
  <1>2. CASE Len(longer) > MaxHistory
    <2> DEFINE new == SubSeq(longer, Len(longer) - MaxHistory + 1, Len(longer))
    <2>1. k = MaxHistory
      BY <1>0, <1>1, <1>2
    <2>2. Len(longer) - MaxHistory + 1 = 2
      BY <1>0, <1>1, <2>1
    <2>3. new = SubSeq(longer, 2, k + 1)
      BY <1>1, <2>2, Zenon
    <2>4. new \in Seq(Turn) /\ Len(new) = k /\ \A i \in 1 .. k : new[i] = longer[i + 1]
      <3> HIDE DEF new
      <3>1. Len(new) = k
        BY <1>1, <2>3
      <3>2. \A i \in 1 .. k : new[i] = longer[i + 1]
        BY <1>1, <2>3
      <3>3. new \in Seq(Turn)
        BY <1>1, <2>3
      <3> QED
        BY <3>1, <3>2, <3>3
    <2>5. AddTurn(history, t) = new
      BY <1>2, Zenon DEF AddTurn, longer
    <2> HIDE DEF new
    <2>6. \A i \in 2 .. k : i # k => i + 1 \in 2 .. k /\ new[i] = history[i + 1]
                                     /\ new[i - 1] = history[i + 1 - 1]
      <3> SUFFICES ASSUME NEW i \in 2 .. k, i # k
                   PROVE  i + 1 \in 2 .. k /\ new[i] = history[i + 1] /\ new[i - 1] = history[i]
        BY <1>1
      <3>1. i \in 1 .. k /\ i - 1 \in 1 .. k /\ i + 1 \in 1 .. k /\ i + 1 \in 2 .. k /\ i - 1 + 1 = i
        BY <1>1
      <3>2. new[i] = longer[i + 1] /\ new[i - 1] = longer[i]
        BY <2>4, <3>1
      <3> QED
        BY <1>1, <3>1, <3>2
    <2> QED
      BY <1>0, <1>1, <2>1, <2>4, <2>5, <2>6
  <1>3. CASE ~(Len(longer) > MaxHistory)
    <2>1. AddTurn(history, t) = longer
      BY <1>3, Zenon DEF AddTurn, longer
    <2> QED
      BY <1>0, <1>1, <1>3, <2>1
  <1> QED
    BY <1>2, <1>3

\* The histories of the other objects are as they were.
LEMMA RecordEffect ==
  ASSUME TypeOK, RefsExist, NEW c \in Conns, Running(c), NEW role \in {"user", "assistant"},
         Record(c, role)
  PROVE  LET o == h[c].u.object IN
         /\ objects' \in Seq(Seq(Turn)) /\ Len(objects') = Len(objects)
         /\ TurnOf(c, role) \in Turn
         /\ o \in 1 .. Len(objects) /\ objects[o] \in Seq(Turn) /\ Len(objects[o]) <= MaxHistory
         /\ objects'[o] = AddTurn(objects[o], TurnOf(c, role))
         /\ \A i \in 1 .. Len(objects) : i # o => objects'[i] = objects[i]
         /\ \A i \in 1 .. Len(objects) : Len(objects'[i]) <= MaxHistory
  <1> DEFINE o == h[c].u.object
             t == TurnOf(c, role)
             a == AddTurn(objects[o], t)
  <1>1. /\ objects \in Seq(Seq(Turn)) /\ o \in 1 .. Len(objects)
        /\ \A i \in 1 .. Len(objects) : Len(objects[i]) <= MaxHistory
    BY DEF TypeOK, RefsExist
  <1>2. t \in Turn
    BY DEF TurnOf, Turn, TypeOK, Utterance
  <1> HIDE DEF t
  <1>3. a \in Seq(Turn) /\ Len(a) <= MaxHistory /\ objects[o] \in Seq(Turn)
    <2>1. objects[o] \in Seq(Turn) /\ Len(objects[o]) <= MaxHistory
      BY <1>1
    <2> HIDE DEF o
    <2> QED
      BY <1>2, <2>1, AddTurnKeeps
  <1>4. objects' = [objects EXCEPT ![o] = a]
    BY Zenon DEF Record, t
  <1> HIDE DEF a, o
  <1>5. objects' \in Seq(Seq(Turn)) /\ Len(objects') = Len(objects)
        /\ \A i \in 1 .. Len(objects) : objects'[i] = IF i = o THEN a ELSE objects[i]
    BY <1>1, <1>3, <1>4
  <1> QED
    BY <1>1, <1>2, <1>3, <1>5, Zenon DEF a, o, t

\* No history grows beyond its bound, none is dropped.
LEMMA ObjectEffect ==
  ASSUME TypeOK, RefsExist, NEW c \in Conns, Running(c), OStep(c)
  PROVE  /\ objects' \in Seq(Seq(Turn)) /\ Len(objects') = Len(objects)
         /\ \A i \in 1 .. Len(objects) : Len(objects'[i]) <= MaxHistory
  <1>1. CASE objects' = objects
    BY <1>1 DEF TypeOK
  <1>2. CASE objects' # objects
    <2>1. PICK role \in {"user", "assistant"} : Record(c, role)
      BY <1>2 DEF OStep
    <2> QED
      BY <2>1, RecordEffect
  <1> QED
    BY <1>1, <1>2

\* A pipeline keeps its objects to its end, and no coroutine is born or ended.
LEMMA CoroutineEffect ==
  ASSUME TypeOK, NEW c \in Conns, Running(c), HStep(c)
  PROVE  \A d \in Conns :
            /\ h'[d].at \in PipelineAt =>
                  /\ Running(d)
                  /\ h'[d].u.machine = h[d].u.machine /\ h'[d].u.object = h[d].u.object
                  /\ h'[d].u.number = h[d].u.number
            /\ h'[d].u.sink # None => h'[d].u.sink = h[d].u.sink
            /\ h'[d].at \in {"unborn", "ended"} <=> h[d].at \in {"unborn", "ended"}
            /\ h'[d].at \in PipelineAt \/ h'[d].at = "receive" \/ d # c
  <1>1. h[c].u.number \in Nat
    BY DEF TypeOK, Utterance
  <1>2. NoUtterance(h[c].u.number).sink = None
    BY <1>1, NoUtteranceType, PipelinePoints
  <1>3. \A x \in PipelineAt : x \notin {"unborn", "ended", "receive"}
    BY PipelinePoints
  <1>4. CASE h'[c].at = "receive" /\ h'[c].u = NoUtterance(h[c].u.number)
    <2>1. h'[c].u.sink = None
      BY <1>2, <1>4
    <2> QED
      BY <1>3, <1>4, <2>1, Zenon DEF HStep, Running
  <1>5. CASE /\ h'[c].at \in PipelineAt
             /\ h'[c].u.number = h[c].u.number /\ h'[c].u.sources = h[c].u.sources
             /\ h'[c].u.machine = h[c].u.machine /\ h'[c].u.object = h[c].u.object
             /\ h'[c].u.sink = h[c].u.sink
    BY <1>3, <1>5, Zenon DEF HStep, Running
  <1> QED
    BY <1>4, <1>5 DEF HStep

\* A step of a pipeline keeps the invariant: the pipeline closes its own machine
\* before it leaves the points where its turn is open.
LEMMA PipelineKeeps ==
  ASSUME IInv, NEW c \in Conns, PipelineStep(c)
  PROVE  IInv'
  <1> DEFINE mine == h[c].u.machine
  <1>1. /\ TypeOK /\ vad \in VadType /\ RefsExist /\ OpenTurnsHaveOwners /\ MachinesKeptApart
        /\ CallbacksKeptApart /\ RoutedToOwnSession /\ NoPhantomSpeaker /\ NothingLeftBehind
        /\ NewAreNotServed
    BY DEF IInv
  <1>2. /\ Running(c) /\ HStep(c) /\ OStep(c) /\ BStep(c)
        /\ threads' \subseteq threads \cup {<<c, h[c].u.number>>}
        /\ client' = client /\ sent' = sent /\ inbox' = inbox /\ machineOf' = machineOf
        /\ objectOf' = objectOf /\ callbacks' = callbacks /\ vad' = vad /\ speakers' = speakers
    BY DEF PipelineStep, Running, clientVars, registry
  <1>3. PICK X \in {Closings(MachineOf(c)), Advanced(MachineOf(c))} :
          /\ MStep(c, X)
          /\ X = Closings(MachineOf(c)) \/ (h[c].at \in OpenAt /\ h'[c].at \in OpenAt)
    BY Zenon DEF PipelineStep
  <1>4. X \in SUBSET Advanced(MachineOf(c))
    BY DEF Closings
  <1>5. /\ machines' \in Seq(Machine) /\ Len(machines') = Len(machines)
        /\ \A i \in 1 .. Len(machines) :
              /\ machines'[i] \in Advanced(machines[i])
              /\ i # mine => machines'[i] = machines[i]
        /\ machines' = machines \/ machines'[mine] \in X
    BY <1>1, <1>2, <1>3, <1>4, MachineEffect, Zenon
  <1>6. /\ objects' \in Seq(Seq(Turn)) /\ Len(objects') = Len(objects)
        /\ \A i \in 1 .. Len(objects) : Len(objects'[i]) <= MaxHistory
    BY <1>1, <1>2, ObjectEffect
  <1>7. \A d \in Conns :
            /\ h'[d].at \in PipelineAt =>
                  /\ Running(d)
                  /\ h'[d].u.machine = h[d].u.machine /\ h'[d].u.object = h[d].u.object
                  /\ h'[d].u.number = h[d].u.number
            /\ h'[d].u.sink # None => h'[d].u.sink = h[d].u.sink
            /\ h'[d].at \in {"unborn", "ended"} <=> h[d].at \in {"unborn", "ended"}
            /\ h'[d].at \in PipelineAt \/ h'[d].at = "receive" \/ d # c
    BY <1>1, <1>2, CoroutineEffect
  <1>8. TypeOK' /\ (vad \in VadType)'
    <2>1. h' \in [Conns -> [at : At, u : Utterance]]
      BY <1>2 DEF HStep, CoroutineType
    <2>2. barge' \in BargeType
      <3>1. barge \in BargeType
        BY <1>1 DEF TypeOK, BargeType
      <3> QED
        BY <1>2, <3>1, BargeTypes, 0 \in Nat DEF BStep
    <2>3. threads' \subseteq Conns \X Nat
      BY <1>1, <1>2 DEF TypeOK, Utterance
    <2>4. /\ machineOf' \in [Sessions -> 0 .. Len(machines')]
          /\ objectOf' \in [Sessions -> 0 .. Len(objects')]
      BY <1>1, <1>2, <1>5, <1>6 DEF TypeOK
    <2>5. \A o \in DOMAIN objects' : Len(objects'[o]) <= MaxHistory
      BY <1>6
    <2> QED
      BY <1>1, <1>2, <1>5, <1>6, <2>1, <2>2, <2>3, <2>4, <2>5 DEF TypeOK, BargeType
  <1>9. RefsExist'
    BY <1>1, <1>5, <1>6, <1>7 DEF RefsExist, Running
  <1>10. OpenTurnsHaveOwners'
    <2> SUFFICES ASSUME NEW i \in 1 .. Len(machines)
                 PROVE  /\ machines'[i].state # "barge_in"
                        /\ \/ machines'[i].state \in {"idle", "ended"}
                           \/ \E d \in Conns : h'[d].at \in OpenAt /\ h'[d].u.machine = i
      BY <1>5 DEF OpenTurnsHaveOwners
    <2>1. machines'[i].state # "barge_in"
      BY <1>5 DEF Advanced, Working
    <2>2. CASE h'[c].at \in OpenAt /\ i = mine
      BY <1>7, <2>1, <2>2, PipelinePoints
    <2>3. CASE h'[c].at \notin OpenAt /\ i = mine /\ machines' # machines
      <3>1. machines'[i] \in Closings(MachineOf(c))
        BY <1>3, <1>5, <2>3
      <3> QED
        BY <2>1, <3>1 DEF Closings
    <2>4. CASE h'[c].at \notin OpenAt /\ i = mine /\ machines' = machines /\ h[c].at \in OpenAt
      <3>1. PICK x \in Closings(MachineOf(c)) : SetMachine(c, x)
        BY <2>4 DEF PipelineStep
      <3>2. machines'[i] = x
        <4>1. machines \in Seq(Machine)
          BY <1>1 DEF TypeOK
        <4> QED
          BY <2>4, <3>1, <4>1 DEF SetMachine
      <3> QED
        BY <2>1, <3>1, <3>2 DEF Closings
    <2>5. CASE machines'[i] = machines[i] /\ ~(h[c].at \in OpenAt /\ i = mine)
      <3>1. CASE machines[i].state \in {"idle", "ended"}
        BY <2>1, <2>5, <3>1
      <3>2. CASE machines[i].state \notin {"idle", "ended"}
        <4>1. PICK d \in Conns : h[d].at \in OpenAt /\ h[d].u.machine = i
          BY <1>1, <3>2 DEF OpenTurnsHaveOwners
        <4>2. d # c
          BY <2>5, <4>1
        <4>3. h'[d] = h[d]
          BY <1>2, <4>2 DEF HStep
        <4> QED
          BY <2>1, <4>1, <4>3
      <3> QED
        BY <3>1, <3>2
    <2> QED
      BY <1>5, <2>2, <2>3, <2>4, <2>5
  <1>11. MachinesKeptApart'
    <2>1. ASSUME NEW s \in Sessions, machineOf[s] # 0
          PROVE  machines'[machineOf[s]].state # "ended"
      <3>1. machineOf[s] \in 1 .. Len(machines)
        BY <1>1, <2>1 DEF TypeOK
      <3> QED
        BY <1>1, <1>5, <2>1, <3>1 DEF MachinesKeptApart, Advanced
    <2>2. ASSUME NEW d \in Conns, NEW s \in Sessions, h'[d].at \in PipelineAt,
                 machineOf[s] = h'[d].u.machine
          PROVE  s = SessionOf[d]
      BY <1>1, <1>7, <2>2 DEF MachinesKeptApart
    <2>3. \A s, t \in Sessions : machineOf[s] = machineOf[t] /\ machineOf[s] # 0 => s = t
      BY <1>1 DEF MachinesKeptApart
    <2> QED
      BY <1>2, <2>1, <2>2, <2>3 DEF MachinesKeptApart, Running
  <1>12. CallbacksKeptApart'
    BY <1>1, <1>2 DEF CallbacksKeptApart
  <1>13. RoutedToOwnSession'
    BY <1>1, <1>7 DEF RoutedToOwnSession
  <1>14. NoPhantomSpeaker'
    <2>1. CASE barge' = barge /\ h[c].at \notin PlayAt
      <3> SUFFICES ASSUME barge.speaking
                   PROVE  \E d \in Conns : h'[d].at \in PlayAt
        BY <2>1 DEF NoPhantomSpeaker
      <3>1. PICK d \in Conns : h[d].at \in PlayAt
        BY <1>1 DEF NoPhantomSpeaker
      <3>2. h'[d] = h[d]
        BY <1>2, <2>1, <3>1 DEF HStep
      <3> QED
        BY <3>1, <3>2
    <2>2. CASE \E on \in BOOLEAN : barge' = SetAgentSpeaking(barge, on)
                                   /\ (on => h'[c].at \in PlayAt)
      <3>1. PICK on \in BOOLEAN : barge' = SetAgentSpeaking(barge, on)
                                  /\ (on => h'[c].at \in PlayAt)
        BY <2>2
      <3>2. barge \in BargeType
        BY <1>1 DEF TypeOK, BargeType
      <3>3. barge'.speaking = on
        BY <3>1, <3>2, BargeTypes, 0 \in Nat
      <3> QED
        BY <3>1, <3>3 DEF NoPhantomSpeaker
    <2> QED
      BY <1>2, <2>1, <2>2 DEF BStep
  <1>15. NothingLeftBehind'
    BY <1>1, <1>2, <1>7 DEF NothingLeftBehind
  <1>16. NewAreNotServed'
    BY <1>1, <1>2, <1>7 DEF NewAreNotServed
  <1> QED
    BY <1>8, <1>9, <1>10, <1>11, <1>12, <1>13, <1>14, <1>15, <1>16, Zenon DEF IInv

-----------------------------------------------------------------------------
(* A frame *)

\* Only a machine that says its agent speaks is interrupted.
LEMMA NotInterrupted ==
  ASSUME NEW m, m.state # "speaking", NEW voiced, NEW passed
  PROVE  InterruptedBy(m, BargeInCheck(m, voiced, passed)) = m
  <1> DEFINE v == BargeInCheck(m, voiced, passed)
  <1>1. v.event = FALSE
    BY Zenon DEF BargeInCheck, Verdict
  <1> HIDE DEF v
  <1>2. InterruptedBy(m, v) = m
    BY <1>1, Zenon DEF InterruptedBy
  <1> QED
    BY <1>2 DEF v

\* The machine of the frame's session, made if the session has none.
FrameMachine(c) == IF machineOf[SessionOf[c]] = 0 THEN Len(machines) + 1
                   ELSE machineOf[SessionOf[c]]

\* What a frame does to the turn machines: it moves the one of its session, which
\* is at rest afterwards, or at work as before, unless the frame starts a pipeline.
FrameOnMachines(c) ==
    LET m == FrameMachine(c) IN
    /\ machines' \in Seq(Machine) /\ m \in 1 .. Len(machines')
    /\ Len(machines') = IF machineOf[SessionOf[c]] = 0 THEN Len(machines) + 1 ELSE Len(machines)
    /\ machineOf' = [machineOf EXCEPT ![SessionOf[c]] = m]
    /\ \A i \in 1 .. Len(machines) : i # m => machines'[i] = machines[i]
    /\ machines'[m].state \notin {"barge_in", "ended"}
    /\ \/ h' # h
       \/ machines'[m].state = "idle"
       \/ m \in 1 .. Len(machines) /\ machines[m].state \notin {"idle", "ended"}

\* What it does to the session objects: they stay, and a new one has no turns.
FrameOnObjects(c) ==
    LET s == SessionOf[c] IN
    \/ objects' = objects /\ objectOf' = objectOf /\ objectOf[s] # 0
    \/ /\ objects' = Append(objects, <<>>)
       /\ objectOf' = [objectOf EXCEPT ![s] = Len(objects) + 1]

\* A pipeline starts with the objects and the callbacks of its session, or nothing.
FrameOnCoroutine(c) ==
    LET s == SessionOf[c] IN
    \/ h' = h
    \/ \E v \in Utterance :
          /\ h' = [h EXCEPT ![c] = [at |-> "stt", u |-> v]]
          /\ v.number = h[c].u.number + 1
          /\ v.machine = machineOf'[s] /\ v.object = objectOf'[s] /\ v.sink = callbacks[s]

\* The effects of a frame, part by part.
LEMMA FrameEffect ==
  ASSUME IInv, NEW c \in Conns, NEW expired \in BOOLEAN, NEW passed \in {0, Cooldown},
         HandleFrame(c, expired, passed)
  PROVE  /\ h[c].at = "receive" /\ inbox' \in [Conns -> Seq(Frame)]
         /\ FrameOnMachines(c) /\ FrameOnObjects(c) /\ FrameOnCoroutine(c)
         /\ vad' \in VadType
         /\ barge' \in BargeType /\ barge'.speaking = barge.speaking
         /\ UNCHANGED <<client, sent, callbacks, threads, speakers>>
  <1> DEFINE s == SessionOf[c]
             f == Head(inbox[c])
             newObject == objectOf[s] = 0 \/ expired
             os == IF newObject THEN Append(objects, <<>>) ELSE objects
             o == IF newObject THEN Len(os) ELSE objectOf[s]
             newMachine == machineOf[s] = 0
             ms == IF newMachine THEN Append(machines, NewMachine) ELSE machines
             m == IF newMachine THEN Len(ms) ELSE machineOf[s]
             check == BargeInCheck(ms[m], f.voiced, passed)
             listening == InterruptedBy(ms[m], check)
             r == ProcessFrame(vad, s, f.voiced)
             complete == r.segment # NoSegment
             x == IF complete THEN SegmentComplete(listening) ELSE listening
             v == [number |-> h[c].u.number + 1, sources |-> Range(r.segment),
                   machine |-> m, object |-> o, sink |-> SinkFor(s), feature |-> "off"]
  <1>1. /\ TypeOK /\ vad \in VadType /\ OpenTurnsHaveOwners /\ MachinesKeptApart /\ RefsExist
    BY DEF IInv
  <1>2. /\ h[c].at = "receive" /\ inbox[c] # <<>>
        /\ inbox' = [inbox EXCEPT ![c] = Tail(@)]
        /\ objects' = os
        /\ objectOf' = [objectOf EXCEPT ![s] = o]
        /\ machines' = [ms EXCEPT ![m] = x]
        /\ machineOf' = [machineOf EXCEPT ![s] = m]
        /\ barge' = check.detector
        /\ vad' = r.vad
        /\ h' = IF complete THEN [h EXCEPT ![c] = [at |-> "stt", u |-> v]] ELSE h
        /\ UNCHANGED <<client, sent, callbacks, threads, speakers>>
    BY Zenon DEF HandleFrame, RunsAt
  <1>3. s \in Sessions
    BY VoiceAgentAssumption
  <1>4. inbox[c] \in Seq(Frame) /\ Tail(inbox[c]) \in Seq(Frame) /\ f.voiced \in BOOLEAN
    <2>1. inbox[c] \in Seq(Frame)
      BY <1>1 DEF TypeOK
    <2>2. f \in Frame /\ Tail(inbox[c]) \in Seq(Frame)
      BY <1>2, <2>1
    <2> HIDE DEF f
    <2>3. f.voiced \in BOOLEAN
      BY <2>2 DEF Frame
    <2> QED
      BY <2>1, <2>2, <2>3 DEF f
  <1>5. passed \in Nat
    BY BargeInAssumption
  <1>6. /\ ms \in Seq(Machine) /\ m \in 1 .. Len(ms) /\ m = FrameMachine(c)
        /\ Len(ms) = IF machineOf[s] = 0 THEN Len(machines) + 1 ELSE Len(machines)
        /\ \A i \in 1 .. Len(machines) : ms[i] = machines[i]
        /\ machineOf[s] = 0 => ms[m] = NewMachine
        /\ machineOf[s] # 0 => m \in 1 .. Len(machines) /\ m = machineOf[s]
    <2>1. machines \in Seq(Machine) /\ machineOf[s] \in 0 .. Len(machines) /\ NewMachine \in Machine
      BY <1>1, <1>3, OtherMachines DEF TypeOK, Working
    <2>2. CASE machineOf[s] = 0
      BY <2>1, <2>2 DEF FrameMachine
    <2>3. CASE machineOf[s] # 0
      BY <2>1, <2>3 DEF FrameMachine
    <2> QED
      BY <2>2, <2>3
  <1>7. /\ ms[m] \in Working /\ ms[m].state # "ended"
        /\ ms[m].state = "idle" \/ (m \in 1 .. Len(machines) /\ machines[m].state \notin {"idle", "ended"})
    <2>1. CASE machineOf[s] = 0
      BY <1>6, <2>1, OtherMachines
    <2>2. CASE machineOf[s] # 0
      <3>1. machines[m] \in Working /\ machines[m].state # "ended" /\ ms[m] = machines[m]
        BY <1>1, <1>3, <1>6, <2>2, OwnMachine DEF MachinesKeptApart
      <3> HIDE DEF ms, m
      <3> QED
        BY <1>6, <2>2, <3>1
    <2> QED
      BY <2>1, <2>2
  <1>8. /\ check.detector \in BargeType /\ check.detector.speaking = barge.speaking
    <2>1. barge \in BargeType
      BY <1>1 DEF TypeOK, BargeType
    <2> HIDE DEF ms, m, f
    <2> QED
      BY <1>4, <1>5, <2>1, CheckTypes
  <1>9. /\ listening \in Advanced(ms[m])
        /\ ms[m].state = "idle" => listening = ms[m]
    BY <1>7, InterruptHandler, NotInterrupted
  <1>10. r.vad \in VadType /\ r.segment \in Seq(Sessions)
    BY <1>1, <1>3, <1>4, VadTypes
  <1> HIDE DEF ms, m, check, r
  <1>11. x \in Advanced(ms[m]) /\ x \in Machine /\ (~complete => x = listening)
    <2>1. listening \in Working
      BY <1>9 DEF Advanced
    <2>2. SegmentComplete(listening) \in Advanced(listening)
      BY <2>1, FrameHandlers
    <2>3. SegmentComplete(listening) \in Advanced(ms[m])
      BY <1>9, <2>2 DEF Advanced
    <2>4. x \in Advanced(ms[m])
      BY <1>9, <2>3, Zenon
    <2> QED
      BY <2>4, Zenon DEF Advanced, Working
  <1> HIDE DEF listening, complete, x
  <1>12. FrameOnMachines(c)
    <2>1. machines' \in Seq(Machine) /\ Len(machines') = Len(ms)
          /\ \A i \in 1 .. Len(ms) : machines'[i] = IF i = m THEN x ELSE ms[i]
      BY <1>2, <1>6, <1>11
    <2>2. Len(machines) \in Nat /\ (\A i \in 1 .. Len(machines) : i \in 1 .. Len(ms))
      BY <1>1, <1>6 DEF TypeOK
    <2>3. machines'[m] = x /\ x.state \notin {"barge_in", "ended"}
      BY <1>6, <1>7, <1>11, <2>1 DEF Advanced, Working
    <2>4. h' = h => ~complete
      <3> SUFFICES ASSUME complete PROVE h' # h
        OBVIOUS
      <3>1. h \in [Conns -> CoroutineType]
        BY <1>1 DEF TypeOK, CoroutineType
      <3>2. h'[c] = [at |-> "stt", u |-> v]
        BY <1>2, <3>1
      <3> QED
        BY <1>2, <3>2
    <2>5. ~complete => \/ x.state = "idle"
                       \/ m \in 1 .. Len(machines) /\ machines[m].state \notin {"idle", "ended"}
      BY <1>7, <1>9, <1>11
    <2>6. \A i \in 1 .. Len(machines) : i # m => machines'[i] = machines[i]
      BY <1>6, <2>1, <2>2
    <2>7. m \in 1 .. Len(machines')
          /\ Len(machines') = IF machineOf[s] = 0 THEN Len(machines) + 1 ELSE Len(machines)
      BY <1>6, <2>1
    <2>8. m = FrameMachine(c) /\ machineOf' = [machineOf EXCEPT ![s] = m]
      BY <1>2, <1>6
    <2> HIDE DEF v, o
    <2> QED
      BY <2>1, <2>3, <2>4, <2>5, <2>6, <2>7, <2>8 DEF FrameOnMachines
  <1>13. FrameOnObjects(c)
    <2>1. objects \in Seq(Seq(Turn)) /\ objectOf \in [Sessions -> 0 .. Len(objects)]
      BY <1>1 DEF TypeOK
    <2>2. CASE newObject
      <3>1. os = Append(objects, <<>>) /\ o = Len(os)
        BY <2>2
      <3>2. Len(os) = Len(objects) + 1
        BY <2>1, <3>1
      <3> HIDE DEF os, o
      <3> QED
        BY <1>2, <3>1, <3>2 DEF FrameOnObjects
    <2>3. CASE ~newObject
      <3>1. os = objects /\ o = objectOf[s] /\ objectOf[s] # 0
        BY <2>3
      <3> HIDE DEF os, o
      <3>2. objectOf' = objectOf
        BY <1>2, <2>1, <3>1
      <3> QED
        BY <1>2, <3>1, <3>2 DEF FrameOnObjects
    <2> QED
      BY <2>2, <2>3
  <1>14. FrameOnCoroutine(c)
    <2>1. CASE ~complete
      BY <1>2, <2>1 DEF FrameOnCoroutine
    <2>2. CASE complete
      <3>1. machineOf'[s] = m /\ objectOf'[s] = o
        BY <1>1, <1>2, <1>3 DEF TypeOK
      <3>2. v.number = h[c].u.number + 1 /\ v.machine = m /\ v.object = o /\ v.sink = callbacks[s]
        BY DEF SinkFor
      <3>3. v \in Utterance
        <4>1. h[c].u.number + 1 \in Nat
          BY <1>1 DEF TypeOK, Utterance
        <4>2. Range(r.segment) \in SUBSET Sessions
          BY <1>10 DEF Range
        <4>3. m \in Nat
          BY <1>6
        <4>4. o \in Nat
          BY <1>1, <1>3 DEF TypeOK
        <4>5. SinkFor(s) \in Conns \cup {None}
          BY <1>1, <1>3 DEF TypeOK, SinkFor
        <4> HIDE DEF o
        <4> QED
          BY <4>1, <4>2, <4>3, <4>4, <4>5 DEF Utterance
      <3> HIDE DEF v, o
      <3> QED
        BY <1>2, <2>2, <3>1, <3>2, <3>3 DEF FrameOnCoroutine
    <2> QED
      BY <2>1, <2>2
  <1>15. inbox' \in [Conns -> Seq(Frame)]
    BY <1>1, <1>2, <1>4 DEF TypeOK
  <1> QED
    BY <1>2, <1>8, <1>10, <1>12, <1>13, <1>14, <1>15

\* The coroutines beside that of a frame stand where they stood.
LEMMA FrameCoroutines ==
  ASSUME TypeOK, NEW c \in Conns, h[c].at = "receive", FrameOnCoroutine(c)
  PROVE  /\ h' \in [Conns -> CoroutineType]
         /\ \A d \in Conns : d # c => h'[d] = h[d]
         /\ \/ h'[c] = h[c]
            \/ /\ h'[c].at = "stt" /\ h'[c].u.number = h[c].u.number + 1
               /\ h'[c].u.machine = machineOf'[SessionOf[c]]
               /\ h'[c].u.object = objectOf'[SessionOf[c]]
               /\ h'[c].u.sink = callbacks[SessionOf[c]]
         /\ \A d \in Conns : /\ h[d].at \in PipelineAt => h'[d] = h[d]
                             /\ h'[d].at \in {"unborn", "ended"} <=> h[d].at \in {"unborn", "ended"}
  <1>1. h \in [Conns -> CoroutineType]
    BY DEF TypeOK, CoroutineType
  <1>2. CASE h' = h
    BY <1>1, <1>2
  <1>3. CASE h' # h
    <2>1. PICK v \in Utterance :
            /\ h' = [h EXCEPT ![c] = [at |-> "stt", u |-> v]]
            /\ v.number = h[c].u.number + 1
            /\ v.machine = machineOf'[SessionOf[c]] /\ v.object = objectOf'[SessionOf[c]]
            /\ v.sink = callbacks[SessionOf[c]]
      BY <1>3 DEF FrameOnCoroutine
    <2> DEFINE k == [at |-> "stt", u |-> v]
    <2>2. k \in CoroutineType /\ k.at = "stt" /\ k.u = v
      BY DEF CoroutineType, At, PipelineAt
    <2> HIDE DEF k
    <2>3. /\ h' \in [Conns -> CoroutineType] /\ h'[c] = k
          /\ \A d \in Conns : d # c => h'[d] = h[d]
      BY <1>1, <2>1, <2>2 DEF k
    <2>4. h'[c].at = "stt" /\ h'[c].u = v
      BY <2>2, <2>3, Zenon
    <2>5. \A d \in Conns : h[d].at \in PipelineAt => d # c
      BY PipelinePoints
    <2> HIDE <2>1
    <2> QED
      BY <2>1, <2>3, <2>4, <2>5
  <1> QED
    BY <1>2, <1>3

\* A frame keeps the invariant: the machine it makes is new, the one it finds is
\* its session's alone.
LEMMA FrameKeeps ==
  ASSUME IInv, NEW c \in Conns, NEW expired \in BOOLEAN, NEW passed \in {0, Cooldown},
         HandleFrame(c, expired, passed)
  PROVE  IInv'
  <1> DEFINE s == SessionOf[c]
             m == FrameMachine(c)
  <1>1. /\ TypeOK /\ vad \in VadType /\ RefsExist /\ OpenTurnsHaveOwners /\ MachinesKeptApart
        /\ CallbacksKeptApart /\ RoutedToOwnSession /\ NoPhantomSpeaker /\ NothingLeftBehind
        /\ NewAreNotServed
    BY DEF IInv
  <1>2. /\ h[c].at = "receive" /\ inbox' \in [Conns -> Seq(Frame)]
        /\ FrameOnMachines(c) /\ FrameOnObjects(c) /\ FrameOnCoroutine(c)
        /\ vad' \in VadType
        /\ barge' \in BargeType /\ barge'.speaking = barge.speaking
        /\ UNCHANGED <<client, sent, callbacks, threads, speakers>>
    BY FrameEffect
  <1>3. s \in Sessions
    BY VoiceAgentAssumption
  <1>4. /\ h' \in [Conns -> CoroutineType]
        /\ \A d \in Conns : d # c => h'[d] = h[d]
        /\ \/ h'[c] = h[c]
           \/ /\ h'[c].at = "stt" /\ h'[c].u.number = h[c].u.number + 1
              /\ h'[c].u.machine = machineOf'[s]
              /\ h'[c].u.object = objectOf'[s]
              /\ h'[c].u.sink = callbacks[s]
        /\ \A d \in Conns : /\ h[d].at \in PipelineAt => h'[d] = h[d]
                            /\ h'[d].at \in {"unborn", "ended"} <=> h[d].at \in {"unborn", "ended"}
    BY <1>1, <1>2, FrameCoroutines
  <1>5. /\ machines' \in Seq(Machine) /\ m \in 1 .. Len(machines')
        /\ Len(machines') = IF machineOf[s] = 0 THEN Len(machines) + 1 ELSE Len(machines)
        /\ machineOf' = [machineOf EXCEPT ![s] = m]
        /\ \A i \in 1 .. Len(machines) : i # m => machines'[i] = machines[i]
        /\ machines'[m].state \notin {"barge_in", "ended"}
        /\ \/ h' # h
           \/ machines'[m].state = "idle"
           \/ m \in 1 .. Len(machines) /\ machines[m].state \notin {"idle", "ended"}
    BY <1>2 DEF FrameOnMachines
  <1>6. /\ machines \in Seq(Machine) /\ Len(machines) \in Nat
        /\ machineOf \in [Sessions -> 0 .. Len(machines)]
        /\ m = IF machineOf[s] = 0 THEN Len(machines) + 1 ELSE machineOf[s]
    BY <1>1 DEF TypeOK, FrameMachine
  <1> HIDE DEF m
  <1>7. /\ Len(machines) <= Len(machines')
        /\ 1 .. Len(machines') = 1 .. Len(machines) \cup {m}
        /\ machineOf' \in [Sessions -> 0 .. Len(machines')]
        /\ machineOf'[s] = m /\ \A t \in Sessions : t # s => machineOf'[t] = machineOf[t]
    <2>1. CASE machineOf[s] = 0
      BY <1>3, <1>5, <1>6, <2>1
    <2>2. CASE machineOf[s] # 0
      BY <1>3, <1>5, <1>6, <2>2
    <2> QED
      BY <2>1, <2>2
  <1>8. /\ objects' \in Seq(Seq(Turn)) /\ Len(objects) <= Len(objects')
        /\ \A o \in DOMAIN objects' : Len(objects'[o]) <= MaxHistory
        /\ objectOf' \in [Sessions -> 0 .. Len(objects')]
        /\ objectOf'[s] # 0 /\ \A t \in Sessions : t # s => objectOf'[t] = objectOf[t]
    <2>1. /\ objects \in Seq(Seq(Turn)) /\ Len(objects) \in Nat
          /\ objectOf \in [Sessions -> 0 .. Len(objects)]
          /\ \A o \in DOMAIN objects : Len(objects[o]) <= MaxHistory
      BY <1>1 DEF TypeOK
    <2>2. CASE objects' = objects /\ objectOf' = objectOf /\ objectOf[s] # 0
      BY <2>1, <2>2
    <2>3. CASE objects' = Append(objects, <<>>)
               /\ objectOf' = [objectOf EXCEPT ![s] = Len(objects) + 1]
      <3> DEFINE e == <<>>
      <3>1. e \in Seq(Turn) /\ Len(e) <= MaxHistory
        BY VoiceAgentAssumption
      <3>2. objects' = Append(objects, e)
        BY <2>3
      <3> HIDE DEF e
      <3>3. objects' \in Seq(Seq(Turn)) /\ Len(objects') = Len(objects) + 1
            /\ \A o \in 1 .. Len(objects') : objects'[o] = IF o = Len(objects) + 1 THEN e ELSE objects[o]
        BY <2>1, <3>1, <3>2
      <3>4. \A o \in DOMAIN objects' : Len(objects'[o]) <= MaxHistory
        <4> SUFFICES ASSUME NEW o \in 1 .. Len(objects')
                     PROVE  Len(objects'[o]) <= MaxHistory
          BY <3>3
        <4>1. CASE o = Len(objects) + 1
          BY <3>1, <3>3, <4>1
        <4>2. CASE o # Len(objects) + 1
          <5>1. o \in 1 .. Len(objects) /\ o \in DOMAIN objects
            BY <2>1, <3>3, <4>2
          <5>2. objects'[o] = objects[o]
            BY <3>3, <4>2
          <5> QED
            BY <2>1, <5>1, <5>2, Zenon
        <4> QED
          BY <4>1, <4>2
      <3> QED
        BY <1>3, <2>1, <2>3, <3>3, <3>4
    <2> QED
      BY <1>2, <2>2, <2>3 DEF FrameOnObjects
  <1>9. TypeOK'
    <2>1. /\ client' \in [Conns -> {"new", "open", "gone"}] /\ sent' \in [Conns -> 0 .. MaxFrames]
          /\ callbacks' \in [Sessions -> Conns \cup {None}]
          /\ threads' \subseteq Conns \X Nat /\ speakers' \subseteq Sessions
      BY <1>1, <1>2 DEF TypeOK
    <2>2. vad'.buffer \in Seq(Sessions) /\ vad'.preRoll \in Seq(Sessions)
      BY <1>2 DEF VadType
    <2>3. h' \in [Conns -> [at : At, u : Utterance]]
      BY <1>4 DEF CoroutineType
    <2>4. barge' \in [speaking : BOOLEAN, count : 0 .. BargeInFrames - 1, quiet : 0 .. Cooldown]
      BY <1>2 DEF BargeType
    <2> QED
      BY <1>2, <1>5, <1>7, <1>8, <2>1, <2>2, <2>3, <2>4, Zenon DEF TypeOK
  <1>10. RefsExist'
    <2>1. ASSUME NEW d \in Conns, h'[d].at \in PipelineAt
          PROVE  h'[d].u.machine \in 1 .. Len(machines') /\ h'[d].u.object \in 1 .. Len(objects')
      <3>1. CASE h'[d] = h[d]
        <4>1. h[d].u.machine \in 1 .. Len(machines) /\ h[d].u.object \in 1 .. Len(objects)
          BY <1>1, <2>1, <3>1 DEF RefsExist, Running
        <4>2. Len(objects) \in Nat /\ Len(objects') \in Nat /\ Len(machines') \in Nat
          <5>1. objects \in Seq(Seq(Turn)) /\ objects' \in Seq(Seq(Turn)) /\ machines' \in Seq(Machine)
            BY <1>1, <1>5, <1>8, Zenon DEF TypeOK
          <5> HIDE DEF m
          <5> QED
            BY ONLY <5>1
        <4> QED
          BY <1>6, <1>7, <1>8, <3>1, <4>1, <4>2
      <3>2. CASE h'[d] # h[d]
        <4>1. h'[d].u.machine = m /\ h'[d].u.object = objectOf'[s]
          BY <1>4, <1>7, <3>2
        <4> QED
          BY <1>3, <1>5, <1>8, <4>1
      <3> QED
        BY <3>1, <3>2
    <2> QED
      BY <2>1 DEF RefsExist, Running
  <1>11. OpenTurnsHaveOwners'
    <2> SUFFICES ASSUME NEW i \in 1 .. Len(machines')
                 PROVE  /\ machines'[i].state # "barge_in"
                        /\ \/ machines'[i].state \in {"idle", "ended"}
                           \/ \E d \in Conns : h'[d].at \in OpenAt /\ h'[d].u.machine = i
      BY DEF OpenTurnsHaveOwners
    <2>1. ASSUME NEW j \in 1 .. Len(machines), machines[j].state \notin {"idle", "ended"}
          PROVE  \E d \in Conns : h'[d].at \in OpenAt /\ h'[d].u.machine = j
      <3>1. PICK d \in Conns : h[d].at \in OpenAt /\ h[d].u.machine = j
        BY <1>1, <2>1 DEF OpenTurnsHaveOwners
      <3>2. h'[d] = h[d]
        BY <1>4, <3>1, PipelinePoints
      <3> QED
        BY <3>1, <3>2
    <2>2. CASE i # m
      <3>1. i \in 1 .. Len(machines) /\ machines'[i] = machines[i]
        BY <1>5, <1>7, <2>2
      <3> QED
        BY <1>1, <2>1, <3>1 DEF OpenTurnsHaveOwners
    <2>3. CASE i = m /\ h' # h
      <3>1. h'[c] # h[c]
        BY <1>1, <1>4, <2>3 DEF TypeOK, CoroutineType
      <3>2. h'[c].at \in OpenAt /\ h'[c].u.machine = m
        BY <1>4, <1>7, <3>1 DEF OpenAt
      <3> QED
        BY <1>5, <2>3, <3>2
    <2>4. CASE i = m /\ h' = h
      BY <1>5, <2>1, <2>4
    <2> QED
      BY <2>2, <2>3, <2>4
  <1>12. MachinesKeptApart'
    <2>1. ASSUME NEW t \in Sessions, machineOf'[t] # 0
          PROVE  machines'[machineOf'[t]].state # "ended"
      <3>1. CASE machineOf'[t] = m
        BY <1>5, <3>1
      <3>2. CASE machineOf'[t] # m
        <4>1. t # s /\ machineOf'[t] = machineOf[t] /\ machineOf[t] \in 1 .. Len(machines)
          BY <1>6, <1>7, <2>1, <3>2
        <4>2. machines[machineOf[t]].state # "ended"
          BY <1>1, <4>1, <2>1 DEF MachinesKeptApart
        <4> QED
          BY <1>5, <3>2, <4>1, <4>2
      <3> QED
        BY <3>1, <3>2
    <2>2. \A t \in Sessions : t # s => machineOf[t] # m
      BY <1>1, <1>3, <1>6 DEF MachinesKeptApart
    <2>3. ASSUME NEW t \in Sessions, NEW q \in Sessions, machineOf'[t] = machineOf'[q], machineOf'[t] # 0
          PROVE  t = q
      BY <1>1, <1>3, <1>7, <2>2, <2>3 DEF MachinesKeptApart
    <2>4. ASSUME NEW d \in Conns, NEW t \in Sessions, h'[d].at \in PipelineAt,
                 machineOf'[t] = h'[d].u.machine
          PROVE  t = SessionOf[d]
      <3>1. CASE h'[d] = h[d]
        <4>1. h[d].u.machine \in 1 .. Len(machines)
          BY <1>1, <2>4, <3>1 DEF RefsExist, Running
        <4>2. CASE t # s
          <5>1. machineOf[t] = h[d].u.machine
            BY <1>7, <2>4, <3>1, <4>2
          <5> QED
            BY <1>1, <2>4, <3>1, <5>1 DEF MachinesKeptApart, Running
        <4>3. CASE t = s
          <5>1. m = h[d].u.machine
            BY <1>7, <2>4, <3>1, <4>3
          <5>2. machineOf[s] = h[d].u.machine
            BY <1>6, <4>1, <5>1
          <5> QED
            BY <1>1, <1>3, <2>4, <3>1, <4>3, <5>2 DEF MachinesKeptApart, Running
        <4> QED
          BY <4>2, <4>3
      <3>2. CASE h'[d] # h[d]
        <4>1. d = c /\ h'[c].u.machine = m
          BY <1>4, <1>7, <3>2
        <4> QED
          BY <1>7, <2>2, <2>4, <4>1
      <3> QED
        BY <3>1, <3>2
    <2> QED
      BY <2>1, <2>3, <2>4 DEF MachinesKeptApart, Running
  <1>13. CallbacksKeptApart'
    BY <1>1, <1>2 DEF CallbacksKeptApart
  <1>14. RoutedToOwnSession'
    <2> SUFFICES ASSUME NEW d \in Conns, h'[d].u.sink # None
                 PROVE  SessionOf[h'[d].u.sink] = SessionOf[d]
      BY DEF RoutedToOwnSession
    <2>1. CASE h'[d] = h[d]
      BY <1>1, <2>1 DEF RoutedToOwnSession
    <2>2. CASE h'[d] # h[d]
      <3>1. d = c /\ h'[c].u.sink = callbacks[s]
        BY <1>4, <2>2
      <3> QED
        BY <1>1, <1>3, <3>1 DEF CallbacksKeptApart
    <2> QED
      BY <2>1, <2>2
  <1>15. NoPhantomSpeaker'
    <2> SUFFICES ASSUME barge.speaking
                 PROVE  \E d \in Conns : h'[d].at \in PlayAt
      BY <1>2 DEF NoPhantomSpeaker
    <2>1. PICK d \in Conns : h[d].at \in PlayAt
      BY <1>1 DEF NoPhantomSpeaker
    <2>2. h'[d] = h[d]
      BY <1>4, <2>1, PipelinePoints
    <2> QED
      BY <2>1, <2>2
  <1>16. NothingLeftBehind'
    <2> SUFFICES ASSUME NEW t \in Sessions,
                        \A d \in Conns : SessionOf[d] = t => h'[d].at \in {"unborn", "ended"}
                 PROVE  machineOf'[t] = 0 /\ objectOf'[t] = 0 /\ callbacks[t] = None
      BY <1>2 DEF NothingLeftBehind
    <2>1. \A d \in Conns : SessionOf[d] = t => h[d].at \in {"unborn", "ended"}
      BY <1>4
    <2>2. t # s
      BY <1>2, <2>1
    <2> QED
      BY <1>1, <1>7, <1>8, <2>1, <2>2 DEF NothingLeftBehind
  <1>17. NewAreNotServed'
    BY <1>1, <1>2, <1>4 DEF NewAreNotServed
  <1> QED
    BY <1>2, <1>17, <1>9, <1>10, <1>11, <1>12, <1>13, <1>14, <1>15, <1>16, Zenon DEF IInv

-----------------------------------------------------------------------------
(* The end of a connection, its beginning, and what happens beside the coroutines *)

\* The end of a connection keeps the invariant: the machine that ends is no longer
\* registered, and its session's entries are gone.
LEMMA EndKeeps ==
  ASSUME IInv, NEW c \in Conns, h[c].at \in {"receive", "featureWait"}, EndSession(c)
  PROVE  IInv'
  <1> DEFINE s == SessionOf[c]
             m == machineOf[s]
  <1>1. /\ TypeOK /\ vad \in VadType /\ RefsExist /\ OpenTurnsHaveOwners /\ MachinesKeptApart
        /\ CallbacksKeptApart /\ RoutedToOwnSession /\ NoPhantomSpeaker /\ NothingLeftBehind
        /\ NewAreNotServed
    BY DEF IInv
  <1>2. /\ EndMachine(s)
        /\ speakers' = speakers \ {s}
        /\ callbacks' = [callbacks EXCEPT ![s] = None]
        /\ objectOf' = [objectOf EXCEPT ![s] = 0]
        /\ vad' = VadReset
        /\ barge' = DetectorReset
        /\ h' = [h EXCEPT ![c] = [at |-> "ended", u |-> NoUtterance(h[c].u.number)]]
        /\ client' = client /\ sent' = sent /\ inbox' = inbox
        /\ objects' = objects /\ threads' = threads
    BY DEF EndSession, clientVars
  <1>3. s \in Sessions
    BY VoiceAgentAssumption
  <1>4. /\ machines \in Seq(Machine) /\ Len(machines) \in Nat
        /\ machineOf \in [Sessions -> 0 .. Len(machines)] /\ m \in 0 .. Len(machines)
    BY <1>1, <1>3 DEF TypeOK
  <1>5. /\ machines' \in Seq(Machine) /\ Len(machines') = Len(machines)
        /\ \A i \in 1 .. Len(machines) : i # m => machines'[i] = machines[i]
        /\ m # 0 => machines'[m].state = "ended"
        /\ machineOf' = [machineOf EXCEPT ![s] = 0]
    <2>1. CASE m = 0
      <3>1. machines' = machines /\ machineOf' = machineOf
        BY <1>2, <2>1 DEF EndMachine
      <3> QED
        BY <1>3, <1>4, <2>1, <3>1
    <2>2. CASE m # 0
      <3> DEFINE x == OnSessionEnd(machines[m])
      <3>1. machines' = [machines EXCEPT ![m] = x] /\ machineOf' = [machineOf EXCEPT ![s] = 0]
        BY <1>2, <2>2, Zenon DEF EndMachine
      <3>2. m \in 1 .. Len(machines) /\ machines[m] \in Working
        BY <1>1, <1>4, <2>2, OwnMachine
      <3>3. x \in Machine /\ x.state = "ended"
        BY <3>2, OtherMachines DEF Working
      <3> HIDE DEF x, m
      <3> QED
        BY <1>4, <3>1, <3>2, <3>3
    <2> QED
      BY <2>1, <2>2
  <1> HIDE DEF m
  <1>6. /\ h' \in [Conns -> CoroutineType]
        /\ \A d \in Conns : d # c => h'[d] = h[d]
        /\ h'[c].at = "ended" /\ h'[c].u.sink = None
        /\ h[c].at \notin OpenAt /\ h[c].at \notin {"unborn", "ended"}
    <2> DEFINE k == [at |-> "ended", u |-> NoUtterance(h[c].u.number)]
    <2>1. h \in [Conns -> CoroutineType] /\ h[c].u.number \in Nat
      BY <1>1 DEF TypeOK, CoroutineType, Utterance
    <2>2. k \in CoroutineType /\ k.at = "ended" /\ k.u.sink = None
      BY <2>1, NoUtteranceType, PipelinePoints
    <2>3. h' = [h EXCEPT ![c] = k]
      BY <1>2
    <2>4. h[c].at \notin OpenAt /\ h[c].at \notin {"unborn", "ended"}
      BY DEF OpenAt
    <2> HIDE DEF k
    <2>5. h' \in [Conns -> CoroutineType] /\ h'[c] = k
          /\ \A d \in Conns : d # c => h'[d] = h[d]
      BY <2>1, <2>2, <2>3
    <2> QED
      BY <2>2, <2>4, <2>5, Zenon
  <1>7. \A d \in Conns : h'[d].at \in PipelineAt => d # c /\ h[d].at \in PipelineAt /\ h'[d] = h[d]
    BY <1>6, PipelinePoints
  <1>8. machineOf'[s] = 0 /\ (\A t \in Sessions : t # s => machineOf'[t] = machineOf[t])
        /\ machineOf' \in [Sessions -> 0 .. Len(machines')]
    BY <1>3, <1>4, <1>5
  <1>9. TypeOK' /\ (vad \in VadType)'
    <2>1. vad' \in VadType /\ vad'.buffer \in Seq(Sessions) /\ vad'.preRoll \in Seq(Sessions)
      <3>1. <<>> \in Seq(Sessions)
        OBVIOUS
      <3> QED
        BY <1>2, <3>1 DEF VadReset, VadType
    <2>2. barge' \in [speaking : BOOLEAN, count : 0 .. BargeInFrames - 1, quiet : 0 .. Cooldown]
      BY <1>2, BargeInAssumption DEF DetectorReset
    <2>3. objectOf' \in [Sessions -> 0 .. Len(objects')]
      <3>1. objectOf \in [Sessions -> 0 .. Len(objects)] /\ objects \in Seq(Seq(Turn))
        BY <1>1 DEF TypeOK
      <3>2. 0 \in 0 .. Len(objects)
        BY <3>1
      <3> QED
        BY <1>2, <3>1, <3>2
    <2>4. /\ callbacks' \in [Sessions -> Conns \cup {None}]
          /\ threads' \subseteq Conns \X Nat /\ speakers' \subseteq Sessions
      BY <1>1, <1>2 DEF TypeOK
    <2>5. h' \in [Conns -> [at : At, u : Utterance]]
      BY <1>6 DEF CoroutineType
    <2>6. /\ client' \in [Conns -> {"new", "open", "gone"}] /\ sent' \in [Conns -> 0 .. MaxFrames]
          /\ inbox' \in [Conns -> Seq(Frame)] /\ objects' \in Seq(Seq(Turn))
          /\ \A o \in DOMAIN objects' : Len(objects'[o]) <= MaxHistory
      BY <1>1, <1>2 DEF TypeOK
    <2> QED
      BY <1>5, <1>8, <2>1, <2>2, <2>3, <2>4, <2>5, <2>6, Zenon DEF TypeOK
  <1>10. RefsExist'
    BY <1>1, <1>2, <1>5, <1>7 DEF RefsExist, Running
  <1>11. OpenTurnsHaveOwners'
    <2> SUFFICES ASSUME NEW i \in 1 .. Len(machines)
                 PROVE  /\ machines'[i].state # "barge_in"
                        /\ \/ machines'[i].state \in {"idle", "ended"}
                           \/ \E d \in Conns : h'[d].at \in OpenAt /\ h'[d].u.machine = i
      BY <1>5 DEF OpenTurnsHaveOwners
    <2>1. CASE i = m
      BY <1>5, <2>1
    <2>2. CASE i # m
      <3>1. machines'[i] = machines[i] /\ machines[i].state # "barge_in"
        BY <1>1, <1>5, <2>2 DEF OpenTurnsHaveOwners
      <3>2. CASE machines[i].state \in {"idle", "ended"}
        BY <3>1, <3>2
      <3>3. CASE machines[i].state \notin {"idle", "ended"}
        <4>1. PICK d \in Conns : h[d].at \in OpenAt /\ h[d].u.machine = i
          BY <1>1, <3>3 DEF OpenTurnsHaveOwners
        <4>2. h'[d] = h[d]
          BY <1>6, <4>1
        <4> QED
          BY <3>1, <4>1, <4>2
      <3> QED
        BY <3>2, <3>3
    <2> QED
      BY <2>1, <2>2
  <1>12. MachinesKeptApart'
    <2>1. ASSUME NEW t \in Sessions, machineOf'[t] # 0
          PROVE  t # s /\ machineOf'[t] = machineOf[t] /\ machines'[machineOf'[t]].state # "ended"
      <3>1. t # s /\ machineOf'[t] = machineOf[t] /\ machineOf[t] \in 1 .. Len(machines)
        BY <1>4, <1>8, <2>1
      <3>2. machineOf[t] # m /\ machines[machineOf[t]].state # "ended"
        BY <1>1, <1>3, <2>1, <3>1 DEF MachinesKeptApart, m
      <3> QED
        BY <1>5, <3>1, <3>2
    <2>2. ASSUME NEW t \in Sessions, NEW q \in Sessions, machineOf'[t] = machineOf'[q], machineOf'[t] # 0
          PROVE  t = q
      <3>1. machineOf[t] = machineOf[q] /\ machineOf[t] # 0
        BY <2>1, <2>2
      <3> QED
        BY <1>1, <3>1 DEF MachinesKeptApart
    <2>3. ASSUME NEW d \in Conns, NEW t \in Sessions, h'[d].at \in PipelineAt,
                 machineOf'[t] = h'[d].u.machine
          PROVE  t = SessionOf[d]
      <3>1. Running(d) /\ h'[d] = h[d] /\ h[d].u.machine # 0
        BY <1>1, <1>7, <2>3 DEF RefsExist, Running
      <3>2. machineOf[t] = h[d].u.machine
        BY <2>1, <2>3, <3>1
      <3> QED
        BY <1>1, <3>1, <3>2 DEF MachinesKeptApart
    <2> QED
      BY <2>1, <2>2, <2>3 DEF MachinesKeptApart, Running
  <1>13. CallbacksKeptApart'
    BY <1>1, <1>2, <1>3 DEF CallbacksKeptApart, TypeOK
  <1>14. RoutedToOwnSession'
    BY <1>1, <1>6 DEF RoutedToOwnSession
  <1>15. NoPhantomSpeaker'
    BY <1>2 DEF NoPhantomSpeaker, DetectorReset
  <1>16. NothingLeftBehind'
    <2> SUFFICES ASSUME NEW t \in Sessions,
                        \A d \in Conns : SessionOf[d] = t => h'[d].at \in {"unborn", "ended"}
                 PROVE  machineOf'[t] = 0 /\ objectOf'[t] = 0 /\ callbacks'[t] = None
      BY DEF NothingLeftBehind
    <2>1. CASE t = s
      BY <1>1, <1>2, <1>8, <2>1 DEF TypeOK
    <2>2. CASE t # s
      <3>1. \A d \in Conns : SessionOf[d] = t => h[d].at \in {"unborn", "ended"}
        BY <1>6, <2>2
      <3>2. machineOf[t] = 0 /\ objectOf[t] = 0 /\ callbacks[t] = None
        BY <1>1, <3>1 DEF NothingLeftBehind
      <3> QED
        BY <1>1, <1>2, <1>8, <2>2, <3>2 DEF TypeOK
    <2> QED
      BY <2>1, <2>2
  <1>17. NewAreNotServed'
    BY <1>1, <1>2, <1>6 DEF NewAreNotServed
  <1> QED
    BY <1>9, <1>10, <1>11, <1>12, <1>13, <1>14, <1>15, <1>16, <1>17, Zenon DEF IInv

\* A connection is made: its callbacks replace those of the session's last one.
LEMMA ConnectKeeps ==
  ASSUME IInv, NEW c \in Conns, Connect(c)
  PROVE  IInv'
  <1>1. /\ TypeOK /\ vad \in VadType /\ RefsExist /\ OpenTurnsHaveOwners /\ MachinesKeptApart
        /\ CallbacksKeptApart /\ RoutedToOwnSession /\ NoPhantomSpeaker /\ NothingLeftBehind
        /\ NewAreNotServed
    BY DEF IInv
  <1>2. /\ client[c] = "new"
        /\ client' = [client EXCEPT ![c] = "open"]
        /\ h' = [h EXCEPT ![c].at = "receive"]
        /\ callbacks' = [callbacks EXCEPT ![SessionOf[c]] = c]
        /\ sent' = sent /\ inbox' = inbox /\ machines' = machines /\ objects' = objects
        /\ machineOf' = machineOf /\ objectOf' = objectOf /\ vad' = vad /\ barge' = barge
        /\ threads' = threads /\ speakers' = speakers
    BY DEF Connect
  <1>3. /\ h' \in [Conns -> CoroutineType]
        /\ \A d \in Conns : d # c => h'[d] = h[d]
        /\ h'[c].at = "receive" /\ h'[c].u = h[c].u
        /\ h[c].at \in {"unborn", "ended"}
    <2> DEFINE k == [at |-> "receive", u |-> h[c].u]
    <2>1. h \in [Conns -> CoroutineType]
      BY <1>1 DEF TypeOK, CoroutineType
    <2>2. k \in CoroutineType /\ k.at = "receive" /\ k.u = h[c].u
      BY <2>1, PipelinePoints DEF CoroutineType
    <2>3. [h[c] EXCEPT !.at = "receive"] = k
      BY <2>1 DEF CoroutineType
    <2> HIDE DEF k
    <2>4. h' = [h EXCEPT ![c] = [h[c] EXCEPT !.at = "receive"]]
      BY <1>2, Zenon
    <2>5. h' = [h EXCEPT ![c] = k]
      BY <2>3, <2>4, Zenon
    <2>6. h' \in [Conns -> CoroutineType] /\ h'[c] = k
          /\ \A d \in Conns : d # c => h'[d] = h[d]
      BY <2>1, <2>2, <2>5
    <2>7. h[c].at \in {"unborn", "ended"}
      BY <1>1, <1>2 DEF NewAreNotServed
    <2> QED
      BY <2>2, <2>6, <2>7, Zenon
  <1>4. \A d \in Conns : h[d].at \in PipelineAt \/ h'[d].at \in PipelineAt => d # c /\ h'[d] = h[d]
    BY <1>3, PipelinePoints
  <1>5. SessionOf[c] \in Sessions
    BY VoiceAgentAssumption
  <1>6. TypeOK' /\ (vad \in VadType)'
    <2>1. client' \in [Conns -> {"new", "open", "gone"}]
      BY <1>1, <1>2 DEF TypeOK
    <2>2. callbacks' \in [Sessions -> Conns \cup {None}]
      BY <1>1, <1>2 DEF TypeOK
    <2>3. h' \in [Conns -> [at : At, u : Utterance]]
      BY <1>3 DEF CoroutineType
    <2> HIDE <1>3
    <2> QED
      BY <1>1, <1>2, <2>1, <2>2, <2>3 DEF TypeOK
  <1>7. RefsExist'
    BY <1>1, <1>2, <1>4 DEF RefsExist, Running
  <1>8. OpenTurnsHaveOwners'
    BY <1>1, <1>2, <1>4, PipelinePoints DEF OpenTurnsHaveOwners
  <1>9. MachinesKeptApart'
    BY <1>1, <1>2, <1>4 DEF MachinesKeptApart, Running
  <1>10. CallbacksKeptApart'
    BY <1>1, <1>2, <1>5 DEF CallbacksKeptApart, TypeOK
  <1>11. RoutedToOwnSession'
    BY <1>1, <1>3 DEF RoutedToOwnSession
  <1>12. NoPhantomSpeaker'
    BY <1>1, <1>2, <1>4, PipelinePoints DEF NoPhantomSpeaker
  <1>13. NothingLeftBehind'
    <2> SUFFICES ASSUME NEW t \in Sessions,
                        \A d \in Conns : SessionOf[d] = t => h'[d].at \in {"unborn", "ended"}
                 PROVE  machineOf[t] = 0 /\ objectOf[t] = 0 /\ callbacks'[t] = None
      BY <1>2 DEF NothingLeftBehind
    <2>1. t # SessionOf[c]
      BY <1>3
    <2>2. \A d \in Conns : SessionOf[d] = t => h[d].at \in {"unborn", "ended"}
      BY <1>3, <2>1
    <2> QED
      BY <1>1, <1>2, <2>1, <2>2 DEF NothingLeftBehind, TypeOK
  <1>14. NewAreNotServed'
    BY <1>1, <1>2, <1>3 DEF NewAreNotServed, TypeOK
  <1> QED
    BY <1>6, <1>7, <1>8, <1>9, <1>10, <1>11, <1>12, <1>13, <1>14, Zenon DEF IInv

\* A client sends a frame, or leaves.
LEMMA ClientKeeps ==
  ASSUME IInv, NEW c \in Conns, NEW voiced \in BOOLEAN, Send(c, voiced) \/ HangUp(c)
  PROVE  IInv'
  <1>1. /\ TypeOK /\ NewAreNotServed
    BY DEF IInv
  <1>2. /\ machines' = machines /\ objects' = objects /\ h' = h
        /\ machineOf' = machineOf /\ objectOf' = objectOf /\ callbacks' = callbacks
        /\ vad' = vad /\ barge' = barge /\ threads' = threads /\ speakers' = speakers
    BY DEF Send, HangUp, registry
  <1>3. client' \in [Conns -> {"new", "open", "gone"}] /\ NewAreNotServed'
    <2>1. client' = client \/ (client[c] = "open" /\ client' = [client EXCEPT ![c] = "gone"])
      BY DEF Send, HangUp
    <2> QED
      BY <1>1, <1>2, <2>1 DEF TypeOK, NewAreNotServed
  <1>4. sent' \in [Conns -> 0 .. MaxFrames]
    <2>1. CASE Send(c, voiced)
      <3>1. sent[c] \in 0 .. MaxFrames /\ sent[c] < MaxFrames
        BY <1>1, <2>1 DEF Send, TypeOK
      <3>2. sent[c] + 1 \in 0 .. MaxFrames
        BY <3>1, VoiceAgentAssumption
      <3>3. sent' = [sent EXCEPT ![c] = sent[c] + 1]
        BY <2>1 DEF Send
      <3> QED
        BY <1>1, <3>2, <3>3 DEF TypeOK
    <2>2. CASE HangUp(c)
      BY <1>1, <2>2 DEF HangUp, TypeOK
    <2> QED
      BY <2>1, <2>2
  <1>5. inbox' \in [Conns -> Seq(Frame)]
    <2>1. CASE Send(c, voiced)
      <3> DEFINE over == \E d \in Conns : SessionOf[d] = SessionOf[c] /\ h[d].at = "play"
                 f == [voiced |-> voiced, over |-> over]
      <3>1. f \in Frame
        BY DEF Frame
      <3>2. inbox' = [inbox EXCEPT ![c] = Append(@, f)]
        BY <2>1, Zenon DEF Send
      <3> HIDE DEF f
      <3> QED
        BY <1>1, <3>1, <3>2 DEF TypeOK
    <2>2. CASE HangUp(c)
      BY <1>1, <2>2 DEF HangUp, TypeOK
    <2> QED
      BY <2>1, <2>2
  <1>6. TypeOK'
    BY <1>1, <1>2, <1>3, <1>4, <1>5 DEF TypeOK
  <1>7. /\ RefsExist' /\ OpenTurnsHaveOwners' /\ MachinesKeptApart'
        /\ CallbacksKeptApart' /\ RoutedToOwnSession' /\ NoPhantomSpeaker' /\ NothingLeftBehind'
        /\ (vad \in VadType)'
    BY <1>2 DEF IInv, RefsExist, OpenTurnsHaveOwners, MachinesKeptApart, CallbacksKeptApart,
                RoutedToOwnSession, NoPhantomSpeaker, NothingLeftBehind, Running
  <1> QED
    BY <1>3, <1>6, <1>7, Zenon DEF IInv

\* A feature extraction ends: a pipeline may see it, and nothing else.
LEMMA ExtractionKeeps ==
  ASSUME IInv, NEW j \in threads, NEW usable \in BOOLEAN, ExtractionEnds(j, usable)
  PROVE  /\ IInv'
         /\ machines' = machines /\ objects' = objects
         /\ machineOf' = machineOf /\ objectOf' = objectOf
         /\ \A d \in Conns : /\ h'[d].at = h[d].at
                             /\ h'[d].u.machine = h[d].u.machine
                             /\ h'[d].u.object = h[d].u.object
                             /\ h'[d].u.number = h[d].u.number
  <1> DEFINE c == j[1]
  <1>1. /\ TypeOK /\ vad \in VadType /\ RefsExist /\ OpenTurnsHaveOwners /\ MachinesKeptApart
        /\ CallbacksKeptApart /\ RoutedToOwnSession /\ NoPhantomSpeaker /\ NothingLeftBehind
        /\ NewAreNotServed
    BY DEF IInv
  <1>2. /\ threads' = threads \ {j}
        /\ speakers' = IF usable THEN speakers \cup {SessionOf[c]} ELSE speakers
        /\ h' = IF Running(c) /\ h[c].u.number = j[2]
                THEN [h EXCEPT ![c].u.feature = "done"] ELSE h
        /\ client' = client /\ sent' = sent /\ inbox' = inbox
        /\ machines' = machines /\ objects' = objects
        /\ machineOf' = machineOf /\ objectOf' = objectOf /\ callbacks' = callbacks
        /\ vad' = vad /\ barge' = barge
    BY Zenon DEF ExtractionEnds, clientVars, registry
  <1>3. c \in Conns /\ SessionOf[c] \in Sessions
    BY <1>1, VoiceAgentAssumption DEF TypeOK
  <1> HIDE DEF c
  <1>4. /\ h' \in [Conns -> CoroutineType]
        /\ \A d \in Conns : /\ h'[d].at = h[d].at
                            /\ h'[d].u.machine = h[d].u.machine
                            /\ h'[d].u.object = h[d].u.object
                            /\ h'[d].u.number = h[d].u.number
                            /\ h'[d].u.sink = h[d].u.sink
    <2>1. h \in [Conns -> CoroutineType] /\ h[c].u \in Utterance
      BY <1>1, <1>3 DEF TypeOK, CoroutineType
    <2>2. CASE h' = h
      BY <2>1, <2>2
    <2>3. CASE h' = [h EXCEPT ![c].u.feature = "done"]
      <3> DEFINE v == [h[c].u EXCEPT !.feature = "done"]
                 k == [at |-> h[c].at, u |-> v]
      <3>1. "done" \in Feature
        BY DEF Feature
      <3>2. v \in Utterance
        BY <2>1, <3>1, Zenon DEF Utterance, Feature
      <3>3. /\ v.number = h[c].u.number /\ v.object = h[c].u.object
            /\ v.machine = h[c].u.machine /\ v.sink = h[c].u.sink
        BY <2>1 DEF Utterance
      <3>4. [h[c] EXCEPT !.u = v] = k
        BY <1>3, <2>1 DEF CoroutineType
      <3>5. h' = [h EXCEPT ![c] = [h[c] EXCEPT !.u = v]]
        BY <2>3, Zenon
      <3> HIDE DEF v
      <3>6. k \in CoroutineType /\ k.at = h[c].at /\ k.u = v
        BY <1>3, <2>1, <3>2 DEF CoroutineType
      <3> HIDE DEF k
      <3>7. h' = [h EXCEPT ![c] = k]
        BY <3>4, <3>5, Zenon
      <3>8. h' \in [Conns -> CoroutineType] /\ h'[c] = k
            /\ \A d \in Conns : d # c => h'[d] = h[d]
        BY <1>3, <2>1, <3>6, <3>7
      <3> HIDE <2>3
      <3> QED
        BY <3>3, <3>6, <3>8, Zenon
    <2> QED
      BY <1>2, <2>2, <2>3
  <1>5. TypeOK'
    <2>1. h' \in [Conns -> [at : At, u : Utterance]]
      BY <1>4 DEF CoroutineType
    <2>2. threads' \subseteq Conns \X Nat /\ speakers' \subseteq Sessions
      BY <1>1, <1>2, <1>3 DEF TypeOK
    <2> HIDE <1>4
    <2> QED
      BY <1>1, <1>2, <2>1, <2>2, Zenon DEF TypeOK
  <1>6. RefsExist' /\ OpenTurnsHaveOwners'
    BY <1>1, <1>2, <1>4 DEF RefsExist, OpenTurnsHaveOwners, Running
  <1>7. MachinesKeptApart' /\ CallbacksKeptApart'
    BY <1>1, <1>2, <1>4 DEF MachinesKeptApart, CallbacksKeptApart, Running
  <1>8. RoutedToOwnSession' /\ NoPhantomSpeaker'
    BY <1>1, <1>2, <1>4 DEF RoutedToOwnSession, NoPhantomSpeaker
  <1>9. NothingLeftBehind' /\ NewAreNotServed' /\ (vad \in VadType)'
    BY <1>1, <1>2, <1>4 DEF NothingLeftBehind, NewAreNotServed
  <1>10. IInv'
    BY <1>5, <1>6, <1>7, <1>8, <1>9, Zenon DEF IInv
  <1> QED
    BY <1>2, <1>4, <1>10

\* A machine's timer ends: the machine is at rest, whoever uses it.
LEMMA TimeoutKeeps ==
  ASSUME IInv, NEW i \in DOMAIN machines, TurnTimeout(i)
  PROVE  IInv'
  <1>1. /\ TypeOK /\ vad \in VadType /\ RefsExist /\ OpenTurnsHaveOwners /\ MachinesKeptApart
        /\ CallbacksKeptApart /\ RoutedToOwnSession /\ NoPhantomSpeaker /\ NothingLeftBehind
        /\ NewAreNotServed
    BY DEF IInv
  <1> DEFINE x == OnTimeout(machines[i])
  <1>2. /\ machines' = [machines EXCEPT ![i] = x]
        /\ client' = client /\ sent' = sent /\ inbox' = inbox /\ h' = h /\ objects' = objects
        /\ machineOf' = machineOf /\ objectOf' = objectOf /\ callbacks' = callbacks
        /\ vad' = vad /\ barge' = barge /\ threads' = threads /\ speakers' = speakers
    BY DEF TurnTimeout, clientVars, registry
  <1>3. machines \in Seq(Machine) /\ i \in 1 .. Len(machines) /\ machines[i] \in Working
    BY <1>1, OwnMachine DEF TypeOK
  <1>4. x \in Closings(machines[i])
    BY <1>3, ClosingHandlers
  <1>5. /\ x \in Machine /\ x.state \in {"idle", "ended"}
        /\ x.state = "ended" <=> machines[i].state = "ended"
    BY <1>4 DEF Closings, Advanced, Working
  <1> HIDE DEF x
  <1>6. /\ machines' \in Seq(Machine) /\ Len(machines') = Len(machines)
        /\ \A k \in 1 .. Len(machines) : machines'[k] = IF k = i THEN x ELSE machines[k]
    BY <1>2, <1>3, <1>5
  <1>7. TypeOK'
    BY <1>1, <1>2, <1>6 DEF TypeOK
  <1>8. RefsExist' /\ CallbacksKeptApart' /\ RoutedToOwnSession' /\ NoPhantomSpeaker'
        /\ NothingLeftBehind' /\ NewAreNotServed' /\ (vad \in VadType)'
    BY <1>1, <1>2, <1>6 DEF RefsExist, CallbacksKeptApart, RoutedToOwnSession, NoPhantomSpeaker,
                           NothingLeftBehind, NewAreNotServed, Running
  <1>9. OpenTurnsHaveOwners'
    <2> SUFFICES ASSUME NEW k \in 1 .. Len(machines)
                 PROVE  /\ machines'[k].state # "barge_in"
                        /\ \/ machines'[k].state \in {"idle", "ended"}
                           \/ \E d \in Conns : h[d].at \in OpenAt /\ h[d].u.machine = k
      BY <1>2, <1>6 DEF OpenTurnsHaveOwners
    <2>1. CASE k = i
      BY <1>5, <1>6, <2>1
    <2>2. CASE k # i
      BY <1>1, <1>6, <2>2 DEF OpenTurnsHaveOwners
    <2> QED
      BY <2>1, <2>2
  <1>10. MachinesKeptApart'
    <2>1. ASSUME NEW s \in Sessions, machineOf[s] # 0
          PROVE  machines'[machineOf[s]].state # "ended"
      <3>1. machineOf[s] \in 1 .. Len(machines) /\ machines[machineOf[s]].state # "ended"
        BY <1>1, <2>1 DEF TypeOK, MachinesKeptApart
      <3> QED
        BY <1>5, <1>6, <3>1
    <2> QED
      BY <1>1, <1>2, <2>1 DEF MachinesKeptApart, Running
  <1> QED
    BY <1>7, <1>8, <1>9, <1>10, Zenon DEF IInv

-----------------------------------------------------------------------------
\* Nothing is made, registered or said at first.
LEMMA InitIInv == Init => IInv
  <1> SUFFICES ASSUME Init PROVE IInv
    OBVIOUS
  <1> USE DEF Init
  <1>1. h \in [Conns -> CoroutineType]
    <2>1. [at |-> "unborn", u |-> NoUtterance(0)] \in CoroutineType
      BY NoUtteranceType, PipelinePoints, 0 \in Nat
    <2> QED
      BY <2>1
  <1>2. vad \in VadType /\ vad.buffer \in Seq(Sessions) /\ vad.preRoll \in Seq(Sessions)
    <2>1. <<>> \in Seq(Sessions)
      OBVIOUS
    <2> QED
      BY <2>1 DEF VadReset, VadType
  <1>3. barge \in [speaking : BOOLEAN, count : 0 .. BargeInFrames - 1, quiet : 0 .. Cooldown]
    BY BargeInAssumption DEF DetectorReset
  <1>4. /\ client \in [Conns -> {"new", "open", "gone"}] /\ sent \in [Conns -> 0 .. MaxFrames]
        /\ inbox \in [Conns -> Seq(Frame)]
    BY VoiceAgentAssumption
  <1>5. /\ machines \in Seq(Machine) /\ objects \in Seq(Seq(Turn))
        /\ Len(machines) = 0 /\ Len(objects) = 0 /\ DOMAIN objects = {}
    OBVIOUS
  <1>6. /\ machineOf \in [Sessions -> 0 .. Len(machines)]
        /\ objectOf \in [Sessions -> 0 .. Len(objects)]
        /\ callbacks \in [Sessions -> Conns \cup {None}]
    BY <1>5
  <1>7. TypeOK
    BY <1>1, <1>2, <1>3, <1>4, <1>5, <1>6 DEF TypeOK, CoroutineType
  <1>8. \A c \in Conns : h[c].at = "unborn" /\ h[c].u.sink = None
    BY NoUtteranceType, PipelinePoints, 0 \in Nat
  <1>9. RefsExist /\ OpenTurnsHaveOwners
    BY <1>5, <1>8, PipelinePoints DEF RefsExist, OpenTurnsHaveOwners, Running
  <1>10. MachinesKeptApart /\ CallbacksKeptApart
    BY <1>8, PipelinePoints DEF MachinesKeptApart, CallbacksKeptApart, Running
  <1>11. RoutedToOwnSession /\ NoPhantomSpeaker
    BY <1>8 DEF RoutedToOwnSession, NoPhantomSpeaker, DetectorReset
  <1>12. NothingLeftBehind /\ NewAreNotServed
    BY <1>8 DEF NothingLeftBehind, NewAreNotServed
  <1> QED
    BY <1>2, <1>7, <1>9, <1>10, <1>11, <1>12, Zenon DEF IInv

\* The kinds of steps, and what each is proved from.
LEMMA Steps ==
  ASSUME IInv, Next
  PROVE  \/ \E c \in Conns : Connect(c)
         \/ \E c \in Conns, voiced \in BOOLEAN : Send(c, voiced) \/ HangUp(c)
         \/ \E c \in Conns, expired \in BOOLEAN, passed \in {0, Cooldown} :
               HandleFrame(c, expired, passed)
         \/ \E c \in Conns : PipelineStep(c)
         \/ \E c \in Conns : h[c].at \in {"receive", "featureWait"} /\ EndSession(c)
         \/ \E j \in threads, usable \in BOOLEAN : ExtractionEnds(j, usable)
         \/ \E i \in DOMAIN machines : TurnTimeout(i)
  <1>1. ASSUME NEW c \in Conns, Proceed(c)
        PROVE  PipelineStep(c) \/ (h[c].at \in {"receive", "featureWait"} /\ EndSession(c))
    <2>1. CASE FeatureTimeout(c) \/ Disconnect(c)
      BY <2>1 DEF FeatureTimeout, Disconnect, RunsAt
    <2>2. CASE ~FeatureTimeout(c) /\ ~Disconnect(c)
      BY <1>1, <2>2, ProceedSteps
    <2> QED
      BY <2>1, <2>2
  <1>2. ASSUME NEW c \in Conns, HangUp(c)
        PROVE  \E voiced \in BOOLEAN : Send(c, voiced) \/ HangUp(c)
    BY <1>2
  <1> QED
    BY <1>1, <1>2 DEF Next, Coroutine, ReadFrame

\* Every step keeps the invariant.
LEMMA NextIInv == IInv /\ [Next]_vars => IInv'
  <1> SUFFICES ASSUME IInv, [Next]_vars PROVE IInv'
    OBVIOUS
  <1>1. CASE UNCHANGED vars
    BY <1>1 DEF vars, IInv, TypeOK, RefsExist, OpenTurnsHaveOwners, MachinesKeptApart,
                CallbacksKeptApart, RoutedToOwnSession, NoPhantomSpeaker, NothingLeftBehind,
                NewAreNotServed, Running
  <1>2. CASE Next
    BY <1>2, Steps, ConnectKeeps, ClientKeeps, FrameKeeps, PipelineKeeps, EndKeeps,
       ExtractionKeeps, TimeoutKeeps
  <1> QED
    BY <1>1, <1>2

\* The inductive invariant holds for every set of connections and every settings.
THEOREM Invariance == Spec => []IInv
  BY InitIInv, NextIInv, PTL DEF Spec

\* Every variable keeps its type, and no history outgrows its bound (session.py:70).
THEOREM TypeCorrect == Spec => []TypeOK
  <1>1. IInv => TypeOK
    BY DEF IInv
  <1> QED
    BY <1>1, Invariance, PTL

\* At rest a registered machine is idle: what is not idle has not ended, so some
\* pipeline has it to close, and only this session's pipelines use it.
LEMMA RestingMachines == IInv => TurnsAreClosed
  <1> SUFFICES ASSUME IInv,
                      NEW c \in Conns,
                      machineOf[SessionOf[c]] # 0,
                      \A d \in Conns : SessionOf[d] = SessionOf[c] => ~Running(d)
               PROVE  machines[machineOf[SessionOf[c]]].state = "idle"
    BY DEF TurnsAreClosed, TurnClosedBetweenFrames, IInv
  <1> DEFINE m == machineOf[SessionOf[c]]
  <1>1. SessionOf[c] \in Sessions
    BY VoiceAgentAssumption
  <1>2. m \in 1 .. Len(machines) /\ machines[m].state # "ended"
    BY <1>1 DEF IInv, TypeOK, MachinesKeptApart
  <1>3. ASSUME machines[m].state # "idle" PROVE FALSE
    <2>1. PICK d \in Conns : h[d].at \in OpenAt /\ h[d].u.machine = m
      BY <1>2, <1>3 DEF IInv, OpenTurnsHaveOwners
    <2>2. Running(d)
      BY <2>1, PipelinePoints DEF Running
    <2>3. SessionOf[c] = SessionOf[d]
      BY <1>1, <2>1, <2>2 DEF IInv, MachinesKeptApart
    <2> QED
      BY <2>2, <2>3
  <1> QED
    BY <1>3

\* Every path of the pipeline closes the turn it opened and the detector's belief
\* that the agent speaks, whatever times out meanwhile (agent.py:570).
THEOREM EveryTurnIsClosed == Spec => []TurnsAreClosed
  BY RestingMachines, Invariance, PTL

\* What a pipeline sends reaches its own session, and a session whose connections
\* have all ended leaves nothing registered (agent.py, register_callbacks).
THEOREM SessionsApart == Spec => []SessionsKeepApart
  <1>1. IInv => SessionsKeepApart
    BY DEF IInv, SessionsKeepApart
  <1> QED
    BY <1>1, Invariance, PTL

-----------------------------------------------------------------------------
(***************************************************************************)
(* The conversations, when every session has one connection.  A client     *)
(* that comes back under its session id while its last pipeline still runs *)
(* gives the session two pipelines on one history, and nothing below then  *)
(* holds of it.                                                            *)
(***************************************************************************)
OneConnectionEach == \A c, d \in Conns : SessionOf[c] = SessionOf[d] => c = d

\* A session object belongs to one session and to at most one pipeline.
ObjectsKeptApart ==
    /\ \A s, t \in Sessions : objectOf[s] = objectOf[t] /\ objectOf[s] # 0 => s = t
    /\ \A c \in Conns, s \in Sessions :
          Running(c) /\ objectOf[s] = h[c].u.object => s = SessionOf[c]
    /\ \A c, d \in Conns : Running(c) /\ Running(d) /\ h[c].u.object = h[d].u.object => c = d

\* A turn that waits for its answer is the last of its history.
AnswersAreDue ==
    \A c \in Conns : h[c].at \in AnswerAt =>
        LET history == objects[h[c].u.object] IN
        history # <<>> /\ history[Len(history)] = TurnOf(c, "user")

CInv == ObjectsKeptApart /\ AnswersAreDue /\ AnswersFollowTheirTurn

\* Steps that touch no history and start no pipeline.
LEMMA QuietSteps ==
  ASSUME CInv, RefsExist, objects' = objects,
         \A s \in Sessions : objectOf'[s] = objectOf[s] \/ objectOf'[s] = 0,
         \A d \in Conns : h'[d].at \in PipelineAt =>
            h'[d].at = h[d].at /\ h'[d].u.object = h[d].u.object /\ h'[d].u.number = h[d].u.number
  PROVE  CInv'
  <1>1. ASSUME NEW d \in Conns, h'[d].at \in PipelineAt
        PROVE  /\ Running(d) /\ h'[d].at = h[d].at /\ h'[d].u.object = h[d].u.object
               /\ h'[d].u.object # 0 /\ TurnOf(d, "user")' = TurnOf(d, "user")
    BY <1>1 DEF Running, RefsExist, TurnOf
  <1>2. ObjectsKeptApart'
    <2>1. ASSUME NEW s \in Sessions, NEW t \in Sessions,
                 objectOf'[s] = objectOf'[t], objectOf'[s] # 0
          PROVE  s = t
      BY <2>1 DEF CInv, ObjectsKeptApart
    <2>2. ASSUME NEW d \in Conns, NEW s \in Sessions, h'[d].at \in PipelineAt,
                 objectOf'[s] = h'[d].u.object
          PROVE  s = SessionOf[d]
      <3>1. Running(d) /\ objectOf[s] = h[d].u.object
        BY <1>1, <2>2
      <3> QED
        BY <3>1 DEF CInv, ObjectsKeptApart
    <2>3. ASSUME NEW d \in Conns, NEW e \in Conns, h'[d].at \in PipelineAt,
                 h'[e].at \in PipelineAt, h'[d].u.object = h'[e].u.object
          PROVE  d = e
      <3>1. Running(d) /\ Running(e) /\ h[d].u.object = h[e].u.object
        BY <1>1, <2>3
      <3> QED
        BY <3>1 DEF CInv, ObjectsKeptApart
    <2> QED
      BY <2>1, <2>2, <2>3 DEF ObjectsKeptApart, Running
  <1>3. AnswersAreDue'
    <2> SUFFICES ASSUME NEW d \in Conns, h'[d].at \in AnswerAt
                 PROVE  LET history == objects[h'[d].u.object] IN
                        history # <<>> /\ history[Len(history)] = TurnOf(d, "user")'
      BY DEF AnswersAreDue
    <2>1. h[d].at \in AnswerAt /\ h'[d].u.object = h[d].u.object /\ TurnOf(d, "user")' = TurnOf(d, "user")
      BY <1>1, PipelinePoints
    <2> QED
      BY <2>1 DEF CInv, AnswersAreDue
  <1>4. AnswersFollowTheirTurn'
    BY DEF CInv, AnswersFollowTheirTurn
  <1> QED
    BY <1>2, <1>3, <1>4 DEF CInv

\* A pipeline records its own turns, each behind the one it answers.
LEMMA PipelineKeepsConversations ==
  ASSUME IInv, CInv, NEW c \in Conns, PipelineStep(c)
  PROVE  CInv'
  <1> DEFINE o == h[c].u.object
  <1>1. /\ TypeOK /\ RefsExist /\ ObjectsKeptApart /\ AnswersAreDue /\ AnswersFollowTheirTurn
    BY DEF IInv, CInv
  <1>2. Running(c) /\ HStep(c) /\ OStep(c) /\ objectOf' = objectOf
    BY DEF PipelineStep, Running, registry
  <1>3. \A d \in Conns : h'[d].at \in PipelineAt =>
            /\ Running(d) /\ h'[d].u.object = h[d].u.object
            /\ h'[d].u.number = h[d].u.number
    BY <1>1, <1>2, CoroutineEffect
  <1>4. ObjectsKeptApart'
    <2>1. ASSUME NEW d \in Conns, NEW e \in Conns, h'[d].at \in PipelineAt,
                 h'[e].at \in PipelineAt, h'[d].u.object = h'[e].u.object
          PROVE  d = e
      BY <1>1, <1>3, <2>1 DEF ObjectsKeptApart
    <2>2. ASSUME NEW d \in Conns, NEW s \in Sessions, h'[d].at \in PipelineAt,
                 objectOf[s] = h'[d].u.object
          PROVE  s = SessionOf[d]
      BY <1>1, <1>3, <2>2 DEF ObjectsKeptApart
    <2>3. \A s, t \in Sessions : objectOf[s] = objectOf[t] /\ objectOf[s] # 0 => s = t
      BY <1>1 DEF ObjectsKeptApart
    <2> QED
      BY <1>2, <2>1, <2>2, <2>3 DEF ObjectsKeptApart, Running
  <1>5. ASSUME objects' = objects, h'[c].at \in AnswerAt => h[c].at \in AnswerAt
        PROVE  AnswersAreDue' /\ AnswersFollowTheirTurn'
    <2> SUFFICES ASSUME NEW d \in Conns, h'[d].at \in AnswerAt
                 PROVE  LET history == objects[h'[d].u.object] IN
                        history # <<>> /\ history[Len(history)] = TurnOf(d, "user")'
      BY <1>1, <1>5 DEF AnswersAreDue, AnswersFollowTheirTurn
    <2>1. h[d].at \in AnswerAt
      <3>1. CASE d = c
        BY <1>5, <3>1
      <3>2. CASE d # c
        BY <1>2, <3>2 DEF HStep
      <3> QED
        BY <3>1, <3>2
    <2>2. h'[d].u.object = h[d].u.object /\ TurnOf(d, "user")' = TurnOf(d, "user")
      BY <1>3, PipelinePoints DEF TurnOf
    <2> QED
      BY <1>1, <2>1, <2>2 DEF AnswersAreDue
  <1>6. ASSUME NEW role \in {"user", "assistant"}, Record(c, role),
               role = "assistant" => h[c].at \in AnswerAt /\ h'[c].at \notin AnswerAt
        PROVE  AnswersAreDue' /\ AnswersFollowTheirTurn'
    <2> DEFINE old == objects[o]
               t == TurnOf(c, role)
               new == AddTurn(old, t)
    <2>1. /\ objects' \in Seq(Seq(Turn)) /\ Len(objects') = Len(objects)
          /\ t \in Turn /\ o \in 1 .. Len(objects) /\ old \in Seq(Turn) /\ Len(old) <= MaxHistory
          /\ objects'[o] = new
          /\ \A i \in 1 .. Len(objects) : i # o => objects'[i] = objects[i]
      BY <1>1, <1>2, <1>6, RecordEffect
    <2>2. t.role = role /\ t.by = c /\ t.number = h[c].u.number
      BY DEF TurnOf
    <2> HIDE DEF t, old
    <2>3. /\ new \in Seq(Turn) /\ new # <<>> /\ new[Len(new)] = t
          /\ \A i \in 2 .. Len(new) : i # Len(new) =>
               \E j \in 2 .. Len(old) : new[i] = old[j] /\ new[i - 1] = old[j - 1]
          /\ Len(new) > 1 => old # <<>> /\ new[Len(new) - 1] = old[Len(old)]
      BY <2>1, AddTurnKeeps
    <2> HIDE DEF new
    <2>4. AnswersAreDue'
      <3> SUFFICES ASSUME NEW d \in Conns, h'[d].at \in AnswerAt
                   PROVE  LET history == objects'[h'[d].u.object] IN
                          history # <<>> /\ history[Len(history)] = TurnOf(d, "user")'
        BY DEF AnswersAreDue
      <3>1. Running(d) /\ h'[d].u.object = h[d].u.object /\ TurnOf(d, "user")' = TurnOf(d, "user")
        BY <1>3, PipelinePoints DEF TurnOf
      <3>2. CASE d = c
        <4>1. role = "user"
          BY <1>6, <3>2
        <4> QED
          BY <2>1, <2>3, <3>1, <3>2, <4>1 DEF t
      <3>3. CASE d # c
        <4>1. h[d].at \in AnswerAt
          BY <1>2, <3>3 DEF HStep
        <4>2. h[d].u.object # o /\ h[d].u.object \in 1 .. Len(objects)
          BY <1>1, <1>2, <3>1, <3>3 DEF ObjectsKeptApart, RefsExist
        <4>3. objects'[h[d].u.object] = objects[h[d].u.object]
          BY <2>1, <4>2
        <4> QED
          BY <1>1, <3>1, <4>1, <4>3 DEF AnswersAreDue
      <3> QED
        BY <3>2, <3>3
    <2>5. AnswersFollowTheirTurn'
      <3>q. DOMAIN objects' = 1 .. Len(objects)
        BY <2>1
      <3> SUFFICES ASSUME NEW k \in 1 .. Len(objects), NEW i \in 2 .. Len(objects'[k]),
                          objects'[k][i].role = "assistant"
                   PROVE  objects'[k][i - 1] = [objects'[k][i] EXCEPT !.role = "user"]
        BY <3>q, Zenon DEF AnswersFollowTheirTurn
      <3>0. k \in DOMAIN objects /\ o \in DOMAIN objects
        BY <1>1, <2>1 DEF TypeOK
      <3>1. CASE k # o
        <4>1. objects'[k] = objects[k]
          BY <2>1, <3>1
        <4> QED
          BY <1>1, <3>0, <4>1 DEF AnswersFollowTheirTurn
      <3>2. CASE k = o /\ i # Len(new)
        <4>1. PICK j \in 2 .. Len(old) : new[i] = old[j] /\ new[i - 1] = old[j - 1]
          BY <2>1, <2>3, <3>2
        <4>2. objects'[k][i] = objects[o][j] /\ objects'[k][i - 1] = objects[o][j - 1]
          BY <2>1, <3>2, <4>1 DEF old
        <4>3. j \in 2 .. Len(objects[o])
          BY <4>1 DEF old
        <4> QED
          BY <1>1, <3>0, <4>2, <4>3 DEF AnswersFollowTheirTurn
      <3>3. CASE k = o /\ i = Len(new)
        <4>1. objects'[k][i] = t /\ role = "assistant" /\ Len(new) > 1
          BY <2>1, <2>2, <2>3, <3>3
        <4>2. objects'[k][i - 1] = old[Len(old)]
          BY <2>1, <2>3, <3>3, <4>1
        <4>3. old[Len(old)] = TurnOf(c, "user")
          BY <1>1, <1>6, <4>1 DEF AnswersAreDue, old
        <4>4. t = TurnOf(c, "assistant")
          BY <4>1 DEF t
        <4>5. TurnOf(c, "user") = [TurnOf(c, "assistant") EXCEPT !.role = "user"]
          BY DEF TurnOf
        <4> QED
          BY <4>1, <4>2, <4>3, <4>4, <4>5, Zenon
      <3> QED
        BY <3>1, <3>2, <3>3
    <2> QED
      BY <2>4, <2>5
  <1>7. AnswersAreDue' /\ AnswersFollowTheirTurn'
    BY <1>2, <1>5, <1>6 DEF OStep
  <1> QED
    BY <1>4, <1>7 DEF CInv

\* A frame that starts a pipeline gives it the session's object, which no other
\* pipeline has, since the session's only connection was waiting for the frame.
LEMMA FrameKeepsConversations ==
  ASSUME OneConnectionEach, IInv, CInv,
         NEW c \in Conns, NEW expired \in BOOLEAN, NEW passed \in {0, Cooldown},
         HandleFrame(c, expired, passed)
  PROVE  CInv'
  <1> DEFINE s == SessionOf[c]
             n == Len(objects)
  <1>1. /\ TypeOK /\ RefsExist /\ ObjectsKeptApart /\ AnswersAreDue /\ AnswersFollowTheirTurn
    BY DEF IInv, CInv
  <1>2. h[c].at = "receive" /\ FrameOnObjects(c) /\ FrameOnCoroutine(c)
    BY FrameEffect
  <1>3. s \in Sessions
    BY VoiceAgentAssumption
  <1>4. /\ \A d \in Conns : d # c => h'[d] = h[d]
        /\ \/ h'[c] = h[c]
           \/ h'[c].at = "stt" /\ h'[c].u.object = objectOf'[s]
    BY <1>1, <1>2, FrameCoroutines
  <1>5. /\ objects \in Seq(Seq(Turn)) /\ n \in Nat /\ objectOf \in [Sessions -> 0 .. n]
    BY <1>1 DEF TypeOK
  <1>6. /\ \A t \in Sessions : t # s => objectOf'[t] = objectOf[t]
        /\ objectOf'[s] = n + 1 \/ (objectOf'[s] = objectOf[s] /\ objectOf[s] # 0)
        /\ \A i \in 1 .. n : objects'[i] = objects[i]
        /\ DOMAIN objects' = 1 .. n
           \/ (DOMAIN objects' = 1 .. n + 1 /\ objects'[n + 1] = <<>>)
    <2>1. CASE objects' = objects /\ objectOf' = objectOf /\ objectOf[s] # 0
      BY <1>5, <2>1
    <2>2. CASE objects' = Append(objects, <<>>) /\ objectOf' = [objectOf EXCEPT ![s] = n + 1]
      <3> DEFINE e == <<>>
      <3>1. e \in Seq(Turn)
        OBVIOUS
      <3>2. objects' = Append(objects, e)
        BY <2>2
      <3> HIDE DEF e
      <3>3. /\ \A i \in 1 .. n : objects'[i] = objects[i]
            /\ DOMAIN objects' = 1 .. n + 1 /\ objects'[n + 1] = e
        BY <1>5, <3>1, <3>2
      <3>4. objectOf'[s] = n + 1 /\ \A t \in Sessions : t # s => objectOf'[t] = objectOf[t]
        BY <1>3, <1>5, <2>2
      <3> QED
        BY <3>3, <3>4, Zenon DEF e
    <2> QED
      BY <1>2, <2>1, <2>2 DEF FrameOnObjects
  <1>7. \A d \in Conns : Running(d) => h[d].u.object \in 1 .. n /\ d # c /\ SessionOf[d] # s
    BY <1>1, <1>2, PipelinePoints DEF RefsExist, Running, OneConnectionEach
  <1>8. \A d \in Conns : Running(d) => h[d].u.object # objectOf'[s]
    <2> SUFFICES ASSUME NEW d \in Conns, Running(d), h[d].u.object = objectOf'[s]
                 PROVE  FALSE
      OBVIOUS
    <2>1. objectOf[s] = h[d].u.object
      BY <1>5, <1>6, <1>7
    <2>2. s = SessionOf[d]
      BY <1>1, <1>3, <2>1 DEF ObjectsKeptApart
    <2> QED
      BY <1>7, <2>2
  <1>9. \A d \in Conns : h'[d].at \in PipelineAt =>
            \/ Running(d) /\ h'[d] = h[d]
            \/ d = c /\ h'[d].at = "stt" /\ h'[d].u.object = objectOf'[s]
    BY <1>4 DEF Running
  <1>10. \A t \in Sessions : t # s => objectOf'[t] # objectOf'[s] \/ objectOf'[t] = 0
    BY <1>1, <1>3, <1>5, <1>6 DEF ObjectsKeptApart
  <1>11. ObjectsKeptApart'
    <2>1. ASSUME NEW t \in Sessions, NEW q \in Sessions,
                 objectOf'[t] = objectOf'[q], objectOf'[t] # 0
          PROVE  t = q
      BY <1>1, <1>6, <1>10, <2>1 DEF ObjectsKeptApart
    <2>2. ASSUME NEW d \in Conns, NEW t \in Sessions, h'[d].at \in PipelineAt,
                 objectOf'[t] = h'[d].u.object
          PROVE  t = SessionOf[d]
      <3>1. CASE Running(d) /\ h'[d] = h[d]
        <4>1. t # s
          BY <1>8, <2>2, <3>1
        <4>2. objectOf[t] = h[d].u.object
          BY <1>6, <2>2, <3>1, <4>1
        <4> QED
          BY <1>1, <3>1, <4>2 DEF ObjectsKeptApart
      <3>2. CASE d = c /\ h'[d].u.object = objectOf'[s]
        BY <1>5, <1>6, <1>10, <2>2, <3>2
      <3> QED
        BY <1>9, <2>2, <3>1, <3>2
    <2>3. ASSUME NEW d \in Conns, NEW e \in Conns, h'[d].at \in PipelineAt,
                 h'[e].at \in PipelineAt, h'[d].u.object = h'[e].u.object
          PROVE  d = e
      BY <1>1, <1>8, <1>9, <2>3 DEF ObjectsKeptApart
    <2> QED
      BY <2>1, <2>2, <2>3 DEF ObjectsKeptApart, Running
  <1>12. AnswersAreDue'
    <2> SUFFICES ASSUME NEW d \in Conns, h'[d].at \in AnswerAt
                 PROVE  LET history == objects'[h'[d].u.object] IN
                        history # <<>> /\ history[Len(history)] = TurnOf(d, "user")'
      BY DEF AnswersAreDue
    <2>1. "stt" \notin AnswerAt
      BY DEF AnswerAt
    <2>2. Running(d) /\ h'[d] = h[d]
      BY <1>9, <2>1, PipelinePoints
    <2>3. TurnOf(d, "user")' = TurnOf(d, "user") /\ objects'[h'[d].u.object] = objects[h[d].u.object]
      BY <1>6, <1>7, <2>2 DEF TurnOf
    <2> QED
      BY <1>1, <2>2, <2>3 DEF AnswersAreDue
  <1>13. AnswersFollowTheirTurn'
    <2> SUFFICES ASSUME NEW k \in DOMAIN objects', NEW i \in 2 .. Len(objects'[k]),
                        objects'[k][i].role = "assistant"
                 PROVE  objects'[k][i - 1] = [objects'[k][i] EXCEPT !.role = "user"]
      BY DEF AnswersFollowTheirTurn
    <2>1. CASE k \in 1 .. n
      <3>1. objects'[k] = objects[k] /\ k \in DOMAIN objects
        BY <1>5, <1>6, <2>1
      <3> QED
        BY <1>1, <3>1 DEF AnswersFollowTheirTurn
    <2>2. CASE k \notin 1 .. n
      <3>1. objects'[k] = <<>>
        BY <1>5, <1>6, <2>2
      <3>2. Len(objects'[k]) = 0
        BY <3>1
      <3> QED
        BY <3>2
    <2> QED
      BY <2>1, <2>2
  <1> QED
    BY <1>11, <1>12, <1>13 DEF CInv

\* No conversation has begun at first.
LEMMA InitCInv == Init => CInv
  <1> SUFFICES ASSUME Init PROVE CInv
    OBVIOUS
  <1>1. \A c \in Conns : h[c].at = "unborn"
    BY DEF Init
  <1> QED
    BY <1>1, PipelinePoints DEF Init, CInv, ObjectsKeptApart, AnswersAreDue,
       AnswersFollowTheirTurn, Running

\* Every step keeps the conversations.
LEMMA NextCInv ==
  ASSUME OneConnectionEach
  PROVE  IInv /\ CInv /\ [Next]_vars => CInv'
  <1> SUFFICES ASSUME IInv, CInv, [Next]_vars PROVE CInv'
    OBVIOUS
  <1>0. RefsExist /\ TypeOK
    BY DEF IInv
  <1>1. CASE UNCHANGED vars
    BY <1>0, <1>1, QuietSteps DEF vars
  <1>2. ASSUME NEW c \in Conns, Connect(c) PROVE CInv'
    <2>1. h \in [Conns -> CoroutineType]
      BY <1>0 DEF TypeOK, CoroutineType
    <2>2. objects' = objects /\ objectOf' = objectOf /\ h' = [h EXCEPT ![c].at = "receive"]
      BY <1>2 DEF Connect
    <2>3. \A d \in Conns : h'[d].at \in PipelineAt => h'[d] = h[d]
      <3>1. \A d \in Conns : d # c => h'[d] = h[d]
        BY <2>1, <2>2
      <3>2. h'[c].at = "receive"
        BY <2>1, <2>2 DEF CoroutineType
      <3> QED
        BY <3>1, <3>2, PipelinePoints
    <2> QED
      BY <1>0, <2>2, <2>3, QuietSteps
  <1>3. ASSUME NEW c \in Conns, NEW voiced \in BOOLEAN, Send(c, voiced) \/ HangUp(c) PROVE CInv'
    <2>1. objects' = objects /\ objectOf' = objectOf /\ h' = h
      BY <1>3 DEF Send, HangUp, registry
    <2> QED
      BY <1>0, <2>1, QuietSteps
  <1>4. ASSUME NEW c \in Conns, h[c].at \in {"receive", "featureWait"}, EndSession(c) PROVE CInv'
    <2>1. h \in [Conns -> CoroutineType] /\ objectOf \in [Sessions -> 0 .. Len(objects)]
      BY <1>0 DEF TypeOK, CoroutineType
    <2>2. /\ objects' = objects /\ objectOf' = [objectOf EXCEPT ![SessionOf[c]] = 0]
          /\ h' = [h EXCEPT ![c] = [at |-> "ended", u |-> NoUtterance(h[c].u.number)]]
      BY <1>4 DEF EndSession
    <2>3. \A d \in Conns : h'[d].at \in PipelineAt => h'[d] = h[d]
      BY <2>1, <2>2, PipelinePoints
    <2>4. \A s \in Sessions : objectOf'[s] = objectOf[s] \/ objectOf'[s] = 0
      BY <2>1, <2>2
    <2> QED
      BY <1>0, <2>2, <2>3, <2>4, QuietSteps
  <1>5. ASSUME NEW j \in threads, NEW usable \in BOOLEAN, ExtractionEnds(j, usable) PROVE CInv'
    BY <1>0, <1>5, ExtractionKeeps, QuietSteps
  <1>6. ASSUME NEW i \in DOMAIN machines, TurnTimeout(i) PROVE CInv'
    <2>1. objects' = objects /\ objectOf' = objectOf /\ h' = h
      BY <1>6 DEF TurnTimeout, registry
    <2> QED
      BY <1>0, <2>1, QuietSteps
  <1>7. CASE Next
    BY <1>2, <1>3, <1>4, <1>5, <1>6, <1>7, Steps, FrameKeepsConversations,
       PipelineKeepsConversations
  <1> QED
    BY <1>1, <1>7

\* When every session has one connection, a prompt ends before the turn it
\* answers, every answer is recorded right behind its turn, and no history
\* outgrows its bound (agent.py:463, session.py:70).
THEOREM ConversationsAreKept ==
  ASSUME OneConnectionEach
  PROVE  Spec => []ConversationIsKept
  <1>1. IInv /\ CInv => ConversationIsKept
    <2> SUFFICES ASSUME IInv, CInv, NEW c \in Conns, h[c].at \in {"stall", "llm"}
                 PROVE  LET history == objects[h[c].u.object] IN
                        history # <<>> /\ Last(history) = TurnOf(c, "user")
      BY DEF ConversationIsKept, PromptOmitsOwnTurn, IInv, CInv
    <2>1. h[c].at \in AnswerAt
      BY DEF AnswerAt
    <2> QED
      BY <2>1, Zenon DEF CInv, AnswersAreDue, Last
  <1>2. IInv /\ CInv /\ [Next]_vars => (IInv /\ CInv)'
    BY NextIInv, NextCInv
  <1>3. Init => IInv /\ CInv
    BY InitIInv, InitCInv
  <1> QED
    BY <1>1, <1>2, <1>3, PTL DEF Spec
=============================================================================
