------------------------------ MODULE SpeechDetectors ------------------------------
(* The two detectors of the voice server, as values and the operators on them.  *)
EXTENDS Naturals, Sequences, SequencesExt

-----------------------------------------------------------------------------
(***************************************************************************)
(* SileroVAD.process_frame (server/pipeline/vad.py) as an operator on the  *)
(* detector's state.  A frame is any value; whether the model finds speech *)
(* in it is an argument, since the probability is the neural network's.    *)
(***************************************************************************)

CONSTANTS
    MinSpeechFrames,    \* _min_speech_frames
    MinSilenceFrames,   \* _min_silence_frames
    PreRollFrames       \* maxlen of _pre_roll_buffer

ASSUME VadConfigAssumption ==
    /\ MinSpeechFrames \in Nat
    /\ MinSilenceFrames \in Nat \ {0}
    /\ PreRollFrames \in Nat \ {0}

\* _is_speaking, _speech_buffer, _silence_frames, _pre_roll_buffer.
VadReset == [speaking |-> FALSE, buffer |-> <<>>, silence |-> 0, preRoll |-> <<>>]

\* No segment: what process_frame returns when it returns None.
NoSegment == <<>>

\* deque(maxlen): a full buffer drops its oldest frame.
PushPreRoll(buf, frame) ==
    LET b == Append(buf, frame) IN
    IF Len(b) > PreRollFrames THEN Tail(b) ELSE b

\* A plausible slip: the pre-roll survives the utterance it was prefixed to.
StartKeepingPreRoll(vad, frame) ==
    [vad EXCEPT !.speaking = TRUE, !.buffer = Append(vad.preRoll, frame),
                !.silence = 0]

\* Silence to speech: the utterance begins with the pre-roll.
StartSpeech(vad, frame) ==
    [vad EXCEPT !.speaking = TRUE, !.buffer = Append(vad.preRoll, frame),
                !.silence = 0, !.preRoll = <<>>]

\* A plausible slip: a resumed voice does not restart the count of silence.
ContinueCountingSilence(vad, frame) ==
    [vad EXCEPT !.buffer = Append(@, frame)]

ContinueSpeech(vad, frame) ==
    [vad EXCEPT !.buffer = Append(@, frame), !.silence = 0]

EndSpeech(vad) == [vad EXCEPT !.speaking = FALSE, !.buffer = <<>>, !.silence = 0]

LongEnough(buffer) == Len(buffer) >= MinSpeechFrames

Result(vad, segment) == [vad |-> vad, segment |-> segment]

\* The detector after a frame, and the frames of the utterance it completes, if
\* any.  The length that decides whether an utterance is kept is the buffer's:
\* pre-roll, speech and the closing silence.
ProcessFrame(vad, frame, voiced) ==
    LET heard == [vad EXCEPT !.buffer = Append(@, frame), !.silence = @ + 1] IN
    IF voiced THEN
        Result(IF vad.speaking THEN ContinueSpeech(vad, frame)
               ELSE StartSpeech(vad, frame), NoSegment)
    ELSE IF ~vad.speaking THEN
        Result([vad EXCEPT !.preRoll = PushPreRoll(@, frame)], NoSegment)
    ELSE IF heard.silence < MinSilenceFrames THEN
        Result(heard, NoSegment)
    ELSE
        Result(EndSpeech(heard), IF LongEnough(heard.buffer) THEN heard.buffer
                                 ELSE NoSegment)

-----------------------------------------------------------------------------
(***************************************************************************)
(* BargeInDetector (server/pipeline/barge_in.py) as operators on its state *)
(*                                                                         *)
(*   speaking  _agent_speaking_since is not None                           *)
(*   count     _speech_frame_count                                         *)
(*   quiet     time since _last_barge_in_time, up to the cooldown          *)
(***************************************************************************)

CONSTANTS
    BargeInFrames,      \* _min_speech_frames
    Cooldown            \* _cooldown_seconds, in clock ticks

ASSUME BargeInAssumption == BargeInFrames \in Nat \ {0} /\ Cooldown \in Nat

\* _last_barge_in_time = 0.0: the last barge-in lies beyond the cooldown.
DetectorReset == [speaking |-> FALSE, count |-> 0, quiet |-> Cooldown]

\* A plausible slip: the detector is not told that the agent is silent again.
NeverSilent(d, on) == [d EXCEPT !.speaking = TRUE]

SetAgentSpeaking(d, on) ==
    IF on THEN [d EXCEPT !.speaking = TRUE]
    ELSE [d EXCEPT !.speaking = FALSE, !.count = 0]

\* The clock moves on by k ticks.
Elapse(d, k) ==
    [d EXCEPT !.quiet = IF @ + k < Cooldown THEN @ + k ELSE Cooldown]

\* A plausible slip: one silent frame does not lower the count.
HoldThroughSilence(n, voiced) == IF voiced THEN n + 1 ELSE n

CountFrame(n, voiced) == IF voiced THEN n + 1 ELSE IF n > 0 THEN n - 1 ELSE 0

\* A plausible slip: frames are also counted while the cooldown runs.
NotCoolingEver(d) == FALSE

Cooling(d) == d.quiet < Cooldown

Enough(n) == n >= BargeInFrames

Verdict(d, event) == [detector |-> d, event |-> event]

CheckBargeIn(d, voiced) ==
    IF ~d.speaking THEN Verdict([d EXCEPT !.count = 0], FALSE)
    ELSE IF Cooling(d) THEN Verdict(d, FALSE)
    ELSE LET n == CountFrame(d.count, voiced) IN
         IF Enough(n)
         THEN Verdict([d EXCEPT !.count = 0, !.quiet = 0], TRUE)
         ELSE Verdict([d EXCEPT !.count = n], FALSE)
=============================================================================
