------------------------------ MODULE EdgeDetectors ------------------------------
(* The two counters of the edge: the end of a turn and an interruption.         *)
EXTENDS Integers, Sequences, FiniteSets

-----------------------------------------------------------------------------
(***************************************************************************)
(* edge/turn_detection: the EndpointingDetector and the                    *)
(* StreamingFeatureExtractor, fed with one stream of VAD verdicts.         *)
(* A frame is one unit of time.                                            *)
(***************************************************************************)

CONSTANTS
  StartFrames,    \* start_frames, of both
  EndFrames,      \* end_frames of the detector
  FxEndFrames,    \* end_frames of the extractor
  Hangover,       \* hangover_ms
  MinSpeech,      \* min_speech_ms
  EmotionEvery,   \* emotion_every_n_frames
  MaxEpFrames     \* frames of a stream (bound)

ASSUME EndpointingAssumption ==
  /\ {StartFrames, EndFrames, FxEndFrames, EmotionEvery} \subseteq Nat \ {0}
  /\ {Hangover, MinSpeech} \subseteq Nat

VARIABLES
  ep,       \* the detector
  fx,       \* the extractor
  frames,   \* the frames so far: TRUE is speech
  marks     \* the detector's decisions on them

epVars == <<ep, fx, frames, marks>>

EpReset == [inSpeech |-> FALSE, speechRun |-> 0, silenceRun |-> 0, silence |-> 0, speech |-> 0,
            had |-> FALSE, candidate |-> FALSE, confirmed |-> FALSE]
FxReset == [seq |-> 0, inSpeech |-> FALSE, speechRun |-> 0, silenceRun |-> 0, emotionOf |-> 0,
            attached |-> 0]

EpInit == ep = EpReset /\ fx = FxReset /\ frames = <<>> /\ marks = <<>>

(* _advance on a speech frame. *)
SpeechFrame(d) ==
  LET run == d.speechRun + 1
      said == d.speech + 1
      talking == d.inSpeech \/ run >= StartFrames
  IN  [inSpeech |-> talking, speechRun |-> run, silenceRun |-> 0, silence |-> 0, speech |-> said,
       had |-> d.had \/ (talking /\ said >= MinSpeech), candidate |-> FALSE, confirmed |-> FALSE]

(* A mutation: a confirmed tail is not consumed. *)
SilentFrameKeepingTurn(d) ==
  LET offset == d.inSpeech /\ d.silenceRun + 1 >= EndFrames
      tail == d.had /\ (~d.inSpeech \/ offset)
  IN  [d EXCEPT !.speechRun = 0, !.silenceRun = @ + 1, !.silence = @ + 1,
                !.inSpeech = @ /\ ~offset, !.speech = IF offset THEN 0 ELSE @,
                !.candidate = @ \/ tail,
                !.confirmed = @ \/ (tail /\ d.silence + 1 >= Hangover)]

(* _advance on a silent frame: the offset first, then the turn's end.      *)
SilentFrame(d) ==
  LET quiet == d.silenceRun + 1
      silence == d.silence + 1
      offset == d.inSpeech /\ quiet >= EndFrames
      tail == d.had /\ (~d.inSpeech \/ offset)
      confirms == tail /\ ~d.confirmed /\ silence >= Hangover
  IN  [inSpeech |-> d.inSpeech /\ ~offset, speechRun |-> 0, silenceRun |-> quiet, silence |-> silence,
       speech |-> IF offset THEN 0 ELSE d.speech, had |-> d.had /\ ~confirms,
       candidate |-> d.candidate \/ tail, confirmed |-> d.confirmed \/ confirms]

Advance(d, speech) == IF speech THEN SpeechFrame(d) ELSE SilentFrame(d)

(* What the decision says of the step from d to e. *)
Decision(d, e) ==
  [started |-> ~d.inSpeech /\ e.inSpeech,
   ended |-> d.inSpeech /\ ~e.inSpeech /\ d.had,
   candidate |-> ~d.candidate /\ e.candidate,
   confirmed |-> ~d.confirmed /\ e.confirmed]

(* The extractor: emotion is computed on its cadence and at every onset,   *)
(* in between the last one is attached.  An emotion is the number of the   *)
(* frame it was computed of, 0 is none.                                    *)
Extract(x, speech) ==
  LET run == IF speech THEN x.speechRun + 1 ELSE 0
      quiet == IF speech THEN 0 ELSE x.silenceRun + 1
      onset == speech /\ ~x.inSpeech /\ run >= StartFrames
      talking == (x.inSpeech /\ quiet < FxEndFrames) \/ onset
      fresh == talking /\ (x.seq % EmotionEvery = 0 \/ onset)
      emotion == IF fresh THEN x.seq + 1 ELSE x.emotionOf
  IN  [seq |-> x.seq + 1, inSpeech |-> talking, speechRun |-> run, silenceRun |-> quiet,
       emotionOf |-> emotion, attached |-> IF talking THEN emotion ELSE 0]

ProcessEdgeFrame(speech) ==
  /\ Len(frames) < MaxEpFrames
  /\ frames' = Append(frames, speech)
  /\ ep' = Advance(ep, speech)
  /\ fx' = Extract(fx, speech)
  /\ marks' = Append(marks, Decision(ep, ep'))

ResetEndpointing ==
  /\ ep' = EpReset /\ fx' = FxReset
  /\ frames' = <<>> /\ marks' = <<>>

EpNext == ResetEndpointing \/ \E speech \in BOOLEAN : ProcessEdgeFrame(speech)

EpSpec == EpInit /\ [][EpNext]_epVars

-----------------------------------------------------------------------------

(* Some n frames in a row, the last of them frame i, are all of kind k. *)
RunOf(k, n, i) == i >= n /\ \A j \in i - n + 1 .. i : frames[j] = k

(* The user speaks at frame i, by what was heard alone: an onset has come   *)
(* and no pause of e frames since.                                         *)
Speaking(i, e) ==
  \E o \in 1 .. i : RunOf(TRUE, StartFrames, o) /\ \A j \in o .. i : ~RunOf(FALSE, e, j)

Confirmations == {i \in DOMAIN marks : marks[i].confirmed}

(* Pauses do not split an utterance and blips do not start one.            *)
SpeechIsDebounced ==
  /\ ep.inSpeech = Speaking(Len(frames), EndFrames)
  /\ fx.inSpeech = Speaking(Len(frames), FxEndFrames)

(* A turn's end is confirmed within silence of the hangover's length, and  *)
(* never twice without an utterance in between; a stretch of speech that   *)
(* is long enough and followed by such silence ends a turn right there,    *)
(* whatever pauses, blips and turns came before it.                        *)
TurnsEndOnce ==
  LET wait == IF Hangover > EndFrames THEN Hangover ELSE EndFrames
      need == IF MinSpeech > StartFrames THEN MinSpeech ELSE StartFrames
  IN  /\ \A i \in Confirmations :
           /\ RunOf(FALSE, Hangover, i)
           /\ \E o \in 1 .. i :
                /\ marks[o].started
                /\ \A c \in Confirmations : c < i => c < o
      /\ \A i \in DOMAIN frames :
           RunOf(FALSE, wait, i) /\ RunOf(TRUE, need, i - wait) => i \in Confirmations

(* An emotion attached to a frame was computed in the same utterance.      *)
EmotionOfThisUtterance ==
  fx.attached # 0 =>
    \A j \in fx.attached .. Len(frames) : Speaking(j, FxEndFrames)

EndpointsMatchTheAudio == SpeechIsDebounced /\ TurnsEndOnce /\ EmotionOfThisUtterance

-----------------------------------------------------------------------------
(***************************************************************************)
(* edge/barge_in/detector.py: barge-in with decay, onset and cooldown.     *)
(***************************************************************************)

CONSTANTS
  EdgeMinFrames, \* _min_speech_frames
  EdgeCooldown,  \* cooldown_ms
  MaxBargeTime   \* bound on the clock

ASSUME EdgeBargeInAssumption == EdgeMinFrames \in Nat \ {0} /\ EdgeCooldown \in Nat

VARIABLES bd, btime

edgeBargeVars == <<bd, btime>>

Never == -1
EdgeDetectorReset == [since |-> Never, run |-> 0, onset |-> Never, last |-> Never, latency |-> Never,
                  playing |-> Never]

EdgeBargeInit == bd = EdgeDetectorReset /\ btime = 0

(* A mutation: what was heard in one playback counts in the next one. *)
SetSpeakingKeepingCount(on) ==
  /\ bd' = IF on THEN [bd EXCEPT !.since = IF @ = Never THEN btime ELSE @]
           ELSE [bd EXCEPT !.since = Never]
  /\ UNCHANGED btime

(* set_agent_speaking(): turning it off forgets what was heard. *)
SetSpeaking(on) ==
  /\ bd' = IF on THEN [bd EXCEPT !.since = IF @ = Never THEN btime ELSE @]
           ELSE [bd EXCEPT !.since = Never, !.run = 0, !.onset = Never]
  /\ UNCHANGED btime

(* The counter and the onset it counts from, for one frame. *)
Counted(speech) ==
  LET run == IF speech THEN bd.run + 1 ELSE IF bd.run > 0 THEN bd.run - 1 ELSE 0
  IN  [bd EXCEPT !.run = run,
                 !.onset = IF speech /\ bd.run = 0 THEN btime ELSE IF run = 0 THEN Never ELSE @]

CoolingDown(d) == d.last # Never /\ btime - d.last < EdgeCooldown

(* check(): the cooldown is looked at after the frame was counted. *)
CheckFrame(speech) ==
  /\ btime < MaxBargeTime /\ btime' = btime + 1
  /\ bd' = IF bd.since = Never THEN [bd EXCEPT !.run = 0, !.onset = Never]
           ELSE LET d == Counted(speech) IN
                IF CoolingDown(d) \/ d.run < EdgeMinFrames THEN d
                ELSE [d EXCEPT !.last = btime, !.run = 0, !.onset = Never,
                               !.latency = btime - (IF d.onset # Never THEN d.onset ELSE btime),
                               !.playing = btime - d.since]

ResetEdgeDetector ==
  /\ bd' = [bd EXCEPT !.since = Never, !.run = 0, !.onset = Never, !.last = Never]
  /\ UNCHANGED btime

EdgeBargeTick == btime < MaxBargeTime /\ btime' = btime + 1 /\ UNCHANGED bd

EdgeBargeNext == ResetEdgeDetector \/ EdgeBargeTick \/ \E on \in BOOLEAN : SetSpeaking(on) \/ CheckFrame(on)

EdgeBargeSpec == EdgeBargeInit /\ [][EdgeBargeNext]_edgeBargeVars

-----------------------------------------------------------------------------

(* A detection tells the truth of its delay: the speech it counts began    *)
(* while this playback was on, never in an earlier one, and cannot have    *)
(* been shorter than what is needed to detect it.                          *)
DetectionsAreOfThisPlayback ==
  /\ bd.since # Never /\ bd.onset # Never => bd.since <= bd.onset
  /\ bd.latency # Never => bd.latency \in EdgeMinFrames - 1 .. bd.playing

(* The two detectors of the edge decide by what they heard: no turn ends   *)
(* twice or never at the boundary of a count, and no playback is           *)
(* interrupted by what was counted in an earlier one.                      *)
EdgeDetectorsAreExact == EndpointsMatchTheAudio /\ DetectionsAreOfThisPlayback
=============================================================================
