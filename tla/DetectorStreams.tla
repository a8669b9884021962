------------------------------ MODULE DetectorStreams ------------------------------
(* The detectors of the voice server at work, each on every stream of audio.    *)
EXTENDS SpeechDetectors, FiniteSets, Integers, Sequences

-----------------------------------------------------------------------------
(***************************************************************************)
(* One stream of audio through one SileroVAD: the frames are numbered from *)
(* the last reset, and the segments the detector returns are compared with *)
(* a definition of the utterances of the stream that mentions no detector. *)
(***************************************************************************)

CONSTANT MaxFrames      \* bound: length of the stream

VARIABLES
    vad,        \* the detector
    stream,     \* the frames since the last reset: TRUE where speech is found
    segments    \* the segments returned since the last reset

streamVars == <<vad, stream, segments>>

VadInit ==
    /\ vad = VadReset
    /\ stream = <<>>
    /\ segments = <<>>

\* process_frame on the next frame, known by its number.
Feed(voiced) ==
    /\ Len(stream) < MaxFrames
    /\ LET r == ProcessFrame(vad, Len(stream) + 1, voiced) IN
       /\ vad' = r.vad
       /\ segments' = IF r.segment = NoSegment THEN segments
                      ELSE Append(segments, r.segment)
    /\ stream' = Append(stream, voiced)

\* reset() "for a new session".
ResetVad ==
    /\ stream # <<>>
    /\ vad' = VadReset
    /\ stream' = <<>>
    /\ segments' = <<>>

VadNext == (\E voiced \in BOOLEAN : Feed(voiced)) \/ ResetVad

VadSpec == VadInit /\ [][VadNext]_streamVars

-----------------------------------------------------------------------------
(* The reference: which stretches of the stream are utterances. *)

Frames == 1 .. Len(stream)

Voiced(i) == stream[i]

\* An utterance ends at the last of the first MinSilenceFrames silent frames that
\* follow a voiced one.
Ends == {j \in Frames :
            /\ j > MinSilenceFrames
            /\ Voiced(j - MinSilenceFrames)
            /\ \A i \in (j - MinSilenceFrames + 1) .. j : ~Voiced(i)}

\* The frames between the previous utterance and the end e.
Stretch(e) == {i \in 1 .. e : \A f \in Ends : f < e => i > f}

Smallest(S) == CHOOSE i \in S : \A k \in S : i <= k

\* Of those, an utterance takes the frames from the first voiced one on, and up
\* to PreRollFrames before it.
Utterance(e) ==
    LET onset == Smallest({i \in Stretch(e) : Voiced(i)}) IN
    {i \in Stretch(e) : i + PreRollFrames >= onset}

KeptUtterances == {u \in {Utterance(e) : e \in Ends} :
                       Cardinality(u) >= MinSpeechFrames}

SegmentFrames(s) == {segments[s][k] : k \in DOMAIN segments[s]}

-----------------------------------------------------------------------------
(* Properties *)

\* The segments handed to the pipeline are, in order, exactly the kept utterances
\* of the stream: no voiced frame of a finished utterance is lost, none is handed
\* over twice, pauses shorter than the threshold do not split, and the pre-roll
\* never reaches back into the previous utterance.
SegmentsAreUtterances ==
    /\ {SegmentFrames(s) : s \in DOMAIN segments} = KeptUtterances
    /\ Len(segments) = Cardinality(KeptUtterances)
    /\ \A s \in DOMAIN segments : \A k \in 1 .. Len(segments[s]) - 1 :
          segments[s][k + 1] = segments[s][k] + 1
    /\ \A s \in 1 .. Len(segments) - 1 :
          Last(segments[s]) < Head(segments[s + 1])

\* What the detector still holds is the unfinished end of the stream: nothing the
\* user has begun to say is dropped before the utterance closes.
OpenUtteranceKept ==
    LET tail == {i \in Frames : \A e \in Ends : i > e}
        held == Range(vad.buffer)
    IN  /\ vad.speaking <=> (\E i \in tail : Voiced(i))
        /\ held \subseteq tail
        /\ {i \in tail : Voiced(i)} \subseteq held

\* Both together: what the user says reaches the pipeline once, as it was said.
UtterancesAreKept == SegmentsAreUtterances /\ OpenUtteranceKept

-----------------------------------------------------------------------------
(***************************************************************************)
(* One BargeInDetector fed with the frames of a call while the agent       *)
(* starts and stops speaking.  "heard" remembers the frames the detector   *)
(* may count: those checked while the agent speaks, outside the cooldown,  *)
(* since its count last began from nothing.                                *)
(***************************************************************************)

CONSTANT MaxHeard       \* bound: frames checked in one stretch of agent speech

VARIABLES
    det,        \* the detector
    heard,      \* the countable frames: TRUE where speech is found
    gap,        \* time since the last reported barge-in, up to the cooldown
    event       \* the last step reported a barge-in

bargeVars == <<det, heard, gap, event>>

BargeInit ==
    /\ det = DetectorReset
    /\ heard = <<>>
    /\ gap = Cooldown
    /\ event = FALSE

\* What one barge-in was reported for is not kept for the next.
Kept == IF event THEN <<>> ELSE heard

StartSpeaking ==
    /\ ~det.speaking
    /\ det' = SetAgentSpeaking(det, TRUE)
    /\ heard' = <<>>
    /\ event' = FALSE
    /\ UNCHANGED gap

StopSpeaking ==
    /\ det.speaking
    /\ det' = SetAgentSpeaking(det, FALSE)
    /\ heard' = <<>>
    /\ event' = FALSE
    /\ UNCHANGED gap

Check(voiced) ==
    /\ Len(Kept) < MaxHeard
    /\ LET v == CheckBargeIn(det, voiced) IN
       /\ det' = v.detector
       /\ event' = v.event
       /\ gap' = IF v.event THEN 0 ELSE gap
    /\ heard' = IF det.speaking /\ gap = Cooldown THEN Append(Kept, voiced) ELSE Kept

Tick ==
    /\ det' = Elapse(det, 1)
    /\ heard' = Kept
    /\ gap' = IF gap < Cooldown THEN gap + 1 ELSE gap
    /\ event' = FALSE

\* reset() forgets the last barge-in too.
ResetDetector ==
    /\ det' = DetectorReset
    /\ heard' = <<>>
    /\ gap' = Cooldown
    /\ event' = FALSE

BargeNext ==
    \/ StartSpeaking \/ StopSpeaking \/ Tick \/ ResetDetector
    \/ \E voiced \in BOOLEAN : Check(voiced)

BargeSpec == BargeInit /\ [][BargeNext]_bargeVars

-----------------------------------------------------------------------------
(* Properties *)

\* Speech minus silence over the last k countable frames.
Balance(k) ==
    LET last == (Len(heard) - k + 1) .. Len(heard)
        voiced == {i \in last : heard[i]}
    IN Cardinality(voiced) - Cardinality(last \ voiced)

\* The count is the best balance of speech over silence that some stretch up to
\* the present frame reaches, and a barge-in is reported exactly when that
\* reaches the threshold: what has been counted for one barge-in, before the
\* agent began to speak, or during the cooldown, is never counted for another.
CountIsBestBalance ==
    LET Reaches(n) == \E k \in 0 .. Len(heard) : Balance(k) >= n IN
    IF event THEN Reaches(BargeInFrames)
    ELSE /\ Reaches(det.count)
         /\ ~Reaches(det.count + 1)

\* cooldown_ms: whatever frames and pauses lie between, two barge-ins of one
\* stretch between resets are at least the cooldown apart.
EventsAreSpaced == [][event' => gap = Cooldown]_bargeVars
=============================================================================
