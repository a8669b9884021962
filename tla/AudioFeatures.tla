------------------------------ MODULE AudioFeatures ------------------------------
(* What the server reads from a segment besides its words: a feeling and a      *)
(* speaker.                                                                     *)
EXTENDS Integers, Sequences

-----------------------------------------------------------------------------
(* The emotion of a voice: the server's extractor (server/pipeline/emotion.py)  *)
(* and the edge sidecar (edge/emotion/extractor.py), with what each says when   *)
(* its model is missing or fails.  Dimensions are in twentieths, confidences in *)
(* halves: a model spreads two halves over the labels.                          *)

EmotionLabels == <<"neutral", "happy", "sad", "angry", "fear", "disgust", "surprise">>
\* _EMOTION_VAD, in tenths.
Valence == <<0, 8, -6, -4, -6, -5, 2>>
Arousal == <<0, 6, -3, 8, 7, 3, 7>>
Dominance == <<0, 5, -5, 7, -6, 3, 0>>

LabelIndex == DOMAIN EmotionLabels

CONSTANT ModelScores  \* what a model may say: functions from LabelIndex to halves, two in all

Total(f) == f[1] + f[2] + f[3] + f[4] + f[5] + f[6] + f[7]
ASSUME EmotionAssumption == \A f \in ModelScores : f \in [LabelIndex -> 0 .. 2] /\ Total(f) = 2

VARIABLES serverEmotion,  \* the server's model: "absent" or "loaded"
          edgeEmotion,    \* the edge's: "untried", "loaded" or "failed"
          emotion,        \* the last result
          scores,         \* all_scores of it, empty without a model
          emotionSource   \* what it was made from

emotionVars == <<serverEmotion, edgeEmotion, emotion, scores, emotionSource>>

Feeling(label, confidence, v, a, d) ==
    [label |-> label, confidence |-> confidence, valence |-> v, arousal |-> a, dominance |-> d]

Neutral(confidence) == Feeling("neutral", confidence, 0, 0, 0)

EmotionInit ==
    /\ serverEmotion = "absent"
    /\ edgeEmotion = "untried"
    /\ emotion = Neutral(0)
    /\ scores = <<>>
    /\ emotionSource = "none"

\* load_model; one that fails raises and leaves no model.
LoadEmotionModel ==
    /\ serverEmotion' = "loaded"
    /\ UNCHANGED <<edgeEmotion, emotion, scores, emotionSource>>

Dominant(f) == CHOOSE i \in LabelIndex :
    \A j \in LabelIndex : f[i] > f[j] \/ (f[i] = f[j] /\ i <= j)

Weighted(table, f) == Total([i \in LabelIndex |-> table[i] * f[i]])

FromScores(f) ==
    Feeling(EmotionLabels[Dominant(f)], f[Dominant(f)],
            Weighted(Valence, f), Weighted(Arousal, f), Weighted(Dominance, f))

Extracted(e, f, from) == emotion' = e /\ scores' = f /\ emotionSource' = from

\* extract on the server: sure of "neutral" without a model, of nothing after a failure.
ExtractOnServer(f, fails) ==
    /\ IF serverEmotion = "absent" THEN Extracted(Neutral(2), <<>>, "none")
       ELSE IF fails THEN Extracted(Neutral(0), <<>>, "none")
       ELSE Extracted(FromScores(f), f, "model")
    /\ UNCHANGED <<serverEmotion, edgeEmotion>>

\* _try_load: once, whether it works or not.
TryLoad(model, loads) ==
    IF model # "untried" THEN model ELSE IF loads THEN "loaded" ELSE "failed"

Clamp(x) == IF x < -20 THEN -20 ELSE IF x > 20 THEN 20 ELSE x

Distance(i, v, a, d) ==
    (2 * Valence[i] - v) * (2 * Valence[i] - v) + (2 * Arousal[i] - a) * (2 * Arousal[i] - a)
    + (2 * Dominance[i] - d) * (2 * Dominance[i] - d)

NearestLabel(v, a, d) == EmotionLabels[CHOOSE i \in LabelIndex : \A j \in LabelIndex :
    \/ Distance(i, v, a, d) < Distance(j, v, a, d)
    \/ Distance(i, v, a, d) = Distance(j, v, a, d) /\ i <= j]

\* The estimate from the sound alone: rms is 0.2 * loud, the zero-crossing rate
\* 0.4 * crossings.
FallbackEmotion(loud, crossings) ==
    LET v == Clamp(20 * crossings - 9 - 2 * loud)
        a == Clamp(16 * loud - 4)
        d == Clamp(8 * loud - 2)
    IN Feeling(NearestLabel(v, a, d), IF loud = 0 THEN 0 ELSE 2, v, a, d)

\* extract at the edge: a model that fails once is never asked again.
ExtractOnEdge(f, loads, fails, loud, crossings) ==
    /\ edgeEmotion' = IF TryLoad(edgeEmotion, loads) = "loaded" /\ ~fails THEN "loaded" ELSE "failed"
    /\ IF edgeEmotion' = "loaded" THEN Extracted(FromScores(f), f, "model")
       ELSE Extracted(FallbackEmotion(loud, crossings), <<>>, "sound")
    /\ UNCHANGED serverEmotion

EmotionNext ==
    \/ LoadEmotionModel
    \/ \E f \in ModelScores, fails \in BOOLEAN : ExtractOnServer(f, fails)
    \/ \E f \in ModelScores, l, fails \in BOOLEAN, loud \in 0 .. 2, c \in 0 .. 1 :
          ExtractOnEdge(f, l, fails, loud, c)

EmotionSpec == EmotionInit /\ [][EmotionNext]_emotionVars

-----------------------------------------------------------------------------
\* No model, no feeling: the server stays neutral in all dimensions, the edge is
\* confident of nothing it cannot hear.  A model's label is one of its strongest
\* and as confident as that; what is sure to be one label has its dimensions; and
\* nothing leaves the scale.
EmotionIsFounded ==
    /\ emotionSource = "none" => emotion \in {Neutral(0), Neutral(2)}
    /\ emotionSource = "sound" /\ edgeEmotion = "failed" /\ emotion.arousal < 0 =>
          emotion.confidence = 0
    /\ emotionSource = "model" =>
          \E i \in LabelIndex :
             /\ EmotionLabels[i] = emotion.label /\ scores[i] = emotion.confidence
             /\ \A j \in LabelIndex : scores[j] <= scores[i]
             /\ scores[i] = 2 => emotion.valence = 2 * Valence[i] /\ emotion.arousal = 2 * Arousal[i]
    /\ {emotion.valence, emotion.arousal, emotion.dominance} \subseteq -20 .. 20

-----------------------------------------------------------------------------
(* The embedding of a voice and the comparison of two: the server's encoder     *)
(* (server/pipeline/speaker.py) and the edge sidecar (edge/speaker/encoder.py). *)
(* The 192 numbers of an embedding are two small integers.                      *)

ZeroEmbedding == <<0, 0>>
Embeddings == {<<1, 0>>, <<4, 3>>, <<3, -4>>}

VARIABLES serverSpeaker,  \* the server's model: "absent" or "loaded"
          edgeSpeaker,    \* the edge's: "untried", "loaded" or "failed"
          voices          \* the last two embeddings, each with what it came from

speakerVars == <<serverSpeaker, edgeSpeaker, voices>>

NoVoice == [vector |-> ZeroEmbedding, from |-> "nothing"]

SpeakerInit ==
    /\ serverSpeaker = "absent"
    /\ edgeSpeaker = "untried"
    /\ voices = <<NoVoice, NoVoice>>

LoadSpeakerModel ==
    /\ serverSpeaker' = "loaded"
    /\ UNCHANGED <<edgeSpeaker, voices>>

Keep(vector, from) == voices' = <<voices[2], [vector |-> vector, from |-> from]>>

\* extract_embedding: all zeros without a model and after a failure.
ExtractEmbedding(v, fails) ==
    /\ IF serverSpeaker = "loaded" /\ ~fails THEN Keep(v, "model")
       ELSE Keep(ZeroEmbedding, "nothing")
    /\ UNCHANGED <<serverSpeaker, edgeSpeaker>>

\* encode: the model is tried once and given up at its first failure; then the
\* samples' energies are hashed, and silence is all zeros.
Encode(v, loads, fails, silent) ==
    LET usable == edgeSpeaker = "loaded" \/ (edgeSpeaker = "untried" /\ loads)
    IN /\ edgeSpeaker' = IF usable /\ ~fails THEN "loaded" ELSE "failed"
       /\ IF edgeSpeaker' = "loaded" THEN Keep(v, "model")
          ELSE IF silent THEN Keep(ZeroEmbedding, "nothing")
          ELSE Keep(v, "hash")
       /\ UNCHANGED serverSpeaker

SpeakerNext ==
    \/ LoadSpeakerModel
    \/ \E v \in Embeddings, fails \in BOOLEAN : ExtractEmbedding(v, fails)
    \/ \E v \in Embeddings, l, fails, silent \in BOOLEAN : Encode(v, l, fails, silent)

SpeakerSpec == SpeakerInit /\ [][SpeakerNext]_speakerVars

Dot(a, b) == a[1] * b[1] + a[2] * b[2]

\* cosine_similarity against the threshold of 3/4, without the roots; the
\* similarity of a zero vector is zero.
IsSameSpeaker(a, b) ==
    /\ Dot(a, a) # 0 /\ Dot(b, b) # 0
    /\ Dot(a, b) > 0 /\ 16 * Dot(a, b) * Dot(a, b) >= 9 * Dot(a, a) * Dot(b, b)

-----------------------------------------------------------------------------
\* Who is recognised was heard: two failures, two silences or a missing model are
\* not the same speaker, although they are the same vector; a voice is itself and
\* is the same both ways round.
NobodyIsRecognisedInNothing ==
    /\ IsSameSpeaker(voices[1].vector, voices[2].vector) =>
          voices[1].from # "nothing" /\ voices[2].from # "nothing"
    /\ IsSameSpeaker(voices[1].vector, voices[2].vector)
          <=> IsSameSpeaker(voices[2].vector, voices[1].vector)
    /\ voices[2].from # "nothing" => IsSameSpeaker(voices[2].vector, voices[2].vector)
    /\ edgeSpeaker = "untried" => \A i \in 1 .. 2 : voices[i].from # "hash"
=============================================================================
