------------------------------ MODULE MCComponents ------------------------------
(* Components that share no state, side by side: the detectors of the server   *)
(* and of the edge and the helpers of the turn.  The first state says which one *)
(* moves; the others stay at their start.                                       *)
EXTENDS DetectorStreams, EdgeDetectors, Helpers

detectorVars == <<streamVars, bargeVars, epVars, edgeBargeVars>>
mcVars == <<detectorVars, helperVars, toolingVars, part>>

SomePhrases == <<[category |-> "greeting", language |-> "en", tone |-> "warm"],
                 [category |-> "greeting", language |-> "hi", tone |-> "warm"],
                 [category |-> "confirmation", language |-> "en", tone |-> "calm"],
                 [category |-> "empathy", language |-> "en", tone |-> "calm"],
                 [category |-> "stall", language |-> "hi", tone |-> "calm"]>>
SomeWords == [i \in {"greeting", "farewell", "confirmation", "acknowledgment"} |->
              [l \in {"en", "hi"} |-> CASE i = "greeting" -> IF l = "en" THEN {"hello"} ELSE {"namaste"}
                                        [] i = "confirmation" -> IF l = "en" THEN {"ok"} ELSE {"haan"}
                                        [] OTHER -> IF l = "en" THEN {"ok"} ELSE {"bye"}]]
SomeRouted == {[words |-> w, count |-> n] : w \in {{"hello", "ok"}, {"namaste"}, {"haan"}, {"x"}}, n \in {2, 4, 6}}
SomeSpoken == {[letters |-> 10, hindi |-> 3, markers |-> 2, blank |-> FALSE],
               [letters |-> 10, hindi |-> 4, markers |-> 0, blank |-> FALSE],
               [letters |-> 0, hindi |-> 0, markers |-> 0, blank |-> TRUE]}
SomeBank == <<[category |-> "greeting", confidence |-> 200, priority |-> 1, safety |-> "safe", short |-> TRUE],
              [category |-> "stall", confidence |-> 0, priority |-> 1, safety |-> "safe", short |-> TRUE],
              [category |-> "empathy", confidence |-> 300, priority |-> 1, safety |-> "safe", short |-> TRUE],
              [category |-> "greeting", confidence |-> 100, priority |-> 2, safety |-> "needs_review", short |-> TRUE]>>
SomeTurns == {[words |-> 1, says |-> {"greeting"}, emotion |-> "none", asr |-> 20],
              [words |-> 1, says |-> {"greeting"}, emotion |-> "none", asr |-> 14],
              [words |-> 2, says |-> {"greeting"}, emotion |-> "sad", asr |-> 20],
              [words |-> 0, says |-> {}, emotion |-> "sad", asr |-> 20],
              [words |-> 6, says |-> {"greeting"}, emotion |-> "none", asr |-> 20]}
Certain(i) == [j \in LabelIndex |-> IF j = i THEN 2 ELSE 0]
SomeFeelings == {Certain(1), Certain(4), [j \in LabelIndex |-> IF j \in {3, 5} THEN 1 ELSE 0]}

SomeMoods == {[arousal |-> -One, warmth |-> 5000, intensity |-> 0], [arousal |-> One, warmth |-> 0, intensity |-> One]}
SomeTexts == {[words |-> <<2>>, ends |-> {1}], [words |-> <<3, 3, 2, 2>>, ends |-> {2, 4}],
              [words |-> <<5, 2, 3, 3>>, ends |-> {3, 4}], [words |-> <<3, 3, 4>>, ends |-> {1, 2, 3}],
              [words |-> <<3, 3, 4>>, ends |-> {2, 3}]}
SomeCriteria == [latency |-> [operator |-> "<=", threshold |-> 1], quality |-> [operator |-> ">", threshold |-> 0]]
SomeMeasured == {0, 2, NaN, Missing}
SomePhases == <<[vram |-> 0, track |-> "LEAN"], [vram |-> 24, track |-> "LEAN"], [vram |-> 80, track |-> "AMBITIOUS"]>>
Ladder == <<[gpu |-> "CPU", vram |-> 0], [gpu |-> "T4-16GB", vram |-> 16], [gpu |-> "L4-24GB", vram |-> 24],
            [gpu |-> "A10G-24GB", vram |-> 24], [gpu |-> "A100-40GB", vram |-> 40],
            [gpu |-> "A100-80GB", vram |-> 80], [gpu |-> "H100-80GB", vram |-> 80]>>
SomeClaims == {NotANumber, 0, 15, 16, 23, 24, 39, 79, 80}
SomeWeights == [quality |-> 2, latency |-> 1]
SomeMinimums == [quality |-> 1, latency |-> 1]
Scored == [id : {"m1", "m2"}, scores : [{"quality", "latency"} -> 0 .. 2]]
SomeChoices == UNION {[1 .. n -> Scored] : n \in 0 .. 2}
Raw(i, source, status, proof, canTrain, provenance) ==
    [id |-> i, kind |-> IF i = "a" THEN "hinglish_pair" ELSE "preference", source |-> source, status |-> status,
     proof |-> proof, canTrain |-> canTrain, provenance |-> provenance, consent |-> i = "a" \/ canTrain]
SomeRaw == {Raw("a", "real_consented", "granted", TRUE, TRUE, TRUE), Raw("a", "real_consented", "granted", FALSE, TRUE, TRUE),
            Raw("a", "real_consented", "revoked", TRUE, TRUE, TRUE), Raw("b", "synthetic", "not_applicable", FALSE, TRUE, TRUE),
            Raw("b", "synthetic", "pending", FALSE, TRUE, TRUE), Raw("b", "synthetic", "granted", TRUE, TRUE, FALSE),
            Raw("b", "synthetic", "granted", TRUE, FALSE, TRUE), Raw("a", "synthetic", "granted", TRUE, FALSE, TRUE)}

DetectorParts == {"vad", "barge-in", "endpointing", "edge barge-in"}
HelperParts == {"phrases", "tts", "llm", "emotion", "speaker", "sessions", "filler"}
ToolingParts == {"persona", "summary", "duplex", "guard", "licenses", "budget", "choice", "training"}

MCInit ==
    /\ VadInit /\ BargeInit /\ EpInit /\ EdgeBargeInit /\ HelpersInit
    /\ ToolingInit
    /\ part \in DetectorParts \union HelperParts \union ToolingParts
    /\ part # "guard" => detector = "default"  \* looked at by the guard only

DetectorsNext ==
    \/ part = "vad" /\ VadNext /\ UNCHANGED <<bargeVars, epVars, edgeBargeVars>>
    \/ part = "barge-in" /\ BargeNext /\ UNCHANGED <<streamVars, epVars, edgeBargeVars>>
    \/ part = "endpointing" /\ EpNext /\ UNCHANGED <<streamVars, bargeVars, edgeBargeVars>>
    \/ part = "edge barge-in" /\ EdgeBargeNext /\ UNCHANGED <<streamVars, bargeVars, epVars>>

MCNext ==
    /\ \/ DetectorsNext /\ UNCHANGED <<helperVars, toolingVars>>
       \/ HelpersNext /\ UNCHANGED <<detectorVars, toolingVars>>
       \/ ToolingNext /\ UNCHANGED <<detectorVars, helperVars>>
    /\ UNCHANGED part

MCSpec == MCInit /\ [][MCNext]_mcVars
=============================================================================
