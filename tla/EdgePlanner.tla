------------------------------ MODULE EdgePlanner ------------------------------
(* The planner of the edge: replies begun before the user is done, and the      *)
(* handover from an onset to the answer.                                        *)
EXTENDS Integers, FiniteSets, Sequences, SequencesExt

-----------------------------------------------------------------------------
(***************************************************************************)
(* edge/planner/short_turn.py and speculation.py: a partial transcript is  *)
(* classified, an early onset may be started on the strength of it, and    *)
(* the final route commits or cancels it.  Confidences are in hundredths.  *)
(***************************************************************************)

CONSTANTS
  TrivialMaxWords, ShortMaxWords,  \* trivial_max_words, short_max_words
  MinAsr,                          \* min_asr_confidence
  EmotionGate,                     \* emotional_arousal_gate
  MinConfidence,                   \* min_confidence of the controller
  WordCounts, Confidences,         \* the transcripts' sizes and the estimates tried
  MaxStarted                       \* bound on speculations

\* As the defaults: known phrases are shorter than short turns, and emotional
\* words alone, whose signal is 60, are enough.
ASSUME ThresholdAssumption ==
  /\ TrivialMaxWords \in Nat /\ ShortMaxWords \in Nat /\ TrivialMaxWords <= ShortMaxWords
  /\ MinAsr \in Nat /\ EmotionGate \in Nat /\ EmotionGate <= 60 /\ MinConfidence \in Nat
  /\ WordCounts \subseteq Nat /\ Confidences \subseteq Nat /\ MaxStarted \in Nat

VARIABLES active, spec, basis

specVars == <<active, spec, basis>>

(* A turn: its number of words, whether it is made of known phrases or     *)
(* acknowledgements (intents nothing tells apart), asks, has emotional words, how far the transcript and *)
(* the emotion estimate are trusted, and whether its audio was short.      *)
TurnInputs ==
  [words : WordCounts, known : BOOLEAN, asks : BOOLEAN, moved : BOOLEAN,
   asr : Confidences, affect : Confidences, shortAudio : BOOLEAN]

Result(class, conf, route, intent, fillerFirst) ==
  [class |-> class, conf |-> conf, route |-> route, intent |-> intent, fillerFirst |-> fillerFirst]

EmotionalSignal(i) ==
  LET lexical == IF i.moved /\ i.words > 0 THEN 60 ELSE 0
  IN  IF i.affect > lexical THEN i.affect ELSE lexical

Classify(i) ==
  IF i.words > 0 /\ i.asr < MinAsr
  THEN Result("uncertain", 100 - i.asr, "full_stack", "uncertain", FALSE)
  ELSE IF EmotionalSignal(i) >= EmotionGate
  THEN Result("emotional", EmotionalSignal(i), "full_stack", "emotional", TRUE)
  ELSE IF i.words = 0 /\ i.shortAudio THEN Result("trivial", 40, "cached_filler", "known", FALSE)
  ELSE IF i.words = 0 THEN Result("uncertain", 50, "full_stack", "unknown", FALSE)
  ELSE IF i.words <= TrivialMaxWords /\ ~i.asks /\ i.known
  THEN Result("trivial", 90, "cached_filler", "known", FALSE)
  ELSE IF i.words <= ShortMaxWords THEN Result("short", 70, "full_stack", "short", TRUE)
  ELSE Result("complex", 60, "full_stack", "complex", FALSE)

(* _mode_for *)
ModeFor(r) ==
  IF r.class = "uncertain" \/ (r.conf < MinConfidence /\ r.route # "cached_filler") THEN "none"
  ELSE IF r.class = "emotional" THEN "empathetic_filler"
  ELSE IF r.route = "cached_filler" THEN "filler"
  ELSE IF r.class = "short" THEN "short_answer"
  ELSE IF r.fillerFirst THEN "filler" ELSE "none"

(* _is_compatible; the final route is silent_wait, cached_filler or        *)
(* full_stack with an intent.                                              *)
Compatible(mode, r) ==
  /\ r.route # "silent_wait"
  /\ mode = "short_answer" => r.route = "full_stack" /\ r.intent = "short"

SpecInit ==
  /\ active = "none" /\ basis = {}
  /\ spec = [started |-> 0, committed |-> 0, cancelled |-> 0, dropped |-> 0]

(* decide() and start(): refused while another one is active. *)
Speculate(i) ==
  /\ spec.started < MaxStarted
  /\ LET mode == ModeFor(Classify(i)) IN
     IF mode = "none" \/ active # "none" THEN UNCHANGED specVars
     ELSE /\ active' = mode /\ basis' = {i}
          /\ spec' = [spec EXCEPT !.started = @ + 1]

Resolve(how) ==
  IF active = "none" THEN UNCHANGED specVars
  ELSE /\ active' = "none" /\ basis' = {}
       /\ spec' = [spec EXCEPT ![how] = @ + 1]

Cancel == Resolve("cancelled")
Commit == Resolve("committed")

(* reconcile() with the final route. *)
FinalRoutes ==
  {Result("final", 100, route, intent, FALSE) :
     route \in {"silent_wait", "cached_filler", "full_stack"}, intent \in {"short", "complex"}}

Reconcile(r) == IF Compatible(active, r) THEN Commit ELSE Cancel

(* reset() drops what is active without counting it. *)
DropSpeculation ==
  /\ active' = "none" /\ basis' = {}
  /\ spec' = [spec EXCEPT !.dropped = @ + (IF active = "none" THEN 0 ELSE 1)]

SpecNext ==
  \/ Cancel \/ Commit \/ DropSpeculation
  \/ \E i \in TurnInputs : Speculate(i)
  \/ \E r \in FinalRoutes : Reconcile(r)

SpecSpec == SpecInit /\ [][SpecNext]_specVars

-----------------------------------------------------------------------------

(* Every speculation that was started is active or was resolved, once.     *)
ResolvedOnce ==
  spec.started = spec.committed + spec.cancelled + spec.dropped + (IF active = "none" THEN 0 ELSE 1)

(* What is played early was understood: words are answered early only if   *)
(* their transcript is trusted and they do not carry strong emotion, an    *)
(* emotional turn gets no less than an empathetic onset, and long turns    *)
(* and turns without words or a short sound get none (short_turn.py:142).  *)
PlayedOnGoodGrounds ==
  \A i \in basis :
    /\ i.words <= ShortMaxWords \/ active = "empathetic_filler"
    /\ active = "short_answer" =>
         i.words > 0 /\ i.asr >= MinAsr /\ ~i.moved /\ i.affect < EmotionGate
    /\ active = "filler" =>
         /\ i.affect < EmotionGate
         /\ IF i.words = 0 THEN i.shortAudio ELSE i.known /\ i.asr >= MinAsr /\ ~i.moved
    /\ active = "empathetic_filler" => i.words = 0 \/ i.asr >= MinAsr

SpeculationIsSound == ResolvedOnce /\ PlayedOnGoodGrounds

-----------------------------------------------------------------------------
(***************************************************************************)
(* edge/planner/handoff.py: a filler, the main answer, and the hand-over   *)
(* from one to the other in whatever order they become ready.              *)
(***************************************************************************)

CONSTANTS
  Words,      \* words of a text
  Dash,       \* a word of punctuation only
  MaxWords    \* words of a text (bound)

ASSUME TextAssumption == MaxWords \in Nat

VARIABLES
  onset,      \* OnsetState
  filler,     \* _filler_text
  spoken,     \* _spoken: the texts committed to playback
  answer      \* the main texts handed over in this turn

handoffVars == <<onset, filler, spoken, answer>>

Texts == BoundedSeq(Words, MaxWords)

HandoffInit == onset = "idle" /\ filler = <<>> /\ spoken = <<>> /\ answer = <<>>

(* The words of a text that are not punctuation only, in their order.      *)
WordsAt(text) == {i \in DOMAIN text : text[i] # Dash}
WordNo(text, n) ==
  CHOOSE i \in WordsAt(text) : Cardinality({j \in WordsAt(text) : j <= i}) = n
Plain(text) == [n \in 1 .. Cardinality(WordsAt(text)) |-> text[WordNo(text, n)]]

(* How many leading words of main are the filler's. *)
Overlap(f, main) ==
  LET n == IF Len(f) < Len(main) THEN Len(f) ELSE Len(main)
      k == {i \in 0 .. n : \A j \in 1 .. i : f[j] = main[j]}
  IN  CHOOSE i \in k : \A j \in k : j <= i

(* lstrip of the punctuation at the seam. *)
WithoutLeadingDashes(text) ==
  LET n == {i \in 0 .. Len(text) : \A j \in 1 .. i : text[j] = Dash}
      first == CHOOSE i \in n : \A j \in n : j <= i
  IN  SubSeq(text, first + 1, Len(text))

(* A mutation: only an answer that is a copy of the filler is noticed. *)
StripWholeDuplicate(f, main) == IF main = f THEN <<>> ELSE main

StripLeadingDuplicate(f, main) ==
  LET k == Overlap(Plain(f), main)
  IN  IF k = 0 THEN main ELSE WithoutLeadingDashes(SubSeq(main, k + 1, Len(main)))

BeginFiller(text) ==
  /\ IF onset = "idle"
     THEN onset' = "filler_playing" /\ filler' = text /\ spoken' = Append(spoken, text)
     ELSE UNCHANGED <<onset, filler, spoken>>
  /\ UNCHANGED answer

HandoffToMain(main) ==
  LET rest == StripLeadingDuplicate(filler, main) IN
  IF onset \in {"main_playing", "done"} THEN UNCHANGED handoffVars
  ELSE /\ onset' = "main_playing"
       /\ spoken' = IF onset = "idle" THEN Append(spoken, main)
                    ELSE IF rest = <<>> THEN spoken ELSE Append(spoken, rest)
       /\ answer' = Append(answer, main)
       /\ UNCHANGED filler

(* suppress_filler() changes nothing: a filler may still be begun. *)
SuppressFiller == UNCHANGED handoffVars

Complete == onset' = "done" /\ UNCHANGED <<filler, spoken, answer>>

NewTurn == onset' = "idle" /\ filler' = <<>> /\ spoken' = <<>> /\ answer' = <<>>

HandoffNext ==
  \/ SuppressFiller \/ Complete \/ NewTurn
  \/ \E text \in Texts : BeginFiller(text) \/ HandoffToMain(text)

HandoffSpec == HandoffInit /\ [][HandoffNext]_handoffVars

-----------------------------------------------------------------------------

(* What is heard of the texts committed to playback, one or two.           *)
Heard == IF Len(spoken) = 1 THEN Plain(spoken[1]) ELSE Plain(spoken[1]) \o Plain(spoken[2])

(* The user hears the whole answer, and none of it twice: behind the       *)
(* filler comes the answer without a leading part that the filler has just *)
(* said, all of that part unless a dash divides it; one filler at most,    *)
(* one answer at most, and no filler behind the answer (handoff.py:73,     *)
(* :149).                                                                  *)
HeardOnce ==
  /\ Len(answer) <= 1 /\ Len(spoken) <= 2
  /\ answer # <<>> =>
       LET main == Plain(answer[1])
           said == Plain(filler)
           common == {k \in 0 .. Len(main) : IsPrefix(SubSeq(main, 1, k), said)}
       IN  \E k \in common :
             /\ spoken # <<>> /\ Heard = said \o SubSeq(main, k + 1, Len(main))
             /\ main = answer[1] => \A j \in common : j <= k

(* The planner: speculation is resolved once and on good grounds, and      *)
(* filler and answer are heard once, whichever of them is ready first.     *)
PlannerIsSound == SpeculationIsSound /\ HeardOnce
=============================================================================
