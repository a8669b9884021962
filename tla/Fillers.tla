------------------------------ MODULE Fillers ------------------------------
(* What is said while the answer is not there: the server's phrases and the     *)
(* client's filler layer.                                                       *)
EXTENDS Integers, Sequences, FiniteSets

-----------------------------------------------------------------------------
(* The server's filler phrases and the router that uses them                    *)
(* (server/pipeline/filler.py): which phrase answers or covers an utterance.    *)
(* A text is its set of words and its number of words.                          *)

CONSTANTS PhraseData,   \* phrases.json: a sequence of [category, language, tone]
          IntentWords,  \* intent_keywords: category -> language -> words
          RoutedTexts   \* the texts that are lastAsked about: [words, count]

ASSUME PhraseAssumption ==
    /\ PhraseData \in Seq([category : STRING, language : STRING, tone : STRING])
    /\ \A text \in RoutedTexts : text.count \in Nat

NoPhrase == 0
AnyTone == "None"
PhraseLanguages == {"en", "hi"}
Unrouted == [action |-> "none", filler |-> NoPhrase, intent |-> "none"]

VARIABLES phrases,   \* _phrases, by their position in the file
          sounding,  \* those with audio
          lastAsked,     \* the last question
          routing    \* and its RoutingDecision

routerVars == <<phrases, sounding, lastAsked, routing>>

RouterInit ==
    /\ phrases = {}
    /\ sounding = {}
    /\ lastAsked = [text |-> [words |-> {}, count |-> 0], language |-> "en", emotion |-> "None"]
    /\ routing = Unrouted

LoadPhrases ==
    /\ phrases = {}
    /\ phrases' = DOMAIN PhraseData
    /\ UNCHANGED <<sounding, lastAsked, routing>>

\* One synthesis per phrase; a phrase whose synthesis fails or is empty stays mute.
PreSynthesizeAudio(made) ==
    /\ sounding = {}
    /\ made \subseteq phrases
    /\ sounding' = sounding \union made
    /\ routing' = Unrouted
    /\ UNCHANGED <<phrases, lastAsked>>

OfCategory(category) == {p \in phrases : PhraseData[p].category = category}

\* get_phrase chooses one of these at random, and None when there is none.
PhraseChoices(category, language, tone) ==
    LET own == {p \in OfCategory(category) : PhraseData[p].language = language}
        toned == {p \in own : PhraseData[p].tone = tone}
        wanted == IF tone # AnyTone /\ toned # {} THEN toned ELSE own
    IN IF wanted \intersect sounding # {} THEN wanted \intersect sounding
       ELSE OfCategory(category) \intersect sounding

GetPhrase(category, language, tone) ==
    LET found == PhraseChoices(category, language, tone)
    IN IF found = {} THEN {NoPhrase} ELSE found

\* The trivial intents in the order they are tried, and their longest texts.
TrivialIntents == <<"greeting", "farewell", "confirmation", "acknowledgment">>
LongestText == <<5, 5, 3, 2>>

Keywords(intent, language) == IntentWords[intent][language] \union IntentWords[intent]["en"]

Matches(i, text, language) ==
    /\ text.words \intersect Keywords(TrivialIntents[i], language) # {}
    /\ text.count <= LongestText[i]
    /\ PhraseChoices(TrivialIntents[i], language, AnyTone) # {}

Distress == {"sad", "angry", "fear"}

ClassifyAs(text, language, emotion) ==
    LET matching == {i \in DOMAIN TrivialIntents : Matches(i, text, language)}
        first == TrivialIntents[CHOOSE i \in matching : \A j \in matching : i <= j]
    IN IF emotion \in Distress
       THEN [action |-> "filler_then_pipeline", category |-> "empathy", intent |-> "emotional"]
       ELSE IF matching # {}
       THEN [action |-> "filler_only", category |-> first, intent |-> first]
       ELSE [action |-> "filler_then_pipeline", category |-> "stall", intent |-> "complex"]

Classify(text, language, emotion) ==
    /\ \E p \in GetPhrase(ClassifyAs(text, language, emotion).category, language, AnyTone) :
          routing' = [action |-> ClassifyAs(text, language, emotion).action, filler |-> p,
                      intent |-> ClassifyAs(text, language, emotion).intent]
    /\ lastAsked' = [text |-> text, language |-> language, emotion |-> emotion]
    /\ UNCHANGED <<phrases, sounding>>

RouterNext ==
    \/ LoadPhrases
    \/ \E made \in SUBSET phrases : PreSynthesizeAudio(made)
    \/ \E text \in RoutedTexts, l \in PhraseLanguages, e \in {"sad", "happy"} : Classify(text, l, e)

RouterSpec == RouterInit /\ [][RouterNext]_routerVars

-----------------------------------------------------------------------------
\* A phrase stands for the whole answer only if it can be heard, the user is not
\* in distress and the text is short and says what the phrase answers; and no
\* phrase is in another language than the user's while one of the same kind in
\* it could be heard, whichever syntheses failed.
PhrasesFitTheUser ==
    /\ routing.action = "filler_only" =>
          /\ routing.filler \in sounding
          /\ lastAsked.emotion \notin Distress
          /\ lastAsked.text.count <= 5
          /\ lastAsked.text.words \intersect
                Keywords(PhraseData[routing.filler].category, lastAsked.language) # {}
    /\ routing.filler # NoPhrase =>
          /\ routing.filler \in sounding
          /\ \/ PhraseData[routing.filler].language = lastAsked.language
             \/ \A p \in OfCategory(PhraseData[routing.filler].category) \intersect sounding :
                   PhraseData[p].language # lastAsked.language

-----------------------------------------------------------------------------
(* The client's latency layer: the local router (client/src/router/             *)
(* intent_router.ts) chooses a cached phrase or the full stack, and the filler  *)
(* engine (filler_engine.ts) plays it until the server's answer takes over.     *)
(* Loading a phrase and fading it out are awaits, at which anything may happen. *)
(* Confidences are in twentieths, the bank is of one language.                  *)

CONSTANTS BankPhrases,    \* the phrase bank: a sequence of records
          TrivialMax,     \* trivialMaxWords
          CacheThreshold, \* cacheConfidenceThreshold
          Turns,          \* the turns that are decided: [words, says, emotion, asr]
          MaxPlays,       \* bound: play() calls
          MaxGeneration   \* bound: how far cancellations count

ASSUME FillerAssumption ==
    /\ BankPhrases \in Seq([category : STRING, confidence : Nat, priority : Int,
                            safety : STRING, short : BOOLEAN])
    /\ TrivialMax \in Nat /\ CacheThreshold \in Nat
    /\ \A t \in Turns : t.words \in Nat /\ t.asr \in Nat

NoPhraseId == 0
NoPlay == 0
NoRouting == [route |-> "none", phrase |-> NoPhraseId, intent |-> "none", confidence |-> 0,
               forward |-> FALSE]

VARIABLES fillerEnabled,  \* _enabled
          routed,       \* the last RouteDecision
          turn,           \* the turn it was made for
          activePhrase,   \* activePhraseId
          activeIsSponge,
          generation,
          plays,          \* play() calls so far
          loads,          \* loads in flight: [play, phrase, generation]
          fades,          \* handoffToMain() calls waiting for their fade
          onAir,          \* the play whose filler sounds
          lastVoided      \* the newest play that was cancelled, disabled or handed off

fillerVars == <<fillerEnabled, routed, turn, activePhrase, activeIsSponge, generation, plays,
                loads, fades, onAir, lastVoided>>

NoTurn == [words |-> 0, says |-> {}, emotion |-> "none", asr |-> 20]

FillerInit ==
    /\ fillerEnabled = TRUE
    /\ routed = NoRouting
    /\ turn = NoTurn
    /\ activePhrase = NoPhraseId
    /\ activeIsSponge = FALSE
    /\ generation = 0
    /\ plays = 0
    /\ loads = {}
    /\ fades = 0
    /\ onAir = NoPlay
    /\ lastVoided = NoPlay

-----------------------------------------------------------------------------
Distressed == {"sad", "angry", "fear", "distress"}

\* PhraseBank.search with safeOnly, sorted by priority; pick is its first.
Matching(category, confidence) ==
    {p \in DOMAIN BankPhrases : /\ BankPhrases[p].safety = "safe"
                                /\ BankPhrases[p].category = category
                                /\ BankPhrases[p].confidence <= confidence}

Pick(category, confidence) ==
    IF Matching(category, confidence) = {} THEN NoPhraseId
    ELSE CHOOSE p \in Matching(category, confidence) : \A q \in Matching(category, confidence) :
             \/ BankPhrases[p].priority > BankPhrases[q].priority
             \/ BankPhrases[p].priority = BankPhrases[q].priority /\ p <= q

AnyConfidence == 400

\* The trivial intents in order; a confidence is a product, in 400ths.
Specs == <<[intent |-> "greeting", maxWords |-> 5, base |-> 17],
           [intent |-> "farewell", maxWords |-> 5, base |-> 17],
           [intent |-> "confirmation", maxWords |-> 3, base |-> 16],
           [intent |-> "acknowledgment", maxWords |-> 2, base |-> 15]>>

\* matchTrivialIntent: a keyword, a short text, a sure recogniser and a phrase.
TrivialMatch(t, i) ==
    /\ t.words <= Specs[i].maxWords
    /\ Specs[i].intent \in t.says
    /\ Specs[i].base * t.asr >= CacheThreshold
    /\ Pick(Specs[i].intent, Specs[i].base * t.asr) # NoPhraseId

ClassifyText(t) ==
    LET matches == {i \in DOMAIN Specs : TrivialMatch(t, i)}
        s == Specs[CHOOSE i \in matches : \A j \in matches : i <= j]
        empathy == Pick("empathy", AnyConfidence)
        stall == Pick("stall", AnyConfidence)
    IN IF t.emotion \in Distressed
       THEN [route |-> IF empathy # NoPhraseId THEN "cached_filler" ELSE "full_stack",
             phrase |-> empathy, intent |-> "emotional", forward |-> TRUE,
             confidence |-> 20 * (IF t.asr < 14 THEN t.asr ELSE 14)]
       ELSE IF t.words \in 1 .. TrivialMax /\ matches # {}
       THEN [route |-> "cached_filler", phrase |-> Pick(s.intent, s.base * t.asr),
             intent |-> s.intent, confidence |-> s.base * t.asr, forward |-> FALSE]
       ELSE [route |-> "full_stack", phrase |-> stall, intent |-> "complex", confidence |-> 0,
             forward |-> stall # NoPhraseId]

\* classifyAudio: nothing recognised is waited for in silence, whatever the emotion.
ClassifyAudio(t) ==
    IF t.words = 0 THEN [NoRouting EXCEPT !.route = "silent_wait", !.intent = "unknown",
                                           !.confidence = 20 * t.asr]
    ELSE ClassifyText(t)

RouteTurn(t) ==
    /\ routed' = ClassifyAudio(t)
    /\ turn' = t
    /\ UNCHANGED <<fillerEnabled, activePhrase, activeIsSponge, generation, plays, loads, fades,
                   onAir, lastVoided>>

-----------------------------------------------------------------------------
\* plan: the phrase must be enabled, known, safe and short.
Playable == /\ fillerEnabled
            /\ routed.phrase \in DOMAIN BankPhrases
            /\ BankPhrases[routed.phrase].safety = "safe"
            /\ BankPhrases[routed.phrase].short

PlanAction == IF ~Playable THEN "skipped"
              ELSE IF routed.route = "cached_filler" /\ ~routed.forward THEN "immediate"
              ELSE "latency_sponge"

\* play: cancel what was, take a new generation and start the load.
Play ==
    /\ routed.route # "none"
    /\ plays < MaxPlays
    /\ plays' = plays + 1
    /\ IF Playable
       THEN /\ generation' = generation + 2
            /\ activePhrase' = routed.phrase
            /\ activeIsSponge' = (PlanAction = "latency_sponge")
            /\ loads' = loads \union {[play |-> plays', generation |-> generation']}
            /\ onAir' = NoPlay
            /\ lastVoided' = plays
       ELSE UNCHANGED <<generation, activePhrase, activeIsSponge, loads, onAir, lastVoided>>
    /\ UNCHANGED <<fillerEnabled, routed, turn, fades>>

\* The load is there: stale ones are not played.
LoadDone(l) ==
    /\ l \in loads
    /\ loads' = loads \ {l}
    /\ onAir' = IF l.generation = generation THEN l.play ELSE onAir
    /\ UNCHANGED <<fillerEnabled, routed, turn, activePhrase, activeIsSponge, generation, plays,
                   fades, lastVoided>>

\* A load fails: whichever phrase is active by now is forgotten.
LoadFails(l) ==
    /\ l \in loads
    /\ loads' = loads \ {l}
    /\ activePhrase' = NoPhraseId
    /\ UNCHANGED <<fillerEnabled, routed, turn, activeIsSponge, generation, plays, fades, onAir,
                   lastVoided>>

\* handoffToMain up to its fade; a phrase that is the answer is left alone.
Handoff ==
    /\ activePhrase # NoPhraseId
    /\ activeIsSponge
    /\ fades < 2
    /\ fades' = fades + 1
    /\ UNCHANGED <<fillerEnabled, routed, turn, activePhrase, activeIsSponge, generation, plays,
                   loads, onAir, lastVoided>>

\* A faulty end of the fade: what was still loading is played later.
HandoffEndsQuietly ==
    /\ fades > 0
    /\ fades' = fades - 1
    /\ activePhrase' = NoPhraseId
    /\ activeIsSponge' = FALSE
    /\ onAir' = NoPlay
    /\ lastVoided' = plays
    /\ UNCHANGED <<fillerEnabled, routed, turn, generation, plays, loads>>

\* The fade is over: the player is silent, and what was still loading is stale.
HandoffEnds ==
    /\ fades > 0
    /\ fades' = fades - 1
    /\ activePhrase' = NoPhraseId
    /\ activeIsSponge' = FALSE
    /\ generation' = generation + 1
    /\ onAir' = NoPlay
    /\ lastVoided' = plays
    /\ UNCHANGED <<fillerEnabled, routed, turn, plays, loads>>

CancelHard ==
    /\ generation' = generation + 1
    /\ activePhrase' = NoPhraseId
    /\ activeIsSponge' = (activeIsSponge /\ activePhrase = NoPhraseId)
    /\ onAir' = NoPlay
    /\ lastVoided' = plays

Cancel ==
    /\ generation < MaxGeneration
    /\ CancelHard
    /\ UNCHANGED <<fillerEnabled, routed, turn, plays, loads, fades>>

SetEnabled(on) ==
    /\ on \/ generation < MaxGeneration
    /\ fillerEnabled' = on
    /\ IF on THEN UNCHANGED <<generation, activePhrase, activeIsSponge, onAir, lastVoided>>
       ELSE CancelHard
    /\ UNCHANGED <<routed, turn, plays, loads, fades>>

\* The filler has been played to its end; the engine is not told.
FillerEnds ==
    /\ onAir # NoPlay
    /\ onAir' = NoPlay
    /\ UNCHANGED <<fillerEnabled, routed, turn, activePhrase, activeIsSponge, generation, plays,
                   loads, fades, lastVoided>>

FillerNext ==
    \/ \E t \in Turns : RouteTurn(t)
    \/ Play
    \/ \E l \in loads : LoadDone(l) \/ LoadFails(l)
    \/ Handoff \/ HandoffEnds
    \/ Cancel
    \/ \E on \in BOOLEAN : SetEnabled(on)
    \/ FillerEnds

FillerSpec == FillerInit /\ [][FillerNext]_fillerVars

-----------------------------------------------------------------------------
\* What sounds is the newest filler asked for: never one that a newer one, a
\* barge-in, a handoff that is over or the switch has ended, in whatever order
\* loads come back; one phrase at most is still to come.  A filler is the whole
\* answer only to a short, surely recognised turn of a user not in distress.
FillerNeverOverrides ==
    /\ onAir # NoPlay => onAir > lastVoided /\ fillerEnabled
    /\ \A k, l \in loads : k.generation = generation /\ l.generation = generation => k = l
    /\ \A l \in loads : l.generation = generation => l.play > lastVoided /\ fillerEnabled
    /\ routed.route = "cached_filler" /\ ~routed.forward =>
          /\ turn.emotion \notin Distressed
          /\ turn.words \in 1 .. TrivialMax
          /\ routed.confidence >= CacheThreshold
          /\ BankPhrases[routed.phrase].confidence <= routed.confidence
    /\ turn.emotion \in Distressed /\ turn.words > 0 /\ Playable => PlanAction = "latency_sponge"
=============================================================================
