------------------------------ MODULE Helpers ------------------------------
(* The components that keep no state in common, part by part.                   *)
EXTENDS Fillers, ModelStreams, AudioFeatures, SessionMemory, RoadmapReferences,
        ModelPlanning, TrainingData

VARIABLE part  \* the part that moves in a behaviour

-----------------------------------------------------------------------------
(* What the turn leans on: the server's phrases, speech output, language model, *)
(* features and sessions, and the client's filler layer.  They share no state   *)
(* here; part says which moves.                                                 *)

helperVars == <<routerVars, ttsVars, llmVars, emotionVars, speakerVars, sessionVars, fillerVars>>

HelpersInit ==
    /\ RouterInit /\ TtsInit /\ LlmInit /\ EmotionInit /\ SpeakerInit /\ SessionInit
    /\ FillerInit

HelpersNext ==
    \/ /\ part = "phrases" /\ RouterNext
       /\ UNCHANGED <<ttsVars, llmVars, emotionVars, speakerVars, sessionVars, fillerVars>>
    \/ /\ part = "tts" /\ TtsNext
       /\ UNCHANGED <<routerVars, llmVars, emotionVars, speakerVars, sessionVars, fillerVars>>
    \/ /\ part = "llm" /\ LlmNext
       /\ UNCHANGED <<routerVars, ttsVars, emotionVars, speakerVars, sessionVars, fillerVars>>
    \/ /\ part = "emotion" /\ EmotionNext
       /\ UNCHANGED <<routerVars, ttsVars, llmVars, speakerVars, sessionVars, fillerVars>>
    \/ /\ part = "speaker" /\ SpeakerNext
       /\ UNCHANGED <<routerVars, ttsVars, llmVars, emotionVars, sessionVars, fillerVars>>
    \/ /\ part = "sessions" /\ SessionNext
       /\ UNCHANGED <<routerVars, ttsVars, llmVars, emotionVars, speakerVars, fillerVars>>
    \/ /\ part = "filler" /\ FillerNext
       /\ UNCHANGED <<routerVars, ttsVars, llmVars, emotionVars, speakerVars, sessionVars>>

HelpersSpec == HelpersInit /\ [][HelpersNext]_helperVars

-----------------------------------------------------------------------------
\* The turn's helpers are safe to lean on: a phrase, a voice, a reply, a feeling,
\* a speaker or a session is what was asked for, whole and of that user, or it is
\* visibly missing, whichever model, synthesis or connection fails.
HelpersAreSound ==
    /\ part = "phrases" => PhrasesFitTheUser
    /\ part = "tts" => SpeechIsInOrder
    /\ part = "llm" => RepliesAreWhole
    /\ part = "emotion" => EmotionIsFounded
    /\ part = "speaker" => NobodyIsRecognisedInNothing
    /\ part = "sessions" => SessionsAreKept
    /\ part = "filler" => FillerNeverOverrides

-----------------------------------------------------------------------------
(* What works beside the turn: the persona's memory of a user and the context   *)
(* made of retrieved memories, which later prompts use, the roadmap's           *)
(* references of full duplex and safety, its licensing register with the gates, *)
(* its budget planner and choice of a model, and the review of training data.   *)
(* They share no state here; part says which moves.                             *)

toolingVars == <<personaVars, summaryVars, duplexVars, guardVars, licenseVars, budgetVars, choiceVars,
                 trainingVars>>

ToolingInit ==
    /\ PersonaInit /\ SummaryInit /\ DuplexInit /\ GuardInit /\ LicenseInit /\ BudgetInit
    /\ ChoiceInit /\ TrainingInit

ToolingNext ==
    \/ /\ part = "persona" /\ PersonaNext
       /\ UNCHANGED <<summaryVars, duplexVars, guardVars, licenseVars, budgetVars,
                      choiceVars, trainingVars>>
    \/ /\ part = "summary" /\ SummaryNext
       /\ UNCHANGED <<personaVars, duplexVars, guardVars, licenseVars, budgetVars,
                      choiceVars, trainingVars>>
    \/ /\ part = "duplex" /\ DuplexNext
       /\ UNCHANGED <<personaVars, summaryVars, guardVars, licenseVars, budgetVars,
                      choiceVars, trainingVars>>
    \/ /\ part = "guard" /\ GuardNext
       /\ UNCHANGED <<personaVars, summaryVars, duplexVars, licenseVars, budgetVars,
                      choiceVars, trainingVars>>
    \/ /\ part = "licenses" /\ LicenseNext
       /\ UNCHANGED <<personaVars, summaryVars, duplexVars, guardVars, budgetVars,
                      choiceVars, trainingVars>>
    \/ /\ part = "budget" /\ BudgetNext
       /\ UNCHANGED <<personaVars, summaryVars, duplexVars, guardVars, licenseVars,
                      choiceVars, trainingVars>>
    \/ /\ part = "choice" /\ ChoiceNext
       /\ UNCHANGED <<personaVars, summaryVars, duplexVars, guardVars, licenseVars,
                      budgetVars, trainingVars>>
    \/ /\ part = "training" /\ TrainingNext
       /\ UNCHANGED <<personaVars, summaryVars, duplexVars, guardVars, licenseVars,
                      budgetVars, choiceVars>>

ToolingSpec == ToolingInit /\ [][ToolingNext]_toolingVars

-----------------------------------------------------------------------------
\* The tools do as they say, whatever they were asked before: what is remembered
\* or told of a user is what that user said, one interruption is one barge-in,
\* the consent log is the voices in use, a gate is blocked for the reasons it
\* names, a plan fits the hardware, what is chosen has passed, and what is
\* trained on has consent.
ToolingIsExact ==
    /\ part = "persona" => PersonaKnowsItsUser
    /\ part = "summary" => ContextIsFaithful
    /\ part = "duplex" => DuplexIsSound
    /\ part = "guard" => GuardIsComplete
    /\ part = "licenses" => GatesAreFailClosed
    /\ part = "budget" => PlansFitTheBudget
    /\ part = "choice" => ChoicesAreFounded
    /\ part = "training" => TrainingIsConsented
=============================================================================
