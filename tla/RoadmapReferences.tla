------------------------------ MODULE RoadmapReferences ------------------------------
(* The reference behaviour in roadmap/: full-duplex decisions, the guard of     *)
(* voices, and the register of licenses with its gates.                         *)
EXTENDS Integers, FiniteSets, Sequences, FiniteSetsExt

-----------------------------------------------------------------------------
(* The roadmap's reference of full duplex (roadmap/duplex_manager.py): barge-in *)
(* by voiced speech, and the fallback of a core that is late.  Times are in     *)
(* steps of the configuration's scale.                                          *)

CONSTANTS MinVoiced, SuppressionDeadline, ListeningDeadline, FirstResponseBudget,
          MaxMs  \* bound: times and durations that are tried

TurnPhases == {"idle", "listening", "thinking", "speaking"}
BargeInEligible == {"speaking", "thinking"}
LatencyFailures == {"latency_budget_exceeded", "no_token_in_window"}
OtherFailures == {"core_exception", "core_refusal", "codec_error", "unknown_error"}
NoToken == -1
NoDeadline == -1

VARIABLES phase,     \* _state
          bargeIn,   \* the last BargeInDecision
          fallback   \* the last LatencyFallbackDecision

duplexVars == <<phase, bargeIn, fallback>>

NoBargeIn == [triggered |-> FALSE, at |-> 0, voiced |-> 0, from |-> "idle", to |-> "idle",
              suppressBy |-> NoDeadline, listenBy |-> NoDeadline]
NoFallback == [triggered |-> FALSE, target |-> "none", latency |-> 0, failure |-> "none",
               pipeline |-> TRUE]

\* The configuration refuses negative times.
DuplexConfig == {MinVoiced, SuppressionDeadline, ListeningDeadline, FirstResponseBudget} \subseteq Nat

DuplexInit ==
    /\ DuplexConfig
    /\ phase = "idle"
    /\ bargeIn = NoBargeIn
    /\ fallback = NoFallback

SetState(p) ==
    /\ phase' = p
    /\ UNCHANGED <<bargeIn, fallback>>

DecideBargeIn(voiced, state, at) ==
    LET untriggered == [NoBargeIn EXCEPT !.at = at, !.voiced = voiced, !.from = state, !.to = state]
    IN IF voiced >= MinVoiced /\ state \in BargeInEligible
       THEN [untriggered EXCEPT !.triggered = TRUE, !.to = "listening",
                                !.suppressBy = at + SuppressionDeadline,
                                !.listenBy = at + ListeningDeadline]
       ELSE untriggered

OnVoicedSpeech(voiced, at) ==
    /\ bargeIn' = DecideBargeIn(voiced, phase, at)
    /\ phase' = IF bargeIn'.triggered THEN bargeIn'.to ELSE phase
    /\ UNCHANGED fallback

\* A latency failure and a missing token count whatever the latency says.
LatencyViolation(latency, failure) ==
    failure \in LatencyFailures \/ latency = NoToken \/ latency > FirstResponseBudget

DecideLatencyFallback(latency, failure, pipeline) ==
    /\ fallback' = [triggered |-> LatencyViolation(latency, failure), latency |-> latency,
                    failure |-> failure, pipeline |-> pipeline,
                    target |-> IF ~LatencyViolation(latency, failure) THEN "none"
                               ELSE IF pipeline THEN "phase_1_pipeline" ELSE "tts_fallback"]
    /\ UNCHANGED <<phase, bargeIn>>

DuplexNext ==
    \/ \E p \in TurnPhases : SetState(p)
    \/ \E voiced, at \in 0 .. MaxMs : OnVoicedSpeech(voiced, at)
    \/ \E latency \in {NoToken} \union 0 .. MaxMs, pipeline \in BOOLEAN,
          failure \in {"none", "no_token_in_window", "codec_error"} :
          DecideLatencyFallback(latency, failure, pipeline)

DuplexSpec == DuplexInit /\ [][DuplexNext]_duplexVars

-----------------------------------------------------------------------------
\* One interruption is one barge-in: it happens only over speech or thought,
\* leaves the manager listening, where no more of the same speech triggers, and
\* its deadlines lie ahead.  A turn without a first token in time is finished by
\* a path that is available, and one whose core failed in time is left to others.
DuplexIsSound ==
    /\ bargeIn.triggered =>
          /\ bargeIn.from \in BargeInEligible /\ bargeIn.voiced >= MinVoiced
          /\ ~DecideBargeIn(MaxMs, bargeIn.to, bargeIn.at).triggered
          /\ bargeIn.suppressBy >= bargeIn.at /\ bargeIn.listenBy >= bargeIn.at
    /\ ~bargeIn.triggered => bargeIn.to = bargeIn.from /\ bargeIn.suppressBy = NoDeadline
    /\ fallback.triggered <=> fallback.target # "none"
    /\ fallback.target = "phase_1_pipeline" => fallback.pipeline
    /\ fallback.latency \in 0 .. FirstResponseBudget /\ fallback.failure \notin LatencyFailures =>
          ~fallback.triggered
    /\ fallback.latency = NoToken => fallback.triggered

-----------------------------------------------------------------------------
(* The roadmap's reference of safety (roadmap/safety_guard.py): every output is *)
(* marked and checked, voices are cloned by consent and logged while in use,    *)
(* and words of crisis reach a person.                                          *)

CONSTANTS Speakers,
          MaxCrisis,   \* bound: crisis scores, in halves of the threshold
          MaxRequests  \* bound: requests and retirements

ASSUME GuardAssumption == "none" \notin Speakers  \* a missing speaker id is nobody

OutputPaths == {"speech_native_core", "phase_1_fallback", "tts_fallback"}
Unmarked == [content |-> "none", path |-> "none"]
NoConsent == [speaker |-> "none", complete |-> FALSE]
NoCloning == [allowed |-> FALSE, retained |-> FALSE]
NoEmission == [output |-> Unmarked, mark |-> Unmarked, emitted |-> FALSE]
CrisisThreshold == 2
NoCrisis == [score |-> 0, surfaced |-> FALSE, flagged |-> FALSE]

VARIABLES detector,    \* the watermark detector: the "default" one, or a "blind" one was injected
          consentLog,  \* the speakers of _consent_log
          cloning,     \* the last CloningDecision
          emission,    \* the last EmissionResult
          crisis,      \* the last CrisisDecision
          requests     \* what was asked of the log so far

guardVars == <<detector, consentLog, cloning, emission, crisis, requests>>

GuardInit ==
    /\ detector \in {"default", "blind"}
    /\ consentLog = {}
    /\ cloning = NoCloning
    /\ emission = NoEmission
    /\ crisis = NoCrisis
    /\ requests = <<>>

\* expected_watermark is a digest of content and path.
ExpectedWatermark(content, path) == [content |-> content, path |-> path]

Detect(output, mark) ==
    detector = "default" /\ mark # Unmarked /\ mark = ExpectedWatermark(output.content, output.path)

\* guard_output, and evaluate_output of an output that carries some mark
\* already: it is always marked anew, then checked.
GuardOutput(content, path) ==
    LET output == [content |-> content, path |-> path]
        mark == ExpectedWatermark(content, path)
    IN /\ emission' = [output |-> output, mark |-> mark, emitted |-> Detect(output, mark)]
       /\ crisis' = NoCrisis
       /\ UNCHANGED <<detector, consentLog, cloning, requests>>

\* is_valid: speaker, scope and timestamp are there.
IsValidConsent(c) == c.speaker # "none" /\ c.complete

\* request_cloning: a consent for somebody else is refused, and a refusal neither
\* logs nor retires anything; then evaluate_cloning_request.
RequestCloning(c, requested, productFacing) ==
    LET allowed == IsValidConsent(c) /\ (requested = "none" \/ c.speaker = requested)
    IN /\ Len(requests) < MaxRequests
       /\ cloning' = [allowed |-> allowed, retained |-> allowed]
       /\ consentLog' = IF allowed /\ productFacing THEN consentLog \union {c.speaker} ELSE consentLog
       /\ requests' = Append(requests, [kind |-> "clone", consent |-> c, speaker |-> requested,
                                        product |-> productFacing])
       /\ emission' = NoEmission /\ crisis' = NoCrisis
       /\ UNCHANGED detector

\* mark_voice_not_in_use and retire_voice.
RetireVoice(s) ==
    /\ Len(requests) < MaxRequests
    /\ consentLog' = consentLog \ {s}
    /\ requests' = Append(requests, [kind |-> "retire", consent |-> NoConsent, speaker |-> s,
                                     product |-> FALSE])
    /\ cloning' = NoCloning
    /\ emission' = NoEmission /\ crisis' = NoCrisis
    /\ UNCHANGED detector

HandleCrisis(score) ==
    /\ crisis' = [score |-> score, surfaced |-> score >= CrisisThreshold,
                  flagged |-> score >= CrisisThreshold]
    /\ emission' = NoEmission
    /\ UNCHANGED <<detector, consentLog, cloning, requests>>

Consents == {NoConsent} \union [speaker : Speakers, complete : BOOLEAN]

GuardNext ==
    \/ \E content \in {"a", "b"}, path \in OutputPaths : GuardOutput(content, path)
    \/ \E c \in Consents, s \in Speakers \union {"none"}, p \in BOOLEAN : RequestCloning(c, s, p)
    \/ \E s \in Speakers : RetireVoice(s)
    \/ \E score \in 0 .. MaxCrisis : HandleCrisis(score)

GuardSpec == GuardInit /\ [][GuardNext]_guardVars

-----------------------------------------------------------------------------
\* s agreed to the product in request i, for herself and completely.
Agreed(s, i) == /\ requests[i].kind = "clone" /\ requests[i].product
                /\ requests[i].consent = [speaker |-> s, complete |-> TRUE]
                /\ requests[i].speaker \in {s, "none"}
Retired(s, i) == requests[i].kind = "retire" /\ requests[i].speaker = s

\* The log is exactly the voices that agreed and were not retired since, whatever
\* was asked for, with somebody else's consent or with none, in between.  What is
\* emitted carries the mark of its own content and path and was seen to; and a
\* crisis is surfaced and flagged together, from the threshold on.
GuardIsComplete ==
    /\ \A s \in Speakers : s \in consentLog <=>
          \E i \in DOMAIN requests : Agreed(s, i) /\ \A k \in i .. Len(requests) : ~Retired(s, k)
    /\ cloning.retained => IsValidConsent(requests[Len(requests)].consent)
    /\ emission.emitted => /\ detector = "default"
                           /\ emission.mark = ExpectedWatermark(emission.output.content,
                                                                emission.output.path)
    /\ crisis.score >= CrisisThreshold <=> crisis.surfaced /\ crisis.flagged

-----------------------------------------------------------------------------
(* The licensing register of the roadmap (roadmap/licensing.py) and the gates   *)
(* that read it (roadmap/gate_evaluator.py).  A license is recognized or not; a *)
(* measured value is a small number, NaN, or missing.                           *)

CONSTANTS Adopted,   \* the components that are recorded
          Criteria,  \* a gate's exit criteria: metric -> [operator, threshold]
          Measured   \* the values a measurement may give

NaN == -2      \* stands apart from every value
Missing == -1  \* no measured value
NoEntry == [recorded |-> FALSE, license |-> "None", permitted |-> TRUE, restricted |-> FALSE]
Unevaluated == [passed |-> FALSE, blocked |-> FALSE, failed |-> {}, licensing |-> {},
                withRegister |-> FALSE]

VARIABLES entry,       \* _entries
          warning,     \* _warnings: "none", "open" or "resolved"
          exclusion,   \* _exclusions: the category, "none" without one
          gateResult,  \* the GateResult of the register as it is, Unevaluated before
          flagged      \* flagged and neither satisfied nor recorded since

licenseVars == <<entry, warning, exclusion, gateResult, flagged>>

LicenseInit ==
    /\ entry = [c \in Adopted |-> NoEntry]
    /\ warning = [c \in Adopted |-> "none"]
    /\ exclusion = [c \in Adopted |-> "none"]
    /\ gateResult = Unevaluated
    /\ flagged = {}

\* What record_component makes of the warnings: a recognized license resolves
\* one that is there.
WarningAfter(c, license) ==
    [warning EXCEPT ![c] = IF license = "None" THEN "open"
                           ELSE IF @ = "none" THEN "none" ELSE "resolved"]

\* record_component replaces the whole entry, an earlier restriction included.
RecordComponent(c, license, permitted, restricted) ==
    /\ entry' = [entry EXCEPT ![c] = [recorded |-> TRUE, license |-> license,
                                      permitted |-> permitted, restricted |-> restricted]]
    /\ warning' = WarningAfter(c, license)
    /\ flagged' = IF restricted THEN flagged \union {c} ELSE flagged \ {c}
    /\ gateResult' = Unevaluated
    /\ UNCHANGED exclusion

\* A faulty flag_dataset: the unknown component is recorded without a warning.
FlagWithoutWarning(c) ==
    /\ entry' = [entry EXCEPT ![c].recorded = TRUE, ![c].restricted = TRUE]
    /\ flagged' = flagged \union {c}
    /\ gateResult' = Unevaluated
    /\ UNCHANGED <<warning, exclusion>>

\* flag_dataset records an unknown component first, without a license.
FlagDataset(c) ==
    /\ entry' = [entry EXCEPT ![c].recorded = TRUE, ![c].restricted = TRUE]
    /\ warning' = IF entry[c].recorded THEN warning ELSE WarningAfter(c, "None")
    /\ flagged' = flagged \union {c}
    /\ gateResult' = Unevaluated
    /\ UNCHANGED exclusion

SatisfyRestriction(c) ==
    /\ entry' = [entry EXCEPT ![c].restricted = FALSE]
    /\ flagged' = flagged \ {c}
    /\ gateResult' = Unevaluated
    /\ UNCHANGED <<warning, exclusion>>

\* An exclusion is noted; the entry of the component stays.
RecordExclusion(c, licensingRelated) ==
    /\ exclusion' = [exclusion EXCEPT ![c] = IF licensingRelated THEN "licensing" ELSE "non-licensing"]
    /\ gateResult' = Unevaluated
    /\ UNCHANGED <<entry, warning, flagged>>

\* resolve_warning does not look at the license.
ResolveWarning(c) ==
    /\ warning' = [warning EXCEPT ![c] = IF @ = "none" THEN "none" ELSE "resolved"]
    /\ gateResult' = Unevaluated
    /\ UNCHANGED <<entry, exclusion, flagged>>

RedistributionAllowed(c) == entry[c].recorded => ~entry[c].restricted
UnresolvedWarnings == {c \in Adopted : warning[c] = "open"}
Prohibiting == {c \in Adopted : ~entry[c].permitted}

-----------------------------------------------------------------------------
\* NaN satisfies no operator, and a missing measurement fails.
Satisfies(measured, operator, threshold) ==
    /\ measured \notin {NaN, Missing}
    /\ CASE operator = "<=" -> measured <= threshold
         [] operator = "<" -> measured < threshold
         [] operator = ">=" -> measured >= threshold
         [] operator = ">" -> measured > threshold
         [] operator = "==" -> measured = threshold

\* evaluate reads the register as it is now; without one, licensing is clean.
EvaluateGate(values, withRegister) ==
    LET failing == {m \in DOMAIN Criteria :
                       ~Satisfies(values[m], Criteria[m].operator, Criteria[m].threshold)}
        clean == ~withRegister \/ (UnresolvedWarnings = {} /\ Prohibiting = {})
        passed == failing = {} /\ clean
    IN /\ gateResult' = [passed |-> passed, blocked |-> ~passed, withRegister |-> withRegister,
                         failed |-> IF passed THEN {} ELSE failing,
                         licensing |-> IF passed \/ ~withRegister THEN {}
                                       ELSE UnresolvedWarnings \union Prohibiting]
       /\ UNCHANGED <<entry, warning, exclusion, flagged>>

\* evaluate_decision_gate raises for a launch gate.
EvaluateDecisionGate(values, withRegister, kind) ==
    IF kind = "decision" THEN EvaluateGate(values, withRegister) ELSE UNCHANGED licenseVars

LicenseNext ==
    \/ \E c \in Adopted :
          \/ \E l \in {"None", "MIT"}, p, r \in BOOLEAN : RecordComponent(c, l, p, r)
          \/ FlagDataset(c) \/ SatisfyRestriction(c) \/ ResolveWarning(c)
          \/ \E l \in BOOLEAN : RecordExclusion(c, l)
    \/ \E v \in [DOMAIN Criteria -> Measured], w \in BOOLEAN :
          EvaluateDecisionGate(v, w, "decision")
    \/ \E v \in [DOMAIN Criteria -> {Missing}] :
          EvaluateGate(v, TRUE) \/ EvaluateDecisionGate(v, TRUE, "launch")

LicenseSpec == LicenseInit /\ [][LicenseNext]_licenseVars

-----------------------------------------------------------------------------
\* A gate is blocked for a reason it names, and for each of them: whatever order
\* components were recorded, flagged and resolved in, no component without a
\* license has gone without a warning and none with one is still warned of, no gate
\* that reads the register lets one through whose warning nobody resolved, and a
\* restricted dataset is not redistributed before it is satisfied or recorded anew.
GatesAreFailClosed ==
    /\ \A c \in Adopted :
          /\ entry[c].recorded /\ entry[c].license = "None" => warning[c] # "none"
          /\ warning[c] = "open" => entry[c].recorded /\ entry[c].license = "None"
          /\ RedistributionAllowed(c) <=> c \notin flagged
    /\ gateResult.blocked <=> gateResult.failed \union gateResult.licensing # {}
    /\ gateResult.passed /\ gateResult.withRegister => \A c \in Adopted :
          /\ entry[c].permitted
          /\ entry[c].recorded /\ entry[c].license = "None" => warning[c] = "resolved"
=============================================================================
