------------------------------ MODULE SafetyGates ------------------------------
(* What stands between the conversation and the outside (safety/): the policy   *)
(* of cloned voices, the moderation of texts and the watermark on audio.        *)
EXTENDS Integers, Sequences, SequencesExt, FiniteSets

-----------------------------------------------------------------------------
(* Who may use a voice (safety/voice_policy/policy.py): consents are recorded    *)
(* and revoked, they expire, and a request is judged against those of its voice  *)
(* reference.  A refusal or a revocation drops the reference from the store.     *)

CONSTANTS VoiceRefs,      \* voices other than the default one
          VoiceActions,   \* actions a consent may cover
          MaxConsents, MaxPolicyTime,
          ConsentRequired

DefaultVoice == "soulyatri_default"
NoRef == "none"
Never == 99

ASSUME VoiceAssumption == NoRef \notin VoiceRefs
NoDecision == [allowed |-> FALSE, ref |-> NoRef, action |-> "none", category |-> "none",
               retained |-> FALSE, escalate |-> FALSE]

VARIABLES consents,      \* _consents, in the order recorded
          retainedRefs,  \* _retained_refs
          protected,     \* protected_voice_ids
          policyClock, verdict

policyVars == <<consents, retainedRefs, protected, policyClock, verdict>>

PolicyInit ==
    /\ consents = <<>>
    /\ retainedRefs = {}
    /\ protected = {}
    /\ policyClock = 0
    /\ verdict = NoDecision

RecordConsent(ref, scopes, expires) ==
    /\ Len(consents) < MaxConsents
    /\ consents' = Append(consents, [ref |-> ref, scopes |-> scopes, expires |-> expires,
                                     revoked |-> FALSE])
    /\ retainedRefs' = retainedRefs \union {ref}
    /\ verdict' = NoDecision
    /\ UNCHANGED <<protected, policyClock>>

RevokeConsent(i) ==
    /\ i \in DOMAIN consents
    /\ consents' = [consents EXCEPT ![i].revoked = TRUE]
    /\ retainedRefs' = retainedRefs \ {consents[i].ref}
    /\ verdict' = NoDecision
    /\ UNCHANGED <<protected, policyClock>>

RegisterProtectedVoice(ref) ==
    /\ protected' = protected \union {ref}
    /\ verdict' = NoDecision
    /\ UNCHANGED <<consents, retainedRefs, policyClock>>

PolicyTick ==
    /\ policyClock < MaxPolicyTime
    /\ policyClock' = policyClock + 1
    /\ verdict' = NoDecision
    /\ UNCHANGED <<consents, retainedRefs, protected>>

\* Mutant of IsActive: a consent that was withdrawn counts until it expires.
IsActiveWhenRevoked(rec) == policyClock < rec.expires

IsActive(rec) == ~rec.revoked /\ policyClock < rec.expires

\* find_active: the consents that allow the action, of which it takes the first.
ActiveConsents(ref, action) ==
    {i \in DOMAIN consents : consents[i].ref = ref /\ action \in consents[i].scopes
                             /\ IsActive(consents[i])}

\* What is wrong with one consent, as the first check that it fails.
Flaw(rec, action) ==
    CASE rec.revoked -> "revoked"
      [] ~rec.revoked /\ policyClock >= rec.expires -> "expired"
      [] OTHER -> IF action \notin rec.scopes THEN "scope_mismatch" ELSE "none"

\* _diagnose_missing_consent: the flaw of the first consent of the voice.
DiagnoseMissingConsent(ref, action) ==
    LET own == {i \in DOMAIN consents : consents[i].ref = ref /\ Flaw(consents[i], action) # "none"}
    IN IF own = {} THEN "no_consent"
       ELSE Flaw(consents[CHOOSE i \in own : \A j \in own : i <= j], action)

Refusal(ref, action, category) ==
    [NoDecision EXCEPT !.ref = ref, !.action = action, !.category = category]
Approval(ref, action, retained) ==
    [NoDecision EXCEPT !.allowed = TRUE, !.ref = ref, !.action = action, !.retained = retained]

\* spoof: what the detector says, "none" when there is no detector.
\* token: how the token of the request compares with that of the consent found.
EvaluateVoice(ref, action, spoof, token) ==
    CASE action = "persona_render" /\ ref \in {NoRef, DefaultVoice} -> Approval(ref, action, FALSE)
      [] ref = NoRef /\ action # "persona_render" -> Refusal(ref, action, "no_consent")
      [] ref \in protected /\ ~(action = "persona_render" /\ ref = DefaultVoice) ->
           [Refusal(ref, action, "protected_voice") EXCEPT !.escalate = TRUE]
      [] OTHER ->
           CASE spoof = "error" -> Refusal(ref, action, "error")
             [] spoof = "high" -> Refusal(ref, action, "spoofing")
             [] spoof \notin {"error", "high"} /\ ~ConsentRequired ->
                  Approval(ref, action, ref \in retainedRefs)
             [] spoof \notin {"error", "high"} /\ ConsentRequired
                  /\ ActiveConsents(ref, action) = {} ->
                  Refusal(ref, action, DiagnoseMissingConsent(ref, action))
             [] OTHER -> IF token = "other" THEN Refusal(ref, action, "spoofing")
                         ELSE Approval(ref, action, TRUE)

\* evaluate(): a refused reference is purged.
RequestVoice(ref, action, spoof, token) ==
    /\ verdict' = EvaluateVoice(ref, action, spoof, token)
    /\ retainedRefs' = IF verdict'.allowed THEN retainedRefs ELSE retainedRefs \ {ref}
    /\ UNCHANGED <<consents, protected, policyClock>>

PolicyNext ==
    \/ \E ref \in VoiceRefs, scopes \in (SUBSET VoiceActions) \ {{}}, x \in {1, Never} :
          RecordConsent(ref, scopes, x)
    \/ \E i \in 1 .. MaxConsents : RevokeConsent(i)
    \/ \E ref \in VoiceRefs : RegisterProtectedVoice(ref)
    \/ PolicyTick
    \/ \E ref \in VoiceRefs \union {DefaultVoice, NoRef}, action \in VoiceActions,
          spoof \in {"none", "high", "error"}, token \in {"none", "same", "other"} :
          RequestVoice(ref, action, spoof, token)

PolicySpec == PolicyInit /\ [][PolicyNext]_policyVars

-----------------------------------------------------------------------------
ConsentsOf(ref) == {i \in DOMAIN consents : consents[i].ref = ref}

\* No voice but the default one is used without a consent that covers the action,
\* has not expired and was not revoked, and never a protected one; a refused
\* voice is not kept; what is kept belongs to somebody who consented and never to
\* one whose consents are all revoked; and the reason given for a refusal is true
\* of some consent of that voice.
VoiceIsConsented ==
    /\ verdict.allowed /\ ~(verdict.action = "persona_render"
                            /\ verdict.ref \in {NoRef, DefaultVoice}) =>
          /\ verdict.ref \notin protected
          /\ ConsentRequired => \E i \in ConsentsOf(verdict.ref) :
                /\ verdict.action \in consents[i].scopes
                /\ ~consents[i].revoked
                /\ policyClock < consents[i].expires
    /\ verdict.category # "none" => verdict.ref \notin retainedRefs /\ ~verdict.allowed
    /\ \A ref \in retainedRefs : \E i \in ConsentsOf(ref) : ~consents[i].revoked
    /\ verdict.category = "revoked" => \E i \in ConsentsOf(verdict.ref) : consents[i].revoked
    /\ verdict.category = "no_consent" => ConsentsOf(verdict.ref) = {}
    /\ verdict.category \in {"expired", "scope_mismatch"} =>
          \E i \in ConsentsOf(verdict.ref) :
             ~consents[i].revoked /\ (verdict.category = "expired" <=> policyClock >= consents[i].expires)

-----------------------------------------------------------------------------
(* The gate that text and transcripts pass (safety/moderation/gate.py).  Scores   *)
(* are 0 (below both thresholds), 1 (at the threshold) or 2; the classifier is    *)
(* loaded by the first text, and the lexicon takes its place when that fails.     *)

CONSTANTS CategoryNames, \* the categories other than self_harm, in their order
          GateEnabled,   \* config.enabled
          Loader         \* what load_classifier does: "none", "works" or "fails"

ASSUME CategoryAssumption ==
    /\ CategoryNames \in Seq(STRING)
    /\ \A j, k \in DOMAIN CategoryNames : CategoryNames[j] = CategoryNames[k] => j = k
    /\ \A k \in DOMAIN CategoryNames : CategoryNames[k] # "self_harm"

Threshold == 1
Categories == DOMAIN CategoryNames
NoOutcome == [allowed |-> FALSE, category |-> "none", escalate |-> FALSE, guidance |-> FALSE,
              path |-> "none"]

NoScores == [crisis |-> 0, risk |-> [k \in Categories |-> 0]]
Unjudged == [kind |-> "nothing", scores |-> NoScores]

VARIABLES classifier,  \* _classifier
          judged,      \* what the classifier made of the last text
          outcome,     \* the last ModerationOutcome
          auditTrail   \* the outcomes the audit log records

gateVars == <<classifier, judged, outcome, auditTrail>>

GateInit ==
    /\ classifier = "unloaded"
    /\ judged = Unjudged
    /\ outcome = NoOutcome
    /\ auditTrail = <<>>

\* _get_classifier: tried once, and never again.
GetClassifier ==
    IF classifier # "unloaded" THEN classifier ELSE IF Loader = "works" THEN "model" ELSE "lexicon"

\* The lexicon only knows certain and not at all, and does not fail.
ScoresOf(c) == [crisis : IF c = "lexicon" THEN {0, 2} ELSE 0 .. 2,
                risk : [Categories -> IF c = "lexicon" THEN {0, 2} ELSE 0 .. 2]]

Flagged(scores) == {k \in Categories : scores.risk[k] >= Threshold}

\* max() over the flagged: the highest score, the first of equals.
TopCategory(scores) ==
    CategoryNames[CHOOSE k \in Flagged(scores) : \A j \in Flagged(scores) :
        scores.risk[k] > scores.risk[j] \/ (scores.risk[k] = scores.risk[j] /\ k <= j)]

FailClosed(path) ==
    [NoOutcome EXCEPT !.category = "error", !.escalate = TRUE, !.path = path]

OutcomeFor(scores, path) ==
    CASE scores.crisis >= Threshold ->
           [allowed |-> FALSE, category |-> "self_harm", escalate |-> TRUE, guidance |-> TRUE,
            path |-> path]
      [] scores.crisis < Threshold /\ Flagged(scores) # {} ->
           [NoOutcome EXCEPT !.category = TopCategory(scores), !.path = path]
      [] OTHER -> [NoOutcome EXCEPT !.allowed = TRUE, !.path = path]

AuditWord(o) == IF o.allowed THEN "allow" ELSE IF o.escalate THEN "escalate" ELSE "block"

Moderated(o, kind, scores) ==
    /\ outcome' = o
    /\ judged' = [kind |-> kind, scores |-> scores]
    /\ auditTrail' = <<AuditWord(o)>>

\* evaluate(): moderate_text and moderate_speech differ in the path only.
Moderate(path, scores) ==
    /\ GateEnabled
    /\ classifier' = GetClassifier
    /\ scores \in ScoresOf(classifier')
    /\ Moderated(OutcomeFor(scores, path), "scores", scores)

ModerateFails(path) ==
    /\ GateEnabled
    /\ classifier' = GetClassifier
    /\ classifier' = "model"
    /\ Moderated(FailClosed(path), "error", NoScores)

ModerateDisabled(path) ==
    /\ ~GateEnabled
    /\ Moderated([NoOutcome EXCEPT !.allowed = TRUE, !.path = path], "nothing", NoScores)
    /\ UNCHANGED classifier

GateNext ==
    \E path \in {"text", "speech"} :
        \/ \E scores \in ScoresOf("model") : Moderate(path, scores)
        \/ ModerateFails(path)
        \/ ModerateDisabled(path)

GateSpec == GateInit /\ [][GateNext]_gateVars

-----------------------------------------------------------------------------
\* The gate fails closed.  Nothing passes that was not judged harmless on every
\* count; words of crisis always reach a person and are answered with guidance,
\* whatever else is in them; the category named is one of the worst, and the
\* audit log says what was done.
GateFailsClosed ==
    LET scores == judged.scores
    IN /\ judged.kind = "error" => ~outcome.allowed /\ outcome.escalate
       /\ judged.kind = "scores" =>
             /\ outcome.allowed <=> /\ scores.crisis < Threshold
                                    /\ \A k \in Categories : scores.risk[k] < Threshold
             /\ scores.crisis >= Threshold <=> outcome.escalate /\ outcome.guidance
             /\ \A j, k \in Categories : outcome.category = CategoryNames[j] =>
                   scores.risk[k] <= scores.risk[j]
       /\ outcome # NoOutcome => auditTrail = <<AuditWord(outcome)>>

-----------------------------------------------------------------------------
(* The mark that synthesized audio carries (safety/watermark/audioseal.py): audio  *)
(* is embedded, verified at once and may leave only if that succeeded.  Audio is   *)
(* abstracted to what was done to it: a list of edits, and the mark to the edits   *)
(* it was signed over.  Scores are on the detector's side of the threshold or not. *)

CONSTANTS AudioBackend,  \* what load_audioseal_backend does: "none", "works" or "fails"
          MaxEdits       \* bound: changes made to one piece of audio

NoAudio == [edits |-> <<>>, signed |-> FALSE, over |-> <<>>, compliant |-> FALSE]

VARIABLES backend,   \* _backend
          audio,     \* the WatermarkedAudio a caller holds
          verified   \* the WatermarkResult for that audio

markVars == <<backend, audio, verified>>

MarkInit ==
    /\ backend = "unloaded"
    /\ audio = NoAudio
    /\ verified = [compliant |-> FALSE, reason |-> "none"]

GetBackend ==
    IF backend # "unloaded" THEN backend
    ELSE IF AudioBackend = "works" THEN "audioseal" ELSE "fallback"

\* DeterministicFallbackBackend.embed: a small change, then the signature of it.
EmbedMark(edits) == [edits |-> Append(edits, "mark"), signed |-> TRUE, over |-> Append(edits, "mark"),
                     compliant |-> FALSE]

\* What a detector may say of audio: the signature decides in the fallback,
\* the model may miss its mark, be unsure of it, or fail.
DetectResults(b, a) ==
    IF b = "fallback"
    THEN {[detected |-> a.signed /\ a.over = a.edits, sure |-> a.signed /\ a.over = a.edits]}
    ELSE [detected : {a.signed}, sure : BOOLEAN] \union {[detected |-> FALSE, sure |-> FALSE]}

\* verify(): detected, and sure enough; a failing detector is not compliant.
VerifyResult(r) == [compliant |-> r.detected /\ r.sure,
                    reason |-> IF r.detected THEN "signature_verified" ELSE "signature_mismatch"]
DetectorError == [compliant |-> FALSE, reason |-> "detector_error_fail_closed"]
EmbedError == [compliant |-> FALSE, reason |-> "embed_error_fail_closed"]

Verify(v) ==
    /\ audio # NoAudio
    /\ verified' = v
    /\ UNCHANGED audio

VerifyAgain == /\ backend' = GetBackend
               /\ \E r \in DetectResults(backend', audio) : Verify(VerifyResult(r))

DetectorFails == /\ backend' = GetBackend
                 /\ backend' = "audioseal"
                 /\ Verify(DetectorError)

\* protect(): embed and verify in one call.
Protect ==
    /\ backend' = GetBackend
    /\ \E v \in {VerifyResult(r) : r \in DetectResults(backend', EmbedMark(<<>>))}
                 \union (IF backend' = "audioseal" THEN {DetectorError} ELSE {}) :
          /\ verified' = v
          /\ audio' = [EmbedMark(<<>>) EXCEPT !.compliant = v.compliant]

ProtectFails ==
    /\ backend' = GetBackend
    /\ backend' = "audioseal"
    /\ verified' = EmbedError
    /\ audio' = NoAudio

\* The caller resamples, cuts or mixes what it holds: no result is for it then.
EditAudio ==
    /\ audio # NoAudio
    /\ Len(audio.edits) < MaxEdits
    /\ audio' = [audio EXCEPT !.edits = Append(@, "edit")]
    /\ verified' = [compliant |-> FALSE, reason |-> "none"]
    /\ UNCHANGED backend

\* assert_compliant() raises unless this holds.
MayBeEmitted == verified.compliant

MarkNext == Protect \/ ProtectFails \/ VerifyAgain \/ DetectorFails \/ EditAudio

MarkSpec == MarkInit /\ [][MarkNext]_markVars

-----------------------------------------------------------------------------
\* Only marked audio may be emitted, whatever step failed on the way: what a
\* check lets pass carries its mark and, under the fallback, is exactly the audio
\* the mark was signed over, so that audio changed after protect() never passes.
OnlyMarkedIsEmitted ==
    MayBeEmitted => /\ audio.signed
                    /\ backend = "fallback" => audio.over = audio.edits
                    /\ verified.reason = "signature_verified"

\* Consent, moderation and watermark fail closed: no protected or unconsented
\* voice is used and none is kept after a refusal, no text passes unjudged, no
\* audio passes that is not what its mark was made over.
SafetyFailsClosed == VoiceIsConsented /\ GateFailsClosed /\ OnlyMarkedIsEmitted
=============================================================================
