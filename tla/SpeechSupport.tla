-------------------------------- MODULE SpeechSupport --------------------------------
(* What stands beside the speech-native core: transcripts of what was said, and  *)
(* the classic baseline to fall back on.                                          *)
EXTENDS Integers, Sequences, FiniteSets

-----------------------------------------------------------------------------
(* The auxiliary transcription service (auxiliary/stt/transcript_service.py).   *)
(* Its pool of workers is written like the text brain's: one queue, an end      *)
(* marker per worker; but a job whose backend fails is answered with the error. *)
CONSTANTS Recordings,  \* the recordings callers may submit
          SttWorkers,  \* workers one start() creates, at least one
          SttStarts    \* bound: how often the service is started

ASSUME ServiceAssumption == /\ SttWorkers \in Nat \ {0} /\ SttStarts \in Nat
                            /\ "None" \notin Recordings  \* the end marker is no recording

VARIABLES sttRunning, sttList, sttWorkers, sttTaken, sttQueue, sttStops, sttCount, transcript

transcriptVars == <<sttRunning, sttList, sttWorkers, sttTaken, sttQueue, sttStops, sttCount,
                    transcript>>

Pool == INSTANCE SupportJobs WITH
    Jobs <- Recordings, JobWorkers <- SttWorkers, MaxStarts <- SttStarts,
    poolRunning <- sttRunning, workerList <- sttList, liveWorkers <- sttWorkers,
    workerJob <- sttTaken, jobQueue <- sttQueue, stopWaits <- sttStops, starts <- sttCount,
    job <- transcript, clientOpen <- <<>>  \* it has no client

TranscriptInit ==
    /\ sttRunning = FALSE
    /\ sttList = {}
    /\ sttWorkers = {}
    /\ sttTaken = [w \in Pool!Workers |-> Pool!Sentinel]
    /\ sttQueue = <<>>
    /\ sttStops = {}
    /\ sttCount = 0
    /\ transcript = [r \in Recordings |-> Pool!Unsubmitted]

StartService == Pool!StartPool
StopService == Pool!StopPool
SubmitRecording(r) == Pool!Submit(r, "log", FALSE)
TakeRecording(w) == Pool!TakeNext(w)

\* stop() after its gather.
ServiceStopped(ws) ==
    /\ ws \in sttStops
    /\ ws \intersect sttWorkers = {}
    /\ sttStops' = sttStops \ {ws}
    /\ sttList' = {}
    /\ UNCHANGED <<sttRunning, sttWorkers, sttTaken, sttQueue, sttCount, transcript>>

\* The backend a service gets: Whisper only when it is wanted and installed.
MakeBackend(prefer, installed) == IF prefer /\ installed THEN "faster-whisper" ELSE "stub"

\* The rest of a worker's loop: the result, or the backend's error, ends the job.
\* A stub does not fail; its text says that it is one.
FinishTranscript(w, backend, fails) ==
    /\ w \in sttWorkers
    /\ sttTaken[w] # Pool!Sentinel
    /\ backend = "stub" => ~fails
    /\ transcript' = [transcript EXCEPT
          ![sttTaken[w]].state = IF fails THEN "failed" ELSE "done",
          ![sttTaken[w]].response =
              [@ EXCEPT !.model = IF fails THEN "none" ELSE backend,
                        !.reason = IF fails THEN "error" ELSE "none",
                        !.degraded = ~fails /\ backend = "stub"]]
    /\ sttTaken' = [sttTaken EXCEPT ![w] = Pool!Sentinel]
    /\ UNCHANGED <<sttRunning, sttList, sttWorkers, sttQueue, sttStops, sttCount>>

Finishes(w) == \E prefer, installed, fails \in BOOLEAN :
                  FinishTranscript(w, MakeBackend(prefer, installed), fails)

TranscriptNext ==
    \/ StartService
    \/ StopService
    \/ \E ws \in sttStops : ServiceStopped(ws)
    \/ \E r \in Recordings : SubmitRecording(r)
    \/ \E w \in Pool!Workers : TakeRecording(w)
    \/ \E w \in Pool!Workers : Finishes(w)

TranscriptSpec == TranscriptInit /\ [][TranscriptNext]_transcriptVars

\* The event loop resumes a worker that can go on; a transcription ends.
TranscriptFairness ==
    /\ WF_transcriptVars(\E w \in Pool!Workers : TakeRecording(w))
    /\ \A w \in Pool!Workers : WF_transcriptVars(Finishes(w))

-----------------------------------------------------------------------------
\* A recording is transcribed once, whatever the order of starts and stops, and
\* an answer is either a transcript or an error; a stub's is marked as one.
TranscriptsAreSound ==
    /\ \A r \in Recordings :
          Pool!Places(r) = IF transcript[r].state \in {"queued", "running"} THEN 1 ELSE 0
    /\ Pool!Markers + (IF sttRunning THEN SttWorkers ELSE 0) <= Cardinality(sttWorkers)
    /\ \A r \in Recordings :
          /\ transcript[r].state = "failed" <=> transcript[r].response.reason = "error"
          /\ transcript[r].response.degraded <=> transcript[r].response.model = "stub"

\* Every accepted recording is answered, also across stops and restarts.
TranscriptsAreServed ==
    \A r \in Recordings : transcript[r].state = "queued" ~> transcript[r].state \in {"done", "failed"}

-----------------------------------------------------------------------------
(* The controller that moves a conversation from the speech-native core to the  *)
(* classic baseline and back (auxiliary/fallback/orchestrator.py).              *)
(* A probe of the core is abstracted to the side of each limit it is on.        *)
CONSTANTS RecoveryProbes,  \* recovery_probes_required
          MaxFailures      \* max_consecutive_failures

ASSUME FailoverAssumption == RecoveryProbes \in Nat \ {0} /\ MaxFailures \in Nat

Probes == [manual : BOOLEAN, available : BOOLEAN, failures : {0, MaxFailures},
           errors : {"low", "high"}, latency : {"unknown", "low", "high"}]

NoFallbackDecision == [use |-> FALSE, reason |-> "none", recovery |-> "none"]

VARIABLES inFallback, healthyProbes, lastReason, fallbacks, decision,
          goodRun  \* history: healthy probes since the last bad one, to RecoveryProbes

failoverVars == <<inFallback, healthyProbes, lastReason, fallbacks, decision, goodRun>>

FailoverInit ==
    /\ inFallback = FALSE
    /\ healthyProbes = 0
    /\ lastReason = "healthy"
    /\ fallbacks = 0
    /\ decision = NoFallbackDecision
    /\ goodRun = RecoveryProbes

\* _evaluate: the first rule a probe breaks, in the order of the code.
EvaluateHealth(p) ==
    IF p.manual THEN "manual_override"
    ELSE IF ~p.available THEN "primary_unavailable"
    ELSE IF p.failures >= MaxFailures THEN "consecutive_failures"
    ELSE IF p.errors = "high" THEN "high_error_rate"
    ELSE IF p.latency = "high" THEN "high_latency"
    ELSE "healthy"

\* An override has no recovery time; slowness scales with the excess.
EstimateRecovery(reason) ==
    IF reason = "manual_override" THEN "none"
    ELSE IF reason = "high_latency" THEN "scaled" ELSE "default"

Engage(reason) ==
    /\ healthyProbes' = 0
    /\ inFallback' = TRUE
    /\ fallbacks' = IF inFallback THEN fallbacks ELSE 1 - fallbacks
    /\ lastReason' = reason
    /\ decision' = [use |-> TRUE, reason |-> reason, recovery |-> EstimateRecovery(reason)]

Recover ==
    /\ inFallback
    /\ IF healthyProbes + 1 >= RecoveryProbes
       THEN /\ inFallback' = FALSE
            /\ healthyProbes' = 0
            /\ lastReason' = "recovered"
            /\ decision' = [use |-> FALSE, reason |-> "recovered", recovery |-> "none"]
       ELSE /\ healthyProbes' = healthyProbes + 1
            /\ decision' = [use |-> TRUE, reason |-> "recovering", recovery |-> "default"]
            /\ UNCHANGED <<inFallback, lastReason>>
    /\ UNCHANGED fallbacks

StayPrimary ==
    /\ ~inFallback
    /\ lastReason' = "healthy"
    /\ decision' = [use |-> FALSE, reason |-> "healthy", recovery |-> "none"]
    /\ UNCHANGED <<inFallback, healthyProbes, fallbacks>>

\* decide(): fallbacks counts the engagements, here modulo two.
Decide(p) ==
    LET reason == EvaluateHealth(p)
    IN /\ IF reason # "healthy" THEN Engage(reason) ELSE Recover \/ StayPrimary
       /\ goodRun' = IF reason # "healthy" THEN 0
                     ELSE IF goodRun < RecoveryProbes THEN goodRun + 1 ELSE goodRun

FailoverNext == \E p \in Probes : Decide(p)

FailoverSpec == FailoverInit /\ [][FailoverNext]_failoverVars

\* user_message(decision): which of the texts the user hears, "" for none.
UserMessage ==
    IF decision.reason = "recovering" THEN "consecutive_failures"
    ELSE IF lastReason = "healthy" THEN "" ELSE lastReason

-----------------------------------------------------------------------------
\* The conversation is on the backup exactly while fewer than the required
\* healthy probes came after the last bad one, so it can neither flap on a
\* single good probe nor be held there; meanwhile the user is told something,
\* and is told of the recovery by the decision that leaves the backup.
FailoverIsSound ==
    /\ inFallback <=> goodRun < RecoveryProbes
    /\ decision.use <=> inFallback
    /\ inFallback => /\ healthyProbes = goodRun
                     /\ UserMessage \notin {"", "recovered"}
                     /\ decision.reason # "manual_override" => decision.recovery # "none"
    /\ decision.reason = "recovered" => UserMessage = "recovered"
=============================================================================
