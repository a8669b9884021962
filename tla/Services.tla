------------------------------- MODULE Services -------------------------------
(* The services beside the conversation: the text brain's jobs, the failover    *)
(* controller, memory and its tools, the safety gates and the deployment        *)
(* decisions.  They share no state, so part says which of them moves.           *)
EXTENDS SupportJobs, SpeechSupport, MemoryStore, MemoryTools,
        SafetyGates, Deployment

VARIABLE part  \* the part that moves in a behaviour

serviceVars == <<poolVars, transcriptVars, failoverVars, memoryVars, toolVars, policyVars, gateVars,
                 markVars, canaryVars, regionVars>>

ServicesInit ==
    /\ PoolInit /\ TranscriptInit /\ FailoverInit /\ MemoryInit /\ ToolInit /\ PolicyInit
    /\ GateInit /\ MarkInit /\ CanaryInit /\ RegionInit

ServicesNext ==
    \/ /\ part = "jobs" /\ PoolNext
       /\ UNCHANGED <<transcriptVars, failoverVars, memoryVars, toolVars, policyVars,
                      gateVars, markVars, canaryVars, regionVars>>
    \/ /\ part = "transcripts" /\ TranscriptNext
       /\ UNCHANGED <<poolVars, failoverVars, memoryVars, toolVars, policyVars,
                      gateVars, markVars, canaryVars, regionVars>>
    \/ /\ part = "failover" /\ FailoverNext
       /\ UNCHANGED <<poolVars, transcriptVars, memoryVars, toolVars, policyVars,
                      gateVars, markVars, canaryVars, regionVars>>
    \/ /\ part = "memory" /\ MemoryNext
       /\ UNCHANGED <<poolVars, transcriptVars, failoverVars, toolVars, policyVars,
                      gateVars, markVars, canaryVars, regionVars>>
    \/ /\ part = "tools" /\ ToolNext
       /\ UNCHANGED <<poolVars, transcriptVars, failoverVars, memoryVars, policyVars,
                      gateVars, markVars, canaryVars, regionVars>>
    \/ /\ part = "policy" /\ PolicyNext
       /\ UNCHANGED <<poolVars, transcriptVars, failoverVars, memoryVars, toolVars,
                      gateVars, markVars, canaryVars, regionVars>>
    \/ /\ part = "gate" /\ GateNext
       /\ UNCHANGED <<poolVars, transcriptVars, failoverVars, memoryVars, toolVars,
                      policyVars, markVars, canaryVars, regionVars>>
    \/ /\ part = "mark" /\ MarkNext
       /\ UNCHANGED <<poolVars, transcriptVars, failoverVars, memoryVars, toolVars,
                      policyVars, gateVars, canaryVars, regionVars>>
    \/ /\ part = "canary" /\ CanaryNext
       /\ UNCHANGED <<poolVars, transcriptVars, failoverVars, memoryVars, toolVars,
                      policyVars, gateVars, markVars, regionVars>>
    \/ /\ part = "region" /\ RegionNext
       /\ UNCHANGED <<poolVars, transcriptVars, failoverVars, memoryVars, toolVars,
                      policyVars, gateVars, markVars, canaryVars>>

\* A service that does not move has no job or call to be fair to.
ServicesFairness == PoolFairness /\ TranscriptFairness /\ ToolFairness

ServicesSpec == ServicesInit /\ [][ServicesNext]_serviceVars

-----------------------------------------------------------------------------
\* Whoever asks a service is answered: every job the text brain's pool accepted,
\* also across stop() and start(), and every tool call, also when handlers hang.
ServicesAnswer == JobsAreServed /\ TranscriptsAreServed /\ ToolCallsReturn

\* The other services keep their promises whatever the order of calls: jobs and
\* workers add up, failover neither flaps nor sticks, tools answer their own call
\* only, a verdict on a release never improves by bad evidence, and a user is
\* served by the best usable region.
ServicesAreSound ==
    /\ part = "jobs" => PoolIsSound
    /\ part = "transcripts" => TranscriptsAreSound
    /\ part = "failover" => FailoverIsSound
    /\ part = "tools" => ToolCallsAreSound
    /\ part = "canary" => VerdictIsMonotone
    /\ part = "region" => RouteIsBest
=============================================================================
