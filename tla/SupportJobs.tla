----------------------------- MODULE SupportJobs -----------------------------
(* The background pool of the text brain (auxiliary/text_brain/jobs.py): jobs   *)
(* wait in one queue, a fixed number of workers takes them, and stop() sends    *)
(* one end marker per worker.  start() and stop() are coroutines: stop() waits  *)
(* for the workers it counted, and a start() may run meanwhile.                 *)
EXTENDS Integers, Sequences, FiniteSets

CONSTANTS Jobs,        \* the jobs callers may submit
          JobWorkers,  \* workers one start() creates
          MaxStarts    \* bound: how often the pool is started

ASSUME PoolAssumption == /\ JobWorkers \in Nat \ {0} /\ MaxStarts \in Nat
                         /\ "None" \notin Jobs  \* the end marker is no job

Tasks == {"memory_summary", "transcript_cleanup", "tool_plan"}
Sentinel == "None"
NoWorker == 0
NoResponse == [model |-> "none", reason |-> "none", summary |-> "none", degraded |-> FALSE]

VARIABLES poolRunning,  \* _running
          workerList,   \* _workers: the tasks of the latest start()
          liveWorkers,  \* the worker tasks that have not returned
          workerJob,    \* the job a worker is running
          jobQueue,     \* _queue: jobs and end markers
          stopWaits,    \* stop() calls in gather, by the tasks they wait for
          starts,       \* start() calls that created workers
          job,          \* _jobs and their futures
          clientOpen    \* the service's HTTP client exists

poolVars == <<poolRunning, workerList, liveWorkers, workerJob, jobQueue, stopWaits, starts, job,
              clientOpen>>

Workers == 1 .. JobWorkers * MaxStarts
Unsubmitted == [state |-> "none", task |-> "none", session |-> FALSE,
                response |-> NoResponse, memory |-> FALSE]

PoolInit ==
    /\ poolRunning = FALSE
    /\ workerList = {}
    /\ liveWorkers = {}
    /\ workerJob = [w \in Workers |-> Sentinel]
    /\ jobQueue = <<>>
    /\ stopWaits = {}
    /\ starts = 0
    /\ job = [j \in Jobs |-> Unsubmitted]
    /\ clientOpen = FALSE

StartPool ==
    /\ ~poolRunning
    /\ starts < MaxStarts
    /\ poolRunning' = TRUE
    /\ workerList' = starts * JobWorkers + 1 .. (starts + 1) * JobWorkers
    /\ liveWorkers' = liveWorkers \union workerList'
    /\ starts' = starts + 1
    /\ UNCHANGED <<workerJob, jobQueue, stopWaits, job, clientOpen>>

Sentinels(n) == [i \in 1 .. n |-> Sentinel]

\* stop() up to its gather: one end marker for each worker of the list.
StopPool ==
    /\ poolRunning
    /\ poolRunning' = FALSE
    /\ jobQueue' = jobQueue \o Sentinels(Cardinality(workerList))
    /\ stopWaits' = stopWaits \union {workerList}
    /\ UNCHANGED <<workerList, liveWorkers, workerJob, starts, job, clientOpen>>

\* stop() after its gather: it clears whatever list the pool has by now.
FinishStop(ws) ==
    /\ ws \in stopWaits
    /\ ws \intersect liveWorkers = {}
    /\ stopWaits' = stopWaits \ {ws}
    /\ workerList' = {}
    /\ clientOpen' = FALSE
    /\ UNCHANGED <<poolRunning, liveWorkers, workerJob, jobQueue, starts, job>>

Submit(j, task, session) ==
    /\ poolRunning
    /\ job[j].state = "none"
    /\ job' = [job EXCEPT ![j].state = "queued", ![j].task = task, ![j].session = session]
    /\ jobQueue' = Append(jobQueue, j)
    /\ UNCHANGED <<poolRunning, workerList, liveWorkers, workerJob, stopWaits, starts, clientOpen>>

\* The head of a worker's loop: an end marker ends it, a job starts running.
TakeNext(w) ==
    /\ w \in liveWorkers
    /\ workerJob[w] = Sentinel
    /\ jobQueue # <<>>
    /\ jobQueue' = Tail(jobQueue)
    /\ IF Head(jobQueue) = Sentinel
       THEN /\ liveWorkers' = liveWorkers \ {w}
            /\ UNCHANGED <<workerJob, job>>
       ELSE /\ workerJob' = [workerJob EXCEPT ![w] = Head(jobQueue)]
            /\ job' = [job EXCEPT ![Head(jobQueue)].state = "running"]
            /\ UNCHANGED liveWorkers
    /\ UNCHANGED <<poolRunning, workerList, stopWaits, starts, clientOpen>>

StubTextBrain(task) ==
    [model |-> "stub", reason |-> "none", degraded |-> TRUE,
     summary |-> IF task = "memory_summary" THEN "text" ELSE "none"]

ParseText(task, text) ==
    [model |-> "ollama", reason |-> "none", degraded |-> FALSE,
     summary |-> IF task = "memory_summary" THEN text ELSE "none"]

\* What the service answers: every failure of the model is a degraded stub.
RunTextBrain(task, outcome) ==
    IF outcome \in {"text", "blank"} THEN ParseText(task, outcome)
    ELSE IF outcome = "no_ollama" THEN StubTextBrain(task)
    ELSE [StubTextBrain(task) EXCEPT !.reason = outcome]

MaybeMemoryWrite(j, resp) ==
    job[j].session /\ job[j].task = "memory_summary" /\ resp.summary = "text"

\* The rest of the loop: outcome is what the model did with the request.
FinishJob(w, outcome) ==
    /\ w \in liveWorkers
    /\ workerJob[w] # Sentinel
    /\ LET j == workerJob[w]
           resp == RunTextBrain(job[j].task, outcome)
       IN job' = [job EXCEPT ![j].state = "done", ![j].response = resp,
                             ![j].memory = MaybeMemoryWrite(j, resp)]
    /\ workerJob' = [workerJob EXCEPT ![w] = Sentinel]
    /\ clientOpen' = (clientOpen \/ outcome # "no_ollama")
    /\ UNCHANGED <<poolRunning, workerList, liveWorkers, jobQueue, stopWaits, starts>>

Outcomes == {"text", "blank", "no_ollama", "timeout", "fallback"}

PoolNext ==
    \/ StartPool
    \/ StopPool
    \/ \E ws \in stopWaits : FinishStop(ws)
    \/ \E j \in Jobs, task \in {"memory_summary", "tool_plan"}, s \in BOOLEAN : Submit(j, task, s)
    \/ \E w \in Workers : TakeNext(w)
    \/ \E w \in Workers, outcome \in Outcomes : FinishJob(w, outcome)

PoolSpec == PoolInit /\ [][PoolNext]_poolVars

\* The event loop resumes every worker that can go on; the model call has a timeout.
PoolFairness ==
    /\ WF_poolVars(\E w \in Workers : TakeNext(w))
    /\ \A w \in Workers : WF_poolVars(\E outcome \in Outcomes : FinishJob(w, outcome))

-----------------------------------------------------------------------------
Markers == Cardinality({i \in DOMAIN jobQueue : jobQueue[i] = Sentinel})
Places(j) == Cardinality({i \in DOMAIN jobQueue : jobQueue[i] = j})
             + Cardinality({w \in liveWorkers : workerJob[w] = j})

\* No submitted job is lost or run twice, whatever the order of start, stop and
\* the workers: it waits at one place or it is finished, drain() returns only
\* when all are, and a running pool has workers left for each end marker still
\* queued and its own.  A summary becomes a memory only if it says something.
PoolIsSound ==
    /\ \A j \in Jobs : Places(j) = IF job[j].state \in {"queued", "running"} THEN 1 ELSE 0
    /\ Markers + (IF poolRunning THEN JobWorkers ELSE 0) <= Cardinality(liveWorkers)
    /\ \A j \in Jobs : job[j].memory => /\ job[j].session
                                        /\ job[j].response.summary \notin {"none", "blank"}
    /\ \A j \in Jobs : job[j].state = "done" =>
          (job[j].response.degraded <=> job[j].response.model = "stub")

\* A job the pool accepted is answered, also when the pool is stopped, or
\* stopped and started again, before a worker came to it.
JobsAreServed == \A j \in Jobs : job[j].state = "queued" ~> job[j].state = "done"
=============================================================================
