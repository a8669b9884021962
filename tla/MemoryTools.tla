----------------------------- MODULE MemoryTools -----------------------------
(***************************************************************************)
(* Tool calls under an allowlist, a timeout and retries                    *)
(* (memory/tool_router/router.py).  Handlers run on a small pool of        *)
(* threads that all calls share; a handler that is running cannot be       *)
(* stopped, so it may hold its thread for ever and may end long after the  *)
(* call that wanted it.                                                    *)
(***************************************************************************)
EXTENDS Integers, Sequences, FiniteSets

CONSTANTS ToolCalls,       \* invoke() calls, each of the tool of its caller
          ToolNames,       \* the tools callers ask for
          ToolThreads,     \* max_workers of the executor
          MaxToolAttempts, \* retry.max_attempts
          RetryOnTimeout,  \* retry.retry_on_timeout
          HasTextBrain     \* a text brain takes the failed calls

ASSUME ToolAssumption == /\ MaxToolAttempts \in Nat \ {0} /\ ToolThreads \in Nat
                         /\ RetryOnTimeout \in BOOLEAN

VARIABLES registry,   \* _tools: the safe flag of a registered tool, or "absent"
          allowlist,
          call,       \* where each invoke() is
          run         \* the future of each attempt of each call

toolVars == <<registry, allowlist, call, run>>

Attempts == 1 .. MaxToolAttempts
NoCall == [phase |-> "idle", tool |-> "none", attempt |-> 0, status |-> "none", escalated |-> FALSE]

ToolInit ==
    /\ registry = [t \in ToolNames |-> "absent"]
    /\ allowlist = {}
    /\ call = [c \in ToolCalls |-> NoCall]
    /\ run = [c \in ToolCalls |-> [a \in Attempts |-> "none"]]

\* register(), with the allowlist the router makes itself: it only ever adds.
RegisterTool(t, flag) ==
    /\ registry' = [registry EXCEPT ![t] = flag]
    /\ allowlist' = IF flag = "safe" THEN allowlist \union {t} ELSE allowlist
    /\ UNCHANGED <<call, run>>

Finish(c, status, escalated) ==
    call' = [call EXCEPT ![c].phase = "done", ![c].status = status, ![c].escalated = escalated]

SubmitAttempt(c, a) == run' = [run EXCEPT ![c][a] = "queued"]

\* invoke() up to the first wait: unknown and not allowed tools are blocked.
Invoke(c, t) ==
    /\ call[c].phase = "idle"
    /\ IF registry[t] # "absent" /\ t \in allowlist
       THEN /\ call' = [call EXCEPT ![c] = [NoCall EXCEPT !.phase = "waiting", !.tool = t,
                                                          !.attempt = 1]]
            /\ SubmitAttempt(c, 1)
       ELSE /\ call' = [call EXCEPT ![c] = [NoCall EXCEPT !.phase = "done", !.tool = t,
                                                          !.status = "blocked"]]
            /\ UNCHANGED run
    /\ UNCHANGED <<registry, allowlist>>

Busy == {ca \in ToolCalls \X Attempts : run[ca[1]][ca[2]] = "running"}

StartHandler(c, a) ==
    /\ run[c][a] = "queued"
    /\ Cardinality(Busy) < ToolThreads
    /\ run' = [run EXCEPT ![c][a] = "running"]
    /\ UNCHANGED <<registry, allowlist, call>>

EndHandler(c, a, result) ==
    /\ run[c][a] = "running"
    /\ run' = [run EXCEPT ![c][a] = result]
    /\ UNCHANGED <<registry, allowlist, call>>

\* _maybe_escalate: a text brain that works takes over, one that fails leaves
\* the result as it was.
EscalatedStatus(status, textBrain) == IF HasTextBrain /\ textBrain = "ok" THEN "escalated" ELSE status

\* After an attempt that failed: the next one, or the end of the call.
AfterFailure(c, status, textBrain, more) ==
    IF more
    THEN call' = [call EXCEPT ![c].attempt = @ + 1]
    ELSE Finish(c, EscalatedStatus(status, textBrain), TRUE)

\* future.result() returns or raises; the back-off before a retry is left out.
TakeResult(c, textBrain) ==
    LET a == call[c].attempt
        more == a < MaxToolAttempts
    IN /\ call[c].phase = "waiting"
       /\ run[c][a] \in {"ok", "raised"}
       /\ IF run[c][a] = "ok" THEN Finish(c, "ok", FALSE) /\ UNCHANGED run
          ELSE /\ AfterFailure(c, "error", textBrain, more)
               /\ IF more THEN SubmitAttempt(c, a + 1) ELSE UNCHANGED run
       /\ UNCHANGED <<registry, allowlist>>

\* Mutant of TimeOut: a call waits for a handler that is running.
TimeOutWaitsForHandler(c, textBrain) ==
    LET a == call[c].attempt
        more == a < MaxToolAttempts /\ RetryOnTimeout
    IN /\ call[c].phase = "waiting"
       /\ run[c][a] = "queued"
       /\ AfterFailure(c, "timeout", textBrain, more)
       /\ run' = IF more THEN [run EXCEPT ![c][a] = "cancelled", ![c][a + 1] = "queued"]
                 ELSE [run EXCEPT ![c][a] = "cancelled"]
       /\ UNCHANGED <<registry, allowlist>>

\* The time is over: a future that has not started is cancelled, a running one
\* goes on unseen.
TimeOut(c, textBrain) ==
    LET a == call[c].attempt
        more == a < MaxToolAttempts /\ RetryOnTimeout
        left == IF run[c][a] = "queued" THEN "cancelled" ELSE run[c][a]
    IN /\ call[c].phase = "waiting"
       /\ run[c][a] \in {"queued", "running"}
       /\ AfterFailure(c, "timeout", textBrain, more)
       /\ run' = IF more THEN [run EXCEPT ![c][a] = left, ![c][a + 1] = "queued"]
                 ELSE [run EXCEPT ![c][a] = left]
       /\ UNCHANGED <<registry, allowlist>>

ToolNext ==
    \/ \E t \in ToolNames, flag \in {"safe", "unsafe"} : RegisterTool(t, flag)
    \/ \E c \in ToolCalls, t \in ToolNames : Invoke(c, t)
    \/ \E c \in ToolCalls, a \in Attempts : StartHandler(c, a)
    \/ \E c \in ToolCalls, a \in Attempts, result \in {"ok", "raised"} : EndHandler(c, a, result)
    \/ \E c \in ToolCalls, b \in {"ok", "fails"} : TakeResult(c, b) \/ TimeOut(c, b)

ToolSpec == ToolInit /\ [][ToolNext]_toolVars

\* Handlers may hang; only the caller's own clock is sure to go on.
ToolFairness == \A c \in ToolCalls : WF_toolVars(\E b \in {"ok", "fails"} : TakeResult(c, b) \/ TimeOut(c, b))

-----------------------------------------------------------------------------
\* A call is answered by its own attempt in progress and by no late one of an
\* earlier attempt; a cancelled or never submitted attempt does not run; nothing
\* runs for a blocked call; and a failure is escalated, a success is not.
ToolCallsAreSound ==
    \A c \in ToolCalls :
        /\ call[c].status = "ok" => run[c][call[c].attempt] = "ok" /\ ~call[c].escalated
        /\ call[c].status = "blocked" => \A a \in Attempts : run[c][a] = "none"
        /\ \A a \in Attempts : a > call[c].attempt => run[c][a] = "none"
        /\ call[c].status \in {"timeout", "error", "escalated"} => call[c].escalated
        /\ ~RetryOnTimeout => \A a \in Attempts : a < call[c].attempt => run[c][a] = "raised"
        /\ Cardinality(Busy) <= ToolThreads

\* Every call returns, also when handlers hang and hold all the threads.
ToolCallsReturn == \A c \in ToolCalls : call[c].phase = "waiting" ~> call[c].phase = "done"
=============================================================================
