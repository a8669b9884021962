-------------------------- MODULE SessionScheduler --------------------------
(***************************************************************************)
(* Admission of sessions to a pool of GPU workers                          *)
(* (infra/scaling/scheduler.py).  One lock guards every mutation, so each  *)
(* call is one step; admit and release may come from any request handler,  *)
(* for any session, in any order and repeatedly.  Telemetry and the        *)
(* results handed back to the caller are left out.                         *)
(***************************************************************************)
EXTENDS Integers, Sequences, FiniteSets

CONSTANTS
    Sessions,       \* session ids
    Workers,        \* worker ids, ordered as numbers are
    Capacity,       \* max_sessions of each worker's envelope
    MaxQueueDepth,
    Backpressure    \* "queue" or "reject"

ASSUME SchedulerAssumption ==
    /\ Workers \subseteq Nat
    /\ Capacity \in [Workers -> Nat]
    /\ MaxQueueDepth \in Nat
    /\ Backpressure \in {"queue", "reject"}

VARIABLES
    sessions,   \* WorkerState.sessions of each worker
    sticky,     \* the routing table, None for an id that has no entry
    queue,      \* _queue
    queuedSet   \* _queued_set

vars == <<sessions, sticky, queue, queuedSet>>

None == -1

\* The types of the state, and the bound of the queue.
TypeOK ==
    /\ sessions \in [Workers -> SUBSET Sessions]
    /\ sticky \in [Sessions -> Workers \cup {None}]
    /\ queue \in Seq(Sessions) /\ Len(queue) <= MaxQueueDepth
    /\ queuedSet \subseteq Sessions

Init ==
    /\ sessions = [w \in Workers |-> {}]
    /\ sticky = [s \in Sessions |-> None]
    /\ queue = <<>>
    /\ queuedSet = {}

Load(w) == Cardinality(sessions[w])

\* A plausible slip: one session too many.
HasRoomForOneMore(w) == Load(w) <= Capacity[w]

HasRoom(w) == Load(w) < Capacity[w]

\* w has room, and of the workers that have room the least load, then the least id.
Picked(w) ==
    /\ HasRoom(w)
    /\ \A v \in Workers :
          HasRoom(v) => Load(w) < Load(v) \/ (Load(w) = Load(v) /\ w <= v)

Place(s, w) ==
    /\ sessions' = [sessions EXCEPT ![w] = @ \cup {s}]
    /\ sticky' = [sticky EXCEPT ![s] = w]

-----------------------------------------------------------------------------
\* admit, by resolution: a session that is live or queued already is left alone.
AdmitAgain(s) ==
    /\ sticky[s] # None \/ s \in queuedSet
    /\ UNCHANGED vars

AdmitPlace(s) ==
    /\ sticky[s] = None /\ s \notin queuedSet
    /\ \E w \in Workers : Picked(w) /\ Place(s, w)
    /\ UNCHANGED <<queue, queuedSet>>

\* A plausible slip: the depth is compared after the fact.
EnqueueOneTooMany(s) ==
    /\ sticky[s] = None /\ s \notin queuedSet
    /\ \A w \in Workers : ~HasRoom(w)
    /\ Backpressure = "queue"
    /\ Len(queue) <= MaxQueueDepth
    /\ queue' = Append(queue, s)
    /\ queuedSet' = queuedSet \cup {s}
    /\ UNCHANGED <<sessions, sticky>>

\* A plausible slip: the newest waits at the front.
EnqueueInFront(s) ==
    /\ sticky[s] = None /\ s \notin queuedSet
    /\ \A w \in Workers : ~HasRoom(w)
    /\ Backpressure = "queue"
    /\ Len(queue) < MaxQueueDepth
    /\ queue' = <<s>> \o queue
    /\ queuedSet' = queuedSet \cup {s}
    /\ UNCHANGED <<sessions, sticky>>

Enqueue(s) ==
    /\ sticky[s] = None /\ s \notin queuedSet
    /\ \A w \in Workers : ~HasRoom(w)
    /\ Backpressure = "queue"
    /\ Len(queue) < MaxQueueDepth
    /\ queue' = Append(queue, s)
    /\ queuedSet' = queuedSet \cup {s}
    /\ UNCHANGED <<sessions, sticky>>

Reject(s) ==
    /\ sticky[s] = None /\ s \notin queuedSet
    /\ \A w \in Workers : ~HasRoom(w)
    /\ ~(Backpressure = "queue" /\ Len(queue) < MaxQueueDepth)
    /\ UNCHANGED vars

Admit(s) == AdmitAgain(s) \/ AdmitPlace(s) \/ Enqueue(s) \/ Reject(s)

-----------------------------------------------------------------------------
RemoveAt(q, i) == [j \in 1 .. Len(q) - 1 |-> IF j < i THEN q[j] ELSE q[j + 1]]

\* A plausible slip: a session that gives up keeps its place in the queue.
ForgetOnlyMembership(s) ==
    /\ sticky[s] = None /\ s \in queuedSet
    /\ queuedSet' = queuedSet \ {s}
    /\ UNCHANGED <<sessions, sticky, queue>>

\* release of a session that was only queued drops it from the queue.
ReleaseQueued(s) ==
    /\ sticky[s] = None /\ s \in queuedSet
    /\ \E i \in 1 .. Len(queue) :
          /\ queue[i] = s
          /\ \A j \in 1 .. i - 1 : queue[j] # s
          /\ queue' = RemoveAt(queue, i)
    /\ queuedSet' = queuedSet \ {s}
    /\ UNCHANGED <<sessions, sticky>>

ReleaseUnknown(s) ==
    /\ sticky[s] = None /\ s \notin queuedSet
    /\ UNCHANGED vars

\* A plausible slip: the freed slot is left for the next admission to take.
PromoteNobody(s, w) ==
    /\ sessions' = [sessions EXCEPT ![w] = @ \ {s}]
    /\ sticky' = [sticky EXCEPT ![s] = None]
    /\ UNCHANGED <<queue, queuedSet>>

\* s leaves worker w, and the head of the queue takes the slot if there is room.
Promote(s, w) ==
    LET stay == sessions[w] \ {s}
    IN  IF queue # <<>> /\ Cardinality(stay) < Capacity[w]
        THEN /\ sessions' = [sessions EXCEPT ![w] = stay \cup {Head(queue)}]
             /\ sticky' = [sticky EXCEPT ![s] = None, ![Head(queue)] = w]
             /\ queue' = Tail(queue)
             /\ queuedSet' = queuedSet \ {Head(queue)}
        ELSE /\ sessions' = [sessions EXCEPT ![w] = stay]
             /\ sticky' = [sticky EXCEPT ![s] = None]
             /\ UNCHANGED <<queue, queuedSet>>

ReleaseLive(s) ==
    /\ sticky[s] # None
    /\ Promote(s, sticky[s])

Release(s) == ReleaseQueued(s) \/ ReleaseUnknown(s) \/ ReleaseLive(s)

Next == \E s \in Sessions : Admit(s) \/ Release(s)

Spec == Init /\ [][Next]_vars

\* Every live session ends some day, and its handler releases it.
FairSpec == Spec /\ \A s \in Sessions : WF_vars(ReleaseLive(s))

-----------------------------------------------------------------------------
(* Properties *)

Waiting == {queue[i] : i \in 1 .. Len(queue)}

\* The two records of where a session is agree, and so do the two of who waits:
\* after any order of admissions, releases and promotions a session is on the
\* worker it is routed to and on no other, and it waits once or not at all, and
\* never while it is live.
RecordsAgree ==
    /\ \A s \in Sessions, w \in Workers : s \in sessions[w] <=> sticky[s] = w
    /\ queuedSet = Waiting
    /\ \A i, j \in 1 .. Len(queue) : queue[i] = queue[j] => i = j
    /\ \A s \in queuedSet : sticky[s] = None

\* "never exceeding a worker's envelope": neither admission nor promotion into a
\* freed slot overfills a worker.
WithinEnvelopes == \A w \in Workers : Load(w) <= Capacity[w]

\* No slot is idle while a session waits.  release looks only at the worker that
\* it frees, so this rests on every worker having been full before.
NoIdleSlotWhileWaiting == queue # <<>> => \A w \in Workers : Load(w) = Capacity[w]

\* "The promoted session keeps FIFO fairness": no session becomes live before one
\* that has waited longer, although a new admission does not look at the queue
\* before it takes a slot; those who wait keep their order; and whoever joins them
\* stands behind them all.
NoOvertakingStep ==
    /\ \A s \in Sessions :
          sticky[s] = None /\ sticky'[s] # None => queue = <<>> \/ s = queue[1]
    /\ \A i, j \in 1 .. Len(queue), k, l \in 1 .. Len(queue') :
          i < j /\ queue'[k] = queue[i] /\ queue'[l] = queue[j] => k < l
    /\ \A k, l \in 1 .. Len(queue') :
          queue'[k] \in Waiting /\ queue'[l] \notin Waiting => k < l

NoOvertaking == [][NoOvertakingStep]_vars

\* A session that waits is live in the end, or gives up.
QueuedIsServed == \A s \in Sessions : s \in queuedSet ~> s \notin queuedSet
=============================================================================
