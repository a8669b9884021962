----------------------- MODULE SessionSchedulerProofs -----------------------
(***************************************************************************)
(* The scheduler's safety properties for every set of sessions, every pool *)
(* of workers and every depth of the queue.                                *)
(***************************************************************************)
EXTENDS SessionScheduler, FiniteSetTheorems, TLAPS

\* The inductive invariant: the properties need each other.  Nobody overtakes
\* because no slot is idle while somebody waits; a freed slot makes room for
\* exactly one because the records agree and the worker was full.
IInv ==
    /\ TypeOK
    /\ RecordsAgree
    /\ WithinEnvelopes
    /\ NoIdleSlotWhileWaiting
    /\ \A w \in Workers : IsFiniteSet(sessions[w])

\* None is no worker.
LEMMA NoneIsNoWorker == None \notin Workers
  BY SchedulerAssumption DEF None

\* A worker's load is a number, one more with a session that is not on it, one
\* less without a session that is.
LEMMA Loads ==
  ASSUME NEW S, IsFiniteSet(S), NEW s
  PROVE  /\ Cardinality(S) \in Nat
         /\ IsFiniteSet(S \cup {s}) /\ IsFiniteSet(S \ {s})
         /\ s \notin S => Cardinality(S \cup {s}) = Cardinality(S) + 1
         /\ s \in S => Cardinality(S \ {s}) = Cardinality(S) - 1
  BY FS_AddElement, FS_RemoveElement, FS_CardinalityType

\* The numbers that the capacity rules compare.
LEMMA LoadIsNumber ==
  ASSUME IInv, NEW w \in Workers
  PROVE  /\ IsFiniteSet(sessions[w])
         /\ Load(w) \in Nat /\ Capacity[w] \in Nat
         /\ Load(w) <= Capacity[w]
  <1>1. IsFiniteSet(sessions[w]) /\ Load(w) <= Capacity[w]
    BY DEF IInv, WithinEnvelopes
  <1>2. Load(w) \in Nat
    BY <1>1, Loads DEF Load
  <1> QED
    BY <1>1, <1>2, SchedulerAssumption

\* RemoveAt drops one place of a sequence and keeps the rest in order.
LEMMA RemoveAtType ==
  ASSUME NEW T, NEW q \in Seq(T), NEW i \in 1 .. Len(q)
  PROVE  /\ RemoveAt(q, i) \in Seq(T)
         /\ Len(RemoveAt(q, i)) = Len(q) - 1
         /\ \A j \in 1 .. Len(q) - 1 :
               RemoveAt(q, i)[j] = IF j < i THEN q[j] ELSE q[j + 1]
  BY DEF RemoveAt

\* Init establishes the invariant.
LEMMA InitIInv == Init => IInv
  <1> SUFFICES ASSUME Init PROVE IInv
    OBVIOUS
  <1>1. TypeOK
    BY SchedulerAssumption DEF Init, TypeOK
  <1>2. RecordsAgree
    BY NoneIsNoWorker DEF Init, RecordsAgree, Waiting
  <1>3. WithinEnvelopes
    BY SchedulerAssumption, FS_EmptySet DEF Init, WithinEnvelopes, Load
  <1>4. NoIdleSlotWhileWaiting
    BY DEF Init, NoIdleSlotWhileWaiting
  <1>5. \A w \in Workers : IsFiniteSet(sessions[w])
    BY FS_EmptySet DEF Init
  <1> QED
    BY <1>1, <1>2, <1>3, <1>4, <1>5 DEF IInv

\* A worker takes a new session only while nobody waits.
LEMMA PlaceIInv ==
  ASSUME IInv, NEW s \in Sessions, AdmitPlace(s)
  PROVE  IInv' /\ queue = <<>>
  <1> USE SchedulerAssumption, NoneIsNoWorker
  <1>1. PICK w \in Workers : Picked(w) /\ Place(s, w)
    BY DEF AdmitPlace
  <1>2. sessions' = [sessions EXCEPT ![w] = @ \cup {s}] /\ sticky' = [sticky EXCEPT ![s] = w]
    BY <1>1 DEF Place
  <1>3. sticky[s] = None /\ s \notin queuedSet /\ queue' = queue /\ queuedSet' = queuedSet
    BY DEF AdmitPlace
  <1>4. s \notin sessions[w]
    BY <1>3 DEF IInv, RecordsAgree
  <1>5. Load(w) < Capacity[w]
    BY <1>1 DEF Picked, HasRoom
  <1>6. queue = <<>>
    <2> QED
      BY LoadIsNumber, <1>5 DEF IInv, NoIdleSlotWhileWaiting
  <1>7. TypeOK'
    BY <1>2, <1>3 DEF IInv, TypeOK
  <1>8. RecordsAgree'
    <2>1. \A t \in Sessions, v \in Workers : t \in sessions'[v] <=> sticky'[t] = v
      BY <1>2, <1>3 DEF IInv, TypeOK, RecordsAgree
    <2>2. queuedSet' = Waiting'
      BY <1>3 DEF IInv, RecordsAgree, Waiting
    <2>3. \A t \in queuedSet' : sticky'[t] = None
      BY <1>2, <1>3 DEF IInv, TypeOK, RecordsAgree
    <2> QED
      BY <2>1, <2>2, <2>3, <1>3 DEF IInv, RecordsAgree
  <1>9. \A v \in Workers : IsFiniteSet(sessions'[v]) /\ Cardinality(sessions'[v]) <= Capacity[v]
    <2> TAKE v \in Workers
    <2>1. CASE v = w
      <3>1. sessions'[v] = sessions[w] \cup {s}
        BY <1>2, <2>1 DEF IInv, TypeOK
      <3>2. IsFiniteSet(sessions[w]) /\ Load(w) \in Nat /\ Capacity[w] \in Nat
        BY LoadIsNumber
      <3>3. /\ IsFiniteSet(sessions[w] \cup {s})
            /\ Cardinality(sessions[w] \cup {s}) = Load(w) + 1
        BY <3>2, <1>4, Loads DEF Load
      <3> QED
        BY <3>1, <3>2, <3>3, <2>1, <1>5
    <2>2. CASE v # w
      <3>1. sessions'[v] = sessions[v]
        BY <1>2, <2>2 DEF IInv, TypeOK
      <3> QED
        BY <3>1 DEF IInv, WithinEnvelopes, Load
    <2> QED
      BY <2>1, <2>2
  <1>10. NoIdleSlotWhileWaiting'
    BY <1>3, <1>6 DEF NoIdleSlotWhileWaiting
  <1> QED
    BY <1>6, <1>7, <1>8, <1>9, <1>10 DEF IInv, WithinEnvelopes, Load

\* A session waits only when every worker is full.
LEMMA EnqueueIInv ==
  ASSUME IInv, NEW s \in Sessions, Enqueue(s)
  PROVE  IInv'
  <1> USE SchedulerAssumption
  <1>1. /\ sticky[s] = None /\ s \notin queuedSet
        /\ \A w \in Workers : ~(Load(w) < Capacity[w])
        /\ Len(queue) < MaxQueueDepth
        /\ queue' = Append(queue, s) /\ queuedSet' = queuedSet \cup {s}
        /\ sessions' = sessions /\ sticky' = sticky
    BY DEF Enqueue, HasRoom
  <1>2. queue \in Seq(Sessions)
    BY DEF IInv, TypeOK
  <1>3. /\ queue' \in Seq(Sessions) /\ Len(queue') = Len(queue) + 1
        /\ \A i \in 1 .. Len(queue') : queue'[i] = IF i = Len(queue) + 1 THEN s ELSE queue[i]
    BY <1>1, <1>2
  <1>4. TypeOK'
    BY <1>1, <1>3 DEF IInv, TypeOK
  <1>5. Waiting' = Waiting \cup {s}
    BY <1>2, <1>3 DEF Waiting
  <1>6. \A i, j \in 1 .. Len(queue') : queue'[i] = queue'[j] => i = j
    <2>1. \A i \in 1 .. Len(queue) : queue[i] # s
      BY <1>1 DEF IInv, RecordsAgree, Waiting
    <2> QED
      BY <2>1, <1>2, <1>3 DEF IInv, RecordsAgree
  <1>7. RecordsAgree'
    BY <1>1, <1>5, <1>6 DEF IInv, RecordsAgree
  <1>8. \A w \in Workers : Load(w) = Capacity[w]
    BY <1>1, LoadIsNumber
  <1> QED
    BY <1>1, <1>4, <1>7, <1>8 DEF IInv, WithinEnvelopes, NoIdleSlotWhileWaiting, Load

\* Giving up takes one place out of the queue.
LEMMA GiveUpIInv ==
  ASSUME IInv, NEW s \in Sessions, ReleaseQueued(s)
  PROVE  IInv'
  <1> USE SchedulerAssumption
  <1>1. PICK i \in 1 .. Len(queue) : queue[i] = s /\ queue' = RemoveAt(queue, i)
    BY DEF ReleaseQueued
  <1>2. queuedSet' = queuedSet \ {s} /\ sessions' = sessions /\ sticky' = sticky
    BY DEF ReleaseQueued
  <1>3. queue \in Seq(Sessions) /\ Len(queue) \in Nat
    BY DEF IInv, TypeOK
  <1>4. /\ queue' \in Seq(Sessions) /\ Len(queue') = Len(queue) - 1
        /\ \A j \in 1 .. Len(queue) - 1 :
              queue'[j] = IF j < i THEN queue[j] ELSE queue[j + 1]
    BY <1>1, <1>3, RemoveAtType
  <1>5. TypeOK'
    BY <1>2, <1>4 DEF IInv, TypeOK
  <1>6. \A j, k \in 1 .. Len(queue) : queue[j] = queue[k] => j = k
    BY DEF IInv, RecordsAgree
  <1>7. Waiting' = Waiting \ {s}
    <2>1. ASSUME NEW t \in Waiting' PROVE t \in Waiting /\ t # s
      <3>1. PICK j \in 1 .. Len(queue') : queue'[j] = t
        BY <2>1 DEF Waiting
      <3>2. CASE j < i
        BY <3>1, <3>2, <1>1, <1>3, <1>4, <1>6 DEF Waiting
      <3>3. CASE j >= i
        <4>1. j + 1 \in 1 .. Len(queue) /\ queue[j + 1] = t /\ j + 1 # i
          BY <3>1, <3>3, <1>3, <1>4
        <4> QED
          BY <4>1, <1>1, <1>6 DEF Waiting
      <3> QED
        BY <3>2, <3>3, <1>3
    <2>2. ASSUME NEW t \in Waiting, t # s PROVE t \in Waiting'
      <3>1. PICK j \in 1 .. Len(queue) : queue[j] = t
        BY DEF Waiting
      <3>2. CASE j < i
        <4>1. j \in 1 .. Len(queue') /\ queue'[j] = t
          BY <3>1, <3>2, <1>3, <1>4
        <4> QED
          BY <4>1 DEF Waiting
      <3>3. CASE j > i
        <4>1. j - 1 \in 1 .. Len(queue') /\ queue'[j - 1] = t
          BY <3>1, <3>3, <1>3, <1>4
        <4> QED
          BY <4>1 DEF Waiting
      <3> QED
        BY <3>1, <3>2, <3>3, <2>2, <1>1
    <2> QED
      BY <2>1, <2>2
  <1>8. \A j, k \in 1 .. Len(queue') : queue'[j] = queue'[k] => j = k
    BY <1>3, <1>4, <1>6
  <1>9. RecordsAgree'
    BY <1>2, <1>7, <1>8 DEF IInv, RecordsAgree
  <1>10. NoIdleSlotWhileWaiting'
    <2>1. queue # <<>>
      BY <1>1, <1>3
    <2> QED
      BY <2>1, <1>2 DEF IInv, NoIdleSlotWhileWaiting, Load
  <1> QED
    BY <1>2, <1>5, <1>9, <1>10 DEF IInv, WithinEnvelopes, Load

\* A freed slot goes to the session that has waited longest, and to no other.
LEMMA ReleaseIInv ==
  ASSUME IInv, NEW s \in Sessions, ReleaseLive(s)
  PROVE  /\ IInv'
         /\ \/ queue = <<>> /\ queue' = queue /\ \A t \in Sessions : sticky'[t] # None => sticky[t] # None
            \/ /\ queue # <<>> /\ queue' = Tail(queue)
               /\ \A t \in Sessions : sticky'[t] # None => sticky[t] # None \/ t = queue[1]
  <1> USE SchedulerAssumption, NoneIsNoWorker
  <1> DEFINE w == sticky[s]
             stay == sessions[w] \ {s}
  <1>1. w \in Workers /\ s \in sessions[w] /\ sticky[s] # None
    BY DEF IInv, TypeOK, RecordsAgree, ReleaseLive
  <1>2. /\ IsFiniteSet(sessions[w]) /\ IsFiniteSet(stay)
        /\ Load(w) \in Nat /\ Capacity[w] \in Nat /\ Load(w) <= Capacity[w]
        /\ Cardinality(stay) = Load(w) - 1
    BY <1>1, LoadIsNumber, Loads DEF Load
  <1>3. Promote(s, w)
    BY DEF ReleaseLive
  <1>4. Cardinality(stay) < Capacity[w] /\ Cardinality(stay) \in Int
    BY <1>2
  <1>5. queue \in Seq(Sessions) /\ Len(queue) \in Nat
    BY DEF IInv, TypeOK
  <1>6. CASE queue = <<>>
    <2>1. /\ sessions' = [sessions EXCEPT ![w] = stay]
          /\ sticky' = [sticky EXCEPT ![s] = None]
          /\ queue' = queue /\ queuedSet' = queuedSet
      BY <1>3, <1>6 DEF Promote
    <2>2. TypeOK'
      BY <2>1, <1>1 DEF IInv, TypeOK
    <2>3. \A t \in Sessions, v \in Workers : t \in sessions'[v] <=> sticky'[t] = v
      BY <2>1, <1>1 DEF IInv, TypeOK, RecordsAgree
    <2>4. \A t \in queuedSet' : sticky'[t] = None
      BY <2>1 DEF IInv, TypeOK, RecordsAgree
    <2>5. RecordsAgree'
      BY <2>1, <2>3, <2>4 DEF IInv, RecordsAgree, Waiting
    <2>6. \A v \in Workers : IsFiniteSet(sessions'[v]) /\ Cardinality(sessions'[v]) <= Capacity[v]
      <3> TAKE v \in Workers
      <3>1. CASE v = w
        <4>1. sessions'[v] = stay
          BY <2>1, <3>1 DEF IInv, TypeOK
        <4> QED
          BY <4>1, <3>1, <1>2
      <3>2. CASE v # w
        <4>1. sessions'[v] = sessions[v]
          BY <2>1, <3>2 DEF IInv, TypeOK
        <4> QED
          BY <4>1, LoadIsNumber DEF Load
      <3> QED
        BY <3>1, <3>2
    <2>7. NoIdleSlotWhileWaiting'
      BY <2>1, <1>6 DEF NoIdleSlotWhileWaiting
    <2>8. IInv'
      BY <2>2, <2>5, <2>6, <2>7 DEF IInv, WithinEnvelopes, Load
    <2>9. \A t \in Sessions : sticky'[t] # None => sticky[t] # None
      BY <2>1 DEF IInv, TypeOK
    <2> QED
      BY <2>1, <2>8, <2>9, <1>6
  <1>7. CASE queue # <<>>
    <2> DEFINE h == Head(queue)
    <2>1. h = queue[1] /\ Len(queue) >= 1 /\ h \in Sessions
      BY <1>5, <1>7
    <2>2. h \in queuedSet /\ sticky[h] = None /\ h # s
      <3>1. h \in Waiting
        BY <2>1, <1>5 DEF Waiting
      <3> QED
        BY <3>1, <1>1 DEF IInv, RecordsAgree
    <2>3. /\ sessions' = [sessions EXCEPT ![w] = stay \cup {h}]
          /\ sticky' = [sticky EXCEPT ![s] = None, ![h] = w]
          /\ queue' = Tail(queue)
          /\ queuedSet' = queuedSet \ {h}
      BY <1>3, <1>4, <1>7 DEF Promote
    <2>4. /\ queue' \in Seq(Sessions) /\ Len(queue') = Len(queue) - 1
          /\ \A i \in 1 .. Len(queue') : queue'[i] = queue[i + 1]
      BY <2>3, <1>5, <1>7
    <2>5. TypeOK'
      <3>1. /\ sessions \in [Workers -> SUBSET Sessions]
            /\ sticky \in [Sessions -> Workers \cup {None}]
            /\ Len(queue) <= MaxQueueDepth /\ queuedSet \subseteq Sessions
        BY DEF IInv, TypeOK
      <3>2. stay \cup {h} \subseteq Sessions
        BY <3>1, <2>1, <1>1
      <3>3. sessions' \in [Workers -> SUBSET Sessions]
        BY <3>1, <3>2, <2>3
      <3>4. sticky' \in [Sessions -> Workers \cup {None}]
        BY <3>1, <2>1, <2>3, <1>1
      <3> QED
        BY <3>1, <3>3, <3>4, <2>3, <2>4, <1>5 DEF TypeOK
    <2>6. \A t \in Sessions : sticky'[t] = IF t = s THEN None ELSE IF t = h THEN w ELSE sticky[t]
      BY <2>1, <2>2, <2>3 DEF IInv, TypeOK
    <2>7. \A t \in Sessions, v \in Workers : t \in sessions'[v] <=> sticky'[t] = v
      <3>1. \A v \in Workers : sessions'[v] = IF v = w THEN stay \cup {h} ELSE sessions[v]
        BY <2>3, <1>1 DEF IInv, TypeOK
      <3>2. \A t \in Sessions, v \in Workers : t \in sessions[v] <=> sticky[t] = v
        BY DEF IInv, RecordsAgree
      <3> QED
        BY <3>1, <3>2, <2>1, <2>2, <2>6, <1>1
    <2>8. \A i, j \in 1 .. Len(queue) : queue[i] = queue[j] => i = j
      BY DEF IInv, RecordsAgree
    <2>9. queuedSet' = Waiting'
      <3>1. queuedSet = Waiting
        BY DEF IInv, RecordsAgree
      <3>2. ASSUME NEW t \in Waiting, t # h PROVE t \in Waiting'
        <4>1. PICK i \in 1 .. Len(queue) : queue[i] = t
          BY DEF Waiting
        <4>2. i - 1 \in 1 .. Len(queue') /\ queue'[i - 1] = t
          BY <4>1, <3>2, <2>1, <2>4, <1>5
        <4> QED
          BY <4>2 DEF Waiting
      <3>3. ASSUME NEW t \in Waiting' PROVE t \in Waiting /\ t # h
        <4>1. PICK i \in 1 .. Len(queue') : queue'[i] = t
          BY DEF Waiting
        <4>2. i + 1 \in 1 .. Len(queue) /\ queue[i + 1] = t /\ i + 1 # 1
          BY <4>1, <2>4, <1>5
        <4>3. t # h
          BY <4>2, <2>1, <2>8
        <4> QED
          BY <4>2, <4>3 DEF Waiting
      <3> QED
        BY <3>1, <3>2, <3>3, <2>3
    <2>10. \A i, j \in 1 .. Len(queue') : queue'[i] = queue'[j] => i = j
      BY <2>4, <2>8, <1>5
    <2>11. \A t \in queuedSet' : sticky'[t] = None
      BY <2>3, <2>6, <1>1 DEF IInv, TypeOK, RecordsAgree
    <2>12. RecordsAgree'
      BY <2>7, <2>9, <2>10, <2>11 DEF RecordsAgree
    <2>13. Load(w) = Capacity[w]
      BY <1>1, <1>7 DEF IInv, NoIdleSlotWhileWaiting
    <2>14. \A v \in Workers : IsFiniteSet(sessions'[v]) /\ Cardinality(sessions'[v]) = Capacity[v]
      <3> TAKE v \in Workers
      <3>1. CASE v = w
        <4>1. sessions'[v] = stay \cup {h}
          BY <2>3, <3>1 DEF IInv, TypeOK
        <4>2. h \notin stay
          BY <2>1, <2>2, <1>1 DEF IInv, RecordsAgree
        <4>3. IsFiniteSet(stay \cup {h}) /\ Cardinality(stay \cup {h}) = Cardinality(stay) + 1
          BY <4>2, <1>2, Loads
        <4> QED
          BY <4>1, <4>3, <3>1, <2>13, <1>2
      <3>2. CASE v # w
        <4>1. sessions'[v] = sessions[v]
          BY <2>3, <3>2 DEF IInv, TypeOK
        <4> QED
          BY <4>1, <1>7, LoadIsNumber DEF Load, IInv, NoIdleSlotWhileWaiting
      <3> QED
        BY <3>1, <3>2
    <2>15. WithinEnvelopes' /\ NoIdleSlotWhileWaiting'
      BY <2>14 DEF WithinEnvelopes, NoIdleSlotWhileWaiting, Load
    <2>16. IInv'
      BY <2>5, <2>12, <2>14, <2>15 DEF IInv
    <2> QED
      BY <2>1, <2>3, <2>6, <2>16, <1>7
  <1> QED
    BY <1>6, <1>7

\* The rest of the calls change nothing.
LEMMA StutterIInv ==
  ASSUME IInv, UNCHANGED vars
  PROVE  IInv'
  BY DEF IInv, vars, TypeOK, RecordsAgree, Waiting, WithinEnvelopes,
         NoIdleSlotWhileWaiting, Load

\* Every call keeps the invariant.
LEMMA NextIInv == IInv /\ [Next]_vars => IInv'
  <1> SUFFICES ASSUME IInv, [Next]_vars PROVE IInv'
    OBVIOUS
  <1>1. CASE UNCHANGED vars
    BY <1>1, StutterIInv
  <1>2. ASSUME NEW s \in Sessions, Admit(s) PROVE IInv'
    BY <1>2, PlaceIInv, EnqueueIInv, StutterIInv DEF Admit, AdmitAgain, Reject
  <1>3. ASSUME NEW s \in Sessions, Release(s) PROVE IInv'
    BY <1>3, GiveUpIInv, ReleaseIInv, StutterIInv DEF Release, ReleaseUnknown
  <1> QED
    BY <1>1, <1>2, <1>3 DEF Next

\* The invariant holds in every reachable state.
THEOREM Invariance == Spec => []IInv
  BY InitIInv, NextIInv, PTL DEF Spec

\* The scheduler's state keeps its types, and the queue its bound.
THEOREM TypeCorrect == Spec => []TypeOK
  <1>1. IInv => TypeOK
    BY DEF IInv
  <1> QED
    BY <1>1, Invariance, PTL

\* The routing table and the workers, the queue and its membership set agree in
\* every pool, whatever the order of admit, release and promotion.
THEOREM RoutingAgrees == Spec => []RecordsAgree
  <1>1. IInv => RecordsAgree
    BY DEF IInv
  <1> QED
    BY <1>1, Invariance, PTL

\* No worker is ever given more sessions than its envelope allows.
THEOREM EnvelopesHold == Spec => []WithinEnvelopes
  <1>1. IInv => WithinEnvelopes
    BY DEF IInv
  <1> QED
    BY <1>1, Invariance, PTL

\* release fills the slot it frees, so no session waits while a slot is idle.
THEOREM SlotsAreUsed == Spec => []NoIdleSlotWhileWaiting
  <1>1. IInv => NoIdleSlotWhileWaiting
    BY DEF IInv
  <1> QED
    BY <1>1, Invariance, PTL

\* Whoever waits longest is served first, in each single step.
LEMMA StepsKeepOrder == IInv /\ [Next]_vars => [NoOvertakingStep]_vars
  <1> SUFFICES ASSUME IInv, [Next]_vars PROVE NoOvertakingStep
    OBVIOUS
  <1>1. queue \in Seq(Sessions) /\ Len(queue) \in Nat
    BY DEF IInv, TypeOK
  <1>2. \A i, j \in 1 .. Len(queue) : queue[i] = queue[j] => i = j
    BY DEF IInv, RecordsAgree
  <1>3. ASSUME queue' = queue, sticky' = sticky PROVE NoOvertakingStep
    BY <1>1, <1>2, <1>3 DEF NoOvertakingStep, Waiting
  <1>4. ASSUME NEW s \in Sessions, AdmitPlace(s) PROVE NoOvertakingStep
    <2>1. queue = <<>> /\ queue' = <<>>
      BY <1>4, PlaceIInv DEF AdmitPlace
    <2> QED
      BY <2>1 DEF NoOvertakingStep
  <1>5. ASSUME NEW s \in Sessions, Enqueue(s) PROVE NoOvertakingStep
    <2>1. queue' = Append(queue, s) /\ sticky' = sticky /\ s \notin Waiting
      BY <1>5 DEF Enqueue, IInv, RecordsAgree
    <2>2. \A k \in 1 .. Len(queue') : queue'[k] = IF k = Len(queue) + 1 THEN s ELSE queue[k]
      BY <2>1, <1>1
    <2>3. \A i \in 1 .. Len(queue), k \in 1 .. Len(queue') : queue'[k] = queue[i] => k = i
      BY <2>1, <2>2, <1>1, <1>2 DEF Waiting
    <2>4. \A k, l \in 1 .. Len(queue') :
             queue'[k] \in Waiting /\ queue'[l] \notin Waiting => k < l
      BY <2>1, <2>2, <1>1 DEF Waiting
    <2> QED
      BY <2>1, <2>3, <2>4 DEF NoOvertakingStep
  <1>6. ASSUME NEW s \in Sessions, ReleaseQueued(s) PROVE NoOvertakingStep
    <2>1. PICK p \in 1 .. Len(queue) : queue' = RemoveAt(queue, p)
      BY <1>6 DEF ReleaseQueued
    <2>2. /\ Len(queue') = Len(queue) - 1
          /\ \A k \in 1 .. Len(queue) - 1 :
                queue'[k] = IF k < p THEN queue[k] ELSE queue[k + 1]
      BY <2>1, <1>1, RemoveAtType
    <2>3. \A i \in 1 .. Len(queue), k \in 1 .. Len(queue') :
             queue'[k] = queue[i] => k = IF i <= p THEN i ELSE i - 1
      <3> TAKE i \in 1 .. Len(queue), k \in 1 .. Len(queue')
      <3> HAVE queue'[k] = queue[i]
      <3>1. k \in 1 .. Len(queue) - 1 /\ k + 1 \in 1 .. Len(queue)
        BY <2>2, <1>1
      <3>2. CASE k < p
        <4>1. i = k
          BY <3>1, <3>2, <2>2, <1>1, <1>2
        <4> QED
          BY <4>1, <3>2
      <3>3. CASE k >= p
        <4>1. i = k + 1
          BY <3>1, <3>3, <2>2, <1>1, <1>2
        <4> QED
          BY <4>1, <3>3
      <3> QED
        BY <3>2, <3>3
    <2>4. ASSUME NEW i \in 1 .. Len(queue), NEW k \in 1 .. Len(queue'), queue'[k] = queue[i]
          PROVE  i # p \/ k = p
      BY <2>3, <2>4
    <2>5. \A k \in 1 .. Len(queue') : queue'[k] # queue[p]
      BY <2>2, <1>1, <1>2
    <2>6. \A i, j \in 1 .. Len(queue), k, l \in 1 .. Len(queue') :
             i < j /\ queue'[k] = queue[i] /\ queue'[l] = queue[j] => k < l
      BY <2>3, <2>5
    <2>7. \A l \in 1 .. Len(queue') : queue'[l] \in Waiting
      BY <2>2, <1>1 DEF Waiting
    <2> QED
      BY <2>6, <2>7, <1>6 DEF NoOvertakingStep, ReleaseQueued
  <1>7. ASSUME NEW s \in Sessions, ReleaseLive(s) PROVE NoOvertakingStep
    <2>1. CASE queue = <<>>
      BY <2>1, <1>7, ReleaseIInv DEF NoOvertakingStep
    <2>2. CASE queue # <<>>
      <3>1. /\ queue' = Tail(queue)
            /\ \A t \in Sessions : sticky'[t] # None => sticky[t] # None \/ t = queue[1]
        BY <2>2, <1>7, ReleaseIInv
      <3>2. /\ Len(queue') = Len(queue) - 1
            /\ \A k \in 1 .. Len(queue') : queue'[k] = queue[k + 1]
        BY <3>1, <2>2, <1>1
      <3>3. \A i \in 1 .. Len(queue), k \in 1 .. Len(queue') : queue'[k] = queue[i] => k + 1 = i
        BY <3>2, <1>1, <1>2
      <3>4. \A i, j \in 1 .. Len(queue), k, l \in 1 .. Len(queue') :
               i < j /\ queue'[k] = queue[i] /\ queue'[l] = queue[j] => k < l
        BY <3>3
      <3>5. \A l \in 1 .. Len(queue') : queue'[l] \in Waiting
        BY <3>2, <1>1 DEF Waiting
      <3> QED
        BY <3>1, <3>4, <3>5 DEF NoOvertakingStep
    <2> QED
      BY <2>1, <2>2
  <1>8. ASSUME NEW s \in Sessions, Admit(s) PROVE NoOvertakingStep
    BY <1>8, <1>3, <1>4, <1>5 DEF Admit, AdmitAgain, Reject, vars
  <1>9. ASSUME NEW s \in Sessions, Release(s) PROVE NoOvertakingStep
    BY <1>9, <1>3, <1>6, <1>7 DEF Release, ReleaseUnknown, vars
  <1> QED
    BY <1>3, <1>8, <1>9 DEF Next, vars

\* First come, first served: nobody becomes live before a session that has waited
\* longer, those who wait keep their order, and newcomers stand behind them.
THEOREM FirstComeFirstServed == Spec => NoOvertaking
  BY Invariance, StepsKeepOrder, PTL DEF Spec, NoOvertaking
=============================================================================
