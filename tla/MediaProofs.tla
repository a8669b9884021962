------------------------------ MODULE MediaProofs ------------------------------
(***************************************************************************)
(* The media on their way, for any number of packets, frames, sockets,     *)
(* timers, chunks and turns.  The token stream accounts for every packet   *)
(* and the codec for every sample; the client's transport keeps the order  *)
(* of the frames over one socket at a time, and its player keeps the order *)
(* of the chunks and can be interrupted.                                   *)
(***************************************************************************)
EXTENDS SpeechCodec, ClientConnection, StreamPlayer, SequenceTheorems, FiniteSetTheorems,
        WellFoundedInduction, TLAPS

-----------------------------------------------------------------------------
(* Counting the packets of a queue. *)

Filled(q) == {i \in 1 .. Len(q) : q[i] # None}

\* A queue has finitely many packets in it.
LEMMA FilledFinite ==
  ASSUME NEW q \in Seq(Nat)
  PROVE  IsFiniteSet(Filled(q)) /\ Buffered(q) = Cardinality(Filled(q)) /\ Buffered(q) \in Nat
  <1>1. Filled(q) \in SUBSET (1 .. Len(q)) /\ IsFiniteSet(1 .. Len(q))
    BY FS_Interval DEF Filled
  <1>2. IsFiniteSet(Filled(q))
    BY <1>1, FS_Subset
  <1> QED
    BY <1>2, FS_CardinalityType DEF Filled, Buffered

\* The empty queue and the sentinel alone hold no packet.
LEMMA BufferedNothing == Buffered(<<>>) = 0 /\ Buffered(<<None>>) = 0
  <1>1. Filled(<<>>) = {} /\ Filled(<<None>>) = {}
    BY DEF Filled, None
  <1> QED
    BY <1>1, FS_EmptySet DEF Buffered, Filled

\* A packet put at the end counts one more, the sentinel none.
LEMMA BufferedAppend ==
  ASSUME NEW q \in Seq(Nat), NEW p \in Nat
  PROVE  Buffered(Append(q, p)) = Buffered(q) + (IF p = None THEN 0 ELSE 1)
  <1> DEFINE r == Append(q, p)
             n == Len(q) + 1
  <1>1. r \in Seq(Nat) /\ Len(r) = n /\ r[n] = p /\ \A i \in 1 .. Len(q) : r[i] = q[i]
    OBVIOUS
  <1>2. IsFiniteSet(Filled(q)) /\ Buffered(q) = Cardinality(Filled(q)) /\ Buffered(q) \in Nat
    BY FilledFinite
  <1>3. Buffered(r) = Cardinality(Filled(r))
    BY <1>1, FilledFinite
  <1>4. n \notin Filled(q)
    BY DEF Filled
  <1>5. CASE p = None
    <2>1. Filled(r) = Filled(q)
      BY <1>1, <1>5 DEF Filled
    <2> QED
      BY <2>1, <1>2, <1>3, <1>5
  <1>6. CASE p # None
    <2>1. Filled(r) = Filled(q) \cup {n}
      BY <1>1, <1>6 DEF Filled
    <2>2. Cardinality(Filled(r)) = Cardinality(Filled(q)) + 1
      BY <2>1, <1>2, <1>4, FS_AddElement
    <2> QED
      BY <2>2, <1>2, <1>3, <1>6
  <1> QED
    BY <1>5, <1>6

\* Taking the head counts one packet less, or the sentinel.
LEMMA BufferedTail ==
  ASSUME NEW q \in Seq(Nat), q # <<>>
  PROVE  Buffered(q) = Buffered(Tail(q)) + (IF Head(q) = None THEN 0 ELSE 1)
  <1> DEFINE r == Tail(q)
             f == [i \in Filled(r) |-> i + 1]
             rest == Filled(q) \ {1}
  <1>1. /\ r \in Seq(Nat) /\ Len(q) \in Nat /\ Len(q) >= 1 /\ Len(r) = Len(q) - 1
        /\ Head(q) = q[1] /\ \A i \in 1 .. Len(r) : r[i] = q[i + 1]
    OBVIOUS
  <1>2. /\ IsFiniteSet(Filled(r)) /\ Buffered(r) = Cardinality(Filled(r)) /\ Buffered(r) \in Nat
        /\ IsFiniteSet(Filled(q)) /\ Buffered(q) = Cardinality(Filled(q)) /\ Buffered(q) \in Nat
    BY <1>1, FilledFinite
  <1>3. f \in Bijection(Filled(r), rest)
    <2>1. \A i \in Filled(r) : i + 1 \in rest
      BY <1>1 DEF Filled
    <2>2. \A j \in rest : j - 1 \in Filled(r) /\ f[j - 1] = j
      BY <1>1 DEF Filled
    <2>3. \A i, j \in Filled(r) : f[i] = f[j] => i = j
      BY <1>1 DEF Filled
    <2>4. f \in [Filled(r) -> rest]
      BY <2>1
    <2> QED
      BY <2>2, <2>3, <2>4 DEF Bijection, Injection, Surjection, IsInjective
  <1>4. Cardinality(rest) = Cardinality(Filled(r))
    BY <1>2, <1>3, FS_Bijection DEF ExistsBijection
  <1>5. Cardinality(rest) = IF 1 \in Filled(q) THEN Cardinality(Filled(q)) - 1 ELSE Cardinality(Filled(q))
    BY <1>2, FS_RemoveElement
  <1>6. 1 \in Filled(q) <=> Head(q) # None
    BY <1>1 DEF Filled
  <1> QED
    BY <1>2, <1>4, <1>5, <1>6
-----------------------------------------------------------------------------
(* The strengthening of StreamIsSound. *)

Sending == producer.pc \in {"put", "putFinal", "putEnd"}

ProducerType == [pc : {"idle", "put", "putFinal", "putEnd", "stopped"}, item : Nat,
                 task : {Fresh, Blocked, Done}, next : 1 .. Packets + 1]
ConsumerType == [pc : {"idle", "get", "stopped"}, item : Nat,
                 task : {Fresh, Blocked, Done}, got : Seq(Nat)]
CountsType == [produced : Nat, consumed : Nat, dropped : Nat]

TokTypeOK ==
  /\ queue \in Seq(Nat)
  /\ producer \in ProducerType
  /\ consumer \in ConsumerType
  /\ halted \in BOOLEAN
  /\ closed \in BOOLEAN
  /\ counts \in CountsType

\* A task is under way only while its caller waits for it; the caller of a put
\* knows what it puts, and one of a get has nothing before the task is done.
CallersWait ==
  /\ ~Sending => producer.task = Done
  /\ producer.pc \in {"put", "putFinal"} => producer.item = producer.next - 1 /\ producer.item # None
  /\ producer.pc = "putEnd" => producer.item = None
  /\ producer.pc \in {"putFinal", "putEnd"} => producer.next = Packets + 1
  /\ closed => producer.pc \in {"putEnd", "stopped"}
  /\ consumer.pc # "get" => consumer.task = Done
  /\ consumer.pc = "idle" \/ consumer.task # Done => consumer.item = None

\* Packets in the consumer's hands.
Received == Len(consumer.got) + Taken

\* Packets that have entered the queue.
Sent == producer.next - 1
        - (IF producer.pc \in {"put", "putFinal"} /\ ~Returns(producer) THEN 1 ELSE 0)

EndSent == producer.pc = "stopped" \/ (producer.pc = "putEnd" /\ Returns(producer))
EndTaken == consumer.pc = "stopped" \/ (consumer.pc = "get" /\ Returns(consumer) /\ consumer.item = None)

\* The queue of a stream nobody cancelled: the packets that were sent and not yet
\* received, in order, with the sentinel behind them from its put to its get.
LiveQueue ==
  /\ EndTaken => EndSent /\ Received = Sent
  /\ EndSent => Sent = Packets
  /\ Len(queue) = Sent - Received + (IF EndSent /\ ~EndTaken THEN 1 ELSE 0)
  /\ \A i \in 1 .. Len(queue) :
       queue[i] = IF Received + i > Sent THEN None ELSE Received + i

\* After cancel() nothing comes before the sentinel.
CancelledQueue == EndTaken \/ (queue # <<>> /\ Head(queue) = None)

ReceivedInOrder ==
  /\ consumer.got = [i \in 1 .. Len(consumer.got) |-> i]
  /\ Taken = 1 => consumer.item = Len(consumer.got) + 1

TokIInv ==
  /\ TokTypeOK
  /\ CallersWait
  /\ PacketsAddUp
  /\ ReceivedInOrder
  /\ IF halted THEN CancelledQueue ELSE LiveQueue
-----------------------------------------------------------------------------
(* The inductive invariant: one lemma for each step. *)

\* TokInit establishes the invariant.
LEMMA InitInvariant == TokInit => TokIInv
  <1> SUFFICES ASSUME TokInit PROVE TokIInv
    OBVIOUS
  <1> USE TokenAssumption DEF TokInit, Fresh, Blocked, Done, None
  <1>1. TokTypeOK
    <2>1. producer \in ProducerType
      BY DEF ProducerType
    <2>2. consumer \in ConsumerType
      BY DEF ConsumerType
    <2>3. counts \in CountsType
      BY DEF CountsType
    <2>4. queue \in Seq(Nat)
      OBVIOUS
    <2>5. halted \in BOOLEAN /\ closed \in BOOLEAN
      OBVIOUS
    <2> QED
      BY <2>1, <2>2, <2>3, <2>4, <2>5 DEF TokTypeOK
  <1>2. CallersWait
    BY DEF CallersWait, Sending
  <1>3. PacketsAddUp
    BY BufferedNothing DEF PacketsAddUp, Entered, Taken, Returns
  <1>4. ReceivedInOrder /\ LiveQueue
    BY DEF ReceivedInOrder, LiveQueue, Taken, Received, Sent, EndSent, EndTaken
  <1> QED
    BY <1>1, <1>2, <1>3, <1>4 DEF TokIInv

\* A put begins: its task is made, the queue is as it was.
LEMMA PutStartKeeps ==
  ASSUME TokIInv, NEW final \in BOOLEAN, PutStart(final)
  PROVE  TokIInv'
  <1> USE TokenAssumption DEF Fresh, Blocked, Done, None
  <1>1. producer.pc = "idle" /\ producer.next <= Packets /\ (final => producer.next = Packets)
        /\ producer \in ProducerType
    BY DEF PutStart, TokIInv, TokTypeOK
  <1>2. UNCHANGED <<queue, consumer, halted, closed, counts>>
    BY DEF PutStart
  <1>3. producer' \in ProducerType
    <2>1. CASE halted
      BY <1>1, <2>1 DEF PutStart, ProducerType
    <2>2. CASE ~halted
      <3>1. producer' = [producer EXCEPT !.pc = IF final THEN "putFinal" ELSE "put",
                                         !.item = producer.next, !.task = Fresh, !.next = @ + 1]
        BY <2>2 DEF PutStart
      <3>2. producer.next \in Nat /\ producer.next + 1 \in 1 .. Packets + 1
        BY <1>1 DEF ProducerType
      <3> QED
        BY <1>1, <3>1, <3>2 DEF ProducerType
    <2> QED
      BY <2>1, <2>2
  <1>4. TokTypeOK'
    BY <1>2, <1>3 DEF TokIInv, TokTypeOK
  <1>5. CASE halted
    <2>1. producer' = [producer EXCEPT !.pc = "stopped"]
      BY <1>5 DEF PutStart
    <2>2. producer'.pc = "stopped" /\ producer'.task = producer.task
      BY <2>1, <1>1 DEF ProducerType
    <2>3. CallersWait'
      BY <1>1, <1>2, <2>2 DEF TokIInv, CallersWait, Sending
    <2>4. PacketsAddUp' /\ ReceivedInOrder' /\ CancelledQueue'
      BY <1>1, <1>2, <2>2, <1>5 DEF TokIInv, PacketsAddUp, Entered, ReceivedInOrder, CancelledQueue, EndTaken, Taken, Returns
    <2> QED
      BY <1>2, <1>4, <1>5, <2>3, <2>4 DEF TokIInv
  <1>6. CASE ~halted
    <2>1. producer' = [producer EXCEPT !.pc = IF final THEN "putFinal" ELSE "put",
                                       !.item = producer.next, !.task = Fresh, !.next = @ + 1]
      BY <1>6 DEF PutStart
    <2>2. /\ producer'.pc \in {"put", "putFinal"} /\ (producer'.pc = "putFinal" => final)
          /\ producer'.item = producer.next /\ producer'.task = Fresh /\ producer'.next = producer.next + 1
          /\ producer.next \in Nat \ {0}
      BY <2>1, <1>1 DEF ProducerType
    <2>3. CallersWait'
      BY <1>1, <1>2, <2>2 DEF TokIInv, CallersWait, Sending, PutStart
    <2>4. PacketsAddUp' /\ ReceivedInOrder'
      BY <1>1, <1>2, <2>2 DEF TokIInv, PacketsAddUp, Entered, ReceivedInOrder, Taken, Returns
    <2>5. Sent' = Sent /\ EndSent' = EndSent /\ Received' = Received /\ EndTaken' = EndTaken
      BY <1>1, <1>2, <2>2 DEF Sent, EndSent, Received, EndTaken, Returns, Taken
    <2>6. LiveQueue'
      BY <1>2, <1>6, <2>5 DEF TokIInv, LiveQueue
    <2> QED
      BY <1>2, <1>4, <1>6, <2>3, <2>4, <2>6 DEF TokIInv
  <1> QED
    BY <1>5, <1>6
\* The producer ends the stream with the sentinel.
LEMMA CloseStartKeeps ==
  ASSUME TokIInv, CloseStart
  PROVE  TokIInv'
  <1> USE TokenAssumption DEF Fresh, Blocked, Done, None
  <1>1. producer.pc = "idle" /\ producer.next = Packets + 1 /\ producer.task = Done /\ ~closed
        /\ producer \in ProducerType
    BY DEF CloseStart, TokIInv, TokTypeOK, CallersWait, Sending, ProducerType
  <1>2. UNCHANGED <<queue, consumer, halted, counts>>
    BY DEF CloseStart
  <1>3. CASE halted
    <2>1. producer' = [producer EXCEPT !.pc = "stopped"] /\ closed' = closed
      BY <1>3 DEF CloseStart
    <2>2. producer' \in ProducerType /\ producer'.pc = "stopped" /\ producer'.task = producer.task
      BY <2>1, <1>1 DEF ProducerType
    <2>3. TokTypeOK'
      BY <1>2, <2>1, <2>2 DEF TokIInv, TokTypeOK
    <2>4. CallersWait'
      BY <1>1, <1>2, <2>1, <2>2 DEF TokIInv, CallersWait, Sending
    <2>5. PacketsAddUp' /\ ReceivedInOrder' /\ CancelledQueue'
      BY <1>1, <1>2, <2>2, <1>3 DEF TokIInv, PacketsAddUp, Entered, ReceivedInOrder, CancelledQueue, EndTaken, Taken, Returns
    <2> QED
      BY <1>2, <1>3, <2>3, <2>4, <2>5 DEF TokIInv
  <1>4. CASE ~halted
    <2>1. producer' = [producer EXCEPT !.pc = "putEnd", !.item = None, !.task = Fresh] /\ closed' = TRUE
      BY <1>1, <1>4 DEF CloseStart
    <2>2. /\ producer' \in ProducerType
          /\ producer'.pc = "putEnd" /\ producer'.item = None /\ producer'.task = Fresh
          /\ producer'.next = producer.next
      BY <2>1, <1>1 DEF ProducerType
    <2>3. TokTypeOK'
      BY <1>2, <2>1, <2>2 DEF TokIInv, TokTypeOK
    <2>4. CallersWait'
      BY <1>1, <1>2, <2>1, <2>2 DEF TokIInv, CallersWait, Sending
    <2>5. PacketsAddUp' /\ ReceivedInOrder'
      BY <1>1, <1>2, <2>2 DEF TokIInv, PacketsAddUp, Entered, ReceivedInOrder, Taken, Returns
    <2>6. Sent' = Sent /\ EndSent' = EndSent /\ Received' = Received /\ EndTaken' = EndTaken
      BY <1>1, <1>2, <2>2 DEF Sent, EndSent, Received, EndTaken, Returns, Taken
    <2>7. LiveQueue'
      BY <1>2, <1>4, <2>6 DEF TokIInv, LiveQueue
    <2> QED
      BY <1>2, <1>4, <2>3, <2>4, <2>5, <2>7 DEF TokIInv
  <1> QED
    BY <1>3, <1>4

\* The task of a put enters the queue, or loses to the cancel event.
LEMMA PutTaskKeeps ==
  ASSUME TokIInv, PutTask
  PROVE  TokIInv'
  <1> USE TokenAssumption DEF Fresh, Blocked, Done, None
  <1>1. /\ producer.task \in {Fresh, Blocked} /\ producer.pc \in {"put", "putFinal", "putEnd"}
        /\ producer \in ProducerType /\ queue \in Seq(Nat) /\ producer.item \in Nat
        /\ producer.next \in Nat /\ consumer \in ConsumerType /\ Len(consumer.got) \in Nat
    BY DEF PutTask, TokIInv, TokTypeOK, CallersWait, Sending, ProducerType, ConsumerType
  <1>2. UNCHANGED <<consumer, halted, closed, counts>>
    BY DEF PutTask
  <1>3. CASE Len(queue) < MaxSize
    <2>1. queue' = Append(queue, producer.item) /\ producer' = [producer EXCEPT !.task = Done]
      BY <1>3 DEF PutTask
    <2>2. /\ producer' \in ProducerType /\ producer'.task = Done /\ producer'.pc = producer.pc
          /\ producer'.item = producer.item /\ producer'.next = producer.next
      BY <2>1, <1>1 DEF ProducerType
    <2>3. /\ queue' \in Seq(Nat) /\ Len(queue') = Len(queue) + 1 /\ queue'[Len(queue) + 1] = producer.item
          /\ \A i \in 1 .. Len(queue) : queue'[i] = queue[i]
      BY <2>1, <1>1
    <2>4. TokTypeOK'
      BY <1>2, <2>2, <2>3 DEF TokIInv, TokTypeOK
    <2>5. CallersWait'
      BY <1>1, <1>2, <2>2 DEF TokIInv, CallersWait, Sending
    <2>6. PacketsAddUp'
      <3>1. Buffered(queue) \in Nat /\ Buffered(queue') = Buffered(queue) + (IF producer.item = None THEN 0 ELSE 1)
        BY <1>1, <2>1, FilledFinite, BufferedAppend
      <3>2. /\ producer.pc \in {"put", "putFinal"} => producer.item # None
            /\ producer.pc = "putEnd" => producer.item = None
        BY DEF TokIInv, CallersWait
      <3>3. Entered = 0 /\ Entered' = (IF producer.item = None THEN 0 ELSE 1)
        BY <1>1, <2>2, <3>2 DEF Entered, Returns
      <3>4. Taken' = Taken /\ Taken \in Nat
        BY <1>2 DEF Taken, Returns
      <3>5. counts.produced \in Nat /\ counts.consumed \in Nat /\ counts.dropped \in Nat
        BY DEF TokIInv, TokTypeOK, CountsType
      <3> QED
        BY <1>2, <3>1, <3>3, <3>4, <3>5 DEF TokIInv, PacketsAddUp
    <2>7. ReceivedInOrder'
      BY <1>2 DEF TokIInv, ReceivedInOrder, Taken, Returns
    <2>8. Received' = Received /\ EndTaken' = EndTaken /\ Received \in Nat
      <3>1. Taken' = Taken /\ Taken \in Nat /\ EndTaken' = EndTaken
        BY <1>2 DEF EndTaken, Returns, Taken
      <3> QED
        BY <1>1, <1>2, <3>1 DEF Received
    <2>9. CASE halted
      <3>1. CancelledQueue'
        BY <1>1, <2>1, <2>3, <2>8, <2>9 DEF TokIInv, CancelledQueue
      <3> QED
        BY <1>2, <2>4, <2>5, <2>6, <2>7, <2>9, <3>1 DEF TokIInv
    <2>10. CASE ~halted
      <3>1. LiveQueue /\ CallersWait
        BY <2>10 DEF TokIInv
      <3>2. ~EndSent /\ ~EndTaken
        BY <1>1, <3>1 DEF EndSent, Returns, LiveQueue
      <3>3. CASE producer.pc = "putEnd"
        <4>1. Sent' = Sent /\ EndSent' /\ Sent = Packets /\ producer.item = None
          BY <1>1, <2>2, <3>1, <3>3 DEF Sent, EndSent, Returns, CallersWait
        <4>2. LiveQueue'
          BY <1>1, <2>3, <2>8, <3>1, <3>2, <4>1 DEF LiveQueue
        <4> QED
          BY <1>2, <2>4, <2>5, <2>6, <2>7, <2>10, <4>2 DEF TokIInv
      <3>4. CASE producer.pc \in {"put", "putFinal"}
        <4>1. Sent' = Sent + 1 /\ ~EndSent' /\ Sent \in Nat /\ producer.item = Sent + 1
          BY <1>1, <2>2, <3>1, <3>4 DEF Sent, EndSent, Returns, CallersWait
        <4>2. Len(queue) = Sent - Received /\ Len(queue') = Sent' - Received'
          BY <1>1, <2>3, <2>8, <3>1, <3>2, <4>1 DEF LiveQueue
        <4>3. ASSUME NEW i \in 1 .. Len(queue')
              PROVE  queue'[i] = IF Received' + i > Sent' THEN None ELSE Received' + i
          <5>1. Received + i <= Sent'
            BY <1>1, <2>3, <2>8, <4>1, <4>2
          <5>2. CASE i = Len(queue) + 1
            BY <1>1, <2>3, <2>8, <4>1, <4>2, <5>1, <5>2
          <5>3. CASE i \in 1 .. Len(queue)
            BY <1>1, <2>3, <2>8, <3>1, <4>1, <4>2, <5>1, <5>3 DEF LiveQueue
          <5> QED
            BY <1>1, <2>3, <5>2, <5>3
        <4>4. LiveQueue'
          BY <2>8, <3>2, <4>1, <4>2, <4>3 DEF LiveQueue
        <4> QED
          BY <1>2, <2>4, <2>5, <2>6, <2>7, <2>10, <4>4 DEF TokIInv
      <3> QED
        BY <1>1, <3>3, <3>4
    <2> QED
      BY <2>9, <2>10
  <1>4. CASE ~(Len(queue) < MaxSize)
    <2>1. producer' = [producer EXCEPT !.task = Blocked] /\ queue' = queue
      BY <1>4 DEF PutTask
    <2>2. /\ producer' \in ProducerType /\ producer'.task = Blocked /\ producer'.pc = producer.pc
          /\ producer'.item = producer.item /\ producer'.next = producer.next
      BY <2>1, <1>1 DEF ProducerType
    <2>3. TokTypeOK'
      BY <1>2, <2>1, <2>2 DEF TokIInv, TokTypeOK
    <2>4. CallersWait'
      BY <1>1, <1>2, <2>2 DEF TokIInv, CallersWait, Sending
    <2>5. PacketsAddUp' /\ ReceivedInOrder'
      BY <1>1, <1>2, <2>1, <2>2 DEF TokIInv, PacketsAddUp, Entered, ReceivedInOrder, Taken, Returns
    <2>6. Sent' = Sent /\ EndSent' = EndSent /\ Received' = Received /\ EndTaken' = EndTaken
      BY <1>1, <1>2, <2>2 DEF Sent, EndSent, Received, EndTaken, Returns, Taken
    <2>7. (IF halted THEN CancelledQueue ELSE LiveQueue)'
      BY <1>2, <2>1, <2>6 DEF TokIInv, CancelledQueue, LiveQueue
    <2> QED
      BY <2>3, <2>4, <2>5, <2>7 DEF TokIInv
  <1> QED
    BY <1>3, <1>4
\* The caller of a put counts its packet as in or as dropped.
LEMMA PutReturnsKeeps ==
  ASSUME TokIInv, PutReturns
  PROVE  TokIInv'
  <1> USE TokenAssumption DEF Fresh, Blocked, Done, None
  <1>1. /\ producer.pc \in {"put", "putFinal", "putEnd"} /\ producer \in ProducerType
        /\ producer.next \in Nat /\ counts \in CountsType /\ closed \in BOOLEAN
        /\ (producer.pc \in {"putFinal", "putEnd"} => producer.next = Packets + 1)
        /\ producer.next <= Packets + 1
    BY DEF PutReturns, TokIInv, TokTypeOK, CallersWait, ProducerType
  <1>2. UNCHANGED <<queue, consumer, halted>>
    BY DEF PutReturns
  <1>3. Taken' = Taken /\ Received' = Received /\ EndTaken' = EndTaken /\ ReceivedInOrder'
        /\ Taken \in Nat /\ Buffered(queue) \in Nat
    BY <1>2, FilledFinite DEF Taken, Received, EndTaken, Returns, ReceivedInOrder, TokIInv, TokTypeOK
  <1>4. CASE producer.task = Done /\ producer.pc \in {"put", "putFinal"}
    <2>1. /\ producer' = IF producer.pc = "put" THEN [producer EXCEPT !.pc = "idle", !.item = None]
                         ELSE [producer EXCEPT !.pc = "putEnd", !.item = None, !.task = Fresh]
          /\ counts' = [counts EXCEPT !.produced = @ + 1]
      BY <1>4 DEF PutReturns, Aborts
    <2>2. closed' = (closed \/ producer.pc = "putFinal")
      BY <1>4 DEF PutReturns, Aborts
    <2>3. /\ producer' \in ProducerType /\ producer'.next = producer.next /\ producer'.item = None
          /\ producer.pc = "put" => producer'.pc = "idle" /\ producer'.task = Done
          /\ producer.pc = "putFinal" => producer'.pc = "putEnd" /\ producer'.task = Fresh
      <3>1. CASE producer.pc = "put"
        BY <1>1, <1>4, <2>1, <3>1 DEF ProducerType
      <3>2. CASE producer.pc = "putFinal"
        BY <1>1, <2>1, <3>2 DEF ProducerType
      <3> QED
        BY <1>4, <3>1, <3>2
    <2>4. counts' \in CountsType /\ counts'.produced = counts.produced + 1
          /\ counts'.consumed = counts.consumed /\ counts'.dropped = counts.dropped
          /\ counts.produced \in Nat /\ counts.consumed \in Nat /\ counts.dropped \in Nat
      BY <1>1, <2>1 DEF CountsType
    <2>5. closed' \in BOOLEAN /\ ~closed /\ (closed' => producer.pc = "putFinal")
      BY <1>1, <1>4, <2>2 DEF TokIInv, CallersWait
    <2>6. TokTypeOK'
      BY <1>2, <2>3, <2>4, <2>5 DEF TokIInv, TokTypeOK
    <2>7. CallersWait'
      BY <1>1, <1>2, <1>4, <2>3, <2>5 DEF TokIInv, CallersWait, Sending
    <2>8. PacketsAddUp'
      <3>1. Entered = 1 /\ Entered' = 0
        BY <1>4, <2>3 DEF Entered, Returns
      <3> QED
        BY <1>2, <1>3, <2>4, <3>1 DEF TokIInv, PacketsAddUp
    <2>9. Sent' = Sent /\ EndSent' = EndSent
      BY <1>1, <1>4, <2>3 DEF Sent, EndSent, Returns
    <2>10. (IF halted THEN CancelledQueue ELSE LiveQueue)'
      BY <1>2, <1>3, <2>9 DEF TokIInv, CancelledQueue, LiveQueue
    <2> QED
      BY <1>3, <2>6, <2>7, <2>8, <2>10 DEF TokIInv
  <1>5. CASE \/ producer.task = Done /\ producer.pc = "putEnd"
             \/ halted /\ producer.task = Blocked
    <2>1. /\ producer'.pc = "stopped" /\ producer'.task = Done /\ producer'.next = producer.next
          /\ producer' \in ProducerType /\ counts' = counts
      <3>1. CASE producer.task = Done /\ producer.pc = "putEnd"
        BY <1>1, <3>1 DEF PutReturns, Aborts, Returns, ProducerType
      <3>2. CASE halted /\ producer.task = Blocked
        <4>1. producer' = [producer EXCEPT !.pc = "stopped", !.item = None, !.task = Done]
              /\ counts' = counts
          BY <3>2 DEF PutReturns, Aborts, Returns
        <4> QED
          BY <1>1, <4>1 DEF ProducerType
      <3> QED
        BY <1>5, <3>1, <3>2
    <2>2. closed' = closed
      <3>1. CASE producer.task = Done /\ producer.pc = "putEnd"
        BY <1>1, <3>1 DEF PutReturns, Aborts, Returns
      <3>2. CASE halted /\ producer.task = Blocked
        BY <1>1, <3>2 DEF PutReturns, Aborts, Returns
      <3> QED
        BY <1>5, <3>1, <3>2
    <2>3. TokTypeOK'
      BY <1>2, <2>1, <2>2 DEF TokIInv, TokTypeOK
    <2>4. CallersWait'
      BY <1>1, <1>2, <2>1, <2>2 DEF TokIInv, CallersWait, Sending
    <2>5. PacketsAddUp'
      <3>1. Entered = 0 /\ Entered' = 0
        BY <1>5, <2>1 DEF Entered, Returns
      <3> QED
        BY <1>2, <1>3, <2>1, <3>1 DEF TokIInv, PacketsAddUp
    <2>6. ~halted => Sent' = Sent /\ EndSent' = EndSent
      BY <1>1, <1>5, <2>1 DEF Sent, EndSent, Returns
    <2>7. (IF halted THEN CancelledQueue ELSE LiveQueue)'
      BY <1>2, <1>3, <2>6 DEF TokIInv, CancelledQueue, LiveQueue
    <2> QED
      BY <1>3, <2>3, <2>4, <2>5, <2>7 DEF TokIInv
  <1> QED
    BY <1>1, <1>4, <1>5 DEF PutReturns, Returns, Aborts

\* A get begins.
LEMMA GetStartKeeps ==
  ASSUME TokIInv, GetStart
  PROVE  TokIInv'
  <1> USE TokenAssumption DEF Fresh, Blocked, Done, None
  <1>1. consumer.pc = "idle" /\ consumer.task = Done /\ consumer \in ConsumerType
    BY DEF GetStart, TokIInv, TokTypeOK, CallersWait
  <1>2. UNCHANGED <<queue, producer, halted, closed, counts>>
    BY DEF GetStart
  <1>3. CASE halted /\ queue = <<>>
    <2>1. consumer' = [consumer EXCEPT !.pc = "stopped"]
      BY <1>3 DEF GetStart
    <2>2. consumer' \in ConsumerType /\ consumer'.pc = "stopped" /\ consumer'.task = Done
          /\ consumer'.got = consumer.got
      BY <1>1, <2>1 DEF ConsumerType
    <2>3. TokTypeOK' /\ CallersWait'
      BY <1>2, <2>2 DEF TokIInv, TokTypeOK, CallersWait, Sending
    <2>4. PacketsAddUp' /\ ReceivedInOrder' /\ CancelledQueue'
      BY <1>1, <1>2, <2>2 DEF TokIInv, PacketsAddUp, Entered, Taken, Returns, ReceivedInOrder, CancelledQueue, EndTaken
    <2> QED
      BY <1>2, <1>3, <2>3, <2>4 DEF TokIInv
  <1>4. CASE ~(halted /\ queue = <<>>)
    <2>1. consumer' = [consumer EXCEPT !.pc = "get", !.task = Fresh]
      BY <1>4 DEF GetStart
    <2>2. consumer' \in ConsumerType /\ consumer'.pc = "get" /\ consumer'.task = Fresh
          /\ consumer'.got = consumer.got /\ consumer'.item = consumer.item
      BY <1>1, <2>1 DEF ConsumerType
    <2>3. TokTypeOK'
      BY <1>2, <2>2 DEF TokIInv, TokTypeOK
    <2>4. CallersWait'
      BY <1>1, <1>2, <2>2 DEF TokIInv, CallersWait, Sending
    <2>5. PacketsAddUp' /\ ReceivedInOrder'
      BY <1>1, <1>2, <2>2 DEF TokIInv, PacketsAddUp, Entered, Taken, Returns, ReceivedInOrder
    <2>6. Sent' = Sent /\ EndSent' = EndSent /\ Received' = Received /\ EndTaken' = EndTaken
      BY <1>1, <1>2, <2>2 DEF Sent, EndSent, Received, EndTaken, Returns, Taken
    <2>7. (IF halted THEN CancelledQueue ELSE LiveQueue)'
      BY <1>2, <2>6 DEF TokIInv, CancelledQueue, LiveQueue
    <2> QED
      BY <2>3, <2>4, <2>5, <2>7 DEF TokIInv
  <1> QED
    BY <1>3, <1>4
\* The task of a get takes the head of the queue, or loses.
LEMMA GetTaskKeeps ==
  ASSUME TokIInv, GetTask
  PROVE  TokIInv'
  <1> USE TokenAssumption DEF Fresh, Blocked, Done, None
  <1>1. /\ consumer.pc = "get" /\ consumer.task \in {Fresh, Blocked} /\ consumer.item = None
        /\ consumer \in ConsumerType /\ Len(consumer.got) \in Nat /\ queue \in Seq(Nat)
    BY DEF GetTask, TokIInv, TokTypeOK, CallersWait, ConsumerType
  <1>2. UNCHANGED <<producer, halted, closed, counts>>
    BY DEF GetTask
  <1>3. Sent' = Sent /\ EndSent' = EndSent /\ Entered' = Entered
    BY <1>2 DEF Sent, EndSent, Entered, Returns
  <1>4. Taken = 0 /\ ~EndTaken /\ Received = Len(consumer.got)
    BY <1>1 DEF Taken, Received, EndTaken, Returns
  <1>5. CASE queue # <<>>
    <2>1. consumer' = [consumer EXCEPT !.task = Done, !.item = Head(queue)] /\ queue' = Tail(queue)
      BY <1>5 DEF GetTask
    <2>2. /\ Head(queue) \in Nat /\ Head(queue) = queue[1] /\ Len(queue) \in Nat /\ Len(queue) >= 1
          /\ queue' \in Seq(Nat) /\ Len(queue') = Len(queue) - 1
          /\ \A i \in 1 .. Len(queue') : queue'[i] = queue[i + 1]
      BY <1>1, <1>5, <2>1
    <2>3. /\ consumer' \in ConsumerType /\ consumer'.pc = "get" /\ consumer'.task = Done
          /\ consumer'.item = Head(queue) /\ consumer'.got = consumer.got
      BY <1>1, <2>1, <2>2 DEF ConsumerType
    <2>4. TokTypeOK'
      BY <1>2, <2>2, <2>3 DEF TokIInv, TokTypeOK
    <2>5. CallersWait'
      BY <1>1, <1>2, <2>3 DEF TokIInv, CallersWait, Sending
    <2>6. Taken' = (IF Head(queue) = None THEN 0 ELSE 1) /\ (EndTaken' <=> Head(queue) = None)
      BY <2>3 DEF Taken, EndTaken, Returns
    <2>7. PacketsAddUp'
      <3>1. /\ Buffered(queue) = Buffered(queue') + (IF Head(queue) = None THEN 0 ELSE 1)
            /\ Buffered(queue') \in Nat
        BY <1>1, <1>5, <2>1, <2>2, BufferedTail, FilledFinite
      <3>2. counts.produced \in Nat /\ counts.consumed \in Nat /\ counts.dropped \in Nat
        BY DEF TokIInv, TokTypeOK, CountsType
      <3>3. Entered \in Nat
        BY DEF Entered
      <3> QED
        BY <1>2, <1>3, <1>4, <2>6, <3>1, <3>2, <3>3 DEF TokIInv, PacketsAddUp
    <2>8. CASE halted
      <3>1. Head(queue) = None
        BY <1>4, <2>8 DEF TokIInv, CancelledQueue
      <3>2. ReceivedInOrder' /\ CancelledQueue'
        BY <2>3, <2>6, <3>1 DEF TokIInv, ReceivedInOrder, CancelledQueue
      <3> QED
        BY <1>2, <2>4, <2>5, <2>7, <2>8, <3>2 DEF TokIInv
    <2>9. CASE ~halted
      <3>1. LiveQueue /\ TokTypeOK
        BY <2>9 DEF TokIInv
      <3>2. Sent \in Int
        BY <3>1 DEF Sent, TokTypeOK, ProducerType
      <3>3. queue[1] = (IF Received + 1 > Sent THEN None ELSE Received + 1)
        BY <2>2, <3>1 DEF LiveQueue
      <3>4. Head(queue) # None => Head(queue) = Received + 1 /\ Received + 1 <= Sent
        BY <1>1, <1>4, <2>2, <3>2, <3>3
      <3>5. ReceivedInOrder'
        BY <1>4, <2>3, <2>6, <3>4 DEF TokIInv, ReceivedInOrder
      <3>6. Received' = Received + Taken'
        BY <1>4, <2>3 DEF Received
      <3>7. CASE Head(queue) = None
        <4>1. Received + 1 > Sent
          BY <1>1, <1>4, <2>2, <3>2, <3>3, <3>7
        <4>2. Len(queue) = 1 /\ EndSent /\ Received = Sent
          BY <1>1, <1>4, <2>2, <3>1, <3>2, <4>1 DEF LiveQueue
        <4>3. EndTaken' /\ EndSent' /\ Received' = Sent' /\ Len(queue') = 0 /\ Sent' = Packets
          BY <1>1, <1>3, <1>4, <2>2, <2>6, <3>1, <3>6, <3>7, <4>2 DEF LiveQueue
        <4>4. LiveQueue'
          BY <1>3, <3>2, <4>3 DEF LiveQueue
        <4> QED
          BY <1>2, <2>4, <2>5, <2>7, <2>9, <3>5, <4>4 DEF TokIInv
      <3>8. CASE Head(queue) # None
        <4>1. Received' = Received + 1 /\ ~EndTaken' /\ Received \in Nat
          BY <1>1, <1>4, <2>6, <3>6, <3>8
        <4>2. Len(queue') = Sent' - Received' + (IF EndSent' /\ ~EndTaken' THEN 1 ELSE 0)
          BY <1>3, <1>4, <2>2, <3>1, <3>2, <4>1 DEF LiveQueue
        <4>3. ASSUME NEW i \in 1 .. Len(queue')
              PROVE  queue'[i] = IF Received' + i > Sent' THEN None ELSE Received' + i
          <5>1. queue[i + 1] = IF Received + (i + 1) > Sent THEN None ELSE Received + (i + 1)
            BY <2>2, <3>1 DEF LiveQueue
          <5> QED
            BY <1>3, <2>2, <3>2, <4>1, <5>1
        <4>4. LiveQueue'
          BY <1>3, <1>4, <3>1, <4>1, <4>2, <4>3 DEF LiveQueue
        <4> QED
          BY <1>2, <2>4, <2>5, <2>7, <2>9, <3>5, <4>4 DEF TokIInv
      <3> QED
        BY <3>7, <3>8
    <2> QED
      BY <2>8, <2>9
  <1>6. CASE queue = <<>>
    <2>1. consumer' = [consumer EXCEPT !.task = Blocked] /\ queue' = queue
      BY <1>6 DEF GetTask
    <2>2. /\ consumer' \in ConsumerType /\ consumer'.pc = "get" /\ consumer'.task = Blocked
          /\ consumer'.item = None /\ consumer'.got = consumer.got
      BY <1>1, <2>1 DEF ConsumerType
    <2>3. TokTypeOK'
      BY <1>2, <2>1, <2>2 DEF TokIInv, TokTypeOK
    <2>4. CallersWait'
      BY <1>1, <1>2, <2>2 DEF TokIInv, CallersWait, Sending
    <2>5. Taken' = 0 /\ ~EndTaken' /\ Received' = Received
      BY <1>4, <2>2 DEF Taken, EndTaken, Received, Returns
    <2>6. PacketsAddUp' /\ ReceivedInOrder'
      BY <1>2, <1>3, <1>4, <2>1, <2>2, <2>5 DEF TokIInv, PacketsAddUp, ReceivedInOrder
    <2>7. (IF halted THEN CancelledQueue ELSE LiveQueue)'
      BY <1>2, <1>3, <1>4, <2>1, <2>5 DEF TokIInv, CancelledQueue, LiveQueue
    <2> QED
      BY <2>3, <2>4, <2>6, <2>7 DEF TokIInv
  <1> QED
    BY <1>5, <1>6

\* The caller of a get has its packet, or the end of the stream.
LEMMA GetReturnsKeeps ==
  ASSUME TokIInv, GetReturns
  PROVE  TokIInv'
  <1> USE TokenAssumption DEF Fresh, Blocked, Done, None
  <1>1. /\ consumer.pc = "get" /\ consumer \in ConsumerType /\ counts \in CountsType
        /\ consumer.got \in Seq(Nat) /\ consumer.item \in Nat /\ Buffered(queue) \in Nat
    BY FilledFinite DEF GetReturns, TokIInv, TokTypeOK, ConsumerType
  <1>2. UNCHANGED <<queue, producer, halted, closed>>
    BY DEF GetReturns
  <1>3. Sent' = Sent /\ EndSent' = EndSent /\ Entered' = Entered
    BY <1>2 DEF Sent, EndSent, Entered, Returns
  <1>4. CASE consumer.task = Done /\ consumer.item # None
    <2>1. /\ consumer' = [consumer EXCEPT !.pc = "idle", !.item = None, !.got = Append(@, consumer.item)]
          /\ counts' = [counts EXCEPT !.consumed = @ + 1]
      BY <1>4 DEF GetReturns, Returns, Aborts
    <2>2. /\ consumer' \in ConsumerType /\ consumer'.pc = "idle" /\ consumer'.item = None
          /\ consumer'.task = Done /\ consumer'.got = Append(consumer.got, consumer.item)
      <3>1. Append(consumer.got, consumer.item) \in Seq(Nat)
        BY <1>1
      <3> QED
        BY <1>1, <1>4, <2>1, <3>1 DEF ConsumerType
    <2>3. /\ counts' \in CountsType /\ counts'.produced = counts.produced
          /\ counts'.consumed = counts.consumed + 1 /\ counts'.dropped = counts.dropped
          /\ counts.produced \in Nat /\ counts.consumed \in Nat /\ counts.dropped \in Nat
      BY <1>1, <2>1 DEF CountsType
    <2>4. TokTypeOK'
      BY <1>2, <2>2, <2>3 DEF TokIInv, TokTypeOK
    <2>5. CallersWait'
      BY <1>2, <2>2 DEF TokIInv, CallersWait, Sending
    <2>6. Taken = 1 /\ Taken' = 0 /\ ~EndTaken /\ ~EndTaken'
      BY <1>1, <1>4, <2>2 DEF Taken, EndTaken, Returns
    <2>7. PacketsAddUp'
      BY <1>1, <1>2, <1>3, <2>3, <2>6 DEF TokIInv, PacketsAddUp
    <2>8. ReceivedInOrder' /\ Received' = Received
      <3>1. consumer.item = Len(consumer.got) + 1 /\ consumer.got = [i \in 1 .. Len(consumer.got) |-> i]
        BY <2>6 DEF TokIInv, ReceivedInOrder
      <3>2. Len(consumer'.got) = Len(consumer.got) + 1 /\ Len(consumer.got) \in Nat
        BY <1>1, <2>2
      <3>3. \A i \in 1 .. Len(consumer'.got) : consumer'.got[i] = i
        BY <1>1, <2>2, <3>1, <3>2
      <3>4. consumer'.got = [i \in 1 .. Len(consumer'.got) |-> i]
        BY <1>1, <2>2, <3>2, <3>3
      <3> QED
        BY <2>6, <3>2, <3>4 DEF ReceivedInOrder, Received
    <2>9. (IF halted THEN CancelledQueue ELSE LiveQueue)'
      BY <1>2, <1>3, <2>6, <2>8 DEF TokIInv, CancelledQueue, LiveQueue
    <2> QED
      BY <2>4, <2>5, <2>7, <2>8, <2>9 DEF TokIInv
  <1>5. CASE (consumer.task = Done /\ consumer.item = None) \/ (halted /\ consumer.task = Blocked)
    <2>1. /\ consumer'.pc = "stopped" /\ consumer'.task = Done /\ consumer'.got = consumer.got
          /\ consumer' \in ConsumerType /\ counts' = counts
      <3>1. CASE consumer.task = Done /\ consumer.item = None
        BY <1>1, <3>1 DEF GetReturns, Returns, Aborts, ConsumerType
      <3>2. CASE halted /\ consumer.task = Blocked
        BY <1>1, <3>2 DEF GetReturns, Returns, Aborts, ConsumerType
      <3> QED
        BY <1>5, <3>1, <3>2
    <2>2. TokTypeOK'
      BY <1>2, <2>1 DEF TokIInv, TokTypeOK
    <2>3. CallersWait'
      BY <1>2, <2>1 DEF TokIInv, CallersWait, Sending
    <2>4. Taken = 0 /\ Taken' = 0 /\ EndTaken' /\ (~halted => EndTaken) /\ Received' = Received
      BY <1>1, <1>5, <2>1 DEF Taken, EndTaken, Returns, Received
    <2>5. PacketsAddUp' /\ ReceivedInOrder'
      BY <1>2, <1>3, <2>1, <2>4 DEF TokIInv, PacketsAddUp, ReceivedInOrder
    <2>6. (IF halted THEN CancelledQueue ELSE LiveQueue)'
      BY <1>2, <1>3, <2>4 DEF TokIInv, CancelledQueue, LiveQueue
    <2> QED
      BY <2>2, <2>3, <2>5, <2>6 DEF TokIInv
  <1> QED
    BY <1>1, <1>4, <1>5 DEF GetReturns, Returns, Aborts

\* cancel() drains the queue, counts the packets and leaves the sentinel.
LEMMA CancelKeeps ==
  ASSUME TokIInv, CancelStream
  PROVE  TokIInv'
  <1> USE TokenAssumption DEF Fresh, Blocked, Done, None
  <1>1. queue' = <<None>> /\ halted' = TRUE /\ UNCHANGED <<producer, consumer, closed>>
        /\ counts' = [counts EXCEPT !.dropped = @ + Buffered(queue)]
    BY DEF CancelStream
  <1>2. counts \in CountsType /\ Buffered(queue) \in Nat /\ Buffered(queue') = 0
    BY <1>1, FilledFinite, BufferedNothing DEF TokIInv, TokTypeOK
  <1>3. /\ counts' \in CountsType /\ counts'.produced = counts.produced
        /\ counts'.consumed = counts.consumed /\ counts'.dropped = counts.dropped + Buffered(queue)
        /\ counts.produced \in Nat /\ counts.consumed \in Nat /\ counts.dropped \in Nat
    BY <1>1, <1>2 DEF CountsType
  <1>4. TokTypeOK'
    BY <1>1, <1>3 DEF TokIInv, TokTypeOK
  <1>5. CallersWait' /\ ReceivedInOrder'
    BY <1>1 DEF TokIInv, CallersWait, Sending, ReceivedInOrder, Taken, Returns
  <1>6. PacketsAddUp'
    <2>1. Entered' = Entered /\ Taken' = Taken /\ Entered \in Nat /\ Taken \in Nat
      BY <1>1 DEF Entered, Taken, Returns
    <2> QED
      BY <1>2, <1>3, <2>1 DEF TokIInv, PacketsAddUp
  <1>7. CancelledQueue'
    BY <1>1 DEF CancelledQueue
  <1> QED
    BY <1>1, <1>4, <1>5, <1>6, <1>7 DEF TokIInv

-----------------------------------------------------------------------------
(* The step, and what follows. *)

\* Every step keeps the invariant.
LEMMA StepInvariant == TokIInv /\ [TokNext]_tokVars => TokIInv'
  <1> SUFFICES ASSUME TokIInv, [TokNext]_tokVars PROVE TokIInv'
    OBVIOUS
  <1>1. CASE UNCHANGED tokVars
    BY <1>1 DEF tokVars, TokIInv, TokTypeOK, CallersWait, Sending, PacketsAddUp, Entered, Taken, Returns,
                ReceivedInOrder, CancelledQueue, LiveQueue, Received, Sent, EndSent, EndTaken
  <1>2. CASE TokNext
    BY <1>2, PutStartKeeps, CloseStartKeeps, PutTaskKeeps, PutReturnsKeeps, GetStartKeeps, GetTaskKeeps,
       GetReturnsKeeps, CancelKeeps DEF TokNext
  <1> QED
    BY <1>1, <1>2

\* The invariant is strong enough.
LEMMA InvariantImplies == TokIInv => StreamIsSound
  <1> SUFFICES ASSUME TokIInv, consumer.pc = "stopped", ~halted PROVE Len(consumer.got) = Packets
    BY DEF TokIInv, ReceivedInOrder, StreamIsSound, InOrderToTheEnd
  <1> USE TokenAssumption
  <1>1. EndTaken /\ Taken = 0
    BY DEF EndTaken, Taken
  <1>2. Received = Packets
    BY <1>1 DEF TokIInv, LiveQueue
  <1>3. Len(consumer.got) \in Nat
    BY DEF TokIInv, TokTypeOK, ConsumerType
  <1> QED
    BY <1>1, <1>2, <1>3 DEF Received

-----------------------------------------------------------------------------
(* Quotient and remainder by the frame size. *)

\* Multiples of F are at least F apart.
LEMMA Scaled ==
  ASSUME NEW F \in Nat \ {0}, NEW a \in Int, NEW b \in Int, a > b
  PROVE  a * F >= b * F + F
  <1> DEFINE d == a - b - 1
  <1>1. d \in Nat /\ a = b + 1 + d
    OBVIOUS
  <1>2. a * F = b * F + F + d * F
    BY <1>1
  <1>3. d * F >= 0
    BY <1>1
  <1> QED
    BY <1>2, <1>3

\* Quotient and remainder make up the number again.
LEMMA Division ==
  ASSUME NEW F \in Nat \ {0}, NEW n \in Nat
  PROVE  /\ n \div F \in Nat
         /\ n % F \in 0 .. F - 1
         /\ n = (n \div F) * F + (n % F)
  <1>1. n % F \in 0 .. F - 1 /\ n \div F \in Int
    OBVIOUS
  <1>2. n = (n \div F) * F + (n % F)
    OBVIOUS
  <1>3. ~(0 > n \div F)
    <2> SUFFICES ASSUME 0 > n \div F PROVE FALSE
      OBVIOUS
    <2>1. 0 * F >= (n \div F) * F + F
      BY <1>1, Scaled
    <2> DEFINE p == (n \div F) * F
               r == n % F
    <2>2. p \in Int /\ r \in 0 .. F - 1 /\ n = p + r /\ 0 >= p + F
      BY <1>1, <1>2, <2>1
    <2> HIDE DEF p, r
    <2> QED
      BY <2>2
  <1> QED
    BY <1>1, <1>2, <1>3

\* There is one such quotient and remainder.
LEMMA DivisionUnique ==
  ASSUME NEW F \in Nat \ {0}, NEW n \in Nat, NEW q \in Int, NEW r \in 0 .. F - 1, n = q * F + r
  PROVE  n \div F = q /\ n % F = r
  <1> DEFINE k == n \div F
             m == n % F
  <1>1. k \in Int /\ m \in 0 .. F - 1 /\ k * F + m = q * F + r
    BY Division
  <1>2. k * F \in Int /\ q * F \in Int
    BY <1>1
  <1> HIDE DEF k, m
  <1>3. ~(k > q)
    BY <1>1, <1>2, Scaled
  <1>4. ~(q > k)
    BY <1>1, <1>2, Scaled
  <1>5. k = q /\ m = r
    BY <1>1, <1>3, <1>4
  <1> QED
    BY <1>5 DEF k, m

\* What is left of one frame and the next frame divide together.
LEMMA DivisionSum ==
  ASSUME NEW F \in Nat \ {0}, NEW a \in Int, NEW b \in Int, NEW x \in Int, NEW y \in Int,
         NEW t \in Int, NEW l \in Int, NEW c \in Int, t = a * F + c, c + l = b * F + y
  PROVE  t + l = (a + b) * F + y
  <1>1. (a + b) * F = a * F + b * F
    BY Z3
  <1> DEFINE p == a * F
             q == b * F
             w == (a + b) * F
  <1>2. p \in Int /\ q \in Int /\ w \in Int
    OBVIOUS
  <1>3. t = p + c /\ c + l = q + y /\ w = p + q
    BY <1>1
  <1> HIDE DEF p, q, w
  <1>4. t + l = w + y
    BY <1>2, <1>3
  <1> QED
    BY <1>4 DEF w

-----------------------------------------------------------------------------
(* The re-blocking of samples. *)

FullBlocks(n) == [i \in 1 .. n |-> Block(FrameSize, FALSE)]

\* While frames come, the blocks are the full ones of the samples so far and the
\* carry is their rest.
BlkIInv ==
  /\ total \in Nat
  /\ sawFinal \in BOOLEAN
  /\ IF ended THEN blocks = ChunksOf(total, sawFinal)
     ELSE blocks = FullBlocks(total \div FrameSize) /\ carry = total % FrameSize

\* Two runs of one value join to one run.
LEMMA RepeatJoin ==
  ASSUME NEW c, NEW m \in Nat, NEW n \in Nat
  PROVE  [i \in 1 .. m |-> c] \o [i \in 1 .. n |-> c] = [i \in 1 .. m + n |-> c]
  <1> DEFINE s == [i \in 1 .. m |-> c]
             r == [i \in 1 .. n |-> c]
  <1>1. /\ s \in Seq({c}) /\ Len(s) = m /\ r \in Seq({c}) /\ Len(r) = n
    OBVIOUS
  <1>2. \A i \in 1 .. m : s[i] = c
    OBVIOUS
  <1>3. \A i \in 1 .. n : r[i] = c
    OBVIOUS
  <1> HIDE DEF s, r
  <1> DEFINE t == s \o r
  <1>4. t \in Seq({c}) /\ Len(t) = m + n
    BY <1>1
  <1>5. \A i \in 1 .. m + n : t[i] = c
    BY <1>1, <1>2, <1>3
  <1> HIDE DEF t
  <1>6. t \in [1 .. m + n -> {c}]
    BY <1>4
  <1>7. t = [i \in 1 .. m + n |-> t[i]]
    BY <1>6
  <1>8. [i \in 1 .. m + n |-> t[i]] = [i \in 1 .. m + n |-> c]
    BY <1>5
  <1> QED
    BY <1>7, <1>8 DEF s, r, t

\* Full blocks after full blocks are full blocks.
LEMMA FullBlocksJoin ==
  ASSUME NEW m \in Nat, NEW n \in Nat
  PROVE  FullBlocks(m) \o FullBlocks(n) = FullBlocks(m + n)
  <1> DEFINE c == Block(FrameSize, FALSE)
  <1>1. \A k : FullBlocks(k) = [i \in 1 .. k |-> c]
    BY DEF FullBlocks
  <1> HIDE DEF c
  <1>2. [i \in 1 .. m |-> c] \o [i \in 1 .. n |-> c] = [i \in 1 .. m + n |-> c]
    BY RepeatJoin
  <1> QED
    BY <1>1, <1>2

\* A run of one value with one more value behind it.
LEMMA RepeatAppend ==
  ASSUME NEW c, NEW n \in Nat, NEW b
  PROVE  Append([i \in 1 .. n |-> c], b) = [i \in 1 .. n + 1 |-> IF i <= n THEN c ELSE b]
  <1> DEFINE s == [i \in 1 .. n |-> c]
             T == {c, b}
  <1>1. s \in Seq(T) /\ Len(s) = n /\ b \in T
    OBVIOUS
  <1>2. \A i \in 1 .. n : s[i] = c
    OBVIOUS
  <1> HIDE DEF s, T
  <1> DEFINE t == Append(s, b)
  <1>3. t \in Seq(T) /\ Len(t) = n + 1 /\ t[n + 1] = b
    BY <1>1
  <1>4. \A i \in 1 .. n : t[i] = s[i]
    BY <1>1
  <1> HIDE DEF t
  <1>5. ASSUME NEW i \in 1 .. n + 1 PROVE t[i] = IF i <= n THEN c ELSE b
    <2>1. CASE i <= n
      <3>1. i \in 1 .. n
        BY <2>1
      <3> QED BY <3>1, <2>1, <1>2, <1>4
    <2>2. CASE ~(i <= n)
      <3>1. i = n + 1
        BY <2>2
      <3> QED BY <3>1, <2>2, <1>3
    <2> QED BY <2>1, <2>2
  <1>6. t \in [1 .. n + 1 -> T]
    BY <1>3
  <1>7. t = [i \in 1 .. n + 1 |-> t[i]]
    BY <1>6
  <1>8. [i \in 1 .. n + 1 |-> t[i]] = [i \in 1 .. n + 1 |-> IF i <= n THEN c ELSE b]
    BY <1>5
  <1> QED
    BY <1>7, <1>8 DEF t, s

\* Full blocks with a last block behind them.
LEMMA FullBlocksAppend ==
  ASSUME NEW n \in Nat, NEW b
  PROVE  Append(FullBlocks(n), b) = [i \in 1 .. n + 1 |-> IF i <= n THEN Block(FrameSize, FALSE) ELSE b]
  <1> DEFINE c == Block(FrameSize, FALSE)
  <1>1. FullBlocks(n) = [i \in 1 .. n |-> c]
    BY DEF FullBlocks
  <1> HIDE DEF c
  <1>2. Append(FullBlocks(n), b) = [i \in 1 .. n + 1 |-> IF i <= n THEN c ELSE b]
    BY <1>1, RepeatAppend
  <1> QED
    BY <1>2 DEF c

\* The first k places of a sequence.
LEMMA CutAt ==
  ASSUME NEW T, NEW s \in Seq(T), NEW k \in 0 .. Len(s)
  PROVE SubSeq(s, 1, k) = [i \in 1 .. k |-> s[i]]
  OBVIOUS

\* BlkInit establishes the invariant.
LEMMA BlkInitInvariant == BlkInit => BlkIInv
  <1> SUFFICES ASSUME BlkInit PROVE BlkIInv
    OBVIOUS
  <1>1. 0 \div FrameSize = 0 /\ 0 % FrameSize = 0
    BY BlockAssumption, DivisionUnique
  <1>2. blocks = FullBlocks(0)
    BY DEF BlkInit, FullBlocks
  <1> QED
    BY <1>1, <1>2 DEF BlkInit, BlkIInv

\* A frame adds the blocks it fills, and its rest becomes the carry.
LEMMA EncodeKeeps ==
  ASSUME BlkIInv, NEW len \in FrameLengths, NEW final \in BOOLEAN, EncodeFrame(len, final)
  PROVE  BlkIInv'
  <1> DEFINE full == total \div FrameSize
             more == (carry + len) \div FrameSize
             rest == (carry + len) % FrameSize
  <1>1. /\ ~ended /\ ~ended' /\ total' = total + len /\ total \in Nat /\ len \in Nat
        /\ blocks = FullBlocks(full) /\ carry = total % FrameSize
        /\ carry' = rest /\ blocks' = blocks \o FullBlocks(more)
    BY BlockAssumption DEF EncodeFrame, BlkIInv, FullBlocks
  <1>2. sawFinal' \in BOOLEAN
    BY DEF EncodeFrame, BlkIInv
  <1>3. full \in Nat /\ carry \in 0 .. FrameSize - 1 /\ total = full * FrameSize + carry
    BY <1>1, BlockAssumption, Division
  <1>4. more \in Nat /\ rest \in 0 .. FrameSize - 1 /\ carry + len = more * FrameSize + rest
    <2>1. carry + len \in Nat
      BY <1>1, <1>3, BlockAssumption
    <2> QED
      BY <2>1, BlockAssumption, Division
  <1> HIDE DEF full, more, rest
  <1>5. total + len = (full + more) * FrameSize + rest
    <2>1. FrameSize \in Nat \ {0} /\ full \in Int /\ more \in Int /\ carry \in Int /\ rest \in Int
          /\ total \in Int /\ len \in Int
      BY <1>1, <1>3, <1>4, BlockAssumption
    <2> QED
      BY <1>3, <1>4, <2>1, DivisionSum
  <1>6. (total + len) \div FrameSize = full + more /\ (total + len) % FrameSize = rest
    <2>1. total + len \in Nat /\ full + more \in Int /\ FrameSize \in Nat \ {0}
      BY <1>1, <1>3, <1>4, BlockAssumption
    <2> QED
      BY <1>4, <1>5, <2>1, DivisionUnique
  <1>7. blocks' = FullBlocks(full + more)
    BY <1>1, <1>3, <1>4, FullBlocksJoin
  <1> QED
    BY <1>1, <1>2, <1>6, <1>7 DEF BlkIInv

\* The end of the stream pads the carry, or marks the end with an empty block.
LEMMA FlushKeeps ==
  ASSUME BlkIInv, FlushRest
  PROVE  BlkIInv'
  <1> DEFINE full == total \div FrameSize
  <1>1. /\ ended' /\ total' = total /\ total \in Nat
        /\ blocks = FullBlocks(full) /\ carry = total % FrameSize
    BY DEF FlushRest, BlkIInv
  <1>2. sawFinal' = sawFinal /\ sawFinal \in BOOLEAN
    BY DEF FlushRest, BlkIInv
  <1>3. full \in Nat /\ carry \in 0 .. FrameSize - 1
    BY <1>1, BlockAssumption, Division
  <1>4. blocks' = ChunksOf(total, sawFinal)
    <2>1. /\ blocks' = IF carry > 0 THEN Append(FullBlocks(full), Block(FrameSize, TRUE))
                       ELSE IF sawFinal THEN Append(FullBlocks(full), Block(0, TRUE)) ELSE FullBlocks(full)
          /\ ChunksOf(total, sawFinal)
               = [i \in 1 .. full + (IF carry > 0 \/ sawFinal THEN 1 ELSE 0) |->
                    IF i <= full THEN Block(FrameSize, FALSE)
                    ELSE Block(IF carry > 0 THEN FrameSize ELSE 0, TRUE)]
      BY <1>1 DEF FlushRest, ChunksOf
    <2> HIDE DEF full
    <2>2. CASE carry > 0
      <3> DEFINE f == Block(FrameSize, FALSE)
                 b == Block(FrameSize, TRUE)
      <3>1. blocks' = Append(FullBlocks(full), b)
        BY <2>1, <2>2
      <3>2. ChunksOf(total, sawFinal) = [i \in 1 .. full + 1 |-> IF i <= full THEN f ELSE b]
        BY <2>1, <2>2
      <3>3. Append(FullBlocks(full), b) = [i \in 1 .. full + 1 |-> IF i <= full THEN f ELSE b]
        BY <1>3, FullBlocksAppend
      <3> QED
        BY <3>1, <3>2, <3>3
    <2>3. CASE ~(carry > 0) /\ sawFinal
      <3> DEFINE f == Block(FrameSize, FALSE)
                 b == Block(0, TRUE)
      <3>1. blocks' = Append(FullBlocks(full), b)
        BY <2>1, <2>3
      <3>2. ChunksOf(total, sawFinal) = [i \in 1 .. full + 1 |-> IF i <= full THEN f ELSE b]
        BY <2>1, <2>3
      <3>3. Append(FullBlocks(full), b) = [i \in 1 .. full + 1 |-> IF i <= full THEN f ELSE b]
        BY <1>3, FullBlocksAppend
      <3> QED
        BY <3>1, <3>2, <3>3
    <2>4. CASE ~(carry > 0) /\ ~sawFinal
      BY <1>3, <2>1, <2>4 DEF FullBlocks
    <2> QED
      BY <2>2, <2>3, <2>4
  <1> QED
    BY <1>1, <1>2, <1>4 DEF BlkIInv

\* Every step keeps the invariant.
LEMMA BlkStepInvariant == BlkIInv /\ [BlkNext]_blkVars => BlkIInv'
  <1> SUFFICES ASSUME BlkIInv, [BlkNext]_blkVars PROVE BlkIInv'
    OBVIOUS
  <1>1. CASE UNCHANGED blkVars
    BY <1>1 DEF blkVars, BlkIInv
  <1>2. CASE BlkNext
    BY <1>2, EncodeKeeps, FlushKeeps DEF BlkNext
  <1> QED
    BY <1>1, <1>2

\* The invariant is strong enough.
LEMMA BlkInvariantImplies == BlkIInv => BoundariesIgnoreFraming
  <1> SUFFICES ASSUME BlkIInv, ~ended
               PROVE  blocks = SubSeq(ChunksOf(total, FALSE), 1, total \div FrameSize)
    BY DEF BlkIInv, BoundariesIgnoreFraming
  <1> DEFINE full == total \div FrameSize
  <1>1. full \in Nat /\ total % FrameSize \in 0 .. FrameSize - 1 /\ blocks = FullBlocks(full)
    BY BlockAssumption, Division DEF BlkIInv
  <1> DEFINE n == full + (IF total % FrameSize > 0 THEN 1 ELSE 0)
             all == ChunksOf(total, FALSE)
             f == Block(FrameSize, FALSE)
             b == Block(IF total % FrameSize > 0 THEN FrameSize ELSE 0, TRUE)
  <1>2. n \in Nat /\ n >= full
    BY <1>1
  <1>3. all = [i \in 1 .. n |-> IF i <= full THEN f ELSE b]
    BY DEF ChunksOf
  <1>4. f = Block(FrameSize, FALSE)
    OBVIOUS
  <1> HIDE DEF full, n, all, f, b
  <1>5. all \in Seq({f, b}) /\ Len(all) = n
    BY <1>2, <1>3
  <1>6. SubSeq(all, 1, full) = [i \in 1 .. full |-> all[i]]
    <2>1. full \in 0 .. Len(all)
      BY <1>1, <1>2, <1>5
    <2> QED
      BY <1>5, <2>1, CutAt
  <1>7. \A i \in 1 .. full : all[i] = f
    BY <1>1, <1>2, <1>3
  <1>8. SubSeq(all, 1, full) = FullBlocks(full)
    BY <1>4, <1>6, <1>7 DEF FullBlocks
  <1> QED
    BY <1>1, <1>8 DEF all, full

-----------------------------------------------------------------------------
(* The theorems. *)

\* Every packet that entered the queue is consumed, dropped or buffered, whenever
\* cancel() comes, and an iteration that nobody cancelled has got them all, in
\* order (put, get and cancel of token_stream.py), for any number of packets and
\* any size of the queue.
THEOREM PacketsAccountedFor == TokSpec => []StreamIsSound
  <1>1. TokInit => TokIInv
    BY InitInvariant
  <1>2. TokIInv /\ [TokNext]_tokVars => TokIInv'
    BY StepInvariant
  <1>3. TokIInv => StreamIsSound
    BY InvariantImplies
  <1> QED
    BY <1>1, <1>2, <1>3, PTL DEF TokSpec

\* What is taken from a token stream and what the codec makes of frames of any
\* lengths is all of the audio, once and in order (mimi_bridge.py:204), for any
\* size of frame and queue.
THEOREM AllAudioArrives == TokSpec /\ BlkSpec => []AudioIsComplete
  <1>1. BlkSpec => []BoundariesIgnoreFraming
    BY BlkInitInvariant, BlkStepInvariant, BlkInvariantImplies, PTL DEF BlkSpec
  <1>2. StreamIsSound /\ BoundariesIgnoreFraming => AudioIsComplete
    BY DEF AudioIsComplete
  <1> QED
    BY <1>1, <1>2, PacketsAccountedFor, PTL

\* The stream keeps its types and its callers and tasks agree.
THEOREM TypeCorrect == TokSpec => [](TokTypeOK /\ CallersWait)
  <1>1. TokIInv => TokTypeOK /\ CallersWait
    BY DEF TokIInv
  <1> QED
    BY <1>1, InitInvariant, StepInvariant, PTL DEF TokSpec

-----------------------------------------------------------------------------
(* Naturals and sequences *)

\* A set of naturals that is not empty has a least element.
LEMMA Smallest ==
  ASSUME NEW S \in SUBSET Nat, S # {}
  PROVE  \E x \in S : \A y \in S : x <= y
  <1> DEFINE less == {ss \in Nat \X Nat : ss[1] < ss[2]}
  <1>1. IsWellFoundedOn(less, Nat)
    BY NatLessThanWellFounded DEF OpToRel
  <1> HIDE DEF less
  <1>2. PICK x \in S : \A y \in S : ~(<<y, x>> \in less)
    BY <1>1, WFMin
  <1>3. \A y \in S : ~(y < x)
    BY <1>2 DEF less
  <1> QED
    BY <1>3

\* What FramesKeepOrder says of the frames in line, when n were captured.
InLine(line, sh, n) ==
  /\ \A i, j \in DOMAIN line : i < j => line[i] < line[j]
  /\ ToSet(line) \cup sh = 1 .. n
  /\ ToSet(line) \cap sh = {}

\* A frame that is captured goes to the end of the line.
LEMMA JoinsLine ==
  ASSUME NEW line \in Seq(Nat), NEW sh, NEW n \in Nat, InLine(line, sh, n)
  PROVE  InLine(Append(line, n + 1), sh, n + 1)
  <1> DEFINE more == Append(line, n + 1)
  <1>1. /\ more \in Seq(Nat) /\ Len(more) = Len(line) + 1
        /\ \A i \in 1 .. Len(line) : more[i] = line[i]
        /\ more[Len(line) + 1] = n + 1
    BY AppendProperties
  <1>2. DOMAIN line = 1 .. Len(line) /\ DOMAIN more = 1 .. Len(line) + 1 /\ Len(line) \in Nat
    BY <1>1
  <1> HIDE DEF more
  <1>3. \A i \in 1 .. Len(line) : line[i] \in 1 .. n
    BY <1>2 DEF InLine, ToSet
  <1>4. \A i, j \in DOMAIN more : i < j => more[i] < more[j]
    <2> SUFFICES ASSUME NEW i \in DOMAIN more, NEW j \in DOMAIN more, i < j
                 PROVE  more[i] < more[j]
      OBVIOUS
    <2>1. i \in 1 .. Len(line) /\ more[i] = line[i] /\ line[i] \in 1 .. n
      BY <1>1, <1>2, <1>3
    <2>2. CASE j = Len(line) + 1
      BY <1>1, <2>1, <2>2
    <2>3. CASE j # Len(line) + 1
      <3>1. j \in 1 .. Len(line) /\ more[j] = line[j]
        BY <1>1, <1>2, <2>3
      <3> QED
        BY <1>2, <2>1, <3>1 DEF InLine
    <2> QED
      BY <2>2, <2>3
  <1>5. ToSet(more) = ToSet(line) \cup {n + 1}
    <2>1. ASSUME NEW i \in DOMAIN more PROVE more[i] \in ToSet(line) \cup {n + 1}
      BY <1>1, <1>2 DEF ToSet
    <2>2. ASSUME NEW i \in DOMAIN line PROVE line[i] \in ToSet(more)
      BY <1>1, <1>2 DEF ToSet
    <2>3. n + 1 \in ToSet(more)
      BY <1>1, <1>2 DEF ToSet
    <2> QED
      BY <2>1, <2>2, <2>3 DEF ToSet
  <1>6. n + 1 \notin sh /\ 1 .. n + 1 = (1 .. n) \cup {n + 1}
    BY DEF InLine
  <1> QED
    BY <1>4, <1>5, <1>6 DEF InLine, more

\* The oldest frame of the buffer leaves the line when the buffer is full.
LEMMA LeavesLine ==
  ASSUME NEW w \in Seq(Nat), NEW o \in Seq(Nat), o # <<>>, NEW sh, NEW n \in Nat,
         InLine(w \o o, sh, n)
  PROVE  InLine(w \o Tail(o), sh \cup {Head(o)}, n)
  <1> DEFINE line == w \o o
             rest == w \o Tail(o)
             gap == Len(w) + 1
  <1>1. /\ Tail(o) \in Seq(Nat) /\ Len(Tail(o)) = Len(o) - 1
        /\ \A i \in 1 .. Len(o) - 1 : Tail(o)[i] = o[i + 1]
    BY HeadTailProperties
  <1>2. Len(w) \in Nat /\ Len(o) \in Nat \ {0} /\ Head(o) = o[1]
    OBVIOUS
  <1>3. /\ DOMAIN line = 1 .. Len(w) + Len(o)
        /\ \A i \in DOMAIN line : line[i] \in Nat /\ line[i] = IF i <= Len(w) THEN w[i] ELSE o[i - Len(w)]
    BY <1>2, ConcatProperties
  <1>4. /\ DOMAIN rest = 1 .. Len(w) + Len(o) - 1
        /\ \A i \in DOMAIN rest : rest[i] = IF i <= Len(w) THEN w[i] ELSE Tail(o)[i - Len(w)]
    BY <1>1, <1>2, ConcatProperties
  <1>5. /\ \A i \in DOMAIN line, j \in DOMAIN line : i < j => line[i] < line[j]
        /\ gap \in DOMAIN line /\ line[gap] = Head(o)
    BY <1>2, <1>3 DEF InLine
  <1> HIDE DEF line, rest
  <1>9. \A i \in DOMAIN rest :
          /\ i < gap => i \in DOMAIN line /\ rest[i] = line[i]
          /\ i >= gap => i + 1 \in DOMAIN line /\ rest[i] = line[i + 1]
    <2> SUFFICES ASSUME NEW i \in DOMAIN rest
                 PROVE  /\ i < gap => i \in DOMAIN line /\ rest[i] = line[i]
                        /\ i >= gap => i + 1 \in DOMAIN line /\ rest[i] = line[i + 1]
      OBVIOUS
    <2>1. CASE i < gap
      BY <1>2, <1>3, <1>4, <2>1
    <2>2. CASE i >= gap
      <3>1. PICK m \in 1 .. Len(o) - 1 : m = i - Len(w)
        BY <1>2, <1>3, <1>4, <2>2
      <3>2. PICK k \in DOMAIN line : k = i + 1
        BY <1>2, <1>3, <1>4
      <3>3. ~(i <= Len(w)) /\ ~(k <= Len(w)) /\ k - Len(w) = m + 1
        BY <1>2, <1>4, <2>2, <3>1, <3>2
      <3>4. rest[i] = Tail(o)[m] /\ line[k] = o[m + 1]
        BY <1>3, <1>4, <3>1, <3>3
      <3> QED
        BY <1>1, <1>2, <1>4, <2>2, <3>1, <3>2, <3>4
    <2> QED
      BY <1>2, <1>4, <2>1, <2>2
  <1>10. \A i \in DOMAIN rest :
           \E k \in DOMAIN line : rest[i] = line[k] /\ k = IF i < gap THEN i ELSE i + 1
    <2> SUFFICES ASSUME NEW i \in DOMAIN rest
                 PROVE  \E k \in DOMAIN line : rest[i] = line[k] /\ k = IF i < gap THEN i ELSE i + 1
      OBVIOUS
    <2>1. CASE i < gap
      <3>0. i \in Int /\ gap \in Int
        BY <1>2, <1>4
      <3>1. i \in DOMAIN line /\ rest[i] = line[i]
        BY <1>9, <2>1, <3>0
      <3> QED
        BY <2>1, <3>1, Zenon
    <2>2. CASE i >= gap
      <3>1. i + 1 \in DOMAIN line /\ rest[i] = line[i + 1] /\ ~(i < gap)
        BY <1>2, <1>4, <1>9, <2>2
      <3> QED
        BY <3>1
    <2> QED
      BY <1>2, <1>4, <2>1, <2>2
  <1>6. \A i, j \in DOMAIN rest : i < j => rest[i] < rest[j]
    <2> SUFFICES ASSUME NEW i \in DOMAIN rest, NEW j \in DOMAIN rest, i < j
                 PROVE  rest[i] < rest[j]
      OBVIOUS
    <2>1. i \in Nat /\ j \in Nat
      BY <1>2, <1>4
    <2>2. PICK k \in DOMAIN line : rest[i] = line[k] /\ k = IF i < gap THEN i ELSE i + 1
      BY <1>10
    <2>3. PICK l \in DOMAIN line : rest[j] = line[l] /\ l = IF j < gap THEN j ELSE j + 1
      BY <1>10
    <2>4. k < l
      BY <1>2, <2>1, <2>2, <2>3
    <2> QED
      BY <1>5, <2>2, <2>3, <2>4
  <1>7. ToSet(rest) = ToSet(line) \ {Head(o)}
    <2>1. ASSUME NEW i \in DOMAIN rest PROVE rest[i] \in ToSet(line) \ {Head(o)}
      <3>0. PICK k \in DOMAIN line : rest[i] = line[k] /\ k = IF i < gap THEN i ELSE i + 1
        BY <1>10
      <3>1. k # gap /\ rest[i] = line[k]
        BY <1>2, <1>4, <3>0
      <3>2. k \in Nat /\ gap \in Nat /\ line[k] \in Nat /\ line[gap] \in Nat
        BY <1>2, <1>3, <1>5
      <3>3. k < gap \/ gap < k
        BY <3>1, <3>2
      <3>4. line[k] < line[gap] \/ line[gap] < line[k]
        BY <1>5, <3>3
      <3>5. line[k] # Head(o)
        BY <1>5, <3>2, <3>4
      <3> QED
        BY <3>1, <3>5 DEF ToSet
    <2>2. ASSUME NEW i \in DOMAIN line, line[i] # Head(o) PROVE line[i] \in ToSet(rest)
      <3>1. i # gap /\ i \in Nat
        BY <1>2, <1>3, <1>5, <2>2
      <3>2. CASE i < gap
        <4>1. i \in DOMAIN rest /\ rest[i] = line[i]
          BY <1>2, <1>3, <1>4, <1>9, <3>1, <3>2
        <4> QED
          BY <4>1 DEF ToSet
      <3>3. CASE i > gap
        <4>1. PICK m \in DOMAIN rest : m >= gap /\ m + 1 = i
          <5>1. i - 1 \in DOMAIN rest /\ i - 1 >= gap /\ i - 1 + 1 = i
            BY <1>2, <1>3, <1>4, <3>1, <3>3
          <5> QED
            BY <5>1
        <4>2. rest[m] = line[i]
          BY <1>2, <1>4, <1>9, <4>1
        <4> QED
          BY <4>1, <4>2 DEF ToSet
      <3> QED
        BY <1>2, <3>1, <3>2, <3>3
    <2> QED
      BY <2>1, <2>2 DEF ToSet
  <1>8. Head(o) \in ToSet(line)
    BY <1>5 DEF ToSet
  <1> QED
    BY <1>6, <1>7, <1>8 DEF InLine, line, rest

-----------------------------------------------------------------------------
(***************************************************************************)
(* The connection                                                          *)
(***************************************************************************)

ConnectionTypes ==
  /\ tstate \in {"new", "connecting", "connected", "reconnecting", "disconnected", "closed"}
  /\ socks \in [Sockets -> {"unmade", "connecting", "open", "closed"}]
  /\ heard \subseteq Sockets
  /\ cur \in {0} \cup Sockets
  /\ attempts \in 0 .. MaxAttempts
  /\ timers \in [named : BOOLEAN, orphans : Nat]
  /\ intentional \in BOOLEAN
  /\ frames \in Nat /\ outbound \in Seq(Nat) /\ wire \in Seq(Nat) /\ shed \subseteq Nat
  /\ sstate \in {"idle", "starting", "running", "error", "stopping", "stopped"}
  /\ starting \in {"no", "connect", "mic"}
  /\ awaited \in {0} \cup Sockets
  /\ stopping \in BOOLEAN /\ mic \in BOOLEAN /\ stopped \in BOOLEAN

\* Nothing waits in the buffer of a connected transport whose socket is open.
FlushedWhenOpen == tstate = "connected" /\ IsOpen(cur) => outbound = <<>>

\* What a session looks like from which start() may be called: nothing was made
\* yet, or stop() has left the transport closed on purpose.
StartsAfresh ==
  /\ sstate = "idle" => cur = 0 /\ heard = {} /\ timers = [named |-> FALSE, orphans |-> 0]
                        /\ starting = "no"
  /\ sstate = "stopped" => stopped
  /\ sstate = "stopping" => stopping
  /\ stopped => intentional /\ cur = 0 /\ sstate # "starting" /\ starting # "connect"

ConnInv ==
  /\ ConnectionTypes
  /\ FramesKeepOrder
  /\ OneLiveSocket
  /\ FlushedWhenOpen
  /\ StartsAfresh

\* The next socket is one that was not made yet.
LEMMA NextSocketIsUnmade ==
  ASSUME Unmade # {}
  PROVE  NextSocket \in Unmade /\ NextSocket \in Sockets /\ NextSocket # 0
  <1>1. Unmade \in SUBSET Nat /\ Unmade \subseteq Sockets /\ 0 \notin Sockets
    BY ConnectionAssumption DEF Unmade, Sockets
  <1>2. \E k \in Unmade : \A j \in Unmade : k <= j
    BY <1>1, Smallest
  <1> QED
    BY <1>1, <1>2 DEF NextSocket

\* A step that touches neither frames nor the session, of a transport whose
\* present socket is not open afterwards.
LEMMA LineStays ==
  ASSUME ConnInv, UNCHANGED tData
  PROVE  FramesKeepOrder'
  BY DEF ConnInv, FramesKeepOrder, tData

\* Rescheduling keeps the counts.
LEMMA RescheduleTypes ==
  ASSUME ConnInv, NEW n \in {1, 2}, Reschedule(n)
  PROVE  /\ attempts' \in 0 .. MaxAttempts
         /\ timers' \in [named : BOOLEAN, orphans : Nat]
         /\ tstate' \in {tstate, "reconnecting", "disconnected"}
  <1> DEFINE made == IF attempts + n <= MaxAttempts THEN n ELSE MaxAttempts - attempts
  <1>1. attempts \in 0 .. MaxAttempts /\ timers \in [named : BOOLEAN, orphans : Nat]
    BY DEF ConnInv, ConnectionTypes
  <1>2. made \in Nat /\ attempts + made \in 0 .. MaxAttempts
    BY <1>1, ConnectionAssumption
  <1> HIDE DEF made
  <1>3. CASE intentional
    BY <1>1, <1>3 DEF Reschedule
  <1>4. CASE ~intentional
    <2>1. /\ attempts' = attempts + made
          /\ timers' = IF made = 0 THEN timers
                       ELSE [named |-> TRUE,
                             orphans |-> timers.orphans + made - (IF timers.named THEN 0 ELSE 1)]
          /\ tstate' = IF made = n THEN "reconnecting" ELSE "disconnected"
      BY <1>4 DEF Reschedule, made
    <2>2. made # 0 => timers.orphans + made - (IF timers.named THEN 0 ELSE 1) \in Nat
      BY <1>1, <1>2
    <2>3. timers' \in [named : BOOLEAN, orphans : Nat]
      BY <1>1, <2>1, <2>2
    <2> QED
      BY <1>2, <2>1, <2>3
  <1> QED
    BY <1>3, <1>4

\* start() makes a socket where there is none.
LEMMA StartKeeps ==
  ASSUME ConnInv, Start, ~Retry
  PROVE  ConnInv'
  <1>1. cur = 0 /\ (stopped \/ sstate = "idle")
    BY DEF ConnInv, ConnectionTypes, StartsAfresh, Start
  <1>2. NextSocket \in Sockets /\ NextSocket # 0
    BY NextSocketIsUnmade DEF Start, ConnectTransport
  <1> DEFINE next == NextSocket
  <1> HIDE DEF next
  <1>3. /\ cur' = next /\ socks' = [socks EXCEPT ![next] = "connecting"]
        /\ heard' = heard \cup {next} /\ tstate' = "connecting"
        /\ UNCHANGED <<attempts, timers, tData>>
    BY DEF Start, ConnectTransport, next
  <1>4. ConnectionTypes'
    BY <1>2, <1>3 DEF ConnInv, ConnectionTypes, Start, ConnectTransport, tData, next
  <1>5. OneLiveSocket'
    <2>1. \A k \in heard : ~(socks[k] \in {"connecting", "open"})
      BY <1>1 DEF ConnInv, ConnectionTypes, OneLiveSocket, Sockets
    <2>2. \A k \in heard : k # next => socks'[k] = socks[k]
      BY <1>3 DEF ConnInv, ConnectionTypes
    <2> QED
      BY <1>3, <2>1, <2>2 DEF OneLiveSocket, Start
  <1>6. FlushedWhenOpen'
    BY <1>3 DEF FlushedWhenOpen
  <1>7. StartsAfresh'
    BY DEF StartsAfresh, Start
  <1>8. FramesKeepOrder'
    BY <1>3, LineStays
  <1> QED
    BY <1>4, <1>5, <1>6, <1>7, <1>8 DEF ConnInv

\* A socket that opens is the present one, and takes over what was buffered.
LEMMA SocketOpensKeeps ==
  ASSUME ConnInv, NEW k \in Sockets, SocketOpens(k)
  PROVE  ConnInv'
  <1>1. k = cur /\ k \in heard /\ socks[k] = "connecting" /\ ~stopped
    BY DEF ConnInv, ConnectionTypes, OneLiveSocket, SocketOpens, Opened, Sockets
  <1>2. /\ wire' = wire \o outbound /\ outbound' = <<>>
        /\ socks' = [socks EXCEPT ![k] = "open"]
        /\ UNCHANGED <<heard, cur, timers, intentional, frames, shed, sstate, stopped, stopping>>
    BY <1>1 DEF SocketOpens, Opened
  <1>3. ConnectionTypes'
    BY <1>2, ConnectionAssumption DEF ConnInv, ConnectionTypes, SocketOpens, Opened
  <1>4. FramesKeepOrder'
    <2>1. wire' \o outbound' = wire \o outbound
      BY <1>2, ConcatEmptySeq, ConcatProperties DEF ConnInv, ConnectionTypes
    <2> QED
      BY <1>2, <2>1 DEF ConnInv, FramesKeepOrder
  <1>5. OneLiveSocket'
    BY <1>1, <1>2 DEF ConnInv, ConnectionTypes, OneLiveSocket
  <1>6. FlushedWhenOpen'
    BY <1>2 DEF FlushedWhenOpen
  <1>7. StartsAfresh'
    BY <1>1, <1>2 DEF ConnInv, StartsAfresh, SocketOpens
  <1> QED
    BY <1>3, <1>4, <1>5, <1>6, <1>7 DEF ConnInv

\* A socket that fails or drops is closed, and the next one is scheduled.
LEMMA SocketCloses ==
  ASSUME ConnInv, NEW k \in Sockets, k \in heard, socks[k] \in {"connecting", "open"},
         socks' = [socks EXCEPT ![k] = "closed"],
         tstate' \in {tstate, "reconnecting", "disconnected"},
         UNCHANGED <<heard, cur, intentional, tData, stopped>>
  PROVE  FramesKeepOrder' /\ OneLiveSocket' /\ FlushedWhenOpen' /\ k = cur
  <1>1. k = cur
    BY DEF ConnInv, OneLiveSocket
  <1>2. FramesKeepOrder'
    BY LineStays
  <1>3. OneLiveSocket'
    BY <1>1 DEF ConnInv, ConnectionTypes, OneLiveSocket
  <1>4. FlushedWhenOpen'
    BY <1>1 DEF ConnInv, ConnectionTypes, FlushedWhenOpen, IsOpen
  <1> QED
    BY <1>1, <1>2, <1>3, <1>4

\* A socket that fails to open rejects the awaited connect() and schedules twice.
LEMMA SocketFailsKeeps ==
  ASSUME ConnInv, NEW k \in Sockets, SocketFails(k)
  PROVE  ConnInv'
  <1>1. Reschedule(2) /\ k \in heard /\ socks[k] = "connecting"
        /\ socks' = [socks EXCEPT ![k] = "closed"]
        /\ UNCHANGED <<heard, cur, intentional, tData, stopped, stopping, mic, awaited>>
    BY DEF SocketFails, Failed
  <1>2. /\ attempts' \in 0 .. MaxAttempts
        /\ timers' \in [named : BOOLEAN, orphans : Nat]
        /\ tstate' \in {tstate, "reconnecting", "disconnected"}
    BY <1>1, RescheduleTypes
  <1>3. FramesKeepOrder' /\ OneLiveSocket' /\ FlushedWhenOpen' /\ k = cur
    BY <1>1, <1>2, SocketCloses
  <1>4. ConnectionTypes'
    BY <1>1, <1>2 DEF ConnInv, ConnectionTypes, SocketFails, tData
  <1>5. StartsAfresh'
    BY <1>1, <1>3 DEF ConnInv, StartsAfresh, SocketFails
  <1> QED
    BY <1>3, <1>4, <1>5 DEF ConnInv

\* A socket that drops leaves the frames to the buffer.
LEMMA SocketDropsKeeps ==
  ASSUME ConnInv, NEW k \in Sockets, SocketDrops(k)
  PROVE  ConnInv'
  <1>1. k \in heard /\ socks[k] = "open"
        /\ socks' = [socks EXCEPT ![k] = "closed"]
        /\ UNCHANGED <<heard, cur, intentional, tData, svars>>
    BY DEF SocketDrops, Dropped
  <1>2. /\ attempts' \in 0 .. MaxAttempts
        /\ timers' \in [named : BOOLEAN, orphans : Nat]
        /\ tstate' \in {tstate, "reconnecting", "disconnected"}
    <2>1. CASE Reschedule(1)
      BY <2>1, RescheduleTypes
    <2>2. CASE UNCHANGED <<attempts, timers, tstate>>
      BY <2>2 DEF ConnInv, ConnectionTypes
    <2> QED
      BY <2>1, <2>2 DEF SocketDrops, Dropped
  <1>3. FramesKeepOrder' /\ OneLiveSocket' /\ FlushedWhenOpen' /\ k = cur
    BY <1>1, <1>2, SocketCloses DEF svars
  <1>4. ConnectionTypes'
    BY <1>1, <1>2 DEF ConnInv, ConnectionTypes, tData, svars
  <1>5. StartsAfresh'
    BY <1>1, <1>3 DEF ConnInv, StartsAfresh, svars
  <1> QED
    BY <1>3, <1>4, <1>5 DEF ConnInv

\* A timer that fires closes the present socket before it makes the next.
LEMMA ReconnectKeeps ==
  ASSUME ConnInv, Reconnect
  PROVE  ConnInv'
  <1>0. /\ timers \in [named : BOOLEAN, orphans : Nat]
        /\ sstate = "idle" => timers = [named |-> FALSE, orphans |-> 0]
    BY DEF ConnInv, ConnectionTypes, StartsAfresh
  <1>1. timers' \in [named : BOOLEAN, orphans : Nat] /\ sstate # "idle"
        /\ UNCHANGED <<tstate, attempts, intentional, tData, svars>>
    <2>1. CASE timers.named /\ timers' = [timers EXCEPT !.named = FALSE]
      <3>1. timers' \in [named : BOOLEAN, orphans : Nat]
        BY <1>0, <2>1
      <3>2. sstate # "idle"
        BY <1>0, <2>1
      <3> QED
        BY <3>1, <3>2 DEF Reconnect, TimerFires
    <2>2. CASE timers.orphans > 0 /\ timers' = [timers EXCEPT !.orphans = @ - 1]
      <3>1. timers.orphans - 1 \in Nat
        BY <1>0, <2>2
      <3> QED
        BY <1>0, <2>2, <3>1 DEF Reconnect, TimerFires
    <2> QED
      BY <2>1, <2>2 DEF Reconnect, TimerFires
  <1>2. FramesKeepOrder'
    BY <1>1, LineStays
  <1>3. CASE intentional
    <2>1. UNCHANGED <<cur, socks, heard>>
      BY <1>3 DEF Reconnect, TimerFires
    <2> QED
      BY <1>1, <1>2, <2>1 DEF ConnInv, ConnectionTypes, OneLiveSocket, FlushedWhenOpen, IsOpen,
         StartsAfresh, svars, tData
  <1>4. CASE ~intentional
    <2> DEFINE next == NextSocket
    <2>1. NextSocket \in Sockets /\ NextSocket # 0
      BY <1>4, NextSocketIsUnmade DEF Reconnect, TimerFires
    <2>2. next \in Sockets /\ next # 0
      BY <2>1
    <2>3. /\ cur' = next
          /\ socks' = [k \in Sockets |-> IF k = next THEN "connecting"
                                         ELSE IF k = cur THEN "closed" ELSE socks[k]]
          /\ heard' = (heard \ {cur}) \cup {next}
      BY <1>4 DEF Reconnect, TimerFires
    <2> HIDE DEF next
    <2>4. ~stopped
      BY <1>4 DEF ConnInv, StartsAfresh
    <2>5. ConnectionTypes'
      BY <1>1, <2>2, <2>3 DEF ConnInv, ConnectionTypes, tData, svars
    <2>6. OneLiveSocket'
      BY <1>1, <2>2, <2>3, <2>4 DEF ConnInv, ConnectionTypes, OneLiveSocket, svars
    <2>7. FlushedWhenOpen'
      BY <2>2, <2>3 DEF FlushedWhenOpen, IsOpen
    <2>8. StartsAfresh'
      BY <1>1, <2>4 DEF ConnInv, StartsAfresh, svars
    <2> QED
      BY <1>2, <2>5, <2>6, <2>7, <2>8 DEF ConnInv
  <1> QED
    BY <1>3, <1>4 DEF ConnInv, ConnectionTypes

\* The microphone's answer touches the session only.
LEMMA MicKeeps ==
  ASSUME ConnInv, MicGranted \/ MicDenied
  PROVE  ConnInv'
  <1>1. UNCHANGED <<tvars, awaited, stopping, stopped>> /\ starting' = "no"
        /\ sstate' \in {"running", "error"} /\ mic' \in {mic, TRUE}
    BY DEF MicGranted, MicDenied
  <1>2. ConnectionTypes'
    BY <1>1 DEF ConnInv, ConnectionTypes, tvars
  <1>3. FramesKeepOrder' /\ OneLiveSocket' /\ FlushedWhenOpen'
    BY <1>1 DEF ConnInv, FramesKeepOrder, OneLiveSocket, FlushedWhenOpen, IsOpen, tvars
  <1>4. StartsAfresh'
    BY <1>1 DEF ConnInv, StartsAfresh, tvars
  <1> QED
    BY <1>2, <1>3, <1>4 DEF ConnInv

\* A captured frame is sent on an open socket, or waits at the end of the line.
LEMMA CapturedKeeps ==
  ASSUME ConnInv, Captured
  PROVE  ConnInv'
  <1>1. UNCHANGED <<tstate, socks, heard, cur, attempts, timers, intentional, svars>>
        /\ frames' = frames + 1
    BY DEF Captured, SendFrame
  <1>2. wire \in Seq(Nat) /\ outbound \in Seq(Nat) /\ frames \in Nat /\ shed \subseteq Nat
    BY DEF ConnInv, ConnectionTypes
  <1> DEFINE all == Append(outbound, frames + 1)
  <1>3. InLine(wire \o outbound, shed, frames) /\ wire \o outbound \in Seq(Nat)
    BY <1>2 DEF ConnInv, FramesKeepOrder, InLine
  <1>4. all \in Seq(Nat) /\ all # <<>> /\ wire \o all = Append(wire \o outbound, frames + 1)
    <2>1. all \in Seq(Nat) /\ all # <<>>
      BY <1>2, AppendProperties
    <2>2. wire \o all = Append(wire \o outbound, frames + 1)
      BY <1>2
    <2> QED
      BY <2>1, <2>2
  <1> HIDE DEF all
  <1>5. InLine(wire \o all, shed, frames + 1)
    BY <1>2, <1>3, <1>4, JoinsLine
  <1>6. /\ wire' \in Seq(Nat) /\ outbound' \in Seq(Nat) /\ shed' \subseteq Nat
        /\ InLine(wire' \o outbound', shed', frames + 1)
        /\ FlushedWhenOpen'
    <2>1. CASE tstate = "connected" /\ IsOpen(cur)
      <3>1. outbound = <<>> /\ outbound' = <<>> /\ shed' = shed
            /\ wire' = Append(wire, frames + 1)
        BY <2>1 DEF ConnInv, FlushedWhenOpen, Captured, SendFrame
      <3>2. wire' \in Seq(Nat) /\ outbound' \in Seq(Nat) /\ wire' \o outbound' = wire \o all
        <4>1. all = <<frames + 1>> /\ wire' \in Seq(Nat)
          BY <1>2, <3>1 DEF all
        <4>2. wire' \o <<>> = wire' /\ wire' = wire \o <<frames + 1>>
          BY <1>2, <3>1, <4>1, ConcatEmptySeq, AppendIsConcat
        <4> QED
          BY <3>1, <4>1, <4>2
      <3>3. InLine(wire' \o outbound', shed', frames + 1)
        BY <1>5, <3>1, <3>2
      <3> QED
        BY <1>2, <3>1, <3>2, <3>3 DEF FlushedWhenOpen
    <2>2. CASE ~(tstate = "connected" /\ IsOpen(cur))
      <3>1. FlushedWhenOpen'
        BY <1>1, <2>2 DEF FlushedWhenOpen, IsOpen
      <3>2. CASE Len(all) > MaxBuffer
        <4>1. wire' = wire /\ outbound' = Tail(all) /\ shed' = shed \cup {Head(all)}
          BY <2>2, <3>2 DEF Captured, SendFrame, all
        <4>2. Tail(all) \in Seq(Nat) /\ Head(all) \in Nat
          BY <1>4, HeadTailProperties
        <4>3. InLine(wire \o Tail(all), shed \cup {Head(all)}, frames + 1)
          <5>1. frames + 1 \in Nat
            BY <1>2
          <5> QED
            BY <1>2, <1>4, <1>5, <5>1, LeavesLine
        <4> QED
          BY <1>2, <3>1, <4>1, <4>2, <4>3
      <3>3. CASE ~(Len(all) > MaxBuffer)
        <4>1. wire' = wire /\ outbound' = all /\ shed' = shed
          BY <2>2, <3>3 DEF Captured, SendFrame, all
        <4> QED
          BY <1>2, <1>4, <1>5, <3>1, <4>1
      <3> QED
        BY <3>2, <3>3
    <2> QED
      BY <2>1, <2>2
  <1>7. FramesKeepOrder'
    BY <1>1, <1>6 DEF FramesKeepOrder, InLine
  <1>8. ConnectionTypes'
    BY <1>1, <1>2, <1>6 DEF ConnInv, ConnectionTypes, svars
  <1>9. OneLiveSocket' /\ StartsAfresh'
    BY <1>1 DEF ConnInv, OneLiveSocket, StartsAfresh, svars
  <1> QED
    BY <1>6, <1>7, <1>8, <1>9 DEF ConnInv

\* The end of stop() leaves no socket, and closes on purpose.
LEMMA TeardownKeeps ==
  ASSUME ConnInv, Teardown, stopping' \in BOOLEAN, mic' = mic, awaited' = awaited
  PROVE  ConnInv'
  <1>1. /\ cur' = 0 /\ intentional' = TRUE /\ tstate' = "closed" /\ heard' = heard \ {cur}
        /\ socks' = IF cur = 0 THEN socks ELSE [socks EXCEPT ![cur] = "closed"]
        /\ timers' = [timers EXCEPT !.named = FALSE]
        /\ UNCHANGED <<attempts, tData>>
        /\ sstate' = "stopped" /\ stopped' = TRUE
        /\ starting' = IF starting = "connect" THEN "no" ELSE starting
    BY DEF Teardown, CloseTransport
  <1>2. FramesKeepOrder'
    BY <1>1, LineStays
  <1>3. ConnectionTypes'
    <2>1. timers' \in [named : BOOLEAN, orphans : Nat]
      BY <1>1 DEF ConnInv, ConnectionTypes
    <2>2. socks' \in [Sockets -> {"unmade", "connecting", "open", "closed"}]
      BY <1>1 DEF ConnInv, ConnectionTypes
    <2> QED
      BY <1>1, <2>1, <2>2 DEF ConnInv, ConnectionTypes, tData
  <1>4. OneLiveSocket'
    BY <1>1 DEF ConnInv, ConnectionTypes, OneLiveSocket
  <1>5. FlushedWhenOpen' /\ StartsAfresh'
    BY <1>1 DEF ConnInv, ConnectionTypes, FlushedWhenOpen, StartsAfresh
  <1> QED
    BY <1>2, <1>3, <1>4, <1>5 DEF ConnInv

\* stop() waits for the capture, if there is one, before it takes the transport down.
LEMMA StopKeeps ==
  ASSUME ConnInv, Stop \/ StopEnds
  PROVE  ConnInv'
  <1>1. CASE Stop /\ mic
    <2>1. mic' = FALSE /\ stopping' = TRUE /\ sstate' = "stopping"
          /\ UNCHANGED <<tvars, starting, stopped, awaited>>
      BY <1>1 DEF Stop
    <2> QED
      BY <2>1 DEF ConnInv, ConnectionTypes, FramesKeepOrder, OneLiveSocket, FlushedWhenOpen,
         IsOpen, StartsAfresh, tvars
  <1>2. CASE Stop /\ ~mic
    <2>1. Teardown /\ UNCHANGED <<mic, stopping, awaited>>
      BY <1>2 DEF Stop
    <2>2. stopping' \in BOOLEAN
      BY <2>1 DEF ConnInv, ConnectionTypes
    <2> QED
      BY <2>1, <2>2, TeardownKeeps
  <1>3. CASE StopEnds
    BY <1>3, TeardownKeeps DEF StopEnds
  <1> QED
    BY <1>1, <1>2, <1>3 DEF ConnInv, ConnectionTypes

\* Before anything is made there is nothing out of order.
LEMMA ConnInit == SInit => ConnInv
  <1> SUFFICES ASSUME SInit PROVE ConnInv
    OBVIOUS
  <1>1. ConnectionTypes
    <2>1. <<>> \in Seq(Nat) /\ 0 \in 0 .. MaxAttempts
      BY ConnectionAssumption
    <2>2. [named |-> FALSE, orphans |-> 0] \in [named : BOOLEAN, orphans : Nat]
      OBVIOUS
    <2> QED
      BY <2>1, <2>2 DEF SInit, TInit, ConnectionTypes
  <1>2. FramesKeepOrder
    <2>1. wire \o outbound = <<>> /\ shed = {} /\ frames = 0
      BY DEF SInit, TInit
    <2> QED
      BY <2>1 DEF FramesKeepOrder, ToSet
  <1> QED
    BY <1>1, <1>2 DEF SInit, TInit, ConnInv, OneLiveSocket, FlushedWhenOpen, StartsAfresh

\* Where start() is not called again after it has failed, every step of the client
\* keeps the invariant.
LEMMA ConnNext ==
  ASSUME ~Retry
  PROVE  ConnInv /\ [SNext]_clientVars => ConnInv'
  <1> SUFFICES ASSUME ConnInv, [SNext]_clientVars PROVE ConnInv'
    OBVIOUS
  <1>1. CASE SNext
    BY <1>1, StartKeeps, SocketOpensKeeps, SocketFailsKeeps, SocketDropsKeeps, ReconnectKeeps,
       MicKeeps, CapturedKeeps, StopKeeps DEF SNext
  <1>2. CASE UNCHANGED clientVars
    <2>1. UNCHANGED tvars /\ UNCHANGED svars
      BY <1>2 DEF clientVars
    <2>2. ConnectionTypes'
      BY <2>1 DEF ConnInv, ConnectionTypes, tvars, svars
    <2>3. FramesKeepOrder' /\ OneLiveSocket' /\ FlushedWhenOpen'
      BY <2>1 DEF ConnInv, FramesKeepOrder, OneLiveSocket, FlushedWhenOpen, IsOpen, tvars, svars
    <2>4. StartsAfresh'
      BY <2>1 DEF ConnInv, StartsAfresh, tvars, svars
    <2> QED
      BY <2>2, <2>3, <2>4 DEF ConnInv
  <1> QED
    BY <1>1, <1>2

\* The order of frames and the single socket, for any number of sockets, timers and
\* frames and any size of the buffer (webrtc.ts).
THEOREM ConnectionKeepsOrder ==
  ASSUME ~Retry
  PROVE  ClientSpec => []ConnectionIsSound
  <1>1. ConnInv => ConnectionIsSound
    BY DEF ConnInv, ConnectionIsSound
  <1>2. ConnInv /\ [SNext]_clientVars => ConnInv'
    BY ConnNext
  <1> QED
    BY <1>1, <1>2, ConnInit, PTL DEF ClientSpec

-----------------------------------------------------------------------------
(***************************************************************************)
(* The player                                                              *)
(***************************************************************************)

Node == [turn : Nat, seq : Nat, start : Nat, end : Nat]

PlayTypes ==
  /\ now \in Nat /\ nextStart \in Nat /\ expected \in Nat /\ turn \in Nat
  /\ fades \in 0 .. 2
  /\ sources \subseteq Node
  /\ pending \subseteq Nat /\ IsFiniteSet(pending)
  /\ log \in Seq(Nat)
  /\ playing \in BOOLEAN /\ startedTurn \in BOOLEAN /\ flagged \in BOOLEAN

\* What is scheduled of this turn comes before what is expected, and ends before the
\* next chunk starts; nothing is scheduled of a later turn.
Placed ==
  \A a \in sources : /\ a.turn <= turn
                     /\ a.turn = turn => a.seq < expected /\ a.end <= nextStart

\* Every number of this turn that was scheduled is behind the expected one.
Passed == \A i \in DOMAIN log : log[i] < expected

PlayInv == PlayTypes /\ Placed /\ Passed /\ ChunksInOrder /\ SoundIsInterruptible

\* The least of a set of naturals.
LEMMA MinIsLeast ==
  ASSUME NEW S \in SUBSET Nat, S # {}
  PROVE  Min(S) \in S /\ \A y \in S : Min(S) <= y
  BY Smallest DEF Min

\* The later of two times is one of them.
LEMMA MaxOfTwo ==
  ASSUME NEW a \in Nat, NEW b \in Nat
  PROVE  Max({a, b}) \in Nat /\ Max({a, b}) >= a /\ Max({a, b}) >= b
  <1>1. \E x \in {a, b} : \A y \in {a, b} : x >= y
    OBVIOUS
  <1> QED
    BY <1>1 DEF Max

\* The run of numbers that may be released ends at the first that is missing.
LEMMA RunEndIsGap ==
  ASSUME NEW p \in SUBSET Nat, IsFiniteSet(p), NEW e \in Nat
  PROVE  /\ RunEnd(p, e) \in Nat /\ RunEnd(p, e) >= e /\ RunEnd(p, e) \notin p
         /\ e .. RunEnd(p, e) - 1 \subseteq p
  <1> DEFINE n == Cardinality(p)
             missing == {m \in e .. e + n : m \notin p}
  <1>1. n \in Nat
    BY FS_CardinalityType
  <1>2. missing # {}
    <2>1. SUFFICES ASSUME missing = {} PROVE FALSE
      OBVIOUS
    <2>2. e .. e + n \in SUBSET p
      BY <2>1
    <2>3. Cardinality(e .. e + n) <= n
      BY <2>2, FS_Subset
    <2>4. Cardinality(e .. e + n) = n + 1
      BY <1>1, FS_Interval
    <2> QED
      BY <1>1, <2>3, <2>4
  <1>3. missing \in SUBSET Nat
    BY <1>1
  <1>4. Min(missing) \in missing /\ \A m \in missing : Min(missing) <= m
    BY <1>2, <1>3, MinIsLeast
  <1>5. RunEnd(p, e) = Min(missing)
    BY DEF RunEnd
  <1> DEFINE stop == Min(missing)
  <1>6. stop \in e .. e + n /\ stop \notin p
    BY <1>4
  <1>7. ASSUME NEW m \in e .. stop - 1 PROVE m \in p
    <2>1. m \in e .. e + n /\ m < stop
      BY <1>1, <1>6
    <2> QED
      BY <1>4, <1>6, <2>1
  <1> QED
    BY <1>1, <1>5, <1>6, <1>7

\* Scheduling the numbers from a up to b, when everything before a is expected.
LEMMA ScheduleKeeps ==
  ASSUME PlayInv, NEW a \in Nat, NEW b \in Nat, expected <= a, a <= b,
         Schedule(a .. b - 1), turn' = turn, expected' = b
  PROVE  /\ sources' \subseteq Node /\ nextStart' \in Nat /\ log' \in Seq(Nat)
         /\ playing' \in BOOLEAN /\ startedTurn' \in BOOLEAN
         /\ Placed' /\ Passed'
         /\ \A i, j \in DOMAIN log' : i < j => log'[i] < log'[j] /\ log'[j] < b
         /\ \A x, y \in sources' : x.turn = y.turn /\ x.seq < y.seq => x.end <= y.start
         /\ playing' => sources' # {}
  <1> DEFINE run == a .. b - 1
             from == Max({nextStart, now})
             node(k) == [turn |-> turn, seq |-> k, start |-> from + k - a,
                         end |-> from + k - a + 1]
  <1>1. PlayTypes /\ from \in Nat /\ from >= nextStart
    BY MaxOfTwo DEF PlayInv, PlayTypes
  <1>2. CASE a = b
    <2>1. run = {}
      BY <1>2
    <2>2. UNCHANGED <<sources, nextStart, playing, startedTurn, log>>
      BY <2>1 DEF Schedule
    <2>3. Placed' /\ Passed'
      BY <1>1, <1>2, <2>2 DEF PlayInv, PlayTypes, Placed, Passed, Node
    <2>4. \A i, j \in DOMAIN log : i < j => log[i] < log[j] /\ log[j] < b
      BY <1>1, <1>2 DEF PlayInv, PlayTypes, ChunksInOrder
    <2> QED
      BY <1>1, <2>2, <2>3, <2>4 DEF PlayInv, PlayTypes, ChunksInOrder, SoundIsInterruptible
  <1>3. CASE a < b
    <2>1. /\ run # {} /\ run \in SUBSET Nat /\ Cardinality(run) = b - a
          /\ \A k \in run : a <= k /\ k < b
      <3>1. a \in Int /\ b - 1 \in Int /\ ~(a > b - 1) /\ (b - 1) - a + 1 = b - a
        BY <1>3
      <3>2. Cardinality(run) = b - a
        BY <3>1, FS_Interval
      <3>3. a \in run /\ run \in SUBSET Nat /\ \A k \in run : a <= k /\ k < b
        BY <1>3
      <3> QED
        BY <3>2, <3>3
    <2>2. Min(run) = a
      <3>1. a \in run
        BY <1>3
      <3>2. Min(run) \in run /\ Min(run) <= a
        BY <2>1, <3>1, MinIsLeast
      <3> QED
        BY <2>1, <3>2
    <2>3. /\ sources' = sources \cup {node(k) : k \in run}
          /\ nextStart' = from + (b - a)
          /\ playing' = (playing \/ ~startedTurn) /\ startedTurn' = TRUE
          /\ log' = log \o [i \in 1 .. b - a |-> a + i - 1]
      BY <2>1, <2>2 DEF Schedule
    <2> HIDE DEF from
    <2>4. \A k \in run : node(k) \in Node /\ node(k).turn = turn /\ node(k).seq = k
                         /\ node(k).start = from + k - a /\ node(k).end = from + k - a + 1
      BY <1>1, <2>1 DEF PlayTypes, Node
    <2> HIDE DEF node, run
    <2>5. sources' \subseteq Node /\ nextStart' \in Nat /\ nextStart' >= from
      BY <1>1, <1>3, <2>3, <2>4 DEF PlayTypes
    <2>6. Placed'
      <3> SUFFICES ASSUME NEW x \in sources'
                   PROVE  /\ x.turn <= turn
                          /\ x.turn = turn => x.seq < b /\ x.end <= nextStart'
        BY DEF Placed
      <3>1. CASE x \in sources
        <4>1. /\ x \in Node /\ x.turn <= turn
              /\ x.turn = turn => x.seq < expected /\ x.end <= nextStart
          BY <1>1, <3>1 DEF PlayInv, PlayTypes, Placed
        <4> QED
          BY <1>1, <1>3, <2>5, <4>1 DEF PlayTypes, Node
      <3>2. CASE x \in {node(k) : k \in run}
        <4>1. PICK k \in run : x = node(k)
          BY <3>2
        <4>2. k \in Nat /\ a <= k /\ k < b
          BY <2>1
        <4> QED
          BY <1>1, <1>3, <2>3, <2>4, <4>1, <4>2 DEF PlayTypes
      <3> QED
        BY <2>3, <3>1, <3>2
    <2>7. \A x, y \in sources' : x.turn = y.turn /\ x.seq < y.seq => x.end <= y.start
      <3> SUFFICES ASSUME NEW x \in sources', NEW y \in sources', x.turn = y.turn, x.seq < y.seq
                   PROVE  x.end <= y.start
        OBVIOUS
      <3>1. CASE x \in sources /\ y \in sources
        BY <3>1 DEF PlayInv, ChunksInOrder
      <3>2. CASE x \in sources /\ y \in {node(k) : k \in run}
        <4>1. PICK k \in run : y = node(k)
          BY <3>2
        <4>2. k \in Nat /\ a <= k /\ y.turn = turn /\ y.start = from + k - a
          BY <2>1, <2>4, <4>1
        <4>3. x \in Node /\ x.end <= nextStart
          BY <1>1, <3>2, <4>2 DEF PlayInv, PlayTypes, Placed
        <4> QED
          BY <1>1, <4>2, <4>3 DEF PlayTypes, Node
      <3>3. CASE x \in {node(k) : k \in run} /\ y \in sources
        <4>1. PICK k \in run : x = node(k)
          BY <3>3
        <4>2. k \in Nat /\ a <= k /\ x.turn = turn /\ x.seq = k
          BY <2>1, <2>4, <4>1
        <4>3. y \in Node /\ y.seq < expected
          BY <1>1, <3>3, <4>2 DEF PlayInv, PlayTypes, Placed
        <4> QED
          BY <1>1, <4>2, <4>3 DEF PlayTypes, Node
      <3>4. CASE x \in {node(k) : k \in run} /\ y \in {node(k) : k \in run}
        <4>1. PICK k \in run, l \in run : x = node(k) /\ y = node(l)
          BY <3>4
        <4>2. k \in Nat /\ l \in Nat /\ k < l
              /\ x.end = from + k - a + 1 /\ y.start = from + l - a
          BY <2>1, <2>4, <4>1
        <4> QED
          BY <1>1, <4>2
      <3> QED
        BY <2>3, <3>1, <3>2, <3>3, <3>4
    <2>8. /\ log' \in Seq(Nat) /\ Passed'
          /\ \A i, j \in DOMAIN log' : i < j => log'[i] < log'[j] /\ log'[j] < b
      <3> DEFINE tail == [i \in 1 .. b - a |-> a + i - 1]
      <3>1. tail \in Seq(Nat) /\ Len(tail) = b - a /\ b - a \in Nat
            /\ \A i \in 1 .. b - a : tail[i] = a + i - 1
        <4>1. b - a \in Nat /\ \A i \in 1 .. b - a : a + i - 1 \in Nat
          BY <1>3
        <4>2. tail \in [1 .. b - a -> Nat]
          BY <4>1
        <4> QED
          BY <4>1, <4>2
      <3> HIDE DEF tail
      <3>2. log \in Seq(Nat) /\ Len(log) \in Nat
        BY <1>1 DEF PlayTypes
      <3>3. /\ log' \in Seq(Nat) /\ Len(log') = Len(log) + (b - a)
            /\ \A i \in 1 .. Len(log) + (b - a) :
                 log'[i] = IF i <= Len(log) THEN log[i] ELSE tail[i - Len(log)]
        BY <2>3, <3>1, <3>2, ConcatProperties DEF tail
      <3>4. DOMAIN log' = 1 .. Len(log) + (b - a) /\ DOMAIN log = 1 .. Len(log)
        BY <3>2, <3>3
      <3>5. ASSUME NEW j \in DOMAIN log', j > Len(log)
            PROVE  log'[j] = a + (j - Len(log)) - 1
        <4>1. PICK m \in 1 .. b - a : m = j - Len(log)
          BY <3>1, <3>2, <3>4, <3>5
        <4>2. j \in 1 .. Len(log) + (b - a) /\ ~(j <= Len(log))
          BY <3>1, <3>2, <3>4, <3>5
        <4>3. log'[j] = tail[j - Len(log)]
          BY <3>3, <4>2, Zenon
        <4> QED
          BY <3>1, <4>1, <4>3
      <3>6. ASSUME NEW i \in DOMAIN log', NEW j \in DOMAIN log', i < j
            PROVE  log'[i] < log'[j] /\ log'[j] < b
        <4>1. i \in Nat /\ j \in Nat
          BY <3>1, <3>2, <3>4
        <4>2. CASE j <= Len(log)
          <5>1. log'[i] = log[i] /\ log'[j] = log[j] /\ log[j] \in Nat
            BY <3>2, <3>3, <3>4, <3>6, <4>1, <4>2
          <5>2. log[i] < log[j] /\ log[j] < expected
            BY <3>2, <3>4, <3>6, <4>1, <4>2 DEF PlayInv, ChunksInOrder
          <5> QED
            BY <1>1, <1>3, <5>1, <5>2 DEF PlayTypes
        <4>3. CASE j > Len(log)
          <5>1. log'[j] = a + (j - Len(log)) - 1
            BY <3>5, <4>3
          <5>2. log'[j] < b
            BY <3>1, <3>2, <3>4, <5>1
          <5>3. CASE i > Len(log)
            <6>1. log'[i] = a + (i - Len(log)) - 1
              BY <3>5, <5>3
            <6> QED
              BY <3>2, <3>6, <4>1, <5>1, <5>2, <6>1
          <5>4. CASE i <= Len(log)
            <6>1. log'[i] = log[i] /\ log[i] \in Nat /\ i \in DOMAIN log
              BY <3>2, <3>3, <3>4, <4>1, <5>4
            <6>2. log[i] < expected
              BY <6>1 DEF PlayInv, Passed
            <6> QED
              BY <1>1, <3>2, <4>1, <4>3, <5>1, <5>2, <6>1, <6>2 DEF PlayTypes
          <5> QED
            BY <3>2, <4>1, <5>3, <5>4
        <4> QED
          BY <3>2, <4>1, <4>2, <4>3
      <3>7. ASSUME NEW j \in DOMAIN log' PROVE log'[j] < b
        <4>1. CASE j <= Len(log)
          <5>1. j \in DOMAIN log /\ log'[j] = log[j] /\ log[j] \in Nat
            BY <3>2, <3>3, <3>4, <4>1
          <5>2. log[j] < expected
            BY <5>1 DEF PlayInv, Passed
          <5> QED
            BY <1>1, <5>1, <5>2 DEF PlayTypes
        <4>2. CASE j > Len(log)
          <5>1. log'[j] = a + (j - Len(log)) - 1
            BY <3>5, <4>2
          <5> QED
            BY <3>1, <3>2, <3>4, <5>1
        <4> QED
          BY <3>1, <3>2, <3>4, <4>1, <4>2
      <3> QED
        BY <3>3, <3>6, <3>7 DEF Passed
    <2>9. sources' # {}
      BY <2>1, <2>3
    <2> QED
      BY <1>1, <2>3, <2>5, <2>6, <2>7, <2>8, <2>9 DEF PlayTypes
  <1> QED
    BY <1>2, <1>3

\* A chunk that comes in: stale, in order, ahead, or one too many for the window.
LEMMA InboundKeeps ==
  ASSUME PlayInv, NEW s \in Seqs, Inbound(s)
  PROVE  PlayInv'
  <1>1. PlayTypes /\ s \in Nat /\ JitterWindow \in Nat
    BY PlayerAssumption DEF PlayInv
  <1>2. flagged' = TRUE /\ UNCHANGED <<now, fades, turn>>
    BY DEF Inbound
  <1>3. CASE s < expected
    <2>1. UNCHANGED <<sources, nextStart, playing, startedTurn, log, pending, expected>>
      BY <1>3 DEF Inbound
    <2> QED
      BY <1>2, <2>1 DEF PlayInv, PlayTypes, Placed, Passed, ChunksInOrder, SoundIsInterruptible
  <1>4. CASE ~(s < expected)
    <2> DEFINE held == pending \cup {s}
               later == held \ (expected .. RunEnd(held, expected) - 1)
               start == IF Cardinality(later) > JitterWindow THEN Min(held) ELSE expected
               stop == RunEnd(held, start)
    <2>1. /\ Schedule(start .. stop - 1) /\ pending' = held \ (start .. stop - 1)
          /\ expected' = stop
      BY <1>4 DEF Inbound
    <2>2. /\ held \in SUBSET Nat /\ held # {} /\ IsFiniteSet(held)
          /\ \A k \in held : expected <= k
          /\ Cardinality(held) <= JitterWindow + 1 /\ Cardinality(held) \in Nat
      <3>1. held \in SUBSET Nat /\ IsFiniteSet(held) /\ Cardinality(pending) \in Nat
            /\ Cardinality(held) <= Cardinality(pending) + 1 /\ Cardinality(held) \in Nat
        <4>1. pending \in SUBSET Nat /\ IsFiniteSet(pending)
          BY <1>1 DEF PlayTypes
        <4>2. Cardinality(pending) \in Nat
          BY <4>1, FS_CardinalityType
        <4>3. IsFiniteSet(held) /\ Cardinality(held) \in {Cardinality(pending), Cardinality(pending) + 1}
          BY <4>1, FS_AddElement
        <4> QED
          BY <1>1, <4>1, <4>2, <4>3
      <3>2. Cardinality(pending) <= JitterWindow /\ \A k \in pending : k > expected
        BY DEF PlayInv, ChunksInOrder
      <3>3. \A k \in held : expected <= k
        BY <1>1, <1>4, <3>2 DEF PlayTypes
      <3> QED
        BY <1>1, <3>1, <3>2, <3>3
    <2>3. Min(held) \in held /\ \A k \in held : Min(held) <= k
      BY <2>2, MinIsLeast
    <2>30. start \in {Min(held), expected}
      OBVIOUS
    <2> HIDE DEF held, start
    <2>4. start \in Nat /\ expected <= start /\ \A k \in held : start <= k
      <3>1. CASE start = Min(held)
        BY <2>2, <2>3, <3>1
      <3>2. CASE start = expected
        BY <1>1, <2>2, <3>2 DEF PlayTypes
      <3> QED
        BY <2>30, <3>1, <3>2
    <2>5. stop \in Nat /\ start <= stop /\ stop \notin held
      BY <2>2, <2>4, RunEndIsGap
    <2>6. Cardinality(pending') <= JitterWindow
      <3>1. CASE Cardinality(later) > JitterWindow
        <4>1. start \in held /\ start = Min(held)
          BY <2>3, <3>1 DEF start
        <4>2. start \in start .. stop - 1
          <5>1. start # stop
            BY <2>5, <4>1
          <5> QED
            BY <2>4, <2>5, <5>1
        <4>3. pending' \in SUBSET (held \ {start})
          BY <2>1, <4>2
        <4>4. IsFiniteSet(held \ {start}) /\ Cardinality(held \ {start}) = Cardinality(held) - 1
          BY <2>2, <4>1, FS_RemoveElement
        <4>5. Cardinality(pending') <= Cardinality(held) - 1 /\ Cardinality(pending') \in Nat
          <5>1. IsFiniteSet(pending') /\ Cardinality(pending') <= Cardinality(held \ {start})
            BY <4>3, <4>4, FS_Subset
          <5> QED
            BY <4>4, <5>1, FS_CardinalityType
        <4> QED
          BY <1>1, <2>2, <4>5
      <3>2. CASE ~(Cardinality(later) > JitterWindow)
        <4>1. pending' = later
          BY <2>1, <3>2 DEF start
        <4>2. IsFiniteSet(later)
          BY <2>2, FS_Subset
        <4>3. Cardinality(later) \in Nat
          BY <4>2, FS_CardinalityType
        <4> QED
          BY <1>1, <3>2, <4>1, <4>3
      <3> QED
        BY <3>1, <3>2
    <2>7. pending' \subseteq Nat /\ IsFiniteSet(pending') /\ \A k \in pending' : k > stop
      <3>1. pending' \in SUBSET held /\ \A k \in pending' : k \notin start .. stop - 1
        BY <2>1
      <3>2. IsFiniteSet(pending')
        BY <2>2, <3>1, FS_Subset
      <3>3. ASSUME NEW k \in pending' PROVE k > stop
        <4>1. k \in Nat /\ start <= k /\ k # stop /\ ~(k \in start .. stop - 1)
          BY <2>2, <2>4, <2>5, <3>1
        <4> QED
          BY <2>4, <2>5, <4>1
      <3> QED
        BY <2>2, <3>1, <3>2, <3>3
    <2> HIDE DEF stop
    <2>8. /\ sources' \subseteq Node /\ nextStart' \in Nat /\ log' \in Seq(Nat)
          /\ playing' \in BOOLEAN /\ startedTurn' \in BOOLEAN
          /\ Placed' /\ Passed'
          /\ \A i, j \in DOMAIN log' : i < j => log'[i] < log'[j] /\ log'[j] < stop
          /\ \A x, y \in sources' : x.turn = y.turn /\ x.seq < y.seq => x.end <= y.start
          /\ playing' => sources' # {}
      BY <1>2, <2>1, <2>4, <2>5, ScheduleKeeps
    <2>9. PlayTypes'
      BY <1>1, <1>2, <2>1, <2>5, <2>7, <2>8 DEF PlayTypes
    <2>10. ChunksInOrder'
      BY <2>1, <2>6, <2>7, <2>8 DEF ChunksInOrder
    <2>11. SoundIsInterruptible'
      BY <1>2, <2>8 DEF SoundIsInterruptible
    <2> QED
      BY <2>8, <2>9, <2>10, <2>11 DEF PlayInv
  <1> QED
    BY <1>3, <1>4

\* A node's end: the last of them ends the playback and the flag.
LEMMA EndedKeeps ==
  ASSUME PlayInv, NEW src \in sources, Ended(src)
  PROVE  PlayInv'
  <1>1. /\ sources' \subseteq sources
        /\ UNCHANGED <<now, nextStart, startedTurn, pending, expected, fades, turn, log>>
    BY DEF Ended
  <1>2. SoundIsInterruptible' /\ playing' \in BOOLEAN /\ flagged' \in BOOLEAN
    <2>1. playing \in BOOLEAN /\ flagged \in BOOLEAN /\ flagged
      BY DEF PlayInv, PlayTypes, SoundIsInterruptible
    <2> DEFINE drained == sources' = {} /\ playing
    <2>2. playing' = (playing /\ ~drained) /\ flagged' = (flagged /\ ~drained)
      BY DEF Ended
    <2> QED
      BY <2>1, <2>2 DEF SoundIsInterruptible
  <1>3. PlayTypes' /\ Placed' /\ Passed' /\ ChunksInOrder'
    BY <1>1, <1>2 DEF PlayInv, PlayTypes, Placed, Passed, ChunksInOrder
  <1> QED
    BY <1>2, <1>3 DEF PlayInv

\* Stopping leaves nothing scheduled and nothing held back.
LEMMA StopsKeep ==
  ASSUME PlayInv, StopAll \/ (~playing /\ sources = {} /\ UNCHANGED <<sources, pending, playing, nextStart>>),
         flagged' \in BOOLEAN, fades' \in 0 .. 2,
         UNCHANGED <<now, startedTurn, expected, turn, log>>
  PROVE  PlayInv'
  <1>1. sources' = {} /\ playing' = FALSE /\ nextStart' \in Nat
        /\ (pending' = pending \/ pending' = {})
    BY DEF PlayInv, PlayTypes, StopAll
  <1>2. Cardinality({}) = 0 /\ IsFiniteSet({}) /\ 0 <= JitterWindow
    BY FS_EmptySet, PlayerAssumption
  <1>3. /\ IsFiniteSet(pending') /\ Cardinality(pending') <= JitterWindow /\ pending' \subseteq Nat
        /\ \A k \in pending' : k > expected
    BY <1>1, <1>2 DEF PlayInv, PlayTypes, ChunksInOrder
  <1>4. PlayTypes'
    BY <1>1, <1>3 DEF PlayInv, PlayTypes
  <1>5. Placed' /\ Passed' /\ ChunksInOrder' /\ SoundIsInterruptible'
    BY <1>1, <1>3 DEF PlayInv, Placed, Passed, ChunksInOrder, SoundIsInterruptible
  <1> QED
    BY <1>4, <1>5 DEF PlayInv

\* A barge-in stops what sounds at once, when its fade is over, or not at all.
LEMMA BargeInsKeep ==
  ASSUME PlayInv, BargeInHard \/ BargeInFade \/ FadeEnds
  PROVE  PlayInv'
  <1>0. fades \in 0 .. 2 /\ flagged \in BOOLEAN
    BY DEF PlayInv, PlayTypes
  <1>1. CASE BargeInHard
    BY <1>0, <1>1, StopsKeep DEF BargeInHard, HardStop
  <1>2. CASE BargeInFade /\ playing
    <2>1. fades' = fades + 1 /\ fades < 2
          /\ UNCHANGED <<sources, pending, playing, nextStart, flagged, now, startedTurn, expected,
                         turn, log>>
      BY <1>2 DEF BargeInFade
    <2> QED
      BY <1>0, <2>1 DEF PlayInv, PlayTypes, Placed, Passed, ChunksInOrder, SoundIsInterruptible
  <1>3. CASE BargeInFade /\ ~playing
    BY <1>0, <1>3, StopsKeep DEF BargeInFade, HardStop
  <1>4. CASE FadeEnds
    <2>1. fades' \in 0 .. 2 /\ flagged' = FALSE /\ StopAll
          /\ UNCHANGED <<now, startedTurn, expected, turn, log>>
      BY <1>0, <1>4 DEF FadeEnds
    <2> QED
      BY <2>1, StopsKeep
  <1> QED
    BY <1>1, <1>2, <1>3, <1>4

\* A turn begins over what still sounds of the one before.
LEMMA BeginPlaybackKeeps ==
  ASSUME PlayInv, BeginPlayback
  PROVE  PlayInv'
  <1>1. /\ turn' = turn + 1 /\ nextStart' = now /\ startedTurn' = FALSE
        /\ pending' = {} /\ expected' = 0 /\ log' = <<>>
        /\ UNCHANGED <<now, sources, playing, fades, flagged>>
    BY DEF BeginPlayback
  <1>2. Cardinality({}) = 0 /\ IsFiniteSet({}) /\ 0 <= JitterWindow
    BY FS_EmptySet, PlayerAssumption
  <1>3. PlayTypes'
    <2>1. <<>> \in Seq(Nat) /\ turn + 1 \in Nat
      BY DEF PlayInv, PlayTypes
    <2> QED
      BY <1>1, <1>2, <2>1 DEF PlayInv, PlayTypes
  <1>4. Placed'
    <2>1. ASSUME NEW a \in sources PROVE a.turn <= turn + 1 /\ a.turn # turn + 1
      <3>1. a.turn \in Nat /\ a.turn <= turn /\ turn \in Nat
        BY DEF PlayInv, PlayTypes, Placed, Node
      <3> QED
        BY <3>1
    <2> QED
      BY <1>1, <2>1 DEF Placed
  <1>5. Passed' /\ ChunksInOrder' /\ SoundIsInterruptible'
    BY <1>1, <1>2 DEF PlayInv, Passed, ChunksInOrder, SoundIsInterruptible
  <1> QED
    BY <1>3, <1>4, <1>5 DEF PlayInv

\* A player that was never used schedules nothing.
LEMMA PlayInitKeeps == PlayInit => PlayInv
  <1>1. Cardinality({}) = 0 /\ IsFiniteSet({}) /\ 0 <= JitterWindow
    BY FS_EmptySet, PlayerAssumption
  <1> SUFFICES ASSUME PlayInit PROVE PlayInv
    OBVIOUS
  <1>2. <<>> \in Seq(Nat)
    OBVIOUS
  <1>3. PlayTypes
    <2>1. /\ sources \subseteq Node /\ pending \subseteq Nat /\ IsFiniteSet(pending)
          /\ log \in Seq(Nat) /\ fades \in 0 .. 2
      BY <1>1, <1>2 DEF PlayInit
    <2> QED
      BY <2>1 DEF PlayInit, PlayTypes
  <1>4. Placed /\ Passed /\ ChunksInOrder /\ SoundIsInterruptible
    BY <1>1 DEF PlayInit, Placed, Passed, ChunksInOrder, SoundIsInterruptible
  <1> QED
    BY <1>3, <1>4 DEF PlayInv

\* Every step of the player keeps its invariant.
LEMMA PlayNextKeeps == PlayInv /\ [PlayNext]_playVars => PlayInv'
  <1> SUFFICES ASSUME PlayInv, [PlayNext]_playVars PROVE PlayInv'
    OBVIOUS
  <1>1. CASE PlayNext
    <2>1. CASE AudioClock
      <3>1. now' = now + 1
            /\ UNCHANGED <<nextStart, sources, playing, startedTurn, pending, expected, fades,
                           flagged, turn, log>>
        BY <2>1 DEF AudioClock
      <3> QED
        BY <3>1 DEF PlayInv, PlayTypes, Placed, Passed, ChunksInOrder, SoundIsInterruptible
    <2> QED
      BY <1>1, <2>1, InboundKeeps, EndedKeeps, BargeInsKeep, BeginPlaybackKeeps DEF PlayNext
  <1>2. CASE UNCHANGED playVars
    BY <1>2 DEF playVars, PlayInv, PlayTypes, Placed, Passed, ChunksInOrder, SoundIsInterruptible
  <1> QED
    BY <1>1, <1>2

\* Chunks are scheduled in order, none twice and never two at a time, what is held back
\* fits the window, and whatever sounds can be barged in on, for any numbers of chunks
\* and any window (stream_player.ts, session.ts:323).
THEOREM PlaybackKeepsOrder == PlaySpec => []PlaybackIsSound
  <1>1. PlayInv => PlaybackIsSound
    BY DEF PlayInv, PlaybackIsSound
  <1> QED
    BY <1>1, PlayInitKeeps, PlayNextKeeps, PTL DEF PlaySpec
================================================================================
