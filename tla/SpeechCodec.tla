------------------------------ MODULE SpeechCodec ------------------------------
(* The codec of the speech-native stack (speech/codec): blocks of samples, and  *)
(* the stream of token packets over a network.                                  *)
EXTENDS Integers, Sequences, SequencesExt, FiniteSets

-----------------------------------------------------------------------------
(***************************************************************************)
(* speech/codec/mimi_bridge.py: encode() re-blocks frames of any length    *)
(* (already at the codec's rate) into chunks of frame_size samples.        *)
(***************************************************************************)

CONSTANTS
  FrameSize,     \* frame_size
  FrameLengths,  \* samples of an input frame
  MaxSamples     \* bound on the stream's samples

ASSUME BlockAssumption == FrameSize \in Nat \ {0} /\ FrameLengths \subseteq Nat /\ MaxSamples \in Nat

VARIABLES carry, sawFinal, blocks, total, ended

blkVars == <<carry, sawFinal, blocks, total, ended>>

Block(len, final) == [len |-> len, final |-> final]

BlkInit == carry = 0 /\ sawFinal = FALSE /\ blocks = <<>> /\ total = 0 /\ ended = FALSE

(* A mutation: what does not fill a block is dropped with its frame. *)
EncodeWholeBlocks(len, final) ==
  /\ ~ended
  /\ total + len <= MaxSamples
  /\ blocks' = blocks \o [i \in 1 .. (carry + len) \div FrameSize |-> Block(FrameSize, FALSE)]
  /\ carry' = 0
  /\ sawFinal' = (sawFinal \/ final)
  /\ total' = total + len
  /\ UNCHANGED ended

(* One frame is added to the carry; every full block of it is encoded. *)
EncodeFrame(len, final) ==
  /\ ~ended
  /\ total + len <= MaxSamples
  /\ LET have == carry + len IN
     /\ blocks' = blocks \o [i \in 1 .. have \div FrameSize |-> Block(FrameSize, FALSE)]
     /\ carry' = have % FrameSize
  /\ sawFinal' = (sawFinal \/ final)
  /\ total' = total + len
  /\ UNCHANGED ended

(* The rest, padded, is the final block; a final frame has one in any case. *)
FlushRest ==
  /\ ~ended
  /\ ended' = TRUE
  /\ carry' = 0
  /\ blocks' = IF carry > 0 THEN Append(blocks, Block(FrameSize, TRUE))
               ELSE IF sawFinal THEN Append(blocks, Block(0, TRUE)) ELSE blocks
  /\ UNCHANGED <<sawFinal, total>>

BlkNext == FlushRest \/ \E len \in FrameLengths, final \in BOOLEAN : EncodeFrame(len, final)

BlkSpec == BlkInit /\ [][BlkNext]_blkVars

-----------------------------------------------------------------------------

(* What the chunks of a stream are by its samples alone. *)
ChunksOf(samples, final) ==
  LET full == samples \div FrameSize
      rest == samples % FrameSize
      n == full + (IF rest > 0 \/ final THEN 1 ELSE 0)
  IN  [i \in 1 .. n |-> IF i <= full THEN Block(FrameSize, FALSE)
                         ELSE Block(IF rest > 0 THEN FrameSize ELSE 0, TRUE)]

(* Chunk boundaries are independent of the caller's framing                *)
(* (mimi_bridge.py:204), and no sample is left behind.                     *)
BoundariesIgnoreFraming ==
  IF ended THEN blocks = ChunksOf(total, sawFinal)
  ELSE blocks = SubSeq(ChunksOf(total, FALSE), 1, total \div FrameSize)

-----------------------------------------------------------------------------
(***************************************************************************)
(* speech/codec/token_stream.py: a bounded asyncio queue of packets with a *)
(* producer, a consumer and cancel(), which may come at any time.  put and *)
(* get race the queue against the cancel event (_race_cancel): the queue's *)
(* own task and the caller that waits for it are steps of their own, so a  *)
(* packet may have entered or left the queue although its caller has not   *)
(* yet come to count it.                                                   *)
(***************************************************************************)

CONSTANTS
  Packets,   \* packets the producer means to send
  MaxSize    \* maxsize of the queue

ASSUME TokenAssumption == Packets \in Nat /\ MaxSize \in Nat \ {0}

None == 0    \* the end-of-stream sentinel

VARIABLES
  queue,     \* asyncio.Queue: packet numbers, or None
  producer,  \* pc, the item of the put that is under way, and that task's progress
  consumer,
  halted,    \* the cancel event
  closed,    \* _closed
  counts     \* produced, consumed, dropped

tokVars == <<queue, producer, consumer, halted, closed, counts>>

(* A race: its queue task has not run yet, is blocked, or is done. *)
Fresh == "fresh"
Blocked == "blocked"
Done == "done"

TokInit ==
  /\ queue = <<>>
  /\ producer = [pc |-> "idle", item |-> None, task |-> Done, next |-> 1]
  /\ consumer = [pc |-> "idle", item |-> None, task |-> Done, got |-> <<>>]
  /\ halted = FALSE
  /\ closed = FALSE
  /\ counts = [produced |-> 0, consumed |-> 0, dropped |-> 0]

(* put(): refused on a cancelled stream, otherwise a race for the queue.    *)
PutStart(final) ==
  /\ producer.pc = "idle" /\ ~closed
  /\ producer.next <= Packets
  /\ final => producer.next = Packets
  /\ producer' = IF halted THEN [producer EXCEPT !.pc = "stopped"]
                 ELSE [producer EXCEPT !.pc = IF final THEN "putFinal" ELSE "put",
                                       !.item = producer.next, !.task = Fresh,
                                       !.next = @ + 1]
  /\ UNCHANGED <<queue, consumer, halted, closed, counts>>

(* A mutation: close() only notes that the stream is closed. *)
CloseSilently ==
  /\ producer.pc = "idle"
  /\ producer.next > Packets
  /\ closed' = TRUE
  /\ producer' = [producer EXCEPT !.pc = "stopped"]
  /\ UNCHANGED <<queue, consumer, halted, counts>>

(* close() puts the sentinel, unless the stream is over already. *)
CloseStart ==
  /\ producer.pc = "idle"
  /\ producer.next > Packets
  /\ IF closed \/ halted
     THEN producer' = [producer EXCEPT !.pc = "stopped"] /\ UNCHANGED closed
     ELSE /\ producer' = [producer EXCEPT !.pc = "putEnd", !.item = None, !.task = Fresh]
          /\ closed' = TRUE
  /\ UNCHANGED <<queue, consumer, halted, counts>>

(* The put task: it enters the queue or waits for room. *)
PutTask ==
  /\ producer.task \in {Fresh, Blocked}
  /\ IF Len(queue) < MaxSize
     THEN /\ queue' = Append(queue, producer.item)
          /\ producer' = [producer EXCEPT !.task = Done]
     ELSE /\ producer.task = Fresh
          /\ producer' = [producer EXCEPT !.task = Blocked]
          /\ UNCHANGED queue
  /\ UNCHANGED <<consumer, halted, closed, counts>>

(* The caller of a race comes back when its task is done or, once the task *)
(* has had its first try, when the stream is cancelled.                    *)
Returns(side) == side.task = Done
Aborts(side) == halted /\ side.task = Blocked

PutReturns ==
  /\ producer.pc \in {"put", "putFinal", "putEnd"}
  /\ \/ /\ Returns(producer)
        /\ counts' = IF producer.pc = "putEnd" THEN counts
                     ELSE [counts EXCEPT !.produced = @ + 1]
        /\ closed' = (closed \/ producer.pc = "putFinal")
        /\ producer' = CASE producer.pc = "put" -> [producer EXCEPT !.pc = "idle", !.item = None]
                         [] producer.pc = "putFinal" ->
                              [producer EXCEPT !.pc = "putEnd", !.item = None, !.task = Fresh]
                         [] producer.pc = "putEnd" -> [producer EXCEPT !.pc = "stopped"]
     \/ /\ Aborts(producer)
        /\ producer' = [producer EXCEPT !.pc = "stopped", !.item = None, !.task = Done]
        /\ UNCHANGED <<counts, closed>>
  /\ UNCHANGED <<queue, consumer, halted>>

(* get(): raises on a cancelled and empty stream. *)
GetStart ==
  /\ consumer.pc = "idle"
  /\ consumer' = IF halted /\ queue = <<>> THEN [consumer EXCEPT !.pc = "stopped"]
                 ELSE [consumer EXCEPT !.pc = "get", !.task = Fresh]
  /\ UNCHANGED <<queue, producer, halted, closed, counts>>

GetTask ==
  /\ consumer.task \in {Fresh, Blocked}
  /\ IF queue # <<>>
     THEN /\ consumer' = [consumer EXCEPT !.task = Done, !.item = Head(queue)]
          /\ queue' = Tail(queue)
     ELSE /\ consumer.task = Fresh
          /\ consumer' = [consumer EXCEPT !.task = Blocked]
          /\ UNCHANGED queue
  /\ UNCHANGED <<producer, halted, closed, counts>>

(* The iteration ends with the sentinel or with StreamCancelled. *)
GetReturns ==
  /\ consumer.pc = "get"
  /\ \/ /\ Returns(consumer)
        /\ IF consumer.item = None
           THEN consumer' = [consumer EXCEPT !.pc = "stopped"] /\ UNCHANGED counts
           ELSE /\ consumer' = [consumer EXCEPT !.pc = "idle", !.item = None,
                                                !.got = Append(@, consumer.item)]
                /\ counts' = [counts EXCEPT !.consumed = @ + 1]
     \/ /\ Aborts(consumer)
        /\ consumer' = [consumer EXCEPT !.pc = "stopped", !.task = Done]
        /\ UNCHANGED counts
  /\ UNCHANGED <<queue, producer, halted, closed>>

Buffered(q) == Cardinality({i \in 1 .. Len(q) : q[i] # None})

(* A mutation: what is drained is not counted. *)
CancelUncounted ==
  /\ ~halted
  /\ halted' = TRUE
  /\ queue' = <<None>>
  /\ UNCHANGED <<producer, consumer, closed, counts>>

(* cancel() drains the queue and leaves a sentinel for a parked consumer.  *)
CancelStream ==
  /\ ~halted
  /\ halted' = TRUE
  /\ counts' = [counts EXCEPT !.dropped = @ + Buffered(queue)]
  /\ queue' = <<None>>
  /\ UNCHANGED <<producer, consumer, closed>>

TokNext ==
  \/ \E final \in BOOLEAN : PutStart(final)
  \/ CloseStart \/ PutTask \/ PutReturns \/ GetStart \/ GetTask \/ GetReturns
  \/ CancelStream

(* The event loop runs every task that can go on, the producer goes on     *)
(* sending and the consumer asking.                                        *)
TokFairness ==
  /\ WF_tokVars(\/ \E final \in BOOLEAN : PutStart(final)
                \/ CloseStart \/ PutTask \/ PutReturns)
  /\ WF_tokVars(GetStart \/ GetTask \/ GetReturns)

TokSpec == TokInit /\ [][TokNext]_tokVars /\ TokFairness

-----------------------------------------------------------------------------

(* Packets between a task that is done and the caller that counts them.     *)
Entered == IF producer.pc \in {"put", "putFinal"} /\ Returns(producer) THEN 1 ELSE 0
Taken == IF consumer.pc = "get" /\ Returns(consumer) /\ consumer.item # None THEN 1 ELSE 0

(* A packet is counted once wherever it is: every packet that entered the  *)
(* queue was consumed, dropped by cancel() or is still buffered, also when *)
(* cancel() runs between a task that is done and the caller that counts it.*)
PacketsAddUp ==
  counts.produced + Entered = counts.consumed + Taken + counts.dropped + Buffered(queue)

(* The consumer gets the packets in order and without a gap, and an        *)
(* iteration that ends on a stream nobody cancelled has got all of them.   *)
InOrderToTheEnd ==
  /\ consumer.got = [i \in 1 .. Len(consumer.got) |-> i]
  /\ consumer.pc = "stopped" /\ ~halted => Len(consumer.got) = Packets

StreamIsSound == PacketsAddUp /\ InOrderToTheEnd

(* What the consumer of a token stream gets, and what the codec makes of   *)
(* frames of any length, is all of the audio, once and in order.           *)
AudioIsComplete == StreamIsSound /\ BoundariesIgnoreFraming

(* Neither side hangs: the stream's end reaches a parked consumer, room    *)
(* reaches a blocked producer, and cancel() releases both                  *)
(* (token_stream.py:226), whenever it comes.                               *)
NobodyHangs == <>(producer.pc = "stopped" /\ consumer.pc = "stopped")
=============================================================================
