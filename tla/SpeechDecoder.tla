------------------------------ MODULE SpeechDecoder ------------------------------
(* The decoder (speech/decoder): its waveform joiner by numbers of samples, then *)
(* the decoder of one session's streams.                                        *)
EXTENDS Integers, SpeechRuntime

-----------------------------------------------------------------------------
(***************************************************************************)
(* speech/decoder/waveform.py by its numbers of samples: what one chunk    *)
(* makes playable and what is held back to be blended with the next one.   *)
(***************************************************************************)

CONSTANT Crossfade  \* crossfade_samples, at least 1

(* equal_power_crossfade: the overlap is shared, unless a side is too short. *)
Joined(tail, len) ==
  IF tail < Crossfade \/ len < Crossfade THEN tail + len ELSE tail + len - Crossfade

SplitTail(len) ==
  IF len <= Crossfade THEN [playable |-> 0, tail |-> len]
                      ELSE [playable |-> len - Crossfade, tail |-> Crossfade]

(* push(): what may be played at once, and the new tail. *)
Push(tail, len, final) ==
  LET cut == SplitTail(IF tail = 0 THEN len ELSE Joined(tail, len))
  IN  IF final THEN [playable |-> cut.playable + cut.tail, tail |-> 0] ELSE cut

-----------------------------------------------------------------------------
(***************************************************************************)
(* The runtime's reply played through speech/decoder/service.py: one       *)
(* stream_decode() per reply, all on one decoder with one interruption     *)
(* controller, and a barge-in that cancels the turn and interrupts the     *)
(* decoder.  The decoder is the consumer of the runtime's generator.       *)
(***************************************************************************)

CONSTANT ChunkLengths   \* samples a reply chunk decodes to

ASSUME DecoderAssumption == Crossfade \in Nat \ {0} /\ ChunkLengths \subseteq Nat

VARIABLES
  interrupted,  \* PlaybackInterruptionController._interrupted
  dec           \* the decode streams

dvars == <<interrupted, dec>>
allvars == <<vars, dvars>>

DecInit ==
  /\ Init
  /\ interrupted = FALSE
  /\ dec = [s \in Streams |-> [pc |-> "new", tail |-> 0, final |-> FALSE,
                               cut |-> FALSE, after |-> 0, revived |-> FALSE]]

Decoding(s) == dec[s].pc \in {"pull", "sleep", "playing"}

(* One more frame of s reaches the player. *)
Played(d) == IF d.cut THEN [d EXCEPT !.after = @ + 1] ELSE d

(* reset() at the start of a stream clears what another one was stopped by. *)
StartDecode(s) ==
  /\ dec[s].pc = "new"
  /\ interrupted' = FALSE
  /\ dec' = [r \in Streams |-> IF r = s THEN [dec[s] EXCEPT !.pc = "pull"]
                               ELSE IF Decoding(r) /\ dec[r].cut
                               THEN [dec[r] EXCEPT !.revived = TRUE] ELSE dec[r]]
  /\ UNCHANGED vars

Ingest(s) ==
  /\ dec[s].pc = "pull"
  /\ EndOfInput(s) \/ \E final \in BOOLEAN : Chunk(s, final)
  /\ UNCHANGED dvars

(* The generator's chunk arrives: the loop looks at the flag, then sleeps. *)
Receive(s) ==
  /\ dec[s].pc = "pull"
  /\ Emit(s)
  /\ dec' = IF gen'[s].pc # "yielded" THEN dec
            ELSE [dec EXCEPT ![s].pc = IF interrupted THEN "closed" ELSE "sleep"]
  /\ UNCHANGED interrupted

AskNext(s, d) ==
  /\ Pull(s)
  /\ dec' = [dec EXCEPT ![s] = [d EXCEPT !.pc = "pull"]]

(* After sleep(0) the chunk is joined; what is playable is played whether  *)
(* or not the decoder has been interrupted meanwhile.                      *)
Decode(s) ==
  /\ dec[s].pc = "sleep"
  /\ \E len \in ChunkLengths :
       LET final == gen[s].step = gen[s].n - 1
           joined == Push(dec[s].tail, len, final)
           d == [dec[s] EXCEPT !.tail = joined.tail, !.final = final]
       IN  IF joined.playable > 0
           THEN /\ dec' = [dec EXCEPT ![s] = [Played(d) EXCEPT !.pc = "playing"]]
                /\ UNCHANGED vars
           ELSE AskNext(s, d)
  /\ UNCHANGED interrupted

(* The player comes back for the next frame. *)
NextFrame(s) ==
  /\ dec[s].pc = "playing"
  /\ IF dec[s].final
     THEN dec' = [dec EXCEPT ![s].pc = "closed"] /\ UNCHANGED vars
     ELSE AskNext(s, dec[s])
  /\ UNCHANGED interrupted

(* A mutation: the tail is played, barge-in or not. *)
FlushAnyway(s) ==
  /\ dec[s].pc = "pull"
  /\ gen[s].pc = "done"
  /\ dec' = [dec EXCEPT ![s] = [Played(dec[s]) EXCEPT !.pc = "closed", !.tail = 0]]
  /\ UNCHANGED vars /\ UNCHANGED interrupted

(* The reply is over: an uninterrupted stream without a final chunk still  *)
(* plays its tail.                                                         *)
Flush(s) ==
  /\ dec[s].pc = "pull"
  /\ gen[s].pc = "done"
  /\ dec' = [dec EXCEPT ![s] =
               [(IF ~dec[s].final /\ ~interrupted /\ dec[s].tail > 0
                 THEN Played(dec[s]) ELSE dec[s]) EXCEPT !.pc = "closed", !.tail = 0]]
  /\ UNCHANGED vars /\ UNCHANGED interrupted

(* A generator whose decoder has stopped pulling is closed some time later. *)
Collect(s) ==
  /\ dec[s].pc = "closed"
  /\ Drop(s)
  /\ UNCHANGED dvars

Cancels(t) ==
  /\ CancelTurn(t) \/ Release(t) \/ Restart(t)
  /\ UNCHANGED dvars

Disconnect ==
  /\ CancelSession
  /\ UNCHANGED dvars

LoseInput(s) ==
  /\ dec[s].pc = "pull"
  /\ Abandon(s)
  /\ dec' = [dec EXCEPT ![s].pc = "closed"]
  /\ UNCHANGED interrupted

(* Barge-in over the turn that is played: cancel() and interrupt(). *)
BargeIn(s) ==
  /\ Decoding(s) /\ gen[s].turn # 0
  /\ CancelTurn(gen[s].turn)
  /\ interrupted' = TRUE
  /\ dec' = [dec EXCEPT ![s].cut = TRUE]

ReplyNext(s) ==
  \/ StartDecode(s) \/ Ingest(s) \/ Receive(s) \/ Decode(s) \/ NextFrame(s)
  \/ Flush(s) \/ Collect(s) \/ LoseInput(s) \/ BargeIn(s)

DecNext ==
  \/ \E s \in Streams : ReplyNext(s)
  \/ \E t \in Turns : Cancels(t)
  \/ Disconnect

ReplySpec == DecInit /\ [][DecNext]_allvars

-----------------------------------------------------------------------------

(* A turn that no other turn of its session overlapped is recorded as it   *)
(* was: the chunks that came in, the chunks its consumer got, that it      *)
(* ended, and that it was cancelled if the reply stopped short on its own. *)
(* The record is always the newest one (session_runtime.py:104), so this   *)
(* is all that can be relied on.                                           *)
LoneTurnIsRecorded ==
  \A s \in Streams, i \in DOMAIN sess.history :
    LET r == sess.history[i] IN
    s \notin overlapped /\ gen[s].turn = r.turn =>
      /\ r.in = gen[s].in
      /\ r.out = gen[s].heard
      /\ gen[s].pc = "done" =>
           r.ended /\ (gen[s].heard < gen[s].n /\ dec[s].pc # "closed" => r.cancelled)

(* Where an interrupted turn is said to have stopped is where its consumer *)
(* heard it stop, so a continuation repeats nothing and skips nothing.     *)
ContinuationIsHeard ==
  \A s \in Streams : gen[s].turn # 0 /\ Cancelled(gen[s].turn) =>
    Continuation(gen[s].turn) =
      [resumable |-> TRUE, heard |-> gen[s].heard, after |-> gen[s].heard - 1]

TurnsAreRecorded == LoneTurnIsRecorded /\ ContinuationIsHeard

(* Once a turn is cancelled its generator yields nothing more, whatever    *)
(* await the cancellation fell into (service.py:208-216).                  *)
SilentOnceCancelled ==
  [][\A s \in Streams : gen[s].turn # 0 /\ Cancelled(gen[s].turn) =>
       gen'[s].heard = gen[s].heard]_allvars

(* A barge-in cuts the reply off: at most the frame that is being decoded  *)
(* is still played, and a held-back tail only if another stream's start    *)
(* has reset the shared controller.                                        *)
BargeInCutsOff == \A s \in Streams : dec[s].after <= IF dec[s].revived THEN 2 ELSE 1
=============================================================================
