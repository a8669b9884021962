---- MODULE StreamPlayer ----
(***************************************************************************)
(* client/src/playback/stream_player.ts and the session's playing flag:    *)
(* chunks with numbers are put in order and scheduled one behind the other *)
(* on the audio clock; a turn may begin, playback fade or stop at any time.*)
(***************************************************************************)
EXTENDS Integers, Sequences, FiniteSets, FiniteSetsExt

CONSTANTS
  Seqs,          \* chunk numbers of a turn
  JitterWindow,  \* jitterWindow
  MaxTime,       \* bound on the clock
  MaxTurns       \* bound on beginTurn() calls

ASSUME PlayerAssumption == Seqs \subseteq Nat /\ JitterWindow \in Nat

VARIABLES
  now,        \* AudioContext.currentTime, in chunks
  nextStart,  \* nextStartTime
  sources,    \* scheduled and not ended: turn, number, start and end
  playing,    \* StreamPlayer.playing
  startedTurn,\* startedThisTurn
  pending,    \* numbers held back
  expected,   \* expectedSeq
  fades,      \* fadeOut() calls that wait
  flagged,    \* SoulYatriAudioSession.playing
  turn,       \* beginTurn() calls so far
  log         \* numbers scheduled in this turn, in order

playVars == <<now, nextStart, sources, playing, startedTurn, pending, expected, fades, flagged,
              turn, log>>

PlayInit ==
  /\ now = 0 /\ nextStart = 0
  /\ sources = {}
  /\ playing = FALSE /\ startedTurn = FALSE
  /\ pending = {} /\ expected = 0
  /\ fades = 0
  /\ flagged = FALSE
  /\ turn = 0
  /\ log = <<>>

(* The run of numbers that may be released from p once e is expected. *)
RunEnd(p, e) == Min({n \in e .. e + Cardinality(p) : n \notin p})

(* scheduleChunk for the numbers of a run, each right behind the last.     *)
Schedule(run) ==
  LET n == Cardinality(run)
      from == Max({nextStart, now})
      first == Min(run)
  IN  IF run = {} THEN UNCHANGED <<sources, nextStart, playing, startedTurn, log>>
      ELSE /\ sources' = sources \cup
                {[turn |-> turn, seq |-> s, start |-> from + s - first,
                  end |-> from + s - first + 1] : s \in run}
           /\ nextStart' = from + n
           /\ playing' = (playing \/ ~startedTurn)
           /\ startedTurn' = TRUE
           /\ log' = log \o [i \in 1 .. n |-> first + i - 1]

(* handleInbound and enqueue: a stale number is dropped, a full jitter     *)
(* window skips the gap.                                                   *)
Inbound(s) ==
  /\ flagged' = TRUE
  /\ IF s < expected
     THEN UNCHANGED <<sources, nextStart, playing, startedTurn, log, pending, expected>>
     ELSE LET held == pending \cup {s}
              start == IF Cardinality(held \ (expected .. RunEnd(held, expected) - 1)) > JitterWindow
                       THEN Min(held) ELSE expected
              stop == RunEnd(held, start)
          IN  /\ Schedule(start .. stop - 1)
              /\ pending' = held \ (start .. stop - 1)
              /\ expected' = stop
  /\ UNCHANGED <<now, fades, turn>>

(* A mutation: the end of a node is forgotten by the session's flag only. *)
EndedQuietly(src) ==
  /\ src.end <= now
  /\ sources' = sources \ {src}
  /\ flagged' = FALSE
  /\ playing' = (playing /\ sources' # {})
  /\ UNCHANGED <<now, nextStart, startedTurn, pending, expected, fades, turn, log>>

(* onended of a node whose time is over: the last one ends the playback.   *)
Ended(src) ==
  /\ src.end <= now
  /\ sources' = sources \ {src}
  /\ LET drained == sources' = {} /\ playing IN
     /\ playing' = (playing /\ ~drained)
     /\ flagged' = (flagged /\ ~drained)
  /\ UNCHANGED <<now, nextStart, startedTurn, pending, expected, fades, turn, log>>

StopAll ==
  /\ sources' = {} /\ pending' = {}
  /\ playing' = FALSE
  /\ nextStart' = now

HardStop ==
  IF ~playing /\ sources = {}
  THEN UNCHANGED <<sources, pending, playing, nextStart>>
  ELSE StopAll

(* bargeIn(): nothing to do unless the session believes it plays. *)
BargeInHard ==
  /\ flagged
  /\ HardStop
  /\ flagged' = FALSE
  /\ UNCHANGED <<now, startedTurn, expected, fades, turn, log>>

BargeInFade ==
  /\ flagged
  /\ fades < 2
  /\ IF playing
     THEN fades' = fades + 1 /\ UNCHANGED <<sources, pending, playing, nextStart, flagged>>
     ELSE HardStop /\ flagged' = FALSE /\ UNCHANGED fades
  /\ UNCHANGED <<now, startedTurn, expected, turn, log>>

(* The fade's time is over: it stops whatever is scheduled by then. *)
FadeEnds ==
  /\ fades > 0
  /\ fades' = fades - 1
  /\ StopAll
  /\ flagged' = FALSE
  /\ UNCHANGED <<now, startedTurn, expected, turn, log>>

BeginPlayback ==
  /\ turn < MaxTurns
  /\ turn' = turn + 1
  /\ nextStart' = now
  /\ startedTurn' = FALSE
  /\ pending' = {} /\ expected' = 0
  /\ log' = <<>>
  /\ UNCHANGED <<now, sources, playing, fades, flagged>>

AudioClock ==
  /\ now < MaxTime
  /\ now' = now + 1
  /\ UNCHANGED <<nextStart, sources, playing, startedTurn, pending, expected, fades, flagged, turn, log>>

PlayNext ==
  \/ \E s \in Seqs : Inbound(s)
  \/ \E src \in sources : Ended(src)
  \/ BargeInHard \/ BargeInFade \/ FadeEnds \/ BeginPlayback \/ AudioClock

PlaySpec == PlayInit /\ [][PlayNext]_playVars

-----------------------------------------------------------------------------

(* Within a turn chunks are scheduled in the order of their numbers, none  *)
(* twice, and never two at a time; what is held back waits behind a gap    *)
(* and fits the window.                                                    *)
ChunksInOrder ==
  /\ \A i, j \in DOMAIN log : i < j => log[i] < log[j] /\ log[j] < expected
  /\ \A a, b \in sources : a.turn = b.turn /\ a.seq < b.seq => a.end <= b.start
  /\ \A s \in pending : s > expected
  /\ Cardinality(pending) <= JitterWindow

(* The player claims to play only while something is scheduled, and while  *)
(* something is scheduled the session can be barged in on: bargeIn() does  *)
(* nothing unless its own flag is set (session.ts:323), which callbacks,   *)
(* fades and new chunks set and clear in any order.                        *)
SoundIsInterruptible ==
  /\ playing => sources # {}
  /\ sources # {} => flagged

PlaybackIsSound == ChunksInOrder /\ SoundIsInterruptible

====
