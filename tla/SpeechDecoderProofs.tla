------------------------- MODULE SpeechDecoderProofs -------------------------
(***************************************************************************)
(* A session's replies and their decoder for any number of streams, any    *)
(* number of chunks, any history and any lengths of samples: a barge-in    *)
(* cuts a reply off, a cancelled generator is silent, and the records say  *)
(* what was heard.                                                         *)
(***************************************************************************)
EXTENDS SpeechDecoder, SequenceTheorems, FiniteSetTheorems, TLAPS

-----------------------------------------------------------------------------
(* The inductive invariant *)

GenType == [pc : {"input", "asleep", "yielded", "done", "gone"}, given : {0} \cup Turns,
            turn : {0} \cup Turns, in : Nat, step : Nat, n : Nat, heard : Nat]

RecordType == [turn : Turns, in : Nat, out : Nat, ended : BOOLEAN, cancelled : BOOLEAN]

ControlType == [known : BOOLEAN, cancelled : BOOLEAN, emitted : Nat, last : Int]

DecType == [pc : {"new", "pull", "sleep", "playing", "closed"}, tail : 0 .. Crossfade,
            final : BOOLEAN, cut : BOOLEAN, after : Nat, revived : BOOLEAN]

SessType == {ss \in [counter : Nat, active : {0} \cup Turns, history : Seq(RecordType)] :
               Len(ss.history) <= History}

RunType(g, ss, ts, ov) ==
  /\ g \in [Streams -> GenType]
  /\ ss \in SessType
  /\ ts \in [Turns -> ControlType]
  /\ ov \subseteq Streams

TypeOK ==
  /\ RunType(gen, sess, turns, overlapped)
  /\ interrupted \in BOOLEAN
  /\ dec \in [Streams -> DecType]

\* A generator that has a turn and has not left it.
Live(x) == x.turn # 0 /\ x.pc \notin {"done", "gone"}

Speaking(g) == {s \in Streams : g[s].turn # 0}

\* Turns are numbered as they begin, unless the clients number them; either way
\* no two streams get the same one (session_runtime.py, begin_turn).
Numbered(g, counter) ==
  /\ counter = Cardinality(Speaking(g))
  /\ \/ \A s \in Streams : g[s].given = 0 /\ g[s].turn <= counter
     \/ /\ \A s \in Streams : g[s].given # 0 /\ g[s].turn \in {0, g[s].given}
        /\ \A r, s \in Streams : g[r].given = g[s].given => r = s
  /\ \A r, s \in Streams : g[r].turn = g[s].turn /\ g[s].turn # 0 => r = s

\* Where a generator stands tells how much its consumer has heard.
InStep(x) ==
  /\ x.turn = 0 => x.in = 0
  /\ x.pc = "input" => x.step = 0 /\ x.heard = 0
  /\ x.pc = "asleep" => x.step = x.heard /\ x.turn # 0
  /\ x.pc = "yielded" => x.step + 1 = x.heard /\ x.turn # 0

\* The control of a turn that has begun counts what its consumer has heard, and
\* is not forgotten before the turn is over.
Counts(x, ts) ==
  /\ Live(x) => ts[x.turn].known
  /\ x.turn # 0 /\ ts[x.turn].known => /\ ts[x.turn].emitted = x.heard
                                       /\ ts[x.turn].last = x.heard - 1

\* The generators with the session and the controls.
Runs(g, ss, ts, ov) ==
  /\ RunType(g, ss, ts, ov)
  /\ Numbered(g, ss.counter)
  /\ \A s \in Streams : InStep(g[s]) /\ Counts(g[s], ts)

\* A generator that will yield nothing more.
Stopped(x, ts) ==
  /\ x.turn # 0
  /\ x.pc \in {"done", "gone"} \/ (ts[x.turn].known /\ ts[x.turn].cancelled)

\* How far a decode stream has come since a barge-in cut it off.
CutOff(d, x, ts, i) ==
  /\ d.pc = "new" => ~d.cut
  /\ ~d.cut => d.after = 0
  /\ d.cut => Stopped(x, ts)
  /\ d.cut /\ d.pc = "sleep" => d.after = 0
  /\ d.pc \in {"playing", "pull"} => d.after <= 1
  /\ d.after <= (IF d.revived THEN 2 ELSE 1)
  /\ d.cut /\ ~d.revived /\ d.pc \in {"pull", "sleep", "playing"} => i

CutsHold == \A s \in Streams : CutOff(dec[s], gen[s], turns, interrupted)

\* A record that says what its turn's stream has done, for a stream whose decoder
\* has left it or not.
Fits(x, rec, left) ==
  /\ rec.in = x.in
  /\ rec.out = x.heard
  /\ x.pc = "done" => rec.ended /\ (x.heard < x.n /\ ~left => rec.cancelled)

\* The records of a session: the newest one is that of whoever is alone, and
\* while its turn is not overlapped nobody else is live.
Records(g, hist, ov, cl) ==
  /\ \A s \in Streams : g[s].turn # 0 => hist # <<>>
  /\ \A i \in 1 .. Len(hist) : \E s \in Streams : g[s].turn = hist[i].turn
  /\ \A i, j \in 1 .. Len(hist) : hist[i].turn = hist[j].turn => i = j
  /\ \A s \in Streams \ ov : Live(g[s]) => hist[Len(hist)].turn = g[s].turn
  /\ \A r \in Streams, s \in Streams \ ov :
       Live(g[r]) /\ g[s].turn # 0 /\ hist[Len(hist)].turn = g[s].turn => r = s
  /\ \A s \in Streams \ ov, i \in 1 .. Len(hist) :
       hist[i].turn = g[s].turn => Fits(g[s], hist[i], s \in cl)

Closed(d) == {s \in Streams : d[s].pc = "closed"}

IInv ==
  /\ TypeOK
  /\ Runs(gen, sess, turns, overlapped)
  /\ CutsHold
  /\ Records(gen, sess.history, overlapped, Closed(dec))

-----------------------------------------------------------------------------
(* Turn ids *)

\* There are finitely many streams, and one turn for each.
LEMMA TurnsOfStreams ==
  Cardinality(Streams) \in Nat /\ Turns = 1 .. Cardinality(Streams) /\ Turns \subseteq Nat \ {0}
  BY RuntimeAssumption, FS_CardinalityType DEF Turns

\* A generator that goes on under the same turn leaves the numbering as it is.
LEMMA NumberingKept ==
  ASSUME NEW g, NEW h, NEW counter,
         \A s \in Streams : h[s].turn = g[s].turn /\ h[s].given = g[s].given,
         Numbered(g, counter)
  PROVE  Numbered(h, counter)
  <1>1. Speaking(h) = Speaking(g)
    BY DEF Speaking
  <1> QED
    BY <1>1 DEF Numbered

\* The id of a turn that begins is a turn's, and no other stream's.
LEMMA FreshTurn ==
  ASSUME RunType(gen, sess, turns, overlapped), Numbered(gen, sess.counter), NEW s \in Streams, gen[s].turn = 0
  PROVE  /\ TurnIdFor(s) \in Turns
         /\ \A r \in Streams : gen[r].turn # TurnIdFor(s)
  <1>1. Speaking(gen) \subseteq Streams \ {s}
    BY DEF Speaking
  <1>2. /\ Cardinality(Streams \ {s}) = Cardinality(Streams) - 1
        /\ IsFiniteSet(Streams \ {s})
    BY RuntimeAssumption, FS_RemoveElement
  <1>3. Cardinality(Speaking(gen)) <= Cardinality(Streams) - 1
    BY <1>1, <1>2, FS_Subset
  <1>4. gen[s] \in GenType /\ sess.counter \in Nat
    BY DEF RunType, SessType
  <1>5. CASE \A r \in Streams : gen[r].given = 0 /\ gen[r].turn <= sess.counter
    <2>1. TurnIdFor(s) = sess.counter + 1
      BY <1>5 DEF TurnIdFor
    <2>2. sess.counter <= Cardinality(Streams) - 1
      BY <1>3 DEF Numbered
    <2>3. TurnIdFor(s) \in Turns
      BY <2>1, <2>2, <1>4, TurnsOfStreams
    <2>4. ASSUME NEW r \in Streams PROVE gen[r].turn # TurnIdFor(s)
      <3>1. gen[r] \in GenType /\ gen[r].turn <= sess.counter
        BY <1>5 DEF RunType
      <3>2. gen[r].turn \in Nat
        BY <3>1, TurnsOfStreams DEF GenType
      <3> QED
        BY <3>1, <3>2, <2>1, <1>4
    <2> QED
      BY <2>3, <2>4
  <1>6. CASE /\ \A r \in Streams : gen[r].given # 0 /\ gen[r].turn \in {0, gen[r].given}
             /\ \A q, r \in Streams : gen[q].given = gen[r].given => q = r
    <2>1. TurnIdFor(s) = gen[s].given
      BY <1>6 DEF TurnIdFor
    <2>2. gen[s].given \in Turns
      BY <1>4, <1>6 DEF GenType
    <2>3. ASSUME NEW r \in Streams PROVE gen[r].turn # gen[s].given
      BY <1>6
    <2> QED
      BY <2>1, <2>2, <2>3
  <1> QED
    BY <1>5, <1>6 DEF Numbered

\* A stream that begins its turn is one more of those that have one.
LEMMA NumberingBegins ==
  ASSUME RunType(gen, sess, turns, overlapped), Numbered(gen, sess.counter), NEW s \in Streams, gen[s].turn = 0,
         NEW h, h[s].turn = TurnIdFor(s), h[s].given = gen[s].given,
         \A r \in Streams \ {s} : h[r] = gen[r]
  PROVE  Numbered(h, sess.counter + 1)
  <1>1. TurnIdFor(s) \in Turns /\ \A r \in Streams : gen[r].turn # TurnIdFor(s)
    BY FreshTurn
  <1>2. TurnIdFor(s) # 0
    BY <1>1, TurnsOfStreams
  <1>3. Speaking(h) = Speaking(gen) \cup {s} /\ s \notin Speaking(gen)
    BY <1>2 DEF Speaking
  <1>4. IsFiniteSet(Speaking(gen))
    BY RuntimeAssumption, FS_Subset DEF Speaking
  <1>5. Cardinality(Speaking(h)) = Cardinality(Speaking(gen)) + 1
    BY <1>3, <1>4, FS_AddElement
  <1>6. sess.counter \in Nat
    BY DEF RunType, SessType
  <1>7. ASSUME NEW q \in Streams, NEW r \in Streams, h[q].turn = h[r].turn, h[r].turn # 0
        PROVE  q = r
    BY <1>1, <1>7 DEF Numbered
  <1>8. CASE \A r \in Streams : gen[r].given = 0 /\ gen[r].turn <= sess.counter
    <2>1. TurnIdFor(s) = sess.counter + 1
      BY <1>8 DEF TurnIdFor
    <2>2. ASSUME NEW r \in Streams PROVE h[r].given = 0 /\ h[r].turn <= sess.counter + 1
      <3>1. CASE r = s
        BY <3>1, <2>1, <1>6, <1>8
      <3>2. CASE r # s
        <4>1. h[r] = gen[r] /\ gen[r].turn <= sess.counter /\ gen[r].given = 0
          BY <3>2, <1>8
        <4>2. gen[r].turn \in Nat
          BY TurnsOfStreams DEF RunType, GenType
        <4> QED
          BY <4>1, <4>2, <1>6
      <3> QED
        BY <3>1, <3>2
    <2> QED
      BY <2>2, <1>5, <1>7, Zenon DEF Numbered
  <1>9. CASE /\ \A r \in Streams : gen[r].given # 0 /\ gen[r].turn \in {0, gen[r].given}
             /\ \A q, r \in Streams : gen[q].given = gen[r].given => q = r
    <2>1. TurnIdFor(s) = gen[s].given
      BY <1>9 DEF TurnIdFor
    <2>2. ASSUME NEW r \in Streams
          PROVE  h[r].given = gen[r].given /\ h[r].turn \in {0, h[r].given}
      BY <1>9, <2>1
    <2>3. /\ \A r \in Streams : h[r].given # 0 /\ h[r].turn \in {0, h[r].given}
          /\ \A q, r \in Streams : h[q].given = h[r].given => q = r
      BY <2>2, <1>9
    <2> QED
      BY <2>3, <1>5, <1>7, Zenon DEF Numbered
  <1> QED
    BY <1>8, <1>9 DEF Numbered

-----------------------------------------------------------------------------
(* Histories *)

\* A record of the history, and the newest one of a history that is not empty.
LEMMA RecordsOfHistory ==
  ASSUME NEW hist \in Seq(RecordType)
  PROVE  /\ Len(hist) \in Nat
         /\ \A i \in 1 .. Len(hist) : hist[i] \in RecordType
         /\ hist # <<>> <=> Len(hist) \in 1 .. Len(hist)
  <1>1. Len(hist) \in Nat /\ \A i \in 1 .. Len(hist) : hist[i] \in RecordType
    BY LenProperties, ElementOfSeq
  <1>2. hist # <<>> <=> Len(hist) # 0
    BY EmptySeq, LenProperties, SMT
  <1> QED
    BY <1>1, <1>2

\* What begin_turn leaves: the new record is the newest, the others are those the
\* deque still holds.
LEMMA BegunHistory ==
  ASSUME NEW ss \in SessType, NEW t \in Turns
  PROVE  LET b == BeginTurn(ss, t)
             rec == [turn |-> t, in |-> 0, out |-> 0, ended |-> FALSE, cancelled |-> FALSE]
         IN  /\ b \in SessType
             /\ b.counter = ss.counter + 1
             /\ b.history # <<>>
             /\ b.history[Len(b.history)] = rec
             /\ \E k \in {0, 1} : \A i \in 1 .. Len(b.history) - 1 :
                  i + k \in 1 .. Len(ss.history) /\ b.history[i] = ss.history[i + k]
  <1> DEFINE rec == [turn |-> t, in |-> 0, out |-> 0, ended |-> FALSE, cancelled |-> FALSE]
             h == ss.history
             all == Append(h, rec)
             new == IF Len(all) > History THEN Tail(all) ELSE all
             b == BeginTurn(ss, t)
  <1>1. rec \in RecordType
    BY DEF RecordType
  <1>2. h \in Seq(RecordType) /\ Len(h) \in Nat /\ Len(h) <= History /\ ss.counter \in Nat
    BY LenProperties DEF SessType
  <1> HIDE DEF rec, h
  <1>3. /\ all \in Seq(RecordType) /\ Len(all) = Len(h) + 1 /\ all[Len(h) + 1] = rec
        /\ \A i \in 1 .. Len(h) : all[i] = h[i]
    BY <1>1, <1>2, AppendProperties
  <1> HIDE DEF all
  <1>4. new \in Seq(RecordType) /\ new # <<>> /\ Len(new) <= History /\ new[Len(new)] = rec
        /\ \E k \in {0, 1} : \A i \in 1 .. Len(new) - 1 :
             i + k \in 1 .. Len(h) /\ new[i] = h[i + k]
    <2>1. CASE Len(all) > History
      <3>1. new = Tail(all)
        BY <2>1
      <3>2. all # <<>>
        BY <1>2, <1>3, EmptySeq
      <3>3. /\ Tail(all) \in Seq(RecordType) /\ Len(Tail(all)) = Len(all) - 1
            /\ \A i \in 1 .. Len(Tail(all)) : Tail(all)[i] = all[i + 1]
        BY <1>3, <3>2, HeadTailProperties, Zenon
      <3>4. Len(h) = History /\ Len(new) = History /\ History \in Nat \ {0}
        BY <2>1, <1>2, <1>3, <3>1, <3>3, RuntimeAssumption
      <3>5. new[Len(new)] = rec
        BY <3>1, <3>3, <3>4, <1>3
      <3>6. \A i \in 1 .. Len(new) - 1 : i + 1 \in 1 .. Len(h) /\ new[i] = h[i + 1]
        BY <3>1, <3>3, <3>4, <1>3
      <3>7. new # <<>>
        BY <3>1, <3>3, <3>4, EmptySeq
      <3>8. \E k \in {0, 1} : \A i \in 1 .. Len(new) - 1 :
               i + k \in 1 .. Len(h) /\ new[i] = h[i + k]
        BY <3>6, 1 \in {0, 1}
      <3>9. new \in Seq(RecordType) /\ Len(new) <= History
        <4> HIDE DEF new
        <4> QED
          BY <3>1, <3>3, <3>4
      <3> QED
        BY <3>5, <3>7, <3>8, <3>9
    <2>2. CASE ~(Len(all) > History)
      <3>1. new = all /\ all # <<>>
        BY <2>2, <1>2, <1>3, EmptySeq
      <3>2. \A i \in 1 .. Len(new) - 1 : i + 0 \in 1 .. Len(h) /\ new[i] = h[i + 0]
        BY <3>1, <1>2, <1>3
      <3>3. Len(new) <= History /\ new[Len(new)] = rec
        BY <3>1, <2>2, <1>2, <1>3, RuntimeAssumption
      <3> QED
        BY <3>1, <3>2, <3>3, <1>3
    <2> QED
      BY <2>1, <2>2
  <1> HIDE DEF new
  <1>5. b = [counter |-> ss.counter + 1, active |-> t, history |-> new]
    BY Zenon DEF BeginTurn, new, all, h, rec
  <1>6. b \in SessType
    BY <1>4, <1>5, <1>2 DEF SessType
  <1>7. b.counter = ss.counter + 1 /\ b.history = new
    BY <1>5
  <1> QED
    BY <1>4, <1>6, <1>7, Zenon DEF h, rec

\* Amending changes the newest record and nothing else.
LEMMA AmendedHistory ==
  ASSUME NEW hist \in Seq(RecordType), NEW rec \in RecordType
  PROVE  LET new == Amended(hist, rec)
         IN  /\ new \in Seq(RecordType)
             /\ Len(new) = Len(hist)
             /\ hist # <<>> => new # <<>> /\ new[Len(hist)] = rec
             /\ \A i \in 1 .. Len(hist) : i # Len(hist) => new[i] = hist[i]
  <1>1. CASE hist = <<>>
    BY <1>1 DEF Amended
  <1>2. CASE hist # <<>>
    <2>1. Amended(hist, rec) = [hist EXCEPT ![Len(hist)] = rec]
      BY <1>2 DEF Amended
    <2>2. Len(hist) \in 1 .. Len(hist)
      BY <1>2, RecordsOfHistory
    <2> DEFINE new == [hist EXCEPT ![Len(hist)] = rec]
    <2>3. /\ new \in Seq(RecordType) /\ Len(new) = Len(hist)
          /\ \A i \in 1 .. Len(hist) : new[i] = IF i = Len(hist) THEN rec ELSE hist[i]
      BY <2>2, ExceptSeq
    <2>4. new # <<>>
      BY <2>2, <2>3, EmptySeq
    <2> QED
      BY <2>1, <2>2, <2>3, <2>4, <1>2
  <1> QED
    BY <1>1, <1>2

-----------------------------------------------------------------------------
(* Records *)

\* A record is of a turn, and a generator with a record has begun.
LEMMA RecordsAreOfTurns ==
  ASSUME NEW hist \in Seq(RecordType), NEW i \in 1 .. Len(hist)
  PROVE  hist[i].turn \in Turns /\ hist[i].turn # 0
  BY RecordsOfHistory, TurnsOfStreams DEF RecordType

\* A turn that begins with nothing in its record: it is the newest one, and unless
\* it overlaps with another it is alone.
LEMMA RecordsBegin ==
  ASSUME NEW g \in [Streams -> GenType], NEW h \in [Streams -> GenType],
         NEW ss \in SessType, NEW t \in Turns, NEW ov, NEW ov2, NEW cl, NEW s \in Streams,
         Records(g, ss.history, ov, cl),
         g[s].turn = 0, \A r \in Streams : g[r].turn # t,
         h[s].turn = t, h[s].in = 0, h[s].heard = 0, h[s].pc # "done",
         \A r \in Streams \ {s} : h[r] = g[r],
         ov \subseteq ov2, s \notin ov2 => \A r \in Streams \ {s} : ~Live(g[r]),
         s \in ov2 => \A r \in Streams \ {s} : Live(g[r]) => r \in ov2
  PROVE  Records(h, BeginTurn(ss, t).history, ov2, cl)
  <1> DEFINE old == ss.history
             new == BeginTurn(ss, t).history
             rec == [turn |-> t, in |-> 0, out |-> 0, ended |-> FALSE, cancelled |-> FALSE]
  <1>1. /\ new \in Seq(RecordType) /\ new # <<>> /\ new[Len(new)] = rec
        /\ \E k \in {0, 1} : \A i \in 1 .. Len(new) - 1 :
             i + k \in 1 .. Len(old) /\ new[i] = old[i + k]
    BY BegunHistory DEF SessType
  <1>2. old \in Seq(RecordType)
    BY DEF SessType
  <1>3. t # 0
    BY TurnsOfStreams
  <1>4. rec.turn = t /\ Fits(h[s], rec, s \in cl)
    BY DEF Fits
  <1> HIDE DEF new, old, rec
  <1>5. PICK k \in {0, 1} : \A i \in 1 .. Len(new) - 1 :
               i + k \in 1 .. Len(old) /\ new[i] = old[i + k]
    BY <1>1
  <1>6. Len(new) \in Nat /\ Len(new) \in 1 .. Len(new) /\ Len(old) \in Nat
    BY <1>1, <1>2, RecordsOfHistory
  <1>7. /\ \A i \in 1 .. Len(old) : \E r \in Streams : g[r].turn = old[i].turn
        /\ \A i, j \in 1 .. Len(old) : old[i].turn = old[j].turn => i = j
        /\ \A r \in Streams \ ov, i \in 1 .. Len(old) :
             old[i].turn = g[r].turn => Fits(g[r], old[i], r \in cl)
    BY Zenon DEF Records, old
  <1>8. \A i \in 1 .. Len(old) : old[i].turn # t /\ old[i].turn # 0
    BY <1>7, <1>2, RecordsAreOfTurns
  <1>9. \A i \in 1 .. Len(new) : i = Len(new) \/ i \in 1 .. Len(new) - 1
    BY <1>6
  <1>10. \A i \in 1 .. Len(new) - 1 : i + k \in Int
    BY <1>5, <1>6
  <1>11. \A i \in 1 .. Len(new) : \E r \in Streams : h[r].turn = new[i].turn
    <2> SUFFICES ASSUME NEW i \in 1 .. Len(new)
                 PROVE  \E r \in Streams : h[r].turn = new[i].turn
      OBVIOUS
    <2>1. CASE i = Len(new)
      BY <2>1, <1>1, <1>4
    <2>2. CASE i \in 1 .. Len(new) - 1
      <3>1. new[i] = old[i + k] /\ i + k \in 1 .. Len(old)
        BY <2>2, <1>5
      <3>2. PICK r \in Streams : g[r].turn = old[i + k].turn
        BY <3>1, <1>7
      <3>3. r # s
        BY <3>1, <3>2, <1>8
      <3> QED
        BY <3>1, <3>2, <3>3
    <2> QED
      BY <2>1, <2>2, <1>9
  <1>12. \A i, j \in 1 .. Len(new) : new[i].turn = new[j].turn => i = j
    <2> SUFFICES ASSUME NEW i \in 1 .. Len(new), NEW j \in 1 .. Len(new),
                        new[i].turn = new[j].turn
                 PROVE  i = j
      OBVIOUS
    <2>1. CASE i = Len(new) /\ j \in 1 .. Len(new) - 1
      BY <2>1, <1>1, <1>4, <1>5, <1>8
    <2>2. CASE j = Len(new) /\ i \in 1 .. Len(new) - 1
      BY <2>2, <1>1, <1>4, <1>5, <1>8
    <2>3. CASE i \in 1 .. Len(new) - 1 /\ j \in 1 .. Len(new) - 1
      <3>1. i + k = j + k
        BY <2>3, <1>5, <1>7
      <3> QED
        BY <3>1, <2>3
    <2> QED
      BY <2>1, <2>2, <2>3, <1>9
  <1>13. ASSUME NEW r \in Streams \ ov2, Live(h[r])
         PROVE  r = s
    <2>1. CASE r # s /\ s \in ov2
      BY <2>1, <1>13
    <2>2. CASE r # s /\ s \notin ov2
      BY <2>2, <1>13
    <2> QED
      BY <2>1, <2>2
  <1>14. \A r \in Streams \ ov2 : Live(h[r]) => new[Len(new)].turn = h[r].turn
    BY <1>13, <1>1, <1>4
  <1>15. \A q \in Streams, r \in Streams \ ov2 :
           Live(h[q]) /\ h[r].turn # 0 /\ new[Len(new)].turn = h[r].turn => q = r
    <2> SUFFICES ASSUME NEW q \in Streams, NEW r \in Streams \ ov2, Live(h[q]),
                        new[Len(new)].turn = h[r].turn
                 PROVE  q = r
      OBVIOUS
    <2>1. r = s
      BY <1>1, <1>4
    <2>2. CASE q # s
      BY <2>1, <2>2
    <2> QED
      BY <2>1, <2>2
  <1>16. \A r \in Streams \ ov2, i \in 1 .. Len(new) :
           new[i].turn = h[r].turn => Fits(h[r], new[i], r \in cl)
    <2> SUFFICES ASSUME NEW r \in Streams \ ov2, NEW i \in 1 .. Len(new),
                        new[i].turn = h[r].turn
                 PROVE  Fits(h[r], new[i], r \in cl)
      OBVIOUS
    <2>1. CASE i = Len(new)
      <3>1. r = s
        BY <2>1, <1>1, <1>4
      <3> QED
        BY <3>1, <2>1, <1>1, <1>4
    <2>2. CASE i \in 1 .. Len(new) - 1
      <3>1. new[i] = old[i + k] /\ i + k \in 1 .. Len(old)
        BY <2>2, <1>5
      <3>2. r # s
        BY <3>1, <1>8
      <3>3. h[r] = g[r] /\ r \in Streams \ ov
        BY <3>2
      <3> QED
        BY <3>1, <3>3, <1>7
    <2> QED
      BY <2>1, <2>2, <1>9
  <1>17. \A r \in Streams : h[r].turn # 0 => new # <<>>
    BY <1>1
  <1>18. Records(h, new, ov2, cl)
    BY <1>11, <1>12, <1>14, <1>15, <1>16, <1>17, Zenon DEF Records
  <1> QED
    BY <1>18 DEF new

\* A live stream amends the newest record: its own, or that of a turn it overlaps.
LEMMA RecordsAmend ==
  ASSUME NEW g \in [Streams -> GenType], NEW h \in [Streams -> GenType],
         NEW hist \in Seq(RecordType), NEW rec \in RecordType, NEW ov, NEW cl,
         NEW s \in Streams,
         Records(g, hist, ov, cl), Live(g[s]),
         h[s].turn = g[s].turn, \A r \in Streams \ {s} : h[r] = g[r],
         rec.turn = hist[Len(hist)].turn,
         s \notin ov => Fits(h[s], rec, s \in cl)
  PROVE  Records(h, Amended(hist, rec), ov, cl)
  <1> DEFINE new == Amended(hist, rec)
  <1>1. g[s].turn # 0
    BY DEF Live
  <1>2. hist # <<>>
    BY <1>1 DEF Records
  <1>3. /\ new \in Seq(RecordType) /\ Len(new) = Len(hist) /\ new # <<>>
        /\ new[Len(hist)] = rec
        /\ \A i \in 1 .. Len(hist) : i # Len(hist) => new[i] = hist[i]
    BY <1>2, AmendedHistory
  <1>4. Len(hist) \in 1 .. Len(hist)
    BY <1>2, RecordsOfHistory
  <1> HIDE DEF new
  <1>5. \A i \in 1 .. Len(hist) : new[i].turn = hist[i].turn
    BY <1>3
  <1>6. \A r \in Streams : h[r].turn = g[r].turn /\ (Live(h[r]) => Live(g[r]))
    <2> TAKE r \in Streams
    <2> QED
      BY DEF Live
  <1>7. \A r \in Streams \ ov, i \in 1 .. Len(hist) :
          new[i].turn = h[r].turn => Fits(h[r], new[i], r \in cl)
    <2> SUFFICES ASSUME NEW r \in Streams \ ov, NEW i \in 1 .. Len(hist),
                        new[i].turn = h[r].turn
                 PROVE  Fits(h[r], new[i], r \in cl)
      OBVIOUS
    <2>1. hist[i].turn = g[r].turn
      BY <1>5, <1>6
    <2>2. CASE i = Len(hist)
      <3>1. g[r].turn # 0
        BY <2>1, RecordsAreOfTurns
      <3>2. r = s
        BY <2>1, <2>2, <3>1, Zenon DEF Records
      <3> QED
        BY <3>2, <2>2, <1>3
    <2>3. CASE i # Len(hist)
      <3>1. CASE r = s
        <4>1. hist[Len(hist)].turn = g[s].turn
          BY <3>1, Zenon DEF Records
        <4>2. \A a, b \in 1 .. Len(hist) : hist[a].turn = hist[b].turn => a = b
          BY Zenon DEF Records
        <4> QED
          BY <4>1, <4>2, <2>1, <2>3, <3>1, <1>4
      <3>2. CASE r # s
        <4>1. Fits(g[r], hist[i], r \in cl)
          BY <2>1, Zenon DEF Records
        <4> QED
          BY <4>1, <3>2, <2>3, <1>3
      <3> QED
        BY <3>1, <3>2
    <2> QED
      BY <2>2, <2>3
  <1>8. /\ \A i \in 1 .. Len(new) : \E r \in Streams : h[r].turn = new[i].turn
        /\ \A i, j \in 1 .. Len(new) : new[i].turn = new[j].turn => i = j
    BY <1>3, <1>5, <1>6 DEF Records
  <1>9. /\ \A r \in Streams \ ov : Live(h[r]) => new[Len(new)].turn = h[r].turn
        /\ \A q \in Streams, r \in Streams \ ov :
             Live(h[q]) /\ h[r].turn # 0 /\ new[Len(new)].turn = h[r].turn => q = r
    <2>1. new[Len(new)].turn = hist[Len(hist)].turn
      BY <1>3, <1>4, <1>5
    <2> QED
      BY <2>1, <1>6, Zenon DEF Records
  <1>10. Records(h, new, ov, cl)
    BY <1>3, <1>7, <1>8, <1>9, Zenon DEF Records
  <1> QED
    BY <1>10 DEF new

\* A stream moves without a record: nothing that its record says changes, or its
\* turn was overlapped.
LEMMA RecordsUnamended ==
  ASSUME NEW g \in [Streams -> GenType], NEW h \in [Streams -> GenType], NEW hist,
         NEW ov, NEW cl, NEW cl2, NEW s \in Streams,
         Records(g, hist, ov, cl), cl \subseteq cl2,
         h[s].turn = g[s].turn, \A r \in Streams \ {s} : h[r] = g[r],
         Live(h[s]) => Live(g[s]),
         \/ s \in ov
         \/ \A rec : Fits(g[s], rec, s \in cl) => Fits(h[s], rec, s \in cl2)
  PROVE  Records(h, hist, ov, cl2)
  <1>1. \A r \in Streams : h[r].turn = g[r].turn /\ (Live(h[r]) => Live(g[r]))
    <2> TAKE r \in Streams
    <2> QED
      BY Zenon
  <1>2. ASSUME NEW r \in Streams \ ov, NEW rec, Fits(g[r], rec, r \in cl)
        PROVE  Fits(h[r], rec, r \in cl2)
    <2>1. CASE r = s
      BY <2>1, <1>2
    <2>2. CASE r # s
      BY <2>2, <1>2 DEF Fits
    <2> QED
      BY <2>1, <2>2
  <1>3. \A r \in Streams : h[r].turn = g[r].turn
    BY <1>1
  <1>4. \A r \in Streams \ ov, i \in 1 .. Len(hist) :
          hist[i].turn = h[r].turn => Fits(h[r], hist[i], r \in cl2)
    BY <1>2, <1>3, Zenon DEF Records
  <1>5. /\ \A r \in Streams : h[r].turn # 0 => hist # <<>>
        /\ \A i \in 1 .. Len(hist) : \E r \in Streams : h[r].turn = hist[i].turn
        /\ \A i, j \in 1 .. Len(hist) : hist[i].turn = hist[j].turn => i = j
    BY <1>3 DEF Records
  <1>6. /\ \A r \in Streams \ ov : Live(h[r]) => hist[Len(hist)].turn = h[r].turn
        /\ \A q \in Streams, r \in Streams \ ov :
             Live(h[q]) /\ h[r].turn # 0 /\ hist[Len(hist)].turn = h[r].turn => q = r
    BY <1>1, Zenon DEF Records
  <1> QED
    BY <1>4, <1>5, <1>6, Zenon DEF Records

-----------------------------------------------------------------------------
(* What one step of a generator does to the session *)

\* A generator that had stopped has stopped afterwards too, and has said nothing.
Silent(x, ts, y, ts2) ==
  Stopped(x, ts) => /\ Stopped(y, ts2)
                    /\ y.heard = x.heard
                    /\ y.pc = "yielded" => x.pc = "yielded"

StoppedStay(g, ts, h, ts2) == \A r \in Streams : Silent(g[r], ts, h[r], ts2)

\* A session with another history, and a record with another field.
LEMMA SessionFields ==
  ASSUME NEW ss \in SessType, NEW hist, NEW a
  PROVE  /\ [ss EXCEPT !.history = hist]
             = [counter |-> ss.counter, active |-> ss.active, history |-> hist]
         /\ [ss EXCEPT !.history = hist, !.active = a]
             = [counter |-> ss.counter, active |-> a, history |-> hist]
  <1>1. ss \in [counter : Nat, active : {0} \cup Turns, history : Seq(RecordType)]
    BY DEF SessType
  <1>2. ss = [counter |-> ss.counter, active |-> ss.active, history |-> ss.history]
    BY <1>1
  <1> DEFINE c == ss.counter
             d == ss.active
             e == ss.history
  <1> HIDE DEF c, d, e
  <1>3. ss = [counter |-> c, active |-> d, history |-> e]
    BY <1>2 DEF c, d, e
  <1>4. [ss EXCEPT !.history = hist] = [counter |-> c, active |-> d, history |-> hist]
    BY <1>3
  <1>5. [ss EXCEPT !.history = hist, !.active = a] = [counter |-> c, active |-> a, history |-> hist]
    <2> DEFINE r == [counter |-> c, active |-> d, history |-> e]
    <2>1. /\ [r EXCEPT !.history = hist, !.active = a]
               = [x \in DOMAIN r |-> IF x = "active" THEN a ELSE IF x = "history" THEN hist
                                     ELSE r[x]]
      OBVIOUS
    <2>2. r.counter = c /\ DOMAIN r = {"counter", "active", "history"}
      OBVIOUS
    <2> HIDE DEF r
    <2>3. [r EXCEPT !.history = hist, !.active = a] = [counter |-> c, active |-> a, history |-> hist]
      BY <2>1, <2>2
    <2> QED
      BY <1>3, <2>3, Zenon DEF r
  <1> QED
    BY <1>4, <1>5 DEF c, d

\* Counting a chunk in or out, or ending a record, leaves a record of a turn.
LEMMA RecordFields ==
  ASSUME NEW rec \in RecordType, NEW c \in BOOLEAN
  PROVE  /\ [rec EXCEPT !.in = @ + 1] \in RecordType
         /\ [rec EXCEPT !.out = @ + 1] \in RecordType
         /\ [rec EXCEPT !.ended = TRUE, !.cancelled = c] \in RecordType
  <1>1. [rec EXCEPT !.in = @ + 1] \in RecordType /\ [rec EXCEPT !.out = @ + 1] \in RecordType
    BY DEF RecordType
  <1>2. [rec EXCEPT !.ended = TRUE, !.cancelled = c] \in RecordType
    BY DEF RecordType
  <1> QED
    BY <1>1, <1>2

\* Observing and ending a turn keep the records' number and types, and begin none.
LEMMA SessionKept ==
  ASSUME NEW ss \in SessType, ss.history # <<>>, NEW t \in Turns, NEW c \in BOOLEAN
  PROVE  LET new == ss.history[Len(ss.history)] IN
         /\ ObserveInput(ss) \in SessType /\ ObserveInput(ss).counter = ss.counter
         /\ ObserveInput(ss).history = Amended(ss.history, [new EXCEPT !.in = @ + 1])
         /\ ObserveOutput(ss) \in SessType /\ ObserveOutput(ss).counter = ss.counter
         /\ ObserveOutput(ss).history = Amended(ss.history, [new EXCEPT !.out = @ + 1])
         /\ EndTurn(ss, t, c) \in SessType /\ EndTurn(ss, t, c).counter = ss.counter
         /\ EndTurn(ss, t, c).history =
              (IF new.turn = t
               THEN Amended(ss.history, [new EXCEPT !.ended = TRUE, !.cancelled = c])
               ELSE ss.history)
  <1> DEFINE hist == ss.history
             new == hist[Len(hist)]
  <1>1. hist \in Seq(RecordType) /\ Len(hist) <= History /\ ss.counter \in Nat
        /\ ss.active \in {0} \cup Turns
    BY DEF SessType
  <1>2. new \in RecordType
    BY <1>1, RecordsOfHistory
  <1>3. /\ [new EXCEPT !.in = @ + 1] \in RecordType
        /\ [new EXCEPT !.out = @ + 1] \in RecordType
        /\ [new EXCEPT !.ended = TRUE, !.cancelled = c] \in RecordType
    BY <1>2, RecordFields
  <1>5. ASSUME NEW rec \in RecordType, NEW a \in {0} \cup Turns
        PROVE  [counter |-> ss.counter, active |-> a, history |-> Amended(hist, rec)] \in SessType
    <2>1. Amended(hist, rec) \in Seq(RecordType) /\ Len(Amended(hist, rec)) = Len(hist)
      BY <1>1, AmendedHistory
    <2> QED
      BY <2>1, <1>1 DEF SessType
  <1>6. ASSUME NEW a \in {0} \cup Turns
        PROVE  [counter |-> ss.counter, active |-> a, history |-> hist] \in SessType
    BY <1>1 DEF SessType
  <1>7. /\ ObserveInput(ss) = [counter |-> ss.counter, active |-> ss.active,
                               history |-> Amended(hist, [new EXCEPT !.in = @ + 1])]
        /\ ObserveOutput(ss) = [counter |-> ss.counter, active |-> ss.active,
                                history |-> Amended(hist, [new EXCEPT !.out = @ + 1])]
    <2> DEFINE i == Amended(hist, [new EXCEPT !.in = @ + 1])
               o == Amended(hist, [new EXCEPT !.out = @ + 1])
    <2>1. ObserveInput(ss) = [ss EXCEPT !.history = i]
      BY Zenon DEF ObserveInput
    <2>2. ObserveOutput(ss) = [ss EXCEPT !.history = o]
      BY Zenon DEF ObserveOutput
    <2> HIDE DEF i, o
    <2>3. ObserveInput(ss) = [counter |-> ss.counter, active |-> ss.active, history |-> i]
      BY <2>1, SessionFields, Zenon
    <2>4. ObserveOutput(ss) = [counter |-> ss.counter, active |-> ss.active, history |-> o]
      BY <2>2, SessionFields, Zenon
    <2> QED
      BY <2>3, <2>4, Zenon DEF i, o
  <1>8. PICK a \in {0} \cup Turns :
          EndTurn(ss, t, c) = [counter |-> ss.counter, active |-> a,
             history |-> IF new.turn = t
                         THEN Amended(hist, [new EXCEPT !.ended = TRUE, !.cancelled = c])
                         ELSE hist]
    <2> DEFINE e == IF hist # <<>> /\ new.turn = t
                    THEN Amended(hist, [new EXCEPT !.ended = TRUE, !.cancelled = c]) ELSE hist
               f == IF new.turn = t
                    THEN Amended(hist, [new EXCEPT !.ended = TRUE, !.cancelled = c]) ELSE hist
               a == IF ss.active = t THEN 0 ELSE ss.active
    <2>1. EndTurn(ss, t, c) = [ss EXCEPT !.history = e, !.active = a]
      BY DEF EndTurn
    <2>2. e = f
      BY Zenon
    <2>3. a \in {0} \cup Turns
      BY <1>1
    <2> HIDE DEF a, e, f
    <2>4. EndTurn(ss, t, c) = [counter |-> ss.counter, active |-> a, history |-> f]
      BY <2>1, <2>2, SessionFields, Zenon
    <2> QED
      BY <2>3, <2>4, Zenon DEF f
  <1> HIDE DEF hist, new
  <1>9. EndTurn(ss, t, c) \in SessType
    BY <1>3, <1>5, <1>6, <1>8
  <1>10. ObserveInput(ss) \in SessType /\ ObserveOutput(ss) \in SessType
    BY <1>1, <1>3, <1>5, <1>7
  <1> QED
    BY <1>7, <1>8, <1>9, <1>10 DEF hist, new

\* A generator that moves under its turn, with a control that fits it: the others'
\* controls are not touched.
LEMMA RunsOn ==
  ASSUME NEW g, NEW ss, NEW ts, NEW ov, Runs(g, ss, ts, ov), NEW s \in Streams,
         NEW h, NEW ss2, NEW ts2, RunType(h, ss2, ts2, ov), ss2.counter = ss.counter,
         g[s].turn # 0, h[s].turn = g[s].turn, h[s].given = g[s].given,
         \A r \in Streams \ {s} : h[r] = g[r],
         \A t \in Turns : t # g[s].turn => ts2[t] = ts[t],
         InStep(h[s]), Counts(h[s], ts2),
         Silent(g[s], ts, h[s], ts2)
  PROVE  Runs(h, ss2, ts2, ov) /\ StoppedStay(g, ts, h, ts2)
  <1>1. \A r \in Streams : h[r].turn = g[r].turn /\ h[r].given = g[r].given
    BY Zenon
  <1>2. Numbered(h, ss2.counter)
    BY <1>1, NumberingKept DEF Runs
  <1>3. ASSUME NEW r \in Streams \ {s}, g[r].turn # 0
        PROVE  ts2[g[r].turn] = ts[g[r].turn]
    <2>1. g[r].turn \in Turns
      BY <1>3 DEF Runs, RunType, GenType
    <2>2. g[r].turn # g[s].turn
      BY <1>3 DEF Runs, Numbered
    <2> QED
      BY <2>1, <2>2
  <1>4. ASSUME NEW r \in Streams
        PROVE  InStep(h[r]) /\ Counts(h[r], ts2) /\ Silent(g[r], ts, h[r], ts2)
    <2>1. CASE r = s
      BY <2>1
    <2>2. CASE r # s
      <3>1. h[r] = g[r] /\ InStep(g[r]) /\ Counts(g[r], ts)
        BY <2>2, Zenon DEF Runs
      <3>2. Counts(g[r], ts2) /\ Silent(g[r], ts, g[r], ts2)
        BY <3>1, <2>2, <1>3 DEF Counts, Silent, Stopped, Live
      <3> QED
        BY <3>1, <3>2
    <2> QED
      BY <2>1, <2>2
  <1> QED
    BY <1>2, <1>4, Zenon DEF Runs, StoppedStay

-----------------------------------------------------------------------------
(* The elementary steps of a generator *)

\* A control as it is when its turn begins.
LEMMA ControlTypes ==
  /\ NewControl \in ControlType /\ NoControl \in ControlType
  /\ NewControl.known /\ ~NewControl.cancelled /\ ~NoControl.known
  /\ NewControl.emitted = 0 /\ NewControl.last = 0 - 1
  <1>1. -1 \in Int /\ -1 = 0 - 1
    OBVIOUS
  <1>2. NewControl \in ControlType /\ NewControl.known /\ ~NewControl.cancelled
        /\ NewControl.emitted = 0 /\ NewControl.last = -1
    BY <1>1, Zenon DEF NewControl, ControlType
  <1>3. NoControl \in ControlType /\ ~NoControl.known
    BY <1>2 DEF NoControl, ControlType
  <1> QED
    BY <1>1, <1>2, <1>3

\* The turn begins and is registered.
LEMMA TurnBegins ==
  ASSUME Runs(gen, sess, turns, overlapped), NEW cl,
         Records(gen, sess.history, overlapped, cl),
         NEW s \in Streams, gen[s].pc = "input", gen[s].turn = 0, Overlap(s)
  PROVE  LET t == TurnIdFor(s)
             g == Started(s)
             ss == BeginTurn(sess, t)
             ts == [turns EXCEPT ![t] = NewControl]
         IN  /\ Runs(g, ss, ts, overlapped')
             /\ Records(g, ss.history, overlapped', cl)
             /\ StoppedStay(gen, turns, g, ts)
             /\ g[s].turn = t /\ t # 0 /\ g[s].pc = "input" /\ ~ts[t].cancelled
  <1> DEFINE t == TurnIdFor(s)
             g == Started(s)
             ss == BeginTurn(sess, t)
             ts == [turns EXCEPT ![t] = NewControl]
             running == {r \in Streams \ {s} : Begun(r)}
  <1>1. RunType(gen, sess, turns, overlapped) /\ Numbered(gen, sess.counter)
    BY DEF Runs
  <1>2. t \in Turns /\ t # 0 /\ \A r \in Streams : gen[r].turn # t
    BY <1>1, FreshTurn, TurnsOfStreams
  <1> HIDE DEF t
  <1>3. gen[s] \in GenType
    BY <1>1 DEF RunType
  <1>4. [gen[s] EXCEPT !.turn = t] \in GenType
    BY <1>2, <1>3 DEF GenType
  <1>5. g = [gen EXCEPT ![s] = [gen[s] EXCEPT !.turn = t]]
    BY Zenon DEF Started, t
  <1>6. g \in [Streams -> GenType] /\ gen \in [Streams -> GenType]
    BY <1>1, <1>4, <1>5 DEF RunType
  <1>7. g[s] = [gen[s] EXCEPT !.turn = t] /\ \A r \in Streams \ {s} : g[r] = gen[r]
    BY <1>1, <1>5 DEF RunType
  <1> HIDE DEF g
  <1>8. InStep(gen[s])
    BY DEF Runs
  <1>9. /\ g[s].turn = t /\ g[s].given = gen[s].given /\ g[s].pc = "input"
        /\ g[s].in = 0 /\ g[s].heard = 0 /\ g[s].step = 0
    BY <1>3, <1>7, <1>8 DEF GenType, InStep
  <1>10. ss \in SessType /\ ss.counter = sess.counter + 1
    BY <1>1, <1>2, BegunHistory DEF RunType
  <1>11. ts \in [Turns -> ControlType] /\ ts[t] = NewControl
         /\ \A u \in Turns \ {t} : ts[u] = turns[u]
    BY <1>1, <1>2, ControlTypes DEF RunType
  <1> HIDE DEF ts, ss
  <1>12. Numbered(g, ss.counter)
    <2>1. Numbered(g, sess.counter + 1)
      BY <1>1, <1>7, <1>9, NumberingBegins, Zenon DEF t
    <2> QED
      BY <2>1, <1>10
  <1>13. running \subseteq Streams /\ \A r \in Streams \ {s} : Live(gen[r]) <=> r \in running
    BY DEF Begun, Live
  <1>14. overlapped' = IF running = {} THEN overlapped ELSE overlapped \cup running \cup {s}
    BY Zenon DEF Overlap
  <1> HIDE DEF running
  <1>15. overlapped' \subseteq Streams /\ overlapped \subseteq overlapped'
    BY <1>1, <1>13, <1>14 DEF RunType
  <1>16. s \notin overlapped' => \A r \in Streams \ {s} : ~Live(gen[r])
    BY <1>13, <1>14
  <1>17. s \in overlapped' => \A r \in Streams \ {s} : Live(gen[r]) => r \in overlapped'
    BY <1>13, <1>14
  <1>18. Records(g, ss.history, overlapped', cl)
    <2>1. sess \in SessType /\ g[s].pc # "done"
      BY <1>1, <1>9 DEF RunType
    <2> QED
      BY <2>1, <1>2, <1>6, <1>7, <1>9, <1>15, <1>16, <1>17, RecordsBegin, ZenonT(90) DEF ss
  <1>19. ASSUME NEW r \in Streams
         PROVE  InStep(g[r]) /\ Counts(g[r], ts) /\ Silent(gen[r], turns, g[r], ts)
    <2>1. CASE r = s
      <3>1. InStep(g[s])
        BY <1>9, <1>2 DEF InStep
      <3>2. Counts(g[s], ts)
        BY <1>9, <1>11, ControlTypes DEF Counts
      <3>3. Silent(gen[s], turns, g[s], ts)
        BY DEF Silent, Stopped
      <3> QED
        BY <2>1, <3>1, <3>2, <3>3
    <2>2. CASE r # s
      <3>1. g[r] = gen[r] /\ InStep(gen[r]) /\ Counts(gen[r], turns)
        BY <2>2, <1>7, Zenon DEF Runs
      <3>2. ASSUME gen[r].turn # 0 PROVE ts[gen[r].turn] = turns[gen[r].turn]
        <4>1. gen[r].turn \in Turns \ {t}
          BY <3>2, <1>2, <1>6 DEF GenType
        <4> QED
          BY <4>1, <1>11
      <3>3. Counts(gen[r], ts) /\ Silent(gen[r], turns, gen[r], ts)
        BY <3>1, <3>2 DEF Counts, Silent, Stopped, Live
      <3> QED
        BY <3>1, <3>3
    <2> QED
      BY <2>1, <2>2
  <1>20. Runs(g, ss, ts, overlapped') /\ StoppedStay(gen, turns, g, ts)
    BY <1>6, <1>10, <1>11, <1>12, <1>15, <1>19, Zenon DEF Runs, RunType, StoppedStay
  <1> QED
    BY <1>2, <1>9, <1>11, <1>18, <1>20, ControlTypes, Zenon DEF t, g, ss, ts

\* A live generator takes in a chunk.
LEMMA InputObserved ==
  ASSUME NEW g, NEW ss, NEW ts, NEW ov, Runs(g, ss, ts, ov), NEW cl,
         Records(g, ss.history, ov, cl),
         NEW s \in Streams, g[s].pc = "input", g[s].turn # 0
  PROVE  LET h == [g EXCEPT ![s].in = @ + 1]
         IN  /\ Runs(h, ObserveInput(ss), ts, ov)
             /\ Records(h, ObserveInput(ss).history, ov, cl)
             /\ StoppedStay(g, ts, h, ts)
             /\ h[s].turn = g[s].turn /\ h[s].pc = "input"
  <1> DEFINE x == [g[s] EXCEPT !.in = @ + 1]
             h == [g EXCEPT ![s] = x]
             hist == ss.history
             rec == [hist[Len(hist)] EXCEPT !.in = @ + 1]
  <1>1. RunType(g, ss, ts, ov) /\ InStep(g[s]) /\ Counts(g[s], ts)
    BY DEF Runs
  <1>2. g[s] \in GenType /\ g \in [Streams -> GenType] /\ ss \in SessType
    BY <1>1 DEF RunType
  <1>3. /\ x \in GenType /\ x.turn = g[s].turn /\ x.given = g[s].given /\ x.pc = "input"
        /\ x.in = g[s].in + 1 /\ x.heard = g[s].heard /\ x.step = g[s].step
    BY <1>2 DEF GenType
  <1> HIDE DEF x
  <1>4. h \in [Streams -> GenType] /\ h[s] = x /\ \A r \in Streams \ {s} : h[r] = g[r]
    BY <1>2, <1>3
  <1> HIDE DEF h
  <1>5. Live(g[s])
    BY DEF Live
  <1>6. hist # <<>> /\ hist \in Seq(RecordType)
    BY <1>2 DEF Records, SessType
  <1>7. hist[Len(hist)] \in RecordType
    BY <1>6, RecordsOfHistory
  <1>8. /\ ObserveInput(ss) \in SessType /\ ObserveInput(ss).counter = ss.counter
        /\ ObserveInput(ss).history = Amended(hist, rec)
    <2>1. g[s].turn \in Turns
      BY <1>2 DEF GenType
    <2> QED
      BY <2>1, <1>2, <1>6, SessionKept, Zenon
  <1>9. rec \in RecordType
    BY <1>7, RecordFields
  <1>10. rec.turn = hist[Len(hist)].turn /\ rec.out = hist[Len(hist)].out
         /\ rec.in = hist[Len(hist)].in + 1
    BY <1>7 DEF RecordType
  <1> HIDE DEF rec
  <1>11. ASSUME s \notin ov PROVE Fits(h[s], rec, s \in cl)
    <2>1. hist[Len(hist)].turn = g[s].turn
      BY <1>5, <1>11, Zenon DEF Records
    <2>2. Fits(g[s], hist[Len(hist)], s \in cl)
      BY <2>1, <1>6, <1>11, RecordsOfHistory, Zenon DEF Records
    <2> QED
      BY <2>2, <1>3, <1>4, <1>10 DEF Fits
  <1>12. Records(h, Amended(hist, rec), ov, cl)
    BY <1>2, <1>3, <1>4, <1>5, <1>6, <1>9, <1>10, <1>11, RecordsAmend, Zenon
  <1>13. RunType(h, ObserveInput(ss), ts, ov)
    BY <1>1, <1>4, <1>8 DEF RunType
  <1>14. InStep(h[s]) /\ Counts(h[s], ts) /\ Silent(g[s], ts, h[s], ts)
    BY <1>1, <1>3, <1>4 DEF InStep, Counts, Silent, Stopped, Live
  <1>15. Runs(h, ObserveInput(ss), ts, ov) /\ StoppedStay(g, ts, h, ts)
    BY <1>3, <1>4, <1>8, <1>13, <1>14, RunsOn, Zenon
  <1>16. h = [g EXCEPT ![s].in = @ + 1]
    BY Zenon DEF h, x
  <1> QED
    BY <1>3, <1>4, <1>8, <1>12, <1>15, <1>16, Zenon

\* A turn ends: what its generator has not yet said it will not say, and the
\* record tells why.
LEMMA TurnEnds ==
  ASSUME NEW g, NEW ss, NEW ts, NEW ov, Runs(g, ss, ts, ov), NEW cl,
         Records(g, ss.history, ov, cl),
         NEW s \in Streams, Live(g[s]), NEW c \in BOOLEAN,
         NEW h \in [Streams -> GenType], h[s].pc = "done", h[s].turn = g[s].turn,
         h[s].given = g[s].given, h[s].in = g[s].in, h[s].heard = g[s].heard,
         \A r \in Streams \ {s} : h[r] = g[r],
         h[s].heard < h[s].n /\ s \notin cl => c
  PROVE  LET ss2 == EndTurn(ss, g[s].turn, c)
         IN  /\ Runs(h, ss2, ts, ov)
             /\ Records(h, ss2.history, ov, cl)
             /\ StoppedStay(g, ts, h, ts)
  <1> DEFINE hist == ss.history
             new == hist[Len(hist)]
             rec == [new EXCEPT !.ended = TRUE, !.cancelled = c]
             ss2 == EndTurn(ss, g[s].turn, c)
  <1>1. RunType(g, ss, ts, ov) /\ InStep(g[s]) /\ Counts(g[s], ts) /\ g[s].turn # 0
    BY DEF Runs, Live
  <1>2. g[s] \in GenType /\ g \in [Streams -> GenType] /\ ss \in SessType
    BY <1>1 DEF RunType
  <1>6. hist # <<>> /\ hist \in Seq(RecordType)
    BY <1>1, <1>2 DEF Records, SessType
  <1>7. new \in RecordType
    BY <1>6, RecordsOfHistory
  <1>8. /\ ss2 \in SessType /\ ss2.counter = ss.counter
        /\ ss2.history = (IF new.turn = g[s].turn THEN Amended(hist, rec) ELSE hist)
    <2>1. g[s].turn \in Turns
      BY <1>1, <1>2 DEF GenType
    <2> QED
      BY <2>1, <1>2, <1>6, SessionKept, Zenon
  <1> HIDE DEF ss2
  <1>9. rec \in RecordType
    BY <1>7, RecordFields
  <1>10. rec.turn = new.turn /\ rec.out = new.out /\ rec.in = new.in
         /\ rec.ended = TRUE /\ rec.cancelled = c
    BY <1>7 DEF RecordType
  <1> HIDE DEF rec
  <1>11. ASSUME s \notin ov PROVE Fits(h[s], rec, s \in cl)
    <2>1. new.turn = g[s].turn
      BY <1>11, Zenon DEF Records
    <2>2. Fits(g[s], new, s \in cl)
      BY <2>1, <1>6, <1>11, RecordsOfHistory, Zenon DEF Records
    <2> QED
      BY <2>2, <1>10 DEF Fits
  <1>12. Records(h, ss2.history, ov, cl)
    <2>1. CASE new.turn = g[s].turn
      <3>1. Records(h, Amended(hist, rec), ov, cl)
        BY <1>2, <1>6, <1>9, <1>10, <1>11, RecordsAmend, Zenon
      <3> QED
        BY <3>1, <1>8, <2>1, Zenon
    <2>2. CASE new.turn # g[s].turn
      <3>1. s \in ov
        BY <2>2, Zenon DEF Records
      <3>2. Live(h[s]) => Live(g[s])
        OBVIOUS
      <3>3. Records(h, hist, ov, cl)
        BY <3>1, <3>2, <1>2, RecordsUnamended, Zenon
      <3> QED
        BY <3>3, <1>8, <2>2, Zenon
    <2> QED
      BY <2>1, <2>2
  <1>14. RunType(h, ss2, ts, ov)
    BY <1>1, <1>8 DEF RunType
  <1>15. InStep(h[s]) /\ Counts(h[s], ts) /\ Silent(g[s], ts, h[s], ts)
    BY <1>1 DEF InStep, Counts, Silent, Stopped, Live
  <1>16. Runs(h, ss2, ts, ov) /\ StoppedStay(g, ts, h, ts)
    BY <1>1, <1>8, <1>14, <1>15, RunsOn, Zenon
  <1> QED
    BY <1>12, <1>16, Zenon DEF ss2

\* From the last chunk to the reply's first await, or to its end if the turn was
\* cancelled over the input (service.py:196).
LEMMA ReplyEntered ==
  ASSUME NEW g, NEW ss, NEW ts, NEW ov, Runs(g, ss, ts, ov), NEW cl,
         Records(g, ss.history, ov, cl),
         NEW s \in Streams, g[s].pc = "input", g[s].turn # 0, EnterReply(s, g, ss, ts)
  PROVE  /\ Runs(gen', sess', ts, ov)
         /\ Records(gen', sess'.history, ov, cl)
         /\ StoppedStay(g, ts, gen', ts)
         /\ turns' = ts
  <1>1. RunType(g, ss, ts, ov) /\ InStep(g[s]) /\ Counts(g[s], ts)
    BY DEF Runs
  <1>2. g[s] \in GenType /\ g \in [Streams -> GenType] /\ ss \in SessType
    BY <1>1 DEF RunType
  <1>3. PICK n \in 1 .. MaxReply :
          \/ /\ ts[g[s].turn].cancelled
             /\ gen' = [g EXCEPT ![s].pc = "done", ![s].n = n]
             /\ sess' = EndTurn(ss, g[s].turn, TRUE)
             /\ turns' = ts
          \/ /\ gen' = [g EXCEPT ![s].pc = "asleep", ![s].n = n]
             /\ sess' = ss
             /\ turns' = ts
    BY Zenon DEF EnterReply
  <1>4. n \in Nat
    BY RuntimeAssumption
  <1>5. CASE gen' = [g EXCEPT ![s].pc = "done", ![s].n = n]
             /\ sess' = EndTurn(ss, g[s].turn, TRUE) /\ turns' = ts
    <2>1. /\ gen' \in [Streams -> GenType] /\ gen'[s].pc = "done"
          /\ gen'[s].turn = g[s].turn /\ gen'[s].given = g[s].given
          /\ gen'[s].in = g[s].in /\ gen'[s].heard = g[s].heard
          /\ \A r \in Streams \ {s} : gen'[r] = g[r]
      BY <1>2, <1>4, <1>5 DEF GenType
    <2>2. Live(g[s])
      BY DEF Live
    <2>3. /\ Runs(gen', EndTurn(ss, g[s].turn, TRUE), ts, ov)
          /\ Records(gen', EndTurn(ss, g[s].turn, TRUE).history, ov, cl)
          /\ StoppedStay(g, ts, gen', ts)
      BY <2>1, <2>2, TurnEnds, TRUE \in BOOLEAN, Zenon
    <2> QED
      BY <2>3, <1>5
  <1>6. CASE gen' = [g EXCEPT ![s].pc = "asleep", ![s].n = n] /\ sess' = ss /\ turns' = ts
    <2>1. /\ gen' \in [Streams -> GenType] /\ gen'[s].pc = "asleep"
          /\ gen'[s].turn = g[s].turn /\ gen'[s].given = g[s].given
          /\ gen'[s].in = g[s].in /\ gen'[s].heard = g[s].heard /\ gen'[s].step = g[s].step
          /\ \A r \in Streams \ {s} : gen'[r] = g[r]
      BY <1>2, <1>4, <1>6 DEF GenType
    <2>2. Live(g[s])
      BY DEF Live
    <2>3. \A rec : Fits(g[s], rec, s \in cl) => Fits(gen'[s], rec, s \in cl)
      BY <2>1 DEF Fits
    <2>4. Records(gen', ss.history, ov, cl)
      BY <2>1, <2>2, <2>3, <1>2, RecordsUnamended, Zenon
    <2>5. RunType(gen', ss, ts, ov)
      BY <2>1, <1>1 DEF RunType
    <2>6. InStep(gen'[s]) /\ Counts(gen'[s], ts) /\ Silent(g[s], ts, gen'[s], ts)
      BY <2>1, <1>1 DEF InStep, Counts, Silent, Stopped, Live
    <2>7. Runs(gen', ss, ts, ov) /\ StoppedStay(g, ts, gen', ts)
      BY <2>1, <2>5, <2>6, RunsOn, Zenon
    <2> QED
      BY <2>4, <2>7, <1>6
  <1> QED
    BY <1>3, <1>5, <1>6

\* A generator that yields: its record and its control count the chunk.
LEMMA ChunkYielded ==
  ASSUME Runs(gen, sess, turns, overlapped), NEW cl,
         Records(gen, sess.history, overlapped, cl),
         NEW s \in Streams, Emit(s), ~Cancelled(gen[s].turn)
  PROVE  /\ Runs(gen', sess', turns', overlapped')
         /\ Records(gen', sess'.history, overlapped', cl)
         /\ StoppedStay(gen, turns, gen', turns')
         /\ ~Stopped(gen[s], turns)
  <1> DEFINE hist == sess.history
             new == hist[Len(hist)]
             rec == [new EXCEPT !.out = @ + 1]
             t == gen[s].turn
  <1>0. /\ gen[s].pc = "asleep"
        /\ gen' = [gen EXCEPT ![s].pc = "yielded", ![s].heard = @ + 1]
        /\ turns' = [turns EXCEPT ![gen[s].turn].emitted = @ + 1,
                                 ![gen[s].turn].last = gen[s].step]
        /\ sess' = ObserveOutput(sess) /\ overlapped' = overlapped
    BY Zenon DEF Emit
  <1>1. RunType(gen, sess, turns, overlapped) /\ InStep(gen[s]) /\ Counts(gen[s], turns)
    BY DEF Runs
  <1>2. gen[s] \in GenType /\ gen \in [Streams -> GenType] /\ sess \in SessType
        /\ turns \in [Turns -> ControlType]
    BY <1>1 DEF RunType
  <1>3. t # 0 /\ t \in Turns /\ Live(gen[s]) /\ gen[s].step = gen[s].heard
    BY <1>0, <1>1, <1>2 DEF InStep, GenType, Live
  <1>4. /\ gen' \in [Streams -> GenType] /\ gen'[s].pc = "yielded"
        /\ gen'[s].turn = t /\ gen'[s].given = gen[s].given
        /\ gen'[s].in = gen[s].in /\ gen'[s].heard = gen[s].heard + 1
        /\ gen'[s].step = gen[s].step
        /\ \A r \in Streams \ {s} : gen'[r] = gen[r]
    BY <1>0, <1>2 DEF GenType
  <1>5. gen[s].heard \in Nat /\ gen[s].step \in Nat
    BY <1>2 DEF GenType
  <1>6. turns[t] \in ControlType /\ turns[t].known /\ turns[t].emitted = gen[s].heard
    BY <1>1, <1>2, <1>3 DEF Counts
  <1>7. /\ turns' \in [Turns -> ControlType]
        /\ turns'[t].known = turns[t].known /\ turns'[t].cancelled = turns[t].cancelled
        /\ turns'[t].emitted = gen[s].heard + 1 /\ turns'[t].last = gen[s].step
        /\ \A u \in Turns \ {t} : turns'[u] = turns[u]
    <2>1. /\ turns'[t].emitted = gen[s].heard + 1 /\ turns'[t].last = gen[s].step
          /\ \A u \in Turns \ {t} : turns'[u] = turns[u]
      BY <1>0, <1>2, <1>3, <1>5, <1>6 DEF ControlType
    <2>2. turns'[t].known = turns[t].known /\ turns'[t].cancelled = turns[t].cancelled
      BY <1>0, <1>2, <1>3, <1>5, <1>6 DEF ControlType
    <2>3. turns' \in [Turns -> ControlType]
      BY <1>0, <1>2, <1>3, <1>5, <1>6 DEF ControlType
    <2> QED
      BY <2>1, <2>2, <2>3
  <1>8. hist # <<>> /\ hist \in Seq(RecordType)
    BY <1>2, <1>3 DEF Records, SessType
  <1>9. new \in RecordType
    BY <1>8, RecordsOfHistory
  <1>10. /\ sess' \in SessType /\ sess'.counter = sess.counter
         /\ sess'.history = Amended(hist, rec)
    BY <1>0, <1>2, <1>3, <1>8, SessionKept, Zenon
  <1>11. rec \in RecordType
    BY <1>9, RecordFields
  <1>12. rec.turn = new.turn /\ rec.in = new.in /\ rec.out = new.out + 1
    BY <1>9 DEF RecordType
  <1> HIDE DEF rec
  <1>13. ASSUME s \notin overlapped PROVE Fits(gen'[s], rec, s \in cl)
    <2>1. new.turn = gen[s].turn
      BY <1>3, <1>13, Zenon DEF Records
    <2>2. Fits(gen[s], new, s \in cl)
      BY <2>1, <1>8, <1>13, RecordsOfHistory, Zenon DEF Records
    <2> QED
      BY <2>2, <1>4, <1>12 DEF Fits
  <1>14. Records(gen', Amended(hist, rec), overlapped, cl)
    BY <1>2, <1>3, <1>4, <1>8, <1>11, <1>12, <1>13, RecordsAmend, Zenon
  <1>15. RunType(gen', sess', turns', overlapped)
    BY <1>1, <1>4, <1>7, <1>10 DEF RunType
  <1>16. ~Stopped(gen[s], turns)
    BY <1>3 DEF Stopped, Cancelled, Live
  <1>17. InStep(gen'[s]) /\ Counts(gen'[s], turns')
    <2>1. InStep(gen'[s])
      BY <1>3, <1>4 DEF InStep
    <2>2. turns'[t].last = gen'[s].heard - 1 /\ turns'[t].emitted = gen'[s].heard
      BY <1>3, <1>4, <1>5, <1>7
    <2>3. turns'[t].known
      BY <1>6, <1>7, Zenon
    <2> QED
      BY <2>1, <2>2, <2>3, <1>4 DEF Counts
  <1>18. Runs(gen', sess', turns', overlapped) /\ StoppedStay(gen, turns, gen', turns')
    <2>1. /\ gen'[s].turn = gen[s].turn /\ gen[s].turn # 0
          /\ \A u \in Turns : u # gen[s].turn => turns'[u] = turns[u]
      BY <1>3, <1>4, <1>7
    <2>2. Silent(gen[s], turns, gen'[s], turns')
      BY <1>16 DEF Silent
    <2>3. gen'[s].given = gen[s].given /\ \A r \in Streams \ {s} : gen'[r] = gen[r]
      BY <1>4
    <2>4. sess'.counter = sess.counter
      BY <1>10
    <2>5. InStep(gen'[s]) /\ Counts(gen'[s], turns')
      BY <1>17
    <2> HIDE DEF t, hist, new
    <2> QED
      BY <2>1, <2>2, <2>3, <2>4, <2>5, <1>15, RunsOn, Zenon
  <1> QED
    BY <1>0, <1>10, <1>14, <1>16, <1>18, Zenon

\* The next chunk is asked for: the generator goes to sleep under its turn.
LEMMA ChunkAsked ==
  ASSUME Runs(gen, sess, turns, overlapped), NEW cl,
         Records(gen, sess.history, overlapped, cl),
         NEW s \in Streams, gen[s].pc = "yielded",
         gen' = [gen EXCEPT ![s].step = @ + 1, ![s].pc = "asleep"]
  PROVE  /\ Runs(gen', sess, turns, overlapped)
         /\ Records(gen', sess.history, overlapped, cl)
         /\ StoppedStay(gen, turns, gen', turns)
  <1>1. RunType(gen, sess, turns, overlapped) /\ InStep(gen[s]) /\ Counts(gen[s], turns)
    BY DEF Runs
  <1>2. gen[s] \in GenType /\ gen \in [Streams -> GenType]
    BY <1>1 DEF RunType
  <1>3. /\ gen' \in [Streams -> GenType] /\ gen'[s].pc = "asleep"
        /\ gen'[s].turn = gen[s].turn /\ gen'[s].given = gen[s].given
        /\ gen'[s].in = gen[s].in /\ gen'[s].heard = gen[s].heard
        /\ gen'[s].step = gen[s].step + 1
        /\ \A r \in Streams \ {s} : gen'[r] = gen[r]
    BY <1>2 DEF GenType
  <1>4. gen[s].turn # 0 /\ Live(gen[s]) /\ gen[s].step + 1 = gen[s].heard
    BY <1>1 DEF InStep, Live
  <1>5. \A rec : Fits(gen[s], rec, s \in cl) => Fits(gen'[s], rec, s \in cl)
    BY <1>3 DEF Fits
  <1>6. Records(gen', sess.history, overlapped, cl)
    BY <1>2, <1>3, <1>4, <1>5, RecordsUnamended, Zenon
  <1>7. RunType(gen', sess, turns, overlapped)
    BY <1>1, <1>3 DEF RunType
  <1>8. InStep(gen'[s]) /\ Counts(gen'[s], turns) /\ Silent(gen[s], turns, gen'[s], turns)
    BY <1>1, <1>3, <1>4 DEF InStep, Counts, Silent, Stopped, Live
  <1>9. Runs(gen', sess, turns, overlapped) /\ StoppedStay(gen, turns, gen', turns)
    BY <1>3, <1>4, <1>7, <1>8, RunsOn, Zenon
  <1> QED
    BY <1>6, <1>9

-----------------------------------------------------------------------------
(* The actions of the runtime *)

\* A step of the session that keeps everything said of its generators, with the
\* streams in cl left by their decoder.
Moved(cl) ==
  /\ Runs(gen', sess', turns', overlapped')
  /\ Records(gen', sess'.history, overlapped', cl)
  /\ StoppedStay(gen, turns, gen', turns')

\* Two steps one after the other.
LEMMA StoppedStayOn ==
  ASSUME NEW g, NEW ts, NEW h, NEW ts2, NEW k, NEW ts3,
         StoppedStay(g, ts, h, ts2), StoppedStay(h, ts2, k, ts3)
  PROVE  StoppedStay(g, ts, k, ts3)
  BY DEF StoppedStay, Silent

\* Input goes on for a turn that has begun, or begins one.
LEMMA ChunkMoves ==
  ASSUME Runs(gen, sess, turns, overlapped), NEW cl,
         Records(gen, sess.history, overlapped, cl),
         NEW s \in Streams, NEW final \in BOOLEAN, Chunk(s, final)
  PROVE  Moved(cl)
  <1> DEFINE first == gen[s].turn = 0
             begun == IF first THEN Started(s) ELSE gen
             g == [begun EXCEPT ![s].in = @ + 1]
             t == g[s].turn
             b == IF first THEN BeginTurn(sess, t) ELSE sess
             ss == ObserveInput(b)
             ts == IF first THEN [turns EXCEPT ![t] = NewControl] ELSE turns
  <1>1. /\ gen[s].pc = "input"
        /\ IF final THEN EnterReply(s, g, ss, ts)
           ELSE gen' = g /\ sess' = ss /\ turns' = ts
        /\ IF first THEN Overlap(s) ELSE overlapped' = overlapped
    BY Zenon DEF Chunk
  <1>2. g[s].turn = begun[s].turn
    <2>1. begun[s] \in GenType /\ begun \in [Streams -> GenType]
      <3>1. CASE first
        <4>1. Runs(Started(s), BeginTurn(sess, TurnIdFor(s)),
                   [turns EXCEPT ![TurnIdFor(s)] = NewControl], overlapped')
          BY <1>1, <3>1, TurnBegins
        <4> QED
          BY <4>1, <3>1 DEF Runs, RunType
      <3>2. CASE ~first
        BY <3>2 DEF Runs, RunType
      <3> QED
        BY <3>1, <3>2
    <2> HIDE DEF begun
    <2> QED
      BY <2>1 DEF GenType
  <1>3. /\ Runs(begun, b, ts, overlapped')
        /\ Records(begun, b.history, overlapped', cl)
        /\ StoppedStay(gen, turns, begun, ts)
        /\ begun[s].pc = "input" /\ begun[s].turn # 0
    <2>1. CASE first
      <3> DEFINE u == TurnIdFor(s)
      <3>1. /\ Runs(Started(s), BeginTurn(sess, u), [turns EXCEPT ![u] = NewControl], overlapped')
            /\ Records(Started(s), BeginTurn(sess, u).history, overlapped', cl)
            /\ StoppedStay(gen, turns, Started(s), [turns EXCEPT ![u] = NewControl])
            /\ Started(s)[s].turn = u /\ u # 0 /\ Started(s)[s].pc = "input"
        BY <1>1, <2>1, TurnBegins, Zenon
      <3>2. begun = Started(s) /\ t = u
        BY <2>1, <1>2, <3>1
      <3>3. b = BeginTurn(sess, u) /\ ts = [turns EXCEPT ![u] = NewControl]
        BY <2>1, <3>2
      <3> HIDE DEF begun, b, ts, u
      <3> QED
        BY <3>1, <3>2, <3>3
    <2>2. CASE ~first
      <3>1. begun = gen /\ b = sess /\ ts = turns /\ overlapped' = overlapped
        BY <2>2, <1>1
      <3>2. StoppedStay(gen, turns, gen, turns)
        BY DEF StoppedStay, Silent
      <3> HIDE DEF begun, b, ts
      <3> QED
        BY <3>1, <3>2, <2>2, <1>1
    <2> QED
      BY <2>1, <2>2
  <1> HIDE DEF begun, b, ts
  <1>4. /\ Runs(g, ss, ts, overlapped')
        /\ Records(g, ss.history, overlapped', cl)
        /\ StoppedStay(begun, ts, g, ts)
        /\ g[s].turn # 0 /\ g[s].pc = "input"
    BY <1>2, <1>3, InputObserved, Zenon
  <1> HIDE DEF g, ss
  <1>5. StoppedStay(gen, turns, g, ts)
    BY <1>3, <1>4, StoppedStayOn
  <1>6. CASE final
    <2>1. /\ Runs(gen', sess', ts, overlapped')
          /\ Records(gen', sess'.history, overlapped', cl)
          /\ StoppedStay(g, ts, gen', ts)
          /\ turns' = ts
      BY <1>1, <1>4, <1>6, ReplyEntered, Zenon
    <2> QED
      BY <2>1, <1>5, StoppedStayOn DEF Moved
  <1>7. CASE ~final
    BY <1>1, <1>4, <1>5, <1>7 DEF Moved
  <1> QED
    BY <1>6, <1>7

\* The input ends: the reply begins, and with it the turn if there was no chunk.
LEMMA EndOfInputMoves ==
  ASSUME Runs(gen, sess, turns, overlapped), NEW cl,
         Records(gen, sess.history, overlapped, cl),
         NEW s \in Streams, EndOfInput(s)
  PROVE  Moved(cl)
  <1>1. gen[s].pc = "input"
    BY DEF EndOfInput
  <1>2. CASE gen[s].turn = 0
    <2> DEFINE t == TurnIdFor(s)
               g == Started(s)
               ss == BeginTurn(sess, t)
               ts == [turns EXCEPT ![t] = NewControl]
    <2>1. EnterReply(s, g, ss, ts) /\ Overlap(s)
      BY <1>2, Zenon DEF EndOfInput
    <2>2. /\ Runs(g, ss, ts, overlapped')
          /\ Records(g, ss.history, overlapped', cl)
          /\ StoppedStay(gen, turns, g, ts)
          /\ g[s].turn # 0 /\ g[s].pc = "input"
      BY <1>1, <1>2, <2>1, TurnBegins, Zenon
    <2> HIDE DEF g, ss, ts
    <2>3. /\ Runs(gen', sess', ts, overlapped')
          /\ Records(gen', sess'.history, overlapped', cl)
          /\ StoppedStay(g, ts, gen', ts)
          /\ turns' = ts
      BY <2>1, <2>2, ReplyEntered, Zenon
    <2> QED
      BY <2>2, <2>3, StoppedStayOn DEF Moved
  <1>3. CASE gen[s].turn # 0
    <2>1. EnterReply(s, gen, sess, turns) /\ overlapped' = overlapped
      BY <1>3, Zenon DEF EndOfInput
    <2>2. /\ Runs(gen', sess', turns, overlapped)
          /\ Records(gen', sess'.history, overlapped, cl)
          /\ StoppedStay(gen, turns, gen', turns)
          /\ turns' = turns
      BY <1>1, <1>3, <2>1, ReplyEntered, Zenon
    <2> QED
      BY <2>1, <2>2 DEF Moved
  <1> QED
    BY <1>2, <1>3

\* The finally clause of a generator that has yielded all it will.
LEMMA FinishMoves ==
  ASSUME Runs(gen, sess, turns, overlapped), NEW cl,
         Records(gen, sess.history, overlapped, cl),
         NEW s \in Streams, Live(gen[s]),
         NEW k \in Nat, NEW g, g = [gen EXCEPT ![s].step = k], Finish(s, g),
         gen[s].heard < gen[s].n /\ s \notin cl => Cancelled(gen[s].turn)
  PROVE  Moved(cl)
  <1>1. RunType(gen, sess, turns, overlapped)
    BY DEF Runs
  <1>2. gen[s] \in GenType /\ gen \in [Streams -> GenType] /\ gen[s].turn \in Turns
    BY <1>1 DEF RunType, GenType, Live
  <1>3. g \in [Streams -> GenType] /\ g[s].turn = gen[s].turn
    BY <1>2 DEF GenType
  <1>4. gen' = [g EXCEPT ![s].pc = "done"]
        /\ sess' = EndTurn(sess, gen[s].turn, Cancelled(gen[s].turn))
        /\ turns' = turns /\ overlapped' = overlapped
    BY <1>3 DEF Finish
  <1>5. /\ gen' \in [Streams -> GenType] /\ gen'[s].pc = "done"
        /\ gen'[s].turn = gen[s].turn /\ gen'[s].given = gen[s].given
        /\ gen'[s].in = gen[s].in /\ gen'[s].heard = gen[s].heard /\ gen'[s].n = gen[s].n
        /\ \A r \in Streams \ {s} : gen'[r] = gen[r]
    BY <1>2, <1>4 DEF GenType
  <1>6. Cancelled(gen[s].turn) \in BOOLEAN
    BY DEF Cancelled
  <1>7. /\ Runs(gen', sess', turns, overlapped)
        /\ Records(gen', sess'.history, overlapped, cl)
        /\ StoppedStay(gen, turns, gen', turns)
    <2> DEFINE c == Cancelled(gen[s].turn)
               h == gen'
    <2>1. sess' = EndTurn(sess, gen[s].turn, c)
      BY <1>4
    <2>2. gen[s].heard < gen[s].n /\ s \notin cl => c
      OBVIOUS
    <2> HIDE DEF c, h
    <2> QED
      BY <1>5, <1>6, <2>1, <2>2, TurnEnds, ZenonT(30) DEF c, h
  <1> QED
    BY <1>4, <1>7 DEF Moved

\* Back from its sleep, a generator yields or finds its turn cancelled.
LEMMA EmitMoves ==
  ASSUME Runs(gen, sess, turns, overlapped), NEW cl,
         Records(gen, sess.history, overlapped, cl),
         NEW s \in Streams, Emit(s)
  PROVE  /\ Moved(cl)
         /\ gen'[s].pc = "yielded" => ~Stopped(gen[s], turns)
  <1>1. RunType(gen, sess, turns, overlapped) /\ InStep(gen[s]) /\ gen[s].pc = "asleep"
    BY DEF Runs, Emit
  <1>2. gen[s] \in GenType /\ gen \in [Streams -> GenType] /\ Live(gen[s])
    BY <1>1 DEF RunType, InStep, Live
  <1>3. CASE Cancelled(gen[s].turn)
    <2>1. Finish(s, gen)
      BY <1>3 DEF Emit
    <2>2. gen[s].step \in Nat /\ gen = [gen EXCEPT ![s].step = gen[s].step]
      BY <1>2 DEF GenType
    <2>3. Moved(cl)
      BY <1>2, <1>3, <2>1, <2>2, FinishMoves, Zenon
    <2>4. gen' = [gen EXCEPT ![s].pc = "done"]
      BY <2>1 DEF Finish
    <2>5. gen'[s].pc = "done"
      BY <1>2, <2>4 DEF GenType
    <2> QED
      BY <2>3, <2>5
  <1>4. CASE ~Cancelled(gen[s].turn)
    <2>1. /\ Runs(gen', sess', turns', overlapped')
          /\ Records(gen', sess'.history, overlapped', cl)
          /\ StoppedStay(gen, turns, gen', turns')
          /\ ~Stopped(gen[s], turns)
      BY <1>4, ChunkYielded, Zenon
    <2> QED
      BY <2>1 DEF Moved
  <1> QED
    BY <1>3, <1>4

\* Asked for more, a generator sleeps again, or it has said everything or was
\* cancelled.
LEMMA PullMoves ==
  ASSUME Runs(gen, sess, turns, overlapped), NEW cl,
         Records(gen, sess.history, overlapped, cl),
         NEW s \in Streams, Pull(s)
  PROVE  Moved(cl)
  <1> DEFINE g == [gen EXCEPT ![s].step = gen[s].step + 1]
  <1>1. RunType(gen, sess, turns, overlapped) /\ InStep(gen[s]) /\ gen[s].pc = "yielded"
    BY DEF Runs, Pull
  <1>2. /\ gen[s] \in GenType /\ gen \in [Streams -> GenType] /\ Live(gen[s])
        /\ gen[s].step + 1 = gen[s].heard
    BY <1>1 DEF RunType, InStep, Live
  <1>3. g = [gen EXCEPT ![s].step = @ + 1]
    OBVIOUS
  <1>4. g[s].step = gen[s].step + 1 /\ g[s].n = gen[s].n /\ g[s].turn = gen[s].turn
        /\ gen[s].step + 1 \in Nat
    BY <1>2 DEF GenType
  <1>5. IF g[s].step = g[s].n \/ Cancelled(g[s].turn)
        THEN Finish(s, g)
        ELSE gen' = [g EXCEPT ![s].pc = "asleep"] /\ UNCHANGED <<sess, turns, overlapped>>
    BY <1>3, Zenon DEF Pull
  <1>6. CASE g[s].step = g[s].n \/ Cancelled(g[s].turn)
    <2>1. Finish(s, g)
      BY <1>5, <1>6
    <2>2. gen[s].heard < gen[s].n /\ s \notin cl => Cancelled(gen[s].turn)
      BY <1>2, <1>4, <1>6 DEF GenType
    <2> QED
      BY <1>2, <1>4, <2>1, <2>2, FinishMoves, Zenon
  <1>7. CASE ~(g[s].step = g[s].n \/ Cancelled(g[s].turn))
    <2>1. gen' = [g EXCEPT ![s].pc = "asleep"]
      BY <1>5, <1>7
    <2>2. sess' = sess /\ turns' = turns /\ overlapped' = overlapped
      BY <1>5, <1>7
    <2>3. gen' = [gen EXCEPT ![s].step = @ + 1, ![s].pc = "asleep"]
      BY <2>1
    <2>4. /\ Runs(gen', sess, turns, overlapped)
          /\ Records(gen', sess.history, overlapped, cl)
          /\ StoppedStay(gen, turns, gen', turns)
      BY <1>1, <2>3, ChunkAsked, Zenon
    <2> QED
      BY <2>2, <2>4 DEF Moved
  <1> QED
    BY <1>6, <1>7

\* A generator whose decoder has left it is closed.
LEMMA DropMoves ==
  ASSUME Runs(gen, sess, turns, overlapped), NEW cl,
         Records(gen, sess.history, overlapped, cl),
         NEW s \in Streams, s \in cl, Drop(s)
  PROVE  Moved(cl)
  <1>1. RunType(gen, sess, turns, overlapped) /\ InStep(gen[s])
        /\ gen[s].pc \in {"yielded", "asleep"} /\ Finish(s, gen)
    BY DEF Runs, Drop
  <1>2. gen[s] \in GenType /\ gen \in [Streams -> GenType] /\ Live(gen[s])
    BY <1>1 DEF RunType, InStep, Live
  <1>3. gen[s].step \in Nat /\ gen = [gen EXCEPT ![s].step = gen[s].step]
    BY <1>2 DEF GenType
  <1> QED
    BY <1>1, <1>2, <1>3, FinishMoves, Zenon

\* A generator that waits for input is gone.
LEMMA AbandonMoves ==
  ASSUME Runs(gen, sess, turns, overlapped), NEW cl,
         Records(gen, sess.history, overlapped, cl),
         NEW s \in Streams, Abandon(s)
  PROVE  Moved(cl)
  <1>1. RunType(gen, sess, turns, overlapped) /\ InStep(gen[s]) /\ Counts(gen[s], turns)
    BY DEF Runs
  <1>2. gen[s] \in GenType /\ gen \in [Streams -> GenType]
    BY <1>1 DEF RunType
  <1>3. gen[s].pc = "input" /\ gen' = [gen EXCEPT ![s].pc = "gone"]
        /\ sess' = sess /\ turns' = turns /\ overlapped' = overlapped
    BY DEF Abandon
  <1>4. /\ gen' \in [Streams -> GenType] /\ gen'[s].pc = "gone"
        /\ gen'[s].turn = gen[s].turn /\ gen'[s].given = gen[s].given
        /\ gen'[s].in = gen[s].in /\ gen'[s].heard = gen[s].heard
        /\ \A r \in Streams \ {s} : gen'[r] = gen[r]
    BY <1>2, <1>3 DEF GenType
  <1>5. Live(gen'[s]) => Live(gen[s])
    BY <1>4 DEF Live
  <1>6. \A rec : Fits(gen[s], rec, s \in cl) => Fits(gen'[s], rec, s \in cl)
    BY <1>4 DEF Fits
  <1>7. Records(gen', sess.history, overlapped, cl)
    BY <1>2, <1>4, <1>5, <1>6, RecordsUnamended, Zenon
  <1>8. RunType(gen', sess, turns, overlapped)
    BY <1>1, <1>4 DEF RunType
  <1>9. InStep(gen'[s]) /\ Counts(gen'[s], turns) /\ Silent(gen[s], turns, gen'[s], turns)
    BY <1>1, <1>3, <1>4 DEF InStep, Counts, Silent, Stopped, Live
  <1>10. Runs(gen', sess, turns, overlapped) /\ StoppedStay(gen, turns, gen', turns)
    <2>1. CASE gen[s].turn # 0
      BY <2>1, <1>4, <1>8, <1>9, RunsOn, Zenon
    <2>2. CASE gen[s].turn = 0
      <3>1. \A r \in Streams : gen'[r].turn = gen[r].turn /\ gen'[r].given = gen[r].given
        BY <1>4, Zenon
      <3>2. Numbered(gen', sess.counter)
        BY <3>1, NumberingKept DEF Runs
      <3>3. ASSUME NEW r \in Streams
            PROVE  /\ InStep(gen'[r]) /\ Counts(gen'[r], turns)
                   /\ Silent(gen[r], turns, gen'[r], turns)
        <4>1. CASE r = s
          BY <4>1, <1>9
        <4>2. CASE r # s
          <5>1. gen'[r] = gen[r] /\ InStep(gen[r]) /\ Counts(gen[r], turns)
            BY <4>2, <1>4, Zenon DEF Runs
          <5> QED
            BY <5>1 DEF Silent
        <4> QED
          BY <4>1, <4>2
      <3> QED
        BY <1>8, <3>2, <3>3, Zenon DEF Runs, StoppedStay
    <2> QED
      BY <2>1, <2>2
  <1> QED
    BY <1>3, <1>7, <1>10 DEF Moved

\* A caller of the controller changes the controls and nothing else: those of begun
\* turns keep their counts, and a cancelled one stays so while its stream goes on.
LEMMA ControlsMove ==
  ASSUME Runs(gen, sess, turns, overlapped), NEW cl,
         Records(gen, sess.history, overlapped, cl),
         gen' = gen, sess' = sess, overlapped' = overlapped,
         turns' \in [Turns -> ControlType],
         \A s \in Streams : gen[s].turn # 0 =>
           LET old == turns[gen[s].turn]
               new == turns'[gen[s].turn]
           IN  /\ new.known => /\ old.known
                               /\ new.emitted = old.emitted /\ new.last = old.last
               /\ gen[s].pc # "done" => /\ old.known => new.known
                                        /\ old.known /\ old.cancelled => new.cancelled
  PROVE  Moved(cl)
  <1>1. RunType(gen, sess, turns', overlapped) /\ Numbered(gen, sess.counter)
    BY DEF Runs, RunType
  <1>2. ASSUME NEW s \in Streams
        PROVE  /\ InStep(gen[s]) /\ Counts(gen[s], turns')
               /\ Silent(gen[s], turns, gen[s], turns')
    <2>1. InStep(gen[s]) /\ Counts(gen[s], turns)
      BY DEF Runs
    <2>2. CASE gen[s].turn = 0
      BY <2>1, <2>2 DEF Counts, Silent, Stopped, Live
    <2>3. CASE gen[s].turn # 0
      <3> DEFINE old == turns[gen[s].turn]
                 new == turns'[gen[s].turn]
      <3>1. /\ new.known => old.known /\ new.emitted = old.emitted /\ new.last = old.last
            /\ gen[s].pc # "done" => /\ old.known => new.known
                                     /\ old.known /\ old.cancelled => new.cancelled
        BY <2>3
      <3>2. Counts(gen[s], turns')
        <4> HIDE DEF old, new
        <4>1. Live(gen[s]) => new.known
          BY <2>1, <3>1, Zenon DEF Counts, Live, old
        <4>2. new.known => new.emitted = gen[s].heard /\ new.last = gen[s].heard - 1
          BY <2>1, <2>3, <3>1 DEF Counts, old
        <4> QED
          BY <4>1, <4>2 DEF Counts, new
      <3>3. Silent(gen[s], turns, gen[s], turns')
        <4> HIDE DEF old, new
        <4>1. Stopped(gen[s], turns) => Stopped(gen[s], turns')
          BY <3>1, Zenon DEF Stopped, old, new
        <4> QED
          BY <4>1 DEF Silent
      <3> QED
        BY <2>1, <3>2, <3>3
    <2> QED
      BY <2>2, <2>3
  <1>3. Runs(gen, sess, turns', overlapped) /\ StoppedStay(gen, turns, gen, turns')
    BY <1>1, <1>2, Zenon DEF Runs, StoppedStay
  <1> QED
    BY <1>3 DEF Moved

\* Nothing of the session changes.
LEMMA NothingMoves ==
  ASSUME Runs(gen, sess, turns, overlapped), NEW cl,
         Records(gen, sess.history, overlapped, cl), UNCHANGED vars
  PROVE  Moved(cl)
  <1>1. gen' = gen /\ sess' = sess /\ turns' = turns /\ overlapped' = overlapped
    BY DEF vars
  <1>2. turns \in [Turns -> ControlType]
    BY DEF Runs, RunType
  <1> QED
    BY <1>1, <1>2, ControlsMove

\* cancel() of one turn: an unknown one is not cancelled, and not begun either.
LEMMA CancelTurnMoves ==
  ASSUME Runs(gen, sess, turns, overlapped), NEW cl,
         Records(gen, sess.history, overlapped, cl), NEW t \in Turns, CancelTurn(t)
  PROVE  Moved(cl) /\ (turns[t].known => turns'[t].known /\ turns'[t].cancelled)
  <1>1. turns \in [Turns -> ControlType]
    BY DEF Runs, RunType
  <1>2. CASE turns[t].known /\ ~turns[t].cancelled
    <2>1. turns' = [turns EXCEPT ![t].cancelled = TRUE]
          /\ gen' = gen /\ sess' = sess /\ overlapped' = overlapped
      BY <1>2 DEF CancelTurn
    <2>2. turns' \in [Turns -> ControlType] /\ \A u \in Turns \ {t} : turns'[u] = turns[u]
      BY <1>1, <2>1 DEF ControlType
    <2>3. /\ turns'[t].cancelled = TRUE
          /\ turns'[t].emitted = turns[t].emitted /\ turns'[t].last = turns[t].last
      BY <1>1, <2>1 DEF ControlType
    <2>4. turns'[t].known = turns[t].known
      BY <1>1, <2>1 DEF ControlType
    <2>5. ASSUME NEW u \in Turns
          PROVE  /\ turns'[u].known = turns[u].known
                 /\ turns'[u].emitted = turns[u].emitted /\ turns'[u].last = turns[u].last
                 /\ turns[u].cancelled => turns'[u].cancelled
      BY <2>2, <2>3, <2>4, Zenon
    <2>6. \A s \in Streams : gen[s].turn # 0 => gen[s].turn \in Turns
      BY DEF Runs, RunType, GenType
    <2>7. Moved(cl)
      BY <2>1, <2>2, <2>5, <2>6, ControlsMove, Zenon
    <2> QED
      BY <2>3, <2>4, <2>7, Zenon
  <1>3. CASE ~(turns[t].known /\ ~turns[t].cancelled)
    <2>1. UNCHANGED vars
      BY <1>3 DEF CancelTurn, vars
    <2>2. turns' = turns
      BY <2>1 DEF vars
    <2> QED
      BY <1>3, <2>1, <2>2, NothingMoves, Zenon
  <1> QED
    BY <1>2, <1>3

\* The session's end cancels every turn that is known.
LEMMA CancelSessionMoves ==
  ASSUME Runs(gen, sess, turns, overlapped), NEW cl,
         Records(gen, sess.history, overlapped, cl), CancelSession
  PROVE  Moved(cl)
  <1>1. turns \in [Turns -> ControlType]
    BY DEF Runs, RunType
  <1>2. /\ turns' = [t \in Turns |-> [turns[t] EXCEPT !.cancelled = @ \/ turns[t].known]]
        /\ gen' = gen /\ sess' = sess /\ overlapped' = overlapped
    BY DEF CancelSession
  <1>3. ASSUME NEW c \in ControlType, NEW b \in BOOLEAN
        PROVE  LET k == [c EXCEPT !.cancelled = b] IN
               /\ k \in ControlType /\ k.known = c.known /\ k.emitted = c.emitted
               /\ k.last = c.last /\ k.cancelled = b
    BY DEF ControlType
  <1>4. ASSUME NEW t \in Turns
        PROVE  /\ turns'[t] \in ControlType
               /\ turns'[t].known = turns[t].known
               /\ turns'[t].emitted = turns[t].emitted /\ turns'[t].last = turns[t].last
               /\ turns[t].cancelled => turns'[t].cancelled
    <2> DEFINE b == turns[t].cancelled \/ turns[t].known
    <2>1. b \in BOOLEAN
      OBVIOUS
    <2>2. turns'[t] = [turns[t] EXCEPT !.cancelled = b]
      BY <1>2
    <2>3. turns[t].cancelled => b
      OBVIOUS
    <2> HIDE DEF b
    <2>4. turns[t] \in ControlType
      BY <1>1
    <2> DEFINE k == [turns[t] EXCEPT !.cancelled = b]
    <2>5. /\ k \in ControlType /\ k.known = turns[t].known /\ k.emitted = turns[t].emitted
          /\ k.last = turns[t].last /\ k.cancelled = b
      BY <1>3, <2>1, <2>4, Zenon
    <2> HIDE DEF k
    <2>6. turns'[t] = k
      BY <2>2 DEF k
    <2> QED
      BY <2>3, <2>5, <2>6, Zenon
  <1>5. turns' \in [Turns -> ControlType]
    BY <1>2, <1>4
  <1>6. \A s \in Streams : gen[s].turn # 0 => gen[s].turn \in Turns
    BY DEF Runs, RunType, GenType
  <1> QED
    BY <1>2, <1>4, <1>5, <1>6, ControlsMove, Zenon

\* restart() registers a turn that has not begun, release() forgets one that is done.
LEMMA RegistryMoves ==
  ASSUME Runs(gen, sess, turns, overlapped), NEW cl,
         Records(gen, sess.history, overlapped, cl), NEW t \in Turns,
         Restart(t) \/ Release(t)
  PROVE  Moved(cl)
  <1>1. /\ turns \in [Turns -> ControlType]
        /\ \A s \in Streams : gen[s].turn # 0 => gen[s].turn \in Turns
        /\ \A r, s \in Streams : gen[r].turn = gen[s].turn /\ gen[s].turn # 0 => r = s
    BY DEF Runs, RunType, GenType, Numbered
  <1>2. t # 0
    BY TurnsOfStreams
  <1>3. CASE Restart(t)
    <2>1. /\ \A s \in Streams : gen[s].turn # t
          /\ turns' = [turns EXCEPT ![t] = NewControl]
          /\ gen' = gen /\ sess' = sess /\ overlapped' = overlapped
      BY <1>3 DEF Restart
    <2>2. turns' \in [Turns -> ControlType] /\ \A u \in Turns \ {t} : turns'[u] = turns[u]
      BY <1>1, <2>1, ControlTypes
    <2>3. \A s \in Streams : gen[s].turn # 0 => turns'[gen[s].turn] = turns[gen[s].turn]
      BY <1>1, <2>1, <2>2
    <2> QED
      BY <2>1, <2>2, <2>3, ControlsMove, Zenon
  <1>4. CASE Release(t)
    <2>1. PICK r \in Streams : gen[r].turn = t /\ gen[r].pc = "done"
      BY <1>4 DEF Release
    <2>2. /\ turns' = [turns EXCEPT ![t] = NoControl]
          /\ gen' = gen /\ sess' = sess /\ overlapped' = overlapped
      BY <1>4 DEF Release
    <2>3. /\ turns' \in [Turns -> ControlType] /\ turns'[t] = NoControl
          /\ \A u \in Turns \ {t} : turns'[u] = turns[u]
      BY <1>1, <2>2, ControlTypes
    <2>4. ASSUME NEW s \in Streams, gen[s].turn # 0
          PROVE  \/ turns'[gen[s].turn] = turns[gen[s].turn]
                 \/ gen[s].pc = "done" /\ turns'[gen[s].turn] = NoControl
      <3>1. CASE gen[s].turn = t
        BY <3>1, <2>1, <2>3, <1>1, <1>2
      <3>2. CASE gen[s].turn # t
        BY <3>2, <2>3, <2>4, <1>1
      <3> QED
        BY <3>1, <3>2
    <2>5. ASSUME NEW s \in Streams, gen[s].turn # 0
          PROVE LET old == turns[gen[s].turn]
                    new == turns'[gen[s].turn]
                IN  /\ new.known => /\ old.known
                                    /\ new.emitted = old.emitted /\ new.last = old.last
                    /\ gen[s].pc # "done" => /\ old.known => new.known
                                             /\ old.known /\ old.cancelled => new.cancelled
      BY <2>4, <2>5, ControlTypes, Zenon
    <2> QED
      BY <2>2, <2>3, <2>5, ControlsMove, Zenon
  <1> QED
    BY <1>3, <1>4

-----------------------------------------------------------------------------
(* The decode streams *)

\* The records of streams that were left by their decoder stay true of more of them.
LEMMA RecordsOfMore ==
  ASSUME NEW g, NEW hist, NEW ov, NEW cl, NEW cl2, Records(g, hist, ov, cl), cl \subseteq cl2
  PROVE  Records(g, hist, ov, cl2)
  <1>1. ASSUME NEW s \in Streams, NEW rec, Fits(g[s], rec, s \in cl)
        PROVE  Fits(g[s], rec, s \in cl2)
    BY <1>1 DEF Fits
  <1>2. \A s \in Streams \ ov, i \in 1 .. Len(hist) :
          hist[i].turn = g[s].turn => Fits(g[s], hist[i], s \in cl2)
    BY <1>1, Zenon DEF Records
  <1> QED
    BY <1>2, Zenon DEF Records

\* A decode stream that is left alone is cut off as before.
LEMMA CutStays ==
  ASSUME NEW d, NEW x, NEW ts, NEW i, CutOff(d, x, ts, i),
         NEW y, NEW ts2, Silent(x, ts, y, ts2), NEW j, j = i \/ j = TRUE
  PROVE  CutOff(d, y, ts2, j)
  BY DEF CutOff, Silent

\* One decode stream moves, with its generator or without.
LEMMA StreamMoves ==
  ASSUME IInv, NEW s \in Streams, Moved(Closed(dec)),
         dec' \in [Streams -> DecType], \A r \in Streams \ {s} : dec'[r] = dec[r],
         dec[s].pc = "closed" => dec'[s].pc = "closed",
         interrupted' \in BOOLEAN, interrupted => interrupted',
         CutOff(dec'[s], gen'[s], turns', interrupted')
  PROVE  IInv'
  <1>1. /\ Runs(gen', sess', turns', overlapped')
        /\ Records(gen', sess'.history, overlapped', Closed(dec))
        /\ StoppedStay(gen, turns, gen', turns')
    BY DEF Moved
  <1>2. TypeOK'
    BY <1>1 DEF Runs, TypeOK
  <1>3. ASSUME NEW r \in Streams
        PROVE  CutOff(dec'[r], gen'[r], turns', interrupted')
    <2>1. CASE r = s
      BY <2>1
    <2>2. CASE r # s
      <3>1. /\ dec'[r] = dec[r] /\ CutOff(dec[r], gen[r], turns, interrupted)
            /\ Silent(gen[r], turns, gen'[r], turns')
        BY <2>2, <1>1 DEF IInv, CutsHold, StoppedStay
      <3>2. interrupted' = interrupted \/ interrupted' = TRUE
        BY DEF IInv, TypeOK
      <3>3. CutOff(dec[r], gen'[r], turns', interrupted')
        BY <3>1, <3>2, CutStays, Zenon
      <3> QED
        BY <3>1, <3>3
    <2> QED
      BY <2>1, <2>2
  <1>4. CutsHold'
    BY <1>3 DEF CutsHold
  <1>5. \A r \in Streams : dec[r].pc = "closed" => dec'[r].pc = "closed"
    <2> TAKE r \in Streams
    <2> QED
      BY Zenon
  <1>6. Closed(dec) \subseteq Closed(dec')
    BY <1>5 DEF Closed
  <1>7. Records(gen', sess'.history, overlapped', Closed(dec'))
    BY <1>1, <1>6, RecordsOfMore, Zenon
  <1> QED
    BY <1>1, <1>2, <1>4, <1>7 DEF IInv

\* What one more frame changes of a decode stream.
LEMMA FramePlayed ==
  ASSUME NEW d \in DecType
  PROVE  /\ Played(d) \in DecType /\ Played(d).pc = d.pc /\ Played(d).cut = d.cut
         /\ Played(d).revived = d.revived
         /\ Played(d).after = (IF d.cut THEN d.after + 1 ELSE d.after)
  <1>1. LET e == [d EXCEPT !.after = @ + 1] IN
            e \in DecType /\ e.pc = d.pc /\ e.after = d.after + 1 /\ e.cut = d.cut
            /\ e.revived = d.revived
    BY DEF DecType
  <1> QED
    BY <1>1 DEF Played

\* What the joiner holds back is no more than one crossfade (waveform.py:99).
LEMMA HeldBack ==
  ASSUME NEW tail \in 0 .. Crossfade, NEW len \in Nat, NEW final
  PROVE  Push(tail, len, final).tail \in 0 .. Crossfade
  <1> DEFINE m == IF tail = 0 THEN len ELSE Joined(tail, len)
             cut == SplitTail(m)
  <1>1. m \in Nat /\ Crossfade \in Nat
    BY DecoderAssumption DEF Joined
  <1> HIDE DEF m
  <1>2. cut.tail \in 0 .. Crossfade /\ cut.playable \in Nat
    BY <1>1 DEF SplitTail
  <1> HIDE DEF cut
  <1>3. Push(tail, len, final)
          = IF final THEN [playable |-> cut.playable + cut.tail, tail |-> 0] ELSE cut
    BY Zenon DEF Push, cut, m
  <1> QED
    BY <1>1, <1>2, <1>3

\* What the invariant says of the stream that moves.
LEMMA StreamAt ==
  ASSUME IInv, NEW s \in Streams
  PROVE  /\ Runs(gen, sess, turns, overlapped)
         /\ Records(gen, sess.history, overlapped, Closed(dec))
         /\ dec \in [Streams -> DecType] /\ dec[s] \in DecType
         /\ interrupted \in BOOLEAN
         /\ CutOff(dec[s], gen[s], turns, interrupted)
         /\ gen[s] \in GenType /\ gen \in [Streams -> GenType] /\ InStep(gen[s]) /\ Counts(gen[s], turns)
  BY DEF IInv, TypeOK, CutsHold, Runs, RunType

\* An entry of a function is replaced.
LEMMA OneStreamChanges ==
  ASSUME dec \in [Streams -> DecType], NEW s \in Streams, NEW e \in DecType,
         dec' = [dec EXCEPT ![s] = e]
  PROVE  /\ dec' \in [Streams -> DecType] /\ dec'[s] = e
         /\ \A r \in Streams \ {s} : dec'[r] = dec[r]
  OBVIOUS

\* reset() at the start of a stream: the streams a barge-in had cut off are marked.
LEMMA StartDecodeKeeps ==
  ASSUME IInv, NEW s \in Streams, StartDecode(s)
  PROVE  IInv'
  <1>1. /\ dec[s].pc = "new" /\ interrupted' = FALSE
        /\ dec' = [r \in Streams |-> IF r = s THEN [dec[s] EXCEPT !.pc = "pull"]
                                     ELSE IF Decoding(r) /\ dec[r].cut
                                     THEN [dec[r] EXCEPT !.revived = TRUE] ELSE dec[r]]
        /\ UNCHANGED vars
    BY DEF StartDecode
  <1>2. Moved(Closed(dec))
    BY <1>1, StreamAt, NothingMoves
  <1>3. ASSUME NEW r \in Streams
        PROVE  /\ dec'[r] \in DecType
               /\ dec'[r].pc = "closed" <=> dec[r].pc = "closed"
               /\ CutOff(dec'[r], gen[r], turns, interrupted')
    <2>1. dec[r] \in DecType /\ CutOff(dec[r], gen[r], turns, interrupted)
      BY StreamAt
    <2>2. CASE r = s
      <3>1. dec'[r] = [dec[r] EXCEPT !.pc = "pull"]
        BY <1>1, <2>2
      <3>2. /\ dec'[r] \in DecType /\ dec'[r].pc = "pull" /\ dec'[r].after = dec[r].after
            /\ dec'[r].cut = dec[r].cut /\ dec'[r].revived = dec[r].revived
        BY <2>1, <3>1 DEF DecType
      <3>3. ~dec[r].cut /\ dec[r].after = 0
        BY <1>1, <2>1, <2>2 DEF CutOff
      <3> QED
        BY <1>1, <2>2, <3>2, <3>3 DEF CutOff
    <2>3. CASE r # s /\ Decoding(r) /\ dec[r].cut
      <3>1. dec'[r] = [dec[r] EXCEPT !.revived = TRUE]
        BY <1>1, <2>3
      <3>2. /\ dec'[r] \in DecType /\ dec'[r].pc = dec[r].pc /\ dec'[r].after = dec[r].after
            /\ dec'[r].cut = dec[r].cut /\ dec'[r].revived = TRUE
        BY <2>1, <3>1 DEF DecType
      <3>3. dec'[r].after <= 2
        BY <2>1, <3>2 DEF CutOff, DecType
      <3> QED
        BY <2>1, <3>2, <3>3 DEF CutOff
    <2>4. CASE r # s /\ ~(Decoding(r) /\ dec[r].cut)
      <3>1. dec'[r] = dec[r]
        BY <1>1, <2>4
      <3>2. CutOff(dec[r], gen[r], turns, interrupted')
        BY <2>1, <2>4 DEF CutOff, Decoding
      <3> QED
        BY <2>1, <3>1, <3>2
    <2> QED
      BY <2>2, <2>3, <2>4
  <1>4. dec' \in [Streams -> DecType]
    <2>1. \A r \in Streams : dec'[r] \in DecType
      BY <1>3
    <2>2. dec' = [r \in Streams |-> dec'[r]]
      BY <1>1
    <2> QED
      BY <2>1, <2>2
  <1>5. /\ Runs(gen', sess', turns', overlapped')
        /\ Records(gen', sess'.history, overlapped', Closed(dec))
    BY <1>2 DEF Moved
  <1>6. TypeOK'
    BY <1>1, <1>4, <1>5 DEF Runs, TypeOK
  <1>7. CutsHold'
    <2>1. gen' = gen /\ turns' = turns
      BY <1>1 DEF vars
    <2> QED
      BY <1>3, <2>1 DEF CutsHold
  <1>8. Closed(dec') = Closed(dec)
    BY <1>3 DEF Closed
  <1> QED
    BY <1>5, <1>6, <1>7, <1>8 DEF IInv

\* The session moves while the decode streams stay where they are.
LEMMA StreamsWait ==
  ASSUME IInv, Moved(Closed(dec)), UNCHANGED dvars
  PROVE  IInv'
  <1>1. dec' = dec /\ interrupted' = interrupted
    BY DEF dvars
  <1>2. /\ Runs(gen', sess', turns', overlapped')
        /\ Records(gen', sess'.history, overlapped', Closed(dec))
        /\ StoppedStay(gen, turns, gen', turns')
    BY DEF Moved
  <1>3. TypeOK'
    BY <1>1, <1>2 DEF Runs, TypeOK, IInv
  <1>4. ASSUME NEW s \in Streams
        PROVE  CutOff(dec[s], gen'[s], turns', interrupted)
    <2>1. Silent(gen[s], turns, gen'[s], turns')
      BY <1>2 DEF StoppedStay
    <2> QED
      BY <2>1, StreamAt, CutStays, Zenon
  <1>5. CutsHold'
    BY <1>1, <1>4 DEF CutsHold
  <1> QED
    BY <1>1, <1>2, <1>3, <1>5 DEF IInv

\* Input arrives for a stream.
LEMMA IngestKeeps ==
  ASSUME IInv, NEW s \in Streams, Ingest(s)
  PROVE  IInv'
  <1>1. Moved(Closed(dec))
    BY StreamAt, ChunkMoves, EndOfInputMoves, Zenon DEF Ingest
  <1> QED
    BY <1>1, StreamsWait DEF Ingest

\* A chunk arrives only of a generator that has not stopped, so no cut stream gets
\* back to its sleep.
LEMMA ReceiveKeeps ==
  ASSUME IInv, NEW s \in Streams, Receive(s)
  PROVE  IInv'
  <1> DEFINE p == IF interrupted THEN "closed" ELSE "sleep"
             e == [dec[s] EXCEPT !.pc = p]
  <1>1. dec[s].pc = "pull" /\ Emit(s) /\ interrupted' = interrupted
    BY DEF Receive
  <1>2. Moved(Closed(dec)) /\ (gen'[s].pc = "yielded" => ~Stopped(gen[s], turns))
    BY <1>1, StreamAt, EmitMoves, Zenon
  <1>3. CASE gen'[s].pc # "yielded"
    <2>1. dec' = dec
      BY <1>3 DEF Receive
    <2> QED
      BY <1>1, <1>2, <2>1, StreamsWait DEF dvars
  <1>4. CASE gen'[s].pc = "yielded"
    <2>1. dec' = [dec EXCEPT ![s].pc = p]
      BY <1>4 DEF Receive
    <2>2. dec' = [dec EXCEPT ![s] = e]
      BY <2>1
    <2>3. p \in {"new", "pull", "sleep", "playing", "closed"} /\ p # "new"
          /\ p \notin {"playing", "pull"}
      OBVIOUS
    <2> HIDE DEF p
    <2>4. /\ e \in DecType /\ e.pc = p /\ e.after = dec[s].after /\ e.cut = dec[s].cut
          /\ e.revived = dec[s].revived
      BY <2>3, StreamAt DEF DecType
    <2> HIDE DEF e
    <2>5. ~dec[s].cut /\ dec[s].after = 0
      BY <1>2, <1>4, StreamAt DEF CutOff
    <2>6. CutOff(e, gen'[s], turns', interrupted')
      BY <2>3, <2>4, <2>5 DEF CutOff
    <2>7. /\ dec' \in [Streams -> DecType] /\ dec'[s] = e
          /\ \A r \in Streams \ {s} : dec'[r] = dec[r]
      BY <2>2, <2>4, StreamAt, OneStreamChanges, Zenon
    <2>8. interrupted' \in BOOLEAN /\ (interrupted => interrupted')
      BY <1>1, StreamAt
    <2> QED
      BY <1>1, <1>2, <2>6, <2>7, <2>8, StreamMoves
  <1> QED
    BY <1>3, <1>4

\* Going back for the next chunk: what was played so far is at most one frame.
LEMMA AskNextKeeps ==
  ASSUME IInv, NEW s \in Streams, NEW d \in DecType, AskNext(s, d),
         interrupted' = interrupted, dec[s].pc \in {"sleep", "playing"},
         d.after = dec[s].after, d.cut = dec[s].cut, d.revived = dec[s].revived
  PROVE  IInv'
  <1> DEFINE e == [d EXCEPT !.pc = "pull"]
  <1>1. Pull(s) /\ dec' = [dec EXCEPT ![s] = e]
    BY DEF AskNext
  <1>2. Moved(Closed(dec)) /\ Silent(gen[s], turns, gen'[s], turns')
    <2>1. Moved(Closed(dec))
      BY <1>1, StreamAt, PullMoves, Zenon
    <2> QED
      BY <2>1 DEF Moved, StoppedStay
  <1>3. /\ e \in DecType /\ e.pc = "pull" /\ e.after = d.after /\ e.cut = d.cut
        /\ e.revived = d.revived
    BY DEF DecType
  <1> HIDE DEF e
  <1>4. CutOff(dec[s], gen'[s], turns', interrupted)
    BY <1>2, StreamAt, CutStays, Zenon
  <1>5. CutOff(e, gen'[s], turns', interrupted')
    <2>1. dec[s].after <= 1
      BY <1>4 DEF CutOff
    <2> QED
      BY <2>1, <1>3, <1>4 DEF CutOff
  <1>6. /\ dec' \in [Streams -> DecType] /\ dec'[s] = e
        /\ \A r \in Streams \ {s} : dec'[r] = dec[r]
    BY <1>1, <1>3, StreamAt, OneStreamChanges, Zenon
  <1> QED
    BY <1>2, <1>5, <1>6, StreamAt, StreamMoves

\* The chunk that was received is played: after a barge-in, the only one.
LEMMA DecodeKeeps ==
  ASSUME IInv, NEW s \in Streams, Decode(s)
  PROVE  IInv'
  <1>1. dec[s].pc = "sleep" /\ interrupted' = interrupted
    BY DEF Decode
  <1> DEFINE final == gen[s].step = gen[s].n - 1
  <1>2. PICK len \in ChunkLengths :
          LET joined == Push(dec[s].tail, len, final)
              d == [dec[s] EXCEPT !.tail = joined.tail, !.final = final]
          IN  IF joined.playable > 0
              THEN /\ dec' = [dec EXCEPT ![s] = [Played(d) EXCEPT !.pc = "playing"]]
                   /\ UNCHANGED vars
              ELSE AskNext(s, d)
    BY Zenon DEF Decode
  <1> DEFINE joined == Push(dec[s].tail, len, final)
             d == [dec[s] EXCEPT !.tail = joined.tail, !.final = final]
             e == [Played(d) EXCEPT !.pc = "playing"]
  <1>3. joined.tail \in 0 .. Crossfade /\ final \in BOOLEAN
    <2>1. dec[s].tail \in 0 .. Crossfade /\ len \in Nat
      BY StreamAt, DecoderAssumption DEF DecType
    <2> HIDE DEF final
    <2>2. joined.tail \in 0 .. Crossfade
      BY <2>1, HeldBack
    <2>3. final \in BOOLEAN
      BY DEF final
    <2> QED
      BY <2>2, <2>3
  <1>4. (dec' = [dec EXCEPT ![s] = e] /\ UNCHANGED vars) \/ AskNext(s, d)
    BY <1>2, Zenon
  <1> HIDE DEF final, joined
  <1>5. /\ d \in DecType /\ d.pc = "sleep" /\ d.after = dec[s].after /\ d.cut = dec[s].cut
        /\ d.revived = dec[s].revived
    BY <1>1, <1>3, StreamAt DEF DecType
  <1> HIDE DEF d
  <1>6. CASE AskNext(s, d)
    BY <1>1, <1>5, <1>6, AskNextKeeps
  <1>7. CASE dec' = [dec EXCEPT ![s] = e] /\ UNCHANGED vars
    <2>1. Moved(Closed(dec)) /\ Silent(gen[s], turns, gen'[s], turns')
      <3>1. Moved(Closed(dec))
        BY <1>7, StreamAt, NothingMoves
      <3> QED
        BY <3>1 DEF Moved, StoppedStay
    <2>2. /\ Played(d) \in DecType /\ Played(d).cut = d.cut /\ Played(d).revived = d.revived
          /\ Played(d).after = IF d.cut THEN d.after + 1 ELSE d.after
      BY <1>5, FramePlayed
    <2>3. /\ e \in DecType /\ e.pc = "playing" /\ e.after = Played(d).after
          /\ e.cut = Played(d).cut /\ e.revived = Played(d).revived
      <3> HIDE DEF e
      <3> QED
        BY <2>2 DEF DecType, e
    <2> HIDE DEF e
    <2>4. CutOff(dec[s], gen'[s], turns', interrupted)
      BY <2>1, StreamAt, CutStays, Zenon
    <2>5. e.after = IF dec[s].cut THEN dec[s].after + 1 ELSE dec[s].after
      BY <1>5, <2>2, <2>3
    <2>6. dec[s].after = 0
      BY <1>1, <2>4 DEF CutOff
    <2>7. e.cut = dec[s].cut /\ e.revived = dec[s].revived
      BY <1>5, <2>2, <2>3
    <2>8. CutOff(e, gen'[s], turns', interrupted')
      BY <1>1, <2>3, <2>4, <2>5, <2>6, <2>7 DEF CutOff
    <2>9. /\ dec' \in [Streams -> DecType] /\ dec'[s] = e
          /\ \A r \in Streams \ {s} : dec'[r] = dec[r]
      BY <1>7, <2>3, StreamAt, OneStreamChanges, Zenon
    <2> QED
      BY <1>1, <2>1, <2>8, <2>9, StreamAt, StreamMoves
  <1> QED
    BY <1>4, <1>6, <1>7

\* A decode stream that ends.
LEMMA StreamEnds ==
  ASSUME IInv, NEW s \in Streams, Moved(Closed(dec)), interrupted' = interrupted,
         NEW e \in DecType, dec' = [dec EXCEPT ![s] = e],
         e.pc = "closed", e.cut = dec[s].cut, e.revived = dec[s].revived,
         ~e.cut => e.after = 0, e.after <= (IF e.revived THEN 2 ELSE 1)
  PROVE  IInv'
  <1>1. Silent(gen[s], turns, gen'[s], turns')
    BY DEF Moved, StoppedStay
  <1>2. CutOff(dec[s], gen'[s], turns', interrupted)
    BY <1>1, StreamAt, CutStays, Zenon
  <1>3. CutOff(e, gen'[s], turns', interrupted')
    BY <1>2 DEF CutOff
  <1>4. /\ dec' \in [Streams -> DecType] /\ dec'[s] = e
        /\ \A r \in Streams \ {s} : dec'[r] = dec[r]
    BY StreamAt, OneStreamChanges, Zenon
  <1> QED
    BY <1>3, <1>4, StreamAt, StreamMoves

\* The player comes back for the next frame, or has had the last one.
LEMMA NextFrameKeeps ==
  ASSUME IInv, NEW s \in Streams, NextFrame(s)
  PROVE  IInv'
  <1>1. dec[s].pc = "playing" /\ interrupted' = interrupted
    BY DEF NextFrame
  <1>2. CASE dec[s].final
    <2> DEFINE e == [dec[s] EXCEPT !.pc = "closed"]
    <2>1. dec' = [dec EXCEPT ![s].pc = "closed"] /\ UNCHANGED vars
      BY <1>2 DEF NextFrame
    <2>2. dec' = [dec EXCEPT ![s] = e]
      BY <2>1
    <2>3. /\ e \in DecType /\ e.pc = "closed" /\ e.after = dec[s].after
          /\ e.cut = dec[s].cut /\ e.revived = dec[s].revived
      BY StreamAt DEF DecType
    <2> HIDE DEF e
    <2>4. (~e.cut => e.after = 0) /\ e.after <= (IF e.revived THEN 2 ELSE 1)
      BY <2>3, StreamAt DEF CutOff
    <2>5. Moved(Closed(dec))
      BY <2>1, StreamAt, NothingMoves
    <2> QED
      BY <1>1, <2>2, <2>3, <2>4, <2>5, StreamEnds
  <1>3. CASE ~dec[s].final
    <2>1. AskNext(s, dec[s])
      BY <1>3 DEF NextFrame
    <2> QED
      BY <1>1, <2>1, StreamAt, AskNextKeeps
  <1> QED
    BY <1>2, <1>3

\* The tail is played at the end of an uninterrupted stream, so after a barge-in
\* only of one that another stream's start has revived.
LEMMA FlushKeeps ==
  ASSUME IInv, NEW s \in Streams, Flush(s)
  PROVE  IInv'
  <1> DEFINE plays == ~dec[s].final /\ ~interrupted /\ dec[s].tail > 0
             d == IF plays THEN Played(dec[s]) ELSE dec[s]
             e == [d EXCEPT !.pc = "closed", !.tail = 0]
  <1>1. dec[s].pc = "pull" /\ interrupted' = interrupted /\ UNCHANGED vars
    BY DEF Flush
  <1>2. dec' = [dec EXCEPT ![s] = e]
    BY Zenon DEF Flush
  <1>3. /\ dec[s] \in DecType /\ Played(dec[s]) \in DecType
        /\ Played(dec[s]).cut = dec[s].cut /\ Played(dec[s]).revived = dec[s].revived
        /\ Played(dec[s]).after = IF dec[s].cut THEN dec[s].after + 1 ELSE dec[s].after
    <2>1. dec[s] \in DecType
      BY StreamAt
    <2> QED
      BY <2>1, FramePlayed
  <1>4. CASE plays
    <2>1. d = Played(dec[s]) /\ ~interrupted
      BY <1>4
    <2> HIDE DEF d, plays
    <2>2. /\ e \in DecType /\ e.pc = "closed" /\ e.cut = dec[s].cut
          /\ e.revived = dec[s].revived
          /\ e.after = IF dec[s].cut THEN dec[s].after + 1 ELSE dec[s].after
      <3>1. d \in DecType /\ 0 \in 0 .. Crossfade
        BY <1>3, <2>1, DecoderAssumption
      <3>2. /\ e \in DecType /\ e.pc = "closed" /\ e.cut = d.cut
            /\ e.revived = d.revived /\ e.after = d.after
        BY <3>1 DEF DecType
      <3> HIDE DEF e
      <3> QED
        BY <3>2, <2>1, <1>3
    <2> HIDE DEF e
    <2>3. (~e.cut => e.after = 0) /\ e.after <= (IF e.revived THEN 2 ELSE 1)
      BY <1>1, <2>1, <2>2, StreamAt DEF CutOff, DecType
    <2>4. Moved(Closed(dec))
      BY <1>1, StreamAt, NothingMoves
    <2> QED
      BY <1>1, <1>2, <2>2, <2>3, <2>4, StreamEnds
  <1>5. CASE ~plays
    <2>1. d = dec[s]
      BY <1>5
    <2> HIDE DEF d, plays
    <2>2. /\ e \in DecType /\ e.pc = "closed" /\ e.cut = dec[s].cut
          /\ e.revived = dec[s].revived /\ e.after = dec[s].after
      <3>1. d \in DecType /\ 0 \in 0 .. Crossfade
        BY <1>3, <2>1, DecoderAssumption
      <3>2. /\ e \in DecType /\ e.pc = "closed" /\ e.cut = d.cut
            /\ e.revived = d.revived /\ e.after = d.after
        BY <3>1 DEF DecType
      <3> HIDE DEF e
      <3> QED
        BY <3>2, <2>1
    <2> HIDE DEF e
    <2>3. (~e.cut => e.after = 0) /\ e.after <= (IF e.revived THEN 2 ELSE 1)
      BY <2>2, StreamAt DEF CutOff
    <2>4. Moved(Closed(dec))
      BY <1>1, StreamAt, NothingMoves
    <2> QED
      BY <1>1, <1>2, <2>2, <2>3, <2>4, StreamEnds
  <1> QED
    BY <1>4, <1>5

\* A generator that its decoder has left is closed.
LEMMA CollectKeeps ==
  ASSUME IInv, NEW s \in Streams, Collect(s)
  PROVE  IInv'
  <1>1. s \in Closed(dec) /\ Drop(s)
    BY DEF Collect, Closed
  <1>2. Moved(Closed(dec))
    BY <1>1, StreamAt, DropMoves, Zenon
  <1> QED
    BY <1>2, StreamsWait DEF Collect

\* The input's task is cancelled.
LEMMA LoseInputKeeps ==
  ASSUME IInv, NEW s \in Streams, LoseInput(s)
  PROVE  IInv'
  <1> DEFINE e == [dec[s] EXCEPT !.pc = "closed"]
  <1>1. Abandon(s) /\ dec' = [dec EXCEPT ![s].pc = "closed"] /\ interrupted' = interrupted
    BY DEF LoseInput
  <1>2. Moved(Closed(dec))
    BY <1>1, StreamAt, AbandonMoves, Zenon
  <1>3. dec' = [dec EXCEPT ![s] = e]
    BY <1>1
  <1>4. /\ e \in DecType /\ e.pc = "closed" /\ e.after = dec[s].after
        /\ e.cut = dec[s].cut /\ e.revived = dec[s].revived
    BY StreamAt DEF DecType
  <1> HIDE DEF e
  <1>5. (~e.cut => e.after = 0) /\ e.after <= (IF e.revived THEN 2 ELSE 1)
    BY <1>4, StreamAt DEF CutOff
  <1> QED
    BY <1>1, <1>2, <1>3, <1>4, <1>5, StreamEnds

\* A barge-in stops the generator it finds, or finds it done.
LEMMA BargeInKeeps ==
  ASSUME IInv, NEW s \in Streams, BargeIn(s)
  PROVE  IInv'
  <1> DEFINE e == [dec[s] EXCEPT !.cut = TRUE]
             t == gen[s].turn
  <1>1. /\ Decoding(s) /\ t # 0 /\ CancelTurn(t) /\ interrupted' = TRUE
        /\ dec' = [dec EXCEPT ![s].cut = TRUE]
    BY DEF BargeIn
  <1>2. t \in Turns
    BY <1>1, StreamAt DEF GenType
  <1>3. Moved(Closed(dec)) /\ (turns[t].known => turns'[t].known /\ turns'[t].cancelled)
    BY <1>1, <1>2, StreamAt, CancelTurnMoves, Zenon
  <1>4. gen' = gen
    BY <1>1 DEF CancelTurn
  <1>5. Stopped(gen'[s], turns')
    BY <1>1, <1>3, <1>4, StreamAt, Zenon DEF Stopped, Counts, Live
  <1>6. /\ e \in DecType /\ e.pc = dec[s].pc /\ e.after = dec[s].after
        /\ e.cut = TRUE /\ e.revived = dec[s].revived
    BY StreamAt DEF DecType
  <1>7. dec' = [dec EXCEPT ![s] = e]
    BY <1>1
  <1> HIDE DEF e
  <1>8. dec[s].pc = "sleep" => dec[s].after = 0
    BY StreamAt DEF CutOff
  <1>9. CutOff(e, gen'[s], turns', interrupted')
    BY <1>1, <1>5, <1>6, <1>8, StreamAt DEF CutOff, Decoding
  <1>10. /\ dec' \in [Streams -> DecType] /\ dec'[s] = e
         /\ \A r \in Streams \ {s} : dec'[r] = dec[r]
    BY <1>6, <1>7, StreamAt, OneStreamChanges, Zenon
  <1> QED
    BY <1>1, <1>3, <1>6, <1>9, <1>10, StreamMoves

\* Callers of the controller: cancel, release and restart, and the session's end.
LEMMA ControllerKeeps ==
  ASSUME IInv, Disconnect \/ \E t \in Turns : Cancels(t)
  PROVE  IInv'
  <1>1. Runs(gen, sess, turns, overlapped)
        /\ Records(gen, sess.history, overlapped, Closed(dec))
    BY DEF IInv
  <1>2. CASE Disconnect
    <2>1. Moved(Closed(dec))
      BY <1>1, <1>2, CancelSessionMoves, Zenon DEF Disconnect
    <2> QED
      BY <1>2, <2>1, StreamsWait DEF Disconnect
  <1>3. ASSUME NEW t \in Turns, Cancels(t) PROVE IInv'
    <2>1. Moved(Closed(dec))
      BY <1>1, <1>3, CancelTurnMoves, RegistryMoves, Zenon DEF Cancels
    <2> QED
      BY <1>3, <2>1, StreamsWait DEF Cancels
  <1> QED
    BY <1>2, <1>3

-----------------------------------------------------------------------------
(* The theorems *)

\* The invariant holds at the start: nothing has begun.
LEMMA InitKeeps == DecInit => IInv
  <1> SUFFICES ASSUME DecInit PROVE IInv
    OBVIOUS
  <1>1. PICK given \in GivenIds :
          gen = [s \in Streams |-> [pc |-> "input", given |-> given[s], turn |-> 0, in |-> 0,
                                    step |-> 0, n |-> 0, heard |-> 0]]
    BY DEF DecInit, Init
  <1>2. /\ overlapped = {} /\ sess = [counter |-> 0, active |-> 0, history |-> <<>>]
        /\ turns = [t \in Turns |-> NoControl] /\ interrupted = FALSE
        /\ dec = [s \in Streams |-> [pc |-> "new", tail |-> 0, final |-> FALSE,
                                     cut |-> FALSE, after |-> 0, revived |-> FALSE]]
    BY DEF DecInit, Init
  <1>3. /\ given \in [Streams -> {0} \cup Turns]
        /\ \/ \A s \in Streams : given[s] = 0
           \/ \A s \in Streams : given[s] # 0 /\ \A r \in Streams : given[r] = given[s] => r = s
    BY DEF GivenIds
  <1>4. ASSUME NEW s \in Streams
        PROVE  /\ gen[s] \in GenType /\ gen[s].pc = "input" /\ gen[s].given = given[s]
               /\ gen[s].turn = 0 /\ gen[s].in = 0 /\ gen[s].step = 0 /\ gen[s].heard = 0
    BY <1>1, <1>3 DEF GenType
  <1>5. gen \in [Streams -> GenType]
    BY <1>1, <1>4
  <1>6. sess \in SessType /\ sess.counter = 0 /\ sess.history = <<>>
    <2> DEFINE e == <<>>
    <2>1. e \in Seq(RecordType) /\ Len(e) = 0 /\ History \in Nat
      BY EmptySeq, RuntimeAssumption
    <2>2. sess = [counter |-> 0, active |-> 0, history |-> e]
      BY <1>2
    <2> HIDE DEF e
    <2>3. sess \in SessType /\ sess.history = e /\ sess.counter = 0
      BY <2>1, <2>2 DEF SessType
    <2> QED
      BY <2>3 DEF e
  <1>7. dec \in [Streams -> DecType]
    <2>1. [pc |-> "new", tail |-> 0, final |-> FALSE, cut |-> FALSE, after |-> 0,
           revived |-> FALSE] \in DecType
      BY DecoderAssumption DEF DecType
    <2> QED
      BY <1>2, <2>1
  <1>8. TypeOK
    BY <1>2, <1>5, <1>6, <1>7, ControlTypes DEF TypeOK, RunType
  <1>9. Numbered(gen, sess.counter)
    <2>1. Speaking(gen) = {}
      BY <1>4 DEF Speaking
    <2>2. Cardinality(Speaking(gen)) = 0
      BY <2>1, FS_EmptySet
    <2>3. \A r, s \in Streams : gen[r].turn = gen[s].turn /\ gen[s].turn # 0 => r = s
      BY <1>4
    <2>4. \/ \A s \in Streams : gen[s].given = 0 /\ gen[s].turn <= 0
          \/ /\ \A s \in Streams : gen[s].given # 0 /\ gen[s].turn \in {0, gen[s].given}
             /\ \A r, s \in Streams : gen[r].given = gen[s].given => r = s
      BY <1>3, <1>4
    <2> QED
      BY <1>6, <2>2, <2>3, <2>4 DEF Numbered
  <1>10. Runs(gen, sess, turns, overlapped)
    <2>1. \A s \in Streams : InStep(gen[s]) /\ Counts(gen[s], turns)
      BY <1>4 DEF InStep, Counts, Live
    <2> QED
      BY <1>8, <1>9, <2>1 DEF TypeOK, Runs
  <1>11. CutsHold
    BY <1>2 DEF CutsHold, CutOff
  <1>12. Records(gen, sess.history, overlapped, Closed(dec))
    <2> DEFINE e == sess.history
    <2>1. Len(e) = 0 /\ 1 .. Len(e) = {}
      BY <1>6, EmptySeq
    <2>2. \A s \in Streams : gen[s].turn = 0 /\ ~Live(gen[s])
      BY <1>4 DEF Live
    <2> HIDE DEF e
    <2>3. Records(gen, e, overlapped, Closed(dec))
      BY <2>1, <2>2 DEF Records
    <2> QED
      BY <2>3 DEF e
  <1> QED
    BY <1>8, <1>10, <1>11, <1>12 DEF IInv

\* Every step of the streams, their decoder and the controller keeps the invariant.
LEMMA NextKeeps == IInv /\ [DecNext]_allvars => IInv'
  <1> SUFFICES ASSUME IInv, [DecNext]_allvars PROVE IInv'
    OBVIOUS
  <1>1. ASSUME NEW s \in Streams, ReplyNext(s) PROVE IInv'
    BY <1>1, StartDecodeKeeps, IngestKeeps, ReceiveKeeps, DecodeKeeps, NextFrameKeeps,
       FlushKeeps, CollectKeeps, LoseInputKeeps, BargeInKeeps, Zenon DEF ReplyNext
  <1>2. CASE UNCHANGED allvars
    <2>1. UNCHANGED vars /\ UNCHANGED dvars
      BY <1>2 DEF allvars
    <2>2. Moved(Closed(dec))
      BY <2>1, NothingMoves DEF IInv
    <2> QED
      BY <2>1, <2>2, StreamsWait
  <1> QED
    BY <1>1, <1>2, ControllerKeeps, Zenon DEF DecNext

\* What the streams, the decoder and the controller keep, in every reachable state.
THEOREM Invariance == ReplySpec => []IInv
  BY InitKeeps, NextKeeps, PTL DEF ReplySpec

\* Every variable keeps its type: what the joiner holds back is at most a crossfade,
\* and the history never outgrows its deque (session_runtime.py:64).
THEOREM TypeCorrect == ReplySpec => []TypeOK
  <1>1. IInv => TypeOK
    BY DEF IInv
  <1> QED
    BY <1>1, Invariance, PTL

\* After a barge-in at most the frame that is being decoded is still played, and the
\* tail only if another stream's start has reset the controller.
THEOREM BargeInIsHeard == ReplySpec => []BargeInCutsOff
  <1>1. IInv => BargeInCutsOff
    BY DEF IInv, CutsHold, CutOff, BargeInCutsOff
  <1> QED
    BY <1>1, Invariance, PTL

\* The records say what the consumers got and how their turns ended, and an
\* interrupted turn continues where it was heard to stop.
THEOREM RecordsAreTrue == ReplySpec => []TurnsAreRecorded
  <1>1. IInv => LoneTurnIsRecorded
    <2> SUFFICES ASSUME IInv, NEW s \in Streams, NEW i \in DOMAIN sess.history,
                        s \notin overlapped, gen[s].turn = sess.history[i].turn
                 PROVE  LET r == sess.history[i] IN
                        /\ r.in = gen[s].in
                        /\ r.out = gen[s].heard
                        /\ gen[s].pc = "done" =>
                             /\ r.ended
                             /\ gen[s].heard < gen[s].n /\ dec[s].pc # "closed" => r.cancelled
      BY DEF LoneTurnIsRecorded
    <2>1. sess.history \in Seq(RecordType)
      BY DEF IInv, TypeOK, RunType, SessType
    <2>2. i \in 1 .. Len(sess.history)
      BY <2>1, LenProperties
    <2>3. Fits(gen[s], sess.history[i], s \in Closed(dec))
      BY <2>2, Zenon DEF IInv, Records
    <2>4. s \in Closed(dec) <=> dec[s].pc = "closed"
      BY DEF Closed
    <2> QED
      BY <2>3, <2>4 DEF Fits
  <1>2. IInv => ContinuationIsHeard
    <2> SUFFICES ASSUME IInv, NEW s \in Streams, gen[s].turn # 0, Cancelled(gen[s].turn)
                 PROVE  Continuation(gen[s].turn)
                          = [resumable |-> TRUE, heard |-> gen[s].heard,
                             after |-> gen[s].heard - 1]
      BY Zenon DEF ContinuationIsHeard
    <2>1. /\ turns[gen[s].turn].emitted = gen[s].heard
          /\ turns[gen[s].turn].last = gen[s].heard - 1
      BY StreamAt DEF Counts, Cancelled
    <2> QED
      BY <2>1, Zenon DEF Continuation
  <1> QED
    BY <1>1, <1>2, Invariance, PTL DEF TurnsAreRecorded

\* In every step the generators that had stopped say nothing.
LEMMA StepsAreSilent == IInv /\ [DecNext]_allvars => StoppedStay(gen, turns, gen', turns')
  <1> SUFFICES ASSUME IInv, [DecNext]_allvars
               PROVE  StoppedStay(gen, turns, gen', turns')
    OBVIOUS
  <1>1. Runs(gen, sess, turns, overlapped)
        /\ Records(gen, sess.history, overlapped, Closed(dec))
    BY DEF IInv
  <1>2. ASSUME UNCHANGED vars PROVE Moved(Closed(dec))
    BY <1>1, <1>2, NothingMoves
  <1>3. ASSUME NEW s \in Streams, Pull(s) PROVE Moved(Closed(dec))
    BY <1>1, <1>3, PullMoves, Zenon
  <1>4. ASSUME NEW s \in Streams, ReplyNext(s) PROVE Moved(Closed(dec))
    <2>1. CASE StartDecode(s)
      BY <2>1, <1>2 DEF StartDecode
    <2>2. CASE Ingest(s)
      BY <1>1, <2>2, ChunkMoves, EndOfInputMoves, Zenon DEF Ingest
    <2>3. CASE Receive(s)
      BY <1>1, <2>3, EmitMoves, Zenon DEF Receive
    <2>4. CASE Decode(s)
      <3>1. UNCHANGED vars \/ Pull(s)
        BY <2>4, Zenon DEF Decode, AskNext
      <3> QED
        BY <3>1, <1>2, <1>3
    <2>5. CASE NextFrame(s)
      <3>1. UNCHANGED vars \/ Pull(s)
        BY <2>5, Zenon DEF NextFrame, AskNext
      <3> QED
        BY <3>1, <1>2, <1>3
    <2>6. CASE Flush(s)
      BY <2>6, <1>2 DEF Flush
    <2>7. CASE Collect(s)
      <3>1. s \in Closed(dec) /\ Drop(s)
        BY <2>7 DEF Collect, Closed
      <3> QED
        BY <1>1, <3>1, DropMoves, Zenon
    <2>8. CASE LoseInput(s)
      BY <1>1, <2>8, AbandonMoves, Zenon DEF LoseInput
    <2>9. CASE BargeIn(s)
      <3>1. gen[s].turn \in Turns /\ CancelTurn(gen[s].turn)
        BY <2>9, StreamAt DEF BargeIn, GenType
      <3> QED
        BY <1>1, <3>1, CancelTurnMoves, Zenon
    <2> QED
      BY <1>4, <2>1, <2>2, <2>3, <2>4, <2>5, <2>6, <2>7, <2>8, <2>9, Zenon DEF ReplyNext
  <1>5. CASE Disconnect
    BY <1>1, <1>5, CancelSessionMoves, Zenon DEF Disconnect, Moved
  <1>6. ASSUME NEW t \in Turns, Cancels(t) PROVE Moved(Closed(dec))
    BY <1>1, <1>6, CancelTurnMoves, RegistryMoves, Zenon DEF Cancels
  <1>7. CASE UNCHANGED allvars
    BY <1>7, <1>2 DEF allvars, Moved
  <1> QED
    BY <1>4, <1>5, <1>6, <1>7, Zenon DEF DecNext, Moved

\* Once a turn is cancelled its generator yields nothing more, whatever await the
\* cancellation fell into (service.py:208-216).
THEOREM CancelledIsSilent == ReplySpec => SilentOnceCancelled
  <1> DEFINE A == \A s \in Streams : gen[s].turn # 0 /\ Cancelled(gen[s].turn) =>
                                       gen'[s].heard = gen[s].heard
  <1>1. IInv /\ [DecNext]_allvars => A
    BY StepsAreSilent DEF StoppedStay, Silent, Stopped, Cancelled
  <1>2. IInv /\ [DecNext]_allvars => [A]_allvars
    BY <1>1
  <1> HIDE DEF A
  <1>3. ReplySpec => [][A]_allvars
    BY <1>2, Invariance, PTL DEF ReplySpec
  <1> QED
    BY <1>3 DEF SilentOnceCancelled, A

=============================================================================
