---------------------------- MODULE ComponentProofs ---------------------------
(***************************************************************************)
(* The components that the turn leans on and that share no state with it,  *)
(* for any configuration and on streams of any length.  The detectors of   *)
(* the server and of the edge: utterances are kept as they were said, a    *)
(* barge-in is reported by the best balance of speech over silence, one    *)
(* cooldown after the last, and at the edge turns end once and where they  *)
(* should, and no detection counts speech of an earlier playback.  The     *)
(* helpers: phrases, speech output, replies, feelings, speakers, sessions  *)
(* and fillers are whole, in order and of the user they are for.  The      *)
(* tools: what is remembered, decided, planned, chosen and trained on is   *)
(* founded on what was said, measured, granted or approved.                *)
(***************************************************************************)
EXTENDS DetectorStreams, EdgeDetectors, Helpers, SequenceTheorems, FiniteSetTheorems,
        WellFoundedInduction, TLAPS

-----------------------------------------------------------------------------
(***************************************************************************)
(* Barge-in                                                                *)
(***************************************************************************)

\* Balance, of any sequence of frames.
BalanceOf(s, k) ==
  LET last == (Len(s) - k + 1) .. Len(s)
      voiced == {i \in last : s[i]}
  IN Cardinality(voiced) - Cardinality(last \ voiced)

Attains(s, n) == \E k \in 0 .. Len(s) : BalanceOf(s, k) >= n

\* n is the best balance a stretch up to the end of s reaches.
BestIs(s, n) == Attains(s, n) /\ ~Attains(s, n + 1)

DetType ==
  /\ det \in [speaking : BOOLEAN, count : 0 .. BargeInFrames - 1, quiet : 0 .. Cooldown]
  /\ heard \in Seq(BOOLEAN)
  /\ event \in BOOLEAN

\* After a barge-in the count starts again; before one it is the best balance.
CountHolds == IF event THEN det.count = 0 /\ Attains(heard, BargeInFrames)
           ELSE BestIs(heard, det.count)

DetInv == /\ DetType
          /\ gap = det.quiet
          /\ ~det.speaking => det.count = 0
          /\ CountHolds

\* A balance is a number; that of no frames is nothing.
LEMMA BalanceIsNumber ==
  ASSUME NEW s \in Seq(BOOLEAN), NEW k \in 0 .. Len(s)
  PROVE  BalanceOf(s, k) \in Int /\ (k = 0 => BalanceOf(s, k) = 0)
  <1> DEFINE last == (Len(s) - k + 1) .. Len(s)
             voiced == {i \in last : s[i]}
  <1>1. Len(s) \in Nat /\ k \in Nat
    OBVIOUS
  <1>2. IsFiniteSet(last)
    BY <1>1, FS_Interval
  <1>3. IsFiniteSet(voiced) /\ IsFiniteSet(last \ voiced)
    BY <1>2, FS_Subset
  <1>4. Cardinality(voiced) \in Nat /\ Cardinality(last \ voiced) \in Nat
    BY <1>3, FS_CardinalityType
  <1>5. BalanceOf(s, k) = Cardinality(voiced) - Cardinality(last \ voiced)
    BY DEF BalanceOf
  <1>6. CASE k = 0
    <2>1. last = {}
      BY <1>1, <1>6
    <2>2. voiced = {} /\ last \ voiced = {}
      BY <2>1
    <2>3. Cardinality({}) = 0
      BY FS_EmptySet
    <2>4. Cardinality(voiced) = 0 /\ Cardinality(last \ voiced) = 0
      BY <2>2, <2>3
    <2> HIDE DEF voiced, last
    <2> QED
      BY <1>5, <2>4
  <1> QED
    BY <1>4, <1>5, <1>6

\* A further frame moves the balance of every stretch that ends with it by one.
LEMMA BalanceMoves ==
  ASSUME NEW s \in Seq(BOOLEAN), NEW v \in BOOLEAN, NEW k \in 0 .. Len(s)
  PROVE  BalanceOf(Append(s, v), k + 1) = BalanceOf(s, k) + (IF v THEN 1 ELSE -1)
  <1> DEFINE n == Len(s)
             t == Append(s, v)
             last == (n - k + 1) .. n
             voiced == {i \in last : s[i]}
             last1 == (Len(t) - (k + 1) + 1) .. Len(t)
             voiced1 == {i \in last1 : t[i]}
  <1>1. n \in Nat /\ k \in Nat /\ k <= n
    OBVIOUS
  <1>2. Len(t) = n + 1 /\ t[n + 1] = v /\ \A i \in 1 .. n : t[i] = s[i]
    OBVIOUS
  <1>3. last1 = last \cup {n + 1} /\ n + 1 \notin last /\ last \subseteq 1 .. n
    BY <1>1, <1>2
  <1>4. BalanceOf(s, k) = Cardinality(voiced) - Cardinality(last \ voiced)
    BY DEF BalanceOf
  <1>5. BalanceOf(t, k + 1) = Cardinality(voiced1) - Cardinality(last1 \ voiced1)
    BY DEF BalanceOf
  <1>6. IsFiniteSet(last)
    BY <1>1, FS_Interval
  <1> HIDE DEF t, last, last1
  <1>7. IsFiniteSet(voiced) /\ IsFiniteSet(last \ voiced)
    BY <1>6, FS_Subset
  <1>8. Cardinality(voiced) \in Nat /\ Cardinality(last \ voiced) \in Nat
    BY <1>7, FS_CardinalityType
  <1>9. CASE v
    <2>1. voiced1 = voiced \cup {n + 1} /\ last1 \ voiced1 = last \ voiced /\ n + 1 \notin voiced
      BY <1>2, <1>3, <1>9
    <2>2. Cardinality(voiced1) = Cardinality(voiced) + 1
      BY <1>7, <2>1, FS_AddElement
    <2>3. Cardinality(last1 \ voiced1) = Cardinality(last \ voiced)
      BY <2>1
    <2> HIDE DEF voiced, voiced1
    <2>4. BalanceOf(t, k + 1) = BalanceOf(s, k) + 1
      BY <1>4, <1>5, <1>8, <2>2, <2>3
    <2> QED
      BY <1>9, <2>4 DEF t
  <1>10. CASE ~v
    <2>1. voiced1 = voiced /\ last1 \ voiced1 = (last \ voiced) \cup {n + 1}
          /\ n + 1 \notin last \ voiced
      BY <1>2, <1>3, <1>10
    <2>2. Cardinality(last1 \ voiced1) = Cardinality(last \ voiced) + 1
      BY <1>7, <2>1, FS_AddElement
    <2> HIDE DEF voiced, voiced1
    <2> QED
      BY <1>4, <1>5, <1>8, <1>10, <2>1, <2>2 DEF t
  <1> QED
    BY <1>9, <1>10

\* CountFrame keeps the best balance.
LEMMA CountIsBest ==
  ASSUME NEW s \in Seq(BOOLEAN), NEW v \in BOOLEAN, NEW n \in Nat, BestIs(s, n)
  PROVE  BestIs(Append(s, v), CountFrame(n, v))
  <1> DEFINE t == Append(s, v)
             d == IF v THEN 1 ELSE -1
             m == CountFrame(n, v)
  <1>1. Len(s) \in Nat /\ Len(t) = Len(s) + 1 /\ t \in Seq(BOOLEAN)
    OBVIOUS
  <1>2. m \in Nat /\ m >= n + d /\ (m = n + d \/ m = 0)
    BY DEF CountFrame
  <1>3. \A k \in 0 .. Len(s) : BalanceOf(s, k) \in Int /\ BalanceOf(t, k + 1) = BalanceOf(s, k) + d
    BY BalanceIsNumber, BalanceMoves
  <1>4. 0 \in 0 .. Len(t) /\ BalanceOf(t, 0) = 0
    <2>1. 0 \in 0 .. Len(t)
      BY <1>1
    <2> HIDE DEF t
    <2> QED
      BY <1>1, <2>1, BalanceIsNumber
  <1>5. PICK k \in 0 .. Len(s) : BalanceOf(s, k) >= n
    BY DEF BestIs, Attains
  <1> HIDE DEF t, m
  <1>6. Attains(t, m)
    <2>1. CASE m = 0
      BY <1>4, <2>1 DEF Attains
    <2>2. CASE m = n + d
      <3>1. k + 1 \in 0 .. Len(t) /\ BalanceOf(t, k + 1) >= m
        BY <1>1, <1>3, <1>5, <2>2
      <3> QED
        BY <3>1 DEF Attains
    <2> QED
      BY <1>2, <2>1, <2>2
  <1>7. ASSUME NEW j \in 0 .. Len(t) PROVE ~(BalanceOf(t, j) >= m + 1)
    <2>1. CASE j = 0
      BY <1>2, <1>4, <2>1
    <2>2. CASE j # 0
      <3>1. PICK i \in 0 .. Len(s) : j = i + 1
        <4>1. j - 1 \in 0 .. Len(s) /\ j = (j - 1) + 1
          BY <1>1, <2>2
        <4> QED
          BY <4>1
      <3>2. BalanceOf(s, i) \in Int /\ BalanceOf(t, j) = BalanceOf(s, i) + d
        BY <1>3, <3>1
      <3>3. ~(BalanceOf(s, i) >= n + 1)
        BY DEF BestIs, Attains
      <3> QED
        BY <1>2, <3>2, <3>3
    <2> QED
      BY <2>1, <2>2
  <1>8. ~Attains(t, m + 1)
    BY <1>7 DEF Attains
  <1> QED
    BY <1>6, <1>8 DEF BestIs, t, m

\* Nothing heard, nothing counted.
LEMMA NothingHeard == BestIs(<<>>, 0) /\ <<>> \in Seq(BOOLEAN)
  <1>1. <<>> \in Seq(BOOLEAN) /\ Len(<<>>) = 0 /\ 0 \in 0 .. 0
    OBVIOUS
  <1>2. BalanceOf(<<>>, 0) = 0
    BY <1>1, BalanceIsNumber
  <1>3. \A k \in 0 .. Len(<<>>) : k = 0
    BY <1>1
  <1> QED
    BY <1>1, <1>2, <1>3 DEF BestIs, Attains

\* What is kept of the frames heard is counted, once the event is over.
LEMMA KeptIsCounted ==
  ASSUME DetInv
  PROVE  Kept \in Seq(BOOLEAN) /\ BestIs(Kept, det.count)
  BY NothingHeard DEF DetInv, DetType, CountHolds, Kept

\* The two calls that change two fields of the detector.
LEMMA TwoFields ==
  ASSUME NEW d \in [speaking : BOOLEAN, count : 0 .. BargeInFrames - 1, quiet : 0 .. Cooldown]
  PROVE  /\ [d EXCEPT !.speaking = FALSE, !.count = 0]
              = [speaking |-> FALSE, count |-> 0, quiet |-> d.quiet]
         /\ [d EXCEPT !.count = 0, !.quiet = 0]
              = [speaking |-> d.speaking, count |-> 0, quiet |-> 0]
  <1>1. d = [speaking |-> d.speaking, count |-> d.count, quiet |-> d.quiet]
    OBVIOUS
  <1> DEFINE a == d.speaking
             b == d.count
             c == d.quiet
  <1> HIDE DEF a, b, c
  <1>2. d = [speaking |-> a, count |-> b, quiet |-> c]
    BY <1>1 DEF a, b, c
  <1>3. [d EXCEPT !.speaking = FALSE, !.count = 0] = [speaking |-> FALSE, count |-> 0, quiet |-> c]
    <2>1. ASSUME NEW x
          PROVE  [d EXCEPT !.speaking = x, !.count = 0] = [speaking |-> x, count |-> 0, quiet |-> c]
      <3> DEFINE r == [speaking |-> a, count |-> b, quiet |-> c]
      <3>1. [r EXCEPT !.speaking = x, !.count = 0]
              = [f \in DOMAIN r |-> IF f = "count" THEN 0 ELSE IF f = "speaking" THEN x ELSE r[f]]
        OBVIOUS
      <3>2. r.quiet = c /\ DOMAIN r = {"speaking", "count", "quiet"}
        OBVIOUS
      <3> HIDE DEF r
      <3>3. [r EXCEPT !.speaking = x, !.count = 0] = [speaking |-> x, count |-> 0, quiet |-> c]
        BY <3>1, <3>2
      <3> QED
        BY <1>2, <3>3, Zenon DEF r
    <2> QED
      BY <2>1, Zenon
  <1>4. [d EXCEPT !.count = 0, !.quiet = 0] = [speaking |-> a, count |-> 0, quiet |-> 0]
    <2> DEFINE r == [speaking |-> a, count |-> b, quiet |-> c]
    <2>1. [r EXCEPT !.count = 0, !.quiet = 0]
            = [x \in DOMAIN r |-> IF x = "quiet" THEN 0 ELSE IF x = "count" THEN 0 ELSE r[x]]
      OBVIOUS
    <2>2. r.speaking = a /\ DOMAIN r = {"speaking", "count", "quiet"}
      OBVIOUS
    <2> HIDE DEF r
    <2>3. [r EXCEPT !.count = 0, !.quiet = 0] = [speaking |-> a, count |-> 0, quiet |-> 0]
      BY <2>1, <2>2
    <2> QED
      BY <1>2, <2>3, Zenon DEF r
  <1> QED
    BY <1>3, <1>4 DEF a, c

\* A frame while the agent speaks and nothing cools down is counted, and reported
\* if it is enough; any other frame is not.
LEMMA CheckKeeps ==
  ASSUME DetInv, NEW v \in BOOLEAN, Check(v)
  PROVE  DetInv' /\ (event' => gap = Cooldown)
  <1>1. /\ det \in [speaking : BOOLEAN, count : 0 .. BargeInFrames - 1, quiet : 0 .. Cooldown]
        /\ gap = det.quiet /\ (~det.speaking => det.count = 0)
        /\ BargeInFrames \in Nat \ {0} /\ Cooldown \in Nat
    BY BargeInAssumption DEF DetInv, DetType
  <1>2. Kept \in Seq(BOOLEAN) /\ BestIs(Kept, det.count)
    BY KeptIsCounted
  <1>3. CASE ~det.speaking
    <2>1. det' = [det EXCEPT !.count = 0] /\ event' = FALSE /\ gap' = gap /\ heard' = Kept
      BY <1>3 DEF Check, CheckBargeIn, Verdict
    <2> QED
      BY <1>1, <1>2, <1>3, <2>1 DEF DetInv, DetType, CountHolds
  <1>4. CASE det.speaking /\ Cooling(det)
    <2>1. det' = det /\ event' = FALSE /\ gap' = gap
      BY <1>4 DEF Check, CheckBargeIn, Verdict
    <2>2. heard' = Kept
      BY <1>1, <1>4 DEF Check, Cooling
    <2> QED
      BY <1>1, <1>2, <2>1, <2>2 DEF DetInv, DetType, CountHolds
  <1>5. CASE det.speaking /\ ~Cooling(det)
    <2> DEFINE n == CountFrame(det.count, v)
    <2>0. gap = Cooldown
      BY <1>1, <1>5 DEF Cooling
    <2>1. gap = Cooldown /\ heard' = Append(Kept, v) /\ heard' \in Seq(BOOLEAN)
      <3>1. heard' = Append(Kept, v)
        BY <1>5, <2>0 DEF Check
      <3> QED
        BY <1>2, <2>0, <3>1
    <2>2. BestIs(heard', n)
      BY <1>1, <1>2, <2>1, CountIsBest
    <2>3. n \in Nat
      BY <1>1 DEF CountFrame
    <2>4. CASE Enough(n)
      <3>1. det' = [det EXCEPT !.count = 0, !.quiet = 0] /\ event' = TRUE /\ gap' = 0
        BY <1>5, <2>4 DEF Check, CheckBargeIn, Verdict
      <3>2. Attains(heard', BargeInFrames)
        <4>1. PICK k \in 0 .. Len(heard') : BalanceOf(heard', k) >= n
          BY <2>2 DEF BestIs, Attains
        <4>2. BalanceOf(heard', k) \in Int
          BY <2>1, BalanceIsNumber
        <4>3. BalanceOf(heard', k) >= BargeInFrames
          BY <1>1, <2>3, <2>4, <4>1, <4>2 DEF Enough
        <4> QED
          BY <4>3 DEF Attains
      <3>3. /\ det' \in [speaking : BOOLEAN, count : 0 .. BargeInFrames - 1, quiet : 0 .. Cooldown]
            /\ det'.count = 0 /\ det'.quiet = 0
        <4>1. det' = [speaking |-> det.speaking, count |-> 0, quiet |-> 0]
          BY <1>1, <3>1, TwoFields
        <4> QED
          BY <1>1, <4>1
      <3> QED
        BY <2>1, <3>1, <3>2, <3>3 DEF DetInv, DetType, CountHolds
    <2>5. CASE ~Enough(n)
      <3>1. det' = [det EXCEPT !.count = n] /\ event' = FALSE /\ gap' = gap
        BY <1>5, <2>5 DEF Check, CheckBargeIn, Verdict
      <3>2. n \in 0 .. BargeInFrames - 1
        BY <1>1, <2>3, <2>5 DEF Enough
      <3> HIDE DEF n
      <3> QED
        BY <1>1, <1>5, <2>1, <2>2, <3>1, <3>2 DEF DetInv, DetType, CountHolds
    <2> QED
      BY <2>4, <2>5
  <1> QED
    BY <1>1, <1>3, <1>4, <1>5

\* The other calls and the clock report nothing.
LEMMA OthersKeep ==
  ASSUME DetInv, StartSpeaking \/ StopSpeaking \/ Tick \/ ResetDetector
  PROVE  DetInv' /\ event' = FALSE
  <1>1. /\ det \in [speaking : BOOLEAN, count : 0 .. BargeInFrames - 1, quiet : 0 .. Cooldown]
        /\ gap = det.quiet /\ (~det.speaking => det.count = 0)
        /\ BargeInFrames \in Nat \ {0} /\ Cooldown \in Nat
    BY BargeInAssumption DEF DetInv, DetType
  <1>2. Kept \in Seq(BOOLEAN) /\ BestIs(Kept, det.count)
    BY KeptIsCounted
  <1>3. CASE StartSpeaking
    <2>1. det' = [det EXCEPT !.speaking = TRUE] /\ heard' = <<>> /\ event' = FALSE /\ gap' = gap
          /\ det.count = 0
      BY <1>1, <1>3 DEF StartSpeaking, SetAgentSpeaking
    <2> QED
      BY <1>1, <2>1, NothingHeard DEF DetInv, DetType, CountHolds
  <1>4. CASE StopSpeaking
    <2>1. det' = [det EXCEPT !.speaking = FALSE, !.count = 0] /\ heard' = <<>> /\ event' = FALSE
          /\ gap' = gap
      BY <1>4 DEF StopSpeaking, SetAgentSpeaking
    <2>2. /\ det' \in [speaking : BOOLEAN, count : 0 .. BargeInFrames - 1, quiet : 0 .. Cooldown]
          /\ det'.count = 0 /\ det'.quiet = det.quiet
      <3>1. det' = [speaking |-> FALSE, count |-> 0, quiet |-> det.quiet]
        BY <1>1, <2>1, TwoFields
      <3> QED
        BY <1>1, <3>1
    <2> QED
      BY <1>1, <2>1, <2>2, NothingHeard DEF DetInv, DetType, CountHolds
  <1>5. CASE Tick
    <2>1. /\ det' = [det EXCEPT !.quiet = IF @ + 1 < Cooldown THEN @ + 1 ELSE Cooldown]
          /\ heard' = Kept /\ event' = FALSE
          /\ gap' = IF gap < Cooldown THEN gap + 1 ELSE gap
      BY <1>5 DEF Tick, Elapse
    <2>2. gap' = det'.quiet /\ det'.quiet \in 0 .. Cooldown
      BY <1>1, <2>1
    <2>3. det' \in [speaking : BOOLEAN, count : 0 .. BargeInFrames - 1, quiet : 0 .. Cooldown]
          /\ det'.count = det.count /\ det'.speaking = det.speaking
      BY <1>1, <2>1
    <2> QED
      BY <1>1, <1>2, <2>1, <2>2, <2>3 DEF DetInv, DetType, CountHolds
  <1>6. CASE ResetDetector
    <2>1. det' = [speaking |-> FALSE, count |-> 0, quiet |-> Cooldown]
          /\ heard' = <<>> /\ event' = FALSE /\ gap' = Cooldown
      BY <1>6 DEF ResetDetector, DetectorReset
    <2>2. /\ det' \in [speaking : BOOLEAN, count : 0 .. BargeInFrames - 1, quiet : 0 .. Cooldown]
          /\ det'.count = 0 /\ det'.quiet = Cooldown
      BY <1>1, <2>1
    <2> QED
      BY <2>1, <2>2, NothingHeard DEF DetInv, DetType, CountHolds
  <1> QED
    BY <1>3, <1>4, <1>5, <1>6

\* The inductive invariant of the barge-in detector.
LEMMA BargeInvariance == BargeSpec => []DetInv
  <1>1. BargeInit => DetInv
    <2> SUFFICES ASSUME BargeInit PROVE DetInv
      OBVIOUS
    <2>1. det = [speaking |-> FALSE, count |-> 0, quiet |-> Cooldown] /\ heard = <<>>
          /\ event = FALSE /\ gap = Cooldown
      BY DEF BargeInit, DetectorReset
    <2>2. /\ det \in [speaking : BOOLEAN, count : 0 .. BargeInFrames - 1, quiet : 0 .. Cooldown]
          /\ det.count = 0 /\ det.quiet = Cooldown
      BY <2>1, BargeInAssumption
    <2> QED
      BY <2>1, <2>2, NothingHeard DEF DetInv, DetType, CountHolds
  <1>2. DetInv /\ [BargeNext]_bargeVars => DetInv'
    <2>1. DetInv /\ BargeNext => DetInv'
      BY CheckKeeps, OthersKeep DEF BargeNext
    <2>2. DetInv /\ UNCHANGED bargeVars => DetInv'
      BY DEF bargeVars, DetInv, DetType, CountHolds
    <2> QED
      BY <2>1, <2>2
  <1> QED
    BY <1>1, <1>2, PTL DEF BargeSpec

\* The count is the best balance of speech over silence of the frames that may be
\* counted, and a barge-in is reported when it reaches the threshold (barge_in.py:102).
THEOREM CountIsExact == BargeSpec => []CountIsBestBalance
  <1>1. DetInv => CountIsBestBalance
    <2> SUFFICES ASSUME DetInv PROVE CountIsBestBalance
      OBVIOUS
    <2>1. \A k : Balance(k) = BalanceOf(heard, k)
      BY DEF Balance, BalanceOf
    <2>2. \A n : (\E k \in 0 .. Len(heard) : Balance(k) >= n) <=> Attains(heard, n)
      BY <2>1 DEF Attains
    <2> QED
      BY <2>2 DEF DetInv, CountHolds, BestIs, CountIsBestBalance
  <1> QED
    BY <1>1, BargeInvariance, PTL

\* Two barge-ins between resets are at least the cooldown apart (barge_in.py:96).
THEOREM EventsKeepApart == BargeSpec => EventsAreSpaced
  <1>1. DetInv /\ [BargeNext]_bargeVars => [event' => gap = Cooldown]_bargeVars
    BY CheckKeeps, OthersKeep DEF BargeNext
  <1> QED
    BY <1>1, BargeInvariance, PTL DEF BargeSpec, EventsAreSpaced

-----------------------------------------------------------------------------
(***************************************************************************)
(* Utterances                                                              *)
(***************************************************************************)

\* The reference, of any sequence of frames.
EndsOf(s) == {j \in 1 .. Len(s) :
                /\ j > MinSilenceFrames
                /\ s[j - MinSilenceFrames]
                /\ \A i \in (j - MinSilenceFrames + 1) .. j : ~s[i]}

StretchOf(s, e) == {i \in 1 .. e : \A f \in EndsOf(s) : f < e => i > f}

OnsetOf(s, e) == Smallest({i \in StretchOf(s, e) : s[i]})

UtteranceOf(s, e) == {i \in StretchOf(s, e) : i + PreRollFrames >= OnsetOf(s, e)}

KeptOf(s) == {u \in {UtteranceOf(s, e) : e \in EndsOf(s)} : Cardinality(u) >= MinSpeechFrames}

\* A detector by its fields.
Detector(speaking, buffer, silence, preRoll) ==
  [speaking |-> speaking, buffer |-> buffer, silence |-> silence, preRoll |-> preRoll]

\* q holds the frames from b to n.
Block(q, b, n) == /\ q \in Seq(Nat)
                  /\ Len(q) = n - b + 1
                  /\ \A k \in 1 .. Len(q) : q[k] = b + k - 1

\* z is where the last utterance of s ends, 0 before the first.
LastEnd(s, z) == /\ z \in 0 .. Len(s)
                 /\ z # 0 => z \in EndsOf(s)
                 /\ \A e \in EndsOf(s) : e <= z

\* Where an utterance begins whose first voiced frame is o.
Floor(z, o) == IF o - PreRollFrames > z THEN o - PreRollFrames ELSE z + 1

\* Between utterances the detector holds the pre-roll of the next one.
Resting(d, s, z) ==
  /\ \A i \in (z + 1) .. Len(s) : ~s[i]
  /\ DOMAIN d = {"speaking", "buffer", "silence", "preRoll"}
  /\ ~d.speaking /\ d.buffer = <<>> /\ d.silence = 0
  /\ Block(d.preRoll, Floor(z, Len(s) + 1), Len(s))

\* In one, it holds all of it, and the silence since its last voiced frame.
Talking(d, s, z) ==
  /\ DOMAIN d = {"speaking", "buffer", "silence", "preRoll"}
  /\ d.speaking /\ d.preRoll = <<>> /\ d.silence \in 0 .. MinSilenceFrames - 1
  /\ \E o \in (z + 1) .. Len(s) :
       /\ s[o] /\ \A i \in (z + 1) .. (o - 1) : ~s[i]
       /\ Block(d.buffer, Floor(z, o), Len(s))
       /\ Len(s) - d.silence \in o .. Len(s) /\ s[Len(s) - d.silence]
       /\ \A i \in (Len(s) - d.silence + 1) .. Len(s) : ~s[i]

FramesOf(q) == {q[k] : k \in DOMAIN q}

\* The segments handed over are the kept utterances, all of them before z.
Handed(segs, s, z) ==
  /\ segs \in Seq(Seq(Nat))
  /\ \A m \in 1 .. Len(segs) :
       /\ Len(segs[m]) > 0
       /\ \A k \in 1 .. Len(segs[m]) : segs[m][k] \in 1 .. z
       /\ \A k \in 1 .. Len(segs[m]) - 1 : segs[m][k + 1] = segs[m][k] + 1
  /\ \A m \in 1 .. Len(segs) - 1 : segs[m][Len(segs[m])] < segs[m + 1][1]
  /\ {FramesOf(segs[m]) : m \in 1 .. Len(segs)} = KeptOf(s)
  /\ IsFiniteSet(KeptOf(s)) /\ Cardinality(KeptOf(s)) = Len(segs)

\* The detector d and what it handed over, after the frames s.
KeepsUp(d, s, segs) ==
  /\ s \in Seq(BOOLEAN)
  /\ \E z \in 0 .. Len(s) :
       /\ LastEnd(s, z)
       /\ Resting(d, s, z) \/ Talking(d, s, z)
       /\ Handed(segs, s, z)

VadInv == KeepsUp(vad, stream, segments)

\* The fields of a detector.
LEMMA DetectorFields ==
  ASSUME NEW a, NEW b, NEW c, NEW p
  PROVE  /\ Detector(a, b, c, p).speaking = a /\ Detector(a, b, c, p).buffer = b
         /\ Detector(a, b, c, p).silence = c /\ Detector(a, b, c, p).preRoll = p
         /\ DOMAIN Detector(a, b, c, p) = {"speaking", "buffer", "silence", "preRoll"}
  BY DEF Detector

\* A detector with some of its fields replaced.
LEMMA DetectorUpdated ==
  ASSUME NEW d, DOMAIN d = {"speaking", "buffer", "silence", "preRoll"}
  PROVE  /\ \A a, b, c, p : [d EXCEPT !.speaking = a, !.buffer = b, !.silence = c, !.preRoll = p]
                              = Detector(a, b, c, p)
         /\ \A a, b, c : [d EXCEPT !.speaking = a, !.buffer = b, !.silence = c]
                           = Detector(a, b, c, d.preRoll)
         /\ \A b, c : [d EXCEPT !.buffer = b, !.silence = c] = Detector(d.speaking, b, c, d.preRoll)
         /\ \A p : [d EXCEPT !.preRoll = p] = Detector(d.speaking, d.buffer, d.silence, p)
  <1>1. ASSUME NEW a, NEW b, NEW c, NEW p, NEW r, r = [f \in DOMAIN d |->
                 IF f = "speaking" THEN a ELSE IF f = "buffer" THEN b
                 ELSE IF f = "silence" THEN c ELSE p]
        PROVE  r = Detector(a, b, c, p)
    BY <1>1 DEF Detector
  <1>2. ASSUME NEW a, NEW b, NEW c, NEW p
        PROVE  [d EXCEPT !.speaking = a, !.buffer = b, !.silence = c, !.preRoll = p]
                 = Detector(a, b, c, p)
    BY <1>1
  <1>3. ASSUME NEW a, NEW b, NEW c
        PROVE  [d EXCEPT !.speaking = a, !.buffer = b, !.silence = c] = Detector(a, b, c, d.preRoll)
    BY <1>1
  <1>4. ASSUME NEW b, NEW c
        PROVE  [d EXCEPT !.buffer = b, !.silence = c] = Detector(d.speaking, b, c, d.preRoll)
    BY <1>1
  <1>5. ASSUME NEW p
        PROVE  [d EXCEPT !.preRoll = p] = Detector(d.speaking, d.buffer, d.silence, p)
    BY <1>1
  <1> QED
    BY <1>2, <1>3, <1>4, <1>5, Zenon

\* The operations of SpeechDetectors, by the fields they leave.
LEMMA DetectorOperations ==
  ASSUME NEW d, DOMAIN d = {"speaking", "buffer", "silence", "preRoll"}, NEW x
  PROVE  /\ StartSpeech(d, x) = Detector(TRUE, Append(d.preRoll, x), 0, <<>>)
         /\ ContinueSpeech(d, x) = Detector(d.speaking, Append(d.buffer, x), 0, d.preRoll)
         /\ EndSpeech(d) = Detector(FALSE, <<>>, 0, d.preRoll)
         /\ [d EXCEPT !.preRoll = PushPreRoll(@, x)]
              = Detector(d.speaking, d.buffer, d.silence, PushPreRoll(d.preRoll, x))
         /\ [d EXCEPT !.buffer = Append(@, x), !.silence = @ + 1]
              = Detector(d.speaking, Append(d.buffer, x), d.silence + 1, d.preRoll)
  <1>1. StartSpeech(d, x) = Detector(TRUE, Append(d.preRoll, x), 0, <<>>)
    <2>1. \A a, b, c, p :
            [d EXCEPT !.speaking = a, !.buffer = b, !.silence = c, !.preRoll = p] = Detector(a, b, c, p)
      BY DetectorUpdated, Zenon
    <2> QED
      BY <2>1, Zenon DEF StartSpeech
  <1>2. ContinueSpeech(d, x) = Detector(d.speaking, Append(d.buffer, x), 0, d.preRoll)
    BY DetectorUpdated, Zenon DEF ContinueSpeech
  <1>3. EndSpeech(d) = Detector(FALSE, <<>>, 0, d.preRoll)
    <2>1. \A a, b, c :
            [d EXCEPT !.speaking = a, !.buffer = b, !.silence = c] = Detector(a, b, c, d.preRoll)
      BY DetectorUpdated, Zenon
    <2> QED
      BY <2>1, Zenon DEF EndSpeech
  <1>4. [d EXCEPT !.preRoll = PushPreRoll(@, x)]
          = Detector(d.speaking, d.buffer, d.silence, PushPreRoll(d.preRoll, x))
    BY DetectorUpdated, Zenon
  <1>5. [d EXCEPT !.buffer = Append(@, x), !.silence = @ + 1]
          = Detector(d.speaking, Append(d.buffer, x), d.silence + 1, d.preRoll)
    BY DetectorUpdated, Zenon
  <1> QED
    BY <1>1, <1>2, <1>3, <1>4, <1>5, Zenon

\* The least of a set of frames.
LEMMA SmallestIs ==
  ASSUME NEW S, NEW o \in S, \A k \in S : k \in Int /\ o <= k
  PROVE  Smallest(S) = o
  <1>1. \E i \in S : \A k \in S : i <= k
    OBVIOUS
  <1>2. Smallest(S) \in S /\ \A k \in S : Smallest(S) <= k
    BY <1>1 DEF Smallest
  <1> QED
    BY <1>2

\* A further frame adds to the ends at most itself.
LEMMA EndsGrow ==
  ASSUME NEW s \in Seq(BOOLEAN), NEW v \in BOOLEAN
  PROVE  /\ EndsOf(s) \subseteq 1 .. Len(s)
         /\ EndsOf(Append(s, v)) \subseteq EndsOf(s) \cup {Len(s) + 1}
         /\ EndsOf(s) \subseteq EndsOf(Append(s, v))
  <1> DEFINE n == Len(s)
             t == Append(s, v)
  <1>1. /\ n \in Nat /\ Len(t) = n + 1 /\ MinSilenceFrames \in Nat \ {0}
        /\ \A i \in 1 .. n : t[i] = s[i]
    BY VadConfigAssumption
  <1> HIDE DEF t
  <1>2. EndsOf(s) \subseteq 1 .. n
    BY DEF EndsOf
  <1>3. ASSUME NEW j \in 1 .. n
        PROVE  j \in EndsOf(s) <=> j \in EndsOf(t)
    <2>1. CASE j > MinSilenceFrames
      <3>1. j - MinSilenceFrames \in 1 .. n /\ \A i \in (j - MinSilenceFrames + 1) .. j : i \in 1 .. n
        BY <1>1, <2>1
      <3>2. t[j - MinSilenceFrames] = s[j - MinSilenceFrames]
            /\ \A i \in (j - MinSilenceFrames + 1) .. j : t[i] = s[i]
        BY <1>1, <3>1
      <3>3. j \in 1 .. Len(t)
        BY <1>1
      <3> QED
        BY <2>1, <3>2, <3>3 DEF EndsOf
    <2>2. CASE ~(j > MinSilenceFrames)
      BY <2>2 DEF EndsOf
    <2> QED
      BY <2>1, <2>2
  <1>4. EndsOf(t) \subseteq 1 .. (n + 1)
    BY <1>1 DEF EndsOf
  <1>5. EndsOf(t) \subseteq EndsOf(s) \cup {n + 1}
    BY <1>1, <1>3, <1>4
  <1>6. EndsOf(s) \subseteq EndsOf(t)
    BY <1>2, <1>3
  <1> QED
    BY <1>2, <1>5, <1>6 DEF t

\* An utterance, once finished, does not change.
LEMMA UtteranceStays ==
  ASSUME NEW s \in Seq(BOOLEAN), NEW v \in BOOLEAN, NEW e \in EndsOf(s)
  PROVE  UtteranceOf(Append(s, v), e) = UtteranceOf(s, e)
  <1> DEFINE n == Len(s)
             t == Append(s, v)
  <1>1. n \in Nat /\ e \in 1 .. n /\ \A i \in 1 .. n : t[i] = s[i]
    BY EndsGrow
  <1>2. EndsOf(t) \subseteq EndsOf(s) \cup {n + 1} /\ EndsOf(s) \subseteq EndsOf(t)
        /\ EndsOf(s) \subseteq 1 .. n
    BY EndsGrow
  <1> HIDE DEF t
  <1>3. StretchOf(t, e) = StretchOf(s, e)
    <2>1. ASSUME NEW i \in 1 .. e
          PROVE  (\A f \in EndsOf(t) : f < e => i > f) <=> (\A f \in EndsOf(s) : f < e => i > f)
      <3>1. \A f \in EndsOf(t) : f < e => f \in EndsOf(s)
        BY <1>1, <1>2
      <3> QED
        BY <1>2, <3>1
    <2> QED
      BY <2>1 DEF StretchOf
  <1>4. \A i \in StretchOf(s, e) : t[i] = s[i]
    BY <1>1 DEF StretchOf
  <1>5. {i \in StretchOf(t, e) : t[i]} = {i \in StretchOf(s, e) : s[i]}
    BY <1>3, <1>4
  <1>6. OnsetOf(t, e) = OnsetOf(s, e)
    BY <1>5 DEF OnsetOf
  <1>7. UtteranceOf(t, e) = UtteranceOf(s, e)
    BY <1>3, <1>6 DEF UtteranceOf
  <1> QED
    BY <1>7 DEF t

\* The utterance that ends after z, by its first voiced frame.
LEMMA UtteranceIs ==
  ASSUME NEW s \in Seq(BOOLEAN), NEW e \in EndsOf(s), NEW z \in 0 .. e - 1,
         \A f \in EndsOf(s) : f < e => f <= z,
         z # 0 => z \in EndsOf(s),
         NEW o \in (z + 1) .. e, s[o], \A i \in (z + 1) .. (o - 1) : ~s[i]
  PROVE  UtteranceOf(s, e) = Floor(z, o) .. e
  <1>1. e \in 1 .. Len(s) /\ EndsOf(s) \subseteq 1 .. Len(s) /\ Len(s) \in Nat
    BY DEF EndsOf
  <1>2. e \in Nat /\ z \in Nat /\ o \in Nat /\ PreRollFrames \in Nat
    BY <1>1, VadConfigAssumption
  <1>3. StretchOf(s, e) = (z + 1) .. e
    <2>1. ASSUME NEW i \in 1 .. e
          PROVE  (\A f \in EndsOf(s) : f < e => i > f) <=> i >= z + 1
      <3>1. CASE i >= z + 1
        BY <1>1, <1>2, <3>1
      <3>2. CASE ~(i >= z + 1)
        <4>1. z \in EndsOf(s) /\ z < e /\ ~(i > z)
          BY <1>2, <3>2
        <4> QED
          BY <3>2, <4>1
      <3> QED
        BY <3>1, <3>2
    <2> QED
      BY <1>2, <2>1 DEF StretchOf
  <1>4. OnsetOf(s, e) = o
    <2> DEFINE S == {i \in StretchOf(s, e) : s[i]}
    <2>1. o \in S
      BY <1>3
    <2>2. \A k \in S : k \in Int /\ o <= k
      <3> SUFFICES ASSUME NEW k \in S PROVE k \in Int /\ o <= k
        OBVIOUS
      <3>1. k \in (z + 1) .. e /\ s[k] /\ k \in Int
        BY <1>2, <1>3
      <3>2. ~(k \in (z + 1) .. (o - 1))
        BY <3>1
      <3> QED
        BY <1>2, <3>1, <3>2
    <2> HIDE DEF S
    <2>3. Smallest(S) = o
      BY <2>1, <2>2, SmallestIs
    <2> QED
      BY <2>3 DEF OnsetOf, S
  <1>5. \A i : i \in (z + 1) .. e /\ i + PreRollFrames >= o <=> i \in Floor(z, o) .. e
    BY <1>2 DEF Floor
  <1> QED
    BY <1>3, <1>4, <1>5 DEF UtteranceOf

\* A further frame adds to the kept utterances at most the one it ends.
LEMMA KeptGrow ==
  ASSUME NEW s \in Seq(BOOLEAN), NEW v \in BOOLEAN
  PROVE  LET t == Append(s, v)
             new == UtteranceOf(t, Len(s) + 1)
         IN KeptOf(t) = IF Len(s) + 1 \in EndsOf(t) /\ Cardinality(new) >= MinSpeechFrames
                        THEN KeptOf(s) \cup {new} ELSE KeptOf(s)
  <1> DEFINE t == Append(s, v)
             new == UtteranceOf(t, Len(s) + 1)
  <1>1. \A e \in EndsOf(s) : UtteranceOf(t, e) = UtteranceOf(s, e)
    BY UtteranceStays
  <1>2. EndsOf(t) \subseteq EndsOf(s) \cup {Len(s) + 1} /\ EndsOf(s) \subseteq EndsOf(t)
    BY EndsGrow
  <1> HIDE DEF t
  <1>3. ASSUME NEW u
        PROVE  u \in KeptOf(t) <=>
                 \/ u \in KeptOf(s)
                 \/ Len(s) + 1 \in EndsOf(t) /\ Cardinality(new) >= MinSpeechFrames /\ u = new
    <2>1. u \in KeptOf(t) <=> Cardinality(u) >= MinSpeechFrames /\ \E e \in EndsOf(t) : u = UtteranceOf(t, e)
      BY Zenon DEF KeptOf
    <2>2. u \in KeptOf(s) <=> Cardinality(u) >= MinSpeechFrames /\ \E e \in EndsOf(s) : u = UtteranceOf(s, e)
      BY Zenon DEF KeptOf
    <2>3. (\E e \in EndsOf(t) : u = UtteranceOf(t, e)) <=>
            (\E e \in EndsOf(s) : u = UtteranceOf(s, e)) \/ (Len(s) + 1 \in EndsOf(t) /\ u = new)
      BY <1>1, <1>2, Zenon
    <2> QED
      BY <2>1, <2>2, <2>3, Zenon
  <1>4. KeptOf(t) = IF Len(s) + 1 \in EndsOf(t) /\ Cardinality(new) >= MinSpeechFrames
                    THEN KeptOf(s) \cup {new} ELSE KeptOf(s)
    <2> HIDE DEF new
    <2> QED
      BY <1>3
  <1> QED
    BY <1>4 DEF t

\* A block grows by the next frame.
LEMMA BlockGrows ==
  ASSUME NEW q, NEW n \in Nat, NEW b \in 1 .. n + 1, Block(q, b, n)
  PROVE  Block(Append(q, n + 1), b, n + 1)
  <1>1. q \in Seq(Nat) /\ Len(q) = n - b + 1 /\ n + 1 \in Nat /\ b \in Nat
    BY DEF Block
  <1>2. /\ Append(q, n + 1) \in Seq(Nat) /\ Len(Append(q, n + 1)) = Len(q) + 1
        /\ Append(q, n + 1)[Len(q) + 1] = n + 1
        /\ \A k \in 1 .. Len(q) : Append(q, n + 1)[k] = q[k]
    BY <1>1
  <1> DEFINE r == Append(q, n + 1)
  <1> HIDE DEF r
  <1>3. r \in Seq(Nat) /\ Len(r) = Len(q) + 1 /\ r[Len(q) + 1] = n + 1
        /\ \A k \in 1 .. Len(q) : r[k] = q[k]
    BY <1>2 DEF r
  <1>4. \A k \in 1 .. Len(r) : r[k] = b + k - 1
    BY <1>1, <1>3 DEF Block
  <1>5. Len(r) = (n + 1) - b + 1
    BY <1>1, <1>3
  <1>6. Block(r, b, n + 1)
    BY <1>3, <1>4, <1>5 DEF Block
  <1> QED
    BY <1>6 DEF r

\* The frames of a block are an interval.
LEMMA BlockHolds ==
  ASSUME NEW q, NEW n \in Nat, NEW b \in 1 .. n + 1, Block(q, b, n)
  PROVE  FramesOf(q) = b .. n
  <1>1. q \in Seq(Nat) /\ DOMAIN q = 1 .. Len(q) /\ Len(q) = n - b + 1
        /\ \A k \in 1 .. Len(q) : q[k] = b + k - 1
    BY DEF Block
  <1>2. ASSUME NEW i \in b .. n PROVE i \in FramesOf(q)
    <2>1. PICK k \in 1 .. Len(q) : i = b + k - 1
      <3>1. i - b + 1 \in 1 .. Len(q) /\ i = b + (i - b + 1) - 1
        BY <1>1
      <3> QED
        BY <3>1
    <2> QED
      BY <1>1, <2>1 DEF FramesOf
  <1>3. FramesOf(q) \subseteq b .. n
    BY <1>1 DEF FramesOf
  <1> QED
    BY <1>2, <1>3

\* The pre-roll is the last PreRollFrames frames since the last utterance.
LEMMA PreRollSlides ==
  ASSUME NEW p, NEW n \in Nat, NEW z \in 0 .. n, Block(p, Floor(z, n + 1), n)
  PROVE  Block(PushPreRoll(p, n + 1), Floor(z, n + 2), n + 1)
  <1>1. PreRollFrames \in Nat \ {0} /\ z \in Nat
    BY VadConfigAssumption
  <1> DEFINE f == Floor(z, n + 1)
             r == Append(p, n + 1)
  <1>2. f \in 1 .. n + 1
    BY <1>1 DEF Floor
  <1>3. Block(r, f, n + 1)
    BY <1>2, BlockGrows
  <1> HIDE DEF r, f
  <1>4. r \in Seq(Nat) /\ Len(r) = n + 1 - f + 1 /\ \A k \in 1 .. Len(r) : r[k] = f + k - 1
    BY <1>2, <1>3 DEF Block
  <1>5. CASE n + 1 - PreRollFrames > z
    <2>1. f = n + 1 - PreRollFrames /\ Floor(z, n + 2) = f + 1
      BY <1>1, <1>5 DEF Floor, f
    <2>2. Len(r) > PreRollFrames /\ Len(r) = PreRollFrames + 1
      BY <1>1, <1>4, <2>1
    <2>3. PushPreRoll(p, n + 1) = Tail(r)
      BY <2>2 DEF PushPreRoll, r
    <2>4. Tail(r) \in Seq(Nat) /\ Len(Tail(r)) = Len(r) - 1
          /\ \A k \in 1 .. Len(Tail(r)) : Tail(r)[k] = r[k + 1]
      BY <1>1, <1>4, <2>2
    <2>5. \A k \in 1 .. Len(Tail(r)) : k + 1 \in 1 .. Len(r)
      BY <1>1, <2>2, <2>4
    <2>6. \A k \in 1 .. Len(Tail(r)) : Tail(r)[k] = (f + 1) + k - 1
      <3> SUFFICES ASSUME NEW k \in 1 .. Len(Tail(r)) PROVE Tail(r)[k] = (f + 1) + k - 1
        OBVIOUS
      <3>1. Tail(r)[k] = r[k + 1] /\ r[k + 1] = f + (k + 1) - 1 /\ k \in Int
        BY <1>4, <2>4, <2>5
      <3> QED
        BY <1>2, <3>1
    <2>7. Block(Tail(r), f + 1, n + 1)
      <3>1. Len(Tail(r)) = (n + 1) - (f + 1) + 1
        BY <1>2, <1>4, <2>4
      <3> QED
        BY <2>4, <2>6, <3>1 DEF Block
    <2> QED
      BY <2>1, <2>3, <2>7
  <1>6. CASE ~(n + 1 - PreRollFrames > z)
    <2>1. f = z + 1 /\ Floor(z, n + 2) = f
      BY <1>1, <1>6 DEF Floor, f
    <2>2. ~(Len(r) > PreRollFrames)
      BY <1>1, <1>4, <1>6, <2>1
    <2>3. PushPreRoll(p, n + 1) = r
      BY <2>2 DEF PushPreRoll, r
    <2> QED
      BY <1>3, <2>1, <2>3 DEF r, f
  <1> QED
    BY <1>5, <1>6

\* A frame that ends no utterance leaves the ends and what was handed over.
LEMMA NothingEnds ==
  ASSUME NEW s \in Seq(BOOLEAN), NEW v \in BOOLEAN, NEW z, NEW segs,
         LastEnd(s, z), Handed(segs, s, z), Len(s) + 1 \notin EndsOf(Append(s, v))
  PROVE  LastEnd(Append(s, v), z) /\ Handed(segs, Append(s, v), z)
  <1> DEFINE t == Append(s, v)
  <1>1. EndsOf(t) = EndsOf(s)
    BY EndsGrow
  <1>2. KeptOf(t) = KeptOf(s)
    BY KeptGrow
  <1>3. Len(t) = Len(s) + 1 /\ Len(s) \in Nat
    OBVIOUS
  <1> HIDE DEF t
  <1>4. LastEnd(t, z)
    BY <1>1, <1>3 DEF LastEnd
  <1>5. Handed(segs, t, z)
    BY <1>2 DEF Handed
  <1> QED
    BY <1>4, <1>5 DEF t

\* An utterance that ends is handed over if it is kept.
LEMMA OneMoreIsHanded ==
  ASSUME NEW s, NEW t, NEW segs, NEW n \in Nat, NEW z \in 0 .. n, NEW b,
         NEW f \in (z + 1) .. (n + 1), Handed(segs, s, z), Block(b, f, n + 1),
         KeptOf(t) = KeptOf(s) \cup {f .. (n + 1)}
  PROVE  Handed(Append(segs, b), t, n + 1)
  <1> DEFINE m == Len(segs)
             w == Append(segs, b)
             Kept1 == KeptOf(s)
             Kept2 == KeptOf(t)
  <1>1. b \in Seq(Nat) /\ Len(b) = n + 1 - f + 1 /\ \A k \in 1 .. Len(b) : b[k] = f + k - 1
    BY DEF Block
  <1>2. segs \in Seq(Seq(Nat)) /\ m \in Nat
    BY DEF Handed
  <1>3. w \in Seq(Seq(Nat)) /\ Len(w) = m + 1 /\ w[m + 1] = b
        /\ \A k \in 1 .. m : w[k] = segs[k]
    BY <1>1, <1>2
  <1> HIDE DEF w
  <1>4. ASSUME NEW k \in 1 .. Len(w)
        PROVE  /\ Len(w[k]) > 0
               /\ \A i \in 1 .. Len(w[k]) : w[k][i] \in 1 .. (n + 1)
               /\ \A i \in 1 .. Len(w[k]) - 1 : w[k][i + 1] = w[k][i] + 1
    <2>1. CASE k = m + 1
      <3>1. w[k] = b
        BY <1>3, <2>1
      <3>2. Len(b) > 0 /\ \A i \in 1 .. Len(b) : b[i] \in 1 .. (n + 1)
        BY <1>1
      <3>3. \A i \in 1 .. Len(b) - 1 : b[i + 1] = b[i] + 1
        <4> SUFFICES ASSUME NEW i \in 1 .. Len(b) - 1 PROVE b[i + 1] = b[i] + 1
          OBVIOUS
        <4>1. i \in 1 .. Len(b) /\ i + 1 \in 1 .. Len(b)
          BY <1>1
        <4>2. b[i] = f + i - 1 /\ b[i + 1] = f + (i + 1) - 1
          BY <1>1, <4>1
        <4> QED
          BY <4>2
      <3> QED
        BY <3>1, <3>2, <3>3
    <2>2. CASE k \in 1 .. m
      <3>1. w[k] = segs[k]
        BY <1>3, <2>2
      <3>2. /\ Len(segs[k]) > 0
            /\ \A i \in 1 .. Len(segs[k]) : segs[k][i] \in 1 .. z
            /\ \A i \in 1 .. Len(segs[k]) - 1 : segs[k][i + 1] = segs[k][i] + 1
        BY <2>2 DEF Handed
      <3>3. \A i \in 1 .. Len(segs[k]) : segs[k][i] \in 1 .. (n + 1)
        BY <3>2
      <3> QED
        BY <3>1, <3>2, <3>3
    <2>3. k = m + 1 \/ k \in 1 .. m
      BY <1>2, <1>3
    <2> QED
      BY <2>1, <2>2, <2>3, Zenon
  <1>5. ASSUME NEW k \in 1 .. Len(w) - 1
        PROVE  w[k][Len(w[k])] < w[k + 1][1]
    <2>1. k \in 1 .. m /\ w[k] = segs[k]
      BY <1>2, <1>3
    <2>2. CASE k = m
      <3>1. w[k + 1] = b /\ b[1] = f
        BY <1>1, <1>3, <2>2
      <3>2. Len(segs[k]) \in 1 .. Len(segs[k]) /\ segs[k][Len(segs[k])] \in 1 .. z
        <4>1. segs[k] \in Seq(Nat) /\ Len(segs[k]) > 0
          BY <1>2, <2>1 DEF Handed
        <4>2. Len(segs[k]) \in 1 .. Len(segs[k])
          BY <4>1
        <4> QED
          BY <2>1, <4>2 DEF Handed
      <3> QED
        BY <2>1, <3>1, <3>2
    <2>3. CASE k # m
      <3>1. k \in 1 .. m - 1 /\ k + 1 \in 1 .. m
        BY <1>2, <2>1, <2>3
      <3>2. w[k + 1] = segs[k + 1]
        BY <1>3, <3>1
      <3> QED
        BY <2>1, <3>1, <3>2 DEF Handed
    <2> QED
      BY <2>2, <2>3
  <1>6. FramesOf(b) = f .. (n + 1)
    BY BlockHolds
  <1>7. {FramesOf(w[k]) : k \in 1 .. Len(w)} = Kept2
    <2>1. {FramesOf(segs[k]) : k \in 1 .. m} = Kept1
      BY DEF Handed
    <2>2. {FramesOf(w[k]) : k \in 1 .. Len(w)} = {FramesOf(segs[k]) : k \in 1 .. m} \cup {FramesOf(b)}
      <3>1. \A k \in 1 .. m : FramesOf(w[k]) = FramesOf(segs[k])
        BY <1>3
      <3>2. FramesOf(w[m + 1]) = FramesOf(b)
        BY <1>3
      <3>3. \A k : k \in 1 .. Len(w) <=> k \in 1 .. m \/ k = m + 1
        BY <1>2, <1>3
      <3> QED
        BY <3>1, <3>2, <3>3, Zenon
    <2> QED
      BY <1>6, <2>1, <2>2
  <1>8. f .. (n + 1) \notin Kept1
    <2>1. SUFFICES ASSUME f .. (n + 1) \in Kept1 PROVE FALSE
      OBVIOUS
    <2>2. PICK k \in 1 .. m : FramesOf(segs[k]) = f .. (n + 1)
      <3>1. {FramesOf(segs[k]) : k \in 1 .. m} = Kept1
        BY DEF Handed
      <3> HIDE DEF Kept1
      <3> QED
        BY <2>1, <3>1
    <2>3. n + 1 \in FramesOf(segs[k])
      BY <2>2
    <2>4. DOMAIN segs[k] = 1 .. Len(segs[k])
      BY <1>2
    <2>5. PICK i \in 1 .. Len(segs[k]) : segs[k][i] = n + 1
      BY <2>3, <2>4 DEF FramesOf
    <2>6. segs[k][i] \in 1 .. z
      BY DEF Handed
    <2> QED
      BY <2>5, <2>6
  <1>9. IsFiniteSet(Kept2) /\ Cardinality(Kept2) = m + 1
    <2>1. IsFiniteSet(Kept1) /\ Cardinality(Kept1) = m
      BY DEF Handed
    <2>2. Kept2 = Kept1 \cup {f .. (n + 1)}
      OBVIOUS
    <2> HIDE DEF Kept1, Kept2
    <2> QED
      BY <1>8, <2>1, <2>2, FS_AddElement
  <1>10. Handed(w, t, n + 1)
    BY <1>3, <1>4, <1>5, <1>7, <1>9 DEF Handed
  <1> QED
    BY <1>10 DEF w

\* An utterance that is too short leaves what was handed over.
LEMMA NoneIsHanded ==
  ASSUME NEW s, NEW t, NEW segs, NEW n \in Nat, NEW z \in 0 .. n,
         Handed(segs, s, z), KeptOf(t) = KeptOf(s)
  PROVE  Handed(segs, t, n + 1)
  <1>1. \A m \in 1 .. Len(segs) : \A k \in 1 .. Len(segs[m]) : segs[m][k] \in 1 .. (n + 1)
    <2> SUFFICES ASSUME NEW m \in 1 .. Len(segs), NEW k \in 1 .. Len(segs[m])
                 PROVE  segs[m][k] \in 1 .. (n + 1)
      OBVIOUS
    <2>1. segs[m][k] \in 1 .. z
      BY DEF Handed
    <2> QED
      BY <2>1
  <1> QED
    BY <1>1 DEF Handed

\* Whether a frame ends an utterance, by what the detector knows.
LEMMA EndsWhenSilent ==
  ASSUME NEW s \in Seq(BOOLEAN), NEW v \in BOOLEAN, NEW z, LastEnd(s, z)
  PROVE  /\ (\A i \in (z + 1) .. Len(s) : ~s[i]) => Len(s) + 1 \notin EndsOf(Append(s, v))
         /\ v => Len(s) + 1 \notin EndsOf(Append(s, v))
         /\ \A c \in 0 .. MinSilenceFrames - 1 :
              /\ Len(s) - c \in (z + 1) .. Len(s) /\ s[Len(s) - c]
              /\ \A i \in (Len(s) - c + 1) .. Len(s) : ~s[i]
              /\ ~v
              => (Len(s) + 1 \in EndsOf(Append(s, v)) <=> c + 1 = MinSilenceFrames)
  <1> DEFINE n == Len(s)
             t == Append(s, v)
             e == n + 1
             b == e - MinSilenceFrames
  <1>1. /\ n \in Nat /\ Len(t) = n + 1 /\ t[n + 1] = v /\ \A i \in 1 .. n : t[i] = s[i]
        /\ z \in 0 .. n /\ MinSilenceFrames \in Nat \ {0}
    BY VadConfigAssumption DEF LastEnd
  <1> HIDE DEF t
  <1>2. e \in EndsOf(t) <=> b > 0 /\ t[b] /\ \A i \in (b + 1) .. e : ~t[i]
    BY <1>1 DEF EndsOf
  <1>3. ASSUME \A i \in (z + 1) .. n : ~s[i], e \in EndsOf(t) PROVE FALSE
    <2>1. b \in 1 .. n /\ t[b] /\ s[b]
      BY <1>1, <1>2, <1>3
    <2>2. b <= z /\ z # 0
      BY <1>1, <1>3, <2>1
    <2>3. \A i \in (z - MinSilenceFrames + 1) .. z : ~s[i]
      BY <2>2 DEF LastEnd, EndsOf
    <2>4. b \in (z - MinSilenceFrames + 1) .. z
      BY <1>1, <2>1, <2>2
    <2> QED
      BY <2>1, <2>3, <2>4
  <1>4. ASSUME v, e \in EndsOf(t) PROVE FALSE
    <2>1. e \in (b + 1) .. e
      BY <1>1
    <2> QED
      BY <1>1, <1>2, <1>4, <2>1
  <1>5. ASSUME NEW c \in 0 .. MinSilenceFrames - 1, n - c \in (z + 1) .. n, s[n - c],
               \A i \in (n - c + 1) .. n : ~s[i], ~v
        PROVE  e \in EndsOf(t) <=> c + 1 = MinSilenceFrames
    <2>1. PICK a \in (z + 1) .. n : a = n - c /\ s[a] /\ t[a]
      BY <1>1, <1>5
    <2>2. CASE c + 1 = MinSilenceFrames
      <3>1. b = a /\ b > 0
        BY <1>1, <2>1, <2>2
      <3>2. \A i \in (b + 1) .. e : ~t[i]
        <4> SUFFICES ASSUME NEW i \in (b + 1) .. e PROVE ~t[i]
          OBVIOUS
        <4>1. CASE i = e
          BY <1>1, <1>5, <4>1
        <4>2. CASE i # e
          <5>1. i \in (n - c + 1) .. n /\ i \in 1 .. n
            BY <1>1, <2>1, <3>1, <4>2, SMTT(30)
          <5> QED
            BY <1>1, <1>5, <5>1
        <4> QED
          BY <4>1, <4>2
      <3> QED
        BY <1>2, <2>1, <2>2, <3>1, <3>2
    <2>3. CASE c + 1 # MinSilenceFrames
      <3>1. a \in (b + 1) .. e
        BY <1>1, <2>1, <2>3
      <3> QED
        BY <1>2, <2>1, <2>3, <3>1
    <2> QED
      BY <2>2, <2>3
  <1> QED
    BY <1>3, <1>4, <1>5 DEF t

\* ProcessFrame, by the fields of the detector.
LEMMA FrameProcessed ==
  ASSUME NEW d, DOMAIN d = {"speaking", "buffer", "silence", "preRoll"}, NEW x, NEW v \in BOOLEAN
  PROVE  /\ ~d.speaking /\ v => ProcessFrame(d, x, v)
              = Result(Detector(TRUE, Append(d.preRoll, x), 0, <<>>), NoSegment)
         /\ ~d.speaking /\ ~v => ProcessFrame(d, x, v)
              = Result(Detector(d.speaking, d.buffer, d.silence, PushPreRoll(d.preRoll, x)), NoSegment)
         /\ d.speaking /\ v => ProcessFrame(d, x, v)
              = Result(Detector(d.speaking, Append(d.buffer, x), 0, d.preRoll), NoSegment)
         /\ d.speaking /\ ~v /\ d.silence + 1 < MinSilenceFrames => ProcessFrame(d, x, v)
              = Result(Detector(d.speaking, Append(d.buffer, x), d.silence + 1, d.preRoll), NoSegment)
         /\ d.speaking /\ ~v /\ ~(d.silence + 1 < MinSilenceFrames) => ProcessFrame(d, x, v)
              = Result(Detector(FALSE, <<>>, 0, d.preRoll),
                       IF LongEnough(Append(d.buffer, x)) THEN Append(d.buffer, x) ELSE NoSegment)
  <1> DEFINE next == [d EXCEPT !.buffer = Append(@, x), !.silence = @ + 1]
  <1>1. next = Detector(d.speaking, Append(d.buffer, x), d.silence + 1, d.preRoll)
    BY DetectorOperations
  <1> HIDE DEF next
  <1>2. /\ next.buffer = Append(d.buffer, x) /\ next.silence = d.silence + 1 /\ next.preRoll = d.preRoll
        /\ DOMAIN next = {"speaking", "buffer", "silence", "preRoll"}
    BY <1>1, Zenon DEF Detector
  <1>3. EndSpeech(next) = Detector(FALSE, <<>>, 0, d.preRoll)
    BY <1>2, DetectorOperations
  <1>4. ~d.speaking /\ v => ProcessFrame(d, x, v)
          = Result(Detector(TRUE, Append(d.preRoll, x), 0, <<>>), NoSegment)
    BY DetectorOperations, Zenon DEF ProcessFrame
  <1>5. ~d.speaking /\ ~v => ProcessFrame(d, x, v)
          = Result(Detector(d.speaking, d.buffer, d.silence, PushPreRoll(d.preRoll, x)), NoSegment)
    BY DetectorOperations, Zenon DEF ProcessFrame
  <1>6. d.speaking /\ v => ProcessFrame(d, x, v)
          = Result(Detector(d.speaking, Append(d.buffer, x), 0, d.preRoll), NoSegment)
    BY DetectorOperations, Zenon DEF ProcessFrame
  <1>7. d.speaking /\ ~v => ProcessFrame(d, x, v) =
          IF next.silence < MinSilenceFrames THEN Result(next, NoSegment)
          ELSE Result(EndSpeech(next), IF LongEnough(next.buffer) THEN next.buffer ELSE NoSegment)
    BY Zenon DEF ProcessFrame, next
  <1> QED
    BY <1>1, <1>2, <1>3, <1>4, <1>5, <1>6, <1>7, Zenon

\* A frame outside an utterance.
LEMMA RestingKeeps ==
  ASSUME NEW s \in Seq(BOOLEAN), NEW v \in BOOLEAN, NEW z, NEW d, NEW segs,
         LastEnd(s, z), Resting(d, s, z), Handed(segs, s, z)
  PROVE  LET r == ProcessFrame(d, Len(s) + 1, v)
             t == Append(s, v)
         IN /\ r.segment = NoSegment
            /\ LastEnd(t, z) /\ Handed(segs, t, z)
            /\ Resting(r.vad, t, z) \/ Talking(r.vad, t, z)
  <1> DEFINE n == Len(s)
             t == Append(s, v)
             p == d.preRoll
             r == ProcessFrame(d, n + 1, v)
  <1>1. /\ n \in Nat /\ Len(t) = n + 1 /\ t[n + 1] = v /\ \A i \in 1 .. n : t[i] = s[i]
        /\ z \in 0 .. n /\ MinSilenceFrames \in Nat \ {0} /\ PreRollFrames \in Nat \ {0}
    BY VadConfigAssumption DEF LastEnd
  <1>2. n + 1 \notin EndsOf(t)
    BY EndsWhenSilent DEF Resting
  <1>3. LastEnd(t, z) /\ Handed(segs, t, z)
    BY <1>2, NothingEnds
  <1>4. /\ DOMAIN d = {"speaking", "buffer", "silence", "preRoll"}
        /\ ~d.speaking /\ d.buffer = <<>> /\ d.silence = 0
        /\ Block(p, Floor(z, n + 1), n) /\ \A i \in (z + 1) .. n : ~s[i]
    BY DEF Resting
  <1> HIDE DEF t
  <1>5. CASE v
    <2> DEFINE q == Append(p, n + 1)
    <2>1. r = Result(Detector(TRUE, q, 0, <<>>), NoSegment)
      BY <1>4, <1>5, FrameProcessed, Zenon
    <2>2. Floor(z, n + 1) \in 1 .. n + 1
      BY <1>1 DEF Floor
    <2>3. Block(q, Floor(z, n + 1), n + 1)
      BY <1>1, <1>4, <2>2, BlockGrows
    <2> HIDE DEF q, r
    <2>4. r.segment = NoSegment /\ r.vad = Detector(TRUE, q, 0, <<>>)
      BY <2>1, Zenon DEF Result
    <2>5. /\ r.vad.speaking /\ r.vad.buffer = q /\ r.vad.silence = 0 /\ r.vad.preRoll = <<>>
          /\ DOMAIN r.vad = {"speaking", "buffer", "silence", "preRoll"}
      <3>1. r.vad.speaking
        <4>1. Detector(TRUE, q, 0, <<>>).speaking
          BY Zenon DEF Detector
        <4> QED
          BY <2>4, <4>1, Zenon
      <3>2. /\ r.vad.buffer = q /\ r.vad.silence = 0 /\ r.vad.preRoll = <<>>
            /\ DOMAIN r.vad = {"speaking", "buffer", "silence", "preRoll"}
        BY <2>4 DEF Detector
      <3> QED
        BY <3>1, <3>2, Zenon
    <2>6. Talking(r.vad, t, z)
      <3>1. /\ 0 \in 0 .. MinSilenceFrames - 1 /\ n + 1 \in (z + 1) .. Len(t)
            /\ Len(t) - 0 = n + 1 /\ t[n + 1]
        BY <1>1, <1>5
      <3>2. \A i \in (z + 1) .. (n + 1 - 1) : ~t[i]
        BY <1>1, <1>4
      <3>3. \A i \in (Len(t) - 0 + 1) .. Len(t) : ~t[i]
        BY <1>1
      <3>4. n + 1 \in (n + 1) .. Len(t)
        BY <1>1
      <3> QED
        BY <1>1, <2>3, <2>5, <3>1, <3>2, <3>3, <3>4 DEF Talking
    <2> QED
      BY <1>3, <2>4, <2>6 DEF t, r
  <1>6. CASE ~v
    <2> DEFINE q == PushPreRoll(p, n + 1)
    <2>1. r = Result(Detector(d.speaking, d.buffer, d.silence, q), NoSegment)
      BY <1>4, <1>6, FrameProcessed, Zenon
    <2>2. Block(q, Floor(z, n + 2), n + 1)
      BY <1>1, <1>4, PreRollSlides
    <2> HIDE DEF q, r
    <2>3. r.segment = NoSegment /\ r.vad = Detector(d.speaking, d.buffer, d.silence, q)
      BY <2>1, Zenon DEF Result
    <2>4. /\ r.vad.speaking = d.speaking /\ r.vad.buffer = d.buffer /\ r.vad.silence = d.silence
          /\ r.vad.preRoll = q /\ DOMAIN r.vad = {"speaking", "buffer", "silence", "preRoll"}
      BY <2>3, DetectorFields
    <2>5. Resting(r.vad, t, z)
      <3>1. \A i \in (z + 1) .. Len(t) : ~t[i]
        <4> SUFFICES ASSUME NEW i \in (z + 1) .. Len(t) PROVE ~t[i]
          OBVIOUS
        <4>1. i = n + 1 \/ (i \in (z + 1) .. n /\ i \in 1 .. n)
          BY <1>1
        <4> QED
          BY <1>1, <1>4, <1>6, <4>1
      <3>2. Len(t) + 1 = n + 2
        BY <1>1
      <3> QED
        BY <1>1, <1>4, <2>2, <2>4, <3>1, <3>2 DEF Resting
    <2> QED
      BY <1>3, <2>3, <2>5 DEF t, r
  <1> QED
    BY <1>5, <1>6

\* A frame of an utterance that does not close it.
LEMMA TalkingKeeps ==
  ASSUME NEW s \in Seq(BOOLEAN), NEW v \in BOOLEAN, NEW z, NEW d, NEW segs,
         LastEnd(s, z), Talking(d, s, z), Handed(segs, s, z),
         v \/ d.silence + 1 < MinSilenceFrames
  PROVE  LET r == ProcessFrame(d, Len(s) + 1, v)
             t == Append(s, v)
         IN /\ r.segment = NoSegment
            /\ LastEnd(t, z) /\ Handed(segs, t, z) /\ Talking(r.vad, t, z)
  <1> DEFINE n == Len(s)
             t == Append(s, v)
             c == d.silence
             q == Append(d.buffer, n + 1)
             r == ProcessFrame(d, n + 1, v)
             c1 == IF v THEN 0 ELSE c + 1
  <1>1. /\ n \in Nat /\ Len(t) = n + 1 /\ t[n + 1] = v /\ \A i \in 1 .. n : t[i] = s[i]
        /\ z \in 0 .. n /\ MinSilenceFrames \in Nat \ {0} /\ PreRollFrames \in Nat \ {0}
        /\ t \in Seq(BOOLEAN)
    BY VadConfigAssumption DEF LastEnd
  <1>2. /\ DOMAIN d = {"speaking", "buffer", "silence", "preRoll"}
        /\ d.speaking /\ d.preRoll = <<>> /\ c \in 0 .. MinSilenceFrames - 1
    BY DEF Talking
  <1>3. PICK o \in (z + 1) .. n :
          /\ s[o] /\ \A i \in (z + 1) .. (o - 1) : ~s[i]
          /\ Block(d.buffer, Floor(z, o), n)
          /\ n - c \in o .. n /\ s[n - c]
          /\ \A i \in (n - c + 1) .. n : ~s[i]
    BY DEF Talking
  <1>4. n + 1 \notin EndsOf(t)
    <2>1. n - c \in (z + 1) .. n
      BY <1>1, <1>2, <1>3
    <2>2. CASE v
      BY <2>2, EndsWhenSilent
    <2>3. CASE ~v
      <3>1. n + 1 \in EndsOf(t) <=> c + 1 = MinSilenceFrames
        BY <1>2, <1>3, <2>1, <2>3, EndsWhenSilent
      <3> QED
        BY <1>1, <1>2, <2>3, <3>1
    <2> QED
      BY <2>2, <2>3
  <1>5. LastEnd(t, z) /\ Handed(segs, t, z)
    BY <1>4, NothingEnds
  <1>6. r = Result(Detector(d.speaking, q, c1, <<>>), NoSegment)
    BY <1>2, FrameProcessed, Zenon
  <1>7. Floor(z, o) \in 1 .. n + 1
    BY <1>1 DEF Floor
  <1>8. Block(q, Floor(z, o), n + 1)
    BY <1>1, <1>3, <1>7, BlockGrows
  <1>9. c1 \in 0 .. MinSilenceFrames - 1
    BY <1>1, <1>2
  <1> HIDE DEF q, r, t, c, c1
  <1>10. r.segment = NoSegment /\ r.vad = Detector(d.speaking, q, c1, <<>>)
    BY <1>6, Zenon DEF Result
  <1>11. /\ r.vad.speaking = d.speaking /\ r.vad.buffer = q /\ r.vad.silence = c1
         /\ r.vad.preRoll = <<>> /\ DOMAIN r.vad = {"speaking", "buffer", "silence", "preRoll"}
    BY <1>10, DetectorFields
  <1>12. t[o] /\ \A i \in (z + 1) .. (o - 1) : ~t[i]
    <2>1. o \in (z + 1) .. n /\ s[o] /\ \A i \in (z + 1) .. (o - 1) : ~s[i]
      BY <1>3
    <2>2. o \in 1 .. n /\ \A i \in (z + 1) .. (o - 1) : i \in 1 .. n
      BY <1>1
    <2> QED
      BY <1>1, <2>1, <2>2
  <1>13. /\ Len(t) - c1 \in o .. Len(t) /\ t[Len(t) - c1]
         /\ \A i \in (Len(t) - c1 + 1) .. Len(t) : ~t[i]
    <2>1. CASE v
      <3>1. c1 = 0 /\ Len(t) - c1 = n + 1 /\ t[n + 1] /\ n + 1 \in o .. Len(t)
        BY <1>1, <2>1 DEF c1
      <3>2. \A i \in (n + 1 + 1) .. Len(t) : ~t[i]
        BY <1>1
      <3> QED
        BY <3>1, <3>2
    <2>2. CASE ~v
      <3>1. PICK a \in o .. n : a = n - c /\ s[a] /\ \A i \in (a + 1) .. n : ~s[i]
        BY <1>3
      <3>2. c1 = c + 1 /\ Len(t) - c1 = a
        BY <1>1, <1>2, <2>2, <3>1 DEF c1
      <3>3. \A i \in (a + 1) .. Len(t) : ~t[i]
        <4> SUFFICES ASSUME NEW i \in (a + 1) .. Len(t) PROVE ~t[i]
          OBVIOUS
        <4>1. i = n + 1 \/ (i \in (a + 1) .. n /\ i \in 1 .. n)
          BY <1>1
        <4> QED
          BY <1>1, <2>2, <3>1, <4>1
      <3>4. t[a] /\ a \in o .. Len(t)
        BY <1>1, <3>1
      <3> QED
        BY <3>2, <3>3, <3>4
    <2> QED
      BY <2>1, <2>2
  <1>14. Talking(r.vad, t, z)
    <2>1. o \in (z + 1) .. Len(t)
      BY <1>1
    <2>2. r.vad.speaking
      BY <1>2, <1>11
    <2> QED
      BY <1>1, <1>8, <1>9, <1>11, <1>12, <1>13, <2>1, <2>2 DEF Talking
  <1> QED
    BY <1>5, <1>10, <1>14 DEF r, t

\* The frame that closes an utterance hands it over, if it is long enough.
LEMMA TalkingEnds ==
  ASSUME NEW s \in Seq(BOOLEAN), NEW v \in BOOLEAN, NEW z, NEW d, NEW segs,
         LastEnd(s, z), Talking(d, s, z), Handed(segs, s, z),
         ~v, ~(d.silence + 1 < MinSilenceFrames)
  PROVE  LET r == ProcessFrame(d, Len(s) + 1, v)
             t == Append(s, v)
         IN /\ LastEnd(t, Len(s) + 1) /\ Resting(r.vad, t, Len(s) + 1)
            /\ Handed(IF r.segment = NoSegment THEN segs ELSE Append(segs, r.segment), t, Len(s) + 1)
  <1> DEFINE n == Len(s)
             e == n + 1
             t == Append(s, v)
             c == d.silence
             q == Append(d.buffer, e)
             r == ProcessFrame(d, e, v)
             got == IF LongEnough(q) THEN q ELSE NoSegment
  <1>1. /\ n \in Nat /\ Len(t) = e /\ t[e] = v /\ \A i \in 1 .. n : t[i] = s[i]
        /\ z \in 0 .. n /\ MinSilenceFrames \in Nat \ {0} /\ PreRollFrames \in Nat \ {0}
        /\ MinSpeechFrames \in Nat /\ t \in Seq(BOOLEAN)
    BY VadConfigAssumption DEF LastEnd
  <1>2. /\ DOMAIN d = {"speaking", "buffer", "silence", "preRoll"}
        /\ d.speaking /\ d.preRoll = <<>> /\ c \in 0 .. MinSilenceFrames - 1
    BY DEF Talking
  <1>3. PICK o \in (z + 1) .. n :
          /\ s[o] /\ \A i \in (z + 1) .. (o - 1) : ~s[i]
          /\ Block(d.buffer, Floor(z, o), n)
          /\ n - c \in o .. n /\ s[n - c]
          /\ \A i \in (n - c + 1) .. n : ~s[i]
    BY DEF Talking
  <1>4. c + 1 = MinSilenceFrames
    BY <1>1, <1>2
  <1>5. e \in EndsOf(t)
    <2>1. n - c \in (z + 1) .. n
      BY <1>1, <1>2, <1>3
    <2> QED
      BY <1>2, <1>3, <1>4, <2>1, EndsWhenSilent
  <1>6. r = Result(Detector(FALSE, <<>>, 0, <<>>), got)
    BY <1>2, FrameProcessed, Zenon
  <1>7. Floor(z, o) \in 1 .. e /\ Floor(z, o) \in (z + 1) .. e
    BY <1>1 DEF Floor
  <1>8. Block(q, Floor(z, o), e)
    BY <1>1, <1>3, <1>7, BlockGrows
  <1>9. EndsOf(t) \subseteq EndsOf(s) \cup {e} /\ EndsOf(s) \subseteq EndsOf(t)
        /\ EndsOf(s) \subseteq 1 .. n /\ \A f \in EndsOf(s) : f <= z
    BY EndsGrow DEF LastEnd
  <1> HIDE DEF t, q, r, got, c
  <1>10. UtteranceOf(t, e) = Floor(z, o) .. e
    <2>1. z \in 0 .. e - 1 /\ o \in (z + 1) .. e
      BY <1>1
    <2>2. \A f \in EndsOf(t) : f < e => f <= z
      BY <1>9
    <2>3. z # 0 => z \in EndsOf(t)
      BY <1>9 DEF LastEnd
    <2>4. t[o] /\ \A i \in (z + 1) .. (o - 1) : ~t[i]
      BY <1>1, <1>3
    <2>5. t \in Seq(BOOLEAN)
      BY <1>1
    <2> HIDE DEF e, n
    <2> QED
      BY <1>5, <2>1, <2>2, <2>3, <2>4, <2>5, UtteranceIs
  <1>11. Cardinality(Floor(z, o) .. e) = Len(q) /\ Len(q) \in Nat /\ Len(q) > 0 /\ q # <<>>
    <2>1. Len(q) = e - Floor(z, o) + 1 /\ q \in Seq(Nat)
      BY <1>8 DEF Block
    <2>2. Floor(z, o) \in Int /\ e \in Int /\ Floor(z, o) <= e
      BY <1>1, <1>7
    <2>3. Cardinality(Floor(z, o) .. e) = e - Floor(z, o) + 1
      BY <2>2, FS_Interval
    <2> QED
      BY <2>1, <2>2, <2>3
  <1>12. KeptOf(t) = IF LongEnough(q) THEN KeptOf(s) \cup {Floor(z, o) .. e} ELSE KeptOf(s)
    <2>1. KeptOf(t) = IF e \in EndsOf(t) /\ Cardinality(UtteranceOf(t, e)) >= MinSpeechFrames
                      THEN KeptOf(s) \cup {UtteranceOf(t, e)} ELSE KeptOf(s)
      BY KeptGrow DEF t
    <2> HIDE DEF e
    <2> QED
      BY <1>5, <1>10, <1>11, <2>1 DEF LongEnough
  <1>13. LastEnd(t, e)
    <2>1. \A f \in EndsOf(t) : f <= e
      BY <1>1, <1>9
    <2> QED
      BY <1>1, <1>5, <2>1 DEF LastEnd
  <1>14. r.segment = got /\ r.vad = Detector(FALSE, <<>>, 0, <<>>)
    BY <1>6, Zenon DEF Result
  <1>15. Resting(r.vad, t, e)
    <2>1. ~r.vad.speaking
      <3>1. ~Detector(FALSE, <<>>, 0, <<>>).speaking
        BY Zenon DEF Detector
      <3> QED
        BY <1>14, <3>1, Zenon
    <2>2. /\ r.vad.buffer = <<>> /\ r.vad.silence = 0 /\ r.vad.preRoll = <<>>
          /\ DOMAIN r.vad = {"speaking", "buffer", "silence", "preRoll"}
      BY <1>14 DEF Detector
    <2>3. Floor(e, e + 1) = e + 1
      BY <1>1 DEF Floor
    <2>4. Block(<<>>, e + 1, e)
      BY <1>1 DEF Block
    <2>5. \A i \in (e + 1) .. Len(t) : ~t[i]
      BY <1>1
    <2> QED
      BY <1>1, <2>1, <2>2, <2>3, <2>4, <2>5 DEF Resting
  <1>16. Handed(IF r.segment = NoSegment THEN segs ELSE Append(segs, r.segment), t, e)
    <2>1. CASE LongEnough(q)
      <3>1. r.segment = q /\ r.segment # NoSegment
        BY <1>11, <1>14, <2>1 DEF got, NoSegment
      <3>2. Handed(Append(segs, q), t, e)
        BY <1>1, <1>7, <1>8, <1>12, <2>1, OneMoreIsHanded
      <3> QED
        BY <3>1, <3>2
    <2>2. CASE ~LongEnough(q)
      <3>1. r.segment = NoSegment
        BY <1>14, <2>2 DEF got
      <3>2. Handed(segs, t, e)
        BY <1>1, <1>12, <2>2, NoneIsHanded
      <3> QED
        BY <3>1, <3>2
    <2> QED
      BY <2>1, <2>2
  <1> QED
    BY <1>13, <1>15, <1>16 DEF r, t

\* Before the first frame nothing has ended and nothing is handed over.
LEMMA NothingYet ==
  ASSUME NEW d, NEW s, NEW segs, d = VadReset, s = <<>>, segs = <<>>
  PROVE  KeepsUp(d, s, segs)
  <1>1. s \in Seq(BOOLEAN) /\ Len(s) = 0 /\ 0 \in 0 .. Len(s)
    OBVIOUS
  <1>2. EndsOf(s) = {}
    BY <1>1 DEF EndsOf
  <1>3. LastEnd(s, 0)
    BY <1>1, <1>2 DEF LastEnd
  <1>4. Resting(d, s, 0)
    <2>1. DOMAIN d = {"speaking", "buffer", "silence", "preRoll"}
          /\ d.buffer = <<>> /\ d.silence = 0 /\ d.preRoll = <<>>
      BY DEF VadReset
    <2>2. ~d.speaking
      BY Zenon DEF VadReset
    <2>3. Floor(0, 1) = 1
      BY VadConfigAssumption DEF Floor
    <2>4. Block(<<>>, 1, 0)
      BY DEF Block
    <2>5. \A i \in 1 .. Len(s) : ~s[i]
      BY <1>1
    <2> QED
      BY <1>1, <2>1, <2>2, <2>3, <2>4, <2>5 DEF Resting
  <1>5. KeptOf(s) = {}
    BY <1>2 DEF KeptOf
  <1>6. Handed(segs, s, 0)
    <2>1. segs \in Seq(Seq(Nat)) /\ Len(segs) = 0
      OBVIOUS
    <2>2. IsFiniteSet(KeptOf(s)) /\ Cardinality(KeptOf(s)) = 0
      BY <1>5, FS_EmptySet
    <2>3. {FramesOf(segs[m]) : m \in 1 .. Len(segs)} = KeptOf(s)
      BY <1>5, <2>1
    <2> QED
      BY <2>1, <2>2, <2>3 DEF Handed
  <1> QED
    BY <1>1, <1>3, <1>4, <1>6 DEF KeepsUp

\* process_frame on one more frame.
LEMMA FeedKeeps ==
  ASSUME VadInv, NEW v \in BOOLEAN, Feed(v)
  PROVE  VadInv'
  <1> DEFINE n == Len(stream)
             t == Append(stream, v)
             r == ProcessFrame(vad, n + 1, v)
  <1>1. PICK z \in 0 .. n : /\ LastEnd(stream, z)
                            /\ Resting(vad, stream, z) \/ Talking(vad, stream, z)
                            /\ Handed(segments, stream, z)
    BY DEF VadInv, KeepsUp
  <1>2. /\ stream' = t /\ vad' = r.vad
        /\ segments' = IF r.segment = NoSegment THEN segments ELSE Append(segments, r.segment)
    BY DEF Feed
  <1>3. stream \in Seq(BOOLEAN) /\ n \in Nat /\ t \in Seq(BOOLEAN) /\ Len(t) = n + 1
    BY DEF VadInv, KeepsUp
  <1>4. z \in 0 .. Len(t) /\ n + 1 \in 0 .. Len(t)
    BY <1>3
  <1>5. CASE Resting(vad, stream, z)
    <2>1. /\ r.segment = NoSegment /\ LastEnd(t, z) /\ Handed(segments, t, z)
          /\ Resting(r.vad, t, z) \/ Talking(r.vad, t, z)
      BY <1>1, <1>3, <1>5, RestingKeeps
    <2> HIDE DEF t, r
    <2> QED
      BY <1>2, <1>3, <1>4, <2>1 DEF VadInv, KeepsUp
  <1>6. CASE Talking(vad, stream, z) /\ (v \/ vad.silence + 1 < MinSilenceFrames)
    <2>1. /\ r.segment = NoSegment /\ LastEnd(t, z) /\ Handed(segments, t, z)
          /\ Talking(r.vad, t, z)
      BY <1>1, <1>3, <1>6, TalkingKeeps
    <2> HIDE DEF t, r
    <2> QED
      BY <1>2, <1>3, <1>4, <2>1 DEF VadInv, KeepsUp
  <1>7. CASE Talking(vad, stream, z) /\ ~v /\ ~(vad.silence + 1 < MinSilenceFrames)
    <2>1. /\ LastEnd(t, n + 1) /\ Resting(r.vad, t, n + 1)
          /\ Handed(IF r.segment = NoSegment THEN segments ELSE Append(segments, r.segment), t, n + 1)
      BY <1>1, <1>3, <1>7, TalkingEnds
    <2> HIDE DEF t, r
    <2> QED
      BY <1>2, <1>3, <1>4, <2>1 DEF VadInv, KeepsUp
  <1> QED
    BY <1>1, <1>5, <1>6, <1>7

\* The inductive invariant of the voice activity detector.
LEMMA VadInvariance == VadSpec => []VadInv
  <1>1. VadInit => VadInv
    BY NothingYet DEF VadInit, VadInv
  <1>2. VadInv /\ [VadNext]_streamVars => VadInv'
    <2>1. ASSUME VadInv, ResetVad PROVE VadInv'
      <3>1. stream' = <<>> /\ vad' = VadReset /\ segments' = <<>>
        BY <2>1 DEF ResetVad
      <3> QED
        BY <3>1, NothingYet DEF VadInv
    <2>2. VadInv /\ VadNext => VadInv'
      BY <2>1, FeedKeeps DEF VadNext
    <2>3. VadInv /\ UNCHANGED streamVars => VadInv'
      BY DEF streamVars, VadInv
    <2> QED
      BY <2>2, <2>3
  <1> QED
    BY <1>1, <1>2, PTL DEF VadSpec

\* What the user says reaches the pipeline once, as it was said: the segments are the
\* kept utterances in order, and the detector holds the unfinished one (vad.py:91).
THEOREM UtterancesReachThePipeline == VadSpec => []UtterancesAreKept
  <1>1. VadInv => UtterancesAreKept
    <2> SUFFICES ASSUME VadInv PROVE UtterancesAreKept
      OBVIOUS
    <2> DEFINE n == Len(stream)
    <2>1. stream \in Seq(BOOLEAN) /\ n \in Nat
      BY DEF VadInv, KeepsUp
    <2>2. PICK z \in 0 .. n : /\ LastEnd(stream, z)
                              /\ Resting(vad, stream, z) \/ Talking(vad, stream, z)
                              /\ Handed(segments, stream, z)
      BY DEF VadInv, KeepsUp
    <2>3. Ends = EndsOf(stream)
      BY DEF Ends, EndsOf, Frames, Voiced
    <2>4. \A e : Stretch(e) = StretchOf(stream, e)
      BY <2>3 DEF Stretch, StretchOf
    <2>5. \A e : Utterance(e) = UtteranceOf(stream, e)
      BY <2>4 DEF Utterance, UtteranceOf, OnsetOf, Voiced
    <2>6. KeptUtterances = KeptOf(stream)
      BY <2>3, <2>5 DEF KeptUtterances, KeptOf
    <2>7. segments \in Seq(Seq(Nat))
      BY <2>2 DEF Handed
    <2>8. SegmentsAreUtterances
      <3>1. \A m \in DOMAIN segments : SegmentFrames(m) = FramesOf(segments[m])
        BY DEF SegmentFrames, FramesOf
      <3>2. DOMAIN segments = 1 .. Len(segments)
        BY <2>7
      <3>3. {SegmentFrames(m) : m \in DOMAIN segments} = {FramesOf(segments[m]) : m \in 1 .. Len(segments)}
        BY <3>1, <3>2
      <3>4. {SegmentFrames(m) : m \in DOMAIN segments} = KeptUtterances
            /\ Len(segments) = Cardinality(KeptUtterances)
        BY <2>2, <2>6, <3>3 DEF Handed
      <3>5. \A m \in DOMAIN segments : \A k \in 1 .. Len(segments[m]) - 1 :
              segments[m][k + 1] = segments[m][k] + 1
        BY <2>2, <3>2 DEF Handed
      <3>6. \A m \in 1 .. Len(segments) - 1 : Last(segments[m]) < Head(segments[m + 1])
        <4> SUFFICES ASSUME NEW m \in 1 .. Len(segments) - 1
                     PROVE  Last(segments[m]) < Head(segments[m + 1])
          OBVIOUS
        <4>1. Last(segments[m]) = segments[m][Len(segments[m])]
              /\ Head(segments[m + 1]) = segments[m + 1][1]
          BY DEF Last
        <4> QED
          BY <2>2, <4>1 DEF Handed
      <3> QED
        BY <3>4, <3>5, <3>6 DEF SegmentsAreUtterances
    <2>9. OpenUtteranceKept
      <3> DEFINE tail == {i \in Frames : \A e \in Ends : i > e}
      <3>1. tail = (z + 1) .. n
        <4>1. ASSUME NEW i \in 1 .. n PROVE (\A e \in Ends : i > e) <=> i \in (z + 1) .. n
          <5>1. EndsOf(stream) \subseteq 1 .. n /\ \A e \in EndsOf(stream) : e <= z
            BY <2>2 DEF LastEnd, EndsOf
          <5>2. z # 0 => z \in EndsOf(stream)
            BY <2>2 DEF LastEnd
          <5> QED
            BY <2>1, <2>3, <5>1, <5>2
        <4> QED
          BY <2>1, <4>1 DEF Frames
      <3> HIDE DEF tail
      <3>2. CASE Resting(vad, stream, z)
        <4>1. Range(vad.buffer) = {}
          BY <3>2 DEF Resting, Range
        <4>2. ~vad.speaking /\ \A i \in (z + 1) .. n : ~stream[i]
          BY <3>2 DEF Resting
        <4> QED
          BY <3>1, <4>1, <4>2 DEF OpenUtteranceKept, Voiced, tail
      <3>3. CASE Talking(vad, stream, z)
        <4>1. PICK o \in (z + 1) .. n :
                /\ stream[o] /\ \A i \in (z + 1) .. (o - 1) : ~stream[i]
                /\ Block(vad.buffer, Floor(z, o), n)
          BY <3>3 DEF Talking
        <4>2. Floor(z, o) \in (z + 1) .. o
          BY <2>1, VadConfigAssumption DEF Floor
        <4>3. Range(vad.buffer) = Floor(z, o) .. n
          <5>1. Floor(z, o) \in 1 .. n + 1
            BY <2>1, <4>2
          <5>2. FramesOf(vad.buffer) = Floor(z, o) .. n
            BY <2>1, <4>1, <5>1, BlockHolds
          <5> QED
            BY <5>2 DEF FramesOf, Range
        <4>4. vad.speaking /\ \E i \in tail : Voiced(i)
          BY <3>1, <3>3, <4>1 DEF Talking, Voiced
        <4>5. Range(vad.buffer) \subseteq tail
          BY <2>1, <3>1, <4>2, <4>3
        <4>6. {i \in tail : Voiced(i)} \subseteq Range(vad.buffer)
          <5> SUFFICES ASSUME NEW i \in (z + 1) .. n, stream[i] PROVE i \in Floor(z, o) .. n
            BY <3>1, <4>3 DEF Voiced
          <5>1. ~(i \in (z + 1) .. (o - 1))
            BY <4>1
          <5> QED
            BY <2>1, <4>2, <5>1
        <4> QED
          BY <4>4, <4>5, <4>6 DEF OpenUtteranceKept, tail
      <3> QED
        BY <2>2, <3>2, <3>3
    <2> QED
      BY <2>8, <2>9 DEF UtterancesAreKept
  <1> QED
    BY <1>1, VadInvariance, PTL

-----------------------------------------------------------------------------
(***************************************************************************)
(* Endpointing at the edge                                                 *)
(***************************************************************************)

\* RunOf and Speaking, of any sequence of frames.
RunIn(s, k, n, i) == i >= n /\ \A j \in (i - n + 1) .. i : s[j] = k

SpeakingIn(s, i, e) ==
  \E o \in 1 .. i : RunIn(s, TRUE, StartFrames, o) /\ \A j \in o .. i : ~RunIn(s, FALSE, e, j)

\* s ends in exactly m frames of kind k.
Trailing(s, k, m) == /\ m \in 0 .. Len(s)
                     /\ \A j \in (Len(s) - m + 1) .. Len(s) : s[j] = k
                     /\ m < Len(s) => s[Len(s) - m] # k

Wait == IF Hangover > EndFrames THEN Hangover ELSE EndFrames
Need == IF MinSpeech > StartFrames THEN MinSpeech ELSE StartFrames

ConfirmedIn(q) == {i \in 1 .. Len(q) : q[i].confirmed}

\* An utterance has begun, and no turn has ended since.
OpenSince(q) == \E o \in 1 .. Len(q) : q[o].started /\ \A c \in ConfirmedIn(q) : c < o

EpTypes(d, x, s, q) ==
  /\ s \in Seq(BOOLEAN)
  /\ q \in Seq([started : BOOLEAN, ended : BOOLEAN, candidate : BOOLEAN, confirmed : BOOLEAN])
  /\ Len(q) = Len(s)
  /\ d \in [inSpeech : BOOLEAN, speechRun : Nat, silenceRun : Nat, silence : Nat, speech : Nat,
            had : BOOLEAN, candidate : BOOLEAN, confirmed : BOOLEAN]
  /\ x \in [seq : Nat, inSpeech : BOOLEAN, speechRun : Nat, silenceRun : Nat, emotionOf : Nat,
            attached : Nat]

\* The counters are the runs the frames end in.
CountersAreRuns(d, s) ==
  /\ Trailing(s, TRUE, d.speechRun) /\ Trailing(s, FALSE, d.silenceRun)
  /\ d.silence = d.silenceRun /\ d.speechRun <= d.speech
  /\ d.inSpeech <=> SpeakingIn(s, Len(s), EndFrames)

\* A long stretch of speech stays due until its turn has ended.
StaysDue(d, s) ==
  d.silence < Wait /\ RunIn(s, TRUE, Need, Len(s) - d.silence) => d.had /\ ~d.confirmed

ConfirmedOnce(s, q) ==
  \A i \in ConfirmedIn(q) :
    /\ RunIn(s, FALSE, Hangover, i)
    /\ \E o \in 1 .. i : q[o].started /\ \A c \in ConfirmedIn(q) : c < i => c < o

ConfirmedAtLast(s, q) ==
  \A i \in 1 .. Len(s) :
    RunIn(s, FALSE, Wait, i) /\ RunIn(s, TRUE, Need, i - Wait) => i \in ConfirmedIn(q)

\* The extractor counts and debounces alike, and its emotion is of this utterance.
ExtractorFollows(x, s) ==
  /\ x.seq = Len(s)
  /\ Trailing(s, TRUE, x.speechRun) /\ Trailing(s, FALSE, x.silenceRun)
  /\ x.inSpeech <=> SpeakingIn(s, Len(s), FxEndFrames)
  /\ x.attached = IF x.inSpeech THEN x.emotionOf ELSE 0
  /\ x.inSpeech => /\ x.emotionOf \in 1 .. Len(s)
                   /\ \A j \in x.emotionOf .. Len(s) : SpeakingIn(s, j, FxEndFrames)

Follows(d, x, s, q) ==
  /\ EpTypes(d, x, s, q)
  /\ CountersAreRuns(d, s)
  /\ d.inSpeech \/ d.had => OpenSince(q)
  /\ StaysDue(d, s)
  /\ ConfirmedOnce(s, q)
  /\ ConfirmedAtLast(s, q)
  /\ ExtractorFollows(x, s)

EpInv == Follows(ep, fx, frames, marks)

EdgeBargeTypes == [since : Nat \cup {Never}, run : Nat, onset : Nat \cup {Never},
                   last : Nat \cup {Never}, latency : Int, playing : Int]

\* What is counted began in this playback, and not later than it takes to count it.
EdgeBargeInv ==
  /\ btime \in Nat
  /\ bd \in EdgeBargeTypes
  /\ bd.since # Never => bd.since <= btime
  /\ bd.run > 0 => bd.onset # Never
  /\ bd.onset # Never => bd.since # Never /\ bd.since <= bd.onset /\ bd.onset + bd.run <= btime
  /\ bd.latency # Never => bd.latency \in (EdgeMinFrames - 1) .. bd.playing

\* A run up to a frame does not depend on later ones.
LEMMA RunStays ==
  ASSUME NEW s \in Seq(BOOLEAN), NEW v \in BOOLEAN, NEW k, NEW m \in Nat, NEW i \in 0 .. Len(s)
  PROVE  RunIn(Append(s, v), k, m, i) <=> RunIn(s, k, m, i)
  <1>1. \A j \in 1 .. Len(s) : Append(s, v)[j] = s[j]
    OBVIOUS
  <1>2. i >= m => \A j \in (i - m + 1) .. i : j \in 1 .. Len(s)
    OBVIOUS
  <1> QED
    BY <1>1, <1>2 DEF RunIn

\* Whether the user spoke at a frame is settled by the frames up to it.
LEMMA SpeakingStays ==
  ASSUME NEW s \in Seq(BOOLEAN), NEW v \in BOOLEAN, NEW e \in Nat, NEW i \in 0 .. Len(s)
  PROVE  SpeakingIn(Append(s, v), i, e) <=> SpeakingIn(s, i, e)
  <1>1. \A j \in 0 .. Len(s) : /\ RunIn(Append(s, v), TRUE, StartFrames, j) <=> RunIn(s, TRUE, StartFrames, j)
                               /\ RunIn(Append(s, v), FALSE, e, j) <=> RunIn(s, FALSE, e, j)
    BY RunStays, EndpointingAssumption
  <1>2. \A o \in 1 .. i : o \in 0 .. Len(s) /\ \A j \in o .. i : j \in 0 .. Len(s)
    OBVIOUS
  <1> QED
    BY <1>1, <1>2, Zenon DEF SpeakingIn

\* The run a sequence ends in grows by a frame of its kind and is over with one of the other.
LEMMA TrailingMoves ==
  ASSUME NEW s \in Seq(BOOLEAN), NEW v \in BOOLEAN, NEW k \in BOOLEAN, NEW m, Trailing(s, k, m)
  PROVE  Trailing(Append(s, v), k, IF v = k THEN m + 1 ELSE 0)
  <1> DEFINE n == Len(s)
             t == Append(s, v)
  <1>1. n \in Nat /\ Len(t) = n + 1 /\ t[n + 1] = v /\ (\A j \in 1 .. n : t[j] = s[j])
        /\ m \in 0 .. n /\ t \in Seq(BOOLEAN)
    BY DEF Trailing
  <1> HIDE DEF t
  <1>2. CASE v = k
    <2>1. m + 1 \in 0 .. Len(t) /\ (m + 1 < Len(t) => m < n /\ Len(t) - (m + 1) = n - m /\ n - m \in 1 .. n)
      BY <1>1
    <2>2. \A j \in (Len(t) - (m + 1) + 1) .. Len(t) : t[j] = k
      <3> SUFFICES ASSUME NEW j \in (Len(t) - (m + 1) + 1) .. Len(t) PROVE t[j] = k
        OBVIOUS
      <3>1. j = n + 1 \/ (j \in (n - m + 1) .. n /\ j \in 1 .. n)
        BY <1>1
      <3> QED
        BY <1>1, <1>2, <3>1 DEF Trailing
    <2>3. m < n => s[n - m] # k
      BY DEF Trailing
    <2>4. m + 1 < Len(t) => t[Len(t) - (m + 1)] # k
      BY <1>1, <2>1, <2>3
    <2> QED
      BY <1>2, <2>1, <2>2, <2>4 DEF t, Trailing
  <1>3. CASE v # k
    <2>1. 0 \in 0 .. Len(t) /\ Len(t) - 0 = n + 1 /\ \A j \in (Len(t) - 0 + 1) .. Len(t) : t[j] = k
      BY <1>1
    <2> QED
      BY <1>1, <1>3, <2>1 DEF t, Trailing
  <1> QED
    BY <1>2, <1>3

\* The runs that end with the last frame are those within the one the sequence ends in.
LEMMA TrailingRuns ==
  ASSUME NEW s \in Seq(BOOLEAN), NEW k \in BOOLEAN, NEW m, Trailing(s, k, m), NEW e \in Nat
  PROVE  RunIn(s, k, e, Len(s)) <=> e <= m
  <1>1. Len(s) \in Nat /\ m \in 0 .. Len(s) /\ (m < Len(s) => s[Len(s) - m] # k)
        /\ \A j \in (Len(s) - m + 1) .. Len(s) : s[j] = k
    BY DEF Trailing
  <1>2. CASE e <= m
    <2>1. Len(s) >= e /\ \A j \in (Len(s) - e + 1) .. Len(s) : j \in (Len(s) - m + 1) .. Len(s)
      BY <1>1, <1>2
    <2> QED
      BY <1>1, <1>2, <2>1 DEF RunIn
  <1>3. CASE e > m
    <2>1. Len(s) >= e => m < Len(s) /\ Len(s) - m \in (Len(s) - e + 1) .. Len(s)
      BY <1>1, <1>3
    <2> QED
      BY <1>1, <1>3, <2>1 DEF RunIn
  <1> QED
    BY <1>1, <1>2, <1>3

\* Speech begins with an onset and ends with a pause.
LEMMA SpeakingMoves ==
  ASSUME NEW s \in Seq(BOOLEAN), NEW v \in BOOLEAN, NEW e \in Nat \ {0}
  PROVE  LET t == Append(s, v) IN
         SpeakingIn(t, Len(s) + 1, e) <=>
           IF v THEN SpeakingIn(s, Len(s), e) \/ RunIn(t, TRUE, StartFrames, Len(s) + 1)
           ELSE SpeakingIn(s, Len(s), e) /\ ~RunIn(t, FALSE, e, Len(s) + 1)
  <1> DEFINE n == Len(s)
             t == Append(s, v)
  <1>1. n \in Nat /\ Len(t) = n + 1 /\ t[n + 1] = v /\ StartFrames \in Nat \ {0}
    BY EndpointingAssumption
  <1>2. SpeakingIn(t, n, e) <=> SpeakingIn(s, n, e)
    BY <1>1, SpeakingStays
  <1> HIDE DEF t
  <1>3. ASSUME v, RunIn(t, FALSE, e, n + 1) PROVE FALSE
    <2>1. n + 1 \in (n + 1 - e + 1) .. (n + 1)
      BY <1>1
    <2>2. t[n + 1] = FALSE
      BY <1>3, <2>1 DEF RunIn
    <2> QED
      BY <1>1, <1>3, <2>2
  <1>4. ~v => ~RunIn(t, TRUE, StartFrames, n + 1)
    <2>1. n + 1 \in (n + 1 - StartFrames + 1) .. (n + 1)
      BY <1>1
    <2> QED
      BY <1>1, <2>1 DEF RunIn
  <1>5. SpeakingIn(t, n + 1, e) <=>
          ~RunIn(t, FALSE, e, n + 1) /\ (SpeakingIn(t, n, e) \/ RunIn(t, TRUE, StartFrames, n + 1))
    <2>1. ASSUME SpeakingIn(t, n + 1, e)
          PROVE  ~RunIn(t, FALSE, e, n + 1) /\ (SpeakingIn(t, n, e) \/ RunIn(t, TRUE, StartFrames, n + 1))
      <3>1. PICK o \in 1 .. (n + 1) : RunIn(t, TRUE, StartFrames, o)
                                      /\ \A j \in o .. (n + 1) : ~RunIn(t, FALSE, e, j)
        BY <2>1 DEF SpeakingIn
      <3>2. n + 1 \in o .. (n + 1) /\ \A j \in o .. n : j \in o .. (n + 1)
        BY <1>1
      <3>3. o = n + 1 \/ o \in 1 .. n
        BY <1>1
      <3> QED
        BY <3>1, <3>2, <3>3 DEF SpeakingIn
    <2>2. ASSUME ~RunIn(t, FALSE, e, n + 1), SpeakingIn(t, n, e)
          PROVE  SpeakingIn(t, n + 1, e)
      <3>1. PICK o \in 1 .. n : RunIn(t, TRUE, StartFrames, o) /\ \A j \in o .. n : ~RunIn(t, FALSE, e, j)
        BY <2>2 DEF SpeakingIn
      <3>2. o \in 1 .. (n + 1) /\ \A j \in o .. (n + 1) : j = n + 1 \/ j \in o .. n
        BY <1>1
      <3> QED
        BY <2>2, <3>1, <3>2 DEF SpeakingIn
    <2>3. ASSUME ~RunIn(t, FALSE, e, n + 1), RunIn(t, TRUE, StartFrames, n + 1)
          PROVE  SpeakingIn(t, n + 1, e)
      <3>1. n + 1 \in 1 .. (n + 1) /\ \A j \in (n + 1) .. (n + 1) : j = n + 1
        BY <1>1
      <3> QED
        BY <2>3, <3>1 DEF SpeakingIn
    <2> QED
      BY <2>1, <2>2, <2>3
  <1> QED
    BY <1>2, <1>3, <1>4, <1>5 DEF t

\* A further mark: the confirmations are those before it, and it if it is one.
LEMMA ConfirmedGrow ==
  ASSUME NEW q, NEW S, q \in Seq(S), NEW m \in S
  PROVE  /\ m.confirmed => ConfirmedIn(Append(q, m)) = ConfirmedIn(q) \cup {Len(q) + 1}
         /\ ~m.confirmed => ConfirmedIn(Append(q, m)) = ConfirmedIn(q)
         /\ ConfirmedIn(q) \subseteq 1 .. Len(q)
  <1>1. /\ Len(q) \in Nat /\ Len(Append(q, m)) = Len(q) + 1 /\ Append(q, m)[Len(q) + 1] = m
        /\ \A i \in 1 .. Len(q) : Append(q, m)[i] = q[i]
    OBVIOUS
  <1>2. \A i : i \in ConfirmedIn(Append(q, m)) <=>
               i \in ConfirmedIn(q) \/ (i = Len(q) + 1 /\ m.confirmed)
    BY <1>1 DEF ConfirmedIn
  <1>3. ConfirmedIn(q) \subseteq 1 .. Len(q)
    BY DEF ConfirmedIn
  <1> QED
    BY <1>2, <1>3

\* An utterance stays open until a turn is confirmed.
LEMMA OpenMoves ==
  ASSUME NEW q, NEW S, q \in Seq(S), NEW m \in S, ~m.confirmed, m.started \/ OpenSince(q)
  PROVE  OpenSince(Append(q, m))
  <1>1. /\ Len(q) \in Nat /\ Len(Append(q, m)) = Len(q) + 1 /\ Append(q, m)[Len(q) + 1] = m
        /\ \A i \in 1 .. Len(q) : Append(q, m)[i] = q[i]
    OBVIOUS
  <1>2. ConfirmedIn(Append(q, m)) = ConfirmedIn(q) /\ ConfirmedIn(q) \subseteq 1 .. Len(q)
    BY ConfirmedGrow
  <1>3. CASE m.started
    <2>1. Len(q) + 1 \in 1 .. Len(Append(q, m)) /\ \A c \in ConfirmedIn(q) : c < Len(q) + 1
      BY <1>1, <1>2
    <2> QED
      BY <1>1, <1>2, <1>3, <2>1 DEF OpenSince
  <1>4. CASE OpenSince(q)
    <2>1. PICK o \in 1 .. Len(q) : q[o].started /\ \A c \in ConfirmedIn(q) : c < o
      BY <1>4 DEF OpenSince
    <2>2. o \in 1 .. Len(Append(q, m)) /\ Append(q, m)[o] = q[o]
      BY <1>1
    <2> QED
      BY <1>2, <2>1, <2>2 DEF OpenSince
  <1> QED
    BY <1>3, <1>4

\* What _advance does on a frame of speech.
LEMMA SpeechFrameIs ==
  ASSUME NEW d
  PROVE  /\ SpeechFrame(d).inSpeech <=> d.inSpeech \/ d.speechRun + 1 >= StartFrames
         /\ SpeechFrame(d).had <=> \/ d.had
                                   \/ /\ d.inSpeech \/ d.speechRun + 1 >= StartFrames
                                      /\ d.speech + 1 >= MinSpeech
         /\ ~SpeechFrame(d).candidate /\ ~SpeechFrame(d).confirmed
         /\ SpeechFrame(d).speechRun = d.speechRun + 1 /\ SpeechFrame(d).silenceRun = 0
         /\ SpeechFrame(d).silence = 0 /\ SpeechFrame(d).speech = d.speech + 1
  BY Zenon DEF SpeechFrame

\* What a decision says.
LEMMA DecisionIs ==
  ASSUME NEW d, NEW e
  PROVE  /\ Decision(d, e).started <=> ~d.inSpeech /\ e.inSpeech
         /\ Decision(d, e).confirmed <=> ~d.confirmed /\ e.confirmed
         /\ Decision(d, e) \in [started : BOOLEAN, ended : BOOLEAN, candidate : BOOLEAN, confirmed : BOOLEAN]
  BY Zenon DEF Decision

\* The first two conjuncts after a frame, and what the marks say of it.
LEMMA CountersMove ==
  ASSUME NEW d, NEW x, NEW s, NEW q, NEW v \in BOOLEAN, EpTypes(d, x, s, q), CountersAreRuns(d, s)
  PROVE  CountersAreRuns(Advance(d, v), Append(s, v))
  <1> DEFINE n == Len(s)
             t == Append(s, v)
             e == Advance(d, v)
  <1>1. /\ s \in Seq(BOOLEAN) /\ n \in Nat /\ Len(t) = n + 1 /\ t \in Seq(BOOLEAN)
        /\ d.speechRun \in Nat /\ d.silenceRun \in Nat /\ d.speech \in Nat
        /\ StartFrames \in Nat \ {0} /\ EndFrames \in Nat \ {0}
    BY EndpointingAssumption DEF EpTypes
  <1>2. /\ Trailing(s, TRUE, d.speechRun) /\ Trailing(s, FALSE, d.silenceRun)
        /\ d.silence = d.silenceRun /\ d.speechRun <= d.speech
        /\ d.inSpeech <=> SpeakingIn(s, n, EndFrames)
    BY DEF CountersAreRuns
  <1>3. /\ Trailing(t, TRUE, IF v = TRUE THEN d.speechRun + 1 ELSE 0)
        /\ Trailing(t, FALSE, IF v = FALSE THEN d.silenceRun + 1 ELSE 0)
    BY <1>1, <1>2, TrailingMoves
  <1>4. SpeakingIn(t, n + 1, EndFrames) <=>
          IF v THEN SpeakingIn(s, n, EndFrames) \/ RunIn(t, TRUE, StartFrames, n + 1)
          ELSE SpeakingIn(s, n, EndFrames) /\ ~RunIn(t, FALSE, EndFrames, n + 1)
    BY <1>1, SpeakingMoves
  <1> HIDE DEF t, e
  <1>5. CASE v
    <2>1. e = SpeechFrame(d)
      BY <1>5 DEF e, Advance
    <2>2. e.speechRun = d.speechRun + 1 /\ e.silenceRun = 0 /\ e.silence = 0 /\ e.speech = d.speech + 1
          /\ (e.inSpeech <=> d.inSpeech \/ d.speechRun + 1 >= StartFrames)
      BY <2>1, SpeechFrameIs
    <2>3. Trailing(t, TRUE, d.speechRun + 1) /\ Trailing(t, FALSE, 0)
      BY <1>3, <1>5
    <2>4. RunIn(t, TRUE, StartFrames, Len(t)) <=> StartFrames <= d.speechRun + 1
      BY <1>1, <2>3, TrailingRuns
    <2>5. e.inSpeech <=> SpeakingIn(t, Len(t), EndFrames)
      BY <1>1, <1>2, <1>4, <1>5, <2>2, <2>4
    <2>6. e.speechRun <= e.speech
      BY <1>1, <1>2, <2>2
    <2> QED
      BY <2>2, <2>3, <2>5, <2>6 DEF CountersAreRuns, e, t
  <1>6. CASE ~v
    <2> DEFINE offset == d.inSpeech /\ d.silenceRun + 1 >= EndFrames
    <2>1. e = SilentFrame(d)
      BY <1>6 DEF e, Advance
    <2>2. /\ e.speechRun = 0 /\ e.silenceRun = d.silenceRun + 1 /\ e.silence = d.silence + 1
          /\ e.speech = IF offset THEN 0 ELSE d.speech
          /\ (e.inSpeech <=> d.inSpeech /\ ~offset)
      BY <2>1, Zenon DEF SilentFrame
    <2>3. Trailing(t, TRUE, 0) /\ Trailing(t, FALSE, d.silenceRun + 1)
      BY <1>3, <1>6
    <2>4. RunIn(t, FALSE, EndFrames, Len(t)) <=> EndFrames <= d.silenceRun + 1
      BY <1>1, <2>3, TrailingRuns
    <2>5. e.inSpeech <=> SpeakingIn(t, Len(t), EndFrames)
      BY <1>1, <1>2, <1>4, <1>6, <2>2, <2>4
    <2>6. e.speechRun <= e.speech
      BY <1>1, <2>2
    <2> QED
      BY <1>2, <2>2, <2>3, <2>5, <2>6 DEF CountersAreRuns, e, t
  <1> QED
    BY <1>5, <1>6

\* The extractor's counters and its emotion.
LEMMA ExtractorMoves ==
  ASSUME NEW d, NEW x, NEW s, NEW q, NEW v \in BOOLEAN, EpTypes(d, x, s, q), ExtractorFollows(x, s)
  PROVE  ExtractorFollows(Extract(x, v), Append(s, v))
  <1> DEFINE n == Len(s)
             t == Append(s, v)
             y == Extract(x, v)
             run == IF v THEN x.speechRun + 1 ELSE 0
             quiet == IF v THEN 0 ELSE x.silenceRun + 1
             onset == v /\ ~x.inSpeech /\ run >= StartFrames
             talking == (x.inSpeech /\ quiet < FxEndFrames) \/ onset
             fresh == talking /\ (x.seq % EmotionEvery = 0 \/ onset)
  <1>1. /\ s \in Seq(BOOLEAN) /\ n \in Nat /\ Len(t) = n + 1 /\ t \in Seq(BOOLEAN)
        /\ x.speechRun \in Nat /\ x.silenceRun \in Nat /\ x.seq \in Nat /\ x.emotionOf \in Nat
        /\ StartFrames \in Nat \ {0} /\ FxEndFrames \in Nat \ {0}
    BY EndpointingAssumption DEF EpTypes
  <1>2. /\ Trailing(s, TRUE, x.speechRun) /\ Trailing(s, FALSE, x.silenceRun) /\ x.seq = n
        /\ x.inSpeech <=> SpeakingIn(s, n, FxEndFrames)
    BY DEF ExtractorFollows
  <1>3. /\ Trailing(t, TRUE, IF v = TRUE THEN x.speechRun + 1 ELSE 0)
        /\ Trailing(t, FALSE, IF v = FALSE THEN x.silenceRun + 1 ELSE 0)
    BY <1>1, <1>2, TrailingMoves
  <1>4. SpeakingIn(t, n + 1, FxEndFrames) <=>
          IF v THEN SpeakingIn(s, n, FxEndFrames) \/ RunIn(t, TRUE, StartFrames, n + 1)
          ELSE SpeakingIn(s, n, FxEndFrames) /\ ~RunIn(t, FALSE, FxEndFrames, n + 1)
    BY <1>1, SpeakingMoves
  <1>5. /\ y.seq = x.seq + 1 /\ (y.inSpeech <=> talking) /\ y.speechRun = run /\ y.silenceRun = quiet
        /\ y.emotionOf = (IF fresh THEN x.seq + 1 ELSE x.emotionOf)
        /\ y.attached = (IF talking THEN y.emotionOf ELSE 0)
    BY Zenon DEF Extract
  <1>6. \A j \in 0 .. n : SpeakingIn(t, j, FxEndFrames) <=> SpeakingIn(s, j, FxEndFrames)
    BY <1>1, SpeakingStays
  <1>7. x.inSpeech => /\ x.emotionOf \in 1 .. n
                      /\ \A j \in x.emotionOf .. n : SpeakingIn(s, j, FxEndFrames)
    BY DEF ExtractorFollows
  <1> HIDE DEF t, y
  <1>8. Trailing(t, TRUE, run) /\ Trailing(t, FALSE, quiet) /\ run \in Nat /\ quiet \in Nat
    <2>1. CASE v
      <3>1. Trailing(t, TRUE, x.speechRun + 1) /\ Trailing(t, FALSE, 0)
        BY <1>3, <2>1
      <3>2. run = x.speechRun + 1 /\ quiet = 0
        BY <2>1
      <3> HIDE DEF run, quiet
      <3>3. Trailing(t, TRUE, run) /\ Trailing(t, FALSE, quiet)
        BY <3>1, <3>2, Zenon
      <3>4. run \in Nat /\ quiet \in Nat
        BY <1>1, <3>2
      <3> QED
        BY <3>3, <3>4
    <2>2. CASE ~v
      <3>1. Trailing(t, TRUE, 0) /\ Trailing(t, FALSE, x.silenceRun + 1)
        BY <1>3, <2>2
      <3>2. run = 0 /\ quiet = x.silenceRun + 1
        BY <2>2
      <3> HIDE DEF run, quiet
      <3>3. Trailing(t, TRUE, run) /\ Trailing(t, FALSE, quiet)
        BY <3>1, <3>2, Zenon
      <3>4. run \in Nat /\ quiet \in Nat
        BY <1>1, <3>2
      <3> QED
        BY <3>3, <3>4
    <2> QED
      BY <2>1, <2>2
  <1> HIDE DEF run, quiet
  <1>9. (RunIn(t, TRUE, StartFrames, Len(t)) <=> StartFrames <= run)
        /\ (RunIn(t, FALSE, FxEndFrames, Len(t)) <=> FxEndFrames <= quiet)
    BY <1>1, <1>8, TrailingRuns
  <1>10. v => quiet = 0
    BY DEF quiet
  <1>11. talking <=> SpeakingIn(t, n + 1, FxEndFrames)
    <2>1. /\ RunIn(t, TRUE, StartFrames, n + 1) <=> StartFrames <= run
          /\ RunIn(t, FALSE, FxEndFrames, n + 1) <=> FxEndFrames <= quiet
      BY <1>1, <1>9
    <2>2. CASE v
      <3>1. talking <=> x.inSpeech \/ StartFrames <= run
        BY <1>1, <1>8, <1>10, <2>2
      <3> QED
        BY <1>2, <1>4, <2>1, <2>2, <3>1
    <2>3. CASE ~v
      <3>1. talking <=> x.inSpeech /\ ~(FxEndFrames <= quiet)
        BY <1>1, <1>8, <2>3
      <3> QED
        BY <1>2, <1>4, <2>1, <2>3, <3>1
    <2> QED
      BY <2>2, <2>3
  <1>12. talking => /\ y.emotionOf \in 1 .. (n + 1)
                    /\ \A j \in y.emotionOf .. (n + 1) : SpeakingIn(t, j, FxEndFrames)
    <2> SUFFICES ASSUME talking
                 PROVE  /\ y.emotionOf \in 1 .. (n + 1)
                        /\ \A j \in y.emotionOf .. (n + 1) : SpeakingIn(t, j, FxEndFrames)
      OBVIOUS
    <2>1. CASE fresh
      <3>1. y.emotionOf = n + 1
        BY <1>2, <1>5, <2>1
      <3>2. \A j \in (n + 1) .. (n + 1) : j = n + 1
        BY <1>1
      <3> QED
        BY <1>1, <1>11, <3>1, <3>2
    <2>2. CASE ~fresh
      <3>1. y.emotionOf = x.emotionOf /\ x.inSpeech
        BY <1>5, <2>2
      <3>2. x.emotionOf \in 1 .. (n + 1)
            /\ \A j \in x.emotionOf .. (n + 1) : j = n + 1 \/ (j \in 0 .. n /\ j \in x.emotionOf .. n)
        BY <1>1, <1>7, <3>1
      <3> QED
        BY <1>6, <1>7, <1>11, <3>1, <3>2
    <2> QED
      BY <2>1, <2>2
  <1> HIDE DEF talking, fresh
  <1>13. ExtractorFollows(y, t)
    BY <1>1, <1>2, <1>5, <1>8, <1>11, <1>12 DEF ExtractorFollows
  <1> QED
    BY <1>13 DEF y, t

\* The types after a frame.
LEMMA EpTypesMove ==
  ASSUME NEW d, NEW x, NEW s, NEW q, NEW v \in BOOLEAN, EpTypes(d, x, s, q)
  PROVE  EpTypes(Advance(d, v), Extract(x, v), Append(s, v), Append(q, Decision(d, Advance(d, v))))
  <1> DEFINE D == [inSpeech : BOOLEAN, speechRun : Nat, silenceRun : Nat, silence : Nat, speech : Nat,
                   had : BOOLEAN, candidate : BOOLEAN, confirmed : BOOLEAN]
             X == [seq : Nat, inSpeech : BOOLEAN, speechRun : Nat, silenceRun : Nat, emotionOf : Nat,
                   attached : Nat]
             M == [started : BOOLEAN, ended : BOOLEAN, candidate : BOOLEAN, confirmed : BOOLEAN]
  <1>1. s \in Seq(BOOLEAN) /\ q \in Seq(M) /\ Len(q) = Len(s) /\ d \in D /\ x \in X
    BY DEF EpTypes
  <1>2. \A a, b, c, e \in BOOLEAN, i, j, k, l \in Nat :
          [inSpeech |-> a, speechRun |-> i, silenceRun |-> j, silence |-> k, speech |-> l,
           had |-> b, candidate |-> c, confirmed |-> e] \in D
    OBVIOUS
  <1>3. \A b \in BOOLEAN, i, j, k, l, m \in Nat :
          [seq |-> i, inSpeech |-> b, speechRun |-> j, silenceRun |-> k, emotionOf |-> l,
           attached |-> m] \in X
    OBVIOUS
  <1>4. Decision(d, Advance(d, v)) \in M
    BY DecisionIs
  <1>5. d.speechRun + 1 \in Nat /\ d.silenceRun + 1 \in Nat /\ d.silence + 1 \in Nat /\ d.speech + 1 \in Nat
        /\ d.speech \in Nat
    BY <1>1, SMTT(30)
  <1>6. x.seq + 1 \in Nat /\ x.speechRun + 1 \in Nat /\ x.silenceRun + 1 \in Nat /\ x.emotionOf \in Nat /\ 0 \in Nat
    BY <1>1, SMTT(30)
  <1> HIDE DEF D, X, M
  <1>7. Advance(d, v) \in D
    <2>1. ASSUME v PROVE SpeechFrame(d) \in D
      <3> DEFINE talking == d.inSpeech \/ d.speechRun + 1 >= StartFrames
                 b == d.had \/ (talking /\ d.speech + 1 >= MinSpeech)
                 no == FALSE
      <3>1. SpeechFrame(d) = [inSpeech |-> talking, speechRun |-> d.speechRun + 1, silenceRun |-> 0,
                              silence |-> 0, speech |-> d.speech + 1, had |-> b, candidate |-> no,
                              confirmed |-> no]
        BY Zenon DEF SpeechFrame
      <3>2. talking \in BOOLEAN /\ b \in BOOLEAN /\ no \in BOOLEAN
        OBVIOUS
      <3> HIDE DEF talking, b, no
      <3> QED
        BY <1>5, <1>6, <3>1, <3>2 DEF D
    <2>2. ASSUME ~v PROVE SilentFrame(d) \in D
      <3> DEFINE offset == d.inSpeech /\ d.silenceRun + 1 >= EndFrames
                 tail == d.had /\ (~d.inSpeech \/ offset)
                 confirms == tail /\ ~d.confirmed /\ d.silence + 1 >= Hangover
                 a == d.inSpeech /\ ~offset
                 b == d.had /\ ~confirms
                 c == d.candidate \/ tail
                 e == d.confirmed \/ confirms
                 l == IF offset THEN 0 ELSE d.speech
      <3>1. SilentFrame(d) = [inSpeech |-> a, speechRun |-> 0, silenceRun |-> d.silenceRun + 1,
                              silence |-> d.silence + 1, speech |-> l, had |-> b, candidate |-> c,
                              confirmed |-> e]
        BY Zenon DEF SilentFrame
      <3>2. l \in Nat
        BY <1>5, <1>6
      <3> HIDE DEF offset, tail, confirms
      <3>3. a \in BOOLEAN /\ b \in BOOLEAN /\ c \in BOOLEAN /\ e \in BOOLEAN
        OBVIOUS
      <3> HIDE DEF a, b, c, e, l
      <3> QED
        BY <1>5, <1>6, <3>1, <3>2, <3>3 DEF D
    <2> QED
      BY <2>1, <2>2 DEF Advance
  <1>8. Extract(x, v) \in X
    <2>1. (IF v THEN x.speechRun + 1 ELSE 0) \in Nat /\ (IF v THEN 0 ELSE x.silenceRun + 1) \in Nat
      BY <1>6
    <2>2. ASSUME NEW a \in BOOLEAN, NEW b \in BOOLEAN
          PROVE  /\ (IF b THEN x.seq + 1 ELSE x.emotionOf) \in Nat
                 /\ (IF a THEN IF b THEN x.seq + 1 ELSE x.emotionOf ELSE 0) \in Nat
      BY <1>6
    <2> QED
      BY <1>3, <1>6, <2>1, <2>2, Zenon DEF Extract
  <1>9. Append(s, v) \in Seq(BOOLEAN) /\ Append(q, Decision(d, Advance(d, v))) \in Seq(M)
        /\ Len(Append(q, Decision(d, Advance(d, v)))) = Len(Append(s, v))
    BY <1>1, <1>4
  <1> QED
    BY <1>7, <1>8, <1>9 DEF EpTypes, D, X, M

\* A long stretch of speech is not over after a short pause.
LEMMA StillSpeaking ==
  ASSUME NEW s \in Seq(BOOLEAN), NEW c \in Nat, c < EndFrames, RunIn(s, TRUE, Need, Len(s) - c)
  PROVE  SpeakingIn(s, Len(s), EndFrames)
  <1>1. /\ Len(s) \in Nat /\ StartFrames \in Nat \ {0} /\ EndFrames \in Nat \ {0}
        /\ Need \in Nat \ {0} /\ Need >= StartFrames
    BY EndpointingAssumption DEF Need
  <1>2. Len(s) - c >= Need /\ \A j \in (Len(s) - c - Need + 1) .. (Len(s) - c) : s[j] = TRUE
    BY DEF RunIn
  <1>3. PICK o \in 1 .. Len(s) : o = Len(s) - c
    <2>1. Len(s) - c \in 1 .. Len(s)
      BY <1>1, <1>2
    <2> QED
      BY <2>1
  <1>4. s[o] = TRUE
    BY <1>1, <1>2, <1>3
  <1>5. RunIn(s, TRUE, StartFrames, o)
    BY <1>1, <1>2, <1>3 DEF RunIn
  <1>6. ASSUME NEW j \in o .. Len(s), RunIn(s, FALSE, EndFrames, j) PROVE FALSE
    <2>1. o \in (j - EndFrames + 1) .. j
      BY <1>1, <1>3
    <2>2. s[o] = FALSE
      BY <1>6, <2>1 DEF RunIn
    <2> QED
      BY <1>4, <2>2
  <1> QED
    BY <1>5, <1>6 DEF SpeakingIn

\* A step of the detector: what it says of confirmation and of the turn that is due.
LEMMA SilentStep ==
  ASSUME NEW d, NEW x, NEW s, NEW q, EpTypes(d, x, s, q), CountersAreRuns(d, s), StaysDue(d, s)
  PROVE  LET e == SilentFrame(d)
             m == Decision(d, e)
             t == Append(s, FALSE)
         IN /\ m.confirmed => d.had /\ ~e.had /\ ~e.inSpeech /\ RunIn(t, FALSE, Hangover, Len(t))
            /\ StaysDue(e, t)
            /\ RunIn(t, FALSE, Wait, Len(t)) /\ RunIn(t, TRUE, Need, Len(t) - Wait) => m.confirmed
            /\ ~m.started /\ (e.inSpeech \/ e.had => d.inSpeech \/ d.had)
  <1> DEFINE n == Len(s)
             t == Append(s, FALSE)
             e == SilentFrame(d)
             m == Decision(d, e)
             offset == d.inSpeech /\ d.silenceRun + 1 >= EndFrames
             tail == d.had /\ (~d.inSpeech \/ offset)
             confirms == tail /\ ~d.confirmed /\ d.silence + 1 >= Hangover
  <1>1. /\ s \in Seq(BOOLEAN) /\ n \in Nat /\ Len(t) = n + 1 /\ t \in Seq(BOOLEAN)
        /\ d.silenceRun \in Nat /\ Hangover \in Nat /\ MinSpeech \in Nat
        /\ StartFrames \in Nat \ {0} /\ EndFrames \in Nat \ {0} /\ t[n + 1] = FALSE
    BY EndpointingAssumption, SMTT(30) DEF EpTypes
  <1>2. Trailing(s, FALSE, d.silenceRun) /\ d.silence = d.silenceRun
    BY DEF CountersAreRuns
  <1>3. Trailing(t, FALSE, d.silenceRun + 1)
    <2>1. Trailing(t, FALSE, IF FALSE = FALSE THEN d.silenceRun + 1 ELSE 0)
      BY <1>1, <1>2, TrailingMoves
    <2> QED
      BY <2>1
  <1>4. /\ e.inSpeech <=> d.inSpeech /\ ~offset
        /\ e.had <=> d.had /\ ~confirms
        /\ e.confirmed <=> d.confirmed \/ confirms
        /\ e.silence = d.silence + 1
    BY Zenon DEF SilentFrame
  <1>5. (m.started <=> ~d.inSpeech /\ e.inSpeech) /\ (m.confirmed <=> ~d.confirmed /\ e.confirmed)
    BY DecisionIs, Zenon
  <1> HIDE DEF t, e, m
  <1>6. Wait \in Nat \ {0} /\ Need \in Nat \ {0} /\ Wait >= EndFrames /\ Wait >= Hangover
        /\ (Wait = EndFrames \/ Wait = Hangover)
    BY <1>1 DEF Wait, Need
  <1>7. m.confirmed => d.had /\ ~e.had /\ ~e.inSpeech /\ RunIn(t, FALSE, Hangover, Len(t))
    <2> SUFFICES ASSUME m.confirmed
                 PROVE  d.had /\ ~e.had /\ ~e.inSpeech /\ RunIn(t, FALSE, Hangover, Len(t))
      OBVIOUS
    <2>1. confirms
      BY <1>4, <1>5
    <2>2. d.had /\ ~e.had /\ ~e.inSpeech
      BY <1>4, <2>1
    <2>3. Hangover <= d.silenceRun + 1
      BY <1>1, <1>2, <2>1
    <2>4. RunIn(t, FALSE, Hangover, Len(t))
      BY <1>1, <1>3, <2>3, TrailingRuns
    <2> QED
      BY <2>2, <2>4
  <1>8. ASSUME NEW c \in Nat, c = d.silence, c < Wait, RunIn(t, TRUE, Need, n - c)
        PROVE  d.had /\ ~d.confirmed
    <2>1. n - c >= Need
      BY <1>8 DEF RunIn
    <2>2. n - c \in 0 .. n
      BY <1>1, <1>6, <2>1
    <2>3. RunIn(s, TRUE, Need, n - c)
      BY <1>1, <1>6, <1>8, <2>2, RunStays DEF t
    <2> QED
      BY <1>8, <2>3 DEF StaysDue
  <1>9. PICK c \in Nat : c = d.silence /\ c = d.silenceRun
    BY <1>1, <1>2
  <1>10. StaysDue(e, t)
    <2> SUFFICES ASSUME e.silence < Wait, RunIn(t, TRUE, Need, Len(t) - e.silence)
                 PROVE  e.had /\ ~e.confirmed
      BY DEF StaysDue
    <2>1. e.silence = c + 1 /\ Len(t) - e.silence = n - c /\ c < Wait
      <3>1. n \in Nat /\ Len(t) = n + 1
        BY <1>1
      <3>2. e.silence = c + 1
        BY <1>4, <1>9
      <3>3. c + 1 < Wait /\ Wait \in Nat
        BY <1>6, <3>2
      <3> QED
        BY <3>1, <3>2, <3>3
    <2>2. d.had /\ ~d.confirmed
      BY <1>8, <1>9, <2>1
    <2>3. ~confirms
      <3>1. CASE Wait = Hangover
        BY <1>1, <1>9, <2>1, <3>1
      <3>2. CASE Wait = EndFrames
        <4>1. ~offset
          BY <1>1, <1>9, <2>1, <3>2
        <4>2. RunIn(t, TRUE, Need, n - c)
          BY <2>1
        <4>3. n - c \in 0 .. n
          BY <1>1, <1>6, <4>2 DEF RunIn
        <4>4. RunIn(s, TRUE, Need, n - c)
          BY <1>1, <1>6, <4>2, <4>3, RunStays DEF t
        <4>5. c < EndFrames
          BY <1>1, <2>1, <3>2
        <4>6. SpeakingIn(s, n, EndFrames)
          BY <1>1, <4>4, <4>5, StillSpeaking
        <4>7. d.inSpeech
          BY <4>6 DEF CountersAreRuns
        <4> QED
          BY <4>1, <4>7
      <3> QED
        BY <1>6, <3>1, <3>2
    <2> QED
      BY <1>4, <2>2, <2>3
  <1>11. RunIn(t, FALSE, Wait, Len(t)) /\ RunIn(t, TRUE, Need, Len(t) - Wait) => m.confirmed
    <2> SUFFICES ASSUME RunIn(t, FALSE, Wait, Len(t)), RunIn(t, TRUE, Need, Len(t) - Wait)
                 PROVE  m.confirmed
      OBVIOUS
    <2>1. Wait <= c + 1
      BY <1>1, <1>3, <1>6, <1>9, TrailingRuns
    <2>2. c + 1 <= Wait
      <3>1. n + 1 - Wait >= Need
        <4>1. Len(t) - Wait >= Need
          BY DEF RunIn
        <4> QED
          BY <1>1, <1>6, <4>1
      <3>2. PICK j \in 1 .. n : j = n + 1 - Wait
        <4>1. n \in Nat /\ Wait \in Nat \ {0} /\ Need \in Nat \ {0}
          BY <1>1, <1>6
        <4>2. n + 1 - Wait \in 1 .. n
          BY <3>1, <4>1
        <4> QED
          BY <4>2
      <3>3. t[j] = TRUE
        <4>1. j \in (Len(t) - Wait - Need + 1) .. (Len(t) - Wait)
          BY <1>1, <1>6, <3>2
        <4> QED
          BY <4>1 DEF RunIn
      <3>4. \A i \in (Len(t) - (c + 1) + 1) .. Len(t) : t[i] = FALSE
        BY <1>3, <1>9 DEF Trailing
      <3>5. ~(j \in (Len(t) - (c + 1) + 1) .. Len(t))
        BY <3>3, <3>4
      <3> QED
        BY <1>1, <1>6, <3>2, <3>5
    <2>3. c + 1 = Wait
      BY <1>6, <2>1, <2>2
    <2>4. RunIn(t, TRUE, Need, n - c)
      <3>1. Len(t) - Wait = n - c
        BY <1>1, <1>6, <2>3
      <3> QED
        BY <3>1
    <2>5. d.had /\ ~d.confirmed
      <3>1. c < Wait
        BY <1>6, <2>3
      <3> QED
        BY <1>8, <1>9, <2>4, <3>1
    <2>6. c + 1 >= EndFrames /\ c + 1 >= Hangover
      BY <1>1, <1>6, <2>3
    <2>7. tail /\ confirms
      BY <1>9, <2>5, <2>6
    <2> QED
      BY <1>4, <1>5, <2>5, <2>7
  <1>12. ~m.started /\ (e.inSpeech \/ e.had => d.inSpeech \/ d.had)
    BY <1>4, <1>5
  <1> QED
    BY <1>7, <1>10, <1>11, <1>12 DEF t, e, m

\* A speech frame confirms no turn and leaves a long utterance due.
LEMMA SpeechStep ==
  ASSUME NEW d, NEW x, NEW s, NEW q, EpTypes(d, x, s, q), CountersAreRuns(d, s)
  PROVE  LET e == SpeechFrame(d)
             m == Decision(d, e)
             t == Append(s, TRUE)
         IN /\ ~m.confirmed
            /\ StaysDue(e, t)
            /\ ~RunIn(t, FALSE, Wait, Len(t))
            /\ e.inSpeech \/ e.had => m.started \/ d.inSpeech \/ d.had
  <1> DEFINE n == Len(s)
             t == Append(s, TRUE)
             e == SpeechFrame(d)
             m == Decision(d, e)
  <1>1. /\ s \in Seq(BOOLEAN) /\ n \in Nat /\ Len(t) = n + 1 /\ t \in Seq(BOOLEAN)
        /\ d.speechRun \in Nat /\ d.speech \in Nat /\ Hangover \in Nat /\ MinSpeech \in Nat
        /\ StartFrames \in Nat \ {0} /\ EndFrames \in Nat \ {0} /\ t[n + 1] = TRUE
    BY EndpointingAssumption, SMTT(30) DEF EpTypes
  <1>2. Trailing(s, TRUE, d.speechRun) /\ d.speechRun <= d.speech
    BY DEF CountersAreRuns
  <1>3. Trailing(t, TRUE, d.speechRun + 1)
    <2>1. Trailing(t, TRUE, IF TRUE = TRUE THEN d.speechRun + 1 ELSE 0)
      BY <1>1, <1>2, TrailingMoves
    <2> QED
      BY <2>1
  <1>4. /\ e.inSpeech <=> d.inSpeech \/ d.speechRun + 1 >= StartFrames
        /\ e.had <=> d.had \/ ((d.inSpeech \/ d.speechRun + 1 >= StartFrames) /\ d.speech + 1 >= MinSpeech)
        /\ ~e.confirmed /\ e.silence = 0
    BY Zenon DEF SpeechFrame
  <1>5. (m.started <=> ~d.inSpeech /\ e.inSpeech) /\ (m.confirmed <=> ~d.confirmed /\ e.confirmed)
    BY DecisionIs, Zenon
  <1> HIDE DEF t, e, m
  <1>6. Wait \in Nat \ {0} /\ Need \in Nat \ {0} /\ Need >= StartFrames /\ Need >= MinSpeech
    BY <1>1 DEF Wait, Need
  <1>7. StaysDue(e, t)
    <2> SUFFICES ASSUME RunIn(t, TRUE, Need, Len(t) - e.silence)
                 PROVE  e.had /\ ~e.confirmed
      BY DEF StaysDue
    <2>1. Len(t) - e.silence = Len(t)
      BY <1>1, <1>4
    <2>2. Need <= d.speechRun + 1
      BY <1>1, <1>3, <1>6, <2>1, TrailingRuns
    <2>3. d.speechRun + 1 >= StartFrames /\ d.speech + 1 >= MinSpeech
      BY <1>1, <1>2, <1>6, <2>2
    <2> QED
      BY <1>4, <2>3
  <1>8. ASSUME RunIn(t, FALSE, Wait, Len(t)) PROVE FALSE
    <2>1. n + 1 \in (Len(t) - Wait + 1) .. Len(t)
      BY <1>1, <1>6
    <2>2. t[n + 1] = FALSE
      BY <1>8, <2>1 DEF RunIn
    <2> QED
      BY <1>1, <2>2
  <1>9. e.inSpeech \/ e.had => m.started \/ d.inSpeech \/ d.had
    BY <1>4, <1>5
  <1> QED
    BY <1>4, <1>5, <1>7, <1>8, <1>9 DEF t, e, m

\* A confirmation answers the open utterance, once.
LEMMA ConfirmedOnceMoves ==
  ASSUME NEW s \in Seq(BOOLEAN), NEW v \in BOOLEAN, NEW q, NEW S, q \in Seq(S), NEW m \in S,
         Len(q) = Len(s), ConfirmedOnce(s, q),
         m.confirmed => OpenSince(q) /\ RunIn(Append(s, v), FALSE, Hangover, Len(s) + 1)
  PROVE  ConfirmedOnce(Append(s, v), Append(q, m))
  <1> DEFINE n == Len(s)
             t == Append(s, v)
             w == Append(q, m)
  <1>1. /\ n \in Nat /\ Len(w) = n + 1 /\ Hangover \in Nat
        /\ \A i \in 1 .. n : w[i] = q[i]
    BY EndpointingAssumption
  <1>2. /\ m.confirmed => ConfirmedIn(w) = ConfirmedIn(q) \cup {n + 1}
        /\ ~m.confirmed => ConfirmedIn(w) = ConfirmedIn(q)
        /\ ConfirmedIn(q) \subseteq 1 .. n
    BY ConfirmedGrow
  <1>3. \A i \in 0 .. n : RunIn(t, FALSE, Hangover, i) <=> RunIn(s, FALSE, Hangover, i)
    BY <1>1, RunStays
  <1> HIDE DEF t, w
  <1> SUFFICES ASSUME NEW i \in ConfirmedIn(w)
               PROVE  /\ RunIn(t, FALSE, Hangover, i)
                      /\ \E o \in 1 .. i : w[o].started /\ \A c \in ConfirmedIn(w) : c < i => c < o
    BY DEF ConfirmedOnce, t, w
  <1>4. CASE i \in ConfirmedIn(q)
    <2>1. i \in 1 .. n /\ i \in 0 .. n
      BY <1>2, <1>4
    <2>2. RunIn(s, FALSE, Hangover, i)
          /\ \E o \in 1 .. i : q[o].started /\ \A c \in ConfirmedIn(q) : c < i => c < o
      BY <1>4 DEF ConfirmedOnce
    <2>3. PICK o \in 1 .. i : q[o].started /\ \A c \in ConfirmedIn(q) : c < i => c < o
      BY <2>2
    <2>4. w[o] = q[o] /\ \A c \in ConfirmedIn(w) : c < i => c \in ConfirmedIn(q)
      BY <1>1, <1>2, <2>1
    <2> QED
      BY <1>3, <2>1, <2>2, <2>3, <2>4
  <1>5. CASE i = n + 1 /\ m.confirmed
    <2>1. PICK o \in 1 .. n : q[o].started /\ \A c \in ConfirmedIn(q) : c < o
      BY <1>5 DEF OpenSince
    <2>2. o \in 1 .. i /\ w[o] = q[o] /\ \A c \in ConfirmedIn(w) : c < i => c \in ConfirmedIn(q)
      BY <1>1, <1>2, <1>5
    <2>3. RunIn(t, FALSE, Hangover, i)
      BY <1>5, Zenon DEF t, n
    <2> QED
      BY <2>1, <2>2, <2>3
  <1>6. i \in ConfirmedIn(q) \/ (i = n + 1 /\ m.confirmed)
    <2>1. CASE m.confirmed
      <3>1. i \in ConfirmedIn(q) \cup {n + 1}
        BY <1>2, <2>1, Zenon
      <3> QED
        BY <2>1, <3>1, Zenon
    <2>2. CASE ~m.confirmed
      BY <1>2, <2>2, Zenon
    <2> QED
      BY <2>1, <2>2, Zenon
  <1> QED
    BY <1>4, <1>5, <1>6, Zenon

\* A turn that is due is confirmed by the frame that makes it due.
LEMMA ConfirmedAtLastMoves ==
  ASSUME NEW s \in Seq(BOOLEAN), NEW v \in BOOLEAN, NEW q, NEW S, q \in Seq(S), NEW m \in S,
         Len(q) = Len(s), ConfirmedAtLast(s, q),
         LET t == Append(s, v)
         IN  RunIn(t, FALSE, Wait, Len(t)) /\ RunIn(t, TRUE, Need, Len(t) - Wait) => m.confirmed
  PROVE  ConfirmedAtLast(Append(s, v), Append(q, m))
  <1> DEFINE n == Len(s)
             t == Append(s, v)
             w == Append(q, m)
  <1>1. n \in Nat /\ Len(t) = n + 1 /\ Wait \in Nat /\ Need \in Nat
    BY EndpointingAssumption DEF Wait, Need
  <1>2. /\ m.confirmed => ConfirmedIn(w) = ConfirmedIn(q) \cup {n + 1}
        /\ ~m.confirmed => ConfirmedIn(w) = ConfirmedIn(q)
    BY ConfirmedGrow
  <1>3. \A i \in 0 .. n : /\ RunIn(t, FALSE, Wait, i) <=> RunIn(s, FALSE, Wait, i)
                          /\ RunIn(t, TRUE, Need, i) <=> RunIn(s, TRUE, Need, i)
    BY <1>1, RunStays
  <1> HIDE DEF t, w
  <1> SUFFICES ASSUME NEW i \in 1 .. n + 1, RunIn(t, FALSE, Wait, i), RunIn(t, TRUE, Need, i - Wait)
               PROVE  i \in ConfirmedIn(w)
    BY <1>1 DEF ConfirmedAtLast, t, w
  <1>4. CASE i = n + 1
    <2>1. RunIn(t, FALSE, Wait, Len(t)) /\ RunIn(t, TRUE, Need, Len(t) - Wait) => m.confirmed
      BY Zenon DEF t
    <2>2. i = Len(t)
      BY <1>1, <1>4
    <2>3. m.confirmed
      BY <2>1, <2>2, Zenon
    <2> QED
      BY <1>2, <1>4, <2>3, Zenon
  <1>5. CASE i \in 1 .. n
    <2>1. i >= Wait
      BY DEF RunIn
    <2>2. PICK j \in 0 .. n : j = i - Wait
      BY <1>1, <1>5, <2>1
    <2>3. RunIn(t, TRUE, Need, j)
      BY <2>2, Zenon
    <2>4. RunIn(s, TRUE, Need, j) /\ RunIn(s, FALSE, Wait, i)
      <3> HIDE DEF n
      <3>1. i \in 0 .. n
        BY <1>1, <1>5
      <3> QED
        BY <1>3, <2>3, <3>1, Zenon
    <2>5. RunIn(s, TRUE, Need, i - Wait)
      BY <2>2, <2>4, Zenon
    <2>6. i \in ConfirmedIn(q)
      BY <1>5, <2>4, <2>5, Zenon DEF ConfirmedAtLast, n
    <2> QED
      BY <1>2, <2>6, Zenon
  <1> QED
    BY <1>1, <1>4, <1>5

\* Both counters before the first frame.
LEMMA NothingHeardYet ==
  ASSUME NEW d, NEW x, NEW s, NEW q, d = EpReset, x = FxReset, s = <<>>, q = <<>>
  PROVE  Follows(d, x, s, q)
  <1>1. s \in Seq(BOOLEAN) /\ Len(s) = 0 /\ Len(q) = 0
        /\ q \in Seq([started : BOOLEAN, ended : BOOLEAN, candidate : BOOLEAN, confirmed : BOOLEAN])
    OBVIOUS
  <1>2. /\ d \in [inSpeech : BOOLEAN, speechRun : Nat, silenceRun : Nat, silence : Nat, speech : Nat,
                  had : BOOLEAN, candidate : BOOLEAN, confirmed : BOOLEAN]
        /\ d.speechRun = 0 /\ d.silenceRun = 0 /\ d.silence = 0 /\ d.speech = 0
        /\ ~d.inSpeech /\ ~d.had /\ ~d.confirmed
    BY DEF EpReset
  <1>3. /\ x \in [seq : Nat, inSpeech : BOOLEAN, speechRun : Nat, silenceRun : Nat, emotionOf : Nat,
                  attached : Nat]
        /\ x.seq = 0 /\ ~x.inSpeech /\ x.speechRun = 0 /\ x.silenceRun = 0 /\ x.attached = 0
    BY DEF FxReset
  <1>4. EpTypes(d, x, s, q)
    BY <1>1, <1>2, <1>3 DEF EpTypes
  <1>5. \A k : Trailing(s, k, 0)
    BY <1>1 DEF Trailing
  <1>6. \A e : ~SpeakingIn(s, Len(s), e)
    BY <1>1 DEF SpeakingIn
  <1>7. CountersAreRuns(d, s) /\ ExtractorFollows(x, s)
    <2>1. /\ ~SpeakingIn(s, Len(s), FxEndFrames) /\ ~SpeakingIn(s, Len(s), EndFrames)
          /\ Trailing(s, TRUE, 0) /\ Trailing(s, FALSE, 0)
      BY <1>5, <1>6, Zenon
    <2>2. CountersAreRuns(d, s)
      <3>1. Trailing(s, TRUE, d.speechRun) /\ Trailing(s, FALSE, d.silenceRun)
        BY <1>2, <2>1, Zenon
      <3>2. d.silence = d.silenceRun /\ d.speechRun <= d.speech
        BY <1>2
      <3>3. d.inSpeech <=> SpeakingIn(s, Len(s), EndFrames)
        BY <1>2, <2>1, Zenon
      <3> QED
        BY <3>1, <3>2, <3>3, Zenon DEF CountersAreRuns
    <2>3. ExtractorFollows(x, s)
      BY <1>1, <1>3, <2>1 DEF ExtractorFollows
    <2> QED
      BY <2>2, <2>3
  <1>8. ConfirmedIn(q) = {}
    BY <1>1 DEF ConfirmedIn
  <1>9. ConfirmedOnce(s, q) /\ ConfirmedAtLast(s, q)
    <2>1. ConfirmedOnce(s, q)
      BY <1>8, Zenon DEF ConfirmedOnce
    <2>2. 1 .. Len(s) = {}
      BY <1>1
    <2>3. ConfirmedAtLast(s, q)
      BY <2>2, Zenon DEF ConfirmedAtLast
    <2> QED
      BY <2>1, <2>3
  <1>10. StaysDue(d, s)
    <2>1. Need \in Nat \ {0}
      BY EndpointingAssumption DEF Need
    <2>2. ~(Len(s) - d.silence >= Need)
      BY <1>1, <1>2, <2>1
    <2> QED
      BY <2>2 DEF StaysDue, RunIn
  <1> QED
    BY <1>2, <1>4, <1>7, <1>9, <1>10 DEF Follows

\* process_frame of the detector and of the extractor.
LEMMA EdgeFrameKeeps ==
  ASSUME NEW d, NEW x, NEW s, NEW q, NEW v \in BOOLEAN, Follows(d, x, s, q)
  PROVE  Follows(Advance(d, v), Extract(x, v), Append(s, v), Append(q, Decision(d, Advance(d, v))))
  <1> DEFINE n == Len(s)
             t == Append(s, v)
             e == Advance(d, v)
             m == Decision(d, e)
             w == Append(q, m)
             M == [started : BOOLEAN, ended : BOOLEAN, candidate : BOOLEAN, confirmed : BOOLEAN]
  <1>1. /\ EpTypes(d, x, s, q) /\ CountersAreRuns(d, s) /\ StaysDue(d, s)
        /\ ConfirmedOnce(s, q) /\ ConfirmedAtLast(s, q) /\ ExtractorFollows(x, s)
        /\ d.inSpeech \/ d.had => OpenSince(q)
    BY DEF Follows
  <1>2. s \in Seq(BOOLEAN) /\ q \in Seq(M) /\ Len(q) = n /\ m \in M /\ n \in Nat /\ Len(t) = n + 1
    BY <1>1, DecisionIs DEF EpTypes
  <1>3. EpTypes(e, Extract(x, v), t, w) /\ CountersAreRuns(e, t) /\ ExtractorFollows(Extract(x, v), t)
    BY <1>1, EpTypesMove, CountersMove, ExtractorMoves
  <1>4. /\ m.confirmed => d.had /\ ~e.had /\ ~e.inSpeech /\ RunIn(t, FALSE, Hangover, Len(t))
        /\ StaysDue(e, t)
        /\ RunIn(t, FALSE, Wait, Len(t)) /\ RunIn(t, TRUE, Need, Len(t) - Wait) => m.confirmed
        /\ e.inSpeech \/ e.had => m.started \/ d.inSpeech \/ d.had
    <2>1. CASE v = TRUE
      <3>1. e = SpeechFrame(d) /\ t = Append(s, TRUE) /\ m = Decision(d, SpeechFrame(d))
        BY <2>1 DEF Advance
      <3>2. /\ ~Decision(d, SpeechFrame(d)).confirmed
            /\ StaysDue(SpeechFrame(d), Append(s, TRUE))
            /\ ~RunIn(Append(s, TRUE), FALSE, Wait, Len(Append(s, TRUE)))
            /\ SpeechFrame(d).inSpeech \/ SpeechFrame(d).had
                 => Decision(d, SpeechFrame(d)).started \/ d.inSpeech \/ d.had
        BY <1>1, SpeechStep
      <3> HIDE DEF e, t, m
      <3> QED
        BY <3>1, <3>2, Zenon
    <2>2. CASE v = FALSE
      <3>1. e = SilentFrame(d) /\ t = Append(s, FALSE) /\ m = Decision(d, SilentFrame(d))
        BY <2>2 DEF Advance
      <3>2. LET e1 == SilentFrame(d)
                m1 == Decision(d, e1)
                t1 == Append(s, FALSE)
            IN /\ m1.confirmed => d.had /\ ~e1.had /\ ~e1.inSpeech /\ RunIn(t1, FALSE, Hangover, Len(t1))
               /\ StaysDue(e1, t1)
               /\ RunIn(t1, FALSE, Wait, Len(t1)) /\ RunIn(t1, TRUE, Need, Len(t1) - Wait) => m1.confirmed
               /\ ~m1.started /\ (e1.inSpeech \/ e1.had => d.inSpeech \/ d.had)
        BY <1>1, SilentStep
      <3> HIDE DEF e, t, m
      <3> QED
        BY <3>1, <3>2, Zenon
    <2> QED
      BY <2>1, <2>2
  <1> HIDE DEF e, m, M
  <1>5. e.inSpeech \/ e.had => OpenSince(w)
    <2> SUFFICES ASSUME e.inSpeech \/ e.had PROVE OpenSince(w)
      OBVIOUS
    <2>1. ~m.confirmed /\ (m.started \/ OpenSince(q))
      BY <1>1, <1>4
    <2> QED
      BY <1>2, <2>1, OpenMoves
  <1>6. ConfirmedOnce(t, w)
    <2>1. m.confirmed => OpenSince(q) /\ RunIn(t, FALSE, Hangover, n + 1)
      BY <1>1, <1>2, <1>4
    <2> QED
      BY <1>1, <1>2, <2>1, ConfirmedOnceMoves
  <1>7. ConfirmedAtLast(t, w)
    <2>1. RunIn(t, FALSE, Wait, Len(t)) /\ RunIn(t, TRUE, Need, Len(t) - Wait) => m.confirmed
      BY <1>4
    <2> QED
      BY <1>1, <1>2, <2>1, ConfirmedAtLastMoves
  <1> HIDE DEF t, w
  <1>8. Follows(e, Extract(x, v), t, w)
    BY <1>3, <1>4, <1>5, <1>6, <1>7 DEF Follows
  <1> QED
    BY <1>8 DEF e, t, w, m

\* The inductive invariant of endpointing.
LEMMA EpInvariance == EpSpec => []EpInv
  <1>1. EpInit => EpInv
    BY NothingHeardYet DEF EpInit, EpInv
  <1>2. EpInv /\ [EpNext]_epVars => EpInv'
    <2>1. ASSUME EpInv, ResetEndpointing PROVE EpInv'
      BY <2>1, NothingHeardYet DEF ResetEndpointing, EpInv
    <2>2. ASSUME EpInv, NEW v \in BOOLEAN, ProcessEdgeFrame(v) PROVE EpInv'
      <3>1. frames' = Append(frames, v) /\ ep' = Advance(ep, v) /\ fx' = Extract(fx, v)
            /\ marks' = Append(marks, Decision(ep, Advance(ep, v)))
        BY <2>2 DEF ProcessEdgeFrame
      <3> QED
        BY <2>2, <3>1, EdgeFrameKeeps DEF EpInv
    <2>3. ASSUME EpInv, UNCHANGED epVars PROVE EpInv'
      BY <2>3 DEF epVars, EpInv
    <2> QED
      BY <2>1, <2>2, <2>3 DEF EpNext
  <1> QED
    BY <1>1, <1>2, PTL DEF EpSpec

\* The invariant says what EdgeDetectors does.
LEMMA EpInvIsEnough == EpInv => EndpointsMatchTheAudio
  <1> SUFFICES ASSUME EpInv PROVE EndpointsMatchTheAudio
    OBVIOUS
  <1>1. /\ EpTypes(ep, fx, frames, marks) /\ CountersAreRuns(ep, frames)
        /\ ConfirmedOnce(frames, marks) /\ ConfirmedAtLast(frames, marks) /\ ExtractorFollows(fx, frames)
    BY DEF EpInv, Follows
  <1>2. \A k, n, i : RunOf(k, n, i) <=> RunIn(frames, k, n, i)
    BY DEF RunOf, RunIn
  <1>3. \A i, e : Speaking(i, e) <=> SpeakingIn(frames, i, e)
    BY <1>2 DEF Speaking, SpeakingIn
  <1>4. DOMAIN marks = 1 .. Len(marks) /\ DOMAIN frames = 1 .. Len(frames)
    BY <1>1 DEF EpTypes
  <1>5. Confirmations = ConfirmedIn(marks)
    BY <1>4 DEF Confirmations, ConfirmedIn
  <1>6. SpeechIsDebounced
    <2>1. ep.inSpeech \in BOOLEAN /\ fx.inSpeech \in BOOLEAN
      BY <1>1 DEF EpTypes
    <2>2. Speaking(Len(frames), EndFrames) \in BOOLEAN /\ Speaking(Len(frames), FxEndFrames) \in BOOLEAN
      BY DEF Speaking
    <2>3. /\ ep.inSpeech <=> Speaking(Len(frames), EndFrames)
          /\ fx.inSpeech <=> Speaking(Len(frames), FxEndFrames)
      BY <1>1, <1>3 DEF CountersAreRuns, ExtractorFollows
    <2> QED
      BY <2>1, <2>2, <2>3 DEF SpeechIsDebounced
  <1>7. TurnsEndOnce
    <2>1. \A i \in Confirmations :
            /\ RunOf(FALSE, Hangover, i)
            /\ \E o \in 1 .. i : marks[o].started /\ \A c \in Confirmations : c < i => c < o
      BY <1>1, <1>2, <1>5 DEF ConfirmedOnce
    <2>2. \A i \in DOMAIN frames :
            RunOf(FALSE, Wait, i) /\ RunOf(TRUE, Need, i - Wait) => i \in Confirmations
      BY <1>1, <1>2, <1>4, <1>5 DEF ConfirmedAtLast
    <2> QED
      BY <2>1, <2>2 DEF TurnsEndOnce, Wait, Need
  <1>8. EmotionOfThisUtterance
    BY <1>1, <1>3 DEF ExtractorFollows, EmotionOfThisUtterance
  <1> QED
    BY <1>6, <1>7, <1>8 DEF EndpointsMatchTheAudio

-----------------------------------------------------------------------------
(***************************************************************************)
(* Barge-in at the edge                                                    *)
(***************************************************************************)

\* One frame of check(): the counter and its onset keep step.
LEMMA CountedIs ==
  ASSUME NEW speech \in BOOLEAN, EdgeBargeInv, bd.since # Never
  PROVE  /\ Counted(speech) \in EdgeBargeTypes
         /\ Counted(speech).since = bd.since /\ Counted(speech).last = bd.last
         /\ Counted(speech).latency = bd.latency /\ Counted(speech).playing = bd.playing
         /\ Counted(speech).run > 0 => Counted(speech).onset # Never
         /\ Counted(speech).onset # Never => /\ bd.since <= Counted(speech).onset
                                             /\ Counted(speech).onset + Counted(speech).run <= btime + 1
  <1>1. /\ bd \in EdgeBargeTypes /\ btime \in Nat /\ Never = -1
        /\ bd.since <= btime /\ (bd.run > 0 => bd.onset # Never)
        /\ (bd.onset # Never => bd.since <= bd.onset /\ bd.onset + bd.run <= btime)
    BY DEF EdgeBargeInv, EdgeBargeTypes, Never
  <1> DEFINE d == Counted(speech)
             run == IF speech THEN bd.run + 1 ELSE IF bd.run > 0 THEN bd.run - 1 ELSE 0
             onset == IF speech /\ bd.run = 0 THEN btime ELSE IF run = 0 THEN Never ELSE bd.onset
  <1>2. d = [bd EXCEPT !.run = run, !.onset = onset]
    BY DEF Counted
  <1>3. run \in Nat /\ onset \in Nat \cup {Never}
    BY <1>1 DEF EdgeBargeTypes
  <1>4. run > 0 => onset # Never
    BY <1>1 DEF EdgeBargeTypes
  <1>5. onset # Never => bd.since <= onset /\ onset + run <= btime + 1
    BY <1>1 DEF EdgeBargeTypes
  <1> HIDE DEF run, onset
  <1>6. /\ d \in EdgeBargeTypes /\ d.run = run /\ d.onset = onset /\ d.since = bd.since
        /\ d.last = bd.last /\ d.latency = bd.latency /\ d.playing = bd.playing
    BY <1>1, <1>2, <1>3 DEF EdgeBargeTypes
  <1> QED
    BY <1>4, <1>5, <1>6

\* The inductive invariant of barge-in.
LEMMA EdgeBargeInvariance == EdgeBargeSpec => []EdgeBargeInv
  <1>1. EdgeBargeInit => EdgeBargeInv
    BY DEF EdgeBargeInit, EdgeDetectorReset, EdgeBargeInv, EdgeBargeTypes, Never
  <1>2. EdgeBargeInv /\ [EdgeBargeNext]_edgeBargeVars => EdgeBargeInv'
    <2> SUFFICES ASSUME EdgeBargeInv, [EdgeBargeNext]_edgeBargeVars PROVE EdgeBargeInv'
      OBVIOUS
    <2>0. bd \in EdgeBargeTypes /\ btime \in Nat /\ Never = -1
      BY DEF EdgeBargeInv, EdgeBargeTypes, Never
    <2>1. CASE ResetEdgeDetector
      <3>1. btime' = btime /\ bd' = [bd EXCEPT !.since = Never, !.run = 0, !.onset = Never, !.last = Never]
        BY <2>1 DEF ResetEdgeDetector
      <3>2. bd'.since = Never /\ bd'.run = 0 /\ bd'.onset = Never
            /\ bd'.latency = bd.latency /\ bd'.playing = bd.playing
        BY <2>0, <3>1 DEF EdgeBargeTypes
      <3>3. bd' \in EdgeBargeTypes
        BY <2>0, <3>1 DEF EdgeBargeTypes
      <3> QED
        BY <2>0, <3>1, <3>2, <3>3 DEF EdgeBargeInv, EdgeBargeTypes
    <2>2. CASE EdgeBargeTick
      BY <2>0, <2>2 DEF EdgeBargeTick, EdgeBargeInv, EdgeBargeTypes
    <2>3. ASSUME NEW on \in BOOLEAN, SetSpeaking(on) PROVE EdgeBargeInv'
      <3>1. CASE on
        BY <2>0, <2>3, <3>1 DEF SetSpeaking, EdgeBargeInv, EdgeBargeTypes
      <3>2. CASE ~on
        <4>1. btime' = btime /\ bd' = [bd EXCEPT !.since = Never, !.run = 0, !.onset = Never]
          BY <2>3, <3>2 DEF SetSpeaking
        <4>2. bd'.since = Never /\ bd'.run = 0 /\ bd'.onset = Never
              /\ bd'.latency = bd.latency /\ bd'.playing = bd.playing
          BY <2>0, <4>1 DEF EdgeBargeTypes
        <4>3. bd' \in EdgeBargeTypes
          BY <2>0, <4>1 DEF EdgeBargeTypes
        <4> QED
          BY <2>0, <4>1, <4>2, <4>3 DEF EdgeBargeInv, EdgeBargeTypes
      <3> QED
        BY <3>1, <3>2
    <2>4. ASSUME NEW speech \in BOOLEAN, CheckFrame(speech) PROVE EdgeBargeInv'
      <3>1. btime' = btime + 1
        BY <2>4 DEF CheckFrame
      <3>2. CASE bd.since = Never
        <4>1. bd' = [bd EXCEPT !.run = 0, !.onset = Never]
          BY <2>4, <3>2 DEF CheckFrame
        <4>2. bd'.since = Never /\ bd'.run = 0 /\ bd'.onset = Never
              /\ bd'.latency = bd.latency /\ bd'.playing = bd.playing
          BY <2>0, <3>2, <4>1 DEF EdgeBargeTypes
        <4>3. bd' \in EdgeBargeTypes
          BY <2>0, <4>1 DEF EdgeBargeTypes
        <4> QED
          BY <2>0, <3>1, <4>2, <4>3 DEF EdgeBargeInv, EdgeBargeTypes
      <3>3. CASE bd.since # Never
        <4> DEFINE d == Counted(speech)
        <4>1. /\ d \in EdgeBargeTypes /\ d.since = bd.since /\ d.last = bd.last
              /\ d.latency = bd.latency /\ d.playing = bd.playing
              /\ (d.run > 0 => d.onset # Never)
              /\ (d.onset # Never => bd.since <= d.onset /\ d.onset + d.run <= btime + 1)
          BY <3>3, CountedIs
        <4>2. bd' = IF CoolingDown(d) \/ d.run < EdgeMinFrames THEN d
                    ELSE [d EXCEPT !.last = btime, !.run = 0, !.onset = Never,
                                   !.latency = btime - (IF d.onset # Never THEN d.onset ELSE btime),
                                   !.playing = btime - d.since]
          BY <2>4, <3>3 DEF CheckFrame
        <4> HIDE DEF d
        <4>3. CASE bd' = d
          BY <2>0, <3>1, <3>3, <4>1, <4>3 DEF EdgeBargeInv, EdgeBargeTypes
        <4>4. CASE d.run >= EdgeMinFrames
                   /\ bd' = [d EXCEPT !.last = btime, !.run = 0, !.onset = Never,
                                      !.latency = btime - (IF d.onset # Never THEN d.onset ELSE btime),
                                      !.playing = btime - d.since]
          <5>1. d.onset \in Nat /\ d.run \in Nat /\ EdgeMinFrames \in Nat \ {0} /\ bd.since \in Nat
            BY <2>0, <3>3, <4>1, <4>4, EdgeBargeInAssumption DEF EdgeBargeTypes
          <5>0. (IF d.onset # Never THEN d.onset ELSE btime) = d.onset
            BY <2>0, <5>1
          <5>2. bd' = [d EXCEPT !.last = btime, !.run = 0, !.onset = Never,
                                !.latency = btime - d.onset, !.playing = btime - bd.since]
            BY <4>1, <4>4, <5>0, Zenon
          <5>3. /\ bd'.since = bd.since /\ bd'.run = 0 /\ bd'.onset = Never /\ bd'.last = btime
                /\ bd'.latency = btime - d.onset /\ bd'.playing = btime - bd.since
            BY <4>1, <5>2 DEF EdgeBargeTypes
          <5>4. bd'.latency \in (EdgeMinFrames - 1) .. bd'.playing
            BY <2>0, <4>1, <4>4, <5>1, <5>3
          <5>5. bd' \in EdgeBargeTypes
            <6>1. btime - d.onset \in Int /\ btime - bd.since \in Int
              BY <2>0, <5>1
            <6> QED
              BY <2>0, <4>1, <5>2, <6>1 DEF EdgeBargeTypes
          <5> QED
            BY <2>0, <3>1, <5>1, <5>3, <5>4, <5>5 DEF EdgeBargeInv, EdgeBargeTypes
        <4> QED
          BY <2>0, <4>1, <4>2, <4>3, <4>4, EdgeBargeInAssumption DEF EdgeBargeTypes
      <3> QED
        BY <3>2, <3>3
    <2>5. CASE UNCHANGED edgeBargeVars
      BY <2>5 DEF edgeBargeVars, EdgeBargeInv
    <2> QED
      BY <2>1, <2>2, <2>3, <2>4, <2>5 DEF EdgeBargeNext
  <1> QED
    BY <1>1, <1>2, PTL DEF EdgeBargeSpec

\* The two detectors of the edge decide by what they heard: no turn ends
\* twice or never, none begins with a blip, and no detection counts what was
\* said before its playback.
THEOREM EdgeDetectorsKeepCount == EpSpec /\ EdgeBargeSpec => []EdgeDetectorsAreExact
  <1>1. EpInv /\ EdgeBargeInv => EdgeDetectorsAreExact
    <2>1. EdgeBargeInv => DetectionsAreOfThisPlayback
      BY DEF EdgeBargeInv, DetectionsAreOfThisPlayback
    <2> QED
      BY <2>1, EpInvIsEnough DEF EdgeDetectorsAreExact
  <1> QED
    BY <1>1, EpInvariance, EdgeBargeInvariance, PTL

-----------------------------------------------------------------------------
(***************************************************************************)
(* The best of finitely many, and the phrase that covers an utterance      *)
(***************************************************************************)

\* Numbers that are not none have a least one.
LEMMA LeastOf ==
  ASSUME NEW S \in SUBSET Nat, S # {}
  PROVE  \E x \in S : \A y \in S : x <= y
  <1> DEFINE less == {p \in Nat \X Nat : p[1] < p[2]}
  <1>1. IsWellFoundedOn(less, Nat)
    BY NatLessThanWellFounded DEF OpToRel
  <1> HIDE DEF less
  <1>2. PICK x \in S : \A y \in S : <<y, x>> \notin less
    BY <1>1, WFMin
  <1>3. \A y \in S : ~(y < x)
    BY <1>2 DEF less
  <1> QED
    BY <1>3

\* Among finitely many there is a best, the first of those with the highest value.
IsBest(p, S, value) ==
  /\ p \in S
  /\ \A q \in S : value[p] > value[q] \/ (value[p] = value[q] /\ p <= q)

\* Of finitely many numbers with a value there is a best.
LEMMA BestOf ==
  ASSUME NEW n \in Nat, NEW S \in SUBSET (1 .. n), S # {}, NEW value, \A p \in S : value[p] \in Int
  PROVE  \E p \in S : IsBest(p, S, value)
  <1> DEFINE Upto(k) == S \intersect (1 .. k)
             Bad == {k \in 0 .. n : Upto(k) # {} /\ ~\E p \in Upto(k) : IsBest(p, Upto(k), value)}
  <1>1. Bad = {}
    <2> SUFFICES ASSUME Bad # {} PROVE FALSE
      OBVIOUS
    <2>1. PICK k \in Bad : \A j \in Bad : k <= j
      <3>1. Bad \in SUBSET Nat
        OBVIOUS
      <3> HIDE DEF Bad
      <3> QED
        BY <3>1, LeastOf
    <2>2. k \in Nat /\ k > 0 /\ k \in 0 .. n
      OBVIOUS
    <2>3. Upto(k - 1) # {} => \E p \in Upto(k - 1) : IsBest(p, Upto(k - 1), value)
      <3>1. k - 1 \in 0 .. n /\ ~(k <= k - 1)
        BY <2>2
      <3>2. k - 1 \notin Bad
        <4> HIDE DEF Bad
        <4> QED
          BY <2>1, <3>1
      <3> QED
        BY <3>1, <3>2
    <2>4. \A q \in Upto(k) : q = k \/ q \in Upto(k - 1)
      BY <2>2
    <2>5. \A q \in Upto(k - 1) : q \in Upto(k) /\ q < k /\ q \in Nat
      BY <2>2
    <2>6. ~\E p \in Upto(k) : IsBest(p, Upto(k), value)
      OBVIOUS
    <2>7. Upto(k) # {}
      OBVIOUS
    <2>8. \A q \in Upto(k) : q \in S /\ q \in Nat
      OBVIOUS
    <2> HIDE DEF Upto, Bad
    <2>9. CASE k \notin Upto(k)
      <3>1. PICK p \in Upto(k - 1) : IsBest(p, Upto(k - 1), value)
        BY <2>3, <2>4, <2>7, <2>9
      <3>2. p \in Upto(k) /\ IsBest(p, Upto(k), value)
        BY <2>4, <2>5, <2>9, <3>1 DEF IsBest
      <3> QED
        BY <2>6, <3>2
    <2>10. CASE k \in Upto(k) /\ Upto(k - 1) = {}
      <3>1. IsBest(k, Upto(k), value)
        BY <2>2, <2>4, <2>8, <2>10 DEF IsBest
      <3> QED
        BY <2>6, <2>10, <3>1
    <2>11. CASE k \in Upto(k) /\ Upto(k - 1) # {}
      <3>1. PICK p \in Upto(k - 1) : IsBest(p, Upto(k - 1), value)
        BY <2>3, <2>11
      <3>2. /\ value[p] \in Int /\ value[k] \in Int /\ p < k /\ p \in Nat /\ p \in Upto(k)
            /\ \A q \in Upto(k) : value[q] \in Int /\ q \in Nat
        BY <2>5, <2>8, <2>11
      <3>3. CASE value[k] > value[p]
        <4>1. \A q \in Upto(k) : value[k] > value[q] \/ (value[k] = value[q] /\ k <= q)
          BY <2>2, <2>4, <3>1, <3>2, <3>3 DEF IsBest
        <4> QED
          BY <2>6, <2>11, <4>1 DEF IsBest
      <3>4. CASE value[p] >= value[k]
        <4>1. \A q \in Upto(k) : value[p] > value[q] \/ (value[p] = value[q] /\ p <= q)
          BY <2>2, <2>4, <3>1, <3>2, <3>4 DEF IsBest
        <4> QED
          BY <2>6, <3>2, <4>1 DEF IsBest
      <3> QED
        BY <3>2, <3>3, <3>4
    <2> QED
      BY <2>9, <2>10, <2>11
  <1>2. Upto(n) = S
    OBVIOUS
  <1>3. n \in 0 .. n /\ n \notin Bad
    <2> HIDE DEF Bad
    <2> QED
      BY <1>1
  <1> QED
    BY <1>2, <1>3

\* Phrases.
RouterInv ==
  /\ phrases \subseteq DOMAIN PhraseData
  /\ sounding \subseteq phrases
  /\ PhrasesFitTheUser

\* What is chosen sounds, and is in the user's language if anything of its kind is.
LEMMA ChoicesSound ==
  ASSUME NEW category, NEW language, NEW p \in PhraseChoices(category, language, AnyTone)
  PROVE  /\ p \in OfCategory(category) \intersect sounding
         /\ \/ PhraseData[p].language = language
            \/ \A q \in OfCategory(category) \intersect sounding : PhraseData[q].language # language
  BY DEF PhraseChoices, OfCategory, AnyTone

\* A phrase is the whole answer only to a text it matches.
LEMMA OnlyTrivialIsAnswered ==
  ASSUME NEW text, text.count \in Nat, NEW language, NEW feeling,
         ClassifyAs(text, language, feeling).action = "filler_only"
  PROVE  /\ feeling \notin Distress
         /\ \E i \in DOMAIN TrivialIntents : /\ ClassifyAs(text, language, feeling).category = TrivialIntents[i]
                                             /\ Matches(i, text, language)
  <1> DEFINE matching == {i \in DOMAIN TrivialIntents : Matches(i, text, language)}
             least == CHOOSE i \in matching : \A j \in matching : i <= j
  <1>1. feeling \notin Distress /\ matching # {}
    BY DEF ClassifyAs
  <1>2. least \in matching
    <2>1. matching \in SUBSET Nat
      <3>1. DOMAIN TrivialIntents \subseteq Nat
        BY DEF TrivialIntents
      <3> QED
        BY <3>1
    <2> HIDE DEF matching
    <2>2. \E i \in matching : \A j \in matching : i <= j
      BY <1>1, <2>1, LeastOf
    <2> QED
      BY <2>2
  <1>3. ClassifyAs(text, language, feeling).category = TrivialIntents[least]
    BY <1>1 DEF ClassifyAs
  <1> QED
    BY <1>1, <1>2, <1>3

\* A question leaves what it is answered with fitting the user.
LEMMA ClassifyIsSound ==
  ASSUME RouterInv, NEW text \in RoutedTexts, NEW language, NEW feeling, Classify(text, language, feeling)
  PROVE  RouterInv'
  <1> DEFINE c == ClassifyAs(text, language, feeling)
  <1>1. PICK p \in GetPhrase(c.category, language, AnyTone) :
           routing' = [action |-> c.action, filler |-> p, intent |-> c.intent]
    BY DEF Classify
  <1>2. /\ lastAsked' = [text |-> text, language |-> language, emotion |-> feeling]
        /\ phrases' = phrases /\ sounding' = sounding
    BY DEF Classify
  <1>3. text.count \in Nat
    BY PhraseAssumption
  <1>4. p # NoPhrase => p \in PhraseChoices(c.category, language, AnyTone)
    BY <1>1 DEF GetPhrase
  <1>5. p # NoPhrase =>
          /\ p \in OfCategory(c.category) \intersect sounding
          /\ \/ PhraseData[p].language = language
             \/ \A q \in OfCategory(c.category) \intersect sounding : PhraseData[q].language # language
    BY <1>4, ChoicesSound
  <1>6. c.action = "filler_only" =>
          /\ p \in sounding /\ feeling \notin Distress /\ text.count <= 5
          /\ text.words \intersect Keywords(PhraseData[p].category, language) # {}
    <2> SUFFICES ASSUME c.action = "filler_only"
                 PROVE  /\ p \in sounding /\ feeling \notin Distress /\ text.count <= 5
                        /\ text.words \intersect Keywords(PhraseData[p].category, language) # {}
      OBVIOUS
    <2>1. PICK i \in DOMAIN TrivialIntents : c.category = TrivialIntents[i] /\ Matches(i, text, language)
      BY <1>3, OnlyTrivialIsAnswered
    <2>2. feeling \notin Distress
      BY <1>3, OnlyTrivialIsAnswered
    <2>3. p \in PhraseChoices(c.category, language, AnyTone)
      BY <1>1, <2>1 DEF GetPhrase, Matches
    <2>4. p \in OfCategory(c.category) \intersect sounding /\ PhraseData[p].category = c.category
      BY <2>3, ChoicesSound DEF OfCategory
    <2>5. text.count <= 5
      <3>1. i \in 1 .. 4 /\ text.count <= LongestText[i]
        BY <2>1 DEF Matches, TrivialIntents
      <3>2. LongestText[i] <= 5 /\ LongestText[i] \in Nat
        BY <3>1 DEF LongestText
      <3> QED
        BY <1>3, <3>1, <3>2
    <2>6. text.words \intersect Keywords(c.category, language) # {}
      BY <2>1 DEF Matches
    <2> QED
      BY <2>2, <2>4, <2>5, <2>6
  <1> HIDE DEF c
  <1>7. /\ routing'.action = c.action /\ routing'.filler = p
        /\ lastAsked'.emotion = feeling /\ lastAsked'.text = text /\ lastAsked'.language = language
    BY <1>1, <1>2
  <1>8. PhrasesFitTheUser'
    <2>1. \A category : OfCategory(category)' = OfCategory(category)
      BY <1>2 DEF OfCategory
    <2>2. p # NoPhrase => PhraseData[p].category = c.category
      BY <1>5 DEF OfCategory
    <2>3. p # NoPhrase =>
            /\ p \in sounding
            /\ \/ PhraseData[p].language = language
               \/ \A q \in OfCategory(PhraseData[p].category) \intersect sounding :
                     PhraseData[q].language # language
      BY <1>5, <2>2
    <2> QED
      BY <1>2, <1>6, <1>7, <2>1, <2>3, Zenon DEF PhrasesFitTheUser, Keywords
  <1> QED
    BY <1>2, <1>8 DEF RouterInv

\* Phrases fit the user, whichever were made and whatever is asked.
LEMMA RouterInvariance == RouterSpec => []RouterInv
  <1>1. RouterInit => RouterInv
    BY DEF RouterInit, RouterInv, PhrasesFitTheUser, Unrouted
  <1>2. RouterInv /\ [RouterNext]_routerVars => RouterInv'
    <2> SUFFICES ASSUME RouterInv, [RouterNext]_routerVars PROVE RouterInv'
      OBVIOUS
    <2>1. CASE LoadPhrases
      <3>1. /\ phrases = {} /\ sounding = {} /\ sounding' = {} /\ routing' = routing /\ lastAsked' = lastAsked
            /\ phrases' = DOMAIN PhraseData
        BY <2>1 DEF LoadPhrases, RouterInv
      <3>2. routing.action # "filler_only" /\ routing.filler = NoPhrase
        BY <3>1 DEF RouterInv, PhrasesFitTheUser
      <3> QED
        BY <3>1, <3>2 DEF RouterInv, PhrasesFitTheUser
    <2>2. ASSUME NEW made \in SUBSET phrases, PreSynthesizeAudio(made) PROVE RouterInv'
      <3>1. routing' = Unrouted /\ phrases' = phrases /\ sounding' \subseteq phrases
        BY <2>2 DEF PreSynthesizeAudio, RouterInv
      <3>2. routing'.action # "filler_only" /\ routing'.filler = NoPhrase
        BY <3>1 DEF Unrouted
      <3> QED
        BY <3>1, <3>2 DEF RouterInv, PhrasesFitTheUser
    <2>3. CASE \E text \in RoutedTexts, l \in PhraseLanguages, e \in {"sad", "happy"} : Classify(text, l, e)
      BY <2>3, ClassifyIsSound
    <2>4. CASE UNCHANGED routerVars
      BY <2>4, Zenon DEF routerVars, RouterInv, PhrasesFitTheUser, OfCategory
    <2> QED
      BY <2>1, <2>2, <2>3, <2>4 DEF RouterNext
  <1> QED
    BY <1>1, <1>2, PTL DEF RouterSpec

-----------------------------------------------------------------------------
(***************************************************************************)
(* The client's filler layer                                               *)
(***************************************************************************)

\* A cached phrase is the whole answer only to what it fits.
FitsTheTurn(d, t) ==
  d.route = "cached_filler" /\ ~d.forward =>
    /\ t.emotion \notin Distressed
    /\ t.words \in 1 .. TrivialMax
    /\ d.confidence >= CacheThreshold
    /\ BankPhrases[d.phrase].confidence <= d.confidence

FillerInv ==
  /\ fillerEnabled \in BOOLEAN
  /\ generation \in Nat /\ plays \in Nat
  /\ lastVoided \in Nat /\ lastVoided <= plays
  /\ onAir \in Nat /\ (onAir # NoPlay => onAir > lastVoided)
  /\ onAir # NoPlay => fillerEnabled = TRUE
  /\ \A l \in loads : /\ l.play \in Nat /\ l.generation \in Nat
                      /\ l.generation <= generation
                      /\ l.generation = generation => l.play > lastVoided
                      /\ l.generation = generation => fillerEnabled = TRUE
  /\ \A k, l \in loads : k.generation = l.generation => k = l
  /\ FitsTheTurn(routed, turn)

\* The phrase picked from the bank is one that matches.
LEMMA PickIsMatching ==
  ASSUME NEW category, NEW confidence, Matching(category, confidence) # {}
  PROVE  Pick(category, confidence) \in Matching(category, confidence)
  <1> DEFINE S == Matching(category, confidence)
             value == [p \in S |-> BankPhrases[p].priority]
             Wins(p) == \A q \in S : \/ BankPhrases[p].priority > BankPhrases[q].priority
                                     \/ BankPhrases[p].priority = BankPhrases[q].priority /\ p <= q
  <1>1. /\ Len(BankPhrases) \in Nat /\ S \in SUBSET (1 .. Len(BankPhrases))
        /\ \A p \in S : BankPhrases[p].priority \in Int
    <2>1. Len(BankPhrases) \in Nat /\ DOMAIN BankPhrases = 1 .. Len(BankPhrases)
      BY FillerAssumption
    <2>2. S \in SUBSET (1 .. Len(BankPhrases))
      BY <2>1 DEF Matching
    <2>3. ASSUME NEW p \in DOMAIN BankPhrases PROVE BankPhrases[p].priority \in Int
      <3> DEFINE rows == [category : STRING, confidence : Nat, priority : Int,
                             safety : STRING, short : BOOLEAN]
      <3>1. BankPhrases \in Seq(rows)
        BY FillerAssumption
      <3>2. \A r \in rows : r.priority \in Int
        OBVIOUS
      <3> HIDE DEF rows
      <3>3. BankPhrases[p] \in rows
        BY <3>1, <2>1
      <3> QED
        BY <3>2, <3>3
    <2> HIDE DEF S
    <2> QED
      BY <2>1, <2>2, <2>3
  <1>2. Pick(category, confidence) = CHOOSE p \in S : Wins(p)
    BY DEF Pick
  <1> HIDE DEF S
  <1>3. PICK p \in S : IsBest(p, S, value)
    <2>1. \A q \in S : value[q] \in Int
      BY <1>1
    <2>2. S # {}
      BY DEF S
    <2> HIDE DEF value
    <2> QED
      BY <1>1, <2>1, <2>2, BestOf
  <1>4. Wins(p)
    BY <1>3 DEF IsBest
  <1> HIDE DEF Wins
  <1>5. (CHOOSE q \in S : Wins(q)) \in S
    BY <1>4
  <1> QED
    BY <1>2, <1>5 DEF S

\* A turn is answered by a phrase alone only if the phrase fits it.
LEMMA RouteFits ==
  ASSUME NEW t \in Turns PROVE FitsTheTurn(ClassifyAudio(t), t)
  <1> DEFINE matches == {i \in DOMAIN Specs : TrivialMatch(t, i)}
             least == CHOOSE i \in matches : \A j \in matches : i <= j
             s == Specs[least]
             d == ClassifyText(t)
  <1>1. t.words \in Nat /\ t.asr \in Nat /\ CacheThreshold \in Nat
    BY FillerAssumption
  <1>2. CASE t.words = 0
    BY <1>2 DEF FitsTheTurn, ClassifyAudio, NoRouting
  <1>3. CASE t.words # 0 /\ t.emotion \in Distressed
    <2>1. ClassifyAudio(t) = d /\ d.forward = TRUE
      BY <1>3 DEF ClassifyAudio, ClassifyText
    <2> HIDE DEF d
    <2> QED
      BY <2>1, Zenon DEF FitsTheTurn
  <1>4. CASE t.words # 0 /\ t.emotion \notin Distressed /\ ~(t.words \in 1 .. TrivialMax /\ matches # {})
    <2>1. ClassifyAudio(t) = d /\ d.route = "full_stack"
      BY <1>4 DEF ClassifyAudio, ClassifyText
    <2> HIDE DEF d
    <2> QED
      BY <2>1 DEF FitsTheTurn
  <1>5. CASE t.words # 0 /\ t.emotion \notin Distressed /\ t.words \in 1 .. TrivialMax /\ matches # {}
    <2>1. least \in matches
      <3>1. matches \in SUBSET Nat
        <4>1. DOMAIN Specs \subseteq Nat
          BY DEF Specs
        <4> QED
          BY <4>1
      <3> HIDE DEF matches
      <3>2. \E i \in matches : \A j \in matches : i <= j
        BY <1>5, <3>1, LeastOf
      <3> QED
        BY <3>2
    <2>2. ClassifyAudio(t) = d /\ d.confidence = s.base * t.asr /\ d.phrase = Pick(s.intent, s.base * t.asr)
      BY <1>5 DEF ClassifyAudio, ClassifyText
    <2>3. TrivialMatch(t, least)
      BY <2>1
    <2> HIDE DEF matches, least, d
    <2>4. s.base * t.asr >= CacheThreshold /\ Pick(s.intent, s.base * t.asr) # NoPhraseId
      BY <2>3 DEF TrivialMatch
    <2>5. d.phrase \in Matching(s.intent, s.base * t.asr)
      BY <2>2, <2>4, PickIsMatching DEF Pick
    <2>6. BankPhrases[d.phrase].confidence <= d.confidence
      BY <2>2, <2>5 DEF Matching
    <2>7. d.confidence >= CacheThreshold
      BY <2>2, <2>4
    <2> QED
      BY <1>5, <2>2, <2>6, <2>7, Zenon DEF FitsTheTurn
  <1> QED
    BY <1>2, <1>3, <1>4, <1>5

\* A new filler makes every load before it stale.
LEMMA PlayIsSound ==
  ASSUME FillerInv, Play PROVE FillerInv'
  <1>0. /\ generation \in Nat /\ plays \in Nat /\ lastVoided \in Nat /\ lastVoided <= plays /\ onAir \in Nat
        /\ \A l \in loads : l.generation \in Nat /\ l.play \in Nat /\ l.generation <= generation
        /\ \A k, l \in loads : k.generation = l.generation => k = l
    BY DEF FillerInv
  <1>1. plays' = plays + 1 /\ fillerEnabled' = fillerEnabled /\ routed' = routed /\ turn' = turn
    BY DEF Play
  <1>2. CASE Playable
    <2> DEFINE new == [play |-> plays + 1, generation |-> generation + 2]
    <2>1. /\ generation' = generation + 2 /\ loads' = loads \union {new} /\ onAir' = NoPlay /\ lastVoided' = plays
      BY <1>1, <1>2 DEF Play
    <2>2. new.play = plays + 1 /\ new.generation = generation + 2
      OBVIOUS
    <2> HIDE DEF new
    <2>3. fillerEnabled = TRUE
      BY <1>2 DEF Playable, FillerInv
    <2>4. \A l \in loads' : /\ l.play \in Nat /\ l.generation \in Nat /\ l.generation <= generation'
                            /\ l.generation = generation' => l.play > lastVoided'
      BY <1>0, <2>1, <2>2
    <2>5. \A k, l \in loads' : k.generation = l.generation => k = l
      BY <1>0, <2>1, <2>2
    <2>6. onAir' = NoPlay /\ onAir' \in Nat /\ lastVoided' \in Nat /\ lastVoided' <= plays' /\ plays' \in Nat
          /\ generation' \in Nat
      BY <1>0, <1>1, <2>1 DEF NoPlay
    <2>7. FitsTheTurn(routed, turn)'
      BY <1>1 DEF FillerInv, FitsTheTurn
    <2>8. fillerEnabled' = TRUE /\ fillerEnabled' \in BOOLEAN
      BY <1>1, <2>3
    <2> QED
      BY <2>4, <2>5, <2>6, <2>7, <2>8, Zenon DEF FillerInv
  <1>3. CASE ~Playable
    <2>1. UNCHANGED <<generation, loads, onAir, lastVoided>>
      BY <1>3 DEF Play
    <2>2. lastVoided' <= plays' /\ plays' \in Nat
      BY <1>0, <1>1, <2>1
    <2>3. FitsTheTurn(routed, turn)'
      BY <1>1 DEF FillerInv, FitsTheTurn
    <2> QED
      BY <1>1, <2>1, <2>2, <2>3, Zenon DEF FillerInv
  <1> QED
    BY <1>2, <1>3

\* What ends a filler makes every load of it stale.
LEMMA EndingIsSound ==
  ASSUME FillerInv, generation' = generation + 1, onAir' = NoPlay, lastVoided' = plays,
         UNCHANGED <<routed, turn, plays, loads>>, fillerEnabled' \in BOOLEAN
  PROVE  FillerInv'
  <1>1. /\ generation \in Nat /\ plays \in Nat
        /\ \A l \in loads : l.generation \in Nat /\ l.play \in Nat /\ l.generation <= generation
    BY DEF FillerInv
  <1>2. \A l \in loads' : l.play \in Nat /\ l.generation \in Nat /\ l.generation <= generation' /\ l.generation # generation'
    BY <1>1
  <1>3. /\ generation' \in Nat /\ plays' \in Nat /\ lastVoided' \in Nat /\ lastVoided' <= plays'
        /\ onAir' \in Nat /\ onAir' = NoPlay
    BY <1>1 DEF NoPlay
  <1>4. \A k, l \in loads' : k.generation = l.generation => k = l
    BY DEF FillerInv
  <1>5. FitsTheTurn(routed, turn)'
    BY DEF FillerInv, FitsTheTurn
  <1> QED
    BY <1>2, <1>3, <1>4, <1>5, Zenon DEF FillerInv

\* A load that comes back sounds only if it is the newest.
LEMMA LoadsEnd ==
  ASSUME FillerInv, NEW l \in loads, LoadDone(l) \/ LoadFails(l) PROVE FillerInv'
  <1>1. /\ loads' \subseteq loads /\ UNCHANGED <<fillerEnabled, routed, turn, generation, plays, lastVoided>>
    BY DEF LoadDone, LoadFails
  <1>2. onAir' = onAir \/ (onAir' = l.play /\ l.generation = generation)
    BY DEF LoadDone, LoadFails
  <1>3. onAir' \in Nat /\ (onAir' # NoPlay => onAir' > lastVoided)
    BY <1>1, <1>2 DEF FillerInv
  <1>4. onAir' # NoPlay => fillerEnabled = TRUE
    BY <1>2, Zenon DEF FillerInv
  <1>5. FitsTheTurn(routed, turn)'
    BY <1>1 DEF FillerInv, FitsTheTurn
  <1> QED
    BY <1>1, <1>3, <1>4, <1>5, Zenon DEF FillerInv

\* In the filler layer only a load of the present generation may still sound, and
\* it is of a filler that nothing has ended.
LEMMA FillerInvariance == FillerSpec => []FillerInv
  <1>1. FillerInit => FillerInv
    BY DEF FillerInit, FillerInv, FitsTheTurn, NoRouting, NoPlay
  <1>2. FillerInv /\ [FillerNext]_fillerVars => FillerInv'
    <2> SUFFICES ASSUME FillerInv, [FillerNext]_fillerVars PROVE FillerInv'
      OBVIOUS
    <2>1. ASSUME NEW t \in Turns, RouteTurn(t) PROVE FillerInv'
      <3>1. routed' = ClassifyAudio(t) /\ turn' = t
            /\ UNCHANGED <<fillerEnabled, generation, plays, loads, onAir, lastVoided>>
        BY <2>1 DEF RouteTurn
      <3>2. FitsTheTurn(routed', turn')
        BY <3>1, RouteFits
      <3>3. FitsTheTurn(routed, turn)'
        BY <3>2 DEF FitsTheTurn
      <3> QED
        BY <3>1, <3>3, Zenon DEF FillerInv
    <2>2. CASE Play
      BY <2>2, PlayIsSound
    <2>3. CASE \E l \in loads : LoadDone(l) \/ LoadFails(l)
      BY <2>3, LoadsEnd
    <2>4. CASE Handoff
      <3>1. UNCHANGED <<fillerEnabled, routed, turn, generation, plays, loads, onAir, lastVoided>>
        BY <2>4 DEF Handoff
      <3> QED
        BY <3>1, Zenon DEF FillerInv, FitsTheTurn
    <2>5. CASE HandoffEnds
      <3>1. /\ generation' = generation + 1 /\ onAir' = NoPlay /\ lastVoided' = plays
            /\ UNCHANGED <<fillerEnabled, routed, turn, plays, loads>>
        BY <2>5 DEF HandoffEnds
      <3>2. fillerEnabled' \in BOOLEAN
        BY <3>1 DEF FillerInv
      <3> QED
        BY <3>1, <3>2, EndingIsSound
    <2>6. CASE Cancel
      <3>1. /\ generation' = generation + 1 /\ onAir' = NoPlay /\ lastVoided' = plays
            /\ UNCHANGED <<fillerEnabled, routed, turn, plays, loads>>
        BY <2>6 DEF Cancel, CancelHard
      <3>2. fillerEnabled' \in BOOLEAN
        BY <3>1 DEF FillerInv
      <3> QED
        BY <3>1, <3>2, EndingIsSound
    <2>7. ASSUME NEW on \in BOOLEAN, SetEnabled(on) PROVE FillerInv'
      <3>1. fillerEnabled' = on /\ fillerEnabled' \in BOOLEAN /\ UNCHANGED <<routed, turn, plays, loads>>
        BY <2>7 DEF SetEnabled
      <3>2. CASE on = TRUE
        <4>1. UNCHANGED <<generation, onAir, lastVoided>> /\ fillerEnabled' = TRUE
          BY <2>7, <3>1, <3>2 DEF SetEnabled
        <4> QED
          BY <3>1, <4>1, Zenon DEF FillerInv, FitsTheTurn
      <3>3. CASE on = FALSE
        <4>1. generation' = generation + 1 /\ onAir' = NoPlay /\ lastVoided' = plays
          BY <2>7, <3>3 DEF SetEnabled, CancelHard
        <4> QED
          BY <3>1, <4>1, EndingIsSound
      <3> QED
        BY <3>2, <3>3
    <2>8. CASE FillerEnds
      <3>1. /\ UNCHANGED <<fillerEnabled, routed, turn, generation, plays, loads, lastVoided>>
            /\ onAir' = NoPlay /\ onAir' \in Nat
        BY <2>8 DEF FillerEnds, NoPlay
      <3> QED
        BY <3>1, Zenon DEF FillerInv, FitsTheTurn
    <2>9. CASE UNCHANGED fillerVars
      <3>1. UNCHANGED <<fillerEnabled, routed, turn, generation, plays, loads, onAir, lastVoided>>
        BY <2>9 DEF fillerVars
      <3> QED
        BY <3>1, Zenon DEF FillerInv, FitsTheTurn
    <2> QED
      BY <2>1, <2>2, <2>3, <2>4, <2>5, <2>6, <2>7, <2>8, <2>9 DEF FillerNext
  <1> QED
    BY <1>1, <1>2, PTL DEF FillerSpec

\* What the invariant of the filler layer promises of what is heard.
LEMMA FillerInvKeepsBack == FillerInv => FillerNeverOverrides
  <1> SUFFICES ASSUME FillerInv PROVE FillerNeverOverrides
    OBVIOUS
  <1>1. /\ onAir # NoPlay => onAir > lastVoided /\ fillerEnabled
        /\ \A k, l \in loads : k.generation = generation /\ l.generation = generation => k = l
        /\ \A l \in loads : l.generation = generation => l.play > lastVoided /\ fillerEnabled
    BY Zenon DEF FillerInv
  <1>2. FitsTheTurn(routed, turn)
    BY DEF FillerInv
  <1>3. turn.emotion \in Distressed /\ Playable => PlanAction = "latency_sponge"
    BY <1>2 DEF PlanAction, FitsTheTurn
  <1> QED
    BY <1>1, <1>2, <1>3, Zenon DEF FillerNeverOverrides, FitsTheTurn

-----------------------------------------------------------------------------
(***************************************************************************)
(* Speech output                                                           *)
(***************************************************************************)

Rising(s) == \A i, k \in DOMAIN s : i < k => s[i] < s[k]
NotYetHeard(n, s) == {i \in 1 .. n : \A k \in DOMAIN s : s[k] # i}
Chunks(s) == {s[i] : i \in DOMAIN s}

\* What came is heard, given up or still held, and what is held came last.
Whole(n, y, u, b) ==
  /\ n \in Nat /\ y \in Seq(1 .. n) /\ b \in Seq(1 .. n) /\ u \in SUBSET (1 .. n)
  /\ Rising(y) /\ Rising(b)
  /\ \A i \in DOMAIN y, k \in DOMAIN b : y[i] < b[k]
  /\ \A i \in u : \A k \in DOMAIN b : i < b[k]
  /\ \A i \in u : \A k \in DOMAIN y : y[k] # i
  /\ NotYetHeard(n, y) = u \union Chunks(b)

TtsInv ==
  /\ ttsState \in {"idle", "streaming", "done", "failed"}
  /\ ttsState = "idle" => /\ arrived = 0 /\ yielded = <<>> /\ mp3Buffer = <<>> /\ undecoded = {}
                          /\ chunkCount = 0 /\ mp3Bytes = 0
  /\ ttsState = "streaming" => ~spokenText.blank /\ Whole(arrived, yielded, undecoded, mp3Buffer)
  /\ ttsState \in {"done", "failed"} =>
       /\ Rising(yielded)
       /\ \A i \in undecoded : \A k \in DOMAIN yielded : yielded[k] # i
  /\ ttsState = "done" /\ ~spokenText.blank => NotYetHeard(arrived, yielded) = undecoded
  /\ ttsState = "done" /\ spokenText.blank => yielded = <<>> /\ ttsVoice = ""

\* A chunk that comes is held, after all that is held.
LEMMA ChunkArrives ==
  ASSUME NEW n, NEW y, NEW u, NEW b, Whole(n, y, u, b)
  PROVE  Whole(n + 1, y, u, Append(b, n + 1))
  <1> DEFINE b2 == Append(b, n + 1)
  <1>1. /\ n \in Nat /\ y \in Seq(1 .. n) /\ b \in Seq(1 .. n) /\ u \in SUBSET (1 .. n)
        /\ Rising(y) /\ Rising(b)
        /\ \A i \in DOMAIN y, k \in DOMAIN b : y[i] < b[k]
        /\ \A i \in u : \A k \in DOMAIN b : i < b[k]
        /\ \A i \in u : \A k \in DOMAIN y : y[k] # i
        /\ NotYetHeard(n, y) = u \union Chunks(b)
    BY DEF Whole
  <1>2. /\ n + 1 \in Nat /\ y \in Seq(1 .. n + 1) /\ b \in Seq(1 .. n + 1)
        /\ u \in SUBSET (1 .. n + 1) /\ n + 1 \in 1 .. n + 1
    BY <1>1
  <1>3. /\ b2 \in Seq(1 .. n + 1) /\ DOMAIN b2 = 1 .. Len(b) + 1 /\ Len(b) \in Nat
        /\ DOMAIN b = 1 .. Len(b)
        /\ \A k \in DOMAIN b : b2[k] = b[k] /\ b2[k] \in 1 .. n
        /\ b2[Len(b) + 1] = n + 1
    BY <1>1, <1>2
  <1>4. DOMAIN y = 1 .. Len(y) /\ Len(y) \in Nat /\ \A k \in DOMAIN y : y[k] \in 1 .. n
    BY <1>1
  <1> HIDE DEF b2
  <1>5. Rising(b2)
    <2> SUFFICES ASSUME NEW i \in DOMAIN b2, NEW k \in DOMAIN b2, i < k PROVE b2[i] < b2[k]
      BY DEF Rising
    <2>1. i \in DOMAIN b /\ b2[i] = b[i] /\ b[i] \in 1 .. n
      BY <1>3
    <2>2. CASE k = Len(b) + 1
      BY <1>1, <1>3, <2>1, <2>2
    <2>3. CASE k \in DOMAIN b
      <3>1. b[i] < b[k]
        BY <1>1, <2>1, <2>3 DEF Rising
      <3> QED
        BY <1>3, <2>1, <2>3, <3>1
    <2> QED
      BY <1>3, <2>2, <2>3
  <1>6. \A i \in DOMAIN y, k \in DOMAIN b2 : y[i] < b2[k]
    <2> SUFFICES ASSUME NEW i \in DOMAIN y, NEW k \in DOMAIN b2 PROVE y[i] < b2[k]
      OBVIOUS
    <2>1. CASE k = Len(b) + 1
      BY <1>1, <1>3, <1>4, <2>1
    <2>2. CASE k \in DOMAIN b
      BY <1>1, <1>3, <2>2
    <2> QED
      BY <1>3, <2>1, <2>2
  <1>7. \A i \in u : \A k \in DOMAIN b2 : i < b2[k]
    <2> SUFFICES ASSUME NEW i \in u, NEW k \in DOMAIN b2 PROVE i < b2[k]
      OBVIOUS
    <2>1. CASE k = Len(b) + 1
      BY <1>1, <1>3, <2>1
    <2>2. CASE k \in DOMAIN b
      BY <1>1, <1>3, <2>2
    <2> QED
      BY <1>3, <2>1, <2>2
  <1>8. NotYetHeard(n + 1, y) = NotYetHeard(n, y) \union {n + 1}
    <2>1. 1 .. n + 1 = (1 .. n) \union {n + 1}
      BY <1>1
    <2>2. \A k \in DOMAIN y : y[k] # n + 1
      BY <1>1, <1>4
    <2> QED
      BY <2>1, <2>2 DEF NotYetHeard
  <1>9. Chunks(b2) = Chunks(b) \union {n + 1}
    <2>1. DOMAIN b2 = DOMAIN b \union {Len(b) + 1}
      BY <1>3
    <2> QED
      BY <2>1, <1>3 DEF Chunks
  <1>10. NotYetHeard(n + 1, y) = u \union Chunks(b2)
    BY <1>1, <1>8, <1>9
  <1> QED
    BY <1>1, <1>2, <1>3, <1>5, <1>6, <1>7, <1>10 DEF Whole, b2

\* A block is heard or given up: nothing else changes place.
LEMMA BlockIsHeard ==
  ASSUME NEW n, NEW y, NEW u, NEW b, Whole(n, y, u, b)
  PROVE  Whole(n, y \o b, u, <<>>)
  <1> DEFINE z == y \o b
  <1>1. /\ n \in Nat /\ y \in Seq(1 .. n) /\ b \in Seq(1 .. n) /\ u \in SUBSET (1 .. n)
        /\ Rising(y) /\ Rising(b)
        /\ \A i \in DOMAIN y, k \in DOMAIN b : y[i] < b[k]
        /\ \A i \in u : \A k \in DOMAIN b : i < b[k]
        /\ \A i \in u : \A k \in DOMAIN y : y[k] # i
        /\ NotYetHeard(n, y) = u \union Chunks(b)
    BY DEF Whole
  <1>2. /\ z \in Seq(1 .. n) /\ DOMAIN z = 1 .. Len(y) + Len(b)
        /\ Len(y) \in Nat /\ DOMAIN y = 1 .. Len(y) /\ Len(b) \in Nat /\ DOMAIN b = 1 .. Len(b)
        /\ \A k \in DOMAIN y : z[k] = y[k] /\ y[k] \in 1 .. n
        /\ \A k \in DOMAIN b : z[Len(y) + k] = b[k] /\ b[k] \in 1 .. n
    BY <1>1, SMTT(30)
  <1> HIDE DEF z
  <1>3. \A k \in DOMAIN z : \/ k \in DOMAIN y /\ z[k] = y[k]
                            \/ k > Len(y) /\ k - Len(y) \in DOMAIN b /\ z[k] = b[k - Len(y)]
    <2> TAKE k \in DOMAIN z
    <2>1. CASE k \in DOMAIN y
      BY <1>2, <2>1
    <2>2. CASE k \notin DOMAIN y
      <3>1. k - Len(y) \in DOMAIN b /\ Len(y) + (k - Len(y)) = k /\ k > Len(y)
        BY <1>2, <2>2
      <3>2. z[Len(y) + (k - Len(y))] = b[k - Len(y)]
        BY <1>2, <3>1
      <3> QED
        BY <3>1, <3>2
    <2> QED
      BY <2>1, <2>2
  <1>4. Rising(z)
    <2> SUFFICES ASSUME NEW i \in DOMAIN z, NEW k \in DOMAIN z, i < k PROVE z[i] < z[k]
      BY DEF Rising
    <2>1. CASE k \in DOMAIN y
      <3>1. i \in DOMAIN y
        BY <1>2, <2>1
      <3> QED
        BY <1>1, <1>2, <2>1, <3>1 DEF Rising
    <2>2. CASE i \in DOMAIN y /\ k \notin DOMAIN y
      <3>1. z[i] = y[i]
        BY <1>2, <2>2
      <3>2. k - Len(y) \in DOMAIN b /\ z[k] = b[k - Len(y)]
        BY <1>3, <2>2
      <3>3. y[i] < b[k - Len(y)]
        BY <1>1, <2>2, <3>2
      <3> QED
        BY <3>1, <3>2, <3>3
    <2>3. CASE i \notin DOMAIN y
      <3>1. /\ i - Len(y) \in DOMAIN b /\ z[i] = b[i - Len(y)] /\ i > Len(y)
        BY <1>3, <2>3
      <3>2. k \notin DOMAIN y
        BY <1>2, <3>1
      <3>3. k - Len(y) \in DOMAIN b /\ z[k] = b[k - Len(y)]
        BY <1>3, <3>2
      <3>4. i - Len(y) < k - Len(y)
        BY <1>2
      <3>5. b[i - Len(y)] < b[k - Len(y)]
        BY <1>1, <3>1, <3>3, <3>4 DEF Rising
      <3> QED
        BY <3>1, <3>3, <3>5
    <2> QED
      BY <2>1, <2>2, <2>3
  <1>5. ASSUME NEW i \in u, NEW k \in DOMAIN z PROVE z[k] # i
    <2>1. CASE k \in DOMAIN y
      BY <1>1, <1>2, <2>1
    <2>2. CASE k \notin DOMAIN y
      <3>1. k - Len(y) \in DOMAIN b /\ z[k] = b[k - Len(y)]
        BY <1>3, <2>2
      <3>2. i < b[k - Len(y)] /\ b[k - Len(y)] \in 1 .. n /\ i \in 1 .. n
        BY <1>1, <1>2, <3>1
      <3> HIDE DEF z
      <3> QED
        BY <3>1, <3>2
    <2> QED
      BY <2>1, <2>2
  <1>6. NotYetHeard(n, z) = u
    <2>1. ASSUME NEW i \in NotYetHeard(n, z) PROVE i \in u
      <3>1. i \in 1 .. n /\ \A k \in DOMAIN z : z[k] # i
        BY DEF NotYetHeard
      <3>2. \A k \in DOMAIN y : y[k] # i
        <4> TAKE k \in DOMAIN y
        <4>1. k \in DOMAIN z /\ z[k] = y[k]
          BY <1>2
        <4> QED
          BY <3>1, <4>1
      <3>3. \A k \in DOMAIN b : b[k] # i
        <4> TAKE k \in DOMAIN b
        <4>1. Len(y) + k \in DOMAIN z /\ z[Len(y) + k] = b[k]
          BY <1>2
        <4> QED
          BY <3>1, <4>1
      <3>4. i \in NotYetHeard(n, y) /\ i \notin Chunks(b)
        BY <3>1, <3>2, <3>3 DEF NotYetHeard, Chunks
      <3> QED
        BY <1>1, <3>4
    <2>2. ASSUME NEW i \in u PROVE i \in NotYetHeard(n, z)
      BY <1>1, <1>5, <2>2 DEF NotYetHeard
    <2> QED
      BY <2>1, <2>2
  <1>7. <<>> \in Seq(1 .. n) /\ Rising(<<>>) /\ Chunks(<<>>) = {} /\ DOMAIN <<>> = {}
    BY DEF Rising, Chunks
  <1>8. NotYetHeard(n, z) = u \union Chunks(<<>>)
    BY <1>6, <1>7
  <1>9. /\ \A i \in DOMAIN z, k \in DOMAIN <<>> : z[i] < <<>>[k]
        /\ \A i \in u : \A k \in DOMAIN <<>> : i < <<>>[k]
    BY <1>7
  <1> QED
    BY <1>1, <1>2, <1>4, <1>5, <1>7, <1>8, <1>9 DEF Whole, z

\* A block that cannot be decoded is given up as a whole.
LEMMA BlockIsLost ==
  ASSUME NEW n, NEW y, NEW u, NEW b, Whole(n, y, u, b)
  PROVE  Whole(n, y, u \union Chunks(b), <<>>)
  <1> DEFINE v == u \union Chunks(b)
  <1>1. /\ n \in Nat /\ y \in Seq(1 .. n) /\ b \in Seq(1 .. n) /\ u \in SUBSET (1 .. n)
        /\ Rising(y) /\ Rising(b)
        /\ \A i \in DOMAIN y, k \in DOMAIN b : y[i] < b[k]
        /\ \A i \in u : \A k \in DOMAIN y : y[k] # i
        /\ NotYetHeard(n, y) = v
    BY DEF Whole
  <1>2. /\ \A k \in DOMAIN b : b[k] \in 1 .. n
        /\ \A k \in DOMAIN y : y[k] \in 1 .. n
    BY <1>1
  <1>3. Chunks(b) \in SUBSET (1 .. n)
    BY <1>2 DEF Chunks
  <1>4. \A i \in v : \A k \in DOMAIN y : y[k] # i
    BY <1>1 DEF NotYetHeard
  <1>5. <<>> \in Seq(1 .. n) /\ Rising(<<>>) /\ Chunks(<<>>) = {} /\ DOMAIN <<>> = {}
    BY DEF Rising, Chunks
  <1>6. v \in SUBSET (1 .. n)
    BY <1>1, <1>3
  <1>7. /\ \A i \in DOMAIN y, k \in DOMAIN <<>> : y[i] < <<>>[k]
        /\ \A i \in v : \A k \in DOMAIN <<>> : i < <<>>[k]
    BY <1>5
  <1>8. NotYetHeard(n, y) = v \union Chunks(<<>>)
    BY <1>1, <1>5
  <1> HIDE DEF v
  <1>9. Whole(n, y, v, <<>>)
    BY <1>1, <1>4, <1>5, <1>6, <1>7, <1>8 DEF Whole
  <1> QED
    BY <1>9 DEF v

\* A stream of nothing is whole.
LEMMA EmptyIsWhole == Whole(0, <<>>, {}, <<>>)
  <1>1. DOMAIN <<>> = {} /\ <<>> \in Seq(1 .. 0) /\ 1 .. 0 = {}
    OBVIOUS
  <1>2. Rising(<<>>) /\ Chunks(<<>>) = {} /\ NotYetHeard(0, <<>>) = {}
    BY <1>1 DEF Rising, Chunks, NotYetHeard
  <1> QED
    BY <1>1, <1>2 DEF Whole

\* What of a whole stream holds at its end.
LEMMA WholeEnds ==
  ASSUME NEW n, NEW y, NEW u, NEW b, Whole(n, y, u, b)
  PROVE  /\ Rising(y)
         /\ \A i \in u : \A k \in DOMAIN y : y[k] # i
         /\ b = <<>> => NotYetHeard(n, y) = u
  <1>1. Chunks(<<>>) = {}
    BY DEF Chunks
  <1> QED
    BY <1>1 DEF Whole

\* Whether a block can be decoded or not, the stream stays whole.
LEMMA DecodeKeepsWhole ==
  ASSUME NEW n, NEW b, NEW d, Whole(n, yielded, undecoded, b), Decode(b, d)
  PROVE  Whole(n, yielded', undecoded', <<>>)
  <1>1. CASE yielded' = yielded \o b /\ undecoded' = undecoded
    BY <1>1, BlockIsHeard
  <1>2. CASE undecoded' = undecoded \union {b[i] : i \in DOMAIN b} /\ yielded' = yielded
    <2>1. undecoded' = undecoded \union Chunks(b)
      BY <1>2 DEF Chunks
    <2> QED
      BY <1>2, <2>1, BlockIsLost
  <1> QED
    BY <1>1, <1>2 DEF Decode

\* Every chunk that came is heard in its place, given up or still held, in every
\* state of the synthesis.
LEMMA TtsInvariance ==
  /\ TtsInit => TtsInv
  /\ TtsInv /\ TtsNext => TtsInv'
  /\ TtsInv /\ UNCHANGED ttsVars => TtsInv'
  /\ TtsInv => SpeechIsInOrder
  <1>1. TtsInit => TtsInv
    BY DEF TtsInit, TtsInv
  <1>2. ASSUME TtsInv, TtsNext PROVE TtsInv'
    <2>1. ASSUME NEW t \in SpokenTexts, NEW l \in {"None", "hi", "en"}, SynthesizeStream(t, l)
          PROVE TtsInv'
      <3>1. /\ ttsState = "idle" /\ spokenText' = t
            /\ ttsVoice' = IF t.blank THEN ""
                           ELSE GetVoice(IF l = "None" THEN DetectLanguage(t) ELSE l)
            /\ ttsState' = IF t.blank THEN "done" ELSE "streaming"
            /\ UNCHANGED <<arrived, mp3Buffer, mp3Bytes, chunkCount, yielded, undecoded>>
        BY <2>1 DEF SynthesizeStream, Speak
      <3>2. arrived' = 0 /\ yielded' = <<>> /\ mp3Buffer' = <<>> /\ undecoded' = {}
        BY <1>2, <3>1 DEF TtsInv
      <3>3. Whole(arrived', yielded', undecoded', mp3Buffer')
        BY <3>2, EmptyIsWhole
      <3>4. Rising(yielded') /\ \A i \in undecoded' : \A k \in DOMAIN yielded' : yielded'[k] # i
        BY <3>3, WholeEnds
      <3>5. CASE t.blank
        BY <3>1, <3>2, <3>4, <3>5 DEF TtsInv
      <3>6. CASE ~t.blank
        BY <3>1, <3>2, <3>3, <3>6 DEF TtsInv
      <3> QED
        BY <3>5, <3>6
    <2>2. ASSUME NEW t \in SpokenTexts, NEW l \in {"None", "hi", "en"}, NEW d \in BOOLEAN,
                 Synthesize(t, l, 2, d)
          PROVE TtsInv'
      <3>1. /\ ttsState = "idle" /\ spokenText' = t
            /\ ttsVoice' = IF t.blank THEN ""
                           ELSE GetVoice(IF l = "None" THEN DetectLanguage(t) ELSE l)
            /\ arrived' = IF t.blank THEN 0 ELSE 2
            /\ ttsState' = IF t.blank \/ d THEN "done" ELSE "failed"
            /\ yielded' = IF d THEN [i \in 1 .. arrived' |-> i] ELSE <<>>
            /\ UNCHANGED <<mp3Buffer, mp3Bytes, chunkCount, undecoded>>
        BY <2>2 DEF Synthesize, Speak
      <3>2. undecoded' = {}
        BY <1>2, <3>1 DEF TtsInv
      <3>3. Rising(yielded')
        <4>1. CASE d
          <5>1. yielded' = [i \in 1 .. arrived' |-> i]
            BY <3>1, <4>1
          <5> QED
            BY <5>1 DEF Rising
        <4>2. CASE ~d
          <5>1. yielded' = <<>>
            BY <3>1, <4>2
          <5> QED
            BY <5>1 DEF Rising
        <4> QED
          BY <4>1, <4>2
      <3>4. CASE t.blank
        <4>1. arrived' = 0 /\ ttsState' = "done" /\ ttsVoice' = ""
          BY <3>1, <3>4
        <4>2. yielded' = <<>>
          <5>1. [i \in 1 .. 0 |-> i] = <<>>
            OBVIOUS
          <5> QED
            BY <3>1, <4>1, <5>1
        <4> QED
          BY <3>1, <3>2, <3>3, <3>4, <4>1, <4>2 DEF TtsInv
      <3>5. CASE ~t.blank
        <4>1. arrived' = 2
          BY <3>1, <3>5
        <4>2. CASE d
          <5>1. yielded' = [i \in 1 .. 2 |-> i] /\ ttsState' = "done"
            BY <3>1, <4>1, <4>2
          <5>2. NotYetHeard(arrived', yielded') = {}
            BY <4>1, <5>1 DEF NotYetHeard
          <5> QED
            BY <3>1, <3>2, <3>3, <3>5, <5>1, <5>2 DEF TtsInv
        <4>3. CASE ~d
          <5>1. ttsState' = "failed"
            BY <3>1, <3>5, <4>3
          <5> QED
            BY <3>2, <3>3, <5>1 DEF TtsInv
        <4> QED
          BY <4>2, <4>3
      <3> QED
        BY <3>4, <3>5
    <2>3. ASSUME NEW bytes \in 1 .. 2, NEW d \in BOOLEAN, AudioChunk(bytes, d) PROVE TtsInv'
      <3> DEFINE full == (chunkCount + 1) % FlushEvery = 0 /\ mp3Bytes + bytes > FlushBytes
      <3>1. /\ ttsState = "streaming" /\ ttsState' = "streaming" /\ spokenText' = spokenText
            /\ arrived' = arrived + 1
            /\ IF full THEN Decode(Append(mp3Buffer, arrived'), d) /\ mp3Buffer' = <<>>
               ELSE mp3Buffer' = Append(mp3Buffer, arrived') /\ UNCHANGED <<yielded, undecoded>>
        BY <2>3 DEF AudioChunk
      <3> HIDE DEF full
      <3>2. ~spokenText.blank /\ Whole(arrived, yielded, undecoded, mp3Buffer)
        BY <1>2, <3>1 DEF TtsInv
      <3>3. Whole(arrived', yielded, undecoded, Append(mp3Buffer, arrived'))
        BY <3>1, <3>2, ChunkArrives
      <3>4. Whole(arrived', yielded', undecoded', mp3Buffer')
        <4>1. CASE full
          BY <3>1, <3>3, <4>1, DecodeKeepsWhole
        <4>2. CASE ~full
          BY <3>1, <3>3, <4>2
        <4> QED
          BY <4>1, <4>2
      <3> QED
        BY <3>1, <3>2, <3>4 DEF TtsInv
    <2>4. ASSUME NEW d \in BOOLEAN, StreamEnds(d) PROVE TtsInv'
      <3>1. /\ ttsState = "streaming" /\ ttsState' = "done" /\ Decode(mp3Buffer, d)
            /\ spokenText' = spokenText /\ arrived' = arrived
        BY <2>4 DEF StreamEnds
      <3>2. ~spokenText.blank /\ Whole(arrived, yielded, undecoded, mp3Buffer)
        BY <1>2, <3>1 DEF TtsInv
      <3>3. Whole(arrived, yielded', undecoded', <<>>)
        BY <3>1, <3>2, DecodeKeepsWhole
      <3>4. /\ Rising(yielded') /\ \A i \in undecoded' : \A k \in DOMAIN yielded' : yielded'[k] # i
            /\ NotYetHeard(arrived', yielded') = undecoded'
        BY <3>1, <3>3, WholeEnds
      <3> QED
        BY <3>1, <3>2, <3>4 DEF TtsInv
    <2>5. CASE StreamBreaks
      <3>1. /\ ttsState = "streaming" /\ ttsState' = "failed"
            /\ yielded' = yielded /\ undecoded' = undecoded
        BY <2>5 DEF StreamBreaks
      <3>2. Whole(arrived, yielded, undecoded, mp3Buffer)
        BY <1>2, <3>1 DEF TtsInv
      <3>3. Rising(yielded) /\ \A i \in undecoded : \A k \in DOMAIN yielded : yielded[k] # i
        BY <3>2, WholeEnds
      <3> QED
        BY <3>1, <3>3 DEF TtsInv
    <2> QED
      BY <1>2, <2>1, <2>2, <2>3, <2>4, <2>5 DEF TtsNext
  <1>3. TtsInv /\ UNCHANGED ttsVars => TtsInv'
    BY DEF TtsInv, ttsVars
  <1>4. ASSUME TtsInv PROVE SpeechIsInOrder
    <2>1. Unheard(arrived) = NotYetHeard(arrived, yielded)
      BY DEF Unheard, NotYetHeard
    <2>2. \A i, k \in DOMAIN yielded : i < k => yielded[i] < yielded[k]
      <3>1. CASE ttsState = "idle"
        <4>1. yielded = <<>>
          BY <1>4, <3>1 DEF TtsInv
        <4> QED
          BY <4>1
      <3>2. CASE ttsState = "streaming"
        <4>1. Rising(yielded)
          BY <1>4, <3>2, WholeEnds DEF TtsInv
        <4> QED
          BY <4>1 DEF Rising
      <3>3. CASE ttsState \in {"done", "failed"}
        <4>1. Rising(yielded)
          BY <1>4, <3>3 DEF TtsInv
        <4> QED
          BY <4>1 DEF Rising
      <3> QED
        BY <1>4, <3>1, <3>2, <3>3 DEF TtsInv
    <2>3. ttsState = "streaming" =>
             Unheard(arrived) = undecoded \union {mp3Buffer[i] : i \in DOMAIN mp3Buffer}
      BY <1>4, <2>1 DEF TtsInv, Whole, Chunks
    <2>4. \A i \in undecoded : \A k \in DOMAIN yielded : yielded[k] # i
      <3>1. CASE ttsState = "idle"
        BY <1>4, <3>1 DEF TtsInv
      <3>2. CASE ttsState = "streaming"
        BY <1>4, <3>2, WholeEnds DEF TtsInv
      <3>3. CASE ttsState \in {"done", "failed"}
        BY <1>4, <3>3 DEF TtsInv
      <3> QED
        BY <1>4, <3>1, <3>2, <3>3 DEF TtsInv
    <2> QED
      BY <1>4, <2>1, <2>2, <2>3, <2>4 DEF TtsInv, SpeechIsInOrder
  <1> QED
    BY <1>1, <1>2, <1>3, <1>4

-----------------------------------------------------------------------------
(***************************************************************************)
(* The language model's reply and the transcript                           *)
(***************************************************************************)

LlmInv ==
  /\ llmLines \in Seq(LineKinds) /\ llmText \in Seq(Nat)
  /\ Rising(llmText)
  /\ Chunks(llmText) = TextLines
  /\ Len(llmText) = Cardinality(TextLines)
  /\ llmState = "done" <=> llmReply # NoReply
  /\ llmReply # NoReply => llmReply = [text |-> Pieces, tokens |-> Len(llmText)]
  /\ sttResult.state = "text" => /\ sttLoaded
                                 /\ sttResult.parts # <<>> =>
                                       Head(sttResult.parts) # "" /\ Last(sttResult.parts) # ""

\* Lists of parts are lists.
LEMMA ListsOfParts ==
  ASSUME NEW S, NEW a \in S, NEW b \in S, NEW c \in S, NEW d \in S
  PROVE  <<a>> \in Seq(S) /\ <<a, b>> \in Seq(S) /\ <<a, b, c, d>> \in Seq(S)
  OBVIOUS

\* Stripping leaves no empty segment at either end.
LEMMA StrippedEnds ==
  ASSUME NEW S, NEW parts \in Seq(S), Stripped(parts) # <<>>
  PROVE  Head(Stripped(parts)) # "" /\ Last(Stripped(parts)) # ""
  <1> DEFINE said == {i \in DOMAIN parts : parts[i] # ""}
             first == CHOOSE i \in said : \A j \in said : i <= j
             last == CHOOSE i \in said : \A j \in said : i >= j
  <1>1. Len(parts) \in Nat /\ DOMAIN parts = 1 .. Len(parts)
    OBVIOUS
  <1>2. said # {} /\ Stripped(parts) = SubSeq(parts, first, last)
    BY DEF Stripped
  <1>3. said \in SUBSET (1 .. Len(parts)) /\ said \in SUBSET Nat
    <2>1. said \in SUBSET DOMAIN parts
      OBVIOUS
    <2> HIDE DEF said
    <2> QED
      BY <1>1, <2>1
  <1>4. \A i \in said : parts[i] # ""
    OBVIOUS
  <1> HIDE DEF said
  <1>5. first \in said /\ \A j \in said : first <= j
    <2>1. \E i \in said : \A j \in said : i <= j
      BY <1>2, <1>3, LeastOf
    <2> QED
      BY <2>1
  <1>6. last \in said
    <2> DEFINE value == [p \in said |-> p]
    <2>1. \A p \in said : value[p] \in Int
      BY <1>3
    <2>2. \A p \in said : value[p] = p
      OBVIOUS
    <2> HIDE DEF value
    <2>3. PICK i \in said : IsBest(i, said, value)
      BY <1>1, <1>2, <1>3, <2>1, BestOf
    <2>4. \A j \in said : i >= j
      BY <2>2, <2>3, <1>3 DEF IsBest
    <2> QED
      BY <2>4
  <1> HIDE DEF first, last
  <1>7. first \in 1 .. Len(parts) /\ last \in 1 .. Len(parts) /\ first <= last
    BY <1>3, <1>5, <1>6
  <1> DEFINE t == SubSeq(parts, first, last)
  <1>8. Len(t) = last - first + 1 /\ t[1] = parts[first] /\ t[last - first + 1] = parts[last]
    BY <1>1, <1>7
  <1>9. t[1] # "" /\ t[Len(t)] # ""
    BY <1>4, <1>5, <1>6, <1>8
  <1>10. t \in Seq(S) /\ Head(t) = t[1] /\ Last(t) = t[Len(t)]
    BY <1>1, <1>7 DEF Last
  <1>11. Stripped(parts) = t
    BY <1>2
  <1> HIDE DEF t
  <1> QED
    BY <1>9, <1>10, <1>11

\* The text of a reply is made of the lines of text, each once and in order, and
\* only a reply that is done is given.
LEMMA LlmInvariance ==
  /\ LlmInit => LlmInv
  /\ LlmInv /\ LlmNext => LlmInv'
  /\ LlmInv /\ UNCHANGED llmVars => LlmInv'
  /\ LlmInv => RepliesAreWhole
  <1>0. Chunks(<<>>) = {} /\ Rising(<<>>) /\ <<>> \in Seq(LineKinds) /\ <<>> \in Seq(Nat)
        /\ Len(<<>>) = 0 /\ Cardinality({}) = 0
    BY FS_EmptySet DEF Chunks, Rising
  <1>1. LlmInit => LlmInv
    <2> SUFFICES ASSUME LlmInit PROVE LlmInv
      OBVIOUS
    <2>1. TextLines = {}
      BY DEF LlmInit, TextLines
    <2> QED
      BY <1>0, <2>1 DEF LlmInit, LlmInv
  <1>2. ASSUME LlmInv, LlmNext PROVE LlmInv'
    <2>0. /\ llmLines \in Seq(LineKinds) /\ llmText \in Seq(Nat)
          /\ Rising(llmText) /\ Chunks(llmText) = TextLines
          /\ Len(llmText) = Cardinality(TextLines)
      BY <1>2 DEF LlmInv
    <2>1. CASE InitializeLlm
      BY <1>2, <2>1 DEF InitializeLlm, LlmInv, TextLines, Pieces
    <2>2. CASE CloseLlm
      BY <1>2, <2>2 DEF CloseLlm, LlmInv, TextLines, Pieces
    <2>3. ASSUME NEW ok \in BOOLEAN, StartReply(ok) PROVE LlmInv'
      <3>1. /\ llmLines' = <<>> /\ llmText' = <<>> /\ llmReply' = NoReply
            /\ llmState' # "done" /\ sttLoaded' = sttLoaded /\ sttResult' = sttResult
        BY <2>3 DEF StartReply
      <3>2. TextLines' = {}
        BY <3>1 DEF TextLines
      <3> QED
        BY <1>0, <1>2, <3>1, <3>2 DEF LlmInv
    <2>4. ASSUME NEW kind \in LineKinds, Line(kind) PROVE LlmInv'
      <3>1. /\ llmState = "streaming"
            /\ llmLines' = Append(llmLines, kind)
            /\ llmText' = IF kind = "text" THEN Append(llmText, Len(llmLines')) ELSE llmText
            /\ llmState' = IF kind = "done" THEN "done" ELSE "streaming"
            /\ llmReply' = IF kind = "done" THEN [text |-> Pieces, tokens |-> Len(llmText)] ELSE NoReply
            /\ sttLoaded' = sttLoaded /\ sttResult' = sttResult
        BY <2>4 DEF Line
      <3> DEFINE n == Len(llmLines)
      <3>2. /\ n \in Nat /\ DOMAIN llmLines = 1 .. n /\ DOMAIN llmLines' = 1 .. n + 1
            /\ llmLines' \in Seq(LineKinds) /\ Len(llmLines') = n + 1
            /\ \A i \in 1 .. n : llmLines'[i] = llmLines[i]
            /\ llmLines'[n + 1] = kind
        BY <2>0, <3>1
      <3> HIDE DEF n
      <3>3. 1 .. n + 1 = (1 .. n) \union {n + 1} /\ n + 1 \notin 1 .. n
        BY <3>2
      <3>4. TextLines \in SUBSET (1 .. n) /\ IsFiniteSet(TextLines)
        <4>1. TextLines \in SUBSET (1 .. n)
          BY <3>2 DEF TextLines
        <4>2. IsFiniteSet(1 .. n)
          BY <3>2, FS_Interval
        <4> QED
          BY <4>1, <4>2, FS_Subset
      <3>5. /\ llmLines' \in Seq(LineKinds) /\ llmText' \in Seq(Nat) /\ Rising(llmText')
            /\ Chunks(llmText') = TextLines' /\ Len(llmText') = Cardinality(TextLines')
        <4>1. CASE kind = "text"
          <5>1. TextLines' = TextLines \union {n + 1}
            BY <3>2, <3>3, <4>1 DEF TextLines
          <5>2. Cardinality(TextLines') = Cardinality(TextLines) + 1
            <6>1. n + 1 \notin TextLines
              BY <3>3, <3>4
            <6>2. Cardinality(TextLines \union {n + 1}) = Cardinality(TextLines) + 1
              BY <3>4, <6>1, FS_AddElement
            <6> QED
              BY <5>1, <6>2
          <5> DEFINE m == Len(llmText)
          <5>3. /\ llmText' \in Seq(Nat) /\ m \in Nat /\ DOMAIN llmText = 1 .. m
                /\ DOMAIN llmText' = 1 .. m + 1 /\ Len(llmText') = m + 1
                /\ \A i \in 1 .. m : llmText'[i] = llmText[i]
                /\ llmText'[m + 1] = n + 1
            BY <2>0, <3>1, <3>2, <4>1
          <5>4. 1 .. m + 1 = (1 .. m) \union {m + 1}
            BY <5>3
          <5>5. Chunks(llmText') = Chunks(llmText) \union {n + 1}
            <6> HIDE DEF m
            <6> QED
              BY <5>3, <5>4 DEF Chunks
          <5>6. \A i \in 1 .. m : llmText[i] \in 1 .. n
            BY <2>0, <3>4, <5>3 DEF Chunks
          <5> HIDE DEF m
          <5>7. Rising(llmText')
            <6> SUFFICES ASSUME NEW i \in 1 .. m + 1, NEW k \in 1 .. m + 1, i < k
                         PROVE  llmText'[i] < llmText'[k]
              BY <5>3 DEF Rising
            <6>1. i \in 1 .. m /\ llmText'[i] = llmText[i] /\ llmText[i] \in 1 .. n
              BY <5>3, <5>6
            <6>2. CASE k = m + 1
              BY <3>2, <5>3, <6>1, <6>2
            <6>3. CASE k \in 1 .. m
              BY <2>0, <5>3, <6>1, <6>3 DEF Rising
            <6> QED
              BY <5>4, <6>2, <6>3
          <5>8. Len(llmText') = Cardinality(TextLines')
            BY <2>0, <5>2, <5>3 DEF m
          <5> QED
            BY <2>0, <3>2, <5>1, <5>3, <5>5, <5>7, <5>8
        <4>2. CASE kind # "text"
          <5>1. TextLines' = TextLines
            BY <3>2, <3>3, <4>2 DEF TextLines
          <5>2. llmText' = llmText
            BY <3>1, <4>2
          <5> QED
            BY <2>0, <3>2, <5>1, <5>2
        <4> QED
          BY <4>1, <4>2
      <3>6. /\ llmState' = "done" <=> llmReply' # NoReply
            /\ llmReply' # NoReply => llmReply' = [text |-> Pieces', tokens |-> Len(llmText')]
        <4>1. CASE kind = "done"
          <5>1. llmText' = llmText /\ Pieces' = Pieces
            BY <3>1, <4>1 DEF Pieces
          <5>2. Len(llmText) # -1
            BY <2>0
          <5>3. [text |-> Pieces, tokens |-> Len(llmText)] # NoReply
            BY <5>2 DEF NoReply
          <5> QED
            BY <3>1, <4>1, <5>1, <5>3
        <4>2. CASE kind # "done"
          BY <3>1, <4>2
        <4> QED
          BY <4>1, <4>2
      <3> QED
        BY <1>2, <3>1, <3>5, <3>6 DEF LlmInv
    <2>5. CASE BodyEnds
      <3>1. /\ llmState' = "done" /\ llmReply' = [text |-> Pieces, tokens |-> Len(llmText)]
            /\ UNCHANGED <<llmLines, llmText, sttLoaded, sttResult>>
        BY <2>5 DEF BodyEnds
      <3>2. TextLines' = TextLines /\ Pieces' = Pieces
        BY <3>1 DEF TextLines, Pieces
      <3>3. Len(llmText) # -1
        BY <2>0
      <3>4. [text |-> Pieces, tokens |-> Len(llmText)] # NoReply
        BY <3>3 DEF NoReply
      <3> QED
        BY <1>2, <3>1, <3>2, <3>4 DEF LlmInv
    <2>6. CASE ReplyFails
      <3>1. /\ llmState = "streaming" /\ llmState' = "failed"
            /\ UNCHANGED <<llmLines, llmText, llmReply, sttLoaded, sttResult>>
        BY <2>6 DEF ReplyFails
      <3>2. TextLines' = TextLines /\ Pieces' = Pieces
        BY <3>1 DEF TextLines, Pieces
      <3> QED
        BY <1>2, <3>1, <3>2 DEF LlmInv
    <2>7. CASE LoadStt
      <3>1. sttLoaded' = TRUE /\ UNCHANGED <<llmState, llmLines, llmText, llmReply, sttResult>>
        BY <2>7 DEF LoadStt
      <3>2. TextLines' = TextLines /\ Pieces' = Pieces
        BY <3>1 DEF TextLines, Pieces
      <3> QED
        BY <1>2, <3>1, <3>2 DEF LlmInv
    <2>8. ASSUME NEW parts \in {<<"">>, <<"", "a", "", "b">>, <<"a", "">>}, NEW fails \in BOOLEAN,
                 Transcribe(parts, fails)
          PROVE LlmInv'
      <3>1. /\ sttResult' = IF ~sttLoaded \/ fails THEN [state |-> "raised", parts |-> <<>>]
                            ELSE [state |-> "text", parts |-> Stripped(parts)]
            /\ UNCHANGED <<llmState, llmLines, llmText, llmReply, sttLoaded>>
        BY <2>8 DEF Transcribe
      <3>2. TextLines' = TextLines /\ Pieces' = Pieces
        BY <3>1 DEF TextLines, Pieces
      <3>3. parts \in Seq({"", "a", "b"})
        <4> DEFINE word == {"", "a", "b"}
        <4>1. "" \in word /\ "a" \in word /\ "b" \in word
          OBVIOUS
        <4> HIDE DEF word
        <4>2. <<"">> \in Seq(word)
          BY <4>1, ListsOfParts
        <4>3. <<"", "a", "", "b">> \in Seq(word)
          BY <4>1, ListsOfParts
        <4>4. <<"a", "">> \in Seq(word)
          BY <4>1, ListsOfParts
        <4> QED
          BY <4>2, <4>3, <4>4 DEF word
      <3>4. Stripped(parts) # <<>> => Head(Stripped(parts)) # "" /\ Last(Stripped(parts)) # ""
        BY <3>3, StrippedEnds
      <3>5. sttResult'.state = "text" => /\ sttLoaded'
                                         /\ sttResult'.parts # <<>> =>
                                               Head(sttResult'.parts) # "" /\ Last(sttResult'.parts) # ""
        <4>1. CASE ~sttLoaded \/ fails
          BY <3>1, <4>1
        <4>2. CASE ~(~sttLoaded \/ fails)
          <5> DEFINE w == Stripped(parts)
          <5>1. sttResult' = [state |-> "text", parts |-> w] /\ sttLoaded'
            BY <3>1, <4>2
          <5>2. w # <<>> => Head(w) # "" /\ Last(w) # ""
            BY <3>4
          <5> HIDE DEF w
          <5>3. sttResult'.parts = w
            BY <5>1
          <5> QED
            BY <5>1, <5>2, <5>3
        <4> QED
          BY <4>1, <4>2
      <3> QED
        BY <1>2, <3>1, <3>2, <3>5 DEF LlmInv
    <2> QED
      BY <1>2, <2>1, <2>2, <2>3, <2>4, <2>5, <2>6, <2>7, <2>8 DEF LlmNext
  <1>3. ASSUME LlmInv, UNCHANGED llmVars PROVE LlmInv'
    <2>1. /\ llmState' = llmState /\ llmLines' = llmLines /\ llmText' = llmText
          /\ llmReply' = llmReply /\ sttLoaded' = sttLoaded /\ sttResult' = sttResult
      BY <1>3 DEF llmVars
    <2>2. TextLines' = TextLines /\ Pieces' = Pieces
      BY <2>1 DEF TextLines, Pieces
    <2> QED
      BY <1>3, <2>1, <2>2 DEF LlmInv
  <1>4. ASSUME LlmInv PROVE RepliesAreWhole
    <2>1. ASSUME llmReply # NoReply
          PROVE  /\ llmState = "done"
                 /\ llmReply.tokens = Cardinality(TextLines)
                 /\ {llmReply.text[i] : i \in DOMAIN llmReply.text} = TextLines
                 /\ \A i \in 1 .. llmReply.tokens - 1 : llmReply.text[i] < llmReply.text[i + 1]
      <3>1. /\ llmState = "done" /\ llmReply = [text |-> Pieces, tokens |-> Len(llmText)]
            /\ llmText \in Seq(Nat) /\ Rising(llmText) /\ Chunks(llmText) = TextLines
            /\ Len(llmText) = Cardinality(TextLines)
        BY <1>4, <2>1 DEF LlmInv
      <3>2. llmReply.tokens = Len(llmText) /\ llmReply.text = Pieces
        BY <3>1
      <3>3. DOMAIN Pieces = DOMAIN llmText /\ \A i \in DOMAIN llmText : Pieces[i] = llmText[i]
        BY DEF Pieces
      <3>4. {Pieces[i] : i \in DOMAIN Pieces} = Chunks(llmText)
        BY <3>3 DEF Chunks
      <3>5. ASSUME NEW i \in 1 .. Len(llmText) - 1 PROVE Pieces[i] < Pieces[i + 1]
        <4>1. /\ i \in DOMAIN llmText /\ i + 1 \in DOMAIN llmText /\ i < i + 1
          BY <3>1
        <4> QED
          BY <3>1, <3>3, <4>1 DEF Rising
      <3> QED
        BY <3>1, <3>2, <3>4, <3>5
    <2> QED
      BY <1>4, <2>1 DEF LlmInv, RepliesAreWhole
  <1> QED
    BY <1>1, <1>2, <1>3, <1>4

-----------------------------------------------------------------------------
(***************************************************************************)
(* Feelings and speakers                                                   *)
(***************************************************************************)

\* A feeling and what it is made of fit together, whatever it was made by.
Founded(e, f, from) ==
  /\ from = "none" => e \in {Neutral(0), Neutral(2)}
  /\ from = "sound" /\ e.arousal < 0 => e.confidence = 0
  /\ from = "model" =>
       \E i \in LabelIndex :
          /\ EmotionLabels[i] = e.label /\ f[i] = e.confidence
          /\ \A j \in LabelIndex : f[j] <= f[i]
          /\ f[i] = 2 => e.valence = 2 * Valence[i] /\ e.arousal = 2 * Arousal[i]
  /\ {e.valence, e.arousal, e.dominance} \subseteq -20 .. 20

\* The labels and their dimensions.
LEMMA Tables ==
  /\ LabelIndex = 1 .. 7
  /\ Valence[1] = 0 /\ Valence[2] = 8 /\ Valence[3] = -6 /\ Valence[4] = -4
  /\ Valence[5] = -6 /\ Valence[6] = -5 /\ Valence[7] = 2
  /\ Arousal[1] = 0 /\ Arousal[2] = 6 /\ Arousal[3] = -3 /\ Arousal[4] = 8
  /\ Arousal[5] = 7 /\ Arousal[6] = 3 /\ Arousal[7] = 7
  /\ Dominance[1] = 0 /\ Dominance[2] = 5 /\ Dominance[3] = -5 /\ Dominance[4] = 7
  /\ Dominance[5] = -6 /\ Dominance[6] = 3 /\ Dominance[7] = 0
  BY DEF LabelIndex, EmotionLabels, Valence, Arousal, Dominance

\* A weighted sum, written out.
LEMMA WeightedIs ==
  ASSUME NEW table, NEW f
  PROVE  Weighted(table, f) = table[1] * f[1] + table[2] * f[2] + table[3] * f[3] + table[4] * f[4]
                              + table[5] * f[5] + table[6] * f[6] + table[7] * f[7]
  BY Tables DEF Weighted, Total

\* What a model's scores say is founded on them.
LEMMA ScoresAreFounded ==
  ASSUME NEW f \in ModelScores PROVE Founded(FromScores(f), f, "model")
  <1> DEFINE i == Dominant(f)
             v == Weighted(Valence, f)
             a == Weighted(Arousal, f)
             d == Weighted(Dominance, f)
             e == Feeling(EmotionLabels[i], f[i], v, a, d)
  <1>1. /\ f \in [1 .. 7 -> 0 .. 2]
        /\ f[1] + f[2] + f[3] + f[4] + f[5] + f[6] + f[7] = 2
    BY EmotionAssumption, Tables DEF Total
  <1>2. /\ f[1] \in 0 .. 2 /\ f[2] \in 0 .. 2 /\ f[3] \in 0 .. 2 /\ f[4] \in 0 .. 2
        /\ f[5] \in 0 .. 2 /\ f[6] \in 0 .. 2 /\ f[7] \in 0 .. 2
    BY <1>1
  <1>3. i \in 1 .. 7 /\ \A j \in 1 .. 7 : f[j] <= f[i]
    <2> DEFINE S == 1 .. 7
    <2>1. 7 \in Nat /\ S \in SUBSET (1 .. 7) /\ S # {} /\ \A p \in S : f[p] \in Int
      BY <1>1
    <2> HIDE DEF S
    <2>2. PICK p \in S : IsBest(p, S, f)
      BY <2>1, BestOf
    <2>3. \A j \in S : f[p] > f[j] \/ (f[p] = f[j] /\ p <= j)
      BY <2>2 DEF IsBest
    <2>4. i = CHOOSE q \in S : \A j \in S : f[q] > f[j] \/ (f[q] = f[j] /\ q <= j)
      BY Tables DEF Dominant, S
    <2>5. i \in S /\ \A j \in S : f[i] > f[j] \/ (f[i] = f[j] /\ i <= j)
      <3> HIDE DEF i
      <3> QED
        BY <2>3, <2>4
    <2> HIDE DEF i
    <2>6. \A j \in S : f[j] \in Nat /\ f[i] \in Nat
      BY <1>1, <2>5 DEF S
    <2>7. \A j \in S : f[j] <= f[i]
      BY <2>5, <2>6
    <2> QED
      BY <2>5, <2>7 DEF S
  <1>4. v = 8 * f[2] - 6 * f[3] - 4 * f[4] - 6 * f[5] - 5 * f[6] + 2 * f[7]
    <2>1. v = 0 * f[1] + 8 * f[2] + (-6) * f[3] + (-4) * f[4] + (-6) * f[5] + (-5) * f[6] + 2 * f[7]
      BY Tables, WeightedIs
    <2> HIDE DEF v
    <2> QED
      BY <1>2, <2>1
  <1>5. a = 6 * f[2] - 3 * f[3] + 8 * f[4] + 7 * f[5] + 3 * f[6] + 7 * f[7]
    <2>1. a = 0 * f[1] + 6 * f[2] + (-3) * f[3] + 8 * f[4] + 7 * f[5] + 3 * f[6] + 7 * f[7]
      BY Tables, WeightedIs
    <2> HIDE DEF a
    <2> QED
      BY <1>2, <2>1
  <1>6. d = 5 * f[2] - 5 * f[3] + 7 * f[4] - 6 * f[5] + 3 * f[6]
    <2>1. d = 0 * f[1] + 5 * f[2] + (-5) * f[3] + 7 * f[4] + (-6) * f[5] + 3 * f[6] + 0 * f[7]
      BY Tables, WeightedIs
    <2> HIDE DEF d
    <2> QED
      BY <1>2, <2>1
  <1> HIDE DEF i, v, a, d
  <1>7. v \in -20 .. 20 /\ a \in -20 .. 20 /\ d \in -20 .. 20
    BY <1>1, <1>2, <1>4, <1>5, <1>6
  <1>8. f[i] = 2 => v = 2 * Valence[i] /\ a = 2 * Arousal[i]
    <2> SUFFICES ASSUME f[i] = 2 PROVE v = 2 * Valence[i] /\ a = 2 * Arousal[i]
      OBVIOUS
    <2>1. i = 1 \/ i = 2 \/ i = 3 \/ i = 4 \/ i = 5 \/ i = 6 \/ i = 7
      BY <1>3
    <2> QED
      BY <1>1, <1>2, <1>4, <1>5, <2>1, Tables
  <1>9. /\ e.label = EmotionLabels[i] /\ e.confidence = f[i] /\ e.valence = v /\ e.arousal = a
        /\ e.dominance = d
    BY DEF Feeling
  <1>10. FromScores(f) = e
    BY DEF FromScores, i, v, a, d, e
  <1> HIDE DEF e
  <1>11. \E k \in LabelIndex :
          /\ EmotionLabels[k] = e.label /\ f[k] = e.confidence
          /\ \A j \in LabelIndex : f[j] <= f[k]
          /\ f[k] = 2 => e.valence = 2 * Valence[k] /\ e.arousal = 2 * Arousal[k]
    <2>1. i \in LabelIndex /\ \A j \in LabelIndex : f[j] <= f[i]
      BY <1>3, Tables
    <2> QED
      BY <1>8, <1>9, <2>1
  <1>12. {e.valence, e.arousal, e.dominance} \subseteq -20 .. 20
    BY <1>7, <1>9
  <1> QED
    BY <1>10, <1>11, <1>12 DEF Founded

\* What the sound alone says is within the scale, and sure only if it is loud.
LEMMA SoundIsFounded ==
  ASSUME NEW loud \in 0 .. 2, NEW c \in 0 .. 1
  PROVE  Founded(FallbackEmotion(loud, c), <<>>, "sound")
  <1> DEFINE v == Clamp(20 * c - 9 - 2 * loud)
             a == Clamp(16 * loud - 4)
             d == Clamp(8 * loud - 2)
             label == NearestLabel(v, a, d)
             sure == IF loud = 0 THEN 0 ELSE 2
             e == Feeling(label, sure, v, a, d)
  <1>1. FallbackEmotion(loud, c) = e
    BY DEF FallbackEmotion
  <1>2. v \in -20 .. 20 /\ a \in -20 .. 20 /\ d \in -20 .. 20
    BY DEF Clamp
  <1>3. a < 0 => sure = 0
    BY DEF Clamp
  <1> HIDE DEF v, a, d, label, sure
  <1>4. e.valence = v /\ e.arousal = a /\ e.dominance = d /\ e.confidence = sure
    BY DEF Feeling
  <1> HIDE DEF e
  <1>5. {e.valence, e.arousal, e.dominance} \subseteq -20 .. 20
    BY <1>2, <1>4
  <1> QED
    BY <1>1, <1>3, <1>4, <1>5 DEF Founded

\* The neutral feeling is founded on nothing.
LEMMA NeutralIsFounded ==
  ASSUME NEW k \in {0, 2} PROVE Founded(Neutral(k), <<>>, "none")
  BY DEF Founded, Neutral, Feeling

EmotionInv == Founded(emotion, scores, emotionSource)

\* A feeling is founded on what it was made of, on the server and at the edge.
LEMMA EmotionInvariance ==
  /\ EmotionInit => EmotionInv
  /\ EmotionInv /\ EmotionNext => EmotionInv'
  /\ EmotionInv /\ UNCHANGED emotionVars => EmotionInv'
  /\ EmotionInv => EmotionIsFounded
  <1>1. EmotionInit => EmotionInv
    BY NeutralIsFounded DEF EmotionInit, EmotionInv
  <1>2. ASSUME EmotionInv, EmotionNext PROVE EmotionInv'
    <2>1. CASE LoadEmotionModel
      <3>1. emotion' = emotion /\ scores' = scores /\ emotionSource' = emotionSource
        BY <2>1 DEF LoadEmotionModel
      <3> QED
        BY <1>2, <3>1 DEF EmotionInv
    <2>2. ASSUME NEW f \in ModelScores, NEW fails \in BOOLEAN, ExtractOnServer(f, fails)
          PROVE EmotionInv'
      <3>1. \/ emotion' = Neutral(2) /\ scores' = <<>> /\ emotionSource' = "none"
            \/ emotion' = Neutral(0) /\ scores' = <<>> /\ emotionSource' = "none"
            \/ emotion' = FromScores(f) /\ scores' = f /\ emotionSource' = "model"
        BY <2>2 DEF ExtractOnServer, Extracted
      <3> QED
        BY <3>1, NeutralIsFounded, ScoresAreFounded DEF EmotionInv
    <2>3. ASSUME NEW f \in ModelScores, NEW l \in BOOLEAN, NEW fails \in BOOLEAN,
                 NEW loud \in 0 .. 2, NEW c \in 0 .. 1, ExtractOnEdge(f, l, fails, loud, c)
          PROVE EmotionInv'
      <3>1. \/ emotion' = FromScores(f) /\ scores' = f /\ emotionSource' = "model"
            \/ emotion' = FallbackEmotion(loud, c) /\ scores' = <<>> /\ emotionSource' = "sound"
        BY <2>3 DEF ExtractOnEdge, Extracted
      <3> QED
        BY <3>1, SoundIsFounded, ScoresAreFounded DEF EmotionInv
    <2> QED
      BY <1>2, <2>1, <2>2, <2>3 DEF EmotionNext
  <1>3. EmotionInv /\ UNCHANGED emotionVars => EmotionInv'
    BY DEF EmotionInv, emotionVars
  <1>4. EmotionInv => EmotionIsFounded
    BY DEF EmotionInv, EmotionIsFounded, Founded
  <1> QED
    BY <1>1, <1>2, <1>3, <1>4

\* What is kept of a voice is one that was heard, or nothing.
Heard(voice) ==
  \/ voice.from = "nothing" /\ voice.vector = ZeroEmbedding
  \/ voice.from \in {"model", "hash"} /\ voice.vector \in Embeddings

SpeakerInv ==
  /\ Heard(voices[1]) /\ Heard(voices[2])
  /\ edgeSpeaker = "untried" => voices[1].from # "hash" /\ voices[2].from # "hash"

\* Only voices that were heard are alike, a voice is like itself, and likeness has
\* no direction.
LEMMA Likeness ==
  ASSUME NEW a \in Embeddings \union {ZeroEmbedding}, NEW b \in Embeddings \union {ZeroEmbedding}
  PROVE  /\ IsSameSpeaker(a, b) => a \in Embeddings /\ b \in Embeddings
         /\ IsSameSpeaker(a, b) <=> IsSameSpeaker(b, a)
         /\ a \in Embeddings => IsSameSpeaker(a, a)
  <1>1. /\ a[1] \in Int /\ a[2] \in Int /\ b[1] \in Int /\ b[2] \in Int
    BY DEF Embeddings, ZeroEmbedding
  <1>2. Dot(a, b) = Dot(b, a) /\ Dot(a, b) \in Int /\ Dot(a, a) \in Int /\ Dot(b, b) \in Int
    BY <1>1 DEF Dot
  <1>3. (a \notin Embeddings => Dot(a, a) = 0) /\ (b \notin Embeddings => Dot(b, b) = 0)
    BY DEF Dot, ZeroEmbedding
  <1>4. a \in Embeddings => Dot(a, a) = 1 \/ Dot(a, a) = 25
    BY DEF Dot, Embeddings
  <1>5. IsSameSpeaker(a, b) => a \in Embeddings /\ b \in Embeddings
    BY <1>3 DEF IsSameSpeaker
  <1>6. 9 * Dot(a, a) * Dot(b, b) = 9 * Dot(b, b) * Dot(a, a)
    BY <1>2
  <1>7. IsSameSpeaker(a, b) <=> IsSameSpeaker(b, a)
    BY <1>2, <1>6 DEF IsSameSpeaker
  <1>8. a \in Embeddings => IsSameSpeaker(a, a)
    BY <1>4 DEF IsSameSpeaker
  <1> QED
    BY <1>5, <1>7, <1>8

\* A vector that is kept was heard, or it is the zero vector.
LEMMA KeepIsHeard ==
  ASSUME SpeakerInv, NEW vector, NEW from, Keep(vector, from),
         \/ from = "nothing" /\ vector = ZeroEmbedding
         \/ from \in {"model", "hash"} /\ vector \in Embeddings,
         edgeSpeaker' = "untried" => edgeSpeaker = "untried" /\ from # "hash"
  PROVE  SpeakerInv'
  <1>1. voices' = <<voices[2], [vector |-> vector, from |-> from]>>
    BY DEF Keep
  <1>2. voices'[1] = voices[2] /\ voices'[2].vector = vector /\ voices'[2].from = from
    BY <1>1
  <1>3. Heard(voices'[1]) /\ Heard(voices'[2])
    BY <1>2 DEF SpeakerInv, Heard
  <1> QED
    BY <1>2, <1>3 DEF SpeakerInv

\* A voice that is not zero was heard by a model or by its own sound.
LEMMA SpeakerInvariance ==
  /\ SpeakerInit => SpeakerInv
  /\ SpeakerInv /\ SpeakerNext => SpeakerInv'
  /\ SpeakerInv /\ UNCHANGED speakerVars => SpeakerInv'
  /\ SpeakerInv => NobodyIsRecognisedInNothing
  <1>1. SpeakerInit => SpeakerInv
    BY DEF SpeakerInit, SpeakerInv, Heard, NoVoice
  <1>2. ASSUME SpeakerInv, SpeakerNext PROVE SpeakerInv'
    <2>1. CASE LoadSpeakerModel
      <3>1. edgeSpeaker' = edgeSpeaker /\ voices' = voices
        BY <2>1 DEF LoadSpeakerModel
      <3> QED
        BY <1>2, <3>1 DEF SpeakerInv
    <2>2. ASSUME NEW v \in Embeddings, NEW fails \in BOOLEAN, ExtractEmbedding(v, fails)
          PROVE SpeakerInv'
      <3>1. edgeSpeaker' = edgeSpeaker /\ (Keep(v, "model") \/ Keep(ZeroEmbedding, "nothing"))
        BY <2>2 DEF ExtractEmbedding
      <3> QED
        BY <1>2, <3>1, KeepIsHeard
    <2>3. ASSUME NEW v \in Embeddings, NEW l \in BOOLEAN, NEW fails \in BOOLEAN,
                 NEW silent \in BOOLEAN, Encode(v, l, fails, silent)
          PROVE SpeakerInv'
      <3>1. /\ edgeSpeaker' # "untried"
            /\ Keep(v, "model") \/ Keep(ZeroEmbedding, "nothing") \/ Keep(v, "hash")
        BY <2>3 DEF Encode
      <3> QED
        BY <1>2, <3>1, KeepIsHeard
    <2> QED
      BY <1>2, <2>1, <2>2, <2>3 DEF SpeakerNext
  <1>3. SpeakerInv /\ UNCHANGED speakerVars => SpeakerInv'
    BY DEF SpeakerInv, speakerVars
  <1>4. ASSUME SpeakerInv PROVE NobodyIsRecognisedInNothing
    <2> DEFINE a == voices[1].vector
               b == voices[2].vector
    <2>1. a \in Embeddings \union {ZeroEmbedding} /\ b \in Embeddings \union {ZeroEmbedding}
      BY <1>4 DEF SpeakerInv, Heard
    <2>2. ZeroEmbedding \notin Embeddings
      BY DEF ZeroEmbedding, Embeddings
    <2>3. /\ a \in Embeddings => voices[1].from # "nothing"
          /\ b \in Embeddings <=> voices[2].from # "nothing"
      BY <1>4, <2>2 DEF SpeakerInv, Heard
    <2> HIDE DEF a, b
    <2>4. /\ IsSameSpeaker(a, b) => a \in Embeddings /\ b \in Embeddings
          /\ IsSameSpeaker(a, b) <=> IsSameSpeaker(b, a)
          /\ b \in Embeddings => IsSameSpeaker(b, b)
      BY <2>1, Likeness
    <2>5. edgeSpeaker = "untried" => \A i \in 1 .. 2 : voices[i].from # "hash"
      <3>1. \A i \in 1 .. 2 : i = 1 \/ i = 2
        OBVIOUS
      <3> QED
        BY <1>4, <3>1 DEF SpeakerInv
    <2> QED
      BY <2>3, <2>4, <2>5 DEF NobodyIsRecognisedInNothing, a, b
  <1> QED
    BY <1>1, <1>2, <1>3, <1>4

-----------------------------------------------------------------------------
(***************************************************************************)
(* Sessions                                                                *)
(***************************************************************************)

Marks == BOOLEAN
TurnRecs == [role : {"user", "assistant"}, n : Nat]
SessionRecs == [id : SessionIds, active : Marks, last : Nat, history : Seq(TurnRecs), total : Nat,
                language : {"None", "hi"}, metadata : Seq(Nat)]

\* The history is the newest turns, all while they fit.
WellKept(s) ==
  /\ Len(s.history) = Min({s.total, MaxHistory})
  /\ \A i \in DOMAIN s.history : s.history[i].n = s.total - Len(s.history) + i
  /\ (s.language = "None") => \A i \in DOMAIN s.history : s.history[i].role # "user"
  /\ Len(s.metadata) <= MaxHistory

Taken == {id \in SessionIds : sessionOf[id] # NoSession}

SessionTyped ==
  /\ clock \in Nat
  /\ session \in Seq(SessionRecs)
  /\ sessionOf \in [SessionIds -> 0 .. Len(session)]

SessionCore ==
  /\ SessionTyped
  /\ \A id \in SessionIds : sessionOf[id] # NoSession => session[sessionOf[id]].id = id
  /\ gauge = Cardinality(Taken)
  /\ \A o \in DOMAIN session : session[o].active <=> o \in Held
  /\ \A o \in DOMAIN session : WellKept(session[o])

GivenIsOwn ==
  given.object # NoSession => /\ given.object \in DOMAIN session
                              /\ session[given.object].id = given.id

SessionInv == SessionCore /\ GivenIsOwn

\* The lesser of two numbers.
LEMMA LessOfTwo ==
  ASSUME NEW a \in Int, NEW b \in Int
  PROVE  Min({a, b}) = IF a <= b THEN a ELSE b
  <1>1. \E x \in {a, b} : \A y \in {a, b} : x <= y
    OBVIOUS
  <1>2. Min({a, b}) \in {a, b} /\ \A y \in {a, b} : Min({a, b}) <= y
    BY <1>1 DEF Min
  <1> QED
    BY <1>2

\* A window of m over the list h that has grown by r.
Slid(T, h, r, m, w) ==
  /\ w \in Seq(T)
  /\ (Len(h) = m => Len(w) = m) /\ (Len(h) # m => Len(w) = Len(h) + 1)
  /\ \A i \in 1 .. Len(w) - 1 : /\ w[i] = h[i + Len(h) + 1 - Len(w)]
                               /\ i + Len(h) + 1 - Len(w) \in DOMAIN h
  /\ w[Len(w)] = r

\* A window over a list that grows slides by what it has no room for.
LEMMA WindowGrows ==
  ASSUME NEW T, NEW h \in Seq(T), NEW r \in T, NEW m \in Nat \ {0}, Len(h) <= m,
         NEW w, w = Window(Append(h, r), m)
  PROVE  Slid(T, h, r, m, w)
  <1> DEFINE g == Append(h, r)
             k == Len(h)
  <1>1. /\ g \in Seq(T) /\ k \in Nat /\ Len(g) = k + 1 /\ DOMAIN h = 1 .. k
        /\ \A i \in 1 .. k : g[i] = h[i]
        /\ g[k + 1] = r
    OBVIOUS
  <1>2. w = IF k + 1 > m THEN SubSeq(g, k + 1 - m + 1, k + 1) ELSE g
    BY <1>1 DEF Window
  <1>3. CASE k = m
    <2> HIDE DEF g
    <2>1. w = SubSeq(g, 2, m + 1)
      BY <1>1, <1>2, <1>3
    <2>2. /\ w \in Seq(T) /\ Len(w) = m
          /\ \A i \in 1 .. m : w[i] = g[i + 1]
      BY <1>1, <1>3, <2>1
    <2>3. \A i \in 1 .. m - 1 : w[i] = h[i + 1] /\ i + 1 \in 1 .. k
      BY <1>1, <1>3, <2>2
    <2>4. w[m] = r
      BY <1>1, <1>3, <2>2
    <2>5. \A i \in 1 .. m - 1 : i + k + 1 - m = i + 1
      BY <1>1, <1>3
    <2>6. \A i \in 1 .. Len(w) - 1 : w[i] = h[i + k + 1 - Len(w)] /\ i + k + 1 - Len(w) \in DOMAIN h
      BY <1>1, <2>2, <2>3, <2>5, SMTT(30)
    <2> QED
      BY <1>3, <2>2, <2>4, <2>6 DEF Slid
  <1>4. CASE k # m
    <2> HIDE DEF g
    <2>1. w = g
      <3>0. m \in Nat /\ k <= m
        OBVIOUS
      <3> HIDE DEF k
      <3>1. ~(k + 1 > m)
        BY <1>1, <1>4, <3>0
      <3> QED
        BY <1>2, <3>1
    <2>2. \A i \in 1 .. k : i + k + 1 - (k + 1) = i
      BY <1>1
    <2>3. \A i \in 1 .. Len(w) - 1 : w[i] = h[i + k + 1 - Len(w)] /\ i + k + 1 - Len(w) \in DOMAIN h
      BY <1>1, <2>1, <2>2
    <2> QED
      BY <1>1, <1>4, <2>1, <2>3 DEF Slid
  <1> QED
    BY <1>3, <1>4

\* A history w that goes up to turn t + 1, the one said in that role, where h went up to t.
TurnAdded(h, t, role, w) ==
  /\ w \in Seq(TurnRecs)
  /\ Len(w) = Min({t + 1, MaxHistory})
  /\ \A i \in DOMAIN w : w[i].n = t + 1 - Len(w) + i
  /\ (role # "user" /\ \A i \in DOMAIN h : h[i].role # "user")
        => \A i \in DOMAIN w : w[i].role # "user"

\* A turn that is added keeps the history the newest turns.
LEMMA HistoryGrows ==
  ASSUME NEW h \in Seq(TurnRecs), NEW t \in Nat, NEW role \in {"user", "assistant"},
         Len(h) = Min({t, MaxHistory}),
         \A i \in DOMAIN h : h[i].n = t - Len(h) + i,
         NEW w, w = Window(Append(h, [role |-> role, n |-> t + 1]), MaxHistory)
  PROVE  TurnAdded(h, t, role, w)
  <1> DEFINE r == [role |-> role, n |-> t + 1]
             m == MaxHistory
             T == TurnRecs
             k == Len(h)
  <1>1. r \in T /\ r.n = t + 1 /\ r.role = role
    BY DEF TurnRecs
  <1>2. m \in Nat /\ m # 0 /\ k \in Nat /\ DOMAIN h = 1 .. k
    BY SessionAssumption
  <1>3. k = (IF t <= m THEN t ELSE m) /\ Min({t + 1, m}) = IF t + 1 <= m THEN t + 1 ELSE m
    BY <1>2, LessOfTwo
  <1> HIDE DEF r, T
  <1>4. /\ w \in Seq(T)
        /\ Len(w) = IF k = m THEN m ELSE k + 1
        /\ \A i \in 1 .. Len(w) - 1 : w[i] = h[i + k + 1 - Len(w)] /\ i + k + 1 - Len(w) \in DOMAIN h
        /\ w[Len(w)] = r
    <2>1. h \in Seq(T) /\ Len(h) <= m /\ m \in Nat \ {0}
      BY <1>2, <1>3 DEF T
    <2>2. w = Window(Append(h, r), m)
      BY DEF r
    <2> HIDE DEF m
    <2> HIDE DEF k
    <2>3. Slid(T, h, r, m, w)
      <3>1. h \in Seq(T) /\ r \in T /\ m \in Nat \ {0} /\ Len(h) <= m /\ w = Window(Append(h, r), m)
        BY <1>1, <2>1, <2>2
      <3> QED
        BY <3>1, WindowGrows
    <2> QED
      BY <2>3 DEF k, Slid
  <1> HIDE DEF m
  <1>5. Len(w) \in Nat /\ DOMAIN w = 1 .. Len(w) /\ Len(w) > 0
    BY <1>2, <1>4
  <1>6. Len(w) = Min({t + 1, m})
    BY <1>2, <1>3, <1>4
  <1>7. ASSUME NEW i \in DOMAIN w PROVE w[i].n = t + 1 - Len(w) + i
    <2>1. CASE i = Len(w)
      BY <1>1, <1>4, <1>5, <2>1
    <2>2. CASE i \in 1 .. Len(w) - 1
      <3> DEFINE j == i + k + 1 - Len(w)
      <3>1. w[i] = h[j] /\ j \in DOMAIN h
        BY <1>4, <2>2
      <3>2. h[j].n = t - k + j
        BY <3>1
      <3>3. t - k + j = t + 1 - Len(w) + i
        BY <1>2, <1>5, <2>2
      <3> QED
        BY <3>1, <3>2, <3>3
    <2> QED
      BY <1>5, <2>1, <2>2
  <1>8. ASSUME role # "user", \A i \in DOMAIN h : h[i].role # "user", NEW i \in DOMAIN w
        PROVE  w[i].role # "user"
    <2>1. CASE i = Len(w)
      BY <1>1, <1>4, <1>8, <2>1
    <2>2. CASE i \in 1 .. Len(w) - 1
      BY <1>4, <1>8, <2>2
    <2> QED
      BY <1>5, <2>1, <2>2
  <1> QED
    BY <1>4, <1>6, <1>7, <1>8 DEF m, T, TurnAdded

\* The sessions the manager has are as many as the ids it has them under.
LEMMA HeldAreTaken ==
  ASSUME SessionTyped,
         \A id \in SessionIds : sessionOf[id] # NoSession => session[sessionOf[id]].id = id
  PROVE  Cardinality(Held) = Cardinality(Taken)
  <1> DEFINE f == [id \in Taken |-> sessionOf[id]]
  <1>1. IsFiniteSet(Taken)
    BY SessionAssumption, FS_Subset DEF Taken
  <1>2. /\ session \in Seq(SessionRecs) /\ sessionOf \in [SessionIds -> 0 .. Len(session)]
        /\ DOMAIN session = 1 .. Len(session) /\ Len(session) \in Nat
    BY DEF SessionTyped
  <1>3. \A id \in Taken : id \in SessionIds /\ sessionOf[id] \in Held /\ session[sessionOf[id]].id = id
    BY <1>2 DEF Taken, Held, NoSession
  <1>4. \A o \in Held : \E id \in Taken : sessionOf[id] = o
    BY <1>2 DEF Taken, Held, NoSession
  <1>5. f \in Bijection(Taken, Held)
    <2>1. f \in [Taken -> Held]
      BY <1>3
    <2>2. \A a, b \in Taken : f[a] = f[b] => a = b
      BY <1>3
    <2>3. \A o \in Held : \E id \in Taken : f[id] = o
      BY <1>4
    <2> HIDE DEF f
    <2>4. f \in Injection(Taken, Held) /\ f \in Surjection(Taken, Held)
      BY <2>1, <2>2, <2>3 DEF Injection, Surjection, IsInjective
    <2> QED
      BY <2>4 DEF Bijection
  <1>6. ExistsBijection(Taken, Held)
    BY <1>5 DEF ExistsBijection
  <1> QED
    BY <1>1, <1>6, FS_Bijection

\* What a session's owner sees of it.
SameTalk(q, s) ==
  /\ q.id = s.id /\ q.total = s.total /\ q.history = s.history
  /\ q.language = s.language /\ q.metadata = s.metadata

\* A session marked as active or not has said the same.
LEMMA MarkedIsSame ==
  ASSUME NEW s \in SessionRecs, NEW b \in Marks, NEW q, q = [s EXCEPT !.active = b]
  PROVE  q \in SessionRecs /\ q.active = b /\ SameTalk(q, s)
  BY DEF SessionRecs, SameTalk

\* Whether a history is well kept depends on what was said alone.
LEMMA SameIsWellKept ==
  ASSUME NEW q, NEW s, SameTalk(q, s), WellKept(s)
  PROVE  WellKept(q)
  <1>1. /\ q.id = s.id /\ q.total = s.total /\ q.history = s.history
        /\ q.language = s.language /\ q.metadata = s.metadata
    BY DEF SameTalk
  <1> QED
    BY <1>1 DEF WellKept

\* The facts about the manager's tables that the steps use.
LEMMA CoreFacts ==
  ASSUME SessionTyped
  PROVE  /\ clock \in Nat /\ session \in Seq(SessionRecs)
         /\ Len(session) \in Nat /\ DOMAIN session = 1 .. Len(session)
         /\ sessionOf \in [SessionIds -> 0 .. Len(session)]
         /\ \A o \in DOMAIN session : session[o] \in SessionRecs
         /\ \A id \in Taken : id \in SessionIds /\ sessionOf[id] \in DOMAIN session
         /\ \A id \in SessionIds \ Taken : sessionOf[id] = NoSession
         /\ IsFiniteSet(Taken)
         /\ NoSession \notin DOMAIN session
  <1>1. IsFiniteSet(Taken)
    BY SessionAssumption, FS_Subset DEF Taken
  <1>2. /\ clock \in Nat /\ session \in Seq(SessionRecs)
        /\ sessionOf \in [SessionIds -> 0 .. Len(session)]
    BY DEF SessionTyped
  <1>3. /\ Len(session) \in Nat /\ DOMAIN session = 1 .. Len(session)
        /\ \A o \in DOMAIN session : session[o] \in SessionRecs
    BY <1>2
  <1> QED
    BY <1>1, <1>2, <1>3 DEF Taken, NoSession

\* Dropping some ids keeps the books.
LEMMA DropKeeps ==
  ASSUME SessionCore, NEW ids \in SUBSET Taken, Drop(ids), clock' = clock
  PROVE  /\ SessionCore'
         /\ DOMAIN session' = DOMAIN session
         /\ \A o \in DOMAIN session : session'[o].id = session[o].id
  <1> DEFINE gone == {sessionOf[id] : id \in ids}
             n == Len(session)
             mark(o) == session[o].active /\ o \notin gone
  <1>1. /\ session' = [o \in DOMAIN session |-> [session[o] EXCEPT !.active = mark(o)]]
        /\ sessionOf' = [id \in SessionIds |-> IF id \in ids THEN NoSession ELSE sessionOf[id]]
        /\ gauge' = gauge - Cardinality(ids)
    BY DEF Drop
  <1>2. /\ clock \in Nat /\ session \in Seq(SessionRecs)
        /\ n \in Nat /\ DOMAIN session = 1 .. n
        /\ sessionOf \in [SessionIds -> 0 .. n]
        /\ \A o \in DOMAIN session : session[o] \in SessionRecs
        /\ \A id \in Taken : id \in SessionIds /\ sessionOf[id] \in DOMAIN session
        /\ \A id \in SessionIds \ Taken : sessionOf[id] = NoSession
        /\ IsFiniteSet(Taken)
    BY CoreFacts DEF SessionCore
  <1>3. \A o \in DOMAIN session : mark(o) \in Marks
    BY DEF Marks
  <1>4. /\ \A id \in SessionIds : sessionOf[id] # NoSession => session[sessionOf[id]].id = id
        /\ gauge = Cardinality(Taken)
        /\ \A o \in DOMAIN session : session[o].active <=> o \in Held
        /\ \A o \in DOMAIN session : WellKept(session[o])
    BY DEF SessionCore
  <1>5. \A o \in DOMAIN session : mark(o) <=> session[o].active /\ o \notin gone
    OBVIOUS
  <1>6. \A o \in DOMAIN session : o \in gone <=> \E id \in ids : sessionOf[id] = o
    OBVIOUS
  <1> HIDE DEF mark, gone
  <1>7. ASSUME NEW o \in DOMAIN session
        PROVE  session'[o] \in SessionRecs /\ session'[o].active = mark(o) /\ SameTalk(session'[o], session[o])
    <2> DEFINE b == mark(o)
    <2>1. session'[o] = [session[o] EXCEPT !.active = b] /\ session[o] \in SessionRecs /\ b \in Marks
      BY <1>1, <1>2, <1>3
    <2> HIDE DEF b
    <2> DEFINE q == session'[o]
    <2>2. q = [session[o] EXCEPT !.active = b]
      BY <2>1
    <2> HIDE DEF q
    <2>3. q \in SessionRecs /\ q.active = b /\ SameTalk(q, session[o])
      BY <2>1, <2>2, MarkedIsSame
    <2> QED
      BY <2>3 DEF q, b
  <1>8. session' \in Seq(SessionRecs) /\ Len(session') = n /\ DOMAIN session' = 1 .. n
    <2>1. DOMAIN session' = 1 .. n /\ session' = [o \in 1 .. n |-> session'[o]]
      BY <1>1, <1>2
    <2>2. \A o \in 1 .. n : session'[o] \in SessionRecs
      BY <1>2, <1>7
    <2> DEFINE R == SessionRecs
               z == session'
    <2> HIDE DEF n, R, z
    <2>3. z = [o \in 1 .. n |-> z[o]] /\ \A o \in 1 .. n : z[o] \in R
      BY <2>1, <2>2 DEF z, R
    <2>4. z \in [1 .. n -> R]
      BY <2>3
    <2>5. z \in Seq(R) /\ Len(z) = n
      BY <1>2, <2>4
    <2> QED
      BY <2>1, <2>5 DEF z, R
  <1>9. sessionOf' \in [SessionIds -> 0 .. n]
    BY <1>1, <1>2 DEF NoSession
  <1>10. SessionTyped'
    BY <1>2, <1>8, <1>9 DEF SessionTyped
  <1>11. Taken' = Taken \ ids
    BY <1>1 DEF Taken
  <1>12. gauge' = Cardinality(Taken')
    <2>1. IsFiniteSet(ids) /\ Taken \intersect ids = ids
      BY <1>2, FS_Subset
    <2>2. Cardinality(Taken \ ids) = Cardinality(Taken) - Cardinality(Taken \intersect ids)
      BY <1>2, FS_Difference
    <2> QED
      BY <1>1, <1>4, <1>11, <2>1, <2>2
  <1>13. \A o \in DOMAIN session : session'[o].id = session[o].id
    BY <1>7 DEF SameTalk
  <1>14. ASSUME NEW id \in SessionIds, sessionOf'[id] # NoSession
         PROVE  session'[sessionOf'[id]].id = id
    <2>1. id \notin ids /\ sessionOf'[id] = sessionOf[id]
      BY <1>1, <1>14
    <2>2. sessionOf[id] \in DOMAIN session
      BY <1>2, <1>14, <2>1
    <2> QED
      BY <1>4, <1>13, <1>14, <2>1, <2>2
  <1>15. ASSUME NEW o \in DOMAIN session PROVE session'[o].active <=> o \in Held'
    <2>0. o \in DOMAIN session' /\ o # NoSession
      BY <1>2, <1>8 DEF NoSession
    <2>1. o \in Held' <=> \E id \in SessionIds : sessionOf'[id] = o
      BY <2>0 DEF Held
    <2>2. o \in Held <=> \E id \in SessionIds : sessionOf[id] = o
      BY DEF Held
    <2>3. (\E id \in SessionIds : sessionOf'[id] = o) <=> (\E id \in SessionIds \ ids : sessionOf[id] = o)
      BY <1>1, <2>0
    <2>4. \A k, l \in SessionIds : sessionOf[k] = o /\ sessionOf[l] = o => k = l
      BY <1>4, <2>0
    <2>5. (\E id \in SessionIds \ ids : sessionOf[id] = o) <=> (o \in Held /\ o \notin gone)
      BY <1>2, <1>6, <2>2, <2>4
    <2>6. session'[o].active = mark(o)
      BY <1>7
    <2>7. mark(o) <=> o \in Held /\ o \notin gone
      BY <1>4, <1>5
    <2> QED
      BY <2>1, <2>3, <2>5, <2>6, <2>7, Zenon
  <1>16. ASSUME NEW o \in DOMAIN session PROVE WellKept(session'[o])
    BY <1>4, <1>7, SameIsWellKept
  <1>17. SessionCore'
    BY <1>2, <1>8, <1>10, <1>12, <1>14, <1>15, <1>16 DEF SessionCore
  <1> QED
    BY <1>2, <1>8, <1>13, <1>17

\* A new session is well kept and active.
LEMMA NewIsWellKept ==
  ASSUME clock \in Nat, NEW id \in SessionIds
  PROVE  /\ NewSession(id) \in SessionRecs /\ NewSession(id).id = id
         /\ WellKept(NewSession(id)) /\ NewSession(id).active
  <1> DEFINE mark == TRUE
             s == [id |-> id, active |-> mark, last |-> clock, history |-> <<>>, total |-> 0,
                   language |-> "None", metadata |-> <<>>]
  <1>1. mark \in Marks
    BY DEF Marks
  <1>2. mark
    OBVIOUS
  <1>3. NewSession(id) = s
    BY DEF NewSession
  <1> HIDE DEF mark
  <1>4. /\ s.id = id /\ s.active = mark /\ s.history = <<>> /\ s.total = 0 /\ s.metadata = <<>>
    OBVIOUS
  <1>5. s \in SessionRecs
    BY <1>1 DEF SessionRecs
  <1> HIDE DEF s
  <1>6. WellKept(s)
    <2>1. Min({0, MaxHistory}) = 0 /\ MaxHistory \in Nat
      BY SessionAssumption, LessOfTwo
    <2> QED
      BY <1>4, <2>1 DEF WellKept
  <1> QED
    BY <1>2, <1>3, <1>4, <1>5, <1>6

\* A new session under an id, in place of the object o it was under, if any.
LEMMA CreateKeeps ==
  ASSUME SessionCore, NEW id \in SessionIds, clock' = clock,
         NEW o, o = sessionOf[id],
         session' \in Seq(SessionRecs), Len(session') = Len(session) + 1,
         \A i \in DOMAIN session : /\ SameTalk(session'[i], session[i])
                                   /\ session'[i].active <=> session[i].active /\ i # o,
         session'[Len(session) + 1] = NewSession(id),
         sessionOf' = [sessionOf EXCEPT ![id] = Len(session) + 1],
         gauge' = IF o = NoSession THEN gauge + 1 ELSE gauge
  PROVE  SessionCore'
  <1> DEFINE n == Len(session)
  <1>1. /\ clock \in Nat /\ session \in Seq(SessionRecs)
        /\ n \in Nat /\ DOMAIN session = 1 .. n
        /\ sessionOf \in [SessionIds -> 0 .. n]
        /\ \A i \in DOMAIN session : session[i] \in SessionRecs
        /\ \A k \in Taken : k \in SessionIds /\ sessionOf[k] \in DOMAIN session
        /\ \A k \in SessionIds \ Taken : sessionOf[k] = NoSession
        /\ IsFiniteSet(Taken)
    BY CoreFacts DEF SessionCore
  <1>2. /\ \A k \in SessionIds : sessionOf[k] # NoSession => session[sessionOf[k]].id = k
        /\ gauge = Cardinality(Taken)
        /\ \A i \in DOMAIN session : session[i].active <=> i \in Held
        /\ \A i \in DOMAIN session : WellKept(session[i])
    BY DEF SessionCore
  <1>3. /\ session' \in Seq(SessionRecs) /\ Len(session') = n + 1
        /\ \A i \in DOMAIN session : /\ SameTalk(session'[i], session[i])
                                     /\ session'[i].active <=> session[i].active /\ i # o
        /\ session'[n + 1] = NewSession(id)
    OBVIOUS
  <1>4. /\ sessionOf'[id] = n + 1
        /\ \A k \in SessionIds : k # id => sessionOf'[k] = sessionOf[k]
    BY <1>1
  <1>5. NewSession(id).id = id /\ WellKept(NewSession(id)) /\ NewSession(id).active
    BY <1>1, NewIsWellKept
  <1>6. sessionOf' \in [SessionIds -> 0 .. n + 1]
    BY <1>1
  <1>7. DOMAIN session' = 1 .. n + 1 /\ n + 1 # NoSession /\ n + 1 \notin 1 .. n
        /\ \A i \in 1 .. n + 1 : i = n + 1 \/ i \in 1 .. n
    BY <1>1, <1>3 DEF NoSession
  <1> HIDE DEF n
  <1>8. SessionTyped'
    BY <1>1, <1>3, <1>6 DEF SessionTyped
  <1>9. gauge' = Cardinality(Taken')
    <2>1. Taken' = Taken \union {id}
      BY <1>4, <1>7 DEF Taken
    <2>2. Cardinality(Taken \union {id}) = IF id \in Taken THEN Cardinality(Taken) ELSE Cardinality(Taken) + 1
      BY <1>1, FS_AddElement
    <2>3. id \in Taken <=> o # NoSession
      BY DEF Taken
    <2> QED
      BY <1>2, <2>1, <2>2, <2>3
  <1>10. ASSUME NEW k \in SessionIds, sessionOf'[k] # NoSession
         PROVE  session'[sessionOf'[k]].id = k
    <2>1. CASE k = id
      BY <1>3, <1>4, <1>5, <2>1
    <2>2. CASE k # id
      <3>1. sessionOf'[k] = sessionOf[k] /\ sessionOf[k] # NoSession
        BY <1>4, <1>10, <2>2
      <3>2. sessionOf[k] \in DOMAIN session
        BY <1>1, <3>1
      <3>3. session'[sessionOf[k]].id = session[sessionOf[k]].id
        BY <1>3, <3>2 DEF SameTalk
      <3> QED
        BY <1>2, <3>1, <3>3
    <2> QED
      BY <2>1, <2>2
  <1>11. ASSUME NEW i \in DOMAIN session' PROVE session'[i].active <=> i \in Held'
    <2>1. i \in Held' <=> \E k \in SessionIds : sessionOf'[k] = i
      BY DEF Held
    <2>2. CASE i = n + 1
      <3>1. i \in Held'
        BY <1>4, <2>1, <2>2
      <3>2. session'[i].active
        BY <1>3, <1>5, <2>2
      <3> QED
        BY <3>1, <3>2
    <2>3. CASE i \in 1 .. n
      <3>0. i \in DOMAIN session /\ i # n + 1 /\ i # NoSession
        BY <1>1, <1>7, <2>3 DEF NoSession
      <3>1. (\E k \in SessionIds : sessionOf'[k] = i) <=> (\E k \in SessionIds \ {id} : sessionOf[k] = i)
        BY <1>4, <3>0
      <3>2. i \in Held <=> \E k \in SessionIds : sessionOf[k] = i
        BY <3>0 DEF Held
      <3>3. \A k, l \in SessionIds : sessionOf[k] = i /\ sessionOf[l] = i => k = l
        BY <1>2, <3>0
      <3>4. (\E k \in SessionIds \ {id} : sessionOf[k] = i) <=> (i \in Held /\ i # o)
        BY <3>2, <3>3
      <3>5. session'[i].active <=> session[i].active /\ i # o
        BY <1>3, <3>0
      <3>6. session[i].active <=> i \in Held
        BY <1>2, <3>0
      <3> QED
        BY <2>1, <3>1, <3>4, <3>5, <3>6, Zenon
    <2> QED
      BY <1>7, <2>2, <2>3
  <1>12. ASSUME NEW i \in DOMAIN session' PROVE WellKept(session'[i])
    <2>1. CASE i = n + 1
      BY <1>3, <1>5, <2>1
    <2>2. CASE i \in 1 .. n
      <3>1. SameTalk(session'[i], session[i]) /\ WellKept(session[i])
        BY <1>1, <1>2, <1>3, <2>2
      <3> DEFINE q == session'[i]
                 s == session[i]
      <3> HIDE DEF q, s
      <3>2. WellKept(q)
        BY <3>1, SameIsWellKept DEF q, s
      <3> QED
        BY <3>2 DEF q
    <2> QED
      BY <1>7, <2>1, <2>2
  <1> QED
    BY <1>8, <1>9, <1>10, <1>11, <1>12 DEF SessionCore

\* What is said in one session is kept in its window and touches no other.
LEMMA TalkKeeps ==
  ASSUME SessionCore, NEW o \in DOMAIN session, clock' = clock,
         UNCHANGED <<sessionOf, gauge>>,
         session' \in Seq(SessionRecs), Len(session') = Len(session),
         \A i \in DOMAIN session : i # o => session'[i] = session[i],
         session'[o].id = session[o].id, session'[o].active = session[o].active,
         WellKept(session'[o])
  PROVE  SessionCore'
  <1>1. /\ clock \in Nat /\ session \in Seq(SessionRecs)
        /\ Len(session) \in Nat /\ DOMAIN session = 1 .. Len(session)
        /\ sessionOf \in [SessionIds -> 0 .. Len(session)]
        /\ \A k \in Taken : k \in SessionIds /\ sessionOf[k] \in DOMAIN session
        /\ \A k \in SessionIds \ Taken : sessionOf[k] = NoSession
    BY CoreFacts DEF SessionCore
  <1>2. /\ \A k \in SessionIds : sessionOf[k] # NoSession => session[sessionOf[k]].id = k
        /\ gauge = Cardinality(Taken)
        /\ \A i \in DOMAIN session : session[i].active <=> i \in Held
        /\ \A i \in DOMAIN session : WellKept(session[i])
    BY DEF SessionCore
  <1>3. DOMAIN session' = DOMAIN session
    BY <1>1
  <1>4. sessionOf' = sessionOf /\ gauge' = gauge
    OBVIOUS
  <1>5. SessionTyped'
    BY <1>1, <1>4 DEF SessionTyped
  <1>6. Taken' = Taken /\ Held' = Held
    BY <1>3, <1>4 DEF Taken, Held
  <1>7. \A i \in DOMAIN session : session'[i].id = session[i].id /\ session'[i].active = session[i].active
    OBVIOUS
  <1>8. \A k \in SessionIds : sessionOf'[k] # NoSession => session'[sessionOf'[k]].id = k
    BY <1>1, <1>2, <1>4, <1>7
  <1>9. \A i \in DOMAIN session' : WellKept(session'[i])
    BY <1>2, <1>3
  <1>10. \A i \in DOMAIN session' : session'[i].active <=> i \in Held'
    BY <1>2, <1>3, <1>6, <1>7
  <1> QED
    BY <1>2, <1>4, <1>5, <1>6, <1>8, <1>9, <1>10 DEF SessionCore

\* The session q is s with other turns.
Talked(q, s, k, w, said) ==
  /\ q \in SessionRecs
  /\ q.id = s.id /\ q.active = s.active /\ q.total = k /\ q.history = w
  /\ q.language = said /\ q.metadata = s.metadata

\* What a turn changes of a session, field by field.
LEMMA TalkedIsKept ==
  ASSUME NEW s \in SessionRecs, NEW k \in Nat, NEW last \in Nat, NEW w \in Seq(TurnRecs),
         NEW said \in {"None", "hi"}, NEW q,
         q = [s EXCEPT !.total = k, !.last = last, !.history = w, !.language = said]
  PROVE  Talked(q, s, k, w, said)
  <1> DEFINE a == [s EXCEPT !.total = k]
             b == [a EXCEPT !.last = last]
             c == [b EXCEPT !.history = w]
             d == [c EXCEPT !.language = said]
  <1>1. a \in SessionRecs /\ a.total = k /\ a.id = s.id /\ a.active = s.active /\ a.metadata = s.metadata
    BY DEF SessionRecs
  <1>2. q = d
    OBVIOUS
  <1> HIDE DEF a
  <1>3. b \in SessionRecs /\ b.total = k /\ b.id = s.id /\ b.active = s.active /\ b.metadata = s.metadata
    BY <1>1 DEF SessionRecs
  <1> HIDE DEF b
  <1>4. /\ c \in SessionRecs /\ c.total = k /\ c.id = s.id /\ c.active = s.active
        /\ c.metadata = s.metadata /\ c.history = w
    BY <1>3 DEF SessionRecs
  <1> HIDE DEF c
  <1>5. /\ d \in SessionRecs /\ d.total = k /\ d.id = s.id /\ d.active = s.active
        /\ d.metadata = s.metadata /\ d.history = w /\ d.language = said
    BY <1>4 DEF SessionRecs
  <1> QED
    BY <1>2, <1>5 DEF Talked

\* A turn is added to its session only.
LEMMA AddTurnKeeps ==
  ASSUME SessionCore, NEW o \in DOMAIN session, NEW role \in {"user", "assistant"},
         AddTurn(o, role, "hi")
  PROVE  /\ SessionCore' /\ DOMAIN session' = DOMAIN session
         /\ \A i \in DOMAIN session : session'[i].id = session[i].id
  <1> DEFINE s == session[o]
             t == s.total
             r == [role |-> role, n |-> t + 1]
             w == Window(Append(s.history, r), MaxHistory)
             said == IF role = "user" THEN "hi" ELSE s.language
             q == [s EXCEPT !.total = t + 1, !.last = clock, !.history = w, !.language = said]
  <1>1. /\ session' = [session EXCEPT ![o] = q]
        /\ UNCHANGED <<clock, sessionOf, gauge, given>>
    BY DEF AddTurn
  <1>2. /\ session \in Seq(SessionRecs) /\ Len(session) \in Nat /\ clock \in Nat
        /\ s \in SessionRecs
        /\ WellKept(s)
    BY CoreFacts DEF SessionCore
  <1>3. /\ t \in Nat /\ s.history \in Seq(TurnRecs) /\ s.language \in {"None", "hi"}
        /\ s.metadata \in Seq(Nat)
    BY <1>2 DEF SessionRecs
  <1>4. /\ Len(s.history) = Min({t, MaxHistory})
        /\ \A i \in DOMAIN s.history : s.history[i].n = t - Len(s.history) + i
        /\ (s.language = "None") => \A i \in DOMAIN s.history : s.history[i].role # "user"
        /\ Len(s.metadata) <= MaxHistory
    BY <1>2 DEF WellKept
  <1> HIDE DEF s, t
  <1>5. /\ w \in Seq(TurnRecs)
        /\ Len(w) = Min({t + 1, MaxHistory})
        /\ \A i \in DOMAIN w : w[i].n = t + 1 - Len(w) + i
        /\ (role # "user" /\ \A i \in DOMAIN s.history : s.history[i].role # "user")
               => \A i \in DOMAIN w : w[i].role # "user"
    <2> DEFINE h == s.history
               v == w
    <2>1. h \in Seq(TurnRecs) /\ Len(h) = Min({t, MaxHistory})
          /\ \A i \in DOMAIN h : h[i].n = t - Len(h) + i
      BY <1>3, <1>4
    <2>2. v = Window(Append(h, [role |-> role, n |-> t + 1]), MaxHistory)
      OBVIOUS
    <2> HIDE DEF h, v
    <2>3. TurnAdded(h, t, role, v)
      BY <1>3, <2>1, <2>2, HistoryGrows
    <2> QED
      BY <2>3 DEF h, v, TurnAdded
  <1>6. said \in {"None", "hi"} /\ (said = "None" => role # "user" /\ s.language = "None")
    BY <1>3
  <1> HIDE DEF w, said
  <1>7. /\ q \in SessionRecs
        /\ q.id = s.id /\ q.active = s.active /\ q.total = t + 1 /\ q.history = w
        /\ q.language = said /\ q.metadata = s.metadata
    <2> DEFINE k == t + 1
    <2>1. k \in Nat
      BY <1>3
    <2> HIDE DEF k
    <2>2. q = [s EXCEPT !.total = k, !.last = clock, !.history = w, !.language = said]
      BY SMTT(30) DEF k
    <2> HIDE DEF q
    <2>3. Talked(q, s, k, w, said)
      BY <1>2, <1>5, <1>6, <2>1, <2>2, TalkedIsKept
    <2> QED
      BY <2>3 DEF k, Talked
  <1> HIDE DEF q
  <1>8. WellKept(q)
    <2>1. (q.language = "None") => \A i \in DOMAIN w : w[i].role # "user"
      BY <1>4, <1>5, <1>6, <1>7
    <2> QED
      <3>1. Len(q.history) = Min({q.total, MaxHistory})
        BY <1>5, <1>7
      <3>4. \A i \in DOMAIN q.history : q.history[i].n = q.total - Len(q.history) + i
        <4>1. q.history = w /\ q.total = t + 1
          BY <1>7
        <4> DEFINE k == t + 1
                   p == q.history
                   v == q.total
        <4>2. \A i \in DOMAIN w : w[i].n = k - Len(w) + i
          <5>1. Len(w) \in Nat /\ DOMAIN w = 1 .. Len(w)
            BY <1>5
          <5>2. \A i \in DOMAIN w : w[i].n = t + 1 - Len(w) + i
            BY <1>5, Zenon
          <5>3. \A i \in DOMAIN w : t + 1 - Len(w) + i = k - Len(w) + i
            BY <1>3, <5>1
          <5> HIDE DEF k
          <5> QED
            BY <5>2, <5>3
        <4>3. p = w /\ v = k
          BY <4>1
        <4> HIDE DEF k, p, v
        <4>4. \A i \in DOMAIN p : p[i].n = v - Len(p) + i
          BY <4>2, <4>3
        <4> QED
          BY <4>4 DEF p, v
      <3>2. (q.language = "None") => \A i \in DOMAIN q.history : q.history[i].role # "user"
        BY <1>7, <2>1
      <3>3. Len(q.metadata) <= MaxHistory
        BY <1>4, <1>7
      <3> QED
        BY <3>1, <3>2, <3>3, <3>4 DEF WellKept
  <1>9. /\ session' \in Seq(SessionRecs) /\ Len(session') = Len(session)
        /\ DOMAIN session' = DOMAIN session
        /\ \A i \in DOMAIN session : i # o => session'[i] = session[i]
        /\ session'[o] = q
    BY <1>1, <1>2, <1>7
  <1>10. session'[o].id = session[o].id /\ session'[o].active = session[o].active /\ WellKept(session'[o])
    BY <1>7, <1>8, <1>9 DEF s
  <1>11. SessionCore'
    BY <1>1, <1>9, <1>10, TalkKeeps
  <1> QED
    BY <1>9, <1>10, <1>11

\* So is what is known of a turn.
LEMMA AddMetadataKeeps ==
  ASSUME SessionCore, NEW o \in DOMAIN session, AddTurnMetadata(o)
  PROVE  /\ SessionCore' /\ DOMAIN session' = DOMAIN session
         /\ \A i \in DOMAIN session : session'[i].id = session[i].id
  <1> DEFINE s == session[o]
             w == Window(Append(s.metadata, s.total), MaxHistory)
             q == [s EXCEPT !.metadata = w]
  <1>1. /\ session' = [session EXCEPT ![o] = q]
        /\ UNCHANGED <<clock, sessionOf, gauge, given>>
    BY DEF AddTurnMetadata
  <1>2. /\ session \in Seq(SessionRecs) /\ Len(session) \in Nat /\ clock \in Nat
        /\ s \in SessionRecs
        /\ WellKept(s)
    BY CoreFacts DEF SessionCore
  <1>3. s.total \in Nat /\ s.metadata \in Seq(Nat) /\ MaxHistory \in Nat \ {0}
    BY <1>2, SessionAssumption DEF SessionRecs
  <1>4. Len(s.metadata) <= MaxHistory
    BY <1>2 DEF WellKept
  <1> HIDE DEF s
  <1>5. w \in Seq(Nat) /\ Len(w) <= MaxHistory
    <2> DEFINE h == s.metadata
               r == s.total
               v == w
               m == MaxHistory
    <2>1. h \in Seq(Nat) /\ r \in Nat /\ m \in Nat \ {0} /\ Len(h) <= m /\ v = Window(Append(h, r), m)
      BY <1>3, <1>4
    <2> HIDE DEF h, r, v, m
    <2>2. Slid(Nat, h, r, m, v)
      BY <2>1, WindowGrows
    <2>3. v \in Seq(Nat) /\ (Len(h) = m => Len(v) = m) /\ (Len(h) # m => Len(v) = Len(h) + 1)
      BY <2>2 DEF Slid
    <2>4. Len(h) \in Nat
      BY <2>1
    <2>5. Len(v) <= m
      BY <2>1, <2>3, <2>4
    <2> QED
      BY <2>3, <2>5 DEF v, m
  <1> HIDE DEF w
  <1>6. /\ q \in SessionRecs
        /\ q.id = s.id /\ q.active = s.active /\ q.total = s.total /\ q.history = s.history
        /\ q.language = s.language /\ q.metadata = w
    BY <1>2, <1>5 DEF SessionRecs
  <1> HIDE DEF q
  <1>7. WellKept(q)
    BY <1>2, <1>5, <1>6 DEF WellKept
  <1>8. /\ session' \in Seq(SessionRecs) /\ Len(session') = Len(session)
        /\ DOMAIN session' = DOMAIN session
        /\ \A i \in DOMAIN session : i # o => session'[i] = session[i]
        /\ session'[o] = q
    BY <1>1, <1>2, <1>6
  <1>9. session'[o].id = session[o].id /\ session'[o].active = session[o].active /\ WellKept(session'[o])
    BY <1>6, <1>7, <1>8 DEF s
  <1>10. SessionCore'
    BY <1>1, <1>8, <1>9, TalkKeeps
  <1> QED
    BY <1>8, <1>9, <1>10

\* Nothing the manager keeps changes.
LEMMA RestKeeps ==
  ASSUME SessionCore, UNCHANGED <<sessionOf, session, gauge>>, clock' \in Nat
  PROVE  SessionCore'
  <1>1. sessionOf' = sessionOf /\ session' = session /\ gauge' = gauge
    OBVIOUS
  <1>2. Taken' = Taken /\ Held' = Held
    BY <1>1 DEF Taken, Held
  <1>3. SessionTyped'
    BY <1>1 DEF SessionCore, SessionTyped
  <1> QED
    BY <1>1, <1>2, <1>3 DEF SessionCore

\* What was given out stays a session of its own id.
LEMMA GivenStays ==
  ASSUME GivenIsOwn, given' = given, DOMAIN session' = DOMAIN session,
         \A i \in DOMAIN session : session'[i].id = session[i].id
  PROVE  GivenIsOwn'
  BY DEF GivenIsOwn

\* Asking for a session drops it if it has expired, and gives it if not.
LEMMA GetKeeps ==
  ASSUME SessionCore, NEW id \in SessionIds, GetSession(id)
  PROVE  SessionCore' /\ GivenIsOwn'
  <1> DEFINE o == sessionOf[id]
  <1>1. /\ IF o # NoSession /\ IsExpired(o) THEN Drop({id})
           ELSE UNCHANGED <<sessionOf, session, gauge>>
        /\ given' = [id |-> id, object |-> IF o # NoSession /\ ~IsExpired(o) THEN o ELSE NoSession]
        /\ clock' = clock
    BY DEF GetSession
  <1>2. clock \in Nat /\ (o # NoSession => o \in DOMAIN session)
    BY CoreFacts DEF SessionCore, Taken
  <1>3. o # NoSession => session[o].id = id
    BY DEF SessionCore
  <1>4. o # NoSession => {id} \in SUBSET Taken
    BY DEF Taken
  <1> HIDE DEF o
  <1>5. given'.object = (IF o # NoSession /\ ~IsExpired(o) THEN o ELSE NoSession) /\ given'.id = id
    BY <1>1
  <1>6. CASE o # NoSession /\ IsExpired(o)
    <2>1. SessionCore'
      BY <1>1, <1>4, <1>6, DropKeeps
    <2>2. given'.object = NoSession
      BY <1>5, <1>6
    <2> QED
      BY <2>1, <2>2 DEF GivenIsOwn
  <1>7. CASE ~(o # NoSession /\ IsExpired(o))
    <2>1. UNCHANGED <<sessionOf, session, gauge>>
      BY <1>1, <1>7
    <2>2. SessionCore'
      BY <1>1, <1>2, <2>1, RestKeeps
    <2>3. given'.object = o
      BY <1>5, <1>7
    <2> QED
      BY <1>2, <1>3, <1>5, <2>1, <2>2, <2>3 DEF GivenIsOwn
  <1> QED
    BY <1>6, <1>7

\* A session is created under an id that has none.
LEMMA CreateSessionKeeps ==
  ASSUME SessionCore, GivenIsOwn, NEW id \in SessionIds, sessionOf[id] = NoSession,
         CreateSession(id), UNCHANGED <<clock, given>>
  PROVE  SessionCore' /\ GivenIsOwn'
  <1> DEFINE n == Len(session)
  <1>1. /\ session' = Append(session, NewSession(id))
        /\ sessionOf' = [sessionOf EXCEPT ![id] = n + 1]
        /\ gauge' = gauge + 1 /\ clock' = clock /\ given' = given
    BY DEF CreateSession
  <1>2. /\ clock \in Nat /\ session \in Seq(SessionRecs) /\ n \in Nat /\ DOMAIN session = 1 .. n
        /\ NoSession \notin DOMAIN session
    BY CoreFacts DEF SessionCore
  <1>3. NewSession(id) \in SessionRecs
    BY <1>2, NewIsWellKept
  <1> DEFINE s == NewSession(id)
  <1> HIDE DEF s
  <1>4. /\ session' \in Seq(SessionRecs) /\ Len(session') = n + 1
        /\ DOMAIN session' = 1 .. n + 1
        /\ \A i \in DOMAIN session : session'[i] = session[i]
        /\ session'[n + 1] = s
    BY <1>1, <1>2, <1>3 DEF s
  <1>5. \A i \in DOMAIN session : /\ SameTalk(session'[i], session[i])
                                  /\ session'[i].active <=> session[i].active /\ i # sessionOf[id]
    BY <1>2, <1>4 DEF SameTalk
  <1>6. SessionCore'
    BY <1>1, <1>4, <1>5, CreateKeeps DEF s
  <1>7. GivenIsOwn'
    <2>1. DOMAIN session \in SUBSET DOMAIN session'
      BY <1>2, <1>4
    <2> QED
      BY <1>1, <1>4, <2>1 DEF GivenIsOwn
  <1> QED
    BY <1>6, <1>7

\* An expired session is replaced by a new one under its id.
LEMMA GetOrCreateKeeps ==
  ASSUME SessionCore, NEW id \in SessionIds, GetOrCreateSession(id)
  PROVE  SessionCore' /\ GivenIsOwn'
  <1> DEFINE o == sessionOf[id]
             n == Len(session)
             fresh == o # NoSession /\ ~IsExpired(o)
             mark(i) == session[i].active /\ i # o
             base == [i \in DOMAIN session |-> [session[i] EXCEPT !.active = mark(i)]]
  <1>1. /\ IF fresh THEN UNCHANGED <<sessionOf, session, gauge>>
           ELSE /\ session' = Append(base, NewSession(id))
                /\ sessionOf' = [sessionOf EXCEPT ![id] = n + 1]
                /\ gauge' = IF o = NoSession THEN gauge + 1 ELSE gauge
        /\ given' = [id |-> id, object |-> sessionOf'[id]]
        /\ clock' = clock
    BY DEF GetOrCreateSession
  <1>2. /\ clock \in Nat /\ session \in Seq(SessionRecs) /\ n \in Nat /\ DOMAIN session = 1 .. n
        /\ NoSession \notin DOMAIN session /\ (o # NoSession => o \in DOMAIN session)
        /\ \A i \in DOMAIN session : session[i] \in SessionRecs
        /\ sessionOf \in [SessionIds -> 0 .. n]
    BY CoreFacts DEF SessionCore, Taken
  <1>3. o # NoSession => session[o].id = id
    BY DEF SessionCore
  <1>4. given'.id = id /\ given'.object = sessionOf'[id]
    BY <1>1
  <1>5. CASE fresh
    <2>1. UNCHANGED <<sessionOf, session, gauge>>
      BY <1>1, <1>5, SMTT(30)
    <2>2. SessionCore'
      BY <1>1, <1>2, <2>1, RestKeeps
    <2>3. given'.object = o
      BY <1>4, <2>1
    <2> QED
      BY <1>2, <1>3, <1>4, <2>1, <2>2, <2>3 DEF GivenIsOwn
  <1>6. CASE ~fresh
    <2>1. /\ session' = Append(base, NewSession(id))
          /\ sessionOf' = [sessionOf EXCEPT ![id] = n + 1]
          /\ gauge' = IF o = NoSession THEN gauge + 1 ELSE gauge
      BY <1>1, <1>6
    <2>2. NewSession(id) \in SessionRecs /\ NewSession(id).id = id
      BY <1>2, NewIsWellKept
    <2> DEFINE s == NewSession(id)
    <2> HIDE DEF s, fresh
    <2>3. \A i \in DOMAIN session : mark(i) \in Marks
      BY DEF Marks
    <2>4. \A i \in DOMAIN session : mark(i) <=> session[i].active /\ i # o
      OBVIOUS
    <2> HIDE DEF mark
    <2>5. ASSUME NEW i \in DOMAIN session
          PROVE  base[i] \in SessionRecs /\ base[i].active = mark(i) /\ SameTalk(base[i], session[i])
      <3> DEFINE b == mark(i)
                 q == base[i]
      <3>1. q = [session[i] EXCEPT !.active = b] /\ session[i] \in SessionRecs /\ b \in Marks
        BY <1>2, <2>3
      <3> HIDE DEF b, q
      <3>2. q \in SessionRecs /\ q.active = b /\ SameTalk(q, session[i])
        BY <3>1, MarkedIsSame
      <3> QED
        BY <3>2 DEF q, b
    <2>6. base \in Seq(SessionRecs) /\ Len(base) = n
      <3> DEFINE R == SessionRecs
                 z == base
      <3>1. DOMAIN z = 1 .. n /\ z = [i \in 1 .. n |-> z[i]] /\ \A i \in 1 .. n : z[i] \in R
        BY <1>2, <2>5
      <3> HIDE DEF n, R, z
      <3>2. z \in [1 .. n -> R]
        BY <3>1
      <3>3. z \in Seq(R) /\ Len(z) = n
        BY <1>2, <3>2
      <3> QED
        BY <3>3 DEF z, R
    <2> DEFINE z == base
    <2>7. /\ z \in Seq(SessionRecs) /\ Len(z) = n /\ session' = Append(z, s)
          /\ \A i \in DOMAIN session : z[i].active = mark(i) /\ SameTalk(z[i], session[i])
      BY <2>1, <2>5, <2>6 DEF s
    <2> HIDE DEF z
    <2>8. /\ session' \in Seq(SessionRecs) /\ Len(session') = n + 1
          /\ DOMAIN session' = 1 .. n + 1
          /\ \A i \in 1 .. n : session'[i] = z[i]
          /\ session'[n + 1] = s
      BY <1>2, <2>2, <2>7 DEF s
    <2>9. \A i \in DOMAIN session : /\ SameTalk(session'[i], session[i])
                                    /\ session'[i].active <=> session[i].active /\ i # o
      BY <1>2, <2>4, <2>7, <2>8
    <2>10. SessionCore'
      <3> HIDE DEF o
      <3>1. /\ sessionOf' = [sessionOf EXCEPT ![id] = Len(session) + 1]
            /\ gauge' = IF o = NoSession THEN gauge + 1 ELSE gauge
            /\ o = sessionOf[id] /\ clock' = clock
        BY <1>1, <2>1 DEF o
      <3>2. /\ session' \in Seq(SessionRecs) /\ Len(session') = Len(session) + 1
            /\ session'[Len(session) + 1] = NewSession(id)
        BY <2>8 DEF s
      <3> QED
        BY <2>9, <3>1, <3>2, CreateKeeps
    <2>11. given'.object = n + 1
      BY <1>2, <1>4, <2>1
    <2>12. n + 1 \in DOMAIN session' /\ session'[n + 1].id = id
      BY <1>2, <2>2, <2>8 DEF s
    <2> QED
      BY <1>4, <2>10, <2>11, <2>12 DEF GivenIsOwn
  <1> QED
    BY <1>5, <1>6

\* The manager's books are kept by every operation, in every order.
LEMMA SessionInvariance ==
  /\ SessionInit => SessionInv
  /\ SessionInv /\ SessionNext => SessionInv'
  /\ SessionInv /\ UNCHANGED sessionVars => SessionInv'
  /\ SessionInv => SessionsAreKept
  <1>1. ASSUME SessionInit PROVE SessionInv
    <2>1. /\ clock = 0 /\ sessionOf = [id \in SessionIds |-> NoSession] /\ session = <<>> /\ gauge = 0
          /\ given = [id |-> "none", object |-> NoSession]
      BY <1>1 DEF SessionInit
    <2>2. <<>> \in Seq(SessionRecs) /\ Len(<<>>) = 0 /\ DOMAIN <<>> = {}
      OBVIOUS
    <2>3. SessionTyped
      BY <2>1, <2>2 DEF SessionTyped, NoSession
    <2>4. Taken = {} /\ Cardinality({}) = 0
      BY <2>1, FS_EmptySet DEF Taken
    <2>5. given.object = NoSession
      BY <2>1
    <2>6. \A id \in SessionIds : sessionOf[id] = NoSession
      BY <2>1
    <2> QED
      BY <2>1, <2>2, <2>3, <2>4, <2>5, <2>6 DEF SessionInv, SessionCore, GivenIsOwn
  <1>2. ASSUME SessionInv, SessionNext PROVE SessionInv'
    <2>0. SessionCore /\ GivenIsOwn /\ clock \in Nat
      BY <1>2 DEF SessionInv, SessionCore, SessionTyped
    <2>1. ASSUME NEW id \in SessionIds, sessionOf[id] = NoSession, CreateSession(id),
                 UNCHANGED <<clock, given>>
          PROVE  SessionInv'
      BY <2>0, <2>1, CreateSessionKeeps DEF SessionInv
    <2>2. ASSUME NEW id \in SessionIds, GetSession(id) PROVE SessionInv'
      BY <2>0, <2>2, GetKeeps DEF SessionInv
    <2>3. ASSUME NEW id \in SessionIds, GetOrCreateSession(id) PROVE SessionInv'
      BY <2>0, <2>3, GetOrCreateKeeps DEF SessionInv
    <2>4. ASSUME NEW id \in SessionIds, RemoveSession(id) PROVE SessionInv'
      <3>1. /\ sessionOf[id] # NoSession => Drop({id})
            /\ sessionOf[id] = NoSession => UNCHANGED <<sessionOf, session, gauge>>
            /\ given' = [id |-> "none", object |-> NoSession] /\ clock' = clock
        BY <2>4 DEF RemoveSession
      <3>2. given'.object = NoSession
        BY <3>1
      <3>3. GivenIsOwn'
        BY <3>2 DEF GivenIsOwn
      <3>4. sessionOf[id] # NoSession => {id} \in SUBSET Taken
        BY DEF Taken
      <3>5. SessionCore'
        <4>1. CASE sessionOf[id] # NoSession
          BY <2>0, <3>1, <3>4, <4>1, DropKeeps
        <4>2. CASE sessionOf[id] = NoSession
          BY <2>0, <3>1, <4>2, RestKeeps
        <4> QED
          BY <4>1, <4>2
      <3> QED
        BY <3>3, <3>5 DEF SessionInv
    <2>5. CASE CleanupExpired
      <3> DEFINE ids == {id \in SessionIds : sessionOf[id] # NoSession /\ IsExpired(sessionOf[id])}
      <3>1. Drop(ids) /\ given' = [id |-> "none", object |-> NoSession] /\ clock' = clock
        BY <2>5 DEF CleanupExpired
      <3>2. ids \in SUBSET Taken
        BY DEF Taken
      <3> HIDE DEF ids
      <3>3. SessionCore'
        BY <2>0, <3>1, <3>2, DropKeeps
      <3>4. given'.object = NoSession
        BY <3>1
      <3> QED
        BY <3>3, <3>4 DEF SessionInv, GivenIsOwn
    <2>6. ASSUME NEW o \in DOMAIN session, NEW role \in {"user", "assistant"}, AddTurn(o, role, "hi")
          PROVE  SessionInv'
      <3>1. /\ SessionCore' /\ DOMAIN session' = DOMAIN session
            /\ \A i \in DOMAIN session : session'[i].id = session[i].id
        BY <2>0, <2>6, AddTurnKeeps
      <3>2. given' = given
        BY <2>6 DEF AddTurn
      <3>3. GivenIsOwn'
        BY <2>0, <3>1, <3>2, GivenStays
      <3> QED
        BY <3>1, <3>3 DEF SessionInv
    <2>7. ASSUME NEW o \in DOMAIN session, AddTurnMetadata(o) PROVE SessionInv'
      <3>1. /\ SessionCore' /\ DOMAIN session' = DOMAIN session
            /\ \A i \in DOMAIN session : session'[i].id = session[i].id
        BY <2>0, <2>7, AddMetadataKeeps
      <3>2. given' = given
        BY <2>7 DEF AddTurnMetadata
      <3>3. GivenIsOwn'
        BY <2>0, <3>1, <3>2, GivenStays
      <3> QED
        BY <3>1, <3>3 DEF SessionInv
    <2>8. CASE ClockTicks
      <3>1. UNCHANGED <<sessionOf, session, gauge>> /\ clock' \in Nat /\ given' = given
        BY <2>0, <2>8 DEF ClockTicks
      <3>2. SessionCore'
        BY <2>0, <3>1, RestKeeps
      <3> QED
        BY <2>0, <3>1, <3>2 DEF SessionInv, GivenIsOwn
    <2> QED
      BY <1>2, <2>1, <2>2, <2>3, <2>4, <2>5, <2>6, <2>7, <2>8 DEF SessionNext
  <1>3. ASSUME SessionInv, UNCHANGED sessionVars PROVE SessionInv'
    <2>1. UNCHANGED <<sessionOf, session, gauge>> /\ clock' = clock /\ given' = given
      BY <1>3 DEF sessionVars
    <2>2. SessionCore /\ GivenIsOwn /\ clock \in Nat
      BY <1>3 DEF SessionInv, SessionCore, SessionTyped
    <2>3. SessionCore'
      BY <2>1, <2>2, RestKeeps
    <2> QED
      BY <2>1, <2>2, <2>3 DEF SessionInv, GivenIsOwn
  <1>4. ASSUME SessionInv PROVE SessionsAreKept
    <2>1. /\ SessionTyped
          /\ \A id \in SessionIds : sessionOf[id] # NoSession => session[sessionOf[id]].id = id
          /\ gauge = Cardinality(Taken)
          /\ \A o \in DOMAIN session : session[o].active <=> o \in Held
          /\ \A o \in DOMAIN session : WellKept(session[o])
          /\ given.object # NoSession => session[given.object].id = given.id
      BY <1>4 DEF SessionInv, SessionCore, GivenIsOwn
    <2>2. gauge = Cardinality(Held)
      BY <2>1, HeldAreTaken
    <2>3. ASSUME NEW o \in Held PROVE sessionOf[session[o].id] = o
      <3>1. PICK id \in SessionIds : sessionOf[id] = o
        BY DEF Held
      <3>2. o \in DOMAIN session
        BY DEF Held
      <3>3. o # NoSession
        BY <2>1, <3>2, CoreFacts
      <3> QED
        BY <2>1, <3>1, <3>3
    <2>4. ASSUME NEW o \in DOMAIN session
          PROVE  /\ Len(session[o].history) = Min({session[o].total, MaxHistory})
                 /\ \A i \in DOMAIN session[o].history :
                       session[o].history[i].n = session[o].total - Len(session[o].history) + i
                 /\ (session[o].language = "None") => \A i \in DOMAIN session[o].history :
                       session[o].history[i].role # "user"
                 /\ Len(session[o].metadata) <= MaxHistory
      BY <2>1 DEF WellKept
    <2> QED
      BY <2>1, <2>2, <2>3, <2>4 DEF SessionsAreKept
  <1> QED
    BY <1>1, <1>2, <1>3, <1>4

-----------------------------------------------------------------------------
(***************************************************************************)
(* All of them                                                             *)
(***************************************************************************)

\* In each part, what its invariant promises holds in every behaviour: speech is in
\* order,
LEMMA TtsStays == TtsSpec => []SpeechIsInOrder
  <1>1. TtsInv /\ [TtsNext]_ttsVars => TtsInv'
    BY TtsInvariance, Zenon
  <1> QED
    BY <1>1, TtsInvariance, PTL DEF TtsSpec

\* replies are whole,
LEMMA LlmStays == LlmSpec => []RepliesAreWhole
  <1>1. LlmInv /\ [LlmNext]_llmVars => LlmInv'
    BY LlmInvariance, Zenon
  <1> QED
    BY <1>1, LlmInvariance, PTL DEF LlmSpec

\* feelings are founded,
LEMMA EmotionStays == EmotionSpec => []EmotionIsFounded
  <1>1. EmotionInv /\ [EmotionNext]_emotionVars => EmotionInv'
    BY EmotionInvariance, Zenon
  <1> QED
    BY <1>1, EmotionInvariance, PTL DEF EmotionSpec

\* nobody is recognised in nothing,
LEMMA SpeakerStays == SpeakerSpec => []NobodyIsRecognisedInNothing
  <1>1. SpeakerInv /\ [SpeakerNext]_speakerVars => SpeakerInv'
    BY SpeakerInvariance, Zenon
  <1> QED
    BY <1>1, SpeakerInvariance, PTL DEF SpeakerSpec

\* and sessions are kept.
LEMMA SessionStays == SessionSpec => []SessionsAreKept
  <1>1. SessionInv /\ [SessionNext]_sessionVars => SessionInv'
    BY SessionInvariance, Zenon
  <1> QED
    BY <1>1, SessionInvariance, PTL DEF SessionSpec

\* In a behaviour of the helpers each part behaves as it does alone.
LEMMA HelpersMoveAlone ==
  HelpersSpec => /\ RouterSpec /\ TtsSpec /\ LlmSpec /\ EmotionSpec /\ SpeakerSpec /\ SessionSpec
                 /\ FillerSpec
  <1>1. HelpersInit => /\ RouterInit /\ TtsInit /\ LlmInit /\ EmotionInit /\ SpeakerInit /\ SessionInit
                       /\ FillerInit
    BY DEF HelpersInit
  <1>2. [HelpersNext]_helperVars => [RouterNext]_routerVars
    BY DEF HelpersNext, helperVars
  <1>3. [HelpersNext]_helperVars => [TtsNext]_ttsVars
    BY DEF HelpersNext, helperVars
  <1>4. [HelpersNext]_helperVars => [LlmNext]_llmVars
    BY DEF HelpersNext, helperVars
  <1>5. [HelpersNext]_helperVars => [EmotionNext]_emotionVars
    BY DEF HelpersNext, helperVars
  <1>6. [HelpersNext]_helperVars => [SpeakerNext]_speakerVars
    BY DEF HelpersNext, helperVars
  <1>7. [HelpersNext]_helperVars => [SessionNext]_sessionVars
    BY DEF HelpersNext, helperVars
  <1>8. [HelpersNext]_helperVars => [FillerNext]_fillerVars
    BY DEF HelpersNext, helperVars
  <1> QED
    BY <1>1, <1>2, <1>3, <1>4, <1>5, <1>6, <1>7, <1>8, PTL
       DEF HelpersSpec, RouterSpec, TtsSpec, LlmSpec, EmotionSpec, SpeakerSpec, SessionSpec, FillerSpec

\* What the turn leans on is sound, whichever model, synthesis or connection
\* fails: phrases, speech, replies, feelings, speakers, sessions and fillers are
\* what was asked for, whole and of that user, or visibly missing.
THEOREM HelpersStaySound == HelpersSpec => []HelpersAreSound
  <1>1. RouterInv => PhrasesFitTheUser
    BY Zenon DEF RouterInv
  <1>2. /\ PhrasesFitTheUser /\ SpeechIsInOrder /\ RepliesAreWhole /\ EmotionIsFounded
        /\ NobodyIsRecognisedInNothing /\ SessionsAreKept /\ FillerNeverOverrides
        => HelpersAreSound
    BY Zenon DEF HelpersAreSound
  <1> QED
    BY <1>1, <1>2, HelpersMoveAlone, RouterInvariance, TtsStays, LlmStays, EmotionStays, SpeakerStays,
       SessionStays, FillerInvariance, FillerInvKeepsBack, PTL

-----------------------------------------------------------------------------
(***************************************************************************)
(* Sums, the greatest of some, and orders                                  *)
(***************************************************************************)

\* The sums of a list up to each of its places.
IsSumUpto(t, n, s) ==
  s = [k \in 0 .. n |-> IF k = 0 THEN 0 ELSE s[k - 1] + t[k]]

\* The sums of a list exist.
LEMMA SumExists ==
  ASSUME NEW t, NEW n \in Nat
  PROVE  \E s : IsSumUpto(t, n, s)
  <1> DEFINE Bad == {k \in 0 .. n : ~\E s : IsSumUpto(t, k, s)}
  <1> SUFFICES ASSUME Bad # {} PROVE FALSE
    <2>1. n \in 0 .. n
      OBVIOUS
    <2>2. Bad = {}
      OBVIOUS
    <2> QED
      BY <2>1, <2>2
  <1>1. PICK k \in Bad : \A j \in Bad : k <= j
    <2>1. Bad \in SUBSET Nat
      OBVIOUS
    <2> HIDE DEF Bad
    <2> QED
      BY <2>1, LeastOf
  <1>2. k \in 0 .. n /\ k \in Nat /\ ~\E s : IsSumUpto(t, k, s)
    BY <1>1
  <1>3. CASE k = 0
    <2>1. IsSumUpto(t, 0, [j \in 0 .. 0 |-> 0])
      BY DEF IsSumUpto
    <2> QED
      BY <1>2, <1>3, <2>1
  <1>4. CASE k # 0
    <2>1. k - 1 \in 0 .. n /\ k - 1 \in Nat /\ ~(k <= k - 1)
      BY <1>2, <1>4
    <2>2. k - 1 \notin Bad
      <3> HIDE DEF Bad
      <3> QED
        BY <1>1, <2>1
    <2>3. PICK s : IsSumUpto(t, k - 1, s)
      BY <2>1, <2>2
    <2> DEFINE r == [j \in 0 .. k |-> IF j = 0 THEN 0 ELSE s[j - 1] + t[j]]
    <2>4. \A j \in 0 .. k - 1 : s[j] = IF j = 0 THEN 0 ELSE s[j - 1] + t[j]
      <3>1. s = [j \in 0 .. k - 1 |-> IF j = 0 THEN 0 ELSE s[j - 1] + t[j]]
        BY <2>3 DEF IsSumUpto
      <3> QED
        BY <3>1, Zenon
    <2>5. \A j \in 0 .. k - 1 : r[j] = s[j]
      BY <1>2, <2>4
    <2>6. \A j \in 0 .. k : j # 0 => j - 1 \in 0 .. k - 1
      BY <1>2
    <2>7. \A j \in 0 .. k : (IF j = 0 THEN 0 ELSE s[j - 1] + t[j])
                              = IF j = 0 THEN 0 ELSE r[j - 1] + t[j]
      BY <2>5, <2>6
    <2>8. r = [j \in 0 .. k |-> IF j = 0 THEN 0 ELSE r[j - 1] + t[j]]
      BY <2>7
    <2>9. IsSumUpto(t, k, r)
      BY <2>8 DEF IsSumUpto
    <2> QED
      BY <1>2, <2>9
  <1> QED
    BY <1>3, <1>4

\* The sums of a list are numbers, and those of no gain are no gain.
LEMMA SumsAre ==
  ASSUME NEW t, NEW n \in Nat, n = Len(t), \A i \in 1 .. n : t[i] \in Int
  PROVE  \A k \in 0 .. n : /\ Sums(t)[k] \in Int
                           /\ (\A i \in 1 .. n : t[i] <= 0) => Sums(t)[k] <= 0
                           /\ (\A i \in 1 .. n : t[i] = 0) => Sums(t)[k] = 0
  <1> DEFINE s == CHOOSE s : IsSumUpto(t, Len(t), s)
  <1>2. Sums(t) = s
    BY Zenon DEF Sums, IsSumUpto
  <1>3. IsSumUpto(t, n, s)
    <2>1. \E r : IsSumUpto(t, Len(t), r)
      BY SumExists
    <2> QED
      BY <2>1, Zenon
  <1> HIDE DEF s
  <1>4. \A k \in 0 .. n : s[k] = IF k = 0 THEN 0 ELSE s[k - 1] + t[k]
    <2>1. s = [k \in 0 .. n |-> IF k = 0 THEN 0 ELSE s[k - 1] + t[k]]
      BY <1>3 DEF IsSumUpto
    <2> QED
      BY <2>1, Zenon
  <1> DEFINE Low == \A i \in 1 .. n : t[i] <= 0
             Nil == \A i \in 1 .. n : t[i] = 0
             Good(k) == s[k] \in Int /\ (Low => s[k] <= 0) /\ (Nil => s[k] = 0)
             Bad == {k \in 0 .. n : ~Good(k)}
  <1> HIDE DEF Low, Nil
  <1>5. Bad = {}
    <2> SUFFICES ASSUME Bad # {} PROVE FALSE
      OBVIOUS
    <2>1. PICK k \in Bad : \A j \in Bad : k <= j
      <3>1. Bad \in SUBSET Nat
        OBVIOUS
      <3> HIDE DEF Bad
      <3> QED
        BY <3>1, LeastOf
    <2>2. k \in 0 .. n /\ k \in Nat /\ ~Good(k)
      BY <2>1
    <2>3. k # 0
      BY <1>4, <2>2
    <2>4. k - 1 \in 0 .. n /\ k - 1 \in Nat /\ ~(k <= k - 1) /\ k \in 1 .. n
      BY <2>2, <2>3
    <2>5. Good(k - 1)
      <3>1. k - 1 \notin Bad
        <4> HIDE DEF Bad
        <4> QED
          BY <2>1, <2>4
      <3> QED
        BY <2>4, <3>1
    <2>6. s[k] = s[k - 1] + t[k]
      BY <1>4, <2>2, <2>3
    <2>7. t[k] \in Int
      BY <2>4
    <2>8. Low => t[k] <= 0
      BY <2>4 DEF Low
    <2>9. Nil => t[k] = 0
      BY <2>4 DEF Nil
    <2> QED
      BY <2>2, <2>5, <2>6, <2>7, <2>8, <2>9
  <1>6. \A k \in 0 .. n : Good(k)
    BY <1>5
  <1> QED
    BY <1>2, <1>6 DEF Low, Nil

\* The greatest and the least of finitely many numbers are among them.
LEMMA GreatestIn ==
  ASSUME NEW n \in Nat, NEW S \in SUBSET (1 .. n), S # {}
  PROVE  /\ Max(S) \in S /\ \A x \in S : x <= Max(S)
         /\ Min(S) \in S /\ \A x \in S : Min(S) <= x
  <1>1. \E x \in S : \A y \in S : x <= y
    <2>1. S \in SUBSET Nat
      OBVIOUS
    <2> QED
      BY <2>1, LeastOf
  <1>2. \E x \in S : \A y \in S : x >= y
    <2> DEFINE value == [i \in 1 .. n |-> i]
    <2>1. \A i \in S : value[i] = i /\ i \in Nat
      OBVIOUS
    <2> HIDE DEF value
    <2>2. \A i \in S : value[i] \in Int
      BY <2>1
    <2>3. PICK b \in S : IsBest(b, S, value)
      BY <2>2, BestOf
    <2>4. \A y \in S : b >= y
      BY <2>1, <2>3 DEF IsBest
    <2> QED
      BY <2>4
  <1>3. Min(S) \in S /\ \A x \in S : Min(S) <= x
    BY <1>1 DEF Min
  <1>4. Max(S) \in S /\ \A x \in S : Max(S) >= x
    BY <1>2 DEF Max
  <1>5. \A x \in S : x \in Nat
    OBVIOUS
  <1> QED
    BY <1>3, <1>4, <1>5

\* A strict order of a set, and what is ahead of a member in it.
StrictOrder(S, R) ==
  /\ \A i \in S : <<i, i>> \notin R
  /\ \A i, j, k \in S : <<i, j>> \in R /\ <<j, k>> \in R => <<i, k>> \in R
  /\ \A i, j \in S : i = j \/ <<i, j>> \in R \/ <<j, i>> \in R

Ahead(S, R, i) == {j \in S : <<j, i>> \in R}

\* It orders a part of the set, too.
LEMMA OrderOfSome ==
  ASSUME NEW S, NEW R, StrictOrder(S, R), NEW T \in SUBSET S
  PROVE  StrictOrder(T, R)
  BY DEF StrictOrder

\* How many are ahead says who is ahead.
LEMMA RanksAre ==
  ASSUME NEW S, IsFiniteSet(S), NEW R, StrictOrder(S, R)
  PROVE  /\ Cardinality(S) \in Nat
         /\ \A i \in S : /\ Cardinality(Ahead(S, R, i)) \in Nat
                         /\ Cardinality(Ahead(S, R, i)) < Cardinality(S)
         /\ \A i, j \in S : <<i, j>> \in R => Cardinality(Ahead(S, R, i)) < Cardinality(Ahead(S, R, j))
  <1>1. Cardinality(S) \in Nat
    BY FS_CardinalityType
  <1>2. ASSUME NEW i \in S
        PROVE  /\ IsFiniteSet(Ahead(S, R, i)) /\ Cardinality(Ahead(S, R, i)) \in Nat
               /\ Cardinality(Ahead(S, R, i)) < Cardinality(S) /\ i \notin Ahead(S, R, i)
    <2>1. i \notin Ahead(S, R, i) /\ Ahead(S, R, i) \subseteq S
      BY DEF Ahead, StrictOrder
    <2>2. IsFiniteSet(Ahead(S, R, i)) /\ Cardinality(Ahead(S, R, i)) \in Nat
          /\ Cardinality(Ahead(S, R, i)) <= Cardinality(S)
      BY <2>1, FS_Subset, FS_CardinalityType
    <2>3. Cardinality(Ahead(S, R, i)) # Cardinality(S)
      BY <2>1, FS_Subset
    <2> QED
      BY <1>1, <2>1, <2>2, <2>3
  <1>3. ASSUME NEW i \in S, NEW j \in S, <<i, j>> \in R
        PROVE  Cardinality(Ahead(S, R, i)) < Cardinality(Ahead(S, R, j))
    <2> DEFINE A == Ahead(S, R, i)
               B == Ahead(S, R, j)
    <2>1. A \union {i} \subseteq B
      BY <1>3 DEF Ahead, StrictOrder
    <2>2. IsFiniteSet(A) /\ Cardinality(A) \in Nat /\ i \notin A /\ IsFiniteSet(B) /\ Cardinality(B) \in Nat
      BY <1>2
    <2> HIDE DEF A, B
    <2>3. Cardinality(A \union {i}) = Cardinality(A) + 1
      BY <2>2, FS_AddElement
    <2>4. Cardinality(A \union {i}) <= Cardinality(B)
      BY <2>1, <2>2, FS_Subset
    <2> QED
      BY <2>2, <2>3, <2>4 DEF A, B
  <1> QED
    BY <1>1, <1>2, <1>3

\* There is a first and a last of some.
LEMMA EndsOfSome ==
  ASSUME NEW S, IsFiniteSet(S), NEW R, StrictOrder(S, R), S # {}
  PROVE  /\ \E x \in S : \A y \in S : y = x \/ <<x, y>> \in R
         /\ \E x \in S : \A y \in S : y = x \/ <<y, x>> \in R
  <1> DEFINE rank(i) == Cardinality(Ahead(S, R, i))
             c == Cardinality(S)
             Low == {rank(i) : i \in S}
             High == {c - rank(i) : i \in S}
  <1>1. /\ c \in Nat
        /\ \A i \in S : rank(i) \in Nat /\ rank(i) < c
        /\ \A i, j \in S : <<i, j>> \in R => rank(i) < rank(j)
    BY RanksAre
  <1>2. \A i, j \in S : i = j \/ <<i, j>> \in R \/ <<j, i>> \in R
    BY DEF StrictOrder
  <1> HIDE DEF rank, c
  <1>3. \E x \in S : \A y \in S : rank(x) <= rank(y)
    <2>1. Low \in SUBSET Nat /\ Low # {}
      BY <1>1
    <2>2. PICK l \in Low : \A k \in Low : l <= k
      <3> HIDE DEF Low
      <3> QED
        BY <2>1, LeastOf
    <2> QED
      BY <2>2
  <1>4. \E x \in S : \A y \in S : c - rank(x) <= c - rank(y)
    <2>1. High \in SUBSET Nat /\ High # {}
      BY <1>1
    <2>2. PICK l \in High : \A k \in High : l <= k
      <3> HIDE DEF High
      <3> QED
        BY <2>1, LeastOf
    <2> QED
      BY <2>2
  <1>5. \E x \in S : \A y \in S : y = x \/ <<x, y>> \in R
    <2>1. PICK x \in S : \A y \in S : rank(x) <= rank(y)
      BY <1>3
    <2>2. ASSUME NEW y \in S PROVE y = x \/ <<x, y>> \in R
      <3>1. ~(<<y, x>> \in R)
        BY <1>1, <2>1
      <3> QED
        BY <1>2, <3>1
    <2> QED
      BY <2>2
  <1>6. \E x \in S : \A y \in S : y = x \/ <<y, x>> \in R
    <2>1. PICK x \in S : \A y \in S : c - rank(x) <= c - rank(y)
      BY <1>4
    <2>2. ASSUME NEW y \in S PROVE y = x \/ <<y, x>> \in R
      <3>1. ~(<<x, y>> \in R)
        BY <1>1, <2>1
      <3> QED
        BY <1>2, <3>1
    <2> QED
      BY <2>2
  <1> QED
    BY <1>5, <1>6

\* The first of an order are ahead of the others.
LEMMA ForemostAreAhead ==
  ASSUME NEW S, IsFiniteSet(S), NEW R, StrictOrder(S, R), NEW m \in Nat
  PROVE  \A i \in Foremost(S, R, m) : \A j \in S \ Foremost(S, R, m) : <<i, j>> \in R
  <1> DEFINE rank(i) == Cardinality(Ahead(S, R, i))
  <1>1. \A i \in S : i \in Foremost(S, R, m) <=> rank(i) < m
    BY DEF Foremost, Ahead
  <1>2. /\ \A i \in S : rank(i) \in Nat
        /\ \A i, j \in S : <<i, j>> \in R => rank(i) < rank(j)
    BY RanksAre
  <1>3. \A i, j \in S : i = j \/ <<i, j>> \in R \/ <<j, i>> \in R
    BY DEF StrictOrder
  <1>4. Foremost(S, R, m) \subseteq S
    BY DEF Foremost
  <1> HIDE DEF rank
  <1> SUFFICES ASSUME NEW i \in Foremost(S, R, m), NEW j \in S \ Foremost(S, R, m) PROVE <<i, j>> \in R
    OBVIOUS
  <1>5. i \in S /\ j \in S /\ i # j
    BY <1>4
  <1>6. rank(i) < m /\ ~(rank(j) < m)
    BY <1>1, <1>5
  <1>7. <<j, i>> \notin R
    BY <1>2, <1>5, <1>6
  <1> QED
    BY <1>3, <1>5, <1>7

\* There are as many of the first as asked for, or all.
LEMMA ForemostCounts ==
  ASSUME NEW S, IsFiniteSet(S), NEW R, StrictOrder(S, R), NEW m \in Nat
  PROVE  Cardinality(Foremost(S, R, m)) = IF m <= Cardinality(S) THEN m ELSE Cardinality(S)
  <1> DEFINE rank(i) == Cardinality(Ahead(S, R, i))
             c == Cardinality(S)
             F(k) == Foremost(S, R, k)
             Bad == {k \in 0 .. c : Cardinality(F(k)) # k}
  <1>1. \A k : F(k) \subseteq S /\ \A i \in S : i \in F(k) <=> rank(i) < k
    BY DEF Foremost, Ahead
  <1>2. /\ c \in Nat
        /\ \A i \in S : rank(i) \in Nat /\ rank(i) < c
        /\ \A i, j \in S : <<i, j>> \in R => rank(i) < rank(j)
    BY RanksAre
  <1>3. \A i, j \in S : i = j \/ <<i, j>> \in R \/ <<j, i>> \in R
    BY DEF StrictOrder
  <1>4. Bad = {}
    <2> SUFFICES ASSUME Bad # {} PROVE FALSE
      OBVIOUS
    <2>1. PICK k \in Bad : \A j \in Bad : k <= j
      <3>1. Bad \in SUBSET Nat
        BY <1>2
      <3> HIDE DEF Bad
      <3> QED
        BY <3>1, LeastOf
    <2>2. k \in 0 .. c /\ k \in Nat /\ Cardinality(F(k)) # k
      BY <1>2, <2>1
    <2>3. k # 0
      <3>1. F(0) = {}
        <4> HIDE DEF F, rank
        <4> QED
          BY <1>1, <1>2
      <3>2. Cardinality({}) = 0
        BY FS_EmptySet
      <3> QED
        BY <2>2, <3>1, <3>2
    <2> DEFINE h == k - 1
               A == F(h)
    <2>4. h \in 0 .. c /\ h \in Nat /\ ~(k <= h) /\ h < c /\ k = h + 1
      BY <1>2, <2>2, <2>3
    <2>5. Cardinality(A) = h
      <3>1. h \notin Bad
        <4> HIDE DEF Bad, h
        <4> QED
          BY <2>1, <2>4
      <3> HIDE DEF h, F
      <3> QED
        BY <2>4, <3>1
    <2> HIDE DEF h, Bad
    <2>6. A \subseteq S /\ \A i \in S : i \in A <=> rank(i) < h
      BY <1>1
    <2>7. F(k) \subseteq S /\ \A i \in S : i \in F(k) <=> rank(i) < k
      BY <1>1
    <2>8. IsFiniteSet(A)
      BY <2>6, FS_Subset
    <2> HIDE DEF A, F
    <2>9. S \ A # {}
      <3> SUFFICES ASSUME S = A PROVE FALSE
        BY <2>6
      <3> QED
        BY <2>4, <2>5
    <2>10. PICK x \in S \ A : \A y \in S \ A : y = x \/ <<x, y>> \in R
      <3> DEFINE T == S \ A
      <3>1. T \in SUBSET S /\ T # {} /\ IsFiniteSet(T)
        BY <2>9, FS_Subset
      <3> HIDE DEF T
      <3>2. StrictOrder(T, R)
        BY <3>1, OrderOfSome
      <3>3. \E x \in T : \A y \in T : y = x \/ <<x, y>> \in R
        BY <3>1, <3>2, EndsOfSome
      <3> QED
        BY <3>3 DEF T
    <2>11. Ahead(S, R, x) = A
      <3>1. ASSUME NEW y \in S, <<y, x>> \in R PROVE y \in A
        <4> SUFFICES ASSUME y \notin A PROVE FALSE
          OBVIOUS
        <4>1. y = x \/ <<x, y>> \in R
          BY <2>10
        <4> QED
          BY <3>1, <4>1 DEF StrictOrder
      <3>2. ASSUME NEW y \in A PROVE <<y, x>> \in R
        <4>1. y \in S /\ y # x /\ rank(y) < h /\ ~(rank(x) < h) /\ rank(x) \in Nat /\ rank(y) \in Nat
          BY <1>2, <2>6, <2>10
        <4>2. ~(<<x, y>> \in R)
          <5> HIDE DEF rank
          <5> QED
            BY <1>2, <2>4, <2>10, <4>1
        <4> QED
          BY <1>3, <2>10, <4>1, <4>2
      <3> QED
        BY <2>6, <3>1, <3>2 DEF Ahead
    <2>12. rank(x) = h
      BY <2>5, <2>11
    <2> HIDE DEF rank
    <2>13. F(k) = A \union {x}
      <3>1. ASSUME NEW z \in S, rank(z) < k, z \notin A PROVE z = x
        <4>1. z = x \/ <<x, z>> \in R
          BY <2>10, <3>1
        <4>2. ~(rank(x) < rank(z))
          BY <1>2, <2>4, <2>12, <3>1
        <4> QED
          BY <1>2, <2>10, <4>1, <4>2
      <3>2. \A z \in A : z \in S /\ rank(z) < k
        BY <1>2, <2>4, <2>6
      <3>3. x \in S /\ rank(x) < k
        BY <2>4, <2>10, <2>12
      <3> QED
        BY <2>7, <3>1, <3>2, <3>3
    <2>14. Cardinality(F(k)) = h + 1
      BY <2>5, <2>8, <2>10, <2>13, FS_AddElement
    <2> QED
      BY <2>2, <2>4, <2>14
  <1>5. CASE m <= c
    <2>1. m \in 0 .. c /\ m \notin Bad
      <3> HIDE DEF Bad
      <3> QED
        BY <1>2, <1>4, <1>5
    <2>2. Cardinality(F(m)) = m
      <3> HIDE DEF F
      <3> QED
        BY <2>1
    <2> QED
      BY <1>5, <2>2
  <1>6. CASE ~(m <= c)
    <2>1. F(m) = S
      <3> HIDE DEF F, rank
      <3> QED
        BY <1>1, <1>2, <1>6
    <2> QED
      BY <1>6, <2>1
  <1> QED
    BY <1>5, <1>6

-----------------------------------------------------------------------------
(***************************************************************************)
(* The persona's memory of a user                                          *)
(***************************************************************************)

\* The scale, and the limits of its fields.
LEMMA ScaleIs ==
  /\ One = 10000 /\ One \div 2 = 5000
  /\ \A f \in Fields : Lowest(f) \in Int /\ (Lowest(f) = -One \/ Lowest(f) = 0)
  /\ Lowest("arousal") = -One
  /\ Fields = {"arousal", "warmth", "intensity"}
  BY DEF One, Lowest, Fields

\* An emotion is within its scale.
LEMMA EmotionIs ==
  ASSUME NEW m \in EmotionStates
  PROVE  /\ m = [f \in Fields |-> m[f]]
         /\ \A f \in Fields : m[f] \in Int /\ m[f] \in Lowest(f) .. One
         /\ m.arousal \in -One .. One
         /\ InScale(m)
  <1>1. m \in [Fields -> Int] /\ InScale(m)
    BY DEF EmotionStates
  <1>2. \A f \in Fields : m[f] \in Int /\ m[f] \in Lowest(f) .. One
    BY <1>1 DEF InScale
  <1>3. m = [f \in Fields |-> m[f]]
    BY <1>1
  <1>4. m.arousal \in -One .. One
    <2>1. m["arousal"] \in Lowest("arousal") .. One
      BY <1>2, ScaleIs
    <2>3. Lowest("arousal") = -One
      BY ScaleIs
    <2>2. m["arousal"] \in -One .. One
      BY <2>1, <2>3
    <2> QED
      BY <2>2, Zenon
  <1> QED
    BY <1>1, <1>2, <1>3, <1>4

\* So is the default.
LEMMA DefaultIsEmotion == DefaultMood \in EmotionStates /\ DefaultMood.arousal = 0 /\ NoMood \notin EmotionStates
  <1>1. DefaultMood \in [Fields -> Int]
    BY ScaleIs DEF DefaultMood
  <1>2. InScale(DefaultMood)
    <2>1. /\ DefaultMood["arousal"] = 0 /\ DefaultMood["warmth"] = 5000 /\ DefaultMood["intensity"] = 5000
      BY ScaleIs DEF DefaultMood
    <2> QED
      BY <2>1, ScaleIs DEF InScale
  <1>3. ASSUME NoMood \in EmotionStates PROVE FALSE
    <2> DEFINE m == NoMood
    <2>0. m \in EmotionStates
      BY <1>3
    <2> HIDE DEF m
    <2>1. m.arousal \in -One .. One
      BY <2>0, EmotionIs
    <2>2. NoMood.arousal = 10001
      BY ScaleIs DEF NoMood
    <2>3. One = 10000
      BY ScaleIs
    <2> QED
      BY <2>1, <2>2, <2>3 DEF m
  <1> QED
    BY <1>1, <1>2, <1>3 DEF EmotionStates, DefaultMood

\* A clamped value is within the scale, and one within it is left alone.
LEMMA ClampLands ==
  ASSUME NEW m, \A f \in Fields : m[f] \in Int
  PROVE  /\ ClampEmotion(m) \in EmotionStates
         /\ \A f \in Fields : ClampEmotion(m)[f] = ClampField(f, m[f])
         /\ \A f \in Fields : m[f] \in Lowest(f) .. One => ClampEmotion(m)[f] = m[f]
  <1>1. ASSUME NEW f \in Fields
        PROVE  /\ ClampField(f, m[f]) \in Lowest(f) .. One
               /\ m[f] \in Lowest(f) .. One => ClampField(f, m[f]) = m[f]
    <2>1. m[f] \in Int /\ Lowest(f) \in Int /\ One \in Int /\ Lowest(f) <= One
      BY ScaleIs
    <2> QED
      BY <2>1 DEF ClampField
  <1>2. \A f \in Fields : ClampEmotion(m)[f] = ClampField(f, m[f])
    BY DEF ClampEmotion
  <1>3. ClampEmotion(m) \in [Fields -> Int]
    <2>1. \A f \in Fields : ClampField(f, m[f]) \in Int
      BY <1>1, ScaleIs
    <2> QED
      BY <2>1 DEF ClampEmotion
  <1> QED
    BY <1>1, <1>2, <1>3 DEF EmotionStates, InScale

\* An emotion is left alone.
LEMMA ClampKeeps ==
  ASSUME NEW m \in EmotionStates
  PROVE  ClampEmotion(m) = m
  <1>1. \A f \in Fields : m[f] \in Int /\ m[f] \in Lowest(f) .. One
    BY EmotionIs
  <1>2. ClampEmotion(m) \in EmotionStates /\ \A f \in Fields : ClampEmotion(m)[f] = m[f]
    BY <1>1, ClampLands
  <1>3. ClampEmotion(m) = [f \in Fields |-> ClampEmotion(m)[f]] /\ m = [f \in Fields |-> m[f]]
    BY <1>2, EmotionIs
  <1> QED
    BY <1>2, <1>3

\* A weighted mean lies between.
LEMMA MeanIsBetween ==
  ASSUME NEW a \in Int, NEW b \in Int, NEW w \in 0 .. 10
  PROVE  LET x == (a * (10 - w) + b * w) \div 10
         IN x \in Int /\ (a <= x \/ b <= x) /\ (x <= a \/ x <= b)
  <1> DEFINE P(v) == LET x == (a * (10 - v) + b * v) \div 10
                     IN x \in Int /\ (a <= x \/ b <= x) /\ (x <= a \/ x <= b)
  <1>1. P(0) /\ P(1) /\ P(2) /\ P(3)
    OBVIOUS
  <1>2. P(4) /\ P(5) /\ P(6) /\ P(7)
    OBVIOUS
  <1>3. P(8) /\ P(9) /\ P(10)
    OBVIOUS
  <1>4. w = 0 \/ w = 1 \/ w = 2 \/ w = 3 \/ w = 4 \/ w = 5 \/ w = 6 \/ w = 7 \/ w = 8 \/ w = 9 \/ w = 10
    OBVIOUS
  <1> HIDE DEF P
  <1>5. P(w)
    BY <1>1, <1>2, <1>3, <1>4
  <1> QED
    BY <1>5 DEF P

\* A blend of emotions is an emotion between them.
LEMMA BlendIs ==
  ASSUME NEW a \in EmotionStates, NEW b \in EmotionStates, NEW w \in 0 .. 10
  PROVE  /\ Blend(a, b, w) \in EmotionStates
         /\ \A f \in Fields : /\ a[f] <= Blend(a, b, w)[f] \/ b[f] <= Blend(a, b, w)[f]
                              /\ Blend(a, b, w)[f] <= a[f] \/ Blend(a, b, w)[f] <= b[f]
  <1> DEFINE M(f) == (a[f] * (10 - w) + b[f] * w) \div 10
             m == [f \in Fields |-> M(f)]
  <1>1. \A f \in Fields : /\ a[f] \in Int /\ b[f] \in Int
                          /\ a[f] \in Lowest(f) .. One /\ b[f] \in Lowest(f) .. One
    <2>1. \A f \in Fields : a[f] \in Int /\ a[f] \in Lowest(f) .. One
      BY EmotionIs
    <2>2. \A f \in Fields : b[f] \in Int /\ b[f] \in Lowest(f) .. One
      BY EmotionIs
    <2> QED
      BY <2>1, <2>2
  <1>2. \A f \in Fields : M(f) \in Int /\ (a[f] <= M(f) \/ b[f] <= M(f)) /\ (M(f) <= a[f] \/ M(f) <= b[f])
    BY <1>1, MeanIsBetween
  <1> HIDE DEF M
  <1>3. \A f \in Fields : m[f] = M(f)
    OBVIOUS
  <1>4. \A f \in Fields : m[f] \in Int /\ m[f] \in Lowest(f) .. One
    BY <1>1, <1>2, <1>3, ScaleIs
  <1>5. Blend(a, b, w) = ClampEmotion(m)
    BY DEF Blend, M
  <1> HIDE DEF m
  <1>6. Blend(a, b, w) \in EmotionStates /\ \A f \in Fields : Blend(a, b, w)[f] = m[f]
    BY <1>4, <1>5, ClampLands
  <1> QED
    BY <1>2, <1>3, <1>6

-----------------------------------------------------------------------------
\* The arousals there are.
Arousals == -One .. One

\* An integer quotient, times its divisor, is no more than what was divided.
LEMMA QuotientIs ==
  ASSUME NEW s \in Int, NEW m \in Nat, m > 0
  PROVE  s \div m \in Int /\ m * (s \div m) <= s
  OBVIOUS

\* A trajectory without arousal is no stress.
LEMMA StressIs ==
  ASSUME NEW p, p.trajectory \in Seq(Arousals)
  PROVE  /\ StressLevel(p) \in Int
         /\ (\A i \in DOMAIN p.trajectory : p.trajectory[i] <= 0) => StressLevel(p) <= 5000
  <1> DEFINE t == p.trajectory
             n == Len(t)
             sum == Sums(t)[n]
             s == sum + n * One
             q == s \div (2 * n)
             Calm == \A i \in DOMAIN t : t[i] <= 0
  <1>1. n \in Nat /\ DOMAIN t = 1 .. n /\ \A i \in 1 .. n : t[i] \in Int
    <2>1. n \in Nat /\ DOMAIN t = 1 .. n /\ \A i \in 1 .. n : t[i] \in Arousals
      OBVIOUS
    <2>2. ASSUME NEW x \in Arousals PROVE x \in Int
      <3>1. x \in -One .. One
        BY DEF Arousals
      <3>2. One \in Int
        BY ScaleIs
      <3> QED
        BY <3>1, <3>2
    <2> QED
      BY <2>1, <2>2
  <1>2. sum \in Int /\ (Calm => sum <= 0)
    <2>1. n = Len(t) /\ n \in 0 .. n
      BY <1>1
    <2> HIDE DEF t, n
    <2> QED
      BY <1>1, <2>1, SumsAre
  <1>3. CASE t = <<>>
    BY <1>3, ScaleIs DEF StressLevel
  <1>4. CASE t # <<>>
    <2>1. StressLevel(p) = q
      BY <1>4 DEF StressLevel
    <2>2. n > 0
      BY <1>4
    <2> HIDE DEF t, sum, n, Calm
    <2>0. One = 10000
      BY ScaleIs
    <2>3. s \in Int /\ (Calm => s <= n * 10000)
      BY <1>1, <1>2, <2>0
    <2> HIDE DEF s
    <2> HIDE DEF q
    <2>4. q \in Int /\ (2 * n) * q <= s
      <3> DEFINE m == 2 * n
      <3>1. m \in Nat /\ m > 0
        BY <1>1, <2>2
      <3> HIDE DEF m
      <3>2. s \div m \in Int /\ m * (s \div m) <= s
        BY <2>3, <3>1, QuotientIs
      <3> QED
        BY <3>2 DEF m, q
    <2>5. ASSUME s <= n * 10000 PROVE q <= 5000
      <3>1. SUFFICES ASSUME q >= 5001 PROVE FALSE
        BY <2>4
      <3>2. n * q >= n * 5001
        BY <1>1, <2>2, <2>4, <3>1
      <3>3. (2 * n) * q = 2 * (n * q)
        BY <1>1, <2>4
      <3> DEFINE x == n * q
      <3>4. x \in Int /\ x >= n * 5001 /\ 2 * x <= s
        BY <1>1, <2>4, <3>2, <3>3
      <3> HIDE DEF x
      <3> QED
        BY <1>1, <2>2, <2>3, <2>5, <3>4
    <2>6. Calm => q <= 5000
      BY <2>3, <2>5
    <2> QED
      BY <2>1, <2>4, <2>6 DEF Calm, t
  <1> QED
    BY <1>3, <1>4

\* What adapt_emotion answers follows from the profile and the target.
LEMMA AdaptedFollows ==
  ASSUME NEW p, p.trajectory \in Seq(Arousals), p.tone \in EmotionStates, p.turns \in Nat,
         NEW target \in EmotionStates
  PROVE  FollowsFrom(p, target, Adapted(p, target)) /\ Adapted(p, target) \in EmotionStates
  <1> DEFINE r == Adapted(p, target)
             tone == p.tone
             b == Blend(target, tone, 5)
             s == StressLevel(p)
             k == IF s > 6000 THEN (s - 6000) \div 4 ELSE 0
             d == Calming(s)
             m == [f \in Fields |-> b[f] + d[f]]
  <1>1. CASE p.turns = 0
    <2>1. r = target
      BY <1>1, ClampKeeps DEF Adapted
    <2> QED
      BY <1>1, <2>1, EmotionIs DEF FollowsFrom
  <1>2. CASE p.turns # 0
    <2>1. r = ClampEmotion(m)
      BY <1>2 DEF Adapted, Nudge
    <2>2. s \in Int /\ ((\A i \in DOMAIN p.trajectory : p.trajectory[i] <= 0) => s <= 5000)
      BY StressIs
    <2>3. /\ b \in EmotionStates
          /\ b["arousal"] <= target["arousal"] \/ b["arousal"] <= tone["arousal"]
      <3>1. 5 \in 0 .. 10 /\ "arousal" \in Fields
        BY ScaleIs
      <3> QED
        BY <3>1, BlendIs
    <2> HIDE DEF s
    <2>4. k \in Nat /\ (s <= 5000 => k = 0)
      BY <2>2
    <2>5. d = [arousal |-> -(3 * k), warmth |-> 2 * k, intensity |-> -k]
      BY DEF Calming
    <2> HIDE DEF k, d, b
    <2>6. d["arousal"] = -(3 * k) /\ d["warmth"] = 2 * k /\ d["intensity"] = -k
      BY <2>5
    <2>7. \A f \in Fields : /\ d[f] \in Int /\ b[f] \in Int /\ b[f] \in Lowest(f) .. One
                            /\ (k = 0 => d[f] = 0)
      <3>1. \A f \in Fields : b[f] \in Int /\ b[f] \in Lowest(f) .. One
        BY <2>3, EmotionIs
      <3>2. \A f \in Fields : d[f] \in Int /\ (k = 0 => d[f] = 0)
        BY <2>4, <2>6, ScaleIs
      <3> QED
        BY <3>1, <3>2
    <2>8. \A f \in Fields : m[f] = b[f] + d[f]
      OBVIOUS
    <2> HIDE DEF m
    <2>9. r \in EmotionStates /\ \A f \in Fields : r[f] = ClampField(f, m[f])
      <3>1. \A f \in Fields : m[f] \in Int
        BY <2>7, <2>8
      <3> QED
        BY <2>1, <3>1, ClampLands
    <2> HIDE DEF r
    <2>10. r["arousal"] <= b["arousal"]
      <3>1. "arousal" \in Fields
        BY ScaleIs
      <3> DEFINE x == b["arousal"]
                 y == m["arousal"]
                 z == r["arousal"]
                 lo == Lowest("arousal")
      <3>2. x \in Int /\ x \in lo .. One /\ y = x - 3 * k /\ z = ClampField("arousal", y)
        BY <2>4, <2>6, <2>7, <2>8, <2>9, <3>1
      <3>3. lo \in Int /\ One \in Int
        BY <3>1, ScaleIs
      <3>4. z = IF y < lo THEN lo ELSE IF y > One THEN One ELSE y
        BY <3>2 DEF ClampField
      <3> HIDE DEF x, y, z, lo
      <3>5. z <= x
        BY <2>4, <3>2, <3>3, <3>4
      <3> QED
        BY <3>5 DEF x, z
    <2>11. r.arousal <= target.arousal \/ r.arousal <= tone.arousal
      <3> DEFINE x == b["arousal"]
                 y == target["arousal"]
                 z == r["arousal"]
                 w == tone["arousal"]
      <3>1. x \in Int /\ y \in Int /\ z \in Int /\ w \in Int
        <4>1. "arousal" \in Fields
          BY ScaleIs
        <4>2. y \in Int
          BY <4>1, EmotionIs
        <4>3. tone \in EmotionStates
          OBVIOUS
        <4>4. w \in Int
          BY <4>1, <4>3, EmotionIs
        <4>5. z \in Int
          BY <4>1, <2>9, EmotionIs
        <4>6. x \in Int
          BY <4>1, <2>7
        <4> QED
          BY <4>2, <4>4, <4>5, <4>6
      <3>2. z <= x /\ (x <= y \/ x <= w)
        BY <2>3, <2>10
      <3> HIDE DEF x, y, z, w
      <3>3. z <= y \/ z <= w
        BY <3>1, <3>2
      <3> QED
        BY <3>3 DEF y, z, w
    <2>12. ASSUME \A i \in DOMAIN p.trajectory : p.trajectory[i] <= 0 PROVE r = b
      <3>1. k = 0
        BY <2>2, <2>4, <2>12
      <3>2. \A f \in Fields : m[f] = b[f]
        BY <2>7, <2>8, <3>1
      <3>3. m = b
        <4>1. b = [f \in Fields |-> b[f]]
          BY <2>3, EmotionIs
        <4>2. m = [f \in Fields |-> m[f]]
          BY DEF m
        <4> QED
          BY <3>2, <4>1, <4>2
      <3> QED
        BY <2>1, <2>3, <3>3, ClampKeeps DEF r
    <2>13. InScale(r)
      BY <2>9, EmotionIs
    <2> QED
      BY <1>2, <2>9, <2>11, <2>12, <2>13 DEF FollowsFrom, r, b
  <1> QED
    BY <1>1, <1>2

\* What a turn tells of its user.
HeardTurns == [mood : Moods \union {NoMood}, tone : {NoMood, DefaultMood}]

\* A profile that remembers the turns.
Profiled(p, turns) ==
  /\ Remembers(p, turns)
  /\ p.tone \in EmotionStates /\ p.trajectory \in Seq(Arousals) /\ p.turns \in Nat
  /\ turns = <<>> => p.tone = DefaultMood

\* What a turn signals is an emotion, or nothing.
LEMMA SignalIs ==
  ASSUME NEW t \in HeardTurns
  PROVE  /\ SignalOf(t) = NoMood \/ SignalOf(t) \in EmotionStates
         /\ t.mood = NoMood \/ t.mood \in EmotionStates
  <1>1. t.mood \in Moods \union {NoMood} /\ t.tone \in {NoMood, DefaultMood}
    BY DEF HeardTurns
  <1>2. Moods \subseteq EmotionStates /\ DefaultMood \in EmotionStates
    BY PersonaAssumption, DefaultIsEmotion
  <1> QED
    BY <1>1, <1>2 DEF SignalOf

\* The turns with one more.
LEMMA TurnsGrow ==
  ASSUME NEW turns \in Seq(HeardTurns), NEW t \in HeardTurns, NEW more, more = Append(turns, t)
  PROVE  /\ Len(turns) \in Nat /\ DOMAIN turns = 1 .. Len(turns)
         /\ more \in Seq(HeardTurns) /\ more # <<>> /\ Len(more) = Len(turns) + 1
         /\ DOMAIN more = 1 .. (Len(turns) + 1)
         /\ \A i \in DOMAIN turns : i \in DOMAIN more /\ more[i] = turns[i] /\ turns[i] \in HeardTurns
         /\ more[Len(turns) + 1] = t
  <1>1. /\ Len(turns) \in Nat /\ DOMAIN turns = 1 .. Len(turns)
        /\ more \in Seq(HeardTurns) /\ Len(more) = Len(turns) + 1
        /\ DOMAIN more = 1 .. (Len(turns) + 1)
    OBVIOUS
  <1>2. more # <<>>
    BY <1>1
  <1>3. more[Len(turns) + 1] = t
    BY <1>1
  <1>4. \A i \in 1 .. Len(turns) : i \in 1 .. (Len(turns) + 1) /\ more[i] = turns[i] /\ turns[i] \in HeardTurns
    <2> HIDE DEF HeardTurns
    <2> QED
      BY <1>1
  <1> QED
    BY <1>1, <1>2, <1>3, <1>4

\* Preferences come from emotions,
LEMMA SourcesAreEmotions ==
  ASSUME NEW turns \in Seq(HeardTurns)
  PROVE  Sources(turns) \subseteq EmotionStates
  <1>1. \A i \in DOMAIN turns : turns[i] \in HeardTurns
    OBVIOUS
  <1>2. Signals(turns) \subseteq EmotionStates
    BY <1>1, SignalIs DEF Signals
  <1> QED
    BY <1>2, DefaultIsEmotion DEF Sources

\* and one more turn takes none of them away.
LEMMA SourcesGrow ==
  ASSUME NEW turns \in Seq(HeardTurns), NEW t \in HeardTurns, NEW more, more = Append(turns, t)
  PROVE  /\ SignalOf(t) # NoMood => SignalOf(t) \in Sources(more)
         /\ turns # <<>> => Sources(turns) \subseteq Sources(more)
         /\ turns = <<>> /\ SignalOf(t) = NoMood => DefaultMood \in Sources(more)
  <1> DEFINE n == Len(turns)
  <1>1. /\ n \in Nat /\ DOMAIN turns = 1 .. n /\ more # <<>> /\ DOMAIN more = 1 .. (n + 1)
        /\ \A i \in DOMAIN turns : i \in DOMAIN more /\ more[i] = turns[i]
        /\ more[n + 1] = t
    BY TurnsGrow
  <1>2. SignalOf(t) # NoMood => SignalOf(t) \in Signals(more)
    <2>1. n + 1 \in DOMAIN more
      BY <1>1
    <2> QED
      BY <1>1, <2>1 DEF Signals
  <1>3. Signals(turns) \subseteq Signals(more)
    BY <1>1 DEF Signals
  <1>4. turns # <<>> => more[1] = turns[1]
    <2>1. turns # <<>> => 1 \in 1 .. n
      BY <1>1
    <2> QED
      BY <1>1, <2>1
  <1>5. turns = <<>> => more[1] = t
    <2>1. turns = <<>> => n = 0
      OBVIOUS
    <2> QED
      BY <1>1, <2>1
  <1> QED
    BY <1>1, <1>2, <1>3, <1>4, <1>5 DEF Sources

\* A preference between the signals there are.
StaysBetween(tone, more) ==
  /\ tone \in EmotionStates
  /\ \A f \in Fields : /\ \E s \in Sources(more) : s[f] <= tone[f]
                       /\ \E s \in Sources(more) : s[f] >= tone[f]

\* A preference stays between the signals.
LEMMA ToneBetween ==
  ASSUME NEW turns \in Seq(HeardTurns), NEW t \in HeardTurns, NEW more, more = Append(turns, t),
         NEW p, Profiled(p, turns), NEW tone,
         tone = IF SignalOf(t) = NoMood THEN p.tone
                ELSE IF p.turns = 0 THEN ClampEmotion(SignalOf(t)) ELSE Blend(p.tone, SignalOf(t), Alpha)
  PROVE  StaysBetween(tone, more)
  <1> DEFINE g == SignalOf(t)
  <1>1. /\ g # NoMood => g \in Sources(more)
        /\ turns # <<>> => Sources(turns) \subseteq Sources(more)
        /\ turns = <<>> /\ g = NoMood => DefaultMood \in Sources(more)
    BY SourcesGrow
  <1>2. /\ p.tone \in EmotionStates /\ (turns = <<>> => p.tone = DefaultMood)
        /\ (p.turns = 0 <=> turns = <<>>)
        /\ \A f \in Fields : /\ \E s \in Sources(turns) : s[f] <= p.tone[f]
                             /\ \E s \in Sources(turns) : s[f] >= p.tone[f]
    BY DEF Profiled, Remembers
  <1>3. g # NoMood => g \in EmotionStates
    BY SignalIs
  <1>4. \A s \in EmotionStates : \A f \in Fields : s[f] \in Int
    BY EmotionIs
  <1>5. Sources(turns) \subseteq EmotionStates
    BY SourcesAreEmotions
  <1> HIDE DEF g
  <1>6. CASE g = NoMood
    <2>1. tone = p.tone
      BY <1>6 DEF g
    <2>2. CASE turns = <<>>
      <3>1. tone \in Sources(more)
        BY <1>1, <1>2, <1>6, <2>1, <2>2
      <3>2. \A f \in Fields : tone[f] <= tone[f] /\ tone[f] >= tone[f]
        BY <1>2, <1>4, <2>1
      <3> QED
        BY <1>2, <2>1, <3>1, <3>2 DEF StaysBetween
    <2>3. CASE turns # <<>>
      BY <1>1, <1>2, <2>1, <2>3 DEF StaysBetween
    <2> QED
      BY <2>2, <2>3
  <1>7. CASE g # NoMood /\ turns = <<>>
    <2>1. tone = g
      BY <1>2, <1>3, <1>7, ClampKeeps DEF g
    <2>2. \A f \in Fields : tone[f] <= tone[f] /\ tone[f] >= tone[f]
      BY <1>3, <1>4, <1>7, <2>1
    <2> QED
      BY <1>1, <1>3, <1>7, <2>1, <2>2 DEF StaysBetween
  <1>8. CASE g # NoMood /\ turns # <<>>
    <2>1. tone = Blend(p.tone, g, Alpha)
      BY <1>2, <1>8 DEF g
    <2>2. Alpha \in 0 .. 10
      BY PersonaAssumption
    <2>3. /\ tone \in EmotionStates
          /\ \A f \in Fields : /\ p.tone[f] <= tone[f] \/ g[f] <= tone[f]
                               /\ tone[f] <= p.tone[f] \/ tone[f] <= g[f]
      BY <1>2, <1>3, <1>8, <2>1, <2>2, BlendIs
    <2>4. g \in Sources(more) /\ Sources(turns) \subseteq Sources(more)
      BY <1>1, <1>8
    <2>5. ASSUME NEW f \in Fields
          PROVE  /\ \E s \in Sources(more) : s[f] <= tone[f]
                 /\ \E s \in Sources(more) : s[f] >= tone[f]
      <3>1. PICK a \in Sources(turns) : a[f] <= p.tone[f]
        BY <1>2
      <3>2. PICK b \in Sources(turns) : b[f] >= p.tone[f]
        BY <1>2
      <3>3. a[f] \in Int /\ b[f] \in Int /\ p.tone[f] \in Int /\ tone[f] \in Int /\ g[f] \in Int
        BY <1>2, <1>3, <1>4, <1>5, <1>8, <2>3
      <3>4. a[f] <= tone[f] \/ g[f] <= tone[f]
        BY <2>3, <3>1, <3>3
      <3>5. b[f] >= tone[f] \/ g[f] >= tone[f]
        BY <2>3, <3>2, <3>3
      <3> QED
        BY <2>4, <3>4, <3>5
    <2> QED
      BY <2>3, <2>5 DEF StaysBetween
  <1> QED
    BY <1>6, <1>7, <1>8

\* The turns that were felt, and how many after each: as before,
FeltStays(turns, more) ==
  /\ Felt(more) = Felt(turns)
  /\ \A i \in Felt(turns) : FeltAfter(more, i) = FeltAfter(turns, i)

\* or with one more.
FeltMore(turns, more) ==
  /\ Felt(more) = Felt(turns) \union {Len(turns) + 1}
  /\ Cardinality(Felt(more)) = Cardinality(Felt(turns)) + 1
  /\ FeltAfter(more, Len(turns) + 1) = 0
  /\ \A i \in Felt(turns) : FeltAfter(more, i) = FeltAfter(turns, i) + 1

\* How many feelings there are, and how many after one of them, when a turn is added.
LEMMA FeltGrows ==
  ASSUME NEW turns \in Seq(HeardTurns), NEW t \in HeardTurns, NEW more, more = Append(turns, t)
  PROVE  /\ Felt(turns) \in SUBSET (1 .. Len(turns)) /\ Cardinality(Felt(turns)) \in Nat
         /\ \A i \in Felt(turns) : FeltAfter(turns, i) \in 0 .. (Cardinality(Felt(turns)) - 1)
         /\ t.mood = NoMood => FeltStays(turns, more)
         /\ t.mood # NoMood => FeltMore(turns, more)
  <1> DEFINE n == Len(turns)
             F == Felt(turns)
             G == Felt(more)
             After(S, i) == {j \in S : j > i}
  <1>1. /\ n \in Nat /\ DOMAIN turns = 1 .. n /\ DOMAIN more = 1 .. (n + 1)
        /\ \A i \in 1 .. n : i \in 1 .. (n + 1) /\ more[i] = turns[i]
        /\ more[n + 1] = t
    BY TurnsGrow
  <1>2. F \in SUBSET (1 .. n) /\ \A i \in 1 .. n : i \in F <=> turns[i].mood # NoMood
    BY <1>1 DEF Felt
  <1>3. G \in SUBSET (1 .. (n + 1)) /\ \A i \in 1 .. (n + 1) : i \in G <=> more[i].mood # NoMood
    BY <1>1 DEF Felt
  <1>4. \A i : FeltAfter(turns, i) = Cardinality(After(F, i)) /\ FeltAfter(more, i) = Cardinality(After(G, i))
    BY DEF FeltAfter
  <1> HIDE DEF F, G, n
  <1>5. /\ \A i : i \in 1 .. (n + 1) <=> i \in 1 .. n \/ i = n + 1
        /\ n + 1 \notin 1 .. n
    BY <1>1
  <1>6. t.mood = NoMood => G = F
    BY <1>1, <1>2, <1>3, <1>5
  <1>7. t.mood # NoMood => G = F \union {n + 1}
    BY <1>1, <1>2, <1>3, <1>5
  <1>8. IsFiniteSet(F) /\ Cardinality(F) \in Nat
    <2>1. IsFiniteSet(1 .. n)
      BY <1>1, FS_Interval
    <2> QED
      BY <1>2, <2>1, FS_Subset, FS_CardinalityType
  <1>9. \A i : IsFiniteSet(After(F, i)) /\ Cardinality(After(F, i)) \in Nat
    <2> SUFFICES ASSUME NEW i PROVE IsFiniteSet(After(F, i)) /\ Cardinality(After(F, i)) \in Nat
      OBVIOUS
    <2>1. After(F, i) \subseteq F
      OBVIOUS
    <2> QED
      BY <1>8, <2>1, FS_Subset, FS_CardinalityType
  <1>10. \A i \in F : Cardinality(After(F, i)) \in 0 .. (Cardinality(F) - 1)
    <2> SUFFICES ASSUME NEW i \in F PROVE Cardinality(After(F, i)) \in 0 .. (Cardinality(F) - 1)
      OBVIOUS
    <2>1. i \in 1 .. n
      BY <1>2
    <2>2. After(F, i) \subseteq F \ {i}
      BY <2>1
    <2>3. IsFiniteSet(F \ {i}) /\ Cardinality(F \ {i}) = Cardinality(F) - 1
      BY <1>8, FS_RemoveElement
    <2>4. Cardinality(After(F, i)) <= Cardinality(F \ {i})
      <3> HIDE DEF After
      <3> QED
        BY <2>2, <2>3, FS_Subset
    <2>5. Cardinality(After(F, i)) \in Nat
      BY <1>9
    <2> HIDE DEF After
    <2> QED
      BY <1>8, <2>3, <2>4, <2>5
  <1>11. ASSUME t.mood # NoMood
         PROVE  /\ Cardinality(G) = Cardinality(F) + 1
                /\ Cardinality(After(G, n + 1)) = 0
                /\ \A i \in F : Cardinality(After(G, i)) = Cardinality(After(F, i)) + 1
    <2>1. G = F \union {n + 1} /\ n + 1 \notin F
      BY <1>2, <1>5, <1>7, <1>11
    <2>2. Cardinality(G) = Cardinality(F) + 1
      BY <1>8, <2>1, FS_AddElement
    <2>3. After(G, n + 1) = {}
      <3>1. \A j \in F : j \in Nat /\ j <= n
        BY <1>1, <1>2
      <3> QED
        BY <1>1, <2>1, <3>1
    <2>4. Cardinality(After(G, n + 1)) = 0
      BY <2>3, FS_EmptySet
    <2>5. ASSUME NEW i \in F PROVE Cardinality(After(G, i)) = Cardinality(After(F, i)) + 1
      <3>1. i \in Nat /\ i < n + 1
        <4>1. i \in 1 .. n
          BY <1>2
        <4> QED
          BY <1>1, <4>1
      <3>2. After(G, i) = After(F, i) \union {n + 1} /\ n + 1 \notin After(F, i)
        BY <2>1, <3>1, <1>1
      <3> HIDE DEF After
      <3> QED
        BY <1>9, <3>2, FS_AddElement
    <2> QED
      BY <2>2, <2>4, <2>5
  <1> QED
    BY <1>2, <1>4, <1>6, <1>7, <1>8, <1>10, <1>11 DEF F, G, n, FeltStays, FeltMore

\* A list of the newest arousals.
KeepsNewest(w, more) ==
  /\ w \in Seq(Arousals)
  /\ Len(w) = Min({History, Cardinality(Felt(more))})
  /\ \A i \in Felt(more) : FeltAfter(more, i) < History =>
        w[Len(w) - FeltAfter(more, i)] = more[i].mood.arousal

\* The trajectory keeps the newest feelings.
LEMMA TrajectoryGrows ==
  ASSUME NEW turns \in Seq(HeardTurns), NEW t \in HeardTurns, NEW more, more = Append(turns, t),
         NEW p, Profiled(p, turns), NEW w,
         w = IF t.mood = NoMood THEN p.trajectory ELSE Newest(Append(p.trajectory, t.mood.arousal))
  PROVE  KeepsNewest(w, more)
  <1> DEFINE n == Len(turns)
             F == Felt(turns)
             c == Cardinality(F)
             h == p.trajectory
             k == Len(h)
             l == Len(w)
  <1>1. /\ n \in Nat /\ DOMAIN turns = 1 .. n
        /\ \A i \in 1 .. n : more[i] = turns[i]
        /\ more[n + 1] = t
    BY TurnsGrow
  <1>2. /\ F \in SUBSET (1 .. n) /\ c \in Nat
        /\ \A i \in F : FeltAfter(turns, i) \in 0 .. (c - 1)
    BY FeltGrows
  <1>3. /\ h \in Seq(Arousals) /\ k = Min({History, c})
        /\ \A i \in F : FeltAfter(turns, i) < History => h[k - FeltAfter(turns, i)] = turns[i].mood.arousal
    BY DEF Profiled, Remembers
  <1>4. History \in Nat /\ History # 0
    BY PersonaAssumption
  <1>5. k = (IF History <= c THEN History ELSE c) /\ k \in Nat
    <2> HIDE DEF c, k
    <2>1. Min({History, c}) = IF History <= c THEN History ELSE c
      BY <1>2, <1>4, LessOfTwo
    <2> QED
      BY <1>2, <1>3, <1>4, <2>1
  <1>6. CASE t.mood = NoMood
    <2>1. w = h
      BY <1>6
    <2>2. Felt(more) = F /\ \A i \in F : FeltAfter(more, i) = FeltAfter(turns, i)
      <3>1. FeltStays(turns, more)
        BY <1>6, FeltGrows
      <3> QED
        BY <3>1 DEF FeltStays
    <2>3. \A i \in F : more[i] = turns[i]
      BY <1>1, <1>2
    <2> QED
      BY <1>3, <2>1, <2>2, <2>3 DEF KeepsNewest
  <1>7. CASE t.mood # NoMood
    <2> DEFINE r == t.mood.arousal
    <2>1. r \in Arousals
      <3>1. t.mood \in EmotionStates
        BY <1>7, SignalIs
      <3> QED
        BY <3>1, EmotionIs DEF Arousals
    <2>2. w = Window(Append(h, r), History)
      BY <1>7 DEF Newest
    <2>3. k <= History
      BY <1>2, <1>4, <1>5
    <2> HIDE DEF r, h
    <2>4. Slid(Arousals, h, r, History, w)
      BY <1>3, <1>4, <2>1, <2>2, <2>3, WindowGrows
    <2>5. /\ w \in Seq(Arousals) /\ l \in Nat
          /\ l = IF k = History THEN History ELSE k + 1
          /\ \A i \in 1 .. l - 1 : w[i] = h[i + k + 1 - l]
          /\ w[l] = r
      <3>1. /\ w \in Seq(Arousals) /\ w[l] = r
            /\ (k = History => l = History) /\ (k # History => l = k + 1)
            /\ \A i \in 1 .. l - 1 : w[i] = h[i + k + 1 - l]
        BY <2>4, Zenon DEF Slid
      <3>2. l \in Nat
        <4>1. w \in Seq(Arousals)
          BY <3>1
        <4> QED
          BY <4>1
      <3> HIDE DEF k, l
      <3> QED
        BY <3>1, <3>2
    <2>6. /\ Felt(more) = F \union {n + 1} /\ Cardinality(Felt(more)) = c + 1
          /\ FeltAfter(more, n + 1) = 0
          /\ \A i \in F : FeltAfter(more, i) = FeltAfter(turns, i) + 1
      <3>1. FeltMore(turns, more)
        BY <1>7, FeltGrows
      <3> QED
        BY <3>1 DEF FeltMore
    <2> HIDE DEF k, l, c, F, n
    <2>7. l = IF History <= c + 1 THEN History ELSE c + 1
      BY <1>2, <1>4, <1>5, <2>5
    <2>8. l = Min({History, c + 1})
      BY <1>2, <1>4, <2>7, LessOfTwo
    <2>9. w[l - FeltAfter(more, n + 1)] = more[n + 1].mood.arousal
      BY <1>1, <2>5, <2>6 DEF r
    <2>10. ASSUME NEW i \in F, FeltAfter(more, i) < History
           PROVE  w[l - FeltAfter(more, i)] = more[i].mood.arousal
      <3> DEFINE a == FeltAfter(turns, i)
                 j == l - (a + 1)
      <3>1. a \in 0 .. (c - 1) /\ FeltAfter(more, i) = a + 1
        BY <1>2, <2>6
      <3> HIDE DEF a
      <3>2. a < History /\ a + 1 < History /\ a + 1 <= c /\ a \in Nat
        BY <1>2, <1>4, <2>10, <3>1
      <3>3. j \in 1 .. l - 1
        BY <1>2, <1>4, <2>5, <2>7, <3>2, SMTT(30)
      <3>4. w[j] = h[j + k + 1 - l]
        BY <2>5, <3>3
      <3>5. j + k + 1 - l = k - a
        <4>1. k \in Nat /\ l \in Nat /\ a \in Nat
          BY <1>5, <2>5, <3>2
        <4> QED
          BY <4>1
      <3>6. h[k - a] = turns[i].mood.arousal
        BY <1>3, <3>2 DEF a
      <3>7. more[i] = turns[i]
        BY <1>1, <1>2
      <3>8. l - FeltAfter(more, i) = j
        BY <3>1
      <3> QED
        BY <3>4, <3>5, <3>6, <3>7, <3>8
    <2>11. \A i \in F \union {n + 1} : FeltAfter(more, i) < History =>
               w[l - FeltAfter(more, i)] = more[i].mood.arousal
      BY <2>9, <2>10
    <2> QED
      BY <2>5, <2>6, <2>8, <2>11 DEF l, KeepsNewest
  <1> QED
    BY <1>6, <1>7

\* A turn is remembered, whatever it told.
LEMMA TurnRemembered ==
  ASSUME NEW turns \in Seq(HeardTurns), NEW p, Profiled(p, turns),
         NEW mood \in Moods \union {NoMood}, NEW wish \in {NoMood, DefaultMood}, NEW length
  PROVE  LET more == Append(turns, [mood |-> mood, tone |-> wish])
         IN Profiled(AfterTurn(p, mood, length, wish), more) /\ more \in Seq(HeardTurns)
  <1> DEFINE t == [mood |-> mood, tone |-> wish]
             more == Append(turns, t)
             q == AfterTurn(p, mood, length, wish)
             w == IF mood = NoMood THEN p.trajectory ELSE Newest(Append(p.trajectory, mood.arousal))
             g == IF wish # NoMood THEN wish ELSE mood
             tone == IF g = NoMood THEN p.tone
                     ELSE IF p.turns = 0 THEN ClampEmotion(g) ELSE Blend(p.tone, g, Alpha)
  <1>1. t \in HeardTurns /\ t.mood = mood /\ SignalOf(t) = g
    BY DEF HeardTurns, SignalOf
  <1>2. q.turns = p.turns + 1 /\ q.tone = tone /\ q.trajectory = w
    BY DEF AfterTurn
  <1>3. more \in Seq(HeardTurns) /\ more # <<>> /\ Len(more) = Len(turns) + 1
    <2> HIDE DEF t
    <2> QED
      BY <1>1, TurnsGrow
  <1>4. p.turns \in Nat /\ p.turns = Len(turns)
    BY DEF Profiled, Remembers
  <1>5. more = Append(turns, t)
    OBVIOUS
  <1>6. KeepsNewest(w, more)
    <2>1. w = IF t.mood = NoMood THEN p.trajectory ELSE Newest(Append(p.trajectory, t.mood.arousal))
      BY <1>1
    <2> HIDE DEF w, t, more
    <2> QED
      BY <1>1, <1>5, <2>1, TrajectoryGrows
  <1>7. StaysBetween(tone, more)
    <2>1. tone = IF SignalOf(t) = NoMood THEN p.tone
                ELSE IF p.turns = 0 THEN ClampEmotion(SignalOf(t)) ELSE Blend(p.tone, SignalOf(t), Alpha)
      BY <1>1
    <2> HIDE DEF tone, t, more
    <2> QED
      BY <1>1, <1>5, <2>1, ToneBetween
  <1> HIDE DEF tone, w, q, more
  <1>8. q.turns \in Nat /\ q.turns = Len(more)
    BY <1>2, <1>3, <1>4
  <1>9. Profiled(q, more)
    BY <1>2, <1>3, <1>6, <1>7, <1>8 DEF Profiled, Remembers, KeepsNewest, StaysBetween
  <1> QED
    BY <1>3, <1>9 DEF q, more

-----------------------------------------------------------------------------
\* Every profile remembers its user, and what was answered followed from it.
PersonaInv ==
  /\ DOMAIN profile = Users /\ DOMAIN observed = Users
  /\ \A u \in Users : Profiled(profile[u], observed[u]) /\ observed[u] \in Seq(HeardTurns)
  /\ adapted.user \in Users =>
        /\ adapted.target \in EmotionStates
        /\ adapted.result = Adapted(profile[adapted.user], adapted.target)
  /\ shaped.emotion \in EmotionStates

\* A stranger's profile remembers nothing.
LEMMA StrangerIsProfiled == Profiled(Stranger, <<>>) /\ <<>> \in Seq(HeardTurns)
  <1>1. /\ Stranger.tone = DefaultMood /\ Stranger.trajectory = <<>> /\ Stranger.turns = 0
    BY DEF Stranger
  <1>2. Felt(<<>>) = {} /\ Cardinality(Felt(<<>>)) = 0
    BY FS_EmptySet DEF Felt
  <1>3. Min({History, 0}) = 0
    <2>1. History \in Nat
      BY PersonaAssumption
    <2> QED
      BY <2>1, LessOfTwo
  <1>4. Sources(<<>>) = {DefaultMood}
    BY DEF Sources, Signals
  <1>5. \A f \in Fields : DefaultMood[f] \in Int
    BY DefaultIsEmotion, EmotionIs
  <1>6. \A f \in Fields : DefaultMood[f] <= DefaultMood[f] /\ DefaultMood[f] >= DefaultMood[f]
    BY <1>5
  <1> DEFINE q == Stranger
             e == <<>>
  <1>7. Remembers(q, e)
    <2>1. Len(e) = 0 /\ Len(q.trajectory) = 0
      BY <1>1
    <2> HIDE DEF q, e
    <2> QED
      BY <1>1, <1>2, <1>3, <1>4, <1>6, <2>1 DEF Remembers, q, e
  <1> QED
    BY <1>1, <1>7, DefaultIsEmotion DEF Profiled

\* The persona knows its user in every state.
LEMMA PersonaInvariance ==
  /\ PersonaInit => PersonaInv
  /\ PersonaInv /\ PersonaNext => PersonaInv'
  /\ PersonaInv /\ UNCHANGED personaVars => PersonaInv'
  /\ PersonaInv => PersonaKnowsItsUser
  <1>0. NotAdapted.user \notin Users
    BY PersonaAssumption DEF NotAdapted
  <1>1. ASSUME PersonaInit PROVE PersonaInv
    <2>1. /\ profile = [u \in Users |-> Stranger] /\ observed = [u \in Users |-> <<>>]
          /\ adapted = NotAdapted /\ shaped.emotion = DefaultMood
      BY <1>1 DEF PersonaInit
    <2>2. \A u \in Users : profile[u] = Stranger /\ observed[u] = <<>>
      BY <2>1
    <2> QED
      BY <1>0, <2>1, <2>2, StrangerIsProfiled, DefaultIsEmotion DEF PersonaInv
  <1>2. ASSUME PersonaInv, PersonaNext PROVE PersonaInv'
    <2>1. ASSUME NEW u \in Users, NEW mood \in Moods \union {NoMood}, NEW length \in {NoLength, 20},
                 NEW wish \in {NoMood, DefaultMood}, ObserveTurn(u, mood, length, wish)
          PROVE  PersonaInv'
      <3> DEFINE p == profile[u]
                 q == AfterTurn(p, mood, length, wish)
                 more == Append(observed[u], [mood |-> mood, tone |-> wish])
      <3>1. /\ profile' = [profile EXCEPT ![u] = q]
            /\ observed' = [observed EXCEPT ![u] = more]
            /\ adapted' = NotAdapted /\ shaped' = shaped
        BY <2>1, Zenon DEF ObserveTurn
      <3>2. Profiled(q, more) /\ more \in Seq(HeardTurns)
        <4>1. observed[u] \in Seq(HeardTurns) /\ Profiled(p, observed[u])
          BY <1>2 DEF PersonaInv
        <4> DEFINE o == observed[u]
        <4>2. o \in Seq(HeardTurns) /\ Profiled(p, o)
          BY <4>1
        <4> HIDE DEF p, o
        <4>3. LET all == Append(o, [mood |-> mood, tone |-> wish])
              IN Profiled(AfterTurn(p, mood, length, wish), all) /\ all \in Seq(HeardTurns)
          BY <4>2, TurnRemembered
        <4> QED
          BY <4>3 DEF o
      <3> HIDE DEF q, more
      <3>3. /\ DOMAIN profile' = Users /\ DOMAIN observed' = Users
            /\ profile'[u] = q /\ observed'[u] = more
            /\ \A v \in Users : v # u => profile'[v] = profile[v] /\ observed'[v] = observed[v]
        BY <1>2, <3>1 DEF PersonaInv
      <3>4. \A v \in Users : Profiled(profile'[v], observed'[v]) /\ observed'[v] \in Seq(HeardTurns)
        BY <1>2, <3>2, <3>3 DEF PersonaInv
      <3> QED
        BY <1>0, <1>2, <3>1, <3>3, <3>4 DEF PersonaInv
    <2>2. ASSUME NEW u \in Users, NEW target \in Moods, AdaptEmotion(u, target) PROVE PersonaInv'
      <3>1. /\ adapted' = [user |-> u, target |-> target, result |-> Adapted(profile[u], target)]
            /\ profile' = profile /\ shaped' = shaped /\ observed' = observed
        BY <2>2 DEF AdaptEmotion
      <3>2. target \in EmotionStates
        BY PersonaAssumption
      <3>3. adapted'.user = u /\ adapted'.target = target /\ adapted'.result = Adapted(profile[u], target)
        BY <3>1
      <3> QED
        BY <1>2, <3>1, <3>2, <3>3 DEF PersonaInv
    <2>3. ASSUME NEW u \in Users, ResetUser(u) PROVE PersonaInv'
      <3>1. /\ profile' = [profile EXCEPT ![u] = Stranger]
            /\ observed' = [observed EXCEPT ![u] = <<>>]
            /\ adapted' = NotAdapted /\ shaped' = shaped
        BY <2>3 DEF ResetUser
      <3>2. /\ DOMAIN profile' = Users /\ DOMAIN observed' = Users
            /\ profile'[u] = Stranger /\ observed'[u] = <<>>
            /\ \A v \in Users : v # u => profile'[v] = profile[v] /\ observed'[v] = observed[v]
        BY <1>2, <3>1 DEF PersonaInv
      <3>3. \A v \in Users : Profiled(profile'[v], observed'[v]) /\ observed'[v] \in Seq(HeardTurns)
        BY <1>2, <3>2, StrangerIsProfiled DEF PersonaInv
      <3> QED
        BY <1>0, <1>2, <3>1, <3>2, <3>3 DEF PersonaInv
    <2>4. ASSUME NEW m \in Moods, NEW b \in BOOLEAN, Shape(m, b) PROVE PersonaInv'
      <3> DEFINE e == IF b THEN Blend(shaped.emotion, m, 5) ELSE ClampEmotion(m)
      <3>1. /\ shaped' = [persona |-> "default", emotion |-> e]
            /\ profile' = profile /\ adapted' = adapted /\ observed' = observed
        BY <2>4 DEF Shape
      <3>2. m \in EmotionStates /\ shaped.emotion \in EmotionStates
        BY <1>2, PersonaAssumption DEF PersonaInv
      <3>3. Blend(shaped.emotion, m, 5) \in EmotionStates /\ ClampEmotion(m) \in EmotionStates
        <4> DEFINE s == shaped.emotion
        <4>1. 5 \in 0 .. 10 /\ s \in EmotionStates
          BY <3>2
        <4> HIDE DEF s
        <4>2. Blend(s, m, 5) \in EmotionStates
          BY <3>2, <4>1, BlendIs
        <4> QED
          BY <3>2, <4>2, ClampKeeps DEF s
      <3>4. e \in EmotionStates
        BY <3>3
      <3>5. shaped'.emotion = e
        BY <3>1
      <3> HIDE DEF e
      <3> QED
        BY <1>2, <3>1, <3>4, <3>5 DEF PersonaInv
    <2> QED
      BY <1>2, <2>1, <2>2, <2>3, <2>4 DEF PersonaNext
  <1>3. ASSUME PersonaInv, UNCHANGED personaVars PROVE PersonaInv'
    <2>1. profile' = profile /\ adapted' = adapted /\ shaped' = shaped /\ observed' = observed
      BY <1>3 DEF personaVars
    <2> QED
      BY <1>3, <2>1 DEF PersonaInv
  <1>4. ASSUME PersonaInv PROVE PersonaKnowsItsUser
    <2>1. \A u \in Users : Remembers(profile[u], observed[u])
      BY <1>4 DEF PersonaInv, Profiled
    <2>2. InScale(shaped.emotion)
      BY <1>4, EmotionIs DEF PersonaInv
    <2>3. ASSUME adapted.user \in Users
          PROVE  FollowsFrom(profile[adapted.user], adapted.target, adapted.result)
      <3> DEFINE p == profile[adapted.user]
      <3>1. /\ adapted.target \in EmotionStates
            /\ adapted.result = Adapted(p, adapted.target)
            /\ Profiled(p, observed[adapted.user])
        BY <1>4, <2>3 DEF PersonaInv
      <3>2. p.trajectory \in Seq(Arousals) /\ p.tone \in EmotionStates /\ p.turns \in Nat
        BY <3>1 DEF Profiled
      <3> HIDE DEF p
      <3>3. FollowsFrom(p, adapted.target, Adapted(p, adapted.target))
        BY <3>1, <3>2, AdaptedFollows
      <3> QED
        BY <3>1, <3>3 DEF p
    <2> QED
      BY <2>1, <2>2, <2>3 DEF PersonaKnowsItsUser
  <1> QED
    BY <1>1, <1>2, <1>3, <1>4

-----------------------------------------------------------------------------
(***************************************************************************)
(* The context made of retrieved memories                                  *)
(***************************************************************************)

\* A text, and a list of records.
Written(text) == text.words \in Seq(Nat) /\ text.ends \subseteq DOMAIN text.words

Listed(recs) ==
  /\ Len(recs) \in Nat /\ DOMAIN recs = 1 .. Len(recs)
  /\ \A i \in DOMAIN recs : Written(recs[i].text) /\ recs[i].ts \in Int /\ recs[i].score \in Int

\* A text cut to size keeps within it, but for the ellipsis.
LEMMA PieceIs ==
  ASSUME NEW text, Written(text)
  PROVE  CompressTurn(text, PieceMax).length \in Int /\ PieceFits(text)
  <1> DEFINE w == text.words
             n == Len(w)
             F == FittingSentences(text, PieceMax)
             I == {i \in DOMAIN w : i < n /\ Reach(text, i) - 1 < PieceMax}
  <1>1. PieceMax \in Nat
    BY SummaryAssumption
  <1>2. n \in Nat /\ DOMAIN w = 1 .. n /\ \A i \in 1 .. n : w[i] \in Int
    <2>1. w \in Seq(Nat)
      BY DEF Written
    <2> HIDE DEF w
    <2> QED
      BY <2>1
  <1>3. \A i \in 0 .. n : Reach(text, i) \in Int
    <2>1. \A i \in 0 .. n : Sums(w)[i] \in Int
      <3> HIDE DEF w
      <3> QED
        BY <1>2, SumsAre
    <2> HIDE DEF n
    <2> QED
      BY <1>2, <2>1 DEF Reach
  <1>4. text.ends \in SUBSET (1 .. n)
    BY <1>2 DEF Written
  <1>5. LengthOf(text) \in Int
    <2>1. n \in 0 .. n
      BY <1>2
    <2> QED
      BY <1>3, <2>1 DEF LengthOf
  <1>6. CASE LengthOf(text) <= PieceMax
    <2>1. CompressTurn(text, PieceMax).length = LengthOf(text)
      BY <1>6 DEF CompressTurn
    <2> QED
      BY <1>1, <1>5, <1>6, <2>1 DEF PieceFits
  <1>7. CASE ~(LengthOf(text) <= PieceMax) /\ F # {}
    <2>1. F \in SUBSET (1 .. n)
      BY <1>4 DEF FittingSentences
    <2>2. Max(F) \in F
      <3> HIDE DEF F, n
      <3> QED
        BY <1>2, <1>7, <2>1, GreatestIn
    <2>3. Reach(text, Max(F)) <= PieceMax
      BY <2>2 DEF FittingSentences
    <2>4. Reach(text, Max(F)) \in Int
      BY <1>2, <1>3, <2>1, <2>2
    <2>5. CompressTurn(text, PieceMax).length = Reach(text, Max(F)) - 1 - 1 + 2
      BY <1>7 DEF CompressTurn
    <2> HIDE DEF F
    <2> QED
      BY <1>1, <2>3, <2>4, <2>5 DEF PieceFits
  <1>8. CASE ~(LengthOf(text) <= PieceMax) /\ F = {}
    <2>1. CompressTurn(text, PieceMax) = WordCut(text, PieceMax)
      BY <1>8 DEF CompressTurn
    <2>2. \A e \in text.ends : Reach(text, e) > PieceMax
      BY <1>1, <1>3, <1>4, <1>8 DEF FittingSentences
    <2>3. CASE I = {}
      <3>1. CompressTurn(text, PieceMax).length = PieceMax + 2
        BY <2>1, <2>3 DEF WordCut
      <3> QED
        BY <1>1, <2>2, <3>1 DEF PieceFits
    <2>4. CASE I # {}
      <3>1. I \in SUBSET (1 .. n)
        BY <1>2
      <3>2. Max(I) \in I
        <4> HIDE DEF I, n
        <4> QED
          BY <1>2, <2>4, <3>1, GreatestIn
      <3>3. Reach(text, Max(I)) - 1 < PieceMax /\ Reach(text, Max(I)) \in Int
        BY <1>2, <1>3, <3>1, <3>2
      <3>4. CompressTurn(text, PieceMax).length = Reach(text, Max(I)) - 1 + 2
        BY <2>1, <2>4 DEF WordCut
      <3> HIDE DEF I
      <3> QED
        BY <1>1, <2>2, <3>3, <3>4 DEF PieceFits
    <2> QED
      BY <2>3, <2>4
  <1> QED
    BY <1>6, <1>7, <1>8

\* The records of a list can be told apart by when they came, by how relevant
\* they are and by their place.
LEMMA OrdersAre ==
  ASSUME NEW recs, Listed(recs)
  PROVE  /\ IsFiniteSet(DOMAIN recs)
         /\ StrictOrder(DOMAIN recs, AsGiven(recs))
         /\ StrictOrder(DOMAIN recs, BestFirst(recs))
         /\ StrictOrder(DOMAIN recs, DigestOrder(recs))
         /\ StrictOrder(DOMAIN recs, NewerFirst(recs, AsGiven(recs)))
  <1> DEFINE D == DOMAIN recs
             n == Len(recs)
             ts(i) == recs[i].ts
             score(i) == recs[i].score
  <1>1. D = 1 .. n /\ n \in Nat /\ \A i \in D : ts(i) \in Int /\ score(i) \in Int
    BY DEF Listed
  <1>2. IsFiniteSet(D)
    BY <1>1, FS_Interval
  <1>3. \A i, j : <<i, j>> \in AsGiven(recs) <=> i \in D /\ j \in D /\ i < j
    BY DEF AsGiven, PairsOf
  <1>4. \A i, j : <<i, j>> \in BestFirst(recs)
                    <=> i \in D /\ j \in D /\ (score(i) > score(j) \/ (score(i) = score(j) /\ i < j))
    <2> SUFFICES ASSUME NEW i, NEW j
                 PROVE  <<i, j>> \in BestFirst(recs)
                          <=> i \in D /\ j \in D /\ (score(i) > score(j) \/ (score(i) = score(j) /\ i < j))
      OBVIOUS
    <2> DEFINE p == <<i, j>>
    <2>1. p[1] = i /\ p[2] = j /\ (p \in D \X D <=> i \in D /\ j \in D)
      OBVIOUS
    <2> HIDE DEF p
    <2>2. p \in BestFirst(recs)
            <=> p \in D \X D /\ (score(p[1]) > score(p[2]) \/ (score(p[1]) = score(p[2]) /\ p[1] < p[2]))
      BY Zenon DEF BestFirst, PairsOf
    <2>3. p \in BestFirst(recs)
            <=> i \in D /\ j \in D /\ (score(i) > score(j) \/ (score(i) = score(j) /\ i < j))
      BY <2>1, <2>2, Zenon
    <2> QED
      BY <2>3 DEF p
  <1>5. \A ties : \A i, j : <<i, j>> \in NewerFirst(recs, ties)
                    <=> i \in D /\ j \in D /\ (ts(i) > ts(j) \/ (ts(i) = ts(j) /\ <<i, j>> \in ties))
    <2> SUFFICES ASSUME NEW ties, NEW i, NEW j
                 PROVE  <<i, j>> \in NewerFirst(recs, ties)
                          <=> i \in D /\ j \in D /\ (ts(i) > ts(j) \/ (ts(i) = ts(j) /\ <<i, j>> \in ties))
      OBVIOUS
    <2> DEFINE p == <<i, j>>
    <2>1. p[1] = i /\ p[2] = j /\ (p \in D \X D <=> i \in D /\ j \in D)
      OBVIOUS
    <2> HIDE DEF p
    <2>2. p \in NewerFirst(recs, ties)
            <=> p \in D \X D /\ (ts(p[1]) > ts(p[2]) \/ (ts(p[1]) = ts(p[2]) /\ p \in ties))
      BY Zenon DEF NewerFirst, PairsOf
    <2>3. p \in NewerFirst(recs, ties)
            <=> i \in D /\ j \in D /\ (ts(i) > ts(j) \/ (ts(i) = ts(j) /\ p \in ties))
      BY <2>1, <2>2, Zenon
    <2> QED
      BY <2>3 DEF p
  <1>6. \A i \in D : i \in Int
    BY <1>1
  <1> HIDE DEF D, n, ts, score
  <1>7. StrictOrder(D, AsGiven(recs))
    BY <1>3, <1>6 DEF StrictOrder
  <1>8. StrictOrder(D, BestFirst(recs))
    <2> DEFINE B == BestFirst(recs)
    <2>1. \A i \in D : <<i, i>> \notin B
      BY <1>1, <1>4, <1>6
    <2>2. ASSUME NEW i \in D, NEW j \in D, NEW k \in D, <<i, j>> \in B, <<j, k>> \in B PROVE <<i, k>> \in B
      BY <1>1, <1>4, <1>6, <2>2, SMTT(30)
    <2>3. ASSUME NEW i \in D, NEW j \in D PROVE i = j \/ <<i, j>> \in B \/ <<j, i>> \in B
      BY <1>1, <1>4, <1>6, SMTT(30)
    <2> HIDE DEF B
    <2>4. StrictOrder(D, B)
      BY <2>1, <2>2, <2>3 DEF StrictOrder
    <2> QED
      BY <2>4 DEF B
  <1>9. ASSUME NEW ties, StrictOrder(D, ties)
        PROVE  StrictOrder(D, NewerFirst(recs, ties))
    <2> DEFINE B == NewerFirst(recs, ties)
    <2>4. \A i, j : <<i, j>> \in B
                   <=> i \in D /\ j \in D /\ (ts(i) > ts(j) \/ (ts(i) = ts(j) /\ <<i, j>> \in ties))
      BY <1>5
    <2> HIDE DEF B
    <2>5. /\ \A i \in D : <<i, i>> \notin ties
          /\ \A i, j, k \in D : <<i, j>> \in ties /\ <<j, k>> \in ties => <<i, k>> \in ties
          /\ \A i, j \in D : i = j \/ <<i, j>> \in ties \/ <<j, i>> \in ties
      BY <1>9 DEF StrictOrder
    <2>1. ASSUME NEW i \in D PROVE <<i, i>> \notin B
      <3>1. ~(ts(i) > ts(i)) /\ <<i, i>> \notin ties
        BY <1>1, <2>5
      <3> QED
        BY <2>4, <3>1, Zenon
    <2>2. ASSUME NEW i \in D, NEW j \in D, NEW k \in D, <<i, j>> \in B, <<j, k>> \in B PROVE <<i, k>> \in B
      BY <1>1, <2>4, <2>5, <2>2, SMTT(30)
    <2>3. ASSUME NEW i \in D, NEW j \in D PROVE i = j \/ <<i, j>> \in B \/ <<j, i>> \in B
      BY <1>1, <2>4, <2>5, SMTT(30)
    <2>6. StrictOrder(D, B)
      BY <2>1, <2>2, <2>3 DEF StrictOrder
    <2> QED
      BY <2>6 DEF B
  <1>10. StrictOrder(D, DigestOrder(recs))
    BY <1>8, <1>9 DEF DigestOrder
  <1>11. StrictOrder(D, NewerFirst(recs, AsGiven(recs)))
    BY <1>7, <1>9
  <1> QED
    BY <1>2, <1>7, <1>8, <1>10, <1>11 DEF D

\* The best are chosen among the relevant.
LEMMA ContextKeepsTheBest ==
  ASSUME NEW recs, Listed(recs)
  PROVE  ContextIsBest(recs)
  <1> DEFINE D == DOMAIN recs
             B == BestFirst(recs)
             S == Relevant(recs)
             C == Chosen(recs)
  <1>1. ContextMax \in Nat /\ MinRelevance \in Int
    BY SummaryAssumption
  <1>2. \A i \in D : recs[i].score \in Int
    BY DEF Listed
  <1>3. S \in SUBSET D /\ IsFiniteSet(S)
    BY OrdersAre, FS_Subset DEF Relevant
  <1>4. StrictOrder(S, B)
    BY <1>3, OrdersAre, OrderOfSome
  <1>5. C = Foremost(S, B, ContextMax) /\ C \subseteq S
    BY DEF Chosen, Foremost
  <1>6. Cardinality(S) \in Nat
    BY <1>3, FS_CardinalityType
  <1>7. Cardinality(C) = IF ContextMax <= Cardinality(S) THEN ContextMax ELSE Cardinality(S)
    BY <1>1, <1>3, <1>4, <1>5, ForemostCounts
  <1>8. \A k \in C : \A i \in S \ C : <<k, i>> \in B
    BY <1>1, <1>3, <1>4, <1>5, ForemostAreAhead
  <1>9. \A k, i \in D : <<k, i>> \in B => recs[k].score >= recs[i].score
    BY <1>2 DEF BestFirst
  <1>10. ASSUME NEW i \in D, recs[i].score >= MinRelevance
         PROVE  \/ \E k \in C : recs[k].text = recs[i].text
                \/ Cardinality(C) = ContextMax
                \/ \E j \in 1 .. i - 1 : recs[j].text = recs[i].text
    <2>1. CASE i \notin S
      BY <1>10, <2>1 DEF Relevant
    <2>2. CASE i \in C
      BY <2>2
    <2>3. CASE i \in S /\ i \notin C
      <3> SUFFICES ASSUME Cardinality(C) # ContextMax PROVE FALSE
        OBVIOUS
      <3>1. Cardinality(C) = Cardinality(S)
        BY <1>7
      <3>2. C = S
        BY <1>3, <1>5, <3>1, FS_Subset
      <3> QED
        BY <2>3, <3>2
    <2> QED
      BY <2>1, <2>2, <2>3
  <1>11. \A k \in C : \A i \in S \ C : recs[k].score >= recs[i].score
    BY <1>3, <1>5, <1>8, <1>9
  <1>12. Cardinality(C) <= ContextMax
    BY <1>1, <1>6, <1>7
  <1> QED
    BY <1>10, <1>11, <1>12 DEF ContextIsBest

\* The freshest of the young are retained.
LEMMA PruningKeepsTheFreshest ==
  ASSUME NEW recs, Listed(recs), NEW now \in Int
  PROVE  PruningIsFair(recs, now)
  <1> DEFINE D == DOMAIN recs
             N == NewerFirst(recs, AsGiven(recs))
             Y == Young(recs, now)
             K == Retained(recs, now)
             P == Pruned(recs, now)
  <1>1. MaxKeep \in Nat /\ MaxAge \in Int
    BY SummaryAssumption
  <1>2. \A i \in D : recs[i].ts \in Int
    BY DEF Listed
  <1>3. Y \in SUBSET D /\ IsFiniteSet(Y)
    BY OrdersAre, FS_Subset DEF Young
  <1>4. StrictOrder(Y, N)
    BY <1>3, OrdersAre, OrderOfSome
  <1>5. K = Foremost(Y, N, MaxKeep) /\ K \subseteq Y
    BY DEF Retained, Foremost
  <1>6. Cardinality(Y) \in Nat
    BY <1>3, FS_CardinalityType
  <1>7. Cardinality(K) = IF MaxKeep <= Cardinality(Y) THEN MaxKeep ELSE Cardinality(Y)
    BY <1>1, <1>3, <1>4, <1>5, ForemostCounts
  <1>8. Cardinality(K) = Min({MaxKeep, Cardinality(Y)})
    BY <1>1, <1>6, <1>7, LessOfTwo
  <1>9. \A k \in K : \A d \in Y \ K : <<k, d>> \in N
    BY <1>1, <1>3, <1>4, <1>5, ForemostAreAhead
  <1>10. P = (D \ Y) \union (Y \ K)
    BY DEF Pruned
  <1>11. \A i \in D : i \in Y <=> now - recs[i].ts <= MaxAge
    BY DEF Young
  <1>12. \A k, d \in D : <<k, d>> \in N => recs[k].ts >= recs[d].ts
    BY <1>2 DEF NewerFirst
  <1>13. ASSUME NEW k \in K, NEW d \in P PROVE recs[k].ts >= recs[d].ts
    <2>1. k \in D /\ k \in Y /\ d \in D
      BY <1>3, <1>5, <1>10
    <2>2. CASE d \in Y \ K
      BY <1>9, <1>12, <2>1, <2>2
    <2>3. CASE d \in D \ Y
      <3>1. recs[k].ts \in Int /\ recs[d].ts \in Int
        BY <1>2, <2>1
      <3>2. now - recs[k].ts <= MaxAge /\ ~(now - recs[d].ts <= MaxAge)
        BY <1>11, <2>1, <2>3
      <3> QED
        BY <1>1, <3>1, <3>2
    <2> QED
      BY <1>10, <2>2, <2>3
  <1>14. K \union P = D /\ K \intersect P = {}
    BY <1>3, <1>5, <1>10
  <1> QED
    BY <1>8, <1>13, <1>14 DEF PruningIsFair

\* What is told is the newest that fits.
LEMMA DigestTellsTheNewest ==
  ASSUME NEW recs, Listed(recs)
  PROVE  DigestFits(recs)
  <1> DEFINE D == DOMAIN recs
             R == DigestOrder(recs)
             C == Candidates(recs)
             Told == SummarizeMemories(recs)
  <1>1. DigestMax \in Nat
    BY SummaryAssumption
  <1>2. StrictOrder(D, R) /\ IsFiniteSet(D)
    BY OrdersAre
  <1>3. C \subseteq Chosen(recs) /\ C \subseteq D
    BY DEF Candidates, Chosen, Foremost, Relevant
  <1>4. Told \subseteq C /\ Told \subseteq D
    BY <1>3 DEF SummarizeMemories
  <1>5. ASSUME NEW i \in Told, NEW j \in C, <<j, i>> \in R
        PROVE  j \in Told
    <2>1. UpTo(recs, j) \subseteq UpTo(recs, i)
      BY <1>2, <1>3, <1>4, <1>5 DEF UpTo, StrictOrder
    <2>2. \A k \in UpTo(recs, i) : TotalOf(recs, UpTo(recs, k)) <= DigestMax
      BY DEF SummarizeMemories
    <2> QED
      BY <2>1, <2>2 DEF SummarizeMemories
  <1>6. TotalOf(recs, Told) <= DigestMax
    <2>1. CASE Told = {}
      <3> DEFINE n == Len(recs)
                 t == [i \in D |-> IF i \in Told THEN LineLength(recs[i]) ELSE 0]
      <3>1. n \in Nat /\ D = 1 .. n
        BY DEF Listed
      <3>2. t = [i \in 1 .. n |-> 0]
        BY <2>1, <3>1
      <3>3. n = Len(t) /\ n \in 0 .. n
        <4> HIDE DEF t, n
        <4> QED
          BY <3>1, <3>2
      <3>4. \A i \in 1 .. n : t[i] = 0 /\ t[i] \in Int
        <4> HIDE DEF t, n
        <4> QED
          BY <3>1, <3>2
      <3>5. Sums(t)[n] = 0
        <4> HIDE DEF t, n
        <4> QED
          BY <3>1, <3>3, <3>4, SumsAre
      <3>6. TotalOf(recs, Told) = 0
        BY <3>5 DEF TotalOf
      <3> QED
        BY <1>1, <3>6
    <2>2. CASE Told # {}
      <3>1. IsFiniteSet(Told) /\ StrictOrder(Told, R)
        BY <1>2, <1>4, FS_Subset, OrderOfSome
      <3>2. PICK l \in Told : \A y \in Told : y = l \/ <<y, l>> \in R
        <4> HIDE DEF Told, R
        <4> QED
          BY <2>2, <3>1, EndsOfSome
      <3>3. Told = UpTo(recs, l)
        <4>1. UpTo(recs, l) = {l} \union {j \in C : <<j, l>> \in R}
          BY DEF UpTo
        <4> HIDE DEF Told, R, C
        <4> QED
          BY <1>4, <1>5, <3>2, <4>1
      <3>4. l \in UpTo(recs, l)
        BY DEF UpTo
      <3>5. TotalOf(recs, UpTo(recs, l)) <= DigestMax
        BY <3>4 DEF SummarizeMemories
      <3> QED
        BY <3>3, <3>5
    <2> QED
      BY <2>1, <2>2
  <1>7. ASSUME NEW i \in Told, NEW j \in Told, i # j
        PROVE  PieceOf(recs[i]) # PieceOf(recs[j])
    <2>1. <<i, j>> \in R \/ <<j, i>> \in R
      BY <1>2, <1>4, <1>7 DEF StrictOrder
    <2>2. i \in C /\ j \in C /\ i \in Chosen(recs) /\ j \in Chosen(recs)
      BY <1>3, <1>4
    <2> HIDE DEF R
    <2> QED
      BY <2>1, <2>2 DEF Candidates, R
  <1>8. ASSUME NEW i \in Told, NEW j \in C \ Told
        PROVE  recs[i].ts >= recs[j].ts
    <2>1. i \in D /\ j \in D /\ i # j
      BY <1>3, <1>4
    <2>2. <<i, j>> \in R
      BY <1>2, <1>5, <2>1 DEF StrictOrder
    <2>3. recs[i].ts \in Int /\ recs[j].ts \in Int
      BY <2>1 DEF Listed
    <2>4. recs[i].ts > recs[j].ts \/ recs[i].ts = recs[j].ts
      BY <2>2 DEF DigestOrder, NewerFirst
    <2> QED
      BY <2>3, <2>4
  <1> HIDE DEF Told, C
  <1> QED
    BY <1>6, <1>7, <1>8 DEF DigestFits, Told, C

\* The memories are records.
SummaryInv == memories \in Seq([text : SummaryTexts \union {EmptyText}, ts : 0 .. 2, score : 0 .. 1])

\* The records handed to the pipeline are records.
LEMMA MemoriesAreListed ==
  ASSUME SummaryInv
  PROVE  Listed(memories)
  <1> DEFINE T == SummaryTexts \union {EmptyText}
             M == [text : T, ts : 0 .. 2, score : 0 .. 1]
  <1>1. memories \in Seq(M)
    BY DEF SummaryInv
  <1>2. \A text \in T : Written(text)
    <2>1. \A text \in SummaryTexts : Written(text)
      BY SummaryAssumption DEF Written
    <2>2. EmptyText.words = <<>> /\ EmptyText.ends = {}
      BY DEF EmptyText
    <2>3. Written(EmptyText)
      <3>1. <<>> \in Seq(Nat)
        OBVIOUS
      <3> QED
        BY <2>2, <3>1 DEF Written
    <2> QED
      BY <2>1, <2>3
  <1>3. \A m \in M : m.text \in T /\ m.ts \in Int /\ m.score \in Int
    OBVIOUS
  <1> HIDE DEF M
  <1>4. Len(memories) \in Nat /\ DOMAIN memories = 1 .. Len(memories)
        /\ \A i \in DOMAIN memories : memories[i] \in M
    BY <1>1
  <1> HIDE DEF T
  <1> QED
    BY <1>2, <1>3, <1>4 DEF Listed

\* What is made of the memories handed over is faithful to them.
LEMMA SummaryInvariance ==
  /\ SummaryInit => SummaryInv
  /\ SummaryInv /\ SummaryNext => SummaryInv'
  /\ SummaryInv /\ UNCHANGED summaryVars => SummaryInv'
  /\ SummaryInv => ContextIsFaithful
  <1>1. SummaryInit => SummaryInv
    BY DEF SummaryInit, SummaryInv
  <1>2. ASSUME SummaryInv, SummaryNext PROVE SummaryInv'
    <2> DEFINE T == SummaryTexts \union {EmptyText}
               M == [text : T, ts : 0 .. 2, score : 0 .. 1]
    <2>1. PICK text \in T, ts \in 0 .. 2, score \in 0 .. 1 :
                  memories' = Append(memories, [text |-> text, ts |-> ts, score |-> score])
      BY <1>2 DEF SummaryNext, Remember
    <2> DEFINE m == [text |-> text, ts |-> ts, score |-> score]
    <2>2. m \in M
      OBVIOUS
    <2>3. memories \in Seq(M) /\ memories' = Append(memories, m)
      BY <1>2, <2>1 DEF SummaryInv
    <2> HIDE DEF M, m
    <2>4. memories' \in Seq(M)
      BY <2>2, <2>3
    <2> QED
      BY <2>4 DEF SummaryInv, M
  <1>3. ASSUME SummaryInv, UNCHANGED summaryVars PROVE SummaryInv'
    BY <1>3 DEF SummaryInv, summaryVars
  <1>4. ASSUME SummaryInv PROVE ContextIsFaithful
    <2>1. Listed(memories)
      BY <1>4, MemoriesAreListed
    <2>2. \A text \in SummaryTexts : PieceFits(text)
      BY PieceIs, SummaryAssumption DEF Written
    <2>3. 2 \in Int
      OBVIOUS
    <2>4. DigestFits(memories) /\ ContextIsBest(memories) /\ PruningIsFair(memories, 2)
      BY <2>1, <2>3, DigestTellsTheNewest, ContextKeepsTheBest, PruningKeepsTheFreshest
    <2> QED
      BY <2>2, <2>4 DEF ContextIsFaithful
  <1> QED
    BY <1>1, <1>2, <1>3, <1>4

-----------------------------------------------------------------------------
(***************************************************************************)
(* The references of full duplex and of safety                             *)
(***************************************************************************)

\* What is decided of a barge-in, of a fallback and of a deadline stays decided.
DuplexInv ==
  /\ DuplexConfig
  /\ bargeIn.triggered =>
        /\ bargeIn.from \in BargeInEligible /\ bargeIn.voiced >= MinVoiced
        /\ bargeIn.to = "listening"
        /\ bargeIn.suppressBy >= bargeIn.at /\ bargeIn.listenBy >= bargeIn.at
  /\ ~bargeIn.triggered => bargeIn.to = bargeIn.from /\ bargeIn.suppressBy = NoDeadline
  /\ fallback.triggered <=> fallback.target # "none"
  /\ fallback.target = "phase_1_pipeline" => fallback.pipeline
  /\ fallback # NoFallback => fallback.triggered = LatencyViolation(fallback.latency, fallback.failure)

\* A barge-in is triggered only from a state it may interrupt, and its deadlines lie
\* ahead.
LEMMA BargeInDecided ==
  ASSUME DuplexConfig, NEW voiced \in Nat, NEW state, NEW at \in Nat, NEW b,
         b = DecideBargeIn(voiced, state, at)
  PROVE  /\ b.triggered =>
               /\ b.from \in BargeInEligible /\ b.voiced >= MinVoiced
               /\ b.to = "listening"
               /\ b.suppressBy >= b.at /\ b.listenBy >= b.at
         /\ ~b.triggered => b.to = b.from /\ b.suppressBy = NoDeadline
  <1> DEFINE yes == TRUE
             no == FALSE
  <1>1. CASE voiced >= MinVoiced /\ state \in BargeInEligible
    <2>1. b = [triggered |-> yes, at |-> at, voiced |-> voiced, from |-> state, to |-> "listening",
               suppressBy |-> at + SuppressionDeadline, listenBy |-> at + ListeningDeadline]
      BY <1>1 DEF DecideBargeIn, NoBargeIn
    <2>2. yes
      OBVIOUS
    <2> HIDE DEF yes
    <2>3. at + SuppressionDeadline >= at /\ at + ListeningDeadline >= at
      BY DEF DuplexConfig
    <2> QED
      BY <1>1, <2>1, <2>2, <2>3
  <1>2. CASE ~(voiced >= MinVoiced /\ state \in BargeInEligible)
    <2>1. b = [triggered |-> no, at |-> at, voiced |-> voiced, from |-> state, to |-> state,
               suppressBy |-> NoDeadline, listenBy |-> NoDeadline]
      BY <1>2 DEF DecideBargeIn, NoBargeIn
    <2>2. ~no
      OBVIOUS
    <2> HIDE DEF no
    <2> QED
      BY <2>1, <2>2
  <1> QED
    BY <1>1, <1>2

\* The decisions of the duplex reference are sound in every state.
LEMMA DuplexInvariance ==
  /\ DuplexInit => DuplexInv
  /\ DuplexInv /\ DuplexNext => DuplexInv'
  /\ DuplexInv /\ UNCHANGED duplexVars => DuplexInv'
  /\ DuplexInv => DuplexIsSound
  <1>1. DuplexInit => DuplexInv
    BY DEF DuplexInit, DuplexInv, NoBargeIn, NoFallback, NoDeadline
  <1>2. ASSUME DuplexInv, DuplexNext PROVE DuplexInv'
    <2>1. CASE \E p \in TurnPhases : SetState(p)
      BY <1>2, <2>1, Zenon DEF SetState, DuplexInv, LatencyViolation, DuplexConfig
    <2>2. ASSUME NEW voiced \in 0 .. MaxMs, NEW at \in 0 .. MaxMs, OnVoicedSpeech(voiced, at)
          PROVE  DuplexInv'
      <3>1. bargeIn' = DecideBargeIn(voiced, phase, at) /\ fallback' = fallback
        BY <2>2 DEF OnVoicedSpeech
      <3>2. voiced \in Nat /\ at \in Nat /\ DuplexConfig
        BY <1>2 DEF DuplexInv
      <3>3. /\ bargeIn'.triggered =>
                  /\ bargeIn'.from \in BargeInEligible /\ bargeIn'.voiced >= MinVoiced
                  /\ bargeIn'.to = "listening"
                  /\ bargeIn'.suppressBy >= bargeIn'.at /\ bargeIn'.listenBy >= bargeIn'.at
            /\ ~bargeIn'.triggered => bargeIn'.to = bargeIn'.from /\ bargeIn'.suppressBy = NoDeadline
        BY <3>1, <3>2, BargeInDecided
      <3> QED
        BY <1>2, <3>1, <3>3, Zenon DEF DuplexInv, LatencyViolation, DuplexConfig
    <2>3. ASSUME NEW latency, NEW pipeline, NEW failure, DecideLatencyFallback(latency, failure, pipeline)
          PROVE  DuplexInv'
      <3> DEFINE late == LatencyViolation(latency, failure)
                 f == fallback'
      <3>1. /\ f = [triggered |-> late, latency |-> latency, failure |-> failure, pipeline |-> pipeline,
                    target |-> IF ~late THEN "none"
                               ELSE IF pipeline THEN "phase_1_pipeline" ELSE "tts_fallback"]
            /\ bargeIn' = bargeIn
        BY <2>3 DEF DecideLatencyFallback
      <3>2. f.latency = latency /\ f.failure = failure /\ f.triggered = late
        BY <3>1
      <3>3. f.target = (IF ~late THEN "none" ELSE IF pipeline THEN "phase_1_pipeline" ELSE "tts_fallback")
        BY <3>1
      <3>4. f.pipeline = pipeline
        BY <3>1
      <3> HIDE DEF late
      <3>5. late <=> f.target # "none"
        BY <3>3
      <3>6. f.target = "phase_1_pipeline" => pipeline
        BY <3>3
      <3> QED
        BY <1>2, <3>1, <3>2, <3>4, <3>5, <3>6, Zenon DEF DuplexInv, DuplexConfig, late, LatencyViolation
    <2> QED
      BY <1>2, <2>1, <2>2, <2>3 DEF DuplexNext
  <1>3. ASSUME DuplexInv, UNCHANGED duplexVars PROVE DuplexInv'
    BY <1>3, Zenon DEF duplexVars, DuplexInv, LatencyViolation, DuplexConfig
  <1>4. ASSUME DuplexInv PROVE DuplexIsSound
    <2>1. bargeIn.to = "listening" => ~DecideBargeIn(MaxMs, bargeIn.to, bargeIn.at).triggered
      BY DEF DecideBargeIn, BargeInEligible, NoBargeIn
    <2>2. fallback.latency \in 0 .. FirstResponseBudget /\ fallback.failure \notin LatencyFailures =>
          ~LatencyViolation(fallback.latency, fallback.failure)
      BY <1>4 DEF LatencyViolation, NoToken, DuplexInv, DuplexConfig
    <2>3. fallback.latency = NoToken => LatencyViolation(fallback.latency, fallback.failure)
      BY DEF LatencyViolation
    <2>4. NoFallback.latency # NoToken /\ ~NoFallback.triggered
      BY DEF NoFallback, NoToken
    <2> QED
      BY <1>4, <2>1, <2>2, <2>3, <2>4, Zenon DEF DuplexInv, DuplexIsSound
  <1> QED
    BY <1>1, <1>2, <1>3, <1>4

\* What one request says of a voice.
AgreesTo(r, s) == /\ r.kind = "clone" /\ r.product
                  /\ r.consent = [speaker |-> s, complete |-> TRUE]
                  /\ r.speaker \in {s, "none"}
\* A request retires a voice.
Retires(r, s) == r.kind = "retire" /\ r.speaker = s

\* The log is what the list of requests makes it.
LogIs(log, q) ==
  \A s \in Speakers : s \in log <=>
     \E i \in DOMAIN q : AgreesTo(q[i], s) /\ \A k \in i .. Len(q) : ~Retires(q[k], s)

\* The consent log is what was asked, and what is kept, emitted or surfaced has its
\* reason.
GuardInv ==
  /\ \E T : requests \in Seq(T)
  /\ LogIs(consentLog, requests)
  /\ cloning.retained => Len(requests) > 0 /\ IsValidConsent(requests[Len(requests)].consent)
  /\ emission.emitted => /\ detector = "default"
                         /\ emission.mark = ExpectedWatermark(emission.output.content,
                                                              emission.output.path)
  /\ crisis.score >= CrisisThreshold <=> crisis.surfaced
  /\ crisis.surfaced <=> crisis.flagged

\* With one more request the log is still what the requests make it.
LEMMA LogGrows ==
  ASSUME NEW T, NEW q \in Seq(T), NEW r, NEW log, NEW new, LogIs(log, q),
         \A s \in Speakers : s \in new <=> (s \in log \/ AgreesTo(r, s)) /\ ~Retires(r, s)
  PROVE  /\ LogIs(new, Append(q, r))
         /\ \E U : Append(q, r) \in Seq(U)
         /\ Len(Append(q, r)) > 0 /\ Append(q, r)[Len(Append(q, r))] = r
  <1> DEFINE n == Len(q)
             g == Append(q, r)
             U == T \union {r}
  <1>1. q \in Seq(U)
    OBVIOUS
  <1>2. /\ n \in Nat /\ g \in Seq(U) /\ Len(g) = n + 1 /\ DOMAIN g = 1 .. n + 1 /\ DOMAIN q = 1 .. n
        /\ g[n + 1] = r /\ \A i \in 1 .. n : g[i] = q[i]
    BY <1>1
  <1> HIDE DEF g, n
  <1>3. ASSUME NEW s \in Speakers
        PROVE  s \in new <=> \E i \in DOMAIN g : AgreesTo(g[i], s) /\ \A k \in i .. Len(g) : ~Retires(g[k], s)
    <2>1. s \in log <=> \E i \in 1 .. n : AgreesTo(q[i], s) /\ \A k \in i .. n : ~Retires(q[k], s)
      BY <1>2 DEF LogIs, n
    <2>2. ASSUME s \in new
          PROVE  \E i \in DOMAIN g : AgreesTo(g[i], s) /\ \A k \in i .. Len(g) : ~Retires(g[k], s)
      <3>1. ~Retires(g[n + 1], s)
        BY <1>2, <2>2
      <3>2. CASE AgreesTo(r, s)
        <4>1. AgreesTo(g[n + 1], s) /\ n + 1 \in DOMAIN g
          BY <1>2, <3>2
        <4>2. \A k \in n + 1 .. Len(g) : k = n + 1
          BY <1>2
        <4> QED
          BY <3>1, <4>1, <4>2
      <3>3. CASE s \in log
        <4>1. PICK i \in 1 .. n : AgreesTo(q[i], s) /\ \A k \in i .. n : ~Retires(q[k], s)
          BY <2>1, <3>3
        <4>2. i \in DOMAIN g /\ AgreesTo(g[i], s)
          BY <1>2, <4>1
        <4>3. ASSUME NEW k \in i .. Len(g) PROVE ~Retires(g[k], s)
          <5>1. k = n + 1 \/ (k \in i .. n /\ k \in 1 .. n)
            BY <1>2
          <5> QED
            BY <1>2, <3>1, <4>1, <5>1
        <4> QED
          BY <4>2, <4>3
      <3> QED
        BY <2>2, <3>2, <3>3
    <2>3. ASSUME NEW i \in DOMAIN g, AgreesTo(g[i], s), \A k \in i .. Len(g) : ~Retires(g[k], s)
          PROVE  s \in new
      <3>1. n + 1 \in i .. Len(g)
        BY <1>2
      <3>2. ~Retires(r, s)
        BY <1>2, <2>3, <3>1
      <3>3. CASE i = n + 1
        BY <1>2, <2>3, <3>2, <3>3
      <3>4. CASE i \in 1 .. n
        <4>1. AgreesTo(q[i], s)
          BY <1>2, <2>3, <3>4
        <4>2. ASSUME NEW k \in i .. n PROVE ~Retires(q[k], s)
          <5>1. k \in i .. Len(g) /\ k \in 1 .. n
            BY <1>2, <3>4
          <5> QED
            BY <1>2, <2>3, <5>1
        <4> QED
          BY <2>1, <3>2, <3>4, <4>1, <4>2
      <3> QED
        BY <1>2, <3>3, <3>4
    <2> QED
      BY <2>2, <2>3
  <1>4. LogIs(new, g)
    BY <1>3 DEF LogIs
  <1> QED
    BY <1>2, <1>4 DEF g

\* Whatever is asked, the log is what was asked,
LEMMA CloningKeeps ==
  ASSUME GuardInv, NEW c \in Consents, NEW s \in Speakers \union {"none"}, NEW p \in BOOLEAN,
         RequestCloning(c, s, p)
  PROVE  GuardInv'
  <1> DEFINE allowed == IsValidConsent(c) /\ (s = "none" \/ c.speaker = s)
             r == [kind |-> "clone", consent |-> c, speaker |-> s, product |-> p]
  <1>1. /\ cloning' = [allowed |-> allowed, retained |-> allowed]
        /\ consentLog' = IF allowed /\ p THEN consentLog \union {c.speaker} ELSE consentLog
        /\ requests' = Append(requests, r)
        /\ emission' = NoEmission /\ crisis' = NoCrisis /\ detector' = detector
    BY DEF RequestCloning
  <1>2. /\ r.kind = "clone" /\ r.consent = c /\ r.speaker = s /\ r.product = p
        /\ cloning'.retained = allowed
    BY <1>1
  <1>3. PICK T : requests \in Seq(T)
    BY DEF GuardInv
  <1>4. ASSUME NEW v \in Speakers
        PROVE  AgreesTo(r, v) <=> allowed /\ p /\ c.speaker = v
    <2> DEFINE yes == TRUE
    <2>1. c = [speaker |-> v, complete |-> yes] <=> c.speaker = v /\ c.complete = yes
      <3>1. CASE c \in [speaker : Speakers, complete : BOOLEAN]
        <4> HIDE DEF yes
        <4> QED
          BY <3>1
      <3>2. CASE c = NoConsent
        BY <3>2, GuardAssumption DEF NoConsent
      <3> QED
        BY <3>1, <3>2 DEF Consents
    <2>2. c.complete = yes <=> c.complete
      <3>1. CASE c \in [speaker : Speakers, complete : BOOLEAN]
        <4>1. c.complete \in BOOLEAN
          BY <3>1
        <4> QED
          BY <4>1
      <3>2. CASE c = NoConsent
        BY <3>2 DEF NoConsent
      <3> QED
        BY <3>1, <3>2 DEF Consents
    <2>3. v # "none"
      BY GuardAssumption
    <2>4. AgreesTo(r, v) <=> p /\ c.speaker = v /\ c.complete /\ s \in {v, "none"}
      BY <1>2, <2>1, <2>2, Zenon DEF AgreesTo
    <2> QED
      BY <2>3, <2>4, Zenon DEF IsValidConsent
  <1>5. \A v : ~Retires(r, v)
    BY <1>2 DEF Retires
  <1>6. \A v \in Speakers : v \in consentLog' <=> (v \in consentLog \/ AgreesTo(r, v)) /\ ~Retires(r, v)
    <2> HIDE DEF allowed, r
    <2> QED
      BY <1>1, <1>4, <1>5
  <1>7. allowed => IsValidConsent(r.consent)
    BY <1>2
  <1> HIDE DEF r, allowed
  <1>8. /\ LogIs(consentLog', requests') /\ (\E U : requests' \in Seq(U))
        /\ Len(requests') > 0 /\ requests'[Len(requests')] = r
    <2>1. LogIs(consentLog, requests)
      BY DEF GuardInv
    <2> QED
      BY <1>1, <1>3, <1>6, <2>1, LogGrows
  <1>9. ~NoEmission.emitted /\ ~(NoCrisis.score >= CrisisThreshold) /\ ~NoCrisis.surfaced /\ ~NoCrisis.flagged
    BY DEF NoEmission, NoCrisis, CrisisThreshold
  <1> QED
    BY <1>1, <1>2, <1>7, <1>8, <1>9, Zenon DEF GuardInv, IsValidConsent, LogIs, AgreesTo, Retires

\* and a retired voice is out of it.
LEMMA RetiringKeeps ==
  ASSUME GuardInv, NEW s \in Speakers, RetireVoice(s)
  PROVE  GuardInv'
  <1> DEFINE no == FALSE
             r == [kind |-> "retire", consent |-> NoConsent, speaker |-> s, product |-> no]
  <1>1. /\ cloning' = NoCloning
        /\ consentLog' = consentLog \ {s}
        /\ requests' = Append(requests, r)
        /\ emission' = NoEmission /\ crisis' = NoCrisis /\ detector' = detector
    BY DEF RetireVoice
  <1>2. r.kind = "retire" /\ r.speaker = s
    BY <1>1
  <1>3. PICK T : requests \in Seq(T)
    BY DEF GuardInv
  <1> HIDE DEF r
  <1>4. \A v : ~AgreesTo(r, v) /\ (Retires(r, v) <=> v = s)
    BY <1>2 DEF AgreesTo, Retires
  <1>5. \A v \in Speakers : v \in consentLog' <=> (v \in consentLog \/ AgreesTo(r, v)) /\ ~Retires(r, v)
    BY <1>1, <1>4
  <1>6. LogIs(consentLog', requests') /\ \E U : requests' \in Seq(U)
    <2>1. LogIs(consentLog, requests)
      BY DEF GuardInv
    <2> QED
      BY <1>1, <1>3, <1>5, <2>1, LogGrows
  <1>7. /\ ~NoEmission.emitted /\ ~(NoCrisis.score >= CrisisThreshold) /\ ~NoCrisis.surfaced
        /\ ~NoCrisis.flagged /\ ~NoCloning.retained
    BY DEF NoEmission, NoCrisis, CrisisThreshold, NoCloning
  <1> QED
    BY <1>1, <1>6, <1>7, Zenon DEF GuardInv, LogIs, AgreesTo, Retires

\* The guard is complete in every state.
LEMMA GuardInvariance ==
  /\ GuardInit => GuardInv
  /\ GuardInv /\ GuardNext => GuardInv'
  /\ GuardInv /\ UNCHANGED guardVars => GuardInv'
  /\ GuardInv => GuardIsComplete
  <1>1. ASSUME GuardInit PROVE GuardInv
    <2>1. requests = <<>> /\ consentLog = {} /\ cloning = NoCloning /\ emission = NoEmission /\ crisis = NoCrisis
      BY <1>1 DEF GuardInit
    <2>2. /\ ~NoEmission.emitted /\ ~(NoCrisis.score >= CrisisThreshold) /\ ~NoCrisis.surfaced
          /\ ~NoCrisis.flagged /\ ~NoCloning.retained
      BY DEF NoEmission, NoCrisis, CrisisThreshold, NoCloning
    <2>3. LogIs({}, <<>>) /\ \E T : <<>> \in Seq(T)
      BY DEF LogIs
    <2> QED
      BY <2>1, <2>2, <2>3, Zenon DEF GuardInv
  <1>2. ASSUME GuardInv, GuardNext PROVE GuardInv'
    <2>1. ASSUME NEW content, NEW path, GuardOutput(content, path) PROVE GuardInv'
      <3> DEFINE output == [content |-> content, path |-> path]
                 mark == ExpectedWatermark(content, path)
                 seen == Detect(output, mark)
      <3>1. /\ emission' = [output |-> output, mark |-> mark, emitted |-> seen]
            /\ crisis' = NoCrisis
            /\ UNCHANGED <<detector, consentLog, cloning, requests>>
        BY <2>1 DEF GuardOutput
      <3>2. seen => detector = "default"
        BY DEF Detect
      <3> HIDE DEF seen
      <3>3. emission'.emitted = seen /\ emission'.mark = mark /\ emission'.output = output
        BY <3>1
      <3>4. mark = ExpectedWatermark(output.content, output.path)
        OBVIOUS
      <3>5. ~(NoCrisis.score >= CrisisThreshold) /\ ~NoCrisis.surfaced /\ ~NoCrisis.flagged
        BY DEF NoCrisis, CrisisThreshold
      <3>6. LogIs(consentLog', requests') /\ \E T : requests' \in Seq(T)
        BY <1>2, <3>1 DEF GuardInv
      <3>7. cloning'.retained => Len(requests') > 0 /\ IsValidConsent(requests'[Len(requests')].consent)
        BY <1>2, <3>1 DEF GuardInv
      <3>8. detector' = detector /\ crisis' = NoCrisis
        BY <3>1
      <3> HIDE DEF output, mark
      <3> QED
        BY <3>2, <3>3, <3>4, <3>5, <3>6, <3>7, <3>8, Zenon
           DEF GuardInv, LogIs, AgreesTo, Retires, IsValidConsent, ExpectedWatermark
    <2>2. ASSUME NEW score, HandleCrisis(score) PROVE GuardInv'
      <3> DEFINE bad == score >= CrisisThreshold
      <3>1. /\ crisis' = [score |-> score, surfaced |-> bad, flagged |-> bad]
            /\ emission' = NoEmission /\ UNCHANGED <<detector, consentLog, cloning, requests>>
        BY <2>2 DEF HandleCrisis
      <3>2. crisis'.surfaced = bad /\ crisis'.flagged = bad /\ crisis'.score = score
        BY <3>1
      <3>3. ~NoEmission.emitted
        BY DEF NoEmission
      <3>4. LogIs(consentLog', requests') /\ \E T : requests' \in Seq(T)
        BY <1>2, <3>1 DEF GuardInv
      <3>5. cloning'.retained => Len(requests') > 0 /\ IsValidConsent(requests'[Len(requests')].consent)
        BY <1>2, <3>1 DEF GuardInv
      <3>6. emission' = NoEmission
        BY <3>1
      <3> QED
        BY <3>2, <3>3, <3>4, <3>5, <3>6, Zenon DEF GuardInv, LogIs, AgreesTo, Retires, IsValidConsent
    <2> QED
      BY <1>2, <2>1, <2>2, CloningKeeps, RetiringKeeps DEF GuardNext
  <1>3. ASSUME GuardInv, UNCHANGED guardVars PROVE GuardInv'
    <2>1. /\ detector' = detector /\ consentLog' = consentLog /\ cloning' = cloning
          /\ emission' = emission /\ crisis' = crisis /\ requests' = requests
      BY <1>3 DEF guardVars
    <2>2. LogIs(consentLog', requests') /\ \E T : requests' \in Seq(T)
      BY <1>3, <2>1 DEF GuardInv
    <2>3. cloning'.retained => Len(requests') > 0 /\ IsValidConsent(requests'[Len(requests')].consent)
      BY <1>3, <2>1 DEF GuardInv
    <2>4. emission'.emitted => /\ detector' = "default"
                               /\ emission'.mark = ExpectedWatermark(emission'.output.content,
                                                                     emission'.output.path)
      BY <1>3, <2>1 DEF GuardInv
    <2>5. (crisis'.score >= CrisisThreshold <=> crisis'.surfaced) /\ (crisis'.surfaced <=> crisis'.flagged)
      BY <1>3, <2>1, Zenon DEF GuardInv
    <2> QED
      BY <2>2, <2>3, <2>4, <2>5, Zenon
         DEF GuardInv, LogIs, AgreesTo, Retires, IsValidConsent, ExpectedWatermark
  <1>4. ASSUME GuardInv PROVE GuardIsComplete
    BY <1>4, Zenon DEF GuardInv, GuardIsComplete, LogIs, AgreesTo, Retires, Agreed, Retired
  <1> QED
    BY <1>1, <1>2, <1>3, <1>4

-----------------------------------------------------------------------------
(***************************************************************************)
(* The licensing register and the gates                                    *)
(***************************************************************************)

\* Whether it is so.
YesNo == BOOLEAN
\* What the register says of a component.
EntryRecs == [recorded : YesNo, license : {"None", "MIT"}, permitted : YesNo, restricted : YesNo]
\* What is warned of it.
WarningStates == {"none", "open", "resolved"}

\* A component without a license is warned of, and only such a one.
EntryIsSound(e, w) ==
  /\ e.recorded /\ e.license = "None" => w # "none"
  /\ w = "open" => e.recorded /\ e.license = "None"
  /\ ~e.recorded => e.license = "None"

\* A gate is blocked exactly if it names a reason, and passed with the register only
\* if every component is permitted.
GateIsHonest ==
  /\ gateResult.blocked <=> gateResult.failed \union gateResult.licensing # {}
  /\ gateResult.passed /\ gateResult.withRegister => \A c \in Adopted :
        entry[c].permitted /\ warning[c] # "open"

\* What the register keeps of every component.
LicenseInv ==
  /\ entry \in [Adopted -> EntryRecs]
  /\ warning \in [Adopted -> WarningStates]
  /\ \A c \in Adopted : EntryIsSound(entry[c], warning[c])
  /\ \A c \in Adopted : c \in flagged <=> entry[c].recorded /\ entry[c].restricted
  /\ GateIsHonest

\* A gate that was not evaluated says nothing.
LEMMA UnevaluatedIsHonest ==
  /\ ~Unevaluated.blocked /\ ~Unevaluated.passed
  /\ Unevaluated.failed = {} /\ Unevaluated.licensing = {}
  BY DEF Unevaluated

\* A step that changes the entry of one component.
LEMMA EntryChanges ==
  ASSUME LicenseInv, NEW c \in Adopted, NEW e \in EntryRecs, NEW w \in WarningStates,
         entry' = [entry EXCEPT ![c] = e], warning' = [warning EXCEPT ![c] = w],
         EntryIsSound(e, w), c \in flagged' <=> e.recorded /\ e.restricted,
         \A b \in Adopted \ {c} : b \in flagged' <=> b \in flagged,
         gateResult' = Unevaluated
  PROVE  LicenseInv'
  <1>1. entry \in [Adopted -> EntryRecs] /\ warning \in [Adopted -> WarningStates]
    BY DEF LicenseInv
  <1>2. /\ entry' \in [Adopted -> EntryRecs] /\ warning' \in [Adopted -> WarningStates]
        /\ \A b \in Adopted : entry'[b] = IF b = c THEN e ELSE entry[b]
        /\ \A b \in Adopted : warning'[b] = IF b = c THEN w ELSE warning[b]
    BY <1>1
  <1>3. \A b \in Adopted : EntryIsSound(entry'[b], warning'[b])
    BY <1>2 DEF LicenseInv
  <1>4. \A b \in Adopted : b \in flagged' <=> entry'[b].recorded /\ entry'[b].restricted
    <2> SUFFICES ASSUME NEW b \in Adopted PROVE b \in flagged' <=> entry'[b].recorded /\ entry'[b].restricted
      OBVIOUS
    <2>1. CASE b = c
      BY <1>2, <2>1
    <2>2. CASE b # c
      BY <1>2, <2>2, Zenon DEF LicenseInv
    <2> QED
      BY <2>1, <2>2
  <1>5. GateIsHonest'
    <2>1. gateResult'.failed \union gateResult'.licensing = {}
      BY UnevaluatedIsHonest
    <2> QED
      BY <2>1, UnevaluatedIsHonest, Zenon DEF GateIsHonest
  <1> QED
    BY <1>2, <1>3, <1>4, <1>5, Zenon DEF LicenseInv, EntryIsSound

\* The register is sound when a component is recorded,
LEMMA RecordingIsSound ==
  ASSUME LicenseInv, NEW c \in Adopted, NEW license \in {"None", "MIT"}, NEW permitted \in BOOLEAN,
         NEW restricted \in BOOLEAN, RecordComponent(c, license, permitted, restricted)
  PROVE  LicenseInv'
  <1> DEFINE yes == TRUE
             e == [recorded |-> yes, license |-> license, permitted |-> permitted, restricted |-> restricted]
             w == IF license = "None" THEN "open" ELSE IF warning[c] = "none" THEN "none" ELSE "resolved"
  <1>1. /\ entry' = [entry EXCEPT ![c] = e]
        /\ flagged' = IF restricted THEN flagged \union {c} ELSE flagged \ {c}
        /\ gateResult' = Unevaluated
    BY DEF RecordComponent
  <1>2. warning' = [warning EXCEPT ![c] = w]
    BY DEF RecordComponent, WarningAfter, LicenseInv
  <1>3. yes /\ yes \in YesNo /\ permitted \in YesNo /\ restricted \in YesNo
    BY DEF YesNo
  <1>4. w \in WarningStates
    BY DEF WarningStates
  <1> HIDE DEF yes
  <1>5. e \in EntryRecs
    BY <1>3 DEF EntryRecs
  <1>6. e.recorded = yes /\ e.license = license /\ e.restricted = restricted
    OBVIOUS
  <1> HIDE DEF e
  <1>7. EntryIsSound(e, w)
    BY <1>3, <1>6 DEF EntryIsSound
  <1> HIDE DEF w
  <1>8. /\ c \in flagged' <=> e.recorded /\ e.restricted
        /\ \A b \in Adopted \ {c} : b \in flagged' <=> b \in flagged
    BY <1>1, <1>3, <1>6
  <1> QED
    BY <1>1, <1>2, <1>4, <1>5, <1>7, <1>8, EntryChanges

\* when a dataset is flagged,
LEMMA FlaggingIsSound ==
  ASSUME LicenseInv, NEW c \in Adopted, FlagDataset(c)
  PROVE  LicenseInv'
  <1> DEFINE yes == TRUE
             e == [[entry[c] EXCEPT !.recorded = yes] EXCEPT !.restricted = yes]
             w == IF entry[c].recorded THEN warning[c] ELSE "open"
  <1>1. entry \in [Adopted -> EntryRecs] /\ warning \in [Adopted -> WarningStates]
        /\ EntryIsSound(entry[c], warning[c])
    BY DEF LicenseInv
  <1>2. entry' = [entry EXCEPT ![c] = e] /\ flagged' = flagged \union {c} /\ gateResult' = Unevaluated
    BY <1>1 DEF FlagDataset
  <1>3. warning' = [warning EXCEPT ![c] = w]
    <2>1. CASE entry[c].recorded
      <3>1. warning' = warning
        BY <2>1 DEF FlagDataset
      <3> QED
        BY <1>1, <2>1, <3>1
    <2>2. CASE ~entry[c].recorded
      <3>1. warning' = WarningAfter(c, "None")
        BY <2>2 DEF FlagDataset
      <3> QED
        BY <2>2, <3>1 DEF WarningAfter
    <2> QED
      BY <2>1, <2>2
  <1>4. yes /\ yes \in YesNo
    BY DEF YesNo
  <1> HIDE DEF yes
  <1>5. entry[c] \in EntryRecs /\ warning[c] \in WarningStates
    BY <1>1
  <1>6. w \in WarningStates
    BY <1>5 DEF WarningStates
  <1>7. e \in EntryRecs /\ e.recorded = yes /\ e.restricted = yes /\ e.license = entry[c].license
    BY <1>4, <1>5 DEF EntryRecs
  <1> HIDE DEF e
  <1>8. EntryIsSound(e, w)
    <2>1. CASE entry[c].recorded
      BY <1>1, <1>4, <1>7, <2>1, Zenon DEF EntryIsSound
    <2>2. CASE ~entry[c].recorded
      <3>1. w = "open" /\ entry[c].license = "None"
        BY <1>1, <2>2 DEF EntryIsSound
      <3> QED
        BY <1>4, <1>7, <3>1 DEF EntryIsSound
    <2> QED
      BY <2>1, <2>2
  <1> HIDE DEF w
  <1>9. /\ c \in flagged' <=> e.recorded /\ e.restricted
        /\ \A b \in Adopted \ {c} : b \in flagged' <=> b \in flagged
    BY <1>2, <1>4, <1>7
  <1> QED
    BY <1>2, <1>3, <1>6, <1>7, <1>8, <1>9, EntryChanges

\* when its restriction is satisfied,
LEMMA SatisfyingIsSound ==
  ASSUME LicenseInv, NEW c \in Adopted, SatisfyRestriction(c)
  PROVE  LicenseInv'
  <1> DEFINE no == FALSE
             e == [entry[c] EXCEPT !.restricted = no]
             w == warning[c]
  <1>1. entry \in [Adopted -> EntryRecs] /\ warning \in [Adopted -> WarningStates]
        /\ EntryIsSound(entry[c], warning[c])
    BY DEF LicenseInv
  <1>2. /\ entry' = [entry EXCEPT ![c] = e] /\ flagged' = flagged \ {c} /\ gateResult' = Unevaluated
        /\ warning' = warning
    BY <1>1 DEF SatisfyRestriction
  <1>3. warning' = [warning EXCEPT ![c] = w] /\ w \in WarningStates
    BY <1>1, <1>2
  <1>4. ~no /\ no \in YesNo
    BY DEF YesNo
  <1> HIDE DEF no
  <1>5. entry[c] \in EntryRecs
    BY <1>1
  <1>6. e \in EntryRecs /\ e.recorded = entry[c].recorded /\ e.restricted = no /\ e.license = entry[c].license
    BY <1>4, <1>5 DEF EntryRecs
  <1> HIDE DEF e
  <1>7. EntryIsSound(e, w)
    BY <1>1, <1>6, Zenon DEF EntryIsSound
  <1> HIDE DEF w
  <1>8. /\ c \in flagged' <=> e.recorded /\ e.restricted
        /\ \A b \in Adopted \ {c} : b \in flagged' <=> b \in flagged
    BY <1>2, <1>4, <1>6
  <1> QED
    BY <1>2, <1>3, <1>6, <1>7, <1>8, EntryChanges

\* and when a warning is resolved.
LEMMA ResolvingIsSound ==
  ASSUME LicenseInv, NEW c \in Adopted, ResolveWarning(c)
  PROVE  LicenseInv'
  <1> DEFINE e == entry[c]
             w == IF warning[c] = "none" THEN "none" ELSE "resolved"
  <1>1. entry \in [Adopted -> EntryRecs] /\ warning \in [Adopted -> WarningStates]
        /\ EntryIsSound(entry[c], warning[c])
    BY DEF LicenseInv
  <1>2. /\ entry' = [entry EXCEPT ![c] = e] /\ flagged' = flagged /\ gateResult' = Unevaluated
        /\ warning' = [warning EXCEPT ![c] = w] /\ e \in EntryRecs /\ w \in WarningStates
    BY <1>1 DEF ResolveWarning, WarningStates
  <1>3. EntryIsSound(e, w)
    BY <1>1 DEF EntryIsSound
  <1>4. /\ c \in flagged' <=> e.recorded /\ e.restricted
        /\ \A b \in Adopted \ {c} : b \in flagged' <=> b \in flagged
    BY <1>2, Zenon DEF LicenseInv
  <1> HIDE DEF e, w
  <1> QED
    BY <1>2, <1>3, <1>4, EntryChanges

\* Nothing of the register changes.
LEMMA RegisterStays ==
  ASSUME LicenseInv, UNCHANGED <<entry, warning, flagged>>, GateIsHonest'
  PROVE  LicenseInv'
  <1>1. entry' = entry /\ warning' = warning /\ flagged' = flagged
    OBVIOUS
  <1> QED
    BY <1>1, Zenon DEF LicenseInv, EntryIsSound

\* A gate that is evaluated names its reasons.
LEMMA GateIsEvaluated ==
  ASSUME LicenseInv, NEW values, NEW withRegister \in BOOLEAN, EvaluateGate(values, withRegister)
  PROVE  LicenseInv'
  <1> DEFINE failing == {m \in DOMAIN Criteria :
                           ~Satisfies(values[m], Criteria[m].operator, Criteria[m].threshold)}
             clean == ~withRegister \/ (UnresolvedWarnings = {} /\ Prohibiting = {})
             passed == failing = {} /\ clean
             reasons == IF passed \/ ~withRegister THEN {} ELSE UnresolvedWarnings \union Prohibiting
             failed == IF passed THEN {} ELSE failing
             g == gateResult'
  <1>1. /\ g = [passed |-> passed, blocked |-> ~passed, withRegister |-> withRegister,
                failed |-> failed, licensing |-> reasons]
        /\ UNCHANGED <<entry, warning, flagged>>
    BY DEF EvaluateGate
  <1>2. /\ g.passed = passed /\ g.blocked = ~passed /\ g.withRegister = withRegister
        /\ g.failed = failed /\ g.licensing = reasons
    <2> HIDE DEF passed, failed, reasons
    <2> QED
      BY <1>1
  <1>3. ~passed <=> failed \union reasons # {}
    OBVIOUS
  <1>4. passed /\ withRegister => \A c \in Adopted : entry[c].permitted /\ warning[c] # "open"
    BY DEF UnresolvedWarnings, Prohibiting
  <1> HIDE DEF passed, failed, reasons
  <1>5. g.blocked <=> g.failed \union g.licensing # {}
    BY <1>2, <1>3
  <1>6. g.passed /\ g.withRegister => \A c \in Adopted : entry'[c].permitted /\ warning'[c] # "open"
    BY <1>1, <1>2, <1>4
  <1>7. GateIsHonest'
    BY <1>5, <1>6, Zenon DEF GateIsHonest
  <1> QED
    BY <1>1, <1>7, RegisterStays

\* The register is sound and its gates fail closed in every state.
LEMMA LicenseInvariance ==
  /\ LicenseInit => LicenseInv
  /\ LicenseInv /\ LicenseNext => LicenseInv'
  /\ LicenseInv /\ UNCHANGED licenseVars => LicenseInv'
  /\ LicenseInv => GatesAreFailClosed
  <1>1. ASSUME LicenseInit PROVE LicenseInv
    <2> DEFINE yes == TRUE
               no == FALSE
               e == [recorded |-> no, license |-> "None", permitted |-> yes, restricted |-> no]
    <2>1. /\ entry = [c \in Adopted |-> e] /\ warning = [c \in Adopted |-> "none"]
          /\ gateResult = Unevaluated /\ flagged = {}
      BY <1>1 DEF LicenseInit, NoEntry
    <2>2. yes \in YesNo /\ no \in YesNo /\ ~no
      BY DEF YesNo
    <2> HIDE DEF yes, no
    <2>3. e \in EntryRecs /\ e.recorded = no /\ e.license = "None"
      BY <2>2 DEF EntryRecs
    <2>4. EntryIsSound(e, "none")
      BY <2>2, <2>3 DEF EntryIsSound
    <2> HIDE DEF e
    <2>5. /\ entry \in [Adopted -> EntryRecs] /\ warning \in [Adopted -> WarningStates]
          /\ \A c \in Adopted : entry[c] = e /\ warning[c] = "none"
      BY <2>1, <2>3 DEF WarningStates
    <2>6. GateIsHonest
      <3>1. gateResult.failed \union gateResult.licensing = {}
        BY <2>1, UnevaluatedIsHonest
      <3> QED
        BY <2>1, <3>1, UnevaluatedIsHonest, Zenon DEF GateIsHonest
    <2> QED
      BY <2>1, <2>2, <2>3, <2>4, <2>5, <2>6 DEF LicenseInv
  <1>2. ASSUME LicenseInv, LicenseNext PROVE LicenseInv'
    <2>1. ASSUME NEW c \in Adopted, NEW l, RecordExclusion(c, l) PROVE LicenseInv'
      <3>1. UNCHANGED <<entry, warning, flagged>> /\ gateResult' = Unevaluated
        BY <2>1 DEF RecordExclusion
      <3>2. gateResult'.failed \union gateResult'.licensing = {}
        BY <3>1, UnevaluatedIsHonest
      <3>3. GateIsHonest'
        BY <3>1, <3>2, UnevaluatedIsHonest, Zenon DEF GateIsHonest
      <3> QED
        BY <1>2, <3>1, <3>3, RegisterStays
    <2>2. ASSUME NEW v, NEW w \in BOOLEAN, NEW kind, EvaluateDecisionGate(v, w, kind) PROVE LicenseInv'
      <3>1. CASE kind = "decision"
        BY <1>2, <2>2, <3>1, GateIsEvaluated DEF EvaluateDecisionGate
      <3>2. CASE kind # "decision"
        <4>1. entry' = entry /\ warning' = warning /\ flagged' = flagged /\ gateResult' = gateResult
          BY <2>2, <3>2 DEF EvaluateDecisionGate, licenseVars
        <4> QED
          BY <1>2, <4>1, Zenon DEF LicenseInv, EntryIsSound, GateIsHonest
      <3> QED
        BY <3>1, <3>2
    <2> QED
      BY <1>2, <2>1, <2>2, RecordingIsSound, FlaggingIsSound, SatisfyingIsSound, ResolvingIsSound,
         GateIsEvaluated DEF LicenseNext
  <1>3. ASSUME LicenseInv, UNCHANGED licenseVars PROVE LicenseInv'
    <2>1. entry' = entry /\ warning' = warning /\ flagged' = flagged /\ gateResult' = gateResult
      BY <1>3 DEF licenseVars
    <2> QED
      BY <1>3, <2>1, Zenon DEF LicenseInv, EntryIsSound, GateIsHonest
  <1>4. ASSUME LicenseInv PROVE GatesAreFailClosed
    <2>1. \A c \in Adopted : warning[c] \in WarningStates
      BY <1>4 DEF LicenseInv
    <2>2. \A c \in Adopted : warning[c] = "none" \/ warning[c] = "open" \/ warning[c] = "resolved"
      BY <2>1 DEF WarningStates
    <2> QED
      BY <1>4, <2>2, Zenon DEF LicenseInv, EntryIsSound, GateIsHonest, GatesAreFailClosed, RedistributionAllowed
  <1> QED
    BY <1>1, <1>2, <1>3, <1>4

-----------------------------------------------------------------------------
(***************************************************************************)
(* The budget planner and the choice of a model                            *)
(***************************************************************************)

\* Of the best there is a last one.
LEMMA LastOfBest ==
  ASSUME NEW n \in Nat, NEW S \in SUBSET (1 .. n), S # {}, NEW value, \A p \in S : value[p] \in Int
  PROVE  \E p \in S : \A q \in S : value[p] > value[q] \/ (value[p] = value[q] /\ p >= q)
  <1>1. PICK b \in S : IsBest(b, S, value)
    BY BestOf
  <1> DEFINE T == {n - p : p \in {q \in S : value[q] = value[b]}}
  <1>2. T \in SUBSET Nat /\ n - b \in T
    <2>1. \A p \in S : p \in Nat /\ n - p \in Nat
      OBVIOUS
    <2> QED
      BY <2>1
  <1>3. PICK x \in T : \A y \in T : x <= y
    <2> HIDE DEF T
    <2>1. T # {}
      BY <1>2
    <2> QED
      BY <1>2, <2>1, LeastOf
  <1>4. PICK p \in S : value[p] = value[b] /\ x = n - p
    BY <1>3
  <1>5. ASSUME NEW q \in S PROVE value[p] > value[q] \/ (value[p] = value[q] /\ p >= q)
    <2>1. value[b] > value[q] \/ value[b] = value[q]
      BY <1>1 DEF IsBest
    <2>2. CASE value[q] = value[b]
      <3>1. n - q \in T
        BY <2>2
      <3>2. p \in Nat /\ q \in Nat
        <4>1. p \in 1 .. n /\ q \in 1 .. n
          OBVIOUS
        <4> QED
          BY <4>1
      <3>3. n - p <= n - q
        <4> HIDE DEF T
        <4> QED
          BY <1>3, <1>4, <3>1
      <3>4. p >= q
        BY <3>2, <3>3
      <3> QED
        BY <1>4, <2>2, <3>4
    <2> QED
      BY <1>4, <2>1, <2>2
  <1> QED
    BY <1>5

\* The hardware of the ladder that fits best.
LEMMA LadderFits ==
  ASSUME NEW available \in Nat, NEW f, f = BestFit(available)
  PROVE  /\ f \in DOMAIN GpuLadder /\ GpuLadder[f].vram <= available
         /\ \A i \in DOMAIN GpuLadder : GpuLadder[i].vram <= available => GpuLadder[i].vram <= GpuLadder[f].vram
         /\ GpuLadder[f] = [gpu |-> GpuLadder[f].gpu, vram |-> GpuLadder[f].vram]
  <1> DEFINE fitting == {i \in DOMAIN GpuLadder : GpuLadder[i].vram <= available}
             value == [i \in DOMAIN GpuLadder |-> GpuLadder[i].vram]
             n == Len(GpuLadder)
             Last1(i) == \A j \in fitting : \/ GpuLadder[i].vram > GpuLadder[j].vram
                                            \/ GpuLadder[i].vram = GpuLadder[j].vram /\ i >= j
  <1>1. /\ n \in Nat /\ DOMAIN GpuLadder = 1 .. n
        /\ \A i \in 1 .. n : GpuLadder[i] \in [gpu : STRING, vram : Nat]
    <2> DEFINE R == [gpu : STRING, vram : Nat]
    <2>1. GpuLadder \in Seq(R)
      BY BudgetAssumption
    <2> HIDE DEF R
    <2>2. n \in Nat /\ DOMAIN GpuLadder = 1 .. n /\ \A i \in 1 .. n : GpuLadder[i] \in R
      BY <2>1
    <2> QED
      BY <2>2 DEF R
  <1>2. \A i \in 1 .. n : GpuLadder[i].vram \in Nat /\ value[i] = GpuLadder[i].vram
    BY <1>1
  <1>3. fitting \in SUBSET (1 .. n) /\ fitting # {}
    <2>1. PICK i \in DOMAIN GpuLadder : GpuLadder[i].vram = 0
      BY BudgetAssumption
    <2>2. i \in fitting
      BY <2>1
    <2> QED
      BY <1>1, <2>2
  <1>4. \E i \in fitting : Last1(i)
    <2>1. ASSUME NEW i \in fitting PROVE value[i] \in Int /\ value[i] = GpuLadder[i].vram
      <3>1. i \in 1 .. n
        BY <1>1
      <3>2. GpuLadder[i].vram \in Nat /\ value[i] = GpuLadder[i].vram
        BY <1>2, <3>1
      <3> HIDE DEF value
      <3> QED
        BY <3>2
    <2> HIDE DEF value, fitting
    <2>2. \E p \in fitting : \A q \in fitting : value[p] > value[q] \/ (value[p] = value[q] /\ p >= q)
      BY <1>1, <1>3, <2>1, LastOfBest
    <2> QED
      BY <2>1, <2>2
  <1>5. f = CHOOSE i \in fitting : Last1(i)
    BY DEF BestFit
  <1>6. f \in fitting /\ Last1(f)
    <2> HIDE DEF fitting, Last1
    <2> QED
      BY <1>4, <1>5
  <1>7. \A i \in fitting : GpuLadder[i].vram <= GpuLadder[f].vram
    <2> SUFFICES ASSUME NEW i \in fitting PROVE GpuLadder[i].vram <= GpuLadder[f].vram
      OBVIOUS
    <2>1. i \in 1 .. n /\ f \in 1 .. n
      BY <1>1, <1>6
    <2>2. GpuLadder[i].vram \in Nat /\ GpuLadder[f].vram \in Nat
      BY <1>2, <2>1
    <2>3. GpuLadder[f].vram > GpuLadder[i].vram \/ GpuLadder[f].vram = GpuLadder[i].vram
      BY <1>6
    <2> QED
      BY <2>2, <2>3
  <1>8. GpuLadder[f] \in [gpu : STRING, vram : Nat]
    BY <1>1, <1>3, <1>6
  <1> QED
    BY <1>6, <1>7, <1>8

\* A plan fits what was confirmed, in full or reduced.
LEMMA PlanFits ==
  ASSUME NEW p \in DOMAIN PhasePlans, NEW claim \in Claims, SelectScope(p, claim)
  PROVE  /\ scopePlan'.scope = "full" => scopePlan'.confirmed >= PhasePlans[scopePlan'.phase].vram
         /\ scopePlan'.vram <= scopePlan'.confirmed
         /\ scopePlan'.scope = "reduced" =>
              /\ scopePlan'.confirmed < PhasePlans[scopePlan'.phase].vram \/ scopePlan'.confirmed = 0
              /\ \A i \in DOMAIN GpuLadder :
                    GpuLadder[i].vram <= scopePlan'.confirmed => GpuLadder[i].vram <= scopePlan'.vram
              /\ \E i \in DOMAIN GpuLadder :
                    GpuLadder[i] = [gpu |-> scopePlan'.gpu, vram |-> scopePlan'.vram]
  <1> DEFINE c == ConfirmAvailableVram(claim)
             reduced == c <= 0 \/ c < PhasePlans[p].vram
             f == BestFit(c)
             scope == IF reduced THEN "reduced" ELSE "full"
             gpu == IF reduced THEN GpuLadder[f].gpu ELSE "phase"
             vram == IF reduced THEN GpuLadder[f].vram ELSE PhasePlans[p].vram
             s == scopePlan'
  <1>1. s = [phase |-> p, confirmed |-> c, scope |-> scope, gpu |-> gpu, vram |-> vram]
    BY DEF SelectScope
  <1>2. c \in Nat /\ PhasePlans[p].vram \in Nat
    BY BudgetAssumption DEF ConfirmAvailableVram
  <1> HIDE DEF c, f
  <1>3. /\ f \in DOMAIN GpuLadder /\ GpuLadder[f].vram <= c
        /\ \A i \in DOMAIN GpuLadder : GpuLadder[i].vram <= c => GpuLadder[i].vram <= GpuLadder[f].vram
        /\ GpuLadder[f] = [gpu |-> GpuLadder[f].gpu, vram |-> GpuLadder[f].vram]
    BY <1>2, LadderFits DEF f
  <1>4. s.phase = p /\ s.confirmed = c /\ s.scope = scope /\ s.gpu = gpu /\ s.vram = vram
    BY <1>1
  <1>5. CASE reduced
    <2>1. s.scope = "reduced" /\ s.gpu = GpuLadder[f].gpu /\ s.vram = GpuLadder[f].vram
      BY <1>4, <1>5
    <2>2. c < PhasePlans[p].vram \/ c = 0
      BY <1>2, <1>5
    <2>3. GpuLadder[f] = [gpu |-> s.gpu, vram |-> s.vram]
      BY <1>3, <2>1
    <2> QED
      BY <1>3, <1>4, <2>1, <2>2, <2>3
  <1>6. CASE ~reduced
    BY <1>2, <1>4, <1>6
  <1> QED
    BY <1>5, <1>6

\* Plans fit the budget in every state.
LEMMA BudgetInvariance ==
  /\ BudgetInit => PlansFitTheBudget
  /\ PlansFitTheBudget /\ BudgetNext => PlansFitTheBudget'
  /\ PlansFitTheBudget /\ UNCHANGED budgetVars => PlansFitTheBudget'
  <1>1. BudgetInit => PlansFitTheBudget
    BY DEF BudgetInit, PlansFitTheBudget, NoPlan
  <1>2. ASSUME PlansFitTheBudget, BudgetNext PROVE PlansFitTheBudget'
    <2>1. ASSUME NEW p \in DOMAIN PhasePlans, NEW c \in Claims, SelectScope(p, c) PROVE PlansFitTheBudget'
      <3>1. justification' = justification /\ admitted' = admitted
        BY <2>1 DEF SelectScope
      <3> QED
        BY <1>2, <2>1, <3>1, PlanFits, Zenon DEF PlansFitTheBudget, CanEnterAmbitious, IsComplete
    <2>2. CASE admitted' = "none" /\ scopePlan' = scopePlan
      BY <1>2, <2>2, Zenon DEF PlansFitTheBudget
    <2>3. CASE RequireJustification
      <3> DEFINE turned == \/ ~justification.made \/ ~justification.range
                            \/ justification.footprints = {} \/ ~justification.approved
      <3>1. /\ admitted' = IF turned THEN "raised" ELSE "yes"
            /\ scopePlan' = scopePlan /\ justification' = justification
        BY <2>3 DEF RequireJustification
      <3>2. turned <=> ~CanEnterAmbitious(justification)
        BY Zenon DEF CanEnterAmbitious, IsComplete
      <3> HIDE DEF turned
      <3>3. /\ admitted' = "yes" => CanEnterAmbitious(justification)
            /\ admitted' = "raised" => ~CanEnterAmbitious(justification)
        BY <3>1, <3>2
      <3> QED
        BY <1>2, <3>1, <3>3, Zenon DEF PlansFitTheBudget, CanEnterAmbitious, IsComplete
    <2> QED
      BY <1>2, <2>1, <2>2, <2>3 DEF BudgetNext, AmbitiousJustification, OwnJustification
  <1>3. ASSUME PlansFitTheBudget, UNCHANGED budgetVars PROVE PlansFitTheBudget'
    <2>1. scopePlan' = scopePlan /\ justification' = justification /\ admitted' = admitted
      BY <1>3 DEF budgetVars
    <2> QED
      BY <1>3, <2>1, Zenon DEF PlansFitTheBudget, CanEnterAmbitious, IsComplete
  <1> QED
    BY <1>1, <1>2, <1>3

\* A list of candidates is a list, each with a score.
LEMMA ListIs ==
  ASSUME NEW list \in ScoredChoices
  PROVE  /\ DOMAIN list = 1 .. Len(list) /\ Len(list) \in Nat
         /\ \A i \in 1 .. Len(list) : /\ WeightedSum(list[i].scores) \in Int
                                      /\ list[i].id # Retain /\ list[i].id # "none"
  <1> DEFINE R == [id : STRING, scores : [DOMAIN Weights -> Int]]
  <1>1. list \in Seq(R)
    BY ChoiceAssumption
  <1> HIDE DEF R
  <1>2. DOMAIN list = 1 .. Len(list) /\ Len(list) \in Nat
    BY <1>1
  <1> QED
    BY <1>2, ChoiceAssumption

\* A candidate's aggregate is its own if no two share an identifier.
LEMMA AggregateIs ==
  ASSUME NEW list \in ScoredChoices, NEW i \in 1 .. Len(list)
  PROVE  /\ AggregateOf(list, list[i].id) \in Int
         /\ Unique(list) => AggregateOf(list, list[i].id) = WeightedSum(list[i].scores)
  <1> DEFINE S == {j \in DOMAIN list : list[j].id = list[i].id}
  <1>1. S \in SUBSET (1 .. Len(list)) /\ i \in S
    BY ListIs
  <1>2. Unique(list) => \A j \in S : j = i
    BY ListIs DEF Unique
  <1>3. AggregateOf(list, list[i].id) = WeightedSum(list[Max(S)].scores)
    BY DEF AggregateOf
  <1> HIDE DEF S
  <1>4. Len(list) \in Nat
    BY ListIs
  <1>5. Max(S) \in S
    <2>1. S # {}
      BY <1>1
    <2> QED
      BY <1>1, <1>4, <2>1, GreatestIn
  <1>6. Max(S) \in 1 .. Len(list)
    BY <1>1, <1>5
  <1>7. WeightedSum(list[Max(S)].scores) \in Int
    BY <1>6, ListIs
  <1> QED
    BY <1>2, <1>3, <1>5, <1>7

\* What a list of candidates makes the scorer say.
LEMMA SelectedIs ==
  ASSUME NEW list \in ScoredChoices, NEW c, c = SelectedOf(list)
  PROVE  /\ c = Retain => \A i \in DOMAIN list : ~PassesAllMinimums(list[i].scores)
         /\ c # Retain => \E i \in DOMAIN list : list[i].id = c /\ PassesAllMinimums(list[i].scores)
         /\ c # Retain /\ Unique(list) =>
              \A i, j \in DOMAIN list :
                 list[i].id = c /\ PassesAllMinimums(list[j].scores) =>
                    \/ WeightedSum(list[i].scores) > WeightedSum(list[j].scores)
                    \/ WeightedSum(list[i].scores) = WeightedSum(list[j].scores) /\ i <= j
  <1> DEFINE n == Len(list)
             ok == PassingOf(list)
             Agg(i) == AggregateOf(list, list[i].id)
             best == {i \in ok : \A j \in ok : Agg(i) >= Agg(j)}
             value == [i \in 1 .. n |-> Agg(i)]
             b == Min(best)
  <1>1. n \in Nat /\ DOMAIN list = 1 .. n /\ \A i \in 1 .. n : list[i].id # Retain
    BY ListIs
  <1>2. ok \in SUBSET (1 .. n) /\ \A i \in 1 .. n : i \in ok <=> PassesAllMinimums(list[i].scores)
    BY <1>1 DEF PassingOf
  <1>3. \A i \in 1 .. n : Agg(i) \in Int /\ (Unique(list) => Agg(i) = WeightedSum(list[i].scores))
    BY AggregateIs
  <1>4. c = IF ok = {} THEN Retain ELSE list[b].id
    BY DEF SelectedOf
  <1>5. CASE ok = {}
    BY <1>1, <1>2, <1>4, <1>5
  <1>6. CASE ok # {}
    <2>1. \A i \in ok : value[i] \in Int /\ value[i] = Agg(i)
      BY <1>2, <1>3
    <2> HIDE DEF ok, value, Agg, n
    <2>2. PICK p \in ok : IsBest(p, ok, value)
      BY <1>1, <1>2, <1>6, <2>1, BestOf
    <2>3. p \in best
      BY <2>1, <2>2 DEF IsBest
    <2>4. best \in SUBSET (1 .. n) /\ best # {}
      BY <1>2, <2>3
    <2>5. b \in best /\ \A x \in best : b <= x
      <3> HIDE DEF best
      <3> QED
        BY <1>1, <2>4, GreatestIn
    <2>6. b \in ok /\ b \in 1 .. n /\ \A j \in ok : Agg(b) >= Agg(j)
      BY <1>2, <2>5
    <2>7. \A j \in ok : Agg(j) = Agg(b) => b <= j
      <3> SUFFICES ASSUME NEW j \in ok, Agg(j) = Agg(b) PROVE b <= j
        OBVIOUS
      <3>1. j \in best
        BY <2>6
      <3> QED
        BY <2>5, <3>1
    <2>8. c = list[b].id /\ c # Retain
      BY <1>1, <1>4, <1>6, <2>6
    <2>9. ASSUME Unique(list), NEW i \in 1 .. n, NEW j \in 1 .. n, list[i].id = c,
                 PassesAllMinimums(list[j].scores)
          PROVE  \/ WeightedSum(list[i].scores) > WeightedSum(list[j].scores)
                 \/ WeightedSum(list[i].scores) = WeightedSum(list[j].scores) /\ i <= j
      <3>1. i = b
        BY <1>1, <2>6, <2>8, <2>9 DEF Unique
      <3>2. j \in ok
        BY <1>2, <2>9
      <3>3. /\ Agg(b) = WeightedSum(list[i].scores) /\ Agg(j) = WeightedSum(list[j].scores)
            /\ Agg(b) \in Int /\ Agg(j) \in Int
        BY <1>3, <2>6, <2>9, <3>1
      <3>4. Agg(b) >= Agg(j) /\ (Agg(j) = Agg(b) => b <= j)
        BY <2>6, <2>7, <3>2
      <3> QED
        BY <3>1, <3>3, <3>4
    <2> QED
      BY <1>1, <1>2, <2>6, <2>8, <2>9
  <1> QED
    BY <1>5, <1>6

\* Measurements near the first are near each other.
LEMMA NearToOneIsNear ==
  ASSUME NEW kind \in {"relative", "absolute"}, NEW v \in [1 .. MinRuns -> 0 .. MaxScore], WithinTolerance(kind, v),
         NEW i \in DOMAIN v, NEW j \in DOMAIN v
  PROVE  Abs(v[i] - v[j]) <= 4 \/ 5 * Abs(v[i] - v[j]) <= v[1]
  <1>1. /\ MaxScore \in Nat /\ 1 \in 1 .. MinRuns /\ i \in 1 .. MinRuns /\ j \in 1 .. MinRuns
        /\ DOMAIN v = 1 .. MinRuns
    BY ChoiceAssumption DEF MinRuns
  <1>2. v[1] \in Int /\ v[i] \in Int /\ v[j] \in Int
    BY <1>1
  <1>3. Len(v) = 3
    BY <1>1 DEF MinRuns
  <1>4. /\ 10 * Abs(v[i] - v[1]) <= Allowed(kind, v[1])
        /\ 10 * Abs(v[j] - v[1]) <= Allowed(kind, v[1])
    BY <1>1, <1>3 DEF WithinTolerance
  <1> DEFINE x == v[1]
             y == v[i]
             z == v[j]
  <1>5. x \in Int /\ y \in Int /\ z \in Int
    BY <1>2
  <1>6. Abs(y - x) \in Nat /\ Abs(z - x) \in Nat /\ Abs(y - z) \in Nat /\ Abs(y - z) <= Abs(y - x) + Abs(z - x)
    <2> HIDE DEF x, y, z
    <2> QED
      BY <1>5 DEF Abs
  <1>7. Allowed(kind, x) = x \/ Allowed(kind, x) = 20
    BY DEF Allowed
  <1> HIDE DEF x, y, z
  <1>8. /\ 10 * Abs(y - x) <= Allowed(kind, x)
        /\ 10 * Abs(z - x) <= Allowed(kind, x)
    BY <1>4 DEF x, y, z
  <1>9. Abs(y - z) <= 4 \/ 5 * Abs(y - z) <= x
    <2> DEFINE a == Abs(y - x)
               b == Abs(z - x)
               d == Abs(y - z)
    <2>1. a \in Nat /\ b \in Nat /\ d \in Nat /\ d <= a + b
      BY <1>6
    <2>2. (10 * a <= x /\ 10 * b <= x) \/ (10 * a <= 20 /\ 10 * b <= 20)
      BY <1>7, <1>8
    <2> HIDE DEF a, b, d
    <2>3. d <= 4 \/ 5 * d <= x
      BY <1>5, <2>1, <2>2
    <2> QED
      BY <2>3 DEF d
  <1> QED
    BY <1>9 DEF x, y, z

\* Choices are founded in every state.
LEMMA ChoiceInvariance ==
  /\ ChoiceInit => ChoicesAreFounded
  /\ ChoicesAreFounded /\ ChoiceNext => ChoicesAreFounded'
  /\ ChoicesAreFounded /\ UNCHANGED choiceVars => ChoicesAreFounded'
  <1>1. ChoiceInit => ChoicesAreFounded
    BY DEF ChoiceInit, ChoicesAreFounded, NoRun, Retain
  <1>2. ASSUME ChoicesAreFounded, ChoiceNext PROVE ChoicesAreFounded'
    <2>1. ASSUME NEW w \in BOOLEAN, NEW l \in {"compatible", "restricted", "prohibited"},
                 NEW v \in {Uninterpretable, 0, RequiredVram - 1, RequiredVram}, Evaluate(w, l, v)
          PROVE  ChoicesAreFounded'
      <3>1. spread' = <<>> /\ chosen' = "none" /\ offered' = <<>>
        BY <2>1 DEF Evaluate, NoSpread, NoSelection
      <3>2. /\ harnessRun'.done => harnessRun'.measured # harnessRun'.excluded
            /\ harnessRun'.measured => /\ harnessRun'.weights /\ harnessRun'.license # "prohibited"
                                       /\ harnessRun'.vram >= RequiredVram
        <4> DEFINE category == DetectExclusion(w, l, v)
        <4>1. category = "none" => w /\ l # "prohibited" /\ ~(v < RequiredVram)
          BY DEF DetectExclusion
        <4>2. v \in Int /\ RequiredVram \in Int
          BY ChoiceAssumption DEF Uninterpretable
        <4>3. harnessRun' = IF v = Uninterpretable THEN NoRun
                        ELSE [done |-> TRUE, excluded |-> category # "none", category |-> category,
                              measured |-> category = "none", weights |-> w,
                              license |-> l, vram |-> v]
          BY <2>1 DEF Evaluate
        <4>4. CASE v = Uninterpretable
          <5>1. harnessRun' = NoRun
            BY <4>3, <4>4
          <5>2. ~NoRun.done /\ ~NoRun.measured
            BY DEF NoRun
          <5> QED
            BY <5>1, <5>2
        <4>5. CASE v # Uninterpretable
          <5> HIDE DEF category
          <5>1. /\ harnessRun'.excluded <=> category # "none"
                /\ harnessRun'.measured <=> category = "none"
                /\ harnessRun'.weights <=> w
                /\ harnessRun'.excluded \in BOOLEAN /\ harnessRun'.measured \in BOOLEAN
            BY <4>3, <4>5, Zenon
          <5>2. harnessRun'.license = l /\ harnessRun'.vram = v
            BY <4>3, <4>5, Zenon
          <5>3. harnessRun'.measured => w /\ l # "prohibited" /\ v >= RequiredVram
            BY <4>1, <4>2, <5>1
          <5> QED
            BY <5>1, <5>2, <5>3, Zenon
        <4> QED
          BY <4>4, <4>5
      <3> QED
        BY <3>1, <3>2 DEF ChoicesAreFounded
    <2>2. ASSUME NEW k \in {"relative", "absolute"}, NEW v \in [1 .. MinRuns -> 0 .. MaxScore], Reproduce(k, v)
          PROVE  ChoicesAreFounded'
      <3>1. spread' = v /\ chosen' = "none" /\ offered' = <<>> /\ harnessRun' = NoRun
            /\ tolerated' = WithinTolerance(k, v)
        BY <2>2 DEF Reproduce, NoSelection
      <3>2. ~NoRun.done /\ ~NoRun.measured
        BY DEF NoRun
      <3>3. tolerated' => \A i, j \in DOMAIN spread' :
                       Abs(spread'[i] - spread'[j]) <= 4 \/ 5 * Abs(spread'[i] - spread'[j]) <= spread'[1]
        <4> SUFFICES ASSUME WithinTolerance(k, v), NEW i \in DOMAIN v, NEW j \in DOMAIN v
                     PROVE  Abs(v[i] - v[j]) <= 4 \/ 5 * Abs(v[i] - v[j]) <= v[1]
          BY <3>1
        <4> QED
          BY NearToOneIsNear
      <3> QED
        BY <3>1, <3>2, <3>3 DEF ChoicesAreFounded, Retain
    <2>3. ASSUME NEW list \in ScoredChoices, Select(list) PROVE ChoicesAreFounded'
      <3>1. offered' = list /\ chosen' = SelectedOf(list) /\ harnessRun' = NoRun /\ spread' = <<>>
        BY <2>3 DEF Select, NoSpread
      <3>2. ~NoRun.done /\ ~NoRun.measured
        BY DEF NoRun
      <3>3. /\ chosen' = Retain => \A i \in DOMAIN list : ~PassesAllMinimums(list[i].scores)
            /\ chosen' # Retain => \E i \in DOMAIN list : list[i].id = chosen' /\ PassesAllMinimums(list[i].scores)
            /\ chosen' # Retain /\ Unique(list) =>
                 \A i, j \in DOMAIN list :
                    list[i].id = chosen' /\ PassesAllMinimums(list[j].scores) =>
                       \/ WeightedSum(list[i].scores) > WeightedSum(list[j].scores)
                       \/ WeightedSum(list[i].scores) = WeightedSum(list[j].scores) /\ i <= j
        BY <3>1, SelectedIs
      <3> QED
        BY <3>1, <3>2, <3>3 DEF ChoicesAreFounded
    <2> QED
      BY <1>2, <2>1, <2>2, <2>3 DEF ChoiceNext
  <1>3. ASSUME ChoicesAreFounded, UNCHANGED choiceVars PROVE ChoicesAreFounded'
    <2>1. harnessRun' = harnessRun /\ spread' = spread /\ tolerated' = tolerated /\ chosen' = chosen
          /\ offered' = offered
      BY <1>3 DEF choiceVars
    <2> QED
      BY <1>3, <2>1, Zenon DEF ChoicesAreFounded
  <1> QED
    BY <1>1, <1>2, <1>3

-----------------------------------------------------------------------------
(***************************************************************************)
(* The review of training data                                             *)
(***************************************************************************)

\* What a review is made of.
ReviewSteps == {"claim", "approve", "reject", "request_changes", "resubmit"}
ReviewStates == {"absent", "pending", "in_review", "approved", "rejected", "needs_changes"}
BuiltRecords == {BuildRecord(d) : d \in Submissions} \union {NoRecord}
ReviewItems == [record : BuiltRecords, state : ReviewStates, history : Seq(ReviewSteps)]

\* A consent that is claimed is proven.
Proven(r) == r.status \in {"granted", "public_license"} => r.proof

\* A verdict ends a review and was given by somebody who had claimed it.
ReviewIsFair(q) ==
  /\ q.state = "in_review" => Len(q.history) > 0 /\ q.history[Len(q.history)] = "claim"
  /\ q.state = "approved" => Len(q.history) > 0 /\ q.history[Len(q.history)] = "approve"
  /\ \A i \in DOMAIN q.history : q.history[i] \in {"approve", "reject"} =>
        /\ i = Len(q.history) /\ i > 1 /\ q.history[i - 1] = "claim"
        /\ q.state \in {"approved", "rejected"}

\* The queue holds the records that were built, each with a fair review.
ReviewsAreFair ==
  /\ queue \in [SampleIds -> ReviewItems]
  /\ \A s \in SampleIds : ReviewIsFair(queue[s])
  /\ \A s \in SampleIds : queue[s].state # "absent" => queue[s].record.id = s /\ Proven(queue[s].record)

\* What was taken has consent.
TakenIsConsented == \A r \in accepted : r.source = "real_consented" => Consented(r)
\* What was exported has consent, and the last word on it was to approve.
ExportIsApproved == \A r \in exported : Consented(r) /\ Last(queue[r.id].history) = "approve"

\* What a training run says of its dataset.
RunIsHonest(t) ==
  /\ \A r \in t.eligible : Consented(r) /\ r.kind = t.kind
  /\ t.total = Cardinality(t.eligible) + t.refused
  /\ t.outcome = "TrainingUnavailableError" => t.gate

\* What is known of a record from its intake to the training on it.
TrainingInv == ReviewsAreFair /\ TakenIsConsented /\ ExportIsApproved /\ RunIsHonest(training)

\* A record is built of what was declared,
LEMMA BuiltIs ==
  ASSUME NEW d
  PROVE  /\ BuildRecord(d).id = d.id /\ BuildRecord(d).kind = d.kind /\ BuildRecord(d).source = d.source
         /\ BuildRecord(d).status = d.status /\ BuildRecord(d).proof = d.proof
         /\ BuildRecord(d).canTrain = (d.canTrain /\ d.status \in EligibleConsent)
  <1> DEFINE can == d.canTrain /\ d.status \in EligibleConsent
  <1>1. BuildRecord(d) = [id |-> d.id, kind |-> d.kind, source |-> d.source, status |-> d.status,
                          proof |-> d.proof, canTrain |-> can]
    BY DEF BuildRecord
  <1> HIDE DEF can
  <1>2. /\ BuildRecord(d).id = d.id /\ BuildRecord(d).kind = d.kind /\ BuildRecord(d).source = d.source
        /\ BuildRecord(d).status = d.status /\ BuildRecord(d).proof = d.proof
        /\ BuildRecord(d).canTrain = can
    BY <1>1
  <1> QED
    BY <1>2 DEF can

\* What is built without an error says where its consent is from.
LEMMA BuiltIsProven ==
  ASSUME NEW d, BuildError(d) = "none"
  PROVE  d.provenance /\ d.consent /\ Proven(BuildRecord(d))
  <1>1. d.provenance /\ d.consent /\ ~(d.status \in {"granted", "public_license"} /\ ~d.proof)
    BY DEF BuildError
  <1> QED
    BY <1>1, BuiltIs, Zenon DEF Proven

\* What may be trained on has consent.
LEMMA EligibleIsConsented ==
  ASSUME NEW r, Proven(r), IsTrainingEligible(r)
  PROVE  Consented(r)
  BY Zenon DEF Proven, IsTrainingEligible, Consented

\* Nothing was trained on at first,
LEMMA NothingTrained == RunIsHonest(NotTrained)
  <1>1. Cardinality({}) = 0
    BY FS_EmptySet
  <1> QED
    BY <1>1 DEF RunIsHonest, NotTrained

\* and nothing reviewed.
LEMMA NothingAsked == NoItem \in ReviewItems /\ ReviewIsFair(NoItem) /\ NoItem.state = "absent"
  <1>1. NoItem = [record |-> NoRecord, state |-> "absent", history |-> <<>>]
    BY DEF NoItem
  <1>2. NoItem.state = "absent" /\ NoItem.history = <<>>
    BY <1>1
  <1>3. NoItem \in ReviewItems
    <2>1. NoRecord \in BuiltRecords
      BY DEF BuiltRecords
    <2> QED
      BY <1>1, <2>1 DEF ReviewItems, ReviewStates
  <1> QED
    BY <1>2, <1>3 DEF ReviewIsFair

\* A record that is submitted is taken or refused.
LEMMA SubmitKeeps ==
  ASSUME TrainingInv, NEW d \in Submissions, SubmitRecord(d)
  PROVE  TrainingInv'
  <1>1. exported' = {} /\ training' = NotTrained /\ queue' = queue
    BY DEF SubmitRecord
  <1>2. TakenIsConsented'
    <2> DEFINE real == d.source = "real_consented" /\ ~IsTrainingEligible(BuildRecord(d))
    <2>1. CASE BuildError(d) = "none" /\ ~real
      <3>1. accepted' = accepted \union {BuildRecord(d)}
        BY <2>1 DEF SubmitRecord
      <3>2. BuildRecord(d).source = "real_consented" => Consented(BuildRecord(d))
        <4>1. Proven(BuildRecord(d)) /\ BuildRecord(d).source = d.source
          BY <2>1, BuiltIsProven, BuiltIs
        <4> QED
          BY <2>1, <4>1, EligibleIsConsented
      <3> QED
        BY <3>1, <3>2, Zenon DEF TrainingInv, TakenIsConsented, Consented
    <2>2. CASE ~(BuildError(d) = "none" /\ ~real)
      <3>1. accepted' = accepted
        BY <2>2 DEF SubmitRecord
      <3> QED
        BY <3>1, Zenon DEF TrainingInv, TakenIsConsented, Consented
    <2> QED
      BY <2>1, <2>2
  <1>3. ReviewsAreFair'
    BY <1>1, Zenon DEF TrainingInv, ReviewsAreFair, ReviewIsFair, Proven
  <1> QED
    BY <1>1, <1>2, <1>3, NothingTrained, Zenon DEF TrainingInv, ExportIsApproved, RunIsHonest, Consented

\* One item changes.
LEMMA ItemChanges ==
  ASSUME TrainingInv, NEW s \in SampleIds, NEW q \in ReviewItems, queue' = [queue EXCEPT ![s] = q],
         ReviewIsFair(q), q.record.id = s, Proven(q.record),
         exported' = {}, training' = NotTrained, UNCHANGED <<accepted, refused>>
  PROVE  TrainingInv'
  <1>1. queue \in [SampleIds -> ReviewItems]
    BY DEF TrainingInv, ReviewsAreFair
  <1>2. queue' \in [SampleIds -> ReviewItems] /\ \A i \in SampleIds : queue'[i] = IF i = s THEN q ELSE queue[i]
    BY <1>1
  <1>3. \A i \in SampleIds : ReviewIsFair(queue'[i])
    BY <1>2 DEF TrainingInv, ReviewsAreFair
  <1>4. ASSUME NEW i \in SampleIds, queue'[i].state # "absent"
        PROVE  queue'[i].record.id = i /\ Proven(queue'[i].record)
    <2>1. CASE i = s
      BY <1>2, <2>1
    <2>2. CASE i # s
      <3>1. queue'[i] = queue[i]
        BY <1>2, <2>2
      <3> QED
        BY <1>4, <3>1 DEF TrainingInv, ReviewsAreFair
    <2> QED
      BY <2>1, <2>2
  <1>5. ReviewsAreFair'
    BY <1>2, <1>3, <1>4, Zenon DEF ReviewsAreFair, ReviewIsFair, Proven
  <1>6. TakenIsConsented'
    BY Zenon DEF TrainingInv, TakenIsConsented, Consented
  <1> QED
    BY <1>5, <1>6, NothingTrained, Zenon DEF TrainingInv, ExportIsApproved, RunIsHonest, Consented

\* A record is reviewed from its start.
LEMMA AddKeeps ==
  ASSUME TrainingInv, NEW d \in Submissions, AddToReview(d)
  PROVE  TrainingInv'
  <1> DEFINE r == BuildRecord(d)
             q == [record |-> r, state |-> "pending", history |-> <<>>]
  <1>1. d.id \in SampleIds
    BY DEF SampleIds
  <1>2. BuildError(d) = "none" /\ exported' = {} /\ training' = NotTrained /\ UNCHANGED <<accepted, refused>>
    BY DEF AddToReview
  <1>3. CASE queue[d.id] # NoItem
    <2>1. queue' = queue
      BY <1>3 DEF AddToReview
    <2>2. ReviewsAreFair'
      BY <2>1, Zenon DEF TrainingInv, ReviewsAreFair, ReviewIsFair, Proven
    <2>3. TakenIsConsented'
      BY <1>2, Zenon DEF TrainingInv, TakenIsConsented, Consented
    <2> QED
      BY <1>2, <2>2, <2>3, NothingTrained, Zenon DEF TrainingInv, ExportIsApproved, RunIsHonest, Consented
  <1>4. CASE queue[d.id] = NoItem
    <2>1. queue' = [queue EXCEPT ![d.id] = q]
      BY <1>4 DEF AddToReview
    <2>2. Proven(r) /\ r.id = d.id
      BY <1>2, BuiltIs, BuiltIsProven
    <2>3. r \in BuiltRecords
      BY DEF BuiltRecords
    <2> HIDE DEF r
    <2>4. q \in ReviewItems /\ q.record = r /\ q.state = "pending" /\ q.history = <<>>
      BY <2>3 DEF ReviewItems, ReviewStates
    <2> HIDE DEF q
    <2>5. ReviewIsFair(q)
      BY <2>4 DEF ReviewIsFair
    <2> QED
      BY <1>1, <1>2, <2>1, <2>2, <2>4, <2>5, ItemChanges
  <1> QED
    BY <1>3, <1>4

\* A review goes by its steps.
LEMMA ReviewKeeps ==
  ASSUME TrainingInv, NEW s \in SampleIds, NEW action \in ReviewSteps, ApplyReview(s, action)
  PROVE  TrainingInv'
  <1>1. queue \in [SampleIds -> ReviewItems] /\ ReviewIsFair(queue[s])
    BY DEF TrainingInv, ReviewsAreFair
  <1>2. PICK t \in AllowedTransitions :
           /\ t[1] = queue[s].state /\ t[2] = action
           /\ queue' = [queue EXCEPT ![s].state = t[3], ![s].history = Append(@, action)]
    BY DEF ApplyReview
  <1>3. exported' = {} /\ training' = NotTrained /\ UNCHANGED <<accepted, refused>>
    BY DEF ApplyReview
  <1> DEFINE to == t[3]
             h == queue[s].history
             g == Append(h, action)
             n == Len(h)
             q == [[queue[s] EXCEPT !.state = to] EXCEPT !.history = g]
  <1>4. queue[s] \in ReviewItems
    BY <1>1
  <1>5. h \in Seq(ReviewSteps) /\ queue[s].record \in BuiltRecords
    BY <1>4 DEF ReviewItems
  <1>6. /\ n \in Nat /\ g \in Seq(ReviewSteps) /\ Len(g) = n + 1 /\ DOMAIN g = 1 .. n + 1 /\ DOMAIN h = 1 .. n
        /\ g[n + 1] = action /\ \A i \in 1 .. n : g[i] = h[i]
    BY <1>5
  <1>7. queue' = [queue EXCEPT ![s] = q]
    BY <1>1, <1>2
  <1>8. \/ queue[s].state = "pending" /\ action = "claim" /\ to = "in_review"
        \/ queue[s].state = "in_review" /\ action = "approve" /\ to = "approved"
        \/ queue[s].state = "in_review" /\ action = "reject" /\ to = "rejected"
        \/ queue[s].state = "in_review" /\ action = "request_changes" /\ to = "needs_changes"
        \/ queue[s].state = "needs_changes" /\ action = "resubmit" /\ to = "pending"
        \/ queue[s].state = "needs_changes" /\ action = "claim" /\ to = "in_review"
    <2> HIDE DEF q, g, h, n
    <2> QED
      BY <1>2 DEF AllowedTransitions
  <1> HIDE DEF to, g
  <1>9. to \in ReviewStates
    BY <1>8 DEF ReviewStates
  <1>10. q \in ReviewItems /\ q.record = queue[s].record /\ q.state = to /\ q.history = g
    BY <1>4, <1>6, <1>9 DEF ReviewItems
  <1>11. queue[s].state # "absent" /\ q.record.id = s /\ Proven(q.record)
    <2>1. queue[s].state # "absent"
      BY <1>8
    <2> HIDE DEF q
    <2> QED
      BY <1>10, <2>1 DEF TrainingInv, ReviewsAreFair
  <1>12. \A i \in 1 .. n : h[i] \notin {"approve", "reject"}
    BY <1>1, <1>6, <1>8 DEF ReviewIsFair
  <1> HIDE DEF q
  <1>13. q.state = "in_review" => Len(q.history) > 0 /\ q.history[Len(q.history)] = "claim"
    BY <1>6, <1>8, <1>10
  <1>14. q.state = "approved" => Len(q.history) > 0 /\ q.history[Len(q.history)] = "approve"
    BY <1>6, <1>8, <1>10
  <1>15. ASSUME NEW i \in DOMAIN g, g[i] \in {"approve", "reject"}
         PROVE  i = n + 1 /\ i > 1 /\ g[i - 1] = "claim" /\ to \in {"approved", "rejected"}
    <2>1. i = n + 1 /\ action \in {"approve", "reject"}
      BY <1>6, <1>12, <1>15
    <2>2. queue[s].state = "in_review" /\ to \in {"approved", "rejected"}
      BY <1>8, <2>1
    <2>3. n > 0 /\ h[n] = "claim"
      BY <1>1, <2>2 DEF ReviewIsFair
    <2>4. g[n] = h[n] /\ i - 1 = n /\ i > 1
      BY <1>6, <2>1, <2>3
    <2> QED
      BY <2>1, <2>2, <2>3, <2>4
  <1>16. ReviewIsFair(q)
    BY <1>6, <1>10, <1>13, <1>14, <1>15 DEF ReviewIsFair
  <1> QED
    BY <1>3, <1>7, <1>10, <1>11, <1>16, ItemChanges

\* What is exported was approved.
LEMMA ExportKeeps ==
  ASSUME TrainingInv, ApprovedRecords
  PROVE  TrainingInv'
  <1>1. training' = NotTrained /\ accepted' = accepted /\ queue' = queue
    BY DEF ApprovedRecords
  <1>2. ASSUME NEW r \in exported' PROVE Consented(r) /\ Last(queue'[r.id].history) = "approve"
    <2>1. PICK s \in SampleIds : /\ r = queue[s].record /\ queue[s].state = "approved"
                                 /\ IsTrainingEligible(queue[s].record)
      BY <1>2 DEF ApprovedRecords
    <2>2. r.id = s /\ Proven(r)
      BY <2>1 DEF TrainingInv, ReviewsAreFair
    <2>3. Consented(r)
      BY <2>1, <2>2, EligibleIsConsented
    <2>4. queue[s].history[Len(queue[s].history)] = "approve"
      BY <2>1 DEF TrainingInv, ReviewsAreFair, ReviewIsFair
    <2> QED
      BY <1>1, <2>2, <2>3, <2>4 DEF Last
  <1>3. ReviewsAreFair' /\ TakenIsConsented'
    BY <1>1, Zenon DEF TrainingInv, ReviewsAreFair, ReviewIsFair, Proven, TakenIsConsented, Consented
  <1> QED
    BY <1>1, <1>2, <1>3, NothingTrained, Zenon DEF TrainingInv, ExportIsApproved, RunIsHonest, Consented

\* Every line of a dataset is eligible or refused, and one eligible record is one line.
LEMMA DatasetIsCounted ==
  ASSUME NEW items \in Datasets, NEW kind
  PROVE  LET eligible == ValidateDataset(items, kind)
         IN /\ \A r \in eligible : Consented(r) /\ r.kind = kind
            /\ Cardinality(items) =
                 Cardinality(eligible) + (Cardinality({d \in items : BuildError(d) # "none"})
                    + Cardinality({d \in items : BuildError(d) = "none" /\ BuildRecord(d) \notin eligible}))
  <1> DEFINE eligible == ValidateDataset(items, kind)
             bad == {d \in items : BuildError(d) # "none"}
             other == {d \in items : BuildError(d) = "none" /\ BuildRecord(d) \notin eligible}
             good == {d \in items : BuildError(d) = "none" /\ BuildRecord(d) \in eligible}
             f == [d \in good |-> BuildRecord(d)]
  <1>1. IsFiniteSet(items) /\ items \subseteq Submissions
    BY DEF Datasets
  <1>2. ASSUME NEW r \in eligible
        PROVE  /\ \E d \in items : BuildError(d) = "none" /\ r = BuildRecord(d)
               /\ r.kind = kind /\ IsTrainingEligible(r)
    BY <1>2 DEF ValidateDataset
  <1>3. \A r \in eligible : Consented(r) /\ r.kind = kind
    <2> SUFFICES ASSUME NEW r \in eligible PROVE Consented(r) /\ r.kind = kind
      OBVIOUS
    <2>1. Proven(r) /\ r.kind = kind /\ IsTrainingEligible(r)
      BY <1>2, BuiltIsProven
    <2> QED
      BY <2>1, EligibleIsConsented
  <1> HIDE DEF eligible
  <1>4. f \in Bijection(good, eligible)
    <2>1. f \in [good -> eligible]
      OBVIOUS
    <2>2. \A r \in eligible : \E d \in good : f[d] = r
      BY <1>2
    <2>3. ASSUME NEW a \in good, NEW b \in good, f[a] = f[b] PROVE a = b
      <3>1. /\ BuildRecord(a) = BuildRecord(b) /\ BuildRecord(a) \in eligible
            /\ BuildError(a) = "none" /\ BuildError(b) = "none"
        BY <2>3
      <3>2. a.provenance /\ a.consent /\ b.provenance /\ b.consent
        BY <3>1, BuiltIsProven
      <3>3. /\ a.id = b.id /\ a.kind = b.kind /\ a.source = b.source /\ a.status = b.status
            /\ a.proof = b.proof
        BY <3>1, BuiltIs
      <3>4. a.canTrain /\ b.canTrain
        <4>1. BuildRecord(a).canTrain /\ BuildRecord(b).canTrain
          BY <1>2, <3>1, Zenon DEF IsTrainingEligible
        <4> QED
          BY <4>1, BuiltIs, Zenon
      <3>5. a \in Submissions /\ b \in Submissions
        BY <1>1
      <3> HIDE DEF f
      <3>6. /\ a = [id |-> a.id, kind |-> a.kind, source |-> a.source, status |-> a.status, proof |-> a.proof,
                    canTrain |-> a.canTrain, provenance |-> a.provenance, consent |-> a.consent]
            /\ b = [id |-> b.id, kind |-> b.kind, source |-> b.source, status |-> b.status, proof |-> b.proof,
                    canTrain |-> b.canTrain, provenance |-> b.provenance, consent |-> b.consent]
            /\ a.canTrain \in BOOLEAN /\ a.provenance \in BOOLEAN /\ a.consent \in BOOLEAN
            /\ b.canTrain \in BOOLEAN /\ b.provenance \in BOOLEAN /\ b.consent \in BOOLEAN
        BY <3>5, TrainingAssumption
      <3>7. a.canTrain = b.canTrain /\ a.provenance = b.provenance /\ a.consent = b.consent
        BY <3>2, <3>4, <3>6
      <3> QED
        BY <3>3, <3>6, <3>7
    <2> QED
      BY <2>1, <2>2, <2>3 DEF Bijection, Injection, Surjection, IsInjective
  <1>5. /\ IsFiniteSet(good) /\ IsFiniteSet(bad) /\ IsFiniteSet(other)
    BY <1>1, FS_Subset
  <1>6. Cardinality(good) = Cardinality(eligible)
    <2> HIDE DEF f, good, bad, other
    <2>1. ExistsBijection(good, eligible)
      BY <1>4 DEF ExistsBijection
    <2> QED
      BY <1>5, <2>1, FS_Bijection
  <1>7. items = (good \union bad) \union other /\ good \intersect bad = {}
        /\ (good \union bad) \intersect other = {}
    OBVIOUS
  <1> HIDE DEF good, bad, other
  <1>8. Cardinality(good \union bad) = Cardinality(good) + Cardinality(bad) - Cardinality({})
        /\ IsFiniteSet(good \union bad)
    BY <1>5, <1>7, FS_Union
  <1>9. Cardinality(items) = Cardinality(good \union bad) + Cardinality(other) - Cardinality({})
    BY <1>5, <1>7, <1>8, FS_Union
  <1>10. /\ Cardinality({}) = 0 /\ Cardinality(good) \in Nat /\ Cardinality(bad) \in Nat
         /\ Cardinality(other) \in Nat
    BY <1>5, FS_CardinalityType, FS_EmptySet
  <1>11. Cardinality(items) = Cardinality(eligible) + (Cardinality(bad) + Cardinality(other))
    BY <1>6, <1>8, <1>9, <1>10
  <1> QED
    BY <1>3, <1>11 DEF eligible, bad, other

\* A run is honest about what it used.
LEMMA RunKeeps ==
  ASSUME TrainingInv, NEW items \in Datasets, NEW kind, NEW gain \in BOOLEAN, NEW dry \in BOOLEAN,
         RunTraining(items, kind, gain, dry)
  PROVE  TrainingInv'
  <1> DEFINE eligible == ValidateDataset(items, kind)
             refusals == Cardinality({d \in items : BuildError(d) # "none"})
                         + Cardinality({d \in items : BuildError(d) = "none" /\ BuildRecord(d) \notin eligible})
             total == Cardinality(items)
             outcome == IF dry THEN "manifest" ELSE IF gain THEN "TrainingUnavailableError" ELSE "GatingError"
             t == [outcome |-> outcome, kind |-> kind, total |-> total, eligible |-> eligible,
                   refused |-> refusals, gate |-> gain]
  <1>1. exported' = {} /\ accepted' = accepted /\ queue' = [s \in SampleIds |-> NoItem]
    BY DEF RunTraining
  <1>2. training' = t
    <2>1. DryRun(items, kind, gain) = [outcome |-> "manifest", kind |-> kind, total |-> total,
                                       eligible |-> eligible, refused |-> refusals, gate |-> gain]
      BY DEF DryRun
    <2> HIDE DEF eligible, refusals, total
    <2>2. CASE dry
      BY <2>1, <2>2 DEF RunTraining
    <2>3. CASE ~dry
      BY <2>1, <2>3 DEF RunTraining
    <2> QED
      BY <2>2, <2>3
  <1>3. (\A r \in eligible : Consented(r) /\ r.kind = kind) /\ total = Cardinality(eligible) + refusals
    BY DatasetIsCounted
  <1>4. outcome = "TrainingUnavailableError" => gain
    OBVIOUS
  <1> HIDE DEF eligible, refusals, total, outcome
  <1>5. /\ t.eligible = eligible /\ t.kind = kind /\ t.total = total /\ t.refused = refusals
        /\ t.outcome = outcome /\ t.gate = gain
    OBVIOUS
  <1> HIDE DEF t
  <1>6. RunIsHonest(t)
    BY <1>3, <1>4, <1>5, Zenon DEF RunIsHonest
  <1>7. ReviewsAreFair'
    <2>1. queue' \in [SampleIds -> ReviewItems] /\ \A s \in SampleIds : queue'[s] = NoItem
      BY <1>1, NothingAsked
    <2>2. \A s \in SampleIds : ReviewIsFair(queue'[s]) /\ queue'[s].state = "absent"
      BY <2>1, NothingAsked
    <2> QED
      BY <2>1, <2>2, Zenon DEF ReviewsAreFair, ReviewIsFair, Proven
  <1>8. TakenIsConsented'
    BY <1>1, Zenon DEF TrainingInv, TakenIsConsented, Consented
  <1> QED
    BY <1>1, <1>2, <1>6, <1>7, <1>8, Zenon DEF TrainingInv, ExportIsApproved, RunIsHonest, Consented

\* Training is consented to in every state.
LEMMA TrainingInvariance ==
  /\ TrainingInit => TrainingInv
  /\ TrainingInv /\ TrainingNext => TrainingInv'
  /\ TrainingInv /\ UNCHANGED trainingVars => TrainingInv'
  /\ TrainingInv => TrainingIsConsented
  <1>1. ASSUME TrainingInit PROVE TrainingInv
    <2>1. /\ accepted = {} /\ exported = {} /\ training = NotTrained /\ queue = [s \in SampleIds |-> NoItem]
      BY <1>1 DEF TrainingInit
    <2>2. queue \in [SampleIds -> ReviewItems] /\ \A s \in SampleIds : queue[s] = NoItem
      BY <2>1, NothingAsked
    <2>3. \A s \in SampleIds : ReviewIsFair(queue[s]) /\ queue[s].state = "absent"
      BY <2>2, NothingAsked
    <2> QED
      BY <2>1, <2>2, <2>3, NothingTrained
         DEF TrainingInv, ReviewsAreFair, TakenIsConsented, ExportIsApproved
  <1>2. TrainingInv /\ TrainingNext => TrainingInv'
    BY SubmitKeeps, AddKeeps, ReviewKeeps, ExportKeeps, RunKeeps DEF TrainingNext, ReviewSteps
  <1>3. ASSUME TrainingInv, UNCHANGED trainingVars PROVE TrainingInv'
    <2>1. accepted' = accepted /\ exported' = exported /\ training' = training /\ queue' = queue
      BY <1>3 DEF trainingVars
    <2>2. ReviewsAreFair' /\ TakenIsConsented'
      BY <1>3, <2>1, Zenon DEF TrainingInv, ReviewsAreFair, ReviewIsFair, Proven, TakenIsConsented, Consented
    <2>3. ExportIsApproved' /\ RunIsHonest(training)'
      BY <1>3, <2>1, Zenon DEF TrainingInv, ExportIsApproved, RunIsHonest, Consented
    <2> QED
      BY <2>2, <2>3, Zenon DEF TrainingInv
  <1>4. ASSUME TrainingInv PROVE TrainingIsConsented
    BY <1>4, Zenon DEF TrainingInv, TakenIsConsented, ExportIsApproved, ReviewsAreFair, ReviewIsFair,
                       RunIsHonest, TrainingIsConsented
  <1> QED
    BY <1>1, <1>2, <1>3, <1>4

-----------------------------------------------------------------------------
(***************************************************************************)
(* All of the tools                                                        *)
(***************************************************************************)

\* In each tool what its invariant promises holds in every behaviour: what is
\* remembered of a user is what that user said,
LEMMA PersonaStays == PersonaSpec => []PersonaKnowsItsUser
  <1>1. PersonaInv /\ [PersonaNext]_personaVars => PersonaInv'
    BY PersonaInvariance, Zenon
  <1> QED
    BY <1>1, PersonaInvariance, PTL DEF PersonaSpec

\* context is faithful,
LEMMA SummaryStays == SummarySpec => []ContextIsFaithful
  <1>1. SummaryInv /\ [SummaryNext]_summaryVars => SummaryInv'
    BY SummaryInvariance, Zenon
  <1> QED
    BY <1>1, SummaryInvariance, PTL DEF SummarySpec

\* decisions are sound,
LEMMA DuplexStays == DuplexSpec => []DuplexIsSound
  <1>1. DuplexInv /\ [DuplexNext]_duplexVars => DuplexInv'
    BY DuplexInvariance, Zenon
  <1> QED
    BY <1>1, DuplexInvariance, PTL DEF DuplexSpec

\* the guard is complete,
LEMMA GuardStays == GuardSpec => []GuardIsComplete
  <1>1. GuardInv /\ [GuardNext]_guardVars => GuardInv'
    BY GuardInvariance, Zenon
  <1> QED
    BY <1>1, GuardInvariance, PTL DEF GuardSpec

\* gates fail closed,
LEMMA LicenseStays == LicenseSpec => []GatesAreFailClosed
  <1>1. LicenseInv /\ [LicenseNext]_licenseVars => LicenseInv'
    BY LicenseInvariance, Zenon
  <1> QED
    BY <1>1, LicenseInvariance, PTL DEF LicenseSpec

\* plans fit,
LEMMA BudgetStays == BudgetSpec => []PlansFitTheBudget
  <1>1. PlansFitTheBudget /\ [BudgetNext]_budgetVars => PlansFitTheBudget'
    BY BudgetInvariance, Zenon
  <1> QED
    BY <1>1, BudgetInvariance, PTL DEF BudgetSpec

\* choices are founded,
LEMMA ChoiceStays == ChoiceSpec => []ChoicesAreFounded
  <1>1. ChoicesAreFounded /\ [ChoiceNext]_choiceVars => ChoicesAreFounded'
    BY ChoiceInvariance, Zenon
  <1> QED
    BY <1>1, ChoiceInvariance, PTL DEF ChoiceSpec

\* and training is consented to.
LEMMA TrainingStays == TrainingSpec => []TrainingIsConsented
  <1>1. TrainingInv /\ [TrainingNext]_trainingVars => TrainingInv'
    BY TrainingInvariance, Zenon
  <1> QED
    BY <1>1, TrainingInvariance, PTL DEF TrainingSpec

\* In a behaviour of the tools each behaves as it does alone.
LEMMA ToolsMoveAlone ==
  ToolingSpec => /\ PersonaSpec /\ SummarySpec /\ DuplexSpec /\ GuardSpec /\ LicenseSpec /\ BudgetSpec
                 /\ ChoiceSpec /\ TrainingSpec
  <1>1. ToolingInit => /\ PersonaInit /\ SummaryInit /\ DuplexInit /\ GuardInit /\ LicenseInit
                       /\ BudgetInit /\ ChoiceInit /\ TrainingInit
    BY DEF ToolingInit
  <1>2. [ToolingNext]_toolingVars => [PersonaNext]_personaVars
    BY DEF ToolingNext, toolingVars
  <1>3. [ToolingNext]_toolingVars => [SummaryNext]_summaryVars
    BY DEF ToolingNext, toolingVars
  <1>4. [ToolingNext]_toolingVars => [DuplexNext]_duplexVars
    BY DEF ToolingNext, toolingVars
  <1>5. [ToolingNext]_toolingVars => [GuardNext]_guardVars
    BY DEF ToolingNext, toolingVars
  <1>6. [ToolingNext]_toolingVars => [LicenseNext]_licenseVars
    BY DEF ToolingNext, toolingVars
  <1>7. [ToolingNext]_toolingVars => [BudgetNext]_budgetVars
    BY DEF ToolingNext, toolingVars
  <1>8. [ToolingNext]_toolingVars => [ChoiceNext]_choiceVars
    BY DEF ToolingNext, toolingVars
  <1>9. [ToolingNext]_toolingVars => [TrainingNext]_trainingVars
    BY DEF ToolingNext, toolingVars
  <1> QED
    BY <1>1, <1>2, <1>3, <1>4, <1>5, <1>6, <1>7, <1>8, <1>9, PTL
       DEF ToolingSpec, PersonaSpec, SummarySpec, DuplexSpec, GuardSpec, LicenseSpec, BudgetSpec,
           ChoiceSpec, TrainingSpec

\* The tools do as they say, whatever they were asked before: what is remembered
\* or told of a user is what that user said, one interruption is one barge-in,
\* the consent log is the voices in use, a gate is blocked for the reasons it
\* names, a plan fits the hardware, what is chosen has passed, and what is
\* trained on has consent.
THEOREM ToolsStayExact == ToolingSpec => []ToolingIsExact
  <1>1. /\ PersonaKnowsItsUser /\ ContextIsFaithful /\ DuplexIsSound /\ GuardIsComplete
        /\ GatesAreFailClosed /\ PlansFitTheBudget /\ ChoicesAreFounded /\ TrainingIsConsented
        => ToolingIsExact
    BY Zenon DEF ToolingIsExact
  <1> QED
    BY <1>1, ToolsMoveAlone, PersonaStays, SummaryStays, DuplexStays, GuardStays, LicenseStays,
       BudgetStays, ChoiceStays, TrainingStays, PTL
===============================================================================
