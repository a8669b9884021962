----------------------------- MODULE EdgeProofs -----------------------------
(***************************************************************************)
(* The gateway's jitter buffer, for any range of sequence numbers, any     *)
(* max_pending and any session_ttl_ms: order, no duplicates, bounded       *)
(* buffering and no loss of an accepted frame; and the planner, for any    *)
(* thresholds, vocabulary and texts.                                       *)
(***************************************************************************)
EXTENDS TransportGateway, EdgePlanner, SequenceTheorems, FiniteSetTheorems,
        NaturalsInduction, WellFoundedInduction, TLAPS

\* The safety properties form an inductive invariant together: delivered frames
\* are below the cursor and pending ones above it, so what follows keeps order.
IInv ==
    /\ TypeOK
    /\ DeliveredInOrder
    /\ HeldBehindGap
    /\ AcceptedAreAccountedFor
    /\ ReleasedHoldsNothing

-----------------------------------------------------------------------------
(* Frames and sets of frames *)

\* Every set of frames is finite.
LEMMA FramesFinite ==
  ASSUME NEW S \in SUBSET Seqs
  PROVE  IsFiniteSet(S) /\ Cardinality(S) \in Nat
  <1>1. IsFiniteSet(Seqs)
    BY FS_Interval, GatewayAssumption DEF Seqs
  <1>2. IsFiniteSet(S)
    BY <1>1, FS_Subset
  <1> QED
    BY <1>2, FS_CardinalityType

\* A released run of frames, as a sequence.
LEMMA RunType ==
  ASSUME NEW a \in Nat, NEW b \in Nat, a <= b, a .. b - 1 \subseteq Seqs
  PROVE  /\ Run(a, b) \in Seq(Seqs)
         /\ Len(Run(a, b)) = b - a
         /\ \A i \in 1 .. b - a : Run(a, b)[i] = a + i - 1
         /\ Increasing(Run(a, b))
  <1>1. \A i \in 1 .. b - a : a + i - 1 \in a .. b - 1
    OBVIOUS
  <1>2. b - a \in Nat
    OBVIOUS
  <1>3. /\ Run(a, b) \in Seq(Seqs)
        /\ Len(Run(a, b)) = b - a
        /\ \A i \in 1 .. b - a : Run(a, b)[i] = a + i - 1
    BY <1>1, <1>2 DEF Run
  <1> QED
    BY <1>2, <1>3 DEF Increasing

\* sorted(R), as a sequence.
LEMMA SortedType ==
  ASSUME NEW R \in SUBSET Seqs, NEW s \in Sorted(R)
  PROVE  /\ s \in Seq(Seqs)
         /\ Len(s) = Cardinality(R)
         /\ \A i \in 1 .. Len(s) : s[i] \in R
         /\ Increasing(s)
  <1>1. Cardinality(R) \in Nat
    BY FramesFinite
  <1>2. s \in [1 .. Cardinality(R) -> R] /\ \A i, j \in 1 .. Cardinality(R) : i < j => s[i] < s[j]
    BY DEF Sorted
  <1>3. s \in Seq(Seqs) /\ Len(s) = Cardinality(R)
    BY <1>1, <1>2
  <1> QED
    BY <1>2, <1>3 DEF Increasing

\* What has been delivered below n stays in order when frames from n on follow.
LEMMA Follows ==
  ASSUME NEW D \in Seq(Seqs), NEW T \in Seq(Seqs), NEW n \in Nat, NEW m \in Nat, n <= m,
         Increasing(D), \A i \in 1 .. Len(D) : D[i] < n,
         Increasing(T), \A i \in 1 .. Len(T) : n <= T[i] /\ T[i] < m
  PROVE  /\ D \o T \in Seq(Seqs)
         /\ Len(D \o T) = Len(D) + Len(T)
         /\ Increasing(D \o T)
         /\ \A i \in 1 .. Len(D \o T) : (D \o T)[i] < m
  <1>1. /\ D \o T \in Seq(Seqs)
        /\ Len(D \o T) = Len(D) + Len(T)
        /\ \A i \in 1 .. Len(D) + Len(T) :
              (D \o T)[i] = IF i <= Len(D) THEN D[i] ELSE T[i - Len(D)]
    BY ConcatProperties
  <1>2. Len(D) \in Nat /\ Len(T) \in Nat
    OBVIOUS
  <1>3. /\ \A i \in 1 .. Len(D) : D[i] \in Nat
        /\ \A i \in 1 .. Len(T) : T[i] \in Nat
    BY GatewayAssumption DEF Seqs
  <1>4. ASSUME NEW i \in 1 .. Len(D) + Len(T), i > Len(D)
        PROVE  i - Len(D) \in 1 .. Len(T)
    BY <1>2, <1>4
  <1>5. Increasing(D \o T)
    <2> SUFFICES ASSUME NEW i \in 1 .. Len(D) + Len(T), NEW j \in 1 .. Len(D) + Len(T), i < j
                 PROVE  (D \o T)[i] < (D \o T)[j]
      BY <1>1 DEF Increasing
    <2>1. CASE j <= Len(D)
      BY <2>1, <1>1, <1>2 DEF Increasing
    <2>2. CASE i <= Len(D) /\ j > Len(D)
      <3>1. j - Len(D) \in 1 .. Len(T)
        BY <2>2, <1>4
      <3>2. (D \o T)[i] = D[i] /\ (D \o T)[j] = T[j - Len(D)]
        BY <2>2, <1>1, <1>2
      <3>3. i \in 1 .. Len(D)
        BY <2>2, <1>2
      <3>4. D[i] < n /\ n <= T[j - Len(D)] /\ D[i] \in Nat /\ T[j - Len(D)] \in Nat
        BY <3>1, <3>3, <1>3
      <3> QED
        BY <3>2, <3>4
    <2>3. CASE i > Len(D)
      <3>1. i - Len(D) \in 1 .. Len(T) /\ j - Len(D) \in 1 .. Len(T) /\ i - Len(D) < j - Len(D)
        BY <2>3, <1>2, <1>4
      <3>2. (D \o T)[i] = T[i - Len(D)] /\ (D \o T)[j] = T[j - Len(D)]
        BY <2>3, <1>1, <1>2
      <3> QED
        BY <3>1, <3>2 DEF Increasing
    <2> QED
      BY <2>1, <2>2, <2>3, <1>2
  <1>6. ASSUME NEW i \in 1 .. Len(D) + Len(T) PROVE (D \o T)[i] < m
    <2>1. CASE i <= Len(D)
      <3>1. i \in 1 .. Len(D) /\ (D \o T)[i] = D[i]
        BY <2>1, <1>1, <1>2
      <3>2. D[i] < n /\ D[i] \in Nat
        BY <3>1, <1>3
      <3> QED
        BY <3>1, <3>2
    <2>2. CASE i > Len(D)
      BY <2>2, <1>1, <1>2, <1>4
    <2> QED
      BY <2>1, <2>2, <1>2
  <1> QED
    BY <1>1, <1>5, <1>6

-----------------------------------------------------------------------------
(* The jitter buffer *)

\* A buffer with cursor n and pending frames P as the invariant describes it, and
\* a frame f that it does not refuse.
Fresh(n, P, f) ==
    /\ n \in 0 .. MaxSeq + 1
    /\ P \in SUBSET Seqs
    /\ f \in Seqs
    /\ \A p \in P : p > n
    /\ Cardinality(P) <= MaxPending
    /\ ~Stale(n, P, f)

\* What stays in the buffer.
Rest(P, f, start, stop) == (P \cup {f}) \ (start .. stop - 1)

\* Where the run that a fresh frame completes begins and what it leaves behind.
LEMMA Drained ==
  ASSUME NEW n, NEW P, NEW f, Fresh(n, P, f),
         NEW start \in Seqs \cup {n}, NEW stop \in start .. MaxSeq + 1,
         StartsAt(n, P \cup {f}, start), DrainsTo(P \cup {f}, start, stop)
  PROVE  /\ start \in Nat /\ stop \in Nat /\ n <= start /\ start <= stop
         /\ start .. stop - 1 \subseteq Seqs
         /\ \A p \in Rest(P, f, start, stop) : p > stop
         /\ Cardinality(Rest(P, f, start, stop)) <= MaxPending
         /\ Cardinality(Rest(P, f, start, stop)) = Cardinality(P) + 1 - (stop - start)
  <1> USE GatewayAssumption DEF Seqs, Fresh, Rest
  <1> DEFINE all == P \cup {f}
             run == start .. stop - 1
             rest == Rest(P, f, start, stop)
  <1>1. f >= n /\ f \notin P /\ \A p \in all : p >= n /\ p \in Nat
    BY DEF Stale
  <1>2. IsFiniteSet(P) /\ Cardinality(P) \in Nat /\ IsFiniteSet(all) /\ Cardinality(all) = Cardinality(P) + 1
    <2>1. IsFiniteSet(P) /\ Cardinality(P) \in Nat
      BY FramesFinite
    <2> QED
      BY <2>1, <1>1, FS_AddElement
  <1>3. run \subseteq all /\ stop \notin all
    BY DEF DrainsTo
  <1>4. /\ n <= start
        /\ \A p \in all : p >= start
        /\ Cardinality(all) > MaxPending => start \in all
    <2>1. CASE Cardinality(all) > MaxPending
      <3>1. PICK lowest \in all : /\ \A p \in all : lowest <= p
                                  /\ start = IF lowest > n THEN lowest ELSE n
        BY <2>1 DEF StartsAt
      <3>2. start = lowest
        BY <3>1, <1>1
      <3> QED
        BY <3>1, <3>2, <1>1
    <2>2. CASE ~(Cardinality(all) > MaxPending)
      <3>1. start = n
        BY <2>2 DEF StartsAt
      <3> QED
        BY <3>1, <2>2, <1>1
    <2> QED
      BY <2>1, <2>2
  <1>5. start \in Nat /\ stop \in Nat /\ start <= stop /\ run \subseteq Seqs
    BY <1>3
  <1>6. \A p \in rest : p > stop
    BY <1>1, <1>3, <1>4, <1>5
  <1>7. /\ Cardinality(run) = stop - start
        /\ Cardinality(rest) = Cardinality(all) - Cardinality(run)
    <2>1. all \cap run = run
      BY <1>3
    <2>2. Cardinality(run) = IF start > stop - 1 THEN 0 ELSE (stop - 1) - start + 1
      BY <1>5, FS_Interval
    <2>3. Cardinality(rest) = Cardinality(all) - Cardinality(all \cap run)
      BY <1>2, FS_Difference
    <2>4. Cardinality(run) = stop - start
      BY <2>2, <1>5
    <2>5. Cardinality(rest) = Cardinality(all) - Cardinality(run)
      BY <2>1, <2>3
    <2> QED
      BY <2>4, <2>5
  <1>8. Cardinality(rest) <= MaxPending
    <2>1. CASE Cardinality(all) > MaxPending
      <3>1. stop # start
        BY <2>1, <1>3, <1>4
      <3> QED
        BY <3>1, <1>2, <1>5, <1>7
    <2>2. CASE ~(Cardinality(all) > MaxPending)
      BY <2>2, <1>2, <1>5, <1>7
    <2> QED
      BY <2>1, <2>2
  <1> QED
    BY <1>2, <1>4, <1>5, <1>6, <1>7, <1>8

\* Delivering everything that is left, above the cursor n, keeps the order and
\* moves the cursor past it.
LEMMA FlushKeepsOrder ==
  ASSUME NEW n \in 0 .. MaxSeq + 1, NEW R \in SUBSET Seqs, \A r \in R : r > n,
         NEW D \in Seq(Seqs), Increasing(D), \A i \in 1 .. Len(D) : D[i] < n,
         NEW s \in Sorted(R), CursorAfterFlush(n, R)
  PROVE  /\ next' \in 0 .. MaxSeq + 1
         /\ D \o s \in Seq(Seqs)
         /\ Len(D \o s) = Len(D) + Cardinality(R)
         /\ Increasing(D \o s)
         /\ \A i \in 1 .. Len(D \o s) : (D \o s)[i] < next'
  <1> USE GatewayAssumption DEF Seqs
  <1>1. s \in Seq(Seqs) /\ Len(s) = Cardinality(R) /\ Increasing(s) /\ \A i \in 1 .. Len(s) : s[i] \in R
    BY SortedType
  <1>2. next' \in 0 .. MaxSeq + 1 /\ n <= next' /\ \A r \in R : n <= r /\ r < next'
    BY DEF CursorAfterFlush
  <1>3. \A i \in 1 .. Len(s) : n <= s[i] /\ s[i] < next'
    BY <1>1, <1>2
  <1>4. n \in Nat /\ next' \in Nat
    BY <1>2
  <1> HIDE DEF Seqs
  <1>5. /\ D \o s \in Seq(Seqs)
        /\ Len(D \o s) = Len(D) + Len(s)
        /\ Increasing(D \o s)
        /\ \A i \in 1 .. Len(D \o s) : (D \o s)[i] < next'
    BY <1>1, <1>2, <1>3, <1>4, Follows
  <1> QED
    BY <1>1, <1>2, <1>5

\* A fresh frame, final or not: what is delivered keeps its order, what is held
\* lies behind a gap, and the two together grow by one frame.
LEMMA AcceptKeeps ==
  ASSUME NEW n, NEW P, NEW f, Fresh(n, P, f), NEW final \in BOOLEAN,
         NEW D \in Seq(Seqs), Increasing(D), \A i \in 1 .. Len(D) : D[i] < n,
         Accept(n, P, D, f, final)
  PROVE  /\ next' \in 0 .. MaxSeq + 1 /\ pending' \in SUBSET Seqs
         /\ delivered' \in Seq(Seqs)
         /\ DeliveredInOrder' /\ HeldBehindGap'
         /\ Len(delivered') + Cardinality(pending') = Len(D) + Cardinality(P) + 1
  <1> USE GatewayAssumption
  <1> DEFINE all == P \cup {f}
  <1>0. PICK start \in Seqs \cup {n} : \E stop \in start .. MaxSeq + 1 :
          LET rest == all \ (start .. stop - 1) IN
          /\ StartsAt(n, all, start)
          /\ DrainsTo(all, start, stop)
          /\ IF final
             THEN /\ Flushed(D, Run(start, stop), rest)
                  /\ pending' = {}
                  /\ CursorAfterFlush(stop, rest)
             ELSE /\ delivered' = D \o Run(start, stop)
                  /\ pending' = rest
                  /\ next' = stop
    BY DEF Accept
  <1>1. PICK stop \in start .. MaxSeq + 1 :
          LET rest == all \ (start .. stop - 1) IN
          /\ StartsAt(n, all, start)
          /\ DrainsTo(all, start, stop)
          /\ IF final
             THEN /\ Flushed(D, Run(start, stop), rest)
                  /\ pending' = {}
                  /\ CursorAfterFlush(stop, rest)
             ELSE /\ delivered' = D \o Run(start, stop)
                  /\ pending' = rest
                  /\ next' = stop
    BY <1>0, Zenon
  <1> DEFINE run == Run(start, stop)
             rest == all \ (start .. stop - 1)
             E == D \o run
  <1>2. /\ start \in Nat /\ stop \in Nat /\ n <= start /\ start <= stop
        /\ start .. stop - 1 \subseteq Seqs
        /\ \A p \in rest : p > stop
        /\ Cardinality(rest) <= MaxPending
        /\ Cardinality(rest) = Cardinality(P) + 1 - (stop - start)
    <2>1. StartsAt(n, all, start) /\ DrainsTo(all, start, stop)
      BY <1>1
    <2>2. rest = Rest(P, f, start, stop)
      BY DEF Rest
    <2> HIDE DEF rest
    <2> QED
      BY <2>1, <2>2, Drained
  <1>3. /\ run \in Seq(Seqs) /\ Len(run) = stop - start /\ Increasing(run)
        /\ \A i \in 1 .. Len(run) : n <= run[i] /\ run[i] < stop
    <2>1. /\ run \in Seq(Seqs) /\ Len(run) = stop - start /\ Increasing(run)
          /\ \A i \in 1 .. stop - start : run[i] = start + i - 1
      BY <1>2, RunType
    <2> QED
      BY <2>1, <1>2 DEF Fresh
  <1>4. stop \in 0 .. MaxSeq + 1 /\ rest \in SUBSET Seqs /\ n \in Nat /\ n <= stop
    BY <1>2 DEF Seqs, Fresh
  <1>5. /\ E \in Seq(Seqs) /\ Len(E) = Len(D) + (stop - start) /\ Increasing(E)
        /\ \A i \in 1 .. Len(E) : E[i] < stop
    BY <1>2, <1>3, <1>4, Follows
  <1>6. Cardinality(P) \in Nat /\ Len(D) \in Nat
    BY FramesFinite DEF Fresh
  <1>7. CASE ~final
    <2>1. delivered' = E /\ pending' = rest /\ next' = stop
      BY <1>1, <1>7
    <2> QED
      <3>1. DeliveredInOrder'
        BY <2>1, <1>5 DEF DeliveredInOrder, Increasing
      <3>2. HeldBehindGap'
        BY <2>1, <1>2 DEF HeldBehindGap
      <3>3. Len(delivered') + Cardinality(pending') = Len(D) + Cardinality(P) + 1
        BY <2>1, <1>2, <1>5, <1>6
      <3> QED
        BY <3>1, <3>2, <3>3, <2>1, <1>3, <1>4, <1>5
  <1>8. CASE final
    <2>1. PICK s \in Sorted(rest) : delivered' = D \o run \o s
      BY <1>1, <1>8 DEF Flushed
    <2>2. pending' = {} /\ CursorAfterFlush(stop, rest)
      BY <1>1, <1>8
    <2>3. /\ next' \in 0 .. MaxSeq + 1
          /\ E \o s \in Seq(Seqs)
          /\ Len(E \o s) = Len(E) + Cardinality(rest)
          /\ Increasing(E \o s)
          /\ \A i \in 1 .. Len(E \o s) : (E \o s)[i] < next'
      BY <2>1, <2>2, <1>2, <1>4, <1>5, FlushKeepsOrder
    <2>4. delivered' = E \o s
      BY <2>1
    <2>5. Cardinality(pending') = 0
      BY <2>2, FS_EmptySet
    <2> QED
      <3>1. DeliveredInOrder'
        BY <2>3, <2>4 DEF DeliveredInOrder, Increasing
      <3>2. HeldBehindGap'
        BY <2>2, <2>5 DEF HeldBehindGap
      <3>3. Len(delivered') + Cardinality(pending') = Len(D) + Cardinality(P) + 1
        BY <2>3, <2>4, <2>5, <1>2, <1>5, <1>6
      <3> QED
        BY <3>1, <3>2, <3>3, <2>2, <2>3, <2>4, <1>3
  <1> QED
    BY <1>7, <1>8

-----------------------------------------------------------------------------
(* The steps *)

\* A new gateway.
LEMMA InitIInv == Init => IInv
  <1> SUFFICES ASSUME Init PROVE IInv
    OBVIOUS
  <1> USE GatewayAssumption
  <1>1. TypeOK
    <2>1. next \in 0 .. MaxSeq + 1 /\ idle \in 0 .. Ttl + 1 /\ ingested \in Nat
      BY DEF Init
    <2>2. pending \in SUBSET Seqs /\ delivered \in Seq(Seqs)
      BY DEF Init
    <2> QED
      BY <2>1, <2>2 DEF Init, TypeOK
  <1>2. DeliveredInOrder
    BY DEF Init, DeliveredInOrder, Increasing
  <1>3. HeldBehindGap /\ AcceptedAreAccountedFor
    BY FS_EmptySet DEF Init, HeldBehindGap, AcceptedAreAccountedFor
  <1> QED
    BY <1>1, <1>2, <1>3 DEF IInv, ReleasedHoldsNothing, Init

\* open_session and reconnect resume a session, or replace one that holds nothing.
LEMMA ConnectIInv ==
  ASSUME IInv, NEW given \in BOOLEAN, Connect(given)
  PROVE  IInv'
  <1> USE GatewayAssumption
  <1>1. state' = "connected" /\ idle' = 0
    BY DEF Connect
  <1>2. CASE Live
    <2>1. /\ UNCHANGED <<next, pending, delivered, ingested>>
          /\ sink' = (given \/ sink) /\ kept' = (given \/ kept)
      BY <1>2 DEF Connect
    <2> QED
      BY <1>1, <2>1 DEF IInv, TypeOK, DeliveredInOrder, Increasing, HeldBehindGap,
         AcceptedAreAccountedFor, ReleasedHoldsNothing, Live
  <1>3. CASE ~Live
    <2>1. /\ next' = 0 /\ pending' = {} /\ delivered' = <<>> /\ ingested' = 0
          /\ sink' = (given \/ kept) /\ kept' = (given \/ kept)
      BY <1>3 DEF Connect, NewSession
    <2>2. TypeOK'
      BY <1>1, <2>1 DEF IInv, TypeOK
    <2> QED
      BY <1>1, <2>1, <2>2, FS_EmptySet DEF IInv, DeliveredInOrder, Increasing,
         HeldBehindGap, AcceptedAreAccountedFor, ReleasedHoldsNothing
  <1> QED
    BY <1>2, <1>3

\* ingest on a live session.
LEMMA IngestIInv ==
  ASSUME IInv, NEW f \in Seqs, NEW final \in BOOLEAN, Ingest(f, final)
  PROVE  IInv'
  <1> USE GatewayAssumption
  <1>1. state' = "connected" /\ UNCHANGED <<sink, kept>>
    BY DEF Ingest
  <1>2. CASE Stale(next, pending, f)
    <2>1. /\ UNCHANGED <<next, pending, delivered, ingested>>
          /\ idle' = (IF state = "connected" THEN idle ELSE 0)
      BY <1>2 DEF Ingest
    <2> QED
      BY <1>1, <2>1 DEF IInv, TypeOK, DeliveredInOrder, Increasing, HeldBehindGap,
         AcceptedAreAccountedFor, ReleasedHoldsNothing, Live
  <1>3. CASE ~Stale(next, pending, f)
    <2>1. Accept(next, pending, delivered, f, final) /\ ingested' = ingested + 1 /\ idle' = 0
      BY <1>3 DEF Ingest
    <2>2. /\ next \in 0 .. MaxSeq + 1 /\ pending \in SUBSET Seqs /\ delivered \in Seq(Seqs)
          /\ ingested \in Nat
          /\ \A p \in pending : p > next
          /\ Cardinality(pending) <= MaxPending
          /\ Increasing(delivered) /\ \A i \in 1 .. Len(delivered) : delivered[i] < next
      BY DEF IInv, TypeOK, DeliveredInOrder, HeldBehindGap
    <2>6. Fresh(next, pending, f)
      BY <1>3, <2>2 DEF Fresh
    <2>3. /\ next' \in 0 .. MaxSeq + 1 /\ pending' \in SUBSET Seqs
          /\ delivered' \in Seq(Seqs)
          /\ DeliveredInOrder' /\ HeldBehindGap'
          /\ Len(delivered') + Cardinality(pending') = Len(delivered) + Cardinality(pending) + 1
      BY <2>1, <2>2, <2>6, AcceptKeeps
    <2>4. TypeOK'
      BY <1>1, <2>1, <2>2, <2>3 DEF IInv, TypeOK
    <2>5. AcceptedAreAccountedFor'
      BY <2>1, <2>3 DEF IInv, AcceptedAreAccountedFor
    <2> QED
      BY <1>1, <2>3, <2>4, <2>5 DEF IInv, ReleasedHoldsNothing, Live
  <1> QED
    BY <1>2, <1>3

\* ingest that opens a session on demand.
LEMMA IngestOpensIInv ==
  ASSUME IInv, NEW f \in Seqs, NEW final \in BOOLEAN, IngestOpens(f, final)
  PROVE  IInv'
  <1> USE GatewayAssumption
  <1>1. /\ state' = "connected" /\ idle' = 0 /\ sink' = kept /\ ingested' = 1
        /\ UNCHANGED kept /\ Accept(0, {}, <<>>, f, final)
    BY DEF IngestOpens
  <1>2. ~Stale(0, {}, f) /\ 0 \in 0 .. MaxSeq + 1 /\ Cardinality({}) = 0
    BY FS_EmptySet DEF Stale, Seqs
  <1>3. /\ next' \in 0 .. MaxSeq + 1 /\ pending' \in SUBSET Seqs
        /\ delivered' \in Seq(Seqs)
        /\ DeliveredInOrder' /\ HeldBehindGap'
        /\ Len(delivered') + Cardinality(pending') = 0 + 0 + 1
    <2>1. <<>> \in Seq(Seqs) /\ Increasing(<<>>) /\ Len(<<>>) = 0
      BY DEF Increasing
    <2>2. /\ {} \in SUBSET Seqs /\ \A p \in {} : p > 0
          /\ Cardinality({}) <= MaxPending
          /\ \A i \in 1 .. Len(<<>>) : <<>>[i] < 0
      BY <1>2, <2>1
    <2>3. Accept(0, {}, <<>>, f, final)
      BY <1>1
    <2>5. Fresh(0, {}, f)
      BY <1>2, <2>2 DEF Fresh
    <2>4. /\ next' \in 0 .. MaxSeq + 1 /\ pending' \in SUBSET Seqs
          /\ delivered' \in Seq(Seqs)
          /\ DeliveredInOrder' /\ HeldBehindGap'
          /\ Len(delivered') + Cardinality(pending') = Len(<<>>) + Cardinality({}) + 1
      BY <2>1, <2>2, <2>3, <2>5, AcceptKeeps
    <2> QED
      BY <1>2, <2>1, <2>4
  <1>4. TypeOK'
    BY <1>1, <1>3 DEF IInv, TypeOK
  <1> QED
    BY <1>1, <1>3, <1>4 DEF IInv, AcceptedAreAccountedFor, ReleasedHoldsNothing, Live

\* close, on request or by the sweep, hands over what is held.
LEMMA CloseKeeps ==
  ASSUME IInv, Close
  PROVE  /\ next' \in 0 .. MaxSeq + 1 /\ pending' = {} /\ delivered' \in Seq(Seqs)
         /\ DeliveredInOrder' /\ HeldBehindGap'
         /\ Len(delivered') + Cardinality(pending') = ingested
  <1> USE GatewayAssumption
  <1>1. PICK s \in Sorted(pending) : delivered' = delivered \o <<>> \o s
    BY DEF Close, Flushed
  <1>2. pending' = {} /\ CursorAfterFlush(next, pending)
    BY DEF Close
  <1>3. /\ next \in 0 .. MaxSeq + 1 /\ pending \in SUBSET Seqs /\ delivered \in Seq(Seqs)
        /\ \A p \in pending : p > next
        /\ Increasing(delivered) /\ \A i \in 1 .. Len(delivered) : delivered[i] < next
    BY DEF IInv, TypeOK, DeliveredInOrder, HeldBehindGap
  <1>4. delivered' = delivered \o s
    BY <1>1, <1>3
  <1>5. /\ next' \in 0 .. MaxSeq + 1
        /\ delivered' \in Seq(Seqs)
        /\ Len(delivered') = Len(delivered) + Cardinality(pending)
        /\ Increasing(delivered)'
        /\ \A i \in 1 .. Len(delivered') : delivered'[i] < next'
    BY <1>2, <1>3, <1>4, FlushKeepsOrder DEF Increasing
  <1>6. Cardinality(pending') = 0
    BY <1>2, FS_EmptySet
  <1>7. Len(delivered') + Cardinality(pending') = ingested
    BY <1>5, <1>6 DEF IInv, AcceptedAreAccountedFor
  <1> QED
    BY <1>2, <1>5, <1>6, <1>7 DEF DeliveredInOrder, HeldBehindGap

\* Every call keeps the invariant.
LEMMA NextIInv == IInv /\ [Next]_vars => IInv'
  <1> SUFFICES ASSUME IInv, [Next]_vars PROVE IInv'
    OBVIOUS
  <1> USE GatewayAssumption
  <1>1. ASSUME NEW given \in BOOLEAN, OpenSession(given) \/ Reconnect(given) PROVE IInv'
    BY <1>1, ConnectIInv DEF OpenSession, Reconnect
  <1>2. ASSUME NEW f \in Seqs, NEW final \in BOOLEAN, Ingest(f, final) \/ IngestOpens(f, final)
        PROVE  IInv'
    BY <1>2, IngestIInv, IngestOpensIInv
  <1>3. CASE Disconnect
    BY <1>3 DEF Disconnect, IInv, TypeOK, DeliveredInOrder, Increasing, HeldBehindGap,
       AcceptedAreAccountedFor, ReleasedHoldsNothing, Live
  <1>4. CASE CloseSession
    <2>1. Close /\ state' = "closed" /\ idle' = 0 /\ UNCHANGED <<ingested, sink, kept>>
      BY <1>4 DEF CloseSession
    <2> QED
      BY <2>1, CloseKeeps DEF IInv, TypeOK, AcceptedAreAccountedFor, ReleasedHoldsNothing
  <1>5. CASE Sweep
    <2>1. Close /\ state' = "none" /\ kept' = FALSE /\ UNCHANGED <<ingested, idle, sink>>
      BY <1>5 DEF Sweep
    <2> QED
      BY <2>1, CloseKeeps DEF IInv, TypeOK, AcceptedAreAccountedFor, ReleasedHoldsNothing
  <1>6. CASE Tick
    BY <1>6 DEF Tick, IInv, TypeOK, DeliveredInOrder, Increasing, HeldBehindGap,
       AcceptedAreAccountedFor, ReleasedHoldsNothing, Live
  <1>7. CASE UNCHANGED vars
    BY <1>7 DEF vars, IInv, TypeOK, DeliveredInOrder, Increasing, HeldBehindGap,
       AcceptedAreAccountedFor, ReleasedHoldsNothing, Live
  <1> QED
    BY <1>1, <1>2, <1>3, <1>4, <1>5, <1>6, <1>7 DEF Next

\* The invariant holds in every reachable state.
THEOREM Invariance == Spec => []IInv
  BY InitIInv, NextIInv, PTL DEF Spec

\* The gateway's state keeps its types.
THEOREM TypeCorrect == Spec => []TypeOK
  <1>1. IInv => TypeOK
    BY DEF IInv
  <1> QED
    BY <1>1, Invariance, PTL

\* "releases frames in monotonic seq order": whatever the network and the client
\* do, the sink gets each session's frames in increasing order and none twice.
THEOREM FramesInOrder == Spec => []DeliveredInOrder
  <1>1. IInv => DeliveredInOrder
    BY DEF IInv
  <1> QED
    BY <1>1, Invariance, PTL

\* The buffer is bounded by max_pending and holds back only what follows a gap.
THEOREM BufferIsBounded == Spec => []HeldBehindGap
  <1>1. IInv => HeldBehindGap
    BY DEF IInv
  <1> QED
    BY <1>1, Invariance, PTL

\* No accepted frame is lost between the buffer and the sink.
THEOREM NothingLost == Spec => []AcceptedAreAccountedFor
  <1>1. IInv => AcceptedAreAccountedFor
    BY DEF IInv
  <1> QED
    BY <1>1, Invariance, PTL

\* A session that is closed or swept leaves nothing in its buffer.
THEOREM ReleaseIsComplete == Spec => []ReleasedHoldsNothing
  <1>1. IInv => ReleasedHoldsNothing
    BY DEF IInv
  <1> QED
    BY <1>1, Invariance, PTL

-----------------------------------------------------------------------------
(* The gateway is an ordered channel: what each step hands on is the lowest   *)
(* part of what the buffer holds, in order.                                   *)

\* A run is the increasing enumeration of its interval.
LEMMA RunSorted ==
  ASSUME NEW a \in Nat, NEW b \in Nat, a <= b, a .. b - 1 \subseteq Seqs
  PROVE  Run(a, b) \in Sorted(a .. b - 1)
  <1> DEFINE S == a .. b - 1
             r == Run(a, b)
  <1>1. Cardinality(S) = b - a
    <2>1. Cardinality(S) = IF a > b - 1 THEN 0 ELSE (b - 1) - a + 1
      BY FS_Interval
    <2> QED
      BY <2>1
  <1>2. r = [i \in 1 .. b - a |-> a + i - 1]
    BY DEF Run
  <1>3. r \in [1 .. b - a -> S]
    BY <1>2
  <1>4. \A i, j \in 1 .. b - a : i < j => r[i] < r[j]
    BY <1>2
  <1>5. ASSUME NEW k \in S PROVE \E i \in 1 .. b - a : r[i] = k
    <2>1. k - a + 1 \in 1 .. b - a /\ r[k - a + 1] = k
      BY <1>2
    <2> QED
      BY <2>1
  <1> HIDE DEF S, r
  <1> QED
    BY <1>1, <1>3, <1>4, <1>5 DEF Sorted, S, r

\* The increasing enumerations of a set and of a set above it make up the one of
\* both.
LEMMA SortedJoin ==
  ASSUME NEW A \in SUBSET Seqs, NEW B \in SUBSET Seqs, \A a \in A, b \in B : a < b,
         NEW s \in Sorted(A), NEW t \in Sorted(B)
  PROVE  s \o t \in Sorted(A \cup B)
  <1> DEFINE m == Cardinality(A)
             n == Cardinality(B)
  <1>1. /\ IsFiniteSet(A) /\ m \in Nat
        /\ IsFiniteSet(B) /\ n \in Nat
    BY FramesFinite
  <1>2. A \cap B = {}
    BY GatewayAssumption DEF Seqs
  <1>3. Cardinality(A \cup B) = m + n
    <2>1. Cardinality(A \cup B) = m + n - Cardinality(A \cap B)
      BY <1>1, FS_Union
    <2>2. Cardinality(A \cap B) = 0
      BY <1>2, FS_EmptySet
    <2> QED
      BY <1>1, <2>1, <2>2
  <1>4. /\ s \in [1 .. m -> A] /\ \A r \in A : \E i \in 1 .. m : s[i] = r
        /\ \A i, j \in 1 .. m : i < j => s[i] < s[j]
    BY DEF Sorted
  <1>5. /\ t \in [1 .. n -> B] /\ \A r \in B : \E i \in 1 .. n : t[i] = r
        /\ \A i, j \in 1 .. n : i < j => t[i] < t[j]
    BY DEF Sorted
  <1> HIDE DEF m, n
  <1>6. s \in Seq(Seqs) /\ t \in Seq(Seqs) /\ Len(s) = m /\ Len(t) = n
    BY <1>1, <1>4, <1>5
  <1> DEFINE c == s \o t
  <1>7. /\ c \in Seq(Seqs) /\ Len(c) = m + n
        /\ \A i \in 1 .. m + n : c[i] = IF i <= m THEN s[i] ELSE t[i - m]
    BY <1>6, ConcatProperties
  <1> HIDE DEF c
  <1>8. ASSUME NEW i \in 1 .. m + n
        PROVE  \/ i \in 1 .. m /\ c[i] = s[i] /\ c[i] \in A
               \/ i > m /\ i - m \in 1 .. n /\ c[i] = t[i - m] /\ c[i] \in B
    BY <1>1, <1>4, <1>5, <1>7
  <1>9. c \in [1 .. m + n -> A \cup B]
    <2>1. c \in [1 .. m + n -> Seqs]
      BY <1>1, <1>7
    <2> QED
      BY <1>8, <2>1
  <1>10. ASSUME NEW i \in 1 .. m + n, NEW j \in 1 .. m + n, i < j PROVE c[i] < c[j]
    <2>1. CASE i <= m /\ j <= m
      BY <1>8, <1>4, <1>10, <1>1, <2>1
    <2>2. CASE i <= m /\ j > m
      <3>1. c[i] \in A /\ c[j] \in B
        BY <1>8, <2>2, <1>1
      <3> QED
        BY <3>1
    <2>3. CASE i > m
      <3>1. i - m \in 1 .. n /\ j - m \in 1 .. n /\ i - m < j - m /\ c[i] = t[i - m] /\ c[j] = t[j - m]
        BY <1>8, <1>10, <1>1, <2>3
      <3> QED
        BY <3>1, <1>5
    <2> QED
      BY <2>1, <2>2, <2>3, <1>1
  <1>11. ASSUME NEW r \in A \cup B PROVE \E i \in 1 .. m + n : c[i] = r
    <2>1. CASE r \in A
      <3>1. PICK i \in 1 .. m : s[i] = r
        BY <1>4, <2>1
      <3>2. i \in 1 .. m + n /\ c[i] = s[i]
        BY <1>1, <1>7
      <3> QED
        BY <3>1, <3>2
    <2>2. CASE r \in B
      <3>1. PICK i \in 1 .. n : t[i] = r
        BY <1>5, <2>2
      <3>2. i + m \in 1 .. m + n /\ ~(i + m <= m) /\ (i + m) - m = i
        BY <1>1
      <3>3. c[i + m] = t[i]
        BY <1>7, <3>2
      <3> QED
        BY <3>1, <3>2, <3>3
    <2> QED
      BY <2>1, <2>2
  <1> QED
    BY <1>3, <1>9, <1>10, <1>11 DEF Sorted, c

\* The channel enumerates what it hands on as the buffer sorts what it releases.
LEMMA EnumerationIsSorted ==
  ASSUME NEW R
  PROVE  Channel!Enumerations(R) = Sorted(R)
  <1>1. Channel!Cardinality(R) = Cardinality(R)
    BY Zenon DEF Channel!Cardinality, Cardinality, Channel!IsFiniteSet, IsFiniteSet
  <1> QED
    BY <1>1 DEF Channel!Enumerations, Sorted

\* What a fresh frame releases: a part R of the frames held, the lowest ones.
LEMMA AcceptHandsOn ==
  ASSUME NEW n, NEW P, NEW f, Fresh(n, P, f), NEW final \in BOOLEAN,
         NEW D \in Seq(Seqs), Accept(n, P, D, f, final)
  PROVE  \E R \in SUBSET (P \cup {f}) :
            /\ \A r \in R, k \in (P \cup {f}) \ R : r < k
            /\ \E s \in Sorted(R) : delivered' = D \o s
            /\ pending' = (P \cup {f}) \ R
  <1> DEFINE all == P \cup {f}
  <1>0. PICK start \in Seqs \cup {n} : \E stop \in start .. MaxSeq + 1 :
          LET rest == all \ (start .. stop - 1) IN
          /\ StartsAt(n, all, start)
          /\ DrainsTo(all, start, stop)
          /\ IF final
             THEN /\ Flushed(D, Run(start, stop), rest)
                  /\ pending' = {}
                  /\ CursorAfterFlush(stop, rest)
             ELSE /\ delivered' = D \o Run(start, stop)
                  /\ pending' = rest
                  /\ next' = stop
    BY DEF Accept
  <1>1. PICK stop \in start .. MaxSeq + 1 :
          LET rest == all \ (start .. stop - 1) IN
          /\ StartsAt(n, all, start)
          /\ DrainsTo(all, start, stop)
          /\ IF final
             THEN /\ Flushed(D, Run(start, stop), rest)
                  /\ pending' = {}
                  /\ CursorAfterFlush(stop, rest)
             ELSE /\ delivered' = D \o Run(start, stop)
                  /\ pending' = rest
                  /\ next' = stop
    BY <1>0, Zenon
  <1> DEFINE run == Run(start, stop)
             R == start .. stop - 1
             rest == all \ R
  <1>2. /\ start \in Nat /\ stop \in Nat /\ start <= stop
        /\ R \subseteq Seqs /\ \A p \in rest : p > stop
    <2>1. StartsAt(n, all, start) /\ DrainsTo(all, start, stop)
      BY <1>1
    <2>2. rest = Rest(P, f, start, stop)
      BY DEF Rest
    <2> HIDE DEF rest
    <2> QED
      BY <2>1, <2>2, Drained
  <1>3. R \subseteq all /\ all \in SUBSET Seqs
    BY <1>1 DEF DrainsTo, Fresh
  <1>4. run \in Sorted(R)
    BY <1>2, RunSorted
  <1>5. ASSUME NEW r \in R, NEW k \in rest PROVE r < k
    <2>1. r \in Int /\ r <= stop - 1 /\ k > stop
      BY <1>2
    <2>2. k \in Int
      BY <1>3, GatewayAssumption DEF Seqs
    <2> QED
      BY <1>2, <2>1, <2>2
  <1>6. CASE ~final
    <2>1. delivered' = D \o run /\ pending' = rest
      BY <1>1, <1>6
    <2> HIDE DEF run, R
    <2> QED
      BY <2>1, <1>3, <1>4, <1>5
  <1>7. CASE final
    <2>1. PICK s \in Sorted(rest) : delivered' = D \o run \o s
      BY <1>1, <1>7 DEF Flushed
    <2>2. pending' = {}
      BY <1>1, <1>7
    <2>3. rest \in SUBSET Seqs /\ R \in SUBSET Seqs /\ all = R \cup rest
      BY <1>3
    <2>4. run \o s \in Sorted(all)
      <3> HIDE DEF run, R, rest, all
      <3> QED
        BY <1>4, <1>5, <2>1, <2>3, SortedJoin
    <2>5. delivered' = D \o (run \o s)
      <3>1. run \in Seq(Seqs) /\ s \in Seq(Seqs)
        <4> HIDE DEF run, R, rest
        <4> QED
          BY <1>4, <2>1, <2>3, SortedType
      <3> HIDE DEF run
      <3> QED
        BY <2>1, <3>1, ConcatAssociative
    <2> HIDE DEF run, R, rest
    <2>6. /\ all \in SUBSET all
          /\ \A r \in all, k \in all \ all : r < k
          /\ pending' = all \ all
      BY <2>2
    <2> QED
      BY <2>4, <2>5, <2>6
  <1> QED
    BY <1>6, <1>7

\* Handing over everything at the end is a flush of the channel, or no step of it
\* when nothing is held.
LEMMA CloseIsFlush ==
  ASSUME IInv, Close
  PROVE  Channel!Flush \/ UNCHANGED <<pending, delivered>>
  <1>1. PICK s \in Sorted(pending) : delivered' = delivered \o <<>> \o s
    BY DEF Close, Flushed
  <1>2. pending' = {} /\ delivered \in Seq(Seqs) /\ pending \in SUBSET Seqs
    BY DEF Close, IInv, TypeOK
  <1>3. delivered' = delivered \o s
    BY <1>1, <1>2
  <1>4. CASE pending = {}
    <2>1. s = <<>>
      <3>1. Len(s) = 0 /\ s \in Seq(Seqs)
        BY <1>2, <1>4, FS_EmptySet, SortedType
      <3> QED
        BY <3>1
    <2> QED
      BY <1>2, <1>3, <1>4, <2>1
  <1>5. CASE pending # {}
    <2>1. s \in Channel!Enumerations(pending)
      BY <1>1, EnumerationIsSorted
    <2>2. Channel!HandOn(pending, pending)
      BY <1>2, <1>3, <2>1 DEF Channel!HandOn
    <2> QED
      BY <1>5, <2>2 DEF Channel!Flush
  <1> QED
    BY <1>4, <1>5

\* A fresh frame of a live session is taken by the channel.
LEMMA IngestIsTake ==
  ASSUME IInv, NEW f \in Seqs, NEW final \in BOOLEAN, Ingest(f, final)
  PROVE  Channel!Take(f) \/ UNCHANGED <<pending, delivered>>
  <1>1. CASE Stale(next, pending, f)
    BY <1>1 DEF Ingest
  <1>2. CASE ~Stale(next, pending, f)
    <2>1. Accept(next, pending, delivered, f, final)
      BY <1>2 DEF Ingest
    <2>2. Fresh(next, pending, f) /\ delivered \in Seq(Seqs)
      BY <1>2 DEF Fresh, IInv, TypeOK, HeldBehindGap
    <2>3. PICK R \in SUBSET (pending \cup {f}) :
            /\ \A r \in R, k \in (pending \cup {f}) \ R : r < k
            /\ \E s \in Sorted(R) : delivered' = delivered \o s
            /\ pending' = (pending \cup {f}) \ R
      BY <2>1, <2>2, AcceptHandsOn
    <2>4. Channel!HandOn(pending \cup {f}, R)
      BY <2>3, EnumerationIsSorted DEF Channel!HandOn
    <2>5. f \notin pending /\ f >= next
      BY <1>2, GatewayAssumption DEF Stale, IInv, TypeOK, Seqs
    <2>6. \A i \in DOMAIN delivered : delivered[i] < f
      <3> SUFFICES ASSUME NEW i \in DOMAIN delivered PROVE delivered[i] < f
        OBVIOUS
      <3>1. i \in 1 .. Len(delivered) /\ delivered[i] \in Seqs
        BY <2>2
      <3>2. delivered[i] < next
        BY <3>1 DEF IInv, DeliveredInOrder
      <3> QED
        BY <3>1, <3>2, <2>5, GatewayAssumption DEF Seqs, IInv, TypeOK
    <2> QED
      BY <2>4, <2>5, <2>6 DEF Channel!Take
  <1> QED
    BY <1>1, <1>2

\* A frame that opens a session restarts the channel with it.
LEMMA IngestOpensRestarts ==
  ASSUME IInv, NEW f \in Seqs, NEW final \in BOOLEAN, IngestOpens(f, final)
  PROVE  Channel!Restart
  <1>1. Accept(0, {}, <<>>, f, final) /\ pending = {}
    BY DEF IngestOpens, IInv, ReleasedHoldsNothing
  <1>2. Fresh(0, {}, f) /\ <<>> \in Seq(Seqs)
    BY FS_EmptySet, GatewayAssumption DEF Fresh, Stale, Seqs
  <1>3. PICK R \in SUBSET ({} \cup {f}) :
          /\ \E s \in Sorted(R) : delivered' = <<>> \o s
          /\ pending' = ({} \cup {f}) \ R
    <2> DEFINE P == {}
               D == <<>>
    <2>1. Accept(0, P, D, f, final) /\ Fresh(0, P, f) /\ D \in Seq(Seqs)
      BY <1>1, <1>2
    <2> HIDE DEF P, D
    <2>2. \E R \in SUBSET (P \cup {f}) :
            /\ \A r \in R, k \in (P \cup {f}) \ R : r < k
            /\ \E s \in Sorted(R) : delivered' = D \o s
            /\ pending' = (P \cup {f}) \ R
      BY <2>1, AcceptHandsOn
    <2> QED
      BY <2>2 DEF P, D
  <1>4. PICK s \in Sorted(R) : delivered' = <<>> \o s
    BY <1>3
  <1>5. R \in SUBSET {f} /\ R \in SUBSET Seqs /\ pending' = {f} \ R
    BY <1>3
  <1>6. delivered' = s
    <2>1. s \in Seq(Seqs)
      BY <1>4, <1>5, SortedType
    <2> QED
      BY <1>4, <2>1
  <1>7. delivered' \in Channel!Enumerations(R)
    BY <1>4, <1>6, EnumerationIsSorted
  <1> QED
    BY <1>1, <1>5, <1>7 DEF Channel!Restart

\* Every step of the gateway is a step of the channel or leaves it alone.
LEMMA StepSimulation == IInv /\ [Next]_vars => [Channel!Next]_(Channel!channel)
  <1> SUFFICES ASSUME IInv, [Next]_vars
               PROVE  Channel!Next \/ UNCHANGED <<pending, delivered>>
    BY DEF Channel!channel
  <1>1. ASSUME NEW given \in BOOLEAN, Connect(given)
        PROVE  Channel!Next \/ UNCHANGED <<pending, delivered>>
    <2>1. CASE Live
      BY <1>1, <2>1 DEF Connect
    <2>2. CASE ~Live
      <3>1. pending = {} /\ pending' = {} /\ delivered' = <<>>
        BY <1>1, <2>2 DEF Connect, NewSession, IInv, ReleasedHoldsNothing
      <3> QED
        BY <3>1 DEF Channel!Next, Channel!Restart
    <2> QED
      BY <2>1, <2>2
  <1>2. ASSUME NEW f \in Seqs, NEW final \in BOOLEAN, Ingest(f, final)
        PROVE  Channel!Next \/ UNCHANGED <<pending, delivered>>
    BY <1>2, IngestIsTake DEF Channel!Next
  <1>3. ASSUME NEW f \in Seqs, NEW final \in BOOLEAN, IngestOpens(f, final)
        PROVE  Channel!Next \/ UNCHANGED <<pending, delivered>>
    BY <1>3, IngestOpensRestarts DEF Channel!Next
  <1>4. CASE CloseSession \/ Sweep
    BY <1>4, CloseIsFlush DEF CloseSession, Sweep, Channel!Next
  <1>5. CASE Disconnect \/ Tick \/ UNCHANGED vars
    BY <1>5 DEF Disconnect, Tick, vars
  <1> QED
    BY <1>1, <1>2, <1>3, <1>4, <1>5 DEF Next, OpenSession, Reconnect

\* The jitter buffer, its cursor, its overflows and the life of its sessions
\* implement an ordered channel that hands on the lowest frames it holds, each
\* once, and starts again only when it is empty.
THEOREM GatewayImplementsChannel == Spec => ImplementsChannel
  <1>1. Init => Channel!Init
    BY DEF Init, Channel!Init
  <1> QED
    BY <1>1, Invariance, StepSimulation, PTL DEF Spec, ImplementsChannel, Channel!Spec

-----------------------------------------------------------------------------
(* The sink *)

\* The session of a live id has the sink that is remembered for the id.
LEMMA StepKeepsSink == DeliversToKeptSink /\ [Next]_vars => DeliversToKeptSink'
  <1> SUFFICES ASSUME DeliversToKeptSink, [Next]_vars PROVE DeliversToKeptSink'
    OBVIOUS
  <1>1. ASSUME NEW given \in BOOLEAN, Connect(given) PROVE DeliversToKeptSink'
    <2>1. CASE Live
      <3>1. sink = kept /\ sink' = (given \/ sink) /\ kept' = (given \/ kept)
        BY <1>1, <2>1, Zenon DEF Connect, DeliversToKeptSink
      <3> QED
        BY <3>1, Zenon DEF DeliversToKeptSink
    <2>2. CASE ~Live
      <3>1. sink' = (given \/ kept) /\ kept' = (given \/ kept)
        BY <1>1, <2>2, Zenon DEF Connect, NewSession
      <3> QED
        BY <3>1, Zenon DEF DeliversToKeptSink
    <2> QED
      BY <2>1, <2>2
  <1>2. ASSUME NEW f \in Seqs, NEW final \in BOOLEAN, Ingest(f, final) PROVE DeliversToKeptSink'
    BY <1>2, Zenon DEF Ingest, DeliversToKeptSink
  <1>3. ASSUME NEW f \in Seqs, NEW final \in BOOLEAN, IngestOpens(f, final) PROVE DeliversToKeptSink'
    BY <1>3, Zenon DEF IngestOpens, DeliversToKeptSink
  <1>4. CASE CloseSession
    BY <1>4 DEF CloseSession, DeliversToKeptSink, Live
  <1>5. CASE Sweep
    BY <1>5 DEF Sweep, DeliversToKeptSink, Live
  <1>6. CASE Disconnect
    BY <1>6, Zenon DEF Disconnect, DeliversToKeptSink
  <1>7. CASE Tick
    BY <1>7, Zenon DEF Tick, DeliversToKeptSink, Live
  <1>8. CASE UNCHANGED vars
    BY <1>8, Zenon DEF vars, DeliversToKeptSink, Live
  <1> QED
    BY <1>1, <1>2, <1>3, <1>4, <1>5, <1>6, <1>7, <1>8 DEF Next, OpenSession, Reconnect

\* Across drops, reconnects and closes a session that takes frames has the sink
\* remembered for its id.
THEOREM SinkIsKept == Spec => []DeliversToKeptSink
  <1>1. Init => DeliversToKeptSink
    BY DEF Init, DeliversToKeptSink, Live
  <1> QED
    BY <1>1, StepKeepsSink, PTL DEF Spec

-----------------------------------------------------------------------------
(***************************************************************************)
(* Replies begun early                                                     *)
(***************************************************************************)

Modes == {"none", "filler", "empathetic_filler", "short_answer"}

\* What PlayedOnGoodGrounds says of one turn.
GoodGround(i, mode) ==
  /\ i.words <= ShortMaxWords \/ mode = "empathetic_filler"
  /\ mode = "short_answer" =>
       i.words > 0 /\ i.asr >= MinAsr /\ ~i.moved /\ i.affect < EmotionGate
  /\ mode = "filler" =>
       /\ i.affect < EmotionGate
       /\ IF i.words = 0 THEN i.shortAudio ELSE i.known /\ i.asr >= MinAsr /\ ~i.moved
  /\ mode = "empathetic_filler" => i.words = 0 \/ i.asr >= MinAsr

\* The fields of a turn.
LEMMA TurnFields ==
  ASSUME NEW i \in TurnInputs
  PROVE  /\ i.words \in Nat /\ i.asr \in Nat /\ i.affect \in Nat
         /\ i.known \in BOOLEAN /\ i.asks \in BOOLEAN /\ i.moved \in BOOLEAN
         /\ i.shortAudio \in BOOLEAN
  <1>1. i.words \in WordCounts /\ i.asr \in Confidences /\ i.affect \in Confidences
    BY DEF TurnInputs
  <1>2. i.known \in BOOLEAN /\ i.asks \in BOOLEAN /\ i.moved \in BOOLEAN /\ i.shortAudio \in BOOLEAN
    BY Zenon DEF TurnInputs
  <1> QED
    BY <1>1, <1>2, ThresholdAssumption

\* The estimate of emotion, of the voice or of the words.
LEMMA Signal ==
  ASSUME NEW i \in TurnInputs
  PROVE  /\ EmotionalSignal(i) \in Nat /\ i.affect <= EmotionalSignal(i)
         /\ EmotionalSignal(i) < EmotionGate => (i.words = 0 \/ ~i.moved)
  BY TurnFields, ThresholdAssumption DEF EmotionalSignal

\* What the classifier says that makes something be played early, and of which turns.
LEMMA Classes ==
  ASSUME NEW i \in TurnInputs
  PROVE  LET r == Classify(i) IN
         \/ r.class = "uncertain"
         \/ r.class = "emotional" /\ (i.words = 0 \/ i.asr >= MinAsr)
         \/ /\ r.class = "trivial" /\ r.route = "cached_filler" /\ EmotionalSignal(i) < EmotionGate
            /\ \/ i.words = 0 /\ i.shortAudio
               \/ i.words > 0 /\ i.words <= TrivialMaxWords /\ i.known /\ i.asr >= MinAsr
         \/ /\ r.class = "short" /\ r.route = "full_stack" /\ EmotionalSignal(i) < EmotionGate
            /\ i.words > 0 /\ i.words <= ShortMaxWords /\ i.asr >= MinAsr
         \/ r.class = "complex" /\ r.route = "full_stack" /\ ~r.fillerFirst
  <1> DEFINE r == Classify(i)
             doubted == i.words > 0 /\ i.asr < MinAsr
             strong == EmotionalSignal(i) >= EmotionGate
             sound == i.words = 0 /\ i.shortAudio
             phrase == i.words <= TrivialMaxWords /\ ~i.asks /\ i.known
  <1>1. /\ EmotionalSignal(i) \in Nat /\ i.words \in Nat /\ i.asr \in Nat
        /\ MinAsr \in Nat /\ EmotionGate \in Nat /\ TrivialMaxWords \in Nat /\ ShortMaxWords \in Nat
    BY ThresholdAssumption, TurnFields, Signal
  <1>2. CASE doubted
    <2>1. r = Result("uncertain", 100 - i.asr, "full_stack", "uncertain", FALSE)
      BY <1>2, Zenon DEF Classify
    <2> QED
      BY <2>1 DEF Result
  <1>3. CASE ~doubted /\ strong
    <2>1. r = Result("emotional", EmotionalSignal(i), "full_stack", "emotional", TRUE)
      BY <1>3, Zenon DEF Classify
    <2>2. r.class = "emotional"
      BY <2>1 DEF Result
    <2> QED
      BY <1>1, <1>3, <2>2
  <1>4. CASE ~doubted /\ ~strong /\ sound
    <2>1. r = Result("trivial", 40, "cached_filler", "known", FALSE)
      BY <1>4, Zenon DEF Classify
    <2>2. r.class = "trivial" /\ r.route = "cached_filler"
      BY <2>1 DEF Result
    <2> QED
      BY <1>1, <1>4, <2>2
  <1>5. CASE ~doubted /\ ~strong /\ ~sound /\ i.words = 0
    <2>1. r = Result("uncertain", 50, "full_stack", "unknown", FALSE)
      BY <1>5, Zenon DEF Classify
    <2> QED
      BY <2>1 DEF Result
  <1>6. CASE ~doubted /\ ~strong /\ ~sound /\ i.words # 0 /\ phrase
    <2>1. r = Result("trivial", 90, "cached_filler", "known", FALSE)
      BY <1>6, Zenon DEF Classify
    <2>2. r.class = "trivial" /\ r.route = "cached_filler"
      BY <2>1 DEF Result
    <2> QED
      BY <1>1, <1>6, <2>2
  <1>7. CASE ~doubted /\ ~strong /\ ~sound /\ i.words # 0 /\ ~phrase /\ i.words <= ShortMaxWords
    <2>1. r = Result("short", 70, "full_stack", "short", TRUE)
      BY <1>7, Zenon DEF Classify
    <2>2. r.class = "short" /\ r.route = "full_stack"
      BY <2>1 DEF Result
    <2> QED
      BY <1>1, <1>7, <2>2
  <1>8. CASE ~doubted /\ ~strong /\ ~sound /\ i.words # 0 /\ ~phrase /\ ~(i.words <= ShortMaxWords)
    <2>1. r = Result("complex", 60, "full_stack", "complex", FALSE)
      BY <1>8, Zenon DEF Classify
    <2> QED
      BY <2>1 DEF Result
  <1> QED
    BY <1>2, <1>3, <1>4, <1>5, <1>6, <1>7, <1>8, Zenon

\* What is begun early has good grounds.
LEMMA BegunOnGoodGrounds ==
  ASSUME NEW i \in TurnInputs
  PROVE  /\ ModeFor(Classify(i)) \in Modes
         /\ ModeFor(Classify(i)) # "none" => GoodGround(i, ModeFor(Classify(i)))
  <1> DEFINE r == Classify(i)
             mode == ModeFor(r)
  <1>1. \/ mode = "none"
        \/ mode = "empathetic_filler" /\ r.class = "emotional"
        \/ mode = "filler" /\ r.class = "trivial"
        \/ mode = "short_answer" /\ r.class = "short"
    BY Classes DEF ModeFor
  <1>2. CASE mode = "none"
    BY <1>2 DEF Modes
  <1>3. CASE mode = "empathetic_filler" /\ r.class = "emotional"
    <2> HIDE DEF mode
    <2>1. i.words = 0 \/ i.asr >= MinAsr
      BY <1>3, Classes
    <2> QED
      BY <1>3, <2>1 DEF Modes, GoodGround, mode
  <1>4. CASE mode = "filler" /\ r.class = "trivial"
    <2>1. /\ EmotionalSignal(i) < EmotionGate
          /\ \/ i.words = 0 /\ i.shortAudio
             \/ i.words > 0 /\ i.words <= TrivialMaxWords /\ i.known /\ i.asr >= MinAsr
      BY <1>4, Classes
    <2>2. i.affect < EmotionGate /\ i.words <= ShortMaxWords /\ (i.words = 0 \/ ~i.moved)
      BY <2>1, Signal, TurnFields, ThresholdAssumption
    <2>3. i.words = 0 => i.shortAudio
      BY <2>1, TurnFields
    <2>4. i.words # 0 => i.known /\ i.asr >= MinAsr /\ ~i.moved
      BY <2>1, <2>2
    <2>5. GoodGround(i, "filler")
      BY <2>2, <2>3, <2>4, Zenon DEF GoodGround
    <2> QED
      BY <1>4, <2>5 DEF Modes
  <1>5. CASE mode = "short_answer" /\ r.class = "short"
    <2>1. /\ EmotionalSignal(i) < EmotionGate
          /\ i.words > 0 /\ i.words <= ShortMaxWords /\ i.asr >= MinAsr
      BY <1>5, Classes
    <2>2. i.affect < EmotionGate /\ ~i.moved
      BY <2>1, Signal, TurnFields, ThresholdAssumption
    <2>3. GoodGround(i, "short_answer")
      BY <2>1, <2>2, Zenon DEF GoodGround
    <2> QED
      BY <1>5, <2>3 DEF Modes
  <1> QED
    BY <1>1, <1>2, <1>3, <1>4, <1>5

\* What is active was begun on the strength of one turn, and every speculation
\* that was started is accounted for.
SpecInv ==
  /\ active \in Modes
  /\ spec \in [started : Nat, committed : Nat, cancelled : Nat, dropped : Nat]
  /\ ResolvedOnce
  /\ active = "none" => basis = {}
  /\ active # "none" => \E i \in TurnInputs : basis = {i} /\ GoodGround(i, active)

LEMMA SpecInvInit == SpecInit => SpecInv
  BY DEF SpecInit, SpecInv, Modes, ResolvedOnce

\* What is active ends in one way.
LEMMA ResolvedInv ==
  ASSUME SpecInv, NEW how \in {"committed", "cancelled"}, Resolve(how)
  PROVE  SpecInv'
  <1>1. CASE active = "none"
    <2>1. UNCHANGED <<active, basis, spec>>
      BY <1>1 DEF Resolve, specVars
    <2> QED
      BY <2>1 DEF SpecInv, ResolvedOnce
  <1>2. CASE active # "none"
    BY <1>2 DEF SpecInv, Resolve, ResolvedOnce, Modes
  <1> QED
    BY <1>1, <1>2

LEMMA SpecInvNext == SpecInv /\ [SpecNext]_specVars => SpecInv'
  <1> SUFFICES ASSUME SpecInv, [SpecNext]_specVars PROVE SpecInv'
    OBVIOUS
  <1>1. CASE UNCHANGED specVars
    BY <1>1 DEF SpecInv, specVars, ResolvedOnce
  <1>2. CASE Cancel
    BY <1>2, ResolvedInv DEF Cancel
  <1>3. CASE Commit
    BY <1>3, ResolvedInv DEF Commit
  <1>4. CASE DropSpeculation
    BY <1>4 DEF DropSpeculation, SpecInv, ResolvedOnce, Modes
  <1>5. ASSUME NEW i \in TurnInputs, Speculate(i) PROVE SpecInv'
    <2> DEFINE mode == ModeFor(Classify(i))
    <2>1. mode \in Modes /\ (mode # "none" => GoodGround(i, mode))
      BY BegunOnGoodGrounds
    <2> HIDE DEF mode
    <2>2. CASE mode = "none" \/ active # "none"
      <3>1. UNCHANGED specVars
        BY <1>5, <2>2 DEF Speculate, mode
      <3> QED
        BY <1>1, <3>1
    <2>3. CASE ~(mode = "none" \/ active # "none")
      <3>1. active' = mode /\ basis' = {i} /\ spec' = [spec EXCEPT !.started = @ + 1]
        BY <1>5, <2>3 DEF Speculate, mode
      <3> QED
        BY <2>1, <2>3, <3>1 DEF SpecInv, ResolvedOnce
    <2> QED
      BY <2>2, <2>3
  <1>6. ASSUME NEW r \in FinalRoutes, Reconcile(r) PROVE SpecInv'
    BY <1>2, <1>3, <1>6 DEF Reconcile
  <1> QED
    BY <1>1, <1>2, <1>3, <1>4, <1>5, <1>6 DEF SpecNext

LEMMA SpecInvSound == SpecInv => SpeculationIsSound
  <1> SUFFICES ASSUME SpecInv PROVE ResolvedOnce /\ PlayedOnGoodGrounds
    BY DEF SpeculationIsSound
  <1>1. ASSUME NEW i \in basis PROVE GoodGround(i, active)
    BY DEF SpecInv
  <1>2. PlayedOnGoodGrounds
    BY <1>1, Zenon DEF PlayedOnGoodGrounds, GoodGround
  <1> QED
    BY <1>2 DEF SpecInv

-----------------------------------------------------------------------------
(***************************************************************************)
(* The words of a text                                                     *)
(***************************************************************************)

UpTo(S, i) == {j \in S : j <= i}

\* The positions of the words are numbered in their order, without a gap.
LEMMA Numbering ==
  ASSUME NEW S \in SUBSET Nat, IsFiniteSet(S)
  PROVE  /\ Cardinality(S) \in Nat
         /\ \A i \in S : Cardinality(UpTo(S, i)) \in 1 .. Cardinality(S)
         /\ \A i, j \in S : i < j => Cardinality(UpTo(S, i)) < Cardinality(UpTo(S, j))
         /\ \A n \in 1 .. Cardinality(S) : \E i \in S : Cardinality(UpTo(S, i)) = n
  <1> DEFINE c == Cardinality(S)
             rank == [i \in S |-> Cardinality(UpTo(S, i))]
  <1>1. c \in Nat
    BY FS_CardinalityType
  <1>2. \A i : /\ UpTo(S, i) \in SUBSET S /\ IsFiniteSet(UpTo(S, i))
               /\ Cardinality(UpTo(S, i)) \in Nat /\ Cardinality(UpTo(S, i)) <= c
    <2> TAKE i
    <2>1. UpTo(S, i) \in SUBSET S
      BY DEF UpTo
    <2> QED
      BY <2>1, FS_Subset, FS_CardinalityType
  <1>3. \A i \in S : Cardinality(UpTo(S, i)) \in 1 .. c
    <2> SUFFICES ASSUME NEW i \in S PROVE Cardinality(UpTo(S, i)) \in 1 .. c
      OBVIOUS
    <2>1. i \in UpTo(S, i)
      BY DEF UpTo
    <2>2. Cardinality(UpTo(S, i)) # 0
      BY <1>2, <2>1, FS_EmptySet
    <2> QED
      BY <1>1, <1>2, <2>2
  <1>4. \A i, j \in S : i < j => Cardinality(UpTo(S, i)) < Cardinality(UpTo(S, j))
    <2> SUFFICES ASSUME NEW i \in S, NEW j \in S, i < j
                 PROVE  Cardinality(UpTo(S, i)) < Cardinality(UpTo(S, j))
      OBVIOUS
    <2> DEFINE more == UpTo(S, i) \cup {j}
    <2>1. j \notin UpTo(S, i) /\ more \in SUBSET UpTo(S, j)
      <3>1. i \in Nat /\ j \in Nat /\ \A k \in S : k \in Nat
        OBVIOUS
      <3>2. j \notin UpTo(S, i)
        BY <3>1 DEF UpTo
      <3>3. \A k \in UpTo(S, i) : k \in UpTo(S, j)
        BY <3>1 DEF UpTo
      <3>4. j \in UpTo(S, j)
        BY <3>1 DEF UpTo
      <3> QED
        BY <3>2, <3>3, <3>4
    <2>2. Cardinality(more) = Cardinality(UpTo(S, i)) + 1
      BY <1>2, <2>1, FS_AddElement
    <2>3. Cardinality(more) <= Cardinality(UpTo(S, j))
      BY <1>2, <2>1, FS_Subset
    <2> QED
      BY <1>2, <2>2, <2>3
  <1>5. rank \in Injection(S, 1 .. c)
    <2>1. \A i \in S : rank[i] \in 1 .. c
      BY <1>3
    <2>2. \A i, j \in S : i < j => rank[i] < rank[j]
      BY <1>4
    <2>3. rank \in [S -> 1 .. c]
      BY <2>1
    <2> HIDE DEF rank
    <2>4. \A i, j \in S : rank[i] = rank[j] => i = j
      <3> SUFFICES ASSUME NEW i \in S, NEW j \in S, rank[i] = rank[j], i # j PROVE FALSE
        OBVIOUS
      <3>1. i < j \/ j < i
        OBVIOUS
      <3>2. rank[i] \in Int /\ rank[j] \in Int
        BY <2>1
      <3> QED
        BY <2>2, <3>1, <3>2
    <2> QED
      BY <2>3, <2>4 DEF Injection, IsInjective
  <1>6. rank \in Surjection(S, 1 .. c)
    <2>1. IsFiniteSet(1 .. c) /\ Cardinality(1 .. c) = c
      <3> HIDE DEF c
      <3>1. IsFiniteSet(1 .. c) /\ Cardinality(1 .. c) = IF 1 > c THEN 0 ELSE c - 1 + 1
        BY <1>1, FS_Interval
      <3> QED
        BY <1>1, <3>1
    <2> HIDE DEF rank
    <2> QED
      BY <1>5, <2>1, FS_Injection
  <1>7. \A n \in 1 .. c : \E i \in S : rank[i] = n
    <2> HIDE DEF rank
    <2> QED
      BY <1>6 DEF Surjection
  <1> QED
    BY <1>1, <1>3, <1>4, <1>7

\* A text has finitely many words.
LEMMA WordsFinite ==
  ASSUME NEW T, NEW t \in Seq(T)
  PROVE  WordsAt(t) \in SUBSET Nat /\ IsFiniteSet(WordsAt(t)) /\ WordsAt(t) \in SUBSET (1 .. Len(t))
  <1>1. Len(t) \in Nat /\ DOMAIN t = 1 .. Len(t)
    OBVIOUS
  <1>2. WordsAt(t) \in SUBSET (1 .. Len(t))
    BY <1>1 DEF WordsAt
  <1>3. IsFiniteSet(1 .. Len(t))
    BY <1>1, FS_Interval
  <1> QED
    BY <1>2, <1>3, FS_Subset

\* Where the words of a text are.
LEMMA WordPositions ==
  ASSUME NEW T, NEW t \in Seq(T)
  PROVE  LET c == Cardinality(WordsAt(t)) IN
         /\ c \in Nat
         /\ \A n \in 1 .. c : /\ WordNo(t, n) \in WordsAt(t)
                              /\ Cardinality(UpTo(WordsAt(t), WordNo(t, n))) = n
         /\ \A m, n \in 1 .. c : m < n => WordNo(t, m) < WordNo(t, n)
         /\ \A i \in WordsAt(t) : \E n \in 1 .. c : WordNo(t, n) = i
  <1> DEFINE W == WordsAt(t)
             c == Cardinality(W)
             rank(i) == Cardinality(UpTo(W, i))
  <1>1. W \in SUBSET Nat /\ IsFiniteSet(W)
    BY WordsFinite
  <1>2. /\ c \in Nat
        /\ \A i \in W : rank(i) \in 1 .. c
        /\ \A i, j \in W : i < j => rank(i) < rank(j)
        /\ \A n \in 1 .. c : \E i \in W : rank(i) = n
    <2> HIDE DEF W
    <2> QED
      BY <1>1, Numbering
  <1>3. \A n \in 1 .. c : WordNo(t, n) \in W /\ rank(WordNo(t, n)) = n
    BY <1>2 DEF WordNo, UpTo
  <1> DEFINE no(n) == WordNo(t, n)
  <1> HIDE DEF rank, c, W, no
  <1>4. \A m, n \in 1 .. c : m < n => no(m) < no(n)
    <2> SUFFICES ASSUME NEW m \in 1 .. c, NEW n \in 1 .. c, m < n, ~(no(m) < no(n)) PROVE FALSE
      OBVIOUS
    <2>1. no(m) \in W /\ no(n) \in W /\ rank(no(m)) = m /\ rank(no(n)) = n
      BY <1>3 DEF no
    <2>2. no(n) = no(m) \/ no(n) < no(m)
      <3>1. no(m) \in Nat /\ no(n) \in Nat
        BY <1>1, <2>1
      <3> QED
        BY <3>1
    <2> QED
      BY <1>2, <2>1, <2>2
  <1>5. \A i \in W : \E n \in 1 .. c : no(n) = i
    <2> SUFFICES ASSUME NEW i \in W PROVE no(rank(i)) = i
      BY <1>2
    <2>1. no(rank(i)) \in W /\ rank(no(rank(i))) = rank(i)
      BY <1>2, <1>3 DEF no
    <2>2. i < no(rank(i)) \/ no(rank(i)) < i \/ no(rank(i)) = i
      <3>1. no(rank(i)) \in Nat /\ i \in Nat
        BY <1>1, <2>1
      <3> QED
        BY <3>1
    <2>3. rank(i) \in Int
      BY <1>2
    <2> QED
      BY <1>2, <2>1, <2>2, <2>3
  <1> QED
    BY <1>2, <1>3, <1>4, <1>5 DEF c, W, rank, no

\* pos lists the positions of the m words of a text in their order.
Lists(pos, m, t) ==
  /\ pos \in [1 .. m -> WordsAt(t)]
  /\ \A j, k \in 1 .. m : j < k => pos[j] < pos[k]
  /\ \A i \in WordsAt(t) : \E k \in 1 .. m : pos[k] = i

LEMMA PlainIs ==
  ASSUME NEW T, NEW t \in Seq(T), NEW m \in Nat, NEW pos, Lists(pos, m, t)
  PROVE  Plain(t) = [n \in 1 .. m |-> t[pos[n]]]
  <1> DEFINE W == WordsAt(t)
             rank(i) == Cardinality(UpTo(W, i))
  <1> USE DEF Lists
  <1>1. W \in SUBSET Nat /\ IsFiniteSet(W)
    BY WordsFinite
  <1>2. \A k \in 1 .. m : pos[k] \in W /\ pos[k] \in Nat
    BY <1>1
  <1>3. \A j, k \in 1 .. m : pos[j] <= pos[k] <=> j <= k
    <2> SUFFICES ASSUME NEW j \in 1 .. m, NEW k \in 1 .. m PROVE pos[j] <= pos[k] <=> j <= k
      OBVIOUS
    <2>1. CASE j < k
      BY <1>2, <2>1
    <2>2. CASE k < j
      BY <1>2, <2>2
    <2>3. CASE j = k
      BY <1>2, <2>3
    <2> QED
      BY <2>1, <2>2, <2>3
  <1>4. \A k \in 1 .. m : IsFiniteSet(1 .. k) /\ Cardinality(1 .. k) = k
    BY FS_Interval
  <1>5. \A k \in 1 .. m : rank(pos[k]) = k
    <2> SUFFICES ASSUME NEW k \in 1 .. m PROVE rank(pos[k]) = k
      OBVIOUS
    <2> DEFINE f == [j \in 1 .. k |-> pos[j]]
               S == UpTo(W, pos[k])
    <2>1. S = {i \in W : i <= pos[k]}
      BY DEF UpTo
    <2>2. f \in [1 .. k -> S]
      BY <1>2, <1>3, <2>1
    <2>3. \A i \in S : \E j \in 1 .. k : f[j] = i
      <3> SUFFICES ASSUME NEW i \in S PROVE \E j \in 1 .. k : f[j] = i
        OBVIOUS
      <3>1. i \in W /\ i <= pos[k]
        BY <2>1
      <3>2. PICK j \in 1 .. m : pos[j] = i
        BY <3>1
      <3>3. j <= k
        BY <1>3, <3>1, <3>2
      <3> QED
        BY <3>2, <3>3
    <2>4. \A i, j \in 1 .. k : f[i] = f[j] => i = j
      <3> SUFFICES ASSUME NEW i \in 1 .. k, NEW j \in 1 .. k, pos[i] = pos[j] PROVE i = j
        OBVIOUS
      <3>1. pos[i] <= pos[j] /\ pos[j] <= pos[i]
        BY <1>2
      <3> QED
        BY <1>3, <3>1
    <2> HIDE DEF f, S
    <2>5. f \in Surjection(1 .. k, S) /\ f \in Injection(1 .. k, S)
      BY <2>2, <2>3, <2>4 DEF Surjection, Injection, IsInjective
    <2>6. Cardinality(S) = Cardinality(1 .. k)
      BY <1>4, <2>5, FS_Surjection
    <2> QED
      BY <1>4, <2>6 DEF S
  <1>6. Cardinality(W) = m
    <2>1. IsFiniteSet(1 .. m) /\ Cardinality(1 .. m) = m
      BY FS_Interval
    <2>2. \A i, j \in 1 .. m : pos[i] = pos[j] => i = j
      <3> SUFFICES ASSUME NEW i \in 1 .. m, NEW j \in 1 .. m, pos[i] = pos[j] PROVE i = j
        OBVIOUS
      <3>1. pos[i] <= pos[j] /\ pos[j] <= pos[i]
        BY <1>2
      <3> QED
        BY <1>3, <3>1
    <2> HIDE DEF W
    <2>3. pos \in [1 .. m -> W] /\ \A i \in W : \E k \in 1 .. m : pos[k] = i
      BY DEF W
    <2>4. pos \in Surjection(1 .. m, W) /\ pos \in Injection(1 .. m, W)
      BY <2>2, <2>3 DEF Surjection, Injection, IsInjective
    <2> QED
      BY <2>1, <2>4, FS_Surjection
  <1>7. \A n \in 1 .. m : WordNo(t, n) = pos[n]
    <2> SUFFICES ASSUME NEW n \in 1 .. m PROVE WordNo(t, n) = pos[n]
      OBVIOUS
    <2>1. WordNo(t, n) \in W /\ rank(WordNo(t, n)) = n
      BY <1>6, WordPositions
    <2>2. PICK k \in 1 .. m : pos[k] = WordNo(t, n)
      BY <2>1
    <2> HIDE DEF rank
    <2>3. k = n
      BY <1>5, <2>1, <2>2
    <2> QED
      BY <2>2, <2>3
  <1> QED
    BY <1>6, <1>7 DEF Plain

\* The words of a text are a text, none of them a dash.
LEMMA PlainType ==
  ASSUME NEW T, NEW t \in Seq(T)
  PROVE  Plain(t) \in Seq(T) /\ \A i \in 1 .. Len(Plain(t)) : Plain(t)[i] # Dash
  <1> DEFINE c == Cardinality(WordsAt(t))
  <1>1. c \in Nat /\ \A n \in 1 .. c : WordNo(t, n) \in WordsAt(t)
    BY WordPositions
  <1> HIDE DEF c
  <1>2. \A i \in WordsAt(t) : t[i] \in T /\ t[i] # Dash
    BY DEF WordsAt
  <1>3. \A n \in 1 .. c : t[WordNo(t, n)] \in T /\ t[WordNo(t, n)] # Dash
    BY <1>1, <1>2
  <1>4. Plain(t) = [n \in 1 .. c |-> t[WordNo(t, n)]]
    BY DEF Plain, c
  <1> QED
    BY <1>1, <1>3, <1>4

\* A text of words only is its words.
LEMMA PlainOfWords ==
  ASSUME NEW T, NEW t \in Seq(T), \A i \in 1 .. Len(t) : t[i] # Dash
  PROVE  Plain(t) = t
  <1> DEFINE pos == [i \in 1 .. Len(t) |-> i]
  <1>1. Len(t) \in Nat /\ WordsAt(t) = 1 .. Len(t)
    BY DEF WordsAt
  <1>2. /\ pos \in [1 .. Len(t) -> WordsAt(t)]
        /\ \A i \in 1 .. Len(t) : pos[i] = i
    BY <1>1
  <1> HIDE DEF pos
  <1>3. Plain(t) = [n \in 1 .. Len(t) |-> t[pos[n]]]
    <2>1. Lists(pos, Len(t), t)
      BY <1>1, <1>2 DEF Lists
    <2> QED
      BY <1>1, <2>1, PlainIs
  <1>4. Plain(t) = [n \in 1 .. Len(t) |-> t[n]]
    BY <1>2, <1>3
  <1> QED
    BY <1>4

\* A text of dashes only has no words.
LEMMA PlainOfDashes ==
  ASSUME NEW T, NEW t \in Seq(T), \A i \in 1 .. Len(t) : t[i] = Dash
  PROVE  Plain(t) = <<>>
  <1>1. WordsAt(t) = {}
    BY DEF WordsAt
  <1>2. Cardinality(WordsAt(t)) = 0
    BY <1>1, FS_EmptySet
  <1> QED
    BY <1>2 DEF Plain

\* The words of two texts behind each other.
LEMMA PlainOfTwo ==
  ASSUME NEW T, NEW s \in Seq(T), NEW t \in Seq(T)
  PROVE  Plain(s \o t) = Plain(s) \o Plain(t)
  <1> DEFINE c == Cardinality(WordsAt(s))
             d == Cardinality(WordsAt(t))
             p == [n \in 1 .. c |-> WordNo(s, n)]
             q == [n \in 1 .. d |-> WordNo(t, n)]
             pos == [n \in 1 .. (c + d) |-> IF n <= c THEN p[n] ELSE Len(s) + q[n - c]]
             u == s \o t
  <1>1. /\ c \in Nat /\ d \in Nat
        /\ \A n \in 1 .. c : p[n] \in WordsAt(s)
        /\ \A m, n \in 1 .. c : m < n => p[m] < p[n]
        /\ \A i \in WordsAt(s) : \E n \in 1 .. c : p[n] = i
        /\ \A n \in 1 .. d : q[n] \in WordsAt(t)
        /\ \A m, n \in 1 .. d : m < n => q[m] < q[n]
        /\ \A i \in WordsAt(t) : \E n \in 1 .. d : q[n] = i
    BY WordPositions
  <1>2. Plain(s) = [n \in 1 .. c |-> s[p[n]]] /\ Plain(t) = [n \in 1 .. d |-> t[q[n]]]
    BY DEF Plain
  <1> HIDE DEF p, q, c, d
  <1>3. /\ u \in Seq(T) /\ Len(s) \in Nat /\ Len(t) \in Nat /\ Len(u) = Len(s) + Len(t)
        /\ \A i \in 1 .. Len(s) : u[i] = s[i]
        /\ \A i \in 1 .. Len(t) : u[Len(s) + i] = t[i]
        /\ \A i \in 1 .. Len(u) : i <= Len(s) \/ i - Len(s) \in 1 .. Len(t)
    OBVIOUS
  <1> HIDE DEF u
  <1>4. /\ \A i : i \in WordsAt(s) <=> i \in 1 .. Len(s) /\ s[i] # Dash
        /\ \A i : i \in WordsAt(t) <=> i \in 1 .. Len(t) /\ t[i] # Dash
        /\ \A i : i \in WordsAt(u) <=> i \in 1 .. Len(u) /\ u[i] # Dash
    BY <1>3 DEF WordsAt
  <1>5. \A n \in 1 .. (c + d) : pos[n] = IF n <= c THEN p[n] ELSE Len(s) + q[n - c]
    OBVIOUS
  <1>6. pos \in [1 .. (c + d) -> WordsAt(u)]
    <2> SUFFICES ASSUME NEW n \in 1 .. (c + d)
                 PROVE  (IF n <= c THEN p[n] ELSE Len(s) + q[n - c]) \in WordsAt(u)
      OBVIOUS
    <2>1. CASE n <= c
      <3>1. n \in 1 .. c
        BY <1>1, <2>1
      <3>2. p[n] \in 1 .. Len(s) /\ s[p[n]] # Dash
        BY <1>1, <1>4, <3>1
      <3> QED
        BY <1>3, <1>4, <2>1, <3>2
    <2>2. CASE ~(n <= c)
      <3>1. n - c \in 1 .. d
        BY <1>1, <2>2
      <3>2. PICK j : j = q[n - c]
        OBVIOUS
      <3>3. j \in 1 .. Len(t) /\ t[j] # Dash
        BY <1>1, <1>4, <3>1, <3>2
      <3>4. Len(s) + j \in 1 .. Len(u) /\ u[Len(s) + j] # Dash
        BY <1>3, <3>3
      <3> QED
        BY <1>4, <2>2, <3>2, <3>4
    <2> QED
      BY <2>1, <2>2
  <1> HIDE DEF pos
  <1>7. \A m, n \in 1 .. (c + d) : m < n => pos[m] < pos[n]
    <2> SUFFICES ASSUME NEW m \in 1 .. (c + d), NEW n \in 1 .. (c + d), m < n PROVE pos[m] < pos[n]
      OBVIOUS
    <2>1. CASE n <= c
      <3>1. m \in 1 .. c /\ n \in 1 .. c /\ m <= c
        BY <1>1, <2>1
      <3> QED
        BY <1>1, <1>5, <2>1, <3>1
    <2>2. CASE m <= c /\ ~(n <= c)
      <3>1. m \in 1 .. c /\ n - c \in 1 .. d
        BY <1>1, <2>2
      <3>2. p[m] \in 1 .. Len(s) /\ q[n - c] \in 1 .. Len(t)
        BY <1>1, <1>4, <3>1
      <3> QED
        BY <1>3, <1>5, <2>2, <3>2
    <2>3. CASE ~(m <= c)
      <3>1. ~(n <= c) /\ m - c \in 1 .. d /\ n - c \in 1 .. d /\ m - c < n - c
        BY <1>1, <2>3
      <3>2. q[m - c] \in 1 .. Len(t) /\ q[n - c] \in 1 .. Len(t) /\ q[m - c] < q[n - c]
        BY <1>1, <1>4, <3>1
      <3>3. pos[m] = Len(s) + q[m - c] /\ pos[n] = Len(s) + q[n - c]
        BY <1>5, <2>3, <3>1
      <3>4. \A x, y \in 1 .. Len(t) : x < y => Len(s) + x < Len(s) + y
        BY <1>3
      <3> QED
        BY <3>2, <3>3, <3>4
    <2> QED
      BY <1>1, <2>1, <2>2, <2>3
  <1>8. \A i \in WordsAt(u) : \E k \in 1 .. (c + d) : pos[k] = i
    <2> SUFFICES ASSUME NEW i \in WordsAt(u) PROVE \E k \in 1 .. (c + d) : pos[k] = i
      OBVIOUS
    <2>1. i \in 1 .. Len(u) /\ u[i] # Dash
      BY <1>4
    <2>2. CASE i <= Len(s)
      <3>1. i \in WordsAt(s)
        BY <1>3, <1>4, <2>1, <2>2
      <3>2. PICK n \in 1 .. c : p[n] = i
        BY <1>1, <3>1
      <3>3. n \in 1 .. (c + d) /\ n <= c
        BY <1>1
      <3> QED
        BY <1>5, <3>2, <3>3
    <2>3. CASE i - Len(s) \in 1 .. Len(t)
      <3> DEFINE j == i - Len(s)
      <3>1. j \in 1 .. Len(t) /\ Len(s) + j = i
        BY <1>3, <2>1, <2>3
      <3> HIDE DEF j
      <3>2. j \in WordsAt(t)
        BY <1>3, <1>4, <2>1, <3>1
      <3>3. PICK n \in 1 .. d : q[n] = j
        BY <1>1, <3>2
      <3>4. c + n \in 1 .. (c + d) /\ ~(c + n <= c) /\ (c + n) - c = n
        BY <1>1
      <3>5. pos[c + n] = Len(s) + q[n]
        BY <1>5, <3>4
      <3> QED
        BY <3>1, <3>3, <3>4, <3>5
    <2> QED
      BY <1>3, <2>1, <2>2, <2>3
  <1>9. Plain(u) = [n \in 1 .. (c + d) |-> u[pos[n]]]
    <2> DEFINE m == c + d
    <2>1. m \in Nat /\ u \in Seq(T)
      BY <1>1, <1>3
    <2>2. Lists(pos, m, u)
      BY <1>6, <1>7, <1>8 DEF Lists
    <2> HIDE DEF m
    <2>3. Plain(u) = [n \in 1 .. m |-> u[pos[n]]]
      BY <2>1, <2>2, PlainIs
    <2> QED
      BY <2>3 DEF m
  <1>10. /\ Plain(s) \in Seq(T) /\ Len(Plain(s)) = c
         /\ Plain(t) \in Seq(T) /\ Len(Plain(t)) = d
    BY <1>1, <1>2, PlainType
  <1>11. \A n \in 1 .. (c + d) : u[pos[n]] = (Plain(s) \o Plain(t))[n]
    <2> SUFFICES ASSUME NEW n \in 1 .. (c + d) PROVE u[pos[n]] = (Plain(s) \o Plain(t))[n]
      OBVIOUS
    <2>1. CASE n <= c
      <3>1. n \in 1 .. c /\ pos[n] = p[n]
        BY <1>1, <1>5, <2>1
      <3>2. p[n] \in 1 .. Len(s)
        BY <1>1, <1>4, <3>1
      <3>3. u[pos[n]] = s[p[n]] /\ Plain(s)[n] = s[p[n]]
        BY <1>2, <1>3, <3>1, <3>2
      <3> QED
        BY <1>10, <3>1, <3>3
    <2>2. CASE ~(n <= c)
      <3> DEFINE k == n - c
      <3>1. k \in 1 .. d /\ pos[n] = Len(s) + q[k] /\ n = c + k
        BY <1>1, <1>5, <2>2
      <3> HIDE DEF k
      <3>2. q[k] \in 1 .. Len(t)
        BY <1>1, <1>4, <3>1
      <3>3. u[pos[n]] = t[q[k]] /\ Plain(t)[k] = t[q[k]]
        BY <1>2, <1>3, <3>1, <3>2
      <3>4. (Plain(s) \o Plain(t))[c + k] = Plain(t)[k]
        BY <1>10, <3>1, ConcatProperties
      <3> QED
        BY <3>1, <3>3, <3>4
    <2> QED
      BY <2>1, <2>2
  <1>12. Plain(s) \o Plain(t) = [n \in 1 .. (c + d) |-> (Plain(s) \o Plain(t))[n]]
    <2> DEFINE x == Plain(s) \o Plain(t)
    <2>1. x \in Seq(T) /\ Len(x) = c + d
      BY <1>1, <1>10, ConcatProperties
    <2> HIDE DEF x
    <2>2. x = [n \in 1 .. Len(x) |-> x[n]]
      BY <2>1
    <2> QED
      BY <2>1, <2>2 DEF x
  <1> QED
    BY <1>9, <1>11, <1>12 DEF u

\* The longest of several lengths.
LEMMA GreatestOf ==
  ASSUME NEW n \in Nat, NEW S \in SUBSET (0 .. n), S # {}
  PROVE  \E x \in S : \A y \in S : y <= x
  <1> DEFINE less == {p \in Nat \X Nat : p[1] < p[2]}
             left == {m \in Nat : n - m \in S}
  <1>1. IsWellFoundedOn(less, Nat)
    BY NatLessThanWellFounded DEF OpToRel
  <1>2. left \in SUBSET Nat /\ left # {}
    <2>1. PICK y \in S : y \in 0 .. n
      OBVIOUS
    <2>2. n - y \in left
      BY <2>1
    <2> QED
      BY <2>2
  <1> HIDE DEF less
  <1>3. PICK m \in left : \A k \in left : <<k, m>> \notin less
    <2> HIDE DEF left
    <2> QED
      BY <1>1, <1>2, WFMin
  <1>4. \A k \in left : ~(k < m)
    BY <1>3 DEF less
  <1>5. m \in Nat /\ n - m \in S
    BY <1>3
  <1>6. ASSUME NEW y \in S PROVE y <= n - m
    <2>1. y \in 0 .. n /\ n - y \in left
      OBVIOUS
    <2>2. ~(n - y < m)
      BY <1>4, <2>1
    <2> QED
      BY <1>5, <2>1, <2>2
  <1> QED
    BY <1>5, <1>6

\* A text is what comes before a cut and what comes behind it.
LEMMA Cut ==
  ASSUME NEW T, NEW t \in Seq(T), NEW k \in 0 .. Len(t)
  PROVE  /\ SubSeq(t, 1, k) \in Seq(T) /\ Len(SubSeq(t, 1, k)) = k
         /\ \A i \in 1 .. k : SubSeq(t, 1, k)[i] = t[i]
         /\ SubSeq(t, k + 1, Len(t)) \in Seq(T) /\ Len(SubSeq(t, k + 1, Len(t))) = Len(t) - k
         /\ t = SubSeq(t, 1, k) \o SubSeq(t, k + 1, Len(t))
  <1> DEFINE a == SubSeq(t, 1, k)
             b == SubSeq(t, k + 1, Len(t))
  <1>1. a \in Seq(T) /\ Len(a) = k /\ \A i \in 1 .. k : a[i] = t[i]
    OBVIOUS
  <1>2. b \in Seq(T) /\ Len(b) = Len(t) - k
    BY SubSeqProperties
  <1>3. \A i \in 1 .. (Len(t) - k) : b[i] = t[k + i]
    BY <1>2
  <1>4. k \in Nat /\ Len(t) \in Nat /\ k <= Len(t)
    OBVIOUS
  <1> HIDE DEF a, b
  <1>5. a \o b \in Seq(T) /\ Len(a \o b) = Len(t)
    BY <1>1, <1>2, <1>4, ConcatProperties
  <1>6. ASSUME NEW i \in 1 .. Len(t) PROVE (a \o b)[i] = t[i]
    <2>1. CASE i <= k
      <3>1. (a \o b)[i] = a[i]
        BY <1>1, <1>2, <1>4, <2>1, ConcatProperties
      <3> QED
        BY <1>1, <1>4, <2>1, <3>1
    <2>2. CASE ~(i <= k)
      <3> DEFINE j == i - k
      <3>1. j \in 1 .. (Len(t) - k) /\ i = k + j
        BY <1>4, <2>2
      <3> HIDE DEF j
      <3>2. (a \o b)[k + j] = b[j]
        BY <1>1, <1>2, <3>1, ConcatProperties
      <3> QED
        BY <1>3, <3>1, <3>2
    <2> QED
      BY <2>1, <2>2
  <1>7. t = a \o b
    BY <1>5, <1>6, SeqEqual
  <1> QED
    BY <1>1, <1>2, <1>7 DEF a, b

\* Dashes in front of a text are not heard.
LEMMA DashesAreSilent ==
  ASSUME NEW T, NEW t \in Seq(T)
  PROVE  WithoutLeadingDashes(t) \in Seq(T) /\ Plain(WithoutLeadingDashes(t)) = Plain(t)
  <1> DEFINE n == {i \in 0 .. Len(t) : \A j \in 1 .. i : t[j] = Dash}
             first == CHOOSE i \in n : \A j \in n : j <= i
             before == SubSeq(t, 1, first)
             rest == SubSeq(t, first + 1, Len(t))
  <1>1. 0 \in n /\ n \in SUBSET (0 .. Len(t)) /\ Len(t) \in Nat
    OBVIOUS
  <1>2. \A i \in n : \A j \in 1 .. i : t[j] = Dash
    OBVIOUS
  <1>3. WithoutLeadingDashes(t) = rest
    BY DEF WithoutLeadingDashes
  <1> HIDE DEF n
  <1>4. \E x \in n : \A y \in n : y <= x
    BY <1>1, GreatestOf
  <1>5. first \in n
    BY <1>4
  <1>6. first \in 0 .. Len(t) /\ \A j \in 1 .. first : t[j] = Dash
    BY <1>1, <1>2, <1>5
  <1> HIDE DEF first
  <1>7. /\ before \in Seq(T) /\ Len(before) = first /\ rest \in Seq(T)
        /\ \A i \in 1 .. first : before[i] = t[i]
        /\ t = before \o rest
    BY <1>6, Cut
  <1> HIDE DEF before, rest
  <1>8. Plain(before) = <<>>
    BY <1>6, <1>7, PlainOfDashes
  <1>9. Plain(t) = Plain(before) \o Plain(rest)
    BY <1>7, PlainOfTwo
  <1>10. Plain(rest) \in Seq(T)
    BY <1>7, PlainType
  <1> QED
    BY <1>3, <1>7, <1>8, <1>9, <1>10

\* The overlap is the longest common part in front.
LEMMA OverlapIsLongest ==
  ASSUME NEW T, NEW f \in Seq(T), NEW main \in Seq(T)
  PROVE  /\ Overlap(f, main) \in 0 .. Len(f) /\ Overlap(f, main) \in 0 .. Len(main)
         /\ \A j \in 1 .. Overlap(f, main) : f[j] = main[j]
         /\ \A i \in Nat : i <= Len(f) /\ i <= Len(main) /\ (\A j \in 1 .. i : f[j] = main[j])
                             => i <= Overlap(f, main)
  <1> DEFINE n == IF Len(f) < Len(main) THEN Len(f) ELSE Len(main)
             k == {i \in 0 .. n : \A j \in 1 .. i : f[j] = main[j]}
             o == CHOOSE i \in k : \A j \in k : j <= i
  <1>1. n \in Nat /\ \A i \in Nat : i <= n <=> (i <= Len(f) /\ i <= Len(main))
    OBVIOUS
  <1>2. Overlap(f, main) = o
    BY DEF Overlap
  <1> HIDE DEF n
  <1>3. 0 \in k /\ k \in SUBSET (0 .. n)
    BY <1>1
  <1>4. /\ \A i \in k : i \in 0 .. n /\ \A j \in 1 .. i : f[j] = main[j]
        /\ \A i \in Nat : i <= n /\ (\A j \in 1 .. i : f[j] = main[j]) => i \in k
    BY <1>1
  <1> HIDE DEF k
  <1>5. \E x \in k : \A y \in k : y <= x
    BY <1>1, <1>3, GreatestOf
  <1>6. o \in k /\ \A j \in k : j <= o
    BY <1>5
  <1> HIDE DEF o
  <1>7. o \in Nat /\ o <= n /\ \A j \in 1 .. o : f[j] = main[j]
    BY <1>1, <1>4, <1>6
  <1>8. o \in 0 .. Len(f) /\ o \in 0 .. Len(main)
    BY <1>1, <1>7
  <1>9. \A i \in Nat : i <= Len(f) /\ i <= Len(main) /\ (\A j \in 1 .. i : f[j] = main[j]) => i <= o
    BY <1>1, <1>4, <1>6
  <1> QED
    BY <1>2, <1>7, <1>8, <1>9

\* What HeardOnce asks of an answer: the user has heard text.
Answered(f, main, text) ==
  LET common == {k \in 0 .. Len(Plain(main)) : IsPrefix(SubSeq(Plain(main), 1, k), Plain(f))}
  IN  \E k \in common :
        /\ text = Plain(f) \o SubSeq(Plain(main), k + 1, Len(Plain(main)))
        /\ Plain(main) = main => \A j \in common : j <= k

\* What a prefix says of its words.
LEMMA PrefixWords ==
  ASSUME NEW T, NEW s \in Seq(T), NEW t \in Seq(T), NEW k \in 0 .. Len(s)
  PROVE  IsPrefix(SubSeq(s, 1, k), t) <=> (k <= Len(t) /\ \A i \in 1 .. k : s[i] = t[i])
  <1> DEFINE a == SubSeq(s, 1, k)
  <1>1. a \in Seq(T) /\ Len(a) = k /\ \A i \in 1 .. k : a[i] = s[i]
    BY Cut
  <1> HIDE DEF a
  <1>2. k \in Nat /\ Len(t) \in Nat
    OBVIOUS
  <1>3. IsPrefix(a, t) <=> (k <= Len(t) /\ SubSeq(a, 1, k) = SubSeq(t, 1, k))
    BY <1>1 DEF IsPrefix
  <1>4. ASSUME k <= Len(t) PROVE (SubSeq(a, 1, k) = SubSeq(t, 1, k)) <=> \A i \in 1 .. k : s[i] = t[i]
    <2>1. k \in 0 .. Len(t) /\ k \in 0 .. Len(a)
      BY <1>1, <1>2, <1>4
    <2>2. /\ SubSeq(a, 1, k) \in Seq(T) /\ Len(SubSeq(a, 1, k)) = k
          /\ \A i \in 1 .. k : SubSeq(a, 1, k)[i] = a[i]
      BY <1>1, <2>1, Cut
    <2>3. /\ SubSeq(t, 1, k) \in Seq(T) /\ Len(SubSeq(t, 1, k)) = k
          /\ \A i \in 1 .. k : SubSeq(t, 1, k)[i] = t[i]
      BY <2>1, Cut
    <2>4. (SubSeq(a, 1, k) = SubSeq(t, 1, k)) => \A i \in 1 .. k : s[i] = t[i]
      BY <1>1, <2>2, <2>3
    <2>5. (\A i \in 1 .. k : s[i] = t[i]) => SubSeq(a, 1, k) = SubSeq(t, 1, k)
      BY <1>1, <2>2, <2>3, SeqEqual
    <2> QED
      BY <2>4, <2>5
  <1> QED
    BY <1>3, <1>4 DEF a

\* Behind the filler the user hears the answer without the part they have in common.
LEMMA RestIsTheAnswer ==
  ASSUME NEW T, NEW f \in Seq(T), NEW main \in Seq(T)
  PROVE  LET rest == StripLeadingDuplicate(f, main) IN
         rest \in Seq(T) /\ Answered(f, main, Plain(f) \o Plain(rest))
  <1> DEFINE P == Plain(f)
             M == Plain(main)
             k == Overlap(P, main)
             a == SubSeq(main, 1, k)
             b == SubSeq(main, k + 1, Len(main))
             rest == StripLeadingDuplicate(f, main)
  <1>1. P \in Seq(T) /\ M \in Seq(T) /\ \A i \in 1 .. Len(P) : P[i] # Dash
    BY PlainType
  <1> HIDE DEF P, M
  <1>2. /\ k \in 0 .. Len(P) /\ k \in 0 .. Len(main)
        /\ \A j \in 1 .. k : P[j] = main[j]
        /\ \A i \in Nat : i <= Len(P) /\ i <= Len(main) /\ (\A j \in 1 .. i : P[j] = main[j])
                            => i <= k
    BY <1>1, OverlapIsLongest
  <1>3. rest = IF k = 0 THEN main ELSE WithoutLeadingDashes(b)
    BY DEF StripLeadingDuplicate, P
  <1> HIDE DEF k
  <1>4. /\ a \in Seq(T) /\ Len(a) = k /\ b \in Seq(T) /\ main = a \o b
        /\ \A i \in 1 .. k : a[i] = main[i]
    BY <1>2, Cut
  <1>5. k = 0 => main = b
    <2> SUFFICES ASSUME k = 0 PROVE main = b
      OBVIOUS
    <2> HIDE DEF a, b
    <2>1. a = <<>>
      BY <1>4
    <2> QED
      BY <1>4, <2>1
  <1> HIDE DEF a, b
  <1>6. Plain(a) = a
    <2>1. ASSUME NEW i \in 1 .. Len(a) PROVE a[i] # Dash
      <3>1. i \in 1 .. k /\ i \in 1 .. Len(P)
        BY <1>1, <1>2, <1>4
      <3> QED
        BY <1>1, <1>2, <1>4, <3>1
    <2> QED
      BY <1>4, <2>1, PlainOfWords
  <1>7. M = a \o Plain(b)
    BY <1>4, <1>6, PlainOfTwo DEF M
  <1>8. rest \in Seq(T) /\ Plain(rest) = Plain(b)
    BY <1>3, <1>4, <1>5, DashesAreSilent
  <1> HIDE DEF rest
  <1>9. Plain(b) \in Seq(T)
    BY <1>4, PlainType
  <1>10. /\ k \in 0 .. Len(M) /\ \A i \in 1 .. k : M[i] = P[i]
         /\ SubSeq(M, k + 1, Len(M)) = Plain(b)
    <2> DEFINE c == Plain(b)
    <2> HIDE DEF c
    <2>1. c \in Seq(T) /\ M = a \o c
      BY <1>7, <1>9 DEF c
    <2>2. Len(c) \in Nat /\ k \in Nat /\ Len(M) = k + Len(c)
      <3>1. Len(c) \in Nat /\ Len(a) \in Nat
        BY <1>4, <2>1
      <3>2. Len(a \o c) = Len(a) + Len(c)
        BY <1>4, <2>1, ConcatProperties
      <3> QED
        BY <1>4, <2>1, <3>1, <3>2
    <2>3. ASSUME NEW i \in 1 .. k PROVE M[i] = P[i]
      <3>1. M[i] = a[i]
        BY <1>4, <2>1, <2>2
      <3> QED
        BY <1>2, <1>4, <3>1
    <2>4. k \in 0 .. Len(M)
      BY <2>2
    <2>5. /\ SubSeq(M, k + 1, Len(M)) \in Seq(T)
          /\ Len(SubSeq(M, k + 1, Len(M))) = Len(M) - k
      BY <1>1, <2>4, Cut
    <2>6. ASSUME NEW i \in 1 .. Len(c) PROVE SubSeq(M, k + 1, Len(M))[i] = c[i]
      <3>1. SubSeq(M, k + 1, Len(M))[i] = M[k + i]
        BY <1>1, <2>2
      <3>2. M[k + i] = c[i]
        BY <1>4, <2>1, <2>2, ConcatProperties
      <3> QED
        BY <3>1, <3>2
    <2>7. SubSeq(M, k + 1, Len(M)) = c
      <3> DEFINE d == SubSeq(M, k + 1, Len(M))
      <3>1. d \in Seq(T) /\ Len(d) = Len(c) /\ \A i \in 1 .. Len(d) : d[i] = c[i]
        BY <2>2, <2>5, <2>6
      <3> HIDE DEF d
      <3>2. d = c
        BY <2>1, <3>1, SeqEqual
      <3> QED
        BY <3>2 DEF d
    <2> QED
      BY <2>3, <2>4, <2>7 DEF c
  <1>11. IsPrefix(SubSeq(M, 1, k), P)
    BY <1>1, <1>2, <1>10, PrefixWords
  <1>12. ASSUME M = main, NEW j \in 0 .. Len(M), IsPrefix(SubSeq(M, 1, j), P) PROVE j <= k
    <2>1. j <= Len(P) /\ \A i \in 1 .. j : M[i] = P[i]
      BY <1>1, <1>12, PrefixWords
    <2>2. j \in Nat /\ j <= Len(main)
      BY <1>12
    <2> QED
      BY <1>2, <1>12, <2>1, <2>2
  <1>13. P \o Plain(rest) = P \o SubSeq(M, k + 1, Len(M))
    BY <1>8, <1>10
  <1>14. Answered(f, main, P \o Plain(rest))
    BY <1>10, <1>11, <1>12, <1>13 DEF Answered, P, M
  <1> QED
    BY <1>8, <1>14 DEF P, rest

\* The texts are texts.
LEMMA TextsAreTexts ==
  ASSUME NEW text \in Texts
  PROVE  text \in Seq(Words)
  BY TextAssumption DEF Texts, BoundedSeq, SeqOf

-----------------------------------------------------------------------------
(***************************************************************************)
(* The hand-over                                                           *)
(***************************************************************************)

\* Nothing was said at first; while the filler plays it is all that was said.
HandoffInv ==
  /\ onset \in {"idle", "filler_playing", "main_playing", "done"}
  /\ filler \in Seq(Words)
  /\ onset = "idle" => filler = <<>> /\ spoken = <<>> /\ answer = <<>>
  /\ onset = "filler_playing" => spoken = <<filler>> /\ answer = <<>>
  /\ HeardOnce

LEMMA NothingIsPlain == Plain(<<>>) = <<>>
  <1>1. <<>> \in Seq(Words) /\ Len(<<>>) = 0
    OBVIOUS
  <1>2. \A i \in 1 .. Len(<<>>) : <<>>[i] # Dash
    BY <1>1
  <1> QED
    BY <1>1, <1>2, PlainOfWords

LEMMA TwoTexts ==
  ASSUME NEW T, NEW x \in T, NEW y \in T
  PROVE  Append(<<x>>, y) = <<x, y>>
  <1>1. <<x>> \in Seq(T) /\ Len(<<x>>) = 1 /\ <<x>>[1] = x
    OBVIOUS
  <1>2. <<x, y>> \in Seq(T) /\ Len(<<x, y>>) = 2 /\ <<x, y>>[1] = x /\ <<x, y>>[2] = y
    OBVIOUS
  <1> DEFINE a == Append(<<x>>, y)
             b == <<x, y>>
  <1>3. a \in Seq(T) /\ Len(a) = 2 /\ a[1] = x /\ a[2] = y
    BY <1>1, AppendProperties
  <1>4. b \in Seq(T) /\ Len(b) = 2 /\ b[1] = x /\ b[2] = y
    BY <1>2
  <1> HIDE DEF a, b
  <1>5. \A i \in 1 .. Len(a) : a[i] = b[i]
    <2>1. \A i \in 1 .. 2 : i = 1 \/ i = 2
      OBVIOUS
    <2> QED
      BY <1>3, <1>4, <2>1
  <1>6. a = b
    BY <1>3, <1>4, <1>5, SeqEqual
  <1> QED
    BY <1>6 DEF a, b

LEMMA NothingHeard == answer = <<>> /\ Len(spoken) <= 2 => HeardOnce
  BY DEF HeardOnce

LEMMA HandoffInvInit == HandoffInit => HandoffInv
  <1> SUFFICES ASSUME HandoffInit PROVE HandoffInv
    OBVIOUS
  <1>1. HeardOnce
    BY NothingHeard DEF HandoffInit
  <1> QED
    BY <1>1 DEF HandoffInit, HandoffInv

LEMMA HandoffInvNext == HandoffInv /\ [HandoffNext]_handoffVars => HandoffInv'
  <1> SUFFICES ASSUME HandoffInv, [HandoffNext]_handoffVars PROVE HandoffInv'
    OBVIOUS
  <1>1. CASE UNCHANGED handoffVars
    <2>1. HeardOnce'
      BY <1>1 DEF HandoffInv, handoffVars, HeardOnce, Heard
    <2> QED
      BY <1>1, <2>1 DEF HandoffInv, handoffVars
  <1>2. CASE SuppressFiller
    BY <1>1, <1>2 DEF SuppressFiller
  <1>3. CASE Complete
    <2>1. UNCHANGED <<filler, spoken, answer>> /\ onset' = "done"
      BY <1>3 DEF Complete
    <2>2. HeardOnce'
      BY <2>1 DEF HandoffInv, HeardOnce, Heard
    <2> QED
      BY <2>1, <2>2 DEF HandoffInv
  <1>4. CASE NewTurn
    <2>1. HeardOnce'
      BY <1>4 DEF NewTurn, HeardOnce
    <2> QED
      BY <1>4, <2>1 DEF NewTurn, HandoffInv
  <1>5. ASSUME NEW text \in Texts, BeginFiller(text) PROVE HandoffInv'
    <2>1. CASE onset = "idle"
      <3>1. /\ onset' = "filler_playing" /\ filler' = text /\ spoken' = Append(spoken, text)
            /\ answer' = answer
        BY <1>5, <2>1 DEF BeginFiller
      <3>2. spoken' = <<text>> /\ answer' = <<>> /\ text \in Seq(Words)
        BY <2>1, <3>1, TextsAreTexts DEF HandoffInv
      <3>3. HeardOnce'
        BY <3>2 DEF HeardOnce
      <3> QED
        BY <3>1, <3>2, <3>3 DEF HandoffInv
    <2>2. CASE onset # "idle"
      <3>1. UNCHANGED handoffVars
        BY <1>5, <2>2 DEF BeginFiller, handoffVars
      <3> QED
        BY <1>1, <3>1
    <2> QED
      BY <2>1, <2>2
  <1>6. ASSUME NEW main \in Texts, HandoffToMain(main) PROVE HandoffInv'
    <2> DEFINE rest == StripLeadingDuplicate(filler, main)
    <2>1. main \in Seq(Words) /\ filler \in Seq(Words)
      BY TextsAreTexts DEF HandoffInv
    <2>2. rest \in Seq(Words) /\ Answered(filler, main, Plain(filler) \o Plain(rest))
      BY <2>1, RestIsTheAnswer
    <2>3. CASE onset \in {"main_playing", "done"}
      <3>1. UNCHANGED handoffVars
        BY <1>6, <2>3 DEF HandoffToMain
      <3> QED
        BY <1>1, <3>1
    <2>4. CASE onset = "idle"
      <3>1. /\ onset' = "main_playing" /\ spoken' = Append(spoken, main)
            /\ answer' = Append(answer, main) /\ filler' = filler
        BY <1>6, <2>4 DEF HandoffToMain
      <3>2. filler = <<>> /\ spoken' = <<main>> /\ answer' = <<main>>
        BY <2>4, <3>1 DEF HandoffInv
      <3>3. rest = main /\ Plain(filler) = <<>>
        <4>1. Plain(filler) = <<>>
          BY <3>2, NothingIsPlain
        <4>2. Overlap(Plain(filler), main) = 0
          <5>1. Overlap(filler, main) \in 0 .. Len(filler)
            BY <2>1, OverlapIsLongest
          <5>2. Len(filler) = 0
            BY <3>2
          <5> QED
            BY <3>2, <4>1, <5>1, <5>2
        <4> QED
          BY <4>1, <4>2 DEF StripLeadingDuplicate
      <3>4. Heard' = Plain(main)
        BY <3>2 DEF Heard
      <3>5. Plain(main) \in Seq(Words)
        BY <2>1, PlainType
      <3>6. Answered(filler, main, Plain(main))
        BY <2>2, <3>3, <3>5
      <3>7. HeardOnce'
        <4>1. /\ Len(answer') = 1 /\ answer'[1] = main /\ Len(spoken') = 1 /\ spoken' # <<>>
              /\ filler' = filler
          BY <3>1, <3>2
        <4> QED
          BY <3>4, <3>6, <4>1 DEF HeardOnce, Answered
      <3> QED
        BY <2>1, <3>1, <3>7 DEF HandoffInv
    <2>5. CASE onset = "filler_playing"
      <3>1. /\ onset' = "main_playing" /\ answer' = Append(answer, main) /\ filler' = filler
            /\ spoken' = IF rest = <<>> THEN spoken ELSE Append(spoken, rest)
        BY <1>6, <2>5 DEF HandoffToMain
      <3>2. spoken = <<filler>> /\ answer' = <<main>>
        BY <2>5, <3>1 DEF HandoffInv
      <3>3. Plain(filler) \in Seq(Words) /\ Plain(rest) \in Seq(Words)
        BY <2>1, <2>2, PlainType
      <3> HIDE DEF rest
      <3>4. Heard' = Plain(filler) \o Plain(rest) /\ spoken' # <<>> /\ Len(spoken') <= 2
        <4>1. CASE rest = <<>>
          <5>1. Plain(rest) = <<>>
            BY <4>1, NothingIsPlain
          <5>2. spoken' = <<filler>>
            BY <3>1, <3>2, <4>1
          <5>3. Heard' = Plain(filler)
            BY <5>2 DEF Heard
          <5> QED
            BY <3>3, <5>1, <5>2, <5>3
        <4>2. CASE rest # <<>>
          <5>1. spoken' = <<filler, rest>>
            <6>1. spoken' = Append(<<filler>>, rest)
              BY <3>1, <3>2, <4>2
            <6>2. rest \in Seq(Words)
              BY <2>2 DEF rest
            <6> QED
              BY <2>1, <6>1, <6>2, TwoTexts
          <5> QED
            BY <5>1 DEF Heard
        <4> QED
          BY <4>1, <4>2
      <3>5. HeardOnce'
        <4>1. Len(answer') = 1 /\ answer'[1] = main /\ filler' = filler
          BY <3>1, <3>2
        <4> QED
          <5>1. Answered(filler, main, Heard')
            BY <2>2, <3>4 DEF rest
          <5>2. Len(answer') <= 1 /\ Len(spoken') <= 2
            BY <3>4, <4>1
          <5> HIDE DEF rest
          <5> QED
            BY <3>4, <4>1, <5>1, <5>2 DEF HeardOnce, Answered
      <3> QED
        BY <2>1, <3>1, <3>5 DEF HandoffInv
    <2> QED
      BY <2>3, <2>4, <2>5 DEF HandoffInv
  <1> QED
    BY <1>1, <1>2, <1>3, <1>4, <1>5, <1>6 DEF HandoffNext

\* The planner resolves every speculation once and on good grounds, and the user
\* hears filler and answer once, for any thresholds and texts (speculation.py:107,
\* handoff.py:149).
THEOREM PlannerIsKept == SpecSpec /\ HandoffSpec => []PlannerIsSound
  <1>1. SpecInv /\ HandoffInv => PlannerIsSound
    BY SpecInvSound DEF HandoffInv, PlannerIsSound
  <1> QED
    BY <1>1, SpecInvInit, SpecInvNext, HandoffInvInit, HandoffInvNext, PTL DEF SpecSpec, HandoffSpec
=============================================================================
