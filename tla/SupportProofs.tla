----------------------------- MODULE SupportProofs -----------------------------
(***************************************************************************)
(* The services beside the conversation: memory for any number of          *)
(* sessions, records and failures of its backends, the gates of safety/    *)
(* for any number of voices, consents, categories and changes of the       *)
(* audio, and the job pools, failover, tools and deployment decisions for  *)
(* any number of jobs, workers, calls, metrics, users and regions.         *)
(***************************************************************************)
EXTENDS Services, FiniteSetTheorems, WellFoundedInduction, TLAPS

\* A set of naturals that is not empty has a least element.
LEMMA LeastOf ==
  ASSUME NEW S \in SUBSET Nat, S # {}
  PROVE  \E x \in S : \A y \in S : x <= y
  <1> DEFINE less == {p \in Nat \X Nat : p[1] < p[2]}
  <1>1. IsWellFoundedOn(less, Nat)
    BY NatLessThanWellFounded DEF OpToRel
  <1> HIDE DEF less
  <1>2. PICK x \in S : \A y \in S : <<y, x>> \notin less
    BY <1>1, WFMin
  <1>3. \A y \in S : ~(y < x)
    BY <1>2 DEF less
  <1> QED
    BY <1>3

-----------------------------------------------------------------------------
(***************************************************************************)
(* The best of several lists                                               *)
(***************************************************************************)

\* Hits that nothing ties.
ScoresDiffer(X) == /\ \A h \in X : h.score \in Int
                   /\ \A g, h \in X : g.score = h.score => g = h

Above(X, x) == {g \in X : g.score > x}

\* A better hit has fewer above it; as many are cut off as the limit says.
LEMMA TopSize ==
  ASSUME NEW X, IsFiniteSet(X), ScoresDiffer(X), NEW k \in Nat
  PROVE  /\ IsFiniteSet(TopK(X, k)) /\ Cardinality(TopK(X, k)) <= k
         /\ Cardinality(X) >= k => Cardinality(TopK(X, k)) = k
  <1> DEFINE n == Cardinality(X)
             m == IF k < n THEN k ELSE n
             rank == [h \in X |-> Cardinality(Above(X, h.score))]
  <1>1. n \in Nat /\ m \in Nat
    BY FS_CardinalityType
  <1>2. \A x : /\ IsFiniteSet(Above(X, x)) /\ Cardinality(Above(X, x)) \in Nat
    <2> TAKE x
    <2>1. Above(X, x) \in SUBSET X
      BY DEF Above
    <2> QED
      BY <2>1, FS_Subset, FS_CardinalityType
  <1>3. \A g, h \in X : g.score > h.score => rank[g] < rank[h]
    <2> SUFFICES ASSUME NEW g \in X, NEW h \in X, g.score > h.score
                 PROVE  Cardinality(Above(X, g.score)) < Cardinality(Above(X, h.score))
      OBVIOUS
    <2> DEFINE more == Above(X, g.score) \cup {g}
    <2>1. g.score \in Int /\ h.score \in Int /\ \A f \in X : f.score \in Int
      BY DEF ScoresDiffer
    <2>2. g \notin Above(X, g.score)
      BY <2>1 DEF Above
    <2>3. Cardinality(more) = Cardinality(Above(X, g.score)) + 1
      BY <1>2, <2>2, FS_AddElement
    <2>4. more \in SUBSET Above(X, h.score)
      BY <2>1 DEF Above
    <2>5. Cardinality(more) <= Cardinality(Above(X, h.score))
      BY <1>2, <2>4, FS_Subset
    <2> QED
      BY <1>2, <2>3, <2>5
  <1>4. rank \in Injection(X, 0 .. (n - 1))
    <2>1. \A h \in X : rank[h] \in 0 .. (n - 1)
      <3> SUFFICES ASSUME NEW h \in X PROVE Cardinality(Above(X, h.score)) \in 0 .. (n - 1)
        OBVIOUS
      <3>1. h.score \in Int /\ Above(X, h.score) \in SUBSET (X \ {h})
        BY DEF Above, ScoresDiffer
      <3>2. IsFiniteSet(X \ {h}) /\ Cardinality(X \ {h}) = n - 1
        BY FS_RemoveElement
      <3>3. Cardinality(Above(X, h.score)) <= n - 1
        BY <3>1, <3>2, FS_Subset
      <3> QED
        BY <1>1, <1>2, <3>3
    <2>2. \A g, h \in X : rank[g] = rank[h] => g = h
      <3> SUFFICES ASSUME NEW g \in X, NEW h \in X, rank[g] = rank[h], g # h PROVE FALSE
        OBVIOUS
      <3>1. g.score > h.score \/ h.score > g.score
        BY DEF ScoresDiffer
      <3>2. rank[g] \in Int /\ rank[h] \in Int
        BY <2>1
      <3> HIDE DEF rank
      <3> QED
        BY <1>3, <3>1, <3>2
    <2> QED
      BY <2>1, <2>2 DEF Injection, IsInjective
  <1>5. rank \in Surjection(X, 0 .. (n - 1))
    <2>1. IsFiniteSet(0 .. (n - 1)) /\ Cardinality(0 .. (n - 1)) = n
      BY <1>1, FS_Interval
    <2> HIDE DEF rank
    <2> QED
      BY <1>4, <2>1, FS_Injection
  <1> DEFINE top == TopK(X, k)
             short == [h \in top |-> rank[h]]
  <1>6. top = {h \in X : rank[h] < k}
    BY DEF TopK, Above
  <1>7. /\ \A h \in X : rank[h] \in 0 .. (n - 1)
        /\ \A g, h \in X : rank[g] = rank[h] => g = h
        /\ \A i \in 0 .. (n - 1) : \E h \in X : rank[h] = i
    BY <1>4, <1>5 DEF Injection, IsInjective, Surjection
  <1> HIDE DEF rank, top
  <1>8. IsFiniteSet(0 .. (m - 1)) /\ Cardinality(0 .. (m - 1)) = m
    <2>1. m \in Nat /\ m - 1 \in Int
      BY <1>1
    <2> HIDE DEF m, n
    <2>2. /\ IsFiniteSet(0 .. (m - 1))
          /\ Cardinality(0 .. (m - 1)) = IF 0 > m - 1 THEN 0 ELSE (m - 1) - 0 + 1
      BY <2>1, FS_Interval
    <2> QED
      BY <2>1, <2>2
  <1>9. short \in Injection(top, 0 .. (m - 1))
    BY <1>1, <1>6, <1>7 DEF Injection, IsInjective
  <1>10. short \in Surjection(top, 0 .. (m - 1))
    <2>1. short \in [top -> 0 .. (m - 1)]
      BY <1>9 DEF Injection
    <2>2. \A i \in 0 .. (m - 1) : \E h \in top : short[h] = i
      <3> TAKE i \in 0 .. (m - 1)
      <3>1. i \in 0 .. (n - 1) /\ i < k
        BY <1>1
      <3>2. PICK h \in X : rank[h] = i
        BY <1>7, <3>1
      <3> QED
        BY <1>6, <3>1, <3>2
    <2> QED
      BY <2>1, <2>2 DEF Surjection
  <1>11. IsFiniteSet(top) /\ Cardinality(top) = m
    <2> HIDE DEF short, m
    <2> QED
      BY <1>8, <1>9, <1>10, FS_Injection
  <1> QED
    BY <1>1, <1>11 DEF top

\* What is cut off has as many better hits as the limit says.
LEMMA CutOff ==
  ASSUME NEW X, IsFiniteSet(X), ScoresDiffer(X), NEW k \in Nat, NEW h \in X, h \notin TopK(X, k)
  PROVE  Cardinality(TopK(X, k)) = k /\ \A g \in TopK(X, k) : g \in X /\ g.score > h.score
  <1>1. Above(X, h.score) \in SUBSET X /\ IsFiniteSet(Above(X, h.score))
    <2>1. Above(X, h.score) \in SUBSET X
      BY DEF Above
    <2> QED
      BY <2>1, FS_Subset
  <1>2. /\ Cardinality(Above(X, h.score)) \in Nat /\ Cardinality(X) \in Nat
        /\ Cardinality(Above(X, h.score)) <= Cardinality(X)
    BY <1>1, FS_Subset, FS_CardinalityType
  <1>3. Cardinality(Above(X, h.score)) >= k
    BY <1>2 DEF TopK, Above
  <1>4. Cardinality(TopK(X, k)) = k
    BY <1>2, <1>3, TopSize
  <1>5. ASSUME NEW g \in TopK(X, k) PROVE g \in X /\ g.score > h.score
    <2>1. g \in X /\ Cardinality(Above(X, g.score)) < k
      BY DEF TopK, Above
    <2>2. g.score \in Int /\ h.score \in Int /\ \A f \in X : f.score \in Int
      BY <2>1 DEF ScoresDiffer
    <2>3. ASSUME ~(g.score > h.score) PROVE FALSE
      <3>1. Above(X, h.score) \in SUBSET Above(X, g.score)
        BY <2>2, <2>3 DEF Above
      <3>2. Above(X, g.score) \in SUBSET X
        BY DEF Above
      <3>3. IsFiniteSet(Above(X, g.score)) /\ Cardinality(Above(X, g.score)) \in Nat
        BY <3>2, FS_Subset, FS_CardinalityType
      <3>4. Cardinality(Above(X, h.score)) <= Cardinality(Above(X, g.score))
        BY <3>1, <3>3, FS_Subset
      <3> QED
        BY <1>2, <1>3, <2>1, <3>3, <3>4
    <2> QED
      BY <2>1, <2>3
  <1> QED
    BY <1>4, <1>5

\* Every record that is hit has a best hit.
LEMMA BestExists ==
  ASSUME NEW Y, IsFiniteSet(Y), ScoresDiffer(Y), NEW g \in Y
  PROVE  \E b \in BestHits(Y) : b.rec = g.rec /\ b.score >= g.score
  <1> DEFINE same == {h \in Y : h.rec = g.rec}
  <1>1. same \in SUBSET Y /\ g \in same
    OBVIOUS
  <1>2. IsFiniteSet(same) /\ ScoresDiffer(same)
    BY <1>1, FS_Subset DEF ScoresDiffer
  <1> HIDE DEF same
  <1>3. Cardinality(same) \in Nat /\ Cardinality(same) # 0
    BY <1>1, <1>2, FS_CardinalityType, FS_EmptySet
  <1>4. Cardinality(TopK(same, 1)) = 1 /\ IsFiniteSet(TopK(same, 1))
    BY <1>2, <1>3, TopSize
  <1>5. PICK b : b \in TopK(same, 1)
    BY <1>4, FS_EmptySet
  <1>6. b \in same /\ Cardinality(Above(same, b.score)) < 1
    BY <1>5 DEF TopK, Above
  <1>7. Above(same, b.score) = {}
    <2>1. Above(same, b.score) \in SUBSET same
      BY DEF Above
    <2>2. IsFiniteSet(Above(same, b.score)) /\ Cardinality(Above(same, b.score)) \in Nat
      BY <1>2, <2>1, FS_Subset, FS_CardinalityType
    <2>3. Cardinality(Above(same, b.score)) = 0
      BY <1>6, <2>2
    <2> QED
      BY <2>2, <2>3, FS_EmptySet
  <1>8. \A h \in same : h.score <= b.score
    BY <1>2, <1>6, <1>7 DEF Above, ScoresDiffer
  <1>9. b \in BestHits(Y) /\ b.rec = g.rec /\ b.score >= g.score
    <2>1. b.score \in Int /\ g.score \in Int
      BY <1>1, <1>2, <1>6 DEF ScoresDiffer
    <2>2. b \in Y /\ b.rec = g.rec /\ \A h \in Y : h.rec = b.rec => h \in same
      BY <1>1, <1>6 DEF same
    <2> QED
      BY <1>1, <1>8, <2>1, <2>2 DEF BestHits
  <1> QED
    BY <1>9

\* A list that names each record once has no more hits above a score than the best have.
LEMMA BestDominate ==
  ASSUME NEW Y, IsFiniteSet(Y), ScoresDiffer(Y), NEW X \in SUBSET Y, NEW x \in Int,
         \A g, h \in X : g.rec = h.rec => g = h
  PROVE  Cardinality(Above(X, x)) <= Cardinality(Above(BestHits(Y), x))
  <1> DEFINE f == [g \in Above(X, x) |->
                     CHOOSE b \in BestHits(Y) : b.rec = g.rec /\ b.score >= g.score]
  <1>1. \A g \in Above(X, x) : f[g] \in BestHits(Y) /\ f[g].rec = g.rec /\ f[g].score >= g.score
    <2> SUFFICES ASSUME NEW g \in Above(X, x)
                 PROVE  f[g] \in BestHits(Y) /\ f[g].rec = g.rec /\ f[g].score >= g.score
      OBVIOUS
    <2>1. \E b \in BestHits(Y) : b.rec = g.rec /\ b.score >= g.score
      BY BestExists DEF Above
    <2> QED
      BY <2>1
  <1>2. f \in [Above(X, x) -> Above(BestHits(Y), x)]
    <2>1. \A g \in Above(X, x) : f[g] \in Above(BestHits(Y), x)
      <3> SUFFICES ASSUME NEW g \in Above(X, x) PROVE f[g] \in Above(BestHits(Y), x)
        OBVIOUS
      <3>1. g.score > x /\ g.score \in Int
        BY DEF Above, ScoresDiffer
      <3>2. f[g] \in BestHits(Y) /\ f[g].score >= g.score
        BY <1>1
      <3>3. f[g].score \in Int
        BY <3>2 DEF BestHits, ScoresDiffer
      <3> HIDE DEF f
      <3> QED
        BY <3>1, <3>2, <3>3 DEF Above
    <2> QED
      BY <2>1
  <1>3. f \in Injection(Above(X, x), Above(BestHits(Y), x))
    <2>1. \A g, h \in Above(X, x) : f[g] = f[h] => g = h
      <3> SUFFICES ASSUME NEW g \in Above(X, x), NEW h \in Above(X, x), f[g] = f[h] PROVE g = h
        OBVIOUS
      <3>1. g.rec = h.rec
        BY <1>1
      <3> QED
        BY <3>1 DEF Above
    <2> HIDE DEF f
    <2> QED
      BY <1>2, <2>1 DEF Injection, IsInjective
  <1>4. IsFiniteSet(Above(BestHits(Y), x))
    <2>1. Above(BestHits(Y), x) \in SUBSET Y
      BY DEF Above, BestHits
    <2> QED
      BY <2>1, FS_Subset
  <1> HIDE DEF f
  <1> QED
    BY <1>3, <1>4, FS_Injection

\* The best of a set name each record once.
LEMMA BestOnce ==
  ASSUME NEW Y, ScoresDiffer(Y)
  PROVE  \A g, h \in BestHits(Y) : g.rec = h.rec => g = h
  <1> SUFFICES ASSUME NEW g \in BestHits(Y), NEW h \in BestHits(Y), g.rec = h.rec PROVE g = h
    OBVIOUS
  <1>1. g \in Y /\ h \in Y /\ g.score <= h.score /\ h.score <= g.score
    BY DEF BestHits
  <1>2. g.score \in Int /\ h.score \in Int
    BY <1>1 DEF ScoresDiffer
  <1>3. g.score = h.score
    BY <1>1, <1>2
  <1> QED
    BY <1>1, <1>3 DEF ScoresDiffer

\* What one list holds, and what the lists hold together.
AllOf(hits) == UNION {hits[t] : t \in Tiers}
HitsAreSound(hits) ==
  /\ \A t \in Tiers : \A g, h \in hits[t] : g.rec = h.rec => g = h
  /\ IsFiniteSet(AllOf(hits)) /\ ScoresDiffer(AllOf(hits))

\* Cutting every list before the merge loses none of the best.
LEMMA MergeIsExact ==
  ASSUME NEW hits, HitsAreSound(hits), NEW k \in Nat
  PROVE  Merge(hits, k) = TopK(BestHits(AllOf(hits)), k)
  <1> DEFINE Y == AllOf(hits)
             Z == UNION {TopK(hits[t], k) : t \in Tiers}
             all == BestHits(Y)
             cut == BestHits(Z)
  <1>1. IsFiniteSet(Y) /\ ScoresDiffer(Y) /\ \A t \in Tiers : hits[t] \in SUBSET Y
    BY DEF HitsAreSound, AllOf
  <1>2. Z \in SUBSET Y /\ all \in SUBSET Y /\ cut \in SUBSET Y /\ cut \in SUBSET Z
    BY DEF AllOf, TopK, BestHits
  <1>3. Merge(hits, k) = TopK(cut, k)
    BY DEF Merge
  <1>4. /\ IsFiniteSet(all) /\ ScoresDiffer(all) /\ IsFiniteSet(cut) /\ ScoresDiffer(cut)
        /\ IsFiniteSet(Z) /\ ScoresDiffer(Z)
    <2>1. IsFiniteSet(all) /\ IsFiniteSet(cut) /\ IsFiniteSet(Z)
      BY <1>1, <1>2, FS_Subset
    <2> QED
      BY <1>1, <1>2, <2>1 DEF ScoresDiffer
  <1>5. \A g, h \in cut : g.rec = h.rec => g = h
    BY <1>4, BestOnce
  <1>6. Y = AllOf(hits) /\ Z = UNION {TopK(hits[t], k) : t \in Tiers}
        /\ all = BestHits(Y) /\ cut = BestHits(Z)
    OBVIOUS
  <1> HIDE DEF Y, Z, all, cut
  <1>7. ASSUME NEW S \in SUBSET Y, NEW x
        PROVE  /\ Above(S, x) \in SUBSET S /\ IsFiniteSet(Above(S, x))
               /\ Cardinality(Above(S, x)) \in Nat
    <2>1. Above(S, x) \in SUBSET S
      BY DEF Above
    <2>2. IsFiniteSet(Above(S, x))
      BY <1>1, <2>1, FS_Subset
    <2> QED
      BY <2>1, <2>2, FS_CardinalityType
  <1>8. ASSUME NEW h \in TopK(all, k) PROVE h \in cut
    <2>1. h \in all /\ Cardinality(Above(all, h.score)) < k
      BY DEF TopK, Above
    <2>2. h \in Y /\ \A g \in Y : g.rec = h.rec => g.score <= h.score
      BY <1>6, <2>1 DEF BestHits
    <2>3. PICK t \in Tiers : h \in hits[t]
      BY <1>6, <2>2 DEF AllOf
    <2>4. h \in TopK(hits[t], k)
      <3> SUFFICES ASSUME h \notin TopK(hits[t], k) PROVE FALSE
        OBVIOUS
      <3>1. IsFiniteSet(hits[t]) /\ ScoresDiffer(hits[t])
        <4>1. IsFiniteSet(hits[t])
          BY <1>1, FS_Subset
        <4> QED
          BY <1>1, <4>1 DEF ScoresDiffer
      <3>2. /\ Cardinality(TopK(hits[t], k)) = k
            /\ \A g \in TopK(hits[t], k) : g \in hits[t] /\ g.score > h.score
        BY <2>3, <3>1, CutOff
      <3>3. TopK(hits[t], k) \in SUBSET Above(hits[t], h.score)
        BY <3>2 DEF Above
      <3>4. /\ IsFiniteSet(Above(hits[t], h.score))
            /\ Cardinality(Above(hits[t], h.score)) \in Nat
        BY <1>1, <1>7
      <3>5. k <= Cardinality(Above(hits[t], h.score))
        BY <3>2, <3>3, <3>4, FS_Subset
      <3>6. h.score \in Int
        BY <1>1, <2>2 DEF ScoresDiffer
      <3>7. \A g, f \in hits[t] : g.rec = f.rec => g = f
        BY DEF HitsAreSound
      <3>8. Cardinality(Above(hits[t], h.score)) <= Cardinality(Above(all, h.score))
        BY <1>1, <1>6, <3>6, <3>7, BestDominate
      <3>9. Cardinality(Above(all, h.score)) \in Nat
        BY <1>2, <1>7
      <3> QED
        BY <2>1, <3>4, <3>5, <3>8, <3>9
    <2>5. h \in Z
      BY <1>6, <2>3, <2>4
    <2> QED
      BY <1>2, <1>6, <2>2, <2>5 DEF BestHits
  <1>9. ASSUME NEW h \in TopK(all, k) PROVE h \in TopK(cut, k)
    <2>1. h \in cut /\ Cardinality(Above(all, h.score)) < k
      BY <1>8 DEF TopK, Above
    <2>2. h.score \in Int
      BY <1>4, <2>1 DEF ScoresDiffer
    <2>3. Cardinality(Above(cut, h.score)) <= Cardinality(Above(all, h.score))
      BY <1>1, <1>2, <1>5, <1>6, <2>2, BestDominate
    <2>4. Cardinality(Above(all, h.score)) \in Nat /\ Cardinality(Above(cut, h.score)) \in Nat
      BY <1>2, <1>7
    <2>5. Cardinality(Above(cut, h.score)) < k
      BY <2>1, <2>3, <2>4
    <2> QED
      BY <2>1, <2>5 DEF TopK, Above
  <1>10. ASSUME NEW x \in Int, Cardinality(TopK(all, k)) = k,
                \A g \in TopK(all, k) : g.score > x
         PROVE  k <= Cardinality(Above(cut, x))
    <2>1. TopK(all, k) \in SUBSET Above(cut, x)
      BY <1>8, <1>10 DEF Above
    <2>2. IsFiniteSet(Above(cut, x))
      BY <1>2, <1>7
    <2> QED
      BY <1>10, <2>1, <2>2, FS_Subset
  <1>11. ASSUME NEW h \in TopK(cut, k) PROVE h \in TopK(all, k)
    <2> SUFFICES ASSUME h \notin TopK(all, k) PROVE FALSE
      OBVIOUS
    <2>1. h \in cut /\ Cardinality(Above(cut, h.score)) < k
      BY DEF TopK, Above
    <2>2. h \in Y /\ h \in Z /\ h.score \in Int
      BY <1>2, <1>1, <2>1 DEF ScoresDiffer
    <2>3. PICK b \in all : b.rec = h.rec /\ b.score >= h.score
      BY <1>1, <1>6, <2>2, BestExists
    <2>4. b \in Y /\ b.score \in Int
      BY <1>1, <1>2 DEF ScoresDiffer
    <2>5. b \notin TopK(all, k)
      <3> SUFFICES ASSUME b \in TopK(all, k) PROVE FALSE
        OBVIOUS
      <3>1. b \in cut
        BY <1>8
      <3>2. b = h
        BY <1>5, <2>1, <2>3, <3>1
      <3> QED
        BY <3>2
    <2>6. Cardinality(TopK(all, k)) = k /\ \A g \in TopK(all, k) : g \in all /\ g.score > b.score
      BY <1>4, <2>5, CutOff
    <2>7. \A g \in TopK(all, k) : g.score > h.score
      <3> TAKE g \in TopK(all, k)
      <3>1. g \in all /\ g.score > b.score
        BY <2>6
      <3>2. g.score \in Int
        BY <1>4, <3>1 DEF ScoresDiffer
      <3> QED
        BY <2>2, <2>3, <2>4, <3>1, <3>2
    <2>8. k <= Cardinality(Above(cut, h.score)) /\ Cardinality(Above(cut, h.score)) \in Nat
      BY <1>2, <1>7, <1>10, <2>2, <2>6, <2>7
    <2> QED
      BY <2>1, <2>8
  <1>12. TopK(cut, k) = TopK(all, k)
    BY <1>9, <1>11
  <1> QED
    BY <1>3, <1>6, <1>12

\* The items of a read are as many records, and no more than were asked for.
LEMMA ItemsOnce ==
  ASSUME NEW hits, HitsAreSound(hits), NEW k \in Nat
  PROVE  LET items == Merge(hits, k)
         IN /\ items \in SUBSET AllOf(hits)
            /\ Cardinality(items) = Cardinality({h.rec : h \in items})
            /\ Cardinality(items) <= k
  <1> DEFINE Y == AllOf(hits)
             best == BestHits(Y)
             items == Merge(hits, k)
             recs == {h.rec : h \in items}
             f == [h \in items |-> h.rec]
  <1>1. IsFiniteSet(Y) /\ ScoresDiffer(Y) /\ best \in SUBSET Y
    BY DEF HitsAreSound, BestHits
  <1>2. IsFiniteSet(best) /\ ScoresDiffer(best)
    <2>1. IsFiniteSet(best)
      BY <1>1, FS_Subset
    <2> QED
      BY <1>1, <2>1 DEF ScoresDiffer
  <1>3. items = TopK(best, k)
    BY MergeIsExact
  <1>4. items \in SUBSET best
    BY <1>3 DEF TopK
  <1>5. \A g, h \in best : g.rec = h.rec => g = h
    BY <1>1, BestOnce
  <1> HIDE DEF items, best, Y
  <1>6. IsFiniteSet(items) /\ Cardinality(items) <= k
    BY <1>2, <1>3, TopSize
  <1>7. f \in Injection(items, recs) /\ f \in Surjection(items, recs)
    BY <1>4, <1>5 DEF Injection, IsInjective, Surjection
  <1>8. IsFiniteSet(recs)
    BY <1>6, <1>7, FS_Surjection
  <1>9. Cardinality(items) = Cardinality(recs)
    <2> HIDE DEF f, recs
    <2>1. Cardinality(items) <= Cardinality(recs)
      BY <1>7, <1>8, FS_Injection
    <2>2. Cardinality(recs) <= Cardinality(items)
      BY <1>6, <1>7, FS_Surjection
    <2> QED
      BY <1>6, <1>8, <2>1, <2>2, FS_CardinalityType
  <1> QED
    BY <1>1, <1>4, <1>6, <1>9 DEF items, Y

-----------------------------------------------------------------------------
(***************************************************************************)
(* The session tier                                                        *)
(***************************************************************************)

Connections == {"unknown", "up", "down"}

OfSession(keep, s) == {r \in keep : r.session = s}
RingEntry(keep, s) == [rec : OfSession(keep, s), expires : Nat]

\* A ring of the process: the newest come first and expire last.
RingInOrder(ring, now) ==
  \A i \in 1 .. Len(ring) : /\ ring[i].expires <= now + HotTtl
                            /\ \A j \in 1 .. Len(ring) : i < j => ring[j].expires <= ring[i].expires

RingIsSound(ring, keep, s, now) == ring \in Seq(RingEntry(keep, s)) /\ RingInOrder(ring, now)

\* The session tier holds records of keep only, and no copies while Redis works.
HotIsSound(h, keep, now) ==
  /\ h \in [conn : Connections, remote : [MemSessions -> Seq(keep)],
            until : [MemSessions -> Nat], local : [MemSessions -> Seq([rec : keep, expires : Nat])]]
  /\ \A s \in MemSessions : /\ h.remote[s] \in Seq(OfSession(keep, s))
                            /\ RingIsSound(h.local[s], keep, s, now)
                            /\ h.conn # "down" => h.local[s] = <<>>

\* What pushing on a list gives.
LEMMA Pushed ==
  ASSUME NEW S, NEW ring \in Seq(S), NEW x \in S
  PROVE  /\ PushRing(ring, x) \in Seq(S)
         /\ Len(PushRing(ring, x)) \in 1 .. (Len(ring) + 1)
         /\ PushRing(ring, x)[1] = x
         /\ \A i \in 1 .. Len(PushRing(ring, x)) : i # 1 => PushRing(ring, x)[i] = ring[i - 1]
  <1> DEFINE whole == <<x>> \o ring
             n == IF Len(ring) < HotMax THEN Len(ring) + 1 ELSE HotMax
  <1>1. /\ whole \in Seq(S) /\ Len(whole) = Len(ring) + 1 /\ whole[1] = x
        /\ \A i \in 2 .. (Len(ring) + 1) : whole[i] = ring[i - 1]
    OBVIOUS
  <1>2. n \in 1 .. Len(whole) /\ n \in Nat
    BY <1>1, HotAssumption
  <1> HIDE DEF whole, n
  <1>3. /\ SubSeq(whole, 1, n) \in Seq(S) /\ Len(SubSeq(whole, 1, n)) = n
        /\ \A i \in 1 .. n : SubSeq(whole, 1, n)[i] = whole[i]
    BY <1>1, <1>2
  <1>4. PushRing(ring, x) = SubSeq(whole, 1, n)
    BY DEF PushRing, whole, n
  <1> QED
    BY <1>1, <1>2, <1>3, <1>4

\* The times of a ring.
LEMMA RingTimes ==
  ASSUME NEW keep, NEW s, NEW ring \in Seq(RingEntry(keep, s))
  PROVE  \A i \in 1 .. Len(ring) : ring[i].expires \in Nat
  <1> TAKE i \in 1 .. Len(ring)
  <1>1. ring[i] \in RingEntry(keep, s)
    OBVIOUS
  <1> QED
    BY <1>1 DEF RingEntry

\* A ring stays in order when a record is pushed now.
LEMMA RingPushed ==
  ASSUME NEW keep, NEW s, NEW now \in Nat, NEW ring, RingIsSound(ring, keep, s, now),
         NEW rec \in OfSession(keep, s)
  PROVE  RingIsSound(PushRing(ring, [rec |-> rec, expires |-> now + HotTtl]), keep, s, now)
  <1> DEFINE x == [rec |-> rec, expires |-> now + HotTtl]
             new == PushRing(ring, x)
  <1>1. x \in RingEntry(keep, s) /\ x.expires = now + HotTtl
    BY HotAssumption DEF RingEntry
  <1>2. ring \in Seq(RingEntry(keep, s)) /\ Len(ring) \in Nat /\ RingInOrder(ring, now)
    BY DEF RingIsSound
  <1> HIDE DEF x
  <1>3. /\ new \in Seq(RingEntry(keep, s)) /\ Len(new) \in 1 .. (Len(ring) + 1) /\ new[1] = x
        /\ \A i \in 1 .. Len(new) : i # 1 => new[i] = ring[i - 1]
    <2> DEFINE E == RingEntry(keep, s)
    <2>1. ring \in Seq(E) /\ x \in E
      BY <1>1, <1>2
    <2> HIDE DEF E
    <2> DEFINE pushed == PushRing(ring, x)
    <2>2. /\ pushed \in Seq(E) /\ Len(pushed) \in 1 .. (Len(ring) + 1) /\ pushed[1] = x
          /\ \A i \in 1 .. Len(pushed) : i # 1 => pushed[i] = ring[i - 1]
      <3> HIDE DEF pushed
      <3>1. /\ PushRing(ring, x) \in Seq(E) /\ PushRing(ring, x)[1] = x
            /\ Len(PushRing(ring, x)) \in 1 .. (Len(ring) + 1)
        BY <2>1, Pushed
      <3>2. \A i \in 1 .. Len(PushRing(ring, x)) : i # 1 => PushRing(ring, x)[i] = ring[i - 1]
        BY <2>1, Pushed
      <3> QED
        BY <3>1, <3>2 DEF pushed
    <2> HIDE DEF pushed
    <2>3. new = pushed
      BY DEF pushed
    <2> HIDE DEF new
    <2> QED
      BY <2>2, <2>3 DEF E
  <1> HIDE DEF new
  <1>4. \A i \in 1 .. Len(ring) : ring[i].expires \in Nat
    BY <1>2, RingTimes
  <1>5. RingInOrder(new, now)
    <2> SUFFICES ASSUME NEW i \in 1 .. Len(new)
                 PROVE  /\ new[i].expires <= now + HotTtl
                        /\ \A j \in 1 .. Len(new) : i < j => new[j].expires <= new[i].expires
      BY DEF RingInOrder
    <2>1. \A j \in 1 .. Len(ring) : ring[j].expires <= now + HotTtl
      BY <1>2 DEF RingInOrder
    <2>2. now + HotTtl \in Nat
      BY HotAssumption
    <2>3. \A j \in 1 .. Len(new) : j # 1 => j - 1 \in 1 .. Len(ring) /\ new[j] = ring[j - 1]
      BY <1>2, <1>3
    <2>4. CASE i = 1
      <3>1. new[i].expires = now + HotTtl
        BY <1>1, <1>3, <2>4
      <3>2. \A j \in 1 .. Len(new) : i < j => new[j].expires <= now + HotTtl
        BY <2>1, <2>3, <2>4
      <3> QED
        BY <2>2, <3>1, <3>2
    <2>5. CASE i # 1
      <3>1. i - 1 \in 1 .. Len(ring) /\ new[i] = ring[i - 1]
        BY <2>3, <2>5
      <3>2. ASSUME NEW j \in 1 .. Len(new), i < j PROVE new[j].expires <= new[i].expires
        <4>1. j - 1 \in 1 .. Len(ring) /\ new[j] = ring[j - 1] /\ i - 1 < j - 1
          BY <2>3, <2>5, <3>2
        <4>2. \A a, b \in 1 .. Len(ring) : a < b => ring[b].expires <= ring[a].expires
          BY <1>2 DEF RingInOrder
        <4>3. ring[j - 1].expires <= ring[i - 1].expires
          BY <3>1, <4>1, <4>2
        <4> QED
          BY <3>1, <4>1, <4>3
      <3> QED
        BY <2>1, <3>1, <3>2
    <2> QED
      BY <2>4, <2>5
  <1> QED
    BY <1>3, <1>5 DEF RingIsSound, new, x

\* What has not expired is the first of a ring.
LEMMA LiveFirst ==
  ASSUME NEW keep, NEW s, NEW now \in Nat, NEW h, RingIsSound(h.local[s], keep, s, now)
  PROVE  /\ RingIsSound(LiveRing(h, s, now), keep, s, now)
         /\ \A i \in 1 .. Len(LiveRing(h, s, now)) :
               i \in 1 .. Len(h.local[s]) /\ LiveRing(h, s, now)[i] = h.local[s][i]
         /\ \A i \in 1 .. Len(h.local[s]) :
               h.local[s][i].expires > now <=> i \in 1 .. Len(LiveRing(h, s, now))
  <1> DEFINE ring == h.local[s]
             E == RingEntry(keep, s)
             live == {i \in 1 .. Len(ring) : ring[i].expires > now}
             expired == {i \in 1 .. (Len(ring) + 1) : i \notin live}
  <1>1. ring \in Seq(E) /\ Len(ring) \in Nat /\ DOMAIN ring = 1 .. Len(ring)
        /\ RingInOrder(ring, now) /\ \A i \in 1 .. Len(ring) : ring[i].expires \in Nat
    <2>1. ring \in Seq(E) /\ RingInOrder(ring, now)
      BY DEF RingIsSound
    <2>2. \A i \in 1 .. Len(ring) : ring[i].expires \in Nat
      BY <2>1, RingTimes
    <2> QED
      BY <2>1, <2>2
  <1>2. LiveRing(h, s, now) = SubSeq(ring, 1, Cardinality(live))
    <2>1. live = {i \in DOMAIN h.local[s] : h.local[s][i].expires > now}
      BY <1>1
    <2> HIDE DEF live
    <2> QED
      BY <2>1 DEF LiveRing
  <1> HIDE DEF ring, E
  <1>3. \A i, j \in 1 .. Len(ring) : i < j => ring[j].expires <= ring[i].expires
    BY <1>1 DEF RingInOrder
  <1>4. \E n \in 0 .. Len(ring) : live = 1 .. n
    <2>1. Len(ring) + 1 \in expired /\ expired \in SUBSET Nat
      BY <1>1
    <2>2. PICK x \in expired : \A y \in expired : x <= y
      <3> HIDE DEF expired
      <3> QED
        BY <2>1, LeastOf
    <2>3. x \in 1 .. (Len(ring) + 1) /\ x \notin live
      BY <2>2
    <2>4. \A i \in 1 .. (Len(ring) + 1) : i < x => i \in live
      <3> SUFFICES ASSUME NEW i \in 1 .. (Len(ring) + 1), i < x, i \notin live PROVE FALSE
        OBVIOUS
      <3>1. i \in expired
        OBVIOUS
      <3>2. x <= i
        BY <2>2, <3>1
      <3> QED
        BY <1>1, <2>3, <3>2
    <2>5. \A i \in 1 .. Len(ring) : i > x => i \notin live
      <3> SUFFICES ASSUME NEW i \in 1 .. Len(ring), i > x, ring[i].expires > now PROVE FALSE
        OBVIOUS
      <3>1. x \in 1 .. Len(ring) /\ x < i
        BY <1>1, <2>3
      <3>2. ring[i].expires <= ring[x].expires
        BY <1>3, <3>1
      <3>3. ring[x].expires > now
        BY <1>1, <3>1, <3>2
      <3> QED
        BY <2>3, <3>1, <3>3
    <2>6. \A i \in live : i \in 1 .. Len(ring)
      OBVIOUS
    <2>7. \A i \in live : i \in 1 .. (x - 1)
      <3> SUFFICES ASSUME NEW i \in live PROVE i \in 1 .. (x - 1)
        OBVIOUS
      <3>1. i \in 1 .. Len(ring) /\ ~(i > x) /\ i # x
        BY <2>3, <2>5, <2>6
      <3> QED
        BY <1>1, <2>3, <3>1
    <2>8. \A i \in 1 .. (x - 1) : i \in live
      BY <1>1, <2>3, <2>4
    <2>9. live = 1 .. (x - 1) /\ x - 1 \in 0 .. Len(ring)
      <3> HIDE DEF live
      <3>1. live = 1 .. (x - 1)
        BY <2>7, <2>8, SetExtensionality
      <3> QED
        BY <1>1, <2>3, <3>1
    <2> QED
      BY <2>9
  <1>5. PICK n \in 0 .. Len(ring) : live = 1 .. n
    BY <1>4
  <1>6. Cardinality(live) = n
    <2>1. n \in Nat
      BY <1>1
    <2>2. Cardinality(1 .. n) = n
      BY <2>1, FS_Interval
    <2> QED
      BY <1>5, <2>2
  <1> DEFINE new == SubSeq(ring, 1, n)
  <1>7. /\ new \in Seq(E) /\ Len(new) = n /\ \A i \in 1 .. n : new[i] = ring[i]
    BY <1>1
  <1>8. LiveRing(h, s, now) = new
    BY <1>2, <1>6
  <1> HIDE DEF new
  <1>9. RingInOrder(new, now)
    <2>1. \A i \in 1 .. n : i \in 1 .. Len(ring)
      BY <1>1
    <2> QED
      BY <1>1, <1>7, <2>1 DEF RingInOrder
  <1>10. \A i \in 1 .. Len(ring) : ring[i].expires > now <=> i \in 1 .. n
    <2>1. \A i \in 1 .. Len(ring) : ring[i].expires > now <=> i \in live
      OBVIOUS
    <2> HIDE DEF live
    <2> QED
      BY <1>5, <2>1
  <1>11. \A i \in 1 .. Len(new) : i \in 1 .. Len(ring) /\ new[i] = ring[i]
    BY <1>1, <1>7
  <1> HIDE DEF live
  <1>12. ring = h.local[s] /\ E = RingEntry(keep, s)
    BY DEF ring, E
  <1> QED
    BY <1>7, <1>8, <1>9, <1>10, <1>11, <1>12 DEF RingIsSound

\* A list of some is a list of more.
LEMMA SeqMonotone ==
  ASSUME NEW S, NEW T, S \subseteq T, NEW q \in Seq(S)
  PROVE  q \in Seq(T)
  OBVIOUS

\* What is sound stays so as time goes on and more is written.
LEMMA HotMonotone ==
  ASSUME NEW h, NEW keep, NEW more, keep \subseteq more, NEW now \in Nat, NEW later \in Nat,
         now <= later, HotIsSound(h, keep, now)
  PROVE  HotIsSound(h, more, later)
  <1>1. h.remote \in [MemSessions -> Seq(more)]
        /\ h.local \in [MemSessions -> Seq([rec : more, expires : Nat])]
    <2>1. Seq(keep) \subseteq Seq(more)
      BY SeqMonotone
    <2>2. Seq([rec : keep, expires : Nat]) \subseteq Seq([rec : more, expires : Nat])
      <3>1. [rec : keep, expires : Nat] \subseteq [rec : more, expires : Nat]
        OBVIOUS
      <3> HIDE DEF HotIsSound
      <3> QED
        BY <3>1, SeqMonotone
    <2> QED
      BY <2>1, <2>2 DEF HotIsSound
  <1>2. h \in [conn : Connections, remote : [MemSessions -> Seq(more)],
               until : [MemSessions -> Nat],
               local : [MemSessions -> Seq([rec : more, expires : Nat])]]
    BY <1>1 DEF HotIsSound
  <1>3. ASSUME NEW s \in MemSessions
        PROVE  /\ h.remote[s] \in Seq(OfSession(more, s))
               /\ RingIsSound(h.local[s], more, s, later)
               /\ h.conn # "down" => h.local[s] = <<>>
    <2>1. OfSession(keep, s) \subseteq OfSession(more, s)
      BY DEF OfSession
    <2>2. RingEntry(keep, s) \subseteq RingEntry(more, s)
      BY <2>1 DEF RingEntry
    <2>3. /\ h.remote[s] \in Seq(OfSession(keep, s)) /\ h.local[s] \in Seq(RingEntry(keep, s))
          /\ RingInOrder(h.local[s], now) /\ (h.conn # "down" => h.local[s] = <<>>)
      BY DEF HotIsSound, RingIsSound
    <2>4. h.remote[s] \in Seq(OfSession(more, s)) /\ h.local[s] \in Seq(RingEntry(more, s))
      BY <2>1, <2>2, <2>3, SeqMonotone
    <2>5. \A i \in 1 .. Len(h.local[s]) : h.local[s][i].expires \in Nat
      BY <2>3, RingTimes
    <2>6. RingInOrder(h.local[s], later)
      <3>1. \A i \in 1 .. Len(h.local[s]) : h.local[s][i].expires <= later + HotTtl
        BY <2>3, <2>5, HotAssumption DEF RingInOrder
      <3> QED
        BY <2>3, <3>1 DEF RingInOrder
    <2> QED
      BY <2>3, <2>4, <2>6 DEF RingIsSound
  <1> QED
    BY <1>2, <1>3 DEF HotIsSound

\* The parts of a cache one call may touch.
LEMMA HotParts ==
  ASSUME NEW keep, NEW now \in Nat, NEW conn \in Connections,
         NEW remote \in [MemSessions -> Seq(keep)], NEW until \in [MemSessions -> Nat],
         NEW local \in [MemSessions -> Seq([rec : keep, expires : Nat])],
         \A s \in MemSessions : /\ remote[s] \in Seq(OfSession(keep, s))
                                /\ RingIsSound(local[s], keep, s, now)
                                /\ conn # "down" => local[s] = <<>>
  PROVE  HotIsSound([conn |-> conn, remote |-> remote, until |-> until, local |-> local], keep, now)
  BY DEF HotIsSound

\* What the two ways of writing leave.
LEMMA RedisFields ==
  ASSUME NEW h, NEW rec, NEW now,
         \E c, r, u, l : h = [conn |-> c, remote |-> r, until |-> u, local |-> l]
  PROVE  WriteRedis(h, rec, now) =
           [conn |-> h.conn,
            remote |-> [h.remote EXCEPT ![rec.session] =
                          PushRing(IF h.until[rec.session] > now THEN h.remote[rec.session]
                                   ELSE <<>>, rec)],
            until |-> [h.until EXCEPT ![rec.session] = now + HotTtl], local |-> h.local]
  <1> DEFINE s == rec.session
             push == PushRing(IF h.until[s] > now THEN h.remote[s] ELSE <<>>, rec)
             pushed == [h EXCEPT !.remote[s] = push]
  <1>1. WriteRedis(h, rec, now) = [pushed EXCEPT !.until[s] = now + HotTtl]
    BY DEF WriteRedis
  <1>2. PICK c, r, u, l : h = [conn |-> c, remote |-> r, until |-> u, local |-> l]
    OBVIOUS
  <1> HIDE DEF s, push
  <1>3. pushed = [conn |-> c, remote |-> [r EXCEPT ![s] = push], until |-> u, local |-> l]
    BY <1>2
  <1> HIDE DEF pushed
  <1>4. [pushed EXCEPT !.until[s] = now + HotTtl] =
          [conn |-> c, remote |-> [r EXCEPT ![s] = push],
           until |-> [u EXCEPT ![s] = now + HotTtl], local |-> l]
    BY <1>3
  <1>5. c = h.conn /\ r = h.remote /\ u = h.until /\ l = h.local
    BY <1>2
  <1> QED
    BY <1>1, <1>4, <1>5 DEF s, push

\* Writing a record that is kept.
LEMMA HotWriteIsSound ==
  ASSUME NEW h, NEW keep, NEW now \in Nat, HotIsSound(h, keep, now), NEW rec \in keep,
         rec.session \in MemSessions, NEW fault
  PROVE  HotIsSound(HotWrite(h, rec, now, fault), keep, now)
  <1> DEFINE s == rec.session
             entry == [rec |-> rec, expires |-> now + HotTtl]
             live == IF h.until[s] > now THEN h.remote[s] ELSE <<>>
             remote == [h.remote EXCEPT ![s] = PushRing(live, rec)]
             until == [h.until EXCEPT ![s] = now + HotTtl]
             local == [h.local EXCEPT ![s] = PushRing(h.local[s], entry)]
             conn == ConnAfter(h.conn, fault)
             reaches == Reaches(h.conn, fault)
             works == h.conn # "down" /\ fault = "ok"
  <1>1. rec \in OfSession(keep, s) /\ entry \in [rec : keep, expires : Nat]
    BY HotAssumption DEF OfSession
  <1>2. h = [conn |-> h.conn, remote |-> h.remote, until |-> h.until, local |-> h.local]
    BY DEF HotIsSound
  <1>3. /\ h.conn \in Connections /\ h.remote \in [MemSessions -> Seq(keep)]
        /\ h.until \in [MemSessions -> Nat]
        /\ h.local \in [MemSessions -> Seq([rec : keep, expires : Nat])]
        /\ \A u \in MemSessions : /\ h.remote[u] \in Seq(OfSession(keep, u))
                                  /\ RingIsSound(h.local[u], keep, u, now)
                                  /\ h.conn # "down" => h.local[u] = <<>>
    BY DEF HotIsSound
  <1>4. PushRing(live, rec) \in Seq(OfSession(keep, s)) /\ PushRing(live, rec) \in Seq(keep)
    <2>1. live \in Seq(OfSession(keep, s)) /\ OfSession(keep, s) \subseteq keep
      <3>1. h.remote[s] \in Seq(OfSession(keep, s)) /\ <<>> \in Seq(OfSession(keep, s))
        BY <1>3
      <3>2. OfSession(keep, s) \subseteq keep
        BY DEF OfSession
      <3> QED
        BY <3>1, <3>2
    <2> HIDE DEF live
    <2>2. PushRing(live, rec) \in Seq(OfSession(keep, s))
      BY <1>1, <2>1, Pushed
    <2> QED
      BY <2>1, <2>2, SeqMonotone
  <1>5. /\ RingIsSound(PushRing(h.local[s], entry), keep, s, now)
        /\ PushRing(h.local[s], entry) \in Seq([rec : keep, expires : Nat])
    <2>1. RingIsSound(PushRing(h.local[s], entry), keep, s, now)
      BY <1>1, <1>3, RingPushed
    <2>2. h.local[s] \in Seq([rec : keep, expires : Nat])
      BY <1>3
    <2> HIDE DEF entry
    <2>3. PushRing(h.local[s], entry) \in Seq([rec : keep, expires : Nat])
      BY <1>1, <2>2, Pushed
    <2> QED
      BY <2>1, <2>3
  <1> HIDE DEF entry, live
  <1>6. /\ remote \in [MemSessions -> Seq(keep)] /\ until \in [MemSessions -> Nat]
        /\ local \in [MemSessions -> Seq([rec : keep, expires : Nat])]
    <2> s \in MemSessions /\ now + HotTtl \in Nat
      BY HotAssumption
    <2> HIDE DEF s
    <2>1. remote \in [MemSessions -> Seq(keep)]
      BY <1>3, <1>4
    <2>2. until \in [MemSessions -> Nat]
      BY <1>3
    <2>3. local \in [MemSessions -> Seq([rec : keep, expires : Nat])]
      BY <1>3, <1>5
    <2> QED
      BY <2>1, <2>2, <2>3
  <1>7. /\ \A u \in MemSessions : remote[u] \in Seq(OfSession(keep, u))
        /\ \A u \in MemSessions : RingIsSound(local[u], keep, u, now)
    <2> s \in MemSessions
      OBVIOUS
    <2> HIDE DEF s
    <2> QED
      BY <1>3, <1>4, <1>5
  <1>8. conn \in Connections /\ (works => conn # "down") /\ (~works => conn = "down")
    BY DEF ConnAfter, Connections
  <1>9. HotWrite(h, rec, now, fault) =
          [conn |-> conn, remote |-> IF reaches THEN remote ELSE h.remote,
           until |-> IF reaches THEN until ELSE h.until, local |-> IF works THEN h.local ELSE local]
    <2> HIDE DEF conn, reaches
    <2>1. WriteRedis(h, rec, now) =
            [conn |-> h.conn, remote |-> remote, until |-> until, local |-> h.local]
      <3>1. \E c, r, u, l : h = [conn |-> c, remote |-> r, until |-> u, local |-> l]
        BY <1>2
      <3> QED
        BY <3>1, RedisFields DEF live
    <2>2. \A g : g = [conn |-> h.conn, remote |-> g.remote, until |-> g.until, local |-> h.local]
            => WriteRing(g, rec, now) =
                 [conn |-> h.conn, remote |-> g.remote, until |-> g.until, local |-> local]
      BY DEF WriteRing, entry
    <2> HIDE DEF remote, until, local
    <2> QED
      BY <1>2, <2>1, <2>2 DEF HotWrite, conn, reaches
  <1> HIDE DEF remote, until, local, conn, reaches
  <1>10. \A u \in MemSessions : conn # "down" => (IF works THEN h.local ELSE local)[u] = <<>>
    BY <1>3, <1>8
  <1> QED
    BY <1>3, <1>6, <1>7, <1>8, <1>9, <1>10, HotParts

\* The parts of a sound cache.
LEMMA HotFields ==
  ASSUME NEW h, NEW keep, NEW now \in Nat, HotIsSound(h, keep, now)
  PROVE  /\ h = [conn |-> h.conn, remote |-> h.remote, until |-> h.until, local |-> h.local]
         /\ h.conn \in Connections /\ h.remote \in [MemSessions -> Seq(keep)]
         /\ h.until \in [MemSessions -> Nat]
         /\ h.local \in [MemSessions -> Seq([rec : keep, expires : Nat])]
         /\ \A u \in MemSessions : /\ h.remote[u] \in Seq(OfSession(keep, u))
                                   /\ RingIsSound(h.local[u], keep, u, now)
                                   /\ h.conn # "down" => h.local[u] = <<>>
  BY DEF HotIsSound

\* A process starts with nothing of its own.
LEMMA EmptyRing ==
  ASSUME NEW keep, NEW s, NEW now
  PROVE  RingIsSound(<<>>, keep, s, now)
  BY DEF RingIsSound, RingInOrder

\* Reading, which may find the connection gone.
LEMMA HotReadIsSound ==
  ASSUME NEW h, NEW keep, NEW now \in Nat, HotIsSound(h, keep, now), NEW s \in MemSessions,
         NEW fault
  PROVE  HotIsSound(HotAfterRead(h, s, now, fault), keep, now)
  <1> DEFINE live == LiveRing(h, s, now)
             local == [h.local EXCEPT ![s] = live]
             works == h.conn # "down" /\ fault = "ok"
  <1>1. /\ h = [conn |-> h.conn, remote |-> h.remote, until |-> h.until, local |-> h.local]
        /\ h.conn \in Connections /\ h.remote \in [MemSessions -> Seq(keep)]
        /\ h.until \in [MemSessions -> Nat]
        /\ h.local \in [MemSessions -> Seq([rec : keep, expires : Nat])]
        /\ \A u \in MemSessions : /\ h.remote[u] \in Seq(OfSession(keep, u))
                                  /\ RingIsSound(h.local[u], keep, u, now)
                                  /\ h.conn # "down" => h.local[u] = <<>>
    BY HotFields
  <1>2. CASE works
    <2>1. HotAfterRead(h, s, now, fault) =
            [conn |-> "up", remote |-> h.remote, until |-> h.until, local |-> h.local]
      <3>1. HotAfterRead(h, s, now, fault) = [h EXCEPT !.conn = "up"]
        BY <1>2 DEF HotAfterRead
      <3> QED
        BY <1>1, <3>1
    <2> QED
      BY <1>1, <1>2, <2>1, HotParts DEF Connections
  <1>3. CASE ~works
    <2>1. RingIsSound(live, keep, s, now) /\ RingEntry(keep, s) \subseteq [rec : keep, expires : Nat]
      BY <1>1, LiveFirst DEF RingEntry, OfSession
    <2>2. live \in Seq([rec : keep, expires : Nat])
      <3>1. live \in Seq(RingEntry(keep, s))
        BY <2>1 DEF RingIsSound
      <3> HIDE DEF live
      <3> QED
        BY <2>1, <3>1, SeqMonotone
    <2>3. HotAfterRead(h, s, now, fault) =
            [conn |-> "down", remote |-> h.remote, until |-> h.until, local |-> local]
      <3>1. HotAfterRead(h, s, now, fault) = [h EXCEPT !.conn = "down", !.local[s] = live]
        BY <1>3 DEF HotAfterRead
      <3> HIDE DEF live
      <3> QED
        BY <1>1, <3>1
    <2> HIDE DEF live
    <2>4. local \in [MemSessions -> Seq([rec : keep, expires : Nat])]
          /\ \A u \in MemSessions : RingIsSound(local[u], keep, u, now)
      BY <1>1, <2>1, <2>2
    <2> HIDE DEF local
    <2> QED
      BY <1>1, <2>3, <2>4, HotParts DEF Connections
  <1> QED
    BY <1>2, <1>3

\* Asking whether Redis answers.
LEMMA HotCheckIsSound ==
  ASSUME NEW h, NEW keep, NEW now \in Nat, HotIsSound(h, keep, now), NEW fault
  PROVE  HotIsSound(HotHealthcheck(h, fault), keep, now)
  <1>1. /\ h = [conn |-> h.conn, remote |-> h.remote, until |-> h.until, local |-> h.local]
        /\ h.conn \in Connections /\ h.remote \in [MemSessions -> Seq(keep)]
        /\ h.until \in [MemSessions -> Nat]
        /\ h.local \in [MemSessions -> Seq([rec : keep, expires : Nat])]
        /\ \A u \in MemSessions : /\ h.remote[u] \in Seq(OfSession(keep, u))
                                  /\ RingIsSound(h.local[u], keep, u, now)
                                  /\ h.conn # "down" => h.local[u] = <<>>
    BY HotFields
  <1> DEFINE conn == ConnAfter(h.conn, fault)
  <1>2. conn \in Connections /\ (conn # "down" => h.conn # "down")
    BY DEF ConnAfter, Connections
  <1>3. HotHealthcheck(h, fault) =
          [conn |-> conn, remote |-> h.remote, until |-> h.until, local |-> h.local]
    <2>1. HotHealthcheck(h, fault) = [h EXCEPT !.conn = conn]
      BY <1>1 DEF HotHealthcheck
    <2> HIDE DEF conn
    <2> QED
      BY <1>1, <2>1
  <1> HIDE DEF conn
  <1> QED
    BY <1>1, <1>2, <1>3, HotParts

\* Clearing; when Redis is reached, the records of the sessions are gone.
LEMMA HotClearIsSound ==
  ASSUME NEW h, NEW keep, NEW now \in Nat, HotIsSound(h, keep, now), NEW ss, NEW fault,
         NEW left \in SUBSET keep,
         \/ left = keep
         \/ Reaches(h.conn, fault) /\ left = {r \in keep : r.session \notin ss}
  PROVE  HotIsSound(HotClear(h, ss, fault), left, now)
  <1> DEFINE conn == IF h.conn = "unknown" THEN ConnAfter(h.conn, fault) ELSE h.conn
             remote == [s \in MemSessions |->
                          IF s \in ss /\ Reaches(h.conn, fault) THEN <<>> ELSE h.remote[s]]
             local == [s \in MemSessions |-> IF s \in ss THEN <<>> ELSE h.local[s]]
  <1>1. /\ h = [conn |-> h.conn, remote |-> h.remote, until |-> h.until, local |-> h.local]
        /\ h.conn \in Connections /\ h.remote \in [MemSessions -> Seq(keep)]
        /\ h.until \in [MemSessions -> Nat]
        /\ h.local \in [MemSessions -> Seq([rec : keep, expires : Nat])]
        /\ \A u \in MemSessions : /\ h.remote[u] \in Seq(OfSession(keep, u))
                                  /\ RingIsSound(h.local[u], keep, u, now)
                                  /\ h.conn # "down" => h.local[u] = <<>>
    BY HotFields
  <1>2. HotClear(h, ss, fault) =
          [conn |-> conn, remote |-> remote, until |-> h.until, local |-> local]
    <2>1. HotClear(h, ss, fault) =
            [h EXCEPT !.conn = conn, !.remote = remote, !.local = local]
      BY <1>1 DEF HotClear
    <2> HIDE DEF conn, remote, local
    <2> QED
      BY <1>1, <2>1
  <1>3. conn \in Connections /\ (conn # "down" => h.conn # "down")
    BY <1>1 DEF ConnAfter, Connections
  <1>4. ASSUME NEW s \in MemSessions
        PROVE  /\ remote[s] \in Seq(OfSession(left, s)) /\ remote[s] \in Seq(left)
               /\ RingIsSound(local[s], left, s, now)
               /\ local[s] \in Seq([rec : left, expires : Nat])
               /\ conn # "down" => local[s] = <<>>
    <2>1. CASE s \in ss
      <3>1. local[s] = <<>>
        BY <2>1
      <3>2. remote[s] \in Seq(OfSession(left, s))
        <4>1. CASE Reaches(h.conn, fault)
          BY <2>1, <4>1
        <4>2. CASE ~Reaches(h.conn, fault)
          BY <1>1, <4>2
        <4> QED
          BY <4>1, <4>2
      <3>3. OfSession(left, s) \subseteq left
        BY DEF OfSession
      <3> HIDE DEF remote, local
      <3>4. remote[s] \in Seq(left)
        BY <3>2, <3>3, SeqMonotone
      <3> QED
        BY <3>1, <3>2, <3>4, EmptyRing
    <2>2. CASE s \notin ss
      <3>1. local[s] = h.local[s] /\ remote[s] = h.remote[s]
        BY <2>2
      <3>2. OfSession(left, s) = OfSession(keep, s)
        BY <2>2 DEF OfSession
      <3>3. RingEntry(keep, s) \subseteq [rec : left, expires : Nat] /\ OfSession(keep, s) \subseteq left
        BY <3>2 DEF RingEntry, OfSession
      <3> HIDE DEF remote, local, conn
      <3>4. /\ remote[s] \in Seq(OfSession(keep, s)) /\ RingIsSound(local[s], keep, s, now)
            /\ conn # "down" => local[s] = <<>>
        BY <1>1, <1>3, <3>1
      <3>5. local[s] \in Seq(RingEntry(keep, s))
        BY <3>4 DEF RingIsSound
      <3>6. remote[s] \in Seq(left) /\ local[s] \in Seq([rec : left, expires : Nat])
        BY <3>3, <3>4, <3>5, SeqMonotone
      <3>7. RingIsSound(local[s], left, s, now) /\ remote[s] \in Seq(OfSession(left, s))
        BY <3>2, <3>4 DEF RingIsSound, RingEntry
      <3> QED
        BY <3>4, <3>6, <3>7
    <2> QED
      BY <2>1, <2>2
  <1>5. /\ remote \in [MemSessions -> Seq(left)]
        /\ local \in [MemSessions -> Seq([rec : left, expires : Nat])]
    <2>1. /\ \A s \in MemSessions : remote[s] \in Seq(left)
          /\ \A s \in MemSessions : local[s] \in Seq([rec : left, expires : Nat])
      BY <1>4
    <2>2. remote = [s \in MemSessions |-> remote[s]] /\ local = [s \in MemSessions |-> local[s]]
      OBVIOUS
    <2> HIDE DEF remote, local
    <2> QED
      BY <2>1, <2>2
  <1>6. \A s \in MemSessions : /\ remote[s] \in Seq(OfSession(left, s))
                               /\ RingIsSound(local[s], left, s, now)
                               /\ conn # "down" => local[s] = <<>>
    BY <1>4
  <1> HIDE DEF conn, remote, local
  <1>7. HotIsSound([conn |-> conn, remote |-> remote, until |-> h.until, local |-> local], left, now)
    BY <1>1, <1>3, <1>5, <1>6, HotParts
  <1> QED
    BY <1>2, <1>7

\* A new process.
LEMMA HotRestartIsSound ==
  ASSUME NEW h, NEW keep, NEW now \in Nat, HotIsSound(h, keep, now)
  PROVE  HotIsSound(HotRestart(h), keep, now)
  <1> DEFINE local == [s \in MemSessions |-> <<>>]
  <1>1. /\ h = [conn |-> h.conn, remote |-> h.remote, until |-> h.until, local |-> h.local]
        /\ h.remote \in [MemSessions -> Seq(keep)] /\ h.until \in [MemSessions -> Nat]
        /\ \A u \in MemSessions : h.remote[u] \in Seq(OfSession(keep, u))
    BY HotFields
  <1>2. HotRestart(h) =
          [conn |-> "unknown", remote |-> h.remote, until |-> h.until, local |-> local]
    <2>1. HotRestart(h) = [h EXCEPT !.conn = "unknown", !.local = local]
      BY DEF HotRestart
    <2> HIDE DEF local
    <2> QED
      BY <1>1, <2>1
  <1>3. /\ local \in [MemSessions -> Seq([rec : keep, expires : Nat])]
        /\ \A s \in MemSessions : local[s] = <<>> /\ RingIsSound(local[s], keep, s, now)
    BY EmptyRing
  <1> HIDE DEF local
  <1> QED
    BY <1>1, <1>2, <1>3, HotParts DEF Connections

\* The first start.
LEMMA HotStartIsSound ==
  ASSUME NEW keep, NEW now \in Nat
  PROVE  HotIsSound(NewHotCache, keep, now)
  <1> DEFINE none == [s \in MemSessions |-> <<>>]
             zero == [s \in MemSessions |-> 0]
  <1>1. NewHotCache = [conn |-> "unknown", remote |-> none, until |-> zero, local |-> none]
    BY DEF NewHotCache
  <1>2. /\ none \in [MemSessions -> Seq([rec : keep, expires : Nat])]
        /\ none \in [MemSessions -> Seq(keep)] /\ zero \in [MemSessions -> Nat]
        /\ \A s \in MemSessions : none[s] = <<>> /\ none[s] \in Seq(OfSession(keep, s))
                                  /\ RingIsSound(none[s], keep, s, now)
    BY EmptyRing
  <1> HIDE DEF none, zero
  <1> QED
    BY <1>1, <1>2, HotParts DEF Connections

\* What a query finds in the session tier.
LEMMA HotLoadIsSound ==
  ASSUME NEW h, NEW keep, NEW now \in Nat, HotIsSound(h, keep, now), NEW s \in MemSessions,
         NEW fault
  PROVE  HotLoad(h, s, now, fault) \subseteq OfSession(keep, s)
  <1>1. h.remote[s] \in Seq(OfSession(keep, s)) /\ RingIsSound(h.local[s], keep, s, now)
    BY HotFields
  <1>2. LoadRedis(h, s, now) \subseteq OfSession(keep, s)
    BY <1>1 DEF LoadRedis, Range
  <1>3. LoadRing(h, s, now) \subseteq OfSession(keep, s)
    <2> DEFINE live == LiveRing(h, s, now)
    <2>1. live \in Seq(RingEntry(keep, s))
      BY <1>1, LiveFirst DEF RingIsSound
    <2>2. LoadRing(h, s, now) = {e.rec : e \in Range(live)}
      BY DEF LoadRing
    <2> HIDE DEF live
    <2>3. Range(live) \subseteq RingEntry(keep, s)
      BY <2>1 DEF Range
    <2> QED
      BY <2>2, <2>3 DEF RingEntry
  <1> QED
    BY <1>2, <1>3 DEF HotLoad

-----------------------------------------------------------------------------
(***************************************************************************)
(* The durable tiers                                                       *)
(***************************************************************************)

OfKind(keep, kind) == {r \in keep : r.kind = kind}

\* The durable tier holds preferences that are kept.
ProfileIsSound(p, keep) ==
  /\ p \in [conn : Connections, rows : SUBSET OfKind(keep, "preference"),
            bucket : SUBSET OfKind(keep, "preference")]
  /\ p.conn # "down" => p.bucket = {}

\* No later write of the process replaced what the set holds.
IsLatest(S, all, boot) ==
  \A r \in S : ~\E w \in all : ProfileKey(w) = ProfileKey(r) /\ w.id > r.id /\ w.id >= boot

ProfileIsLatest(p, all, boot) ==
  IsLatest(p.bucket, all, boot) /\ (p.conn # "down" => IsLatest(p.rows, all, boot))

\* More may be kept.
LEMMA ProfileMonotone ==
  ASSUME NEW p, NEW keep, NEW more, keep \subseteq more, ProfileIsSound(p, keep)
  PROVE  ProfileIsSound(p, more)
  BY DEF ProfileIsSound, OfKind

\* What each call leaves of its fields.
LEMMA ProfileRecord ==
  ASSUME NEW p, NEW keep, ProfileIsSound(p, keep)
  PROVE  p = [conn |-> p.conn, rows |-> p.rows, bucket |-> p.bucket]
  BY DEF ProfileIsSound

\* What an assignment to some of them leaves.
LEMMA ProfileFields ==
  ASSUME NEW p, p = [conn |-> p.conn, rows |-> p.rows, bucket |-> p.bucket],
         NEW conn, NEW rows, NEW bucket
  PROVE  /\ [p EXCEPT !.conn = conn] = [conn |-> conn, rows |-> p.rows, bucket |-> p.bucket]
         /\ [p EXCEPT !.conn = conn, !.rows = rows, !.bucket = bucket]
              = [conn |-> conn, rows |-> rows, bucket |-> bucket]
         /\ [p EXCEPT !.conn = conn, !.bucket = bucket]
              = [conn |-> conn, rows |-> p.rows, bucket |-> bucket]
  <1> DEFINE cleared == [p EXCEPT !.conn = conn, !.rows = rows, !.bucket = bucket]
             renewed == [p EXCEPT !.conn = conn, !.bucket = bucket]
             checked == [p EXCEPT !.conn = conn]
  <1>1. /\ cleared \in [conn : {conn}, rows : {rows}, bucket : {bucket}]
        /\ renewed \in [conn : {conn}, rows : {p.rows}, bucket : {bucket}]
        /\ checked \in [conn : {conn}, rows : {p.rows}, bucket : {p.bucket}]
    OBVIOUS
  <1> HIDE DEF cleared, renewed, checked
  <1>2. /\ cleared = [conn |-> conn, rows |-> rows, bucket |-> bucket]
        /\ renewed = [conn |-> conn, rows |-> p.rows, bucket |-> bucket]
        /\ checked = [conn |-> conn, rows |-> p.rows, bucket |-> p.bucket]
    BY <1>1
  <1> QED
    BY <1>2 DEF cleared, renewed, checked

\* What a write leaves of each.
LEMMA ProfileWriteFields ==
  ASSUME NEW p, NEW keep, ProfileIsSound(p, keep), NEW rec, NEW fault
  PROVE  ProfileWrite(p, rec, fault) =
           [conn |-> ProfileConnAfter(p.conn, fault),
            rows |-> IF p.conn # "down" /\ fault # "fails" THEN Upsert(p.rows, rec) ELSE p.rows,
            bucket |-> IF p.conn # "down" /\ fault = "ok" THEN p.bucket ELSE Upsert(p.bucket, rec)]
  <1>1. PICK c, a, b : p = [conn |-> c, rows |-> a, bucket |-> b]
    BY DEF ProfileIsSound
  <1>2. c = p.conn /\ a = p.rows /\ b = p.bucket
    BY <1>1
  <1> DEFINE rows == IF c # "down" /\ fault # "fails" THEN Upsert(a, rec) ELSE a
             bucket == IF c # "down" /\ fault = "ok" THEN b ELSE Upsert(b, rec)
  <1>3. WritePg(p, rec, fault) = [conn |-> c, rows |-> rows, bucket |-> b]
    BY <1>1 DEF WritePg
  <1> HIDE DEF rows
  <1>4. WriteBucket(WritePg(p, rec, fault), rec, fault) =
          [conn |-> c, rows |-> rows, bucket |-> bucket]
    BY <1>1, <1>3 DEF WriteBucket
  <1> HIDE DEF bucket
  <1>5. ProfileWrite(p, rec, fault) =
          [conn |-> ProfileConnAfter(c, fault), rows |-> rows, bucket |-> bucket]
    BY <1>2, <1>4 DEF ProfileWrite
  <1> QED
    BY <1>2, <1>5 DEF rows, bucket

\* Writing a preference: the newest record of all replaces those with its key.
LEMMA ProfileWriteIsSound ==
  ASSUME NEW p, NEW keep, ProfileIsSound(p, keep), NEW all, NEW boot, NEW rec, NEW fault,
         ProfileIsLatest(p, all, boot), rec.kind = "preference", rec.id \in Int,
         \A w \in all : w.id \in Int /\ w.id < rec.id, keep \subseteq all
  PROVE  /\ ProfileIsSound(ProfileWrite(p, rec, fault), keep \cup {rec})
         /\ ProfileIsLatest(ProfileWrite(p, rec, fault), all \cup {rec}, boot)
  <1> DEFINE rows == IF p.conn # "down" /\ fault # "fails" THEN Upsert(p.rows, rec) ELSE p.rows
             bucket == IF p.conn # "down" /\ fault = "ok" THEN p.bucket ELSE Upsert(p.bucket, rec)
             conn == ProfileConnAfter(p.conn, fault)
  <1>1. ProfileWrite(p, rec, fault) = [conn |-> conn, rows |-> rows, bucket |-> bucket]
    BY ProfileWriteFields
  <1>2. /\ p.conn \in Connections /\ (p.conn # "down" => p.bucket = {})
        /\ p.rows \subseteq OfKind(keep, "preference") /\ p.bucket \subseteq OfKind(keep, "preference")
    BY DEF ProfileIsSound
  <1>3. conn \in Connections /\ (conn # "down" => p.conn # "down" /\ fault = "ok")
    BY DEF ProfileConnAfter, Connections
  <1>4. ASSUME NEW S, S \subseteq keep, IsLatest(S, all, boot)
        PROVE  IsLatest(Upsert(S, rec), all \cup {rec}, boot)
    BY <1>4 DEF IsLatest, Upsert
  <1>5. ASSUME NEW S, S \subseteq OfKind(keep, "preference")
        PROVE  S \subseteq OfKind(keep \cup {rec}, "preference")
               /\ Upsert(S, rec) \subseteq OfKind(keep \cup {rec}, "preference")
    BY <1>5 DEF OfKind, Upsert
  <1>6. p.rows \subseteq keep /\ p.bucket \subseteq keep
    BY <1>2 DEF OfKind
  <1>7. /\ rows \subseteq OfKind(keep \cup {rec}, "preference")
        /\ bucket \subseteq OfKind(keep \cup {rec}, "preference")
        /\ conn # "down" => bucket = {}
    BY <1>2, <1>3, <1>5
  <1>8. /\ IsLatest(bucket, all \cup {rec}, boot)
        /\ conn # "down" => IsLatest(rows, all \cup {rec}, boot)
    <2>1. IsLatest({}, all \cup {rec}, boot)
      BY DEF IsLatest
    <2> QED
      BY <1>2, <1>3, <1>4, <1>6, <2>1 DEF ProfileIsLatest
  <1> HIDE DEF rows, bucket, conn
  <1> DEFINE new == [conn |-> conn, rows |-> rows, bucket |-> bucket]
  <1>9. new.conn = conn /\ new.rows = rows /\ new.bucket = bucket
    OBVIOUS
  <1>10. new \in [conn : Connections, rows : SUBSET OfKind(keep \cup {rec}, "preference"),
                  bucket : SUBSET OfKind(keep \cup {rec}, "preference")]
    BY <1>3, <1>7
  <1> HIDE DEF new
  <1>11. ProfileIsSound(new, keep \cup {rec}) /\ ProfileIsLatest(new, all \cup {rec}, boot)
    BY <1>7, <1>8, <1>9, <1>10 DEF ProfileIsSound, ProfileIsLatest
  <1> QED
    BY <1>1, <1>11 DEF new

\* The other calls of the durable tier only lose records.
LEMMA ProfileOthersAreSound ==
  ASSUME NEW p, NEW keep, ProfileIsSound(p, keep), NEW all, NEW boot,
         ProfileIsLatest(p, all, boot), NEW ss, NEW fault
  PROVE  /\ ProfileIsSound(ProfileHealthcheck(p, fault), keep)
         /\ ProfileIsLatest(ProfileHealthcheck(p, fault), all, boot)
         /\ ProfileIsSound(ProfileClear(p, ss, fault), keep)
         /\ ProfileIsLatest(ProfileClear(p, ss, fault), all, boot)
         /\ (p.conn # "down" /\ fault # "fails" =>
               ProfileIsSound(ProfileClear(p, ss, fault), {r \in keep : r.session \notin ss}))
         /\ ProfileIsSound(ProfileRestart(p), keep)
  <1>1. /\ p.conn \in Connections /\ (p.conn # "down" => p.bucket = {})
        /\ p.rows \subseteq OfKind(keep, "preference") /\ p.bucket \subseteq OfKind(keep, "preference")
        /\ IsLatest(p.bucket, all, boot) /\ (p.conn # "down" => IsLatest(p.rows, all, boot))
    BY DEF ProfileIsSound, ProfileIsLatest
  <1>2. \A S, T : S \subseteq T /\ IsLatest(T, all, boot) => IsLatest(S, all, boot)
    BY DEF IsLatest
  <1> DEFINE conn == ProfileConnAfter(p.conn, fault)
  <1>3. conn \in Connections /\ (conn # "down" => p.conn # "down")
    BY DEF ProfileConnAfter, Connections
  <1> HIDE DEF conn
  <1>4. ProfileIsSound(ProfileHealthcheck(p, fault), keep)
        /\ ProfileIsLatest(ProfileHealthcheck(p, fault), all, boot)
    <2>1. ProfileHealthcheck(p, fault) = [conn |-> conn, rows |-> p.rows, bucket |-> p.bucket]
      <3>1. ProfileHealthcheck(p, fault) = [p EXCEPT !.conn = conn]
        BY DEF ProfileHealthcheck, conn
      <3> QED
        BY <3>1, ProfileRecord, ProfileFields
    <2> QED
      BY <1>1, <1>3, <2>1 DEF ProfileIsSound, ProfileIsLatest
  <1> DEFINE after == IF p.conn = "unknown" THEN conn ELSE p.conn
             rows == IF p.conn # "down" /\ fault # "fails"
                     THEN {r \in p.rows : r.session \notin ss} ELSE p.rows
             bucket == {r \in p.bucket : r.session \notin ss}
  <1>5. ProfileClear(p, ss, fault) = [conn |-> after, rows |-> rows, bucket |-> bucket]
    <2>1. ProfileClear(p, ss, fault) =
            [p EXCEPT !.conn = after, !.rows = rows, !.bucket = bucket]
      BY DEF ProfileClear, conn
    <2> HIDE DEF after, rows, bucket
    <2> QED
      BY <2>1, ProfileRecord, ProfileFields
  <1>6. /\ after \in Connections /\ (after # "down" => p.conn # "down")
        /\ rows \subseteq p.rows /\ bucket \subseteq p.bucket
    BY <1>1, <1>3
  <1>7. p.conn # "down" /\ fault # "fails" =>
          /\ rows \subseteq OfKind({r \in keep : r.session \notin ss}, "preference")
          /\ bucket \subseteq OfKind({r \in keep : r.session \notin ss}, "preference")
    BY <1>1 DEF OfKind
  <1> HIDE DEF after, rows, bucket
  <1>8. ProfileIsSound(ProfileClear(p, ss, fault), keep)
        /\ ProfileIsLatest(ProfileClear(p, ss, fault), all, boot)
    BY <1>1, <1>2, <1>5, <1>6 DEF ProfileIsSound, ProfileIsLatest
  <1>9. p.conn # "down" /\ fault # "fails" =>
          ProfileIsSound(ProfileClear(p, ss, fault), {r \in keep : r.session \notin ss})
    BY <1>1, <1>5, <1>6, <1>7 DEF ProfileIsSound
  <1>10. ProfileIsSound(ProfileRestart(p), keep)
    <2>1. ProfileRestart(p) = [conn |-> "unknown", rows |-> p.rows, bucket |-> {}]
      <3>1. ProfileRestart(p) = [p EXCEPT !.conn = "unknown", !.bucket = {}]
        BY DEF ProfileRestart
      <3> QED
        BY <3>1, ProfileRecord, ProfileFields
    <2> QED
      BY <1>1, <2>1 DEF ProfileIsSound, Connections
  <1> QED
    BY <1>4, <1>8, <1>9, <1>10

\* The long-term tier holds summaries that are kept.
SemanticIsSound(m, keep) ==
  /\ m \in [conn : Connections, collection : BOOLEAN, points : SUBSET OfKind(keep, "turn_summary"),
            entries : SUBSET OfKind(keep, "turn_summary")]
  /\ m.conn # "down" => m.entries = {}

\* More may be kept.
LEMMA SemanticMonotone ==
  ASSUME NEW m, NEW keep, NEW more, keep \subseteq more, SemanticIsSound(m, keep)
  PROVE  SemanticIsSound(m, more)
  BY DEF SemanticIsSound, OfKind

\* The first use of a process connects.
LEMMA ConnectedIsSound ==
  ASSUME NEW m, NEW keep, SemanticIsSound(m, keep), NEW fault
  PROVE  SemanticIsSound(Connected(m, fault), keep)
  BY DEF SemanticIsSound, Connected, Connections

\* Losing the connection is always sound.
LEMMA DisconnectIsSound ==
  ASSUME NEW m, NEW keep, SemanticIsSound(m, keep)
  PROVE  SemanticIsSound([m EXCEPT !.conn = "down"], keep)
  BY DEF SemanticIsSound, Connections

\* Reading and asking for the health.
LEMMA SemanticReadIsSound ==
  ASSUME NEW m, NEW keep, SemanticIsSound(m, keep), NEW fault
  PROVE  /\ SemanticIsSound(SemanticAfterRead(m, fault), keep)
         /\ SemanticIsSound(SemanticHealthcheck(m, fault), keep)
  <1>1. SemanticIsSound(Connected(m, fault), keep)
    BY ConnectedIsSound
  <1>2. SemanticIsSound([Connected(m, fault) EXCEPT !.conn = "down"], keep)
    BY <1>1, DisconnectIsSound
  <1> QED
    BY <1>1, <1>2 DEF SemanticAfterRead, SemanticHealthcheck

\* Writing a summary that is kept.
LEMMA SemanticWriteIsSound ==
  ASSUME NEW m0, NEW keep, SemanticIsSound(m0, keep), NEW rec \in keep,
         rec.kind = "turn_summary", NEW fault
  PROVE  SemanticIsSound(SemanticWrite(m0, rec, fault), keep)
  <1> DEFINE m == Connected(m0, fault)
             w == WriteQdrant(m, rec, fault)
  <1>1. SemanticIsSound(m, keep) /\ {rec} \subseteq OfKind(keep, "turn_summary")
    BY ConnectedIsSound DEF OfKind
  <1> HIDE DEF m
  <1>2. SemanticIsSound(w, keep)
    <2>1. SemanticIsSound([m EXCEPT !.points = @ \cup {rec}], keep)
      BY <1>1 DEF SemanticIsSound
    <2> QED
      BY <1>1, <2>1 DEF WriteQdrant
  <1> HIDE DEF w
  <1>3. SemanticIsSound(WriteEntries(w, rec), keep)
    BY <1>1, <1>2 DEF SemanticIsSound, WriteEntries, Connections
  <1> QED
    BY <1>2, <1>3 DEF SemanticWrite, m, w

\* A clear that reaches the collection leaves none of the sessions.
LEMMA SemanticClearIsSound ==
  ASSUME NEW m0, NEW keep, SemanticIsSound(m0, keep), NEW ss, NEW everything, NEW fault
  PROVE  /\ SemanticIsSound(SemanticClear(m0, ss, everything, fault), keep)
         /\ (m0.conn # "down" /\ fault # "fails" /\ (m0.conn = "up" => m0.collection) =>
               SemanticIsSound(SemanticClear(m0, ss, everything, fault),
                               {r \in keep : r.session \notin ss}))
  <1> DEFINE m == Connected(m0, fault)
             works == m.conn = "up" /\ m.collection /\ fault # "fails"
             points == IF works THEN {r \in m.points : r.session \notin ss} ELSE m.points
             collection == IF works /\ everything THEN FALSE ELSE m.collection
             entries == {r \in m.entries : r.session \notin ss}
             left == {r \in keep : r.session \notin ss}
  <1>1. SemanticIsSound(m, keep)
    BY ConnectedIsSound
  <1>2. SemanticClear(m0, ss, everything, fault) =
          [m EXCEPT !.points = points, !.collection = collection, !.entries = entries]
    BY DEF SemanticClear
  <1>3. m0.conn # "down" /\ fault # "fails" /\ (m0.conn = "up" => m0.collection) => works
    BY DEF Connected, SemanticIsSound, Connections
  <1> HIDE DEF m
  <1>4. /\ m.conn \in Connections /\ m.collection \in BOOLEAN
        /\ m.points \subseteq OfKind(keep, "turn_summary")
        /\ m.entries \subseteq OfKind(keep, "turn_summary")
        /\ m.conn # "down" => m.entries = {}
    BY <1>1 DEF SemanticIsSound
  <1>5. /\ collection \in BOOLEAN /\ points \subseteq OfKind(keep, "turn_summary")
        /\ entries \subseteq OfKind(keep, "turn_summary")
        /\ m.conn # "down" => entries = {}
    BY <1>4
  <1>6. works => /\ points \subseteq OfKind(left, "turn_summary")
                 /\ entries \subseteq OfKind(left, "turn_summary")
    BY <1>4 DEF OfKind
  <1> HIDE DEF points, collection, entries, works, left
  <1> DEFINE after == [m EXCEPT !.points = points, !.collection = collection, !.entries = entries]
  <1>7. after = [conn |-> m.conn, collection |-> collection, points |-> points, entries |-> entries]
    <2>1. m = [conn |-> m.conn, collection |-> m.collection, points |-> m.points,
               entries |-> m.entries]
      BY <1>1 DEF SemanticIsSound
    <2>2. after \in [conn : {m.conn}, collection : {collection}, points : {points},
                     entries : {entries}]
      BY <2>1
    <2> HIDE DEF after
    <2> QED
      BY <2>2
  <1> HIDE DEF after
  <1>8. SemanticIsSound(after, keep) /\ (works => SemanticIsSound(after, left))
    BY <1>4, <1>5, <1>6, <1>7 DEF SemanticIsSound
  <1> QED
    BY <1>2, <1>3, <1>8 DEF after, left

\* A new process.
LEMMA SemanticRestartIsSound ==
  ASSUME NEW m, NEW keep, SemanticIsSound(m, keep)
  PROVE  SemanticIsSound(SemanticRestart(m), keep)
  BY DEF SemanticIsSound, SemanticRestart, Connections

-----------------------------------------------------------------------------
(***************************************************************************)
(* The store                                                               *)
(***************************************************************************)

Kept == written \ forgotten

\* Ids are given once, in the order of the writes.
WritesInOrder ==
  /\ written \subseteq [id : Nat, session : MemSessions, kind : Kinds] /\ IsFiniteSet(written)
  /\ \A w \in written : w.id \in 1 .. MaxRecords /\ w.id <= Cardinality(written)
  /\ \A v, w \in written : v.id = w.id => v = w
  /\ forgotten \subseteq written

MemoryInv ==
  /\ memClock \in Nat /\ bootFrom \in Nat /\ WritesInOrder
  /\ HotIsSound(hot, Kept, memClock) /\ ProfileIsSound(profile, Kept)
  /\ SemanticIsSound(semantic, Kept) /\ ProfileIsLatest(profile, written, bootFrom)

\* What the tiers find for a query.
Found(q, f) ==
  [t \in Tiers |->
     IF t = "hot" THEN {r \in HotLoad(hot, q.session, memClock, f["hot"]) : r.kind \in q.kinds}
     ELSE IF t = "profile" THEN ProfileLoad(profile, q.session, q.kinds, f["profile"])
     ELSE SemanticLoad(semantic, q.session, q.kinds, f["semantic"])]

AsHit(t, r) == [rec |-> r, score |-> TierScore[t][r.id], tier |-> t]

\* A hit is what was found, with its score.
LEMMA HitsAreFound ==
  ASSUME NEW q, NEW f, NEW t \in Tiers
  PROVE  Hits(q, f)[t] = {AsHit(t, r) : r \in Found(q, f)[t]}
  BY DEF Hits, Found, AsHit, Tiers

\* What the tiers find is what was asked for and is kept, and the latest there is.
LEMMA FoundIsKept ==
  ASSUME MemoryInv, NEW q \in Queries, NEW f
  PROVE  /\ \A t \in Tiers : \A r \in Found(q, f)[t] :
               r \in Kept /\ r.session = q.session /\ r.kind \in q.kinds
         /\ \A r \in Found(q, f)["profile"] : r.kind = "preference"
         /\ \A r \in Found(q, f)["semantic"] : r.kind = "turn_summary"
         /\ IsLatest(Found(q, f)["profile"], written, bootFrom)
  <1>1. q.session \in MemSessions
    BY DEF Queries
  <1>2. \A r \in Found(q, f)["hot"] : r \in Kept /\ r.session = q.session /\ r.kind \in q.kinds
    <2>1. HotLoad(hot, q.session, memClock, f["hot"]) \subseteq OfSession(Kept, q.session)
      BY <1>1, HotLoadIsSound DEF MemoryInv
    <2> QED
      BY <2>1 DEF Found, Tiers, OfSession
  <1>3. /\ \A r \in Found(q, f)["profile"] : /\ r \in Kept /\ r.kind = "preference"
                                             /\ r.session = q.session /\ r.kind \in q.kinds
        /\ IsLatest(Found(q, f)["profile"], written, bootFrom)
    <2> DEFINE S == ProfileLoad(profile, q.session, q.kinds, f["profile"])
    <2>1. Found(q, f)["profile"] = S
      BY DEF Found, Tiers
    <2>2. /\ profile.rows \subseteq OfKind(Kept, "preference")
          /\ profile.bucket \subseteq OfKind(Kept, "preference")
          /\ IsLatest(profile.bucket, written, bootFrom)
          /\ profile.conn # "down" => IsLatest(profile.rows, written, bootFrom)
      BY DEF MemoryInv, ProfileIsSound, ProfileIsLatest
    <2>3. \A r \in S : /\ r \in profile.rows \cup profile.bucket
                       /\ r.session = q.session /\ r.kind \in q.kinds
      BY DEF ProfileLoad, LoadPg, LoadBucket
    <2>4. (profile.conn # "down" /\ S \subseteq profile.rows) \/ S \subseteq profile.bucket
      BY DEF ProfileLoad, LoadPg, LoadBucket
    <2> HIDE DEF S
    <2>5. IsLatest(S, written, bootFrom)
      BY <2>2, <2>4 DEF IsLatest
    <2> QED
      BY <2>1, <2>2, <2>3, <2>5 DEF OfKind
  <1>4. \A r \in Found(q, f)["semantic"] : /\ r \in Kept /\ r.kind = "turn_summary"
                                           /\ r.session = q.session /\ r.kind \in q.kinds
    <2> DEFINE m == Connected(semantic, f["semantic"])
    <2>1. SemanticIsSound(m, Kept)
      BY ConnectedIsSound DEF MemoryInv
    <2>2. Found(q, f)["semantic"] = SemanticLoad(semantic, q.session, q.kinds, f["semantic"])
      BY DEF Found, Tiers
    <2>3. \A r \in SemanticLoad(semantic, q.session, q.kinds, f["semantic"]) :
             r \in m.points \cup m.entries /\ r.session = q.session /\ r.kind \in q.kinds
      BY DEF SemanticLoad, ReadQdrant, ReadEntries
    <2> HIDE DEF m
    <2>4. m.points \cup m.entries \subseteq OfKind(Kept, "turn_summary")
      BY <2>1 DEF SemanticIsSound
    <2> QED
      BY <2>2, <2>3, <2>4 DEF OfKind
  <1> QED
    BY <1>2, <1>3, <1>4 DEF Tiers

\* The lists that the merge gets name each record once, and nothing ties.
LEMMA QueryHits ==
  ASSUME MemoryInv, NEW q \in Queries, NEW f
  PROVE  HitsAreSound(Hits(q, f))
  <1> DEFINE hits == Hits(q, f)
             found == Found(q, f)
             all == {AsHit(p[1], p[2]) : p \in Tiers \X written}
             name == [p \in Tiers \X written |-> AsHit(p[1], p[2])]
  <1>1. \A t \in Tiers : hits[t] = {AsHit(t, r) : r \in found[t]}
    BY HitsAreFound
  <1>2. /\ \A t \in Tiers : \A r \in found[t] : r \in written
        /\ \A r \in found["profile"] : r.kind = "preference"
        /\ \A r \in found["semantic"] : r.kind = "turn_summary"
    BY FoundIsKept DEF Kept
  <1> HIDE DEF hits, found
  <1>3. \A t, r : AsHit(t, r).rec = r /\ AsHit(t, r).score = TierScore[t][r.id]
    BY DEF AsHit
  <1>4. \A t \in Tiers : \A g, h \in hits[t] : g.rec = h.rec => g = h
    BY <1>1, <1>3
  <1>5. IsFiniteSet(AllOf(hits))
    <2>1. IsFiniteSet(Tiers)
      <3>1. IsFiniteSet({"hot"} \cup {"profile"})
        BY FS_Singleton, FS_AddElement
      <3>2. IsFiniteSet(({"hot"} \cup {"profile"}) \cup {"semantic"})
        BY <3>1, FS_AddElement
      <3>3. Tiers = ({"hot"} \cup {"profile"}) \cup {"semantic"}
        BY DEF Tiers
      <3> QED
        BY <3>2, <3>3
    <2>2. IsFiniteSet(Tiers \X written)
      BY <2>1, FS_Product DEF MemoryInv, WritesInOrder
    <2>3. name \in Surjection(Tiers \X written, all)
      BY DEF Surjection
    <2>4. IsFiniteSet(all)
      <3> HIDE DEF name, all
      <3> QED
        BY <2>2, <2>3, FS_Surjection
    <2>5. AllOf(hits) \in SUBSET all
      <3> SUFFICES ASSUME NEW h \in AllOf(hits) PROVE h \in all
        OBVIOUS
      <3>1. PICK t \in Tiers : h \in hits[t]
        BY DEF AllOf
      <3>2. PICK r \in found[t] : h = AsHit(t, r)
        BY <1>1, <3>1
      <3>3. <<t, r>> \in Tiers \X written
        BY <1>2, <3>2
      <3> QED
        BY <3>2, <3>3
    <2> HIDE DEF all
    <2> QED
      BY <2>4, <2>5, FS_Subset
  <1>6. \A h \in AllOf(hits) : \E t \in Tiers : \E r \in found[t] : h = AsHit(t, r)
    BY <1>1 DEF AllOf
  <1>7. \A r \in written : r.id \in 1 .. MaxRecords
    BY DEF MemoryInv, WritesInOrder
  <1>8. \A h \in AllOf(hits) : h.score \in Int
    <2> SUFFICES ASSUME NEW h \in AllOf(hits) PROVE h.score \in Int
      OBVIOUS
    <2>1. PICK t \in Tiers : \E r \in found[t] : h = AsHit(t, r)
      BY <1>6
    <2> PICK r \in found[t] : h = AsHit(t, r)
      BY <2>1
    <2>2. r.id \in 1 .. MaxRecords /\ h.score = TierScore[t][r.id]
      BY <1>2, <1>3, <1>7, <2>1
    <2> QED
      BY <2>2, ScoreAssumption
  <1>9. \A g, h \in AllOf(hits) : g.score = h.score => g = h
    <2> SUFFICES ASSUME NEW g \in AllOf(hits), NEW h \in AllOf(hits), g.score = h.score
                 PROVE  g = h
      OBVIOUS
    <2> PICK t \in Tiers : \E r \in found[t] : g = AsHit(t, r)
      BY <1>6
    <2>1. PICK r \in found[t] : g = AsHit(t, r)
      OBVIOUS
    <2> PICK u \in Tiers : \E v \in found[u] : h = AsHit(u, v)
      BY <1>6
    <2>2. PICK v \in found[u] : h = AsHit(u, v)
      OBVIOUS
    <2>3. /\ r \in written /\ v \in written /\ r.id \in 1 .. MaxRecords /\ v.id \in 1 .. MaxRecords
          /\ TierScore[t][r.id] = TierScore[u][v.id]
      BY <1>2, <1>3, <1>7, <2>1, <2>2
    <2>4. r.id = v.id /\ (t = "hot" <=> u = "hot")
      BY <2>3, ScoreAssumption
    <2>5. r = v
      BY <2>3, <2>4 DEF MemoryInv, WritesInOrder
    <2>6. t = u
      BY <1>2, <2>1, <2>2, <2>4, <2>5 DEF Tiers
    <2> QED
      BY <2>1, <2>2, <2>5, <2>6
  <1> QED
    BY <1>4, <1>5, <1>8, <1>9 DEF HitsAreSound, ScoresDiffer, hits

\* What holds of a sound memory.
LEMMA MemoryInvKeepsWord ==
  ASSUME MemoryInv
  PROVE  MemoryKeepsItsWord
  <1>1. ASSUME NEW q \in Queries, NEW f \in ReadFaults
        PROVE  LET hits == Hits(q, f)
                   items == Merge(hits, q.k)
               IN /\ \A h \in items : /\ h.rec \in written \ forgotten
                                      /\ h.rec.session = q.session /\ h.rec.kind \in q.kinds
                  /\ Cardinality(items) = Cardinality({h.rec : h \in items})
                  /\ Cardinality(items) <= q.k
                  /\ items = TopK(BestHits(UNION {hits[t] : t \in Tiers}), q.k)
                  /\ \A h \in hits["profile"] :
                        ~\E w \in written : /\ ProfileKey(w) = ProfileKey(h.rec)
                                            /\ w.id > h.rec.id /\ w.id >= bootFrom
    <2> DEFINE hits == Hits(q, f)
               items == Merge(hits, q.k)
    <2>1. q.k \in Nat
      BY ScoreAssumption DEF Queries
    <2>2. HitsAreSound(hits)
      BY QueryHits
    <2>3. \A t \in Tiers : hits[t] = {AsHit(t, r) : r \in Found(q, f)[t]}
      BY HitsAreFound
    <2> HIDE DEF hits
    <2>4. items = TopK(BestHits(AllOf(hits)), q.k)
      BY <2>1, <2>2, MergeIsExact
    <2>5. /\ items \in SUBSET AllOf(hits)
          /\ Cardinality(items) = Cardinality({h.rec : h \in items})
          /\ Cardinality(items) <= q.k
      BY <2>1, <2>2, ItemsOnce
    <2> HIDE DEF items
    <2>6. \A t, r : AsHit(t, r).rec = r
      BY DEF AsHit
    <2>7. \A h \in items : /\ h.rec \in Kept
                           /\ h.rec.session = q.session /\ h.rec.kind \in q.kinds
      <3> SUFFICES ASSUME NEW h \in items
                   PROVE  h.rec \in Kept /\ h.rec.session = q.session /\ h.rec.kind \in q.kinds
        OBVIOUS
      <3>1. PICK t \in Tiers : h \in hits[t]
        BY <2>5 DEF AllOf
      <3>2. h.rec \in Found(q, f)[t]
        BY <2>3, <2>6, <3>1
      <3> QED
        BY <3>2, FoundIsKept
    <2>8. \A h \in hits["profile"] :
             ~\E w \in written : /\ ProfileKey(w) = ProfileKey(h.rec)
                                 /\ w.id > h.rec.id /\ w.id >= bootFrom
      <3>1. \A h \in hits["profile"] : h.rec \in Found(q, f)["profile"]
        BY <2>3, <2>6 DEF Tiers
      <3>2. IsLatest(Found(q, f)["profile"], written, bootFrom)
        BY FoundIsKept
      <3> QED
        BY <3>1, <3>2 DEF IsLatest
    <2> QED
      BY <2>4, <2>5, <2>7, <2>8 DEF AllOf, Kept, hits, items
  <1>2. ASSUME NEW s \in MemSessions
        PROVE  /\ \A i \in DOMAIN hot.local[s] :
                     hot.local[s][i].expires > memClock
                       <=> i \in DOMAIN LiveRing(hot, s, memClock)
               /\ hot.conn # "down" => hot.local[s] = <<>>
    <2>1. /\ RingIsSound(hot.local[s], Kept, s, memClock) /\ memClock \in Nat
          /\ (hot.conn # "down" => hot.local[s] = <<>>)
      BY HotFields DEF MemoryInv
    <2>2. /\ RingIsSound(LiveRing(hot, s, memClock), Kept, s, memClock)
          /\ \A i \in 1 .. Len(hot.local[s]) :
                hot.local[s][i].expires > memClock
                  <=> i \in 1 .. Len(LiveRing(hot, s, memClock))
      BY <2>1, LiveFirst
    <2>3. /\ DOMAIN hot.local[s] = 1 .. Len(hot.local[s])
          /\ DOMAIN LiveRing(hot, s, memClock) = 1 .. Len(LiveRing(hot, s, memClock))
      BY <2>1, <2>2 DEF RingIsSound
    <2> QED
      BY <2>1, <2>2, <2>3
  <1>3. /\ profile.conn # "down" => profile.bucket = {}
        /\ semantic.conn # "down" => semantic.entries = {}
    BY DEF MemoryInv, ProfileIsSound, SemanticIsSound
  <1> QED
    BY <1>1, <1>2, <1>3 DEF MemoryKeepsItsWord

\* The invariant of the memory holds at first.
LEMMA StartIsSound ==
  ASSUME MemoryInit
  PROVE  MemoryInv
  <1>1. WritesInOrder /\ memClock \in Nat /\ bootFrom \in Nat
    BY FS_EmptySet DEF MemoryInit, WritesInOrder
  <1>2. HotIsSound(hot, Kept, memClock)
    BY <1>1, HotStartIsSound DEF MemoryInit
  <1>3. ProfileIsSound(profile, Kept) /\ ProfileIsLatest(profile, written, bootFrom)
    BY DEF MemoryInit, NewProfileStore, ProfileIsSound, ProfileIsLatest, IsLatest, Connections
  <1>4. SemanticIsSound(semantic, Kept)
    BY DEF MemoryInit, NewSemanticMemory, SemanticIsSound, Connections
  <1> QED
    BY <1>1, <1>2, <1>3, <1>4 DEF MemoryInv

\* A write keeps the invariant: its record is newer than all.
LEMMA WriteIsSound ==
  ASSUME MemoryInv, NEW s \in MemSessions, NEW kind \in Kinds, NEW f, WriteMemory(s, kind, f)
  PROVE  MemoryInv'
  <1> DEFINE rec == [id |-> NextId, session |-> s, kind |-> kind]
  <1>1. /\ NextId <= MaxRecords /\ written' = written \union {rec}
        /\ hot' = HotWrite(hot, rec, memClock, f["hot"])
        /\ profile' = IF kind = "preference" THEN ProfileWrite(profile, rec, f["profile"])
                      ELSE profile
        /\ semantic' = IF kind = "turn_summary" THEN SemanticWrite(semantic, rec, f["semantic"])
                       ELSE semantic
        /\ UNCHANGED <<memClock, forgotten, bootFrom>>
    <2>1. /\ "profile" \in TiersFor(kind) <=> kind = "preference"
          /\ "semantic" \in TiersFor(kind) <=> kind = "turn_summary"
      BY DEF TiersFor, Kinds
    <2> QED
      BY <2>1 DEF WriteMemory
  <1>2. /\ Cardinality(written) \in Nat /\ NextId = Cardinality(written) + 1
        /\ \A w \in written : w.id \in Int /\ w.id < NextId
    <2>1. Cardinality(written) \in Nat
      BY FS_CardinalityType DEF MemoryInv, WritesInOrder
    <2> QED
      BY <2>1 DEF NextId, MemoryInv, WritesInOrder
  <1>3. rec.id = NextId /\ rec.session = s /\ rec.kind = kind
    OBVIOUS
  <1>4. rec \in [id : Nat, session : MemSessions, kind : Kinds] /\ NextId \in 1 .. MaxRecords
    BY <1>1, <1>2, ScoreAssumption
  <1> HIDE DEF rec
  <1>5. rec \notin written
    BY <1>2, <1>3
  <1>6. WritesInOrder'
    <2>1. IsFiniteSet(written') /\ Cardinality(written') = Cardinality(written) + 1
      BY <1>1, <1>5, FS_AddElement DEF MemoryInv, WritesInOrder
    <2>2. \A w \in written' : w.id \in 1 .. MaxRecords /\ w.id <= Cardinality(written')
      BY <1>1, <1>2, <1>3, <1>4, <2>1 DEF MemoryInv, WritesInOrder
    <2>3. \A v, w \in written' : v.id = w.id => v = w
      BY <1>1, <1>2, <1>3 DEF MemoryInv, WritesInOrder
    <2> QED
      BY <1>1, <1>4, <2>1, <2>2, <2>3 DEF MemoryInv, WritesInOrder
  <1>7. Kept' = Kept \cup {rec}
    BY <1>1, <1>5 DEF Kept, MemoryInv, WritesInOrder
  <1>8. HotIsSound(hot', Kept', memClock')
    <2>1. HotIsSound(hot, Kept \cup {rec}, memClock)
      BY HotMonotone DEF MemoryInv
    <2>2. HotIsSound(HotWrite(hot, rec, memClock, f["hot"]), Kept \cup {rec}, memClock)
      BY <1>3, <2>1, HotWriteIsSound DEF MemoryInv
    <2> QED
      BY <1>1, <1>7, <2>2
  <1>9. ProfileIsSound(profile', Kept') /\ ProfileIsLatest(profile', written', bootFrom')
    <2>1. CASE kind = "preference"
      <3>1. Kept \subseteq written /\ rec.id \in Int
        BY <1>2, <1>3 DEF Kept
      <3>2. /\ ProfileIsSound(ProfileWrite(profile, rec, f["profile"]), Kept \cup {rec})
            /\ ProfileIsLatest(ProfileWrite(profile, rec, f["profile"]), written \cup {rec},
                               bootFrom)
        BY <1>2, <1>3, <2>1, <3>1, ProfileWriteIsSound DEF MemoryInv
      <3> QED
        BY <1>1, <1>7, <2>1, <3>2
    <2>2. CASE kind # "preference"
      <3>1. ProfileIsSound(profile, Kept \cup {rec})
        BY ProfileMonotone DEF MemoryInv
      <3>2. /\ \A r \in profile.rows \cup profile.bucket : r.kind = "preference"
            /\ ProfileIsLatest(profile, written, bootFrom)
        BY DEF MemoryInv, ProfileIsSound, OfKind
      <3>3. \A r : r.kind = "preference" => ProfileKey(rec) # ProfileKey(r)
        BY <1>3, <2>2 DEF ProfileKey
      <3>4. ProfileIsLatest(profile, written \cup {rec}, bootFrom)
        BY <3>2, <3>3 DEF ProfileIsLatest, IsLatest
      <3> QED
        BY <1>1, <1>7, <2>2, <3>1, <3>4
    <2> QED
      BY <2>1, <2>2
  <1>10. SemanticIsSound(semantic', Kept')
    <2>1. SemanticIsSound(semantic, Kept \cup {rec})
      BY SemanticMonotone DEF MemoryInv
    <2>2. CASE kind = "turn_summary"
      <3>1. SemanticIsSound(SemanticWrite(semantic, rec, f["semantic"]), Kept \cup {rec})
        BY <1>3, <2>1, <2>2, SemanticWriteIsSound
      <3> QED
        BY <1>1, <1>7, <2>2, <3>1
    <2>3. CASE kind # "turn_summary"
      BY <1>1, <1>7, <2>1, <2>3
    <2> QED
      BY <2>2, <2>3
  <1> QED
    BY <1>1, <1>6, <1>8, <1>9, <1>10 DEF MemoryInv

\* A read, of which any tier may be lost.
LEMMA ReadIsSound ==
  ASSUME MemoryInv, NEW s \in MemSessions, NEW f, ReadMemory(s, f)
  PROVE  MemoryInv'
  <1>1. /\ hot' = HotAfterRead(hot, s, memClock, f["hot"])
        /\ profile' = ProfileHealthcheck(profile, f["profile"])
        /\ semantic' = SemanticAfterRead(semantic, f["semantic"])
        /\ memClock' = memClock /\ bootFrom' = bootFrom /\ written' = written
        /\ Kept' = Kept /\ WritesInOrder'
    BY DEF ReadMemory, MemoryInv, WritesInOrder, Kept
  <1>2. HotIsSound(hot', Kept, memClock)
    BY <1>1, HotReadIsSound DEF MemoryInv
  <1>3. ProfileIsSound(profile', Kept) /\ ProfileIsLatest(profile', written, bootFrom)
    BY <1>1, ProfileOthersAreSound DEF MemoryInv
  <1>4. SemanticIsSound(semantic', Kept)
    BY <1>1, SemanticReadIsSound DEF MemoryInv
  <1> QED
    BY <1>1, <1>2, <1>3, <1>4 DEF MemoryInv

\* A check of the health.
LEMMA CheckIsSound ==
  ASSUME MemoryInv, NEW f, Healthcheck(f)
  PROVE  MemoryInv'
  <1>1. /\ hot' = HotHealthcheck(hot, f["hot"])
        /\ profile' = ProfileHealthcheck(profile, f["profile"])
        /\ semantic' = SemanticHealthcheck(semantic, f["semantic"])
        /\ memClock' = memClock /\ bootFrom' = bootFrom /\ written' = written
        /\ Kept' = Kept /\ WritesInOrder'
    BY DEF Healthcheck, MemoryInv, WritesInOrder, Kept
  <1>2. HotIsSound(hot', Kept, memClock)
    BY <1>1, HotCheckIsSound DEF MemoryInv
  <1>3. ProfileIsSound(profile', Kept) /\ ProfileIsLatest(profile', written, bootFrom)
    BY <1>1, ProfileOthersAreSound DEF MemoryInv
  <1>4. SemanticIsSound(semantic', Kept)
    BY <1>1, SemanticReadIsSound DEF MemoryInv
  <1> QED
    BY <1>1, <1>2, <1>3, <1>4 DEF MemoryInv

\* A clear, which is remembered as one only when it is complete.
LEMMA ClearIsSound ==
  ASSUME MemoryInv, NEW ss, NEW f, ClearMemory(ss, f)
  PROVE  MemoryInv'
  <1> DEFINE complete == /\ \A t \in Tiers : f[t] # "fails"
                         /\ hot.conn # "down" /\ profile.conn # "down" /\ semantic.conn # "down"
                         /\ semantic.conn = "up" => semantic.collection
             left == {r \in Kept : r.session \notin ss}
  <1>1. /\ hot' = HotClear(hot, ss, f["hot"])
        /\ profile' = ProfileClear(profile, ss, f["profile"])
        /\ semantic' = SemanticClear(semantic, ss, ss = MemSessions, f["semantic"])
        /\ forgotten' = IF complete THEN forgotten \union {r \in written : r.session \in ss}
                        ELSE forgotten
        /\ memClock' = memClock /\ bootFrom' = bootFrom /\ written' = written
    BY DEF ClearMemory
  <1>2. WritesInOrder'
    <2>1. forgotten' \subseteq written'
      <3> HIDE DEF complete
      <3> QED
        BY <1>1 DEF MemoryInv, WritesInOrder
    <2> QED
      BY <1>1, <2>1 DEF MemoryInv, WritesInOrder
  <1>3. ProfileIsLatest(profile', written, bootFrom)
    BY <1>1, ProfileOthersAreSound DEF MemoryInv
  <1>4. CASE ~complete
    <2>1. Kept' = Kept
      <3> HIDE DEF complete
      <3> QED
        BY <1>1, <1>4 DEF Kept
    <2>2. HotIsSound(hot', Kept, memClock)
      BY <1>1, HotClearIsSound DEF MemoryInv
    <2>3. ProfileIsSound(profile', Kept)
      BY <1>1, ProfileOthersAreSound DEF MemoryInv
    <2>4. SemanticIsSound(semantic', Kept)
      BY <1>1, SemanticClearIsSound DEF MemoryInv
    <2> QED
      BY <1>1, <1>2, <1>3, <2>1, <2>2, <2>3, <2>4 DEF MemoryInv
  <1>5. CASE complete
    <2>1. Kept' = left
      <3>1. forgotten' = forgotten \union {r \in written : r.session \in ss}
        BY <1>1, <1>5
      <3> QED
        BY <1>1, <3>1 DEF Kept
    <2>2. /\ f["hot"] # "fails" /\ f["profile"] # "fails" /\ f["semantic"] # "fails"
          /\ hot.conn # "down" /\ profile.conn # "down" /\ semantic.conn # "down"
          /\ semantic.conn = "up" => semantic.collection
      BY <1>5 DEF Tiers
    <2>3. HotIsSound(hot', left, memClock)
      <3>1. Reaches(hot.conn, f["hot"]) /\ left \in SUBSET Kept
        BY <2>2 DEF Reaches
      <3> QED
        BY <1>1, <3>1, HotClearIsSound DEF MemoryInv
    <2>4. ProfileIsSound(profile', left)
      BY <1>1, <2>2, ProfileOthersAreSound DEF MemoryInv
    <2>5. SemanticIsSound(semantic', left)
      BY <1>1, <2>2, SemanticClearIsSound DEF MemoryInv
    <2> HIDE DEF left
    <2> QED
      BY <1>1, <1>2, <1>3, <2>1, <2>3, <2>4, <2>5 DEF MemoryInv
  <1> QED
    BY <1>4, <1>5

\* The end of a process and the start of the next.
LEMMA RestartIsSound ==
  ASSUME MemoryInv, RestartProcess
  PROVE  MemoryInv'
  <1>1. /\ hot' = HotRestart(hot) /\ profile' = ProfileRestart(profile)
        /\ semantic' = SemanticRestart(semantic) /\ bootFrom' = NextId
        /\ memClock' = memClock /\ written' = written /\ Kept' = Kept /\ WritesInOrder'
    BY DEF RestartProcess, MemoryInv, WritesInOrder, Kept
  <1>2. NextId \in Nat /\ \A w \in written : w.id \in Int /\ w.id < NextId
    <2>1. Cardinality(written) \in Nat
      BY FS_CardinalityType DEF MemoryInv, WritesInOrder
    <2> QED
      BY <2>1 DEF NextId, MemoryInv, WritesInOrder
  <1>3. HotIsSound(hot', Kept, memClock)
    BY <1>1, HotRestartIsSound DEF MemoryInv
  <1>4. ProfileIsSound(profile', Kept)
    BY <1>1, ProfileOthersAreSound DEF MemoryInv
  <1>5. ProfileIsLatest(profile', written, NextId)
    BY <1>2 DEF ProfileIsLatest, IsLatest
  <1>6. SemanticIsSound(semantic', Kept)
    BY <1>1, SemanticRestartIsSound DEF MemoryInv
  <1> QED
    BY <1>1, <1>2, <1>3, <1>4, <1>5, <1>6 DEF MemoryInv

\* Every step keeps the invariant.
LEMMA MemoryStep ==
  ASSUME MemoryInv, [MemoryNext]_memoryVars
  PROVE  MemoryInv'
  <1>1. CASE \E s \in MemSessions, kind \in Kinds, f \in FaultVectors : WriteMemory(s, kind, f)
    BY <1>1, WriteIsSound
  <1>2. CASE \E s \in MemSessions, f \in ReadFaults : ReadMemory(s, f)
    BY <1>2, ReadIsSound
  <1>3. CASE \E ss \in {MemSessions} \union {{s} : s \in MemSessions}, f \in FaultVectors :
                ClearMemory(ss, f)
    BY <1>3, ClearIsSound
  <1>4. CASE \E f \in ReadFaults : Healthcheck(f)
    BY <1>4, CheckIsSound
  <1>5. CASE RestartProcess
    BY <1>5, RestartIsSound
  <1>6. CASE MemoryTick
    <2>1. /\ memClock' = memClock + 1 /\ memClock' \in Nat /\ memClock <= memClock'
          /\ UNCHANGED <<hot, profile, semantic, written, forgotten, bootFrom>>
      BY <1>6 DEF MemoryTick, MemoryInv
    <2>2. HotIsSound(hot, Kept, memClock')
      BY <2>1, HotMonotone DEF MemoryInv
    <2> QED
      BY <2>1, <2>2 DEF MemoryInv, WritesInOrder, Kept
  <1>7. CASE UNCHANGED memoryVars
    BY <1>7 DEF memoryVars, MemoryInv, WritesInOrder, Kept
  <1> QED
    BY <1>1, <1>2, <1>3, <1>4, <1>5, <1>6, <1>7 DEF MemoryNext

-----------------------------------------------------------------------------
\* Memory keeps its word, for any number of sessions, records and restarts, and
\* whichever backend fails in whichever call.
THEOREM MemoryIsKept == MemorySpec => []MemoryKeepsItsWord
  <1>1. MemoryInit => MemoryInv
    BY StartIsSound
  <1>2. MemoryInv /\ [MemoryNext]_memoryVars => MemoryInv'
    BY MemoryStep
  <1>3. MemoryInv => MemoryKeepsItsWord
    BY MemoryInvKeepsWord
  <1> QED
    BY <1>1, <1>2, <1>3, PTL DEF MemorySpec

-----------------------------------------------------------------------------
(***************************************************************************)
(* The policy of cloned voices                                             *)
(***************************************************************************)

Consent == [ref : VoiceRefs, scopes : SUBSET VoiceActions, expires : Nat, revoked : BOOLEAN]

PolicyType ==
  /\ consents \in Seq(Consent)
  /\ retainedRefs \subseteq VoiceRefs /\ protected \subseteq VoiceRefs
  /\ policyClock \in Nat

\* What is kept belongs to somebody who consented.
RetainedByConsent == \A ref \in retainedRefs : \E i \in ConsentsOf(ref) : ~consents[i].revoked

\* What VoiceIsConsented says of a verdict v on a use of ref.
JudgedRight(v, ref, action) ==
  /\ v.ref = ref /\ v.action = action /\ (v.category # "none" => ~v.allowed)
  /\ v.allowed /\ ~(action = "persona_render" /\ ref \in {NoRef, DefaultVoice}) =>
        /\ ref \notin protected
        /\ ConsentRequired => \E i \in ConsentsOf(ref) :
              /\ action \in consents[i].scopes
              /\ ~consents[i].revoked
              /\ policyClock < consents[i].expires
  /\ v.category = "revoked" => \E i \in ConsentsOf(ref) : consents[i].revoked
  /\ v.category = "no_consent" => ConsentsOf(ref) = {}
  /\ v.category \in {"expired", "scope_mismatch"} =>
        \E i \in ConsentsOf(ref) :
           ~consents[i].revoked /\ (v.category = "expired" <=> policyClock >= consents[i].expires)

\* The verdict is of this state: it is forgotten when anything else changes.
VerdictIsTrue == /\ JudgedRight(verdict, verdict.ref, verdict.action)
                 /\ verdict.category # "none" => verdict.ref \notin retainedRefs

PolicyInv == PolicyType /\ RetainedByConsent /\ VerdictIsTrue

\* What is said of a consent by the first check that it fails.
LEMMA FlawIs ==
  ASSUME NEW rec \in Consent, NEW action, policyClock \in Nat
  PROVE  /\ Flaw(rec, action) \in {"none", "revoked", "expired", "scope_mismatch"}
         /\ Flaw(rec, action) = "revoked" => rec.revoked
         /\ Flaw(rec, action) = "expired" => ~rec.revoked /\ policyClock >= rec.expires
         /\ Flaw(rec, action) = "scope_mismatch" => ~rec.revoked /\ ~(policyClock >= rec.expires)
         /\ Flaw(rec, action) = "none" => action \in rec.scopes /\ IsActive(rec)
  <1>1. rec.revoked \in BOOLEAN /\ rec.expires \in Nat
    BY DEF Consent
  <1>2. CASE rec.revoked
    BY <1>1, <1>2 DEF Flaw
  <1>3. CASE ~rec.revoked /\ policyClock >= rec.expires
    BY <1>1, <1>3 DEF Flaw
  <1>4. CASE ~rec.revoked /\ ~(policyClock >= rec.expires)
    <2>1. Flaw(rec, action) = IF action \notin rec.scopes THEN "scope_mismatch" ELSE "none"
      BY <1>1, <1>4 DEF Flaw
    <2>2. policyClock < rec.expires
      BY <1>1, <1>4
    <2> QED
      BY <1>4, <2>1, <2>2 DEF IsActive
  <1> QED
    BY <1>1, <1>2, <1>3, <1>4

\* The reason given when no consent covers the action is true of one of the voice's.
LEMMA DiagnosisIsTrue ==
  ASSUME PolicyType, NEW ref, NEW action, ActiveConsents(ref, action) = {}
  PROVE  LET why == DiagnoseMissingConsent(ref, action)
         IN /\ why # "none"
            /\ why = "revoked" => \E i \in ConsentsOf(ref) : consents[i].revoked
            /\ why = "no_consent" => ConsentsOf(ref) = {}
            /\ why \in {"expired", "scope_mismatch"} =>
                  \E i \in ConsentsOf(ref) :
                     ~consents[i].revoked /\ (why = "expired" <=> policyClock >= consents[i].expires)
  <1> DEFINE own == {i \in DOMAIN consents : consents[i].ref = ref
                                             /\ Flaw(consents[i], action) # "none"}
             why == DiagnoseMissingConsent(ref, action)
  <1>1. /\ DOMAIN consents = 1 .. Len(consents) /\ Len(consents) \in Nat
        /\ \A i \in DOMAIN consents : consents[i] \in Consent
        /\ policyClock \in Nat
    BY DEF PolicyType
  <1>2. ConsentsOf(ref) = own
    <2> SUFFICES ASSUME NEW i \in DOMAIN consents, consents[i].ref = ref,
                        Flaw(consents[i], action) = "none"
                 PROVE  FALSE
      BY DEF ConsentsOf
    <2>1. action \in consents[i].scopes /\ IsActive(consents[i])
      BY <1>1, FlawIs
    <2> QED
      BY <2>1 DEF ActiveConsents
  <1>3. CASE own = {}
    <2>1. why = "no_consent"
      BY <1>3 DEF DiagnoseMissingConsent
    <2> QED
      BY <1>2, <1>3, <2>1
  <1>4. CASE own # {}
    <2> DEFINE c == CHOOSE i \in own : \A j \in own : i <= j
    <2>1. own \in SUBSET Nat
      BY <1>1
    <2>2. c \in own
      <3> HIDE DEF own
      <3>1. \E i \in own : \A j \in own : i <= j
        BY <1>4, <2>1, LeastOf
      <3> QED
        BY <3>1
    <2>3. why = Flaw(consents[c], action)
      BY <1>4 DEF DiagnoseMissingConsent
    <2> HIDE DEF c, why
    <2>4. c \in ConsentsOf(ref) /\ consents[c] \in Consent /\ Flaw(consents[c], action) # "none"
      BY <1>1, <1>2, <2>2
    <2>5. /\ why \in {"revoked", "expired", "scope_mismatch"}
          /\ why = "revoked" => consents[c].revoked
          /\ why = "expired" => ~consents[c].revoked /\ policyClock >= consents[c].expires
          /\ why = "scope_mismatch" => ~consents[c].revoked /\ ~(policyClock >= consents[c].expires)
      BY <1>1, <2>3, <2>4, FlawIs
    <2> QED
      BY <2>4, <2>5 DEF why
  <1> QED
    BY <1>3, <1>4

\* evaluate() says of a request what is true of the consents it is judged by.
LEMMA EvaluationIsTrue ==
  ASSUME PolicyType, NEW ref, NEW action, NEW spoof, NEW token
  PROVE  /\ JudgedRight(EvaluateVoice(ref, action, spoof, token), ref, action)
         /\ LET v == EvaluateVoice(ref, action, spoof, token) IN v.category # "none" <=> ~v.allowed
  <1> DEFINE v == EvaluateVoice(ref, action, spoof, token)
             Right == JudgedRight(v, ref, action) /\ (v.category # "none" <=> ~v.allowed)
             default == action = "persona_render" /\ ref \in {NoRef, DefaultVoice}
  <1>1. ref = NoRef => ref \notin protected /\ ConsentsOf(ref) = {}
    <2>1. \A i \in DOMAIN consents : consents[i] \in Consent
      BY DEF PolicyType
    <2>2. \A i \in DOMAIN consents : consents[i].ref \in VoiceRefs
      BY <2>1 DEF Consent
    <2> QED
      BY <2>2, VoiceAssumption DEF PolicyType, ConsentsOf
  <1>2. \A category : LET r == Refusal(ref, action, category)
                      IN r.ref = ref /\ r.action = action /\ ~r.allowed /\ r.category = category
    BY DEF Refusal, NoDecision
  <1>3. \A b : LET r == Approval(ref, action, b)
               IN r.ref = ref /\ r.action = action /\ r.allowed /\ r.category = "none"
    BY DEF Approval, NoDecision
  <1>4. ASSUME default PROVE Right
    <2>1. v = Approval(ref, action, FALSE)
      BY <1>1, <1>4 DEF EvaluateVoice
    <2> QED
      BY <1>3, <1>4, <2>1 DEF JudgedRight
  <1>5. ASSUME ~default /\ ref = NoRef PROVE Right
    <2>1. v = Refusal(ref, action, "no_consent")
      BY <1>1, <1>5 DEF EvaluateVoice
    <2>2. v.ref = ref /\ v.action = action /\ ~v.allowed /\ v.category = "no_consent"
      BY <1>2, <2>1
    <2> HIDE DEF v
    <2> QED
      BY <1>1, <1>5, <2>2 DEF JudgedRight
  <1>6. ASSUME ~default /\ ref # NoRef /\ ref \in protected PROVE Right
    <2>1. v = [Refusal(ref, action, "protected_voice") EXCEPT !.escalate = TRUE]
      BY <1>6 DEF EvaluateVoice
    <2>2. v.ref = ref /\ v.action = action /\ ~v.allowed /\ v.category = "protected_voice"
      BY <2>1 DEF Refusal, NoDecision
    <2> HIDE DEF v
    <2> QED
      BY <2>2 DEF JudgedRight
  <1>7. ASSUME ~default /\ ref # NoRef /\ ref \notin protected PROVE Right
    <2>1. v = CASE spoof = "error" -> Refusal(ref, action, "error")
                [] spoof = "high" -> Refusal(ref, action, "spoofing")
                [] spoof \notin {"error", "high"} /\ ~ConsentRequired ->
                     Approval(ref, action, ref \in retainedRefs)
                [] spoof \notin {"error", "high"} /\ ConsentRequired
                     /\ ActiveConsents(ref, action) = {} ->
                     Refusal(ref, action, DiagnoseMissingConsent(ref, action))
                [] OTHER -> IF token = "other" THEN Refusal(ref, action, "spoofing")
                            ELSE Approval(ref, action, TRUE)
      BY <1>7, Zenon DEF EvaluateVoice
    <2>2. CASE spoof \in {"error", "high"}
      <3>1. v = Refusal(ref, action, "error") \/ v = Refusal(ref, action, "spoofing")
        BY <2>1, <2>2
      <3> QED
        BY <1>2, <3>1 DEF JudgedRight
    <2>3. CASE spoof \notin {"error", "high"} /\ ~ConsentRequired
      <3>1. v = Approval(ref, action, ref \in retainedRefs)
        BY <2>1, <2>3, Zenon
      <3> QED
        BY <1>3, <1>7, <2>3, <3>1 DEF JudgedRight
    <2>4. CASE spoof \notin {"error", "high"} /\ ConsentRequired /\ ActiveConsents(ref, action) = {}
      <3>1. v = Refusal(ref, action, DiagnoseMissingConsent(ref, action))
        BY <2>1, <2>4, Zenon
      <3> QED
        BY <1>2, <2>4, <3>1, DiagnosisIsTrue DEF JudgedRight
    <2>5. CASE spoof \notin {"error", "high"} /\ ConsentRequired /\ ActiveConsents(ref, action) # {}
      <3>1. v = Refusal(ref, action, "spoofing") \/ v = Approval(ref, action, TRUE)
        BY <2>1, <2>5, Zenon
      <3>2. PICK i \in ConsentsOf(ref) : /\ action \in consents[i].scopes
                                         /\ ~consents[i].revoked
                                         /\ policyClock < consents[i].expires
        BY <2>5 DEF ActiveConsents, ConsentsOf, IsActive
      <3>3. CASE v = Refusal(ref, action, "spoofing")
        BY <1>2, <3>3 DEF JudgedRight
      <3>4. CASE v = Approval(ref, action, TRUE)
        <4>1. v.ref = ref /\ v.action = action /\ v.allowed /\ v.category = "none"
          BY <1>3, <3>4
        <4> HIDE DEF v
        <4> QED
          BY <1>7, <3>2, <4>1 DEF JudgedRight
      <3> QED
        BY <3>1, <3>3, <3>4
    <2> QED
      BY <2>2, <2>3, <2>4, <2>5
  <1> QED
    BY <1>4, <1>5, <1>6, <1>7, Zenon

\* The inductive invariant of the policy.
LEMMA PolicyInvariance == PolicySpec => []PolicyInv
  <1>1. PolicyInit => PolicyInv
    BY DEF PolicyInit, PolicyInv, PolicyType, RetainedByConsent, VerdictIsTrue, JudgedRight,
           NoDecision
  <1>2. ASSUME PolicyInv, [PolicyNext]_policyVars PROVE PolicyInv'
    <2>0. /\ PolicyType /\ RetainedByConsent /\ VerdictIsTrue
          /\ DOMAIN consents = 1 .. Len(consents) /\ Len(consents) \in Nat
          /\ \A i \in DOMAIN consents : consents[i] \in Consent
      BY <1>2 DEF PolicyInv, PolicyType
    <2>1. ASSUME verdict' = NoDecision PROVE VerdictIsTrue'
      BY <2>1 DEF VerdictIsTrue, JudgedRight, NoDecision
    <2>2. ASSUME NEW ref \in VoiceRefs, NEW scopes \in (SUBSET VoiceActions) \ {{}}, NEW x \in {1, Never},
                 RecordConsent(ref, scopes, x)
          PROVE  PolicyInv'
      <3> DEFINE rec == [ref |-> ref, scopes |-> scopes, expires |-> x, revoked |-> FALSE]
                 n == Len(consents) + 1
      <3>1. /\ consents' = Append(consents, rec) /\ retainedRefs' = retainedRefs \union {ref}
            /\ UNCHANGED <<protected, policyClock>> /\ VerdictIsTrue'
        BY <2>1, <2>2 DEF RecordConsent
      <3>2. rec \in Consent
        BY DEF Consent, Never
      <3>3. /\ consents' \in Seq(Consent) /\ DOMAIN consents' = 1 .. n /\ consents'[n] = rec
            /\ \A i \in DOMAIN consents : consents'[i] = consents[i]
        BY <2>0, <3>1, <3>2 DEF PolicyType
      <3>4. PolicyType'
        BY <2>0, <3>1, <3>3 DEF PolicyType
      <3>5. RetainedByConsent'
        <4> SUFFICES ASSUME NEW r \in retainedRefs'
                     PROVE  \E i \in DOMAIN consents' : consents'[i].ref = r /\ ~consents'[i].revoked
          BY DEF RetainedByConsent, ConsentsOf
        <4>1. CASE r = ref
          <5>1. n \in DOMAIN consents' /\ rec.ref = ref /\ ~rec.revoked
            BY <2>0, <3>3
          <5> QED
            BY <3>3, <4>1, <5>1
        <4>2. CASE r \in retainedRefs
          <5>1. PICK i \in DOMAIN consents : consents[i].ref = r /\ ~consents[i].revoked
            BY <2>0, <4>2 DEF RetainedByConsent, ConsentsOf
          <5>2. i \in DOMAIN consents' /\ consents'[i] = consents[i]
            BY <2>0, <3>3
          <5> QED
            BY <5>1, <5>2
        <4> QED
          BY <3>1, <4>1, <4>2
      <3> QED
        BY <3>1, <3>4, <3>5 DEF PolicyInv
    <2>3. ASSUME NEW i \in 1 .. MaxConsents, RevokeConsent(i) PROVE PolicyInv'
      <3>1. /\ i \in DOMAIN consents /\ consents' = [consents EXCEPT ![i].revoked = TRUE]
            /\ retainedRefs' = retainedRefs \ {consents[i].ref}
            /\ UNCHANGED <<protected, policyClock>> /\ VerdictIsTrue'
        BY <2>1, <2>3 DEF RevokeConsent
      <3>2. [consents[i] EXCEPT !.revoked = TRUE] \in Consent
        BY <2>0, <3>1 DEF Consent
      <3>3. consents' = [consents EXCEPT ![i] = [consents[i] EXCEPT !.revoked = TRUE]]
        BY <3>1
      <3>4. /\ consents' \in Seq(Consent) /\ DOMAIN consents' = DOMAIN consents
            /\ \A j \in DOMAIN consents : j # i => consents'[j] = consents[j]
        BY <2>0, <3>1, <3>2, <3>3 DEF PolicyType
      <3>5. PolicyType'
        BY <2>0, <3>1, <3>4 DEF PolicyType
      <3>6. RetainedByConsent'
        <4> SUFFICES ASSUME NEW r \in retainedRefs'
                     PROVE  \E j \in DOMAIN consents' : consents'[j].ref = r /\ ~consents'[j].revoked
          BY DEF RetainedByConsent, ConsentsOf
        <4>1. PICK j \in DOMAIN consents : consents[j].ref = r /\ ~consents[j].revoked
          BY <2>0, <3>1 DEF RetainedByConsent, ConsentsOf
        <4>2. j # i
          BY <3>1, <4>1
        <4> QED
          BY <3>4, <4>1, <4>2
      <3> QED
        BY <3>1, <3>5, <3>6 DEF PolicyInv
    <2>4. ASSUME NEW ref \in VoiceRefs, RegisterProtectedVoice(ref) PROVE PolicyInv'
      BY <2>0, <2>1, <2>4
         DEF RegisterProtectedVoice, PolicyInv, PolicyType, RetainedByConsent, ConsentsOf
    <2>5. ASSUME PolicyTick PROVE PolicyInv'
      BY <2>0, <2>1, <2>5 DEF PolicyTick, PolicyInv, PolicyType, RetainedByConsent, ConsentsOf
    <2>6. ASSUME NEW ref, NEW action, NEW spoof, NEW token, RequestVoice(ref, action, spoof, token)
          PROVE  PolicyInv'
      <3> DEFINE v == EvaluateVoice(ref, action, spoof, token)
      <3>1. /\ verdict' = v /\ UNCHANGED <<consents, protected, policyClock>>
            /\ retainedRefs' = IF v.allowed THEN retainedRefs ELSE retainedRefs \ {ref}
        BY <2>6 DEF RequestVoice
      <3>2. PolicyType' /\ RetainedByConsent'
        BY <2>0, <3>1 DEF PolicyType, RetainedByConsent, ConsentsOf
      <3>3. VerdictIsTrue'
        <4>1. JudgedRight(v, ref, action) /\ (v.category # "none" <=> ~v.allowed)
          BY <2>0, EvaluationIsTrue
        <4> HIDE DEF v
        <4> QED
          BY <3>1, <4>1 DEF VerdictIsTrue, JudgedRight, ConsentsOf
      <3> QED
        BY <3>2, <3>3 DEF PolicyInv
    <2>7. CASE UNCHANGED policyVars
      BY <2>0, <2>7 DEF policyVars, PolicyInv, PolicyType, RetainedByConsent, VerdictIsTrue,
                        JudgedRight, ConsentsOf
    <2> QED
      BY <1>2, <2>2, <2>3, <2>4, <2>5, <2>6, <2>7 DEF PolicyNext
  <1> QED
    BY <1>1, <1>2, PTL DEF PolicySpec

-----------------------------------------------------------------------------
(***************************************************************************)
(* The gate of moderation                                                  *)
(***************************************************************************)

Scores == [crisis : 0 .. 2, risk : [Categories -> 0 .. 2]]

GateInv ==
  /\ classifier \in {"unloaded", "model", "lexicon"}
  /\ GateFailsClosed

\* Whichever classifier judges, its scores are scores.
LEMMA ScoresAreScores == \A c : ScoresOf(c) \subseteq Scores
  BY DEF ScoresOf, Scores

\* The category of a text that is flagged has the highest score.
LEMMA TopIsHighest ==
  ASSUME NEW scores \in Scores, Flagged(scores) # {}
  PROVE  \E k \in Flagged(scores) : /\ TopCategory(scores) = CategoryNames[k]
                                    /\ \A j \in Categories : scores.risk[j] <= scores.risk[k]
  <1> DEFINE F == Flagged(scores)
             High == {k \in F : scores.risk[k] = 2}
             Best(k) == \A j \in F : \/ scores.risk[k] > scores.risk[j]
                                     \/ scores.risk[k] = scores.risk[j] /\ k <= j
  <1>1. /\ F \subseteq Categories /\ Categories \subseteq Nat
        /\ \A k \in Categories : scores.risk[k] \in 0 .. 2 /\ (k \in F <=> scores.risk[k] >= 1)
    BY CategoryAssumption DEF Scores, Flagged, Categories, Threshold
  <1> HIDE DEF F
  <1>2. \E k \in F : Best(k)
    <2>1. CASE High = {}
      <3>1. PICK k \in F : \A j \in F : k <= j
        <4>1. F # {} /\ F \in SUBSET Nat
          BY <1>1 DEF F
        <4> QED
          BY <4>1, LeastOf
      <3>2. \A j \in F : scores.risk[j] = 1
        BY <1>1, <2>1
      <3> QED
        BY <3>1, <3>2
    <2>2. CASE High # {}
      <3>1. PICK k \in High : \A j \in High : k <= j
        <4>1. High \in SUBSET Nat
          BY <1>1
        <4> HIDE DEF High
        <4> QED
          BY <2>2, <4>1, LeastOf
      <3>2. \A j \in F : j \in High \/ scores.risk[j] < 2
        BY <1>1
      <3> QED
        BY <3>1, <3>2
    <2> QED
      BY <2>1, <2>2
  <1> DEFINE c == CHOOSE k \in F : Best(k)
  <1>3. c \in F /\ Best(c)
    <2> HIDE DEF Best
    <2> QED
      BY <1>2
  <1>4. TopCategory(scores) = CategoryNames[c]
    BY DEF TopCategory, F
  <1> HIDE DEF c
  <1>5. \A j \in Categories : scores.risk[j] <= scores.risk[c]
    BY <1>1, <1>3
  <1> QED
    BY <1>3, <1>4, <1>5 DEF F

\* The outcome of a text that was judged is that of the gate.
LEMMA OutcomeIsRight ==
  ASSUME NEW scores \in Scores, NEW path
  PROVE  LET o == OutcomeFor(scores, path)
         IN /\ o.allowed <=> /\ scores.crisis < Threshold
                             /\ \A k \in Categories : scores.risk[k] < Threshold
            /\ scores.crisis >= Threshold <=> o.escalate /\ o.guidance
            /\ \A j, k \in Categories : o.category = CategoryNames[j] =>
                  scores.risk[k] <= scores.risk[j]
  <1> DEFINE o == OutcomeFor(scores, path)
  <1>1. /\ Flagged(scores) \subseteq Categories /\ scores.crisis \in 0 .. 2 /\ Threshold = 1
        /\ \A k \in Categories : /\ scores.risk[k] \in 0 .. 2
                                 /\ k \in Flagged(scores) <=> ~(scores.risk[k] < Threshold)
    BY DEF Scores, Flagged, Threshold
  <1>2. CASE scores.crisis >= Threshold
    <2>1. ~o.allowed /\ o.escalate /\ o.guidance /\ o.category = "self_harm"
      BY <1>1, <1>2 DEF OutcomeFor
    <2>2. \A j \in Categories : o.category # CategoryNames[j]
      BY <2>1, CategoryAssumption DEF Categories
    <2> QED
      BY <1>1, <1>2, <2>1, <2>2
  <1>3. CASE scores.crisis < Threshold /\ Flagged(scores) # {}
    <2>1. ~o.allowed /\ ~o.escalate /\ ~o.guidance /\ o.category = TopCategory(scores)
      BY <1>1, <1>3 DEF OutcomeFor, NoOutcome
    <2>2. PICK c \in Flagged(scores) : /\ TopCategory(scores) = CategoryNames[c]
                                       /\ \A j \in Categories : scores.risk[j] <= scores.risk[c]
      BY <1>3, TopIsHighest
    <2>3. \A j \in Categories : o.category = CategoryNames[j] => j = c
      BY <1>1, <2>1, <2>2, CategoryAssumption DEF Categories
    <2> HIDE DEF o
    <2>4. \A j, k \in Categories : o.category = CategoryNames[j] => scores.risk[k] <= scores.risk[j]
      BY <2>2, <2>3
    <2>5. ~(scores.risk[c] < Threshold) /\ c \in Categories
      BY <1>1, <2>2
    <2> QED
      BY <1>1, <1>3, <2>1, <2>4, <2>5 DEF o
  <1>4. CASE scores.crisis < Threshold /\ Flagged(scores) = {}
    <2>1. o.allowed /\ ~o.escalate /\ ~o.guidance
      BY <1>1, <1>4 DEF OutcomeFor, NoOutcome
    <2>2. \A k \in Categories : scores.risk[k] = 0
      BY <1>1, <1>4
    <2> QED
      BY <1>1, <1>4, <2>1, <2>2
  <1> QED
    BY <1>1, <1>2, <1>3, <1>4

\* The inductive invariant of the gate.
LEMMA GateInvariance == GateSpec => []GateInv
  <1>1. GateInit => GateInv
    BY DEF GateInit, GateInv, GateFailsClosed, Unjudged
  <1>2. ASSUME GateInv, [GateNext]_gateVars PROVE GateInv'
    <2>1. GetClassifier \in {"unloaded", "model", "lexicon"}
      BY <1>2 DEF GateInv, GetClassifier
    <2>2. ASSUME NEW path, NEW scores, Moderate(path, scores) PROVE GateInv'
      <3>1. /\ scores \in Scores /\ outcome' = OutcomeFor(scores, path)
            /\ judged' = [kind |-> "scores", scores |-> scores]
            /\ auditTrail' = <<AuditWord(outcome')>> /\ classifier' = GetClassifier
        BY <2>2, ScoresAreScores DEF Moderate, Moderated
      <3> DEFINE o == OutcomeFor(scores, path)
      <3>2. /\ o.allowed <=> /\ scores.crisis < Threshold
                             /\ \A k \in Categories : scores.risk[k] < Threshold
            /\ scores.crisis >= Threshold <=> o.escalate /\ o.guidance
            /\ \A j, k \in Categories : o.category = CategoryNames[j] =>
                  scores.risk[k] <= scores.risk[j]
        BY <3>1, OutcomeIsRight
      <3>3. outcome' = o
        BY <3>1
      <3>4. judged'.kind = "scores" /\ judged'.scores = scores
        BY <3>1
      <3> HIDE DEF o
      <3>5. GateFailsClosed'
        BY <3>1, <3>2, <3>3, <3>4, Zenon DEF GateFailsClosed
      <3> QED
        BY <2>1, <3>1, <3>5 DEF GateInv
    <2>3. ASSUME NEW path, ModerateFails(path) PROVE GateInv'
      <3>1. ~outcome'.allowed /\ outcome'.escalate /\ judged'.kind = "error"
            /\ auditTrail' = <<AuditWord(outcome')>> /\ classifier' = GetClassifier
        BY <2>3 DEF ModerateFails, Moderated, FailClosed, NoOutcome
      <3> QED
        BY <2>1, <3>1 DEF GateInv, GateFailsClosed
    <2>4. ASSUME NEW path, ModerateDisabled(path) PROVE GateInv'
      <3>1. judged'.kind = "nothing" /\ auditTrail' = <<AuditWord(outcome')>> /\ classifier' = classifier
        BY <2>4 DEF ModerateDisabled, Moderated
      <3> QED
        BY <1>2, <3>1 DEF GateInv, GateFailsClosed
    <2>5. CASE UNCHANGED gateVars
      BY <1>2, <2>5 DEF gateVars, GateInv, GateFailsClosed, AuditWord
    <2> QED
      BY <1>2, <2>2, <2>3, <2>4, <2>5 DEF GateNext
  <1> QED
    BY <1>1, <1>2, PTL DEF GateSpec

-----------------------------------------------------------------------------
(***************************************************************************)
(* The mark on synthesized audio                                           *)
(***************************************************************************)

\* A result that is compliant is one of the audio as it is now.
MarkInv ==
  /\ backend \in {"unloaded", "audioseal", "fallback"}
  /\ verified.compliant => audio.signed /\ backend # "unloaded"
  /\ verified.compliant /\ backend = "fallback" => audio.over = audio.edits
  /\ verified.compliant => verified.reason = "signature_verified"

\* What a detector says of audio that it finds compliant.
LEMMA DetectionIsTrue ==
  ASSUME NEW b, NEW a, NEW r \in DetectResults(b, a), VerifyResult(r).compliant
  PROVE  /\ a.signed /\ (b = "fallback" => a.over = a.edits)
         /\ VerifyResult(r).reason = "signature_verified"
  <1>1. r.detected /\ r.sure
    BY DEF VerifyResult
  <1>2. VerifyResult(r).reason = "signature_verified"
    BY <1>1, Zenon DEF VerifyResult
  <1>3. CASE b = "fallback"
    <2>1. r = [detected |-> a.signed /\ a.over = a.edits, sure |-> a.signed /\ a.over = a.edits]
      BY <1>3 DEF DetectResults
    <2>2. a.signed /\ a.over = a.edits
      BY <1>1, <2>1, Zenon
    <2> QED
      BY <1>2, <2>2
  <1>4. CASE b # "fallback"
    <2>1. r \in [detected : {a.signed}, sure : BOOLEAN] \/ r = [detected |-> FALSE, sure |-> FALSE]
      BY <1>4 DEF DetectResults
    <2>2. a.signed
      BY <1>1, <2>1
    <2> QED
      BY <1>2, <1>4, <2>2
  <1> QED
    BY <1>3, <1>4

\* The inductive invariant of the mark.
LEMMA MarkInvariance == MarkSpec => []MarkInv
  <1>1. MarkInit => MarkInv
    BY DEF MarkInit, MarkInv
  <1>2. ASSUME MarkInv, [MarkNext]_markVars PROVE MarkInv'
    <2>1. GetBackend \in {"audioseal", "fallback"}
      BY <1>2 DEF MarkInv, GetBackend
    <2>2. CASE Protect
      <3> DEFINE a == EmbedMark(<<>>)
      <3>1. backend' = GetBackend /\ audio' = [a EXCEPT !.compliant = verified'.compliant]
        BY <2>2 DEF Protect
      <3>2. audio'.signed /\ audio'.over = audio'.edits
        BY <3>1 DEF EmbedMark
      <3>3. verified' = DetectorError
            \/ \E r \in DetectResults(backend', a) : verified' = VerifyResult(r)
        BY <2>2 DEF Protect
      <3>4. verified'.compliant => verified'.reason = "signature_verified"
        BY <3>3, DetectionIsTrue DEF DetectorError
      <3> QED
        BY <2>1, <3>1, <3>2, <3>4 DEF MarkInv
    <2>3. CASE ProtectFails
      BY <2>1, <2>3 DEF ProtectFails, EmbedError, MarkInv
    <2>4. CASE VerifyAgain
      <3>1. PICK r \in DetectResults(backend', audio) : verified' = VerifyResult(r)
        BY <2>4 DEF VerifyAgain, Verify
      <3>2. backend' = GetBackend /\ audio' = audio
        BY <2>4 DEF VerifyAgain, Verify
      <3>3. verified'.compliant => /\ audio.signed /\ (backend' = "fallback" => audio.over = audio.edits)
                                   /\ verified'.reason = "signature_verified"
        BY <3>1, DetectionIsTrue
      <3> QED
        BY <2>1, <3>2, <3>3 DEF MarkInv
    <2>5. CASE DetectorFails
      BY <2>1, <2>5 DEF DetectorFails, Verify, DetectorError, MarkInv
    <2>6. CASE EditAudio
      BY <1>2, <2>6 DEF EditAudio, MarkInv
    <2>7. CASE UNCHANGED markVars
      BY <1>2, <2>7 DEF markVars, MarkInv
    <2> QED
      BY <1>2, <2>2, <2>3, <2>4, <2>5, <2>6, <2>7 DEF MarkNext
  <1> QED
    BY <1>1, <1>2, PTL DEF MarkSpec

-----------------------------------------------------------------------------

\* Consent, moderation and watermark fail closed, whatever the order of calls.
THEOREM GatesFailClosed == PolicySpec /\ GateSpec /\ MarkSpec => []SafetyFailsClosed
  <1>1. PolicyInv => VoiceIsConsented
    BY DEF PolicyInv, RetainedByConsent, VerdictIsTrue, JudgedRight, VoiceIsConsented
  <1>2. MarkInv => OnlyMarkedIsEmitted
    BY DEF MarkInv, OnlyMarkedIsEmitted, MayBeEmitted
  <1>3. PolicyInv /\ GateInv /\ MarkInv => SafetyFailsClosed
    BY <1>1, <1>2 DEF GateInv, SafetyFailsClosed
  <1> QED
    BY <1>3, PolicyInvariance, GateInvariance, MarkInvariance, PTL

-----------------------------------------------------------------------------
(***************************************************************************)
(* Failover                                                                *)
(***************************************************************************)

FailoverInv ==
  /\ inFallback \in BOOLEAN
  /\ healthyProbes \in Nat
  /\ goodRun \in 0 .. RecoveryProbes
  /\ inFallback <=> goodRun < RecoveryProbes
  /\ decision.use = inFallback
  /\ inFallback => /\ healthyProbes = goodRun
                   /\ lastReason \notin {"", "healthy", "recovered"}
                   /\ decision.reason # "manual_override" => decision.recovery # "none"
  /\ decision.reason = "recovered" => lastReason = "recovered"

\* The rule a probe breaks is none of the words for what comes after.
LEMMA RuleIsNamed ==
  ASSUME NEW p
  PROVE  EvaluateHealth(p) \notin {"", "recovered", "recovering"}
  BY DEF EvaluateHealth

LEMMA FailoverInvariance == FailoverSpec => []FailoverInv
  <1>1. FailoverInit => FailoverInv
    <2> SUFFICES ASSUME FailoverInit PROVE FailoverInv
      OBVIOUS
    <2>1. inFallback = FALSE /\ healthyProbes = 0 /\ goodRun = RecoveryProbes /\ RecoveryProbes \in Nat \ {0}
      BY FailoverAssumption DEF FailoverInit
    <2>2. decision.use = FALSE /\ decision.reason = "none"
      BY DEF FailoverInit, NoFallbackDecision
    <2>3. goodRun \in 0 .. RecoveryProbes /\ ~(goodRun < RecoveryProbes)
      BY <2>1
    <2>4. inFallback <=> goodRun < RecoveryProbes
      BY <2>1, <2>3
    <2> QED
      BY <2>1, <2>2, <2>3, <2>4 DEF FailoverInv
  <1>2. FailoverInv /\ [FailoverNext]_failoverVars => FailoverInv'
    <2> SUFFICES ASSUME FailoverInv, [FailoverNext]_failoverVars PROVE FailoverInv'
      OBVIOUS
    <2>1. CASE UNCHANGED failoverVars
      BY <2>1 DEF FailoverInv, failoverVars
    <2>2. ASSUME NEW p \in Probes, Decide(p) PROVE FailoverInv'
      <3> DEFINE reason == EvaluateHealth(p)
      <3>0. RecoveryProbes \in Nat \ {0}
        BY FailoverAssumption
      <3>1. CASE reason # "healthy"
        <4>1. Engage(reason) /\ goodRun' = 0
          BY <2>2, <3>1 DEF Decide
        <4>2. reason \notin {"", "recovered", "recovering"}
          BY RuleIsNamed
        <4> HIDE DEF reason
        <4>3. /\ inFallback' = TRUE /\ healthyProbes' = 0 /\ lastReason' = reason
              /\ decision'.use = TRUE /\ decision'.reason = reason
              /\ decision'.recovery = EstimateRecovery(reason)
          BY <4>1, Zenon DEF Engage
        <4>4. reason # "manual_override" => EstimateRecovery(reason) # "none"
          BY DEF EstimateRecovery
        <4>5. /\ healthyProbes' \in Nat /\ goodRun' \in 0 .. RecoveryProbes
              /\ goodRun' < RecoveryProbes /\ healthyProbes' = goodRun'
          BY <3>0, <4>1, <4>3
        <4> QED
          BY <3>1, <4>2, <4>3, <4>4, <4>5, Zenon DEF FailoverInv
      <3>2. CASE reason = "healthy"
        <4>1. /\ Recover \/ StayPrimary
              /\ goodRun' = IF goodRun < RecoveryProbes THEN goodRun + 1 ELSE goodRun
          BY <2>2, <3>2 DEF Decide
        <4> HIDE DEF reason
        <4>2. CASE StayPrimary
          BY <3>0, <4>1, <4>2 DEF FailoverInv, StayPrimary
        <4>3. CASE Recover /\ healthyProbes + 1 >= RecoveryProbes
          <5>1. inFallback' = FALSE /\ healthyProbes' = 0 /\ lastReason' = "recovered"
            BY <4>3 DEF Recover
          <5>4. goodRun' = RecoveryProbes /\ goodRun' \in 0 .. RecoveryProbes /\ ~(goodRun' < RecoveryProbes)
            <6>1. inFallback
              BY <4>3, Zenon DEF Recover
            <6>2. healthyProbes = goodRun /\ goodRun < RecoveryProbes /\ goodRun \in 0 .. RecoveryProbes
              BY <6>1, Zenon DEF FailoverInv
            <6>3. goodRun' = goodRun + 1
              BY <4>1, <6>2
            <6> QED
              BY <3>0, <4>3, <6>2, <6>3
          <5>2. decision' = [use |-> FALSE, reason |-> "recovered", recovery |-> "none"]
            BY <4>3 DEF Recover
          <5>5. healthyProbes' \in Nat
            BY <5>1
          <5>3. decision'.use = FALSE /\ decision'.reason = "recovered"
            BY <5>2
          <5> QED
            BY <5>1, <5>3, <5>4, <5>5, Zenon DEF FailoverInv
        <4>4. CASE Recover /\ ~(healthyProbes + 1 >= RecoveryProbes)
          <5>1. /\ goodRun \in Nat /\ goodRun < RecoveryProbes /\ goodRun' = goodRun + 1
                /\ healthyProbes = goodRun /\ inFallback = TRUE
            BY <3>0, <4>1, <4>4 DEF FailoverInv, Recover
          <5>4. inFallback' = inFallback /\ lastReason' = lastReason /\ healthyProbes' = healthyProbes + 1
            BY <4>4 DEF Recover
          <5>5. goodRun' \in Nat /\ goodRun' < RecoveryProbes /\ healthyProbes' = goodRun'
            BY <3>0, <4>4, <5>1, <5>4
          <5>2. decision' = [use |-> TRUE, reason |-> "recovering", recovery |-> "default"]
            BY <4>4 DEF Recover
          <5>6. goodRun' \in 0 .. RecoveryProbes /\ healthyProbes' \in Nat
            BY <3>0, <5>5
          <5>3. decision'.use = TRUE /\ decision'.reason = "recovering" /\ decision'.recovery = "default"
            BY <5>2
          <5> QED
            BY <5>1, <5>3, <5>4, <5>5, <5>6, Zenon DEF FailoverInv
        <4> QED
          BY <4>1, <4>2, <4>3, <4>4
      <3> QED
        BY <3>1, <3>2
    <2> QED
      BY <2>1, <2>2 DEF FailoverNext
  <1> QED
    BY <1>1, <1>2, PTL DEF FailoverSpec

LEMMA FailoverInvIsSound == FailoverInv => FailoverIsSound
  <1> SUFFICES ASSUME FailoverInv PROVE FailoverIsSound
    OBVIOUS
  <1>1. decision.use <=> inFallback
    BY Zenon DEF FailoverInv
  <1>2. inFallback => /\ healthyProbes = goodRun
                      /\ UserMessage \notin {"", "recovered"}
                      /\ decision.reason # "manual_override" => decision.recovery # "none"
    BY Zenon DEF FailoverInv, UserMessage
  <1>3. decision.reason = "recovered" => UserMessage = "recovered"
    BY Zenon DEF FailoverInv, UserMessage
  <1> QED
    BY <1>1, <1>2, <1>3, Zenon DEF FailoverInv, FailoverIsSound

-----------------------------------------------------------------------------
(***************************************************************************)
(* The verdict on a release                                                *)
(***************************************************************************)

CanaryInv ==
  /\ readings \in [Metrics -> Readings]
  /\ samples \in SampleCounts
  /\ release = "promote" => Breached(readings) = {}

LEMMA CanaryInvariance == CanarySpec => []CanaryInv
  <1>1. CanaryInit => CanaryInv
    BY ReleaseAssumption DEF CanaryInit, CanaryInv, Readings, SampleCounts, Absent
  <1>2. CanaryInv /\ [CanaryNext]_canaryVars => CanaryInv'
    <2> SUFFICES ASSUME CanaryInv, [CanaryNext]_canaryVars PROVE CanaryInv'
      OBVIOUS
    <2>1. CASE UNCHANGED canaryVars
      BY <2>1 DEF CanaryInv, canaryVars
    <2>2. ASSUME NEW m \in Metrics, NEW v \in Readings \ {Absent}, NEW n \in SampleCounts, Observe(m, v, n)
          PROVE  CanaryInv'
      <3>1. readings' \in [Metrics -> Readings] /\ samples' \in SampleCounts
        BY <2>2 DEF Observe, CanaryInv
      <3>2. release' = EvaluateRelease(readings', n)
        BY <2>2 DEF Observe
      <3>3. release' = "promote" => Breached(readings') = {}
        BY <3>2 DEF EvaluateRelease
      <3>4. Breached(readings') = Breached(readings)'
        BY DEF Breached
      <3> QED
        BY <3>1, <3>3, <3>4 DEF CanaryInv
    <2> QED
      BY <2>1, <2>2 DEF CanaryNext
  <1> QED
    BY <1>1, <1>2, PTL DEF CanarySpec

\* More breaches, or fewer samples of as many readings, give no better verdict.
LEMMA VerdictFollowsBreaches ==
  ASSUME NEW good, NEW bad, NEW n \in Int, Breached(good) # {} => Breached(bad) # {}
  PROVE  Rank(EvaluateRelease(bad, n)) <= Rank(EvaluateRelease(good, n))
  BY DEF Rank, EvaluateRelease

LEMMA CanaryInvIsMonotone == CanaryInv => VerdictIsMonotone
  <1> SUFFICES ASSUME CanaryInv PROVE VerdictIsMonotone
    OBVIOUS
  <1>0. /\ readings \in [Metrics -> Readings] /\ samples \in SampleCounts
        /\ Limit \in Nat /\ MinSamples \in Nat /\ samples \in Int
    BY ReleaseAssumption DEF CanaryInv, SampleCounts, Absent
  <1>1. ASSUME NEW m \in Metrics, readings[m] \in 1 .. Limit
        PROVE  Rank(EvaluateRelease([readings EXCEPT ![m] = Worsen(m, @)], samples))
                 <= Rank(EvaluateRelease(readings, samples))
    <2> DEFINE worse == [readings EXCEPT ![m] = Worsen(m, @)]
    <2>1. ASSUME NEW k \in Metrics, readings[k] # Absent, IsBreached(k, readings[k])
          PROVE  worse[k] # Absent /\ IsBreached(k, worse[k])
      BY <1>0, <1>1, <2>1 DEF Readings, Absent, IsBreached, Worsen
    <2> HIDE DEF worse
    <2>2. Breached(readings) # {} => Breached(worse) # {}
      BY <2>1 DEF Breached
    <2>3. Rank(EvaluateRelease(worse, samples)) <= Rank(EvaluateRelease(readings, samples))
      BY <1>0, <2>2, VerdictFollowsBreaches
    <2> QED
      BY <2>3 DEF worse
  <1>2. ASSUME NEW m \in Metrics
        PROVE  Rank(EvaluateRelease(readings, samples))
                 <= Rank(EvaluateRelease([readings EXCEPT ![m] = Absent], samples))
    <2> DEFINE fewer == [readings EXCEPT ![m] = Absent]
    <2>1. ASSUME NEW k \in Metrics, fewer[k] # Absent
          PROVE  fewer[k] = readings[k]
      BY <1>0, <2>1
    <2> HIDE DEF fewer
    <2>2. Breached(fewer) # {} => Breached(readings) # {}
      BY <2>1 DEF Breached
    <2>3. Rank(EvaluateRelease(readings, samples)) <= Rank(EvaluateRelease(fewer, samples))
      BY <1>0, <2>2, VerdictFollowsBreaches
    <2> QED
      BY <2>3 DEF fewer
  <1>3. ASSUME NEW n \in SampleCounts \ {Absent}, samples # Absent /\ n < samples
        PROVE  Rank(EvaluateRelease(readings, n)) <= Rank(EvaluateRelease(readings, samples))
    <2>1. n \in Int /\ (samples < MinSamples => n < MinSamples)
      BY <1>0, <1>3 DEF SampleCounts, Absent
    <2> QED
      BY <1>3, <2>1 DEF Rank, EvaluateRelease
  <1>4. ASSUME release = "promote", NEW m \in Metrics, readings[m] # Absent
        PROVE  IF m \in LowerBound THEN readings[m] >= Limit ELSE readings[m] <= Limit
    <2>1. ~IsBreached(m, readings[m])
      BY <1>4 DEF CanaryInv, Breached
    <2>2. readings[m] \in Int
      BY <1>0 DEF Readings
    <2> QED
      BY <1>0, <2>1, <2>2 DEF IsBreached
  <1> QED
    BY <1>1, <1>2, <1>3, <1>4 DEF VerdictIsMonotone

-----------------------------------------------------------------------------
(***************************************************************************)
(* The region that serves a user                                           *)
(***************************************************************************)

\* The answer that stands is the one the router gives now.
RegionInv ==
  route # NoRoute =>
     /\ asked.user \in Users /\ asked.preferred \in Regions \union {NoRegion}
     /\ route = RouteFor(asked.user, asked.preferred)

\* The answer to a question depends on the health and the pools of the regions only.
LEMMA RoutesStand ==
  ASSUME UNCHANGED <<healthy, warmPool>>
  PROVE  \A u, p : RouteFor(u, p)' = RouteFor(u, p)
  BY DEF RouteFor, MakeRoute, BestEligible, Usable, FirstUsable, EffectiveCost, Eligible, IsEligible,
         IsWarmReady, HasCapacity

LEMMA RegionInvariance == RegionSpec => []RegionInv
  <1>1. RegionInit => RegionInv
    BY DEF RegionInit, RegionInv
  <1>2. RegionInv /\ [RegionNext]_regionVars => RegionInv'
    <2> SUFFICES ASSUME RegionInv, [RegionNext]_regionVars PROVE RegionInv'
      OBVIOUS
    <2>1. CASE UNCHANGED regionVars
      <3>1. \A u, p : RouteFor(u, p)' = RouteFor(u, p)
        BY <2>1, RoutesStand DEF regionVars
      <3> QED
        BY <2>1, <3>1 DEF RegionInv, regionVars
    <2>2. ASSUME NEW u \in Users, NEW p \in Regions \union {NoRegion}, Route(u, p) PROVE RegionInv'
      <3>1. /\ route' = RouteFor(u, p) /\ asked'.user = u /\ asked'.preferred = p
            /\ UNCHANGED <<healthy, warmPool>>
        BY <2>2 DEF Route
      <3>2. RouteFor(u, p)' = RouteFor(u, p)
        BY <3>1, RoutesStand
      <3>3. RouteFor(asked.user, asked.preferred)' = RouteFor(u, p)'
        BY <3>1
      <3> QED
        BY <3>1, <3>2, <3>3 DEF RegionInv
    <2>3. ASSUME NEW r \in Regions, NEW h \in BOOLEAN, SetHealth(r, h) PROVE RegionInv'
      BY <2>3 DEF SetHealth, RegionInv
    <2>4. ASSUME NEW r \in Regions, NEW p \in PoolStates, PoolChanges(r, p) PROVE RegionInv'
      BY <2>4 DEF PoolChanges, RegionInv
    <2> QED
      BY <2>1, <2>2, <2>3, <2>4 DEF RegionNext
  <1> QED
    BY <1>1, <1>2, PTL DEF RegionSpec

\* A cost is a whole number, and the affinity counts for the preferred region only.
LEMMA CostIs ==
  ASSUME NEW u \in Users, NEW r \in Regions, NEW p
  PROVE  /\ EffectiveCost(r, u, p) \in Int
         /\ EffectiveCost(r, u, p) + WarmBonus + AffinityBonus \in Nat
         /\ r # p => EffectiveCost(r, u, p) = EffectiveCost(r, u, NoRegion)
  <1>1. /\ LatencyTo[u][r] \in Nat /\ WarmBonus \in Nat /\ AffinityBonus \in Nat /\ r # 0
    BY RegionAssumption
  <1> QED
    BY <1>1 DEF EffectiveCost, NoRegion

\* Where a region is usable, one of them is the best.
LEMMA BestIsEligible ==
  ASSUME NEW u \in Users, NEW p, Eligible # {}
  PROVE  /\ BestEligible(u, p) \in Eligible
         /\ \A q \in Eligible : EffectiveCost(BestEligible(u, p), u, p) <= EffectiveCost(q, u, p)
  <1> DEFINE cost == [r \in Regions |-> EffectiveCost(r, u, p)]
             up(r) == cost[r] + WarmBonus + AffinityBonus
             ups == {up(r) : r \in Eligible}
             Best(r) == \A q \in Eligible : \/ cost[r] < cost[q]
                                            \/ cost[r] = cost[q] /\ r <= q
  <1>1. Eligible \subseteq Regions /\ Regions \subseteq Nat /\ WarmBonus \in Nat /\ AffinityBonus \in Nat
    BY RegionAssumption DEF Eligible
  <1>2. \A r \in Regions : cost[r] \in Int /\ up(r) \in Nat /\ cost[r] = EffectiveCost(r, u, p)
    BY CostIs
  <1> HIDE DEF cost
  <1>3. PICK r0 \in Eligible : \A q \in Eligible : up(r0) <= up(q)
    <2>1. ups \in SUBSET Nat /\ ups # {}
      BY <1>1, <1>2
    <2>2. PICK x \in ups : \A y \in ups : x <= y
      BY <2>1, LeastOf
    <2> QED
      BY <2>2
  <1> DEFINE cheapest == {r \in Eligible : cost[r] = cost[r0]}
  <1>4. PICK r1 \in cheapest : \A q \in cheapest : r1 <= q
    <2>1. cheapest \in SUBSET Nat /\ cheapest # {}
      BY <1>1
    <2> HIDE DEF cheapest
    <2> QED
      BY <2>1, LeastOf
  <1>5. Best(r1) /\ r1 \in Eligible
    <2>1. \A q \in Eligible : cost[r0] <= cost[q]
      BY <1>1, <1>2, <1>3
    <2> QED
      BY <1>1, <1>2, <1>4, <2>1
  <1> HIDE DEF Best
  <1>6. BestEligible(u, p) = CHOOSE r \in Eligible : Best(r)
    BY <1>1, <1>2 DEF BestEligible, Best
  <1>7. Best(BestEligible(u, p)) /\ BestEligible(u, p) \in Eligible
    BY <1>5, <1>6
  <1>8. \A q \in Eligible : cost[BestEligible(u, p)] <= cost[q]
    <2> SUFFICES ASSUME NEW q \in Eligible PROVE cost[BestEligible(u, p)] <= cost[q]
      OBVIOUS
    <2>1. BestEligible(u, p) \in Regions /\ q \in Regions
      BY <1>1, <1>7
    <2>2. cost[BestEligible(u, p)] \in Int /\ cost[q] \in Int
      BY <1>2, <2>1
    <2>3. cost[BestEligible(u, p)] < cost[q] \/ cost[BestEligible(u, p)] = cost[q]
      BY <1>7, Zenon DEF Best
    <2> QED
      BY <2>2, <2>3
  <1> QED
    BY <1>1, <1>2, <1>7, <1>8

LEMMA FirstIsUsable ==
  ASSUME NEW p \in Regions, Usable(p) # {}
  PROVE  /\ FirstUsable(p) \in Usable(p)
         /\ \A j \in Usable(p) : FirstUsable(p) <= j
  <1>1. Usable(p) \in SUBSET Nat
    BY RegionAssumption DEF Usable
  <1>2. \E i \in Usable(p) : \A j \in Usable(p) : i <= j
    BY <1>1, LeastOf
  <1> QED
    BY <1>2 DEF FirstUsable

LEMMA RouteFields ==
  ASSUME NEW r, NEW o, NEW c
  PROVE  /\ MakeRoute(r, o, c).region = r /\ MakeRoute(r, o, c).outcome = o
         /\ MakeRoute(r, o, c).considered = c
  <1> DEFINE made(w) == [region |-> r, outcome |-> o, warm |-> w, considered |-> c]
  <1>1. \A w : made(w).region = r /\ made(w).outcome = o /\ made(w).considered = c
    OBVIOUS
  <1>2. MakeRoute(r, o, c) = made(IsWarmReady(r))
    BY DEF MakeRoute
  <1> HIDE DEF made
  <1> QED
    BY <1>1, <1>2, Zenon

\* What RouteIsBest says of one answer.
AnswersBest(answer, u, p) ==
  /\ (answer.region = NoRegion) <=> (Eligible = {})
  /\ answer.region # NoRegion => answer.region \in Eligible
  /\ p \in Eligible => answer.region = p
  /\ answer.outcome \in {"last_resort", "nearest"} =>
        /\ p # NoRegion => Usable(p) = {}
        /\ \A q \in Eligible : EffectiveCost(answer.region, u, NoRegion) <= EffectiveCost(q, u, NoRegion)
  /\ answer.outcome = "fallback" =>
        \A i \in 1 .. Len(answer.considered) - 1 : answer.considered[i] \notin Eligible

LEMMA RouteForIsBest ==
  ASSUME NEW u \in Users, NEW p \in Regions \union {NoRegion}
  PROVE  AnswersBest(RouteFor(u, p), u, p)
  <1> DEFINE answer == RouteFor(u, p)
             tried == IF p \in Regions THEN <<p>> \o Chain[p] ELSE <<>>
             best == BestEligible(u, p)
  <1>0. /\ Eligible \subseteq Regions /\ \A r \in Regions : r # NoRegion
        /\ NoRegion \notin Eligible
    BY RegionAssumption DEF Eligible, NoRegion
  <1>1. CASE p \in Eligible
    <2>1. answer = MakeRoute(p, "affinity", <<p>>)
      BY <1>1 DEF RouteFor
    <2>2. answer.region = p /\ answer.outcome = "affinity"
      BY <2>1, RouteFields
    <2>3. AnswersBest(answer, u, p)
      <3> HIDE DEF answer
      <3> QED
        BY <1>0, <1>1, <2>2 DEF AnswersBest
    <2> QED
      BY <2>3
  <1>2. CASE p \notin Eligible /\ p \in Regions /\ Usable(p) # {}
    <2> DEFINE n == FirstUsable(p)
    <2>1. answer = MakeRoute(Chain[p][n], "fallback", SubSeq(tried, 1, n + 1))
      BY <1>2 DEF RouteFor
    <2>2. /\ answer.region = Chain[p][n] /\ answer.outcome = "fallback"
          /\ answer.considered = SubSeq(tried, 1, n + 1)
      <3> DEFINE r == Chain[p][n]
                 c == SubSeq(tried, 1, n + 1)
      <3>1. answer = MakeRoute(r, "fallback", c)
        BY <2>1
      <3> HIDE DEF answer, r, c
      <3>2. answer.region = r /\ answer.outcome = "fallback" /\ answer.considered = c
        BY <3>1, RouteFields
      <3> QED
        BY <3>2 DEF r, c
    <2>3. /\ n \in Usable(p) /\ \A j \in Usable(p) : n <= j
      BY <1>2, FirstIsUsable
    <2>4. Chain[p] \in Seq(Regions) /\ n \in 1 .. Len(Chain[p]) /\ Chain[p][n] \in Eligible
      BY <1>2, <2>3, RegionAssumption DEF Usable, Eligible
    <2> HIDE DEF n
    <2>5. /\ tried \in Seq(Regions) /\ Len(tried) = Len(Chain[p]) + 1 /\ tried[1] = p
          /\ \A i \in 1 .. Len(Chain[p]) : tried[i + 1] = Chain[p][i]
      BY <1>2, <2>4
    <2> HIDE DEF tried
    <2>6. /\ Len(answer.considered) = n + 1
          /\ \A i \in 1 .. n + 1 : answer.considered[i] = tried[i]
      BY <2>2, <2>4, <2>5
    <2>7. ASSUME NEW i \in 1 .. n PROVE tried[i] \notin Eligible
      <3>1. CASE i = 1
        BY <1>2, <2>5, <3>1
      <3>2. CASE i # 1
        <4>1. i - 1 \in 1 .. Len(Chain[p]) /\ i - 1 < n /\ tried[i] = Chain[p][i - 1]
          <5>1. i - 1 \in 1 .. Len(Chain[p]) /\ i - 1 < n
            BY <2>4, <3>2
          <5>2. tried[(i - 1) + 1] = Chain[p][i - 1]
            BY <2>5, <5>1
          <5> QED
            BY <5>1, <5>2
        <4>2. i - 1 \notin Usable(p)
          BY <2>3, <2>4, <4>1
        <4> QED
          BY <1>2, <2>4, <4>1, <4>2 DEF Usable, Eligible
      <3> QED
        BY <3>1, <3>2
    <2>8. \A i \in 1 .. Len(answer.considered) - 1 : answer.considered[i] \notin Eligible
      BY <2>4, <2>6, <2>7
    <2>9. AnswersBest(answer, u, p)
      <3> HIDE DEF answer
      <3> QED
        BY <1>0, <1>2, <2>2, <2>4, <2>8 DEF AnswersBest
    <2> QED
      BY <2>9
  <1>3. CASE p \notin Eligible /\ ~(p \in Regions /\ Usable(p) # {}) /\ Eligible # {}
    <2> DEFINE reached == IF p = NoRegion THEN "nearest" ELSE "last_resort"
               considered == IF \E i \in DOMAIN tried : tried[i] = best
                             THEN tried ELSE Append(tried, best)
    <2>1. answer = MakeRoute(best, reached, considered)
      BY <1>3 DEF RouteFor
    <2> HIDE DEF considered
    <2>2. answer.region = best /\ answer.outcome = reached
      BY <2>1, RouteFields
    <2>3. /\ best \in Eligible
          /\ \A q \in Eligible : EffectiveCost(best, u, p) <= EffectiveCost(q, u, p)
      BY <1>3, BestIsEligible
    <2> HIDE DEF best
    <2>4. \A q \in Eligible : EffectiveCost(q, u, p) = EffectiveCost(q, u, NoRegion)
      BY <1>0, <1>3, CostIs
    <2>5. \A q \in Eligible : EffectiveCost(best, u, NoRegion) <= EffectiveCost(q, u, NoRegion)
      BY <2>3, <2>4
    <2>6. AnswersBest(answer, u, p)
      <3> HIDE DEF answer
      <3> QED
        BY <1>0, <1>3, <2>2, <2>3, <2>5 DEF AnswersBest
    <2> QED
      BY <2>6
  <1>4. CASE p \notin Eligible /\ ~(p \in Regions /\ Usable(p) # {}) /\ Eligible = {}
    <2>1. answer = [NoRoute EXCEPT !.considered = tried]
      BY <1>4 DEF RouteFor
    <2>2. answer.region = NoRegion /\ answer.outcome = "none"
      BY <2>1 DEF NoRoute
    <2>3. AnswersBest(answer, u, p)
      <3> HIDE DEF answer
      <3> QED
        BY <1>4, <2>2 DEF AnswersBest
    <2> QED
      BY <2>3
  <1> QED
    BY <1>1, <1>2, <1>3, <1>4

LEMMA RegionInvIsBest == RegionInv => RouteIsBest
  <1> SUFFICES ASSUME RegionInv, route # NoRoute PROVE AnswersBest(route, asked.user, asked.preferred)
    BY DEF RouteIsBest, AnswersBest
  <1> QED
    BY RouteForIsBest DEF RegionInv

-----------------------------------------------------------------------------
(***************************************************************************)
(* The tool router                                                         *)
(***************************************************************************)

Futures == {"none", "queued", "running", "ok", "raised", "cancelled"}

CallStates == [phase : {"idle", "waiting", "done"}, tool : ToolNames \union {"none"},
               attempt : 0 .. MaxToolAttempts, escalated : BOOLEAN,
               status : {"none", "ok", "blocked", "timeout", "error", "escalated"}]

\* One call, with the futures of its attempts.
CallIsSound(k, f) ==
  /\ k.attempt \in 0 .. MaxToolAttempts
  /\ f \in [Attempts -> Futures]
  /\ k.phase = "idle" => k.attempt = 0
  /\ k.phase # "done" => k.status = "none"
  /\ k.phase = "waiting" => k.attempt \in Attempts
  /\ k.status = "ok" => k.attempt \in Attempts /\ f[k.attempt] = "ok" /\ k.escalated = FALSE
  /\ k.status = "blocked" => k.attempt = 0
  /\ \A a \in Attempts : a > k.attempt => f[a] = "none"
  /\ k.status \in {"timeout", "error", "escalated"} => k.escalated = TRUE
  /\ ~RetryOnTimeout => \A a \in Attempts : a < k.attempt => f[a] = "raised"

ToolInv ==
  /\ call \in [ToolCalls -> CallStates]
  /\ run \in [ToolCalls -> [Attempts -> Futures]]
  /\ \A c \in ToolCalls : CallIsSound(call[c], run[c])
  /\ IsFiniteSet(Busy) /\ Cardinality(Busy) <= ToolThreads

\* Futures that come to no new running one leave the threads no busier.
LEMMA NoBusier ==
  ASSUME Busy' \subseteq Busy, IsFiniteSet(Busy), Cardinality(Busy) <= ToolThreads
  PROVE  IsFiniteSet(Busy') /\ Cardinality(Busy') <= ToolThreads
  <1>1. /\ IsFiniteSet(Busy') /\ Cardinality(Busy') <= Cardinality(Busy)
        /\ Cardinality(Busy) \in Nat /\ Cardinality(Busy') \in Nat
    BY FS_Subset, FS_CardinalityType
  <1> QED
    BY <1>1, ToolAssumption

\* A step that changes one call and its futures.
LEMMA OneCall ==
  ASSUME ToolInv, NEW c \in ToolCalls,
         call' \in [ToolCalls -> CallStates], run' \in [ToolCalls -> [Attempts -> Futures]],
         \A d \in ToolCalls \ {c} : call'[d] = call[d] /\ run'[d] = run[d],
         CallIsSound(call'[c], run'[c]),
         \A a \in Attempts : run'[c][a] = "running" => run[c][a] = "running"
  PROVE  ToolInv'
  <1>1. \A d \in ToolCalls : CallIsSound(call'[d], run'[d])
    BY DEF ToolInv
  <1>2. Busy' \subseteq Busy
    <2> SUFFICES ASSUME NEW d \in ToolCalls, NEW a \in Attempts, run'[d][a] = "running"
                 PROVE  run[d][a] = "running"
      BY DEF Busy
    <2> QED
      BY Zenon
  <1>3. IsFiniteSet(Busy') /\ Cardinality(Busy') <= ToolThreads
    BY <1>2, NoBusier DEF ToolInv
  <1>4. \A d \in ToolCalls : CallIsSound(call[d], run[d])'
    BY <1>1 DEF CallIsSound
  <1> QED
    BY <1>3, <1>4 DEF ToolInv

LEMMA ToolInvIsSound == ToolInv => ToolCallsAreSound
  <1> SUFFICES ASSUME ToolInv, NEW c \in ToolCalls
               PROVE  /\ call[c].status = "ok" => run[c][call[c].attempt] = "ok" /\ ~call[c].escalated
                      /\ call[c].status = "blocked" => \A a \in Attempts : run[c][a] = "none"
                      /\ \A a \in Attempts : a > call[c].attempt => run[c][a] = "none"
                      /\ call[c].status \in {"timeout", "error", "escalated"} => call[c].escalated
                      /\ ~RetryOnTimeout => \A a \in Attempts : a < call[c].attempt => run[c][a] = "raised"
                      /\ Cardinality(Busy) <= ToolThreads
    BY DEF ToolCallsAreSound
  <1>1. CallIsSound(call[c], run[c])
    BY DEF ToolInv
  <1>2. call[c].status = "ok" => run[c][call[c].attempt] = "ok" /\ ~call[c].escalated
    BY <1>1, Zenon DEF CallIsSound
  <1>3. call[c].status \in {"timeout", "error", "escalated"} => call[c].escalated
    BY <1>1, Zenon DEF CallIsSound
  <1>4. call[c].status = "blocked" => \A a \in Attempts : run[c][a] = "none"
    <2>1. \A a \in Attempts : a > 0
      BY DEF Attempts
    <2> QED
      BY <1>1, <2>1 DEF CallIsSound
  <1> QED
    BY <1>1, <1>2, <1>3, <1>4 DEF CallIsSound, ToolInv

\* invoke() up to its first wait.
LEMMA InvokeIsSound ==
  ASSUME ToolInv, NEW c \in ToolCalls, NEW t \in ToolNames, Invoke(c, t)
  PROVE  ToolInv'
  <1>0. /\ call \in [ToolCalls -> CallStates] /\ run \in [ToolCalls -> [Attempts -> Futures]]
        /\ CallIsSound(call[c], run[c]) /\ MaxToolAttempts \in Nat \ {0} /\ 1 \in Attempts
    BY ToolAssumption DEF ToolInv, Attempts
  <1>1. call[c].phase = "idle" /\ \A a \in Attempts : run[c][a] = "none" /\ a \in Nat /\ a >= 1
    <2>1. \A a \in Attempts : a > 0 /\ a \in Nat /\ a >= 1
      BY <1>0 DEF Attempts
    <2> QED
      BY <1>0, <2>1 DEF Invoke, CallIsSound
  <1>2. CASE registry[t] # "absent" /\ t \in allowlist
    <2> DEFINE k == [NoCall EXCEPT !.phase = "waiting", !.tool = t, !.attempt = 1]
    <2>1. call' = [call EXCEPT ![c] = k] /\ run' = [run EXCEPT ![c][1] = "queued"]
      BY <1>2 DEF Invoke, SubmitAttempt
    <2>2. /\ k \in CallStates /\ k.phase = "waiting" /\ k.attempt = 1 /\ k.status = "none"
      <3>1. /\ NoCall \in CallStates /\ NoCall.attempt = 0 /\ NoCall.status = "none"
            /\ 1 \in 0 .. MaxToolAttempts
        BY <1>0 DEF NoCall, CallStates
      <3> QED
        BY <3>1 DEF CallStates
    <2> HIDE DEF k
    <2>3. /\ call' \in [ToolCalls -> CallStates] /\ call'[c] = k
          /\ \A d \in ToolCalls \ {c} : call'[d] = call[d]
      BY <1>0, <2>1, <2>2
    <2>4. /\ run' \in [ToolCalls -> [Attempts -> Futures]]
          /\ \A d \in ToolCalls \ {c} : run'[d] = run[d]
          /\ \A a \in Attempts : run'[c][a] = IF a = 1 THEN "queued" ELSE run[c][a]
      BY <1>0, <2>1 DEF Futures
    <2>5. CallIsSound(call'[c], run'[c])
      BY <1>0, <1>1, <2>2, <2>3, <2>4 DEF CallIsSound
    <2> QED
      BY <2>3, <2>4, <2>5, OneCall
  <1>3. CASE ~(registry[t] # "absent" /\ t \in allowlist)
    <2> DEFINE k == [NoCall EXCEPT !.phase = "done", !.tool = t, !.status = "blocked"]
    <2>1. call' = [call EXCEPT ![c] = k] /\ run' = run
      BY <1>3 DEF Invoke
    <2>2. /\ k \in CallStates /\ k.phase = "done" /\ k.attempt = 0 /\ k.status = "blocked"
      <3>1. /\ NoCall \in CallStates /\ NoCall.attempt = 0 /\ NoCall.status = "none"
            /\ 1 \in 0 .. MaxToolAttempts
        BY <1>0 DEF NoCall, CallStates
      <3> QED
        BY <3>1 DEF CallStates
    <2> HIDE DEF k
    <2>3. /\ call' \in [ToolCalls -> CallStates] /\ call'[c] = k
          /\ \A d \in ToolCalls \ {c} : call'[d] = call[d]
      BY <1>0, <2>1, <2>2
    <2>5. CallIsSound(call'[c], run'[c])
      BY <1>0, <1>1, <2>1, <2>2, <2>3 DEF CallIsSound
    <2> QED
      BY <1>0, <2>1, <2>3, <2>5, OneCall
  <1> QED
    BY <1>2, <1>3

\* A thread takes an attempt that waits.
LEMMA HandlerStarts ==
  ASSUME ToolInv, NEW c \in ToolCalls, NEW a \in Attempts, StartHandler(c, a)
  PROVE  ToolInv'
  <1>0. /\ call \in [ToolCalls -> CallStates] /\ run \in [ToolCalls -> [Attempts -> Futures]]
        /\ \A d \in ToolCalls : CallIsSound(call[d], run[d])
        /\ IsFiniteSet(Busy) /\ Cardinality(Busy) \in Nat /\ ToolThreads \in Nat
    BY ToolAssumption, FS_CardinalityType DEF ToolInv
  <1>1. /\ run[c][a] = "queued" /\ Cardinality(Busy) < ToolThreads
        /\ run' = [run EXCEPT ![c][a] = "running"] /\ call' = call
    BY DEF StartHandler
  <1>2. /\ run' \in [ToolCalls -> [Attempts -> Futures]]
        /\ \A d \in ToolCalls \ {c} : run'[d] = run[d]
        /\ \A b \in Attempts : run'[c][b] = IF b = a THEN "running" ELSE run[c][b]
    BY <1>0, <1>1 DEF Futures
  <1>3. CallIsSound(call[c], run'[c])
    <2>1. CallIsSound(call[c], run[c]) /\ call[c] \in CallStates
      BY <1>0
    <2> QED
      BY <1>1, <1>2, <2>1 DEF CallIsSound
  <1>4. \A d \in ToolCalls : CallIsSound(call[d], run[d])'
    <2> SUFFICES ASSUME NEW d \in ToolCalls PROVE CallIsSound(call'[d], run'[d])
      BY DEF CallIsSound
    <2> QED
      BY <1>0, <1>1, <1>2, <1>3
  <1>5. Busy' = Busy \union {<<c, a>>} /\ <<c, a>> \notin Busy
    <2>1. \A d \in ToolCalls, b \in Attempts : run'[d][b] = "running" <=>
             (run[d][b] = "running" \/ (d = c /\ b = a))
      BY <1>2
    <2> QED
      BY <1>1, <2>1 DEF Busy
  <1>6. IsFiniteSet(Busy') /\ Cardinality(Busy') = Cardinality(Busy) + 1
    BY <1>0, <1>5, FS_AddElement
  <1>7. Cardinality(Busy') <= ToolThreads
    BY <1>0, <1>1, <1>6
  <1>8. call' \in [ToolCalls -> CallStates]
    BY <1>0, <1>1
  <1> QED
    BY <1>2, <1>4, <1>6, <1>7, <1>8, Zenon DEF ToolInv

\* A handler ends, in time or late.
LEMMA HandlerEnds ==
  ASSUME ToolInv, NEW c \in ToolCalls, NEW a \in Attempts, NEW result \in {"ok", "raised"},
         EndHandler(c, a, result)
  PROVE  ToolInv'
  <1>0. /\ call \in [ToolCalls -> CallStates] /\ run \in [ToolCalls -> [Attempts -> Futures]]
        /\ CallIsSound(call[c], run[c])
    BY DEF ToolInv
  <1>1. run[c][a] = "running" /\ run' = [run EXCEPT ![c][a] = result] /\ call' = call
    BY DEF EndHandler
  <1>2. /\ run' \in [ToolCalls -> [Attempts -> Futures]]
        /\ \A d \in ToolCalls \ {c} : run'[d] = run[d]
        /\ \A b \in Attempts : run'[c][b] = IF b = a THEN result ELSE run[c][b]
    BY <1>0, <1>1 DEF Futures
  <1>3. CallIsSound(call'[c], run'[c])
    BY <1>0, <1>1, <1>2 DEF CallIsSound
  <1> QED
    BY <1>0, <1>1, <1>2, <1>3, OneCall

\* A call that fails on its last attempt ends and is escalated; another has one more.
LEMMA AfterFailureIs ==
  ASSUME ToolInv, NEW c \in ToolCalls, NEW status \in {"error", "timeout"}, NEW b,
         NEW more \in BOOLEAN, AfterFailure(c, status, b, more),
         call[c].attempt \in Nat, more => call[c].attempt < MaxToolAttempts, call[c].phase = "waiting"
  PROVE  /\ call' \in [ToolCalls -> CallStates]
         /\ \A d \in ToolCalls \ {c} : call'[d] = call[d]
         /\ more => /\ call'[c].attempt = call[c].attempt + 1 /\ call'[c].phase = "waiting"
                    /\ call'[c].status = "none"
         /\ ~more => /\ call'[c].attempt = call[c].attempt /\ call'[c].phase = "done"
                     /\ call'[c].status \in {"error", "timeout", "escalated"}
                     /\ call'[c].escalated = TRUE
  <1>0. call \in [ToolCalls -> CallStates] /\ call[c] \in CallStates /\ call[c].status = "none"
    BY DEF ToolInv, CallIsSound
  <1>1. CASE more
    <2>1. call' = [call EXCEPT ![c].attempt = @ + 1]
      BY <1>1 DEF AfterFailure
    <2> DEFINE k == [call[c] EXCEPT !.attempt = call[c].attempt + 1]
    <2>2. call' = [call EXCEPT ![c] = k]
      BY <1>0, <2>1
    <2>3. /\ k \in CallStates /\ k.attempt = call[c].attempt + 1 /\ k.phase = "waiting" /\ k.status = "none"
      <3>1. call[c].attempt + 1 \in 0 .. MaxToolAttempts
        BY <1>1, ToolAssumption
      <3> QED
        BY <1>0, <3>1 DEF CallStates
    <2> HIDE DEF k
    <2> QED
      BY <1>0, <1>1, <2>2, <2>3
  <1>2. CASE ~more
    <2> DEFINE s == EscalatedStatus(status, b)
               k == [call[c] EXCEPT !.phase = "done", !.status = s, !.escalated = TRUE]
    <2>1. call' = [call EXCEPT ![c].phase = "done", ![c].status = s, ![c].escalated = TRUE]
      BY <1>2, Zenon DEF AfterFailure, Finish
    <2>2. s \in {"error", "timeout", "escalated"}
      BY DEF EscalatedStatus
    <2> HIDE DEF s
    <2>3. call' = [call EXCEPT ![c] = k]
      BY <1>0, <2>1
    <2>4. k \in CallStates /\ k.phase = "done" /\ k.status = s /\ k.attempt = call[c].attempt
      BY <1>0, <2>2 DEF CallStates
    <2>5. k.escalated = TRUE
      BY <1>0 DEF CallStates
    <2> HIDE DEF k
    <2> QED
      BY <1>0, <1>2, <2>2, <2>3, <2>4, <2>5
  <1> QED
    BY <1>1, <1>2

\* future.result() returns or raises.
LEMMA TakeResultIsSound ==
  ASSUME ToolInv, NEW c \in ToolCalls, NEW b, TakeResult(c, b)
  PROVE  ToolInv'
  <1> DEFINE a == call[c].attempt
             more == a < MaxToolAttempts
  <1>0. /\ call \in [ToolCalls -> CallStates] /\ run \in [ToolCalls -> [Attempts -> Futures]]
        /\ call[c] \in CallStates /\ MaxToolAttempts \in Nat /\ a \in Attempts /\ a \in Nat /\ a >= 1
        /\ a \in 0 .. MaxToolAttempts
        /\ \A n \in Attempts : n \in Nat
        /\ CallIsSound(call[c], run[c]) /\ call[c].phase = "waiting"
    BY ToolAssumption DEF ToolInv, CallIsSound, Attempts, TakeResult
  <1>1. CASE run[c][a] = "ok"
    <2> DEFINE k == [call[c] EXCEPT !.phase = "done", !.status = "ok", !.escalated = FALSE]
    <2>1. /\ call' = [call EXCEPT ![c].phase = "done", ![c].status = "ok", ![c].escalated = FALSE]
          /\ run' = run
      BY <1>1, Zenon DEF TakeResult, Finish
    <2>2. call' = [call EXCEPT ![c] = k]
      BY <1>0, <2>1
    <2>3. k \in CallStates /\ k.phase = "done" /\ k.status = "ok" /\ k.attempt = a
      BY <1>0 DEF CallStates
    <2>4. k.escalated = FALSE
      BY <1>0 DEF CallStates
    <2> HIDE DEF k, a
    <2>5. call' \in [ToolCalls -> CallStates] /\ call'[c] = k /\ \A d \in ToolCalls \ {c} : call'[d] = call[d]
      BY <1>0, <2>2, <2>3
    <2>6. CallIsSound(k, run[c])
      <3>1. CallIsSound(call[c], run[c]) /\ call[c].attempt = a
        BY <1>0 DEF a
      <3> QED
        BY <1>0, <1>1, <2>3, <2>4, <3>1 DEF CallIsSound
    <2> QED
      BY <1>0, <2>1, <2>5, <2>6, OneCall
  <1>2. CASE run[c][a] # "ok"
    <2>1. /\ run[c][a] = "raised" /\ AfterFailure(c, "error", b, more)
          /\ run' = IF more THEN [run EXCEPT ![c][a + 1] = "queued"] ELSE run
      BY <1>2 DEF TakeResult, SubmitAttempt
    <2>2. /\ call' \in [ToolCalls -> CallStates]
          /\ \A d \in ToolCalls \ {c} : call'[d] = call[d]
          /\ more => /\ call'[c].attempt = a + 1 /\ call'[c].phase = "waiting" /\ call'[c].status = "none"
          /\ ~more => /\ call'[c].attempt = a /\ call'[c].phase = "done"
                      /\ call'[c].status \in {"error", "timeout", "escalated"} /\ call'[c].escalated = TRUE
      <3>1. more \in BOOLEAN
        OBVIOUS
      <3> HIDE DEF more
      <3>2. more => call[c].attempt < MaxToolAttempts
        BY DEF more
      <3> QED
        BY <1>0, <2>1, <3>1, <3>2, AfterFailureIs
    <2>3. /\ run' \in [ToolCalls -> [Attempts -> Futures]]
          /\ \A d \in ToolCalls \ {c} : run'[d] = run[d]
          /\ \A n \in Attempts : run'[c][n] = IF more /\ n = a + 1 THEN "queued" ELSE run[c][n]
      BY <1>0, <2>1 DEF Futures
    <2>4. CallIsSound(call'[c], run'[c])
      <3>1. CallIsSound(call[c], run[c]) /\ call[c].attempt = a
        BY <1>0
      <3>2. more => a + 1 \in Attempts
        BY <1>0 DEF Attempts
      <3>3. call'[c] \in CallStates /\ run'[c] \in [Attempts -> Futures]
        BY <2>2, <2>3
      <3> HIDE DEF a
      <3>4. CASE more
        BY <1>0, <2>1, <2>2, <2>3, <3>1, <3>2, <3>3, <3>4 DEF CallIsSound
      <3>5. CASE ~more
        BY <1>0, <2>1, <2>2, <2>3, <3>1, <3>3, <3>5 DEF CallIsSound
      <3> QED
        BY <3>4, <3>5
    <2>5. \A n \in Attempts : run'[c][n] = "running" => run[c][n] = "running"
      BY <2>3
    <2> QED
      BY <2>2, <2>3, <2>4, <2>5, OneCall
  <1> QED
    BY <1>1, <1>2

\* The time of an attempt is over.
LEMMA TimeOutIsSound ==
  ASSUME ToolInv, NEW c \in ToolCalls, NEW b, TimeOut(c, b)
  PROVE  ToolInv'
  <1> DEFINE a == call[c].attempt
             more == a < MaxToolAttempts /\ RetryOnTimeout
             left == IF run[c][a] = "queued" THEN "cancelled" ELSE run[c][a]
  <1>0. /\ call \in [ToolCalls -> CallStates] /\ run \in [ToolCalls -> [Attempts -> Futures]]
        /\ call[c] \in CallStates /\ MaxToolAttempts \in Nat /\ a \in Attempts /\ a \in Nat /\ a >= 1
        /\ a \in 0 .. MaxToolAttempts
        /\ \A n \in Attempts : n \in Nat
        /\ CallIsSound(call[c], run[c]) /\ call[c].phase = "waiting"
    BY ToolAssumption DEF ToolInv, CallIsSound, Attempts, TimeOut
  <1>1. /\ run[c][a] \in {"queued", "running"} /\ AfterFailure(c, "timeout", b, more)
        /\ run' = IF more THEN [run EXCEPT ![c][a] = left, ![c][a + 1] = "queued"]
                   ELSE [run EXCEPT ![c][a] = left]
    BY Zenon DEF TimeOut
  <1>2. /\ call' \in [ToolCalls -> CallStates]
        /\ \A d \in ToolCalls \ {c} : call'[d] = call[d]
        /\ more => /\ call'[c].attempt = a + 1 /\ call'[c].phase = "waiting" /\ call'[c].status = "none"
        /\ ~more => /\ call'[c].attempt = a /\ call'[c].phase = "done"
                    /\ call'[c].status \in {"error", "timeout", "escalated"} /\ call'[c].escalated = TRUE
    <2>1. more \in BOOLEAN
      BY ToolAssumption
    <2> HIDE DEF more
    <2>2. more => call[c].attempt < MaxToolAttempts
      BY DEF more
    <2> QED
      BY <1>0, <1>1, <2>1, <2>2, AfterFailureIs
  <1>3. left \in Futures /\ left # "none" /\ (left = "running" => run[c][a] = "running")
    BY <1>1 DEF Futures
  <1> HIDE DEF left
  <1>4. /\ run' \in [ToolCalls -> [Attempts -> Futures]]
        /\ \A d \in ToolCalls \ {c} : run'[d] = run[d]
        /\ \A n \in Attempts : run'[c][n] = IF n = a THEN left
                                             ELSE IF more /\ n = a + 1 THEN "queued" ELSE run[c][n]
    <2>1. CASE more
      <3>1. run' = [run EXCEPT ![c][a] = left, ![c][a + 1] = "queued"]
        BY <1>1, <2>1
      <3> DEFINE first == [run EXCEPT ![c][a] = left]
      <3>2. run' = [first EXCEPT ![c][a + 1] = "queued"]
        BY <3>1
      <3>3. /\ first \in [ToolCalls -> [Attempts -> Futures]]
            /\ \A d \in ToolCalls \ {c} : first[d] = run[d]
            /\ \A n \in Attempts : first[c][n] = IF n = a THEN left ELSE run[c][n]
        BY <1>0, <1>3
      <3> HIDE DEF first
      <3>4. a + 1 # a
        BY <1>0
      <3> QED
        BY <1>0, <2>1, <3>2, <3>3, <3>4 DEF Futures
    <2>2. CASE ~more
      <3>1. run' = [run EXCEPT ![c][a] = left]
        BY <1>1, <2>2
      <3> QED
        BY <1>0, <1>3, <2>2, <3>1 DEF Futures
    <2> QED
      BY <2>1, <2>2
  <1>5. CallIsSound(call'[c], run'[c])
    <2>1. CallIsSound(call[c], run[c]) /\ call[c].attempt = a
      BY <1>0
    <2>2. more => a + 1 \in Attempts /\ RetryOnTimeout
      BY <1>0 DEF Attempts
    <2>3. call'[c] \in CallStates /\ run'[c] \in [Attempts -> Futures]
      BY <1>2, <1>4
    <2> HIDE DEF a
    <2>4. CASE more
      BY <1>0, <1>2, <1>4, <2>1, <2>2, <2>3, <2>4 DEF CallIsSound
    <2>5. CASE ~more
      BY <1>0, <1>1, <1>2, <1>4, <2>1, <2>3, <2>5 DEF CallIsSound
    <2> QED
      BY <2>4, <2>5
  <1>6. \A n \in Attempts : run'[c][n] = "running" => run[c][n] = "running"
    BY <1>3, <1>4
  <1> QED
    BY <1>2, <1>4, <1>5, <1>6, OneCall

LEMMA ToolInvariance == ToolSpec => []ToolInv
  <1>1. ToolInit => ToolInv
    <2> SUFFICES ASSUME ToolInit PROVE ToolInv
      OBVIOUS
    <2>1. /\ call = [c \in ToolCalls |-> NoCall] /\ run = [c \in ToolCalls |-> [a \in Attempts |-> "none"]]
          /\ MaxToolAttempts \in Nat /\ ToolThreads \in Nat
      BY ToolAssumption DEF ToolInit
    <2>2. NoCall \in CallStates
      BY <2>1 DEF NoCall, CallStates
    <2>3. CallIsSound(NoCall, [a \in Attempts |-> "none"])
      <3>1. /\ NoCall.attempt = 0 /\ NoCall.status = "none" /\ NoCall.phase = "idle"
        BY DEF NoCall
      <3>2. \A a \in Attempts : ~(a < 0)
        BY <2>1 DEF Attempts
      <3> QED
        BY <2>1, <3>1, <3>2 DEF CallIsSound, Futures
    <2>4. Busy = {}
      BY <2>1 DEF Busy
    <2> QED
      BY <2>1, <2>2, <2>3, <2>4, FS_EmptySet DEF ToolInv, Futures
  <1>2. ToolInv /\ [ToolNext]_toolVars => ToolInv'
    <2> SUFFICES ASSUME ToolInv, [ToolNext]_toolVars PROVE ToolInv'
      OBVIOUS
    <2>1. ASSUME call' = call, run' = run PROVE ToolInv'
      <3>1. \A c \in ToolCalls : CallIsSound(call[c], run[c])' = CallIsSound(call[c], run[c])
        BY <2>1 DEF CallIsSound
      <3>2. Busy' = Busy
        BY <2>1 DEF Busy
      <3> QED
        BY <2>1, <3>1, <3>2 DEF ToolInv
    <2>2. ASSUME NEW t \in ToolNames, NEW flag \in {"safe", "unsafe"}, RegisterTool(t, flag) PROVE ToolInv'
      BY <2>1, <2>2 DEF RegisterTool
    <2>3. CASE UNCHANGED toolVars
      BY <2>1, <2>3 DEF toolVars
    <2> QED
      BY <2>2, <2>3, InvokeIsSound, HandlerStarts, HandlerEnds, TakeResultIsSound, TimeOutIsSound DEF ToolNext
  <1> QED
    BY <1>1, <1>2, PTL DEF ToolSpec

-----------------------------------------------------------------------------
(***************************************************************************)
(* A pool of workers and its queue                                         *)
(***************************************************************************)

CountOf(q, x) == Cardinality({i \in DOMAIN q : q[i] = x})
TakenBy(live, taken, x) == Cardinality({w \in live : taken[w] = x})

Markings(n, m) == [i \in 1 .. n |-> m]
Given(taken, w, y) == [taken EXCEPT ![w] = y]

LEMMA CountIsNat ==
  ASSUME NEW S, NEW q \in Seq(S), NEW x
  PROVE  IsFiniteSet({i \in DOMAIN q : q[i] = x}) /\ CountOf(q, x) \in Nat
  <1>1. {i \in DOMAIN q : q[i] = x} \subseteq 1 .. Len(q) /\ Len(q) \in Nat
    OBVIOUS
  <1>2. IsFiniteSet(1 .. Len(q))
    BY <1>1, FS_Interval
  <1>3. IsFiniteSet({i \in DOMAIN q : q[i] = x})
    BY <1>1, <1>2, FS_Subset
  <1> QED
    BY <1>3, FS_CardinalityType DEF CountOf

LEMMA TakenIsNat ==
  ASSUME NEW live, IsFiniteSet(live), NEW taken, NEW x
  PROVE  IsFiniteSet({w \in live : taken[w] = x}) /\ TakenBy(live, taken, x) \in Nat
  <1> DEFINE T == {w \in live : taken[w] = x}
  <1>1. T \subseteq live
    OBVIOUS
  <1> HIDE DEF T
  <1>2. IsFiniteSet(T) /\ Cardinality(T) \in Nat
    BY <1>1, FS_Subset, FS_CardinalityType
  <1> QED
    BY <1>2 DEF T, TakenBy

\* One more at the end.
LEMMA CountAppend ==
  ASSUME NEW S, NEW q \in Seq(S), NEW y \in S, NEW x
  PROVE  CountOf(Append(q, y), x) = CountOf(q, x) + (IF x = y THEN 1 ELSE 0)
  <1> DEFINE A == {i \in DOMAIN q : q[i] = x}
             B == {i \in DOMAIN Append(q, y) : Append(q, y)[i] = x}
             n == Len(q) + 1
  <1>1. /\ DOMAIN q = 1 .. Len(q) /\ DOMAIN Append(q, y) = 1 .. n /\ Len(q) \in Nat /\ n \notin A
        /\ Append(q, y)[n] = y /\ \A i \in 1 .. Len(q) : Append(q, y)[i] = q[i]
    OBVIOUS
  <1>2. IsFiniteSet(A) /\ Cardinality(A) \in Nat
    BY CountIsNat DEF CountOf
  <1>3. CASE x = y
    <2>1. B = A \cup {n}
      BY <1>1, <1>3
    <2> HIDE DEF A, B, n
    <2>2. Cardinality(B) = Cardinality(A) + 1
      BY <1>1, <1>2, <2>1, FS_AddElement
    <2> QED
      BY <1>3, <2>2 DEF CountOf, A, B
  <1>4. CASE x # y
    <2>1. B = A
      BY <1>1, <1>4
    <2> HIDE DEF A, B
    <2>2. Cardinality(B) = Cardinality(A) + 0
      BY <1>2, <2>1
    <2> QED
      BY <1>4, <2>2 DEF CountOf, A, B
  <1> QED
    BY <1>3, <1>4

\* One less at the front.
LEMMA CountTail ==
  ASSUME NEW S, NEW q \in Seq(S), q # <<>>, NEW x
  PROVE  CountOf(q, x) = CountOf(Tail(q), x) + (IF x = Head(q) THEN 1 ELSE 0)
  <1> DEFINE A == {i \in DOMAIN Tail(q) : Tail(q)[i] = x}
             B == {i \in DOMAIN q : q[i] = x}
             C == B \ {1}
             f == [i \in A |-> i + 1]
  <1>1. /\ DOMAIN q = 1 .. Len(q) /\ DOMAIN Tail(q) = 1 .. Len(q) - 1 /\ Len(q) \in Nat \ {0}
        /\ q[1] = Head(q) /\ \A i \in 1 .. Len(q) - 1 : Tail(q)[i] = q[i + 1]
        /\ Tail(q) \in Seq(S)
    OBVIOUS
  <1>2. /\ IsFiniteSet(A) /\ Cardinality(A) \in Nat
        /\ IsFiniteSet(B) /\ Cardinality(B) \in Nat
    BY <1>1, CountIsNat DEF CountOf
  <1>3. f \in Bijection(A, C)
    <2>1. A \subseteq Nat /\ \A i \in A : i + 1 \in C
      BY <1>1
    <2>2. \A k \in C : k - 1 \in A /\ (k - 1) + 1 = k
      <3> SUFFICES ASSUME NEW k \in C PROVE k - 1 \in A /\ (k - 1) + 1 = k
        OBVIOUS
      <3>1. k \in 1 .. Len(q) /\ k # 1 /\ q[k] = x
        BY <1>1
      <3>2. k - 1 \in 1 .. Len(q) - 1 /\ (k - 1) + 1 = k
        BY <1>1, <3>1
      <3>3. Tail(q)[k - 1] = x
        BY <1>1, <3>1, <3>2
      <3> QED
        BY <1>1, <3>2, <3>3
    <2> HIDE DEF A, C
    <2>3. f \in [A -> C]
      BY <2>1
    <2>4. \A i, j \in A : f[i] = f[j] => i = j
      BY <2>1
    <2>5. \A k \in C : \E i \in A : f[i] = k
      BY <2>2
    <2> HIDE DEF f
    <2> QED
      BY <2>3, <2>4, <2>5 DEF Bijection, Injection, Surjection, IsInjective
  <1>4. Cardinality(C) = Cardinality(A)
    <2> HIDE DEF A, C, f
    <2> QED
      BY <1>2, <1>3, FS_Bijection DEF ExistsBijection
  <1>5. CASE x = Head(q)
    <2>1. 1 \in B
      BY <1>1, <1>5
    <2> HIDE DEF A, B
    <2>2. Cardinality(C) = Cardinality(B) - 1
      BY <1>2, <2>1, FS_RemoveElement
    <2>3. Cardinality(B) = Cardinality(A) + 1
      BY <1>2, <1>4, <2>2
    <2> QED
      BY <1>5, <2>3 DEF CountOf, A, B
  <1>6. CASE x # Head(q)
    <2>1. C = B
      BY <1>1, <1>6
    <2> HIDE DEF A, B, C
    <2>2. Cardinality(B) = Cardinality(A) + 0
      BY <1>2, <1>4, <2>1
    <2> QED
      BY <1>6, <2>2 DEF CountOf, A, B
  <1> QED
    BY <1>5, <1>6

\* n end markers more.
LEMMA CountMarkers ==
  ASSUME NEW S, NEW q \in Seq(S), NEW n \in Nat, NEW x, NEW m \in S
  PROVE  CountOf(q \o Markings(n, m), x) = CountOf(q, x) + (IF x = m THEN n ELSE 0)
  <1> DEFINE t == [i \in 1 .. n |-> m]
             r == q \o Markings(n, m)
             A == {i \in DOMAIN q : q[i] = x}
             B == {i \in DOMAIN r : r[i] = x}
             N == Len(q) + 1 .. Len(q) + n
  <1>1. t \in Seq(S) /\ Len(t) = n /\ r = q \o t
    BY DEF Markings
  <1> HIDE DEF t
  <1>2. /\ DOMAIN q = 1 .. Len(q) /\ DOMAIN r = 1 .. Len(q) + n /\ Len(q) \in Nat
        /\ \A i \in 1 .. Len(q) : r[i] = q[i]
    <2>1. Len(r) = Len(q) + n /\ r \in Seq(S) /\ Len(q) \in Nat
      BY <1>1
    <2>2. \A i \in 1 .. Len(q) : r[i] = q[i]
      BY <1>1
    <2> HIDE DEF r
    <2> QED
      BY <2>1, <2>2
  <1>3. \A i \in N : r[i] = m
    <2> SUFFICES ASSUME NEW i \in N PROVE r[i] = m
      OBVIOUS
    <2>1. i - Len(q) \in 1 .. n /\ r[i] = t[i - Len(q)]
      BY <1>1, <1>2
    <2> QED
      BY <2>1 DEF t
  <1> HIDE DEF r
  <1>4. IsFiniteSet(A) /\ Cardinality(A) \in Nat /\ IsFiniteSet(N) /\ Cardinality(N) = n
    <2>1. IsFiniteSet(A) /\ Cardinality(A) \in Nat
      BY CountIsNat DEF CountOf
    <2>2. Len(q) + 1 \in Int /\ Len(q) + n \in Int
      BY <1>2
    <2> DEFINE lo == Len(q) + 1
               hi == Len(q) + n
    <2>3. (lo > hi <=> n = 0) /\ hi - lo + 1 = n /\ N = lo .. hi
      BY <1>2
    <2> HIDE DEF lo, hi, N
    <2>4. IsFiniteSet(N) /\ Cardinality(N) = IF lo > hi THEN 0 ELSE hi - lo + 1
      BY <2>2, <2>3, FS_Interval DEF lo, hi
    <2> QED
      BY <1>2, <2>1, <2>3, <2>4
  <1>5. CASE x = m
    <2>1. B = A \cup N /\ A \cap N = {}
      BY <1>2, <1>3, <1>5
    <2> HIDE DEF A, B, N
    <2>2. Cardinality(B) = Cardinality(A) + Cardinality(N) - Cardinality({})
      BY <1>4, <2>1, FS_Union
    <2>3. Cardinality(B) = Cardinality(A) + n
      BY <1>4, <2>2, FS_EmptySet
    <2> QED
      BY <1>5, <2>3 DEF CountOf, A, B, r
  <1>6. CASE x # m
    <2>1. B = A
      BY <1>2, <1>3, <1>6
    <2> HIDE DEF A, B
    <2>2. Cardinality(B) = Cardinality(A) + 0
      BY <1>4, <2>1
    <2> QED
      BY <1>6, <2>2 DEF CountOf, A, B, r
  <1> QED
    BY <1>5, <1>6

\* A worker that gets a job, or is rid of one.
LEMMA TakenChanges ==
  ASSUME NEW live, IsFiniteSet(live), NEW D, live \subseteq D, NEW J, NEW taken \in [D -> J],
         NEW w \in live, NEW y \in J, NEW x
  PROVE  TakenBy(live, Given(taken, w, y), x) + (IF x = taken[w] THEN 1 ELSE 0)
           = TakenBy(live, taken, x) + (IF x = y THEN 1 ELSE 0)
  <1> DEFINE new == Given(taken, w, y)
             A == {v \in live : taken[v] = x}
             B == {v \in live : new[v] = x}
             C == {v \in live \ {w} : taken[v] = x}
  <1>1. /\ \A v \in live : new[v] = IF v = w THEN y ELSE taken[v]
        /\ w \notin C /\ C \subseteq live
    BY DEF Given
  <1> HIDE DEF new
  <1>2. B = IF x = y THEN C \cup {w} ELSE C
    BY <1>1
  <1>3. A = IF x = taken[w] THEN C \cup {w} ELSE C
    OBVIOUS
  <1> HIDE DEF A, B, C
  <1>4. IsFiniteSet(C) /\ Cardinality(C) \in Nat
    BY <1>1, FS_Subset, FS_CardinalityType
  <1>5. Cardinality(C \cup {w}) = Cardinality(C) + 1
    BY <1>1, <1>4, FS_AddElement
  <1>6. /\ Cardinality(B) = Cardinality(C) + (IF x = y THEN 1 ELSE 0)
        /\ Cardinality(A) = Cardinality(C) + (IF x = taken[w] THEN 1 ELSE 0)
    BY <1>2, <1>3, <1>4, <1>5
  <1> QED
    BY <1>4, <1>6 DEF TakenBy, A, B, new

\* What holds of a pool of workers and its queue: J the jobs, W the workers one
\* start creates, M the starts, D the jobs that wait or run, owed the workers
\* that a running pool will send an end marker.
PoolIs(J, W, M, D, owed, list, live, taken, queue, count) ==
  /\ count \in 0 .. M /\ owed \in {0, W}
  /\ IsFiniteSet(list) /\ Cardinality(list) <= W
  /\ live \subseteq 1 .. count * W
  /\ queue \in Seq(J \union {"None"})
  /\ taken \in [1 .. W * M -> J \union {"None"}]
  /\ \A w \in 1 .. W * M : w \notin live => taken[w] = "None"
  /\ \A j \in J : CountOf(queue, j) + TakenBy(live, taken, j) = IF j \in D THEN 1 ELSE 0
  /\ CountOf(queue, "None") + owed <= Cardinality(live)

\* The workers there are, so many as ever were at most.
LEMMA PoolWorkers ==
  ASSUME NEW W \in Nat \ {0}, NEW M \in Nat, NEW n \in 0 .. M
  PROVE  n * W \in Nat /\ n * W <= W * M /\ W * M \in Nat
  <1>1. PICK d \in Nat : M = n + d
    <2>1. M - n \in Nat /\ M = n + (M - n)
      OBVIOUS
    <2> QED
      BY <2>1
  <1>2. n * W \in Nat /\ d * W \in Nat /\ W * M = n * W + d * W
    BY <1>1
  <1> QED
    BY <1>2

LEMMA PoolLives ==
  ASSUME NEW J, NEW W \in Nat \ {0}, NEW M \in Nat, NEW D, NEW owed, NEW list, NEW live, NEW taken,
         NEW queue, NEW count, PoolIs(J, W, M, D, owed, list, live, taken, queue, count)
  PROVE  /\ IsFiniteSet(live) /\ Cardinality(live) \in Nat /\ live \subseteq 1 .. W * M
         /\ \A x : CountOf(queue, x) \in Nat /\ TakenBy(live, taken, x) \in Nat
         /\ Cardinality(list) \in Nat
  <1>1. count \in 0 .. M /\ live \subseteq 1 .. count * W /\ queue \in Seq(J \union {"None"}) /\ IsFiniteSet(list)
    BY DEF PoolIs
  <1>2. count * W \in Nat /\ count * W <= W * M /\ W * M \in Nat
    BY <1>1, PoolWorkers
  <1>3. IsFiniteSet(1 .. count * W)
    <2>1. 1 \in Int /\ count * W \in Int
      BY <1>2
    <2> QED
      BY <2>1, FS_Interval
  <1>4. IsFiniteSet(live) /\ Cardinality(live) \in Nat
    BY <1>1, <1>3, FS_Subset, FS_CardinalityType
  <1>5. \A x : CountOf(queue, x) \in Nat
    BY <1>1, CountIsNat
  <1>6. \A x : TakenBy(live, taken, x) \in Nat
    BY <1>4, TakenIsNat
  <1>7. live \subseteq 1 .. W * M
    BY <1>1, <1>2
  <1>8. Cardinality(list) \in Nat
    BY <1>1, FS_CardinalityType
  <1> QED
    BY <1>4, <1>5, <1>6, <1>7, <1>8

\* start(): workers with new names.
LEMMA PoolStarts ==
  ASSUME NEW J, NEW W \in Nat \ {0}, NEW M \in Nat, NEW D, NEW list, NEW live, NEW taken,
         NEW queue, NEW count, PoolIs(J, W, M, D, 0, list, live, taken, queue, count),
         count < M, "None" \notin J,
         NEW new, new = count * W + 1 .. (count + 1) * W
  PROVE  PoolIs(J, W, M, D, W, new, live \union new, taken, queue, count + 1)
  <1> DEFINE a == count * W
             more == live \union new
  <1>0. count \in 0 .. M /\ count + 1 \in 0 .. M
    BY DEF PoolIs
  <1>1. /\ a \in Nat /\ (count + 1) * W = a + W /\ a + W <= W * M /\ W * M \in Nat
        /\ new = a + 1 .. a + W
    <2>1. a \in Nat /\ (count + 1) * W = a + W
      BY <1>0
    <2>2. (count + 1) * W <= W * M /\ W * M \in Nat
      BY <1>0, PoolWorkers
    <2> QED
      BY <2>1, <2>2
  <1> HIDE DEF a
  <1>2. /\ IsFiniteSet(live) /\ Cardinality(live) \in Nat /\ live \subseteq 1 .. a
        /\ \A x : CountOf(queue, x) \in Nat /\ TakenBy(live, taken, x) \in Nat
    <2>1. /\ IsFiniteSet(live) /\ Cardinality(live) \in Nat /\ live \subseteq 1 .. W * M
          /\ \A x : CountOf(queue, x) \in Nat /\ TakenBy(live, taken, x) \in Nat
          /\ Cardinality(list) \in Nat
      BY PoolLives
    <2> QED
      BY <2>1 DEF PoolIs, a
  <1>3. IsFiniteSet(new) /\ Cardinality(new) = W
    <2> DEFINE lo == a + 1
               hi == a + W
    <2>1. lo \in Int /\ hi \in Int /\ ~(lo > hi) /\ hi - lo + 1 = W /\ new = lo .. hi
      BY <1>1
    <2> HIDE DEF lo, hi
    <2> QED
      BY <2>1, FS_Interval
  <1>4. live \cap new = {} /\ more \subseteq 1 .. a + W
    <2>1. /\ \A w \in live : w \in Nat /\ 1 <= w /\ w <= a
          /\ \A w \in new : w \in Nat /\ a + 1 <= w /\ w <= a + W
      <3>1. \A w \in 1 .. a : w \in Nat /\ 1 <= w /\ w <= a
        BY <1>1
      <3>2. \A w \in a + 1 .. a + W : w \in Nat /\ a + 1 <= w /\ w <= a + W
        BY <1>1
      <3> QED
        BY <1>1, <1>2, <3>1, <3>2
    <2>2. live \cap new = {}
      BY <1>1, <2>1
    <2>3. \A w \in more : w \in 1 .. a + W
      BY <1>1, <2>1
    <2> QED
      BY <2>2, <2>3
  <1>5. Cardinality(more) = Cardinality(live) + W
    <2>1. Cardinality(more) = Cardinality(live) + Cardinality(new) - Cardinality({})
      BY <1>2, <1>3, <1>4, FS_Union
    <2> QED
      BY <1>2, <1>3, <2>1, FS_EmptySet
  <1>6. \A w \in new : taken[w] = "None"
    BY <1>1, <1>4 DEF PoolIs
  <1>7. \A j \in J : TakenBy(more, taken, j) = TakenBy(live, taken, j)
    <2> SUFFICES ASSUME NEW j \in J PROVE TakenBy(more, taken, j) = TakenBy(live, taken, j)
      OBVIOUS
    <2>1. {w \in more : taken[w] = j} = {w \in live : taken[w] = j}
      BY <1>6
    <2> QED
      BY <2>1 DEF TakenBy
  <1> HIDE DEF more
  <1>8. CountOf(queue, "None") + W <= Cardinality(more)
    BY <1>2, <1>5 DEF PoolIs
  <1>9. /\ more \subseteq 1 .. (count + 1) * W
        /\ \A w \in 1 .. W * M : w \notin more => taken[w] = "None"
    BY <1>1, <1>4 DEF PoolIs, more
  <1>10. PoolIs(J, W, M, D, W, new, more, taken, queue, count + 1)
    BY <1>0, <1>3, <1>7, <1>8, <1>9 DEF PoolIs
  <1> QED
    BY <1>10 DEF more

\* stop() up to its wait: an end marker for each worker of the list.
LEMMA PoolStops ==
  ASSUME NEW J, NEW W \in Nat \ {0}, NEW M \in Nat, NEW D, NEW list, NEW live, NEW taken,
         NEW queue, NEW count, PoolIs(J, W, M, D, W, list, live, taken, queue, count), "None" \notin J
  PROVE  PoolIs(J, W, M, D, 0, list, live, taken,
                queue \o [i \in 1 .. Cardinality(list) |-> "None"], count)
  <1> DEFINE n == Cardinality(list)
             longer == queue \o Markings(n, "None")
  <1>1. /\ n \in Nat /\ n <= W /\ queue \in Seq(J \union {"None"}) /\ Cardinality(live) \in Nat
        /\ \A x : CountOf(queue, x) \in Nat /\ TakenBy(live, taken, x) \in Nat
    <2>1. /\ IsFiniteSet(live) /\ Cardinality(live) \in Nat /\ live \subseteq 1 .. W * M
          /\ \A x : CountOf(queue, x) \in Nat /\ TakenBy(live, taken, x) \in Nat
          /\ Cardinality(list) \in Nat
      BY PoolLives
    <2> QED
      BY <2>1 DEF PoolIs
  <1> HIDE DEF n
  <1>2. \A x : CountOf(longer, x) = CountOf(queue, x) + (IF x = "None" THEN n ELSE 0)
    <2> DEFINE S == J \union {"None"}
    <2>1. "None" \in S /\ queue \in Seq(S)
      BY <1>1
    <2> HIDE DEF S
    <2> SUFFICES ASSUME NEW x
                 PROVE  CountOf(longer, x) = CountOf(queue, x) + (IF x = "None" THEN n ELSE 0)
      OBVIOUS
    <2> QED
      BY <1>1, <2>1, CountMarkers
  <1>3. longer \in Seq(J \union {"None"})
    <2>1. Markings(n, "None") \in Seq(J \union {"None"})
      BY <1>1 DEF Markings
    <2> QED
      BY <1>1, <2>1
  <1> HIDE DEF longer
  <1>4. \A j \in J : CountOf(longer, j) = CountOf(queue, j)
    BY <1>1, <1>2
  <1>5. CountOf(longer, "None") + 0 <= Cardinality(live)
    <2>1. CountOf(longer, "None") = CountOf(queue, "None") + n
      BY <1>2
    <2>2. CountOf(queue, "None") + W <= Cardinality(live)
      BY DEF PoolIs
    <2> QED
      BY <1>1, <2>1, <2>2
  <1>6. PoolIs(J, W, M, D, 0, list, live, taken, longer, count)
    BY <1>3, <1>4, <1>5 DEF PoolIs
  <1> QED
    BY <1>6 DEF longer, n, Markings

\* stop() after its wait, while another start() may have made a list.
LEMMA PoolClears ==
  ASSUME NEW J, NEW W \in Nat \ {0}, NEW M \in Nat, NEW D, NEW owed, NEW list, NEW live, NEW taken,
         NEW queue, NEW count, PoolIs(J, W, M, D, owed, list, live, taken, queue, count)
  PROVE  PoolIs(J, W, M, D, owed, {}, live, taken, queue, count)
  BY FS_EmptySet DEF PoolIs

LEMMA PoolSubmits ==
  ASSUME NEW J, NEW W \in Nat \ {0}, NEW M \in Nat, NEW D, NEW owed, NEW list, NEW live, NEW taken,
         NEW queue, NEW count, PoolIs(J, W, M, D, owed, list, live, taken, queue, count), "None" \notin J,
         NEW j \in J \ D
  PROVE  PoolIs(J, W, M, D \union {j}, owed, list, live, taken, Append(queue, j), count)
  <1> DEFINE longer == Append(queue, j)
  <1>1. /\ queue \in Seq(J \union {"None"})
        /\ \A x : CountOf(queue, x) \in Nat /\ TakenBy(live, taken, x) \in Nat
    <2>1. /\ IsFiniteSet(live) /\ Cardinality(live) \in Nat /\ live \subseteq 1 .. W * M
          /\ \A x : CountOf(queue, x) \in Nat /\ TakenBy(live, taken, x) \in Nat
          /\ Cardinality(list) \in Nat
      BY PoolLives
    <2> QED
      BY <2>1 DEF PoolIs
  <1>2. \A x : CountOf(longer, x) = CountOf(queue, x) + (IF x = j THEN 1 ELSE 0)
    <2>1. j \in J \union {"None"}
      OBVIOUS
    <2> QED
      BY <1>1, <2>1, CountAppend
  <1>3. longer \in Seq(J \union {"None"})
    BY <1>1
  <1> HIDE DEF longer
  <1>4. \A k \in J : CountOf(longer, k) + TakenBy(live, taken, k) = IF k \in D \union {j} THEN 1 ELSE 0
    BY <1>1, <1>2 DEF PoolIs
  <1>5. CountOf(longer, "None") = CountOf(queue, "None")
    BY <1>1, <1>2
  <1>6. PoolIs(J, W, M, D \union {j}, owed, list, live, taken, longer, count)
    BY <1>3, <1>4, <1>5 DEF PoolIs
  <1> QED
    BY <1>6 DEF longer

\* A worker gets an end marker and is no more.
LEMMA PoolEndsWorker ==
  ASSUME NEW J, NEW W \in Nat \ {0}, NEW M \in Nat, NEW D, NEW owed, NEW list, NEW live, NEW taken,
         NEW queue, NEW count, PoolIs(J, W, M, D, owed, list, live, taken, queue, count), "None" \notin J,
         NEW w \in live, taken[w] = "None", queue # <<>>, Head(queue) = "None"
  PROVE  PoolIs(J, W, M, D, owed, list, live \ {w}, taken, Tail(queue), count)
  <1> DEFINE rest == Tail(queue)
             others == live \ {w}
  <1>1. /\ queue \in Seq(J \union {"None"}) /\ IsFiniteSet(live) /\ Cardinality(live) \in Nat
        /\ \A x : CountOf(queue, x) \in Nat /\ TakenBy(live, taken, x) \in Nat
    <2>1. /\ IsFiniteSet(live) /\ Cardinality(live) \in Nat /\ live \subseteq 1 .. W * M
          /\ \A x : CountOf(queue, x) \in Nat /\ TakenBy(live, taken, x) \in Nat
          /\ Cardinality(list) \in Nat
      BY PoolLives
    <2> QED
      BY <2>1 DEF PoolIs
  <1>2. rest \in Seq(J \union {"None"})
    BY <1>1
  <1>3. \A x : CountOf(queue, x) = CountOf(rest, x) + (IF x = Head(queue) THEN 1 ELSE 0)
    BY <1>1, CountTail
  <1> HIDE DEF rest
  <1>4. \A x : CountOf(rest, x) \in Nat
    BY <1>2, CountIsNat
  <1>5. \A j \in J : TakenBy(others, taken, j) = TakenBy(live, taken, j)
    <2> SUFFICES ASSUME NEW j \in J PROVE TakenBy(others, taken, j) = TakenBy(live, taken, j)
      OBVIOUS
    <2>1. {v \in others : taken[v] = j} = {v \in live : taken[v] = j}
      OBVIOUS
    <2> QED
      BY <2>1 DEF TakenBy
  <1>6. Cardinality(others) = Cardinality(live) - 1
    BY <1>1, FS_RemoveElement
  <1> HIDE DEF others
  <1>7. \A j \in J : CountOf(rest, j) = CountOf(queue, j)
    BY <1>3, <1>4
  <1>8. CountOf(rest, "None") + owed <= Cardinality(others)
    <2>1. CountOf(queue, "None") = CountOf(rest, "None") + 1
      BY <1>3
    <2>2. CountOf(queue, "None") + owed <= Cardinality(live) /\ owed \in Nat
      BY DEF PoolIs
    <2> QED
      BY <1>1, <1>4, <1>6, <2>1, <2>2
  <1>9. others \subseteq live /\ \A v \in 1 .. W * M : v \notin others => taken[v] = "None"
    BY DEF PoolIs, others
  <1>10. PoolIs(J, W, M, D, owed, list, others, taken, rest, count)
    BY <1>2, <1>5, <1>7, <1>8, <1>9 DEF PoolIs
  <1> QED
    BY <1>10 DEF others, rest

\* A worker gets a job.
LEMMA PoolTakes ==
  ASSUME NEW J, NEW W \in Nat \ {0}, NEW M \in Nat, NEW D, NEW owed, NEW list, NEW live, NEW taken,
         NEW queue, NEW count, PoolIs(J, W, M, D, owed, list, live, taken, queue, count), "None" \notin J,
         NEW w \in live, taken[w] = "None", queue # <<>>, Head(queue) # "None"
  PROVE  /\ PoolIs(J, W, M, D, owed, list, live, [taken EXCEPT ![w] = Head(queue)], Tail(queue), count)
         /\ Head(queue) \in J \intersect D
  <1> DEFINE rest == Tail(queue)
             y == Head(queue)
             new == [taken EXCEPT ![w] = y]
  <1>1. /\ queue \in Seq(J \union {"None"}) /\ IsFiniteSet(live) /\ Cardinality(live) \in Nat
        /\ live \subseteq 1 .. W * M /\ taken \in [1 .. W * M -> J \union {"None"}]
        /\ \A x : CountOf(queue, x) \in Nat /\ TakenBy(live, taken, x) \in Nat
    <2>1. /\ IsFiniteSet(live) /\ Cardinality(live) \in Nat /\ live \subseteq 1 .. W * M
          /\ \A x : CountOf(queue, x) \in Nat /\ TakenBy(live, taken, x) \in Nat
          /\ Cardinality(list) \in Nat
      BY PoolLives
    <2> QED
      BY <2>1 DEF PoolIs
  <1>2. rest \in Seq(J \union {"None"}) /\ y \in J
    BY <1>1
  <1>3. \A x : CountOf(queue, x) = CountOf(rest, x) + (IF x = y THEN 1 ELSE 0)
    BY <1>1, CountTail
  <1> HIDE DEF rest, y
  <1>4. \A x : CountOf(rest, x) \in Nat
    BY <1>2, CountIsNat
  <1>5. \A x : TakenBy(live, new, x) + (IF x = taken[w] THEN 1 ELSE 0)
                 = TakenBy(live, taken, x) + (IF x = y THEN 1 ELSE 0)
    <2> DEFINE S == J \union {"None"}
               all == 1 .. W * M
    <2> SUFFICES ASSUME NEW x
                 PROVE  TakenBy(live, new, x) + (IF x = taken[w] THEN 1 ELSE 0)
                          = TakenBy(live, taken, x) + (IF x = y THEN 1 ELSE 0)
      OBVIOUS
    <2>1. y \in S /\ taken \in [all -> S] /\ live \subseteq all /\ IsFiniteSet(live)
          /\ new = Given(taken, w, y)
      BY <1>1, <1>2 DEF Given
    <2> HIDE DEF S, all, new
    <2> QED
      BY <2>1, TakenChanges
  <1>6. /\ new \in [1 .. W * M -> J \union {"None"}]
        /\ \A v \in 1 .. W * M : v \notin live => new[v] = "None"
    BY <1>1, <1>2 DEF PoolIs
  <1> HIDE DEF new
  <1>7. \A x : TakenBy(live, new, x) \in Nat
    BY <1>1, TakenIsNat
  <1>8. \A j \in J : CountOf(rest, j) + TakenBy(live, new, j) = CountOf(queue, j) + TakenBy(live, taken, j)
    BY <1>1, <1>3, <1>4, <1>5, <1>7
  <1>9. CountOf(rest, "None") = CountOf(queue, "None")
    <2>1. y # "None"
      BY DEF y
    <2> QED
      BY <1>3, <1>4, <2>1
  <1>10. y \in D
    <2>1. CountOf(queue, y) >= 1 /\ CountOf(queue, y) + TakenBy(live, taken, y) >= 1
      BY <1>1, <1>3, <1>4
    <2>2. CountOf(queue, y) + TakenBy(live, taken, y) = IF y \in D THEN 1 ELSE 0
      BY <1>2 DEF PoolIs
    <2> QED
      BY <2>1, <2>2
  <1>11. PoolIs(J, W, M, D, owed, list, live, new, rest, count)
    BY <1>2, <1>6, <1>8, <1>9 DEF PoolIs
  <1> QED
    BY <1>2, <1>10, <1>11 DEF new, rest, y

\* A worker is done with its job.
LEMMA PoolFinishes ==
  ASSUME NEW J, NEW W \in Nat \ {0}, NEW M \in Nat, NEW D, NEW owed, NEW list, NEW live, NEW taken,
         NEW queue, NEW count, PoolIs(J, W, M, D, owed, list, live, taken, queue, count), "None" \notin J,
         NEW w \in live, taken[w] # "None"
  PROVE  /\ PoolIs(J, W, M, D \ {taken[w]}, owed, list, live, [taken EXCEPT ![w] = "None"], queue, count)
         /\ taken[w] \in J \intersect D
  <1> DEFINE y == taken[w]
             new == [taken EXCEPT ![w] = "None"]
  <1>1. /\ IsFiniteSet(live) /\ live \subseteq 1 .. W * M /\ taken \in [1 .. W * M -> J \union {"None"}]
        /\ \A x : CountOf(queue, x) \in Nat /\ TakenBy(live, taken, x) \in Nat
    <2>1. /\ IsFiniteSet(live) /\ Cardinality(live) \in Nat /\ live \subseteq 1 .. W * M
          /\ \A x : CountOf(queue, x) \in Nat /\ TakenBy(live, taken, x) \in Nat
          /\ Cardinality(list) \in Nat
      BY PoolLives
    <2> QED
      BY <2>1 DEF PoolIs
  <1>2. y \in J
    BY <1>1
  <1>3. \A x : TakenBy(live, new, x) + (IF x = y THEN 1 ELSE 0)
                 = TakenBy(live, taken, x) + (IF x = "None" THEN 1 ELSE 0)
    <2> DEFINE S == J \union {"None"}
               all == 1 .. W * M
    <2> SUFFICES ASSUME NEW x
                 PROVE  TakenBy(live, new, x) + (IF x = y THEN 1 ELSE 0)
                          = TakenBy(live, taken, x) + (IF x = "None" THEN 1 ELSE 0)
      OBVIOUS
    <2>1. "None" \in S /\ taken \in [all -> S] /\ live \subseteq all /\ IsFiniteSet(live)
          /\ new = Given(taken, w, "None")
      BY <1>1 DEF Given
    <2> HIDE DEF S, all, new
    <2> QED
      BY <2>1, TakenChanges
  <1>4. /\ new \in [1 .. W * M -> J \union {"None"}]
        /\ \A v \in 1 .. W * M : v \notin live => new[v] = "None"
    BY <1>1 DEF PoolIs
  <1> HIDE DEF new, y
  <1>5. \A x : TakenBy(live, new, x) \in Nat
    BY <1>1, TakenIsNat
  <1>6. /\ CountOf(queue, y) + TakenBy(live, taken, y) = IF y \in D THEN 1 ELSE 0
        /\ TakenBy(live, new, y) + 1 = TakenBy(live, taken, y)
    BY <1>1, <1>2, <1>3 DEF PoolIs
  <1>7. y \in D /\ CountOf(queue, y) + TakenBy(live, new, y) = 0
    BY <1>1, <1>5, <1>6
  <1>8. \A j \in J : CountOf(queue, j) + TakenBy(live, new, j) = IF j \in D \ {y} THEN 1 ELSE 0
    <2> SUFFICES ASSUME NEW j \in J, j # y
                 PROVE  CountOf(queue, j) + TakenBy(live, new, j) = IF j \in D THEN 1 ELSE 0
      BY <1>7
    <2>1. TakenBy(live, new, j) = TakenBy(live, taken, j)
      BY <1>1, <1>3, <1>5
    <2> QED
      BY <2>1 DEF PoolIs
  <1>9. PoolIs(J, W, M, D \ {y}, owed, list, live, new, queue, count)
    BY <1>4, <1>8 DEF PoolIs
  <1> QED
    BY <1>2, <1>7, <1>9 DEF new, y

-----------------------------------------------------------------------------
(***************************************************************************)
(* The text brain's jobs                                                   *)
(***************************************************************************)

Responses == [model : {"none", "ollama", "stub", "faster-whisper"},
              reason : {"none", "timeout", "fallback", "error"},
              summary : {"none", "text", "blank"}, degraded : BOOLEAN]
Assigned == {"none", "memory_summary", "tool_plan", "log"}
JobStates == [state : {"none", "queued", "running", "done", "failed"}, task : Assigned, session : BOOLEAN,
              response : Responses, memory : BOOLEAN]

JobIsTrue(r) ==
  /\ r.memory => r.session /\ r.response.summary \notin {"none", "blank"}
  /\ r.state # "done" => r.memory = FALSE
  /\ r.state = "done" => (r.response.degraded <=> r.response.model = "stub")

Underway(states) == {j \in DOMAIN states : states[j].state \in {"queued", "running"}}
Owed(running, n) == IF running THEN n ELSE 0

PoolNow == PoolIs(Jobs, JobWorkers, MaxStarts, Underway(job), Owed(poolRunning, JobWorkers), workerList,
                  liveWorkers, workerJob, jobQueue, starts)
PoolInv ==
  /\ PoolNow
  /\ poolRunning \in BOOLEAN
  /\ job \in [Jobs -> JobStates]
  /\ \A j \in Jobs : JobIsTrue(job[j])

\* One job changes its state; s is what it becomes.
LEMMA UnderwayChanges ==
  ASSUME NEW J, NEW f \in [J -> JobStates], NEW j \in J, NEW r,
         NEW g \in [J -> JobStates], \A k \in J : g[k] = IF k = j THEN r ELSE f[k]
  PROVE  /\ r.state \in {"queued", "running"} => Underway(g) = Underway(f) \union {j}
         /\ r.state \notin {"queued", "running"} => Underway(g) = Underway(f) \ {j}
         /\ Underway(f) \subseteq J
         /\ j \in Underway(f) <=> f[j].state \in {"queued", "running"}
  BY DEF Underway

LEMMA JobAssumed == JobWorkers \in Nat \ {0} /\ MaxStarts \in Nat /\ "None" \notin Jobs
  BY PoolAssumption

LEMMA StartPoolIsSound ==
  ASSUME PoolInv, StartPool PROVE PoolInv'
  <1>1. /\ poolRunning = FALSE /\ starts < MaxStarts /\ poolRunning' = TRUE
        /\ workerList' = starts * JobWorkers + 1 .. (starts + 1) * JobWorkers
        /\ liveWorkers' = liveWorkers \union workerList' /\ starts' = starts + 1
        /\ UNCHANGED <<workerJob, jobQueue, job>>
    BY DEF StartPool, PoolInv
  <1>2. PoolIs(Jobs, JobWorkers, MaxStarts, Underway(job), 0, workerList, liveWorkers, workerJob, jobQueue, starts)
    BY <1>1 DEF PoolInv, PoolNow, Owed
  <1>3. PoolIs(Jobs, JobWorkers, MaxStarts, Underway(job), JobWorkers, workerList', liveWorkers \union workerList',
               workerJob, jobQueue, starts + 1)
    BY <1>1, <1>2, JobAssumed, PoolStarts
  <1>4. PoolNow'
    BY <1>1, <1>3 DEF PoolNow, Owed
  <1>5. \A j \in Jobs : JobIsTrue(job[j])'
    BY <1>1 DEF PoolInv
  <1> QED
    BY <1>1, <1>4, <1>5 DEF PoolInv

LEMMA StopPoolIsSound ==
  ASSUME PoolInv, StopPool PROVE PoolInv'
  <1>1. /\ poolRunning = TRUE /\ poolRunning' = FALSE
        /\ jobQueue' = jobQueue \o [i \in 1 .. Cardinality(workerList) |-> "None"]
        /\ UNCHANGED <<workerList, liveWorkers, workerJob, starts, job>>
    BY DEF StopPool, PoolInv, Sentinels, Sentinel
  <1>2. PoolIs(Jobs, JobWorkers, MaxStarts, Underway(job), JobWorkers, workerList, liveWorkers, workerJob,
               jobQueue, starts)
    BY <1>1 DEF PoolInv, PoolNow, Owed
  <1>3. PoolIs(Jobs, JobWorkers, MaxStarts, Underway(job), 0, workerList, liveWorkers, workerJob,
               jobQueue', starts)
    BY <1>1, <1>2, JobAssumed, PoolStops
  <1>4. PoolNow'
    BY <1>1, <1>3 DEF PoolNow, Owed
  <1>5. \A j \in Jobs : JobIsTrue(job[j])'
    BY <1>1 DEF PoolInv
  <1> QED
    BY <1>1, <1>4, <1>5 DEF PoolInv

LEMMA FinishStopIsSound ==
  ASSUME PoolInv, NEW ws \in stopWaits, FinishStop(ws) PROVE PoolInv'
  <1>1. workerList' = {} /\ UNCHANGED <<poolRunning, liveWorkers, workerJob, jobQueue, starts, job>>
    BY DEF FinishStop
  <1>2. PoolIs(Jobs, JobWorkers, MaxStarts, Underway(job), Owed(poolRunning, JobWorkers), {}, liveWorkers,
               workerJob, jobQueue, starts)
    <2>1. PoolNow
      BY DEF PoolInv
    <2> QED
      BY <2>1, JobAssumed, PoolClears DEF PoolNow
  <1>3. PoolNow'
    BY <1>1, <1>2 DEF PoolNow, Owed
  <1>4. \A j \in Jobs : JobIsTrue(job[j])'
    BY <1>1 DEF PoolInv
  <1> QED
    BY <1>1, <1>3, <1>4 DEF PoolInv

LEMMA SubmitIsSound ==
  ASSUME PoolInv, NEW j \in Jobs, NEW task \in {"memory_summary", "tool_plan"}, NEW s \in BOOLEAN,
         Submit(j, task, s)
  PROVE  PoolInv'
  <1> DEFINE r == [job[j] EXCEPT !.state = "queued", !.task = task, !.session = s]
  <1>1. /\ poolRunning /\ job[j].state = "none" /\ job' = [job EXCEPT ![j] = r]
        /\ jobQueue' = Append(jobQueue, j)
        /\ UNCHANGED <<poolRunning, workerList, liveWorkers, workerJob, starts>>
    BY DEF Submit
  <1>2. job \in [Jobs -> JobStates] /\ job[j] \in JobStates
    BY DEF PoolInv
  <1>3. r \in JobStates /\ r.state = "queued" /\ r.memory = job[j].memory
    BY <1>2 DEF JobStates, Assigned
  <1>4. JobIsTrue(r)
    <2>1. job[j].memory = FALSE
      BY <1>1, Zenon DEF PoolInv, JobIsTrue
    <2> QED
      BY <1>3, <2>1, Zenon DEF JobIsTrue
  <1> HIDE DEF r
  <1>8. job' \in [Jobs -> JobStates] /\ \A k \in Jobs : job'[k] = IF k = j THEN r ELSE job[k]
    BY <1>1, <1>2, <1>3
  <1>5. Underway(job') = Underway(job) \union {j} /\ j \in Jobs \ Underway(job)
    <2>1. r.state \in {"queued", "running"} /\ job[j].state \notin {"queued", "running"}
      BY <1>1, <1>3
    <2>2. Underway(job') = Underway(job) \union {j}
      BY <1>2, <1>8, <2>1, UnderwayChanges
    <2>3. j \notin Underway(job)
      BY <2>1 DEF Underway
    <2> QED
      BY <2>2, <2>3
  <1>6. PoolIs(Jobs, JobWorkers, MaxStarts, Underway(job) \union {j}, Owed(poolRunning, JobWorkers), workerList,
               liveWorkers, workerJob, Append(jobQueue, j), starts)
    <2>1. PoolNow
      BY DEF PoolInv
    <2> QED
      BY <2>1, <1>5, JobAssumed, PoolSubmits DEF PoolNow
  <1>7. PoolNow'
    BY <1>1, <1>5, <1>6 DEF PoolNow, Owed
  <1>9. \A k \in Jobs : JobIsTrue(job[k])'
    <2>1. \A k \in Jobs : JobIsTrue(job'[k])
      BY <1>4, <1>8 DEF PoolInv
    <2> QED
      BY <2>1 DEF JobIsTrue
  <1> QED
    BY <1>1, <1>7, <1>8, <1>9 DEF PoolInv

LEMMA TakeNextIsSound ==
  ASSUME PoolInv, NEW w \in Workers, TakeNext(w) PROVE PoolInv'
  <1>1. /\ w \in liveWorkers /\ workerJob[w] = "None" /\ jobQueue # <<>> /\ jobQueue' = Tail(jobQueue)
        /\ UNCHANGED <<poolRunning, workerList, starts>>
    BY DEF TakeNext, Sentinel
  <1>2. /\ PoolIs(Jobs, JobWorkers, MaxStarts, Underway(job), Owed(poolRunning, JobWorkers), workerList,
                  liveWorkers, workerJob, jobQueue, starts)
        /\ job \in [Jobs -> JobStates] /\ poolRunning \in BOOLEAN
    BY DEF PoolInv, PoolNow
  <1>3. CASE Head(jobQueue) = "None"
    <2>1. liveWorkers' = liveWorkers \ {w} /\ UNCHANGED <<workerJob, job>>
      BY <1>3 DEF TakeNext, Sentinel
    <2>2. PoolIs(Jobs, JobWorkers, MaxStarts, Underway(job), Owed(poolRunning, JobWorkers), workerList,
                 liveWorkers \ {w}, workerJob, Tail(jobQueue), starts)
      BY <1>1, <1>2, <1>3, JobAssumed, PoolEndsWorker
    <2>3. PoolNow'
      BY <1>1, <2>1, <2>2 DEF PoolNow, Owed
    <2>4. \A j \in Jobs : JobIsTrue(job[j])'
      BY <2>1 DEF PoolInv
    <2> QED
      BY <1>1, <1>2, <2>1, <2>3, <2>4 DEF PoolInv
  <1>4. CASE Head(jobQueue) # "None"
    <2> DEFINE j == Head(jobQueue)
               r == [job[j] EXCEPT !.state = "running"]
    <2>1. /\ workerJob' = [workerJob EXCEPT ![w] = j] /\ job' = [job EXCEPT ![j] = r]
          /\ liveWorkers' = liveWorkers
      BY <1>4 DEF TakeNext, Sentinel
    <2>2. /\ PoolIs(Jobs, JobWorkers, MaxStarts, Underway(job), Owed(poolRunning, JobWorkers), workerList,
                    liveWorkers, [workerJob EXCEPT ![w] = j], Tail(jobQueue), starts)
          /\ j \in Jobs \intersect Underway(job)
      <3> DEFINE D == Underway(job)
                 o == Owed(poolRunning, JobWorkers)
      <3>1. PoolIs(Jobs, JobWorkers, MaxStarts, D, o, workerList, liveWorkers, workerJob, jobQueue, starts)
        BY <1>2
      <3> HIDE DEF D, o
      <3>2. /\ PoolIs(Jobs, JobWorkers, MaxStarts, D, o, workerList, liveWorkers,
                      [workerJob EXCEPT ![w] = Head(jobQueue)], Tail(jobQueue), starts)
            /\ Head(jobQueue) \in Jobs \intersect D
        BY <3>1, <1>1, <1>4, JobAssumed, PoolTakes
      <3> QED
        BY <3>2 DEF D, o
    <2> HIDE DEF j
    <2>3. job[j] \in JobStates /\ r \in JobStates /\ r.state = "running" /\ r.memory = job[j].memory
      BY <1>2, <2>2 DEF JobStates
    <2>8. job' \in [Jobs -> JobStates] /\ \A k \in Jobs : job'[k] = IF k = j THEN r ELSE job[k]
      BY <1>2, <2>1, <2>2, <2>3
    <2>4. Underway(job') = Underway(job) \union {j} /\ job[j].state \in {"queued", "running"}
      <3>1. r.state = "running" /\ j \in Jobs
        BY <2>2, <2>3
      <3> HIDE DEF r
      <3> QED
        BY <3>1, <1>2, <2>2, <2>8, UnderwayChanges
    <2>5. JobIsTrue(r)
      <3>1. job[j].memory = FALSE
        <4>1. job[j].state # "done" /\ j \in Jobs
          BY <2>2, <2>4
        <4> QED
          BY <4>1, Zenon DEF PoolInv, JobIsTrue
      <3>2. r.memory = FALSE /\ r.state # "done"
        BY <2>3, <3>1
      <3> QED
        BY <3>2, Zenon DEF JobIsTrue
    <2> HIDE DEF r
    <2>6. Underway(job') = Underway(job)
      BY <2>2, <2>4
    <2>7. PoolNow'
      BY <1>1, <2>1, <2>2, <2>6 DEF PoolNow, Owed
    <2>9. \A k \in Jobs : JobIsTrue(job[k])'
      <3>1. \A k \in Jobs : JobIsTrue(job'[k])
        BY <2>5, <2>8 DEF PoolInv
      <3> QED
        BY <3>1 DEF JobIsTrue
    <2> QED
      BY <1>1, <1>2, <2>7, <2>8, <2>9 DEF PoolInv
  <1> QED
    BY <1>3, <1>4

\* The answers of the service: only a stub is degraded.
LEMMA BrainAnswers ==
  ASSUME NEW task \in Assigned, NEW how \in Outcomes
  PROVE  /\ RunTextBrain(task, how) \in Responses
         /\ RunTextBrain(task, how).degraded <=> RunTextBrain(task, how).model = "stub"
  <1> DEFINE a == RunTextBrain(task, how)
             word == IF task = "memory_summary" THEN how ELSE "none"
             stubbed == IF task = "memory_summary" THEN "text" ELSE "none"
             why == IF how = "no_ollama" THEN "none" ELSE how
  <1>1. \/ /\ how \in {"text", "blank"}
           /\ a = [model |-> "ollama", reason |-> "none", summary |-> word, degraded |-> FALSE]
        \/ /\ how \notin {"text", "blank"}
           /\ a = [model |-> "stub", reason |-> why, summary |-> stubbed, degraded |-> TRUE]
    BY DEF RunTextBrain, ParseText, StubTextBrain
  <1>2. a \in Responses
    <2>1. CASE how \in {"text", "blank"}
      <3> DEFINE mark == FALSE
      <3>1. word \in {"none", "text", "blank"} /\ mark \in BOOLEAN
        BY <2>1
      <3>2. a = [model |-> "ollama", reason |-> "none", summary |-> word, degraded |-> mark]
        BY <1>1, <2>1
      <3> HIDE DEF a, word, stubbed, why, mark
      <3> QED
        BY <3>1, <3>2 DEF Responses
    <2>2. CASE how \notin {"text", "blank"}
      <3> DEFINE mark == TRUE
      <3>1. /\ why \in {"none", "timeout", "fallback"} /\ stubbed \in {"none", "text", "blank"}
            /\ mark \in BOOLEAN
        BY <2>2 DEF Outcomes
      <3>2. a = [model |-> "stub", reason |-> why, summary |-> stubbed, degraded |-> mark]
        BY <1>1, <2>2
      <3> HIDE DEF a, word, stubbed, why, mark
      <3> QED
        BY <3>1, <3>2 DEF Responses
    <2> QED
      BY <2>1, <2>2
  <1> HIDE DEF a, word, stubbed, why
  <1>3. \/ a.degraded = FALSE /\ a.model = "ollama"
        \/ a.degraded = TRUE /\ a.model = "stub"
    BY <1>1
  <1>4. a.degraded <=> a.model = "stub"
    <2>1. "ollama" # "stub"
      OBVIOUS
    <2> QED
      BY <1>3, <2>1, Zenon
  <1> QED
    BY <1>2, <1>4 DEF a

LEMMA FinishJobIsSound ==
  ASSUME PoolInv, NEW w \in Workers, NEW how \in Outcomes, FinishJob(w, how) PROVE PoolInv'
  <1> DEFINE j == workerJob[w]
             resp == RunTextBrain(job[j].task, how)
             kept == MaybeMemoryWrite(j, resp)
             r == [job[j] EXCEPT !.state = "done", !.response = resp, !.memory = kept]
  <1>1. /\ w \in liveWorkers /\ workerJob[w] # "None" /\ job' = [job EXCEPT ![j] = r]
        /\ workerJob' = [workerJob EXCEPT ![w] = "None"]
        /\ UNCHANGED <<poolRunning, workerList, liveWorkers, jobQueue, starts>>
    BY DEF FinishJob, Sentinel
  <1>2. /\ PoolIs(Jobs, JobWorkers, MaxStarts, Underway(job), Owed(poolRunning, JobWorkers), workerList,
                  liveWorkers, workerJob, jobQueue, starts)
        /\ job \in [Jobs -> JobStates] /\ poolRunning \in BOOLEAN
    BY DEF PoolInv, PoolNow
  <1>3. /\ PoolIs(Jobs, JobWorkers, MaxStarts, Underway(job) \ {j}, Owed(poolRunning, JobWorkers), workerList,
                  liveWorkers, [workerJob EXCEPT ![w] = "None"], jobQueue, starts)
        /\ j \in Jobs \intersect Underway(job)
    BY <1>1, <1>2, JobAssumed, PoolFinishes
  <1> HIDE DEF j
  <1>4. job[j] \in JobStates /\ job[j].task \in Assigned /\ job[j].session \in BOOLEAN
    BY <1>2, <1>3 DEF JobStates
  <1>5. resp \in Responses /\ (resp.degraded <=> resp.model = "stub")
    BY <1>4, BrainAnswers
  <1>6. kept => job[j].session /\ resp.summary = "text"
    BY Zenon DEF MaybeMemoryWrite
  <1>7. kept \in BOOLEAN
    BY DEF MaybeMemoryWrite
  <1> HIDE DEF resp, kept
  <1>8. /\ r \in JobStates /\ r.state = "done" /\ r.response = resp /\ r.memory = kept
        /\ r.session = job[j].session
    BY <1>4, <1>5, <1>7 DEF JobStates
  <1>9. JobIsTrue(r)
    <2>1. "text" \notin {"none", "blank"}
      OBVIOUS
    <2>2. kept => job[j].session /\ resp.summary \notin {"none", "blank"}
      BY <1>6, <2>1, Zenon
    <2> HIDE DEF r
    <2> QED
      BY <1>5, <1>8, <2>2, Zenon DEF JobIsTrue
  <1> HIDE DEF r
  <1>12. job' \in [Jobs -> JobStates] /\ \A k \in Jobs : job'[k] = IF k = j THEN r ELSE job[k]
    BY <1>1, <1>2, <1>3, <1>8
  <1>10. Underway(job') = Underway(job) \ {j}
    <2>1. r.state = "done" /\ j \in Jobs
      BY <1>3, <1>8
    <2> QED
      BY <1>2, <1>12, <2>1, UnderwayChanges
  <1>11. PoolNow'
    BY <1>1, <1>3, <1>10 DEF PoolNow, Owed
  <1>13. \A k \in Jobs : JobIsTrue(job[k])'
    <2>1. \A k \in Jobs : JobIsTrue(job'[k])
      BY <1>9, <1>12 DEF PoolInv
    <2> QED
      BY <2>1 DEF JobIsTrue
  <1> QED
    BY <1>1, <1>2, <1>11, <1>12, <1>13 DEF PoolInv

LEMMA PoolInvariance == PoolSpec => []PoolInv
  <1>1. PoolInit => PoolInv
    <2> SUFFICES ASSUME PoolInit PROVE PoolInv
      OBVIOUS
    <2>1. /\ poolRunning = FALSE /\ workerList = {} /\ liveWorkers = {} /\ jobQueue = <<>> /\ starts = 0
          /\ workerJob = [w \in Workers |-> "None"] /\ job = [j \in Jobs |-> Unsubmitted]
      BY DEF PoolInit, Sentinel
    <2>2. Unsubmitted \in JobStates /\ Unsubmitted.state = "none" /\ Unsubmitted.memory = FALSE
      BY DEF Unsubmitted, JobStates, Responses, NoResponse, Assigned
    <2>3. job \in [Jobs -> JobStates] /\ Underway(job) = {} /\ \A j \in Jobs : JobIsTrue(job[j])
      <3>1. JobIsTrue(Unsubmitted)
        <4>1. "none" # "done"
          OBVIOUS
        <4> QED
          BY <2>2, <4>1, Zenon DEF JobIsTrue
      <3> HIDE DEF Unsubmitted
      <3> QED
        BY <2>1, <2>2, <3>1 DEF Underway
    <2>4. \A x : CountOf(jobQueue, x) = 0 /\ TakenBy(liveWorkers, workerJob, x) = 0
      <3> SUFFICES ASSUME NEW x PROVE CountOf(jobQueue, x) = 0 /\ TakenBy(liveWorkers, workerJob, x) = 0
        OBVIOUS
      <3>1. {i \in DOMAIN jobQueue : jobQueue[i] = x} = {} /\ {w \in liveWorkers : workerJob[w] = x} = {}
        BY <2>1
      <3> QED
        BY <3>1, FS_EmptySet DEF CountOf, TakenBy
    <2>5. IsFiniteSet(workerList) /\ Cardinality(workerList) = 0 /\ Cardinality(liveWorkers) = 0
      BY <2>1, FS_EmptySet
    <2>6. PoolNow
      BY <2>1, <2>3, <2>4, <2>5, JobAssumed DEF PoolNow, PoolIs, Owed, Workers
    <2> QED
      BY <2>1, <2>3, <2>6 DEF PoolInv
  <1>2. PoolInv /\ [PoolNext]_poolVars => PoolInv'
    <2> SUFFICES ASSUME PoolInv, [PoolNext]_poolVars PROVE PoolInv'
      OBVIOUS
    <2>1. CASE StartPool
      BY <2>1, StartPoolIsSound
    <2>2. CASE StopPool
      BY <2>2, StopPoolIsSound
    <2>3. CASE \E ws \in stopWaits : FinishStop(ws)
      BY <2>3, FinishStopIsSound
    <2>4. CASE \E j \in Jobs, task \in {"memory_summary", "tool_plan"}, s \in BOOLEAN : Submit(j, task, s)
      BY <2>4, SubmitIsSound
    <2>5. CASE \E w \in Workers : TakeNext(w)
      BY <2>5, TakeNextIsSound
    <2>6. CASE \E w \in Workers, how \in Outcomes : FinishJob(w, how)
      BY <2>6, FinishJobIsSound
    <2>7. CASE UNCHANGED poolVars
      <3>1. PoolNow'
        BY <2>7 DEF poolVars, PoolInv, PoolNow
      <3> QED
        BY <2>7, <3>1 DEF poolVars, PoolInv, JobIsTrue
    <2> QED
      BY <2>1, <2>2, <2>3, <2>4, <2>5, <2>6, <2>7 DEF PoolNext
  <1> QED
    BY <1>1, <1>2, PTL DEF PoolSpec

\* Nothing is lost or run twice, and each end marker finds its worker.
LEMMA PoolInvIsSound == PoolInv => PoolIsSound
  <1> SUFFICES ASSUME PoolInv PROVE PoolIsSound
    OBVIOUS
  <1>1. PoolIs(Jobs, JobWorkers, MaxStarts, Underway(job), Owed(poolRunning, JobWorkers), workerList,
               liveWorkers, workerJob, jobQueue, starts)
    BY DEF PoolInv, PoolNow
  <1>2. \A j \in Jobs : Places(j) = IF job[j].state \in {"queued", "running"} THEN 1 ELSE 0
    <2>1. \A j \in Jobs : Places(j) = IF j \in Underway(job) THEN 1 ELSE 0
      BY <1>1 DEF PoolIs, Places, CountOf, TakenBy
    <2>2. DOMAIN job = Jobs
      BY DEF PoolInv
    <2> QED
      BY <2>1, <2>2 DEF Underway
  <1>3. Markers + (IF poolRunning THEN JobWorkers ELSE 0) <= Cardinality(liveWorkers)
    BY <1>1 DEF PoolIs, Markers, CountOf, Owed, Sentinel
  <1>4. /\ \A j \in Jobs : job[j].memory => /\ job[j].session
                                             /\ job[j].response.summary \notin {"none", "blank"}
        /\ \A j \in Jobs : job[j].state = "done" =>
              (job[j].response.degraded <=> job[j].response.model = "stub")
    BY Zenon DEF PoolInv, JobIsTrue
  <1> QED
    BY <1>2, <1>3, <1>4, Zenon DEF PoolIsSound

-----------------------------------------------------------------------------
(***************************************************************************)
(* The transcripts: the same pool again                                    *)
(***************************************************************************)

TranscriptIsTrue(r) ==
  /\ r.state = "failed" <=> r.response.reason = "error"
  /\ r.response.degraded <=> r.response.model = "stub"

TranscriptNow ==
  PoolIs(Recordings, SttWorkers, SttStarts, Underway(transcript), Owed(sttRunning, SttWorkers), sttList,
         sttWorkers, sttTaken, sttQueue, sttCount)
TranscriptInv ==
  /\ TranscriptNow
  /\ sttRunning \in BOOLEAN
  /\ transcript \in [Recordings -> JobStates]
  /\ \A r \in Recordings : TranscriptIsTrue(transcript[r])

LEMMA ServiceAssumed == SttWorkers \in Nat \ {0} /\ SttStarts \in Nat /\ "None" \notin Recordings
  BY ServiceAssumption

\* The pool's module counts as this one does.
LEMMA SameCount == \A S : Pool!Cardinality(S) = Cardinality(S)
  BY DEF Pool!Cardinality, Cardinality

LEMMA StartServiceIsSound ==
  ASSUME TranscriptInv, StartService PROVE TranscriptInv'
  <1>1. /\ sttRunning = FALSE /\ sttCount < SttStarts /\ sttRunning' = TRUE
        /\ sttList' = sttCount * SttWorkers + 1 .. (sttCount + 1) * SttWorkers
        /\ sttWorkers' = sttWorkers \union sttList' /\ sttCount' = sttCount + 1
        /\ UNCHANGED <<sttTaken, sttQueue, transcript>>
    BY DEF StartService, Pool!StartPool, TranscriptInv
  <1>2. PoolIs(Recordings, SttWorkers, SttStarts, Underway(transcript), 0, sttList, sttWorkers, sttTaken,
               sttQueue, sttCount)
    BY <1>1 DEF TranscriptInv, TranscriptNow, Owed
  <1>3. PoolIs(Recordings, SttWorkers, SttStarts, Underway(transcript), SttWorkers, sttList',
               sttWorkers \union sttList', sttTaken, sttQueue, sttCount + 1)
    BY <1>1, <1>2, ServiceAssumed, PoolStarts
  <1>4. TranscriptNow'
    BY <1>1, <1>3 DEF TranscriptNow, Owed
  <1>5. \A r \in Recordings : TranscriptIsTrue(transcript[r])'
    BY <1>1 DEF TranscriptInv
  <1> QED
    BY <1>1, <1>4, <1>5 DEF TranscriptInv

LEMMA StopServiceIsSound ==
  ASSUME TranscriptInv, StopService PROVE TranscriptInv'
  <1>1. /\ sttRunning = TRUE /\ sttRunning' = FALSE
        /\ sttQueue' = sttQueue \o [i \in 1 .. Cardinality(sttList) |-> "None"]
        /\ UNCHANGED <<sttList, sttWorkers, sttTaken, sttCount, transcript>>
    BY SameCount DEF StopService, Pool!StopPool, TranscriptInv, Pool!Sentinels, Pool!Sentinel
  <1>2. PoolIs(Recordings, SttWorkers, SttStarts, Underway(transcript), SttWorkers, sttList, sttWorkers,
               sttTaken, sttQueue, sttCount)
    BY <1>1 DEF TranscriptInv, TranscriptNow, Owed
  <1>3. PoolIs(Recordings, SttWorkers, SttStarts, Underway(transcript), 0, sttList, sttWorkers, sttTaken,
               sttQueue', sttCount)
    BY <1>1, <1>2, ServiceAssumed, PoolStops
  <1>4. TranscriptNow'
    BY <1>1, <1>3 DEF TranscriptNow, Owed
  <1>5. \A r \in Recordings : TranscriptIsTrue(transcript[r])'
    BY <1>1 DEF TranscriptInv
  <1> QED
    BY <1>1, <1>4, <1>5 DEF TranscriptInv

LEMMA ServiceStoppedIsSound ==
  ASSUME TranscriptInv, NEW ws \in sttStops, ServiceStopped(ws) PROVE TranscriptInv'
  <1>1. sttList' = {} /\ UNCHANGED <<sttRunning, sttWorkers, sttTaken, sttQueue, sttCount, transcript>>
    BY DEF ServiceStopped
  <1>2. PoolIs(Recordings, SttWorkers, SttStarts, Underway(transcript), Owed(sttRunning, SttWorkers), {},
               sttWorkers, sttTaken, sttQueue, sttCount)
    <2>1. TranscriptNow
      BY DEF TranscriptInv
    <2> QED
      BY <2>1, ServiceAssumed, PoolClears DEF TranscriptNow
  <1>3. TranscriptNow'
    BY <1>1, <1>2 DEF TranscriptNow, Owed
  <1>4. \A r \in Recordings : TranscriptIsTrue(transcript[r])'
    BY <1>1 DEF TranscriptInv
  <1> QED
    BY <1>1, <1>3, <1>4 DEF TranscriptInv

LEMMA SubmitRecordingIsSound ==
  ASSUME TranscriptInv, NEW j \in Recordings, SubmitRecording(j) PROVE TranscriptInv'
  <1> DEFINE r == [transcript[j] EXCEPT !.state = "queued", !.task = "log", !.session = FALSE]
  <1>1. /\ sttRunning /\ transcript[j].state = "none" /\ transcript' = [transcript EXCEPT ![j] = r]
        /\ sttQueue' = Append(sttQueue, j)
        /\ UNCHANGED <<sttRunning, sttList, sttWorkers, sttTaken, sttCount>>
    BY DEF SubmitRecording, Pool!Submit
  <1>2. transcript \in [Recordings -> JobStates] /\ transcript[j] \in JobStates
    BY DEF TranscriptInv
  <1>3. r \in JobStates /\ r.state = "queued" /\ r.response = transcript[j].response
    BY <1>2 DEF JobStates, Assigned
  <1>4. TranscriptIsTrue(r)
    <2>1. /\ transcript[j].response.reason # "error"
          /\ transcript[j].response.degraded <=> transcript[j].response.model = "stub"
      <3>1. transcript[j].state # "failed"
        BY <1>1
      <3> QED
        BY <3>1, Zenon DEF TranscriptInv, TranscriptIsTrue
    <2>2. r.state # "failed"
      BY <1>3
    <2> QED
      BY <1>3, <2>1, <2>2, Zenon DEF TranscriptIsTrue
  <1> HIDE DEF r
  <1>5. transcript' \in [Recordings -> JobStates] /\ \A k \in Recordings : transcript'[k] = IF k = j THEN r ELSE transcript[k]
    BY <1>1, <1>2, <1>3
  <1>6. Underway(transcript') = Underway(transcript) \union {j} /\ j \in Recordings \ Underway(transcript)
    <2>1. r.state \in {"queued", "running"} /\ transcript[j].state \notin {"queued", "running"}
      BY <1>1, <1>3
    <2>2. Underway(transcript') = Underway(transcript) \union {j}
      BY <1>2, <1>5, <2>1, UnderwayChanges
    <2>3. j \notin Underway(transcript)
      BY <2>1 DEF Underway
    <2> QED
      BY <2>2, <2>3
  <1>7. PoolIs(Recordings, SttWorkers, SttStarts, Underway(transcript) \union {j}, Owed(sttRunning, SttWorkers),
               sttList, sttWorkers, sttTaken, Append(sttQueue, j), sttCount)
    <2>1. TranscriptNow
      BY DEF TranscriptInv
    <2> QED
      BY <2>1, <1>6, ServiceAssumed, PoolSubmits DEF TranscriptNow
  <1>8. TranscriptNow'
    BY <1>1, <1>6, <1>7 DEF TranscriptNow, Owed
  <1>9. \A k \in Recordings : TranscriptIsTrue(transcript[k])'
    <2>1. \A k \in Recordings : TranscriptIsTrue(transcript'[k])
      BY <1>4, <1>5 DEF TranscriptInv
    <2> QED
      BY <2>1 DEF TranscriptIsTrue
  <1> QED
    BY <1>1, <1>5, <1>8, <1>9 DEF TranscriptInv

LEMMA TakeRecordingIsSound ==
  ASSUME TranscriptInv, NEW w \in Pool!Workers, TakeRecording(w) PROVE TranscriptInv'
  <1>1. /\ w \in sttWorkers /\ sttTaken[w] = "None" /\ sttQueue # <<>> /\ sttQueue' = Tail(sttQueue)
        /\ UNCHANGED <<sttRunning, sttList, sttCount>>
    BY DEF TakeRecording, Pool!TakeNext, Pool!Sentinel
  <1>2. /\ PoolIs(Recordings, SttWorkers, SttStarts, Underway(transcript), Owed(sttRunning, SttWorkers), sttList,
                  sttWorkers, sttTaken, sttQueue, sttCount)
        /\ transcript \in [Recordings -> JobStates] /\ sttRunning \in BOOLEAN
    BY DEF TranscriptInv, TranscriptNow
  <1>3. CASE Head(sttQueue) = "None"
    <2>1. sttWorkers' = sttWorkers \ {w} /\ UNCHANGED <<sttTaken, transcript>>
      BY <1>3 DEF TakeRecording, Pool!TakeNext, Pool!Sentinel
    <2>2. PoolIs(Recordings, SttWorkers, SttStarts, Underway(transcript), Owed(sttRunning, SttWorkers), sttList,
                 sttWorkers \ {w}, sttTaken, Tail(sttQueue), sttCount)
      BY <1>1, <1>2, <1>3, ServiceAssumed, PoolEndsWorker
    <2>3. TranscriptNow'
      BY <1>1, <2>1, <2>2 DEF TranscriptNow, Owed
    <2>4. \A j \in Recordings : TranscriptIsTrue(transcript[j])'
      BY <2>1 DEF TranscriptInv
    <2> QED
      BY <1>1, <1>2, <2>1, <2>3, <2>4 DEF TranscriptInv
  <1>4. CASE Head(sttQueue) # "None"
    <2> DEFINE j == Head(sttQueue)
               r == [transcript[j] EXCEPT !.state = "running"]
    <2>1. /\ sttTaken' = [sttTaken EXCEPT ![w] = j] /\ transcript' = [transcript EXCEPT ![j] = r]
          /\ sttWorkers' = sttWorkers
      BY <1>4 DEF TakeRecording, Pool!TakeNext, Pool!Sentinel
    <2>2. /\ PoolIs(Recordings, SttWorkers, SttStarts, Underway(transcript), Owed(sttRunning, SttWorkers), sttList,
                    sttWorkers, [sttTaken EXCEPT ![w] = j], Tail(sttQueue), sttCount)
          /\ j \in Recordings \intersect Underway(transcript)
      <3> DEFINE D == Underway(transcript)
                 o == Owed(sttRunning, SttWorkers)
      <3>1. PoolIs(Recordings, SttWorkers, SttStarts, D, o, sttList, sttWorkers, sttTaken, sttQueue, sttCount)
        BY <1>2
      <3> HIDE DEF D, o
      <3>2. /\ PoolIs(Recordings, SttWorkers, SttStarts, D, o, sttList, sttWorkers,
                      [sttTaken EXCEPT ![w] = Head(sttQueue)], Tail(sttQueue), sttCount)
            /\ Head(sttQueue) \in Recordings \intersect D
        BY <3>1, <1>1, <1>4, ServiceAssumed, PoolTakes
      <3> QED
        BY <3>2 DEF D, o
    <2> HIDE DEF j
    <2>3. transcript[j] \in JobStates /\ r \in JobStates /\ r.state = "running" /\ r.response = transcript[j].response
      BY <1>2, <2>2 DEF JobStates
    <2>4. transcript' \in [Recordings -> JobStates] /\ \A k \in Recordings : transcript'[k] = IF k = j THEN r ELSE transcript[k]
      BY <1>2, <2>1, <2>2, <2>3
    <2>5. Underway(transcript') = Underway(transcript) \union {j} /\ transcript[j].state \in {"queued", "running"}
      <3>1. r.state = "running" /\ j \in Recordings
        BY <2>2, <2>3
      <3> HIDE DEF r
      <3> QED
        BY <3>1, <1>2, <2>2, <2>4, UnderwayChanges
    <2>6. TranscriptIsTrue(r)
      <3>1. /\ transcript[j].response.reason # "error"
            /\ transcript[j].response.degraded <=> transcript[j].response.model = "stub"
        <4>1. transcript[j].state # "failed" /\ j \in Recordings
          BY <2>2, <2>5
        <4> QED
          BY <4>1, Zenon DEF TranscriptInv, TranscriptIsTrue
      <3>2. r.state # "failed"
        BY <2>3
      <3> QED
        BY <2>3, <3>1, <3>2, Zenon DEF TranscriptIsTrue
    <2> HIDE DEF r
    <2>7. Underway(transcript') = Underway(transcript)
      BY <2>2, <2>5
    <2>8. TranscriptNow'
      BY <1>1, <2>1, <2>2, <2>7 DEF TranscriptNow, Owed
    <2>9. \A k \in Recordings : TranscriptIsTrue(transcript[k])'
      <3>1. \A k \in Recordings : TranscriptIsTrue(transcript'[k])
        BY <2>4, <2>6 DEF TranscriptInv
      <3> QED
        BY <3>1 DEF TranscriptIsTrue
    <2> QED
      BY <1>1, <1>2, <2>4, <2>8, <2>9 DEF TranscriptInv
  <1> QED
    BY <1>3, <1>4

LEMMA FinishTranscriptIsSound ==
  ASSUME TranscriptInv, NEW w \in Pool!Workers, Finishes(w) PROVE TranscriptInv'
  <1>1. PICK engine \in {"faster-whisper", "stub"}, fails \in BOOLEAN : FinishTranscript(w, engine, fails)
    BY DEF Finishes, MakeBackend
  <1> DEFINE j == sttTaken[w]
             model == IF fails THEN "none" ELSE engine
             reason == IF fails THEN "error" ELSE "none"
             mark == ~fails /\ engine = "stub"
             ended == IF fails THEN "failed" ELSE "done"
             answer == [transcript[j].response EXCEPT !.model = model, !.reason = reason, !.degraded = mark]
             r == [transcript[j] EXCEPT !.state = ended, !.response = answer]
  <1>2. /\ w \in sttWorkers /\ sttTaken[w] # "None" /\ sttTaken' = [sttTaken EXCEPT ![w] = "None"]
        /\ UNCHANGED <<sttRunning, sttList, sttWorkers, sttQueue, sttCount>>
    BY <1>1 DEF FinishTranscript, Pool!Sentinel
  <1>3. /\ PoolIs(Recordings, SttWorkers, SttStarts, Underway(transcript), Owed(sttRunning, SttWorkers), sttList,
                  sttWorkers, sttTaken, sttQueue, sttCount)
        /\ transcript \in [Recordings -> JobStates] /\ sttRunning \in BOOLEAN
    BY DEF TranscriptInv, TranscriptNow
  <1>4. /\ PoolIs(Recordings, SttWorkers, SttStarts, Underway(transcript) \ {j}, Owed(sttRunning, SttWorkers), sttList,
                  sttWorkers, [sttTaken EXCEPT ![w] = "None"], sttQueue, sttCount)
        /\ j \in Recordings \intersect Underway(transcript)
    BY <1>2, <1>3, ServiceAssumed, PoolFinishes
  <1>5. transcript[j] \in JobStates
    BY <1>3, <1>4
  <1>6. transcript' = [transcript EXCEPT ![j] = r]
    <2>1. transcript' = [transcript EXCEPT ![j].state = ended,
                            ![j].response = [@ EXCEPT !.model = model, !.reason = reason, !.degraded = mark]]
      BY <1>1 DEF FinishTranscript
    <2> HIDE DEF j, model, reason, mark, ended
    <2> QED
      BY <1>3, <1>4, <1>5, <2>1 DEF JobStates
  <1>7. /\ model \in {"none", "faster-whisper", "stub"} /\ reason \in {"none", "error"}
        /\ mark \in BOOLEAN /\ ended \in {"failed", "done"}
    OBVIOUS
  <1>8. (ended = "failed" <=> reason = "error") /\ (mark <=> model = "stub")
    OBVIOUS
  <1> HIDE DEF j, model, reason, mark, ended
  <1>9. /\ answer \in Responses /\ answer.reason = reason /\ answer.model = model /\ answer.degraded = mark
    BY <1>5, <1>7 DEF JobStates, Responses
  <1>10. TranscriptIsTrue([transcript[j] EXCEPT !.state = ended, !.response = answer])
         /\ r \in JobStates /\ r.state = ended
    <2> HIDE DEF answer
    <2>1. r \in JobStates /\ r.state = ended /\ r.response = answer
      BY <1>5, <1>7, <1>9 DEF JobStates
    <2> HIDE DEF r
    <2>2. TranscriptIsTrue(r)
      BY <1>8, <1>9, <2>1, Zenon DEF TranscriptIsTrue
    <2> QED
      BY <2>1, <2>2 DEF r
  <1>11. TranscriptIsTrue(r)
    BY <1>10
  <1> HIDE DEF r, answer
  <1>12. transcript' \in [Recordings -> JobStates] /\ \A k \in Recordings : transcript'[k] = IF k = j THEN r ELSE transcript[k]
    BY <1>3, <1>4, <1>6, <1>10
  <1>13. Underway(transcript') = Underway(transcript) \ {j}
    <2>1. r.state \notin {"queued", "running"} /\ j \in Recordings
      BY <1>4, <1>7, <1>10
    <2>2. transcript \in [Recordings -> JobStates]
      BY <1>3
    <2> QED
      BY <1>12, <2>1, <2>2, UnderwayChanges
  <1>14. TranscriptNow'
    BY <1>2, <1>4, <1>13 DEF TranscriptNow, Owed
  <1>15. \A k \in Recordings : TranscriptIsTrue(transcript[k])'
    <2>1. \A k \in Recordings : TranscriptIsTrue(transcript'[k])
      BY <1>11, <1>12 DEF TranscriptInv
    <2> QED
      BY <2>1 DEF TranscriptIsTrue
  <1> QED
    BY <1>2, <1>3, <1>12, <1>14, <1>15 DEF TranscriptInv

LEMMA TranscriptInvariance == TranscriptSpec => []TranscriptInv
  <1>1. TranscriptInit => TranscriptInv
    <2> SUFFICES ASSUME TranscriptInit PROVE TranscriptInv
      OBVIOUS
    <2>1. /\ sttRunning = FALSE /\ sttList = {} /\ sttWorkers = {} /\ sttQueue = <<>> /\ sttCount = 0
          /\ sttTaken = [w \in 1 .. SttWorkers * SttStarts |-> "None"]
          /\ transcript = [j \in Recordings |-> Pool!Unsubmitted]
      BY DEF TranscriptInit, Pool!Sentinel, Pool!Workers
    <2>2. /\ Pool!Unsubmitted \in JobStates /\ Pool!Unsubmitted.state = "none"
          /\ Pool!Unsubmitted.response.reason = "none" /\ Pool!Unsubmitted.response.degraded = FALSE
          /\ Pool!Unsubmitted.response.model = "none"
      BY DEF Pool!Unsubmitted, JobStates, Responses, Pool!NoResponse, Assigned
    <2>3. /\ transcript \in [Recordings -> JobStates] /\ Underway(transcript) = {}
          /\ \A j \in Recordings : TranscriptIsTrue(transcript[j])
      <3>1. TranscriptIsTrue(Pool!Unsubmitted)
        <4>1. "none" # "failed" /\ "none" # "error" /\ "none" # "stub"
          OBVIOUS
        <4> QED
          BY <2>2, <4>1, Zenon DEF TranscriptIsTrue
      <3> QED
        BY <2>1, <2>2, <3>1 DEF Underway
    <2>4. \A x : CountOf(sttQueue, x) = 0 /\ TakenBy(sttWorkers, sttTaken, x) = 0
      <3> SUFFICES ASSUME NEW x PROVE CountOf(sttQueue, x) = 0 /\ TakenBy(sttWorkers, sttTaken, x) = 0
        OBVIOUS
      <3>1. {i \in DOMAIN sttQueue : sttQueue[i] = x} = {} /\ {w \in sttWorkers : sttTaken[w] = x} = {}
        BY <2>1
      <3> QED
        BY <3>1, FS_EmptySet DEF CountOf, TakenBy
    <2>5. IsFiniteSet(sttList) /\ Cardinality(sttList) = 0 /\ Cardinality(sttWorkers) = 0
      BY <2>1, FS_EmptySet
    <2>6. TranscriptNow
      BY <2>1, <2>3, <2>4, <2>5, ServiceAssumed DEF TranscriptNow, PoolIs, Owed
    <2> QED
      BY <2>1, <2>3, <2>6 DEF TranscriptInv
  <1>2. TranscriptInv /\ [TranscriptNext]_transcriptVars => TranscriptInv'
    <2> SUFFICES ASSUME TranscriptInv, [TranscriptNext]_transcriptVars PROVE TranscriptInv'
      OBVIOUS
    <2>1. CASE StartService
      BY <2>1, StartServiceIsSound
    <2>2. CASE StopService
      BY <2>2, StopServiceIsSound
    <2>3. CASE \E ws \in sttStops : ServiceStopped(ws)
      BY <2>3, ServiceStoppedIsSound
    <2>4. CASE \E r \in Recordings : SubmitRecording(r)
      BY <2>4, SubmitRecordingIsSound
    <2>5. CASE \E w \in Pool!Workers : TakeRecording(w)
      BY <2>5, TakeRecordingIsSound
    <2>6. CASE \E w \in Pool!Workers : Finishes(w)
      BY <2>6, FinishTranscriptIsSound
    <2>7. CASE UNCHANGED transcriptVars
      <3>1. TranscriptNow'
        BY <2>7 DEF transcriptVars, TranscriptInv, TranscriptNow
      <3> QED
        BY <2>7, <3>1 DEF transcriptVars, TranscriptInv, TranscriptIsTrue
    <2> QED
      BY <2>1, <2>2, <2>3, <2>4, <2>5, <2>6, <2>7 DEF TranscriptNext
  <1> QED
    BY <1>1, <1>2, PTL DEF TranscriptSpec

LEMMA TranscriptInvIsSound == TranscriptInv => TranscriptsAreSound
  <1> SUFFICES ASSUME TranscriptInv PROVE TranscriptsAreSound
    OBVIOUS
  <1>1. PoolIs(Recordings, SttWorkers, SttStarts, Underway(transcript), Owed(sttRunning, SttWorkers), sttList,
               sttWorkers, sttTaken, sttQueue, sttCount)
    BY DEF TranscriptInv, TranscriptNow
  <1>2. \A r \in Recordings : Pool!Places(r) = IF transcript[r].state \in {"queued", "running"} THEN 1 ELSE 0
    <2>1. \A r \in Recordings : Pool!Places(r) = IF r \in Underway(transcript) THEN 1 ELSE 0
      BY <1>1, SameCount DEF PoolIs, Pool!Places, CountOf, TakenBy
    <2>2. DOMAIN transcript = Recordings
      BY DEF TranscriptInv
    <2> QED
      BY <2>1, <2>2 DEF Underway
  <1>3. Pool!Markers + (IF sttRunning THEN SttWorkers ELSE 0) <= Cardinality(sttWorkers)
    BY <1>1, SameCount DEF PoolIs, Pool!Markers, CountOf, Owed, Pool!Sentinel
  <1>4. \A r \in Recordings :
          /\ transcript[r].state = "failed" <=> transcript[r].response.reason = "error"
          /\ transcript[r].response.degraded <=> transcript[r].response.model = "stub"
    BY Zenon DEF TranscriptInv, TranscriptIsTrue
  <1> QED
    BY <1>2, <1>3, <1>4, Zenon DEF TranscriptsAreSound

-----------------------------------------------------------------------------
\* In a behaviour of the services each part behaves as it does alone.
LEMMA PartsMoveAlone ==
  ServicesSpec => PoolSpec /\ TranscriptSpec /\ FailoverSpec /\ ToolSpec /\ CanarySpec /\ RegionSpec
  <1>1. ServicesInit => PoolInit /\ TranscriptInit /\ FailoverInit /\ ToolInit /\ CanaryInit /\ RegionInit
    BY DEF ServicesInit
  <1>2. [ServicesNext]_serviceVars => [PoolNext]_poolVars
    BY DEF ServicesNext, serviceVars
  <1>3. [ServicesNext]_serviceVars => [TranscriptNext]_transcriptVars
    BY DEF ServicesNext, serviceVars
  <1>4. [ServicesNext]_serviceVars => [FailoverNext]_failoverVars
    BY DEF ServicesNext, serviceVars
  <1>5. [ServicesNext]_serviceVars => [ToolNext]_toolVars
    BY DEF ServicesNext, serviceVars
  <1>6. [ServicesNext]_serviceVars => [CanaryNext]_canaryVars
    BY DEF ServicesNext, serviceVars
  <1>7. [ServicesNext]_serviceVars => [RegionNext]_regionVars
    BY DEF ServicesNext, serviceVars
  <1> QED
    BY <1>1, <1>2, <1>3, <1>4, <1>5, <1>6, <1>7, PTL
       DEF ServicesSpec, PoolSpec, TranscriptSpec, FailoverSpec, ToolSpec, CanarySpec, RegionSpec

\* Jobs and workers add up, failover neither flaps nor sticks, tools answer
\* their own call only, bad evidence never improves the verdict on a release,
\* and a user is served by the best usable region, whatever the order of calls.
THEOREM ServicesKeepTheirWord == ServicesSpec => []ServicesAreSound
  <1>1. PoolInv /\ TranscriptInv /\ FailoverInv /\ ToolInv /\ CanaryInv /\ RegionInv => ServicesAreSound
    BY PoolInvIsSound, TranscriptInvIsSound, FailoverInvIsSound, ToolInvIsSound, CanaryInvIsMonotone,
       RegionInvIsBest, Zenon DEF ServicesAreSound
  <1> QED
    BY <1>1, PartsMoveAlone, PoolInvariance, TranscriptInvariance, FailoverInvariance, ToolInvariance,
       CanaryInvariance, RegionInvariance, PTL
===============================================================================
