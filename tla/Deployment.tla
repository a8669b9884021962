------------------------------ MODULE Deployment ------------------------------
(* The deployment decisions (infra/): a release by its canaries, a region for a *)
(* user.                                                                        *)
EXTENDS Integers, FiniteSets, Sequences

-----------------------------------------------------------------------------
(* What becomes of a canary (infra/deploy/rollback.py): the metrics observed so *)
(* far are compared with the limits of the release policy.                      *)

CONSTANTS Metrics,     \* the metrics of rollback_trigger
          LowerBound,  \* those whose comparison is less_than
          Limit,       \* one limit for all, in units of the values
          MinSamples   \* canary.min_samples

ASSUME ReleaseAssumption == Limit \in Nat /\ MinSamples \in Nat

Absent == -1
Readings == -1 .. Limit + 1
SampleCounts == {Absent, 0, MinSamples - 1, MinSamples}

VARIABLES readings, samples, release

canaryVars == <<readings, samples, release>>

CanaryInit ==
    /\ readings = [m \in Metrics |-> Absent]
    /\ samples = Absent
    /\ release = "canary"

IsBreached(m, v) == IF m \in LowerBound THEN v < Limit ELSE v > Limit

Breached(ms) == {m \in Metrics : ms[m] # Absent /\ IsBreached(m, ms[m])}

\* Mutant of EvaluateRelease: too few samples hide a breach.
HoldBeforeRollback(ms, n) ==
    IF n # Absent /\ n < MinSamples THEN "hold"
    ELSE IF Breached(ms) # {} THEN "rollback" ELSE "promote"

\* evaluate(): a metric nobody observed is skipped, and so is an unknown count.
EvaluateRelease(ms, n) ==
    IF Breached(ms) # {} THEN "rollback"
    ELSE IF n # Absent /\ n < MinSamples THEN "hold" ELSE "promote"

Observe(m, v, n) ==
    /\ release \in {"canary", "hold"}
    /\ readings' = [readings EXCEPT ![m] = v]
    /\ samples' = n
    /\ release' = EvaluateRelease(readings', n)

CanaryNext == \E m \in Metrics, v \in Readings \ {Absent}, n \in SampleCounts : Observe(m, v, n)

CanarySpec == CanaryInit /\ [][CanaryNext]_canaryVars

-----------------------------------------------------------------------------
Worsen(m, v) == IF m \in LowerBound THEN v - 1 ELSE v + 1
Rank(action) == IF action = "rollback" THEN 0 ELSE IF action = "hold" THEN 1 ELSE 2

\* A verdict never gets better by evidence against the release: a worse reading,
\* a reading taken where there was none, or fewer samples never move it from
\* rollback towards promote; a promoted canary breaks no limit that was observed.
VerdictIsMonotone ==
    /\ \A m \in Metrics : readings[m] \in 1 .. Limit =>
          Rank(EvaluateRelease([readings EXCEPT ![m] = Worsen(m, @)], samples))
             <= Rank(EvaluateRelease(readings, samples))
    /\ \A m \in Metrics :
          Rank(EvaluateRelease(readings, samples))
             <= Rank(EvaluateRelease([readings EXCEPT ![m] = Absent], samples))
    /\ \A n \in SampleCounts \ {Absent} : samples # Absent /\ n < samples =>
          Rank(EvaluateRelease(readings, n)) <= Rank(EvaluateRelease(readings, samples))
    /\ release = "promote" => \A m \in Metrics : readings[m] # Absent =>
          IF m \in LowerBound THEN readings[m] >= Limit ELSE readings[m] <= Limit

-----------------------------------------------------------------------------
(* Which region serves a user (infra/deploy/regions.py): the preferred one, the *)
(* first usable one of its fallback chain, or the cheapest usable one.          *)
(* Locations are abstracted to an estimated latency for each user.              *)

CONSTANTS Users, Regions,   \* Regions: a finite set of numbers, which order the names
          LatencyTo,        \* estimated_latency_ms, by user and region
          Chain,            \* the fallbacks of each region
          WarmBonus, AffinityBonus

ASSUME RegionAssumption ==
    /\ Regions \subseteq Nat \ {0}
    /\ LatencyTo \in [Users -> [Regions -> Nat]]
    /\ Chain \in [Regions -> Seq(Regions)]
    /\ WarmBonus \in Nat /\ AffinityBonus \in Nat

NoRegion == 0
NoRoute == [region |-> NoRegion, outcome |-> "none", warm |-> FALSE, considered |-> <<>>]
PoolStates == [inUse : 0 .. 2, warm : 0 .. 1, capacity : {2}]

VARIABLES healthy, warmPool, route, asked

regionVars == <<healthy, warmPool, route, asked>>

RegionInit ==
    /\ healthy = [r \in Regions |-> TRUE]
    /\ warmPool = [r \in Regions |-> [inUse |-> 0, warm |-> 1, capacity |-> 2]]
    /\ route = NoRoute
    /\ asked = [user |-> CHOOSE u \in Users : TRUE, preferred |-> NoRegion]

HasCapacity(r) == warmPool[r].inUse < warmPool[r].capacity
IsWarmReady(r) == warmPool[r].warm > warmPool[r].inUse /\ HasCapacity(r)
IsEligible(r) == healthy[r] /\ HasCapacity(r)
Eligible == {r \in Regions : IsEligible(r)}

EffectiveCost(r, user, preferred) ==
    LatencyTo[user][r] - (IF r = preferred THEN AffinityBonus ELSE 0)
                       - (IF IsWarmReady(r) THEN WarmBonus ELSE 0)

\* min over (cost, name).
BestEligible(user, preferred) ==
    CHOOSE r \in Eligible : \A q \in Eligible :
        \/ EffectiveCost(r, user, preferred) < EffectiveCost(q, user, preferred)
        \/ EffectiveCost(r, user, preferred) = EffectiveCost(q, user, preferred) /\ r <= q

MakeRoute(r, outcome, considered) ==
    [region |-> r, outcome |-> outcome, warm |-> IsWarmReady(r), considered |-> considered]

\* Positions of the chain that may serve, for a chain of known regions.
Usable(preferred) == {i \in DOMAIN Chain[preferred] :
                         Chain[preferred][i] \in Regions /\ IsEligible(Chain[preferred][i])}

FirstUsable(preferred) == CHOOSE i \in Usable(preferred) : \A j \in Usable(preferred) : i <= j

RouteFor(user, preferred) ==
    LET tried == IF preferred \in Regions THEN <<preferred>> \o Chain[preferred] ELSE <<>>
        best == BestEligible(user, preferred)
    IN IF preferred \in Eligible THEN MakeRoute(preferred, "affinity", <<preferred>>)
       ELSE IF preferred \in Regions /\ Usable(preferred) # {}
       THEN MakeRoute(Chain[preferred][FirstUsable(preferred)], "fallback",
                      SubSeq(tried, 1, FirstUsable(preferred) + 1))
       ELSE IF Eligible # {}
       THEN MakeRoute(best, IF preferred = NoRegion THEN "nearest" ELSE "last_resort",
                      IF \E i \in DOMAIN tried : tried[i] = best
                      THEN tried ELSE Append(tried, best))
       ELSE [NoRoute EXCEPT !.considered = tried]

Route(user, preferred) ==
    /\ route' = RouteFor(user, preferred)
    /\ asked' = [user |-> user, preferred |-> preferred]
    /\ UNCHANGED <<healthy, warmPool>>

SetHealth(r, h) ==
    /\ healthy' = [healthy EXCEPT ![r] = h]
    /\ route' = NoRoute
    /\ UNCHANGED <<warmPool, asked>>

\* The deployment fills and warms the pools; the router only reads them.
PoolChanges(r, p) ==
    /\ warmPool' = [warmPool EXCEPT ![r] = p]
    /\ route' = NoRoute
    /\ UNCHANGED <<healthy, asked>>

RegionNext ==
    \/ \E u \in Users, p \in Regions \union {NoRegion} : Route(u, p)
    \/ \E r \in Regions, h \in BOOLEAN : SetHealth(r, h)
    \/ \E r \in Regions, p \in PoolStates : PoolChanges(r, p)

RegionSpec == RegionInit /\ [][RegionNext]_regionVars

-----------------------------------------------------------------------------
\* A user is served whenever some region could serve, never by a region that is
\* down or full, and never away from the home region while that one can serve;
\* a region off the home chain is chosen only when nothing on the chain can
\* serve and no other usable region is cheaper, so the affinity credit of the
\* cost never decides anything.
RouteIsBest ==
    route # NoRoute /\ route.considered # <<>> =>
        /\ (route.region = NoRegion) <=> (Eligible = {})
        /\ route.region # NoRegion => route.region \in Eligible
        /\ asked.preferred \in Eligible => route.region = asked.preferred
        /\ route.outcome \in {"last_resort", "nearest"} =>
              /\ asked.preferred # NoRegion => Usable(asked.preferred) = {}
              /\ \A q \in Eligible : EffectiveCost(route.region, asked.user, NoRegion)
                                        <= EffectiveCost(q, asked.user, NoRegion)
        /\ route.outcome = "fallback" =>
              \A i \in 1 .. Len(route.considered) - 1 : route.considered[i] \notin Eligible
=============================================================================
