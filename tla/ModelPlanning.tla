------------------------------ MODULE ModelPlanning ------------------------------
(* What roadmap/ plans by: the compute budget of the phases and the choice of a *)
(* model.                                                                       *)
EXTENDS Integers, Sequences, FiniteSets, FiniteSetsExt

-----------------------------------------------------------------------------
(* The roadmap's budget planner (roadmap/budget_planner.py): which hardware a   *)
(* phase runs on, and who may enter the expensive track.                        *)

CONSTANTS PhasePlans,  \* the phases: a sequence of [vram, track]
          GpuLadder,   \* GPU_VRAM_LADDER: a sequence of [gpu, vram]
          Claims       \* what callers say is available, in GB, or NotANumber

ASSUME BudgetAssumption ==
    /\ \A p \in DOMAIN PhasePlans : PhasePlans[p].vram \in Nat
    /\ GpuLadder \in Seq([gpu : STRING, vram : Nat])
    /\ \E i \in DOMAIN GpuLadder : GpuLadder[i].vram = 0  \* a CPU needs none
    /\ Claims \subseteq Int

NotANumber == -1  \* a Boolean, a text, NaN, infinity or a missing key
NoPlan == [scope |-> "none", phase |-> 0, gpu |-> "none", vram |-> 0, confirmed |-> 0]
NoJustification == [made |-> FALSE, range |-> FALSE, footprints |-> {}, approved |-> FALSE]

VARIABLES scopePlan,      \* the last ScopePlan
          justification,  \* the AmbitiousJustification the caller holds
          admitted        \* what require_ambitious_justification said: "none", "yes" or "raised"

budgetVars == <<scopePlan, justification, admitted>>

\* The planner takes phases and budgets of one currency; ids are unique.
BudgetInit ==
    /\ scopePlan = NoPlan
    /\ justification = NoJustification
    /\ admitted = "none"

\* _confirm_available_vram: what is no positive finite number is nothing.
ConfirmAvailableVram(claim) == IF claim > 0 THEN claim ELSE 0

\* _best_fit_footprint walks up the ladder; of equals it takes the later.
BestFit(available) ==
    LET fitting == {i \in DOMAIN GpuLadder : GpuLadder[i].vram <= available}
    IN CHOOSE i \in fitting : \A j \in fitting :
          \/ GpuLadder[i].vram > GpuLadder[j].vram
          \/ GpuLadder[i].vram = GpuLadder[j].vram /\ i >= j

SelectScope(p, claim) ==
    LET confirmed == ConfirmAvailableVram(claim)
        reduced == confirmed <= 0 \/ confirmed < PhasePlans[p].vram
        fit == GpuLadder[BestFit(confirmed)]
    IN /\ scopePlan' = [phase |-> p, confirmed |-> confirmed,
                        scope |-> IF reduced THEN "reduced" ELSE "full",
                        gpu |-> IF reduced THEN fit.gpu ELSE "phase",
                        vram |-> IF reduced THEN fit.vram ELSE PhasePlans[p].vram]
       /\ UNCHANGED <<justification, admitted>>

AmbitiousFootprints == {p \in DOMAIN PhasePlans : PhasePlans[p].track = "AMBITIOUS"}

\* ambitious_justification; callers may also hold one they made themselves.
AmbitiousJustification(approved) ==
    /\ justification' = [made |-> TRUE, range |-> TRUE, footprints |-> AmbitiousFootprints,
                         approved |-> approved]
    /\ admitted' = "none"
    /\ UNCHANGED scopePlan

OwnJustification(range, footprints, approved) ==
    /\ justification' = [made |-> TRUE, range |-> range, footprints |-> footprints,
                         approved |-> approved]
    /\ admitted' = "none"
    /\ UNCHANGED scopePlan

\* require_ambitious_justification: four refusals in turn.
RequireJustification ==
    /\ admitted' = IF \/ ~justification.made
                      \/ ~justification.range
                      \/ justification.footprints = {}
                      \/ ~justification.approved
                   THEN "raised" ELSE "yes"
    /\ UNCHANGED <<scopePlan, justification>>

IsComplete(j) == j.range /\ j.footprints # {} /\ j.approved
CanEnterAmbitious(j) == j.made /\ IsComplete(j)

BudgetNext ==
    \/ \E p \in DOMAIN PhasePlans, c \in Claims : SelectScope(p, c)
    \/ \E a \in BOOLEAN : AmbitiousJustification(a)
    \/ \E r, a \in BOOLEAN, f \in {{}, {1}} : OwnJustification(r, f, a)
    \/ RequireJustification

BudgetSpec == BudgetInit /\ [][BudgetNext]_budgetVars

-----------------------------------------------------------------------------
\* A plan never asks for hardware that was not confirmed, gives up the full scope
\* only when it does not fit, and then takes the largest that does; and the two
\* ways to ask whether the expensive track may be entered agree.
PlansFitTheBudget ==
    /\ scopePlan.scope = "full" => scopePlan.confirmed >= PhasePlans[scopePlan.phase].vram
    /\ scopePlan.vram <= scopePlan.confirmed
    /\ scopePlan.scope = "reduced" =>
          /\ scopePlan.confirmed < PhasePlans[scopePlan.phase].vram \/ scopePlan.confirmed = 0
          /\ \A i \in DOMAIN GpuLadder :
                GpuLadder[i].vram <= scopePlan.confirmed => GpuLadder[i].vram <= scopePlan.vram
          /\ \E i \in DOMAIN GpuLadder :
                GpuLadder[i] = [gpu |-> scopePlan.gpu, vram |-> scopePlan.vram]
    /\ admitted = "yes" => CanEnterAmbitious(justification)
    /\ admitted = "raised" => ~CanEnterAmbitious(justification)

-----------------------------------------------------------------------------
(* The choice of a model: the evaluation harness (roadmap/evaluation_harness.py)*)
(* excludes or measures a candidate, the scorer (roadmap/selection_scorer.py)   *)
(* chooses among scored ones.  Measurements are a function of the candidate; a  *)
(* score is a small number.                                                     *)

CONSTANTS RequiredVram,   \* REQUIRED_MIN_VRAM_GB
          Weights,        \* criterion -> weight
          Minimums,       \* criterion -> minimum score
          ScoredChoices,  \* the lists of candidates to select from: [id, scores]
          MaxScore        \* bound: scores and measured values

Retain == "RETAIN_PHASE_1"
Uninterpretable == -1
MinRuns == 3

\* The last answer of each kind; a call forgets those of the other kinds.
VARIABLES harnessRun,  \* the last HarnessRun
          spread,      \* the values within_tolerance was lastly asked of
          tolerated,   \* and what it said
          chosen,      \* the SelectionOutcome's selected
          passing,     \* and its passing, as their places in offered
          offered      \* the candidates it was made from

choiceVars == <<harnessRun, spread, tolerated, chosen, passing, offered>>

NoRun == [done |-> FALSE, excluded |-> FALSE, category |-> "none", measured |-> FALSE,
          weights |-> TRUE, license |-> "compatible", vram |-> RequiredVram]

ChoiceInit ==
    /\ DOMAIN Weights = DOMAIN Minimums /\ DOMAIN Weights # {}
    /\ \A c \in DOMAIN Weights : Weights[c] > 0
    /\ harnessRun = NoRun
    /\ spread = <<>>
    /\ tolerated = TRUE
    /\ chosen = "none"
    /\ passing = {}
    /\ offered = <<>>

NoSpread == spread' = <<>> /\ tolerated' = TRUE
NoSelection == chosen' = "none" /\ passing' = {} /\ offered' = <<>>

\* _detect_exclusion: weights, then license, then hardware.
DetectExclusion(weights, license, vram) ==
    IF ~weights THEN "missing_weights"
    ELSE IF license = "prohibited" THEN "license"
    ELSE IF vram < RequiredVram THEN "hardware" ELSE "none"

\* evaluate; the record's float(vram) raises where the check was lenient.
Evaluate(weights, license, vram) ==
    LET category == DetectExclusion(weights, license, vram)
    IN /\ harnessRun' = IF vram = Uninterpretable THEN NoRun
                        ELSE [done |-> TRUE, excluded |-> category # "none", category |-> category,
                              measured |-> category = "none", weights |-> weights,
                              license |-> license, vram |-> vram]
       /\ NoSpread /\ NoSelection

Allowed(kind, reference) == IF kind = "relative" THEN reference ELSE 2 * 10

Abs(x) == IF x < 0 THEN -x ELSE x

\* within_tolerance measures from the first value: 10 % of it, or two points.
WithinTolerance(kind, values) ==
    \/ Len(values) <= 1
    \/ \A i \in DOMAIN values : 10 * Abs(values[i] - values[1]) <= Allowed(kind, values[1])

\* reproduce: at least three runs; an excluded candidate is reproducible.
Reproduce(kind, values) ==
    /\ Len(values) >= MinRuns
    /\ spread' = values
    /\ tolerated' = WithinTolerance(kind, values)
    /\ harnessRun' = NoRun /\ NoSelection

-----------------------------------------------------------------------------
\* aggregate, times the total of the weights.
WeightedSum(scores) == MapThenSumSet(LAMBDA c : scores[c] * Weights[c], DOMAIN Weights)

PassesAllMinimums(scores) == \A c \in DOMAIN Minimums : scores[c] >= Minimums[c]

\* Measurements are whole numbers, and no candidate is called what the code
\* answers when there is none.
ASSUME ChoiceAssumption ==
    /\ RequiredVram \in Nat /\ MaxScore \in Nat
    /\ \A list \in ScoredChoices :
          /\ list \in Seq([id : STRING, scores : [DOMAIN Weights -> Int]])
          /\ \A i \in DOMAIN list : /\ WeightedSum(list[i].scores) \in Int
                                    /\ list[i].id \notin {Retain, "none"}

\* aggregates is keyed by the model: the last of two candidates of one id counts.
AggregateOf(list, id) ==
    LET last == Max({i \in DOMAIN list : list[i].id = id}) IN WeightedSum(list[last].scores)

PassingOf(list) == {i \in DOMAIN list : PassesAllMinimums(list[i].scores)}

\* The first of those that pass with the best aggregate; the old pipeline if none does.
SelectedOf(list) ==
    LET ok == PassingOf(list)
        best == {i \in ok : \A j \in ok : AggregateOf(list, list[i].id) >= AggregateOf(list, list[j].id)}
    IN IF ok = {} THEN Retain ELSE list[Min(best)].id

Select(list) ==
    /\ offered' = list
    /\ passing' = PassingOf(list)
    /\ chosen' = SelectedOf(list)
    /\ harnessRun' = NoRun /\ NoSpread

ChoiceNext ==
    \/ \E w \in BOOLEAN, l \in {"compatible", "restricted", "prohibited"},
          v \in {Uninterpretable, 0, RequiredVram - 1, RequiredVram} : Evaluate(w, l, v)
    \/ \E k \in {"relative", "absolute"}, v \in [1 .. MinRuns -> 0 .. MaxScore] : Reproduce(k, v)
    \/ \E list \in ScoredChoices : Select(list)

-----------------------------------------------------------------------------
ChoiceSpec == ChoiceInit /\ [][ChoiceNext]_choiceVars

-----------------------------------------------------------------------------
Unique(list) == \A i, j \in DOMAIN list : list[i].id = list[j].id => i = j

\* What is chosen passed every minimum, and nothing that did scores more; the old
\* pipeline stays only if nothing passed, however close to a minimum a better one
\* came.  A candidate is measured or excluded, never both, and what is unusable is
\* never measured.
ChoicesAreFounded ==
    /\ chosen = Retain => \A i \in DOMAIN offered : ~PassesAllMinimums(offered[i].scores)
    /\ chosen \notin {Retain, "none"} =>
          \E i \in DOMAIN offered : offered[i].id = chosen /\ PassesAllMinimums(offered[i].scores)
    /\ chosen \notin {Retain, "none"} /\ Unique(offered) =>
          \A i, j \in DOMAIN offered :
             offered[i].id = chosen /\ PassesAllMinimums(offered[j].scores) =>
                \/ WeightedSum(offered[i].scores) > WeightedSum(offered[j].scores)
                \/ WeightedSum(offered[i].scores) = WeightedSum(offered[j].scores) /\ i <= j
    /\ harnessRun.done => harnessRun.measured # harnessRun.excluded
    /\ harnessRun.measured => /\ harnessRun.weights /\ harnessRun.license # "prohibited"
                              /\ harnessRun.vram >= RequiredVram
    /\ tolerated => \A i, j \in DOMAIN spread :
                       Abs(spread[i] - spread[j]) <= 4 \/ 5 * Abs(spread[i] - spread[j]) <= spread[1]
=============================================================================
