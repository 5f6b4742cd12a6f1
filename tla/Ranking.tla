------------------------------- MODULE Ranking -------------------------------
(***************************************************************************)
(* How the selector ranks (factory/selector/api.py): the compatibility     *)
(* filter with the domain scope, cost estimates from telemetry or the      *)
(* manifest, the weighted score with its penalties, the order, the failure *)
(* mode, and the trace file, whose name is a hash of what the selection    *)
(* was made from.  (Catalog has the registry that changes meanwhile.)      *)
(*                                                                         *)
(* Weights, penalties and subscores are hundredths, costs are twice the    *)
(* dollars, so that a median is an integer.  The cost subscore is a        *)
(* fraction of the spread of all costs; a score is a multiple of           *)
(* 1 / (10000 * Spread), exact where the code rounds floating-point        *)
(* numbers.  Freshness alone is rounded down to hundredths.  A domain      *)
(* label is the set of its tokens: equality and the prefix test of         *)
(* domain_label_matches are cases of its subset test.                      *)
(***************************************************************************)
EXTENDS Integers, Sequences, FiniteSets, SequencesExt, FiniteSetsExt

CONSTANTS
    Simulators,     \* simulator ids; their order is that of the strings
    Registries,     \* what the catalog may hold, an entry for each simulator
    Telemetries,    \* runtimes that may have been observed, in some order
    MinRuns,        \* min_runs_for_confidence
    WeightTables,   \* contents of weights.yaml
    Caps,           \* budget_dollar_cap, or Unknown
    Scopes,         \* the domain scope to begin with
    Moves,          \* updates of the scope
    Selections      \* bound: selections made

\* No cap, or a manifest without a runtime.
Unknown == -1

ASSUME RankingAssumption ==
    /\ Simulators \subseteq Nat /\ IsFiniteSet(Simulators)
    /\ \A r \in Registries : DOMAIN r = Simulators /\ \A s \in Simulators :
          /\ {r[s].rate, r[s].days, r[s].smoke} \subseteq Nat
          /\ r[s].runtime \in Nat \cup {Unknown}
    /\ Telemetries \subseteq [Simulators -> Seq(Nat)]
    /\ WeightTables \subseteq
          [capability_match : Int, license_compliance : Int, cost : Int,
           cross_simulator_availability : Int, maintenance_freshness : Int,
           ambiguity_epsilon : Int, cost_estimate_missing_penalty : Int,
           over_budget_penalty : Int]
    /\ \A s \in Scopes : s.simulators \subseteq Simulators
    /\ \A m \in Moves : m.addSimulators \subseteq Simulators
    /\ Caps \subseteq Nat \cup {Unknown}
    /\ {MinRuns, Selections} \subseteq Nat \ {0}

VARIABLES
    entries,        \* the active entries of the catalog
    selector,       \* the Selector: its weights and telemetry, or NoSelector
    scope,          \* the DomainScope: labels and simulators it allows
    traces,         \* <selection-hash>.trace.json, by what the hash is made of
    returned        \* history: selections with their requests and results

rankingVars == <<entries, selector, scope, traces, returned>>

NoSelector == [weights |-> <<>>, runs |-> <<>>]

RankingTypeOK ==
    /\ entries \in Registries
    /\ selector = NoSelector \/ selector \in [weights : WeightTables, runs : Telemetries]
    /\ scope.simulators \subseteq Simulators
    /\ \A key \in DOMAIN traces :
          key.weights \in WeightTables /\ DOMAIN key.runs = Simulators
    /\ Cardinality(returned) <= Selections

RankingInit ==
    /\ entries \in Registries
    /\ selector = NoSelector
    /\ scope \in Scopes
    /\ traces = <<>>
    /\ returned = {}

\* The elements of a set as a sequence, by a strict total order.
InOrder(S, Before(_, _)) ==
    [i \in 1 .. Cardinality(S) |->
        CHOOSE x \in S : Cardinality({y \in S : Before(y, x)}) = i - 1]

-----------------------------------------------------------------------------
(***************************************************************************)
(* The domain scope.                                                       *)
(***************************************************************************)
\* update_domain_scope: what is added stays, also when it is removed as well.
UpdateDomainScope(s, move) ==
    [domains |-> (s.domains \ move.removeDomains) \cup move.addDomains,
     simulators |-> (s.simulators \ move.removeSimulators) \cup move.addSimulators]

DomainLabelMatches(allowed, domain) ==
    /\ allowed # {} /\ domain # {}
    /\ allowed \subseteq domain \/ domain \subseteq allowed

\* domain_scope_allows_entry: a scope that names nothing allows everything.
Allows(s, sim) ==
    /\ s.simulators = {} \/ sim \in s.simulators
    /\ s.domains = {} \/ \E d \in s.domains : DomainLabelMatches(d, entries[sim].domain)

-----------------------------------------------------------------------------
(***************************************************************************)
(* One candidate.                                                          *)
(***************************************************************************)
Declared(s, t) == t \in entries[s].declares

\* check_compatibility: the subscore of the first way that leads to the
\* metric, 0 when none does.
CapabilityMatch(s) ==
    IF entries[s].reach = "direct" THEN 100
    ELSE IF entries[s].declares # {} \/ \E t \in Simulators : Declared(t, s) THEN 85
    ELSE IF entries[s].reach = "general" THEN 70 ELSE 0

\* can_cross_validate: one of the two manifests says so.
CanCrossValidate(s, t) == s # t /\ (Declared(s, t) \/ Declared(t, s))

\* Mutant: the runs are taken as they came in.
MedianAsObserved(times) ==
    LET n == Len(times) IN
    IF n % 2 = 1 THEN 2 * times[n \div 2 + 1]
    ELSE times[n \div 2] + times[n \div 2 + 1]

\* sorted(run_times): the i-th is the least that i of them do not exceed.
Sorted(times) ==
    [i \in DOMAIN times |->
        Min({v \in Range(times) : Cardinality({j \in DOMAIN times : times[j] <= v}) >= i})]

\* Twice the median of the runs.
Median(times) ==
    LET sorted == Sorted(times)
        n      == Len(times)
    IN  IF n % 2 = 1 THEN 2 * sorted[n \div 2 + 1]
        ELSE sorted[n \div 2] + sorted[n \div 2 + 1]

\* _estimate_cost of the selector self: the runtime of the telemetry, the
\* manifest or the smoke test, the first there is; it is missing when that is
\* not positive.
Estimated(self, s) ==
    IF Len(self.runs[s]) >= MinRuns THEN Median(self.runs[s])
    ELSE IF entries[s].runtime # Unknown THEN 2 * entries[s].runtime
    ELSE 2 * entries[s].smoke
CostMissing(self, s) == Estimated(self, s) <= 0
ExpectedCost(self, s) ==
    (IF CostMissing(self, s) THEN 20 ELSE Estimated(self, s)) * entries[s].rate

\* _calculate_freshness, with the age of the last commit at the hypothesis.
Freshness(s) ==
    LET days == entries[s].days IN
    IF days > 730 \/ entries[s].unmaintained THEN 0
    ELSE IF days <= 180 THEN 100
    ELSE (100 * (730 - days)) \div 550

OverBudget(self, s, cap) == cap # Unknown /\ ExpectedCost(self, s) > 2 * cap

-----------------------------------------------------------------------------
(***************************************************************************)
(* The candidates together: C is the set of the compatible ones.           *)
(***************************************************************************)
Suitable(request) ==
    {s \in Simulators : /\ Allows(request.scope, s)
                        /\ entries[s].licensed /\ CapabilityMatch(s) > 0}

Partners(s, C) == {t \in C : CanCrossValidate(s, t)}

Cheapest(self, C) == Min({ExpectedCost(self, s) : s \in C})
Dearest(self, C) == Max({ExpectedCost(self, s) : s \in C})
Spread(self, C) ==
    IF Cheapest(self, C) = Dearest(self, C) THEN 1
    ELSE Dearest(self, C) - Cheapest(self, C)

AtLeast(bound, x) == IF x < bound THEN bound ELSE x
AtMost(bound, x) == IF x > bound THEN bound ELSE x

\* The cost subscore times Spread(self, C).
CostSubscore(self, s, C) ==
    LET spread   == Spread(self, C)
        relative == 100 * (spread - (ExpectedCost(self, s) - Cheapest(self, C)))
        penalty  == self.weights.cost_estimate_missing_penalty * spread
    IN  IF CostMissing(self, s) THEN AtLeast(0, relative - penalty) ELSE relative

\* The weighted sum, less the penalty, within [0, 1].  The licence counts in
\* full: who has none is no candidate.
FinalScore(self, s, C, cap) ==
    LET w == self.weights
        spread == Spread(self, C)
        weighted ==
            spread * (w.capability_match * CapabilityMatch(s)
                      + w.license_compliance * 100
                      + w.cross_simulator_availability
                            * (IF Partners(s, C) # {} THEN 100 ELSE 0)
                      + w.maintenance_freshness * Freshness(s))
            + w.cost * CostSubscore(self, s, C)
        penalty == IF OverBudget(self, s, cap) THEN 100 * w.over_budget_penalty * spread ELSE 0
    IN  AtLeast(0, AtMost(10000 * spread, weighted - penalty))

\* Best first, ties by id.
SortedCandidates(C, score) ==
    LET ranked == InOrder({<<score[s], s>> : s \in C}, LAMBDA p, q :
                      p[1] > q[1] \/ (p[1] = q[1] /\ p[2] < q[2]))
    IN  [i \in DOMAIN ranked |-> ranked[i][2]]

Ambiguous(self, order, C, score) ==
    /\ Len(order) >= 2
    /\ score[order[1]] - score[order[2]]
          <= 100 * self.weights.ambiguity_epsilon * Spread(self, C)

FailureMode(C, partners, over) ==
    IF C = {} THEN "no_suitable_simulator"
    ELSE IF C \subseteq over THEN "all_over_budget"
    ELSE IF \A s \in C : partners[s] = {} THEN "cross_simulator_map_empty"
    ELSE "ok"

SelectionResult(self, request) ==
    LET C == Suitable(request)
        score == [s \in C |-> FinalScore(self, s, C, request.cap)]
        partners == [s \in C |-> Partners(s, C)]
        over == {s \in C : OverBudget(self, s, request.cap)}
        order == SortedCandidates(C, score)
    IN  [order |-> order, score |-> score, partners |-> partners, over |-> over,
         ambiguous |-> Ambiguous(self, order, C, score),
         failure_mode |-> FailureMode(C, partners, over)]

-----------------------------------------------------------------------------
(***************************************************************************)
(* The selector's operations.                                              *)
(***************************************************************************)
\* _validate_weights_object.
WeightsSumUp(w) ==
    w.capability_match + w.license_compliance + w.cost
        + w.cross_simulator_availability + w.maintenance_freshness = 100

\* Selector(...): weights that do not sum up raise SelectorConfigError.
NewSelector ==
    /\ \E w \in WeightTables, t \in Telemetries :
          WeightsSumUp(w) /\ selector' = [weights |-> w, runs |-> t]
    /\ UNCHANGED <<entries, scope, traces, returned>>

MoveScope ==
    /\ \E move \in Moves : scope' = UpdateDomainScope(scope, move)
    /\ UNCHANGED <<entries, selector, traces, returned>>

\* What selection_hash is made of, beside the hypothesis and the version of
\* the catalog: the weights and, of the telemetry, its runs in order of size.
SelectionHash(s) ==
    [weights |-> s.weights,
     runs |-> [sim \in Simulators |-> Sorted(s.runs[sim])]]

\* The trace replaces one of that name; an error of writing it is logged.
WriteTrace(key, result) ==
    \/ traces' = [k \in DOMAIN traces \cup {key} |-> IF k = key THEN result ELSE traces[k]]
    \/ UNCHANGED traces

RankCandidates ==
    /\ selector # NoSelector
    /\ Cardinality(returned) < Selections
    /\ \E cap \in Caps :
          LET request == [scope |-> scope, cap |-> cap]
              result  == SelectionResult(selector, request)
          IN  /\ WriteTrace(SelectionHash(selector), result)
              /\ returned' = returned \cup
                     {[selector |-> selector, request |-> request, result |-> result]}
    /\ UNCHANGED <<entries, selector, scope>>

RankingNext == NewSelector \/ MoveScope \/ RankCandidates
RankingSpec == RankingInit /\ [][RankingNext]_rankingVars

-----------------------------------------------------------------------------
(***************************************************************************)
(* Properties.                                                             *)
(***************************************************************************)
\* s is in no respect worse than t, the budget included, for who costs more
\* than the cap is over it whatever the other costs less.
AtLeastAsGood(self, s, t, partners) ==
    /\ CapabilityMatch(s) >= CapabilityMatch(t)
    /\ ExpectedCost(self, s) <= ExpectedCost(self, t)
    /\ CostMissing(self, s) => CostMissing(self, t)
    /\ partners[t] # {} => partners[s] # {}
    /\ Freshness(s) >= Freshness(t)

NoneOvertaken(self, r) ==
    \A i, j \in DOMAIN r.order :
        i < j /\ AtLeastAsGood(self, r.order[j], r.order[i], r.partners) =>
            r.score[r.order[i]] = r.score[r.order[j]]

ModeFits(r) ==
    LET C == ToSet(r.order) IN
    /\ \A s, t \in C : t \in r.partners[s] <=> s \in r.partners[t]
    /\ r.failure_mode = "ok" =>
          C \ r.over # {} /\ \E s, t \in C : s # t /\ t \in r.partners[s]
    /\ C # {} /\ ~r.ambiguous =>
          \A s \in C \ {Head(r.order)} : r.score[s] < r.score[Head(r.order)]

\* One hash, one scope and one cap, one result; so a trace is that of the
\* result that points to it unless another scope or cap was asked for.
Reproducible ==
    /\ \A key \in DOMAIN traces : \E s \in returned :
          SelectionHash(s.selector) = key /\ s.result = traces[key]
    /\ \A s, t \in returned :
          SelectionHash(s.selector) = SelectionHash(t.selector) /\ s.request = t.request =>
              s.result = t.result

\* A ranking can be stood by: no candidate is placed behind one that is in no
\* respect better, through penalties, normalisation and clamping; a
\* simulator that can be validated against another is that one's partner in
\* turn, so an "ok" selection has two of them and one that is affordable; a
\* first place that is not called ambiguous is held alone; and what was
\* selected from the same telemetry, in whatever order its runs came in, is
\* the same again.
RankingSound ==
    /\ \A s \in returned : NoneOvertaken(s.selector, s.result) /\ ModeFits(s.result)
    /\ Reproducible

\* "candidates whose estimated cost exceeds the per-hypothesis dollar cap are
\* flagged over_budget (kept in the result, but ranked below in-budget
\* alternatives)".
OverBudgetRankedBelow ==
    \A s \in returned : \A i, j \in DOMAIN s.result.order :
        i < j /\ s.result.order[i] \in s.result.over => s.result.order[j] \in s.result.over
=============================================================================
