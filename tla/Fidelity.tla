------------------------------ MODULE Fidelity ------------------------------
(***************************************************************************)
(* The fidelity ladder of an experiment (factory/fidelity): the scheduler, *)
(* which decides afresh from the results it is given, and the loop that    *)
(* dispatches one tier after another.                                      *)
(*                                                                         *)
(* The caller holds the results.  A ladder is begun with the results that  *)
(* the caller brings along, of any tiers, as after a restart; a            *)
(* cross-simulator comparison may come in at any time.  What a dispatched  *)
(* tier measures is external.                                              *)
(***************************************************************************)
EXTENDS Integers, Sequences, FiniteSets, SequencesExt

CONSTANTS
    Ladders,        \* fidelity ladders: per tier its kind and kill threshold
    Metrics         \* what a tier may measure

NoThreshold == -1
ASSUME FidelityAssumption ==
    /\ Ladders \subseteq Seq([cross : BOOLEAN, threshold : Nat \cup {NoThreshold}]) \ {<<>>}
    /\ Metrics \subseteq Nat

VARIABLES
    ladder,         \* experiment_spec.fidelity_ladder, <<>> before the run
    results,        \* FidelityTierResults, in the order of their arrival
    comparison,     \* cross_simulator_comparison: none, passed or failed
    inFlight,       \* the tier dispatched, or 0
    dispatches,     \* history: how often each tier was dispatched
    outcome         \* what _run_ladder returned

fidelityVars == <<ladder, results, comparison, inFlight, dispatches, outcome>>

FidelityTypeOK ==
    /\ ladder \in Ladders \cup {<<>>}
    /\ results \in Seq([tier : DOMAIN ladder, metric : Metrics])
    /\ comparison \in {"none", "passed", "failed"}
    /\ inFlight \in {0} \cup DOMAIN ladder
    /\ dispatches \in [DOMAIN ladder -> Nat]
    /\ outcome \in {"none", "complete", "stopped"}

FidelityInit ==
    /\ ladder = <<>> /\ results = <<>>
    /\ comparison = "none" /\ inFlight = 0
    /\ dispatches = <<>> /\ outcome = "none"

-----------------------------------------------------------------------------
(***************************************************************************)
(* FidelityLadderScheduler.                                                *)
(***************************************************************************)
\* _validated_results raises for two results of one tier.
ResultsValid(seq) == \A i, j \in DOMAIN seq : seq[i].tier = seq[j].tier => i = j

HasResult(tier) == \E i \in DOMAIN results : results[i].tier = tier
MetricOf(tier) == (CHOOSE r \in ToSet(results) : r.tier = tier).metric
PassesKillThreshold(tier, metric) ==
    ladder[tier].threshold = NoThreshold \/ metric <= ladder[tier].threshold

\* What is known of one tier by itself: its own result comes first, then, for
\* a cross_simulator tier, the comparison if one is given.
Known(tier, compared) ==
    IF HasResult(tier)
    THEN IF PassesKillThreshold(tier, MetricOf(tier)) THEN "complete" ELSE "stop"
    ELSE IF ladder[tier].cross /\ compared # "none"
    THEN IF compared = "passed" THEN "complete" ELSE "stop"
    ELSE "open"

\* Mutant: a tier that waits for an earlier one is dispatched with it.
DecisionEager(tier, compared) ==
    IF \E t \in 1 .. tier - 1 : Known(t, compared) = "stop" THEN "wait"
    ELSE IF Known(tier, compared) # "open" THEN Known(tier, compared)
    ELSE "dispatch"

\* _decision_for_tier, with terminal_stop and dispatch_selected of the tiers
\* before this one.
Decision(tier, compared) ==
    LET before == 1 .. tier - 1 IN
    IF \E t \in before : Known(t, compared) = "stop" THEN "wait"
    ELSE IF Known(tier, compared) # "open" THEN Known(tier, compared)
    ELSE IF \E t \in before : Known(t, compared) = "open" THEN "wait"
    ELSE "dispatch"

\* _next_decision: the first tier to dispatch or to stop at, or none.
NextDecision(compared) ==
    LET actionable == {t \in DOMAIN ladder : Decision(t, compared) \in {"dispatch", "stop"}}
    IN  IF actionable = {} THEN 0
        ELSE CHOOSE t \in actionable : \A u \in actionable : t <= u

-----------------------------------------------------------------------------
(***************************************************************************)
(* _run_ladder, run_next_tier and promote_tier_results.                    *)
(***************************************************************************)
BeginLadder ==
    /\ ladder = <<>>
    /\ \E l \in Ladders :
          /\ ladder' = l
          /\ dispatches' = [t \in DOMAIN l |-> 0]
          /\ \E S \in SUBSET DOMAIN l : \E m \in [S -> Metrics] :
                results' = SetToSeq({[tier |-> t, metric |-> m[t]] : t \in S})
    /\ UNCHANGED <<comparison, inFlight, outcome>>

CrossSimulatorCompared ==
    /\ ladder # <<>> /\ comparison = "none"
    /\ comparison' \in {"passed", "failed"}
    /\ UNCHANGED <<ladder, results, inFlight, dispatches, outcome>>

\* The loop asks without a validation result, so a comparison that has come
\* in neither spares nor stops the dispatch of a cross_simulator tier.
Loop ==
    /\ ladder # <<>> /\ inFlight = 0 /\ outcome = "none"
    /\ LET next == NextDecision("none") IN
       IF next = 0 THEN /\ outcome' = "complete" /\ UNCHANGED <<inFlight, dispatches>>
       ELSE IF Decision(next, "none") = "stop"
       THEN /\ outcome' = "stopped" /\ UNCHANGED <<inFlight, dispatches>>
       ELSE /\ inFlight' = next
            /\ dispatches' = [dispatches EXCEPT ![next] = @ + 1]
            /\ UNCHANGED outcome
    /\ UNCHANGED <<ladder, results, comparison>>

TierReturns ==
    /\ inFlight # 0
    /\ \E m \in Metrics : results' = Append(results, [tier |-> inFlight, metric |-> m])
    /\ inFlight' = 0
    /\ UNCHANGED <<ladder, comparison, dispatches, outcome>>

FidelityNext == BeginLadder \/ CrossSimulatorCompared \/ Loop \/ TierReturns

\* The loop is synchronous and a dispatched tier returns.
FidelityFairness == WF_fidelityVars(Loop) /\ WF_fidelityVars(TierReturns)
FidelitySpec == FidelityInit /\ [][FidelityNext]_fidelityVars /\ FidelityFairness

-----------------------------------------------------------------------------
(***************************************************************************)
(* Properties.                                                             *)
(***************************************************************************)
\* From cheap tiers to expensive ones: a tier is dispatched at most once and
\* only when each tier below has passed; the results stay acceptable to the
\* scheduler; the ladder completes only when every tier has passed.  With the
\* comparison given, at most one tier is to be dispatched, none above a tier
\* that stops the ladder.
LadderHolds ==
    /\ ResultsValid(results)
    /\ \A t \in DOMAIN ladder :
         /\ dispatches[t] <= 1
         /\ dispatches[t] = 1 => \A u \in 1 .. t - 1 : Known(u, "none") = "complete"
         /\ outcome = "complete" => Known(t, "none") = "complete"
    /\ LET toDispatch == {t \in DOMAIN ladder : Decision(t, comparison) = "dispatch"}
           stopping   == {t \in DOMAIN ladder : Decision(t, comparison) = "stop"}
       IN  /\ Cardinality(toDispatch) <= 1 /\ Cardinality(stopping) <= 1
           /\ \A t \in toDispatch, u \in stopping : t < u

\* The ladder is climbed to its end or stopped.
LadderEnds == ladder # <<>> ~> outcome # "none"
=============================================================================
