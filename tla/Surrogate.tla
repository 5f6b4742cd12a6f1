------------------------------ MODULE Surrogate ------------------------------
(***************************************************************************)
(* The surrogate of a simulator (factory/surrogate): training of the       *)
(* nearest-neighbour model, prediction, calibration of the threshold for   *)
(* candidates out of distribution, and the checkpoint with the copy that a *)
(* rollback restores.                                                      *)
(*                                                                         *)
(* Features have one dimension, in which the PCA projection keeps every    *)
(* distance; all values are integers, so a weight 1 / distance is a        *)
(* fraction and a prediction a pair of numerator and denominator, exact    *)
(* where the code rounds floating-point numbers.  Models in checkpoints    *)
(* are numbered.  Each file is written to a temporary file, flushed and    *)
(* put in place by os.replace, one step; the process may be killed between *)
(* two of them.                                                            *)
(***************************************************************************)
EXTENDS Integers, Sequences, FiniteSets, SequencesExt, FiniteSetsExt, Functions

CONSTANTS
    Features, Targets,      \* values of an example and of a query
    MaxExamples,            \* bound: examples in a training set
    MaxK,                   \* bound: k asked for
    Percentiles,            \* percentiles asked for
    Models                  \* bound: models saved

ASSUME SurrogateAssumption ==
    /\ {Features, Targets} \subseteq SUBSET Nat
    /\ {MaxExamples, MaxK, Models} \subseteq Nat \ {0}
    /\ Percentiles \subseteq 0 .. 100

VARIABLES
    current, rollback,      \* the models in the two files, or 0
    parent,                 \* parent_checkpoint_sha256 of each model, or 0
    saving,                 \* the save under way: stage and model
    trained                 \* the examples and k of the model in memory

surrogateVars == <<current, rollback, parent, saving, trained>>

NoFile == 0
NotSaving == [at |-> "idle", model |-> 0]
Untrained == [examples |-> <<>>, k |-> 0]
Latest == Len(parent)

SurrogateTypeOK ==
    /\ {current, rollback} \subseteq 0 .. Latest
    /\ parent \in Seq(0 .. Models)
    /\ saving \in [at : {"idle", "copy", "write", "done"}, model : 0 .. Models]
    /\ trained.examples \in Seq([x : Features, y : Targets])
    /\ trained.k \in 0 .. MaxK

SurrogateInit ==
    /\ current = NoFile /\ rollback = NoFile /\ parent = <<>>
    /\ saving = NotSaving
    /\ trained = Untrained

-----------------------------------------------------------------------------
(***************************************************************************)
(* train_knn_surrogate and KNearestSurrogateModel.predict.                 *)
(***************************************************************************)
Distance(x, y) == IF x < y THEN y - x ELSE x - y

\* _nearest_indices: the first k of the candidates by distance and index.
NearestIndices(x, examples, candidates, k) ==
    LET d(i) == Distance(x, examples[i].x)
        Before(j, i) == d(j) < d(i) \/ (d(j) = d(i) /\ j < i)
    IN  {i \in candidates : Cardinality({j \in candidates : Before(j, i)}) < k}

\* Mutant: an exact match is one neighbour among the others.
WeightedPredictionPlain(x, examples, neighbours) ==
    LET weight == [i \in neighbours |-> 100 \div (1 + Distance(x, examples[i].x))]
    IN  [num |-> SumFunction([i \in neighbours |-> weight[i] * examples[i].y]),
         den |-> SumFunction(weight)]

Product(f) == FoldFunction(LAMBDA a, b : a * b, 1, f)

\* _weighted_target_prediction: the mean of the exact matches, or else the
\* targets weighted by 1 / distance.  All is multiplied by every distance, so
\* a weight is the product of the others.
WeightedPrediction(x, examples, neighbours) ==
    LET d(i)   == Distance(x, examples[i].x)
        exact  == {i \in neighbours : d(i) = 0}
        weight == IF exact # {} THEN [i \in exact |-> 1]
                  ELSE [i \in neighbours |-> Product([j \in neighbours \ {i} |-> d(j)])]
    IN  [num |-> SumFunction([i \in DOMAIN weight |-> weight[i] * examples[i].y]),
         den |-> SumFunction(weight)]

Predict(x, examples, k) ==
    WeightedPrediction(x, examples, NearestIndices(x, examples, DOMAIN examples, k))

\* _leave_one_out_residuals, each as the prediction it is measured from.
LeaveOneOut(i, examples, k) ==
    LET others == DOMAIN examples \ {i} IN
    WeightedPrediction(examples[i].x, examples,
        NearestIndices(examples[i].x, examples, others, k))

Train ==
    /\ saving = NotSaving /\ trained = Untrained
    /\ \E n \in 1 .. MaxExamples, k \in 1 .. MaxK :
       \E examples \in [1 .. n -> [x : Features, y : Targets]] :
          trained' = [examples |-> examples, k |-> IF k < n THEN k ELSE n]
    /\ UNCHANGED <<current, rollback, parent, saving>>

-----------------------------------------------------------------------------
(***************************************************************************)
(* calibrate_ood_threshold and classify_ood.                               *)
(***************************************************************************)
\* sorted(distances): the i-th is the least that i of them do not exceed.
Sorted(distances) ==
    [i \in DOMAIN distances |->
        Min({v \in Range(distances) :
                Cardinality({j \in DOMAIN distances : distances[j] <= v}) >= i})]

\* _percentile_value times 100: interpolated between two sorted distances.
PercentileValue(sorted, percentile) ==
    LET rank  == percentile * (Len(sorted) - 1)
        lower == sorted[(rank \div 100) + 1]
        upper == sorted[((rank + 99) \div 100) + 1]
    IN  lower * (100 - (rank % 100)) + upper * (rank % 100)

IsOOD(distance, sorted, percentile) == 100 * distance > PercentileValue(sorted, percentile)

-----------------------------------------------------------------------------
(***************************************************************************)
(* save_surrogate_checkpoint and rollback_surrogate_checkpoint.            *)
(***************************************************************************)
\* The checkpoint names the file it replaces as its parent.
BeginSave ==
    /\ saving = NotSaving
    /\ trained # Untrained
    /\ Latest < Models
    /\ parent' = Append(parent, current)
    /\ saving' = [at |-> IF current = NoFile THEN "write" ELSE "copy", model |-> Latest + 1]
    /\ UNCHANGED <<current, rollback, trained>>

\* Mutant: the copy is forgotten when there is one already.
CopyRollbackOnce ==
    /\ saving.at = "copy"
    /\ rollback' = IF rollback = NoFile THEN current ELSE rollback
    /\ saving' = [saving EXCEPT !.at = "write"]
    /\ UNCHANGED <<current, parent, trained>>

CopyRollback ==
    /\ saving.at = "copy"
    /\ rollback' = current
    /\ saving' = [saving EXCEPT !.at = "write"]
    /\ UNCHANGED <<current, parent, trained>>

WriteModel ==
    /\ saving.at = "write"
    /\ current' = saving.model
    /\ saving' = [saving EXCEPT !.at = "done"]
    /\ UNCHANGED <<rollback, parent, trained>>

\* The caller has no more use for the model.
SaveReturns ==
    /\ saving.at = "done"
    /\ saving' = NotSaving
    /\ trained' = Untrained
    /\ UNCHANGED <<current, rollback, parent>>

\* rollback_surrogate_checkpoint: the copy stays where it is.
RollBack ==
    /\ saving = NotSaving
    /\ rollback # NoFile
    /\ current' = rollback
    /\ UNCHANGED <<rollback, parent, saving, trained>>

KillSave ==
    /\ saving # NotSaving
    /\ saving' = NotSaving
    /\ trained' = Untrained
    /\ UNCHANGED <<current, rollback, parent>>

SurrogateNext ==
    Train \/ BeginSave \/ CopyRollback \/ WriteModel \/ SaveReturns \/ RollBack \/ KillSave
SurrogateSpec == SurrogateInit /\ [][SurrogateNext]_surrogateVars

-----------------------------------------------------------------------------
(***************************************************************************)
(* Properties.                                                             *)
(***************************************************************************)
\* "preserve the previous version for rollback": the copy is the checkpoint
\* itself (a save was cut short, or it was rolled back) or its parent, and
\* after a save that ran to its end it is the parent; so two rollbacks never
\* reach further than one, and none reaches a model that was never current.
RollbackIsParent ==
    /\ rollback # NoFile => rollback \in {current, parent[current]}
    /\ saving.at = "done" => rollback = parent[current]

TargetsOf(examples, S) == {examples[i].y : i \in S}
Hits(x, examples) == {i \in DOMAIN examples : examples[i].x = x}
MovedUp(examples, S) ==
    [i \in DOMAIN examples |->
        IF i \in S THEN [examples[i] EXCEPT !.y = @ + 1] ELSE examples[i]]
Same(p, q) == p.num * q.den = q.num * p.den

\* A prediction comes from the nearest examples only: k of them, none farther
\* than one left out; it lies between their targets and equals the target of
\* an unambiguous exact match; adding one to every target adds one to it.
NearestDecide(examples, k) ==
    \A x \in Features :
        LET near == NearestIndices(x, examples, DOMAIN examples, k)
            p    == Predict(x, examples, k)
            q    == Predict(x, MovedUp(examples, DOMAIN examples), k)
        IN  /\ Cardinality(near) = k /\ p.den > 0
            /\ \A i \in near, j \in DOMAIN examples \ near :
                  Distance(x, examples[i].x) <= Distance(x, examples[j].x)
            /\ p.den * Min(TargetsOf(examples, near)) <= p.num
            /\ p.num <= p.den * Max(TargetsOf(examples, near))
            /\ Cardinality(TargetsOf(examples, Hits(x, examples))) = 1 =>
                  p.num = p.den * Min(TargetsOf(examples, Hits(x, examples)))
            /\ Same(q, [num |-> p.num + p.den, den |-> p.den])

\* The residual of an example never depends on its own target.
ResidualsAreUnseen(examples, k) ==
    Len(examples) > 1 => \A i \in DOMAIN examples :
        Same(LeaveOneOut(i, examples, k), LeaveOneOut(i, MovedUp(examples, {i}), k))

\* A threshold at the p-th percentile calls no more calibration distances
\* foreign than lie above that rank, and whatever is farther than a foreign
\* one is foreign.
ThresholdsHold(examples) ==
    \A x \in Features, p \in Percentiles :
        LET sorted  == Sorted([i \in DOMAIN examples |-> Distance(x, examples[i].x)])
            foreign == {i \in DOMAIN sorted : IsOOD(sorted[i], sorted, p)}
        IN  /\ Cardinality(foreign) * 100 <= (100 - p) * (Len(sorted) - 1) + 99
            /\ \A i \in foreign, d \in Features : d >= sorted[i] => IsOOD(d, sorted, p)

\* Whatever was trained: a prediction is made of the nearest examples and of
\* nothing else, a residual of what the example itself did not tell, and a
\* threshold leaves no more outside than its percentile says.
PredictionIsLocal ==
    trained # Untrained =>
        /\ NearestDecide(trained.examples, trained.k)
        /\ ResidualsAreUnseen(trained.examples, trained.k)
        /\ ThresholdsHold(trained.examples)
=============================================================================
