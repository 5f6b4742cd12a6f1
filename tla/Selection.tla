----------------------------- MODULE Selection -----------------------------
(***************************************************************************)
(* The selection of parents from the strategy archive                      *)
(* (factory/strategy/selection.py) while strategies are added to it and    *)
(* the evidence about them changes.                                        *)
(*                                                                         *)
(* Scores are computed on integers: every summand is multiplied by Scale,  *)
(* the weights by ten.  Strategies of one behaviour cell have the same     *)
(* vector and those of two cells vectors at distance one.  The penalty for *)
(* children is left out: the archive never has an edge (StrategyArchive).  *)
(***************************************************************************)
EXTENDS Integers, Sequences, FiniteSets, SequencesExt, FiniteSetsExt

CONSTANTS
    Strategies,     \* hashes of strategies, in the order of Python's strings
    Evidence,       \* rows: reward, surprise, distance, feasible, visits
    Cells,          \* behaviour cells
    NoCell,         \* the cell of a row without a behaviour descriptor
    Exploration,    \* per number of visits, what the exploration term adds
    MaxSelected     \* bound: k of select_lineages

NoValue == -1
Scale == 12         \* a multiple of every divisor below
RewardAlpha == 6
SurpriseBeta == 4
FeasibilityGamma == 2
NoveltyWeight == 1
CellBonus == 5

ASSUME SelectionAssumption ==
    /\ Strategies \subseteq Nat \ {0} /\ IsFiniteSet(Strategies) /\ NoCell \notin Cells
    /\ Evidence \subseteq [reward : {NoValue, 0, 1, 2}, surprise : {NoValue, 0, 1, 2},
                           distance : {NoValue, 0, 1, 2}, feasible : {0, 1, 2}, visits : Nat]
    /\ \A visits \in {0} \cup {e.visits : e \in Evidence} : Exploration[visits] \in Nat
    /\ MaxSelected \in Nat

VARIABLES
    archive,        \* rows of the experiment: evidence and cell, or none
    enforce         \* config.enforce_behavior_descriptors

selectionVars == <<archive, enforce>>

NoRow == [cell |-> NoCell, evidence |-> [reward |-> NoValue, surprise |-> NoValue,
          distance |-> NoValue, feasible |-> -1, visits |-> 0]]
Unproven == [reward |-> NoValue, surprise |-> NoValue, distance |-> NoValue,
             feasible |-> 0, visits |-> 0]

Candidates == {s \in Strategies : archive[s] # NoRow}

SelectionTypeOK ==
    /\ archive \in [Strategies -> {NoRow} \cup
           [cell : Cells \cup {NoCell}, evidence : Evidence \cup {Unproven}]]
    /\ enforce \in BOOLEAN

SelectionInit ==
    /\ archive = [s \in Strategies |-> NoRow]
    /\ enforce \in BOOLEAN

AddRow ==
    /\ \E s \in Strategies \ Candidates, c \in Cells \cup {NoCell} :
          archive' = [archive EXCEPT ![s] = [cell |-> c, evidence |-> Unproven]]
    /\ UNCHANGED enforce

\* What the records of the archive do to a row.
Observe ==
    /\ \E s \in Candidates, e \in Evidence :
          /\ e.visits >= archive[s].evidence.visits
          /\ e.feasible >= archive[s].evidence.feasible
          /\ \A field \in {"reward", "surprise", "distance"} :
                archive[s].evidence[field] # NoValue => e[field] # NoValue
          /\ archive' = [archive EXCEPT ![s].evidence = e]
    /\ UNCHANGED enforce

SelectionNext == AddRow \/ Observe
SelectionSpec == SelectionInit /\ [][SelectionNext]_selectionVars

-----------------------------------------------------------------------------
(***************************************************************************)
(* select_lineages.                                                        *)
(***************************************************************************)
Cell(s) == archive[s].cell
KnownValues(field) == {archive[s].evidence[field] : s \in Candidates} \ {NoValue}

\* _normalize over the candidates, times Scale.
Normalize(s, field, coldStart) ==
    LET value == archive[s].evidence[field]
        all   == KnownValues(field)
    IN  IF value = NoValue \/ Cardinality(all) <= 1 THEN coldStart
        ELSE ((value - Min(all)) * Scale) \div (Max(all) - Min(all))

MaxFeasible == Max({archive[s].evidence.feasible : s \in Candidates})
FeasibilityPressure(s) ==
    IF MaxFeasible > 0
    THEN (archive[s].evidence.feasible * Scale) \div MaxFeasible
    ELSE Scale - Normalize(s, "distance", Scale)

\* log(1) is 0: without two visits nothing is added for exploration.
TotalVisits == MapThenSumSet(LAMBDA s : archive[s].evidence.visits, Candidates)
ExplorationTerm(s) ==
    IF TotalVisits <= 1 THEN 0 ELSE Exploration[archive[s].evidence.visits] * Scale

\* _novelty: vectors equal to its own do not count.
Novelty(s) ==
    IF Cell(s) # NoCell /\ \E t \in Candidates : Cell(t) \notin {NoCell, Cell(s)}
    THEN Scale ELSE 0

BaseScore(s) ==
    RewardAlpha * Normalize(s, "reward", Scale \div 2)
    + SurpriseBeta * Normalize(s, "surprise", 0)
    + FeasibilityGamma * FeasibilityPressure(s)
    + ExplorationTerm(s)
    + NoveltyWeight * Novelty(s)

\* _elite_key: more feasible runs, then the smaller distance, then the larger
\* reward, then the larger hash; a value that is missing is the worst.
Beats(s, t) ==
    LET e == archive[s].evidence  f == archive[t].evidence
        Nearer == e.distance # NoValue /\ (f.distance = NoValue \/ e.distance < f.distance)
    IN  \/ e.feasible > f.feasible
        \/ /\ e.feasible = f.feasible
           /\ \/ Nearer
              \/ /\ e.distance = f.distance
                 /\ \/ e.reward > f.reward
                    \/ e.reward = f.reward /\ s > t

CellElites ==
    {s \in Candidates : /\ Cell(s) # NoCell
                        /\ \A t \in Candidates \ {s} : Cell(t) = Cell(s) => Beats(s, t)}

\* Mutant: the elites have no precedence.
EligibleAll(remaining, elites) == remaining

\* The elites whose cell has not been chosen from, or else all that remain.
Eligible(remaining, elites) ==
    IF remaining \cap elites # {} THEN remaining \cap elites ELSE remaining

RemainingElites(chosen) == {s \in CellElites : \A c \in chosen : Cell(c) # Cell(s)}

\* What a candidate adds to its score by its distance from the vectors that
\* were chosen; by _cosine_distance it is one or none.
Vectors(chosen) == {c \in chosen : Cell(c) # NoCell}
SelectedBonus(s, chosen) ==
    IF Cell(s) = NoCell \/ Vectors(chosen) = {} THEN 0
    ELSE (NoveltyWeight * Scale * Cardinality({c \in Vectors(chosen) : Cell(c) # Cell(s)}))
             \div Cardinality(Vectors(chosen))

Score(s, chosen) ==
    BaseScore(s) + SelectedBonus(s, chosen)
    + (IF s \in RemainingElites(chosen) THEN CellBonus * Scale ELSE 0)

\* One round of the loop over what has been chosen so far, or of the padding.
Novel == 0
SelectNext(chosen) ==
    LET eligible == Eligible(Candidates \ chosen, RemainingElites(chosen))
    IN  IF Candidates \subseteq chosen THEN Novel
        ELSE CHOOSE s \in eligible : \A t \in eligible \ {s} :
                 \/ Score(s, chosen) > Score(t, chosen)
                 \/ Score(s, chosen) = Score(t, chosen) /\ s < t

\* The selection raises for a row without a descriptor, when these are
\* enforced, and when every score is zero.
DescriptorMissing == enforce /\ \E s \in Candidates : Cell(s) = NoCell
AllScoresZero == Candidates # {} /\ \A s \in Candidates : BaseScore(s) = 0

\* One parent after another, k of them.
SelectLineages[k \in Nat] ==
    IF k = 0 THEN <<>>
    ELSE LET selected == SelectLineages[k - 1]
         IN  Append(selected, SelectNext(ToSet(selected)))

-----------------------------------------------------------------------------
(***************************************************************************)
(* Properties.                                                             *)
(***************************************************************************)
\* Whatever evidence is missing or equal, the default weights leave no
\* archive in which every score is zero, and a selection of k returns k
\* parents: no strategy twice, a novel token only when all are taken; as long
\* as a populated cell has not been chosen from, one parent per cell, the
\* best of its cell; and asking for one parent more changes none of the rest.
SelectionDiverse ==
    /\ ~AllScoresZero
    /\ ~DescriptorMissing => \A k \in 1 .. MaxSelected :
        LET selected == SelectLineages[k]
            cells    == {Cell(s) : s \in Candidates} \ {NoCell}
            first    == {i \in 1 .. k : i <= Cardinality(cells)}
        IN  /\ Len(selected) = k
            /\ \A i, j \in 1 .. k : i < j =>
                 /\ selected[i] = Novel => selected[j] = Novel
                 /\ selected[i] = selected[j] => selected[i] = Novel
            /\ Novel \in ToSet(selected) => Candidates \subseteq ToSet(selected)
            /\ \A i \in first : selected[i] \in CellElites
            /\ \A i, j \in first : i # j => Cell(selected[i]) # Cell(selected[j])
            /\ k > 1 => SelectLineages[k - 1] = Front(selected)
=============================================================================
