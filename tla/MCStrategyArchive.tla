-------------------------- MODULE MCStrategyArchive --------------------------
(***************************************************************************)
(* Small instances of StrategyArchive: every experiment is on the same     *)
(* problem, so that each can import from each.                             *)
(***************************************************************************)
EXTENDS StrategyArchive, TLC

MCProblem == [e \in Exps |-> "problem"]
ArchiveSymmetry == Permutations(Shas) \cup Permutations(Lineages)
=============================================================================
