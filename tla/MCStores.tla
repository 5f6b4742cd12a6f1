------------------------------ MODULE MCStores ------------------------------
(***************************************************************************)
(* What the factory keeps on disk.  The stores do not share a file, so a   *)
(* behaviour is of one of them: the ledger with two entries, the second    *)
(* citing the first; the paper of one work in two versions, promoted by    *)
(* two processes; a strategy in two experiments on one problem, with two   *)
(* coroutines and three observations; a surrogate trained on up to three   *)
(* examples and saved three times; artifacts of two contents, one of them  *)
(* coded by itself, put and written by two processes.                      *)
(***************************************************************************)
EXTENDS Ledger, PaperStore, StrategyArchive, Surrogate, ArtifactStore, TLC

VARIABLE part

allVars == <<part, ledgerVars, paperVars, archiveVars, surrogateVars, artifactVars>>

MCParents == [e \in Entries |-> {p \in Entries : p < e}]
MCProblem == [e \in Exps |-> "problem"]
MCSymmetry == Permutations(Lineages)

MCInit ==
    /\ LedgerInit /\ PaperInit /\ ArchiveInit /\ SurrogateInit /\ ArtifactInit
    /\ part \in {"ledger", "papers", "archive", "surrogate", "artifacts"}

MCNext ==
    /\ UNCHANGED part
    /\ \/ /\ part = "ledger" /\ LedgerNext
          /\ UNCHANGED <<paperVars, archiveVars, surrogateVars, artifactVars>>
       \/ /\ part = "papers" /\ PaperNext
          /\ UNCHANGED <<ledgerVars, archiveVars, surrogateVars, artifactVars>>
       \/ /\ part = "archive" /\ ArchiveNext
          /\ UNCHANGED <<ledgerVars, paperVars, surrogateVars, artifactVars>>
       \/ /\ part = "surrogate" /\ SurrogateNext
          /\ UNCHANGED <<ledgerVars, paperVars, archiveVars, artifactVars>>
       \/ /\ part = "artifacts" /\ ArtifactNext
          /\ UNCHANGED <<ledgerVars, paperVars, archiveVars, surrogateVars>>

MCSpec == MCInit /\ [][MCNext]_allVars

\* The variables of the five stores have their types.
StoresTypeOK ==
    LedgerTypeOK /\ PaperTypeOK /\ ArchiveTypeOK /\ SurrogateTypeOK /\ ArtifactTypeOK
=============================================================================
