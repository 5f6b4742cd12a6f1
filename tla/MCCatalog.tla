----------------------------- MODULE MCCatalog -----------------------------
(***************************************************************************)
(* The catalog with the selector that reads it.  A behaviour is of one     *)
(* part: either of two simulators with two manifests each, one that is     *)
(* coupled to the other simulator, and one that is not and computes        *)
(* nothing that is asked for, or has a licence that is denied, beside a    *)
(* selector that filters; or of a catalog that stands still, and a         *)
(* selector that ranks.                                                    *)
(***************************************************************************)
EXTENDS Catalog, MCRanking

VARIABLE part

allVars == <<part, catalogVars, rankingVars>>

Contents(counterparts, tolerance, computes, osi) ==
    [counterparts |-> counterparts, tolerance |-> tolerance,
     computes |-> computes, osi |-> osi]

MCSims == {"a", "b"}
MCManifests == [s \in MCSims |->
    IF s = "a" THEN {Contents({"b"}, 1, TRUE, TRUE), Contents({}, 1, FALSE, TRUE)}
    ELSE {Contents({"a"}, 2, FALSE, TRUE), Contents({}, 2, TRUE, FALSE)}]
MCFailings == {{}, {"b"}}

MCInit ==
    /\ CatalogInit /\ RankingInit
    /\ \/ part = "catalog" /\ entries = CHOOSE r \in Registries : TRUE
       \/ part = "ranking" /\ failing = {}

MCNext ==
    /\ UNCHANGED part
    /\ \/ part = "catalog" /\ CatalogNext /\ UNCHANGED rankingVars
       \/ part = "ranking" /\ RankingNext /\ UNCHANGED catalogVars

MCSpec == MCInit /\ [][MCNext]_allVars

\* The variables of both parts have their types.
MCTypeOK == CatalogTypeOK /\ RankingTypeOK

CommandSymmetry == Permutations(Commands)
=============================================================================
