------------------------------ MODULE MCCycle ------------------------------
(***************************************************************************)
(* The parts of a research cycle that run by themselves.  They share no    *)
(* state, so a behaviour is of one of them: the discovery of literature in *)
(* a graph of five works, one of them closed, under three policies; two    *)
(* cycles of two gates; two generators with two checks; three fidelity     *)
(* ladders; a selection among three strategies in two cells.               *)
(***************************************************************************)
EXTENDS MCCrawl, GateCycle, GenVer, Fidelity, Selection, TLC

VARIABLE part

allVars == <<part, crawlVars, gateVars, genverVars, fidelityVars, selectionVars>>

MCChecks == <<"lint", "test">>

Tier(cross, threshold) == [cross |-> cross, threshold |-> threshold]
MCLadders ==
    {<<Tier(FALSE, NoThreshold), Tier(FALSE, 1), Tier(TRUE, 0), Tier(FALSE, 1)>>,
     <<Tier(FALSE, 0), Tier(TRUE, NoThreshold), Tier(TRUE, 1)>>,
     <<Tier(TRUE, 1)>>}

Row(reward, surprise, distance, feasible, visits) ==
    [reward |-> reward, surprise |-> surprise, distance |-> distance,
     feasible |-> feasible, visits |-> visits]
MCEvidence ==
    {Row(0, 0, 2, 0, 1), Row(2, 1, NoValue, 1, 1), Row(1, NoValue, 1, 0, 2),
     Row(0, 2, 0, 2, 2), Row(2, 2, 1, 0, 1)}
MCExploration == 0 :> 14 @@ 1 :> 10 @@ 2 :> 8

MCInit ==
    /\ CrawlInit /\ GateInit /\ GenVerInit /\ FidelityInit /\ SelectionInit
    /\ part \in {"crawl", "gates", "genver", "ladder", "selection"}
    /\ part # "selection" => ~enforce

MCNext ==
    /\ UNCHANGED part
    /\ \/ /\ part = "crawl" /\ CrawlNext
          /\ UNCHANGED <<gateVars, genverVars, fidelityVars, selectionVars>>
       \/ /\ part = "gates" /\ GateNext
          /\ UNCHANGED <<crawlVars, genverVars, fidelityVars, selectionVars>>
       \/ /\ part = "genver" /\ GenVerNext
          /\ UNCHANGED <<crawlVars, gateVars, fidelityVars, selectionVars>>
       \/ /\ part = "ladder" /\ FidelityNext
          /\ UNCHANGED <<crawlVars, gateVars, genverVars, selectionVars>>
       \/ /\ part = "selection" /\ SelectionNext
          /\ UNCHANGED <<crawlVars, gateVars, genverVars, fidelityVars>>

\* The fairness of the four parts that have some.
MCSpec ==
    /\ MCInit /\ [][MCNext]_allVars
    /\ WF_crawlVars(part = "crawl" /\ Step)
    /\ WF_gateVars(part = "gates" /\ BeginRun)
    /\ WF_gateVars(part = "gates" /\ GateStep)
    /\ \A g \in Generators : WF_genverVars(part = "genver" /\ GenVerStep(g))
    /\ WF_fidelityVars(part = "ladder" /\ Loop)
    /\ WF_fidelityVars(part = "ladder" /\ TierReturns)

\* The variables of every part have their types.
CycleTypeOK ==
    CrawlTypeOK /\ GateTypeOK /\ GenVerTypeOK /\ FidelityTypeOK /\ SelectionTypeOK

\* Work that was begun comes to an end: a discovery and a turn loop whether
\* they are interrupted or not, a ladder that is climbed, and all gates.
WorkEnds ==
    /\ CrawlEnds /\ LoopsEnd /\ LadderEnds
    /\ part = "gates" => GatesComplete
=============================================================================
