------------------------------ MODULE MCCrawl ------------------------------
(***************************************************************************)
(* Five works, one of them closed, and three policies: one that max_nodes  *)
(* does not cut, one that it does, and one that takes closed works too.    *)
(***************************************************************************)
EXTENDS Crawl

MCReferences == <<<<2>>, <<>>, <<1, 5>>, <<1>>, <<4>>>>
MCCiting     == <<<<4, 3>>, <<1>>, <<>>, <<5>>, <<3>>>>
MCRelated    == <<<<5>>, <<3>>, <<2>>, <<>>, <<>>>>
MCFound      == <<1, 2>>
MCCitations  == <<2, 1, 0, 1, 1>>
Policy(depth, branch, nodes, pages, open) ==
    [depth |-> depth, branch |-> branch, nodes |-> nodes, pages |-> pages,
     open |-> open, forward |-> TRUE]
MCPolicies ==
    {Policy(1, 2, 5, 1, TRUE), Policy(2, 3, 4, 2, TRUE), Policy(1, 3, 9, 2, FALSE)}

\* One that is cut between the works that cite the first seed.
MCCut == {Policy(1, 3, 3, 2, TRUE)}
=============================================================================
