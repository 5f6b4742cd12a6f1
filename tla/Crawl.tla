------------------------------- MODULE Crawl -------------------------------
(***************************************************************************)
(* Literature discovery (factory/literature/miner.py, graph_store.py and   *)
(* client.py, run by factory/state_machine/literature.py): a search for    *)
(* seeds, a bounded breadth-first walk over references, citations and      *)
(* related works, promotion of the best works found, and gap mining.       *)
(*                                                                         *)
(* Crawls run one after another over one SQLite cache.  Every statement of *)
(* the cache is a transaction of its own; a request to OpenAlex is one     *)
(* step.  A crawl may be killed, or a call in it may raise, at any step:   *)
(* what it has cached stays, and the next crawl starts from that.          *)
(*                                                                         *)
(* A work is a number, its identifier in the order SQLite sorts it.  What  *)
(* OpenAlex knows does not change: the graph is a constant.                *)
(***************************************************************************)
EXTENDS Integers, Sequences, FiniteSets, SequencesExt

CONSTANTS
    Works,          \* identifiers of works
    References,     \* per work, the works it cites, in its own order
    Citing,         \* per work, the works that cite it, most cited first
    Related,        \* per work, its related works
    Citations,      \* per work, how often it is cited
    OpenAccess,     \* the works in open access
    Found,          \* what the search for seeds finds
    Policies,       \* TraversalPolicy: depth, branch, nodes, pages, open, forward
    PromoteTopK,    \* how many ranked works are promoted
    MaxPerPage,     \* _MAX_PER_PAGE
    MaxRetries,     \* requests per call of _request
    Crawls,         \* bound: crawls
    Mishaps         \* bound: kills and errors

ASSUME CrawlAssumption ==
    /\ Works \subseteq Nat
    /\ {References, Citing, Related} \subseteq [Works -> Seq(Works)]
    /\ Citations \in [Works -> Nat]
    /\ OpenAccess \subseteq Works
    /\ Found \in Seq(OpenAccess)
    /\ Policies \subseteq [depth : Nat, branch : Nat \ {0}, nodes : Nat \ {0},
                           pages : Nat, open : BOOLEAN, forward : BOOLEAN]
    /\ {MaxPerPage, MaxRetries} \subseteq Nat \ {0}
    /\ {PromoteTopK, Crawls, Mishaps} \subseteq Nat

VARIABLES
    cached,     \* table works
    edges,      \* table edges
    runs,       \* table traversal_runs, with the policy of each
    rankings,   \* table ranking_scores, per run
    papers,     \* works in the paper store
    crawl,      \* the locals of the crawl under way
    request,    \* the locals of the request under way
    mishaps     \* bound: kills and errors so far

store == <<cached, edges, runs, rankings>>
crawlVars == <<store, papers, crawl, request, mishaps>>

Kinds == {"backward", "forward", "related"}
Stages == {"idle", "search", "start", "loop", "load", "upsert", "cite", "edge",
           "finish", "promote"}
Asking == {"search", "load", "cite"}    \* the stages that wait for OpenAlex

NoPolicy == [depth |-> 0, branch |-> 1, nodes |-> 1, pages |-> 0,
             open |-> TRUE, forward |-> FALSE]
Resting == [at |-> "idle", policy |-> NoPolicy, frontier |-> <<>>,
            visited |-> {}, accepted |-> {}, work |-> 0, depth |-> 0,
            fromCache |-> FALSE, pending |-> <<>>, asked |-> {}]
Fresh == [attempt |-> 1, listed |-> <<>>, taken |-> 0, pages |-> 0]

CrawlTypeOK ==
    /\ cached \subseteq Works
    /\ edges \subseteq [source : Works, target : Works, kind : Kinds, run : 1 .. Crawls]
    /\ runs \in Seq([policy : Policies, completed : BOOLEAN, visited : Nat,
                     accepted : Nat, discovered : BOOLEAN])
    /\ rankings \in [1 .. Len(runs) -> Seq(Works)]
    /\ papers \subseteq Works
    /\ crawl.at \in Stages
    /\ crawl.policy \in Policies \cup {NoPolicy}
    /\ crawl.frontier \in Seq([work : Works, depth : Nat])
    /\ {crawl.visited, crawl.accepted, crawl.asked} \subseteq SUBSET Works
    /\ crawl.pending \in Seq([work : Works, kind : Kinds])
    /\ request.attempt \in 1 .. MaxRetries
    /\ request.listed \in Seq(Works)
    /\ mishaps \in 0 .. Mishaps

CrawlInit ==
    /\ cached = {} /\ edges = {} /\ runs = <<>> /\ rankings = <<>>
    /\ papers = {}
    /\ crawl = Resting
    /\ request = Fresh
    /\ mishaps = 0

Is(stage) == crawl.at = stage
Goto(stage) == crawl' = [crawl EXCEPT !.at = stage]
Shorter(seq, n) == SubSeq(seq, 1, IF n < Len(seq) THEN n ELSE Len(seq))
Run == Len(runs)
\* The elements of a set as a sequence, by a strict total order.
InOrder(S, Before(_, _)) ==
    [i \in 1 .. Cardinality(S) |->
        CHOOSE x \in S : Cardinality({y \in S : Before(y, x)}) = i - 1]
Keep(stays) == UNCHANGED <<stays, papers, mishaps>>

-----------------------------------------------------------------------------
(***************************************************************************)
(* OpenAlexClient: _request and _list_works.                               *)
(***************************************************************************)
\* Mutant: one request more than MaxRetries.
BusyOnceMore ==
    /\ crawl.at \in Asking
    /\ IF request.attempt > MaxRetries
       THEN crawl' = Resting /\ request' = Fresh
       ELSE request' = [request EXCEPT !.attempt = @ + 1] /\ UNCHANGED crawl
    /\ Keep(store)

\* 403, 429 and 5xx: the client sleeps and asks again, and at last raises.
Busy ==
    /\ crawl.at \in Asking
    /\ IF request.attempt = MaxRetries
       THEN crawl' = Resting /\ request' = Fresh
       ELSE request' = [request EXCEPT !.attempt = @ + 1] /\ UNCHANGED crawl
    /\ Keep(store)

\* Mutant: an empty page with a cursor does not end the listing.
PageUnended(all, limit, maxPages, cursor) ==
    LET rest   == SubSeq(all, request.taken + 1, Len(all))
        items  == IF rest = <<>> THEN <<>> ELSE <<Head(rest)>>
        listed == request.listed \o items
    IN  [listed |-> listed,
         taken  |-> request.taken + Len(items),
         pages  |-> IF maxPages = 0 THEN 0 ELSE request.pages + 1,
         over   |-> \/ ~(cursor \/ Len(rest) > Len(items))
                    \/ Len(listed) >= limit
                    \/ maxPages # 0 /\ request.pages + 1 >= maxPages]

\* One page: the rest of all, up to what is left of the limit.  After the
\* last item the server may or may not hand out one more cursor.  A listing
\* with maxPages 0 is bounded by its limit alone.
Page(all, limit, maxPages, cursor) ==
    LET wanted == limit - Len(request.listed)
        size   == IF wanted < MaxPerPage THEN wanted ELSE MaxPerPage
        rest   == SubSeq(all, request.taken + 1, Len(all))
        items  == Shorter(rest, size)
        listed == request.listed \o items
        more   == cursor \/ Len(rest) > Len(items)
    IN  [listed |-> listed,
         taken  |-> request.taken + Len(items),
         pages  |-> IF maxPages = 0 THEN 0 ELSE request.pages + 1,
         over   |-> \/ ~more \/ items = <<>>
                    \/ Len(listed) >= limit
                    \/ maxPages # 0 /\ request.pages + 1 >= maxPages]

NextPage(page) ==
    request' = [attempt |-> 1, listed |-> page.listed, taken |-> page.taken,
                pages |-> page.pages]

-----------------------------------------------------------------------------
(***************************************************************************)
(* run_literature_discovery up to the walk.                                *)
(***************************************************************************)
Discover ==
    /\ Is("idle")
    /\ Run < Crawls
    /\ \E policy \in Policies :
          crawl' = [Resting EXCEPT !.at = "search", !.policy = policy]
    /\ request' = Fresh
    /\ Keep(store)

\* search_works: as many seeds as the branch factor, over any number of pages.
Search ==
    /\ Is("search")
    /\ \E cursor \in BOOLEAN :
       LET page == Page(Found, crawl.policy.branch, 0, cursor) IN
       IF page.over
       THEN /\ crawl' = [crawl EXCEPT !.at = "start",
                  !.frontier = [i \in DOMAIN page.listed |->
                      [work |-> page.listed[i], depth |-> 0]]]
            /\ request' = Fresh
       ELSE NextPage(page) /\ UNCHANGED crawl
    /\ Keep(store)

StartRun ==
    /\ Is("start")
    /\ runs' = Append(runs, [policy |-> crawl.policy, completed |-> FALSE,
                             visited |-> 0, accepted |-> 0, discovered |-> FALSE])
    /\ rankings' = Append(rankings, <<>>)
    /\ Goto("loop")
    /\ Keep(<<cached, edges, request>>)

-----------------------------------------------------------------------------
(***************************************************************************)
(* traverse_openalex.                                                      *)
(***************************************************************************)
WalkOver ==
    \/ crawl.frontier = <<>>
    \/ Cardinality(crawl.visited) >= crawl.policy.nodes

Visit ==
    /\ Is("loop") /\ ~WalkOver
    /\ LET next == Head(crawl.frontier)
           left == Tail(crawl.frontier)
       IN IF next.work \in crawl.visited \/ next.depth > crawl.policy.depth
          THEN crawl' = [crawl EXCEPT !.frontier = left]
          ELSE crawl' = [crawl EXCEPT !.frontier = left,
                   !.visited = @ \cup {next.work},
                   !.work = next.work, !.depth = next.depth,
                   !.fromCache = next.work \in cached,
                   !.at = IF next.work \in cached THEN "upsert" ELSE "load"]
    /\ request' = Fresh
    /\ Keep(store)

\* _load_work: a work that is not cached is asked for.
GetWork ==
    /\ Is("load")
    /\ crawl' = [crawl EXCEPT !.at = "upsert", !.asked = @ \cup {crawl.work}]
    /\ request' = Fresh
    /\ Keep(store)

\* The targets of the cached forward edges, once per run that stored one.
EdgeTargets(work) ==
    LET rows == {e \in edges : e.source = work /\ e.kind = "forward"}
        sorted == InOrder(rows, LAMBDA a, b :
            a.target < b.target \/ (a.target = b.target /\ a.run < b.run))
    IN  [i \in DOMAIN sorted |-> sorted[i].target]

\* _forward_citations asks OpenAlex only for a work that is not from the cache.
AsksCitations ==
    /\ crawl.policy.forward
    /\ EdgeTargets(crawl.work) = <<>>
    /\ ~crawl.fromCache
    /\ crawl.policy.pages > 0

Tagged(works, kind) == [i \in DOMAIN works |-> [work |-> works[i], kind |-> kind]]

\* The first entry of each work, in their order: deduped.setdefault.
FirstEntries == [entries \in Seq([work : Works, kind : Kinds]) |->
    LET firsts == InOrder({i \in DOMAIN entries : \A j \in 1 .. i - 1 :
                               entries[j].work # entries[i].work}, LAMBDA i, j : i < j)
    IN  [n \in DOMAIN firsts |-> entries[firsts[n]]]]

\* _next_work_edges: up to the branch factor of each kind, and in all.
NextWorkEdges(work, forward) ==
    LET branch == crawl.policy.branch IN
    Shorter(FirstEntries[Tagged(Shorter(References[work], branch), "backward")
                         \o Tagged(Shorter(forward, branch), "forward")
                         \o Tagged(Shorter(Related[work], branch), "related")], branch)

Upsert ==
    /\ Is("upsert")
    /\ cached' = cached \cup {crawl.work}
    /\ IF crawl.policy.open /\ crawl.work \notin OpenAccess
       THEN Goto("loop")
       ELSE LET accepted == crawl.accepted \cup {crawl.work} IN
            IF crawl.depth = crawl.policy.depth
            THEN crawl' = [crawl EXCEPT !.at = "loop", !.accepted = accepted]
            ELSE IF AsksCitations
            THEN crawl' = [crawl EXCEPT !.at = "cite", !.accepted = accepted]
            ELSE crawl' = [crawl EXCEPT !.at = "edge", !.accepted = accepted,
                     !.pending = NextWorkEdges(crawl.work,
                         IF crawl.policy.forward THEN EdgeTargets(crawl.work) ELSE <<>>)]
    /\ Keep(<<edges, runs, rankings, request>>)

\* get_forward_citations, page by page.
Cite ==
    /\ Is("cite")
    /\ \E cursor \in BOOLEAN :
       LET page == Page(Citing[crawl.work], crawl.policy.branch,
                        crawl.policy.pages, cursor) IN
       IF page.over
       THEN /\ crawl' = [crawl EXCEPT !.at = "edge",
                  !.pending = NextWorkEdges(crawl.work, page.listed),
                  !.asked = @ \cup {crawl.work}]
            /\ request' = Fresh
       ELSE NextPage(page) /\ UNCHANGED crawl
    /\ Keep(store)

AddEdge ==
    /\ Is("edge") /\ crawl.pending # <<>>
    /\ LET next == Head(crawl.pending) IN
       /\ edges' = edges \cup {[source |-> crawl.work, target |-> next.work,
                                kind |-> next.kind, run |-> Run]}
       /\ crawl' = [crawl EXCEPT !.pending = Tail(@),
              !.frontier = IF next.work \in crawl.visited THEN @
                           ELSE Append(@, [work |-> next.work,
                                           depth |-> crawl.depth + 1])]
    /\ Keep(<<cached, runs, rankings, request>>)

EdgesDone ==
    /\ Is("edge") /\ crawl.pending = <<>>
    /\ Goto("loop")
    /\ Keep(<<store, request>>)

-----------------------------------------------------------------------------
(***************************************************************************)
(* The end of the walk, promotion and gap mining.                          *)
(***************************************************************************)
\* rank_works, without the year of publication: open access first, then the
\* most cited, then by identifier.
RankWorks(works) ==
    InOrder(works, LAMBDA a, b :
        \/ a \in OpenAccess /\ b \notin OpenAccess
        \/ /\ (a \in OpenAccess) = (b \in OpenAccess)
           /\ \/ Citations[a] > Citations[b]
              \/ Citations[a] = Citations[b] /\ a < b)

\* Mutant: the run is marked completed before its ranking is stored.
StoreRankingLate ==
    /\ Is("loop") /\ WalkOver
    /\ runs' = [runs EXCEPT ![Run].completed = TRUE,
                    ![Run].visited = Cardinality(crawl.visited),
                    ![Run].accepted = Cardinality(crawl.accepted)]
    /\ Goto("finish")
    /\ Keep(<<cached, edges, rankings, request>>)

StoreRanking ==
    /\ Is("loop") /\ WalkOver
    /\ rankings' = [rankings EXCEPT ![Run] = RankWorks(crawl.accepted)]
    /\ Goto("finish")
    /\ Keep(<<cached, edges, runs, request>>)

FinishRun ==
    /\ Is("finish")
    /\ runs' = [runs EXCEPT ![Run].completed = TRUE,
                    ![Run].visited = Cardinality(crawl.visited),
                    ![Run].accepted = Cardinality(crawl.accepted)]
    /\ crawl' = [crawl EXCEPT !.at = "promote",
           !.pending = Tagged(Shorter(rankings[Run], PromoteTopK), "related")]
    /\ Keep(<<cached, edges, rankings, request>>)

\* PaperStore.promote takes the work from the cache, where it is by now.
PromoteWork ==
    /\ Is("promote") /\ crawl.pending # <<>>
    /\ papers' = papers \cup {Head(crawl.pending).work}
    /\ crawl' = [crawl EXCEPT !.pending = Tail(@)]
    /\ UNCHANGED <<store, request, mishaps>>

\* mine_gap_candidates raises when no work was found.
MineGaps ==
    /\ Is("promote") /\ crawl.pending = <<>>
    /\ runs' = [runs EXCEPT ![Run].discovered = rankings[Run] # <<>>]
    /\ crawl' = Resting
    /\ Keep(<<cached, edges, rankings, request>>)

\* A kill, an answer that is refused or malformed, or the wall clock: the
\* exception leaves the walk and nothing is undone.
Abort ==
    /\ ~Is("idle")
    /\ mishaps < Mishaps
    /\ mishaps' = mishaps + 1
    /\ crawl' = Resting
    /\ request' = Fresh
    /\ UNCHANGED <<store, papers>>

Step ==
    \/ Search \/ StartRun \/ Visit \/ GetWork \/ Upsert \/ Cite
    \/ AddEdge \/ EdgesDone \/ StoreRanking \/ FinishRun \/ PromoteWork \/ MineGaps

CrawlNext == Discover \/ Step \/ Busy \/ Abort

\* A crawl goes on until it ends: it is one coroutine that nothing suspends.
CrawlFairness == WF_crawlVars(Step)
CrawlSpec == CrawlInit /\ [][CrawlNext]_crawlVars /\ CrawlFairness

-----------------------------------------------------------------------------
(***************************************************************************)
(* Properties.                                                             *)
(***************************************************************************)
\* The walk is breadth first: what waits in the frontier is sorted by depth,
\* lies at most one level apart and never above the work being expanded, so a
\* cut by max_nodes keeps the works nearest to the seeds.
BreadthFirst ==
    LET frontier == crawl.frontier IN
    \A i, j \in DOMAIN frontier : i < j =>
        /\ frontier[i].depth >= crawl.depth
        /\ frontier[j].depth \in frontier[i].depth .. frontier[i].depth + 1

\* What the tables say of a completed run fits together, wherever other
\* crawls were killed: the ranking has each accepted work once, in the order
\* of rank_works, all of them cached; the run kept to max_nodes; each of its
\* edges leaves a work it accepted.  Discovery returns only with the best
\* works promoted and something to mine.
CompletedRunsHold ==
    \A i \in DOMAIN runs :
        LET run == runs[i]  ranking == rankings[i] IN
        /\ run.completed =>
             /\ ranking = RankWorks(ToSet(ranking))
             /\ Len(ranking) = run.accepted
             /\ run.accepted <= run.visited /\ run.visited <= run.policy.nodes
             /\ ToSet(ranking) \subseteq cached
             /\ \A e \in edges : e.run = i => e.source \in ToSet(ranking)
        /\ run.discovered =>
             /\ run.completed
             /\ ranking # <<>>
             /\ ToSet(Shorter(ranking, PromoteTopK)) \subseteq papers

\* "Cache-on-write [...] so identical calls are local-only on repeat": the
\* crawl that repeats the only one before, which completed and was not cut by
\* max_nodes, asks OpenAlex for no work and for no citations.
RepeatIsLocal ==
    Run = 2 /\ ~Is("search") /\ ~Is("start")
    /\ runs[1].completed /\ runs[1].visited < runs[1].policy.nodes
    /\ runs[1].policy = runs[2].policy
        => crawl.asked = {}

\* A walk keeps its order, leaves records that fit together, and is not made
\* again over the network.
CrawlSound == BreadthFirst /\ CompletedRunsHold /\ RepeatIsLocal

\* Discovery ends, by returning or by raising: every listing does, even when
\* the server hands out cursors to empty pages, and so does the walk.
CrawlEnds == crawl.at # "idle" ~> crawl.at = "idle"

\* The specification of the module (docs/specs/007) says of the walk that
\* "identical calls can run local-only after the graph has been written": the
\* crawl that repeats the only one before, which completed, asks for nothing.
IdenticalCallIsLocal ==
    Run = 2 /\ ~Is("search") /\ ~Is("start")
    /\ runs[1].completed /\ runs[1].policy = runs[2].policy
        => crawl.asked = {}
=============================================================================
