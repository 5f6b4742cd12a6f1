-------------------------- MODULE StrategyArchive --------------------------
(***************************************************************************)
(* The strategy archive (factory/strategy/archive.py, transfer.py): the    *)
(* archives of several experiments over one SQLite connection, in one      *)
(* process, with surprise attributed by coroutines that wait for a model.  *)
(*                                                                         *)
(* An average is the set of the observations folded into it, which tells a *)
(* lost observation from one that counts; how much each still weighs is    *)
(* left out, and so are the behaviour descriptors.  `view` is what the     *)
(* connection sees, its open transaction included; `db` is what has been   *)
(* committed.                                                              *)
(***************************************************************************)
EXTENDS Integers, FiniteSets

CONSTANTS
    Exps,           \* experiment ids
    Shas,           \* hashes of strategy texts
    ParentShas,     \* hashes that are named as parents
    Lineages,       \* coroutines that attribute surprise
    Problem,        \* problem_id of each experiment
    Kinds,          \* the kinds of strategies that are added
    Attributions,   \* bound: observations
    Nothing         \* no row, no coroutine

Observation == 1 .. Attributions
StrategyRow == [kind : Kinds, visits : 0 .. Attributions,
        surprise : SUBSET Observation, reward : SUBSET Observation]

ASSUME ArchiveAssumption ==
    /\ Exps \subseteq Nat /\ IsFiniteSet(Exps)
    /\ IsFiniteSet(Shas) /\ IsFiniteSet(ParentShas)
    /\ DOMAIN Problem = Exps
    /\ Kinds \subseteq {"novel", "library", "mutate", "crossover"}
    /\ Attributions \in Nat
    /\ Nothing \notin StrategyRow

VARIABLES
    view,   \* the tables as the connection sees them
    db,     \* the tables as committed
    task,   \* per coroutine: the attribution it is waiting with
    made    \* history: the attributions that returned, each with the rows
            \* that were there and the observation it began before

archiveVars == <<view, db, task, made>>

Tables == [rows : [Exps -> [Shas -> StrategyRow \cup {Nothing}]],
           edges : SUBSET (ParentShas \X Shas)]

ArchiveTypeOK ==
    /\ view \in Tables /\ db \in Tables
    /\ task \in [Lineages ->
          [exp : Exps, sha : Shas, old : SUBSET Observation,
           since : 1 .. Attributions + 1] \cup {Nothing}]
    /\ made \subseteq [id : Observation, what : {"surprise", "reward"},
                       exp : Exps, sha : Shas, rows : SUBSET Exps,
                       since : Observation]

ArchiveInit ==
    /\ view = [rows |-> [e \in Exps |-> [s \in Shas |-> Nothing]], edges |-> {}]
    /\ db = view
    /\ task = [l \in Lineages |-> Nothing]
    /\ made = {}

-----------------------------------------------------------------------------
Commit == db' = view'
Holders(s) == {e \in Exps : view.rows[e][s] # Nothing}

\* fetchone() of a SELECT by sha: the primary key's index gives the rows in
\* the order of their experiments.
First(s) == view.rows[CHOOSE e \in Holders(s) :
                          \A f \in Holders(s) : e <= f][s]

New(kind) == [kind |-> kind, visits |-> 0, surprise |-> {}, reward |-> {}]

\* INSERT OR IGNORE INTO strategies.
Inserted(rows, e, s, kind) ==
    IF rows[e][s] = Nothing THEN [rows EXCEPT ![e][s] = New(kind)] ELSE rows

\* UPDATE strategies SET ... WHERE sha = ?, for the rows of all experiments.
Updated(s, change(_)) ==
    [e \in Exps |->
        [view.rows[e] EXCEPT ![s] = IF @ = Nothing THEN Nothing ELSE change(@)]]

\* SQLite refuses a row of strategy_edges ("foreign key mismatch") when the
\* column it references, sha, is not by itself a key of strategies.
PrimaryKey == {"sha", "experiment_id"}
EdgesRefused == PrimaryKey # {"sha"}

KindFits(kind, parents) ==
    CASE kind = "mutate" -> Cardinality(parents) = 1
      [] kind = "crossover" -> Cardinality(parents) >= 2
      [] kind \in {"novel", "library"} -> parents = {}

\* add_strategy.  An edge that is refused raises after the row was inserted,
\* and neither commits nor rolls back.
AddStrategy(e, s, kind, parents) ==
    /\ KindFits(kind, parents)
    /\ view' = [rows |-> Inserted(view.rows, e, s, kind),
                edges |-> IF EdgesRefused THEN view.edges
                          ELSE view.edges \cup (parents \X {s})]
    /\ IF parents # {} /\ EdgesRefused THEN UNCHANGED db ELSE Commit
    /\ UNCHANGED <<task, made>>

\* Room for one more observation.
Fresh == Cardinality(made) + 1
Noted(what, e, s, since) ==
    made' = made \cup {[id |-> Fresh, what |-> what, exp |-> e, sha |-> s,
                        rows |-> Holders(s), since |-> since]}

\* attribute_surprise up to the model: the average is read.
AskGuide(l, e, s) ==
    /\ task[l] = Nothing
    /\ Holders(s) # {}
    /\ task' = [task EXCEPT ![l] =
                   [exp |-> e, sha |-> s, old |-> First(s).surprise,
                    since |-> Fresh]]
    /\ UNCHANGED <<view, db, made>>

\* Mutant: the count is written back like the average.
SurprisedCounting(row, old) ==
    [row EXCEPT !.surprise = old \cup {Fresh}, !.visits = Cardinality(old) + 1]

\* Mutant: a visit when the strategy is picked and one when it is scored.
SurprisedTwice(row, old) ==
    [row EXCEPT !.surprise = old \cup {Fresh}, !.visits = @ + 2]

\* The average that was read before the call, with the observation.
Surprised(row, old) ==
    [row EXCEPT !.surprise = old \cup {Fresh}, !.visits = @ + 1]

\* attribute_surprise after the model has answered.
AttributeSurprise(l) ==
    /\ task[l] # Nothing
    /\ Fresh \in Observation
    /\ view' = [view EXCEPT !.rows =
          Updated(task[l].sha, LAMBDA row : Surprised(row, task[l].old))]
    /\ Commit
    /\ Noted("surprise", task[l].exp, task[l].sha, task[l].since)
    /\ task' = [task EXCEPT ![l] = Nothing]

\* GuideLLMRefusal, BucketCountsEmpty: raised out of attribute_surprise.
GuideRefuses(l) ==
    /\ task[l] # Nothing
    /\ task' = [task EXCEPT ![l] = Nothing]
    /\ UNCHANGED <<view, db, made>>

\* attribute_reward: the first row's average with the observation, for all.
Rewarded(e, s) ==
    Updated(s, LAMBDA row : [row EXCEPT !.reward = First(s).reward \cup {Fresh}])

AttributeReward(e, s) ==
    /\ Holders(s) # {}
    /\ Fresh \in Observation
    /\ view' = [view EXCEPT !.rows = Rewarded(e, s)]
    /\ Commit
    /\ Noted("reward", e, s, Fresh)
    /\ UNCHANGED task

\* transfer_priors_from: k of the rewarded rows of the experiments on a
\* problem, this one included if it is on it.  Which k the averages decide.
Rewarding(problem) ==
    {pair \in Exps \X Shas :
        /\ Problem[pair[1]] = problem
        /\ view.rows[pair[1]][pair[2]] # Nothing
        /\ view.rows[pair[1]][pair[2]].reward # {}}

Transfer(dest, problem) ==
    /\ \E shas \in SUBSET Shas \ {{}} : \E source \in [shas -> Exps] :
          /\ \A s \in shas : <<source[s], s>> \in Rewarding(problem)
          /\ view' = [view EXCEPT !.rows[dest] = [s \in Shas |->
                IF s \in shas
                THEN Inserted(view.rows, dest, s,
                              view.rows[source[s]][s].kind)[dest][s]
                ELSE @[s]]]
    /\ Commit
    /\ UNCHANGED <<task, made>>

\* Another call that ends in conn.commit(): set_behavior_descriptor, or a
\* further archive opened on the connection.
CommitElsewhere ==
    /\ UNCHANGED view
    /\ Commit
    /\ UNCHANGED <<task, made>>

\* The process ends; the archives are opened on a new connection.
Restart ==
    /\ view' = db
    /\ task' = [l \in Lineages |-> Nothing]
    /\ UNCHANGED <<db, made>>

ArchiveNext ==
    \/ \E e \in Exps, s \in Shas, kind \in Kinds, parents \in SUBSET ParentShas :
          s \notin parents /\ AddStrategy(e, s, kind, parents)
    \/ \E l \in Lineages, e \in Exps, s \in Shas : AskGuide(l, e, s)
    \/ \E l \in Lineages : AttributeSurprise(l) \/ GuideRefuses(l)
    \/ \E e \in Exps, s \in Shas : AttributeReward(e, s)
    \/ \E e, f \in Exps : Transfer(e, Problem[f])
    \/ CommitElsewhere
    \/ Restart

ArchiveSpec == ArchiveInit /\ [][ArchiveNext]_archiveVars

-----------------------------------------------------------------------------
Seen(what, e, s) ==
    {o \in made : o.what = what /\ o.sha = s /\ e \in o.rows}
Ids(observations) == {o.id : o \in observations}

\* The visits that UCT divides by are exact in every experiment, whatever
\* coroutines overlap, strategies are transferred or added again, and
\* restarts come in between: each attribution that returned is counted once
\* in every row that was there, and durably.
VisitsCounted ==
    \A e \in Exps, s \in Shas :
        db.rows[e][s] # Nothing =>
            db.rows[e][s].visits = Cardinality(Seen("surprise", e, s))

\* The strategy is the experiment's alone.
Own(e, s) == Holders(s) = {e} /\ db.rows[e][s] # Nothing

\* No reward that attribute_reward returned is lost from the average of a
\* strategy that one experiment has, whoever waits for the model meanwhile.
RewardsKept ==
    \A e \in Exps, s \in Shas :
        Own(e, s) => db.rows[e][s].reward = Ids(Seen("reward", e, s))

\* A surprise is lost from such an average only to an attribution of the same
\* strategy that was waiting for the model when it was made and ended later.
Overwriting(o) ==
    {p \in made : p.what = "surprise" /\ p.sha = o.sha
                    /\ p.since <= o.id /\ o.id < p.id}

SurpriseKept ==
    \A e \in Exps, s \in Shas :
        Own(e, s) =>
            \A o \in Seen("surprise", e, s) :
                Overwriting(o) = {} => o.id \in db.rows[e][s].surprise

\* What was attributed to a strategy stays attributed: its visits, its rewards
\* and, but for the races the code has, its surprises.
AttributionsKept == VisitsCounted /\ RewardsKept /\ SurpriseKept

-----------------------------------------------------------------------------
\* The specification of the module (docs/specs/016) says "write
\* strategy_edges for every parent": no strategy that has parents is in the
\* archive without them.
AncestryRecorded ==
    \A e \in Exps, s \in Shas :
        (db.rows[e][s] # Nothing /\ db.rows[e][s].kind \in {"mutate", "crossover"})
            => \E p \in ParentShas : <<p, s>> \in db.edges
=============================================================================
