------------------------------ MODULE Catalog ------------------------------
(***************************************************************************)
(* The simulator catalog (factory/catalog/api.py) and a selector that      *)
(* reads it (factory/selector/api.py).                                     *)
(*                                                                         *)
(* A simulator has a manifest file under the manifest root, a licence      *)
(* report, and a row of the registry; two rows may be paired as            *)
(* equivalent for an observable.  Commands run in processes of their own:  *)
(* they onboard a manifest, index all manifests again, verify the active   *)
(* entries again or quarantine one.  A transaction is atomic, the command  *)
(* is not, and may be killed.  Meanwhile a selector goes through its       *)
(* steps; it compares the version of the catalog at their start and end.   *)
(*                                                                         *)
(* A manifest is known by its contents, so it is its own hash; it is parsed *)
(* and audited in one step.  There is one observable: pairs are for it, and *)
(* a selection asks for it.                                                 *)
(***************************************************************************)
EXTENDS Integers, FiniteSets

CONSTANTS
    Sims,           \* simulator ids
    Manifests,      \* the manifests a simulator may be onboarded with
    Tolerances,     \* of an equivalence
    Failings,       \* sets of simulators that may be the ones to fail smoke
    Commands,       \* processes that maintain the catalog
    Onboardings,    \* bound: manifests that are onboarded by hand
    Reindexings,    \* bound: calls of reindex and reverify_all
    Failures,       \* bound: kills, builds and transactions that fail
    None,           \* no file, no row, no report
    Torn            \* a file that does not parse

Manifest == [counterparts : SUBSET Sims, tolerance : Tolerances,
             computes : BOOLEAN, osi : BOOLEAN]
Row == [manifest : Manifest, status : {"active", "quarantined"}]

ASSUME CatalogAssumption ==
    /\ IsFiniteSet(Sims)
    /\ Manifests \in [Sims -> SUBSET Manifest]
    /\ Failings \subseteq SUBSET Sims
    /\ {Onboardings, Reindexings, Failures} \subseteq Nat
    /\ {None, Torn} \cap Manifest = {} /\ None # Torn /\ None \notin Row

VARIABLES
    failing,    \* the simulators whose smoke test fails
    file,       \* manifest_root/<id>/manifest.yaml
    report,     \* verdict of the licence report of each simulator
    row,        \* catalog_entries
    pairs,      \* catalog_equivalence
    job,        \* per command: where it is
    sel,        \* the selector
    bounds,     \* bound: what is left of each kind
    orderly     \* history: onboardings did not overlap and none was cut short

registry == <<row, pairs>>
catalogVars == <<failing, file, report, registry, job, sel, bounds, orderly>>

Pair == [a : Sims, b : Sims, tolerance : Tolerances]

\* `todo` is what a reindex or a reverification has before it; `clean` is a
\* history: nothing else has been going on since the reindex began.
Idle == [at |-> "idle", sim |-> None, manifest |-> None, todo |-> {},
         loop |-> FALSE, clean |-> FALSE]
Job == [at : {"idle", "next", "truncate", "write", "smoke", "commit",
              "reverify", "quarantine"},
        sim : Sims \cup {None}, manifest : Manifest \cup {None},
        todo : SUBSET Sims, loop : BOOLEAN, clean : BOOLEAN]

\* `onboarded` is a history: since the selection began an onboarding has
\* written a report, a manifest or a row.
NoSelection == [at |-> "idle", version |-> None, todo |-> {},
                candidates |-> {}, onboarded |-> FALSE]
Version == [Sims -> Row \cup {None}]
Selection == [at : {"idle", "list", "filter"}, version : Version \cup {None},
              todo : SUBSET Sims, candidates : SUBSET Sims,
              onboarded : BOOLEAN]

CatalogTypeOK ==
    /\ failing \in Failings
    /\ file \in [Sims -> Manifest \cup {None, Torn}]
    /\ report \in [Sims -> {"allow", "deny", None}]
    /\ row \in [Sims -> Row \cup {None}]
    /\ pairs \subseteq Pair
    /\ job \in [Commands -> Job]
    /\ sel \in Selection
    /\ bounds \in [{"onboard", "reindex", "failure"} -> Nat]
    /\ orderly \in BOOLEAN

CatalogInit ==
    /\ failing \in Failings
    /\ file = [s \in Sims |-> None]
    /\ report = [s \in Sims |-> None]
    /\ row = [s \in Sims |-> None]
    /\ pairs = {}
    /\ job = [c \in Commands |-> Idle]
    /\ sel = NoSelection
    /\ bounds = [onboard |-> Onboardings, reindex |-> Reindexings,
                 failure |-> Failures]
    /\ orderly = TRUE

-----------------------------------------------------------------------------
Registered == {s \in Sims : row[s] # None}
Active == {s \in Registered : row[s].status = "active"}

At(c, place) == job[c].at = place
To(c, place) == job' = [job EXCEPT ![c].at = place]
Others(c) == {d \in Commands \ {c} : ~At(d, "idle")}

Burn(kind) ==
    /\ bounds[kind] > 0
    /\ bounds' = [bounds EXCEPT ![kind] = @ - 1]

\* The jobs after command c has begun to do something beside them.
Disturbed(c) ==
    [d \in Commands |-> IF d = c THEN job[d] ELSE [job[d] EXCEPT !.clean = FALSE]]

\* The selection after an onboarding has written something.
BesideOnboarding == sel' = [sel EXCEPT !.onboarded = sel.at # "idle"]

\* Where an onboarding leaves its command: at the end, or at the next turn of
\* reindex, which logs what was raised.
After(entry) ==
    IF entry.loop THEN [entry EXCEPT !.at = "next", !.sim = None, !.manifest = None]
    ELSE Idle

Raises(c) == job' = [job EXCEPT ![c] = [After(@) EXCEPT !.clean = FALSE]]

-----------------------------------------------------------------------------
(***************************************************************************)
(* onboard.                                                                *)
(***************************************************************************)
\* The manifest is parsed and its licences are audited; the report is kept
\* whatever it says, and a denial raises.
Audit(c, entry, s, m) ==
    /\ report' = [report EXCEPT ![s] = IF m.osi THEN "allow" ELSE "deny"]
    /\ job' = [Disturbed(c) EXCEPT ![c] =
          IF m.osi THEN [entry EXCEPT !.at = "truncate", !.sim = s, !.manifest = m]
          ELSE After(entry)]
    /\ orderly' = (orderly /\ Others(c) = {})
    /\ BesideOnboarding

Onboard(c, s, m) ==
    /\ At(c, "idle")
    /\ Burn("onboard")
    /\ Audit(c, Idle, s, m)
    /\ UNCHANGED <<failing, file, registry>>

\* After the build: the manifest's directory is copied and its file opened
\* for writing, ...
TruncateManifest(c) ==
    /\ At(c, "truncate")
    /\ file' = [file EXCEPT ![job[c].sim] = Torn]
    /\ To(c, "write")
    /\ BesideOnboarding
    /\ UNCHANGED <<failing, report, registry, bounds, orderly>>

\* ... and written.
WriteManifest(c) ==
    /\ At(c, "write")
    /\ file' = [file EXCEPT ![job[c].sim] = job[c].manifest]
    /\ To(c, "smoke")
    /\ BesideOnboarding
    /\ UNCHANGED <<failing, report, registry, bounds, orderly>>

\* smoke: reads the manifest again; which simulators fail is a matter of
\* their ids.
SmokePasses(s) == file[s] \in Manifest /\ s \notin failing

Smoke(c) ==
    /\ At(c, "smoke")
    /\ IF SmokePasses(job[c].sim) THEN To(c, "commit") ELSE Raises(c)
    /\ UNCHANGED <<failing, file, report, registry, sel, bounds, orderly>>

\* Mutant: the row is made of what the file holds by now.
WithRowOfFile(s, m) == [row EXCEPT ![s] = [manifest |-> file[s], status |-> "active"]]

\* The transaction: the row is inserted or updated, ...
WithRow(s, m) == [row EXCEPT ![s] = [manifest |-> m, status |-> "active"]]

\* Mutant: only the pairs this simulator declared are deleted.
OtherPairsOfFirst(s) == {p \in pairs : p.a # s}

\* ... the pairs it is in are deleted, whoever declared them, ...
OtherPairs(s) == {p \in pairs : p.a # s /\ p.b # s}

\* ... and those its manifest declares with simulators in the registry are
\* inserted in both directions, where there is none (INSERT OR IGNORE).
WithPairs(s, m, registered) ==
    LET rest == OtherPairs(s)
        declared(a, b) == [a |-> a, b |-> b, tolerance |-> m.tolerance]
        absent(a, b) == \A p \in rest : p.a # a \/ p.b # b
    IN  rest \cup {declared(s, t) : t \in {u \in m.counterparts \cap registered :
                                              absent(s, u)}}
             \cup {declared(t, s) : t \in {u \in m.counterparts \cap registered :
                                              absent(u, s)}}

Commit(c) ==
    /\ At(c, "commit")
    /\ LET s == job[c].sim
           m == job[c].manifest
       IN  /\ row' = WithRow(s, m)
           /\ pairs' = WithPairs(s, m, Registered \cup {s})
    /\ job' = [job EXCEPT ![c] = After(@)]
    /\ BesideOnboarding
    /\ UNCHANGED <<failing, file, report, bounds, orderly>>

\* A build or the transaction fails.
Fail(c) ==
    /\ At(c, "truncate") \/ At(c, "commit")
    /\ Burn("failure")
    /\ Raises(c)
    /\ orderly' = FALSE
    /\ UNCHANGED <<failing, file, report, registry, sel>>

Kill(c) ==
    /\ ~At(c, "idle")
    /\ Burn("failure")
    /\ job' = [job EXCEPT ![c] = Idle]
    /\ orderly' = FALSE
    /\ UNCHANGED <<failing, file, report, registry, sel>>

-----------------------------------------------------------------------------
(***************************************************************************)
(* reindex, reverify_all and quarantine.                                   *)
(***************************************************************************)
Reindex(c) ==
    /\ At(c, "idle")
    /\ Burn("reindex")
    /\ job' = [Disturbed(c) EXCEPT ![c] =
          [Idle EXCEPT !.at = "next", !.todo = {s \in Sims : file[s] # None},
                       !.loop = TRUE, !.clean = Others(c) = {}]]
    /\ orderly' = (orderly /\ Others(c) = {})
    /\ UNCHANGED <<failing, file, report, registry, sel>>

\* The next manifest, in the order of the directory; one that does not parse
\* is logged.
ReindexNext(c, s) ==
    /\ At(c, "next")
    /\ s \in job[c].todo
    /\ LET entry == [job[c] EXCEPT !.todo = @ \ {s}] IN
          IF file[s] \in Manifest THEN Audit(c, entry, s, file[s])
          ELSE /\ job' = [job EXCEPT ![c] = entry]
               /\ UNCHANGED <<report, sel, orderly>>
    /\ UNCHANGED <<failing, file, registry, bounds>>

AllIndexed(c) == At(c, "next") /\ job[c].todo = {}

ReindexEnd(c) ==
    /\ AllIndexed(c)
    /\ job' = [job EXCEPT ![c] = Idle]
    /\ UNCHANGED <<failing, file, report, registry, sel, bounds, orderly>>

ReverifyAll(c) ==
    /\ At(c, "idle")
    /\ Burn("reindex")
    /\ job' = [Disturbed(c) EXCEPT ![c] =
                  [Idle EXCEPT !.at = "reverify", !.todo = Active]]
    /\ UNCHANGED <<failing, file, report, registry, sel, orderly>>

\* Smoke for one of the entries that were active; one that does not pass is
\* to be quarantined.
Reverify(c) ==
    /\ At(c, "reverify")
    /\ \/ \E s \in job[c].todo :
             job' = [job EXCEPT ![c] = [job[c] EXCEPT !.todo = @ \ {s},
                 !.at = IF SmokePasses(s) THEN "reverify" ELSE "quarantine",
                 !.sim = IF SmokePasses(s) THEN None ELSE s]]
       \/ /\ job[c].todo = {}
          /\ job' = [job EXCEPT ![c] = Idle]
    /\ UNCHANGED <<failing, file, report, registry, sel, bounds, orderly>>

\* UPDATE ... SET status = 'quarantined'.
Quarantined(s) ==
    [row EXCEPT ![s] = IF @ = None THEN None ELSE [@ EXCEPT !.status = "quarantined"]]

ReverifyQuarantine(c) ==
    /\ At(c, "quarantine")
    /\ row' = Quarantined(job[c].sim)
    /\ job' = [job EXCEPT ![c].at = "reverify", ![c].sim = None]
    /\ UNCHANGED <<failing, file, report, pairs, sel, bounds, orderly>>

Quarantine(s) ==
    /\ s \in Active
    /\ row' = Quarantined(s)
    /\ job' = [c \in Commands |-> [job[c] EXCEPT !.clean = FALSE]]
    /\ UNCHANGED <<failing, file, report, pairs, sel, bounds, orderly>>

-----------------------------------------------------------------------------
(***************************************************************************)
(* Selector.select.                                                        *)
(***************************************************************************)
\* Mutant: the status is not hashed.
VersionHashOfManifests ==
    [s \in Sims |-> IF row[s] = None THEN None
                    ELSE [manifest |-> row[s].manifest, status |-> "active"]]

\* version_hash: of ids, manifest hashes and statuses.
VersionHash == row

Select ==
    /\ sel.at = "idle"
    /\ sel' = [NoSelection EXCEPT !.at = "list", !.version = VersionHash]
    /\ UNCHANGED <<failing, file, report, registry, job, bounds, orderly>>

\* list_entries.
ListEntries ==
    /\ sel.at = "list"
    /\ sel' = [sel EXCEPT !.at = "filter", !.todo = Active]
    /\ UNCHANGED <<failing, file, report, registry, job, bounds, orderly>>

\* is_license_ok and check_compatibility: what the metric is reached by.
LicenseOk(s) == report[s] = "allow"
Compatible(s) ==
    \/ file[s].computes
    \/ \E p \in pairs : p.b = s
    \/ file[s].counterparts # {}

\* One entry: its licence report and its manifest are read from disk, and the
\* pairs from the registry.  A manifest that does not parse raises.
Filter(s) ==
    /\ sel.at = "filter" /\ s \in sel.todo
    /\ sel' = CASE ~LicenseOk(s) -> [sel EXCEPT !.todo = @ \ {s}]
                [] LicenseOk(s) /\ file[s] \in Manifest ->
                      [sel EXCEPT !.todo = @ \ {s},
                          !.candidates = IF Compatible(s) THEN @ \cup {s} ELSE @]
                [] OTHER -> NoSelection
    /\ UNCHANGED <<failing, file, report, registry, job, bounds, orderly>>

\* After the ranking: returned, or CatalogStaleError.
Returns == sel.at = "filter" /\ sel.todo = {} /\ VersionHash = sel.version

SelectEnd ==
    /\ sel.at = "filter" /\ sel.todo = {}
    /\ sel' = NoSelection
    /\ UNCHANGED <<failing, file, report, registry, job, bounds, orderly>>

-----------------------------------------------------------------------------
Command(c) ==
    \/ \E s \in Sims : \E m \in Manifests[s] : Onboard(c, s, m)
    \/ TruncateManifest(c) \/ WriteManifest(c) \/ Smoke(c) \/ Commit(c)
    \/ Fail(c) \/ Kill(c)
    \/ Reindex(c) \/ ReindexEnd(c)
    \/ \E s \in Sims : ReindexNext(c, s)
    \/ ReverifyAll(c) \/ Reverify(c) \/ ReverifyQuarantine(c)

Selecting ==
    \/ Select \/ ListEntries \/ SelectEnd
    \/ \E s \in Sims : Filter(s)

CatalogNext ==
    \/ \E c \in Commands : Command(c)
    \/ \E s \in Sims : Quarantine(s)
    \/ Selecting

CatalogSpec == CatalogInit /\ [][CatalogNext]_catalogVars

-----------------------------------------------------------------------------
PairsSymmetric ==
    \A p \in pairs : [a |-> p.b, b |-> p.a, tolerance |-> p.tolerance] \in pairs

Declares(s, t, tolerance) ==
    /\ row[s] # None
    /\ t \in row[s].manifest.counterparts
    /\ tolerance = row[s].manifest.tolerance

PairsDeclared ==
    \A p \in pairs : Declares(p.a, p.b, p.tolerance) \/ Declares(p.b, p.a, p.tolerance)

\* Equivalence is mutual, with one tolerance, and no pair outlives its
\* declaration: the manifest registered for one of its ends declares it so,
\* through any order in which simulators are onboarded and again with other
\* manifests, by overlapping commands and over kills.
PairsSound == PairsSymmetric /\ PairsDeclared

\* "Manifests win": when an undisturbed reindex has gone through, whatever
\* was killed before it, the registry has every manifest that can be read.
Readable(s) == file[s] \in Manifest /\ file[s].osi /\ s \notin failing

ReindexRepairs ==
    \A c \in Commands : AllIndexed(c) /\ job[c].clean =>
        \A s \in Sims : Readable(s) => row[s] = [manifest |-> file[s], status |-> "active"]

\* While commands do not overlap and none is cut short, the registry is an
\* index of the manifests: a row has the hash of its file.  It rests on the
\* smoke test going by the id alone, for onboard writes the file before it.
IndexMatches ==
    orderly => \A s \in Registered :
        (\A c \in Commands : job[c].sim # s) => row[s].manifest = file[s]

\* Registry and pairs follow the manifests, and can be made to follow them.
IndexSound == PairsSound /\ IndexMatches /\ ReindexRepairs

\* Unless a simulator was being onboarded meanwhile, a selection that is
\* returned proposes what it would propose now: entries that are quarantined
\* beside it, by hand or by a reverification, are noticed.
SelectionIsCurrent ==
    Returns /\ ~sel.onboarded =>
        sel.candidates = {s \in Active : LicenseOk(s) /\ Compatible(s)}

=============================================================================
