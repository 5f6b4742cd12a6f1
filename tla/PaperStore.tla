----------------------------- MODULE PaperStore -----------------------------
(***************************************************************************)
(* The paper store (factory/literature/paper_store.py): a directory per    *)
(* OpenAlex work, replaced as a whole when the work is promoted again.     *)
(*                                                                         *)
(* _write_entry builds the new directory beside the old one, file by file, *)
(* then moves the old one away and the new one into its place.  Promoters  *)
(* are processes that take no lock and use the same two names for the      *)
(* staging and the backup directory of a work; one may be killed, or an    *)
(* operation of the file system may raise, at any step.  A reader (`get`)  *)
(* checks the entry against the other files; it is an operator here.       *)
(*                                                                         *)
(* One work is modelled, works do not share a directory.  A file is known  *)
(* by the version of the work it was written from; ocr.txt and             *)
(* evidence.json, which are only looked for, stand with work.json.         *)
(***************************************************************************)
EXTENDS Integers, Sequences, FiniteSets

CONSTANTS
    Promoters,      \* processes that promote the work
    Versions,       \* what OpenAlex says of the work, over time
    Promotions,     \* bound: calls of _write_entry
    Failures,       \* bound: kills and errors
    Absent          \* no such directory, no such file

Files == {"work", "provenance", "bibtex", "entry"}
\* The order in which _write_entry writes them.
Order == <<"work", "provenance", "bibtex", "entry">>
Directory == [Files -> Versions \cup {Absent}]
EmptyDirectory == [f \in Files |-> Absent]

ASSUME StoreAssumption ==
    /\ {Promotions, Failures} \subseteq Nat
    /\ Absent \notin Versions \cup Directory

VARIABLES
    paper,      \* <work_id>
    staging,    \* .<work_id>.staging
    old,        \* .<work_id>.old
    promoter,   \* per promoter: the step it is at and the version it writes
    promotions, \* bound: calls so far
    failures,   \* bound: kills and errors so far
    done,       \* history: versions whose promotion has returned
    alone       \* history: no two promotions have overlapped

disk == <<paper, staging, old>>
paperVars == <<disk, promoter, promotions, failures, done, alone>>

Steps == {"idle", "clear", "clear_old", "make", "write", "move_away",
          "move_in", "drop_old"}

PaperTypeOK ==
    /\ {paper, staging, old} \subseteq Directory \cup {Absent}
    /\ promoter \in [Promoters ->
          [at : Steps, version : Versions \cup {Absent}, written : 0 .. Len(Order)]]
    /\ promotions \in 0 .. Promotions
    /\ failures \in 0 .. Failures
    /\ done \subseteq Versions
    /\ alone \in BOOLEAN

Idle == [at |-> "idle", version |-> Absent, written |-> 0]

PaperInit ==
    /\ paper = Absent /\ staging = Absent /\ old = Absent
    /\ promoter = [p \in Promoters |-> Idle]
    /\ promotions = 0
    /\ failures = 0
    /\ done = {}
    /\ alone = TRUE

-----------------------------------------------------------------------------
(***************************************************************************)
(* _write_entry.                                                           *)
(***************************************************************************)
At(p, step) == promoter[p].at = step
To(p, step) == promoter' = [promoter EXCEPT ![p].at = step]
Raised(p) == promoter' = [promoter EXCEPT ![p] = Idle]

Quiet == \A p \in Promoters : At(p, "idle")

Promote(p) ==
    /\ At(p, "idle")
    /\ promotions < Promotions
    /\ promotions' = promotions + 1
    /\ \E v \in Versions :
          promoter' = [promoter EXCEPT ![p] =
              [at |-> "clear", version |-> v, written |-> 0]]
    /\ alone' = (alone /\ Quiet)
    /\ UNCHANGED <<disk, failures, done>>

ClearStaging(p) ==
    /\ At(p, "clear")
    /\ staging' = Absent
    /\ To(p, "clear_old")
    /\ UNCHANGED <<paper, old, promotions, failures, done, alone>>

ClearOld(p) ==
    /\ At(p, "clear_old")
    /\ old' = Absent
    /\ To(p, "make")
    /\ UNCHANGED <<paper, staging, promotions, failures, done, alone>>

\* staging_dir.mkdir raises when another promoter has made it.
MakeStaging(p) ==
    /\ At(p, "make")
    /\ \/ staging = Absent /\ staging' = EmptyDirectory /\ To(p, "write")
       \/ staging # Absent /\ UNCHANGED staging /\ Raised(p)
    /\ UNCHANGED <<paper, old, promotions, failures, done, alone>>

\* A write raises when another promoter has taken the directory away.
WriteFile(p) ==
    /\ At(p, "write")
    /\ LET written == promoter[p].written + 1 IN
       \/ /\ staging # Absent
          /\ staging' = [staging EXCEPT ![Order[written]] = promoter[p].version]
          /\ promoter' = [promoter EXCEPT ![p].written = written,
                 ![p].at = IF written = Len(Order) THEN "move_away" ELSE "write"]
       \/ /\ staging = Absent
          /\ UNCHANGED staging
          /\ Raised(p)
    /\ UNCHANGED <<paper, old, promotions, failures, done, alone>>

\* Mutant: the old directory is dropped to make room.
MoveAwayDrops(p) ==
    /\ At(p, "move_away")
    /\ paper' = Absent
    /\ UNCHANGED <<staging, old>>
    /\ To(p, "move_in")
    /\ UNCHANGED <<promotions, failures, done, alone>>

\* paper_dir.replace(backup_dir), which raises on a backup that is not empty.
MoveAway(p) ==
    /\ At(p, "move_away")
    /\ \/ paper = Absent /\ UNCHANGED disk /\ To(p, "move_in")
       \/ /\ paper # Absent /\ old = Absent
          /\ old' = paper /\ paper' = Absent
          /\ UNCHANGED staging
          /\ To(p, "move_in")
       \/ paper # Absent /\ old # Absent /\ UNCHANGED disk /\ Raised(p)
    /\ UNCHANGED <<promotions, failures, done, alone>>

\* staging_dir.replace(paper_dir); both may have changed under another hand.
MoveIn(p) ==
    /\ At(p, "move_in")
    /\ \/ /\ staging # Absent /\ paper \in {Absent, EmptyDirectory}
          /\ paper' = staging /\ staging' = Absent
          /\ To(p, "drop_old")
       \/ /\ staging = Absent \/ paper \notin {Absent, EmptyDirectory}
          /\ UNCHANGED <<paper, staging>>
          /\ Raised(p)
    /\ UNCHANGED <<old, promotions, failures, done, alone>>

DropOld(p) ==
    /\ At(p, "drop_old")
    /\ old' = Absent
    /\ done' = done \cup {promoter[p].version}
    /\ Raised(p)
    /\ UNCHANGED <<paper, staging, promotions, failures, alone>>

\* The process is killed or the file system raises: nothing is undone.
Fail(p) ==
    /\ ~At(p, "idle")
    /\ failures < Failures
    /\ failures' = failures + 1
    /\ Raised(p)
    /\ UNCHANGED <<disk, promotions, done, alone>>

WriteEntry(p) ==
    \/ ClearStaging(p) \/ ClearOld(p) \/ MakeStaging(p) \/ WriteFile(p)
    \/ MoveAway(p) \/ MoveIn(p) \/ DropOld(p)
PaperNext == \E p \in Promoters : Promote(p) \/ WriteEntry(p) \/ Fail(p)

PaperSpec == PaperInit /\ [][PaperNext]_paperVars

-----------------------------------------------------------------------------
(***************************************************************************)
(* get and _verify_entry, on a directory nobody is changing.               *)
(***************************************************************************)
\* entry.json is there, the hash in the provenance is that of work.json, and
\* the BibTeX text of the entry is that of the file.  The entry's other
\* fields are not compared with the work.
Verified(dir) ==
    /\ dir # Absent
    /\ dir["entry"] # Absent
    /\ dir["work"] # Absent
    /\ dir["provenance"] = dir["work"]
    /\ dir["bibtex"] = dir["entry"]

Complete(dir) == dir # Absent /\ \E v \in Versions : dir = [f \in Files |-> v]

\* What stands under the work's name is one version, whole, wherever a
\* promoter was killed before, as long as promotions do not overlap.
PaperIsWhole == alone /\ paper # Absent => Complete(paper)

\* One failure alone never costs the work: the new directory or the one
\* moved away is whole on the disk, while nothing has failed at every step,
\* and after one failure whenever no promotion is under way.
OneCopySurvives ==
    alone /\ done # {} /\ (failures = 0 \/ (failures = 1 /\ Quiet))
        => (Complete(paper) \/ Complete(old))

\* A promotion that is cut short leaves no mixture of versions behind, and one
\* that fails alone does not cost the work.
PaperSurvives == PaperIsWhole /\ OneCopySurvives

\* "Writes are atomic per Work ID": once promoted, a work can be read in its
\* old or its new version, at least while nobody is promoting it.
PromotedStaysReadable == alone /\ done # {} /\ Quiet => Verified(paper)
=============================================================================
