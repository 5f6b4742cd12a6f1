------------------------------- MODULE Ledger -------------------------------
(***************************************************************************)
(* The evidence ledger (factory/ledger/api.py): an entry is a JSON file    *)
(* under the artifact root and a row group in a SQLite database; whether   *)
(* it is stale, how surprising it was and the state of its triggers live   *)
(* in the database only.                                                   *)
(*                                                                         *)
(* One writer inserts entries of a cycle, as the code's callers arrange    *)
(* it; an operator marks entries, exports the ledger and restores a dump   *)
(* into a second database, `copy`, with an artifact root of its own that   *)
(* is not modelled.  Each transaction is atomic and files are written in   *)
(* two steps.  Any process may be killed.  There is one export, to a file  *)
(* nobody else writes.                                                     *)
(***************************************************************************)
EXTENDS Integers, Sequences, FiniteSets, SequencesExt

CONSTANTS
    Entries,        \* entry hashes
    Parents,        \* parent_hashes of each entry
    Kills,          \* bound: processes killed
    None            \* no row, no entry at hand

Row == [stale : BOOLEAN, scored : BOOLEAN, satisfied : BOOLEAN]
Line == [entry : Entries, stale : BOOLEAN, scored : BOOLEAN]

ASSUME LedgerAssumption ==
    /\ Parents \in [Entries -> SUBSET Entries]
    /\ Kills \in Nat
    /\ None \notin Entries \cup Row

VARIABLES
    file,       \* per entry: its JSON file
    table,      \* the database
    writer,     \* the entry insert_entry is at, and where
    dump,       \* the export: the file, the rows still to read, its state
    copy,       \* the database a dump is restored into
    restorer,   \* the line restore is at, and where
    asked,      \* history: the database when the dump was begun
    kills       \* bound: kills so far

ledgerVars == <<file, table, writer, dump, copy, restorer, asked, kills>>

\* entries in the order of their rowids, the mutable columns, the edges.
Database == [order : Seq(Entries), row : [Entries -> Row \cup {None}],
             cites : SUBSET (Entries \X Entries)]
Empty == [order |-> <<>>, row |-> [e \in Entries |-> None], cites |-> {}]

Nowhere == [at |-> "idle", entry |-> None]
NoDump == [lines |-> <<>>, rest |-> <<>>, state |-> "none"]
NoRestore == [at |-> "idle", rest |-> <<>>, whole |-> FALSE]

LedgerTypeOK ==
    /\ file \in [Entries -> {"none", "torn", "whole"}]
    /\ table \in Database /\ copy \in Database
    /\ asked \in Database
    /\ IsInjective(table.order) /\ IsInjective(copy.order)
    /\ writer \in [at : {"idle", "file", "commit"}, entry : Entries \cup {None}]
    /\ dump \in [lines : Seq(Line), rest : Seq(Line),
                 state : {"none", "writing", "done", "failed"}]
    /\ restorer \in [at : {"idle", "commit", "stale", "surprise", "done"},
                     rest : Seq(Line), whole : BOOLEAN]
    /\ kills \in 0 .. Kills

LedgerInit ==
    /\ file = [e \in Entries |-> "none"]
    /\ table = Empty /\ copy = Empty
    /\ asked = Empty
    /\ writer = Nowhere
    /\ dump = NoDump
    /\ restorer = NoRestore
    /\ kills = 0

-----------------------------------------------------------------------------
(***************************************************************************)
(* insert_entry.                                                           *)
(***************************************************************************)
Stored(d, e) == d.row[e] # None

\* The transaction: the row group, and a citation for each parent that is
\* itself an entry by now.
WithEntry(d, e) ==
    [order |-> Append(d.order, e),
     row |-> [d.row EXCEPT ![e] =
                 [stale |-> FALSE, scored |-> FALSE, satisfied |-> FALSE]],
     cites |-> d.cites \cup ({p \in Parents[e] : Stored(d, p)} \X {e})]

\* Mutant: the entry is written again although its row is there.
InsertAgain(e) ==
    /\ writer = Nowhere
    /\ writer' = [at |-> "file", entry |-> e]
    /\ file' = [file EXCEPT ![e] = "torn"]
    /\ UNCHANGED <<table, dump, copy, restorer, asked, kills>>

\* Up to open(path, "w"), which truncates; an entry with a row is left.
Insert(e) ==
    /\ writer = Nowhere
    /\ ~Stored(table, e)
    /\ writer' = [at |-> "file", entry |-> e]
    /\ file' = [file EXCEPT ![e] = "torn"]
    /\ UNCHANGED <<table, dump, copy, restorer, asked, kills>>

\* The text reaches the file when it is closed.
InsertFile ==
    /\ writer.at = "file"
    /\ file' = [file EXCEPT ![writer.entry] = "whole"]
    /\ writer' = [writer EXCEPT !.at = "commit"]
    /\ UNCHANGED <<table, dump, copy, restorer, asked, kills>>

InsertCommit ==
    /\ writer.at = "commit"
    /\ table' = WithEntry(table, writer.entry)
    /\ writer' = Nowhere
    /\ UNCHANGED <<file, dump, copy, restorer, asked, kills>>

\* LedgerWriteFailed: the transaction is rolled back, the file stays.
InsertFails ==
    /\ writer.at = "commit"
    /\ writer' = Nowhere
    /\ UNCHANGED <<file, table, dump, copy, restorer, asked, kills>>

-----------------------------------------------------------------------------
(***************************************************************************)
(* The mutable columns: mark_stale, update_surprise, evaluate_triggers.    *)
(***************************************************************************)
Changed(e, column, value) ==
    /\ Stored(table, e)
    /\ table' = [table EXCEPT !.row[e][column] = value]
    /\ UNCHANGED <<file, writer, dump, copy, restorer, asked, kills>>

MarkStale(e) == Changed(e, "stale", TRUE)
UpdateSurprise(e) == Changed(e, "scored", TRUE)
UpdateRelitigateStatus(e) ==
    \E satisfied \in BOOLEAN : Changed(e, "satisfied", satisfied)

\* get_by_hash, without _allow_stale: what it would do in this state.
GetByHash(e) ==
    CASE ~Stored(table, e) -> "EntryNotFound"
      [] table.row[e].stale -> "DowngradedDueToStaleness"
      [] file[e] = "none" -> "EntryNotFound"
      [] file[e] = "torn" -> "LedgerCorruption"
      [] OTHER -> "entry"

-----------------------------------------------------------------------------
(***************************************************************************)
(* export.                                                                 *)
(***************************************************************************)

\* Mutant: sorted by hash instead of the order of the rows.
RowsInOrderSorted(d) ==
    LET hashes == SetToSeq(ToSet(d.order))
    IN  [i \in DOMAIN hashes |->
            [entry |-> hashes[Len(hashes) + 1 - i],
             stale |-> d.row[hashes[Len(hashes) + 1 - i]].stale,
             scored |-> d.row[hashes[Len(hashes) + 1 - i]].scored]]

\* SELECT entry_hash, is_stale, surprise_bits FROM entries.
RowsInOrder(d) ==
    [i \in DOMAIN d.order |->
        [entry |-> d.order[i],
         stale |-> d.row[d.order[i]].stale,
         scored |-> d.row[d.order[i]].scored]]

Export ==
    /\ dump.state = "none"
    /\ dump' = [lines |-> <<>>, rest |-> RowsInOrder(table), state |-> "writing"]
    /\ asked' = table
    /\ UNCHANGED <<file, table, writer, copy, restorer, kills>>

ExportLine ==
    /\ dump.state = "writing" /\ dump.rest # <<>>
    /\ dump' = IF GetByHash(Head(dump.rest).entry) = "entry"
               THEN [dump EXCEPT !.lines = Append(@, Head(dump.rest)),
                                 !.rest = Tail(@)]
               ELSE [dump EXCEPT !.rest = <<>>, !.state = "failed"]
    /\ UNCHANGED <<file, table, writer, copy, restorer, asked, kills>>

ExportEnd ==
    /\ dump.state = "writing" /\ dump.rest = <<>>
    /\ dump' = [dump EXCEPT !.state = "done"]
    /\ UNCHANGED <<file, table, writer, copy, restorer, asked, kills>>

-----------------------------------------------------------------------------
(***************************************************************************)
(* restore, into the empty copy, from whatever the dump holds by now.      *)
(***************************************************************************)
Restored == Head(restorer.rest)

Restore ==
    /\ restorer.at = "idle"
    /\ dump.state \in {"done", "failed"}
    /\ copy.order = <<>>
    /\ restorer' = [at |-> IF dump.lines = <<>> THEN "done" ELSE "commit",
                    rest |-> dump.lines, whole |-> dump.state = "done"]
    /\ UNCHANGED <<file, table, writer, dump, copy, asked, kills>>

\* insert_entry.
RestoreCommit ==
    /\ restorer.at = "commit"
    /\ copy' = WithEntry(copy, Restored.entry)
    /\ restorer' = [restorer EXCEPT !.at = "stale"]
    /\ UNCHANGED <<file, table, writer, dump, asked, kills>>

\* The sidecar: mark_stale and update_surprise, a transaction each.
RestoreStale ==
    /\ restorer.at = "stale"
    /\ copy' = [copy EXCEPT !.row[Restored.entry].stale = Restored.stale]
    /\ restorer' = [restorer EXCEPT !.at = "surprise"]
    /\ UNCHANGED <<file, table, writer, dump, asked, kills>>

RestoreSurprise ==
    /\ restorer.at = "surprise"
    /\ copy' = [copy EXCEPT !.row[Restored.entry].scored = Restored.scored]
    /\ restorer' = [restorer EXCEPT
          !.at = IF Len(restorer.rest) = 1 THEN "done" ELSE "commit",
          !.rest = Tail(@)]
    /\ UNCHANGED <<file, table, writer, dump, asked, kills>>

-----------------------------------------------------------------------------
KillWriter ==
    /\ writer # Nowhere /\ kills < Kills
    /\ writer' = Nowhere
    /\ kills' = kills + 1
    /\ UNCHANGED <<file, table, dump, copy, restorer, asked>>

KillRestorer ==
    /\ restorer.at \notin {"idle", "done"} /\ kills < Kills
    /\ restorer' = NoRestore
    /\ kills' = kills + 1
    /\ UNCHANGED <<file, table, writer, dump, copy, asked>>

KillExport ==
    /\ dump.state = "writing" /\ kills < Kills
    /\ dump' = [dump EXCEPT !.rest = <<>>, !.state = "failed"]
    /\ kills' = kills + 1
    /\ UNCHANGED <<file, table, writer, copy, restorer, asked>>

LedgerNext ==
    \/ \E e \in Entries :
          Insert(e) \/ MarkStale(e) \/ UpdateSurprise(e)
                    \/ UpdateRelitigateStatus(e)
    \/ InsertFile \/ InsertCommit \/ InsertFails
    \/ Export \/ ExportLine \/ ExportEnd
    \/ Restore \/ RestoreCommit \/ RestoreStale \/ RestoreSurprise
    \/ KillWriter \/ KillRestorer \/ KillExport

LedgerSpec == LedgerInit /\ [][LedgerNext]_ledgerVars

-----------------------------------------------------------------------------
\* A row never lies about its artifact: wherever the writer is killed or the
\* transaction fails, the file of every row is whole.
RowHasFile == \A e \in Entries : Stored(table, e) => file[e] = "whole"

\* Inserting an entry again, after a crash or a LedgerWriteFailed, never
\* revives it or forgets what is known of it.
RowsKeepState ==
    [][\A e \in Entries :
          /\ Stored(table, e) => Stored(table', e)
          /\ (Stored(table, e) /\ table.row[e].stale) => table'.row[e].stale
          /\ (Stored(table, e) /\ table.row[e].scored) => table'.row[e].scored]_ledgerVars

\* A dump that export has finished is the ledger at one moment: restored, it
\* has the same entries with the same flags and citations, though the ledger
\* went on changing while the lines were read.  The triggers are not in it:
\* they come back as they were when the entry was inserted.
RoundTrip(d) == [e \in Entries |->
    IF Stored(d, e) THEN <<d.row[e].stale, d.row[e].scored>> ELSE None]

RestoreRoundTrips ==
    (restorer.at = "done" /\ restorer.whole) =>
        /\ RoundTrip(copy) = RoundTrip(asked)
        /\ copy.cites = asked.cites

\* What the ledger says of an entry can be relied on: its artifact is there,
\* and a dump that was finished gives it back.
EntriesKept == RowHasFile /\ RestoreRoundTrips

-----------------------------------------------------------------------------
\* The specification of the module (docs/specs/012) says "Stream every entry
\* (including trigger state and stale flags)": an export that nobody kills
\* ends well.
ExportSucceeds == dump.state = "failed" => kills > 0
=============================================================================
