---------------------------- MODULE RecordsProof ----------------------------
(***************************************************************************)
(* What is kept of evidence, strategies and surrogates.  Ledger: the file  *)
(* of every row is whole, nothing known of an entry is forgotten, and a    *)
(* finished dump gives the ledger back, for any entries and citations.     *)
(* Surrogate: a rollback reaches the model that was trained before, and    *)
(* predictions, residuals and thresholds are of the nearest examples only. *)
(* Archive: every observation is in the rows that were read for it, or was *)
(* overwritten by one that had read them before.                           *)
(***************************************************************************)
EXTENDS Ledger, StrategyArchive, Surrogate, ProofFacts

\* The rows of a database are the entries of its order, and a citation is of a
\* parent that was inserted before its child.
CitesOf(order) ==
    {pair \in Entries \X Entries :
        /\ pair[1] \in Parents[pair[2]]
        /\ \E i, j \in DOMAIN order : j < i /\ order[i] = pair[2] /\ order[j] = pair[1]}

Sound(d) ==
    /\ d \in Database
    /\ IsInjective(d.order)
    /\ \A e \in Entries : Stored(d, e) <=> \E i \in DOMAIN d.order : d.order[i] = e
    /\ d.cites = CitesOf(d.order)

WriterFits ==
    /\ writer \in [at : {"idle", "file", "commit"}, entry : Entries \cup {None}]
    /\ writer # Nowhere =>
          /\ writer.at \in {"file", "commit"} /\ writer.entry \in Entries
          /\ ~Stored(table, writer.entry)
    /\ writer.at = "commit" => file[writer.entry] = "whole"

FilesFit ==
    /\ file \in [Entries -> {"none", "torn", "whole"}]
    /\ kills \in 0 .. Kills
    /\ RowHasFile

\* The lines are the first rows of the database as it was when the dump was
\* begun, and those still to read are the others.
DumpFits ==
    LET rows == RowsInOrder(asked)
        n == Len(dump.lines)
    IN  /\ dump \in [lines : Seq(Line), rest : Seq(Line),
                     state : {"none", "writing", "done", "failed"}]
        /\ n <= Len(rows)
        /\ \A i \in 1 .. n : dump.lines[i] = rows[i]
        /\ dump.state = "none" => asked = Empty
        /\ dump.state = "writing" =>
              /\ Len(dump.rest) = Len(rows) - n
              /\ \A i \in 1 .. Len(dump.rest) : dump.rest[i] = rows[n + i]
        /\ dump.state = "done" => n = Len(rows)

\* The lines before the one at hand are in the copy, in their order and with
\* their flags.
RestoreFits ==
    LET k == Len(dump.lines) - Len(restorer.rest)
        inserted == IF restorer.at \in {"stale", "surprise"} THEN k + 1 ELSE k
    IN  /\ restorer \in [at : {"idle", "commit", "stale", "surprise", "done"},
                         rest : Seq(Line), whole : BOOLEAN]
        /\ restorer.at \in {"commit", "stale", "surprise"} => restorer.rest # <<>>
        /\ restorer.at = "done" => restorer.rest = <<>>
        /\ restorer.at # "idle" =>
              /\ dump.state \in {"done", "failed"}
              /\ restorer.whole => dump.state = "done"
              /\ k \in Nat
              /\ \A i \in 1 .. Len(restorer.rest) : restorer.rest[i] = dump.lines[k + i]
              /\ Len(copy.order) = inserted
              /\ \A i \in 1 .. inserted : copy.order[i] = dump.lines[i].entry
              /\ \A i \in 1 .. k :
                    /\ copy.row[dump.lines[i].entry].stale = dump.lines[i].stale
                    /\ copy.row[dump.lines[i].entry].scored = dump.lines[i].scored
              /\ restorer.at = "surprise" =>
                    copy.row[dump.lines[k + 1].entry].stale = dump.lines[k + 1].stale

LedgerInv ==
    /\ Sound(table) /\ Sound(copy) /\ Sound(asked)
    /\ WriterFits /\ FilesFit /\ DumpFits /\ RestoreFits

-----------------------------------------------------------------------------
LEMMA RowOrNone ==
    ASSUME NEW d \in Database, NEW e \in Entries
    PROVE  Stored(d, e) <=> d.row[e] \in Row
BY LedgerAssumption DEF Database, Stored

LEMMA EmptySound == Sound(Empty)
<1>1. Empty \in Database /\ DOMAIN Empty.order = {}
  BY DEF Empty, Database
<1>2. Empty.cites = CitesOf(Empty.order)
  BY <1>1 DEF Empty, CitesOf
<1>3. IsInjective(Empty.order)
  BY <1>1 DEF IsInjective
<1>4. \A e \in Entries : ~Stored(Empty, e)
  BY DEF Empty, Stored
<1> QED
  BY <1>1, <1>2, <1>3, <1>4 DEF Sound

\* A transaction adds the entry at the end, and leaves the other rows.
LEMMA WithEntrySound ==
    ASSUME NEW d, Sound(d), NEW e \in Entries, ~Stored(d, e)
    PROVE  LET after == WithEntry(d, e) IN
           /\ Sound(after)
           /\ after.order = Append(d.order, e)
           /\ Stored(after, e)
           /\ \A x \in Entries : x # e => after.row[x] = d.row[x]
<1> DEFINE after == WithEntry(d, e)
           n == Len(d.order)
           new == [stale |-> FALSE, scored |-> FALSE, satisfied |-> FALSE]
<1>1. /\ d \in Database /\ d.order \in Seq(Entries) /\ d.cites \subseteq Entries \X Entries
      /\ d.row \in [Entries -> Row \cup {None}] /\ n \in Nat /\ DOMAIN d.order = 1 .. n
  BY DEF Sound, Database
<1>2. new \in Row /\ new # None
  <2>1. new \in Row
    BY DEF Row
  <2> QED
    BY <2>1, LedgerAssumption
<1>3. /\ after.order = Append(d.order, e)
      /\ after.row = [d.row EXCEPT ![e] = new]
      /\ after.cites = d.cites \cup ({p \in Parents[e] : Stored(d, p)} \X {e})
      /\ after = [order |-> after.order, row |-> after.row, cites |-> after.cites]
  BY DEF WithEntry
<1> HIDE DEF after, new
<1>4. /\ after.order \in Seq(Entries) /\ DOMAIN after.order = 1 .. n + 1
      /\ after.order[n + 1] = e /\ \A i \in 1 .. n : after.order[i] = d.order[i]
  BY <1>1, <1>3
<1>5. /\ after.row \in [Entries -> Row \cup {None}] /\ after.row[e] = new
      /\ \A x \in Entries : x # e => after.row[x] = d.row[x]
  BY <1>1, <1>2, <1>3
<1>6. Parents[e] \subseteq Entries
  BY LedgerAssumption
<1>7. after \in Database
  BY <1>1, <1>3, <1>4, <1>5, <1>6 DEF Database
<1>8. \A i \in 1 .. n : d.order[i] # e
  BY <1>1 DEF Sound
<1>9. IsInjective(after.order)
  BY <1>1, <1>4, <1>8, SMTT(30) DEF Sound, IsInjective
<1>10. \A x \in Entries : Stored(after, x) <=> \E i \in 1 .. n + 1 : after.order[i] = x
  <2>1. TAKE x \in Entries
  <2>2. CASE x = e
    BY <1>1, <1>2, <1>4, <1>5, <2>2 DEF Stored
  <2>3. CASE x # e
    <3>1. Stored(after, x) <=> Stored(d, x)
      BY <1>5, <2>3 DEF Stored
    <3>2. Stored(d, x) <=> \E i \in 1 .. n : d.order[i] = x
      BY <1>1 DEF Sound
    <3>3. \A i \in 1 .. n + 1 : i = n + 1 \/ i \in 1 .. n
      BY <1>1
    <3>4. 1 .. n \subseteq 1 .. n + 1
      BY <1>1
    <3> QED
      BY <1>4, <2>3, <3>1, <3>2, <3>3, <3>4
  <2> QED
    BY <2>2, <2>3
<1>11. after.cites = CitesOf(after.order)
  <2>1. ASSUME NEW p \in Entries, NEW x \in Entries
        PROVE  <<p, x>> \in after.cites <=> <<p, x>> \in CitesOf(after.order)
    <3>1. <<p, x>> \in after.cites <=>
             <<p, x>> \in CitesOf(d.order) \/ (x = e /\ p \in Parents[e] /\ Stored(d, p))
      BY <1>3 DEF Sound
    <3>2. Stored(d, p) <=> \E j \in 1 .. n : d.order[j] = p
      BY <1>1 DEF Sound
    <3>3. <<p, x>> \in CitesOf(d.order) <=>
             /\ p \in Parents[x]
             /\ \E i, j \in 1 .. n : j < i /\ d.order[i] = x /\ d.order[j] = p
      BY <1>1 DEF CitesOf
    <3>4. <<p, x>> \in CitesOf(after.order) <=>
             /\ p \in Parents[x]
             /\ \E i, j \in 1 .. n + 1 : j < i /\ after.order[i] = x /\ after.order[j] = p
      BY <1>4 DEF CitesOf
    <3>5. (\E i, j \in 1 .. n + 1 : j < i /\ after.order[i] = x /\ after.order[j] = p) <=>
             \/ \E i, j \in 1 .. n : j < i /\ d.order[i] = x /\ d.order[j] = p
             \/ x = e /\ \E j \in 1 .. n : d.order[j] = p
      <4>1. \A i \in 1 .. n + 1 : i = n + 1 \/ i \in 1 .. n
        BY <1>1
      <4>2. n + 1 \in 1 .. n + 1 /\ \A j \in 1 .. n : j < n + 1 /\ j \in 1 .. n + 1
        BY <1>1
      <4>3. \A i, j \in 1 .. n + 1 : j < i => j \in 1 .. n
        BY <1>1
      <4> QED
        BY <1>4, <4>1, <4>2, <4>3
    <3> QED
      BY <3>1, <3>2, <3>3, <3>4, <3>5
  <2>2. after.cites \subseteq Entries \X Entries /\ CitesOf(after.order) \subseteq Entries \X Entries
    BY <1>7 DEF Database, CitesOf
  <2>3. ASSUME NEW pair \in Entries \X Entries
        PROVE  pair \in after.cites <=> pair \in CitesOf(after.order)
    <3>1. PICK p \in Entries, x \in Entries : pair = <<p, x>>
      OBVIOUS
    <3> QED
      BY <2>1, <3>1
  <2> QED
    BY <2>2, <2>3
<1>12. Sound(after)
  BY <1>4, <1>7, <1>9, <1>10, <1>11 DEF Sound
<1>13. Stored(after, e)
  BY <1>2, <1>5 DEF Stored
<1> QED
  BY <1>3, <1>5, <1>12, <1>13 DEF after

\* A transaction that sets a flag of a row.
LEMMA FlagSound ==
    ASSUME NEW d, Sound(d), NEW e \in Entries, Stored(d, e), NEW value \in BOOLEAN,
           NEW column \in {"stale", "scored", "satisfied"},
           NEW after, after = [d EXCEPT !.row[e][column] = value]
    PROVE  /\ Sound(after)
           /\ after.order = d.order
           /\ after.row[e][column] = value
           /\ \A c \in {"stale", "scored", "satisfied"} : c # column =>
                 after.row[e][c] = d.row[e][c]
           /\ \A x \in Entries : x # e => after.row[x] = d.row[x]
           /\ \A x \in Entries : Stored(after, x) <=> Stored(d, x)
<1> DEFINE new == [d.row[e] EXCEPT ![column] = value]
<1>1. d \in Database /\ d.row[e] \in Row
  BY RowOrNone DEF Sound
<1>2. /\ after.row = [d.row EXCEPT ![e] = new] /\ after.order = d.order
      /\ after.cites = d.cites /\ after \in [order : {d.order}, row : {after.row}, cites : {d.cites}]
  BY <1>1 DEF Database
<1>3. /\ new \in Row /\ new # None /\ new[column] = value
      /\ \A c \in {"stale", "scored", "satisfied"} : c # column => new[c] = d.row[e][c]
  BY <1>1, LedgerAssumption DEF Row
<1> HIDE DEF new
<1>4. /\ after.row \in [Entries -> Row \cup {None}] /\ after.row[e] = new
      /\ \A x \in Entries : x # e => after.row[x] = d.row[x]
  BY <1>1, <1>2, <1>3 DEF Database
<1>5. after \in Database
  BY <1>1, <1>2, <1>4 DEF Database
<1>6. \A x \in Entries : Stored(after, x) <=> Stored(d, x)
  BY <1>3, <1>4 DEF Stored
<1>7. Sound(after)
  BY <1>2, <1>5, <1>6 DEF Sound
<1> QED
  BY <1>2, <1>3, <1>4, <1>6, <1>7

LEMMA LedgerStarts == LedgerInit => LedgerInv
<1> SUFFICES ASSUME LedgerInit PROVE LedgerInv
  OBVIOUS
<1>1. Sound(table) /\ Sound(copy) /\ Sound(asked)
  BY EmptySound DEF LedgerInit
<1>2. WriterFits
  BY DEF LedgerInit, WriterFits, Nowhere
<1>3. FilesFit
  BY LedgerAssumption DEF LedgerInit, FilesFit, RowHasFile, Stored, Empty
<1>4. DumpFits
  <2>1. Len(RowsInOrder(asked)) = 0
    BY DEF LedgerInit, RowsInOrder, Empty
  <2> QED
    BY <2>1 DEF LedgerInit, DumpFits, NoDump
<1>5. RestoreFits
  BY DEF LedgerInit, RestoreFits, NoRestore
<1> QED
  BY <1>1, <1>2, <1>3, <1>4, <1>5 DEF LedgerInv

\* What a step does to the database.
LEMMA TableSteps ==
    ASSUME LedgerInv, [LedgerNext]_ledgerVars
    PROVE  \/ table' = table
           \/ /\ writer.at = "commit" /\ writer' = Nowhere /\ file' = file
              /\ writer.entry \in Entries /\ ~Stored(table, writer.entry)
              /\ table' = WithEntry(table, writer.entry)
              /\ UNCHANGED <<dump, copy, restorer, asked, kills>>
           \/ /\ UNCHANGED <<file, writer, dump, copy, restorer, asked, kills>>
              /\ \E e \in Entries, value \in BOOLEAN, column \in {"stale", "scored", "satisfied"} :
                    /\ Stored(table, e)
                    /\ table' = [table EXCEPT !.row[e][column] = value]
                    /\ column = "satisfied" \/ value = TRUE
<1>1. CASE InsertCommit
  BY <1>1 DEF InsertCommit, LedgerInv, WriterFits, Nowhere
<1>2. ASSUME NEW e \in Entries, MarkStale(e) \/ UpdateSurprise(e) \/ UpdateRelitigateStatus(e)
      PROVE  /\ UNCHANGED <<file, writer, dump, copy, restorer, asked, kills>>
             /\ \E value \in BOOLEAN, column \in {"stale", "scored", "satisfied"} :
                    /\ Stored(table, e)
                    /\ table' = [table EXCEPT !.row[e][column] = value]
                    /\ column = "satisfied" \/ value = TRUE
  BY <1>2 DEF MarkStale, UpdateSurprise, UpdateRelitigateStatus, Changed
<1> QED
  BY <1>1, <1>2
     DEF LedgerNext, Insert, InsertFile, InsertFails, Export, ExportLine, ExportEnd, Restore,
         RestoreCommit, RestoreStale, RestoreSurprise, KillWriter, KillRestorer, KillExport,
         ledgerVars

\* Rows stay, and so do their flags.
LEMMA RowsKeep ==
    ASSUME LedgerInv, [LedgerNext]_ledgerVars
    PROVE  /\ Sound(table')
           /\ \A e \in Entries :
                 /\ Stored(table, e) => Stored(table', e)
                 /\ (Stored(table, e) /\ table.row[e].stale) => table'.row[e].stale
                 /\ (Stored(table, e) /\ table.row[e].scored) => table'.row[e].scored
<1>1. Sound(table)
  BY DEF LedgerInv
<1>2. CASE table' = table
  BY <1>1, <1>2
<1>3. ASSUME NEW e \in Entries, ~Stored(table, e), table' = WithEntry(table, e)
      PROVE  /\ Sound(table')
             /\ \A x \in Entries : Stored(table, x) => table'.row[x] = table.row[x]
  BY <1>1, <1>3, WithEntrySound
<1>4. ASSUME NEW e \in Entries, NEW value \in BOOLEAN,
             NEW column \in {"stale", "scored", "satisfied"}, Stored(table, e),
             table' = [table EXCEPT !.row[e][column] = value],
             column = "satisfied" \/ value = TRUE
      PROVE  /\ Sound(table')
             /\ \A x \in Entries :
                   /\ Stored(table, x) => Stored(table', x)
                   /\ (Stored(table, x) /\ table.row[x].stale) => table'.row[x].stale
                   /\ (Stored(table, x) /\ table.row[x].scored) => table'.row[x].scored
  <2>1. Sound(table')
    BY <1>1, <1>4, FlagSound
  <2>3. table'.row[e][column] = value
    <3>1. table \in Database /\ table.row[e] \in Row
      BY <1>1, <1>4, RowOrNone DEF Sound
    <3> QED
      BY <1>4, <3>1 DEF Database, Row
  <2>4. \A c \in {"stale", "scored", "satisfied"} : c # column =>
           table'.row[e][c] = table.row[e][c]
    BY <1>1, <1>4, FlagSound
  <2>5. \A x \in Entries : x # e => table'.row[x] = table.row[x]
    BY <1>1, <1>4, FlagSound
  <2>6. \A x \in Entries : Stored(table', x) <=> Stored(table, x)
    BY <1>1, <1>4, FlagSound
  <2>2. /\ table.row[e].stale => table'.row[e].stale
        /\ table.row[e].scored => table'.row[e].scored
    BY <1>4, <2>3, <2>4
  <2> QED
    BY <2>1, <2>2, <2>5, <2>6
<1> QED
  BY <1>2, <1>3, <1>4, TableSteps DEF Stored

LEMMA WriterNext ==
    ASSUME LedgerInv, [LedgerNext]_ledgerVars
    PROVE  WriterFits' /\ FilesFit'
<1> USE DEF LedgerInv
<1>1. ASSUME NEW e \in Entries, Insert(e) PROVE WriterFits' /\ FilesFit'
  BY <1>1, LedgerAssumption DEF Insert, WriterFits, FilesFit, RowHasFile, Nowhere, Stored
<1>2. CASE InsertFile
  <2>1. writer # Nowhere /\ writer.entry \in Entries /\ ~Stored(table, writer.entry)
    BY <1>2 DEF InsertFile, WriterFits, Nowhere
  <2>2. writer' = [at |-> "commit", entry |-> writer.entry]
    BY <1>2 DEF InsertFile, WriterFits
  <2> QED
    BY <1>2, <2>1, <2>2
       DEF InsertFile, WriterFits, FilesFit, RowHasFile, Nowhere, Stored
<1>3. CASE writer' = Nowhere /\ table' = table /\ file' = file /\ kills' \in 0 .. Kills
  BY <1>3 DEF WriterFits, FilesFit, RowHasFile, Nowhere, Stored
<1>4. CASE UNCHANGED <<writer, table, file>> /\ kills' \in 0 .. Kills
  BY <1>4 DEF WriterFits, FilesFit, RowHasFile, Stored
<1>5. CASE InsertCommit
  <2>1. writer.entry \in Entries /\ ~Stored(table, writer.entry) /\ file[writer.entry] = "whole"
    BY <1>5 DEF InsertCommit, WriterFits, Nowhere
  <2>2. \A x \in Entries : x # writer.entry => table'.row[x] = table.row[x]
    BY <1>5, <2>1, WithEntrySound DEF InsertCommit
  <2> QED
    BY <1>5, <2>1, <2>2 DEF InsertCommit, WriterFits, FilesFit, RowHasFile, Nowhere, Stored
<1>6. ASSUME NEW e \in Entries, NEW value \in BOOLEAN,
             NEW column \in {"stale", "scored", "satisfied"}, Stored(table, e),
             table' = [table EXCEPT !.row[e][column] = value], UNCHANGED <<writer, file, kills>>
      PROVE  WriterFits' /\ FilesFit'
  <2>1. \A x \in Entries : Stored(table', x) <=> Stored(table, x)
    BY <1>6, FlagSound
  <2> QED
    BY <1>6, <2>1 DEF WriterFits, FilesFit, RowHasFile
<1>7. kills \in 0 .. Kills /\ Kills \in Nat
  BY LedgerAssumption DEF FilesFit
<1>8. CASE InsertFails
  BY <1>3, <1>7, <1>8 DEF InsertFails
<1>9. CASE KillWriter
  BY <1>3, <1>7, <1>9 DEF KillWriter
<1>10. CASE KillRestorer
  BY <1>4, <1>7, <1>10 DEF KillRestorer
<1>11. CASE KillExport
  BY <1>4, <1>7, <1>11 DEF KillExport
<1>12. ASSUME NEW e \in Entries, MarkStale(e) \/ UpdateSurprise(e) \/ UpdateRelitigateStatus(e)
       PROVE  WriterFits' /\ FilesFit'
  BY <1>6, <1>12 DEF MarkStale, UpdateSurprise, UpdateRelitigateStatus, Changed
<1>13. CASE \/ Export \/ ExportLine \/ ExportEnd \/ Restore \/ RestoreCommit \/ RestoreStale
            \/ RestoreSurprise \/ UNCHANGED ledgerVars
  BY <1>4, <1>7, <1>13
     DEF Export, ExportLine, ExportEnd, Restore, RestoreCommit, RestoreStale, RestoreSurprise,
         ledgerVars
<1> QED
  BY <1>1, <1>2, <1>5, <1>8, <1>9, <1>10, <1>11, <1>12, <1>13 DEF LedgerNext

-----------------------------------------------------------------------------
LEMMA RowsOf ==
    ASSUME NEW d, Sound(d)
    PROVE  /\ RowsInOrder(d) \in Seq(Line)
           /\ Len(RowsInOrder(d)) = Len(d.order)
           /\ \A i \in 1 .. Len(d.order) :
                 RowsInOrder(d)[i] = [entry |-> d.order[i], stale |-> d.row[d.order[i]].stale,
                                      scored |-> d.row[d.order[i]].scored]
<1>1. d \in Database /\ d.order \in Seq(Entries) /\ DOMAIN d.order = 1 .. Len(d.order)
  BY DEF Sound, Database
<1>2. ASSUME NEW i \in 1 .. Len(d.order)
      PROVE  d.order[i] \in Entries /\ d.row[d.order[i]] \in Row
  <2>1. d.order[i] \in Entries
    BY <1>1
  <2>2. Stored(d, d.order[i])
    BY <1>1, <2>1 DEF Sound
  <2> QED
    BY <1>1, <2>1, <2>2, RowOrNone
<1>3. \A i \in 1 .. Len(d.order) :
         [entry |-> d.order[i], stale |-> d.row[d.order[i]].stale,
          scored |-> d.row[d.order[i]].scored] \in Line
  BY <1>2 DEF Row, Line
<1>4. Len(d.order) \in Nat
  BY <1>1
<1> QED
  BY <1>1, <1>3, <1>4 DEF RowsInOrder

LEMMA DumpNext ==
    ASSUME LedgerInv, [LedgerNext]_ledgerVars
    PROVE  Sound(asked') /\ DumpFits'
<1> DEFINE rows == RowsInOrder(asked)
<1>1. Sound(asked) /\ Sound(table) /\ DumpFits
  BY DEF LedgerInv
<1>2. rows \in Seq(Line) /\ Len(rows) \in Nat
  BY <1>1, RowsOf
<1>3. /\ dump \in [lines : Seq(Line), rest : Seq(Line),
                   state : {"none", "writing", "done", "failed"}]
      /\ dump.lines \in Seq(Line) /\ dump.rest \in Seq(Line) /\ Len(dump.lines) \in Nat
  BY <1>1 DEF DumpFits
<1>9. ASSUME dump' = [dump EXCEPT !.rest = <<>>, !.state = "failed"], asked' = asked
      PROVE  DumpFits'
  <2>1. /\ dump'.lines = dump.lines /\ dump'.rest = <<>> /\ dump'.state = "failed"
        /\ dump' \in [lines : Seq(Line), rest : Seq(Line),
                       state : {"none", "writing", "done", "failed"}]
    <3>1. <<>> \in Seq(Line)
      OBVIOUS
    <3> QED
      BY <1>3, <1>9, <3>1
  <2> QED
    BY <1>1, <1>9, <2>1 DEF DumpFits
<1>4. CASE Export
  <2>1. Sound(asked')
    BY <1>1, <1>4 DEF Export
  <2>2. dump' = [lines |-> <<>>, rest |-> RowsInOrder(asked'), state |-> "writing"]
    BY <1>4 DEF Export
  <2>3. RowsInOrder(asked') \in Seq(Line) /\ Len(RowsInOrder(asked')) \in Nat
    BY <2>1, RowsOf
  <2> QED
    BY <2>1, <2>2, <2>3 DEF DumpFits
<1>5. CASE ExportLine
  <2>1. dump.state = "writing" /\ dump.rest # <<>> /\ asked' = asked
    BY <1>5 DEF ExportLine
  <2> DEFINE n == Len(dump.lines)
  <2>2. /\ Len(dump.rest) = Len(rows) - n /\ n <= Len(rows)
        /\ \A i \in 1 .. Len(dump.rest) : dump.rest[i] = rows[n + i]
        /\ \A i \in 1 .. n : dump.lines[i] = rows[i]
    BY <1>1, <2>1 DEF DumpFits
  <2>3. CASE dump' = [dump EXCEPT !.lines = Append(@, Head(dump.rest)), !.rest = Tail(@)]
    <3>1. /\ dump'.lines = Append(dump.lines, Head(dump.rest)) /\ dump'.rest = Tail(dump.rest)
          /\ dump'.state = "writing"
          /\ dump' \in [lines : Seq(Line), rest : Seq(Line),
                         state : {"none", "writing", "done", "failed"}]
      <4>1. Append(dump.lines, Head(dump.rest)) \in Seq(Line) /\ Tail(dump.rest) \in Seq(Line)
        BY <1>3, <2>1
      <4> QED
        BY <1>3, <2>1, <2>3, <4>1
    <3>2. /\ Len(dump'.lines) = n + 1 /\ dump'.lines[n + 1] = dump.rest[1]
          /\ \A i \in 1 .. n : dump'.lines[i] = dump.lines[i]
      BY <1>3, <2>1, <3>1
    <3>3. /\ Len(dump'.rest) = Len(dump.rest) - 1 /\ Len(dump.rest) >= 1
          /\ \A i \in 1 .. Len(dump'.rest) : dump'.rest[i] = dump.rest[i + 1]
      BY <1>3, <2>1, <3>1
    <3> HIDE DEF rows, n
    <3>4. n \in Nat /\ Len(dump.rest) \in Nat
      BY <1>3 DEF n
    <3>5. n + 1 <= Len(rows) /\ Len(dump'.rest) = Len(rows) - (n + 1)
      BY <1>2, <2>2, <3>3, <3>4
    <3>6. \A i \in 1 .. n + 1 : dump'.lines[i] = rows[i]
      BY <2>2, <3>2, <3>3, <3>4
    <3>7. \A i \in 1 .. Len(dump'.rest) : dump'.rest[i] = rows[(n + 1) + i]
      BY <2>2, <3>3, <3>4
    <3>8. RowsInOrder(asked') = rows
      BY <2>1 DEF rows
    <3>9. DumpFits'
      BY <3>1, <3>2, <3>5, <3>6, <3>7, <3>8 DEF DumpFits
    <3> QED
      BY <1>1, <2>1, <3>9
  <2>4. CASE dump' = [dump EXCEPT !.rest = <<>>, !.state = "failed"]
    BY <1>1, <1>9, <2>1, <2>4
  <2> QED
    BY <1>5, <2>3, <2>4 DEF ExportLine
<1>6. CASE ExportEnd
  <2>1. /\ dump.state = "writing" /\ dump.rest = <<>> /\ asked' = asked
        /\ dump' = [dump EXCEPT !.state = "done"]
    BY <1>6 DEF ExportEnd
  <2>2. Len(dump.rest) = 0 /\ Len(dump.rest) = Len(rows) - Len(dump.lines)
    BY <1>1, <2>1 DEF DumpFits
  <2>3. Len(dump.lines) = Len(rows)
    BY <1>2, <1>3, <2>2
  <2> QED
    BY <1>1, <1>3, <2>1, <2>3 DEF DumpFits
<1>7. CASE KillExport
  BY <1>1, <1>7, <1>9 DEF KillExport
<1>8. CASE UNCHANGED <<dump, asked>>
  BY <1>1, <1>8 DEF DumpFits
<1> QED
  BY <1>4, <1>5, <1>6, <1>7, <1>8, TableSteps
     DEF LedgerNext, Insert, InsertFile, InsertCommit, InsertFails, MarkStale, UpdateSurprise,
         UpdateRelitigateStatus, Changed, Restore, RestoreCommit, RestoreStale, RestoreSurprise,
         KillWriter, KillRestorer, ledgerVars

\* The entries of a dump are all different.
LEMMA DumpInjective ==
    ASSUME LedgerInv
    PROVE  /\ dump.lines \in Seq(Line) /\ Len(dump.lines) \in Nat
           /\ \A i \in 1 .. Len(dump.lines) :
                 /\ dump.lines[i] \in Line /\ i \in 1 .. Len(asked.order)
                 /\ dump.lines[i].entry = asked.order[i]
                 /\ dump.lines[i].stale = asked.row[asked.order[i]].stale
                 /\ dump.lines[i].scored = asked.row[asked.order[i]].scored
           /\ \A i, j \in 1 .. Len(dump.lines) :
                 dump.lines[i].entry = dump.lines[j].entry => i = j
<1>1. Sound(asked) /\ DumpFits
  BY DEF LedgerInv
<1>2. dump.lines \in Seq(Line) /\ Len(dump.lines) \in Nat
  BY <1>1 DEF DumpFits
<1>3. /\ Len(RowsInOrder(asked)) = Len(asked.order) /\ Len(asked.order) \in Nat
      /\ DOMAIN asked.order = 1 .. Len(asked.order)
  BY <1>1, RowsOf DEF Sound, Database
<1>4. ASSUME NEW i \in 1 .. Len(dump.lines)
      PROVE  /\ dump.lines[i] \in Line /\ i \in 1 .. Len(asked.order)
             /\ dump.lines[i].entry = asked.order[i]
             /\ dump.lines[i].stale = asked.row[asked.order[i]].stale
             /\ dump.lines[i].scored = asked.row[asked.order[i]].scored
  <2>1. i \in 1 .. Len(asked.order) /\ dump.lines[i] = RowsInOrder(asked)[i]
    BY <1>1, <1>2, <1>3 DEF DumpFits
  <2>2. RowsInOrder(asked)[i]
           = [entry |-> asked.order[i], stale |-> asked.row[asked.order[i]].stale,
              scored |-> asked.row[asked.order[i]].scored]
    BY <1>1, <2>1, RowsOf
  <2> QED
    BY <1>2, <2>1, <2>2
<1>5. \A i, j \in 1 .. Len(dump.lines) : dump.lines[i].entry = dump.lines[j].entry => i = j
  BY <1>1, <1>3, <1>4 DEF Sound, IsInjective
<1> QED
  BY <1>2, <1>4, <1>5

LEMMA NextIsThere ==
    ASSUME NEW all \in Nat, NEW left \in Nat, left >= 1, NEW k \in Nat, k = all - left
    PROVE  k + 1 \in 1 .. all
OBVIOUS

\* Where restore is: k lines are in the copy, and the next is at hand.
LEMMA RestoreAt ==
    ASSUME LedgerInv, restorer.at \in {"commit", "stale", "surprise"}
    PROVE  LET k == Len(dump.lines) - Len(restorer.rest) IN
           /\ k \in Nat /\ k + 1 \in 1 .. Len(dump.lines) /\ Len(restorer.rest) \in Nat \ {0}
           /\ restorer.rest \in Seq(Line)
           /\ Restored = dump.lines[k + 1] /\ Restored \in Line
           /\ Restored.entry \in Entries
<1> DEFINE k == Len(dump.lines) - Len(restorer.rest)
<1>1. /\ restorer.rest \in Seq(Line) /\ restorer.rest # <<>> /\ k \in Nat
      /\ \A i \in 1 .. Len(restorer.rest) : restorer.rest[i] = dump.lines[k + i]
  BY DEF LedgerInv, RestoreFits
<1>2. Len(restorer.rest) \in Nat \ {0} /\ Restored = restorer.rest[1] /\ Restored \in Line
  BY <1>1 DEF Restored
<1>3. Len(dump.lines) \in Nat /\ k = Len(dump.lines) - Len(restorer.rest)
  BY DumpInjective
<1> HIDE DEF k
<1>4. 1 \in 1 .. Len(restorer.rest)
  BY <1>2
<1>5. Restored = dump.lines[k + 1]
  BY <1>1, <1>2, <1>4
<1>6. k + 1 \in 1 .. Len(dump.lines)
  <2>1. k \in Nat /\ Len(restorer.rest) \in Nat /\ Len(restorer.rest) >= 1
    BY <1>1, <1>2
  <2> QED
    BY <1>3, <2>1, NextIsThere
<1>7. Restored.entry \in Entries
  BY <1>2 DEF Line
<1> QED
  BY <1>1, <1>2, <1>5, <1>6, <1>7 DEF k

\* A step of the others leaves what restore relies on.
LEMMA OthersLeaveRestore ==
    ASSUME LedgerInv, UNCHANGED <<restorer, copy>>, dump' = dump \/ restorer.at = "idle"
    PROVE  RestoreFits'
BY DEF LedgerInv, RestoreFits

LEMMA RestoreNext ==
    ASSUME LedgerInv, [LedgerNext]_ledgerVars
    PROVE  Sound(copy') /\ RestoreFits'
<1> DEFINE k == Len(dump.lines) - Len(restorer.rest)
<1>1. Sound(copy) /\ RestoreFits
  BY DEF LedgerInv
<1>2. CASE UNCHANGED <<restorer, copy>> /\ (dump' = dump \/ restorer.at = "idle")
  BY <1>1, <1>2, OthersLeaveRestore
<1>3. CASE Restore
  <2>1. /\ restorer'.at \in {"done", "commit"} /\ restorer'.rest = dump.lines
        /\ restorer'.at = "done" <=> dump.lines = <<>>
        /\ restorer' \in [at : {"idle", "commit", "stale", "surprise", "done"},
                          rest : Seq(Line), whole : BOOLEAN]
        /\ restorer'.whole => dump.state = "done"
        /\ dump.state \in {"done", "failed"} /\ copy.order = <<>>
        /\ UNCHANGED <<dump, copy>>
    BY <1>3, DumpInjective DEF Restore
  <2>2. Len(dump'.lines) - Len(restorer'.rest) = 0 /\ Len(copy'.order) = 0
    BY <2>1, DumpInjective
  <2>3. RestoreFits'
    BY <2>1, <2>2 DEF RestoreFits
  <2> QED
    BY <1>1, <2>1, <2>3
<1> DEFINE lines == dump.lines
           e == Restored.entry
<1>10. /\ lines \in Seq(Line) /\ Len(lines) \in Nat
       /\ \A i, j \in 1 .. Len(lines) : lines[i].entry = lines[j].entry => i = j
       /\ \A i \in 1 .. Len(lines) : lines[i] \in Line /\ lines[i].entry \in Entries
  BY DumpInjective DEF Line
<1>11. ASSUME restorer.at \in {"commit", "stale", "surprise"}
       PROVE  /\ k \in Nat /\ k + 1 \in 1 .. Len(lines) /\ Len(restorer.rest) \in Nat \ {0}
              /\ k = Len(lines) - Len(restorer.rest)
              /\ restorer.rest \in Seq(Line) /\ e \in Entries /\ Restored \in Line
              /\ Restored = lines[k + 1] /\ e = lines[k + 1].entry
              /\ dump.state \in {"done", "failed"} /\ (restorer.whole => dump.state = "done")
              /\ \A i \in 1 .. Len(restorer.rest) : restorer.rest[i] = lines[k + i]
              /\ \A i \in 1 .. k :
                    /\ i \in 1 .. Len(lines) /\ lines[i].entry # e
                    /\ copy.row[lines[i].entry].stale = lines[i].stale
                    /\ copy.row[lines[i].entry].scored = lines[i].scored
              /\ copy.order \in Seq(Entries) /\ DOMAIN copy.order = 1 .. Len(copy.order)
  <2>1. /\ k \in Nat /\ k + 1 \in 1 .. Len(lines) /\ Len(restorer.rest) \in Nat \ {0}
        /\ restorer.rest \in Seq(Line) /\ e \in Entries /\ Restored \in Line
        /\ Restored = lines[k + 1] /\ e = lines[k + 1].entry
    BY <1>11, RestoreAt
  <2>2. /\ dump.state \in {"done", "failed"} /\ (restorer.whole => dump.state = "done")
        /\ \A i \in 1 .. Len(restorer.rest) : restorer.rest[i] = lines[k + i]
        /\ \A i \in 1 .. k :
              /\ copy.row[lines[i].entry].stale = lines[i].stale
              /\ copy.row[lines[i].entry].scored = lines[i].scored
    BY <1>1, <1>11 DEF RestoreFits
  <2>3. copy.order \in Seq(Entries) /\ DOMAIN copy.order = 1 .. Len(copy.order)
    BY <1>1 DEF Sound, Database
  <2>4. k = Len(lines) - Len(restorer.rest)
    OBVIOUS
  <2> HIDE DEF k, lines, e
  <2>5. \A i \in 1 .. k : i \in 1 .. Len(lines) /\ i # k + 1
    BY <1>10, <2>1
  <2>6. \A i \in 1 .. k : lines[i].entry # e
    BY <1>10, <2>1, <2>5
  <2> QED
    BY <2>1, <2>2, <2>3, <2>4, <2>5, <2>6
<1>4. CASE RestoreCommit
  <2>1. /\ restorer.at = "commit" /\ copy' = WithEntry(copy, e) /\ dump' = dump
        /\ restorer' = [restorer EXCEPT !.at = "stale"]
    BY <1>4 DEF RestoreCommit
  <2>2. restorer.at \in {"commit", "stale", "surprise"}
    BY <2>1
  <2>3. Len(copy.order) = k /\ \A i \in 1 .. k : copy.order[i] = lines[i].entry
    BY <1>1, <2>1 DEF RestoreFits
  <2>4. /\ restorer'.at = "stale" /\ restorer'.rest = restorer.rest
        /\ restorer'.whole = restorer.whole
        /\ restorer' \in [at : {"idle", "commit", "stale", "surprise", "done"},
                          rest : Seq(Line), whole : BOOLEAN]
    BY <1>1, <2>1 DEF RestoreFits
  <2> HIDE DEF k, lines, e
  <2>5. ~Stored(copy, e)
    <3>1. Stored(copy, e) <=> \E i \in DOMAIN copy.order : copy.order[i] = e
      BY <1>1, <1>11, <2>2 DEF Sound
    <3>2. DOMAIN copy.order = 1 .. k /\ \A i \in 1 .. k : lines[i].entry # e
      BY <1>11, <2>2, <2>3
    <3> QED
      BY <2>3, <3>1, <3>2
  <2>6. /\ Sound(copy') /\ copy'.order = Append(copy.order, e)
        /\ \A x \in Entries : x # e => copy'.row[x] = copy.row[x]
    BY <1>1, <1>11, <2>1, <2>2, <2>5, WithEntrySound
  <2>7. Len(copy'.order) = k + 1 /\ \A i \in 1 .. k + 1 : copy'.order[i] = lines[i].entry
    BY <1>11, <2>2, <2>3, <2>6
  <2>8. \A i \in 1 .. k :
           /\ copy'.row[lines[i].entry].stale = lines[i].stale
           /\ copy'.row[lines[i].entry].scored = lines[i].scored
    BY <1>10, <1>11, <2>2, <2>6, SMTT(30)
  <2>9. RestoreFits'
    BY <1>11, <2>1, <2>2, <2>4, <2>7, <2>8 DEF RestoreFits, k, lines
  <2> QED
    BY <2>6, <2>9
<1>5. CASE RestoreStale
  <2>1. /\ restorer.at = "stale" /\ dump' = dump
        /\ copy' = [copy EXCEPT !.row[e]["stale"] = Restored.stale]
        /\ restorer' = [restorer EXCEPT !.at = "surprise"]
    BY <1>5 DEF RestoreStale
  <2>2. restorer.at \in {"commit", "stale", "surprise"}
    BY <2>1
  <2>3. Len(copy.order) = k + 1 /\ \A i \in 1 .. k + 1 : copy.order[i] = lines[i].entry
    BY <1>1, <2>1 DEF RestoreFits
  <2>4. /\ restorer'.at = "surprise" /\ restorer'.rest = restorer.rest
        /\ restorer'.whole = restorer.whole
        /\ restorer' \in [at : {"idle", "commit", "stale", "surprise", "done"},
                          rest : Seq(Line), whole : BOOLEAN]
    BY <1>1, <2>1 DEF RestoreFits
  <2>5. Restored.stale \in BOOLEAN
    BY <1>11, <2>2 DEF Line
  <2> HIDE DEF k, lines, e
  <2>20. /\ k \in Nat /\ k + 1 \in 1 .. Len(lines) /\ k = Len(lines) - Len(restorer.rest)
         /\ restorer.rest \in Seq(Line) /\ Len(restorer.rest) \in Nat \ {0}
         /\ e \in Entries /\ e = lines[k + 1].entry
         /\ DOMAIN copy.order = 1 .. Len(copy.order)
    BY <1>11, <2>2
  <2>6. Stored(copy, e)
    <3>1. k + 1 \in 1 .. k + 1
      BY <2>20
    <3>2. k + 1 \in DOMAIN copy.order /\ copy.order[k + 1] = e
      BY <2>3, <2>20, <3>1
    <3> QED
      BY <1>1, <2>20, <3>2 DEF Sound
  <2>7. Sound(copy') /\ copy'.order = copy.order
    BY <1>1, <1>11, <2>1, <2>2, <2>5, <2>6, FlagSound
  <2>8. copy'.row[e].stale = Restored.stale
    <3>1. copy \in Database /\ copy.row[e] \in Row
      BY <1>1, <1>11, <2>2, <2>6, RowOrNone DEF Sound
    <3> QED
      BY <1>11, <2>1, <2>2, <3>1 DEF Database, Row
  <2>9. \A x \in Entries : x # e => copy'.row[x] = copy.row[x]
    BY <1>1, <1>11, <2>1, <2>2, <2>5, <2>6, FlagSound
  <2>10. \A i \in 1 .. k :
            /\ copy'.row[lines[i].entry].stale = lines[i].stale
            /\ copy'.row[lines[i].entry].scored = lines[i].scored
    BY <1>10, <1>11, <2>2, <2>9
  <2>11. copy'.row[lines[k + 1].entry].stale = lines[k + 1].stale
    BY <1>11, <2>2, <2>8
  <2>12. RestoreFits'
    <3>1. /\ dump'.lines = lines /\ dump'.state = dump.state
          /\ Len(dump'.lines) - Len(restorer'.rest) = k
      BY <2>1, <2>4, <2>20 DEF lines
    <3>2. /\ restorer.rest # <<>> /\ dump.state \in {"done", "failed"}
          /\ restorer.whole => dump.state = "done"
          /\ \A i \in 1 .. Len(restorer.rest) : restorer.rest[i] = lines[k + i]
      BY <1>1, <2>2 DEF RestoreFits, k, lines
    <3>3. /\ Len(copy'.order) = k + 1
          /\ \A i \in 1 .. k + 1 : copy'.order[i] = lines[i].entry
      BY <2>3, <2>7
    <3> QED
      BY <2>4, <2>10, <2>11, <2>20, <3>1, <3>2, <3>3 DEF RestoreFits
  <2> QED
    BY <2>7, <2>12
<1>6. CASE RestoreSurprise
  <2>1. /\ restorer.at = "surprise" /\ dump' = dump
        /\ copy' = [copy EXCEPT !.row[e]["scored"] = Restored.scored]
        /\ restorer' = [restorer EXCEPT
                          !.at = IF Len(restorer.rest) = 1 THEN "done" ELSE "commit",
                          !.rest = Tail(@)]
    BY <1>6 DEF RestoreSurprise
  <2>2. restorer.at \in {"commit", "stale", "surprise"}
    BY <2>1
  <2>3. /\ Len(copy.order) = k + 1 /\ \A i \in 1 .. k + 1 : copy.order[i] = lines[i].entry
        /\ copy.row[lines[k + 1].entry].stale = lines[k + 1].stale
    BY <1>1, <2>1 DEF RestoreFits
  <2>4. /\ restorer'.at = IF Len(restorer.rest) = 1 THEN "done" ELSE "commit"
        /\ restorer'.rest = Tail(restorer.rest) /\ restorer'.whole = restorer.whole
        /\ restorer' \in [at : {"idle", "commit", "stale", "surprise", "done"},
                          rest : Seq(Line), whole : BOOLEAN]
    <3>1. Tail(restorer.rest) \in Seq(Line)
      <4>1. restorer.rest \in Seq(Line) /\ Len(restorer.rest) \in Nat \ {0}
        BY <1>11, <2>2
      <4> QED
        BY <4>1
    <3>2. restorer \in [at : {"idle", "commit", "stale", "surprise", "done"},
                        rest : Seq(Line), whole : BOOLEAN]
      BY <1>1 DEF RestoreFits
    <3> QED
      BY <2>1, <3>1, <3>2
  <2>5. Restored.scored \in BOOLEAN
    BY <1>11, <2>2 DEF Line
  <2> HIDE DEF k, lines, e
  <2>20. /\ k \in Nat /\ k + 1 \in 1 .. Len(lines) /\ k = Len(lines) - Len(restorer.rest)
         /\ restorer.rest \in Seq(Line) /\ Len(restorer.rest) \in Nat \ {0}
         /\ e \in Entries /\ e = lines[k + 1].entry
         /\ DOMAIN copy.order = 1 .. Len(copy.order)
    BY <1>11, <2>2
  <2>6. Stored(copy, e)
    <3>1. k + 1 \in 1 .. k + 1
      BY <2>20
    <3>2. k + 1 \in DOMAIN copy.order /\ copy.order[k + 1] = e
      BY <2>3, <2>20, <3>1
    <3> QED
      BY <1>1, <2>20, <3>2 DEF Sound
  <2>7. Sound(copy') /\ copy'.order = copy.order
    BY <1>1, <1>11, <2>1, <2>2, <2>5, <2>6, FlagSound
  <2>8. copy'.row[e].scored = Restored.scored /\ copy'.row[e].stale = copy.row[e].stale
    <3>1. copy \in Database /\ copy.row[e] \in Row
      BY <1>1, <1>11, <2>2, <2>6, RowOrNone DEF Sound
    <3> QED
      BY <1>11, <2>1, <2>2, <3>1 DEF Database, Row
  <2>9. \A x \in Entries : x # e => copy'.row[x] = copy.row[x]
    BY <1>1, <1>11, <2>1, <2>2, <2>5, <2>6, FlagSound
  <2>10. \A i \in 1 .. k + 1 :
            /\ copy'.row[lines[i].entry].stale = lines[i].stale
            /\ copy'.row[lines[i].entry].scored = lines[i].scored
    <3>1. TAKE i \in 1 .. k + 1
    <3>2. CASE i = k + 1
      BY <1>11, <2>2, <2>3, <2>8, <3>2
    <3>3. CASE i # k + 1
      <4>1. i \in 1 .. k
        BY <1>11, <2>2, <3>3
      <4> QED
        BY <1>10, <1>11, <2>2, <2>9, <4>1
    <3> QED
      BY <3>2, <3>3
  <2>11. /\ Len(restorer'.rest) = Len(restorer.rest) - 1
         /\ \A i \in 1 .. Len(restorer'.rest) : restorer'.rest[i] = lines[(k + 1) + i]
    <3>1. /\ Len(restorer'.rest) = Len(restorer.rest) - 1
          /\ \A i \in 1 .. Len(restorer'.rest) :
                i + 1 \in 1 .. Len(restorer.rest) /\ restorer'.rest[i] = restorer.rest[i + 1]
      BY <1>11, <2>2, <2>4
    <3>2. \A i \in 1 .. Len(restorer'.rest) : k + (i + 1) = (k + 1) + i
      BY <1>11, <2>2
    <3> QED
      BY <1>11, <2>2, <3>1, <3>2
  <2>12. Len(dump'.lines) - Len(restorer'.rest) = k + 1
    <3>1. dump'.lines = lines /\ Len(lines) \in Nat
      BY <1>10, <2>1 DEF lines
    <3>2. Len(lines) - (Len(restorer.rest) - 1) = k + 1
      BY <2>20, <3>1
    <3> QED
      BY <2>11, <3>1, <3>2
  <2>13. /\ restorer'.at \in {"done", "commit"}
         /\ restorer'.at = "done" => restorer'.rest = <<>>
         /\ restorer'.at = "commit" => restorer'.rest # <<>>
    <3>1. restorer'.rest \in Seq(Line)
      BY <2>4, <2>20
    <3>2. restorer'.at = "done" => Len(restorer'.rest) = 0
      BY <2>4, <2>11
    <3>3. restorer'.at = "commit" => Len(restorer'.rest) # 0
      BY <2>4, <2>11, <2>20
    <3>4. \A rest \in Seq(Line) : Len(rest) = 0 <=> rest = <<>>
      OBVIOUS
    <3>5. restorer'.at \in {"done", "commit"}
      BY <2>4
    <3> QED
      BY <3>1, <3>2, <3>3, <3>4, <3>5
  <2>14. k + 1 \in Nat /\ dump'.lines = lines /\ dump'.state = dump.state
    BY <1>11, <2>1, <2>2 DEF lines
  <2>15. RestoreFits'
    <3>1. /\ dump'.state \in {"done", "failed"}
          /\ restorer'.whole => dump'.state = "done"
      BY <1>11, <2>2, <2>4, <2>14
    <3>2. /\ Len(copy'.order) = k + 1
          /\ \A i \in 1 .. k + 1 : copy'.order[i] = dump'.lines[i].entry
      BY <2>3, <2>7, <2>14
    <3>3. /\ restorer'.at \notin {"stale", "surprise"} /\ restorer'.at # "idle"
          /\ restorer'.at \in {"commit", "stale", "surprise"} => restorer'.rest # <<>>
          /\ restorer'.at = "done" => restorer'.rest = <<>>
      BY <2>13
    <3>4. /\ \A i \in 1 .. Len(restorer'.rest) : restorer'.rest[i] = dump'.lines[(k + 1) + i]
          /\ \A i \in 1 .. k + 1 :
                /\ copy'.row[dump'.lines[i].entry].stale = dump'.lines[i].stale
                /\ copy'.row[dump'.lines[i].entry].scored = dump'.lines[i].scored
      BY <2>10, <2>11, <2>14
    <3>5. restorer' \in [at : {"idle", "commit", "stale", "surprise", "done"},
                         rest : Seq(Line), whole : BOOLEAN]
      BY <2>4
    <3> QED
      BY <2>12, <2>14, <3>1, <3>2, <3>3, <3>4, <3>5 DEF RestoreFits
  <2> QED
    BY <2>7, <2>15
<1>7. CASE KillRestorer
  <2>1. RestoreFits'
    BY <1>7 DEF KillRestorer, RestoreFits, NoRestore
  <2> QED
    BY <1>1, <1>7, <2>1 DEF KillRestorer
<1>8. restorer.at # "idle" => dump.state \in {"done", "failed"}
  BY <1>1 DEF RestoreFits
<1>9. CASE Export \/ ExportLine \/ ExportEnd \/ KillExport
  BY <1>2, <1>8, <1>9 DEF Export, ExportLine, ExportEnd, KillExport
<1> QED
  BY <1>2, <1>3, <1>4, <1>5, <1>6, <1>7, <1>9
     DEF LedgerNext, Insert, InsertFile, InsertCommit, InsertFails, MarkStale, UpdateSurprise,
         UpdateRelitigateStatus, Changed, KillWriter, ledgerVars

LEMMA LedgerStep == LedgerInv /\ [LedgerNext]_ledgerVars => LedgerInv'
BY RowsKeep, WriterNext, DumpNext, RestoreNext DEF LedgerInv

\* A whole dump that was restored to its end: the copy has the rows of the
\* database it was begun on, in their order.
LEMMA RoundTripFollows == LedgerInv => RestoreRoundTrips
<1> SUFFICES ASSUME LedgerInv, restorer.at = "done", restorer.whole
             PROVE  RoundTrip(copy) = RoundTrip(asked) /\ copy.cites = asked.cites
  BY DEF RestoreRoundTrips
<1>1. Sound(copy) /\ Sound(asked) /\ DumpFits /\ RestoreFits
  BY DEF LedgerInv
<1> DEFINE n == Len(dump.lines)
<1>2. /\ copy.order \in Seq(Entries) /\ asked.order \in Seq(Entries)
      /\ DOMAIN asked.order = 1 .. Len(asked.order) /\ DOMAIN copy.order = 1 .. Len(copy.order)
  BY <1>1 DEF Sound, Database
<1>3. n \in Nat /\ n = Len(asked.order)
  BY <1>1, DumpInjective, RowsOf DEF DumpFits, RestoreFits
<1>4. restorer.rest = <<>> /\ Len(restorer.rest) = 0
  BY <1>1 DEF RestoreFits
<1>5. n - 0 = n
  BY <1>3
<1>6. /\ Len(copy.order) = n
      /\ \A i \in 1 .. n :
            /\ copy.order[i] = dump.lines[i].entry
            /\ copy.row[dump.lines[i].entry].stale = dump.lines[i].stale
            /\ copy.row[dump.lines[i].entry].scored = dump.lines[i].scored
  BY <1>1, <1>4, <1>5 DEF RestoreFits
<1>7. \A i \in 1 .. n :
         /\ dump.lines[i].entry = asked.order[i]
         /\ dump.lines[i].stale = asked.row[asked.order[i]].stale
         /\ dump.lines[i].scored = asked.row[asked.order[i]].scored
  BY DumpInjective
<1> HIDE DEF n
<1>12. \A i \in 1 .. n :
         /\ asked.order[i] = copy.order[i]
         /\ copy.row[copy.order[i]].stale = asked.row[copy.order[i]].stale
         /\ copy.row[copy.order[i]].scored = asked.row[copy.order[i]].scored
  BY <1>6, <1>7
<1>8. copy.order = asked.order
  BY <1>2, <1>3, <1>6, <1>12
<1>9. ASSUME NEW e \in Entries
      PROVE  /\ Stored(copy, e) <=> Stored(asked, e)
             /\ Stored(copy, e) =>
                   /\ copy.row[e].stale = asked.row[e].stale
                   /\ copy.row[e].scored = asked.row[e].scored
  <2>1. /\ Stored(copy, e) <=> \E i \in 1 .. n : copy.order[i] = e
        /\ Stored(asked, e) <=> \E i \in 1 .. n : asked.order[i] = e
    BY <1>1, <1>2, <1>3, <1>6 DEF Sound
  <2> QED
    BY <1>12, <2>1
<1>10. RoundTrip(copy) = RoundTrip(asked)
  BY <1>9 DEF RoundTrip
<1>11. copy.cites = asked.cites
  BY <1>1, <1>8 DEF Sound
<1> QED
  BY <1>10, <1>11

LEMMA LedgerInvariant == LedgerSpec => []LedgerInv
BY LedgerStarts, LedgerStep, PTL DEF LedgerSpec

\* The files, the databases, the dump and the restorer keep their types.
THEOREM LedgerTypeCorrect == LedgerSpec => []LedgerTypeOK
<1>1. LedgerInv => LedgerTypeOK
  BY DEF LedgerInv, LedgerTypeOK, Sound, WriterFits, FilesFit, DumpFits, RestoreFits
<1> QED
  BY <1>1, LedgerInvariant, PTL

\* The file of every row is whole wherever a writer was killed, and a finished
\* dump gives back the ledger as it was when the dump was begun, whatever was
\* inserted and marked while its lines were read.
THEOREM EntriesAreKept == LedgerSpec => []EntriesKept
<1>1. LedgerInv => EntriesKept
  BY RoundTripFollows DEF LedgerInv, FilesFit, EntriesKept
<1> QED
  BY <1>1, LedgerInvariant, PTL

\* No step takes a row away, or its stale or its scored flag.
THEOREM RowsAreNotForgotten == LedgerSpec => RowsKeepState
<1>1. LedgerInv /\ [LedgerNext]_ledgerVars =>
         [\A e \in Entries :
            /\ Stored(table, e) => Stored(table', e)
            /\ (Stored(table, e) /\ table.row[e].stale) => table'.row[e].stale
            /\ (Stored(table, e) /\ table.row[e].scored) => table'.row[e].scored]_ledgerVars
  BY RowsKeep
<1> QED
  BY <1>1, LedgerInvariant, PTL DEF LedgerSpec, RowsKeepState
-----------------------------------------------------------------------------
(***************************************************************************)
(* The surrogate's checkpoint and the copy that a rollback restores.       *)
(***************************************************************************)
\* A save writes the last model there is, whose parent is the file that it
\* replaces, and writes it only when the copy is that file.
SaveFits ==
    /\ saving = NotSaving \/ saving.at \in {"copy", "write", "done"}
    /\ saving.at \in {"copy", "write", "done"} => saving.model = Latest /\ Latest # 0
    /\ saving.at \in {"copy", "write"} => parent[Latest] = current
    /\ saving.at = "copy" => current # NoFile
    /\ saving.at = "write" => rollback = current
    /\ saving.at = "done" => current = Latest /\ rollback = parent[Latest]

FilesAreModels ==
    /\ Latest \in 0 .. Models
    /\ {current, rollback} \subseteq 0 .. Latest
    /\ current = NoFile => rollback = NoFile
    /\ rollback # NoFile => rollback \in {current, parent[current]}

SurrogateInv == SurrogateTypeOK /\ FilesAreModels /\ SaveFits

LEMMA SurrogateStarts == SurrogateInit => SurrogateInv
<1> SUFFICES ASSUME SurrogateInit PROVE SurrogateInv
  OBVIOUS
<1> USE SurrogateAssumption
<1>1. Latest = 0 /\ parent \in Seq(0 .. Models)
  BY DEF SurrogateInit, Latest
<1>2. saving \in [at : {"idle", "copy", "write", "done"}, model : 0 .. Models]
  BY DEF SurrogateInit, NotSaving
<1>3. trained.examples \in Seq([x : Features, y : Targets]) /\ trained.k \in 0 .. MaxK
  BY DEF SurrogateInit, Untrained
<1>4. {current, rollback} \subseteq 0 .. Latest
  BY <1>1 DEF SurrogateInit, NoFile
<1>5. SurrogateTypeOK
  BY <1>1, <1>2, <1>3, <1>4 DEF SurrogateTypeOK
<1>6. FilesAreModels
  BY <1>1, <1>4 DEF FilesAreModels, SurrogateInit
<1>7. SaveFits
  BY DEF SaveFits, SurrogateInit, NotSaving
<1> QED
  BY <1>5, <1>6, <1>7 DEF SurrogateInv

LEMMA TrainKeepsFiles == SurrogateInv /\ Train => SurrogateInv'
<1> SUFFICES ASSUME SurrogateInv, Train PROVE SurrogateInv'
  OBVIOUS
<1> USE SurrogateAssumption DEF SurrogateInv
<1>1. PICK n \in 1 .. MaxExamples, k \in 1 .. MaxK :
    \E examples \in [1 .. n -> [x : Features, y : Targets]] :
      trained' = [examples |-> examples, k |-> IF k < n THEN k ELSE n]
  BY DEF Train
<1>2. PICK examples \in [1 .. n -> [x : Features, y : Targets]] :
    trained' = [examples |-> examples, k |-> IF k < n THEN k ELSE n]
  BY <1>1
<1>3. trained'.examples \in Seq([x : Features, y : Targets])
  <2>1. n \in Nat /\ trained'.examples = examples
    BY <1>2
  <2> QED
    BY <2>1, FunctionIsSeq
<1>4. trained'.k \in 0 .. MaxK
  BY <1>2
<1>5. SurrogateTypeOK'
  BY <1>3, <1>4 DEF Train, SurrogateTypeOK, Latest
<1>6. FilesAreModels' /\ SaveFits'
  BY DEF Train, FilesAreModels, SaveFits, Latest
<1> QED
  BY <1>5, <1>6

LEMMA BeginSaveKeepsFiles == SurrogateInv /\ BeginSave => SurrogateInv'
<1> SUFFICES ASSUME SurrogateInv, BeginSave PROVE SurrogateInv'
  OBVIOUS
<1> USE SurrogateAssumption
<1>1. /\ parent \in Seq(0 .. Models) /\ Latest \in 0 .. Models
    /\ current \in 0 .. Latest /\ rollback \in 0 .. Latest /\ Latest < Models
    /\ Models \in Nat
  BY DEF SurrogateInv, SurrogateTypeOK, FilesAreModels, BeginSave
<1>2. /\ parent' \in Seq(0 .. Models) /\ Latest' = Latest + 1
    /\ parent'[Latest + 1] = current
    /\ \A m \in 1 .. Latest : parent'[m] = parent[m]
  BY <1>1 DEF BeginSave, Latest
<1>3. saving' = [at |-> IF current = NoFile THEN "write" ELSE "copy", model |-> Latest + 1]
    /\ UNCHANGED <<current, rollback, trained>>
  BY DEF BeginSave
<1>4. SurrogateTypeOK'
  BY <1>1, <1>2, <1>3 DEF SurrogateInv, SurrogateTypeOK
<1>5. FilesAreModels'
  BY <1>1, <1>2, <1>3 DEF SurrogateInv, FilesAreModels, NoFile
<1>6. SaveFits'
  BY <1>1, <1>2, <1>3 DEF SurrogateInv, FilesAreModels, SaveFits, NoFile
<1> QED
  BY <1>4, <1>5, <1>6 DEF SurrogateInv

LEMMA CopyKeepsFiles == SurrogateInv /\ CopyRollback => SurrogateInv'
<1> SUFFICES ASSUME SurrogateInv, CopyRollback PROVE SurrogateInv'
  OBVIOUS
<1>1. SurrogateTypeOK'
  BY DEF SurrogateInv, SurrogateTypeOK, CopyRollback, Latest
<1>2. FilesAreModels' /\ SaveFits'
  BY DEF SurrogateInv, SurrogateTypeOK, FilesAreModels, SaveFits, CopyRollback, Latest, NotSaving
<1> QED
  BY <1>1, <1>2 DEF SurrogateInv

LEMMA WriteModelKeepsFiles == SurrogateInv /\ WriteModel => SurrogateInv'
<1> SUFFICES ASSUME SurrogateInv, WriteModel PROVE SurrogateInv'
  OBVIOUS
<1>1. /\ saving.at = "write" /\ saving.model = Latest /\ Latest \in 1 .. Models
    /\ parent[Latest] = current /\ rollback = current
    /\ current' = Latest /\ UNCHANGED <<rollback, parent, trained>> /\ Latest' = Latest
    /\ saving' = [saving EXCEPT !.at = "done"]
    /\ saving \in [at : {"idle", "copy", "write", "done"}, model : 0 .. Models]
  BY SurrogateAssumption
     DEF SurrogateInv, SurrogateTypeOK, FilesAreModels, SaveFits, WriteModel, NotSaving, Latest
<1>2. SurrogateTypeOK'
  BY <1>1, SurrogateAssumption, SMTT(30) DEF SurrogateInv, SurrogateTypeOK
<1>3. FilesAreModels' /\ SaveFits'
  BY <1>1, SurrogateAssumption DEF SurrogateInv, FilesAreModels, SaveFits, NoFile
<1> QED
  BY <1>2, <1>3 DEF SurrogateInv

\* The end of a save, whether it returns or the process is killed in it.
LEMMA SaveEndKeepsFiles ==
  ASSUME SurrogateInv, saving' = NotSaving, trained' = Untrained,
       UNCHANGED <<current, rollback, parent>>
  PROVE  SurrogateInv'
<1>1. trained'.examples \in Seq([x : Features, y : Targets]) /\ trained'.k \in 0 .. MaxK
  BY SurrogateAssumption DEF Untrained
<1>2. SurrogateTypeOK'
  BY <1>1, SurrogateAssumption DEF SurrogateInv, SurrogateTypeOK, NotSaving, Latest
<1>3. FilesAreModels' /\ SaveFits'
  BY DEF SurrogateInv, FilesAreModels, SaveFits, NotSaving, Latest
<1> QED
  BY <1>2, <1>3 DEF SurrogateInv

LEMMA RollBackKeepsFiles == SurrogateInv /\ RollBack => SurrogateInv'
<1> SUFFICES ASSUME SurrogateInv, RollBack PROVE SurrogateInv'
  OBVIOUS
<1>1. SurrogateTypeOK'
  BY DEF SurrogateInv, SurrogateTypeOK, RollBack, Latest
<1>2. FilesAreModels' /\ SaveFits'
  BY DEF SurrogateInv, FilesAreModels, SaveFits, RollBack, NotSaving, Latest
<1> QED
  BY <1>1, <1>2 DEF SurrogateInv

LEMMA SurrogateStutters == SurrogateInv /\ UNCHANGED surrogateVars => SurrogateInv'
BY DEF SurrogateInv, SurrogateTypeOK, FilesAreModels, SaveFits, Latest, surrogateVars

LEMMA SurrogateKeepsInv == SurrogateInv /\ [SurrogateNext]_surrogateVars => SurrogateInv'
<1> SUFFICES ASSUME SurrogateInv, [SurrogateNext]_surrogateVars PROVE SurrogateInv'
  OBVIOUS
<1>1. CASE Train
  BY <1>1, TrainKeepsFiles
<1>2. CASE BeginSave
  BY <1>2, BeginSaveKeepsFiles
<1>3. CASE CopyRollback
  BY <1>3, CopyKeepsFiles
<1>4. CASE WriteModel
  BY <1>4, WriteModelKeepsFiles
<1>5. CASE SaveReturns \/ KillSave
  BY <1>5, SaveEndKeepsFiles DEF SaveReturns, KillSave
<1>6. CASE RollBack
  BY <1>6, RollBackKeepsFiles
<1>7. CASE UNCHANGED surrogateVars
  BY <1>7, SurrogateStutters
<1> QED
  BY <1>1, <1>2, <1>3, <1>4, <1>5, <1>6, <1>7 DEF SurrogateNext

\* The two files of a surrogate always hold models, never a number beyond the
\* last one saved, and the model in memory is one that was trained.
THEOREM SurrogateTypeCorrect == SurrogateSpec => []SurrogateTypeOK
<1>1. SurrogateInv => SurrogateTypeOK
  BY DEF SurrogateInv
<1> QED
  BY <1>1, SurrogateStarts, SurrogateKeepsInv, PTL DEF SurrogateSpec

\* However saves, rollbacks and kills follow one another, the copy that a
\* rollback restores is the checkpoint or its parent, and the parent when a
\* save ran to its end.
THEOREM RollbackReachesTheParent == SurrogateSpec => []RollbackIsParent
<1>1. SurrogateInv => RollbackIsParent
  BY DEF SurrogateInv, FilesAreModels, SaveFits, RollbackIsParent
<1> QED
  BY <1>1, SurrogateStarts, SurrogateKeepsInv, PTL DEF SurrogateSpec

\* A product of positive numbers is positive.
ProductSteps(h, f, S) ==
    [s \in SUBSET S |-> IF s = {} THEN 1 ELSE f[Taken(s)] * h[s \ {Taken(s)}]]
Products(f, S) == CHOOSE h : h = ProductSteps(h, f, S)

LEMMA ProductIsLast == \A f : Product(f) = Products(f, DOMAIN f)[DOMAIN f]
BY Zenon
   DEF Product, FoldFunction, FoldFunctionOnSet, MapThenFoldSet, Products, ProductSteps, Taken

LEMMA ProductPositive ==
  ASSUME NEW S, IsFiniteSet(S), NEW f \in [S -> Positive]
  PROVE  Product(f) \in Positive
<1> DEFINE g == [p \in S \X Positive |-> f[p[1]] * p[2]]
<1>0. \A m, n \in Positive : m * n \in Positive
  BY DEF Positive
<1>1. g \in [S \X Positive -> Positive]
  BY <1>0
<1>2. \A i \in S, n \in Positive : g[<<i, n>>] = f[i] * n
  OBVIOUS
<1>3. \A s \in SUBSET S : s # {} => Taken(s) \in s /\ Taken(s) \in S /\ s \ {Taken(s)} \in SUBSET S
  BY TakenIsMember
<1> HIDE DEF g
<1>4. PICK h \in [SUBSET S -> Positive] : IsFold(h, S, 1, g)
  <2>1. 1 \in Positive
    BY DEF Positive
  <2> QED
    BY <1>1, <2>1, FoldExists
<1>5. h = ProductSteps(h, f, S)
  BY <1>2, <1>3, <1>4 DEF ProductSteps, IsFold
<1>6. Products(f, S) = ProductSteps(Products(f, S), f, S)
  BY <1>5, Zenon DEF Products
<1> DEFINE H == Products(f, S)
<1> HIDE DEF H
<1>7. H[{}] = 1 /\ \A s \in SUBSET S : s # {} => H[s] = f[Taken(s)] * H[s \ {Taken(s)}]
  <2>1. H = ProductSteps(H, f, S)
    BY <1>6 DEF H
  <2> QED
    BY <2>1 DEF ProductSteps
<1>8. \A s \in SUBSET S : H[s] \in Positive
  <2> DEFINE Wrong == {s \in SUBSET S : H[s] \notin Positive}
  <2> SUFFICES ASSUME Wrong # {} PROVE FALSE
    OBVIOUS
  <2>1. PICK s \in Wrong : \A x \in s : s \ {x} \notin Wrong
    BY SmallestSubset
  <2>2. s \in SUBSET S /\ H[s] \notin Positive
    BY <2>1
  <2>3. s # {}
    <3>1. H[{}] \in Positive
      BY <1>7 DEF Positive
    <3> QED
      BY <2>2, <3>1, Zenon
  <2>4. PICK x \in s : x \in S /\ H[s] = f[x] * H[s \ {x}] /\ s \ {x} \in SUBSET S
    BY <1>3, <1>7, <2>2, <2>3
  <2>5. H[s \ {x}] \in Positive /\ f[x] \in Positive
    BY <2>1, <2>4
  <2> QED
    BY <1>0, <2>2, <2>4, <2>5
<1>9. Product(f) = H[S]
  BY ProductIsLast DEF H
<1> QED
  BY <1>8, <1>9

(***************************************************************************)
(* The prediction.  Examples may have any targets: the property moves them.*)
(***************************************************************************)
Example == [x : Nat, y : Nat]
Away(x, examples, i) == Distance(x, examples[i].x)

LEMMA AwayType ==
  ASSUME NEW x \in Nat, NEW examples \in Seq(Example), NEW i \in DOMAIN examples
  PROVE  /\ Away(x, examples, i) \in Nat
         /\ Away(x, examples, i) = 0 <=> examples[i].x = x
         /\ examples[i].y \in Nat
<1>1. examples[i] \in Example
  OBVIOUS
<1>2. examples[i].x \in Nat /\ examples[i].y \in Nat
  BY <1>1 DEF Example
<1> QED
  BY <1>2 DEF Away, Distance

LEMMA NearestAre ==
  ASSUME NEW x \in Nat, NEW examples \in Seq(Example), NEW C \in SUBSET DOMAIN examples,
         NEW k \in 0 .. Cardinality(C),
         NEW N, N = NearestIndices(x, examples, C, k)
  PROVE  /\ N \subseteq C /\ Cardinality(N) = k
         /\ \A i \in N, j \in C \ N : Away(x, examples, i) <= Away(x, examples, j)
<1> DEFINE d(i) == Away(x, examples, i)
           R == {p \in C \X C : d(p[1]) < d(p[2]) \/ (d(p[1]) = d(p[2]) /\ p[1] < p[2])}
<1>1. /\ \A i \in C : d(i) \in Nat /\ i \in Nat
      /\ IsFiniteSet(C)
  <2>1. DOMAIN examples = 1 .. Len(examples) /\ Len(examples) \in Nat
    OBVIOUS
  <2>2. \A i \in C : d(i) \in Nat
    BY AwayType
  <2>3. IsFiniteSet(DOMAIN examples)
    BY <2>1, FS_Interval
  <2>4. IsFiniteSet(C)
    BY <2>3, FS_Subset
  <2>5. \A i \in C : i \in Nat
    BY <2>1
  <2> QED
    BY <2>2, <2>4, <2>5
<1> HIDE DEF d
<1>2. StrictlyOrders(R, C)
  BY <1>1 DEF StrictlyOrders
<1>3. N = FirstIn(R, C, k)
  <2>1. \A i \in C : Lower(R, C, i) = {j \in C : d(j) < d(i) \/ (d(j) = d(i) /\ j < i)}
    BY DEF Lower
  <2> QED
    BY <2>1 DEF NearestIndices, d, Away, FirstIn
<1>4. /\ Cardinality(N) = k
      /\ \A i \in N, j \in C \ N : <<i, j>> \in R
  <2> HIDE DEF R
  <2> QED
    BY <1>1, <1>2, <1>3, FirstOnes
<1>5. ASSUME NEW i \in N, NEW j \in C \ N
      PROVE  d(i) <= d(j)
  <2>1. N \subseteq C
    BY <1>3 DEF FirstIn
  <2>2. <<i, j>> \in R
    BY <1>4
  <2>3. d(i) \in Nat /\ d(j) \in Nat
    BY <1>1, <2>1
  <2> QED
    BY <2>2, <2>3
<1> QED
  BY <1>3, <1>4, <1>5 DEF d, FirstIn

\* The weights, and what they make of the targets.
ExactMatches(x, examples, N) == {i \in N : Distance(x, examples[i].x) = 0}
Weights(x, examples, N) ==
    IF ExactMatches(x, examples, N) # {} THEN [i \in ExactMatches(x, examples, N) |-> 1]
    ELSE [i \in N |-> Product([j \in N \ {i} |-> Distance(x, examples[j].x)])]
Weighted(w, examples) ==
    [num |-> SumFunction([i \in DOMAIN w |-> w[i] * examples[i].y]), den |-> SumFunction(w)]

LEMMA PredictionIsWeighted ==
  \A x, examples, N : WeightedPrediction(x, examples, N) = Weighted(Weights(x, examples, N), examples)
BY DEF WeightedPrediction, Weighted, Weights, ExactMatches

LEMMA WeightsArePositive ==
  ASSUME NEW x \in Nat, NEW examples \in Seq(Example), NEW N \in SUBSET DOMAIN examples,
         IsFiniteSet(N), N # {}
  PROVE  \E S \in SUBSET N : /\ S # {} /\ IsFiniteSet(S)
                             /\ Weights(x, examples, N) \in [S -> Positive]
                             /\ ExactMatches(x, examples, N) # {} => S = ExactMatches(x, examples, N)
<1> DEFINE E == ExactMatches(x, examples, N)
<1>1. CASE E # {}
  <2>1. E \in SUBSET N /\ IsFiniteSet(E)
    BY FS_Subset DEF ExactMatches
  <2>2. Weights(x, examples, N) = [i \in E |-> 1]
    BY <1>1 DEF Weights
  <2>3. Weights(x, examples, N) \in [E -> Positive]
    BY <2>2 DEF Positive
  <2> QED
    BY <1>1, <2>1, <2>3
<1>2. CASE E = {}
  <2>1. ASSUME NEW i \in N
        PROVE  Product([j \in N \ {i} |-> Distance(x, examples[j].x)]) \in Positive
    <3>1. \A j \in N : Distance(x, examples[j].x) \in Positive
      BY <1>2, AwayType DEF ExactMatches, Away, Positive
    <3>2. IsFiniteSet(N \ {i})
      BY FS_Subset
    <3>3. [j \in N \ {i} |-> Distance(x, examples[j].x)] \in [N \ {i} -> Positive]
      BY <3>1
    <3> QED
      BY <3>2, <3>3, ProductPositive
  <2>2. Weights(x, examples, N)
            = [i \in N |-> Product([j \in N \ {i} |-> Distance(x, examples[j].x)])]
    BY <1>2 DEF Weights
  <2>3. Weights(x, examples, N) \in [N -> Positive]
    BY <2>1, <2>2
  <2> QED
    BY <1>2, <2>3
<1> QED
  BY <1>1, <1>2

\* A weighted mean lies between the bounds of its targets.
LEMMA WeightedLiesBetween ==
  ASSUME NEW examples \in Seq(Example), NEW S \in SUBSET DOMAIN examples, S # {}, IsFiniteSet(S),
         NEW w \in [S -> Positive], NEW lo \in Nat, NEW hi \in Nat,
         \A i \in S : lo <= examples[i].y /\ examples[i].y <= hi
  PROVE  /\ Weighted(w, examples).den > 0 /\ Weighted(w, examples).den \in Nat
         /\ Weighted(w, examples).num \in Nat
         /\ Weighted(w, examples).den * lo <= Weighted(w, examples).num
         /\ Weighted(w, examples).num <= Weighted(w, examples).den * hi
<1> DEFINE f == [i \in S |-> w[i] * examples[i].y]
           low == Scaled(w, lo)
           high == Scaled(w, hi)
<1>1. \A i \in S : w[i] \in Nat /\ w[i] > 0 /\ examples[i].y \in Nat
  <2>1. \A i \in S : examples[i] \in Example
    OBVIOUS
  <2>2. \A i \in S : w[i] \in Positive
    OBVIOUS
  <2> QED
    BY <2>1, <2>2 DEF Positive, Example
<1>2. \A i \in S : /\ w[i] * examples[i].y \in Nat /\ w[i] * lo \in Nat /\ w[i] * hi \in Nat
                   /\ w[i] * lo <= w[i] * examples[i].y
                   /\ w[i] * examples[i].y <= w[i] * hi
  <2> SUFFICES ASSUME NEW i \in S
               PROVE  /\ w[i] * examples[i].y \in Nat /\ w[i] * lo \in Nat /\ w[i] * hi \in Nat
                      /\ w[i] * lo <= w[i] * examples[i].y
                      /\ w[i] * examples[i].y <= w[i] * hi
    OBVIOUS
  <2>1. \A a, b, c \in Nat : b <= c => a * b \in Nat /\ a * c \in Nat /\ a * b <= a * c
    OBVIOUS
  <2> QED
    BY <1>1, <2>1
<1>3. /\ w \in [S -> Nat] /\ f \in [S -> Nat] /\ low \in [S -> Nat] /\ high \in [S -> Nat]
      /\ \A i \in S : low[i] <= f[i] /\ f[i] <= high[i]
  BY <1>1, <1>2 DEF Scaled
<1>4. Weighted(w, examples).num = SumFunction(f) /\ Weighted(w, examples).den = SumFunction(w)
  BY DEF Weighted
<1>5. SumFunction(low) <= SumFunction(f) /\ SumFunction(f) <= SumFunction(high)
  BY <1>3, SumGrows
<1>6. SumFunction(low) = SumFunction(w) * lo /\ SumFunction(high) = SumFunction(w) * hi
  BY <1>3, SumScales
<1> HIDE DEF f, low, high
<1>7. SumFunction(w) > 0
  BY <1>1, <1>3, SumPositive
<1>8. SumFunction(w) \in Nat /\ SumFunction(f) \in Nat
  BY <1>3, SumType
<1> QED
  BY <1>4, <1>5, <1>6, <1>7, <1>8

\* Examples with other targets have the same neighbours and weights.
SamePlaces(e, f) == DOMAIN e = DOMAIN f /\ \A i \in DOMAIN e : e[i].x = f[i].x

LEMMA PlacesDecide ==
  ASSUME NEW e, NEW f, SamePlaces(e, f), NEW x, NEW k, NEW C \in SUBSET DOMAIN e
  PROVE  /\ NearestIndices(x, f, C, k) = NearestIndices(x, e, C, k)
         /\ Weights(x, f, C) = Weights(x, e, C)
<1>1. \A i \in C : Distance(x, f[i].x) = Distance(x, e[i].x)
  BY DEF SamePlaces
<1>2. NearestIndices(x, f, C, k) = NearestIndices(x, e, C, k)
  <2>1. \A i \in C :
            {j \in C : \/ Distance(x, f[j].x) < Distance(x, f[i].x)
                       \/ Distance(x, f[j].x) = Distance(x, f[i].x) /\ j < i} =
            {j \in C : \/ Distance(x, e[j].x) < Distance(x, e[i].x)
                       \/ Distance(x, e[j].x) = Distance(x, e[i].x) /\ j < i}
    BY <1>1
  <2> QED
    BY <2>1 DEF NearestIndices
<1>3. ExactMatches(x, f, C) = ExactMatches(x, e, C)
  BY <1>1 DEF ExactMatches
<1>4. \A i \in C : [j \in C \ {i} |-> Distance(x, f[j].x)] = [j \in C \ {i} |-> Distance(x, e[j].x)]
  BY <1>1
<1>5. Weights(x, f, C) = Weights(x, e, C)
  BY <1>3, <1>4 DEF Weights
<1> QED
  BY <1>2, <1>5

\* One more in every target is one more in the mean.
LEMMA WeightedShifts ==
  ASSUME NEW e \in Seq(Example), NEW f \in Seq(Example), NEW S \in SUBSET DOMAIN e, IsFiniteSet(S),
         NEW w \in [S -> Positive],
         \A i \in S : f[i].y = e[i].y + 1
  PROVE  /\ Weighted(w, f).num = Weighted(w, e).num + Weighted(w, e).den
         /\ Weighted(w, f).den = Weighted(w, e).den
<1> DEFINE a == [i \in S |-> w[i] * e[i].y]
           b == [i \in S |-> w[i] * f[i].y]
<1>1. \A i \in S : w[i] \in Nat /\ e[i].y \in Nat
  <2>1. \A i \in S : e[i] \in Example /\ w[i] \in Positive
    OBVIOUS
  <2> QED
    BY <2>1 DEF Positive, Example
<1>2. \A i \in S : /\ w[i] * e[i].y \in Nat /\ w[i] * f[i].y \in Nat
                   /\ w[i] * f[i].y = w[i] * e[i].y + w[i]
  <2> SUFFICES ASSUME NEW i \in S
               PROVE  /\ w[i] * e[i].y \in Nat /\ w[i] * f[i].y \in Nat
                      /\ w[i] * f[i].y = w[i] * e[i].y + w[i]
    OBVIOUS
  <2>1. \A m, n \in Nat : m * n \in Nat /\ m * (n + 1) = m * n + m /\ m * (n + 1) \in Nat
    OBVIOUS
  <2> QED
    BY <1>1, <2>1
<1>3. w \in [S -> Nat] /\ a \in [S -> Nat] /\ b = Added(a, w)
  BY <1>1, <1>2 DEF Added
<1>4. /\ Weighted(w, e).num = SumFunction(a) /\ Weighted(w, f).num = SumFunction(b)
      /\ Weighted(w, e).den = SumFunction(w) /\ Weighted(w, f).den = SumFunction(w)
  BY DEF Weighted
<1> HIDE DEF a, b
<1>5. SumFunction(b) = SumFunction(a) + SumFunction(w)
  BY <1>3, SumAdds
<1> QED
  BY <1>4, <1>5

LEMMA TargetsBound ==
  ASSUME NEW examples \in Seq(Example), NEW S \in SUBSET DOMAIN examples, IsFiniteSet(S), S # {}
  PROVE  /\ Min(TargetsOf(examples, S)) \in Nat /\ Max(TargetsOf(examples, S)) \in Nat
         /\ \A i \in S : /\ Min(TargetsOf(examples, S)) <= examples[i].y
                         /\ examples[i].y <= Max(TargetsOf(examples, S))
<1> DEFINE Y == TargetsOf(examples, S)
           y == [i \in S |-> examples[i].y]
<1>1. \A i \in S : examples[i] \in Example
  OBVIOUS
<1>2. Y \in SUBSET Nat /\ Y # {}
  BY <1>1 DEF TargetsOf, Example
<1>3. IsFiniteSet(Y)
  <2>1. Y = {y[i] : i \in S}
    BY DEF TargetsOf
  <2> HIDE DEF y, Y
  <2> QED
    BY <2>1, ImageIsFinite
<1>4. \A i \in S : examples[i].y \in Y
  BY DEF TargetsOf
<1> HIDE DEF Y
<1>5. Min(Y) \in Y /\ Max(Y) \in Y /\ \A v \in Y : Min(Y) <= v /\ Max(Y) >= v
  BY <1>2, <1>3, LeastAndGreatest
<1>6. \A i \in S : Min(Y) <= examples[i].y /\ Max(Y) >= examples[i].y
  BY <1>4, <1>5
<1>7. Min(Y) \in Nat /\ Max(Y) \in Nat
  BY <1>2, <1>5
<1>8. \A i \in S : examples[i].y \in Nat
  BY <1>2, <1>4
<1> QED
  BY <1>6, <1>7, <1>8 DEF Y

\* A prediction from the k nearest.
LEMMA PredictionHolds ==
  ASSUME NEW examples \in Seq(Example), NEW k \in 1 .. Len(examples), NEW x \in Nat,
         NEW near, near = NearestIndices(x, examples, DOMAIN examples, k),
         NEW p, p = Predict(x, examples, k)
  PROVE  /\ Cardinality(near) = k /\ p.den > 0
         /\ \A i \in near, j \in DOMAIN examples \ near :
               Distance(x, examples[i].x) <= Distance(x, examples[j].x)
         /\ p.den * Min(TargetsOf(examples, near)) <= p.num
         /\ p.num <= p.den * Max(TargetsOf(examples, near))
         /\ Cardinality(TargetsOf(examples, Hits(x, examples))) = 1 =>
               p.num = p.den * Min(TargetsOf(examples, Hits(x, examples)))
<1> DEFINE D == DOMAIN examples
<1>1. D = 1 .. Len(examples) /\ Len(examples) \in Nat /\ IsFiniteSet(D)
      /\ Cardinality(D) = Len(examples)
  <2>1. D = 1 .. Len(examples) /\ Len(examples) \in Nat
    OBVIOUS
  <2> QED
    BY <2>1, OneToN
<1>2. /\ near \subseteq D /\ Cardinality(near) = k
      /\ \A i \in near, j \in D \ near : Away(x, examples, i) <= Away(x, examples, j)
  <2> HIDE DEF D
  <2> DEFINE n == Len(examples)
  <2>1. n \in Nat /\ k \in 1 .. n /\ Cardinality(D) = n
    BY <1>1, Zenon
  <2> HIDE DEF n
  <2>2. k \in 0 .. Cardinality(D) /\ D \in SUBSET D
    BY <2>1
  <2> QED
    BY <2>2, NearestAre DEF D
<1>3. near \in SUBSET D /\ IsFiniteSet(near) /\ near # {}
  BY <1>1, <1>2, FS_Subset, FS_EmptySet
<1> DEFINE w == Weights(x, examples, near)
<1>4. p = Weighted(w, examples)
  BY PredictionIsWeighted DEF Predict
<1>5. PICK S \in SUBSET near :
          /\ S # {} /\ IsFiniteSet(S) /\ w \in [S -> Positive]
          /\ ExactMatches(x, examples, near) # {} => S = ExactMatches(x, examples, near)
  BY <1>3, WeightsArePositive
<1> HIDE DEF w
<1>6. p.den > 0 /\ p.den * Min(TargetsOf(examples, near)) <= p.num
      /\ p.num <= p.den * Max(TargetsOf(examples, near))
  <2>1. /\ Min(TargetsOf(examples, near)) \in Nat /\ Max(TargetsOf(examples, near)) \in Nat
        /\ \A i \in S : /\ Min(TargetsOf(examples, near)) <= examples[i].y
                        /\ examples[i].y <= Max(TargetsOf(examples, near))
    BY <1>3, <1>5, TargetsBound
  <2>2. S \in SUBSET DOMAIN examples
    BY <1>3, <1>5
  <2> QED
    BY <1>4, <1>5, <2>1, <2>2, WeightedLiesBetween
<1>7. ASSUME Cardinality(TargetsOf(examples, Hits(x, examples))) = 1
      PROVE  p.num = p.den * Min(TargetsOf(examples, Hits(x, examples)))
  <2> DEFINE H == Hits(x, examples)
             t == Min(TargetsOf(examples, H))
  <2>1. H \in SUBSET D /\ IsFiniteSet(H)
    BY <1>1, FS_Subset DEF Hits
  <2>2. TargetsOf(examples, H) # {}
    <3> DEFINE Y == TargetsOf(examples, H)
    <3>1. Cardinality(Y) = 1
      BY <1>7
    <3> HIDE DEF Y
    <3>2. ASSUME Y = {}
          PROVE  FALSE
      <4>1. Cardinality(Y) = 0
        BY <3>2, FS_EmptySet, Zenon
      <4> QED
        BY <3>1, <4>1
    <3> QED
      BY <3>2 DEF Y
  <2>3. H # {}
    BY <2>2 DEF TargetsOf
  <2>4. \A i \in D : i \in H <=> Away(x, examples, i) = 0
    BY AwayType DEF Hits
  <2>5. ExactMatches(x, examples, near) = near \cap H
    BY <1>3, <2>1, <2>4 DEF ExactMatches, Away
  <2>6. near \cap H # {}
    <3>1. PICK h \in H : TRUE
      BY <2>3
    <3>2. PICK i \in near : TRUE
      BY <1>3
    <3>3. CASE h \notin near
      <4>1. Away(x, examples, i) <= 0 /\ Away(x, examples, i) \in Nat
        BY <1>2, <1>3, <2>1, <2>4, <3>3, AwayType
      <4>2. i \in H
        BY <1>3, <2>4, <4>1
      <4> QED
        BY <4>2
    <3> QED
      BY <3>1, <3>3
  <2>7. S \subseteq H
    BY <1>5, <2>5, <2>6
  <2>8. t \in Nat /\ \A i \in H : examples[i].y = t
    <3>1. PICK v : TargetsOf(examples, H) = {v}
      <4>1. IsFiniteSet(TargetsOf(examples, H))
        <5> DEFINE y == [i \in H |-> examples[i].y]
        <5>1. TargetsOf(examples, H) = {y[i] : i \in H}
          BY DEF TargetsOf
        <5> HIDE DEF y, H
        <5> QED
          BY <2>1, <5>1, ImageIsFinite
      <4> HIDE DEF H
      <4> QED
        BY <1>7, <4>1, FS_Singleton DEF H
    <3>2. \A i \in H : examples[i].y = v
      BY <3>1 DEF TargetsOf
    <3>3. t \in Nat /\ \A i \in H : t <= examples[i].y
      BY <2>1, <2>3, TargetsBound
    <3>4. t = v
      <4>1. TargetsOf(examples, H) \in SUBSET Nat
        <5>1. \A i \in H : examples[i] \in Example
          BY <2>1
        <5> QED
          BY <5>1 DEF TargetsOf, Example
      <4>2. t \in TargetsOf(examples, H)
        <5> HIDE DEF H
        <5> QED
          BY <2>2, <4>1, MinIsLeast
      <4> QED
        BY <3>1, <4>2
    <3> QED
      BY <3>2, <3>3, <3>4
  <2> HIDE DEF t
  <2>9. \A i \in S : t <= examples[i].y /\ examples[i].y <= t
    BY <2>7, <2>8
  <2>10. S \in SUBSET DOMAIN examples
    BY <1>3, <1>5
  <2>11. /\ p.den * t <= p.num /\ p.num <= p.den * t
         /\ p.num \in Nat /\ p.den \in Nat
    BY <1>4, <1>5, <2>8, <2>9, <2>10, WeightedLiesBetween
  <2>12. p.den * t \in Nat
    BY <2>8, <2>11
  <2>13. p.num = p.den * t
    BY <2>11, <2>12
  <2> QED
    BY <2>13 DEF t
<1> QED
  BY <1>2, <1>6, <1>7 DEF Away

(***************************************************************************)
(* The threshold.                                                          *)
(***************************************************************************)
LEMMA Interpolates ==
  ASSUME NEW lower \in Nat, NEW upper \in Nat, lower <= upper, NEW r \in 0 .. 99
  PROVE  /\ lower * (100 - r) + upper * r \in Nat
         /\ 100 * lower <= lower * (100 - r) + upper * r
<1> DEFINE more == upper - lower
<1>1. more \in Nat /\ upper = lower + more
  OBVIOUS
<1>2. more * r \in Nat
  BY <1>1
<1>3. lower * (100 - r) + upper * r = 100 * lower + more * r
  BY <1>1
<1> HIDE DEF more
<1> QED
  BY <1>2, <1>3

\* A threshold at a percentile of sorted distances.
LEMMA ThresholdHolds ==
  ASSUME NEW n \in Positive, NEW sorted \in [1 .. n -> Nat],
         \A i, j \in 1 .. n : i <= j => sorted[i] <= sorted[j],
         NEW percentile \in 0 .. 100,
         NEW foreign, foreign = {i \in DOMAIN sorted : IsOOD(sorted[i], sorted, percentile)}
  PROVE  /\ Cardinality(foreign) * 100 <= (100 - percentile) * (Len(sorted) - 1) + 99
         /\ \A i \in foreign, d \in Nat : d >= sorted[i] => IsOOD(d, sorted, percentile)
<1> DEFINE m == n - 1
           rank == percentile * (Len(sorted) - 1)
           r == rank % 100
           b == rank \div 100
           l == b + 1
           u == ((rank + 99) \div 100) + 1
<1>1. n \in Nat /\ n >= 1 /\ Len(sorted) = n /\ DOMAIN sorted = 1 .. n /\ m \in Nat
  BY FunctionIsSeq, LenProperties DEF Positive
<1>2. rank \in Nat /\ rank <= 100 * m
  <2>1. \A p \in 0 .. 100, k \in Nat : p * k \in Nat /\ p * k <= 100 * k
    <3> SUFFICES ASSUME NEW p \in 0 .. 100, NEW k \in Nat
                 PROVE  p * k \in Nat /\ p * k <= 100 * k
      OBVIOUS
    <3>1. (100 - p) * k \in Nat /\ 100 * k = p * k + (100 - p) * k /\ p * k \in Nat
      OBVIOUS
    <3> QED
      BY <3>1
  <2> QED
    BY <1>1, <2>1
<1>3. (100 - percentile) * (Len(sorted) - 1) = 100 * m - rank
  BY <1>1
<1>4. /\ b \in Nat /\ r \in 0 .. 99 /\ rank = 100 * b + r
      /\ l \in 1 .. n /\ u \in 1 .. n /\ l <= u
  <2> DEFINE q == rank
  <2>1. q \in Nat /\ q <= 100 * m /\ m \in Nat /\ n = m + 1
    BY <1>1, <1>2
  <2> HIDE DEF q, m
  <2>2. /\ q \div 100 \in Nat /\ q % 100 \in 0 .. 99 /\ q = 100 * (q \div 100) + (q % 100)
        /\ q \div 100 <= m /\ (q + 99) \div 100 \in Nat /\ (q + 99) \div 100 <= m
        /\ q \div 100 <= (q + 99) \div 100
    BY <2>1
  <2> QED
    BY <2>1, <2>2 DEF q
<1>5. PercentileValue(sorted, percentile) = sorted[l] * (100 - r) + sorted[u] * r
  BY DEF PercentileValue
<1> HIDE DEF rank, r, b, l, u, m
<1>6. /\ PercentileValue(sorted, percentile) \in Nat
      /\ 100 * sorted[l] <= PercentileValue(sorted, percentile)
  <2> DEFINE a == sorted[l]
             c == sorted[u]
  <2>1. a \in Nat /\ c \in Nat /\ a <= c /\ r \in 0 .. 99
    BY <1>4
  <2>2. PercentileValue(sorted, percentile) = a * (100 - r) + c * r
    BY <1>5
  <2> HIDE DEF a, c
  <2>3. a * (100 - r) + c * r \in Nat /\ 100 * a <= a * (100 - r) + c * r
    BY <2>1, Interpolates
  <2> QED
    BY <2>2, <2>3 DEF a
<1>7. foreign \subseteq (l + 1) .. n
  <2> SUFFICES ASSUME NEW i \in foreign PROVE i \in (l + 1) .. n
    OBVIOUS
  <2>1. i \in 1 .. n /\ 100 * sorted[i] > PercentileValue(sorted, percentile)
    BY <1>1 DEF IsOOD
  <2>2. ~ (i <= l)
    <3>1. sorted[i] \in Nat /\ sorted[l] \in Nat /\ (i <= l => sorted[i] <= sorted[l])
      BY <1>4, <2>1
    <3> QED
      BY <1>6, <2>1, <3>1
  <2> QED
    BY <1>4, <2>1, <2>2
<1>8. Cardinality(foreign) <= n - l /\ Cardinality(foreign) \in Nat
  <2>1. l + 1 \in Int /\ n \in Int /\ l <= n /\ l \in Nat
    BY <1>1, <1>4
  <2>2. IsFiniteSet((l + 1) .. n) /\ Cardinality((l + 1) .. n) = n - l
    <3>1. /\ IsFiniteSet((l + 1) .. n)
          /\ Cardinality((l + 1) .. n) = IF l + 1 > n THEN 0 ELSE (n - (l + 1)) + 1
      BY <2>1, FS_Interval
    <3>2. CASE l = n
      <4>1. l + 1 > n
        BY <2>1, <3>2
      <4> QED
        BY <2>1, <3>1, <3>2, <4>1
    <3>3. CASE l # n
      <4>1. ~ (l + 1 > n) /\ (n - (l + 1)) + 1 = n - l
        BY <2>1, <3>3
      <4> QED
        BY <3>1, <4>1
    <3> QED
      BY <3>2, <3>3
  <2>3. IsFiniteSet(foreign) /\ Cardinality(foreign) <= Cardinality((l + 1) .. n)
    BY <1>7, <2>2, FS_Subset
  <2> QED
    BY <2>2, <2>3, FS_CardinalityType
<1>9. Cardinality(foreign) * 100 <= 100 * m - rank + 99
  <2>1. l = b + 1 /\ m = n - 1
    BY DEF l, m
  <2> QED
    BY <1>1, <1>2, <1>4, <1>8, <2>1
<1>10. \A i \in foreign, d \in Nat : d >= sorted[i] => IsOOD(d, sorted, percentile)
  <2> SUFFICES ASSUME NEW i \in foreign, NEW d \in Nat, d >= sorted[i]
               PROVE  IsOOD(d, sorted, percentile)
    OBVIOUS
  <2>1. sorted[i] \in Nat /\ 100 * sorted[i] > PercentileValue(sorted, percentile)
    BY <1>1 DEF IsOOD
  <2> QED
    BY <1>6, <2>1 DEF IsOOD
<1> QED
  BY <1>3, <1>9, <1>10

(***************************************************************************)
(* The property of the model in memory.                                    *)
(***************************************************************************)
\* What has been trained has at least as many examples as neighbours.
TrainedFits ==
    trained # Untrained =>
        /\ trained.examples \in Seq([x : Features, y : Targets])
        /\ trained.k \in 1 .. Len(trained.examples)

LEMMA TrainingFits == SurrogateSpec => []TrainedFits
<1>1. SurrogateInit => TrainedFits
  BY DEF SurrogateInit, TrainedFits
<1>2. ASSUME TrainedFits, [SurrogateNext]_surrogateVars
      PROVE  TrainedFits'
  <2>1. CASE Train
    <3>1. PICK n \in 1 .. MaxExamples, k \in 1 .. MaxK :
            \E examples \in [1 .. n -> [x : Features, y : Targets]] :
               trained' = [examples |-> examples, k |-> IF k < n THEN k ELSE n]
      BY <2>1 DEF Train
    <3>2. PICK examples \in [1 .. n -> [x : Features, y : Targets]] :
            trained' = [examples |-> examples, k |-> IF k < n THEN k ELSE n]
      BY <3>1
    <3>3. n \in Nat /\ k \in Nat /\ n >= 1 /\ k >= 1
      BY SurrogateAssumption
    <3>4. examples \in Seq([x : Features, y : Targets]) /\ Len(examples) = n
      <4>1. /\ examples \in Seq([x : Features, y : Targets]) /\ DOMAIN examples = 1 .. n
            /\ n \in Nat
        BY <3>3, FunctionIsSeq
      <4>2. Len(examples) = n
        BY <4>1, LenProperties
      <4> QED
        BY <4>1, <4>2
    <3>5. (IF k < n THEN k ELSE n) \in 1 .. n
      BY <3>3
    <3> QED
      BY <3>2, <3>4, <3>5 DEF TrainedFits
  <2>2. CASE trained' = trained
    BY <1>2, <2>2 DEF TrainedFits
  <2>3. CASE trained' = Untrained
    BY <2>3 DEF TrainedFits, Untrained
  <2> QED
    BY <1>2, <2>1, <2>2, <2>3
    DEF SurrogateNext, surrogateVars, BeginSave, CopyRollback, WriteModel, SaveReturns,
        RollBack, KillSave
<1> QED
  BY <1>1, <1>2, PTL DEF SurrogateSpec

LEMMA MovedKeepsPlaces ==
  ASSUME NEW examples \in Seq(Example), NEW S
  PROVE  /\ MovedUp(examples, S) \in Seq(Example) /\ SamePlaces(examples, MovedUp(examples, S))
         /\ \A i \in DOMAIN examples :
               /\ i \in S => MovedUp(examples, S)[i].y = examples[i].y + 1
               /\ i \notin S => MovedUp(examples, S)[i].y = examples[i].y
<1> DEFINE n == Len(examples)
           f == MovedUp(examples, S)
<1>1. DOMAIN examples = 1 .. n /\ n \in Nat
  OBVIOUS
<1>2. \A i \in 1 .. n : examples[i] \in Example
  BY <1>1
<1>3. \A i \in 1 .. n : f[i] = IF i \in S THEN [examples[i] EXCEPT !.y = @ + 1] ELSE examples[i]
  BY <1>1 DEF MovedUp
<1>4. ASSUME NEW i \in 1 .. n
      PROVE  /\ f[i] \in Example /\ f[i].x = examples[i].x
             /\ i \in S => f[i].y = examples[i].y + 1
             /\ i \notin S => f[i].y = examples[i].y
  <2> DEFINE e == examples[i]
             up == [e EXCEPT !.y = @ + 1]
  <2>1. e \in Example
    BY <1>2
  <2> HIDE DEF e
  <2>2. up \in Example /\ up.x = e.x /\ up.y = e.y + 1
    <3>1. e \in [x : Nat, y : Nat]
      BY <2>1 DEF Example
    <3>2. e.y + 1 \in Nat /\ e.x \in Nat
      BY <3>1
    <3>3. up = [x |-> e.x, y |-> e.y + 1]
      BY <3>1
    <3> QED
      BY <3>2, <3>3 DEF Example
  <2>3. f[i] = IF i \in S THEN up ELSE e
    BY <1>3 DEF e
  <2> HIDE DEF up, f
  <2>4. /\ f[i] \in Example /\ f[i].x = e.x
        /\ i \in S => f[i].y = e.y + 1
        /\ i \notin S => f[i].y = e.y
    BY <2>1, <2>2, <2>3
  <2> QED
    BY <2>4 DEF e
<1>5. f \in [1 .. n -> Example] /\ DOMAIN f = DOMAIN examples
  <2>1. DOMAIN f = 1 .. n /\ f = [i \in 1 .. n |-> f[i]]
    BY <1>1 DEF MovedUp
  <2> HIDE DEF f
  <2> QED
    BY <1>1, <1>4, <2>1
<1> HIDE DEF f
<1>6. f \in Seq(Example)
  BY <1>1, <1>5
<1> QED
  BY <1>1, <1>4, <1>5, <1>6 DEF SamePlaces, f

\* One more in every target is one more in the prediction.
LEMMA PredictionShifts ==
  ASSUME NEW e \in Seq(Example), NEW k \in 1 .. Len(e), NEW x \in Nat
  PROVE  /\ Predict(x, MovedUp(e, DOMAIN e), k).num = Predict(x, e, k).num + Predict(x, e, k).den
         /\ Predict(x, MovedUp(e, DOMAIN e), k).den = Predict(x, e, k).den
<1> DEFINE f == MovedUp(e, DOMAIN e)
           N == NearestIndices(x, e, DOMAIN e, k)
           w == Weights(x, e, N)
<1>1. /\ f \in Seq(Example) /\ SamePlaces(e, f) /\ DOMAIN f = DOMAIN e
      /\ \A i \in DOMAIN e : f[i].y = e[i].y + 1
  BY MovedKeepsPlaces DEF SamePlaces
<1> HIDE DEF f
<1>2. N \in SUBSET DOMAIN e /\ IsFiniteSet(N) /\ N # {}
  <2>1. DOMAIN e = 1 .. Len(e) /\ Len(e) \in Nat
    OBVIOUS
  <2>2. IsFiniteSet(DOMAIN e) /\ Cardinality(DOMAIN e) = Len(e)
    BY <2>1, OneToN
  <2>3. k \in 0 .. Cardinality(DOMAIN e) /\ DOMAIN e \in SUBSET DOMAIN e /\ k # 0
    BY <2>1, <2>2
  <2>4. N \subseteq DOMAIN e /\ Cardinality(N) = k
    BY <2>3, NearestAre
  <2> QED
    BY <2>2, <2>3, <2>4, FS_Subset, FS_EmptySet
<1>3. NearestIndices(x, f, DOMAIN f, k) = N
  BY <1>1, PlacesDecide
<1> HIDE DEF N
<1>4. Weights(x, f, N) = w
  BY <1>1, <1>2, PlacesDecide
<1>5. Predict(x, e, k) = Weighted(w, e)
  BY PredictionIsWeighted DEF Predict, N
<1>6. Predict(x, f, k) = Weighted(w, f)
  BY <1>3, <1>4, PredictionIsWeighted DEF Predict
<1>7. PICK S \in SUBSET N : IsFiniteSet(S) /\ w \in [S -> Positive]
  BY <1>2, WeightsArePositive
<1> HIDE DEF w
<1>8. S \in SUBSET DOMAIN e /\ \A i \in S : f[i].y = e[i].y + 1
  BY <1>1, <1>2
<1>9. /\ Weighted(w, f).num = Weighted(w, e).num + Weighted(w, e).den
      /\ Weighted(w, f).den = Weighted(w, e).den
  BY <1>1, <1>7, <1>8, WeightedShifts
<1> QED
  BY <1>5, <1>6, <1>9 DEF f

\* The prediction an example is left out of does not know its target.
LEMMA LeftOutIsUnseen ==
  ASSUME NEW e \in Seq(Example), NEW k, NEW i \in DOMAIN e
  PROVE  LeaveOneOut(i, MovedUp(e, {i}), k) = LeaveOneOut(i, e, k)
<1> DEFINE f == MovedUp(e, {i})
           C == DOMAIN e \ {i}
           x == e[i].x
           N == NearestIndices(x, e, C, k)
           w == Weights(x, e, N)
<1>1. /\ SamePlaces(e, f) /\ DOMAIN f = DOMAIN e /\ f[i].x = x
      /\ \A j \in C : f[j].y = e[j].y
  BY MovedKeepsPlaces DEF SamePlaces
<1> HIDE DEF f
<1>2. N \in SUBSET DOMAIN e /\ N \subseteq C
  BY DEF NearestIndices
<1>3. NearestIndices(x, f, C, k) = N
  BY <1>1, PlacesDecide
<1>4. LeaveOneOut(i, e, k) = WeightedPrediction(x, e, N)
  BY DEF LeaveOneOut
<1>5. LeaveOneOut(i, f, k) = WeightedPrediction(x, f, N)
  BY <1>1, <1>3 DEF LeaveOneOut
<1> HIDE DEF N, C, x
<1>6. Weights(x, f, N) = w
  BY <1>1, <1>2, PlacesDecide
<1>7. DOMAIN w \subseteq N
  BY DEF Weights, ExactMatches
<1> HIDE DEF w
<1>8. \A j \in DOMAIN w : w[j] * f[j].y = w[j] * e[j].y
  BY <1>1, <1>2, <1>7
<1>9. Weighted(w, f) = Weighted(w, e)
  BY <1>8 DEF Weighted
<1> QED
  BY <1>4, <1>5, <1>6, <1>9, PredictionIsWeighted DEF f, w

LEMMA PredictionFollows == TrainedFits => PredictionIsLocal
<1> SUFFICES ASSUME TrainedFits, trained # Untrained PROVE PredictionIsLocal
  BY DEF PredictionIsLocal
<1> DEFINE Examples == trained.examples
           K == trained.k
<1>1. /\ Examples \in Seq(Example) /\ K \in 1 .. Len(Examples)
      /\ Features \subseteq Nat /\ Percentiles \subseteq 0 .. 100
  <2>1. /\ Examples \in Seq([x : Features, y : Targets]) /\ K \in 1 .. Len(Examples)
        /\ Features \subseteq Nat /\ Targets \subseteq Nat /\ Percentiles \subseteq 0 .. 100
    BY SurrogateAssumption DEF TrainedFits
  <2> DEFINE n == Len(Examples)
  <2>2. n \in Nat /\ Examples \in [1 .. n -> [x : Features, y : Targets]]
    <3> DEFINE T == [x : Features, y : Targets]
    <3>1. Examples \in Seq(T)
      BY <2>1
    <3> HIDE DEF Examples, T
    <3>2. n \in Nat /\ Examples \in [1 .. n -> T]
      BY <3>1
    <3> QED
      BY <3>2 DEF T
  <2>3. Examples \in [1 .. n -> Example]
    <3>1. [x : Features, y : Targets] \subseteq Example
      BY <2>1 DEF Example
    <3> HIDE DEF n, Examples
    <3> QED
      BY <2>2, <3>1
  <2>4. Examples \in Seq(Example)
    BY <2>2, <2>3, FunctionIsSeq
  <2> QED
    BY <2>1, <2>4
<1>2. PICK e \in Seq(Example), k \in Nat :
          e = trained.examples /\ k = trained.k /\ k \in 1 .. Len(e)
  BY <1>1
<1>3. DOMAIN e = 1 .. Len(e) /\ Len(e) \in Nat /\ k \in 1 .. Len(e)
  BY <1>2
<1>4. NearestDecide(e, k)
  <2> SUFFICES ASSUME NEW x \in Features
      PROVE  LET near == NearestIndices(x, e, DOMAIN e, k)
                 p    == Predict(x, e, k)
                 q    == Predict(x, MovedUp(e, DOMAIN e), k)
             IN  /\ Cardinality(near) = k /\ p.den > 0
                 /\ \A i \in near, j \in DOMAIN e \ near :
                       Distance(x, e[i].x) <= Distance(x, e[j].x)
                 /\ p.den * Min(TargetsOf(e, near)) <= p.num
                 /\ p.num <= p.den * Max(TargetsOf(e, near))
                 /\ Cardinality(TargetsOf(e, Hits(x, e))) = 1 =>
                       p.num = p.den * Min(TargetsOf(e, Hits(x, e)))
                 /\ Same(q, [num |-> p.num + p.den, den |-> p.den])
    BY DEF NearestDecide
  <2>1. x \in Nat
    BY <1>1
  <2>2. Same(Predict(x, MovedUp(e, DOMAIN e), k),
             [num |-> Predict(x, e, k).num + Predict(x, e, k).den, den |-> Predict(x, e, k).den])
    BY <1>3, <2>1, PredictionShifts DEF Same
  <2>3. LET near == NearestIndices(x, e, DOMAIN e, k)
            p    == Predict(x, e, k)
        IN  /\ Cardinality(near) = k /\ p.den > 0
            /\ \A i \in near, j \in DOMAIN e \ near :
                  Distance(x, e[i].x) <= Distance(x, e[j].x)
            /\ p.den * Min(TargetsOf(e, near)) <= p.num
            /\ p.num <= p.den * Max(TargetsOf(e, near))
            /\ Cardinality(TargetsOf(e, Hits(x, e))) = 1 =>
                  p.num = p.den * Min(TargetsOf(e, Hits(x, e)))
    BY <1>3, <2>1, PredictionHolds
  <2> QED
    BY <2>2, <2>3, Zenon
<1>5. ResidualsAreUnseen(e, k)
  BY LeftOutIsUnseen DEF ResidualsAreUnseen, Same
<1>6. ThresholdsHold(e)
  <2> SUFFICES ASSUME NEW x \in Features, NEW percentile \in Percentiles
      PROVE  LET sorted  == Sorted([i \in DOMAIN e |-> Distance(x, e[i].x)])
                 foreign == {i \in DOMAIN sorted : IsOOD(sorted[i], sorted, percentile)}
             IN  /\ Cardinality(foreign) * 100 <= (100 - percentile) * (Len(sorted) - 1) + 99
                 /\ \A i \in foreign, d \in Features :
                       d >= sorted[i] => IsOOD(d, sorted, percentile)
    BY DEF ThresholdsHold
  <2> DEFINE distances == [i \in DOMAIN e |-> Distance(x, e[i].x)]
             sorted == Sorted(distances)
             n == Len(e)
             foreign == {i \in DOMAIN sorted : IsOOD(sorted[i], sorted, percentile)}
  <2>1. x \in Nat /\ percentile \in 0 .. 100 /\ n \in Positive
    BY <1>1, <1>3 DEF Positive
  <2>2. distances \in [1 .. n -> Nat]
    <3>1. \A i \in DOMAIN e : Distance(x, e[i].x) \in Nat
      BY <2>1, AwayType DEF Away
    <3> QED
      BY <1>3, <3>1
  <2> HIDE DEF n, distances
  <2>3. sorted \in [1 .. n -> Nat] /\ \A i, j \in 1 .. n : i <= j => sorted[i] <= sorted[j]
    <3>1. sorted = InAscendingOrder(distances)
      BY DEF Sorted, InAscendingOrder
    <3> HIDE DEF sorted
    <3> QED
      BY <2>1, <2>2, <3>1, AscendingIs
  <2> HIDE DEF sorted
  <2>4. /\ Cardinality(foreign) * 100 <= (100 - percentile) * (Len(sorted) - 1) + 99
        /\ \A i \in foreign, d \in Nat : d >= sorted[i] => IsOOD(d, sorted, percentile)
    BY <2>1, <2>3, ThresholdHolds
  <2>5. \A i \in foreign, d \in Features : d >= sorted[i] => IsOOD(d, sorted, percentile)
    BY <1>1, <2>4
  <2> QED
    BY <2>4, <2>5 DEF sorted, distances
<1> QED
  BY <1>2, <1>4, <1>5, <1>6 DEF PredictionIsLocal

\* Whatever was trained, at any number of examples and neighbours: what a
\* prediction is made of, how far it may lie, what it must not depend on, and
\* how many distances a calibrated threshold calls foreign.
THEOREM PredictionsAreLocal == SurrogateSpec => []PredictionIsLocal
BY TrainingFits, PredictionFollows, PTL

-----------------------------------------------------------------------------
(***************************************************************************)
(* The strategy archive: what the observations attributed to it leave in   *)
(* its rows.  Kept says it of any tables, so that it is the same of those  *)
(* that a connection sees and of those that a restart comes back to.       *)
(***************************************************************************)
HoldersIn(rows, s) == {e \in Exps : rows[e][s] # Nothing}
SeenIn(m, what, e, s) == {o \in m : o.what = what /\ o.sha = s /\ e \in o.rows}
OverwritingIn(m, o) ==
  {p \in m : p.what = "surprise" /\ p.sha = o.sha /\ p.since <= o.id /\ o.id < p.id}

Rows == [Exps -> [Shas -> StrategyRow \cup {Nothing}]]
Note == [id : Observation, what : {"surprise", "reward"}, exp : Exps, sha : Shas,
         rows : SUBSET Exps, since : Observation]
Waiting == [exp : Exps, sha : Shas, old : SUBSET Observation, since : 1 .. Attributions + 1]

\* The observations are numbered in the order in which they were made.
Numbered(m) ==
  /\ m \subseteq Note
  /\ IsFiniteSet(m) /\ Cardinality(m) \in 0 .. Attributions
  /\ \A o \in m : o.id <= Cardinality(m)

\* An observation is of the rows that were there, and counts in each.
CountedIn(rows, m) ==
  \A e \in Exps, s \in Shas :
    /\ rows[e][s] = Nothing => \A o \in m : ~ (o.sha = s /\ e \in o.rows)
    /\ rows[e][s] # Nothing => rows[e][s].visits = Cardinality(SeenIn(m, "surprise", e, s))

RewardedIn(rows, m) ==
  \A e \in Exps, s \in Shas :
    HoldersIn(rows, s) = {e} => rows[e][s].reward = Ids(SeenIn(m, "reward", e, s))

SurprisedIn(rows, m) ==
  \A e \in Exps, s \in Shas :
    HoldersIn(rows, s) = {e} =>
      \A o \in SeenIn(m, "surprise", e, s) :
        OverwritingIn(m, o) = {} => o.id \in rows[e][s].surprise

Kept(rows, m) ==
  /\ rows \in Rows
  /\ CountedIn(rows, m) /\ RewardedIn(rows, m) /\ SurprisedIn(rows, m)

\* What a coroutine has read holds every surprise that was there when it read
\* and that nothing has overwritten.
Read(t, rows, m) ==
  /\ t.since <= Cardinality(m) + 1
  /\ HoldersIn(rows, t.sha) # {}
  /\ \A e \in Exps :
       HoldersIn(rows, t.sha) = {e} =>
         \A o \in SeenIn(m, "surprise", e, t.sha) :
           (o.id < t.since /\ OverwritingIn(m, o) = {}) => o.id \in t.old

ArchiveInv ==
  /\ Numbered(made)
  /\ view.rows \in Rows /\ db.rows \in Rows
  /\ view = [rows |-> view.rows, edges |-> view.edges]
  /\ db = [rows |-> db.rows, edges |-> db.edges]
  /\ view.edges \in SUBSET (ParentShas \X Shas) /\ db.edges \in SUBSET (ParentShas \X Shas)
  /\ Kept(view.rows, made) /\ Kept(db.rows, made)
  /\ \A s \in Shas : HoldersIn(db.rows, s) \subseteq HoldersIn(view.rows, s)
  /\ task \in [Lineages -> Waiting \cup {Nothing}]
  /\ \A l \in Lineages : task[l] # Nothing => Read(task[l], view.rows, made)

\* The row with one visit more and another average, and with other rewards.
Visited(row, ids) == [row EXCEPT !.surprise = ids, !.visits = @ + 1]
WithReward(row, ids) == [row EXCEPT !.reward = ids]

\* The row that a SELECT by sha returns is the row of one of its holders.
LEMMA FirstIsARow ==
  ASSUME view.rows \in Rows, NEW s \in Shas, Holders(s) # {}
  PROVE  \E e \in Holders(s) : First(s) = view.rows[e][s]
<1>1. Holders(s) \in SUBSET Nat
  BY ArchiveAssumption DEF Holders
<1>2. \E e \in Holders(s) : \A f \in Holders(s) : e <= f
  BY <1>1, LeastNumber
<1> QED
  BY <1>2 DEF First

LEMMA RowsHaveFields ==
  ASSUME NEW rows \in Rows, NEW e \in Exps, NEW s \in Shas, rows[e][s] # Nothing
  PROVE  rows[e][s] \in StrategyRow
BY DEF Rows

LEMMA NewIsARow ==
  ASSUME NEW kind \in Kinds
  PROVE  /\ New(kind) \in StrategyRow /\ New(kind) # Nothing
         /\ New(kind).visits = 0 /\ New(kind).surprise = {} /\ New(kind).reward = {}
<1>1. New(kind) \in StrategyRow
  BY ArchiveAssumption DEF New, StrategyRow
<1> QED
  BY <1>1, ArchiveAssumption DEF New

\* Rows that are inserted have no history, and need none.
LEMMA InsertKeeps ==
  ASSUME NEW rows, NEW m, NEW after \in Rows, Kept(rows, m),
         \A e \in Exps, s \in Shas :
            \/ after[e][s] = rows[e][s]
            \/ rows[e][s] = Nothing /\ \E kind \in Kinds : after[e][s] = New(kind)
  PROVE  /\ Kept(after, m)
         /\ \A s \in Shas : HoldersIn(rows, s) \subseteq HoldersIn(after, s)
         /\ \A t \in Waiting : Read(t, rows, m) => Read(t, after, m)
<1>1. ASSUME NEW e \in Exps, NEW s \in Shas, rows[e][s] # Nothing
      PROVE  after[e][s] = rows[e][s]
  BY <1>1
<1>2. ASSUME NEW e \in Exps, NEW s \in Shas, rows[e][s] = Nothing, after[e][s] # Nothing
      PROVE  after[e][s].visits = 0 /\ after[e][s].surprise = {} /\ after[e][s].reward = {}
  BY <1>2, NewIsARow
<1>3. ASSUME NEW e \in Exps, NEW s \in Shas, rows[e][s] = Nothing
      PROVE  \A what : SeenIn(m, what, e, s) = {}
  BY <1>3 DEF Kept, CountedIn, SeenIn
<1>4. \A s \in Shas : HoldersIn(rows, s) \subseteq HoldersIn(after, s)
  BY <1>1 DEF HoldersIn
<1>5. ASSUME NEW e \in Exps, NEW s \in Shas, HoldersIn(after, s) = {e}, rows[e][s] # Nothing
      PROVE  HoldersIn(rows, s) = {e}
  BY <1>4, <1>5 DEF HoldersIn
<1>6. CountedIn(after, m)
  <2>1. ASSUME NEW e \in Exps, NEW s \in Shas, after[e][s] = Nothing
        PROVE  \A o \in m : ~ (o.sha = s /\ e \in o.rows)
    BY <1>1, <2>1 DEF Kept, CountedIn
  <2>2. ASSUME NEW e \in Exps, NEW s \in Shas, after[e][s] # Nothing
        PROVE  after[e][s].visits = Cardinality(SeenIn(m, "surprise", e, s))
    <3>1. CASE rows[e][s] # Nothing
      BY <1>1, <3>1 DEF Kept, CountedIn
    <3>2. CASE rows[e][s] = Nothing
      <4>1. after[e][s].visits = 0
        BY <1>2, <2>2, <3>2
      <4>2. SeenIn(m, "surprise", e, s) = {}
        BY <1>3, <3>2
      <4> QED
        BY <4>1, <4>2, FS_EmptySet
    <3> QED
      BY <3>1, <3>2
  <2> QED
    BY <2>1, <2>2 DEF CountedIn
<1>7. RewardedIn(after, m)
  <2> SUFFICES ASSUME NEW e \in Exps, NEW s \in Shas, HoldersIn(after, s) = {e}
               PROVE  after[e][s].reward = Ids(SeenIn(m, "reward", e, s))
    BY DEF RewardedIn
  <2>1. CASE rows[e][s] # Nothing
    BY <1>1, <1>5, <2>1 DEF Kept, RewardedIn
  <2>2. CASE rows[e][s] = Nothing
    <3>1. after[e][s] # Nothing
      BY DEF HoldersIn
    <3>2. after[e][s].reward = {} /\ SeenIn(m, "reward", e, s) = {}
      BY <1>2, <1>3, <2>2, <3>1
    <3> QED
      BY <3>2 DEF Ids
  <2> QED
    BY <2>1, <2>2
<1>8. SurprisedIn(after, m)
  <2> SUFFICES ASSUME NEW e \in Exps, NEW s \in Shas, HoldersIn(after, s) = {e},
                      NEW o \in SeenIn(m, "surprise", e, s), OverwritingIn(m, o) = {}
               PROVE  o.id \in after[e][s].surprise
    BY DEF SurprisedIn
  <2>1. rows[e][s] # Nothing
    BY <1>3
  <2> QED
    BY <1>1, <1>5, <2>1 DEF Kept, SurprisedIn
<1>9. ASSUME NEW t \in Waiting, Read(t, rows, m)
      PROVE  Read(t, after, m)
  <2>0. t.sha \in Shas
    BY DEF Waiting
  <2>1. ASSUME NEW e \in Exps, HoldersIn(after, t.sha) = {e},
               NEW o \in SeenIn(m, "surprise", e, t.sha), o.id < t.since,
               OverwritingIn(m, o) = {}
        PROVE  o.id \in t.old
    <3>1. HoldersIn(rows, t.sha) = {e}
      BY <1>3, <1>5, <2>0, <2>1
    <3> QED
      BY <1>9, <2>1, <3>1 DEF Read
  <2>2. HoldersIn(after, t.sha) # {}
    BY <1>4, <1>9, <2>0 DEF Read
  <2> QED
    BY <1>9, <2>1, <2>2 DEF Read
<1> QED
  BY <1>4, <1>6, <1>7, <1>8, <1>9 DEF Kept

\* An observation gets a number of its own.
LEMMA NoteIsNew ==
  ASSUME NEW m, Numbered(m), NEW n, n = Cardinality(m) + 1, n \in Observation,
         NEW o \in Note, o.id = n
  PROVE  /\ o \notin m
         /\ Numbered(m \cup {o})
         /\ Cardinality(m \cup {o}) = n
<1>1. IsFiniteSet(m) /\ Cardinality(m) \in 0 .. Attributions /\ Attributions \in Nat
  BY ArchiveAssumption DEF Numbered
<1>2. o \notin m
  BY <1>1 DEF Numbered
<1>3. IsFiniteSet(m \cup {o}) /\ Cardinality(m \cup {o}) = n
  BY <1>1, <1>2, FS_AddElement
<1>4. n \in 0 .. Attributions
  BY <1>1 DEF Observation
<1>5. \A p \in m \cup {o} : p.id <= n
  <2>1. \A p \in m : p.id \in Int /\ p.id <= Cardinality(m)
    BY DEF Numbered, Note, Observation
  <2> QED
    BY <1>1, <2>1, <1>4
<1> QED
  BY <1>2, <1>3, <1>4, <1>5 DEF Numbered

LEMMA SeenIsFinite ==
  ASSUME NEW m, Numbered(m), NEW e, NEW s
  PROVE  /\ IsFiniteSet(SeenIn(m, "surprise", e, s))
         /\ Cardinality(SeenIn(m, "surprise", e, s)) \in 0 .. Cardinality(m)
<1>1. IsFiniteSet(m) /\ SeenIn(m, "surprise", e, s) \in SUBSET m
  BY DEF Numbered, SeenIn
<1> QED
  BY <1>1, FS_Subset, FS_CardinalityType

LEMMA OverwritingGrows ==
  ASSUME NEW m, NEW o, NEW p
  PROVE  OverwritingIn(m, p) \subseteq OverwritingIn(m \cup {o}, p)
BY DEF OverwritingIn

\* The other coroutines have read nothing that an observation adds or takes.
LEMMA ReadersKeep ==
  ASSUME NEW rows, NEW after, NEW m, Numbered(m), NEW o \in Note, o \notin m,
         o.id = Cardinality(m) + 1, Cardinality(m \cup {o}) = o.id,
         \A s \in Shas : HoldersIn(after, s) = HoldersIn(rows, s),
         NEW t \in Waiting, Read(t, rows, m)
  PROVE  Read(t, after, m \cup {o})
<1>1. t.sha \in Shas /\ t.since \in Int /\ Cardinality(m) \in Nat
  BY ArchiveAssumption DEF Waiting, Numbered
<1>2. HoldersIn(after, t.sha) = HoldersIn(rows, t.sha)
  BY <1>1
<1>3. t.since <= Cardinality(m) + 1
  BY DEF Read
<1>4. ASSUME NEW e \in Exps, HoldersIn(after, t.sha) = {e},
             NEW p \in SeenIn(m \cup {o}, "surprise", e, t.sha), p.id < t.since,
             OverwritingIn(m \cup {o}, p) = {}
      PROVE  p.id \in t.old
  <2>1. p # o
    BY <1>1, <1>3, <1>4
  <2>2. p \in SeenIn(m, "surprise", e, t.sha)
    BY <2>1 DEF SeenIn
  <2>3. OverwritingIn(m, p) = {}
    BY <1>4, OverwritingGrows
  <2> QED
    BY <1>2, <1>4, <2>2, <2>3 DEF Read
<1>5. t.since <= Cardinality(m \cup {o}) + 1
  BY <1>1, <1>3
<1>6. HoldersIn(after, t.sha) # {}
  BY <1>2 DEF Read
<1> QED
  BY <1>4, <1>5, <1>6 DEF Read
\* What the rows of a strategy become when an observation is attributed.
LEMMA UpdateKeepsTypes ==
  ASSUME NEW rows \in Rows, NEW after \in Rows, NEW s \in Shas,
         \A e \in Exps, q \in Shas : q # s => after[e][q] = rows[e][q],
         \A e \in Exps : after[e][s] = Nothing <=> rows[e][s] = Nothing
  PROVE  /\ \A e \in Exps, q \in Shas : after[e][q] = Nothing <=> rows[e][q] = Nothing
         /\ \A q \in Shas : HoldersIn(after, q) = HoldersIn(rows, q)
<1>1. ASSUME NEW e \in Exps, NEW q \in Shas
      PROVE  after[e][q] = Nothing <=> rows[e][q] = Nothing
  <2>1. CASE q = s
    BY <2>1
  <2>2. CASE q # s
    <3>1. after[e][q] = rows[e][q]
      BY <2>2
    <3> QED
      BY <3>1
  <2> QED
    BY <2>1, <2>2
<1> QED
  BY <1>1 DEF HoldersIn

\* The observation o of a coroutine that has read t makes of the rows `after`.
SurpriseFolded(rows, m, t, o, after) ==
  /\ t \in Waiting /\ Read(t, rows, m) /\ t.sha \in Shas
  /\ o \in Note /\ o.id = Cardinality(m) + 1 /\ o.id \in Observation
  /\ o.what = "surprise" /\ o.sha = t.sha
  /\ o.rows = HoldersIn(rows, t.sha) /\ o.since = t.since
  /\ after \in Rows
  /\ \A e \in Exps, q \in Shas : q # t.sha => after[e][q] = rows[e][q]
  /\ \A e \in Exps : rows[e][t.sha] = Nothing => after[e][t.sha] = Nothing
  /\ \A e \in Exps : rows[e][t.sha] # Nothing =>
        after[e][t.sha] = Visited(rows[e][t.sha], t.old \cup {o.id})

LEMMA SurpriseKeeps ==
  ASSUME NEW rows, NEW m, Kept(rows, m), Numbered(m),
         NEW t, NEW o, NEW after, SurpriseFolded(rows, m, t, o, after)
  PROVE  Kept(after, m \cup {o})
<1> DEFINE n == o.id
<1>a. n = o.id
  OBVIOUS
<1> HIDE DEF n
<1> SUFFICES ASSUME t \in Waiting, Read(t, rows, m), t.sha \in Shas,
         n = Cardinality(m) + 1, n \in Observation,
         o \in Note, o.id = n, o.what = "surprise", o.sha = t.sha,
         o.rows = HoldersIn(rows, t.sha), o.since = t.since,
         after \in Rows,
         \A e \in Exps, q \in Shas : q # t.sha => after[e][q] = rows[e][q],
         \A e \in Exps : rows[e][t.sha] = Nothing => after[e][t.sha] = Nothing,
         \A e \in Exps : rows[e][t.sha] # Nothing =>
            after[e][t.sha] = Visited(rows[e][t.sha], t.old \cup {n})
         PROVE  Kept(after, m \cup {o})
  BY <1>a DEF SurpriseFolded
<1>0. /\ o \notin m /\ Numbered(m \cup {o})
      /\ n \in Nat /\ Cardinality(m) \in Nat /\ Attributions \in Nat
  <2>1. o \notin m /\ Numbered(m \cup {o})
    BY NoteIsNew
  <2>2. Attributions \in Nat
    BY ArchiveAssumption
  <2>3. Cardinality(m) \in 0 .. Attributions /\ n \in 1 .. Attributions
    BY DEF Observation, Numbered
  <2> QED
    BY <2>1, <2>2, <2>3
<1>1. ASSUME NEW e \in Exps, rows[e][t.sha] # Nothing
      PROVE  /\ after[e][t.sha] # Nothing
             /\ after[e][t.sha].visits = rows[e][t.sha].visits + 1
             /\ after[e][t.sha].surprise = t.old \cup {n}
             /\ after[e][t.sha].reward = rows[e][t.sha].reward
  <2>1. rows[e][t.sha] \in StrategyRow /\ rows[e][t.sha].visits = Cardinality(SeenIn(m, "surprise", e, t.sha))
    BY <1>1, RowsHaveFields DEF Kept, CountedIn
  <2>2. rows[e][t.sha].visits + 1 \in 0 .. Attributions
    <3>1. Cardinality(SeenIn(m, "surprise", e, t.sha)) \in 0 .. Cardinality(m)
      BY SeenIsFinite
    <3>2. n \in 1 .. Attributions
      BY DEF Observation
    <3> QED
      BY <1>0, <2>1, <3>1, <3>2
  <2>3. t.old \cup {n} \in SUBSET Observation
    BY DEF Waiting
  <2>4. after[e][t.sha] = Visited(rows[e][t.sha], t.old \cup {n})
    BY <1>1
  <2>5. after[e][t.sha] \in StrategyRow
    BY <2>1, <2>2, <2>3, <2>4 DEF StrategyRow, Visited
  <2> QED
    BY <2>1, <2>4, <2>5, ArchiveAssumption DEF StrategyRow, Visited
<1>2. /\ \A e \in Exps, q \in Shas : after[e][q] = Nothing <=> rows[e][q] = Nothing
      /\ \A q \in Shas : HoldersIn(after, q) = HoldersIn(rows, q)
  <2>1. \A e \in Exps : after[e][t.sha] = Nothing <=> rows[e][t.sha] = Nothing
    BY <1>1
  <2>2. rows \in Rows
    BY DEF Kept
  <2> QED
    BY <2>1, <2>2, UpdateKeepsTypes
<1>3. ASSUME NEW e \in Exps, NEW q \in Shas, rows[e][q] = Nothing \/ q # t.sha
      PROVE  \A what : SeenIn(m \cup {o}, what, e, q) = SeenIn(m, what, e, q)
  <2>1. e \notin o.rows \/ o.sha # q
    BY <1>3 DEF HoldersIn
  <2> QED
    BY <2>1 DEF SeenIn
<1>4. ASSUME NEW e \in Exps, rows[e][t.sha] # Nothing
      PROVE  /\ SeenIn(m \cup {o}, "surprise", e, t.sha) = SeenIn(m, "surprise", e, t.sha) \cup {o}
             /\ SeenIn(m \cup {o}, "reward", e, t.sha) = SeenIn(m, "reward", e, t.sha)
  <2>1. e \in o.rows
    BY <1>4 DEF HoldersIn
  <2> QED
    BY <2>1 DEF SeenIn
<1>5. CountedIn(after, m \cup {o})
  <2>1. ASSUME NEW e \in Exps, NEW s \in Shas, after[e][s] = Nothing,
               NEW p \in m \cup {o}, p.sha = s, e \in p.rows
        PROVE  FALSE
    <3>1. rows[e][s] = Nothing
      BY <1>2, <2>1
    <3>2. p # o
      BY <2>1, <3>1 DEF HoldersIn
    <3> QED
      BY <2>1, <3>1, <3>2 DEF Kept, CountedIn
  <2>2. ASSUME NEW e \in Exps, NEW s \in Shas, after[e][s] # Nothing
        PROVE  after[e][s].visits = Cardinality(SeenIn(m \cup {o}, "surprise", e, s))
    <3>1. rows[e][s] # Nothing
      BY <1>2, <2>2
    <3>2. rows[e][s].visits = Cardinality(SeenIn(m, "surprise", e, s))
      BY <3>1 DEF Kept, CountedIn
    <3>3. CASE s # t.sha
      BY <1>3, <3>2, <3>3
    <3>4. CASE s = t.sha
      <4>1. o \notin SeenIn(m, "surprise", e, s) /\ IsFiniteSet(SeenIn(m, "surprise", e, s))
        <5>1. SeenIn(m, "surprise", e, s) \subseteq m
          BY DEF SeenIn
        <5> QED
          BY <1>0, <5>1, SeenIsFinite
      <4>2. Cardinality(SeenIn(m, "surprise", e, s) \cup {o}) = Cardinality(SeenIn(m, "surprise", e, s)) + 1
        BY <4>1, FS_AddElement
      <4>3. after[e][s].visits = rows[e][s].visits + 1
        BY <1>1, <3>1, <3>4
      <4> QED
        BY <1>4, <3>1, <3>2, <3>4, <4>2, <4>3
    <3> QED
      BY <3>3, <3>4
  <2> QED
    BY <2>1, <2>2 DEF CountedIn
<1>6. RewardedIn(after, m \cup {o})
  <2> SUFFICES ASSUME NEW e \in Exps, NEW s \in Shas, HoldersIn(after, s) = {e}
               PROVE  after[e][s].reward = Ids(SeenIn(m \cup {o}, "reward", e, s))
    BY DEF RewardedIn
  <2>1. HoldersIn(rows, s) = {e} /\ rows[e][s] # Nothing
    <3>1. HoldersIn(rows, s) = {e}
      BY <1>2
    <3>2. e \in HoldersIn(rows, s)
      BY <3>1
    <3> QED
      BY <3>1, <3>2 DEF HoldersIn
  <2>2. rows[e][s].reward = Ids(SeenIn(m, "reward", e, s))
    BY <2>1 DEF Kept, RewardedIn
  <2>3. SeenIn(m \cup {o}, "reward", e, s) = SeenIn(m, "reward", e, s)
    BY <1>3, <1>4, <2>1
  <2>4. after[e][s].reward = rows[e][s].reward
    BY <1>1, <2>1
  <2> QED
    BY <2>2, <2>3, <2>4
<1>7. SurprisedIn(after, m \cup {o})
  <2> SUFFICES ASSUME NEW e \in Exps, NEW s \in Shas, HoldersIn(after, s) = {e},
                      NEW p \in SeenIn(m \cup {o}, "surprise", e, s),
                      OverwritingIn(m \cup {o}, p) = {}
               PROVE  p.id \in after[e][s].surprise
    BY DEF SurprisedIn
  <2>1. HoldersIn(rows, s) = {e} /\ rows[e][s] # Nothing
    <3>1. HoldersIn(rows, s) = {e}
      BY <1>2
    <3>2. e \in HoldersIn(rows, s)
      BY <3>1
    <3> QED
      BY <3>1, <3>2 DEF HoldersIn
  <2>2. OverwritingIn(m, p) = {}
    BY OverwritingGrows
  <2>3. CASE s # t.sha
    <3>1. p \in SeenIn(m, "surprise", e, s) /\ after[e][s] = rows[e][s]
      BY <1>3, <2>3
    <3> QED
      BY <2>1, <2>2, <3>1 DEF Kept, SurprisedIn
  <2>4. CASE s = t.sha /\ p = o
    BY <1>1, <2>1, <2>4
  <2>5. CASE s = t.sha /\ p # o
    <3>1. p \in SeenIn(m, "surprise", e, s) /\ p \in m /\ p.sha = s
      BY <2>5 DEF SeenIn
    <3>2. p.id \in Int /\ p.id < n
      <4>1. p \in Note /\ p.id <= Cardinality(m)
        BY <3>1 DEF Numbered
      <4>2. p.id \in 1 .. Attributions
        BY <4>1 DEF Note, Observation
      <4> QED
        BY <1>0, <4>1, <4>2
    <3>3. ~ (o.since <= p.id)
      BY <2>5, <3>1, <3>2 DEF OverwritingIn
    <3>4. p.id < t.since
      <4>1. t.since \in 1 .. Attributions + 1
        BY DEF Waiting
      <4> QED
        BY <1>0, <3>2, <3>3, <4>1
    <3>5. p.id \in t.old
      BY <2>1, <2>2, <2>5, <3>1, <3>4 DEF Read
    <3> QED
      BY <1>1, <2>1, <2>5, <3>5
  <2> QED
    BY <2>3, <2>4, <2>5
<1> QED
  BY <1>5, <1>6, <1>7 DEF Kept

LEMMA IdsOfOneMore ==
  ASSUME NEW S, NEW o
  PROVE  Ids(S \cup {o}) = Ids(S) \cup {o.id}
BY DEF Ids

\* The reward o, folded into the average of the row `first`.
RewardFolded(rows, m, first, o, after) ==
  /\ o \in Note /\ o.id = Cardinality(m) + 1 /\ o.id \in Observation
  /\ o.what = "reward" /\ o.rows = HoldersIn(rows, o.sha)
  /\ \A e \in Exps : HoldersIn(rows, o.sha) = {e} => first = rows[e][o.sha]
  /\ first.reward \in SUBSET Observation
  /\ after \in Rows
  /\ \A e \in Exps, q \in Shas : q # o.sha => after[e][q] = rows[e][q]
  /\ \A e \in Exps : rows[e][o.sha] = Nothing => after[e][o.sha] = Nothing
  /\ \A e \in Exps : rows[e][o.sha] # Nothing =>
        after[e][o.sha] = WithReward(rows[e][o.sha], first.reward \cup {o.id})

LEMMA RewardKeeps ==
  ASSUME NEW rows, NEW m, Kept(rows, m), Numbered(m),
         NEW first, NEW o, NEW after, RewardFolded(rows, m, first, o, after)
  PROVE  Kept(after, m \cup {o})
<1> DEFINE n == o.id  s == o.sha
<1>a. n = o.id /\ s = o.sha
  OBVIOUS
<1> HIDE DEF n, s
<1> SUFFICES ASSUME s \in Shas, n = Cardinality(m) + 1, n \in Observation,
         o \in Note, o.id = n, o.what = "reward", o.sha = s, o.rows = HoldersIn(rows, s),
         \A e \in Exps : HoldersIn(rows, s) = {e} => first = rows[e][s],
         first.reward \in SUBSET Observation,
         after \in Rows,
         \A e \in Exps, q \in Shas : q # s => after[e][q] = rows[e][q],
         \A e \in Exps : rows[e][s] = Nothing => after[e][s] = Nothing,
         \A e \in Exps : rows[e][s] # Nothing =>
            after[e][s] = WithReward(rows[e][s], first.reward \cup {n})
         PROVE  Kept(after, m \cup {o})
  BY <1>a DEF RewardFolded, Note
<1>0. o \notin m /\ Numbered(m \cup {o})
  BY NoteIsNew
<1>1. ASSUME NEW e \in Exps, rows[e][s] # Nothing
      PROVE  /\ after[e][s] # Nothing
             /\ after[e][s].visits = rows[e][s].visits
             /\ after[e][s].surprise = rows[e][s].surprise
             /\ after[e][s].reward = first.reward \cup {n}
  <2>1. rows[e][s] \in StrategyRow
    BY <1>1, RowsHaveFields DEF Kept
  <2>2. after[e][s] = WithReward(rows[e][s], first.reward \cup {n})
    BY <1>1
  <2>3. after[e][s] \in StrategyRow
    BY <2>1, <2>2 DEF StrategyRow, WithReward
  <2> QED
    BY <2>1, <2>2, <2>3, ArchiveAssumption DEF StrategyRow, WithReward
<1>2. /\ \A e \in Exps, q \in Shas : after[e][q] = Nothing <=> rows[e][q] = Nothing
      /\ \A q \in Shas : HoldersIn(after, q) = HoldersIn(rows, q)
  <2>1. \A e \in Exps : after[e][s] = Nothing <=> rows[e][s] = Nothing
    BY <1>1
  <2>2. rows \in Rows
    BY DEF Kept
  <2> QED
    BY <2>1, <2>2, UpdateKeepsTypes
<1>3. ASSUME NEW e \in Exps, NEW q \in Shas, rows[e][q] = Nothing \/ q # s
      PROVE  \A what : SeenIn(m \cup {o}, what, e, q) = SeenIn(m, what, e, q)
  <2>1. e \notin o.rows \/ o.sha # q
    BY <1>3 DEF HoldersIn
  <2> QED
    BY <2>1 DEF SeenIn
<1>4. ASSUME NEW e \in Exps, NEW q \in Shas
      PROVE  SeenIn(m \cup {o}, "surprise", e, q) = SeenIn(m, "surprise", e, q)
  BY DEF SeenIn
<1>5. ASSUME NEW e \in Exps, NEW q \in Shas, rows[e][q] # Nothing
      PROVE  after[e][q].visits = rows[e][q].visits /\ after[e][q].surprise = rows[e][q].surprise
  BY <1>1, <1>5
<1>6. CountedIn(after, m \cup {o})
  <2>1. ASSUME NEW e \in Exps, NEW q \in Shas, after[e][q] = Nothing,
               NEW p \in m \cup {o}, p.sha = q, e \in p.rows
        PROVE  FALSE
    <3>1. rows[e][q] = Nothing
      BY <1>2, <2>1
    <3>2. p # o
      BY <2>1, <3>1 DEF HoldersIn
    <3> QED
      BY <2>1, <3>1, <3>2 DEF Kept, CountedIn
  <2>2. ASSUME NEW e \in Exps, NEW q \in Shas, after[e][q] # Nothing
        PROVE  after[e][q].visits = Cardinality(SeenIn(m \cup {o}, "surprise", e, q))
    <3>1. rows[e][q] # Nothing
      BY <1>2, <2>2
    <3>2. rows[e][q].visits = Cardinality(SeenIn(m, "surprise", e, q))
      BY <3>1 DEF Kept, CountedIn
    <3> QED
      BY <1>4, <1>5, <3>1, <3>2
  <2> QED
    BY <2>1, <2>2 DEF CountedIn
<1>7. RewardedIn(after, m \cup {o})
  <2> SUFFICES ASSUME NEW e \in Exps, NEW q \in Shas, HoldersIn(after, q) = {e}
               PROVE  after[e][q].reward = Ids(SeenIn(m \cup {o}, "reward", e, q))
    BY DEF RewardedIn
  <2>1. HoldersIn(rows, q) = {e} /\ rows[e][q] # Nothing
    BY <1>2 DEF HoldersIn
  <2>2. rows[e][q].reward = Ids(SeenIn(m, "reward", e, q))
    BY <2>1 DEF Kept, RewardedIn
  <2>3. CASE q # s
    BY <1>3, <2>2, <2>3
  <2>4. CASE q = s
    <3>1. e \in o.rows
      BY <2>1, <2>4
    <3>2. SeenIn(m \cup {o}, "reward", e, q) = SeenIn(m, "reward", e, q) \cup {o}
      BY <2>4, <3>1 DEF SeenIn
    <3>3. Ids(SeenIn(m \cup {o}, "reward", e, q)) = Ids(SeenIn(m, "reward", e, q)) \cup {n}
      <4>1. Ids(SeenIn(m, "reward", e, q) \cup {o}) = Ids(SeenIn(m, "reward", e, q)) \cup {o.id}
        BY IdsOfOneMore
      <4>2. {o.id} = {n}
        OBVIOUS
      <4> QED
        BY <3>2, <4>1, <4>2
    <3>4. after[e][q].reward = rows[e][q].reward \cup {n}
      BY <1>1, <2>1, <2>4
    <3> QED
      BY <2>2, <3>3, <3>4
  <2> QED
    BY <2>3, <2>4
<1>8. SurprisedIn(after, m \cup {o})
  <2> SUFFICES ASSUME NEW e \in Exps, NEW q \in Shas, HoldersIn(after, q) = {e},
                      NEW p \in SeenIn(m \cup {o}, "surprise", e, q),
                      OverwritingIn(m \cup {o}, p) = {}
               PROVE  p.id \in after[e][q].surprise
    BY DEF SurprisedIn
  <2>1. HoldersIn(rows, q) = {e} /\ rows[e][q] # Nothing
    BY <1>2 DEF HoldersIn
  <2>2. OverwritingIn(m, p) = {} /\ p \in SeenIn(m, "surprise", e, q)
    BY <1>4, OverwritingGrows
  <2> QED
    BY <1>5, <2>1, <2>2 DEF Kept, SurprisedIn
<1> QED
  BY <1>6, <1>7, <1>8 DEF Kept
\* The tables have their two fields, whatever an action makes of them.
LEMMA EdgesAreRefused == EdgesRefused
<1>1. "experiment_id" \in PrimaryKey /\ "experiment_id" \notin {"sha"}
  BY DEF PrimaryKey
<1> QED
  BY <1>1 DEF EdgesRefused

LEMMA InsertedIsARow ==
  ASSUME NEW rows \in Rows, NEW x \in Exps, NEW q \in Shas, NEW kind \in Kinds
  PROVE  /\ Inserted(rows, x, q, kind) \in Rows
         /\ \A e \in Exps, s \in Shas :
              Inserted(rows, x, q, kind)[e][s] =
                IF e = x /\ s = q /\ rows[e][s] = Nothing THEN New(kind) ELSE rows[e][s]
<1>1. New(kind) \in StrategyRow
  BY NewIsARow
<1> QED
  BY <1>1 DEF Inserted, Rows

\* What an insertion of rows does to the invariant, committed or not.
LEMMA InsertStep ==
  ASSUME ArchiveInv, UNCHANGED <<task, made>>,
         view' = [rows |-> view'.rows, edges |-> view.edges], view'.rows \in Rows,
         \A e \in Exps, s \in Shas :
            \/ view'.rows[e][s] = view.rows[e][s]
            \/ view.rows[e][s] = Nothing /\ \E kind \in Kinds : view'.rows[e][s] = New(kind),
         db' = view' \/ db' = db
  PROVE  ArchiveInv'
<1>1. /\ Kept(view'.rows, made)
      /\ \A s \in Shas : HoldersIn(view.rows, s) \subseteq HoldersIn(view'.rows, s)
      /\ \A t \in Waiting : Read(t, view.rows, made) => Read(t, view'.rows, made)
  BY InsertKeeps DEF ArchiveInv
<1>2. view'.edges = view.edges
  <2> DEFINE r == view'.rows
  <2>1. view' = [rows |-> r, edges |-> view.edges]
    OBVIOUS
  <2> HIDE DEF r
  <2> QED
    BY <2>1
<1>3. Kept(db'.rows, made)
  BY <1>1 DEF ArchiveInv
<1>4. \A s \in Shas : HoldersIn(db'.rows, s) \subseteq HoldersIn(view'.rows, s)
  BY <1>1 DEF ArchiveInv
<1>5. \A l \in Lineages : task[l] # Nothing => Read(task[l], view'.rows, made)
  <2>1. \A l \in Lineages : task[l] # Nothing => task[l] \in Waiting /\ Read(task[l], view.rows, made)
    BY DEF ArchiveInv
  <2> QED
    BY <1>1, <2>1
<1>6. /\ db'.rows \in Rows /\ db' = [rows |-> db'.rows, edges |-> db'.edges]
      /\ db'.edges \in SUBSET (ParentShas \X Shas)
  BY <1>2 DEF ArchiveInv
<1>7. view' = [rows |-> view'.rows, edges |-> view'.edges] /\ view'.edges \in SUBSET (ParentShas \X Shas)
  BY <1>2 DEF ArchiveInv
<1> QED
  BY <1>1, <1>3, <1>4, <1>5, <1>6, <1>7 DEF ArchiveInv

LEMMA AddKeepsArchive ==
  ASSUME ArchiveInv, NEW e \in Exps, NEW s \in Shas, NEW kind \in Kinds,
         NEW parents \in SUBSET ParentShas, AddStrategy(e, s, kind, parents)
  PROVE  ArchiveInv'
<1>1. view' = [rows |-> Inserted(view.rows, e, s, kind), edges |-> view.edges]
  BY EdgesAreRefused DEF AddStrategy
<1>2. view'.rows = Inserted(view.rows, e, s, kind)
  BY <1>1
<1>3. /\ view'.rows \in Rows
      /\ \A f \in Exps, q \in Shas :
           view'.rows[f][q] =
             IF f = e /\ q = s /\ view.rows[f][q] = Nothing THEN New(kind) ELSE view.rows[f][q]
  BY <1>2, InsertedIsARow DEF ArchiveInv
<1>4. \A f \in Exps, q \in Shas :
         \/ view'.rows[f][q] = view.rows[f][q]
         \/ view.rows[f][q] = Nothing /\ \E k \in Kinds : view'.rows[f][q] = New(k)
  BY <1>3
<1>5. view' = [rows |-> view'.rows, edges |-> view.edges]
  BY <1>1, <1>2
<1>6. db' = view' \/ db' = db
  BY DEF AddStrategy, Commit
<1>7. UNCHANGED <<task, made>>
  BY DEF AddStrategy
<1> QED
  BY <1>3, <1>4, <1>5, <1>6, <1>7, InsertStep

LEMMA TransferKeepsArchive ==
  ASSUME ArchiveInv, NEW dest \in Exps, NEW problem, Transfer(dest, problem)
  PROVE  ArchiveInv'
<1>0. view.rows \in Rows /\ view = [rows |-> view.rows, edges |-> view.edges]
  BY DEF ArchiveInv
<1>11. PICK shas \in SUBSET Shas \ {{}} : \E source \in [shas -> Exps] :
        /\ \A s \in shas : <<source[s], s>> \in Rewarding(problem)
        /\ view' = [view EXCEPT !.rows[dest] = [s \in Shas |->
              IF s \in shas
              THEN Inserted(view.rows, dest, s, view.rows[source[s]][s].kind)[dest][s]
              ELSE view.rows[dest][s]]]
  BY DEF Transfer
<1>1. PICK source \in [shas -> Exps] :
        /\ \A s \in shas : <<source[s], s>> \in Rewarding(problem)
        /\ view' = [view EXCEPT !.rows[dest] = [s \in Shas |->
              IF s \in shas
              THEN Inserted(view.rows, dest, s, view.rows[source[s]][s].kind)[dest][s]
              ELSE view.rows[dest][s]]]
  BY <1>11
<1>2. ASSUME NEW s \in shas
      PROVE  view.rows[source[s]][s].kind \in Kinds
  <2>1. source[s] \in Exps /\ s \in Shas /\ view.rows[source[s]][s] # Nothing
    BY <1>1 DEF Rewarding
  <2> QED
    BY <1>0, <2>1, RowsHaveFields DEF StrategyRow
<1>3. ASSUME NEW s \in Shas
      PROVE  LET row == IF s \in shas
                        THEN Inserted(view.rows, dest, s, view.rows[source[s]][s].kind)[dest][s]
                        ELSE view.rows[dest][s]
             IN  /\ row \in StrategyRow \cup {Nothing}
                 /\ \/ row = view.rows[dest][s]
                    \/ view.rows[dest][s] = Nothing /\ \E k \in Kinds : row = New(k)
  <2>1. CASE s \in shas
    <3>1. view.rows[source[s]][s].kind \in Kinds
      BY <1>2, <2>1
    <3> DEFINE kind == view.rows[source[s]][s].kind
    <3> HIDE DEF kind
    <3>2. kind \in Kinds
      BY <3>1 DEF kind
    <3>3. Inserted(view.rows, dest, s, kind)[dest][s] =
             IF view.rows[dest][s] = Nothing THEN New(kind) ELSE view.rows[dest][s]
      BY <1>0, <3>2, InsertedIsARow
    <3>4. New(kind) \in StrategyRow
      BY <3>2, NewIsARow
    <3>5. view.rows[dest][s] \in StrategyRow \cup {Nothing}
      BY <1>0 DEF Rows
    <3> QED
      BY <2>1, <3>2, <3>3, <3>4, <3>5 DEF kind
  <2>2. CASE s \notin shas
    BY <1>0, <2>2 DEF Rows
  <2> QED
    BY <2>1, <2>2
<1> DEFINE rowOf(s) == IF s \in shas
                       THEN Inserted(view.rows, dest, s, view.rows[source[s]][s].kind)[dest][s]
                       ELSE view.rows[dest][s]
<1>4. /\ \A s \in Shas : rowOf(s) \in StrategyRow \cup {Nothing}
      /\ \A s \in Shas : \/ rowOf(s) = view.rows[dest][s]
                         \/ view.rows[dest][s] = Nothing /\ \E k \in Kinds : rowOf(s) = New(k)
  BY <1>3
<1>5. view' = [view EXCEPT !.rows[dest] = [s \in Shas |-> rowOf(s)]]
  BY <1>1
<1> HIDE DEF rowOf
<1>6. /\ view'.rows = [view.rows EXCEPT ![dest] = [s \in Shas |-> rowOf(s)]]
      /\ view'.edges = view.edges
      /\ view' = [rows |-> view'.rows, edges |-> view.edges]
  BY <1>0, <1>5
<1>7. view'.rows \in Rows
  BY <1>0, <1>4, <1>6 DEF Rows
<1>8. ASSUME NEW f \in Exps, NEW q \in Shas
      PROVE  \/ view'.rows[f][q] = view.rows[f][q]
             \/ view.rows[f][q] = Nothing /\ \E k \in Kinds : view'.rows[f][q] = New(k)
  <2>1. CASE f = dest
    <3>1. view'.rows[f][q] = rowOf(q)
      BY <1>0, <1>6, <2>1 DEF Rows
    <3> QED
      BY <1>4, <2>1, <3>1
  <2>2. CASE f # dest
    BY <1>0, <1>6, <2>2 DEF Rows
  <2> QED
    BY <2>1, <2>2
<1>9. db' = view' /\ UNCHANGED <<task, made>>
  BY DEF Transfer, Commit
<1> QED
  BY <1>6, <1>7, <1>8, <1>9, InsertStep

\* A commit of what the connection sees, and a restart.
LEMMA CommitKeepsArchive == ArchiveInv /\ CommitElsewhere => ArchiveInv'
BY DEF ArchiveInv, CommitElsewhere, Commit

LEMMA RestartKeepsArchive == ArchiveInv /\ Restart => ArchiveInv'
<1> SUFFICES ASSUME ArchiveInv, Restart PROVE ArchiveInv'
  OBVIOUS
<1>1. /\ task' \in [Lineages -> Waiting \cup {Nothing}]
      /\ \A l \in Lineages : task'[l] = Nothing
  BY DEF Restart
<1>2. view' = db /\ db' = db /\ made' = made
  BY DEF Restart
<1> QED
  BY <1>1, <1>2 DEF ArchiveInv

LEMMA AskKeepsArchive ==
  ASSUME ArchiveInv, NEW l \in Lineages, NEW e \in Exps, NEW s \in Shas, AskGuide(l, e, s)
  PROVE  ArchiveInv'
<1>0. /\ view.rows \in Rows /\ Numbered(made) /\ Kept(view.rows, made)
      /\ task \in [Lineages -> Waiting \cup {Nothing}]
  BY DEF ArchiveInv
<1> DEFINE t == [exp |-> e, sha |-> s, old |-> First(s).surprise, since |-> Fresh]
<1>1. task' = [task EXCEPT ![l] = t] /\ UNCHANGED <<view, db, made>> /\ Holders(s) # {}
  BY DEF AskGuide
<1>2. PICK f \in Holders(s) : First(s) = view.rows[f][s]
  BY <1>0, <1>1, FirstIsARow
<1>3. First(s) \in StrategyRow
  BY <1>0, <1>2, RowsHaveFields DEF Holders
<1>4. Fresh \in 1 .. Attributions + 1
  BY <1>0, ArchiveAssumption DEF Fresh, Numbered
<1>5. t \in Waiting
  BY <1>3, <1>4 DEF Waiting, StrategyRow
<1>6. Read(t, view.rows, made)
  <2>1. ASSUME NEW x \in Exps, HoldersIn(view.rows, s) = {x},
               NEW o \in SeenIn(made, "surprise", x, s), OverwritingIn(made, o) = {}
        PROVE  o.id \in First(s).surprise
    <3>1. First(s) = view.rows[x][s]
      BY <1>2, <2>1 DEF Holders, HoldersIn
    <3> QED
      BY <1>0, <2>1, <3>1 DEF Kept, SurprisedIn
  <2>2. HoldersIn(view.rows, s) # {}
    BY <1>1 DEF Holders, HoldersIn
  <2>3. t.since <= Cardinality(made) + 1
    BY <1>4 DEF Fresh
  <2> QED
    BY <2>1, <2>2, <2>3 DEF Read
<1> HIDE DEF t
<1>7. \A k \in Lineages : task'[k] # Nothing => Read(task'[k], view.rows, made)
  BY <1>0, <1>1, <1>6 DEF ArchiveInv
<1>8. task' \in [Lineages -> Waiting \cup {Nothing}]
  BY <1>0, <1>1, <1>5
<1> QED
  BY <1>1, <1>7, <1>8 DEF ArchiveInv

LEMMA RefusalKeepsArchive ==
  ASSUME ArchiveInv, NEW l \in Lineages, GuideRefuses(l)
  PROVE  ArchiveInv'
<1>0. task \in [Lineages -> Waiting \cup {Nothing}]
  BY DEF ArchiveInv
<1>1. task' = [task EXCEPT ![l] = Nothing] /\ UNCHANGED <<view, db, made>>
  BY DEF GuideRefuses
<1>2. task' \in [Lineages -> Waiting \cup {Nothing}]
  BY <1>0, <1>1
<1>3. \A k \in Lineages : task'[k] # Nothing => Read(task'[k], view.rows, made)
  BY <1>0, <1>1 DEF ArchiveInv
<1> QED
  BY <1>1, <1>2, <1>3 DEF ArchiveInv

\* What a committed observation does to the invariant.
LEMMA ObservedStep ==
  ASSUME ArchiveInv, NEW o \in Note, o.id = Cardinality(made) + 1,
         o.id \in Observation, made' = made \cup {o},
         view' = [view EXCEPT !.rows = view'.rows], db' = view', view'.rows \in Rows,
         Kept(view'.rows, made'),
         \A s \in Shas : HoldersIn(view'.rows, s) = HoldersIn(view.rows, s),
         task' \in [Lineages -> Waiting \cup {Nothing}],
         \A l \in Lineages : task'[l] = task[l] \/ task'[l] = Nothing
  PROVE  ArchiveInv'
<1>1. o \notin made /\ Numbered(made') /\ Cardinality(made \cup {o}) = o.id
  BY NoteIsNew DEF ArchiveInv
<1>2. ASSUME NEW l \in Lineages, task'[l] # Nothing
      PROVE  Read(task'[l], view'.rows, made')
  <2>1. task'[l] = task[l] /\ task[l] \in Waiting /\ Read(task[l], view.rows, made) /\ Numbered(made)
    BY <1>2 DEF ArchiveInv
  <2> QED
    BY <1>1, <2>1, ReadersKeep
<1>3. view'.edges = view.edges /\ view' = [rows |-> view'.rows, edges |-> view'.edges]
  <2> DEFINE r == view'.rows
  <2>1. view = [rows |-> view.rows, edges |-> view.edges] /\ view' = [view EXCEPT !.rows = r]
    BY DEF ArchiveInv
  <2> HIDE DEF r
  <2> QED
    BY <2>1
<1>4. view'.edges \in SUBSET (ParentShas \X Shas)
  BY <1>3 DEF ArchiveInv
<1> QED
  BY <1>1, <1>2, <1>3, <1>4 DEF ArchiveInv
LEMMA SurpriseKeepsArchive ==
  ASSUME ArchiveInv, NEW l \in Lineages, AttributeSurprise(l)
  PROVE  ArchiveInv'
<1> DEFINE t == task[l]  n == Fresh
           o == [id |-> n, what |-> "surprise", exp |-> t.exp, sha |-> t.sha,
                 rows |-> Holders(t.sha), since |-> t.since]
           after == Updated(t.sha, LAMBDA row : Surprised(row, t.old))
<1>0. /\ view.rows \in Rows /\ Numbered(made) /\ Kept(view.rows, made)
      /\ task \in [Lineages -> Waiting \cup {Nothing}]
      /\ view = [rows |-> view.rows, edges |-> view.edges]
  BY DEF ArchiveInv
<1>1. /\ t # Nothing /\ n \in Observation
      /\ view' = [view EXCEPT !.rows = after] /\ db' = view'
      /\ made' = made \cup {o} /\ task' = [task EXCEPT ![l] = Nothing]
  BY DEF AttributeSurprise, Commit, Noted
<1>2. t \in Waiting /\ Read(t, view.rows, made)
  BY <1>0, <1>1 DEF ArchiveInv
<1>3. t.exp \in Exps /\ t.sha \in Shas /\ t.old \in SUBSET Observation
      /\ t.since \in 1 .. Attributions + 1
  BY <1>2 DEF Waiting
<1>4. n = Cardinality(made) + 1
  BY DEF Fresh
<1>5. o \in Note
  <2>1. t.since \in Observation
    <3>1. t.since <= n /\ Attributions \in Nat
      BY <1>2, <1>4, ArchiveAssumption DEF Read
    <3> QED
      BY <1>1, <1>3, <3>1 DEF Observation
  <2>2. Holders(t.sha) \in SUBSET Exps
    BY DEF Holders
  <2> QED
    BY <1>1, <1>3, <2>1, <2>2 DEF Note
<1>6. after = [e \in Exps |-> [view.rows[e] EXCEPT ![t.sha] =
                  IF view.rows[e][t.sha] = Nothing THEN Nothing
                  ELSE Visited(view.rows[e][t.sha], t.old \cup {n})]]
  BY DEF Updated, Surprised, Visited
<1>7. /\ o.id = n /\ o.what = "surprise" /\ o.sha = t.sha /\ o.since = t.since
      /\ o.rows = HoldersIn(view.rows, t.sha)
  BY DEF Holders, HoldersIn
<1>8. view'.rows = after
  BY <1>0, <1>1
<1> HIDE DEF after, o, n, t
<1>9. \A e \in Exps : view.rows[e] \in [Shas -> StrategyRow \cup {Nothing}]
  BY <1>0 DEF Rows
<1>10. /\ \A e \in Exps, q \in Shas : q # t.sha => after[e][q] = view.rows[e][q]
       /\ \A e \in Exps : view.rows[e][t.sha] = Nothing => after[e][t.sha] = Nothing
       /\ \A e \in Exps : view.rows[e][t.sha] # Nothing =>
             after[e][t.sha] = Visited(view.rows[e][t.sha], t.old \cup {n})
  BY <1>3, <1>6, <1>9
<1>11. ASSUME NEW e \in Exps, view.rows[e][t.sha] # Nothing
       PROVE  Visited(view.rows[e][t.sha], t.old \cup {n}) \in StrategyRow
  <2>1. /\ view.rows[e][t.sha] \in StrategyRow
        /\ view.rows[e][t.sha].visits = Cardinality(SeenIn(made, "surprise", e, t.sha))
    BY <1>0, <1>3, <1>11, RowsHaveFields DEF Kept, CountedIn
  <2>2. Cardinality(SeenIn(made, "surprise", e, t.sha)) \in 0 .. Cardinality(made)
    BY <1>0, SeenIsFinite
  <2>3. n \in 1 .. Attributions /\ Attributions \in Nat /\ Cardinality(made) \in Nat
    BY <1>0, <1>1, ArchiveAssumption DEF Observation, Numbered
  <2>4. view.rows[e][t.sha].visits + 1 \in 0 .. Attributions
    BY <1>4, <2>1, <2>2, <2>3
  <2>5. t.old \cup {n} \in SUBSET Observation
    BY <1>1, <1>3
  <2> QED
    BY <2>1, <2>4, <2>5 DEF Visited, StrategyRow
<1>12. after \in Rows
  BY <1>3, <1>6, <1>9, <1>11 DEF Rows
<1>13. Kept(after, made \cup {o})
  <2>1. SurpriseFolded(view.rows, made, t, o, after)
    BY <1>1, <1>2, <1>3, <1>4, <1>5, <1>7, <1>10, <1>12 DEF SurpriseFolded
  <2> QED
    BY <1>0, <2>1, SurpriseKeeps
<1>14. \A q \in Shas : HoldersIn(after, q) = HoldersIn(view.rows, q)
  <2>1. \A e \in Exps : after[e][t.sha] = Nothing <=> view.rows[e][t.sha] = Nothing
    BY <1>10, <1>11, ArchiveAssumption
  <2> QED
    BY <1>0, <1>3, <1>10, <1>12, <2>1, UpdateKeepsTypes
<1>15. /\ task' \in [Lineages -> Waiting \cup {Nothing}]
       /\ \A k \in Lineages : task'[k] = task[k] \/ task'[k] = Nothing
  BY <1>0, <1>1
<1>16. view' = [view EXCEPT !.rows = view'.rows]
  BY <1>1, <1>8
<1>17. Kept(view'.rows, made') /\ view'.rows \in Rows
       /\ \A q \in Shas : HoldersIn(view'.rows, q) = HoldersIn(view.rows, q)
  BY <1>1, <1>8, <1>12, <1>13, <1>14
<1>18. o \in Note /\ o.id = Cardinality(made) + 1 /\ o.id \in Observation
  BY <1>1, <1>4, <1>5, <1>7
<1>19. made' = made \cup {o} /\ db' = view'
  BY <1>1
<1> QED
  BY <1>15, <1>16, <1>17, <1>18, <1>19, ObservedStep

LEMMA RewardKeepsArchive ==
  ASSUME ArchiveInv, NEW x \in Exps, NEW s \in Shas, AttributeReward(x, s)
  PROVE  ArchiveInv'
<1> DEFINE n == Fresh
           o == [id |-> n, what |-> "reward", exp |-> x, sha |-> s,
                 rows |-> Holders(s), since |-> n]
           after == Rewarded(x, s)
           first == First(s)
<1>0. /\ view.rows \in Rows /\ Numbered(made) /\ Kept(view.rows, made)
      /\ task \in [Lineages -> Waiting \cup {Nothing}]
      /\ view = [rows |-> view.rows, edges |-> view.edges]
  BY DEF ArchiveInv
<1>1. /\ n \in Observation /\ Holders(s) # {}
      /\ view' = [view EXCEPT !.rows = after] /\ db' = view'
      /\ made' = made \cup {o} /\ task' = task
  BY DEF AttributeReward, Commit, Noted
<1>2. PICK f \in Holders(s) : first = view.rows[f][s]
  BY <1>0, <1>1, FirstIsARow
<1>3. first \in StrategyRow /\ \A e \in Exps : HoldersIn(view.rows, s) = {e} => first = view.rows[e][s]
  BY <1>0, <1>2, RowsHaveFields DEF Holders, HoldersIn
<1>4. n = Cardinality(made) + 1
  BY DEF Fresh
<1>5. o \in Note
  <2>1. Holders(s) \in SUBSET Exps
    BY DEF Holders
  <2> QED
    BY <1>1, <2>1 DEF Note
<1>6. after = [e \in Exps |-> [view.rows[e] EXCEPT ![s] =
                  IF view.rows[e][s] = Nothing THEN Nothing
                  ELSE WithReward(view.rows[e][s], first.reward \cup {n})]]
  BY DEF Rewarded, Updated, WithReward
<1>7. o.id = n /\ o.what = "reward" /\ o.sha = s /\ o.rows = HoldersIn(view.rows, s)
  BY DEF Holders, HoldersIn
<1>8. view'.rows = after
  BY <1>0, <1>1
<1> HIDE DEF after, o, n, first
<1>9. \A e \in Exps : view.rows[e] \in [Shas -> StrategyRow \cup {Nothing}]
  BY <1>0 DEF Rows
<1>10. /\ \A e \in Exps, q \in Shas : q # s => after[e][q] = view.rows[e][q]
       /\ \A e \in Exps : view.rows[e][s] = Nothing => after[e][s] = Nothing
       /\ \A e \in Exps : view.rows[e][s] # Nothing =>
             after[e][s] = WithReward(view.rows[e][s], first.reward \cup {n})
  BY <1>6, <1>9
<1>11. first.reward \in SUBSET Observation
  BY <1>3 DEF StrategyRow
<1>12. ASSUME NEW e \in Exps, view.rows[e][s] # Nothing
       PROVE  WithReward(view.rows[e][s], first.reward \cup {n}) \in StrategyRow
  <2>1. view.rows[e][s] \in StrategyRow
    BY <1>0, <1>12, RowsHaveFields
  <2> QED
    BY <1>1, <1>11, <2>1 DEF WithReward, StrategyRow
<1>13. after \in Rows
  BY <1>6, <1>9, <1>12 DEF Rows
<1>14. Kept(after, made \cup {o})
  <2>1. RewardFolded(view.rows, made, first, o, after)
    BY <1>1, <1>3, <1>4, <1>5, <1>7, <1>10, <1>11, <1>13 DEF RewardFolded
  <2> QED
    BY <1>0, <2>1, RewardKeeps
<1>15. \A q \in Shas : HoldersIn(after, q) = HoldersIn(view.rows, q)
  <2>1. \A e \in Exps : after[e][s] = Nothing <=> view.rows[e][s] = Nothing
    BY <1>10, <1>12, ArchiveAssumption
  <2> QED
    BY <1>0, <1>10, <1>13, <2>1, UpdateKeepsTypes
<1>16. view' = [view EXCEPT !.rows = view'.rows]
  BY <1>1, <1>8
<1>17. Kept(view'.rows, made') /\ view'.rows \in Rows
       /\ \A q \in Shas : HoldersIn(view'.rows, q) = HoldersIn(view.rows, q)
  BY <1>1, <1>8, <1>13, <1>14, <1>15
<1>18. o \in Note /\ o.id = Cardinality(made) + 1 /\ o.id \in Observation
  BY <1>1, <1>4, <1>5, <1>7
<1>19. /\ made' = made \cup {o} /\ db' = view'
       /\ task' \in [Lineages -> Waiting \cup {Nothing}]
       /\ \A k \in Lineages : task'[k] = task[k] \/ task'[k] = Nothing
  BY <1>0, <1>1
<1> QED
  BY <1>16, <1>17, <1>18, <1>19, ObservedStep

LEMMA ArchiveStarts == ArchiveInit => ArchiveInv
<1> SUFFICES ASSUME ArchiveInit PROVE ArchiveInv
  OBVIOUS
<1> DEFINE rows == [e \in Exps |-> [s \in Shas |-> Nothing]]
<1>1. /\ view = [rows |-> rows, edges |-> {}] /\ db = [rows |-> rows, edges |-> {}]
      /\ made = {} /\ task = [l \in Lineages |-> Nothing]
  BY DEF ArchiveInit
<1>2. view.rows = rows /\ db.rows = rows /\ view.edges = {} /\ db.edges = {}
  BY <1>1
<1>3. rows \in Rows /\ \A e \in Exps, s \in Shas : rows[e][s] = Nothing
  BY DEF Rows
<1> HIDE DEF rows
<1>4. \A s \in Shas : HoldersIn(rows, s) = {}
  BY <1>3 DEF HoldersIn
<1>5. Numbered({})
  BY FS_EmptySet, ArchiveAssumption DEF Numbered
<1>6. Kept(rows, {})
  <2>1. CountedIn(rows, {})
    BY <1>3 DEF CountedIn
  <2>2. RewardedIn(rows, {}) /\ SurprisedIn(rows, {})
    BY <1>4 DEF RewardedIn, SurprisedIn
  <2> QED
    BY <1>3, <2>1, <2>2 DEF Kept
<1>7. task \in [Lineages -> Waiting \cup {Nothing}] /\ \A l \in Lineages : task[l] = Nothing
  BY <1>1
<1> QED
  BY <1>1, <1>2, <1>3, <1>5, <1>6, <1>7 DEF ArchiveInv

LEMMA ArchiveStep == ArchiveInv /\ [ArchiveNext]_archiveVars => ArchiveInv'
<1> SUFFICES ASSUME ArchiveInv, [ArchiveNext]_archiveVars PROVE ArchiveInv'
  OBVIOUS
<1>1. ASSUME NEW e \in Exps, NEW s \in Shas, NEW kind \in Kinds,
             NEW parents \in SUBSET ParentShas, AddStrategy(e, s, kind, parents)
      PROVE  ArchiveInv'
  BY <1>1, AddKeepsArchive
<1>2. ASSUME NEW l \in Lineages, NEW e \in Exps, NEW s \in Shas, AskGuide(l, e, s)
      PROVE  ArchiveInv'
  BY <1>2, AskKeepsArchive
<1>3. ASSUME NEW l \in Lineages, AttributeSurprise(l) \/ GuideRefuses(l)
      PROVE  ArchiveInv'
  BY <1>3, SurpriseKeepsArchive, RefusalKeepsArchive
<1>4. ASSUME NEW e \in Exps, NEW s \in Shas, AttributeReward(e, s)
      PROVE  ArchiveInv'
  BY <1>4, RewardKeepsArchive
<1>5. ASSUME NEW e \in Exps, NEW f \in Exps, Transfer(e, Problem[f])
      PROVE  ArchiveInv'
  BY <1>5, TransferKeepsArchive
<1>6. CASE CommitElsewhere \/ Restart
  BY <1>6, CommitKeepsArchive, RestartKeepsArchive
<1>7. CASE UNCHANGED archiveVars
  BY <1>7 DEF ArchiveInv, archiveVars
<1> QED
  BY <1>1, <1>2, <1>3, <1>4, <1>5, <1>6, <1>7 DEF ArchiveNext

LEMMA ArchiveInvariant == ArchiveSpec => []ArchiveInv
BY ArchiveStarts, ArchiveStep, PTL DEF ArchiveSpec

\* The tables, the coroutines and the history keep their types: no row counts
\* more visits than there were observations.
THEOREM ArchiveTypeCorrect == ArchiveSpec => []ArchiveTypeOK
<1>1. ArchiveInv => ArchiveTypeOK
  <2> SUFFICES ASSUME ArchiveInv PROVE ArchiveTypeOK
    OBVIOUS
  <2>1. view \in Tables /\ db \in Tables
    BY DEF ArchiveInv, Rows, Tables
  <2> QED
    BY <2>1 DEF ArchiveInv, ArchiveTypeOK, Waiting, Numbered, Note
<1> QED
  BY <1>1, ArchiveInvariant, PTL

\* Whatever coroutines wait for the model at once, strategies are transferred
\* or added again, and restarts fall between insertion and commit: the visits
\* of a row are the surprises attributed to it, and no reward and no surprise
\* but an overwritten one is lost from the average of an experiment's own.
THEOREM AttributionsAreKept == ArchiveSpec => []AttributionsKept
<1>1. ArchiveInv => AttributionsKept
  <2> SUFFICES ASSUME ArchiveInv PROVE AttributionsKept
    OBVIOUS
  <2>0. Kept(db.rows, made)
    BY DEF ArchiveInv
  <2>1. \A what, e, s : Seen(what, e, s) = SeenIn(made, what, e, s)
    BY DEF Seen, SeenIn
  <2>2. \A o : Overwriting(o) = OverwritingIn(made, o)
    BY DEF Overwriting, OverwritingIn
  <2>3. ASSUME NEW e \in Exps, NEW s \in Shas, Own(e, s)
        PROVE  HoldersIn(db.rows, s) = {e}
    <3>1. HoldersIn(db.rows, s) \subseteq HoldersIn(view.rows, s)
      BY DEF ArchiveInv
    <3>2. HoldersIn(view.rows, s) = {e} /\ e \in HoldersIn(db.rows, s)
      BY <2>3 DEF Own, Holders, HoldersIn
    <3> QED
      BY <3>1, <3>2
  <2>4. VisitsCounted
    BY <2>0, <2>1 DEF VisitsCounted, Kept, CountedIn
  <2>5. RewardsKept
    BY <2>0, <2>1, <2>3 DEF RewardsKept, Kept, RewardedIn
  <2>6. SurpriseKept
    BY <2>0, <2>1, <2>2, <2>3 DEF SurpriseKept, Kept, SurprisedIn
  <2> QED
    BY <2>4, <2>5, <2>6 DEF AttributionsKept
<1> QED
  BY <1>1, ArchiveInvariant, PTL
=============================================================================
