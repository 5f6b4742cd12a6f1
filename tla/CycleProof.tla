----------------------------- MODULE CycleProof -----------------------------
(***************************************************************************)
(* What module MCCycle checks on small instances, for any: no gate is      *)
(* replayed, what is promoted has passed its stages, a ladder is climbed   *)
(* tier by tier, and a crawl of the literature is breadth first, is kept   *)
(* in its tables, and finds nothing new when it is repeated.  Parents are  *)
(* selected from one cell of the archive after the other.                  *)
(***************************************************************************)
EXTENDS MCCycle, ProofFacts

-----------------------------------------------------------------------------
(***************************************************************************)
(* Gates: for any number of cycles, gates, interruptions and skips, no gate*)
(* is replayed.                                                            *)
(***************************************************************************)

\* How far the executions of a gate can be ahead of the interruptions and
\* skips that account for them: by one while it runs or has ended, by none
\* when it is still to run.
Accounted(c, g) ==
    /\ skipped[c][g] <= starts[c][g]
    /\ starts[c][g] <= 1 + interrupted + skipped[c][g]
    /\ gateTask[c][g] \in {"running"} \cup Completed => skipped[c][g] < starts[c][g]
    /\ g \in checkpoint[c] =>
         gateTask[c][g] = "none" /\ skipped[c][g] < starts[c][g]
    /\ g \notin checkpoint[c] /\ gateTask[c][g] \in {"none", "created", "skipped"} =>
         starts[c][g] <= interrupted + skipped[c][g]

Settled == {"none", "skipped"} \cup Completed

\* An exception has not been counted yet, whoever is cancelled was cancelled
\* by one, and the caller saves only what came back without one.
DriverFits ==
    /\ \A c \in Cycles, g \in Gates : gateTask[c][g] = "raised" => interrupted < Interruptions
    /\ (\E c \in Cycles, g \in Gates : gateTask[c][g] = "cancelled") =>
          \E c \in Cycles, g \in Gates : gateTask[c][g] = "raised"
    /\ driver # "running" => \A c \in Cycles, g \in Gates : gateTask[c][g] \in Settled
    /\ driver = "idle" => gateTask = NoTasks
    /\ written # {} => driver = "saving"
    /\ \A c \in written : gateTask[c] # NoTasks[c]

GateInv ==
    /\ GateTypeOK
    /\ DriverFits
    /\ \A c \in Cycles, g \in Gates : Accounted(c, g)

-----------------------------------------------------------------------------
LEMMA GateInvInit == GateInit => GateInv
BY GateAssumption
   DEF GateInit, GateInv, GateTypeOK, DriverFits, Accounted, NoTasks, Never,
       Unfinished, Completed, Terminal, Settled

LEMMA BeginRunKeeps == ASSUME GateInv, BeginRun PROVE GateInv'
BY DEF GateInv, BeginRun, PendingGates, GateTypeOK, DriverFits, Accounted, NoTasks,
       Unfinished, Completed, Terminal, Settled

LEMMA StartGateKeeps ==
    ASSUME GateInv, NEW c \in Cycles, NEW g \in Gates, StartGate(c, g)
    PROVE  GateInv'
<1>1. GateTypeOK'
  BY DEF GateInv, StartGate, GateTypeOK, Unfinished
<1>2. /\ driver = "running"
      /\ written = {}
  BY DEF GateInv, StartGate, DriverFits, Settled, Completed
<1>3. DriverFits'
  BY <1>2 DEF GateInv, StartGate, GateTypeOK, DriverFits
<1>4. ASSUME NEW d \in Cycles, NEW h \in Gates PROVE Accounted(d, h)'
  <2>1. Accounted(d, h) /\ Accounted(c, g)
    BY DEF GateInv
  <2>2. CASE d = c /\ h = g
    BY <2>1, <2>2 DEF GateInv, StartGate, GateTypeOK, Accounted, Completed
  <2>3. CASE ~(d = c /\ h = g)
    BY <2>1, <2>3 DEF GateInv, StartGate, GateTypeOK, Accounted
  <2> QED
    BY <2>2, <2>3
<1> QED
  BY <1>1, <1>3, <1>4 DEF GateInv

LEMMA GateReturnsKeeps ==
    ASSUME GateInv, NEW c \in Cycles, NEW g \in Gates, GateReturns(c, g)
    PROVE  GateInv'
<1>0. PICK status \in Completed \cup {"skipped"} :
           gateTask' = [gateTask EXCEPT ![c][g] = status]
  BY DEF GateReturns
<1>1. GateTypeOK'
  <2>1. gateTask' \in [Cycles -> [Gates -> {"none"} \cup Unfinished \cup Terminal]]
    BY <1>0 DEF GateInv, GateTypeOK, Completed, Terminal
  <2>2. skipped' \in [Cycles -> [Gates -> {0, 1}]]
    <3>1. skipped \in [Cycles -> [Gates -> {0, 1}]]
      BY DEF GateInv, GateTypeOK
    <3>2. \/ skipped' = skipped
          \/ skipped[c][g] = 0 /\ skipped' = [skipped EXCEPT ![c][g] = skipped[c][g] + 1]
      BY DEF GateReturns, SkipsLeft
    <3> QED
      BY <3>1, <3>2
  <2> QED
    BY <2>1, <2>2 DEF GateInv, GateReturns, GateTypeOK
<1>2. /\ driver = "running"
      /\ written = {}
  BY DEF GateInv, GateReturns, DriverFits, Settled, Completed
<1>3. DriverFits'
  <2>1. \A d \in Cycles, h \in Gates :
           /\ gateTask'[d][h] = "raised" <=> gateTask[d][h] = "raised"
           /\ gateTask'[d][h] = "cancelled" <=> gateTask[d][h] = "cancelled"
    BY <1>0 DEF GateInv, GateReturns, GateTypeOK, Completed
  <2>2. UNCHANGED <<driver, interrupted, written>>
    BY DEF GateReturns
  <2> QED
    BY <1>2, <2>1, <2>2 DEF GateInv, DriverFits
<1>4. ASSUME NEW d \in Cycles, NEW h \in Gates PROVE Accounted(d, h)'
  <2>1. Accounted(d, h) /\ Accounted(c, g)
    BY DEF GateInv
  <2>2. CASE d = c /\ h = g
    BY <2>1, <2>2 DEF GateInv, GateReturns, SkipsLeft, GateTypeOK, Accounted, Completed
  <2>3. CASE ~(d = c /\ h = g)
    BY <2>1, <2>3 DEF GateInv, GateReturns, GateTypeOK, Accounted
  <2> QED
    BY <2>2, <2>3
<1> QED
  BY <1>1, <1>3, <1>4 DEF GateInv

LEMMA GateRaisesKeeps ==
    ASSUME GateInv, NEW c \in Cycles, NEW g \in Gates, GateRaises(c, g)
    PROVE  GateInv'
BY DEF GateInv, GateRaises, GateTypeOK, DriverFits, Accounted, NoTasks,
       Unfinished, Completed, Terminal, Settled

LEMMA AbortCycleKeeps ==
    ASSUME GateInv, NEW c \in Cycles, AbortCycle(c)
    PROVE  GateInv'
BY DEF GateInv, AbortCycle, Raised, Ended, Cancelled, GateTypeOK, DriverFits, Accounted,
       NoTasks, Unfinished, Completed, Terminal, Settled

LEMMA AbortOthersKeeps ==
    ASSUME GateInv, NEW c \in Cycles, AbortOthers(c)
    PROVE  GateInv'
BY DEF GateInv, AbortOthers, Raised, Ended, Cancelled, GateTypeOK, DriverFits, Accounted,
       NoTasks, Unfinished, Completed, Terminal, Settled

LEMMA RunRaisesKeeps == ASSUME GateInv, RunRaises PROVE GateInv'
<1>1. interrupted < Interruptions /\ interrupted \in Nat
  BY GateAssumption DEF GateInv, RunRaises, Raised, DriverFits, GateTypeOK
<1>2. GateTypeOK'
  BY <1>1, GateAssumption DEF GateInv, RunRaises, GateTypeOK, NoTasks
<1>3. written = {}
  BY DEF GateInv, RunRaises, DriverFits
<1>4. DriverFits'
  BY <1>3 DEF GateInv, RunRaises, GateTypeOK, DriverFits, NoTasks, Settled
<1>5. ASSUME NEW d \in Cycles, NEW h \in Gates PROVE Accounted(d, h)'
  <2>1. Accounted(d, h) /\ starts[d][h] \in Nat /\ skipped[d][h] \in Nat
    BY DEF GateInv, GateTypeOK
  <2>2. /\ gateTask'[d][h] = "none"
        /\ interrupted' = interrupted + 1
        /\ UNCHANGED <<checkpoint, starts, skipped>>
    BY DEF RunRaises, NoTasks
  <2> QED
    BY <1>1, <2>1, <2>2 DEF Accounted, Completed
<1> QED
  BY <1>2, <1>4, <1>5 DEF GateInv

LEMMA RunReturnsKeeps == ASSUME GateInv, RunReturns PROVE GateInv'
BY DEF GateInv, RunReturns, Raised, Ended, GateTypeOK, DriverFits, Accounted,
       NoTasks, Unfinished, Completed, Terminal, Settled

LEMMA WriteCheckpointKeeps ==
    ASSUME GateInv, NEW c \in Cycles, WriteCheckpoint(c)
    PROVE  GateInv'
BY DEF GateInv, WriteCheckpoint, GateTypeOK, DriverFits, Accounted

LEMMA ReplaceCheckpointKeeps ==
    ASSUME GateInv, NEW c \in Cycles, ReplaceCheckpoint(c)
    PROVE  GateInv'
<1>1. GateTypeOK /\ driver = "saving"
  BY DEF GateInv, ReplaceCheckpoint, DriverFits
<1>2. /\ checkpoint' = [checkpoint EXCEPT ![c] = @ \cup CompletedGates(c)]
      /\ gateTask' = [gateTask EXCEPT ![c] = NoTasks[c]]
      /\ written' = written \ {c}
      /\ UNCHANGED <<driver, starts, skipped, interrupted>>
  BY DEF ReplaceCheckpoint
<1>3. \A g \in Gates : gateTask'[c][g] = "none"
  BY <1>1, <1>2 DEF GateTypeOK, NoTasks
<1>4. \A d \in Cycles \ {c} : gateTask'[d] = gateTask[d] /\ checkpoint'[d] = checkpoint[d]
  BY <1>1, <1>2 DEF GateTypeOK
<1>5. checkpoint'[c] = checkpoint[c] \cup {g \in Gates : gateTask[c][g] \in Completed}
  BY <1>1, <1>2 DEF GateTypeOK, CompletedGates
<1>6. GateTypeOK'
  <2>1. checkpoint' \in [Cycles -> SUBSET Gates]
    BY <1>1, <1>2, <1>5 DEF GateTypeOK
  <2>2. gateTask' \in [Cycles -> [Gates -> {"none"} \cup Unfinished \cup Terminal]]
    BY <1>1, <1>2 DEF GateTypeOK, NoTasks
  <2> QED
    BY <1>1, <1>2, <2>1, <2>2 DEF GateTypeOK
<1>7. DriverFits'
  <2>1. \A d \in Cycles, g \in Gates : gateTask'[d][g] \in Settled
    BY <1>1, <1>3, <1>4 DEF GateInv, DriverFits, Settled
  <2>2. \A d \in written' : gateTask'[d] # NoTasks[d]
    BY <1>2, <1>4 DEF GateInv, DriverFits, GateTypeOK
  <2> QED
    BY <1>1, <1>2, <2>1, <2>2 DEF DriverFits, Settled, Completed
<1>8. ASSUME NEW d \in Cycles, NEW g \in Gates
      PROVE  Accounted(d, g)'
  <2>1. Accounted(d, g)
    BY DEF GateInv
  <2>2. CASE d = c
    <3>1. gateTask[c][g] \in Settled /\ gateTask'[c][g] = "none"
      BY <1>1, <1>3 DEF GateInv, DriverFits
    <3>2. g \in checkpoint'[c] <=> g \in checkpoint[c] \/ gateTask[c][g] \in Completed
      BY <1>5
    <3>3. g \in checkpoint'[c] => skipped[c][g] < starts[c][g]
      BY <2>1, <2>2, <3>2 DEF Accounted
    <3>4. g \notin checkpoint'[c] => starts[c][g] <= interrupted + skipped[c][g]
      BY <2>1, <2>2, <3>1, <3>2 DEF Accounted, Settled
    <3> QED
      BY <1>2, <2>1, <2>2, <3>1, <3>3, <3>4 DEF Accounted, Completed
  <2>3. CASE d # c
    BY <1>2, <1>4, <2>1, <2>3 DEF Accounted
  <2> QED
    BY <2>2, <2>3
<1> QED
  BY <1>6, <1>7, <1>8 DEF GateInv

LEMMA SavedKeeps == ASSUME GateInv, Saved PROVE GateInv'
<1>1. written = {}
  BY DEF GateInv, Saved, GateTypeOK, DriverFits
<1> QED
  BY <1>1 DEF GateInv, Saved, GateTypeOK, DriverFits, Accounted

LEMMA KillCyclesKeeps == ASSUME GateInv, KillCycles PROVE GateInv'
<1>1. interrupted < Interruptions /\ interrupted \in Nat
  BY GateAssumption DEF GateInv, KillCycles, GateTypeOK
<1>2. GateTypeOK'
  BY <1>1, GateAssumption DEF GateInv, KillCycles, GateTypeOK, NoTasks
<1>4. DriverFits'
  BY DEF GateInv, KillCycles, GateTypeOK, DriverFits, NoTasks, Settled
<1>5. ASSUME NEW d \in Cycles, NEW h \in Gates PROVE Accounted(d, h)'
  BY <1>1 DEF GateInv, KillCycles, GateTypeOK, Accounted, NoTasks, Completed
<1> QED
  BY <1>2, <1>4, <1>5 DEF GateInv

LEMMA GateInvNext == GateInv /\ [GateNext]_gateVars => GateInv'
<1> SUFFICES ASSUME GateInv, [GateNext]_gateVars PROVE GateInv'
  OBVIOUS
<1>1. CASE BeginRun
  BY <1>1, BeginRunKeeps
<1>2. CASE GateStep
  BY <1>2, StartGateKeeps, GateReturnsKeeps, AbortCycleKeeps, AbortOthersKeeps,
     RunRaisesKeeps, RunReturnsKeeps, WriteCheckpointKeeps, ReplaceCheckpointKeeps, SavedKeeps
     DEF GateStep
<1>3. CASE KillCycles
  BY <1>3, KillCyclesKeeps
<1>4. CASE \E c \in Cycles, g \in Gates : GateRaises(c, g)
  BY <1>4, GateRaisesKeeps
<1>5. CASE UNCHANGED gateVars
  BY <1>5 DEF gateVars, GateInv, GateTypeOK, DriverFits, Accounted
<1> QED
  BY <1>1, <1>2, <1>3, <1>4, <1>5 DEF GateNext

LEMMA GateInvImplies == GateInv => GatesRunOnce
BY DEF GateInv, Accounted, GatesRunOnce

-----------------------------------------------------------------------------
\* The variables keep their types; in particular no more runs raise or are
\* killed than may.
THEOREM GateTypeCorrect == GateSpec => []GateTypeOK
<1>1. GateInv => GateTypeOK
  BY DEF GateInv
<1> QED
  BY <1>1, GateInvInit, GateInvNext, PTL DEF GateSpec

\* A gate is executed again only for a run that was killed or raised and for a
\* skip, and a checkpoint lists only gates that ended otherwise than by a skip.
THEOREM GatesAreNotReplayed == GateSpec => []GatesRunOnce
BY GateInvInit, GateInvNext, GateInvImplies, PTL DEF GateSpec

-----------------------------------------------------------------------------
(***************************************************************************)
(* Generators: for any number of generators, stages, turns, attempts and   *)
(* versions, what is promoted has passed its stages.                       *)
(***************************************************************************)

\* Of the stages up to the n-th, these contain every one from some stage on,
\* and that stage is the first or may itself have written the candidate.
Covers(stages, n) ==
    \E i \in Nat :
        /\ i = 1 \/ (i \in 1 .. n /\ Checks[i] \in Rewriting)
        /\ \A j \in i .. n : Checks[j] \in stages

Passed(verdicts) == \A i \in DOMAIN verdicts : verdicts[i]

\* Where a loop is and what it has in hand.
LoopFits(g) ==
    /\ loop[g].call = "write" => loop[g].at = "execute"
    /\ loop[g].at \in {"agent", "execute"} => loop[g].results = <<>>
    /\ loop[g].at = "execute" => loop[g].turn < MaxTurns

\* What a generator is about to promote: the content of its staging path has
\* passed the stages that ran, and so has the copy all of them.
PromotionFits(g) ==
    /\ loop[g].at = "validate" =>
         /\ staging[g] # NoVersion
         /\ Passed(loop[g].results) => Covers(passing[staging[g]], Len(loop[g].results))
    /\ loop[g].at = "replace" => copied[g] # NoVersion /\ Covers(passing[copied[g]], Len(Checks))

Writers == {g \in Generators : loop[g].call = "write"}

GenVerInv ==
    /\ GenVerTypeOK
    /\ newest + Writing <= Versions
    /\ \A g \in Generators : LoopFits(g) /\ PromotionFits(g)
    /\ destination # NoVersion => Covers(passing[destination], Len(Checks))

Results == UNION {[1 .. n -> BOOLEAN] : n \in 0 .. Len(Checks)}

-----------------------------------------------------------------------------
LEMMA ChecksFinite == Len(Checks) \in Nat /\ DOMAIN Checks = 1 .. Len(Checks) /\ Len(Checks) > 0
BY GenVerAssumption

\* The results of a validation are a sequence no longer than the stages.
LEMMA ResultsAreSeq ==
    ASSUME NEW r \in Results
    PROVE  r \in Seq(BOOLEAN) /\ Len(r) \in 0 .. Len(Checks) /\ DOMAIN r = 1 .. Len(r)
<1>1. PICK n \in 0 .. Len(Checks) : r \in [1 .. n -> BOOLEAN]
  BY DEF Results
<1>2. n \in Nat
  BY <1>1, ChecksFinite
<1> QED
  BY <1>1, <1>2

LEMMA ResultsAppend ==
    ASSUME NEW r \in Results, Len(r) # Len(Checks), NEW b \in BOOLEAN
    PROVE  /\ Append(r, b) \in Results
           /\ Len(Append(r, b)) = Len(r) + 1
           /\ Passed(Append(r, b)) => b /\ Passed(r)
<1>1. r \in Seq(BOOLEAN) /\ Len(r) \in 0 .. Len(Checks) /\ DOMAIN r = 1 .. Len(r)
  BY ResultsAreSeq
<1>2. Len(r) \in Nat /\ Len(r) + 1 \in 0 .. Len(Checks)
  <2>1. Len(Checks) \in Nat
    BY ChecksFinite
  <2>2. Len(r) \in 0 .. Len(Checks) /\ Len(r) # Len(Checks)
    BY <1>1
  <2> QED
    BY <2>1, <2>2
<1>3. Append(r, b) \in [1 .. Len(r) + 1 -> BOOLEAN]
  <2>1. Append(r, b) \in Seq(BOOLEAN) /\ Len(Append(r, b)) = Len(r) + 1
    BY <1>1
  <2> QED
    BY <2>1, LenProperties
<1>4. Append(r, b) \in Results
  BY <1>2, <1>3 DEF Results
<1>5. Passed(Append(r, b)) => b /\ Passed(r)
  BY <1>1, <1>2 DEF Passed
<1> QED
  BY <1>1, <1>4, <1>5

\* The writers are finitely many; one more or one less changes their number by one.
LEMMA WritersCount ==
    /\ IsFiniteSet(Writers) /\ Writing \in Nat
    /\ Writing = Cardinality(Writers)
<1>1. IsFiniteSet(Writers)
  BY GenVerAssumption, FS_Subset DEF Writers
<1> QED
  BY <1>1, FS_CardinalityType DEF Writing, Writers

LEMMA WritersGrow ==
    ASSUME NEW g \in Generators, Writers' \subseteq Writers \cup {g}
    PROVE  Writing' \in Nat /\ Writing' <= Writing + 1
<1>1. IsFiniteSet(Writers \cup {g}) /\ Cardinality(Writers \cup {g}) <= Cardinality(Writers) + 1
  <2>1. /\ IsFiniteSet(Writers \cup {g})
        /\ \/ Cardinality(Writers \cup {g}) = Cardinality(Writers)
           \/ Cardinality(Writers \cup {g}) = Cardinality(Writers) + 1
    BY WritersCount, FS_AddElement
  <2>2. Cardinality(Writers) \in Nat
    BY WritersCount
  <2> QED
    BY <2>1, <2>2
<1>2. Writing' = Cardinality(Writers')
  BY DEF Writing, Writers
<1>3. Cardinality(Writers') <= Cardinality(Writers \cup {g})
  BY <1>1, FS_Subset
<1>4. IsFiniteSet(Writers')
  BY <1>1, FS_Subset
<1>5. Cardinality(Writers') \in Nat /\ Cardinality(Writers \cup {g}) \in Nat
  BY <1>1, <1>4, FS_CardinalityType
<1> QED
  BY <1>1, <1>2, <1>3, <1>5, WritersCount

LEMMA WritersShrink ==
    ASSUME Writers' \subseteq Writers
    PROVE  Writing' \in Nat /\ Writing' <= Writing
<1>1. Writing' = Cardinality(Writers')
  BY DEF Writing, Writers
<1>2. IsFiniteSet(Writers') /\ Cardinality(Writers') <= Cardinality(Writers)
  BY WritersCount, FS_Subset
<1> QED
  BY <1>1, <1>2, FS_CardinalityType, WritersCount

LEMMA WritersLeave ==
    ASSUME NEW g \in Writers, Writers' \subseteq Writers \ {g}
    PROVE  Writing' \in Nat /\ Writing' + 1 <= Writing
<1>1. IsFiniteSet(Writers \ {g}) /\ Cardinality(Writers \ {g}) = Cardinality(Writers) - 1
  BY WritersCount, FS_RemoveElement
<1>2. Writing' = Cardinality(Writers')
  BY DEF Writing, Writers
<1>3. IsFiniteSet(Writers') /\ Cardinality(Writers') <= Cardinality(Writers \ {g})
  BY <1>1, FS_Subset
<1>4. Cardinality(Writers') \in Nat /\ Cardinality(Writers \ {g}) \in Nat
  BY <1>1, <1>3, FS_CardinalityType
<1> QED
  BY <1>1, <1>2, <1>3, <1>4, WritersCount

-----------------------------------------------------------------------------
(***************************************************************************)
(* A step of one generator: the others keep what they have in hand, and    *)
(* what a version has passed it keeps.                                     *)
(***************************************************************************)
LEMMA CoversMore ==
    ASSUME NEW S, NEW T, NEW n \in Nat, Covers(S, n), S \subseteq T
    PROVE  Covers(T, n)
BY DEF Covers

\* A stage more that passes; one that rewrites the candidate covers by itself.
LEMMA CoversNext ==
    ASSUME NEW S, NEW n \in Nat, Covers(S, n)
    PROVE  Covers(S \cup {Checks[n + 1]}, n + 1)
<1>1. PICK i \in Nat : /\ i = 1 \/ (i \in 1 .. n /\ Checks[i] \in Rewriting)
                       /\ \A j \in i .. n : Checks[j] \in S
  BY DEF Covers
<1>2. i = 1 \/ (i \in 1 .. n + 1 /\ Checks[i] \in Rewriting)
  BY <1>1
<1>3. \A j \in i .. n + 1 : j \in i .. n \/ j = n + 1
  OBVIOUS
<1>4. \A j \in i .. n + 1 : Checks[j] \in S \cup {Checks[n + 1]}
  BY <1>1, <1>3
<1> QED
  BY <1>2, <1>4 DEF Covers

LEMMA CoversRewritten ==
    ASSUME NEW S, NEW n \in Nat, Checks[n + 1] \in Rewriting, Checks[n + 1] \in S
    PROVE  Covers(S, n + 1)
<1>1. n + 1 \in Nat /\ n + 1 \in 1 .. n + 1
  OBVIOUS
<1>2. \A j \in n + 1 .. n + 1 : j = n + 1
  OBVIOUS
<1>3. \A j \in n + 1 .. n + 1 : Checks[j] \in S
  BY <1>2
<1> QED
  BY <1>1, <1>3 DEF Covers

LEMMA VersionsInRange ==
    ASSUME GenVerTypeOK
    PROVE  /\ newest \in Nat /\ newest <= Versions /\ Versions \in Nat
           /\ \A g \in Generators : staging[g] # NoVersion => staging[g] \in 1 .. Versions
           /\ \A g \in Generators : copied[g] # NoVersion => copied[g] \in 1 .. Versions
           /\ destination # NoVersion => destination \in 1 .. Versions
BY GenVerAssumption DEF GenVerTypeOK, NoVersion

\* A generator that takes no step keeps what it has in hand.
LEMMA OtherLoopsKeep ==
    ASSUME GenVerInv, NEW h \in Generators,
           loop'[h] = loop[h], staging'[h] = staging[h], copied'[h] = copied[h],
           \A w \in 1 .. Versions : passing[w] \subseteq passing'[w]
    PROVE  (LoopFits(h) /\ PromotionFits(h))'
<1>1. LoopFits(h)'
  BY DEF GenVerInv, LoopFits
<1>2. GenVerTypeOK /\ PromotionFits(h)
  BY DEF GenVerInv
<1>3. ASSUME loop[h].at = "validate", Passed(loop[h].results)
      PROVE  Covers(passing'[staging[h]], Len(loop[h].results))
  <2>1. loop[h].results \in Results
    BY <1>2 DEF GenVerTypeOK, Results
  <2>2. Len(loop[h].results) \in Nat
    BY <2>1, ResultsAreSeq, ChecksFinite
  <2>3. passing[staging[h]] \subseteq passing'[staging[h]]
    BY <1>2, <1>3, VersionsInRange DEF PromotionFits
  <2> QED
    BY <1>2, <1>3, <2>2, <2>3, CoversMore DEF PromotionFits
<1>4. ASSUME loop[h].at = "replace"
      PROVE  Covers(passing'[copied[h]], Len(Checks))
  <2>1. passing[copied[h]] \subseteq passing'[copied[h]]
    BY <1>2, <1>4, VersionsInRange DEF PromotionFits
  <2> QED
    BY <1>2, <1>4, <2>1, CoversMore, ChecksFinite DEF PromotionFits
<1>5. PromotionFits(h)'
  BY <1>2, <1>3, <1>4 DEF PromotionFits, Passed
<1> QED
  BY <1>1, <1>5

\* What remains to show of a step of generator g.
LEMMA OneGeneratorSteps ==
    ASSUME GenVerInv, NEW g \in Generators,
           GenVerTypeOK', (newest + Writing <= Versions)',
           \A h \in Generators \ {g} :
               loop'[h] = loop[h] /\ staging'[h] = staging[h] /\ copied'[h] = copied[h],
           \A w \in 1 .. Versions : passing[w] \subseteq passing'[w],
           LoopFits(g)', PromotionFits(g)',
           \/ destination' = destination
           \/ Covers(passing[destination], Len(Checks))'
    PROVE  GenVerInv'
<1>1. \A h \in Generators : (LoopFits(h) /\ PromotionFits(h))'
  <2> SUFFICES ASSUME NEW h \in Generators
               PROVE  (LoopFits(h) /\ PromotionFits(h))'
    OBVIOUS
  <2>1. CASE h = g
    BY <2>1
  <2>2. CASE h # g
    <3>1. loop'[h] = loop[h] /\ staging'[h] = staging[h] /\ copied'[h] = copied[h]
      BY <2>2
    <3> QED
      BY <3>1, OtherLoopsKeep
  <2> QED
    BY <2>1, <2>2
<1>2. (destination # NoVersion => Covers(passing[destination], Len(Checks)))'
  <2>1. CASE destination' = destination /\ destination # NoVersion
    <3>1. passing[destination] \subseteq passing'[destination]
      BY <2>1, VersionsInRange DEF GenVerInv
    <3>2. Covers(passing[destination], Len(Checks))
      BY <2>1 DEF GenVerInv
    <3> QED
      BY <2>1, <3>1, <3>2, CoversMore, ChecksFinite
  <2> QED
    BY <2>1 DEF NoVersion
<1> QED
  BY <1>1, <1>2 DEF GenVerInv

-----------------------------------------------------------------------------
(***************************************************************************)
(* The steps.                                                              *)
(***************************************************************************)
Loops ==
    [at : {"idle", "agent", "execute", "validate", "replace"},
     turn : 0 .. MaxTurns, attempt : 0 .. Attempts,
     call : {"none", "write", "other", "finish"}, results : Results]

LEMMA LoopsTyped ==
    GenVerTypeOK => loop \in [Generators -> Loops]
BY DEF GenVerTypeOK, Loops, Results

\* A step that leaves the files alone, or that only copies.
LEMMA TypeOfLoopStep ==
    ASSUME GenVerTypeOK, NEW g \in Generators, NEW next \in Loops,
           loop' = [loop EXCEPT ![g] = next],
           UNCHANGED <<staging, newest, passing>>,
           copied' \in [Generators -> 0 .. newest], destination' \in 0 .. newest
    PROVE  GenVerTypeOK'
<1>1. loop' \in [Generators -> Loops]
  BY LoopsTyped
<1>2. loop' \in [Generators ->
           [at : {"idle", "agent", "execute", "validate", "replace"},
            turn : 0 .. MaxTurns, attempt : 0 .. Attempts,
            call : {"none", "write", "other", "finish"},
            results : UNION {[1 .. n -> BOOLEAN] : n \in 0 .. Len(Checks)}]]
  BY <1>1 DEF Loops, Results
<1> QED
  BY <1>2 DEF GenVerTypeOK

LEMMA EmptyResults == <<>> \in Results /\ Len(<<>>) = 0
<1>1. <<>> \in [1 .. 0 -> BOOLEAN]
  OBVIOUS
<1>2. 0 \in 0 .. Len(Checks)
  BY ChecksFinite
<1> QED
  BY <1>1, <1>2 DEF Results

LEMMA WaitingTyped ==
    ASSUME GenVerTypeOK, NEW g \in Generators
    PROVE  Rest(g) \in Loops
<1>1. loop[g].attempt \in 0 .. Attempts
  BY LoopsTyped DEF Loops
<1>2. 0 \in 0 .. MaxTurns
  BY GenVerAssumption
<1> QED
  BY <1>1, <1>2, EmptyResults DEF Rest, Waiting, Loops

\* A loop that goes back to rest.
LEMMA LoopRests ==
    ASSUME GenVerInv, NEW g \in Generators,
           loop' = [loop EXCEPT ![g] = Rest(g)],
           UNCHANGED <<staging, newest, passing>>,
           \/ copied' = copied
           \/ copied' = [copied EXCEPT ![g] = NoVersion],
           \/ destination' = destination
           \/ destination' = copied[g] /\ Covers(passing[copied[g]], Len(Checks))
    PROVE  GenVerInv'
<1>1. GenVerTypeOK /\ loop \in [Generators -> Loops]
  BY LoopsTyped DEF GenVerInv
<1>2. GenVerTypeOK'
  <2>1. copied' \in [Generators -> 0 .. newest]
    <3>1. copied \in [Generators -> 0 .. newest] /\ NoVersion \in 0 .. newest
      BY <1>1, VersionsInRange DEF GenVerTypeOK, NoVersion
    <3>2. copied' = copied \/ copied' = [copied EXCEPT ![g] = NoVersion]
      OBVIOUS
    <3> QED
      BY <3>1, <3>2
  <2>2. destination' \in 0 .. newest
    BY <1>1 DEF GenVerTypeOK
  <2> QED
    BY <1>1, <2>1, <2>2, TypeOfLoopStep, WaitingTyped
<1>3. (newest + Writing <= Versions)'
  <2>1. Writers' \subseteq Writers
    BY <1>1 DEF Writers, Rest, Waiting
  <2> QED
    BY <2>1, <1>1, WritersShrink, WritersCount, VersionsInRange DEF GenVerInv
<1>4. loop'[g] = Rest(g)
  BY <1>1
<1>5. LoopFits(g)' /\ PromotionFits(g)'
  BY <1>4 DEF LoopFits, PromotionFits, Rest, Waiting
<1>6. \A h \in Generators \ {g} :
          loop'[h] = loop[h] /\ staging'[h] = staging[h] /\ copied'[h] = copied[h]
  BY <1>1 DEF GenVerTypeOK
<1> QED
  BY <1>2, <1>3, <1>5, <1>6, OneGeneratorSteps

LEMMA BeginLoopKeeps ==
    ASSUME GenVerInv, NEW g \in Generators, BeginLoop(g)
    PROVE  GenVerInv'
<1> DEFINE next == [Waiting EXCEPT !.at = "agent", !.attempt = loop[g].attempt + 1]
<1>1. GenVerTypeOK /\ loop \in [Generators -> Loops] /\ loop' = [loop EXCEPT ![g] = next]
  BY LoopsTyped DEF GenVerInv, BeginLoop
<1>2. UNCHANGED <<staging, copied, destination, newest, passing>>
  BY DEF BeginLoop, Files
<1>3. next \in Loops
  <2>1. loop[g].attempt + 1 \in 0 .. Attempts
    BY <1>1, GenVerAssumption DEF Loops, BeginLoop
  <2>2. 0 \in 0 .. MaxTurns
    BY GenVerAssumption
  <2> QED
    BY <2>1, <2>2, EmptyResults DEF Waiting, Loops
<1>4. GenVerTypeOK'
  <2>1. copied' \in [Generators -> 0 .. newest] /\ destination' \in 0 .. newest
    BY <1>1, <1>2 DEF GenVerTypeOK
  <2> HIDE DEF next
  <2> QED
    BY <1>1, <1>2, <1>3, <2>1, TypeOfLoopStep
<1>5. (newest + Writing <= Versions)'
  <2>1. Writers' \subseteq Writers
    BY <1>1 DEF Writers, Waiting
  <2> QED
    BY <2>1, <1>1, <1>2, WritersShrink, WritersCount, VersionsInRange DEF GenVerInv
<1>6. LoopFits(g)' /\ PromotionFits(g)'
  <2>1. loop'[g] = next
    BY <1>1
  <2> QED
    BY <2>1 DEF LoopFits, PromotionFits, Waiting
<1>7. \A h \in Generators \ {g} :
          loop'[h] = loop[h] /\ staging'[h] = staging[h] /\ copied'[h] = copied[h]
  BY <1>1, <1>2
<1> QED
  BY <1>2, <1>4, <1>5, <1>6, <1>7, OneGeneratorSteps

LEMMA AgentKeeps ==
    ASSUME GenVerInv, NEW g \in Generators, AgentTurn(g)
    PROVE  GenVerInv'
<1>1. GenVerTypeOK /\ loop \in [Generators -> Loops]
  BY LoopsTyped DEF GenVerInv
<1>2. PICK call \in {"invalid", "write", "other", "finish"} :
          /\ call = "write" => newest + Writing < Versions
          /\ loop' = [loop EXCEPT ![g] =
                 IF @.turn = MaxTurns \/ call = "invalid" THEN Rest(g)
                 ELSE [@ EXCEPT !.at = "execute", !.call = call]]
  BY DEF AgentTurn
<1>3. UNCHANGED <<staging, copied, destination, newest, passing>>
  BY DEF AgentTurn, Files
<1>4. CASE loop[g].turn = MaxTurns \/ call = "invalid"
  <2>1. loop' = [loop EXCEPT ![g] = Rest(g)]
    BY <1>2, <1>4
  <2> QED
    BY <2>1, <1>3, LoopRests
<1>5. CASE loop[g].turn # MaxTurns /\ call # "invalid"
  <2> DEFINE next == [loop[g] EXCEPT !.at = "execute", !.call = call]
  <2>1. loop' = [loop EXCEPT ![g] = next]
    BY <1>2, <1>5
  <2>2. next \in Loops
    BY <1>1, <1>2, <1>5 DEF Loops
  <2>3. GenVerTypeOK'
    <3>1. copied' \in [Generators -> 0 .. newest] /\ destination' \in 0 .. newest
      BY <1>1, <1>3 DEF GenVerTypeOK
    <3> HIDE DEF next
    <3> QED
      BY <1>1, <1>3, <2>1, <2>2, <3>1, TypeOfLoopStep
  <2>4. (newest + Writing <= Versions)'
    <3>1. CASE call = "write"
      <4>1. Writers' \subseteq Writers \cup {g}
        BY <1>1, <2>1 DEF Writers
      <4> QED
        BY <4>1, <3>1, <1>1, <1>2, <1>3, WritersGrow, WritersCount, VersionsInRange
    <3>2. CASE call # "write"
      <4>1. Writers' \subseteq Writers
        BY <1>1, <2>1, <3>2 DEF Writers, Loops
      <4> QED
        BY <4>1, <1>1, <1>3, WritersShrink, WritersCount, VersionsInRange DEF GenVerInv
    <3> QED
      BY <3>1, <3>2
  <2>5. loop'[g] = next
    BY <1>1, <2>1
  <2>6. LoopFits(g)'
    <3>1. loop[g].at = "agent" /\ loop[g].results = <<>>
      BY DEF GenVerInv, LoopFits, AgentTurn, At
    <3>2. loop[g].turn \in 0 .. MaxTurns /\ loop[g].turn # MaxTurns
      BY <1>1, <1>5 DEF Loops
    <3>3. loop[g].turn < MaxTurns
      BY <3>2, GenVerAssumption
    <3>4. loop'[g].at = "execute" /\ loop'[g].results = <<>> /\ loop'[g].turn < MaxTurns
      BY <1>1, <2>5, <3>1, <3>3 DEF Loops
    <3> QED
      BY <3>4 DEF LoopFits
  <2>7. PromotionFits(g)'
    <3>1. loop'[g].at = "execute"
      BY <1>1, <2>5 DEF Loops
    <3> QED
      BY <3>1 DEF PromotionFits
  <2>8. \A h \in Generators \ {g} :
            loop'[h] = loop[h] /\ staging'[h] = staging[h] /\ copied'[h] = copied[h]
    BY <1>1, <1>3, <2>1
  <2> QED
    BY <1>3, <2>3, <2>4, <2>6, <2>7, <2>8, OneGeneratorSteps
<1> QED
  BY <1>4, <1>5

LEMMA CopyKeeps ==
    ASSUME GenVerInv, NEW g \in Generators, CopyCandidate(g)
    PROVE  GenVerInv'
<1> DEFINE next == [loop[g] EXCEPT !.at = "replace"]
<1>1. GenVerTypeOK /\ loop \in [Generators -> Loops]
  BY LoopsTyped DEF GenVerInv
<1>2. /\ loop' = [loop EXCEPT ![g] = next]
      /\ copied' = [copied EXCEPT ![g] = staging[g]]
      /\ UNCHANGED <<staging, destination, newest, passing>>
  BY DEF CopyCandidate
<1>3. GenVerTypeOK'
  <2>1. next \in Loops
    BY <1>1 DEF Loops
  <2>2. copied' \in [Generators -> 0 .. newest] /\ destination' \in 0 .. newest
    BY <1>1, <1>2 DEF GenVerTypeOK
  <2> HIDE DEF next
  <2> QED
    BY <1>1, <1>2, <2>1, <2>2, TypeOfLoopStep
<1>4. loop'[g] = next
  BY <1>1, <1>2
<1>5. (newest + Writing <= Versions)'
  <2>1. Writers' \subseteq Writers
    BY <1>1, <1>2 DEF Writers, Loops
  <2> QED
    BY <2>1, <1>1, <1>2, WritersShrink, WritersCount, VersionsInRange DEF GenVerInv
<1>6. LoopFits(g)'
  <2>1. loop[g].call # "write"
    BY DEF GenVerInv, LoopFits, CopyCandidate, At
  <2>2. loop'[g].at = "replace" /\ loop'[g].call # "write"
    BY <1>1, <1>4, <2>1 DEF Loops
  <2> QED
    BY <2>2 DEF LoopFits
<1>7. PromotionFits(g)'
  <2>1. /\ staging[g] # NoVersion
        /\ Passed(loop[g].results) => Covers(passing[staging[g]], Len(loop[g].results))
    BY DEF GenVerInv, PromotionFits, CopyCandidate, At
  <2>2. Passed(loop[g].results) /\ Len(loop[g].results) = Len(Checks)
    BY DEF CopyCandidate, AllStagesPassed, Passed
  <2>3. copied'[g] = staging[g] /\ loop'[g].at = "replace"
    BY <1>1, <1>2, <1>4 DEF GenVerTypeOK, Loops
  <2> QED
    BY <1>2, <2>1, <2>2, <2>3 DEF PromotionFits
<1>8. \A h \in Generators \ {g} :
          loop'[h] = loop[h] /\ staging'[h] = staging[h] /\ copied'[h] = copied[h]
  BY <1>1, <1>2 DEF GenVerTypeOK
<1> QED
  BY <1>2, <1>3, <1>5, <1>6, <1>7, <1>8, OneGeneratorSteps

\* The version written is new, so it was reserved by the writer that wrote it.
LEMMA ExecuteKeeps ==
    ASSUME GenVerInv, NEW g \in Generators, ExecuteTool(g)
    PROVE  GenVerInv'
<1>1. GenVerTypeOK /\ loop \in [Generators -> Loops]
  BY LoopsTyped DEF GenVerInv
<1>2. loop[g].at = "execute" /\ loop[g].results = <<>> /\ loop[g].turn < MaxTurns
  BY DEF GenVerInv, LoopFits, ExecuteTool, At
<1>3. UNCHANGED <<copied, destination, passing>>
  BY DEF ExecuteTool
<1>4. CASE loop[g].call = "finish" /\ staging[g] = NoVersion
  <2>1. loop' = [loop EXCEPT ![g] = Rest(g)] /\ UNCHANGED <<staging, newest>>
    BY <1>4 DEF ExecuteTool
  <2> QED
    BY <1>3, <2>1, LoopRests
<1>5. CASE loop[g].call = "finish" /\ staging[g] # NoVersion
  <2> DEFINE next == [loop[g] EXCEPT !.at = "validate", !.call = "none"]
  <2>1. loop' = [loop EXCEPT ![g] = next] /\ UNCHANGED <<staging, newest>>
    BY <1>5 DEF ExecuteTool
  <2>2. GenVerTypeOK'
    <3>1. next \in Loops
      BY <1>1 DEF Loops
    <3>2. copied' \in [Generators -> 0 .. newest] /\ destination' \in 0 .. newest
      BY <1>1, <1>3 DEF GenVerTypeOK
    <3> HIDE DEF next
    <3> QED
      BY <1>1, <1>3, <2>1, <3>1, <3>2, TypeOfLoopStep
  <2>3. loop'[g] = next
    BY <1>1, <2>1
  <2>4. (newest + Writing <= Versions)'
    <3>1. Writers' \subseteq Writers
      BY <1>1, <2>1 DEF Writers, Loops
    <3> QED
      BY <3>1, <1>1, <2>1, WritersShrink, WritersCount, VersionsInRange DEF GenVerInv
  <2>5. /\ loop'[g].at = "validate" /\ loop'[g].call = "none"
        /\ loop'[g].results = <<>>
    BY <1>1, <1>2, <2>3 DEF Loops
  <2>6. LoopFits(g)'
    BY <2>5 DEF LoopFits
  <2>7. PromotionFits(g)'
    <3>1. Covers(passing'[staging[g]], 0)
      BY DEF Covers
    <3> QED
      BY <1>5, <2>1, <2>5, <3>1, EmptyResults DEF PromotionFits
  <2>8. \A h \in Generators \ {g} :
            loop'[h] = loop[h] /\ staging'[h] = staging[h] /\ copied'[h] = copied[h]
    BY <1>1, <1>3, <2>1
  <2> QED
    BY <1>3, <2>2, <2>4, <2>6, <2>7, <2>8, OneGeneratorSteps
<1>6. CASE loop[g].call # "finish"
  <2> DEFINE next == [loop[g] EXCEPT !.at = "agent", !.turn = loop[g].turn + 1, !.call = "none"]
  <2>1. loop' = [loop EXCEPT ![g] = next]
    <3>1. loop' = [loop EXCEPT ![g] =
             IF loop[g].call = "finish"
             THEN IF staging[g] = NoVersion THEN Rest(g)
                  ELSE [loop[g] EXCEPT !.at = "validate", !.call = "none"]
             ELSE next]
      BY DEF ExecuteTool
    <3> HIDE DEF next
    <3> QED
      BY <1>6, <3>1
  <2>2. next \in Loops
    <3>1. loop[g].turn + 1 \in 0 .. MaxTurns
      BY <1>1, <1>2, GenVerAssumption DEF Loops
    <3> QED
      BY <1>1, <3>1 DEF Loops
  <2>3. loop' \in [Generators -> Loops] /\ loop'[g] = next
    <3> HIDE DEF next
    <3> QED
      BY <1>1, <2>1, <2>2
  <2>4. /\ loop'[g].at = "agent" /\ loop'[g].call = "none"
        /\ loop'[g].results = <<>>
    BY <1>1, <1>2, <2>3 DEF Loops
  <2>5. LoopFits(g)' /\ PromotionFits(g)'
    BY <2>4 DEF LoopFits, PromotionFits
  <2>6. Writers' \subseteq Writers \ {g}
    BY <1>1, <2>1, <2>4 DEF Writers
  <2>7. CASE loop[g].call = "write"
    <3>1. newest' = newest + 1 /\ staging' = [staging EXCEPT ![g] = newest + 1]
      BY <2>7 DEF ExecuteTool
    <3>2. (newest + Writing <= Versions)' /\ newest + 1 \in 0 .. Versions
      <4>1. g \in Writers
        BY <2>7 DEF Writers
      <4>2. Writing' \in Nat /\ Writing' + 1 <= Writing
        BY <2>6, <4>1, WritersLeave
      <4> QED
        BY <3>1, <4>2, <1>1, WritersCount, VersionsInRange DEF GenVerInv
    <3>3. GenVerTypeOK'
      <4>1. 0 .. newest \subseteq 0 .. newest + 1 /\ newest + 1 \in 0 .. newest + 1
        BY <1>1, VersionsInRange
      <4>2. /\ staging \in [Generators -> 0 .. newest] /\ copied \in [Generators -> 0 .. newest]
            /\ destination \in 0 .. newest /\ passing \in [1 .. Versions -> SUBSET ToSet(Checks)]
        BY <1>1 DEF GenVerTypeOK
      <4>3. /\ staging' \in [Generators -> 0 .. newest + 1]
            /\ copied' \in [Generators -> 0 .. newest + 1]
            /\ destination' \in 0 .. newest + 1
        BY <1>3, <3>1, <4>1, <4>2
      <4> QED
        BY <1>3, <2>3, <3>1, <3>2, <4>2, <4>3 DEF GenVerTypeOK, Loops, Results
    <3>4. \A h \in Generators \ {g} :
              loop'[h] = loop[h] /\ staging'[h] = staging[h] /\ copied'[h] = copied[h]
      BY <1>1, <1>3, <2>1, <3>1 DEF GenVerTypeOK
    <3> QED
      BY <1>3, <2>5, <3>2, <3>3, <3>4, OneGeneratorSteps
  <2>8. CASE loop[g].call # "write"
    <3>1. UNCHANGED <<staging, newest>>
      BY <2>8 DEF ExecuteTool
    <3>2. GenVerTypeOK'
      <4>1. copied' \in [Generators -> 0 .. newest] /\ destination' \in 0 .. newest
        BY <1>1, <1>3 DEF GenVerTypeOK
      <4> HIDE DEF next
      <4> QED
        BY <1>1, <1>3, <2>1, <2>2, <3>1, <4>1, TypeOfLoopStep
    <3>3. (newest + Writing <= Versions)'
      BY <2>6, <3>1, <1>1, WritersShrink, WritersCount, VersionsInRange DEF GenVerInv
    <3>4. \A h \in Generators \ {g} :
              loop'[h] = loop[h] /\ staging'[h] = staging[h] /\ copied'[h] = copied[h]
      BY <1>1, <1>3, <2>1, <3>1
    <3> QED
      BY <1>3, <2>5, <3>2, <3>3, <3>4, OneGeneratorSteps
  <2> QED
    BY <2>7, <2>8
<1> QED
  BY <1>4, <1>5, <1>6

\* A stage that passes is one more that the content has passed; a stage that
\* rewrites the content makes a new version of its own.
LEMMA StageKeeps ==
    ASSUME GenVerInv, NEW g \in Generators, RunStage(g)
    PROVE  GenVerInv'
<1> DEFINE verdicts == loop[g].results
           n == Len(loop[g].results)
           check == Checks[Len(loop[g].results) + 1]
<1>1. GenVerTypeOK /\ loop \in [Generators -> Loops]
  BY LoopsTyped DEF GenVerInv
<1>2. PICK passed, rewritten \in BOOLEAN :
          /\ rewritten => check \in Rewriting /\ newest + Writing < Versions
          /\ newest' = IF rewritten THEN newest + 1 ELSE newest
          /\ staging' = IF rewritten THEN [staging EXCEPT ![g] = newest'] ELSE staging
          /\ loop' = [loop EXCEPT ![g].results = Append(@, passed)]
          /\ passing' = IF passed
                        THEN [passing EXCEPT ![staging'[g]] = @ \cup {check}]
                        ELSE passing
  BY DEF RunStage
<1>3. copied' = copied /\ destination' = destination
  BY DEF RunStage
<1>4. /\ loop[g].at = "validate" /\ loop[g].call # "write"
      /\ n # Len(Checks)
  BY DEF GenVerInv, LoopFits, RunStage, At, ValidationOver
<1>5. verdicts \in Results /\ n \in Nat /\ n + 1 \in 1 .. Len(Checks)
  <2>1. verdicts \in Results
    BY <1>1 DEF Loops
  <2>2. n \in 0 .. Len(Checks)
    BY <2>1, ResultsAreSeq
  <2> QED
    BY <2>1, <2>2, <1>4, ChecksFinite
<1>6. check \in ToSet(Checks)
  BY <1>5, ChecksFinite DEF ToSet
<1>7. /\ Append(verdicts, passed) \in Results
      /\ Len(Append(verdicts, passed)) = n + 1
      /\ Passed(Append(verdicts, passed)) => passed /\ Passed(verdicts)
  <2> HIDE DEF verdicts, n
  <2>1. Len(verdicts) = n
    BY DEF verdicts, n
  <2> QED
    BY <1>4, <1>5, <2>1, ResultsAppend
<1>8. /\ staging[g] # NoVersion
      /\ Passed(verdicts) => Covers(passing[staging[g]], n)
  BY <1>4 DEF GenVerInv, PromotionFits
<1>9. /\ loop' \in [Generators -> Loops]
      /\ loop'[g].at = "validate" /\ loop'[g].call # "write"
      /\ loop'[g].results = Append(verdicts, passed)
      /\ \A h \in Generators \ {g} : loop'[h] = loop[h]
  <2> DEFINE next == [loop[g] EXCEPT !.results = Append(verdicts, passed)]
  <2>1. loop' = [loop EXCEPT ![g] = next]
    BY <1>2
  <2>2. next \in Loops
    BY <1>1, <1>7 DEF Loops
  <2>3. next.at = "validate" /\ next.call # "write" /\ next.results = Append(verdicts, passed)
    BY <1>1, <1>4 DEF Loops
  <2> HIDE DEF next
  <2> QED
    BY <1>1, <2>1, <2>2, <2>3
<1>10. Writing' \in Nat /\ Writing' <= Writing /\ Writing \in Nat
  <2>1. Writers' \subseteq Writers
    BY <1>9 DEF Writers
  <2> QED
    BY <2>1, WritersShrink, WritersCount
<1>11. /\ newest' \in Nat /\ newest <= newest' /\ newest' <= Versions
       /\ newest' + Writing' <= Versions
  <2>1. CASE rewritten
    BY <1>1, <1>2, <1>10, <2>1, VersionsInRange
  <2>2. CASE ~rewritten
    BY <1>1, <1>2, <1>10, <2>2, VersionsInRange DEF GenVerInv
  <2> QED
    BY <2>1, <2>2
<1>12. /\ staging' \in [Generators -> 0 .. newest']
       /\ \A h \in Generators \ {g} : staging'[h] = staging[h]
       /\ staging'[g] # NoVersion /\ staging'[g] \in 1 .. Versions
       /\ ~rewritten => staging'[g] = staging[g]
  <2>1. staging \in [Generators -> 0 .. newest] /\ newest \in Nat
    BY <1>1, VersionsInRange DEF GenVerTypeOK
  <2>2. 0 .. newest \subseteq 0 .. newest' /\ newest' \in 0 .. newest'
    BY <2>1, <1>11
  <2>3. CASE rewritten
    <3>1. staging' = [staging EXCEPT ![g] = newest'] /\ newest' = newest + 1
      BY <1>2, <2>3
    <3>2. newest' \in 1 .. Versions
      BY <3>1, <2>1, <1>1, <1>11, VersionsInRange
    <3> QED
      BY <2>1, <2>2, <2>3, <3>1, <3>2 DEF NoVersion
  <2>4. CASE ~rewritten
    BY <1>1, <1>2, <1>8, <2>1, <2>4, VersionsInRange
  <2> QED
    BY <2>3, <2>4
<1>13. /\ passing' \in [1 .. Versions -> SUBSET ToSet(Checks)]
       /\ \A w \in 1 .. Versions : passing[w] \subseteq passing'[w]
       /\ passed => passing'[staging'[g]] = passing[staging'[g]] \cup {check}
  <2>1. passing \in [1 .. Versions -> SUBSET ToSet(Checks)]
    BY <1>1 DEF GenVerTypeOK
  <2> HIDE DEF check
  <2>2. CASE passed
    BY <1>2, <1>6, <1>12, <2>1, <2>2
  <2>3. CASE ~passed
    BY <1>2, <2>1, <2>3
  <2> QED
    BY <2>2, <2>3
<1>14. GenVerTypeOK'
  <2>1. 0 .. newest \subseteq 0 .. newest' /\ newest' \in 0 .. Versions
    BY <1>1, <1>11, VersionsInRange
  <2>2. copied' \in [Generators -> 0 .. newest'] /\ destination' \in 0 .. newest'
    BY <1>1, <1>3, <2>1 DEF GenVerTypeOK
  <2> QED
    BY <1>9, <1>12, <1>13, <2>1, <2>2 DEF GenVerTypeOK, Loops, Results
<1>15. LoopFits(g)'
  BY <1>9 DEF LoopFits
<1>16. ASSUME Passed(Append(verdicts, passed))
       PROVE  Covers(passing'[staging'[g]], n + 1)
  <2>1. passed /\ Passed(verdicts) /\ Covers(passing[staging[g]], n)
    BY <1>7, <1>8, <1>16
  <2>2. passing'[staging'[g]] = passing[staging'[g]] \cup {check}
    BY <1>13, <2>1
  <2>3. CASE rewritten
    BY <1>2, <1>5, <2>2, <2>3, CoversRewritten
  <2>4. CASE ~rewritten
    <3>1. staging'[g] = staging[g]
      BY <1>12, <2>4
    <3>2. Covers(passing[staging[g]] \cup {Checks[n + 1]}, n + 1)
      BY <1>5, <2>1, CoversNext
    <3> QED
      BY <2>2, <3>1, <3>2
  <2> QED
    BY <2>3, <2>4
<1>17. PromotionFits(g)'
  BY <1>7, <1>9, <1>12, <1>16 DEF PromotionFits
<1> QED
  BY <1>3, <1>9, <1>11, <1>12, <1>13, <1>14, <1>15, <1>17, OneGeneratorSteps

LEMMA ReplaceKeeps ==
    ASSUME GenVerInv, NEW g \in Generators, ReplaceDestination(g)
    PROVE  GenVerInv'
<1>1. destination' = copied[g] /\ Covers(passing[copied[g]], Len(Checks))
  BY DEF GenVerInv, PromotionFits, ReplaceDestination, At
<1> QED
  BY <1>1, LoopRests DEF ReplaceDestination

LEMMA GenVerStepKeeps ==
    ASSUME GenVerInv, [GenVerNext]_genverVars
    PROVE  GenVerInv'
<1>1. CASE UNCHANGED genverVars
  BY <1>1 DEF GenVerInv, GenVerTypeOK, LoopFits, PromotionFits, Passed, Covers,
              Writing, genverVars
<1>2. CASE GenVerNext
  <2>1. PICK g \in Generators : BeginLoop(g) \/ GenVerStep(g) \/ KillGenerator(g)
    BY <1>2 DEF GenVerNext
  <2>2. CASE BeginLoop(g)
    BY <2>2, BeginLoopKeeps
  <2>3. CASE AgentTurn(g)
    BY <2>3, AgentKeeps
  <2>4. CASE ExecuteTool(g)
    BY <2>4, ExecuteKeeps
  <2>5. CASE RunStage(g)
    BY <2>5, StageKeeps
  <2>6. CASE Refuse(g)
    BY <2>6, LoopRests DEF Refuse, Files
  <2>7. CASE CopyCandidate(g)
    BY <2>7, CopyKeeps
  <2>8. CASE ReplaceDestination(g)
    BY <2>8, ReplaceKeeps
  <2>9. CASE KillGenerator(g)
    BY <2>9, LoopRests DEF KillGenerator
  <2> QED
    BY <2>1, <2>2, <2>3, <2>4, <2>5, <2>6, <2>7, <2>8, <2>9 DEF GenVerStep
<1> QED
  BY <1>1, <1>2

LEMMA GenVerStarts ==
    ASSUME GenVerInit
    PROVE  GenVerInv
<1>1. Waiting \in Loops
  <2>1. 0 \in 0 .. MaxTurns /\ 0 \in 0 .. Attempts
    BY GenVerAssumption
  <2> QED
    BY <2>1, EmptyResults DEF Waiting, Loops
<1>2. loop \in [Generators -> Loops]
  BY <1>1 DEF GenVerInit
<1>3. GenVerTypeOK
  <2>1. 0 \in 0 .. Versions /\ 0 \in 0 .. 0
    BY GenVerAssumption
  <2> QED
    BY <1>2, <2>1 DEF GenVerInit, GenVerTypeOK, Loops, Results, NoVersion
<1>4. newest + Writing <= Versions
  <2>1. Writers = {}
    BY DEF GenVerInit, Writers, Waiting
  <2>2. Writing = 0
    BY <2>1, WritersCount, FS_EmptySet
  <2> QED
    BY <2>2, GenVerAssumption DEF GenVerInit
<1> QED
  BY <1>3, <1>4 DEF GenVerInit, GenVerInv, LoopFits, PromotionFits, Waiting, NoVersion

\* The state of the turn loops and of the promotion is always of its type: the
\* results of a validation never outnumber the stages, the turns never exceed
\* max_turns, and no version is made up.
THEOREM GenVerTypeCorrect == GenVerSpec => []GenVerTypeOK
<1>1. GenVerInv => GenVerTypeOK
  BY DEF GenVerInv
<1> QED
  BY <1>1, GenVerStarts, GenVerStepKeeps, PTL DEF GenVerSpec

\* promote_candidate: what stands at the destination has passed every stage
\* from the last that may have rewritten it on, whatever the interleaving of
\* the generators and whichever of them is killed.
THEOREM DestinationHasPassed == GenVerSpec => []DestinationPassed
<1>1. GenVerInv => DestinationPassed
  BY ChecksFinite DEF GenVerInv, DestinationPassed, Covers
<1> QED
  BY <1>1, GenVerStarts, GenVerStepKeeps, PTL DEF GenVerSpec

-----------------------------------------------------------------------------
(***************************************************************************)
(* Ladders: for any ladders, metrics and tiers.                            *)
(***************************************************************************)

Result == [tier : DOMAIN ladder, metric : Metrics]

\* A tier that was dispatched and has not returned has no result yet; one
\* that was dispatched before has one.
Dispatched ==
    /\ inFlight # 0 => outcome = "none" /\ dispatches[inFlight] = 1 /\ ~HasResult(inFlight)
    /\ \A t \in DOMAIN ladder :
         /\ dispatches[t] <= 1
         /\ dispatches[t] = 1 => t = inFlight \/ HasResult(t)
         /\ dispatches[t] = 1 => \A u \in 1 .. t - 1 : Known(u, "none") = "complete"

LadderInv ==
    /\ FidelityTypeOK
    /\ ResultsValid(results)
    /\ ladder = <<>> => inFlight = 0 /\ outcome = "none"
    /\ Dispatched
    /\ outcome = "complete" => \A t \in DOMAIN ladder : Known(t, "none") = "complete"

LEMMA LadderIsSeq ==
    ASSUME FidelityTypeOK
    PROVE  /\ Len(ladder) \in Nat /\ DOMAIN ladder = 1 .. Len(ladder)
           /\ DOMAIN ladder \in SUBSET Nat
<1>1. CASE ladder \in Ladders
  <2>1. ladder \in Seq([cross : BOOLEAN, threshold : Nat \cup {NoThreshold}])
    BY <1>1, FidelityAssumption
  <2>2. QED
    BY <2>1
<1>2. CASE ladder = <<>>
  BY <1>2
<1>3. QED
  BY <1>1, <1>2 DEF FidelityTypeOK

LEMMA KnownIsOneOf ==
    ASSUME NEW t, NEW compared
    PROVE  Known(t, compared) \in {"complete", "stop", "open"}
BY DEF Known

\* Without a comparison only a result says something of a tier.
LEMMA OpenWithoutResult ==
    ASSUME NEW t
    PROVE  Known(t, "none") = "open" <=> ~HasResult(t)
BY DEF Known

\* What is to be done with a tier depends on the tiers below it alone.
LEMMA DecisionMeans ==
    ASSUME NEW t \in Nat, NEW compared
    PROVE  /\ Decision(t, compared) = "stop" =>
                 /\ Known(t, compared) = "stop"
                 /\ \A u \in 1 .. t - 1 : Known(u, compared) # "stop"
           /\ Decision(t, compared) = "dispatch" =>
                 /\ Known(t, compared) = "open"
                 /\ \A u \in 1 .. t - 1 : Known(u, compared) = "complete"
           /\ Known(t, compared) # "complete" =>
                 \/ Decision(t, compared) \in {"stop", "dispatch"}
                 \/ \E u \in 1 .. t - 1 : Known(u, compared) # "complete"
<1>1. Known(t, compared) \in {"complete", "stop", "open"}
  BY KnownIsOneOf
<1>2. \A u \in 1 .. t - 1 : Known(u, compared) \in {"complete", "stop", "open"}
  BY KnownIsOneOf
<1> HIDE DEF Known
<1>3. QED
  BY <1>1, <1>2 DEF Decision

\* The scheduler names the first tier to act on, and none only when every
\* tier has passed.
LEMMA NextDecisionIs ==
    ASSUME FidelityTypeOK, NEW compared
    PROVE  LET next == NextDecision(compared) IN
           /\ next = 0 => \A t \in DOMAIN ladder : Known(t, compared) = "complete"
           /\ next # 0 => /\ next \in DOMAIN ladder
                          /\ Decision(next, compared) \in {"dispatch", "stop"}
<1> DEFINE actionable == {t \in DOMAIN ladder : Decision(t, compared) \in {"dispatch", "stop"}}
<1>1. DOMAIN ladder = 1 .. Len(ladder) /\ DOMAIN ladder \in SUBSET Nat
  BY LadderIsSeq
<1>2. CASE actionable = {}
  <2> DEFINE T == {t \in DOMAIN ladder : Known(t, compared) # "complete"}
  <2>1. ASSUME T # {}
        PROVE  FALSE
    <3>1. PICK t \in T : \A u \in T : t <= u
      <4>1. T \in SUBSET Nat
        BY <1>1
      <4> HIDE DEF T
      <4>2. QED
        BY <2>1, <4>1, LeastNumber
    <3>2. t \in Nat /\ t \in DOMAIN ladder /\ Known(t, compared) # "complete"
      BY <1>1, <3>1
    <3>3. ASSUME NEW u \in 1 .. t - 1
          PROVE  Known(u, compared) = "complete"
      <4>1. u \in DOMAIN ladder /\ ~ (t <= u)
        BY <1>1, <3>2
      <4>2. QED
        BY <3>1, <4>1
    <3>4. Decision(t, compared) \in {"stop", "dispatch"}
      BY <3>2, <3>3, DecisionMeans
    <3>5. QED
      BY <1>2, <3>2, <3>4
  <2>2. NextDecision(compared) = 0
    BY <1>2 DEF NextDecision
  <2>3. QED
    BY <2>1, <2>2
<1>3. CASE actionable # {}
  <2>1. actionable \in SUBSET Nat
    BY <1>1
  <2> DEFINE first == CHOOSE t \in actionable : \A u \in actionable : t <= u
  <2>2. NextDecision(compared) = first
    BY <1>3 DEF NextDecision
  <2>3. \E t \in actionable : \A u \in actionable : t <= u
    <3> HIDE DEF actionable
    <3>1. QED
      BY <1>3, <2>1, LeastNumber
  <2>4. first \in actionable
    BY <2>3
  <2>5. \A t \in actionable :
           t # 0 /\ t \in DOMAIN ladder /\ Decision(t, compared) \in {"dispatch", "stop"}
    BY <1>1
  <2> HIDE DEF first, actionable
  <2>6. QED
    BY <2>2, <2>4, <2>5
<1>4. QED
  BY <1>2, <1>3

\* The metric of a tier is that of its result: there is one.
LEMMA MetricIs ==
    ASSUME NEW i \in DOMAIN results, ResultsValid(results)
    PROVE  MetricOf(results[i].tier) = results[i].metric
<1>1. results[i] \in ToSet(results)
  BY DEF ToSet
<1>2. \A r \in ToSet(results) : r.tier = results[i].tier => r = results[i]
  BY DEF ToSet, ResultsValid
<1>3. (CHOOSE r \in ToSet(results) : r.tier = results[i].tier) = results[i]
  BY <1>1, <1>2
<1>4. QED
  BY <1>3 DEF MetricOf

LEMMA LadderStarts == FidelityInit => LadderInv
<1> SUFFICES ASSUME FidelityInit PROVE LadderInv
  OBVIOUS
<1>1. ladder = <<>> /\ results = <<>> /\ DOMAIN ladder = {}
  BY DEF FidelityInit
<1>2. results \in Seq(Result) /\ dispatches \in [DOMAIN ladder -> Nat]
  BY <1>1 DEF FidelityInit
<1>3. FidelityTypeOK
  BY <1>1, <1>2 DEF FidelityInit, FidelityTypeOK, Result
<1>4. QED
  BY <1>1, <1>3 DEF FidelityInit, LadderInv, ResultsValid, Dispatched

\* The results that a caller brings along are valid, of whatever tiers.
LEMMA BeginLadderKeeps == ASSUME LadderInv, BeginLadder PROVE LadderInv'
<1>1. PICK l \in Ladders :
         /\ ladder' = l
         /\ dispatches' = [t \in DOMAIN l |-> 0]
         /\ \E S \in SUBSET DOMAIN l : \E m \in [S -> Metrics] :
               results' = SetToSeq({[tier |-> t, metric |-> m[t]] : t \in S})
  BY DEF BeginLadder
<1>0. PICK S \in SUBSET DOMAIN l : \E m \in [S -> Metrics] :
         results' = SetToSeq({[tier |-> t, metric |-> m[t]] : t \in S})
  BY <1>1
<1>2. PICK m \in [S -> Metrics] :
         results' = SetToSeq({[tier |-> t, metric |-> m[t]] : t \in S})
  BY <1>0
<1>3. l \in Seq([cross : BOOLEAN, threshold : Nat \cup {NoThreshold}]) /\ l # <<>>
  BY FidelityAssumption
<1>4. DOMAIN l = 1 .. Len(l) /\ Len(l) \in Nat
  BY <1>3
<1> DEFINE R == {[tier |-> t, metric |-> m[t]] : t \in S}
<1>5. \A r, q \in R : r.tier = q.tier => r = q
  OBVIOUS
<1>6. \A r \in R : r \in [tier : DOMAIN l, metric : Metrics] /\ r.tier \in S
  OBVIOUS
<1> HIDE DEF R
<1>7. IsFiniteSet(R)
  <2>1. IsFiniteSet(S)
    <3>1. IsFiniteSet(1 .. Len(l))
      BY <1>4, FS_Interval
    <3>2. QED
      BY <1>4, <3>1, FS_Subset
  <2> DEFINE f == [r \in R |-> r.tier]
  <2>2. f \in [R -> S] /\ \A r, q \in R : f[r] = f[q] => r = q
    BY <1>5, <1>6
  <2>3. f \in Injection(R, S)
    BY <2>2, Fun_IsInj
  <2>4. QED
    BY <2>1, <2>3, FS_Injection
<1>8. /\ results' \in Seq(R) /\ results' \in [1 .. Cardinality(R) -> R]
      /\ \A i, j \in DOMAIN results' : results'[i] = results'[j] => i = j
  BY <1>2, <1>7, SetToSeqLists DEF R
<1>9. ResultsValid(results)'
  BY <1>5, <1>8 DEF ResultsValid
<1>10. results' \in Seq([tier : DOMAIN ladder', metric : Metrics])
  <2>1. R \subseteq [tier : DOMAIN l, metric : Metrics] /\ Cardinality(R) \in Nat
    BY <1>6, <1>7, FS_CardinalityType
  <2>2. results' \in [1 .. Cardinality(R) -> [tier : DOMAIN l, metric : Metrics]]
    BY <1>8, <2>1
  <2>3. results' \in Seq([tier : DOMAIN l, metric : Metrics])
    BY <2>1, <2>2, FunctionIsSeq
  <2>4. QED
    BY <1>1, <2>3
<1>11. inFlight = 0 /\ outcome = "none" /\ ladder = <<>>
  BY DEF LadderInv, BeginLadder
<1>12. FidelityTypeOK'
  BY <1>1, <1>10, <1>11 DEF LadderInv, FidelityTypeOK, BeginLadder
<1>13. dispatches' = [t \in DOMAIN ladder' |-> 0]
  BY <1>1
<1>14. QED
  BY <1>9, <1>11, <1>12, <1>13 DEF LadderInv, Dispatched, BeginLadder

LEMMA ClimbKeeps == ASSUME LadderInv, Loop PROVE LadderInv'
<1> DEFINE next == NextDecision("none")
<1>1. /\ FidelityTypeOK /\ ladder # <<>> /\ inFlight = 0 /\ outcome = "none"
      /\ UNCHANGED <<ladder, results, comparison>>
  BY DEF LadderInv, Loop
<1>3. \A t : HasResult(t)' = HasResult(t)
  BY <1>1 DEF HasResult
<1>4. \A t : Known(t, "none")' = Known(t, "none")
  BY <1>1 DEF Known, HasResult, PassesKillThreshold, MetricOf
<1>5. next = 0 => \A t \in DOMAIN ladder : Known(t, "none") = "complete"
  BY <1>1, NextDecisionIs
<1>6. next # 0 => next \in DOMAIN ladder
  BY <1>1, NextDecisionIs
<1> HIDE DEF next
<1>7. CASE UNCHANGED <<inFlight, dispatches>> /\ outcome' \in {"complete", "stopped"}
           /\ (outcome' = "complete" => next = 0)
  <2>1. FidelityTypeOK'
    BY <1>1, <1>7 DEF FidelityTypeOK
  <2>2. Dispatched'
    BY <1>1, <1>3, <1>4, <1>7 DEF LadderInv, Dispatched
  <2>3. QED
    BY <1>1, <1>4, <1>5, <1>7, <2>1, <2>2 DEF LadderInv, ResultsValid
<1>8. CASE next # 0 /\ Decision(next, "none") = "dispatch"
           /\ inFlight' = next /\ outcome' = outcome
           /\ dispatches' = [dispatches EXCEPT ![next] = dispatches[next] + 1]
  <2>1. next \in DOMAIN ladder /\ next \in Nat
    BY <1>1, <1>6, <1>8, LadderIsSeq
  <2>2. Known(next, "none") = "open" /\ \A u \in 1 .. next - 1 : Known(u, "none") = "complete"
    BY <1>8, <2>1, DecisionMeans
  <2>3. ~HasResult(next)
    BY <2>2, OpenWithoutResult
  <2>4. dispatches[next] = 0 /\ dispatches \in [DOMAIN ladder -> Nat]
    BY <1>1, <1>8, <2>1, <2>3 DEF LadderInv, Dispatched, FidelityTypeOK
  <2>5. \A t \in DOMAIN ladder : dispatches'[t] = IF t = next THEN 1 ELSE dispatches[t]
    BY <1>8, <2>1, <2>4
  <2>6. FidelityTypeOK'
    BY <1>1, <1>8, <2>1, <2>4 DEF FidelityTypeOK
  <2>7. Dispatched'
    BY <1>1, <1>3, <1>4, <1>8, <2>1, <2>2, <2>3, <2>5 DEF LadderInv, Dispatched
  <2>8. QED
    BY <1>1, <1>8, <2>6, <2>7 DEF LadderInv, ResultsValid
<1>9. next # 0 => Decision(next, "none") \in {"dispatch", "stop"}
  BY <1>1, NextDecisionIs DEF next
<1>10. QED
  BY <1>7, <1>8, <1>9 DEF Loop, next

LEMMA TierReturnKeeps == ASSUME LadderInv, TierReturns PROVE LadderInv'
<1> DEFINE n == Len(results)
<1>1. PICK m \in Metrics : results' = Append(results, [tier |-> inFlight, metric |-> m])
  BY DEF TierReturns
<1>2. /\ FidelityTypeOK /\ ResultsValid(results) /\ inFlight # 0 /\ ~HasResult(inFlight)
      /\ outcome = "none" /\ inFlight' = 0
      /\ UNCHANGED <<ladder, comparison, dispatches, outcome>>
      /\ inFlight \in DOMAIN ladder /\ dispatches[inFlight] = 1
      /\ results \in Seq([tier : DOMAIN ladder, metric : Metrics])
  BY DEF LadderInv, Dispatched, TierReturns, FidelityTypeOK
<1>3. /\ DOMAIN results = 1 .. n /\ n \in Nat /\ DOMAIN results' = 1 .. n + 1
      /\ results'[n + 1] = [tier |-> inFlight, metric |-> m]
      /\ \A i \in 1 .. n : results'[i] = results[i]
  BY <1>1, <1>2
<1>4. results' \in Seq([tier : DOMAIN ladder', metric : Metrics])
  BY <1>1, <1>2
<1> HIDE DEF n
<1>5. \A i \in 1 .. n : results[i].tier # inFlight
  BY <1>2, <1>3 DEF HasResult
<1>6. ResultsValid(results)'
  <2>1. SUFFICES ASSUME NEW i \in 1 .. n + 1, NEW j \in 1 .. n + 1,
                        results'[i].tier = results'[j].tier
                 PROVE  i = j
    BY <1>3 DEF ResultsValid
  <2>2. i \in 1 .. n \/ i = n + 1
    BY <1>3
  <2>3. j \in 1 .. n \/ j = n + 1
    BY <1>3
  <2>4. QED
    BY <1>2, <1>3, <1>5, <2>1, <2>2, <2>3 DEF ResultsValid
<1>7. \A t : HasResult(t)' <=> HasResult(t) \/ t = inFlight
  <2>1. \A i : i \in 1 .. n + 1 <=> i \in 1 .. n \/ i = n + 1
    BY <1>3
  <2>2. QED
    BY <1>3, <2>1 DEF HasResult
<1>8. ASSUME NEW t, HasResult(t)
      PROVE  MetricOf(t)' = MetricOf(t)
  <2>1. PICK i \in 1 .. n : results[i].tier = t
    BY <1>3, <1>8 DEF HasResult
  <2>2. MetricOf(t) = results[i].metric
    BY <1>2, <1>3, <2>1, MetricIs
  <2>3. i \in 1 .. n + 1 /\ results'[i] = results[i]
    BY <1>3, <2>1
  <2>4. \A j \in DOMAIN results : MetricOf(results[j].tier) = results[j].metric
    BY <1>2, MetricIs
  <2>5. \A r \in ToSet(results') : r.tier = t => r = results'[i]
    BY <1>6, <1>3, <2>1, <2>3 DEF ToSet, ResultsValid
  <2>6. results'[i] \in ToSet(results')
    BY <1>3, <2>3 DEF ToSet
  <2>7. (CHOOSE r \in ToSet(results') : r.tier = t) = results'[i]
    BY <2>1, <2>3, <2>5, <2>6
  <2>8. QED
    BY <2>2, <2>3, <2>7 DEF MetricOf
<1>9. ASSUME NEW t, Known(t, "none") = "complete"
      PROVE  Known(t, "none")' = "complete"
  <2>1. HasResult(t) /\ PassesKillThreshold(t, MetricOf(t))
    BY <1>9 DEF Known
  <2>2. HasResult(t)' /\ MetricOf(t)' = MetricOf(t)
    BY <1>7, <1>8, <2>1
  <2>3. PassesKillThreshold(t, MetricOf(t))'
    BY <1>2, <2>1, <2>2 DEF PassesKillThreshold
  <2>4. QED
    BY <2>2, <2>3 DEF Known
<1>10. FidelityTypeOK'
  BY <1>2, <1>4 DEF FidelityTypeOK
<1>11. Dispatched'
  BY <1>2, <1>7, <1>9 DEF LadderInv, Dispatched
<1>12. QED
  BY <1>2, <1>6, <1>10, <1>11 DEF LadderInv

LEMMA TiersKeep ==
    ASSUME LadderInv, CrossSimulatorCompared \/ UNCHANGED fidelityVars
    PROVE  LadderInv'
<1>1. UNCHANGED <<ladder, results, inFlight, dispatches, outcome>>
  BY DEF CrossSimulatorCompared, fidelityVars
<1>2. comparison' \in {"none", "passed", "failed"}
  BY DEF CrossSimulatorCompared, fidelityVars, LadderInv, FidelityTypeOK
<1>3. \A t : HasResult(t)' = HasResult(t) /\ Known(t, "none")' = Known(t, "none")
  BY <1>1 DEF Known, HasResult, PassesKillThreshold, MetricOf
<1>4. FidelityTypeOK'
  BY <1>1, <1>2 DEF LadderInv, FidelityTypeOK
<1>5. Dispatched'
  BY <1>1, <1>3 DEF LadderInv, Dispatched
<1>6. QED
  BY <1>1, <1>3, <1>4, <1>5 DEF LadderInv, ResultsValid

LEMMA LadderStep == LadderInv /\ [FidelityNext]_fidelityVars => LadderInv'
BY BeginLadderKeeps, ClimbKeeps, TierReturnKeeps, TiersKeep DEF FidelityNext

\* Whatever is known of the tiers, the scheduler has at most one of them to
\* dispatch and one to stop at, the first below the second.
LEMMA OneDecision ==
    ASSUME FidelityTypeOK
    PROVE  LET toDispatch == {t \in DOMAIN ladder : Decision(t, comparison) = "dispatch"}
               stopping   == {t \in DOMAIN ladder : Decision(t, comparison) = "stop"}
           IN  /\ Cardinality(toDispatch) <= 1 /\ Cardinality(stopping) <= 1
               /\ \A t \in toDispatch, u \in stopping : t < u
<1> DEFINE toDispatch == {t \in DOMAIN ladder : Decision(t, comparison) = "dispatch"}
           stopping   == {t \in DOMAIN ladder : Decision(t, comparison) = "stop"}
<1>1. \A t \in DOMAIN ladder : t \in Nat /\ \A u \in DOMAIN ladder : u < t => u \in 1 .. t - 1
  BY LadderIsSeq
<1>2. \A t \in toDispatch : /\ Known(t, comparison) = "open" /\ t \in DOMAIN ladder
                            /\ \A u \in 1 .. t - 1 : Known(u, comparison) = "complete"
  BY <1>1, DecisionMeans
<1>3. \A t \in stopping : /\ Known(t, comparison) = "stop" /\ t \in DOMAIN ladder
                          /\ \A u \in 1 .. t - 1 : Known(u, comparison) # "stop"
  BY <1>1, DecisionMeans
<1> HIDE DEF toDispatch, stopping
<1>4. ASSUME NEW t \in toDispatch, NEW u \in toDispatch PROVE t = u
  BY <1>1, <1>2
<1>5. ASSUME NEW t \in stopping, NEW u \in stopping PROVE t = u
  BY <1>1, <1>3
<1>6. ASSUME NEW t \in toDispatch, NEW u \in stopping PROVE t < u
  BY <1>1, <1>2, <1>3
<1>7. Cardinality(toDispatch) <= 1 /\ Cardinality(stopping) <= 1
  BY <1>4, <1>5, AtMostOne
<1>8. QED
  BY <1>6, <1>7 DEF toDispatch, stopping

LEMMA LadderFollows == LadderInv => LadderHolds
BY OneDecision DEF LadderInv, Dispatched, LadderHolds

LEMMA LadderInvariant == FidelitySpec => []LadderInv
BY LadderStarts, LadderStep, PTL DEF FidelitySpec

\* The ladder, its results and what is in flight have their types.
THEOREM FidelityTypeCorrect == FidelitySpec => []FidelityTypeOK
<1>1. LadderInv => FidelityTypeOK
  BY DEF LadderInv
<1>2. QED
  BY <1>1, LadderInvariant, PTL

\* For ladders of any height: no tier is dispatched twice, or above one that
\* has not passed, and a ladder is complete only when all of it has passed.
THEOREM LaddersHold == FidelitySpec => []LadderHolds
BY LadderFollows, LadderInvariant, PTL

-----------------------------------------------------------------------------
(***************************************************************************)
(* Discovery: what its helpers return.                                     *)
(***************************************************************************)

LEMMA ShorterIs ==
  ASSUME NEW S, NEW seq \in Seq(S), NEW n \in Nat
  PROVE  /\ Shorter(seq, n) \in Seq(S)
         /\ Len(Shorter(seq, n)) = IF n < Len(seq) THEN n ELSE Len(seq)
         /\ \A i \in 1 .. Len(Shorter(seq, n)) : Shorter(seq, n)[i] = seq[i]
<1> DEFINE k == IF n < Len(seq) THEN n ELSE Len(seq)
<1>1. k \in 0 .. Len(seq) /\ Len(seq) \in Nat
  OBVIOUS
<1>2. \A i \in 1 .. k : seq[i] \in S
  BY <1>1
<1> HIDE DEF k
<1>3. /\ SubSeq(seq, 1, k) \in Seq(S)
      /\ Len(SubSeq(seq, 1, k)) = IF 1 <= k THEN k - 1 + 1 ELSE 0
      /\ \A i \in 1 .. k - 1 + 1 : SubSeq(seq, 1, k)[i] = seq[1 + i - 1]
  BY <1>1, <1>2, SubSeqProperties
<1>4. \A i \in 1 .. k : SubSeq(seq, 1, k)[i] = seq[i]
  BY <1>1, <1>3
<1>5. Shorter(seq, n) = SubSeq(seq, 1, k)
  BY DEF Shorter, k
<1> QED
  BY <1>1, <1>3, <1>4, <1>5 DEF k

Entries == [work : Works, kind : Kinds]

LEMMA TaggedIs ==
  ASSUME NEW works \in Seq(Works), NEW kind \in Kinds
  PROVE  /\ Tagged(works, kind) \in Seq(Entries)
         /\ Len(Tagged(works, kind)) = Len(works)
         /\ \A i \in 1 .. Len(works) :
              Tagged(works, kind)[i] = [work |-> works[i], kind |-> kind]
<1>1. Len(works) \in Nat /\ DOMAIN works = 1 .. Len(works)
  OBVIOUS
<1>2. Tagged(works, kind) \in [1 .. Len(works) -> Entries]
  BY <1>1 DEF Tagged, Entries
<1>3. Tagged(works, kind) \in Seq(Entries)
  BY <1>1, <1>2, FunctionIsSeq
<1> QED
  BY <1>1, <1>2, <1>3 DEF Tagged

\* A set of numbers as InOrder lists it.
Up(N) == {p \in N \X N : p[1] < p[2]}

LEMMA UpOrders ==
  ASSUME NEW N \in SUBSET Nat
  PROVE  StrictlyOrders(Up(N), N)
BY DEF StrictlyOrders, Up

LEMMA RankOfNumber ==
  ASSUME NEW N \in SUBSET Nat, IsFiniteSet(N), NEW i \in 1 .. Cardinality(N)
  PROVE  \E x \in N : Cardinality({j \in N : j < x}) = i - 1
<1>0. StrictlyOrders(Up(N), N)
  BY UpOrders
<1>3. \A k \in 1 .. Cardinality(N) : \E x \in N : Cardinality(Lower(Up(N), N, x)) = k - 1
  BY <1>0, RankIsTaken
<1>1. PICK x \in N : Cardinality(Lower(Up(N), N, x)) = i - 1
  BY <1>3
<1>2. Lower(Up(N), N, x) = {j \in N : j < x}
  BY DEF Lower, Up
<1> QED
  BY <1>1, <1>2

LEMMA NumbersInOrder ==
  ASSUME NEW N \in SUBSET Nat, IsFiniteSet(N),
         NEW order \in [1 .. Cardinality(N) -> N],
         \A i \in 1 .. Cardinality(N) : Cardinality({j \in N : j < order[i]}) = i - 1
  PROVE  /\ \A x \in N : \E i \in 1 .. Cardinality(N) : order[i] = x
         /\ \A i, j \in 1 .. Cardinality(N) : i < j => order[i] < order[j]
<1>1. StrictlyOrders(Up(N), N)
  BY UpOrders
<1>2. \A x \in N : Lower(Up(N), N, x) = {j \in N : j < x}
  BY DEF Lower, Up
<1>3. \A i \in 1 .. Cardinality(N) : Cardinality(Lower(Up(N), N, order[i])) = i - 1
  BY <1>2
<1>4. /\ \A x \in N : \E i \in 1 .. Cardinality(N) : order[i] = x
      /\ \A i, j \in 1 .. Cardinality(N) : i < j => <<order[i], order[j]>> \in Up(N)
  BY <1>1, <1>3, RanksAreInOrder
<1> QED
  BY <1>4 DEF Up

\* Where each work appears first.
FirstAt(entries) ==
  {i \in DOMAIN entries : \A j \in 1 .. i - 1 : entries[j].work # entries[i].work}

LEMMA FirstAtFinite ==
  ASSUME NEW entries \in Seq(Entries)
  PROVE  /\ FirstAt(entries) \in SUBSET Nat
         /\ FirstAt(entries) \subseteq 1 .. Len(entries)
         /\ IsFiniteSet(FirstAt(entries))
<1>1. Len(entries) \in Nat /\ DOMAIN entries = 1 .. Len(entries)
  OBVIOUS
<1>2. IsFiniteSet(1 .. Len(entries)) /\ FirstAt(entries) \subseteq 1 .. Len(entries)
  BY <1>1, FS_Interval DEF FirstAt
<1> QED
  BY <1>1, <1>2, FS_Subset

LEMMA FirstEntriesIs ==
  ASSUME NEW entries \in Seq(Entries)
  PROVE  \E order \in [1 .. Cardinality(FirstAt(entries)) -> FirstAt(entries)] :
           /\ FirstEntries[entries] = [n \in 1 .. Cardinality(FirstAt(entries)) |->
                                         entries[order[n]]]
           /\ \A n \in 1 .. Cardinality(FirstAt(entries)) :
                Cardinality({j \in FirstAt(entries) : j < order[n]}) = n - 1
           /\ \A i \in FirstAt(entries) : \E n \in 1 .. Cardinality(FirstAt(entries)) :
                order[n] = i
<1> DEFINE n == Cardinality(FirstAt(entries))
           Under(x) == {j \in FirstAt(entries) : j < x}
           order == [i \in 1 .. n |-> CHOOSE x \in FirstAt(entries) : Cardinality(Under(x)) = i - 1]
<1>1. FirstEntries[entries] = [i \in DOMAIN order |-> entries[order[i]]]
  BY DEF FirstEntries, FirstAt, Entries, InOrder
<1>2. FirstAt(entries) \in SUBSET Nat /\ IsFiniteSet(FirstAt(entries))
  BY FirstAtFinite
<1>3. ASSUME NEW i \in 1 .. n
      PROVE  order[i] \in FirstAt(entries) /\ Cardinality(Under(order[i])) = i - 1
  <2>1. \E x \in FirstAt(entries) : Cardinality(Under(x)) = i - 1
    BY <1>2, RankOfNumber
  <2> HIDE DEF Under
  <2>2. order[i] = CHOOSE x \in FirstAt(entries) : Cardinality(Under(x)) = i - 1
    OBVIOUS
  <2> QED
    BY <2>1, <2>2
<1>4. order \in [1 .. n -> FirstAt(entries)] /\ DOMAIN order = 1 .. n
  BY <1>3
<1> HIDE DEF order
<1>5. \A x \in FirstAt(entries) : \E i \in 1 .. Cardinality(FirstAt(entries)) : order[i] = x
  BY <1>2, <1>3, <1>4, NumbersInOrder
<1> QED
  BY <1>1, <1>3, <1>4, <1>5

LEMMA FirstEntriesTyped ==
  ASSUME NEW entries \in Seq(Entries)
  PROVE  /\ FirstEntries[entries] \in Seq(Entries)
         /\ Len(FirstEntries[entries]) = Cardinality(FirstAt(entries))
<1>1. PICK order \in [1 .. Cardinality(FirstAt(entries)) -> FirstAt(entries)] :
        FirstEntries[entries] = [n \in 1 .. Cardinality(FirstAt(entries)) |->
                                   entries[order[n]]]
  BY FirstEntriesIs
<1>2. Cardinality(FirstAt(entries)) \in Nat /\ FirstAt(entries) \subseteq 1 .. Len(entries)
  BY FirstAtFinite, FS_CardinalityType
<1>3. FirstEntries[entries] \in [1 .. Cardinality(FirstAt(entries)) -> Entries]
  BY <1>1, <1>2
<1> QED
  BY <1>1, <1>2, <1>3, FunctionIsSeq

EdgeRows == [source : Works, target : Works, kind : Kinds, run : 1 .. Crawls]
ForwardRows(work) == {e \in edges : e.source = work /\ e.kind = "forward"}
RowOrder(rows) ==
  {p \in rows \X rows : p[1].target < p[2].target \/ (p[1].target = p[2].target /\ p[1].run < p[2].run)}

LEMMA WorksAreNumbers == Works \subseteq Nat /\ Crawls \in Nat
BY CrawlAssumption

LEMMA EdgeRowTyped ==
  ASSUME NEW e \in EdgeRows
  PROVE  /\ e.source \in Works /\ e.target \in Works /\ e.kind \in Kinds
         /\ e.run \in 1 .. Crawls /\ e.target \in Nat /\ e.run \in Nat
<1>1. e.source \in Works /\ e.target \in Works /\ e.kind \in Kinds /\ e.run \in 1 .. Crawls
  BY DEF EdgeRows
<1>2. e.target \in Nat
  BY <1>1, WorksAreNumbers
<1>3. e.run \in Nat
  BY <1>1, WorksAreNumbers
<1> QED
  BY <1>1, <1>2, <1>3

LEMMA EdgeRowsDiffer ==
  ASSUME NEW x \in EdgeRows, NEW y \in EdgeRows, x.source = y.source, x.kind = y.kind,
         x.target = y.target, x.run = y.run
  PROVE  x = y
BY DEF EdgeRows

\* The cached forward edges of a work, as they are listed.
LEMMA EdgeTargetsIs ==
  ASSUME edges \subseteq EdgeRows, IsFiniteSet(edges), NEW work
  PROVE  /\ EdgeTargets(work) \in Seq(Works)
         /\ Len(EdgeTargets(work)) = Cardinality(ForwardRows(work))
         /\ \A x : (\E n \in 1 .. Len(EdgeTargets(work)) : EdgeTargets(work)[n] = x)
                     <=> (\E e \in ForwardRows(work) : e.target = x)
<1> DEFINE rows == ForwardRows(work)
           R == RowOrder(rows)
           n == Cardinality(rows)
           Under(b) == {a \in rows : a.target < b.target \/ (a.target = b.target /\ a.run < b.run)}
           order == [i \in 1 .. n |-> CHOOSE x \in rows : Cardinality(Under(x)) = i - 1]
<1>1. EdgeTargets(work) = [i \in DOMAIN order |-> order[i].target]
  BY DEF EdgeTargets, ForwardRows, InOrder
<1>2. rows \subseteq EdgeRows /\ IsFiniteSet(rows) /\ n \in Nat
  BY FS_Subset, FS_CardinalityType DEF ForwardRows
<1>0. \A e \in rows : e \in EdgeRows
  BY <1>2
<1>3. \A e \in rows : e.target \in Nat /\ e.run \in Nat
  <2> HIDE DEF rows
  <2> QED
    BY <1>0, EdgeRowTyped
<1>14. \A x, y \in rows : x.source = y.source /\ x.kind = y.kind
  BY DEF ForwardRows
<1>4. StrictlyOrders(R, rows)
  <2> HIDE DEF rows
  <2>1. \A x, y \in rows : x # y => <<x, y>> \in R \/ <<y, x>> \in R
    <3> SUFFICES ASSUME NEW x \in rows, NEW y \in rows, x # y
                 PROVE  <<x, y>> \in R \/ <<y, x>> \in R
      OBVIOUS
    <3>1. x.target # y.target \/ x.run # y.run
      BY <1>0, <1>14, EdgeRowsDiffer
    <3> QED
      BY <1>3, <3>1 DEF RowOrder
  <2>2. \A x \in rows : <<x, x>> \notin R
    BY <1>3 DEF RowOrder
  <2>3. \A x, y, z \in rows : <<x, y>> \in R /\ <<y, z>> \in R => <<x, z>> \in R
    BY <1>3 DEF RowOrder
  <2> QED
    BY <2>1, <2>2, <2>3 DEF StrictlyOrders
<1>5. \A x \in rows : Lower(R, rows, x) = Under(x)
  BY DEF Lower, RowOrder
<1> HIDE DEF R, rows, Under
<1>6. \A i \in 1 .. Cardinality(rows) : \E x \in rows : Cardinality(Lower(R, rows, x)) = i - 1
  BY <1>2, <1>4, RankIsTaken
<1>7. ASSUME NEW i \in 1 .. n
      PROVE  order[i] \in rows /\ Cardinality(Under(order[i])) = i - 1
  <2>1. \E x \in rows : Cardinality(Under(x)) = i - 1
    BY <1>5, <1>6
  <2>2. order[i] = CHOOSE x \in rows : Cardinality(Under(x)) = i - 1
    OBVIOUS
  <2> QED
    BY <2>1, <2>2
<1>8. order \in [1 .. n -> rows] /\ DOMAIN order = 1 .. n
  BY <1>7
<1> HIDE DEF order
<1>9. \A i \in 1 .. Cardinality(rows) : Cardinality(Lower(R, rows, order[i])) = i - 1
  BY <1>5, <1>7
<1>10. \A x \in rows : \E i \in 1 .. Cardinality(rows) : order[i] = x
  BY <1>2, <1>4, <1>8, <1>9, RanksAreInOrder
<1>11. EdgeTargets(work) \in [1 .. n -> Works]
  BY <1>1, <1>2, <1>8 DEF EdgeRows
<1>12. EdgeTargets(work) \in Seq(Works) /\ Len(EdgeTargets(work)) = n
  BY <1>2, <1>11, FunctionIsSeq
<1>13. ASSUME NEW x
       PROVE  (\E i \in 1 .. n : EdgeTargets(work)[i] = x) <=> (\E e \in rows : e.target = x)
  BY <1>1, <1>8, <1>10
<1> QED
  BY <1>12, <1>13 DEF rows, n

\* The order of rank_works.
Better(a, b) ==
  \/ a \in OpenAccess /\ b \notin OpenAccess
  \/ /\ (a \in OpenAccess) = (b \in OpenAccess)
     /\ \/ Citations[a] > Citations[b]
        \/ Citations[a] = Citations[b] /\ a < b
BetterOf(S) == {p \in S \X S : Better(p[1], p[2])}

LEMMA BetterOrders ==
  ASSUME NEW S \in SUBSET Works
  PROVE  StrictlyOrders(BetterOf(S), S)
<1>1. \A x \in S : x \in Nat /\ Citations[x] \in Nat
  BY CrawlAssumption
<1>2. \A x \in S : <<x, x>> \notin BetterOf(S)
  BY <1>1 DEF Better, BetterOf
<1>3. \A x, y \in S : x # y => <<x, y>> \in BetterOf(S) \/ <<y, x>> \in BetterOf(S)
  BY <1>1 DEF Better, BetterOf
<1>4. \A x, y, z \in S : Better(x, y) /\ Better(y, z) => Better(x, z)
  BY <1>1 DEF Better
<1> QED
  BY <1>2, <1>3, <1>4 DEF StrictlyOrders, BetterOf

\* A finite set of works is ranked in full, each work once.
LEMMA RankWorksIs ==
  ASSUME NEW S \in SUBSET Works, IsFiniteSet(S)
  PROVE  /\ RankWorks(S) \in Seq(Works)
         /\ Len(RankWorks(S)) = Cardinality(S)
         /\ ToSet(RankWorks(S)) = S
<1> DEFINE R == BetterOf(S)
           n == Cardinality(S)
           Under(b) == {a \in S : Better(a, b)}
           order == [i \in 1 .. n |-> CHOOSE x \in S : Cardinality(Under(x)) = i - 1]
<1>1. RankWorks(S) = order
  BY DEF RankWorks, InOrder, Better
<1>2. n \in Nat
  BY FS_CardinalityType
<1>3. StrictlyOrders(R, S)
  BY BetterOrders
<1>4. \A x \in S : Lower(R, S, x) = Under(x)
  BY DEF Lower, BetterOf
<1> HIDE DEF R, Under
<1>5. \A i \in 1 .. Cardinality(S) : \E x \in S : Cardinality(Lower(R, S, x)) = i - 1
  BY <1>3, RankIsTaken
<1>6. ASSUME NEW i \in 1 .. n
      PROVE  order[i] \in S /\ Cardinality(Under(order[i])) = i - 1
  <2>1. \E x \in S : Cardinality(Under(x)) = i - 1
    BY <1>4, <1>5
  <2>2. order[i] = CHOOSE x \in S : Cardinality(Under(x)) = i - 1
    OBVIOUS
  <2> QED
    BY <2>1, <2>2
<1>7. order \in [1 .. n -> S] /\ DOMAIN order = 1 .. n
  BY <1>6
<1> HIDE DEF order
<1>8. \A i \in 1 .. Cardinality(S) : Cardinality(Lower(R, S, order[i])) = i - 1
  BY <1>4, <1>6
<1>9. \A x \in S : \E i \in 1 .. Cardinality(S) : order[i] = x
  BY <1>2, <1>3, <1>7, <1>8, RanksAreInOrder
<1>10. order \in Seq(Works) /\ Len(order) = n
  <2>1. order \in [1 .. n -> Works]
    BY <1>7
  <2> QED
    BY <1>2, <1>7, <2>1, FunctionIsSeq
<1>11. ToSet(order) = S
  BY <1>7, <1>9 DEF ToSet
<1> QED
  BY <1>1, <1>10, <1>11

\* What has been listed so far of all that a listing is about, under its limit.
Listing(all, limit) ==
  /\ request.listed \in Seq(Works)
  /\ request.taken \in 0 .. Len(all)
  /\ Len(request.listed) = request.taken
  /\ \A i \in 1 .. request.taken : request.listed[i] = all[i]
  /\ request.taken < limit
  /\ request.pages \in Nat

\* What a page adds is the next of what is listed, up to the limit.
Continues(page, all, limit, maxPages) ==
  /\ page.listed \in Seq(Works)
  /\ page.taken \in 0 .. Len(all)
  /\ Len(page.listed) = page.taken
  /\ \A i \in 1 .. page.taken : page.listed[i] = all[i]
  /\ page.pages \in Nat
  /\ ~page.over => page.taken < limit
  /\ page.over /\ maxPages = 0 => page.listed = Shorter(all, limit)

LEMMA PageGoesOn ==
  ASSUME NEW all \in Seq(Works), NEW limit \in Nat, NEW maxPages \in Nat,
         NEW cursor \in BOOLEAN, Listing(all, limit),
         NEW page, page = Page(all, limit, maxPages, cursor)
  PROVE  Continues(page, all, limit, maxPages)
<1> DEFINE wanted == limit - Len(request.listed)
           size == IF wanted < MaxPerPage THEN wanted ELSE MaxPerPage
           rest == SubSeq(all, request.taken + 1, Len(all))
           items == Shorter(rest, size)
           listed == request.listed \o items
           taken == request.taken
<1>1. /\ taken \in Nat /\ Len(all) \in Nat /\ taken <= Len(all) /\ limit \in Nat
      /\ Len(request.listed) = taken /\ taken < limit
      /\ MaxPerPage \in Nat \ {0} /\ request.pages \in Nat
  BY CrawlAssumption DEF Listing
<1>2. size \in Nat \ {0} /\ size <= limit - taken
  BY <1>1
<1>3. /\ rest \in Seq(Works) /\ Len(rest) = Len(all) - taken
      /\ \A i \in 1 .. Len(all) - taken : rest[i] = all[taken + i]
  <2>1. \A i \in taken + 1 .. Len(all) : all[i] \in Works
    BY <1>1
  <2>2. taken + 1 \in Int /\ Len(all) \in Int
    BY <1>1
  <2>3. /\ rest \in Seq(Works)
        /\ Len(rest) = IF taken + 1 <= Len(all) THEN Len(all) - (taken + 1) + 1 ELSE 0
        /\ \A i \in 1 .. Len(all) - (taken + 1) + 1 : rest[i] = all[taken + 1 + i - 1]
    BY <2>1, <2>2, SubSeqProperties
  <2>4. Len(all) - (taken + 1) + 1 = Len(all) - taken
    BY <1>1
  <2>5. \A i \in 1 .. Len(all) - taken : rest[i] = all[taken + i]
    <3> SUFFICES ASSUME NEW i \in 1 .. Len(all) - taken PROVE rest[i] = all[taken + i]
      OBVIOUS
    <3>1. taken + 1 + i - 1 = taken + i
      BY <1>1
    <3> QED
      BY <2>3, <2>4, <3>1
  <2> QED
    BY <1>1, <2>3, <2>4, <2>5
<1> HIDE DEF rest, size
<1>4. /\ items \in Seq(Works)
      /\ Len(items) = IF size < Len(rest) THEN size ELSE Len(rest)
      /\ \A i \in 1 .. Len(items) : items[i] = rest[i]
  BY <1>2, <1>3, ShorterIs
<1> HIDE DEF items
<1>5. /\ listed \in Seq(Works) /\ Len(listed) = taken + Len(items)
      /\ \A i \in 1 .. taken : listed[i] = request.listed[i]
      /\ \A i \in 1 .. Len(items) : listed[taken + i] = items[i]
  <2>1. request.listed \in Seq(Works) /\ Len(request.listed) = taken
    BY DEF Listing
  <2>2. /\ listed \in Seq(Works) /\ Len(listed) = Len(request.listed) + Len(items)
        /\ \A i \in 1 .. Len(request.listed) + Len(items) : listed[i] =
              IF i <= Len(request.listed) THEN request.listed[i]
              ELSE items[i - Len(request.listed)]
    <3>1. items \in Seq(Works)
      BY <1>4
    <3> QED
      BY <2>1, <3>1, ConcatProperties, Zenon
  <2>3. Len(items) \in Nat
    BY <1>4
  <2> HIDE DEF listed
  <2>4. ASSUME NEW i \in 1 .. Len(items) PROVE listed[taken + i] = items[i]
    <3>1. taken + i \in 1 .. taken + Len(items) /\ ~(taken + i <= taken) /\ (taken + i) - taken = i
      BY <1>1, <2>3
    <3> QED
      BY <2>1, <2>2, <3>1
  <2>5. ASSUME NEW i \in 1 .. taken PROVE listed[i] = request.listed[i]
    BY <1>1, <2>1, <2>2, <2>3
  <2> QED
    BY <2>1, <2>2, <2>4, <2>5
<1>6. ASSUME NEW i \in 1 .. taken + Len(items)
      PROVE  listed[i] = all[i]
  <2>1. CASE i <= taken
    BY <1>1, <1>4, <1>5, <2>1 DEF Listing
  <2>2. CASE i > taken
    <3>1. i - taken \in 1 .. Len(items) /\ i - taken \in 1 .. Len(all) - taken
          /\ taken + (i - taken) = i
      <4>1. Len(items) \in Nat /\ Len(items) <= Len(all) - taken
        BY <1>1, <1>2, <1>3, <1>4
      <4>2. i \in Nat /\ taken < i /\ i <= taken + Len(items)
        BY <1>1, <2>2, <4>1
      <4> HIDE DEF taken
      <4> QED
        BY <1>1, <4>1, <4>2
    <3>2. listed[taken + (i - taken)] = rest[i - taken]
      BY <1>4, <1>5, <3>1
    <3> QED
      BY <1>3, <3>1, <3>2
  <2> QED
    BY <1>1, <1>4, <2>1, <2>2
<1>7. /\ page.listed = listed
      /\ page.taken = taken + Len(items)
      /\ page.pages = IF maxPages = 0 THEN 0 ELSE request.pages + 1
      /\ page.over = (\/ ~(cursor \/ Len(rest) > Len(items)) \/ items = <<>>
                      \/ Len(listed) >= limit
                      \/ maxPages # 0 /\ request.pages + 1 >= maxPages)
  BY DEF Page, rest, size, items
<1> HIDE DEF listed
<1>8. page.taken \in 0 .. Len(all)
  BY <1>1, <1>3, <1>4, <1>7
<1>9. ASSUME page.over, maxPages = 0
      PROVE  page.listed = Shorter(all, limit)
  <2>1. Len(listed) = limit \/ Len(listed) = Len(all)
    <3>1. CASE ~(Len(rest) > Len(items))
      BY <1>1, <1>2, <1>3, <1>4, <1>5, <3>1
    <3>2. CASE items = <<>>
      BY <1>1, <1>2, <1>3, <1>4, <1>5, <3>2
    <3>3. CASE Len(listed) >= limit
      BY <1>1, <1>2, <1>3, <1>4, <1>5, <3>3
    <3> QED
      BY <1>7, <1>9, <3>1, <3>2, <3>3
  <2>2. Len(listed) = Len(Shorter(all, limit)) /\ Len(listed) \in Nat
    <3>1. Len(listed) <= limit /\ Len(listed) <= Len(all)
      BY <1>1, <1>2, <1>3, <1>4, <1>5
    <3> QED
      BY <1>1, <1>5, <2>1, <3>1, ShorterIs
  <2>3. \A i \in 1 .. Len(listed) : listed[i] = Shorter(all, limit)[i]
    BY <1>5, <1>6, <2>2, ShorterIs
  <2>4. Shorter(all, limit) \in Seq(Works)
    BY ShorterIs
  <2> QED
    BY <1>5, <1>7, <2>2, <2>3, <2>4, SeqEqual
<1>10. ~page.over => page.taken < limit
  BY <1>1, <1>4, <1>5, <1>7
<1>11. /\ page.listed \in Seq(Works) /\ Len(page.listed) = page.taken
       /\ \A i \in 1 .. page.taken : page.listed[i] = all[i]
  BY <1>5, <1>6, <1>7
<1>12. page.pages \in Nat
  BY <1>1, <1>7
<1> QED
  BY <1>8, <1>9, <1>10, <1>11, <1>12 DEF Continues

LEMMA PageContinues ==
  ASSUME NEW all \in Seq(Works), NEW limit \in Nat, NEW maxPages \in Nat,
         NEW cursor \in BOOLEAN, Listing(all, limit)
  PROVE  Continues(Page(all, limit, maxPages, cursor), all, limit, maxPages)
BY PageGoesOn

-----------------------------------------------------------------------------
(***************************************************************************)
(* Discovery: types, and what each stage of a crawl can rely on.           *)
(***************************************************************************)
Queued == [work : Works, depth : Nat]
Walks ==
  [at : Stages, policy : Policies \cup {NoPolicy}, frontier : Seq(Queued),
   visited : SUBSET Works, accepted : SUBSET Works, work : Works \cup {0}, depth : Nat,
   fromCache : BOOLEAN, pending : Seq(Entries), asked : SUBSET Works]
Requests == [attempt : 1 .. MaxRetries, listed : Seq(Works), taken : Nat, pages : Nat]
RunRows == [policy : Policies, completed : BOOLEAN, visited : Nat, accepted : Nat,
            discovered : BOOLEAN]

\* Before the walk nothing has been visited; a work that is loaded or
\* expanded has been, and it is accepted only from then on.
WalkFits ==
  /\ crawl \in Walks
  /\ Is("idle") => crawl = Resting
  /\ ~Is("idle") => crawl.policy \in Policies
  /\ crawl.at \in {"search", "start"} =>
       crawl.visited = {} /\ crawl.depth = 0 /\ crawl.asked = {}
  /\ Is("search") => crawl.frontier = <<>>
  /\ crawl.at \in {"load", "upsert", "cite", "edge"} => crawl.work \in crawl.visited
  /\ crawl.at \in {"load", "upsert"} => crawl.work \notin crawl.accepted
  /\ crawl.at \in {"cite", "edge"} => crawl.work \in crawl.accepted
  /\ IsFiniteSet(crawl.visited) /\ Cardinality(crawl.visited) <= crawl.policy.nodes
  /\ crawl.accepted \subseteq crawl.visited

\* A listing under way is about the search or about the work being expanded.
AllListed == IF Is("search") THEN Found ELSE IF Is("cite") THEN Citing[crawl.work] ELSE <<>>
RequestFits ==
  /\ request \in Requests
  /\ Listing(AllListed, crawl.policy.branch)
  /\ crawl.at \notin Asking => request = Fresh

TablesFit ==
  /\ edges \subseteq EdgeRows /\ IsFiniteSet(edges)
  /\ cached \subseteq Works
  /\ papers \subseteq Works
  /\ runs \in Seq(RunRows) /\ Run <= Crawls
  /\ rankings \in [1 .. Run -> Seq(Works)]
  /\ mishaps \in 0 .. Mishaps
  /\ \A e \in edges : e.run <= Run
  /\ crawl.at \in {"search", "start"} => Run < Crawls
  /\ crawl.at \notin {"idle", "search", "start"} => Run >= 1

CrawlFits == WalkFits /\ RequestFits /\ TablesFit

LEMMA CrawlFitsImplies == CrawlFits => CrawlTypeOK
<1> SUFFICES ASSUME CrawlFits PROVE CrawlTypeOK
  OBVIOUS
<1>1. /\ crawl.at \in Stages /\ crawl.policy \in Policies \cup {NoPolicy}
      /\ crawl.frontier \in Seq(Queued) /\ crawl.pending \in Seq(Entries)
      /\ crawl.visited \in SUBSET Works /\ crawl.accepted \in SUBSET Works
      /\ crawl.asked \in SUBSET Works
  BY DEF CrawlFits, WalkFits, Walks
<1>2. request.attempt \in 1 .. MaxRetries /\ request.listed \in Seq(Works)
  BY DEF CrawlFits, RequestFits, Requests
<1>3. {crawl.visited, crawl.accepted, crawl.asked} \subseteq SUBSET Works
  BY <1>1
<1> QED
  BY <1>1, <1>2, <1>3
     DEF CrawlFits, TablesFit, CrawlTypeOK, EdgeRows, RunRows, Run, Queued, Entries

LEMMA PolicyTyped ==
  ASSUME NEW p \in Policies \cup {NoPolicy}
  PROVE  /\ p.depth \in Nat /\ p.branch \in Nat \ {0} /\ p.nodes \in Nat \ {0}
         /\ p.pages \in Nat /\ p.open \in BOOLEAN /\ p.forward \in BOOLEAN
<1>1. CASE p \in Policies
  BY <1>1, CrawlAssumption
<1>2. CASE p = NoPolicy
  BY <1>2 DEF NoPolicy
<1> QED
  BY <1>1, <1>2

LEMMA FreshListing ==
  ASSUME NEW all \in Seq(Works), NEW limit \in Nat \ {0}, request = Fresh
  PROVE  Listing(all, limit)
BY DEF Listing, Fresh

LEMMA FreshTyped == Fresh \in Requests
BY CrawlAssumption DEF Fresh, Requests

LEMMA RestingTyped == Resting \in Walks
BY DEF Resting, Walks, Stages, NoPolicy

LEMMA CrawlStarts == CrawlInit => CrawlFits
<1> SUFFICES ASSUME CrawlInit PROVE CrawlFits
  OBVIOUS
<1>1. WalkFits
  <2>1. IsFiniteSet({}) /\ Cardinality({}) = 0
    BY FS_EmptySet
  <2>2. crawl = Resting
    BY DEF CrawlInit
  <2> QED
    BY <2>1, <2>2, RestingTyped DEF WalkFits, Is, Resting, NoPolicy
<1>2. RequestFits
  <2>1. request = Fresh /\ AllListed = <<>> /\ crawl.policy.branch = 1
    BY DEF CrawlInit, AllListed, Is, Resting, NoPolicy
  <2>2. Listing(AllListed, crawl.policy.branch)
    <3>1. <<>> \in Seq(Works) /\ 1 \in Nat \ {0}
      OBVIOUS
    <3> QED
      BY <2>1, <3>1, FreshListing
  <2> QED
    BY <2>1, <2>2, FreshTyped DEF RequestFits
<1>3. TablesFit
  <2>1. edges = {} /\ runs = <<>> /\ rankings = <<>> /\ cached = {} /\ papers = {}
        /\ mishaps = 0 /\ crawl.at = "idle"
    BY DEF CrawlInit, Resting
  <2>2. IsFiniteSet({})
    BY FS_EmptySet
  <2> QED
    BY <2>1, <2>2, CrawlAssumption DEF TablesFit, Run, RunRows
<1> QED
  BY <1>1, <1>2, <1>3 DEF CrawlFits

LEMMA AllListedTyped ==
  WalkFits => AllListed \in Seq(Works) /\ crawl.policy.branch \in Nat \ {0}
<1> SUFFICES ASSUME WalkFits PROVE AllListed \in Seq(Works) /\ crawl.policy.branch \in Nat \ {0}
  OBVIOUS
<1>1. crawl.policy \in Policies \cup {NoPolicy} /\ crawl.visited \in SUBSET Works
  BY DEF WalkFits, Walks
<1>2. Found \in Seq(Works)
  BY CrawlAssumption, SeqMonotonic
<1>3. Is("cite") => Citing[crawl.work] \in Seq(Works)
  BY <1>1, CrawlAssumption DEF WalkFits, Is
<1> QED
  BY <1>1, <1>2, <1>3, PolicyTyped DEF AllListed

LEMMA FreshFits == WalkFits /\ request = Fresh => RequestFits
<1> SUFFICES ASSUME WalkFits, request = Fresh PROVE RequestFits
  OBVIOUS
<1>1. Listing(AllListed, crawl.policy.branch)
  BY AllListedTyped, FreshListing
<1> QED
  BY <1>1, FreshTyped DEF RequestFits

\* A crawl that has ended, and one that begins.
LEMMA RestingFits == crawl = Resting => WalkFits
<1> SUFFICES ASSUME crawl = Resting PROVE WalkFits
  OBVIOUS
<1>1. IsFiniteSet({}) /\ Cardinality({}) = 0
  BY FS_EmptySet
<1> QED
  BY <1>1, RestingTyped DEF WalkFits, Is, Resting, NoPolicy

LEMMA CrawlEndsFits ==
  ASSUME CrawlFits, crawl' = Resting, request' = Fresh
  PROVE  WalkFits' /\ RequestFits'
<1>1. (crawl = Resting)'
  BY DEF Resting, NoPolicy
<1>2. (request = Fresh)'
  BY DEF Fresh
<1>3. WalkFits'
  BY <1>1, RestingFits, PTL
<1> QED
  BY <1>2, <1>3, FreshFits, PTL

LEMMA AbortKeeps == ASSUME CrawlFits, Abort PROVE CrawlFits'
<1>1. WalkFits' /\ RequestFits'
  BY CrawlEndsFits DEF Abort
<1>2. TablesFit'
  BY CrawlAssumption DEF CrawlFits, TablesFit, Abort, store, Run, Resting
<1> QED
  BY <1>1, <1>2 DEF CrawlFits

LEMMA BusyKeeps == ASSUME CrawlFits, Busy PROVE CrawlFits'
<1>1. CASE request.attempt = MaxRetries
  <2>1. WalkFits' /\ RequestFits'
    BY <1>1, CrawlEndsFits DEF Busy
  <2>2. TablesFit'
    BY <1>1 DEF CrawlFits, TablesFit, Busy, Keep, store, Run, Resting
  <2> QED
    BY <2>1, <2>2 DEF CrawlFits
<1>2. CASE request.attempt # MaxRetries
  <2>1. UNCHANGED <<crawl, store, papers, mishaps>> /\ crawl.at \in Asking
        /\ request' = [request EXCEPT !.attempt = request.attempt + 1]
    BY <1>2 DEF Busy, Keep
  <2>2. WalkFits'
    BY <2>1 DEF CrawlFits, WalkFits, Is
  <2>3. RequestFits'
    <3>1. request' \in Requests /\ request'.listed = request.listed
          /\ request'.taken = request.taken /\ request'.pages = request.pages
      <4>1. request \in Requests
        BY DEF CrawlFits, RequestFits
      <4>2. request.attempt + 1 \in 1 .. MaxRetries
        <5>1. request.attempt \in 1 .. MaxRetries /\ MaxRetries \in Nat
          BY <4>1, CrawlAssumption DEF Requests
        <5> QED
          BY <1>2, <5>1
      <4> QED
        BY <2>1, <4>1, <4>2 DEF Requests
    <3> QED
      BY <2>1, <3>1 DEF CrawlFits, RequestFits, Listing, AllListed, Is
  <2>4. TablesFit'
    BY <2>1 DEF CrawlFits, TablesFit, store, Run
  <2> QED
    BY <2>2, <2>3, <2>4 DEF CrawlFits
<1> QED
  BY <1>1, <1>2

LEMMA DiscoverKeeps == ASSUME CrawlFits, Discover PROVE CrawlFits'
<1>1. PICK policy \in Policies :
        crawl' = [Resting EXCEPT !.at = "search", !.policy = policy]
  BY DEF Discover
<1>2. WalkFits'
  <2>1. IsFiniteSet({}) /\ Cardinality({}) = 0
    BY FS_EmptySet
  <2>2. crawl' \in Walks
    BY <1>1, RestingTyped DEF Resting, Walks, Stages
  <2> QED
    BY <1>1, <2>1, <2>2, PolicyTyped DEF WalkFits, Is, Resting
<1>3. RequestFits'
  <2>1. (request = Fresh)'
    BY DEF Discover, Fresh
  <2> QED
    BY <1>2, <2>1, FreshFits, PTL
<1>4. TablesFit'
  BY <1>1 DEF CrawlFits, TablesFit, Discover, Keep, store, Run, Resting
<1> QED
  BY <1>2, <1>3, <1>4 DEF CrawlFits

\* What a work leads to, before the cut: backward, forward, related.
Combined(branch, work, forward) ==
  Tagged(Shorter(References[work], branch), "backward")
  \o Tagged(Shorter(forward, branch), "forward")
  \o Tagged(Shorter(Related[work], branch), "related")

LEMMA CombinedTyped ==
  ASSUME NEW branch \in Nat, NEW work \in Works, NEW forward \in Seq(Works)
  PROVE  Combined(branch, work, forward) \in Seq(Entries)
<1>1. References[work] \in Seq(Works) /\ Related[work] \in Seq(Works)
  BY CrawlAssumption
<1>2. /\ Shorter(References[work], branch) \in Seq(Works)
      /\ Shorter(forward, branch) \in Seq(Works)
      /\ Shorter(Related[work], branch) \in Seq(Works)
  BY <1>1, ShorterIs
<1>3. {"backward", "forward", "related"} = Kinds
  BY DEF Kinds
<1>4. /\ Tagged(Shorter(References[work], branch), "backward") \in Seq(Entries)
      /\ Tagged(Shorter(forward, branch), "forward") \in Seq(Entries)
      /\ Tagged(Shorter(Related[work], branch), "related") \in Seq(Entries)
  BY <1>2, <1>3, TaggedIs
<1> QED
  BY <1>4 DEF Combined

LEMMA NextWorkEdgesIs ==
  ASSUME crawl.policy.branch \in Nat, NEW work \in Works, NEW forward \in Seq(Works)
  PROVE  /\ NextWorkEdges(work, forward) =
              Shorter(FirstEntries[Combined(crawl.policy.branch, work, forward)],
                      crawl.policy.branch)
         /\ NextWorkEdges(work, forward) \in Seq(Entries)
<1>1. FirstEntries[Combined(crawl.policy.branch, work, forward)] \in Seq(Entries)
  BY CombinedTyped, FirstEntriesTyped
<1>2. NextWorkEdges(work, forward) =
        Shorter(FirstEntries[Combined(crawl.policy.branch, work, forward)], crawl.policy.branch)
  BY DEF NextWorkEdges, Combined
<1> QED
  BY <1>1, <1>2, ShorterIs

-----------------------------------------------------------------------------
LEMMA SearchKeeps == ASSUME CrawlFits, Search PROVE CrawlFits'
<1>1. PICK cursor \in BOOLEAN :
        LET page == Page(Found, crawl.policy.branch, 0, cursor) IN
        IF page.over
        THEN /\ crawl' = [crawl EXCEPT !.at = "start",
                   !.frontier = [i \in DOMAIN page.listed |->
                       [work |-> page.listed[i], depth |-> 0]]]
             /\ request' = Fresh
        ELSE NextPage(page) /\ UNCHANGED crawl
  BY DEF Search
<1> DEFINE page == Page(Found, crawl.policy.branch, 0, cursor)
<1>2. AllListed = Found /\ Found \in Seq(Works) /\ crawl.policy.branch \in Nat \ {0}
  BY AllListedTyped DEF Search, AllListed, CrawlFits
<1>3. /\ page.listed \in Seq(Works)
      /\ page.taken \in 0 .. Len(Found)
      /\ Len(page.listed) = page.taken
      /\ \A i \in 1 .. page.taken : page.listed[i] = Found[i]
      /\ page.pages \in Nat
      /\ ~page.over => page.taken < crawl.policy.branch
  <2>1. Listing(Found, crawl.policy.branch) /\ 0 \in Nat /\ crawl.policy.branch \in Nat
    BY <1>2 DEF CrawlFits, RequestFits
  <2>2. Continues(page, Found, crawl.policy.branch, 0)
    BY <1>2, <2>1, PageContinues
  <2> HIDE DEF page
  <2> QED
    BY <2>2 DEF Continues
<1> HIDE DEF page
<1>4. TablesFit'
  <2>1. crawl'.at \in {"search", "start"} /\ UNCHANGED <<store, papers, mishaps>>
    BY <1>1 DEF Search, Keep, page, Is, CrawlFits, WalkFits, Walks
  <2> QED
    BY <2>1 DEF CrawlFits, TablesFit, store, Run, Search, Is
<1>5. CASE page.over
  <2> DEFINE seeds == [i \in DOMAIN page.listed |-> [work |-> page.listed[i], depth |-> 0]]
  <2>1. crawl' = [crawl EXCEPT !.at = "start", !.frontier = seeds] /\ request' = Fresh
    BY <1>1, <1>5 DEF page
  <2>2. seeds \in Seq(Queued)
    <3>1. Len(page.listed) \in Nat /\ DOMAIN page.listed = 1 .. Len(page.listed)
      BY <1>3
    <3>2. seeds \in [1 .. Len(page.listed) -> Queued]
      BY <1>3, <3>1 DEF Queued
    <3> QED
      BY <3>1, <3>2, FunctionIsSeq
  <2> HIDE DEF seeds
  <2>3. crawl' \in Walks
    BY <2>1, <2>2 DEF CrawlFits, WalkFits, Walks, Stages
  <2>4. WalkFits'
    BY <2>1, <2>3 DEF CrawlFits, WalkFits, Search, Is, Walks
  <2>5. (request = Fresh)'
    BY <2>1 DEF Fresh
  <2>6. RequestFits'
    BY <2>4, <2>5, FreshFits, PTL
  <2> QED
    BY <1>4, <2>4, <2>6 DEF CrawlFits
<1>6. CASE ~page.over
  <2>1. UNCHANGED crawl /\ NextPage(page)
    BY <1>1, <1>6 DEF page
  <2>2. WalkFits'
    BY <2>1 DEF CrawlFits, WalkFits, Is
  <2>3. /\ request' \in Requests
        /\ request'.listed = page.listed /\ request'.taken = page.taken
        /\ request'.pages = page.pages
    BY <1>3, <2>1, CrawlAssumption DEF NextPage, Requests
  <2>4. AllListed' = Found /\ crawl'.at = "search"
    BY <2>1 DEF AllListed, Search, Is
  <2>5. RequestFits'
    <3>1. Listing(Found, crawl.policy.branch)'
      BY <1>3, <1>6, <2>1, <2>3 DEF Listing
    <3> QED
      BY <2>1, <2>3, <2>4, <3>1 DEF RequestFits, Listing, Asking
  <2> QED
    BY <1>4, <2>2, <2>5 DEF CrawlFits
<1> QED
  BY <1>5, <1>6

LEMMA StartRunKeeps == ASSUME CrawlFits, StartRun PROVE CrawlFits'
<1> DEFINE row == [policy |-> crawl.policy, completed |-> FALSE, visited |-> 0,
                   accepted |-> 0, discovered |-> FALSE]
<1>1. crawl' = [crawl EXCEPT !.at = "loop"] /\ Is("start")
  BY DEF StartRun, Goto
<1>2. row \in RunRows /\ runs \in Seq(RunRows) /\ Run < Crawls /\ Run \in Nat
  BY <1>1 DEF CrawlFits, WalkFits, TablesFit, Is, RunRows, Run
<1>3. runs' = Append(runs, row) /\ rankings' = Append(rankings, <<>>)
  BY DEF StartRun
<1>4. Run' = Run + 1 /\ runs' \in Seq(RunRows)
  BY <1>2, <1>3 DEF Run
<1>5. rankings' \in [1 .. Run' -> Seq(Works)]
  <2>1. rankings \in [1 .. Run -> Seq(Works)]
    BY DEF CrawlFits, TablesFit
  <2>2. rankings \in Seq(Seq(Works)) /\ Len(rankings) = Run
    BY <1>2, <2>1, FunctionIsSeq
  <2>3. <<>> \in Seq(Works)
    OBVIOUS
  <2>4. rankings' \in Seq(Seq(Works)) /\ Len(rankings') = Run + 1
    BY <1>3, <2>2, <2>3, AppendProperties
  <2> QED
    BY <1>2, <1>4, <2>4
<1>6. TablesFit'
  <2>1. UNCHANGED <<cached, edges, papers, mishaps>> /\ crawl'.at = "loop"
    BY <1>1 DEF StartRun, Keep, CrawlFits, WalkFits, Walks
  <2>2. \A e \in edges : e.run <= Run'
    <3> SUFFICES ASSUME NEW e \in edges PROVE e.run <= Run'
      OBVIOUS
    <3>1. e.run <= Run /\ e \in EdgeRows
      BY DEF CrawlFits, TablesFit
    <3>2. e.run \in Nat
      BY <3>1, EdgeRowTyped
    <3> QED
      BY <1>2, <1>4, <3>1, <3>2
  <2>3. Run' <= Crawls /\ Run' >= 1
    BY <1>2, <1>4, WorksAreNumbers
  <2> QED
    BY <1>4, <1>5, <2>1, <2>2, <2>3 DEF CrawlFits, TablesFit
<1>7. WalkFits'
  BY <1>1 DEF CrawlFits, WalkFits, Walks, Stages, Is
<1>8. RequestFits'
  <2>1. (request = Fresh)'
    BY <1>1 DEF StartRun, Keep, CrawlFits, RequestFits, Asking, Is, Fresh
  <2> QED
    BY <1>7, <2>1, FreshFits, PTL
<1> QED
  BY <1>6, <1>7, <1>8 DEF CrawlFits

\* A step inside the walk that leaves the runs and their rankings alone.
LEMMA TablesStay ==
  ASSUME CrawlFits, UNCHANGED <<runs, rankings, edges, mishaps>>,
         cached' \subseteq Works, papers' \subseteq Works,
         crawl.at \notin {"idle", "search", "start"}, crawl'.at \notin {"search", "start"}
  PROVE  TablesFit'
BY DEF CrawlFits, TablesFit, Run

LEMMA VisitKeeps == ASSUME CrawlFits, Visit PROVE CrawlFits'
<1> DEFINE next == Head(crawl.frontier)
           left == Tail(crawl.frontier)
<1>1. Is("loop") /\ crawl.frontier # <<>> /\ Cardinality(crawl.visited) < crawl.policy.nodes
  <2>1. IsFiniteSet(crawl.visited) /\ crawl.policy.nodes \in Nat
    BY PolicyTyped DEF CrawlFits, WalkFits, Walks
  <2>2. Cardinality(crawl.visited) \in Nat
    BY <2>1, FS_CardinalityType
  <2> QED
    BY <2>1, <2>2 DEF Visit, WalkOver
<1>2. next \in Queued /\ left \in Seq(Queued)
  <2>1. crawl.frontier \in Seq(Queued)
    BY DEF CrawlFits, WalkFits, Walks
  <2> QED
    BY <1>1, <2>1, HeadTailProperties
<1>3. next.work \in Works /\ next.depth \in Nat
  BY <1>2 DEF Queued
<1>4. \/ crawl' = [crawl EXCEPT !.frontier = left]
      \/ /\ next.work \notin crawl.visited
         /\ crawl' = [crawl EXCEPT !.frontier = left,
                !.visited = crawl.visited \cup {next.work},
                !.work = next.work, !.depth = next.depth,
                !.fromCache = next.work \in cached,
                !.at = IF next.work \in cached THEN "upsert" ELSE "load"]
  BY DEF Visit
<1> HIDE DEF next, left
<1>5. TablesFit'
  <2>1. crawl'.at \in {"loop", "upsert", "load"}
    BY <1>1, <1>4 DEF CrawlFits, WalkFits, Walks, Is
  <2> QED
    BY <1>1, <2>1, TablesStay DEF Visit, Keep, store, Is, CrawlFits, TablesFit
<1>6. WalkFits'
  <2>1. CASE crawl' = [crawl EXCEPT !.frontier = left]
    BY <1>1, <1>2, <2>1 DEF CrawlFits, WalkFits, Walks, Is
  <2>2. CASE /\ next.work \notin crawl.visited
             /\ crawl' = [crawl EXCEPT !.frontier = left,
                    !.visited = crawl.visited \cup {next.work},
                    !.work = next.work, !.depth = next.depth,
                    !.fromCache = next.work \in cached,
                    !.at = IF next.work \in cached THEN "upsert" ELSE "load"]
    <3>1. crawl' \in Walks
      <4> DEFINE at == IF next.work \in cached THEN "upsert" ELSE "load"
                 known == next.work \in cached
      <4>1. at \in Stages /\ known \in BOOLEAN
        BY DEF Stages
      <4>3. crawl' = [crawl EXCEPT !.frontier = left,
                    !.visited = crawl.visited \cup {next.work},
                    !.work = next.work, !.depth = next.depth,
                    !.fromCache = known, !.at = at]
        BY <2>2
      <4> HIDE DEF at, known
      <4>2. crawl.visited \cup {next.work} \in SUBSET Works
        BY <1>3 DEF CrawlFits, WalkFits, Walks
      <4> QED
        BY <1>2, <1>3, <4>1, <4>2, <4>3 DEF CrawlFits, WalkFits, Walks
    <3>2. /\ crawl'.at \in {"load", "upsert"} /\ crawl'.policy = crawl.policy
          /\ crawl'.work = next.work /\ crawl'.visited = crawl.visited \cup {next.work}
          /\ crawl'.accepted = crawl.accepted
      BY <2>2 DEF CrawlFits, WalkFits, Walks
    <3>3. /\ IsFiniteSet(crawl.visited \cup {next.work})
          /\ Cardinality(crawl.visited \cup {next.work}) <= crawl.policy.nodes
      <4>1. IsFiniteSet(crawl.visited) /\ crawl.policy.nodes \in Nat
        BY PolicyTyped DEF CrawlFits, WalkFits, Walks
      <4>2. /\ IsFiniteSet(crawl.visited \cup {next.work})
            /\ Cardinality(crawl.visited \cup {next.work}) = Cardinality(crawl.visited) + 1
        BY <2>2, <4>1, FS_AddElement
      <4>3. Cardinality(crawl.visited) \in Nat
        BY <4>1, FS_CardinalityType
      <4> QED
        BY <1>1, <4>1, <4>2, <4>3
    <3>4. next.work \notin crawl.accepted /\ crawl.accepted \subseteq crawl.visited
      BY <2>2 DEF CrawlFits, WalkFits
    <3>5. crawl.policy \in Policies
      BY <1>1 DEF CrawlFits, WalkFits, Is
    <3> QED
      BY <3>1, <3>2, <3>3, <3>4, <3>5 DEF WalkFits, Is
  <2> QED
    BY <1>4, <2>1, <2>2
<1>7. RequestFits'
  <2>1. (request = Fresh)'
    BY DEF Visit, Fresh
  <2> QED
    BY <1>6, <2>1, FreshFits, PTL
<1> QED
  BY <1>5, <1>6, <1>7 DEF CrawlFits

LEMMA GetWorkKeeps == ASSUME CrawlFits, GetWork PROVE CrawlFits'
<1>1. /\ Is("load") /\ crawl.work \in crawl.visited
      /\ crawl' = [crawl EXCEPT !.at = "upsert", !.asked = crawl.asked \cup {crawl.work}]
  BY DEF GetWork, CrawlFits, WalkFits, Is
<1>2. WalkFits'
  BY <1>1 DEF CrawlFits, WalkFits, Walks, Is, Stages
<1>3. RequestFits'
  <2>1. (request = Fresh)'
    BY DEF GetWork, Fresh
  <2> QED
    BY <1>2, <2>1, FreshFits, PTL
<1>4. TablesFit'
  <2>1. crawl'.at = "upsert"
    BY <1>1 DEF CrawlFits, WalkFits, Walks
  <2> QED
    BY <1>1, <2>1, TablesStay DEF GetWork, Keep, store, Is, CrawlFits, TablesFit
<1> QED
  BY <1>2, <1>3, <1>4 DEF CrawlFits

LEMMA UpsertKeeps == ASSUME CrawlFits, Upsert PROVE CrawlFits'
<1> DEFINE accepted == crawl.accepted \cup {crawl.work}
           forward == IF crawl.policy.forward THEN EdgeTargets(crawl.work) ELSE <<>>
           pending == NextWorkEdges(crawl.work, forward)
<1>1. \/ crawl' = [crawl EXCEPT !.at = "loop"]
      \/ crawl' = [crawl EXCEPT !.at = "loop", !.accepted = accepted]
      \/ crawl' = [crawl EXCEPT !.at = "cite", !.accepted = accepted]
      \/ crawl' = [crawl EXCEPT !.at = "edge", !.accepted = accepted, !.pending = pending]
  BY DEF Upsert, Goto
<1>2. /\ Is("upsert") /\ crawl.work \in crawl.visited /\ crawl.work \in Works
      /\ crawl.policy \in Policies /\ crawl.policy.branch \in Nat
  BY PolicyTyped DEF Upsert, CrawlFits, WalkFits, Walks, Is
<1>3. pending \in Seq(Entries)
  <2>1. forward \in Seq(Works)
    BY EdgeTargetsIs DEF CrawlFits, TablesFit
  <2> HIDE DEF forward
  <2> QED
    BY <1>2, <2>1, NextWorkEdgesIs
<1> HIDE DEF pending
<1>4. WalkFits'
  <2>1. crawl' \in Walks
    <3>1. accepted \in SUBSET Works
      BY <1>2 DEF CrawlFits, WalkFits, Walks
    <3>2. crawl \in Walks
      BY DEF CrawlFits, WalkFits
    <3>3. {"loop", "cite", "edge"} \subseteq Stages
      BY DEF Stages
    <3> HIDE DEF accepted
    <3>4. CASE crawl' = [crawl EXCEPT !.at = "loop"]
      BY <3>2, <3>3, <3>4 DEF Walks
    <3>5. CASE crawl' = [crawl EXCEPT !.at = "loop", !.accepted = accepted]
      BY <3>1, <3>2, <3>3, <3>5 DEF Walks
    <3>6. CASE crawl' = [crawl EXCEPT !.at = "cite", !.accepted = accepted]
      BY <3>1, <3>2, <3>3, <3>6 DEF Walks
    <3>7. CASE crawl' = [crawl EXCEPT !.at = "edge", !.accepted = accepted, !.pending = pending]
      BY <1>3, <3>1, <3>2, <3>3, <3>7 DEF Walks
    <3> QED
      BY <1>1, <3>4, <3>5, <3>6, <3>7
  <2>2. /\ crawl'.policy = crawl.policy /\ crawl'.visited = crawl.visited
        /\ crawl'.work = crawl.work /\ crawl'.at \in {"loop", "cite", "edge"}
        /\ crawl'.accepted \in {crawl.accepted, accepted}
        /\ crawl'.at \in {"cite", "edge"} => crawl'.accepted = accepted
    BY <1>1 DEF CrawlFits, WalkFits, Walks
  <2> QED
    BY <1>2, <2>1, <2>2 DEF CrawlFits, WalkFits, Is
<1>5. RequestFits'
  <2>1. (request = Fresh)'
    BY <1>2 DEF Upsert, Keep, CrawlFits, RequestFits, Asking, Is, Fresh
  <2> QED
    BY <1>4, <2>1, FreshFits, PTL
<1>6. TablesFit'
  <2>1. crawl'.at \in {"loop", "cite", "edge"}
    BY <1>1 DEF CrawlFits, WalkFits, Walks
  <2>2. cached' \subseteq Works
    BY <1>2 DEF Upsert, CrawlFits, TablesFit
  <2> QED
    BY <1>2, <2>1, <2>2, TablesStay DEF Upsert, Keep, Is, CrawlFits, TablesFit
<1> QED
  BY <1>4, <1>5, <1>6 DEF CrawlFits

LEMMA CiteKeeps == ASSUME CrawlFits, Cite PROVE CrawlFits'
<1> DEFINE all == Citing[crawl.work]
<1>1. PICK cursor \in BOOLEAN :
        LET page == Page(all, crawl.policy.branch, crawl.policy.pages, cursor) IN
        IF page.over
        THEN /\ crawl' = [crawl EXCEPT !.at = "edge",
                   !.pending = NextWorkEdges(crawl.work, page.listed),
                   !.asked = crawl.asked \cup {crawl.work}]
             /\ request' = Fresh
        ELSE NextPage(page) /\ UNCHANGED crawl
  BY DEF Cite
<1> DEFINE page == Page(all, crawl.policy.branch, crawl.policy.pages, cursor)
<1>2. /\ AllListed = all /\ all \in Seq(Works) /\ crawl.policy.branch \in Nat \ {0}
      /\ crawl.at = "cite" /\ crawl.work \in Works /\ crawl.policy.pages \in Nat
  BY AllListedTyped, PolicyTyped DEF Cite, AllListed, CrawlFits, WalkFits, Walks, Is
<1>3. /\ page.listed \in Seq(Works)
      /\ page.taken \in 0 .. Len(all)
      /\ Len(page.listed) = page.taken
      /\ \A i \in 1 .. page.taken : page.listed[i] = all[i]
      /\ page.pages \in Nat
      /\ ~page.over => page.taken < crawl.policy.branch
  <2>1. Listing(all, crawl.policy.branch) /\ crawl.policy.branch \in Nat
    BY <1>2 DEF CrawlFits, RequestFits
  <2>2. Continues(page, all, crawl.policy.branch, crawl.policy.pages)
    BY <1>2, <2>1, PageContinues
  <2> HIDE DEF page
  <2> QED
    BY <2>2 DEF Continues
<1> HIDE DEF page
<1>4. TablesFit'
  <2>1. crawl'.at \in {"edge", "cite"}
    BY <1>1, <1>2 DEF CrawlFits, WalkFits, Walks
  <2> QED
    BY <1>2, <2>1, TablesStay DEF Cite, Keep, store, CrawlFits, TablesFit
<1>5. CASE page.over
  <2> DEFINE pending == NextWorkEdges(crawl.work, page.listed)
  <2>1. /\ crawl' = [crawl EXCEPT !.at = "edge", !.pending = pending,
                                  !.asked = crawl.asked \cup {crawl.work}]
        /\ request' = Fresh
    BY <1>1, <1>5 DEF page
  <2>2. pending \in Seq(Entries)
    BY <1>2, <1>3, NextWorkEdgesIs
  <2> HIDE DEF pending
  <2>3. WalkFits'
    BY <1>2, <2>1, <2>2 DEF CrawlFits, WalkFits, Walks, Stages, Is
  <2>4. (request = Fresh)'
    BY <2>1 DEF Fresh
  <2>5. RequestFits'
    BY <2>3, <2>4, FreshFits, PTL
  <2> QED
    BY <1>4, <2>3, <2>5 DEF CrawlFits
<1>6. CASE ~page.over
  <2>1. UNCHANGED crawl /\ NextPage(page)
    BY <1>1, <1>6 DEF page
  <2>2. WalkFits'
    BY <2>1 DEF CrawlFits, WalkFits, Is
  <2>3. /\ request' \in Requests
        /\ request'.listed = page.listed /\ request'.taken = page.taken
        /\ request'.pages = page.pages
    BY <1>3, <2>1, CrawlAssumption DEF NextPage, Requests
  <2>4. AllListed' = all /\ crawl'.at = "cite"
    BY <1>2, <2>1 DEF AllListed, Is
  <2>5. RequestFits'
    <3>1. Listing(all, crawl.policy.branch)'
      BY <1>3, <1>6, <2>1, <2>3 DEF Listing
    <3> QED
      BY <2>1, <2>3, <2>4, <3>1 DEF RequestFits, Listing, Asking
  <2> QED
    BY <1>4, <2>2, <2>5 DEF CrawlFits
<1> QED
  BY <1>5, <1>6

\* A step that only moves to another stage of the walk, with what is pending.
LEMMA StagesMove ==
  ASSUME CrawlFits, NEW stage \in {"loop", "finish", "promote", "edge"},
         NEW pending \in Seq(Entries), NEW frontier \in Seq(Queued),
         crawl.at \notin {"idle", "search", "start"}, crawl.at \notin Asking,
         stage = "edge" => Is("edge"),
         crawl' = [crawl EXCEPT !.at = stage, !.pending = pending, !.frontier = frontier],
         UNCHANGED request
  PROVE  WalkFits' /\ RequestFits'
<1>1. crawl' \in Walks
  BY DEF CrawlFits, WalkFits, Walks, Stages
<1>2. /\ crawl'.at = stage /\ crawl'.policy = crawl.policy /\ crawl'.visited = crawl.visited
      /\ crawl'.work = crawl.work /\ crawl'.accepted = crawl.accepted
  BY DEF CrawlFits, WalkFits, Walks
<1>3. WalkFits'
  BY <1>1, <1>2 DEF CrawlFits, WalkFits, Is
<1>4. (request = Fresh)'
  BY DEF CrawlFits, RequestFits, Fresh
<1> QED
  BY <1>3, <1>4, FreshFits, PTL

LEMMA AddEdgeKeeps == ASSUME CrawlFits, AddEdge PROVE CrawlFits'
<1> DEFINE next == Head(crawl.pending)
           frontier == IF next.work \in crawl.visited THEN crawl.frontier
                       ELSE Append(crawl.frontier, [work |-> next.work,
                                                    depth |-> crawl.depth + 1])
           edge == [source |-> crawl.work, target |-> next.work,
                    kind |-> next.kind, run |-> Run]
<1>1. Is("edge") /\ crawl.pending # <<>> /\ crawl.pending \in Seq(Entries)
      /\ crawl.frontier \in Seq(Queued) /\ crawl.depth \in Nat
  BY DEF AddEdge, CrawlFits, WalkFits, Walks
<1>2. next \in Entries /\ Tail(crawl.pending) \in Seq(Entries)
  BY <1>1, HeadTailProperties
<1>3. next.work \in Works /\ next.kind \in Kinds
  BY <1>2 DEF Entries
<1>4. edges' = edges \cup {edge} /\ UNCHANGED <<cached, runs, rankings, request, papers, mishaps>>
  BY DEF AddEdge, Keep
<1>5. crawl' = [crawl EXCEPT !.at = "edge", !.pending = Tail(crawl.pending),
                             !.frontier = frontier]
  <2>1. crawl' = [crawl EXCEPT !.pending = Tail(crawl.pending), !.frontier = frontier]
    BY DEF AddEdge
  <2> HIDE DEF frontier
  <2> QED
    BY <1>1, <2>1 DEF CrawlFits, WalkFits, Walks, Is
<1> HIDE DEF next
<1>6. frontier \in Seq(Queued)
  <2>1. [work |-> next.work, depth |-> crawl.depth + 1] \in Queued
    BY <1>1, <1>3 DEF Queued
  <2>2. Append(crawl.frontier, [work |-> next.work, depth |-> crawl.depth + 1]) \in Seq(Queued)
    BY <1>1, <2>1, AppendProperties
  <2> QED
    BY <1>1, <2>2
<1>7. Run \in 1 .. Crawls /\ crawl.work \in Works
  BY <1>1, WorksAreNumbers DEF CrawlFits, TablesFit, Run, WalkFits, Walks, Is
<1>8. edge \in EdgeRows /\ edge.run = Run
  BY <1>3, <1>7 DEF EdgeRows
<1> HIDE DEF frontier, edge
<1>9. WalkFits' /\ RequestFits'
  BY <1>1, <1>2, <1>4, <1>5, <1>6, StagesMove DEF Is, Asking
<1>10. TablesFit'
  <2>1. edges' \subseteq EdgeRows /\ \A e \in edges' : e.run <= Run
    BY <1>4, <1>7, <1>8 DEF CrawlFits, TablesFit
  <2>2. IsFiniteSet(edges')
    BY <1>4, FS_AddElement DEF CrawlFits, TablesFit
  <2>3. crawl'.at = "edge"
    BY <1>5 DEF CrawlFits, WalkFits, Walks
  <2> QED
    BY <1>4, <1>7, <2>1, <2>2, <2>3 DEF CrawlFits, TablesFit, Run
<1> QED
  BY <1>9, <1>10 DEF CrawlFits

LEMMA EdgesDoneKeeps == ASSUME CrawlFits, EdgesDone PROVE CrawlFits'
<1>1. Is("edge") /\ crawl.pending \in Seq(Entries) /\ crawl.frontier \in Seq(Queued)
      /\ crawl' = [crawl EXCEPT !.at = "loop"] /\ UNCHANGED <<store, request, papers, mishaps>>
  BY DEF EdgesDone, Goto, Keep, CrawlFits, WalkFits, Walks
<1>2. crawl' = [crawl EXCEPT !.at = "loop", !.pending = crawl.pending,
                             !.frontier = crawl.frontier] /\ crawl'.at = "loop"
  BY <1>1 DEF CrawlFits, WalkFits, Walks
<1>3. WalkFits' /\ RequestFits'
  BY <1>1, <1>2, StagesMove DEF Is, Asking
<1>4. TablesFit'
  BY <1>1, <1>2, TablesStay DEF store, Is, CrawlFits, TablesFit
<1> QED
  BY <1>3, <1>4 DEF CrawlFits

\* The row of the run under way.
LEMMA RunUnderWay ==
  ASSUME CrawlFits, crawl.at \notin {"idle", "search", "start"}
  PROVE  /\ Run \in Nat /\ Run >= 1 /\ DOMAIN runs = 1 .. Run /\ Run \in DOMAIN runs
         /\ runs \in [1 .. Run -> RunRows] /\ DOMAIN rankings = 1 .. Run
BY DEF CrawlFits, TablesFit, Run

\* A row of its table that is rewritten.
LEMMA RunRewritten ==
  ASSUME CrawlFits, crawl.at \notin {"idle", "search", "start"}, NEW row \in RunRows,
         runs' = [runs EXCEPT ![Run] = row]
  PROVE  runs' \in Seq(RunRows) /\ Run' = Run
<1>1. runs \in Seq(RunRows) /\ Run \in 1 .. Len(runs)
  BY RunUnderWay DEF CrawlFits, TablesFit, Run
<1> QED
  BY <1>1, ExceptSeq DEF Run

LEMMA StoreRankingKeeps == ASSUME CrawlFits, StoreRanking PROVE CrawlFits'
<1>1. Is("loop") /\ crawl.pending \in Seq(Entries) /\ crawl.frontier \in Seq(Queued)
      /\ crawl' = [crawl EXCEPT !.at = "finish"]
      /\ UNCHANGED <<cached, edges, runs, request, papers, mishaps>>
      /\ rankings' = [rankings EXCEPT ![Run] = RankWorks(crawl.accepted)]
  BY DEF StoreRanking, Goto, Keep, CrawlFits, WalkFits, Walks
<1>2. crawl' = [crawl EXCEPT !.at = "finish", !.pending = crawl.pending,
                             !.frontier = crawl.frontier] /\ crawl'.at = "finish"
  BY <1>1 DEF CrawlFits, WalkFits, Walks
<1>3. WalkFits' /\ RequestFits'
  BY <1>1, <1>2, StagesMove DEF Is, Asking
<1>4. RankWorks(crawl.accepted) \in Seq(Works)
  <2>1. crawl.accepted \in SUBSET Works /\ IsFiniteSet(crawl.accepted)
    BY FS_Subset DEF CrawlFits, WalkFits, Walks
  <2> QED
    BY <2>1, RankWorksIs
<1>5. rankings' \in [1 .. Run -> Seq(Works)]
  BY <1>1, <1>4 DEF CrawlFits, TablesFit
<1>6. TablesFit'
  BY <1>1, <1>2, <1>5, RunUnderWay DEF Is, CrawlFits, TablesFit, Run
<1> QED
  BY <1>3, <1>6 DEF CrawlFits

\* What finish_run writes.
LEMMA RowFinished ==
  ASSUME CrawlFits, crawl.at \notin {"idle", "search", "start"},
         NEW row, row = [runs[Run] EXCEPT !.completed = TRUE,
                            !.visited = Cardinality(crawl.visited),
                            !.accepted = Cardinality(crawl.accepted)]
  PROVE  /\ row \in RunRows /\ row.completed /\ row.visited = Cardinality(crawl.visited)
         /\ row.accepted = Cardinality(crawl.accepted)
         /\ row.policy = runs[Run].policy /\ row.discovered = runs[Run].discovered
<1>1. Cardinality(crawl.visited) \in Nat /\ Cardinality(crawl.accepted) \in Nat
  <2>1. IsFiniteSet(crawl.visited) /\ IsFiniteSet(crawl.accepted)
    BY FS_Subset DEF CrawlFits, WalkFits
  <2> QED
    BY <2>1, FS_CardinalityType
<1>2. runs[Run] \in RunRows
  BY RunUnderWay
<1> QED
  BY <1>1, <1>2 DEF RunRows

LEMMA FinishRunKeeps == ASSUME CrawlFits, FinishRun PROVE CrawlFits'
<1> DEFINE row == [runs[Run] EXCEPT !.completed = TRUE,
                      !.visited = Cardinality(crawl.visited),
                      !.accepted = Cardinality(crawl.accepted)]
           pending == Tagged(Shorter(rankings[Run], PromoteTopK), "related")
<1>1. Is("finish") /\ crawl.frontier \in Seq(Queued)
      /\ crawl' = [crawl EXCEPT !.at = "promote", !.pending = pending]
      /\ UNCHANGED <<cached, edges, rankings, request, papers, mishaps>>
  BY DEF FinishRun, Goto, Keep, CrawlFits, WalkFits, Walks
<1>2. runs' = [runs EXCEPT ![Run] = row]
  BY DEF FinishRun
<1>3. pending \in Seq(Entries)
  <2>1. rankings[Run] \in Seq(Works)
    BY <1>1, RunUnderWay DEF Is, CrawlFits, TablesFit
  <2>2. Shorter(rankings[Run], PromoteTopK) \in Seq(Works)
    BY <2>1, CrawlAssumption, ShorterIs
  <2>3. "related" \in Kinds
    BY DEF Kinds
  <2> QED
    BY <2>2, <2>3, TaggedIs
<1> HIDE DEF pending
<1>4. crawl' = [crawl EXCEPT !.at = "promote", !.pending = pending,
                             !.frontier = crawl.frontier] /\ crawl'.at = "promote"
  BY <1>1 DEF CrawlFits, WalkFits, Walks
<1>5. WalkFits' /\ RequestFits'
  BY <1>1, <1>3, <1>4, StagesMove DEF Is, Asking
<1>6. row \in RunRows
  BY <1>1, RowFinished DEF Is
<1> HIDE DEF row
<1>7. runs' \in Seq(RunRows) /\ Run' = Run
  BY <1>1, <1>2, <1>6, RunRewritten DEF Is
<1>8. TablesFit'
  BY <1>1, <1>4, <1>7, RunUnderWay DEF Is, CrawlFits, TablesFit
<1> QED
  BY <1>5, <1>8 DEF CrawlFits

LEMMA PromoteWorkKeeps == ASSUME CrawlFits, PromoteWork PROVE CrawlFits'
<1>1. Is("promote") /\ crawl.pending # <<>> /\ crawl.pending \in Seq(Entries)
      /\ crawl.frontier \in Seq(Queued)
      /\ crawl' = [crawl EXCEPT !.pending = Tail(crawl.pending)]
      /\ UNCHANGED <<store, request, mishaps>>
      /\ papers' = papers \cup {Head(crawl.pending).work}
  BY DEF PromoteWork, CrawlFits, WalkFits, Walks
<1>2. Head(crawl.pending) \in Entries /\ Tail(crawl.pending) \in Seq(Entries)
  BY <1>1, HeadTailProperties
<1>3. crawl' = [crawl EXCEPT !.at = "promote", !.pending = Tail(crawl.pending),
                             !.frontier = crawl.frontier] /\ crawl'.at = "promote"
  BY <1>1 DEF CrawlFits, WalkFits, Walks, Is
<1>4. WalkFits' /\ RequestFits'
  BY <1>1, <1>2, <1>3, StagesMove DEF Is, Asking
<1>5. papers' \subseteq Works
  BY <1>1, <1>2 DEF Entries, CrawlFits, TablesFit
<1>6. TablesFit'
  BY <1>1, <1>3, <1>5, TablesStay DEF store, Is, CrawlFits, TablesFit
<1> QED
  BY <1>4, <1>6 DEF CrawlFits

LEMMA MineGapsKeeps == ASSUME CrawlFits, MineGaps PROVE CrawlFits'
<1> DEFINE row == [runs[Run] EXCEPT !.discovered = rankings[Run] # <<>>]
<1>1. Is("promote") /\ crawl' = Resting /\ UNCHANGED <<cached, edges, rankings, request, papers, mishaps>>
      /\ runs' = [runs EXCEPT ![Run] = row]
  BY DEF MineGaps, Keep
<1>2. request' = Fresh
  BY <1>1 DEF CrawlFits, RequestFits, Is, Asking
<1>3. WalkFits' /\ RequestFits'
  BY <1>1, <1>2, CrawlEndsFits
<1>4. row \in RunRows
  <2>1. runs[Run] \in RunRows
    BY <1>1, RunUnderWay DEF Is
  <2> DEFINE mined == rankings[Run] # <<>>
  <2>2. mined \in BOOLEAN
    OBVIOUS
  <2>3. row = [runs[Run] EXCEPT !.discovered = mined]
    OBVIOUS
  <2> HIDE DEF row, mined
  <2> QED
    BY <2>1, <2>2, <2>3 DEF RunRows
<1> HIDE DEF row
<1>5. runs' \in Seq(RunRows) /\ Run' = Run
  BY <1>1, <1>4, RunRewritten DEF Is
<1>6. TablesFit'
  BY <1>1, <1>5, RunUnderWay DEF Is, CrawlFits, TablesFit, Resting
<1> QED
  BY <1>3, <1>6 DEF CrawlFits

LEMMA CrawlFitsStep == CrawlFits /\ [CrawlNext]_crawlVars => CrawlFits'
<1> SUFFICES ASSUME CrawlFits, [CrawlNext]_crawlVars PROVE CrawlFits'
  OBVIOUS
<1>1. CASE UNCHANGED crawlVars
  BY <1>1 DEF crawlVars, store, CrawlFits, WalkFits, RequestFits, TablesFit, Is, Run,
              Listing, AllListed
<1>2. CASE CrawlNext
  BY <1>2, DiscoverKeeps, SearchKeeps, StartRunKeeps, VisitKeeps, GetWorkKeeps, UpsertKeeps,
     CiteKeeps, AddEdgeKeeps, EdgesDoneKeeps, StoreRankingKeeps, FinishRunKeeps,
     PromoteWorkKeeps, MineGapsKeeps, BusyKeeps, AbortKeeps DEF CrawlNext, Step
<1> QED
  BY <1>1, <1>2

LEMMA CrawlFitsAlways == CrawlSpec => []CrawlFits
<1>1. CrawlSpec => CrawlInit /\ [][CrawlNext]_crawlVars
  BY DEF CrawlSpec
<1> QED
  BY <1>1, CrawlStarts, CrawlFitsStep, PTL

\* Every variable of the discovery has its type, for any graph and policies.
THEOREM CrawlTypeCorrect == CrawlSpec => []CrawlTypeOK
BY CrawlFitsAlways, CrawlFitsImplies, PTL

-----------------------------------------------------------------------------
(***************************************************************************)
(* Discovery: the order of the walk.                                       *)
(***************************************************************************)

\* A frontier that is sorted and lies in the level of the work being expanded
\* and the next.
Leveled(frontier, depth) ==
  \A i, j \in DOMAIN frontier : i <= j =>
    /\ depth <= frontier[i].depth
    /\ frontier[i].depth <= frontier[j].depth
    /\ frontier[j].depth <= depth + 1
WalkLeveled == Leveled(crawl.frontier, crawl.depth)

LEMMA LeveledTail ==
  ASSUME NEW f \in Seq(Queued), f # <<>>, NEW d \in Nat, Leveled(f, d)
  PROVE  /\ Leveled(Tail(f), d)
         /\ d <= Head(f).depth
         /\ Leveled(Tail(f), Head(f).depth)
<1>1. /\ Len(f) \in Nat /\ Len(f) >= 1 /\ DOMAIN f = 1 .. Len(f) /\ Head(f) = f[1]
      /\ Tail(f) \in Seq(Queued) /\ Len(Tail(f)) = Len(f) - 1
      /\ DOMAIN Tail(f) = 1 .. Len(f) - 1
      /\ \A i \in 1 .. Len(f) - 1 : Tail(f)[i] = f[i + 1]
  BY HeadTailProperties
<1>2. \A i \in 1 .. Len(f) : f[i].depth \in Nat
  <2>1. \A i \in 1 .. Len(f) : f[i] \in Queued
    BY <1>1
  <2> QED
    BY <2>1 DEF Queued
<1>3. d <= f[1].depth
  BY <1>1 DEF Leveled
<1>4. ASSUME NEW i \in 1 .. Len(f) - 1, NEW j \in 1 .. Len(f) - 1, i <= j
      PROVE  /\ d <= Tail(f)[i].depth /\ Tail(f)[i].depth <= Tail(f)[j].depth
             /\ Tail(f)[j].depth <= d + 1
             /\ f[1].depth <= Tail(f)[i].depth /\ Tail(f)[j].depth <= f[1].depth + 1
  <2>1. i + 1 \in 1 .. Len(f) /\ j + 1 \in 1 .. Len(f) /\ i + 1 <= j + 1
        /\ 1 \in 1 .. Len(f) /\ 1 <= i + 1
    BY <1>1, <1>4
  <2>2. /\ d <= f[i + 1].depth /\ f[i + 1].depth <= f[j + 1].depth
        /\ f[j + 1].depth <= d + 1 /\ f[1].depth <= f[i + 1].depth
    BY <1>1, <2>1 DEF Leveled
  <2>3. f[j + 1].depth <= f[1].depth + 1
    BY <1>2, <1>3, <2>1, <2>2
  <2> QED
    BY <1>1, <2>2, <2>3
<1> QED
  BY <1>1, <1>3, <1>4 DEF Leveled

LEMMA LeveledAppend ==
  ASSUME NEW f \in Seq(Queued), NEW d \in Nat, Leveled(f, d),
         NEW next \in Queued, next.depth = d + 1
  PROVE  Leveled(Append(f, next), d)
<1>1. /\ Len(f) \in Nat /\ DOMAIN f = 1 .. Len(f)
      /\ DOMAIN Append(f, next) = 1 .. Len(f) + 1
      /\ \A i \in 1 .. Len(f) : Append(f, next)[i] = f[i]
      /\ Append(f, next)[Len(f) + 1] = next
  BY AppendProperties
<1>2. \A i \in 1 .. Len(f) : f[i].depth \in Nat
  <2>1. \A i \in 1 .. Len(f) : f[i] \in Queued
    BY <1>1
  <2> QED
    BY <2>1 DEF Queued
<1>3. ASSUME NEW i \in 1 .. Len(f) + 1, NEW j \in 1 .. Len(f) + 1, i <= j
      PROVE  /\ d <= Append(f, next)[i].depth
             /\ Append(f, next)[i].depth <= Append(f, next)[j].depth
             /\ Append(f, next)[j].depth <= d + 1
  <2>1. CASE j <= Len(f)
    BY <1>1, <1>3, <2>1 DEF Leveled
  <2>2. CASE j = Len(f) + 1 /\ i <= Len(f)
    <3>1. d <= f[i].depth /\ f[i].depth <= d + 1
      BY <1>1, <2>2 DEF Leveled
    <3> QED
      BY <1>1, <1>2, <2>2, <3>1
  <2>3. CASE j = Len(f) + 1 /\ i = Len(f) + 1
    BY <1>1, <2>3
  <2> QED
    BY <1>1, <1>3, <2>1, <2>2, <2>3
<1> QED
  BY <1>1, <1>3 DEF Leveled

LEMMA OthersKeepFrontier ==
  ASSUME CrawlFits,
         \/ StartRun \/ GetWork \/ Upsert \/ Cite \/ EdgesDone \/ StoreRanking
         \/ FinishRun \/ PromoteWork
  PROVE  crawl'.frontier = crawl.frontier /\ crawl'.depth = crawl.depth
BY DEF CrawlFits, WalkFits, Walks, StartRun, GetWork, Upsert, Cite, EdgesDone, StoreRanking,
       FinishRun, PromoteWork, Goto

LEMMA LeveledStays ==
  WalkLeveled /\ crawl'.frontier = crawl.frontier /\ crawl'.depth = crawl.depth => WalkLeveled'
BY DEF WalkLeveled

LEMMA LeveledRests ==
  ASSUME crawl'.frontier = <<>>
  PROVE  WalkLeveled'
BY DEF WalkLeveled, Leveled

LEMMA LeveledStep ==
  ASSUME CrawlFits, WalkLeveled, [CrawlNext]_crawlVars
  PROVE  WalkLeveled'
<1>0. crawl \in Walks /\ crawl.frontier \in Seq(Queued) /\ crawl.depth \in Nat
  BY DEF CrawlFits, WalkFits, Walks
<1>1. CASE UNCHANGED crawlVars
  BY <1>1, LeveledStays DEF crawlVars
<1>2. CASE Discover
  BY <1>2, LeveledRests DEF Discover, Resting
<1>3. CASE MineGaps \/ Abort
  BY <1>3, LeveledRests DEF MineGaps, Abort, Resting
<1>4. CASE Busy
  <2>1. CASE crawl' = Resting
    BY <2>1, LeveledRests DEF Resting
  <2>2. CASE UNCHANGED crawl
    BY <2>2, LeveledStays
  <2> QED
    BY <1>4, <2>1, <2>2 DEF Busy
<1>5. CASE Search
  <2>1. CASE UNCHANGED crawl
    BY <2>1, LeveledStays
  <2>2. CASE \E listed : crawl' = [crawl EXCEPT !.at = "start",
               !.frontier = [i \in DOMAIN listed |-> [work |-> listed[i], depth |-> 0]]]
    <3>1. crawl.depth = 0
      BY <1>5 DEF Search, Is, CrawlFits, WalkFits
    <3>2. PICK listed : crawl' = [crawl EXCEPT !.at = "start",
               !.frontier = [i \in DOMAIN listed |-> [work |-> listed[i], depth |-> 0]]]
      BY <2>2
    <3>3. crawl'.depth = 0
          /\ crawl'.frontier = [i \in DOMAIN listed |-> [work |-> listed[i], depth |-> 0]]
      BY <1>0, <3>1, <3>2 DEF Walks
    <3> QED
      BY <3>3 DEF WalkLeveled, Leveled
  <2> QED
    BY <1>5, <2>1, <2>2 DEF Search
<1>6. CASE Visit
  <2>1. crawl.frontier # <<>>
    BY <1>6 DEF Visit, WalkOver
  <2>2. /\ Leveled(Tail(crawl.frontier), crawl.depth)
        /\ Leveled(Tail(crawl.frontier), Head(crawl.frontier).depth)
    BY <1>0, <2>1, LeveledTail DEF WalkLeveled
  <2>3. /\ crawl'.frontier = Tail(crawl.frontier)
        /\ crawl'.depth \in {crawl.depth, Head(crawl.frontier).depth}
    BY <1>0, <1>6 DEF Visit, Walks
  <2> QED
    BY <2>2, <2>3 DEF WalkLeveled
<1>7. CASE AddEdge
  <2> DEFINE next == Head(crawl.pending)
  <2>1. crawl.pending \in Seq(Entries) /\ crawl.pending # <<>>
    BY <1>7 DEF AddEdge, CrawlFits, WalkFits, Walks
  <2>2. next.work \in Works
    <3>1. next \in Entries
      BY <2>1, HeadTailProperties
    <3> QED
      BY <3>1 DEF Entries
  <2>3. crawl'.depth = crawl.depth /\ crawl'.frontier \in
          {crawl.frontier, Append(crawl.frontier, [work |-> next.work, depth |-> crawl.depth + 1])}
    BY <1>0, <1>7 DEF AddEdge, Walks
  <2>4. [work |-> next.work, depth |-> crawl.depth + 1] \in Queued
    BY <1>0, <2>2 DEF Queued
  <2>5. Leveled(Append(crawl.frontier, [work |-> next.work, depth |-> crawl.depth + 1]),
                crawl.depth)
    BY <1>0, <2>4, LeveledAppend DEF WalkLeveled
  <2> QED
    BY <2>3, <2>5 DEF WalkLeveled
<1>8. CASE \/ StartRun \/ GetWork \/ Upsert \/ Cite \/ EdgesDone \/ StoreRanking
           \/ FinishRun \/ PromoteWork
  BY <1>8, OthersKeepFrontier, LeveledStays
<1> QED
  BY <1>1, <1>2, <1>3, <1>4, <1>5, <1>6, <1>7, <1>8 DEF CrawlNext, Step

LEMMA LeveledIsBreadthFirst ==
  ASSUME CrawlFits, WalkLeveled
  PROVE  BreadthFirst
<1> DEFINE f == crawl.frontier
<1>1. f \in Seq(Queued) /\ crawl.depth \in Nat
  BY DEF CrawlFits, WalkFits, Walks
<1>2. \A i \in DOMAIN f : f[i].depth \in Nat
  <2>1. \A i \in DOMAIN f : f[i] \in Queued
    BY <1>1
  <2> QED
    BY <2>1 DEF Queued
<1>3. ASSUME NEW i \in DOMAIN f, NEW j \in DOMAIN f, i < j
      PROVE  f[i].depth >= crawl.depth /\ f[j].depth \in f[i].depth .. f[i].depth + 1
  <2>1. i \in Nat /\ j \in Nat /\ i <= j
    BY <1>1, <1>3
  <2>2. crawl.depth <= f[i].depth /\ f[i].depth <= f[j].depth /\ f[j].depth <= crawl.depth + 1
    BY <2>1 DEF WalkLeveled, Leveled
  <2> QED
    BY <1>1, <1>2, <2>2
<1> QED
  BY <1>3 DEF BreadthFirst

LEMMA LeveledStarts == CrawlInit => WalkLeveled
BY DEF CrawlInit, WalkLeveled, Leveled, Resting

-----------------------------------------------------------------------------
(***************************************************************************)
(* Discovery: what the tables say of the runs.                             *)
(***************************************************************************)

Recorded(i) ==
  /\ runs[i].completed =>
       /\ rankings[i] = RankWorks(ToSet(rankings[i]))
       /\ Len(rankings[i]) = runs[i].accepted
       /\ runs[i].accepted <= runs[i].visited
       /\ runs[i].visited <= runs[i].policy.nodes
       /\ ToSet(rankings[i]) \subseteq cached
       /\ \A e \in edges : e.run = i => e.source \in ToSet(rankings[i])
  /\ runs[i].discovered =>
       /\ runs[i].completed
       /\ rankings[i] # <<>>
       /\ ToSet(Shorter(rankings[i], PromoteTopK)) \subseteq papers

\* The run under way: its edges leave what it accepted, all of it cached; it
\* is completed after its ranking is stored and before anything is promoted.
RunFits ==
  crawl.at \notin {"idle", "search", "start"} =>
    /\ runs[Run].policy = crawl.policy
    /\ ~runs[Run].discovered
    /\ runs[Run].completed <=> Is("promote")
    /\ \A e \in edges : e.run = Run => e.source \in crawl.accepted
    /\ crawl.accepted \subseteq cached
    /\ crawl.at \in {"finish", "promote"} => rankings[Run] = RankWorks(crawl.accepted)
    /\ Is("promote") => ToSet(Shorter(rankings[Run], PromoteTopK)) \subseteq
                           papers \cup {crawl.pending[n].work : n \in DOMAIN crawl.pending}

RecordsFit == (\A i \in DOMAIN runs : Recorded(i)) /\ RunFits

LEMMA RecordsFitImplies == RecordsFit => CompletedRunsHold
BY DEF RecordsFit, Recorded, CompletedRunsHold

\* Whatever is added to the cache and to the paper store.
LEMMA RecordedStays ==
  ASSUME NEW i, Recorded(i), runs'[i] = runs[i], rankings'[i] = rankings[i],
         cached \subseteq cached', papers \subseteq papers',
         \A e \in edges' \ edges : e.run # i
  PROVE  Recorded(i)'
BY DEF Recorded

\* A run that is not completed has nothing to keep.
LEMMA RecordedOpen ==
  ASSUME NEW i, ~runs'[i].completed, ~runs'[i].discovered
  PROVE  Recorded(i)'
BY DEF Recorded

LEMMA AllRecordedStay ==
  ASSUME RecordsFit, UNCHANGED <<runs, rankings, edges>>,
         cached \subseteq cached', papers \subseteq papers'
  PROVE  (\A i \in DOMAIN runs : Recorded(i))'
<1>1. ASSUME NEW i \in DOMAIN runs PROVE Recorded(i)'
  BY RecordedStays DEF RecordsFit
<1> QED
  BY <1>1

\* Steps that only change the locals of the crawl, and add to the cache what
\* is accepted.
LEMMA LocalsMove ==
  ASSUME CrawlFits, RecordsFit, UNCHANGED <<runs, rankings, edges, papers>>,
         cached \subseteq cached', crawl.at \notin {"idle", "search", "start"},
         ~Is("promote"), crawl.at # "finish",
         crawl'.at \notin {"promote", "finish"},
         crawl'.policy = crawl.policy,
         crawl.accepted \subseteq crawl'.accepted,
         crawl'.accepted \subseteq crawl.accepted \cup cached'
  PROVE  RecordsFit'
<1>1. (\A i \in DOMAIN runs : Recorded(i))'
  BY AllRecordedStay
<1>2. RunFits'
  BY DEF RecordsFit, RunFits, Run, Is
<1> QED
  BY <1>1, <1>2 DEF RecordsFit

LEMMA CrawlRests ==
  ASSUME RecordsFit, UNCHANGED <<runs, rankings, edges, papers, cached>>,
         crawl'.at \in {"idle", "search", "start"}
  PROVE  RecordsFit'
<1>1. (\A i \in DOMAIN runs : Recorded(i))'
  BY AllRecordedStay
<1>2. RunFits'
  BY DEF RunFits
<1> QED
  BY <1>1, <1>2 DEF RecordsFit

LEMMA StartRunRecords == ASSUME CrawlFits, RecordsFit, StartRun PROVE RecordsFit'
<1> DEFINE row == [policy |-> crawl.policy, completed |-> FALSE, visited |-> 0,
                   accepted |-> 0, discovered |-> FALSE]
<1>1. crawl' = [crawl EXCEPT !.at = "loop"] /\ Is("start") /\ crawl \in Walks
      /\ crawl.accepted = {} /\ crawl.policy \in Policies
  BY DEF StartRun, Goto, CrawlFits, WalkFits, Is
<1>2. runs' = Append(runs, row) /\ rankings' = Append(rankings, <<>>)
      /\ UNCHANGED <<cached, edges, papers>>
  BY DEF StartRun, Keep
<1>3. /\ runs \in Seq(RunRows) /\ Run \in Nat /\ DOMAIN runs = 1 .. Run
      /\ row \in RunRows /\ DOMAIN rankings = 1 .. Run
  BY <1>1 DEF CrawlFits, TablesFit, Run, RunRows
<1>4. /\ Run' = Run + 1 /\ DOMAIN runs' = 1 .. Run + 1
      /\ \A i \in 1 .. Run : runs'[i] = runs[i]
      /\ runs'[Run + 1] = row
  BY <1>2, <1>3, AppendProperties DEF Run
<1>5. \A i \in 1 .. Run : rankings'[i] = rankings[i]
  <2>1. rankings \in [1 .. Run -> Seq(Works)]
    BY DEF CrawlFits, TablesFit
  <2>2. rankings \in Seq(Seq(Works)) /\ Len(rankings) = Run
    BY <1>3, <2>1, FunctionIsSeq
  <2>3. <<>> \in Seq(Works)
    OBVIOUS
  <2> QED
    BY <1>2, <2>2, <2>3, AppendProperties
<1>6. ASSUME NEW i \in DOMAIN runs' PROVE Recorded(i)'
  <2>1. CASE i \in 1 .. Run
    <3>1. Recorded(i)
      BY <1>3, <2>1 DEF RecordsFit
    <3> QED
      BY <1>2, <1>4, <1>5, <2>1, <3>1, RecordedStays
  <2>2. CASE i = Run + 1
    BY <1>4, <2>2, RecordedOpen
  <2> QED
    BY <1>3, <1>4, <1>6, <2>1, <2>2
<1>7. RunFits'
  <2>1. ASSUME NEW e \in edges' PROVE e.run # Run'
    <3>1. e.run <= Run /\ e \in EdgeRows
      BY <1>2 DEF CrawlFits, TablesFit
    <3>2. e.run \in Nat
      BY <3>1, EdgeRowTyped
    <3> QED
      BY <1>3, <1>4, <3>1, <3>2
  <2>2. crawl'.at = "loop" /\ crawl'.policy = crawl.policy /\ crawl'.accepted = {}
    BY <1>1 DEF Walks
  <2>3. runs'[Run'] = row
    BY <1>4
  <2> QED
    BY <2>1, <2>2, <2>3 DEF RunFits, Is
<1> QED
  BY <1>6, <1>7 DEF RecordsFit

LEMMA AddEdgeRecords == ASSUME CrawlFits, RecordsFit, AddEdge PROVE RecordsFit'
<1> DEFINE edge == [source |-> crawl.work, target |-> Head(crawl.pending).work,
                    kind |-> Head(crawl.pending).kind, run |-> Run]
<1>1. /\ Is("edge") /\ crawl.work \in crawl.accepted
      /\ UNCHANGED <<cached, runs, rankings, papers>> /\ edges' = edges \cup {edge}
  BY DEF AddEdge, Keep, CrawlFits, WalkFits, Is
<1>2. /\ crawl'.at = "edge" /\ crawl'.policy = crawl.policy
      /\ crawl'.accepted = crawl.accepted
  BY <1>1 DEF AddEdge, CrawlFits, WalkFits, Walks, Is
<1>3. edge.run = Run /\ edge.source = crawl.work
  OBVIOUS
<1> HIDE DEF edge
<1>4. ~runs[Run].completed /\ ~runs[Run].discovered
  BY <1>1 DEF RecordsFit, RunFits, Is
<1>5. ASSUME NEW i \in DOMAIN runs PROVE Recorded(i)'
  <2>1. CASE i = Run
    BY <1>1, <1>4, <2>1, RecordedOpen
  <2>2. CASE i # Run
    BY <1>1, <1>3, <2>2, RecordedStays DEF RecordsFit
  <2> QED
    BY <2>1, <2>2
<1>6. RunFits'
  BY <1>1, <1>2, <1>3 DEF RecordsFit, RunFits, Is, Run
<1> QED
  BY <1>1, <1>5, <1>6 DEF RecordsFit

LEMMA StoreRankingRecords == ASSUME CrawlFits, RecordsFit, StoreRanking PROVE RecordsFit'
<1>1. /\ Is("loop") /\ UNCHANGED <<cached, edges, runs, papers>>
      /\ rankings' = [rankings EXCEPT ![Run] = RankWorks(crawl.accepted)]
      /\ crawl'.at = "finish" /\ crawl'.policy = crawl.policy
      /\ crawl'.accepted = crawl.accepted
  BY DEF StoreRanking, Goto, Keep, CrawlFits, WalkFits, Walks
<1>2. ~runs[Run].completed /\ ~runs[Run].discovered
  BY <1>1 DEF RecordsFit, RunFits, Is
<1>3. Run \in Nat /\ Run >= 1 /\ DOMAIN rankings = 1 .. Run
  BY <1>1, RunUnderWay DEF Is
<1>4. ASSUME NEW i \in DOMAIN runs PROVE Recorded(i)'
  <2>1. CASE i = Run
    BY <1>1, <1>2, <2>1, RecordedOpen
  <2>2. CASE i # Run
    <3>1. rankings'[i] = rankings[i]
      BY <1>1, <1>3, <2>2
    <3> QED
      BY <1>1, <2>2, <3>1, RecordedStays DEF RecordsFit
  <2> QED
    BY <2>1, <2>2
<1>5. rankings'[Run] = RankWorks(crawl.accepted)
  BY <1>1, <1>3
<1>7. RunFits'
  BY <1>1, <1>2, <1>5 DEF RecordsFit, RunFits, Is, Run
<1> QED
  BY <1>1, <1>4, <1>7 DEF RecordsFit

LEMMA AcceptedRanked ==
  ASSUME CrawlFits
  PROVE  /\ Len(RankWorks(crawl.accepted)) = Cardinality(crawl.accepted)
         /\ ToSet(RankWorks(crawl.accepted)) = crawl.accepted
         /\ RankWorks(crawl.accepted) \in Seq(Works)
         /\ Cardinality(crawl.accepted) <= Cardinality(crawl.visited)
         /\ Cardinality(crawl.visited) <= crawl.policy.nodes
<1>1. crawl.accepted \in SUBSET Works /\ IsFiniteSet(crawl.visited)
      /\ crawl.accepted \subseteq crawl.visited
  BY DEF CrawlFits, WalkFits, Walks
<1>2. IsFiniteSet(crawl.accepted) /\ Cardinality(crawl.accepted) <= Cardinality(crawl.visited)
  BY <1>1, FS_Subset
<1> QED
  BY <1>1, <1>2, RankWorksIs DEF CrawlFits, WalkFits

LEMMA FinishRunRecords == ASSUME CrawlFits, RecordsFit, FinishRun PROVE RecordsFit'
<1> DEFINE row == [runs[Run] EXCEPT !.completed = TRUE,
                      !.visited = Cardinality(crawl.visited),
                      !.accepted = Cardinality(crawl.accepted)]
           ranked == RankWorks(crawl.accepted)
           best == Shorter(rankings[Run], PromoteTopK)
           pending == Tagged(best, "related")
<1>1. /\ Is("finish") /\ UNCHANGED <<cached, edges, rankings, papers>>
      /\ crawl'.at = "promote" /\ crawl'.pending = pending
      /\ crawl'.accepted = crawl.accepted /\ crawl'.policy = crawl.policy
  BY DEF FinishRun, Keep, CrawlFits, WalkFits, Walks
<1>2. runs' = [runs EXCEPT ![Run] = row] /\ DOMAIN runs = 1 .. Run /\ Run \in DOMAIN runs
  BY <1>1, RunUnderWay DEF FinishRun, Is
<1>3. /\ row \in RunRows /\ row.completed /\ row.visited = Cardinality(crawl.visited)
      /\ row.accepted = Cardinality(crawl.accepted)
      /\ row.policy = runs[Run].policy /\ row.discovered = runs[Run].discovered
  BY <1>1, RowFinished DEF Is
<1>4. /\ runs[Run].policy = crawl.policy /\ ~runs[Run].discovered
      /\ rankings[Run] = ranked /\ crawl.accepted \subseteq cached
      /\ \A e \in edges : e.run = Run => e.source \in crawl.accepted
  BY <1>1 DEF RecordsFit, RunFits, Is
<1>5. /\ Len(ranked) = Cardinality(crawl.accepted) /\ ToSet(ranked) = crawl.accepted
      /\ Cardinality(crawl.accepted) <= Cardinality(crawl.visited)
      /\ Cardinality(crawl.visited) <= crawl.policy.nodes /\ ranked \in Seq(Works)
  BY AcceptedRanked
<1>6. {pending[n].work : n \in DOMAIN pending} = ToSet(best)
  <2>1. best \in Seq(Works)
    BY <1>4, <1>5, CrawlAssumption, ShorterIs
  <2> HIDE DEF best
  <2>2. /\ pending \in Seq(Entries) /\ Len(pending) = Len(best)
        /\ \A i \in 1 .. Len(best) : pending[i] = [work |-> best[i], kind |-> "related"]
    BY <2>1, TaggedIs DEF Kinds
  <2> HIDE DEF pending
  <2>4. DOMAIN pending = 1 .. Len(best) /\ DOMAIN best = 1 .. Len(best)
    BY <2>1, <2>2
  <2>5. ASSUME NEW i \in 1 .. Len(best) PROVE pending[i].work = best[i]
    <3>1. pending[i] = [work |-> best[i], kind |-> "related"]
      BY <2>2
    <3> QED
      BY <3>1
  <2>3. DOMAIN pending = DOMAIN best /\ \A i \in DOMAIN best : pending[i].work = best[i]
    BY <2>4, <2>5
  <2> QED
    BY <2>3 DEF ToSet
<1> HIDE DEF row, ranked, best, pending
<1>7. runs'[Run] = row /\ \A i \in DOMAIN runs : i # Run => runs'[i] = runs[i]
  BY <1>2
<1>8. ASSUME NEW i \in DOMAIN runs PROVE Recorded(i)'
  <2>1. CASE i = Run
    <3>1. rankings'[i] = ranked /\ runs'[i] = row
      BY <1>1, <1>4, <1>7, <2>1
    <3>2. /\ rankings'[i] = RankWorks(ToSet(rankings'[i]))
          /\ ToSet(rankings'[i]) = crawl.accepted
          /\ Len(rankings'[i]) = Cardinality(crawl.accepted)
      BY <1>5, <3>1 DEF ranked
    <3> QED
      BY <1>1, <1>3, <1>4, <1>5, <2>1, <3>1, <3>2 DEF Recorded
  <2>2. CASE i # Run
    BY <1>1, <1>7, <2>2, RecordedStays DEF RecordsFit
  <2> QED
    BY <2>1, <2>2
<1>9. RunFits'
  <2>1. runs'[Run].policy = crawl.policy /\ ~runs'[Run].discovered /\ runs'[Run].completed
    BY <1>3, <1>4, <1>7
  <2>2. Run' = Run
    BY <1>1, <1>2, <1>3, RunRewritten DEF Is
  <2>3. ToSet(Shorter(rankings'[Run], PromoteTopK)) = {pending[n].work : n \in DOMAIN pending}
    BY <1>1, <1>6 DEF best
  <2>4. rankings'[Run] = RankWorks(crawl'.accepted)
    BY <1>1, <1>4 DEF ranked
  <2> QED
    BY <1>1, <1>4, <2>1, <2>2, <2>3, <2>4 DEF RunFits, Is
<1> QED
  BY <1>2, <1>8, <1>9 DEF RecordsFit

LEMMA PromoteWorkRecords == ASSUME CrawlFits, RecordsFit, PromoteWork PROVE RecordsFit'
<1> DEFINE p == crawl.pending
<1>1. /\ Is("promote") /\ p # <<>> /\ p \in Seq(Entries)
      /\ UNCHANGED <<runs, rankings, edges, cached>> /\ papers' = papers \cup {Head(p).work}
      /\ crawl'.at = "promote" /\ crawl'.pending = Tail(p)
      /\ crawl'.accepted = crawl.accepted /\ crawl'.policy = crawl.policy
  BY DEF PromoteWork, store, CrawlFits, WalkFits, Walks, Is
<1>2. (\A i \in DOMAIN runs : Recorded(i))'
  BY <1>1, AllRecordedStay
<1>3. \A n \in DOMAIN p : p[n].work = Head(p).work \/ \E m \in DOMAIN Tail(p) : Tail(p)[m] = p[n]
  <2> SUFFICES ASSUME NEW n \in DOMAIN p
               PROVE  p[n].work = Head(p).work \/ \E m \in DOMAIN Tail(p) : Tail(p)[m] = p[n]
    OBVIOUS
  <2>1. /\ Len(p) \in Nat /\ DOMAIN p = 1 .. Len(p) /\ Head(p) = p[1]
        /\ Tail(p) \in Seq(Entries) /\ Len(Tail(p)) = Len(p) - 1
        /\ DOMAIN Tail(p) = 1 .. Len(p) - 1
        /\ \A i \in 1 .. Len(p) - 1 : Tail(p)[i] = p[i + 1]
    BY <1>1, HeadTailProperties
  <2> HIDE DEF p
  <2>2. CASE n = 1
    BY <2>1, <2>2
  <2>3. CASE n # 1
    <3>1. n - 1 \in 1 .. Len(p) - 1 /\ (n - 1) + 1 = n
      BY <2>1, <2>3
    <3>2. Tail(p)[n - 1] = p[n]
      BY <2>1, <3>1
    <3> QED
      BY <2>1, <3>1, <3>2
  <2> QED
    BY <2>2, <2>3
<1>4. {p[n].work : n \in DOMAIN p} \subseteq
        {Head(p).work} \cup {Tail(p)[m].work : m \in DOMAIN Tail(p)}
  <2> HIDE DEF p
  <2> QED
    BY <1>3
<1>5. RunFits'
  <2>1. ToSet(Shorter(rankings[Run], PromoteTopK)) \subseteq
          papers \cup {p[n].work : n \in DOMAIN p}
    BY <1>1 DEF RecordsFit, RunFits, Is
  <2> HIDE DEF p
  <2>2. ToSet(Shorter(rankings[Run], PromoteTopK)) \subseteq
          papers' \cup {Tail(p)[m].work : m \in DOMAIN Tail(p)}
    BY <1>1, <1>4, <2>1
  <2> QED
    BY <1>1, <2>2 DEF RecordsFit, RunFits, Is, Run
<1> QED
  BY <1>2, <1>5 DEF RecordsFit

LEMMA MineGapsRecords == ASSUME CrawlFits, RecordsFit, MineGaps PROVE RecordsFit'
<1> DEFINE mined == rankings[Run] # <<>>
           row == [runs[Run] EXCEPT !.discovered = mined]
<1>1. /\ Is("promote") /\ crawl.pending = <<>> /\ crawl' = Resting
      /\ UNCHANGED <<cached, edges, rankings, papers>>
      /\ runs' = [runs EXCEPT ![Run] = row]
  BY DEF MineGaps, Keep
<1>2. /\ DOMAIN runs = 1 .. Run /\ Run \in DOMAIN runs /\ runs[Run] \in RunRows
  BY <1>1, RunUnderWay DEF Is
<1>3. /\ row.completed = runs[Run].completed /\ row.policy = runs[Run].policy
      /\ row.visited = runs[Run].visited /\ row.accepted = runs[Run].accepted
      /\ row.discovered = mined
  BY <1>2 DEF RunRows
<1>4. runs[Run].completed /\ ToSet(Shorter(rankings[Run], PromoteTopK)) \subseteq papers
  BY <1>1 DEF RecordsFit, RunFits, Is
<1> HIDE DEF row
<1>5. runs'[Run] = row /\ \A i \in DOMAIN runs : i # Run => runs'[i] = runs[i]
  BY <1>1, <1>2
<1>6. ASSUME NEW i \in DOMAIN runs PROVE Recorded(i)'
  <2>1. CASE i = Run
    <3>1. Recorded(Run)
      BY <1>2 DEF RecordsFit
    <3> QED
      BY <1>1, <1>3, <1>4, <1>5, <2>1, <3>1 DEF Recorded
  <2>2. CASE i # Run
    BY <1>1, <1>5, <2>2, RecordedStays DEF RecordsFit
  <2> QED
    BY <2>1, <2>2
<1>7. RunFits'
  BY <1>1 DEF RunFits, Resting
<1> QED
  BY <1>1, <1>2, <1>6, <1>7 DEF RecordsFit

LEMMA RecordsStep ==
  ASSUME CrawlFits, RecordsFit, [CrawlNext]_crawlVars
  PROVE  RecordsFit'
<1>0. crawl \in Walks
  BY DEF CrawlFits, WalkFits
<1>1. CASE UNCHANGED crawlVars
  BY <1>1 DEF crawlVars, store, RecordsFit, Recorded, RunFits, Run, Is
<1>2. CASE Discover \/ Abort
  <2>1. crawl'.at \in {"idle", "search"} /\ UNCHANGED <<runs, rankings, edges, papers, cached>>
    <3>1. CASE Discover
      BY <3>1 DEF Discover, Keep, store, Resting
    <3>2. CASE Abort
      BY <3>2 DEF Abort, store, Resting
    <3> QED
      BY <1>2, <3>1, <3>2
  <2> QED
    BY <2>1, CrawlRests
<1>3. CASE Busy
  <2>1. CASE crawl' = Resting
    BY <1>3, <2>1, CrawlRests DEF Busy, Keep, store, Resting
  <2>2. CASE UNCHANGED crawl
    <3>1. UNCHANGED <<store, papers, crawl>>
      BY <1>3, <2>2 DEF Busy, Keep
    <3> QED
      BY <3>1 DEF store, RecordsFit, Recorded, RunFits, Run, Is
  <2> QED
    BY <1>3, <2>1, <2>2 DEF Busy
<1>4. CASE Search
  <2>1. crawl'.at \in {"search", "start"}
    BY <1>0, <1>4 DEF Search, Is, Walks
  <2> QED
    BY <1>4, <2>1, CrawlRests DEF Search, Keep, store
<1>5. CASE Visit
  BY <1>0, <1>5, LocalsMove DEF Visit, Keep, store, Walks, Is
<1>6. CASE GetWork
  BY <1>0, <1>6, LocalsMove DEF GetWork, Keep, store, Walks, Is
<1>7. CASE Upsert
  <2>1. /\ crawl'.at \in {"loop", "cite", "edge"} /\ crawl'.policy = crawl.policy
        /\ crawl'.accepted \in {crawl.accepted, crawl.accepted \cup {crawl.work}}
    BY <1>0, <1>7 DEF Upsert, Goto, Walks
  <2>2. /\ cached' = cached \cup {crawl.work} /\ Is("upsert")
        /\ UNCHANGED <<runs, rankings, edges, papers>>
    BY <1>7 DEF Upsert, Keep
  <2> QED
    BY <2>1, <2>2, LocalsMove DEF Is
<1>8. CASE Cite
  <2>1. /\ crawl'.at \in {"cite", "edge"} /\ crawl'.policy = crawl.policy
        /\ crawl'.accepted = crawl.accepted /\ Is("cite")
        /\ UNCHANGED <<runs, rankings, edges, papers, cached>>
    BY <1>0, <1>8 DEF Cite, Keep, store, Walks, Is
  <2> QED
    BY <2>1, LocalsMove DEF Is
<1>9. CASE EdgesDone
  BY <1>0, <1>9, LocalsMove DEF EdgesDone, Goto, Keep, store, Walks, Is
<1>10. CASE StartRun \/ AddEdge \/ StoreRanking \/ FinishRun \/ PromoteWork \/ MineGaps
  BY <1>10, StartRunRecords, AddEdgeRecords, StoreRankingRecords, FinishRunRecords,
     PromoteWorkRecords, MineGapsRecords
<1> QED
  BY <1>1, <1>2, <1>3, <1>4, <1>5, <1>6, <1>7, <1>8, <1>9, <1>10 DEF CrawlNext, Step

LEMMA RecordsStart == CrawlInit => RecordsFit
BY DEF CrawlInit, RecordsFit, RunFits, Resting

-----------------------------------------------------------------------------
(***************************************************************************)
(* Discovery: which works a work leads to.  A second crawl finds the works *)
(* that the first one found by citations among the edges it stored.        *)
(***************************************************************************)

\* The works ahead of an entry.
Before(entries, i) == {entries[j].work : j \in 1 .. i - 1}

\* There are as many of them as first entries before it.
LEMMA BeforeCounted ==
  ASSUME NEW entries \in Seq(Entries), NEW i \in 1 .. Len(entries)
  PROVE  /\ IsFiniteSet(Before(entries, i))
         /\ Cardinality(Before(entries, i)) \in Nat
         /\ Cardinality({j \in FirstAt(entries) : j < i}) = Cardinality(Before(entries, i))
<1> DEFINE firsts == {j \in FirstAt(entries) : j < i}
           W == Before(entries, i)
           f == [j \in firsts |-> entries[j].work]
<1>1. Len(entries) \in Nat /\ DOMAIN entries = 1 .. Len(entries) /\ i \in Nat
  OBVIOUS
<1>2. FirstAt(entries) \subseteq 1 .. Len(entries) /\ IsFiniteSet(FirstAt(entries))
  BY FirstAtFinite
<1>3. IsFiniteSet(firsts) /\ \A j \in firsts : j \in 1 .. i - 1 /\ j \in Nat
  <2>1. firsts \subseteq FirstAt(entries)
    OBVIOUS
  <2>2. IsFiniteSet(firsts)
    BY <1>2, <2>1, FS_Subset
  <2>3. \A j \in firsts : j \in 1 .. i - 1 /\ j \in Nat
    BY <1>1, <1>2
  <2> QED
    BY <2>2, <2>3
<1>4. f \in [firsts -> W]
  <2> HIDE DEF firsts
  <2> QED
    BY <1>3 DEF Before
<1>5. \A x \in W : \E j \in firsts : f[j] = x
  <2> TAKE x \in W
  <2> DEFINE at == {j \in 1 .. i - 1 : entries[j].work = x}
  <2>1. at \in SUBSET Nat /\ at # {}
    BY <1>1 DEF Before
  <2>2. PICK k \in at : \A y \in at : k <= y
    <3> HIDE DEF at
    <3> QED
      BY <2>1, LeastNumber
  <2>3. k \in 1 .. Len(entries) /\ k < i /\ entries[k].work = x
    BY <1>1, <2>2
  <2>4. \A j \in 1 .. k - 1 : entries[j].work # entries[k].work
    BY <1>1, <2>2, <2>3
  <2>5. k \in firsts
    BY <1>1, <2>3, <2>4 DEF FirstAt
  <2> QED
    BY <2>3, <2>5
<1>6. \A j, k \in firsts : f[j] = f[k] => j = k
  <2> SUFFICES ASSUME NEW j \in firsts, NEW k \in firsts, entries[j].work = entries[k].work
               PROVE  j = k
    OBVIOUS
  <2>1. j \in Nat /\ k \in Nat /\ j >= 1 /\ k >= 1
    BY <1>3
  <2>2. CASE j < k
    <3>1. j \in 1 .. k - 1
      BY <2>1, <2>2
    <3> QED
      BY <3>1 DEF FirstAt
  <2>3. CASE k < j
    <3>1. k \in 1 .. j - 1
      BY <2>1, <2>3
    <3> QED
      BY <3>1 DEF FirstAt
  <2> QED
    BY <2>1, <2>2, <2>3
<1>7. f \in Surjection(firsts, W)
  <2>1. \A x \in W : \E j \in firsts : f[j] = x
    BY <1>5
  <2> HIDE DEF f, firsts, W
  <2> QED
    BY <1>4, <2>1 DEF Surjection
<1>8. f \in Injection(firsts, W)
  <2> HIDE DEF firsts, W
  <2> QED
    BY <1>4, <1>6 DEF Injection, IsInjective
<1>9. IsFiniteSet(W) /\ Cardinality(W) = Cardinality(firsts)
  <2> HIDE DEF f, firsts, W
  <2> QED
    BY <1>3, <1>7, <1>8, FS_Surjection
<1> QED
  BY <1>9, FS_CardinalityType

\* What the cut keeps: the first entries with fewer works ahead than the limit.
LEMMA EntryKept ==
  ASSUME NEW entries \in Seq(Entries), NEW b \in Nat, NEW e
  PROVE  e \in ToSet(Shorter(FirstEntries[entries], b)) <=>
           \E i \in FirstAt(entries) :
             entries[i] = e /\ Cardinality(Before(entries, i)) < b
<1> DEFINE n == Cardinality(FirstAt(entries))
           first == FirstEntries[entries]
           kept == Shorter(first, b)
<1>1. PICK order \in [1 .. n -> FirstAt(entries)] :
        /\ first = [k \in 1 .. n |-> entries[order[k]]]
        /\ \A k \in 1 .. n : Cardinality({j \in FirstAt(entries) : j < order[k]}) = k - 1
        /\ \A i \in FirstAt(entries) : \E k \in 1 .. n : order[k] = i
  BY FirstEntriesIs
<1>2. first \in Seq(Entries) /\ Len(first) = n /\ n \in Nat
  BY FirstEntriesTyped, FirstAtFinite, FS_CardinalityType
<1>3. /\ kept \in Seq(Entries)
      /\ Len(kept) = IF b < n THEN b ELSE n
      /\ \A k \in 1 .. Len(kept) : kept[k] = first[k]
  <2> HIDE DEF first
  <2> QED
    BY <1>2, ShorterIs
<1>4. \A k \in 1 .. n : Cardinality(Before(entries, order[k])) = k - 1
  <2> TAKE k \in 1 .. n
  <2>1. order[k] \in 1 .. Len(entries)
    BY FirstAtFinite
  <2>2. Cardinality({j \in FirstAt(entries) : j < order[k]}) = Cardinality(Before(entries, order[k]))
    BY <2>1, BeforeCounted
  <2> QED
    BY <1>1, <2>2
<1>5. ToSet(kept) = {kept[k] : k \in 1 .. Len(kept)}
  <2> HIDE DEF kept
  <2> QED
    BY <1>3 DEF ToSet
<1> HIDE DEF kept, n
<1>6. ASSUME e \in ToSet(kept)
      PROVE  \E i \in FirstAt(entries) : entries[i] = e /\ Cardinality(Before(entries, i)) < b
  <2>1. PICK k \in 1 .. Len(kept) : e = kept[k]
    BY <1>5, <1>6
  <2>2. k \in 1 .. n /\ k <= b
    BY <1>2, <1>3, <2>1
  <2>3. e = entries[order[k]] /\ order[k] \in FirstAt(entries)
    BY <1>1, <1>3, <2>1, <2>2
  <2> QED
    BY <1>4, <2>2, <2>3
<1>7. ASSUME NEW i \in FirstAt(entries), entries[i] = e, Cardinality(Before(entries, i)) < b
      PROVE  e \in ToSet(kept)
  <2>1. PICK k \in 1 .. n : order[k] = i
    BY <1>1
  <2>2. k - 1 < b
    BY <1>4, <1>7, <2>1
  <2>3. k \in 1 .. Len(kept)
    BY <1>2, <1>3, <2>1, <2>2
  <2>4. kept[k] = e
    BY <1>1, <1>3, <1>7, <2>1, <2>3
  <2> QED
    BY <1>5, <2>3, <2>4
<1> QED
  BY <1>6, <1>7 DEF kept

\* An entry with fewer works ahead than the limit has its work kept.
LEMMA WorkKept ==
  ASSUME NEW entries \in Seq(Entries), NEW b \in Nat, NEW i \in 1 .. Len(entries),
         Cardinality(Before(entries, i)) < b
  PROVE  \E e \in ToSet(Shorter(FirstEntries[entries], b)) : e.work = entries[i].work
<1> DEFINE at == {j \in 1 .. Len(entries) : entries[j].work = entries[i].work}
<1>1. Len(entries) \in Nat /\ DOMAIN entries = 1 .. Len(entries) /\ i \in Nat
  OBVIOUS
<1>2. at \in SUBSET Nat /\ at # {}
  BY <1>1
<1>3. PICK k \in at : \A y \in at : k <= y
  <2> HIDE DEF at
  <2> QED
    BY <1>2, LeastNumber
<1>4. k \in 1 .. Len(entries) /\ entries[k].work = entries[i].work /\ k <= i
  BY <1>1, <1>3
<1>5. k \in FirstAt(entries)
  <2>1. \A j \in 1 .. k - 1 : j \in 1 .. Len(entries) /\ ~(k <= j)
    BY <1>1, <1>4
  <2>2. \A j \in 1 .. k - 1 : entries[j].work # entries[k].work
    BY <1>3, <1>4, <2>1
  <2> QED
    BY <1>1, <1>4, <2>2 DEF FirstAt
<1>6. Cardinality(Before(entries, k)) <= Cardinality(Before(entries, i))
  <2>1. Before(entries, k) \subseteq Before(entries, i)
    BY <1>1, <1>4 DEF Before
  <2> QED
    BY <2>1, BeforeCounted, FS_Subset
<1>7. Cardinality(Before(entries, k)) < b
  <2>1. Cardinality(Before(entries, k)) \in Nat /\ Cardinality(Before(entries, i)) \in Nat
    BY <1>4, BeforeCounted
  <2> QED
    BY <1>6, <2>1
<1>8. entries[k] \in ToSet(Shorter(FirstEntries[entries], b))
  BY <1>5, <1>7, EntryKept
<1> QED
  BY <1>4, <1>8

\* The entries that remain after the cut.
Leads(branch, work, forward) ==
  ToSet(Shorter(FirstEntries[Combined(branch, work, forward)], branch))

LEMMA LeadsTyped ==
  ASSUME NEW branch \in Nat, NEW work \in Works, NEW forward \in Seq(Works)
  PROVE  /\ Leads(branch, work, forward) \subseteq Entries
         /\ IsFiniteSet(Leads(branch, work, forward))
         /\ Cardinality(Leads(branch, work, forward)) <= branch
<1> DEFINE kept == Shorter(FirstEntries[Combined(branch, work, forward)], branch)
<1>1. FirstEntries[Combined(branch, work, forward)] \in Seq(Entries)
  BY CombinedTyped, FirstEntriesTyped
<1>2. kept \in Seq(Entries) /\ Len(kept) <= branch
  BY <1>1, ShorterIs
<1> HIDE DEF kept
<1>3. /\ Len(kept) \in Nat /\ DOMAIN kept = 1 .. Len(kept)
      /\ \A i \in 1 .. Len(kept) : kept[i] \in Entries
      /\ ToSet(kept) = {kept[i] : i \in 1 .. Len(kept)}
  BY <1>2 DEF ToSet
<1>4. kept \in Surjection(1 .. Len(kept), ToSet(kept))
  <2>1. kept \in [1 .. Len(kept) -> ToSet(kept)]
    <3>1. kept = [i \in 1 .. Len(kept) |-> kept[i]]
      BY <1>2, <1>3
    <3> QED
      BY <1>3, <3>1
  <2> QED
    BY <1>3, <2>1 DEF Surjection
<1>5. IsFiniteSet(1 .. Len(kept)) /\ Cardinality(1 .. Len(kept)) = Len(kept)
  <2> DEFINE n == Len(kept)
  <2>1. n \in Nat
    BY <1>3
  <2> HIDE DEF n
  <2>2. IsFiniteSet(1 .. n) /\ Cardinality(1 .. n) = n
    BY <2>1, FS_Interval
  <2> QED
    BY <2>2 DEF n
<1>6. IsFiniteSet(ToSet(kept)) /\ Cardinality(ToSet(kept)) <= Len(kept)
  BY <1>4, <1>5, FS_Surjection
<1>7. Cardinality(ToSet(kept)) \in Nat
  BY <1>6, FS_CardinalityType
<1> QED
  BY <1>2, <1>3, <1>6, <1>7 DEF Leads, kept

\* The entries of the references, of the citing and of the related works, one
\* after the other.
Strings(all, back, forth, alike) ==
  /\ back \in Seq(Works) /\ forth \in Seq(Works) /\ alike \in Seq(Works)
  /\ all \in Seq(Entries)
  /\ Len(all) = Len(back) + Len(forth) + Len(alike)
  /\ \A i \in 1 .. Len(back) : all[i] = [work |-> back[i], kind |-> "backward"]
  /\ \A i \in 1 .. Len(forth) :
       all[Len(back) + i] = [work |-> forth[i], kind |-> "forward"]
  /\ \A i \in 1 .. Len(alike) :
       all[Len(back) + Len(forth) + i] = [work |-> alike[i], kind |-> "related"]

LEMMA CombinedIs ==
  ASSUME NEW branch \in Nat, NEW work \in Works, NEW forward \in Seq(Works),
         NEW back, back = Shorter(References[work], branch),
         NEW forth, forth = Shorter(forward, branch),
         NEW alike, alike = Shorter(Related[work], branch),
         NEW all, all = Combined(branch, work, forward)
  PROVE  Strings(all, back, forth, alike)
<1> DEFINE A == Tagged(back, "backward")
           F == Tagged(forth, "forward")
           R == Tagged(alike, "related")
<1>1. References[work] \in Seq(Works) /\ Related[work] \in Seq(Works)
  BY CrawlAssumption
<1>2. back \in Seq(Works) /\ forth \in Seq(Works) /\ alike \in Seq(Works)
  BY <1>1, ShorterIs
<1>3. {"backward", "forward", "related"} = Kinds
  BY DEF Kinds
<1>4. /\ A \in Seq(Entries) /\ Len(A) = Len(back)
      /\ \A i \in 1 .. Len(back) : A[i] = [work |-> back[i], kind |-> "backward"]
  BY <1>2, <1>3, TaggedIs
<1>5. /\ F \in Seq(Entries) /\ Len(F) = Len(forth)
      /\ \A i \in 1 .. Len(forth) : F[i] = [work |-> forth[i], kind |-> "forward"]
  BY <1>2, <1>3, TaggedIs
<1>6. /\ R \in Seq(Entries) /\ Len(R) = Len(alike)
      /\ \A i \in 1 .. Len(alike) : R[i] = [work |-> alike[i], kind |-> "related"]
  BY <1>2, <1>3, TaggedIs
<1>7. all = A \o F \o R
  BY DEF Combined
<1> HIDE DEF A, F, R
<1>8. all = (A \o F) \o R
  BY <1>7
<1>9. Len(A) \in Nat /\ Len(F) \in Nat /\ Len(R) \in Nat
  BY <1>4, <1>5, <1>6
<1>10. /\ all \in Seq(Entries)
       /\ Len(all) = Len(A) + Len(F) + Len(R)
       /\ \A i \in 1 .. Len(A) : all[i] = A[i]
       /\ \A i \in 1 .. Len(F) : all[Len(A) + i] = F[i]
       /\ \A i \in 1 .. Len(R) : all[Len(A) + Len(F) + i] = R[i]
  <2> DEFINE P == A \o F
  <2>0. A \in Seq(Entries) /\ F \in Seq(Entries) /\ R \in Seq(Entries)
    BY <1>4, <1>5, <1>6
  <2>1. P \in Seq(Entries) /\ Len(P) = Len(A) + Len(F)
    BY <2>0, ConcatProperties
  <2>2. \A i \in 1 .. Len(A) + Len(F) : P[i] = IF i <= Len(A) THEN A[i] ELSE F[i - Len(A)]
    BY <2>0, ConcatProperties
  <2>3. all = P \o R
    BY <1>8
  <2> HIDE DEF P
  <2>4. P \o R \in Seq(Entries) /\ Len(P \o R) = Len(P) + Len(R)
    BY <2>0, <2>1, ConcatProperties
  <2>5. \A i \in 1 .. Len(P) + Len(R) :
          (P \o R)[i] = IF i <= Len(P) THEN P[i] ELSE R[i - Len(P)]
    BY <2>0, <2>1, ConcatProperties
  <2>6. \A i \in 1 .. Len(A) : all[i] = A[i]
    BY <1>9, <2>1, <2>2, <2>3, <2>5
  <2>7. \A i \in 1 .. Len(F) : all[Len(A) + i] = F[i]
    <3> TAKE i \in 1 .. Len(F)
    <3>1. Len(A) + i \in 1 .. Len(A) + Len(F) /\ ~(Len(A) + i <= Len(A)) /\ (Len(A) + i) - Len(A) = i
      BY <1>9
    <3>2. P[Len(A) + i] = F[i]
      BY <2>2, <3>1
    <3> QED
      BY <1>9, <2>1, <2>3, <2>5, <3>1, <3>2
  <2>8. \A i \in 1 .. Len(R) : all[Len(A) + Len(F) + i] = R[i]
    <3> TAKE i \in 1 .. Len(R)
    <3>1. /\ Len(A) + Len(F) + i \in 1 .. Len(P) + Len(R) /\ ~(Len(A) + Len(F) + i <= Len(P))
          /\ (Len(A) + Len(F) + i) - Len(P) = i
      BY <1>9, <2>1
    <3> QED
      BY <2>3, <2>5, <3>1
  <2> QED
    BY <1>9, <2>1, <2>3, <2>4, <2>6, <2>7, <2>8
<1>11. Len(all) = Len(back) + Len(forth) + Len(alike)
  BY <1>4, <1>5, <1>6, <1>10
<1>12. \A i \in 1 .. Len(back) : all[i] = [work |-> back[i], kind |-> "backward"]
  BY <1>4, <1>10
<1>13. \A i \in 1 .. Len(forth) : all[Len(back) + i] = [work |-> forth[i], kind |-> "forward"]
  <2> TAKE i \in 1 .. Len(forth)
  <2>1. i \in 1 .. Len(F) /\ F[i] = [work |-> forth[i], kind |-> "forward"]
    BY <1>5
  <2>2. all[Len(A) + i] = F[i]
    BY <1>10, <2>1
  <2>3. Len(A) = Len(back)
    BY <1>4
  <2> QED
    BY <2>1, <2>2, <2>3
<1>14. \A i \in 1 .. Len(alike) :
         all[Len(back) + Len(forth) + i] = [work |-> alike[i], kind |-> "related"]
  <2> TAKE i \in 1 .. Len(alike)
  <2>1. i \in 1 .. Len(R) /\ R[i] = [work |-> alike[i], kind |-> "related"]
    BY <1>6
  <2>2. all[Len(A) + Len(F) + i] = R[i]
    BY <1>10, <2>1
  <2>3. Len(A) = Len(back) /\ Len(F) = Len(forth)
    BY <1>4, <1>5
  <2> QED
    BY <2>1, <2>2, <2>3
<1> QED
  BY <1>2, <1>10, <1>11, <1>12, <1>13, <1>14 DEF Strings

LEMMA CombinedStrings ==
  ASSUME NEW branch \in Nat, NEW work \in Works, NEW forward \in Seq(Works)
  PROVE  Strings(Combined(branch, work, forward), Shorter(References[work], branch),
                 Shorter(forward, branch), Shorter(Related[work], branch))
BY CombinedIs

\* A list of the citing works that were kept, in whatever order.
Recalls(again, branch, work, forward) ==
  /\ again \in Seq(Works) /\ Len(again) <= branch
  /\ \A x : (\E n \in 1 .. Len(again) : again[n] = x)
              <=> [work |-> x, kind |-> "forward"] \in Leads(branch, work, forward)

\* A work that is led to with the citing works that were kept was led to with
\* all of them: what was cut stays cut.
LEMMA SameTargets ==
  ASSUME NEW branch \in Nat, NEW work \in Works, NEW forward \in Seq(Works),
         NEW again, Recalls(again, branch, work, forward),
         NEW e \in Leads(branch, work, again)
  PROVE  \E old \in Leads(branch, work, forward) : old.work = e.work
<1> DEFINE back == Shorter(References[work], branch)
           forth == Shorter(forward, branch)
           alike == Shorter(Related[work], branch)
           all == Combined(branch, work, forward)
           new == Combined(branch, work, again)
           B == {back[i] : i \in 1 .. Len(back)}
           A == {again[i] : i \in 1 .. Len(again)}
           known == Leads(branch, work, forward)
<1>0. again \in Seq(Works) /\ Len(again) <= branch
  BY DEF Recalls
<1>1. /\ back \in Seq(Works) /\ forth \in Seq(Works) /\ alike \in Seq(Works)
      /\ all \in Seq(Entries)
      /\ Len(all) = Len(back) + Len(forth) + Len(alike)
  <2>1. Strings(all, back, forth, alike)
    BY CombinedStrings
  <2> HIDE DEF all, back, forth, alike
  <2> QED
    BY <2>1 DEF Strings
<1>2. /\ \A i \in 1 .. Len(back) : all[i] = [work |-> back[i], kind |-> "backward"]
      /\ \A i \in 1 .. Len(forth) :
           all[Len(back) + i] = [work |-> forth[i], kind |-> "forward"]
      /\ \A i \in 1 .. Len(alike) :
           all[Len(back) + Len(forth) + i] = [work |-> alike[i], kind |-> "related"]
  <2>1. Strings(all, back, forth, alike)
    BY CombinedStrings
  <2> HIDE DEF all, back, forth, alike
  <2> QED
    BY <2>1 DEF Strings
<1>3. Shorter(again, branch) = again
  <2>1. Len(again) \in Nat
    BY <1>0
  <2>2. (IF branch < Len(again) THEN branch ELSE Len(again)) = Len(again)
    BY <1>0, <2>1
  <2>3. SubSeq(again, 1, Len(again)) = again
    BY <1>0
  <2>4. Shorter(again, branch) = SubSeq(again, 1, IF branch < Len(again) THEN branch ELSE Len(again))
    BY DEF Shorter
  <2> QED
    BY <2>2, <2>3, <2>4
<1>4. new \in Seq(Entries) /\ Len(new) = Len(back) + Len(again) + Len(alike)
  <2> DEFINE f == Shorter(again, branch)
  <2>1. Strings(new, back, f, alike)
    BY <1>0, CombinedStrings
  <2>2. f = again
    BY <1>3
  <2> HIDE DEF f, back, alike, new
  <2> QED
    BY <2>1, <2>2 DEF Strings
<1>5. /\ \A i \in 1 .. Len(back) : new[i] = [work |-> back[i], kind |-> "backward"]
      /\ \A i \in 1 .. Len(again) :
           new[Len(back) + i] = [work |-> again[i], kind |-> "forward"]
      /\ \A i \in 1 .. Len(alike) :
           new[Len(back) + Len(again) + i] = [work |-> alike[i], kind |-> "related"]
  <2> DEFINE f == Shorter(again, branch)
  <2>1. Strings(new, back, f, alike)
    BY <1>0, CombinedStrings
  <2>2. f = again
    BY <1>3
  <2> HIDE DEF f, back, alike, new
  <2> QED
    BY <2>1, <2>2 DEF Strings
<1>6. PICK i \in FirstAt(new) : new[i] = e /\ Cardinality(Before(new, i)) < branch
  <2> HIDE DEF new
  <2>1. e \in ToSet(Shorter(FirstEntries[new], branch))
    BY DEF Leads, new
  <2> QED
    BY <1>4, <2>1, EntryKept
<1>7. \A k \in 1 .. Len(all) : Cardinality(Before(all, k)) < branch =>
        \E old \in known : old.work = all[k].work
  <2> HIDE DEF all
  <2>1. known = ToSet(Shorter(FirstEntries[all], branch))
    BY DEF Leads, all
  <2> HIDE DEF known
  <2> QED
    BY <1>1, <2>1, WorkKept
<1>8. \A k \in FirstAt(all) : Cardinality(Before(all, k)) < branch => all[k] \in known
  <2> HIDE DEF all
  <2>1. known = ToSet(Shorter(FirstEntries[all], branch))
    BY DEF Leads, all
  <2> HIDE DEF known
  <2> QED
    BY <1>1, <2>1, EntryKept
<1>9. \A x \in A : [work |-> x, kind |-> "forward"] \in known
  BY DEF Recalls
<1>10. \A x : [work |-> x, kind |-> "forward"] \in known => x \in A
  BY DEF Recalls
<1>11. /\ Len(back) \in Nat /\ Len(forth) \in Nat /\ Len(alike) \in Nat
       /\ Len(again) \in Nat /\ i \in 1 .. Len(new) /\ i \in Nat
  BY <1>0, <1>1, <1>4, FirstAtFinite
<1> HIDE DEF back, forth, alike, all, new, known
<1>20. ASSUME NEW k \in 1 .. Len(back)
       PROVE  all[k] = new[k] /\ all[k].work = back[k] /\ new[k].work = back[k]
  <2>1. all[k] = [work |-> back[k], kind |-> "backward"] /\ new[k] = all[k]
    BY <1>2, <1>5
  <2> QED
    BY <2>1
<1>21. ASSUME NEW k \in 1 .. Len(forth)
       PROVE  all[Len(back) + k].work = forth[k]
  <2>1. all[Len(back) + k] = [work |-> forth[k], kind |-> "forward"]
    BY <1>2
  <2> QED
    BY <2>1
<1>22. ASSUME NEW k \in 1 .. Len(again)
       PROVE  new[Len(back) + k].work = again[k]
  <2>1. new[Len(back) + k] = [work |-> again[k], kind |-> "forward"]
    BY <1>5
  <2> QED
    BY <2>1
<1>23. ASSUME NEW k \in 1 .. Len(alike)
       PROVE  /\ all[Len(back) + Len(forth) + k].work = alike[k]
              /\ new[Len(back) + Len(again) + k].work = alike[k]
  <2>1. all[Len(back) + Len(forth) + k] = [work |-> alike[k], kind |-> "related"]
    BY <1>2
  <2>2. new[Len(back) + Len(again) + k] = [work |-> alike[k], kind |-> "related"]
    BY <1>5
  <2> QED
    BY <2>1, <2>2
<1>12. CASE i <= Len(back)
  <2>1. Before(all, i) = Before(new, i)
    <3>1. \A j \in 1 .. i - 1 : j \in 1 .. Len(back) /\ all[j] = new[j]
      BY <1>11, <1>12, <1>20
    <3> QED
      BY <3>1 DEF Before
  <2>2. i \in 1 .. Len(back) /\ i \in 1 .. Len(all)
    BY <1>1, <1>11, <1>12
  <2>3. all[i] = new[i]
    BY <1>20, <2>2
  <2>4. PICK old \in known : old.work = all[i].work
    BY <1>6, <1>7, <2>1, <2>2
  <2> QED
    BY <1>6, <2>3, <2>4 DEF known
<1>13. CASE Len(back) < i /\ i <= Len(back) + Len(again)
  <2> DEFINE n == i - Len(back)
  <2>1. n \in 1 .. Len(again) /\ Len(back) + n = i
    BY <1>11, <1>13
  <2> HIDE DEF n
  <2>2. new[i] = [work |-> again[n], kind |-> "forward"]
    BY <1>5, <2>1
  <2>3. [work |-> again[n], kind |-> "forward"] \in known
    BY <1>9, <2>1
  <2> QED
    BY <1>6, <2>2, <2>3 DEF known
<1>14. CASE Len(back) + Len(again) < i
  <2> DEFINE m == i - (Len(back) + Len(again))
             k == Len(back) + Len(forth) + m
  <2>1. m \in 1 .. Len(alike) /\ Len(back) + Len(again) + m = i
    BY <1>4, <1>11, <1>14
  <2>2. k \in 1 .. Len(all) /\ k \in Nat
    BY <1>1, <1>11, <2>1
  <2>3. new[i].work = alike[m] /\ all[k].work = alike[m]
    <3> HIDE DEF m
    <3> QED
      BY <1>23, <2>1
  <2>4. B \cup A \subseteq Before(new, i)
    <3>1. ASSUME NEW j \in 1 .. Len(back) PROVE back[j] \in Before(new, i)
      <4>1. j \in 1 .. i - 1
        BY <1>11, <1>14
      <4>2. new[j].work = back[j]
        BY <1>20
      <4> QED
        BY <4>1, <4>2 DEF Before
    <3>2. ASSUME NEW j \in 1 .. Len(again) PROVE again[j] \in Before(new, i)
      <4>1. Len(back) + j \in 1 .. i - 1
        BY <1>11, <1>14
      <4>2. new[Len(back) + j].work = again[j]
        BY <1>22
      <4> QED
        BY <4>1, <4>2 DEF Before
    <3> QED
      BY <3>1, <3>2
  <2>5. \A j \in 1 .. m - 1 : alike[j] \in Before(new, i)
    <3> TAKE j \in 1 .. m - 1
    <3>1. Len(back) + Len(again) + j \in 1 .. i - 1 /\ j \in 1 .. Len(alike)
      BY <1>11, <2>1
    <3>2. new[Len(back) + Len(again) + j].work = alike[j]
      BY <1>23, <3>1
    <3> QED
      BY <3>1, <3>2 DEF Before
  <2>6. IsFiniteSet(Before(new, i)) /\ Cardinality(Before(new, i)) \in Nat
    BY <1>4, <1>11, BeforeCounted
  <2>7. \A j \in 1 .. Len(forth) : forth[j] \in B \cup A
    <3> SUFFICES ASSUME \E j \in 1 .. Len(forth) : forth[j] \notin B \cup A
                 PROVE  FALSE
      OBVIOUS
    <3> DEFINE cut == {j \in 1 .. Len(forth) : forth[j] \notin B \cup A}
    <3>1. cut \in SUBSET Nat /\ cut # {}
      BY <1>11
    <3>2. PICK j \in cut : \A y \in cut : j <= y
      <4> HIDE DEF cut
      <4> QED
        BY <3>1, LeastNumber
    <3>3. /\ j \in 1 .. Len(forth) /\ forth[j] \notin B \cup A
          /\ \A y \in 1 .. j - 1 : forth[y] \in B \cup A
      <4>1. \A y \in 1 .. j - 1 : y \in 1 .. Len(forth) /\ ~(j <= y)
        BY <1>11, <3>2
      <4> QED
        BY <3>2, <4>1
    <3> DEFINE at == Len(back) + j
    <3>4. at \in 1 .. Len(all) /\ at \in Nat
      BY <1>1, <1>11, <3>3
    <3>5. all[at] = [work |-> forth[j], kind |-> "forward"]
      BY <1>2, <3>3
    <3>6. \A y \in 1 .. at - 1 : all[y].work \in B \cup A
      <4> TAKE y \in 1 .. at - 1
      <4>1. CASE y <= Len(back)
        <5>1. y \in 1 .. Len(back)
          BY <1>11, <4>1
        <5> QED
          BY <1>20, <5>1
      <4>2. CASE Len(back) < y
        <5>1. y - Len(back) \in 1 .. j - 1 /\ y - Len(back) \in 1 .. Len(forth)
              /\ Len(back) + (y - Len(back)) = y
          BY <1>11, <3>3, <4>2
        <5>2. all[y].work = forth[y - Len(back)]
          BY <1>21, <5>1
        <5> QED
          BY <3>3, <5>1, <5>2
      <4>3. y <= Len(back) \/ Len(back) < y
        BY <1>11, <3>4
      <4> HIDE DEF A, B
      <4> QED
        BY <4>1, <4>2, <4>3
    <3> HIDE DEF at
    <3>7. at \in FirstAt(all)
      <4>1. \A y \in 1 .. at - 1 : all[y].work # all[at].work
        BY <1>21, <3>3, <3>6 DEF at
      <4>2. at \in DOMAIN all
        BY <1>1, <3>4
      <4> QED
        BY <4>1, <4>2 DEF FirstAt
    <3>8. all[at] \notin known
      BY <1>10, <3>3, <3>5
    <3>9. ~(Cardinality(Before(all, at)) < branch)
      BY <1>8, <3>7, <3>8
    <3>10. Before(all, at) \subseteq Before(new, i)
      BY <2>4, <3>6 DEF Before
    <3>11. Cardinality(Before(all, at)) <= Cardinality(Before(new, i))
      BY <2>6, <3>10, FS_Subset
    <3>12. Cardinality(Before(all, at)) \in Nat
      BY <1>1, <3>4, BeforeCounted
    <3> QED
      BY <1>6, <2>6, <3>9, <3>11, <3>12
  <2>8. Before(all, k) \subseteq Before(new, i)
    <3>1. ASSUME NEW j \in 1 .. k - 1 PROVE all[j].work \in Before(new, i)
      <4>1. CASE j <= Len(back)
        <5>1. j \in 1 .. Len(back)
          BY <1>11, <4>1
        <5>2. all[j].work \in B
          BY <1>20, <5>1
        <5> QED
          BY <2>4, <5>2
      <4>2. CASE Len(back) < j /\ j <= Len(back) + Len(forth)
        <5>1. j - Len(back) \in 1 .. Len(forth) /\ Len(back) + (j - Len(back)) = j
          BY <1>11, <4>2
        <5>2. all[j].work = forth[j - Len(back)]
          BY <1>21, <5>1
        <5> QED
          BY <2>4, <2>7, <5>1, <5>2
      <4>3. CASE Len(back) + Len(forth) < j
        <5> DEFINE o == j - (Len(back) + Len(forth))
        <5>1. o \in 1 .. m - 1 /\ o \in 1 .. Len(alike) /\ Len(back) + Len(forth) + o = j
          BY <1>11, <2>1, <4>3
        <5> HIDE DEF o
        <5>2. all[j].work = alike[o]
          BY <1>23, <5>1
        <5> QED
          BY <2>5, <5>1, <5>2
      <4> QED
        BY <1>11, <2>2, <4>1, <4>2, <4>3
    <3> QED
      BY <3>1 DEF Before
  <2> HIDE DEF k
  <2>9. Cardinality(Before(all, k)) <= Cardinality(Before(new, i))
    BY <2>6, <2>8, FS_Subset
  <2>10. Cardinality(Before(all, k)) \in Nat
    BY <1>1, <2>2, BeforeCounted
  <2>11. Cardinality(Before(all, k)) < branch
    BY <1>6, <2>6, <2>9, <2>10
  <2>12. PICK old \in known : old.work = all[k].work
    BY <1>7, <2>2, <2>11
  <2> QED
    BY <1>6, <2>3, <2>12 DEF known, k
<1> QED
  BY <1>11, <1>12, <1>13, <1>14

-----------------------------------------------------------------------------
(***************************************************************************)
(* Discovery: what the first crawl leaves behind.  It ends with a set of   *)
(* cached works that has the seeds, and all that a work in it leads to: a  *)
(* crawl that starts from them again meets no other work.                  *)
(***************************************************************************)
Walking == {"loop", "load", "upsert", "cite", "edge"}
Seeds(p) == ToSet(Shorter(Found, p.branch))

\* The works that a work leads to when its citations are those in the cache.
Reached(p, work) ==
  {e.work : e \in Leads(p.branch, work, IF p.forward THEN EdgeTargets(work) ELSE <<>>)}

\* Whether the walk goes on from a work at a depth.
GoesOn(p, work, depth) == (p.open => work \in OpenAccess) /\ depth < p.depth

\* Visited works V, each at its depth D, that no walk under a policy leaves,
\* whatever has become of the works in Done.
Closed(p, V, D, Done) ==
  /\ V \subseteq cached
  /\ \A s \in Seeds(p) : s \in V /\ D[s] = 0
  /\ \A v \in V \ Done : GoesOn(p, v, D[v]) =>
       \A x \in Reached(p, v) : x \in V /\ D[x] <= D[v] + 1

\* A work has been visited or waits, at most so deep.
Met(V, D, frontier, x, depth) ==
  \/ x \in V /\ D[x] <= depth
  \/ \E i \in DOMAIN frontier : frontier[i].work = x /\ frontier[i].depth <= depth

Expanding(v) == v = crawl.work /\ crawl.at \in {"load", "upsert", "cite", "edge"}

\* The edges of the work being expanded are stored one by one.
EdgesFit(D) ==
  \E all \in Seq(Works) :
    /\ crawl.policy.forward \/ all = <<>>
    /\ \A e \in edges : e.source = crawl.work =>
         /\ [work |-> e.target, kind |-> e.kind] \in Leads(crawl.policy.branch, crawl.work, all)
         /\ Met(crawl.visited, D, crawl.frontier, e.target, crawl.depth + 1)
    /\ \A y \in Leads(crawl.policy.branch, crawl.work, all) :
         \/ y \in ToSet(crawl.pending)
         \/ \E e \in edges : e.source = crawl.work /\ e.target = y.work /\ e.kind = y.kind
    /\ ToSet(crawl.pending) \subseteq Leads(crawl.policy.branch, crawl.work, all)

\* The first walk: everything that a work led to has been met.
FirstWalk(D) ==
  /\ \A v \in crawl.visited : D[v] <= crawl.depth /\ (v \in cached \/ Expanding(v))
  /\ \A s \in Seeds(crawl.policy) : Met(crawl.visited, D, crawl.frontier, s, 0)
  /\ \A v \in crawl.visited : GoesOn(crawl.policy, v, D[v]) /\ ~Expanding(v) =>
       \A x \in Reached(crawl.policy, v) :
         Met(crawl.visited, D, crawl.frontier, x, D[v] + 1)
  /\ Expanding(crawl.work) => D[crawl.work] = crawl.depth
  /\ crawl.at \in {"load", "upsert", "cite"} => \A e \in edges : e.source # crawl.work
  /\ Is("cite") => crawl.policy.forward
  /\ Is("edge") => EdgesFit(D)

\* The targets of rows in the order they are listed.
TargetsOf(rows) ==
  LET order == [i \in 1 .. Cardinality(rows) |->
        CHOOSE x \in rows : Cardinality({y \in rows :
            y.target < x.target \/ (y.target = x.target /\ y.run < x.run)}) = i - 1]
  IN  [i \in DOMAIN order |-> order[i].target]

LEMMA EdgeTargetsStay ==
  ASSUME NEW v, ForwardRows(v)' = ForwardRows(v)
  PROVE  EdgeTargets(v)' = EdgeTargets(v)
<1>1. EdgeTargets(v) = TargetsOf(ForwardRows(v))
  BY DEF EdgeTargets, ForwardRows, InOrder, TargetsOf
<1>2. EdgeTargets(v)' = TargetsOf(ForwardRows(v)')
  BY DEF EdgeTargets, ForwardRows, InOrder, TargetsOf
<1> QED
  BY <1>1, <1>2

LEMMA ReachedStays ==
  ASSUME NEW p, NEW v, ForwardRows(v)' = ForwardRows(v)
  PROVE  Reached(p, v)' = Reached(p, v)
BY EdgeTargetsStay DEF Reached

LEMMA RowsStay ==
  ASSUME NEW v, \A e : e.source = v => (e \in edges <=> e \in edges')
  PROVE  ForwardRows(v)' = ForwardRows(v)
BY DEF ForwardRows

LEMMA ReachedTyped ==
  ASSUME CrawlFits, NEW p \in Policies, NEW v \in Works
  PROVE  Reached(p, v) \subseteq Works
<1> DEFINE forward == IF p.forward THEN EdgeTargets(v) ELSE <<>>
<1>1. p.branch \in Nat
  BY PolicyTyped
<1>2. EdgeTargets(v) \in Seq(Works)
  BY EdgeTargetsIs DEF CrawlFits, TablesFit
<1>3. forward \in Seq(Works)
  BY <1>2
<1> HIDE DEF forward
<1>4. Leads(p.branch, v, forward) \subseteq Entries
  BY <1>1, <1>3, LeadsTyped
<1>5. Reached(p, v) = {e.work : e \in Leads(p.branch, v, forward)}
  BY DEF Reached, forward
<1> QED
  BY <1>4, <1>5 DEF Entries

\* Whoever has been met is met, when works are visited and others wait.
LEMMA MetStays ==
  ASSUME NEW V, NEW D, NEW f, NEW W, NEW E, NEW g, NEW x, NEW d,
         V \subseteq W, \A v \in V : E[v] = D[v],
         \A i \in DOMAIN f : i \in DOMAIN g /\ g[i] = f[i],
         Met(V, D, f, x, d)
  PROVE  Met(W, E, g, x, d)
BY DEF Met

LEMMA MetTail ==
  ASSUME NEW V, NEW D, NEW f \in Seq(Queued), f # <<>>, NEW x, NEW d, Met(V, D, f, x, d)
  PROVE  Met(V, D, Tail(f), x, d) \/ (x = Head(f).work /\ Head(f).depth <= d)
<1>1. /\ Len(f) \in Nat /\ Len(f) >= 1 /\ DOMAIN f = 1 .. Len(f) /\ Head(f) = f[1]
      /\ DOMAIN Tail(f) = 1 .. Len(f) - 1
      /\ \A i \in 1 .. Len(f) - 1 : Tail(f)[i] = f[i + 1]
  BY HeadTailProperties
<1>2. CASE x \in V /\ D[x] <= d
  BY <1>2 DEF Met
<1>3. ASSUME NEW i \in 1 .. Len(f), f[i].work = x, f[i].depth <= d
      PROVE  Met(V, D, Tail(f), x, d) \/ (x = Head(f).work /\ Head(f).depth <= d)
  <2>1. CASE i = 1
    BY <1>1, <1>3, <2>1
  <2>2. CASE i > 1
    <3>1. i - 1 \in 1 .. Len(f) - 1 /\ Tail(f)[i - 1] = f[i]
      BY <1>1, <2>2
    <3> QED
      BY <1>1, <1>3, <3>1 DEF Met
  <2> QED
    BY <1>1, <2>1, <2>2
<1> QED
  BY <1>1, <1>2, <1>3 DEF Met

\* In the first run all edges are its own.
LEMMA FirstEdges ==
  ASSUME CrawlFits, RecordsFit, Run = 1, crawl.at \in Walking, NEW e \in edges
  PROVE  e \in EdgeRows /\ e.run = 1 /\ e.source \in crawl.accepted /\ e.source \in crawl.visited
<1>1. e \in EdgeRows /\ e.run <= 1
  BY DEF CrawlFits, TablesFit
<1>2. e.run = 1
  BY <1>1, EdgeRowTyped
<1>3. e.source \in crawl.accepted
  BY <1>2 DEF RecordsFit, RunFits, Walking
<1> QED
  BY <1>1, <1>2, <1>3 DEF CrawlFits, WalkFits

\* A crawl starts from its seeds.
StartFits ==
  Is("start") =>
    crawl.frontier = [i \in DOMAIN Shorter(Found, crawl.policy.branch) |->
                        [work |-> Shorter(Found, crawl.policy.branch)[i], depth |-> 0]]

LEMMA SeedsWait ==
  ASSUME CrawlFits, StartFits, Is("start")
  PROVE  /\ \A s \in Seeds(crawl.policy) : \E i \in DOMAIN crawl.frontier :
              crawl.frontier[i].work = s /\ crawl.frontier[i].depth = 0
         /\ \A i \in DOMAIN crawl.frontier :
              crawl.frontier[i].work \in Seeds(crawl.policy) /\ crawl.frontier[i].depth = 0
<1> DEFINE first == Shorter(Found, crawl.policy.branch)
<1>1. crawl.frontier = [i \in DOMAIN first |-> [work |-> first[i], depth |-> 0]]
  BY DEF StartFits
<1>2. Seeds(crawl.policy) = {first[i] : i \in DOMAIN first}
  BY DEF Seeds, ToSet
<1> HIDE DEF first
<1>3. \A i \in DOMAIN first : crawl.frontier[i].work = first[i] /\ crawl.frontier[i].depth = 0
  BY <1>1
<1>4. DOMAIN crawl.frontier = DOMAIN first
  BY <1>1
<1> QED
  BY <1>2, <1>3, <1>4

LEMMA StartStep ==
  ASSUME CrawlFits, StartFits, [CrawlNext]_crawlVars
  PROVE  StartFits'
<1>0. crawl \in Walks
  BY DEF CrawlFits, WalkFits
<1>1. CASE UNCHANGED crawl
  BY <1>1 DEF StartFits, Is
<1>2. CASE Search /\ crawl' # crawl
  <2>1. PICK cursor \in BOOLEAN :
          LET page == Page(Found, crawl.policy.branch, 0, cursor) IN
          IF page.over
          THEN /\ crawl' = [crawl EXCEPT !.at = "start",
                     !.frontier = [i \in DOMAIN page.listed |->
                         [work |-> page.listed[i], depth |-> 0]]]
               /\ request' = Fresh
          ELSE NextPage(page) /\ UNCHANGED crawl
    BY <1>2 DEF Search
  <2> DEFINE page == Page(Found, crawl.policy.branch, 0, cursor)
  <2>2. Listing(Found, crawl.policy.branch) /\ crawl.policy.branch \in Nat /\ Found \in Seq(Works)
    <3>1. Listing(Found, crawl.policy.branch)
      BY <1>2 DEF Search, CrawlFits, RequestFits, AllListed
    <3>2. crawl.policy.branch \in Nat
      BY <1>0, PolicyTyped DEF Walks
    <3>3. Found \in Seq(Works)
      BY CrawlAssumption, SeqMonotonic
    <3> QED
      BY <3>1, <3>2, <3>3
  <2>3. page.over => page.listed = Shorter(Found, crawl.policy.branch)
    <3>1. Continues(page, Found, crawl.policy.branch, 0)
      BY <2>2, PageContinues
    <3> HIDE DEF page
    <3> QED
      BY <3>1 DEF Continues
  <2>4. page.over /\ crawl' = [crawl EXCEPT !.at = "start",
                     !.frontier = [i \in DOMAIN page.listed |->
                         [work |-> page.listed[i], depth |-> 0]]]
    BY <1>2, <2>1
  <2> HIDE DEF page
  <2>5. crawl'.policy = crawl.policy /\ crawl'.frontier =
          [i \in DOMAIN page.listed |-> [work |-> page.listed[i], depth |-> 0]]
    BY <1>0, <2>4 DEF Walks
  <2> QED
    BY <2>3, <2>4, <2>5 DEF StartFits
<1>3. CASE crawl'.at # "start"
  BY <1>3 DEF StartFits, Is
<1>4. CASE Search \/ UNCHANGED crawl \/ crawl'.at # "start"
  BY <1>1, <1>2, <1>3, <1>4
<1>5. Search \/ UNCHANGED crawl \/ crawl'.at # "start"
  <2>1. CASE UNCHANGED crawlVars
    BY <2>1 DEF crawlVars
  <2>2. CASE Discover
    <3>1. crawl'.at = "search"
      BY <2>2 DEF Discover, Resting
    <3> QED
      BY <3>1
  <2>8. CASE Abort \/ MineGaps
    BY <2>8 DEF Abort, MineGaps, Resting
  <2>3. CASE Busy
    BY <2>3 DEF Busy, Resting
  <2>4. CASE StartRun \/ GetWork \/ EdgesDone \/ StoreRanking \/ FinishRun
    BY <1>0, <2>4 DEF StartRun, GetWork, EdgesDone, StoreRanking, FinishRun, Goto, Walks
  <2>5. CASE Visit
    BY <1>0, <2>5 DEF Visit, Is, Walks
  <2>6. CASE Upsert \/ Cite
    BY <1>0, <2>6 DEF Upsert, Cite, Goto, Walks
  <2>7. CASE AddEdge \/ PromoteWork
    BY <1>0, <2>7 DEF AddEdge, PromoteWork, Is, Walks
  <2> QED
    BY <2>1, <2>2, <2>3, <2>4, <2>5, <2>6, <2>7, <2>8 DEF CrawlNext, Step
<1> QED
  BY <1>4, <1>5

LEMMA FirstStarts ==
  ASSUME CrawlFits, StartFits, StartRun, Run = 0
  PROVE  \E D \in [crawl'.visited -> Nat] : FirstWalk(D)'
<1> DEFINE D == [v \in {} |-> 0]
<1>1. /\ crawl' = [crawl EXCEPT !.at = "loop"] /\ crawl \in Walks /\ Is("start")
      /\ crawl.visited = {}
  BY DEF StartRun, Goto, CrawlFits, WalkFits, Is
<1>2. /\ crawl'.visited = {} /\ crawl'.at = "loop" /\ crawl'.policy = crawl.policy
      /\ crawl'.frontier = crawl.frontier
  BY <1>1 DEF Walks
<1>3. D \in [crawl'.visited -> Nat]
  BY <1>2
<1> HIDE DEF D
<1>4. \A s \in Seeds(crawl.policy) : Met(crawl'.visited, D, crawl'.frontier, s, 0)
  BY <1>1, <1>2, SeedsWait DEF Met
<1>5. FirstWalk(D)'
  BY <1>2, <1>4 DEF FirstWalk, Expanding, Is
<1> QED
  BY <1>3, <1>5

\* Steps with the same work in hand: what is left to show when it is left.
LEMMA FirstStays ==
  ASSUME NEW D, FirstWalk(D), UNCHANGED edges, cached \subseteq cached',
         crawl'.visited = crawl.visited, crawl'.frontier = crawl.frontier,
         crawl'.depth = crawl.depth, crawl'.policy = crawl.policy, crawl'.work = crawl.work,
         crawl.at \in {"load", "upsert", "cite", "edge"},
         \/ crawl'.at \in {"upsert", "cite"} /\ crawl.at \in {"load", "upsert", "cite"}
         \/ crawl'.at = "edge" /\ EdgesFit(D)'
         \/ /\ crawl'.at = "loop" /\ crawl.work \in cached'
            /\ GoesOn(crawl.policy, crawl.work, D[crawl.work]) =>
                 \A x \in Reached(crawl.policy, crawl.work) :
                   Met(crawl.visited, D, crawl.frontier, x, D[crawl.work] + 1),
         crawl'.at = "cite" => crawl.policy.forward
  PROVE  FirstWalk(D)'
<1>1. \A v : Reached(crawl.policy, v)' = Reached(crawl.policy, v)
  BY ReachedStays DEF ForwardRows
<1>2. \A v : ~Expanding(v)' => ~Expanding(v) \/ (v = crawl.work /\ crawl'.at = "loop")
  BY DEF Expanding
<1>3. \A v \in crawl.visited : D[v] <= crawl.depth /\ (v \in cached' \/ Expanding(v)')
  BY DEF FirstWalk, Expanding
<1>4. \A v \in crawl.visited : GoesOn(crawl.policy, v, D[v]) /\ ~Expanding(v)' =>
        \A x \in Reached(crawl.policy, v) : Met(crawl.visited, D, crawl.frontier, x, D[v] + 1)
  BY <1>2 DEF FirstWalk
<1>5. Expanding(crawl.work)' => D[crawl.work] = crawl.depth
  BY DEF FirstWalk, Expanding
<1>6. crawl'.at \in {"load", "upsert", "cite"} => \A e \in edges : e.source # crawl.work
  BY DEF FirstWalk
<1>7. \A s \in Seeds(crawl.policy) : Met(crawl.visited, D, crawl.frontier, s, 0)
  BY DEF FirstWalk
<1>8. \A v \in crawl.visited : GoesOn(crawl.policy, v, D[v]) /\ ~Expanding(v)' =>
        \A x \in Reached(crawl.policy, v)' : Met(crawl.visited, D, crawl.frontier, x, D[v] + 1)
  BY <1>1, <1>4
<1> QED
  BY <1>3, <1>5, <1>6, <1>7, <1>8 DEF FirstWalk, Is

\* A policy's branch, and the work being expanded.
LEMMA WalkTyped ==
  ASSUME CrawlFits, crawl.at \notin {"idle"}
  PROVE  /\ crawl \in Walks /\ crawl.policy \in Policies /\ crawl.policy.branch \in Nat
         /\ crawl.policy.depth \in Nat /\ crawl.depth \in Nat
         /\ crawl.visited \subseteq Works /\ crawl.frontier \in Seq(Queued)
         /\ crawl.pending \in Seq(Entries)
<1>1. crawl \in Walks /\ crawl.policy \in Policies
  BY DEF CrawlFits, WalkFits, Is
<1> QED
  BY <1>1, PolicyTyped DEF Walks

\* The edges that are about to be stored are those the work leads to.
LEMMA EdgesBegin ==
  ASSUME CrawlFits, crawl.at # "idle", crawl.work \in Works,
         NEW D, NEW all \in Seq(Works), crawl.policy.forward \/ all = <<>>,
         \A e \in edges : e.source # crawl.work, UNCHANGED edges,
         crawl'.pending = NextWorkEdges(crawl.work, all),
         crawl'.work = crawl.work, crawl'.policy = crawl.policy
  PROVE  EdgesFit(D)'
<1>1. ToSet(crawl'.pending) = Leads(crawl.policy.branch, crawl.work, all)
  BY WalkTyped, NextWorkEdgesIs DEF Leads
<1> QED
  BY <1>1 DEF EdgesFit

LEMMA NoEdgesNoTargets ==
  ASSUME CrawlFits, NEW v \in Works, \A e \in edges : e.source # v
  PROVE  EdgeTargets(v) \in Seq(Works) /\ EdgeTargets(v) = <<>>
<1>1. ForwardRows(v) = {} /\ edges \subseteq EdgeRows /\ IsFiniteSet(edges)
  BY DEF ForwardRows, CrawlFits, TablesFit
<1>2. EdgeTargets(v) \in Seq(Works) /\ Len(EdgeTargets(v)) = Cardinality({})
  BY <1>1, EdgeTargetsIs
<1> QED
  BY <1>2, FS_EmptySet

LEMMA FirstGetWork ==
  ASSUME CrawlFits, NEW D, FirstWalk(D), GetWork
  PROVE  FirstWalk(D)' /\ crawl'.visited = crawl.visited
BY WalkTyped, FirstStays DEF GetWork, Keep, store, Is, Walks

LEMMA FirstUpsert ==
  ASSUME CrawlFits, RecordsFit, NEW D, FirstWalk(D), Upsert
  PROVE  FirstWalk(D)' /\ crawl'.visited = crawl.visited
<1>1. /\ crawl \in Walks /\ Is("upsert") /\ cached' = cached \cup {crawl.work} /\ UNCHANGED edges
      /\ crawl.work \in crawl.visited /\ crawl.work \in Works
      /\ crawl.policy.depth \in Nat /\ crawl.depth \in Nat
  BY WalkTyped DEF Upsert, Keep, Is, CrawlFits, WalkFits
<1>2. /\ crawl'.visited = crawl.visited /\ crawl'.frontier = crawl.frontier
      /\ crawl'.depth = crawl.depth /\ crawl'.policy = crawl.policy /\ crawl'.work = crawl.work
  BY <1>1 DEF Upsert, Goto, Walks
<1>3. D[crawl.work] = crawl.depth /\ \A e \in edges : e.source # crawl.work
  BY <1>1 DEF FirstWalk, Expanding, Is
<1>4. CASE crawl'.at = "loop" /\ ~GoesOn(crawl.policy, crawl.work, D[crawl.work])
  BY <1>1, <1>2, <1>4, FirstStays DEF Is
<1>5. CASE crawl'.at = "cite" /\ crawl.policy.forward
  BY <1>1, <1>2, <1>5, FirstStays DEF Is
<1>6. CASE /\ crawl'.at = "edge"
           /\ crawl'.pending = NextWorkEdges(crawl.work,
                  IF crawl.policy.forward THEN EdgeTargets(crawl.work) ELSE <<>>)
  <2>1. EdgeTargets(crawl.work) \in Seq(Works) /\ EdgeTargets(crawl.work) = <<>>
    BY <1>1, <1>3, NoEdgesNoTargets
  <2>2. crawl'.pending = NextWorkEdges(crawl.work, <<>>) /\ <<>> \in Seq(Works)
    BY <1>6, <2>1
  <2>3. EdgesFit(D)'
    BY <1>1, <1>2, <1>3, <2>2, EdgesBegin DEF Is
  <2> QED
    BY <1>1, <1>2, <1>6, <2>3, FirstStays DEF Is
<1>7. \/ crawl'.at = "loop" /\ ~GoesOn(crawl.policy, crawl.work, D[crawl.work])
      \/ crawl'.at = "cite" /\ crawl.policy.forward
      \/ /\ crawl'.at = "edge"
         /\ crawl'.pending = NextWorkEdges(crawl.work,
                IF crawl.policy.forward THEN EdgeTargets(crawl.work) ELSE <<>>)
  <2>1. CASE crawl.policy.open /\ crawl.work \notin OpenAccess
    BY <1>1, <2>1 DEF Upsert, Goto, Walks, GoesOn
  <2>2. CASE ~(crawl.policy.open /\ crawl.work \notin OpenAccess) /\ crawl.depth = crawl.policy.depth
    <3>1. crawl'.at = "loop"
      BY <1>1, <2>2 DEF Upsert, Walks
    <3>2. ~(D[crawl.work] < crawl.policy.depth)
      BY <1>1, <1>3, <2>2
    <3> QED
      BY <3>1, <3>2 DEF GoesOn
  <2>3. CASE ~(crawl.policy.open /\ crawl.work \notin OpenAccess) /\ crawl.depth # crawl.policy.depth
             /\ AsksCitations
    BY <1>1, <2>3 DEF Upsert, Walks, AsksCitations
  <2>4. CASE ~(crawl.policy.open /\ crawl.work \notin OpenAccess) /\ crawl.depth # crawl.policy.depth
             /\ ~AsksCitations
    BY <1>1, <2>4 DEF Upsert, Walks
  <2> QED
    BY <2>1, <2>2, <2>3, <2>4
<1> QED
  BY <1>2, <1>4, <1>5, <1>6, <1>7

LEMMA FirstCite ==
  ASSUME CrawlFits, NEW D, FirstWalk(D), Cite
  PROVE  FirstWalk(D)' /\ crawl'.visited = crawl.visited
<1>1. /\ crawl \in Walks /\ Is("cite") /\ UNCHANGED <<cached, edges>>
      /\ crawl.work \in crawl.visited /\ crawl.work \in Works
  BY WalkTyped DEF Cite, Keep, store, Is, CrawlFits, WalkFits
<1>2. crawl.policy.forward /\ \A e \in edges : e.source # crawl.work
  BY <1>1 DEF FirstWalk, Is
<1>3. PICK cursor \in BOOLEAN :
        LET page == Page(Citing[crawl.work], crawl.policy.branch, crawl.policy.pages, cursor) IN
        IF page.over
        THEN /\ crawl' = [crawl EXCEPT !.at = "edge",
                   !.pending = NextWorkEdges(crawl.work, page.listed),
                   !.asked = @ \cup {crawl.work}]
             /\ request' = Fresh
        ELSE NextPage(page) /\ UNCHANGED crawl
  BY DEF Cite
<1> DEFINE page == Page(Citing[crawl.work], crawl.policy.branch, crawl.policy.pages, cursor)
<1>4. CASE UNCHANGED crawl
  BY <1>1, <1>2, <1>4, FirstStays DEF Is
<1>5. CASE crawl' = [crawl EXCEPT !.at = "edge",
                       !.pending = NextWorkEdges(crawl.work, page.listed),
                       !.asked = @ \cup {crawl.work}]
  <2>1. page.listed \in Seq(Works)
    <3>1. Listing(Citing[crawl.work], crawl.policy.branch)
      BY <1>1 DEF CrawlFits, RequestFits, AllListed, Is
    <3>2. Citing[crawl.work] \in Seq(Works)
      BY <1>1, CrawlAssumption
    <3>3. crawl.policy.branch \in Nat /\ crawl.policy.pages \in Nat
      BY <1>1, WalkTyped, PolicyTyped DEF Is
    <3>4. Continues(page, Citing[crawl.work], crawl.policy.branch, crawl.policy.pages)
      BY <3>1, <3>2, <3>3, PageContinues
    <3> HIDE DEF page
    <3> QED
      BY <3>4 DEF Continues
  <2> HIDE DEF page
  <2>2. /\ crawl'.visited = crawl.visited /\ crawl'.frontier = crawl.frontier
        /\ crawl'.depth = crawl.depth /\ crawl'.policy = crawl.policy
        /\ crawl'.work = crawl.work /\ crawl'.at = "edge"
        /\ crawl'.pending = NextWorkEdges(crawl.work, page.listed)
    BY <1>1, <1>5 DEF Walks
  <2>3. EdgesFit(D)'
    BY <1>1, <1>2, <2>1, <2>2, EdgesBegin DEF Is
  <2> QED
    BY <1>1, <2>2, <2>3, FirstStays DEF Is
<1> QED
  BY <1>3, <1>4, <1>5

\* With all its edges stored, a work leads nowhere that is not met.
LEMMA FirstEdgesDone ==
  ASSUME CrawlFits, RecordsFit, Run = 1, NEW D \in [crawl.visited -> Nat], FirstWalk(D), EdgesDone
  PROVE  FirstWalk(D)' /\ crawl'.visited = crawl.visited
<1> DEFINE w == crawl.work
           p == crawl.policy
           again == EdgeTargets(w)
           rows == ForwardRows(w)
<1>1. /\ crawl \in Walks /\ Is("edge") /\ UNCHANGED <<cached, edges>> /\ crawl.pending = <<>>
      /\ w \in crawl.visited /\ w \in Works /\ w \in crawl.accepted /\ p.branch \in Nat
      /\ crawl.visited \subseteq Works
  BY WalkTyped DEF EdgesDone, Keep, store, Is, CrawlFits, WalkFits
<1>2. D[w] = crawl.depth /\ EdgesFit(D)
  BY <1>1 DEF FirstWalk, Expanding, Is
<1>3. PICK all \in Seq(Works) :
        /\ p.forward \/ all = <<>>
        /\ \A e \in edges : e.source = w =>
             /\ [work |-> e.target, kind |-> e.kind] \in Leads(p.branch, w, all)
             /\ Met(crawl.visited, D, crawl.frontier, e.target, crawl.depth + 1)
        /\ \A y \in Leads(p.branch, w, all) :
             \/ y \in ToSet(crawl.pending)
             \/ \E e \in edges : e.source = w /\ e.target = y.work /\ e.kind = y.kind
  BY <1>2 DEF EdgesFit
<1> DEFINE known == Leads(p.branch, w, all)
<1>4. known \subseteq Entries /\ IsFiniteSet(known) /\ Cardinality(known) <= p.branch
      /\ Cardinality(known) \in Nat
  BY <1>1, LeadsTyped, FS_CardinalityType
<1>5. ToSet(crawl.pending) = {}
  BY <1>1 DEF ToSet
<1>6. again \in Seq(Works) /\ Len(again) = Cardinality(rows)
      /\ \A x : (\E n \in 1 .. Len(again) : again[n] = x) <=> (\E e \in rows : e.target = x)
  BY EdgeTargetsIs DEF CrawlFits, TablesFit
<1>7. \A e \in rows : e \in EdgeRows /\ e.run = 1 /\ e.source = w /\ e.kind = "forward" /\ e \in edges
  BY <1>1, FirstEdges DEF ForwardRows, Is, Walking
<1> HIDE DEF known, again, rows
<1>8. Len(again) <= p.branch
  <2> DEFINE f == [e \in rows |-> [work |-> e.target, kind |-> e.kind]]
  <2>1. \A e \in rows : [work |-> e.target, kind |-> e.kind] \in known
    BY <1>3, <1>7 DEF known
  <2>2. f \in [rows -> known]
    BY <2>1
  <2>3. \A x, y \in rows : f[x] = f[y] => x = y
    <3> SUFFICES ASSUME NEW x \in rows, NEW y \in rows, f[x] = f[y]
                 PROVE  x = y
      OBVIOUS
    <3>1. [work |-> x.target, kind |-> x.kind] = [work |-> y.target, kind |-> y.kind]
      OBVIOUS
    <3>2. x.target = y.target
      BY <3>1
    <3> QED
      BY <1>7, <3>2, EdgeRowsDiffer
  <2>4. f \in Injection(rows, known)
    <3> HIDE DEF f
    <3> QED
      BY <2>2, <2>3 DEF Injection, IsInjective
  <2> HIDE DEF f
  <2>5. IsFiniteSet(rows) /\ Cardinality(rows) <= Cardinality(known)
    BY <1>4, <2>4, FS_Injection
  <2>6. Cardinality(rows) \in Nat
    BY <2>5, FS_CardinalityType
  <2> QED
    BY <1>1, <1>4, <1>6, <2>5, <2>6
<1>9. \A x : (\E n \in 1 .. Len(again) : again[n] = x) <=> [work |-> x, kind |-> "forward"] \in known
  <2> TAKE x
  <2>1. ASSUME NEW e \in rows, e.target = x
        PROVE  [work |-> x, kind |-> "forward"] \in known
    BY <1>3, <1>7, <2>1 DEF known
  <2>2. ASSUME [work |-> x, kind |-> "forward"] \in known
        PROVE  \E e \in rows : e.target = x
    <3> DEFINE y == [work |-> x, kind |-> "forward"]
    <3>1. y.work = x /\ y.kind = "forward" /\ y \in known
      BY <2>2
    <3> HIDE DEF y
    <3>2. PICK e \in edges : e.source = w /\ e.target = y.work /\ e.kind = y.kind
      BY <1>3, <1>5, <3>1 DEF known
    <3>3. e \in rows
      BY <3>1, <3>2 DEF rows, ForwardRows
    <3> QED
      BY <3>1, <3>2, <3>3
  <2> QED
    BY <1>6, <2>1, <2>2
<1>10. \A x \in Reached(p, w) : \E old \in known : old.work = x
  <2>1. CASE p.forward
    <3>1. Reached(p, w) = {e.work : e \in Leads(p.branch, w, again)}
      BY <2>1 DEF Reached, again
    <3>2. \A e \in Leads(p.branch, w, again) : \E old \in known : old.work = e.work
      <4> TAKE e \in Leads(p.branch, w, again)
      <4>1. Recalls(again, p.branch, w, all)
        BY <1>6, <1>8, <1>9 DEF Recalls, known
      <4>2. p.branch \in Nat /\ w \in Works
        BY <1>1
      <4>3. \E old \in Leads(p.branch, w, all) : old.work = e.work
        BY <4>1, <4>2, SameTargets
      <4> QED
        BY <4>3 DEF known
    <3> QED
      BY <3>1, <3>2
  <2>2. CASE ~p.forward
    <3>1. all = <<>>
      BY <1>3, <2>2
    <3>2. Reached(p, w) = {e.work : e \in known}
      BY <2>2, <3>1 DEF Reached, known
    <3> QED
      BY <3>2
  <2> QED
    BY <2>1, <2>2
<1>11. \A x \in Reached(p, w) : Met(crawl.visited, D, crawl.frontier, x, D[w] + 1)
  <2> TAKE x \in Reached(p, w)
  <2>1. PICK old \in known : old.work = x
    BY <1>10
  <2>2. PICK e \in edges : e.source = w /\ e.target = old.work /\ e.kind = old.kind
    BY <1>3, <1>5, <2>1 DEF known
  <2> QED
    BY <1>2, <1>3, <2>1, <2>2
<1>12. w \in cached'
  BY <1>1 DEF RecordsFit, RunFits, Is
<1>13. /\ crawl'.visited = crawl.visited /\ crawl'.frontier = crawl.frontier
       /\ crawl'.depth = crawl.depth /\ crawl'.policy = crawl.policy
       /\ crawl'.work = crawl.work /\ crawl'.at = "loop"
  BY <1>1 DEF EdgesDone, Goto, Walks
<1> QED
  BY <1>1, <1>11, <1>12, <1>13, FirstStays DEF Is

LEMMA FirstAddEdge ==
  ASSUME CrawlFits, NEW D \in [crawl.visited -> Nat], FirstWalk(D), AddEdge
  PROVE  FirstWalk(D)' /\ crawl'.visited = crawl.visited
<1> DEFINE w == crawl.work
           p == crawl.policy
           next == Head(crawl.pending)
           row == [source |-> w, target |-> next.work, kind |-> next.kind, run |-> Run]
           f == crawl.frontier
           g == crawl'.frontier
<1>1. /\ crawl \in Walks /\ Is("edge") /\ UNCHANGED cached /\ crawl.pending # <<>>
      /\ crawl.pending \in Seq(Entries) /\ f \in Seq(Queued) /\ crawl.depth \in Nat
      /\ edges' = edges \cup {row}
  BY WalkTyped DEF AddEdge, Keep, Is
<1>2. /\ crawl'.visited = crawl.visited /\ crawl'.depth = crawl.depth
      /\ crawl'.policy = p /\ crawl'.work = w /\ crawl'.at = "edge"
      /\ crawl'.pending = Tail(crawl.pending)
      /\ g = IF next.work \in crawl.visited THEN f
             ELSE Append(f, [work |-> next.work, depth |-> crawl.depth + 1])
  BY <1>1 DEF AddEdge, Walks, Is
<1>3. /\ next \in Entries /\ ToSet(crawl.pending) = {next} \cup ToSet(Tail(crawl.pending))
      /\ ToSet(Tail(crawl.pending)) \subseteq ToSet(crawl.pending)
  <2>1. /\ Len(crawl.pending) \in Nat /\ Len(crawl.pending) >= 1
        /\ DOMAIN crawl.pending = 1 .. Len(crawl.pending) /\ next = crawl.pending[1]
        /\ next \in Entries
        /\ DOMAIN Tail(crawl.pending) = 1 .. Len(crawl.pending) - 1
        /\ \A i \in 1 .. Len(crawl.pending) - 1 : Tail(crawl.pending)[i] = crawl.pending[i + 1]
    BY <1>1, HeadTailProperties
  <2> HIDE DEF next
  <2>2. ASSUME NEW x \in ToSet(crawl.pending) PROVE x = next \/ x \in ToSet(Tail(crawl.pending))
    <3>1. PICK i \in 1 .. Len(crawl.pending) : x = crawl.pending[i]
      BY <2>1, <2>2 DEF ToSet
    <3>2. CASE i = 1
      BY <2>1, <3>1, <3>2
    <3>3. CASE i > 1
      <4>1. i - 1 \in 1 .. Len(crawl.pending) - 1 /\ Tail(crawl.pending)[i - 1] = x
        BY <2>1, <3>1, <3>3
      <4> QED
        BY <2>1, <4>1 DEF ToSet
    <3> QED
      BY <2>1, <3>2, <3>3
  <2>3. ASSUME NEW x \in ToSet(Tail(crawl.pending)) PROVE x \in ToSet(crawl.pending)
    <3>1. PICK i \in 1 .. Len(crawl.pending) - 1 : x = Tail(crawl.pending)[i]
      BY <2>1, <2>3 DEF ToSet
    <3>2. i + 1 \in 1 .. Len(crawl.pending) /\ x = crawl.pending[i + 1]
      BY <2>1, <3>1
    <3> QED
      BY <2>1, <3>2 DEF ToSet
  <2>4. next \in ToSet(crawl.pending)
    BY <2>1 DEF ToSet
  <2> QED
    BY <2>1, <2>2, <2>3, <2>4
<1>4. row.source = w /\ row.target = next.work /\ row.kind = next.kind
  OBVIOUS
<1>5. next = [work |-> next.work, kind |-> next.kind]
  BY <1>3 DEF Entries
<1> HIDE DEF next, row
<1>6. \A i \in DOMAIN f : i \in DOMAIN g /\ g[i] = f[i]
  BY <1>1, <1>2, AppendProperties
<1>7. \A x, d : Met(crawl.visited, D, f, x, d) => Met(crawl.visited, D, g, x, d)
  BY <1>6, MetStays
<1>8. Met(crawl.visited, D, g, next.work, crawl.depth + 1)
  <2>1. CASE next.work \in crawl.visited
    <3>1. D[next.work] \in Nat /\ D[next.work] <= crawl.depth
      BY <2>1 DEF FirstWalk
    <3> QED
      BY <1>1, <2>1, <3>1 DEF Met
  <2>2. CASE next.work \notin crawl.visited
    <3> DEFINE last == [work |-> next.work, depth |-> crawl.depth + 1]
    <3>1. g = Append(f, last) /\ last.work = next.work /\ last.depth = crawl.depth + 1
      BY <1>2, <2>2
    <3> HIDE DEF last
    <3>2. Len(f) + 1 \in DOMAIN Append(f, last) /\ Append(f, last)[Len(f) + 1] = last
      BY <1>1, AppendProperties
    <3>3. crawl.depth + 1 <= crawl.depth + 1
      BY <1>1
    <3> QED
      BY <3>1, <3>2, <3>3 DEF Met
  <2> QED
    BY <2>1, <2>2
<1>9. \A v : v # w => Reached(p, v)' = Reached(p, v)
  <2> TAKE v
  <2> HAVE v # w
  <2>1. ForwardRows(v)' = ForwardRows(v)
    BY <1>1, <1>4 DEF ForwardRows
  <2> QED
    BY <1>2, <2>1, ReachedStays
<1>10. EdgesFit(D)
  BY <1>1 DEF FirstWalk, Is
<1>11. EdgesFit(D)'
  <2>1. PICK all \in Seq(Works) :
          /\ p.forward \/ all = <<>>
          /\ \A e \in edges : e.source = w =>
               /\ [work |-> e.target, kind |-> e.kind] \in Leads(p.branch, w, all)
               /\ Met(crawl.visited, D, f, e.target, crawl.depth + 1)
          /\ \A y \in Leads(p.branch, w, all) :
               \/ y \in ToSet(crawl.pending)
               \/ \E e \in edges : e.source = w /\ e.target = y.work /\ e.kind = y.kind
          /\ ToSet(crawl.pending) \subseteq Leads(p.branch, w, all)
    BY <1>10 DEF EdgesFit
  <2> DEFINE known == Leads(p.branch, w, all)
  <2> HIDE DEF known
  <2>2. \A e \in edges' : e.source = w =>
          /\ [work |-> e.target, kind |-> e.kind] \in known
          /\ Met(crawl.visited, D, g, e.target, crawl.depth + 1)
    <3>1. \A e \in edges : e.source = w =>
          /\ [work |-> e.target, kind |-> e.kind] \in known
          /\ Met(crawl.visited, D, g, e.target, crawl.depth + 1)
      BY <1>7, <2>1 DEF known
    <3>2. [work |-> row.target, kind |-> row.kind] \in known
      BY <1>3, <1>4, <1>5, <2>1 DEF known
    <3>3. Met(crawl.visited, D, g, row.target, crawl.depth + 1)
      BY <1>4, <1>8
    <3> QED
      BY <1>1, <3>1, <3>2, <3>3
  <2>3. \A y \in known :
          \/ y \in ToSet(crawl'.pending)
          \/ \E e \in edges' : e.source = w /\ e.target = y.work /\ e.kind = y.kind
    <3> TAKE y \in known
    <3>1. CASE y = next
      BY <1>1, <1>4, <3>1
    <3>2. CASE y # next
      BY <1>1, <1>2, <1>3, <2>1, <3>2 DEF known
    <3> QED
      BY <3>1, <3>2
  <2>4. ToSet(crawl'.pending) \subseteq known
    BY <1>2, <1>3, <2>1 DEF known
  <2> HIDE DEF g
  <2> QED
    BY <1>2, <2>1, <2>2, <2>3, <2>4 DEF EdgesFit, known, g
<1>12. Expanding(w)' /\ Expanding(w) /\ \A v : Expanding(v)' <=> Expanding(v)
  BY <1>1, <1>2 DEF Expanding, Is
<1>13. \A v \in crawl.visited : GoesOn(p, v, D[v]) /\ ~Expanding(v)' =>
         \A x \in Reached(p, v)' : Met(crawl.visited, D, g, x, D[v] + 1)
  BY <1>7, <1>9, <1>12 DEF FirstWalk
<1>14. \A s \in Seeds(p) : Met(crawl.visited, D, g, s, 0)
  BY <1>7 DEF FirstWalk
<1>15. \A v \in crawl.visited : D[v] <= crawl.depth /\ (v \in cached' \/ Expanding(v)')
  BY <1>1, <1>12 DEF FirstWalk
<1>16. D[w] = crawl.depth
  BY <1>12 DEF FirstWalk
<1> HIDE DEF g, f
<1> QED
  BY <1>2, <1>11, <1>13, <1>14, <1>15, <1>16 DEF FirstWalk, Is, g

LEMMA FirstVisit ==
  ASSUME CrawlFits, RecordsFit, WalkLeveled, Run = 1,
         NEW D \in [crawl.visited -> Nat], FirstWalk(D), Visit
  PROVE  \E E \in [crawl'.visited -> Nat] : FirstWalk(E)'
<1> DEFINE f == crawl.frontier
           p == crawl.policy
           V == crawl.visited
           next == Head(f)
<1>1. /\ crawl \in Walks /\ f \in Seq(Queued) /\ f # <<>> /\ UNCHANGED <<cached, edges>>
      /\ crawl.at = "loop" /\ crawl.depth \in Nat /\ p.depth \in Nat /\ V \subseteq Works
  BY WalkTyped DEF Visit, WalkOver, Is, Keep, store
<1>2. next \in Queued /\ crawl.depth <= next.depth
  BY <1>1, LeveledTail, HeadTailProperties DEF WalkLeveled
<1>3. next.work \in Works /\ next.depth \in Nat
  BY <1>2 DEF Queued
<1>4. \A x, d : Met(V, D, f, x, d) =>
        Met(V, D, Tail(f), x, d) \/ (x = next.work /\ next.depth <= d)
  BY <1>1, MetTail
<1>5. \A v : ~Expanding(v)
  BY <1>1 DEF Expanding
<1>6. /\ \A v \in V : D[v] <= crawl.depth /\ v \in cached
      /\ \A s \in Seeds(p) : Met(V, D, f, s, 0)
      /\ \A v \in V : GoesOn(p, v, D[v]) => \A x \in Reached(p, v) : Met(V, D, f, x, D[v] + 1)
  BY <1>5 DEF FirstWalk
<1> HIDE DEF next
<1>7. CASE next.work \in V \/ next.depth > p.depth
  <2>1. crawl' = [crawl EXCEPT !.frontier = Tail(f)]
    BY <1>7 DEF Visit, next
  <2>2. /\ crawl'.at = "loop" /\ crawl'.frontier = Tail(f) /\ crawl'.visited = V
        /\ crawl'.depth = crawl.depth /\ crawl'.policy = p /\ crawl'.work = crawl.work
    BY <1>1, <2>1 DEF Walks
  <2>3. \A x, d : d \in Nat /\ d <= p.depth /\ Met(V, D, f, x, d) => Met(V, D, Tail(f), x, d)
    <3> TAKE x, d
    <3> HAVE d \in Nat /\ d <= p.depth /\ Met(V, D, f, x, d)
    <3>1. CASE Met(V, D, Tail(f), x, d)
      BY <3>1
    <3>2. CASE x = next.work /\ next.depth <= d
      <4>1. next.work \in V
        BY <1>1, <1>3, <1>7, <3>2
      <4>2. D[x] \in Nat /\ D[x] <= d
        BY <1>1, <1>2, <1>3, <1>6, <3>2, <4>1
      <4> QED
        BY <3>2, <4>1, <4>2 DEF Met
    <3> QED
      BY <1>4, <3>1, <3>2
  <2>4. \A s \in Seeds(p) : Met(V, D, Tail(f), s, 0)
    BY <1>1, <1>6, <2>3
  <2>5. \A v : Reached(p, v)' = Reached(p, v)
    BY <1>1, <2>2, ReachedStays DEF ForwardRows
  <2>6. \A v \in V : GoesOn(p, v, D[v]) =>
          \A x \in Reached(p, v) : Met(V, D, Tail(f), x, D[v] + 1)
    <3> TAKE v \in V
    <3> HAVE GoesOn(p, v, D[v])
    <3>1. D[v] \in Nat /\ D[v] + 1 \in Nat /\ D[v] + 1 <= p.depth
      BY <1>1 DEF GoesOn
    <3> QED
      BY <1>6, <2>3, <3>1
  <2>7. \A v : ~Expanding(v)'
    BY <2>2 DEF Expanding
  <2>8. \A v \in V : GoesOn(p, v, D[v]) =>
          \A x \in Reached(p, v)' : Met(V, D, Tail(f), x, D[v] + 1)
    BY <2>5, <2>6
  <2>9. \A v \in V : D[v] <= crawl.depth /\ v \in cached'
    BY <1>1, <1>6
  <2> HIDE DEF f, V
  <2>10. FirstWalk(D)'
    BY <2>2, <2>4, <2>7, <2>8, <2>9 DEF FirstWalk, Is
  <2> QED
    BY <2>2, <2>10 DEF V
<1>8. CASE next.work \notin V /\ ~(next.depth > p.depth)
  <2> DEFINE w == next.work
  <2>1. crawl' = [crawl EXCEPT !.frontier = Tail(f), !.visited = @ \cup {w},
                     !.work = w, !.depth = next.depth, !.fromCache = w \in cached,
                     !.at = IF w \in cached THEN "upsert" ELSE "load"]
    BY <1>8 DEF Visit, next
  <2>2. /\ crawl'.at \in {"upsert", "load"} /\ crawl'.frontier = Tail(f)
        /\ crawl'.visited = V \cup {w} /\ crawl'.depth = next.depth
        /\ crawl'.policy = p /\ crawl'.work = w
    BY <1>1, <2>1 DEF Walks
  <2>3. PICK E \in [V \cup {w} -> Nat] : E[w] = next.depth /\ \A v \in V : E[v] = D[v]
    <3> DEFINE F == [v \in V \cup {w} |-> IF v = w THEN next.depth ELSE D[v]]
    <3>1. F \in [V \cup {w} -> Nat] /\ F[w] = next.depth /\ \A v \in V : F[v] = D[v]
      BY <1>3, <1>8
    <3> QED
      BY <3>1
  <2>4. \A x, d : Met(V, D, f, x, d) => Met(V \cup {w}, E, Tail(f), x, d)
    <3> TAKE x, d
    <3> HAVE Met(V, D, f, x, d)
    <3>1. CASE Met(V, D, Tail(f), x, d)
      BY <2>3, <3>1, MetStays
    <3>2. CASE x = w /\ next.depth <= d
      BY <2>3, <3>2 DEF Met
    <3> QED
      BY <1>4, <3>1, <3>2
  <2>5. \A s \in Seeds(p) : Met(V \cup {w}, E, Tail(f), s, 0)
    BY <1>6, <2>4
  <2>6. \A v : Reached(p, v)' = Reached(p, v)
    BY <1>1, <2>2, ReachedStays DEF ForwardRows
  <2>7. \A v \in V : GoesOn(p, v, E[v]) =>
          \A x \in Reached(p, v)' : Met(V \cup {w}, E, Tail(f), x, E[v] + 1)
    BY <1>6, <2>3, <2>4, <2>6
  <2>8. \A v : Expanding(v)' <=> v = w
    BY <2>2 DEF Expanding
  <2>9. \A v \in V \cup {w} : E[v] <= next.depth /\ (v \in cached' \/ v = w)
    <3> TAKE v \in V \cup {w}
    <3>1. CASE v = w
      BY <1>3, <2>3, <3>1
    <3>2. CASE v \in V
      <4>1. E[v] = D[v] /\ D[v] \in Nat /\ D[v] <= crawl.depth /\ v \in cached
        BY <1>6, <2>3, <3>2
      <4> QED
        BY <1>1, <1>2, <1>3, <4>1
    <3> QED
      BY <3>1, <3>2
  <2>10. \A e \in edges' : e.source # w
    BY <1>1, <1>8, FirstEdges DEF Walking
  <2>11. \A v \in V \cup {w} : GoesOn(p, v, E[v]) /\ v # w =>
          \A x \in Reached(p, v)' : Met(V \cup {w}, E, Tail(f), x, E[v] + 1)
    BY <2>7
  <2> HIDE DEF f, V
  <2>12. FirstWalk(E)'
    BY <2>2, <2>3, <2>5, <2>8, <2>9, <2>10, <2>11 DEF FirstWalk, Is
  <2> QED
    BY <2>2, <2>3, <2>12
<1> QED
  BY <1>7, <1>8

\* A first walk that ends before max_nodes has left nothing out.
LEMMA FirstEnds ==
  ASSUME CrawlFits, NEW D \in [crawl.visited -> Nat], FirstWalk(D), StoreRanking,
         Cardinality(crawl.visited) < crawl.policy.nodes
  PROVE  Closed(crawl.policy, crawl.visited, D, {})' /\ crawl'.visited = crawl.visited
<1>1. /\ crawl.frontier = <<>> /\ crawl.at = "loop" /\ UNCHANGED <<cached, edges>>
      /\ crawl' = [crawl EXCEPT !.at = "finish"] /\ crawl \in Walks
      /\ IsFiniteSet(crawl.visited) /\ crawl.policy.nodes \in Nat
  <2>1. crawl.at = "loop" /\ WalkOver /\ UNCHANGED <<cached, edges>>
        /\ crawl' = [crawl EXCEPT !.at = "finish"]
    BY DEF StoreRanking, Goto, Is, Keep
  <2>2. crawl \in Walks /\ IsFiniteSet(crawl.visited) /\ crawl.policy.nodes \in Nat
    BY PolicyTyped DEF CrawlFits, WalkFits, Walks
  <2>3. Cardinality(crawl.visited) \in Nat
    BY <2>2, FS_CardinalityType
  <2>4. ~(Cardinality(crawl.visited) >= crawl.policy.nodes)
    BY <2>2, <2>3
  <2> QED
    BY <2>1, <2>2, <2>4 DEF WalkOver
<1>2. crawl'.visited = crawl.visited /\ crawl'.policy = crawl.policy
  BY <1>1 DEF Walks
<1>3. \A v : ~Expanding(v)
  BY <1>1 DEF Expanding
<1>4. \A x, d : Met(crawl.visited, D, crawl.frontier, x, d) => x \in crawl.visited /\ D[x] <= d
  BY <1>1 DEF Met
<1>5. \A s \in Seeds(crawl.policy) : s \in crawl.visited /\ D[s] = 0
  <2> TAKE s \in Seeds(crawl.policy)
  <2>1. s \in crawl.visited /\ D[s] <= 0
    BY <1>4 DEF FirstWalk
  <2>2. D[s] \in Nat
    BY <2>1
  <2> QED
    BY <2>1, <2>2
<1>6. \A v \in crawl.visited : GoesOn(crawl.policy, v, D[v]) =>
        \A x \in Reached(crawl.policy, v) : x \in crawl.visited /\ D[x] <= D[v] + 1
  BY <1>3, <1>4 DEF FirstWalk
<1>7. crawl.visited \subseteq cached
  BY <1>3 DEF FirstWalk
<1>8. \A v : Reached(crawl.policy, v)' = Reached(crawl.policy, v)
  BY <1>1, <1>2, ReachedStays DEF ForwardRows
<1>9. \A v \in crawl.visited \ {} : GoesOn(crawl.policy, v, D[v]) =>
        \A x \in Reached(crawl.policy, v)' : x \in crawl.visited /\ D[x] <= D[v] + 1
  BY <1>6, <1>8
<1> QED
  BY <1>1, <1>2, <1>5, <1>7, <1>9 DEF Closed

\* What is closed stays so while nothing but what is done gets edges.
LEMMA ClosedStays ==
  ASSUME NEW p, NEW V, NEW D, NEW Done, NEW More, Closed(p, V, D, Done),
         Done \subseteq More, cached \subseteq cached',
         \A v \in V \ More : ForwardRows(v)' = ForwardRows(v)
  PROVE  Closed(p, V, D, More)'
<1>1. \A v \in V \ More : Reached(p, v)' = Reached(p, v)
  BY ReachedStays
<1>2. V \subseteq cached' /\ \A s \in Seeds(p) : s \in V /\ D[s] = 0
  BY DEF Closed
<1>3. \A v \in V \ More : GoesOn(p, v, D[v]) =>
        \A x \in Reached(p, v)' : x \in V /\ D[x] <= D[v] + 1
  BY <1>1 DEF Closed
<1> QED
  BY <1>2, <1>3 DEF Closed

\* A run that completed and was not cut by max_nodes.
Uncut(i) == runs[i].completed /\ runs[i].visited < runs[i].policy.nodes

FirstFits ==
  Run = 1 =>
    /\ crawl.at \in Walking => \E D \in [crawl.visited -> Nat] : FirstWalk(D)
    /\ Is("finish") /\ Cardinality(crawl.visited) < crawl.policy.nodes =>
         \E D \in [crawl.visited -> Nat] : Closed(crawl.policy, crawl.visited, D, {})
    /\ crawl.at \in {"idle", "search", "start", "promote"} /\ Uncut(1) =>
         \E V \in SUBSET Works : \E D \in [V -> Nat] : Closed(runs[1].policy, V, D, {})

LEMMA FirstMoves ==
  ASSUME crawl'.at \in Walking, \E D \in [crawl'.visited -> Nat] : FirstWalk(D)'
  PROVE  FirstFits'
BY DEF FirstFits, Walking, Is

\* Between the runs nothing is added to the cache.
LEMMA FirstRests ==
  ASSUME FirstFits, UNCHANGED <<cached, edges>>, Run' = Run,
         crawl'.at \in {"idle", "search", "start", "promote"},
         Run = 1 => /\ runs'[1].policy = runs[1].policy
                    /\ \/ ~runs'[1].completed
                       \/ /\ crawl.at \in {"idle", "search", "start", "promote"}
                          /\ runs'[1].completed = runs[1].completed
                          /\ runs'[1].visited = runs[1].visited
  PROVE  FirstFits'
<1>1. CASE Run = 1 /\ runs'[1].completed /\ runs'[1].visited < runs'[1].policy.nodes
  <2>1. PICK V \in SUBSET Works : \E D \in [V -> Nat] : Closed(runs[1].policy, V, D, {})
    BY <1>1 DEF FirstFits, Uncut
  <2>2. PICK D \in [V -> Nat] : Closed(runs[1].policy, V, D, {})
    BY <2>1
  <2>3. \A v \in V \ {} : ForwardRows(v)' = ForwardRows(v)
    BY DEF ForwardRows
  <2>4. Closed(runs[1].policy, V, D, {})'
    BY <1>1, <2>2, <2>3, ClosedStays
  <2> QED
    BY <2>4 DEF FirstFits, Walking, Is
<1>2. CASE ~(Run = 1 /\ runs'[1].completed /\ runs'[1].visited < runs'[1].policy.nodes)
  BY <1>2 DEF FirstFits, Uncut, Walking, Is
<1> QED
  BY <1>1, <1>2

LEMMA FirstFinishes ==
  ASSUME CrawlFits, RecordsFit, FirstFits, FinishRun
  PROVE  FirstFits'
<1>1. /\ Is("finish") /\ UNCHANGED <<cached, edges>> /\ crawl \in Walks
      /\ runs' = [runs EXCEPT ![Run].completed = TRUE,
                      ![Run].visited = Cardinality(crawl.visited),
                      ![Run].accepted = Cardinality(crawl.accepted)]
      /\ runs \in Seq(RunRows)
  BY DEF FinishRun, Keep, CrawlFits, WalkFits, TablesFit
<1>2. crawl'.at = "promote" /\ crawl'.visited = crawl.visited
  BY <1>1 DEF FinishRun, Walks
<1>3. Run' = Run
  BY <1>1 DEF Run
<1>4. CASE Run = 1 /\ Uncut(1)'
  <2>1. runs[1] \in RunRows /\ DOMAIN runs = 1 .. 1 /\ runs[1].policy = crawl.policy
    BY <1>1, <1>4 DEF Run, RecordsFit, RunFits, Is
  <2>2. runs'[1].policy = crawl.policy /\ runs'[1].visited = Cardinality(crawl.visited)
    BY <1>1, <1>4, <2>1 DEF RunRows
  <2>3. Cardinality(crawl.visited) < crawl.policy.nodes
    BY <1>4, <2>2 DEF Uncut
  <2>4. PICK D \in [crawl.visited -> Nat] : Closed(crawl.policy, crawl.visited, D, {})
    BY <1>1, <1>4, <2>3 DEF FirstFits
  <2>5. PICK V : V = crawl.visited
    OBVIOUS
  <2>6. V \in SUBSET Works /\ D \in [V -> Nat] /\ Closed(crawl.policy, V, D, {})
    BY <1>1, <2>4, <2>5 DEF Walks
  <2>7. \A v \in V \ {} : ForwardRows(v)' = ForwardRows(v)
    BY <1>1 DEF ForwardRows
  <2>8. Closed(runs[1].policy, V, D, {})'
    BY <1>1, <2>2, <2>6, <2>7, ClosedStays
  <2> QED
    BY <1>2, <2>6, <2>8 DEF FirstFits, Walking, Is
<1>5. CASE ~(Run = 1 /\ Uncut(1)')
  BY <1>2, <1>3, <1>5 DEF FirstFits, Walking, Is
<1> QED
  BY <1>4, <1>5

LEMMA WalkStaysInRun ==
  ASSUME CrawlFits, Visit \/ GetWork \/ Upsert \/ Cite \/ AddEdge \/ EdgesDone
  PROVE  crawl.at \in Walking /\ crawl'.at \in Walking /\ Run' = Run /\ runs' = runs
<1>1. crawl \in Walks
  BY DEF CrawlFits, WalkFits
<1>2. CASE Visit
  BY <1>1, <1>2 DEF Visit, Walks, Walking, Is, Keep, store, Run
<1>3. CASE GetWork \/ EdgesDone
  BY <1>1, <1>3 DEF GetWork, EdgesDone, Goto, Walks, Walking, Is, Keep, store, Run
<1>4. CASE Upsert
  BY <1>1, <1>4 DEF Upsert, Goto, Walks, Walking, Is, Keep, Run
<1>5. CASE Cite
  BY <1>1, <1>5 DEF Cite, Walks, Walking, Is, Keep, store, Run
<1>6. CASE AddEdge
  BY <1>1, <1>6 DEF AddEdge, Walks, Walking, Is, Keep, Run
<1> QED
  BY <1>2, <1>3, <1>4, <1>5, <1>6

LEMMA FirstWalks ==
  ASSUME CrawlFits, RecordsFit, WalkLeveled, FirstFits,
         Visit \/ GetWork \/ Upsert \/ Cite \/ AddEdge \/ EdgesDone
  PROVE  FirstFits'
<1>1. crawl.at \in Walking /\ crawl'.at \in Walking /\ Run' = Run
  BY WalkStaysInRun
<1>2. CASE Run # 1
  BY <1>1, <1>2 DEF FirstFits
<1>3. CASE Run = 1
  <2>1. PICK D \in [crawl.visited -> Nat] : FirstWalk(D)
    BY <1>1, <1>3 DEF FirstFits
  <2>2. CASE Visit
    BY <1>1, <1>3, <2>1, <2>2, FirstVisit, FirstMoves
  <2>3. CASE GetWork \/ Upsert \/ Cite \/ AddEdge \/ EdgesDone
    <3>1. FirstWalk(D)' /\ crawl'.visited = crawl.visited
      BY <1>3, <2>1, <2>3, FirstGetWork, FirstUpsert, FirstCite, FirstAddEdge, FirstEdgesDone
    <3> QED
      BY <1>1, <3>1, FirstMoves
  <2> QED
    BY <2>2, <2>3
<1> QED
  BY <1>2, <1>3

LEMMA FirstStill ==
  ASSUME FirstFits, UNCHANGED <<cached, edges, runs, crawl>>
  PROVE  FirstFits'
<1>1. UNCHANGED <<cached, edges, runs, crawl>>
  OBVIOUS
<1>2. \A p, v : Reached(p, v)' = Reached(p, v)
  BY <1>1, ReachedStays DEF ForwardRows
<1>3. ASSUME NEW D PROVE FirstWalk(D)' = FirstWalk(D)
  BY <1>1, <1>2 DEF FirstWalk, Expanding, EdgesFit, Is
<1>4. ASSUME NEW V, NEW D
      PROVE  /\ Closed(runs[1].policy, V, D, {})' = Closed(runs[1].policy, V, D, {})
             /\ Closed(crawl.policy, crawl.visited, D, {})' =
                  Closed(crawl.policy, crawl.visited, D, {})
  BY <1>1, <1>2 DEF Closed
<1> QED
  BY <1>1, <1>3, <1>4 DEF FirstFits, Run, Is, Uncut

LEMMA FirstStep ==
  ASSUME CrawlFits, RecordsFit, WalkLeveled, StartFits, FirstFits, [CrawlNext]_crawlVars
  PROVE  FirstFits'
<1>0. crawl \in Walks /\ runs \in Seq(RunRows) /\ Run \in Nat
  BY DEF CrawlFits, WalkFits, TablesFit, Run
<1>1. CASE UNCHANGED <<cached, edges, runs, crawl>>
  BY <1>1, FirstStill
<1>2. CASE Discover \/ Search
  <2>1. UNCHANGED <<cached, edges, runs>>
    BY <1>2 DEF Discover, Search, Keep, store
  <2>2. crawl.at \in {"idle", "search"} /\ crawl'.at \in {"idle", "search", "start"}
    <3>1. CASE Discover
      BY <3>1 DEF Discover, Is, Resting
    <3>2. CASE Search
      BY <1>0, <3>2 DEF Search, Is, Walks
    <3> QED
      BY <1>2, <3>1, <3>2
  <2> QED
    BY <2>1, <2>2, FirstRests DEF Run
<1>3. CASE StartRun
  <2>1. crawl'.at = "loop" /\ Run' = Run + 1
    BY <1>0, <1>3, AppendProperties DEF StartRun, Goto, Walks, Run
  <2>2. CASE Run = 0
    BY <1>3, <2>1, <2>2, FirstStarts, FirstMoves DEF Walking
  <2>3. CASE Run # 0
    BY <1>0, <2>1, <2>3 DEF FirstFits
  <2> QED
    BY <2>2, <2>3
<1>4. CASE Visit \/ GetWork \/ Upsert \/ Cite \/ AddEdge \/ EdgesDone
  BY <1>4, FirstWalks
<1>5. CASE StoreRanking
  <2>1. crawl.at = "loop" /\ crawl'.at = "finish" /\ crawl'.policy = crawl.policy
        /\ crawl'.visited = crawl.visited /\ Run' = Run
    BY <1>0, <1>5 DEF StoreRanking, Is, Goto, Walks, Keep, Run
  <2>2. CASE Run = 1 /\ Cardinality(crawl.visited) < crawl.policy.nodes
    <3>1. PICK D \in [crawl.visited -> Nat] : FirstWalk(D)
      BY <2>1, <2>2 DEF FirstFits, Walking
    <3>2. Closed(crawl.policy, crawl.visited, D, {})'
      BY <1>5, <2>2, <3>1, FirstEnds
    <3> QED
      BY <2>1, <3>2 DEF FirstFits, Walking, Is
  <2>3. CASE ~(Run = 1 /\ Cardinality(crawl.visited) < crawl.policy.nodes)
    BY <2>1, <2>3 DEF FirstFits, Walking, Is
  <2> QED
    BY <2>2, <2>3
<1>6. CASE FinishRun
  BY <1>6, FirstFinishes
<1>7. CASE PromoteWork
  <2>1. UNCHANGED <<cached, edges, runs>> /\ crawl.at = "promote" /\ crawl'.at = "promote"
    BY <1>0, <1>7 DEF PromoteWork, store, Is, Walks
  <2> QED
    BY <2>1, FirstRests DEF Run
<1>8. CASE MineGaps
  <2>1. /\ UNCHANGED <<cached, edges>> /\ crawl.at = "promote" /\ crawl'.at = "idle"
        /\ runs' = [runs EXCEPT ![Run].discovered = rankings[Run] # <<>>]
    BY <1>8 DEF MineGaps, Keep, Is, Resting
  <2>2. Run' = Run
    BY <1>0, <2>1 DEF Run
  <2>3. Run = 1 => /\ runs'[1].policy = runs[1].policy
                   /\ runs'[1].completed = runs[1].completed
                   /\ runs'[1].visited = runs[1].visited
    <3> HAVE Run = 1
    <3>1. runs[1] \in RunRows /\ DOMAIN runs = 1 .. 1
      BY <1>0 DEF Run
    <3> QED
      BY <2>1, <3>1 DEF RunRows
  <2> QED
    BY <2>1, <2>2, <2>3, FirstRests
<1>9. CASE (Busy \/ Abort) /\ crawl' = Resting
  <2>1. UNCHANGED <<cached, edges, runs>> /\ crawl'.at = "idle" /\ crawl.at \in Stages
    BY <1>0, <1>9 DEF Busy, Abort, Keep, store, Resting, Walks
  <2>2. CASE crawl.at \in {"idle", "search", "start", "promote"}
    BY <2>1, <2>2, FirstRests DEF Run
  <2>3. CASE crawl.at \notin {"idle", "search", "start", "promote"}
    <3>1. Run = 1 => ~runs'[1].completed
      BY <2>1, <2>3 DEF RecordsFit, RunFits, Is
    <3> QED
      BY <2>1, <3>1, FirstRests DEF Run
  <2> QED
    BY <2>2, <2>3
<1>10. \/ UNCHANGED <<cached, edges, runs, crawl>>
       \/ (Busy \/ Abort) /\ crawl' = Resting
       \/ Discover \/ Step
  <2>1. CASE Busy
    <3>1. cached' = cached /\ edges' = edges /\ runs' = runs
      BY <2>1 DEF Busy, Keep, store
    <3>2. crawl' = Resting \/ crawl' = crawl
      BY <2>1 DEF Busy
    <3> QED
      BY <2>1, <3>1, <3>2
  <2>2. CASE Abort
    BY <2>2 DEF Abort
  <2>3. CASE UNCHANGED crawlVars
    <3>1. cached' = cached /\ edges' = edges /\ runs' = runs /\ crawl' = crawl
      BY <2>3 DEF crawlVars, store
    <3> QED
      BY <3>1
  <2> QED
    BY <2>1, <2>2, <2>3 DEF CrawlNext
<1> QED
  BY <1>1, <1>2, <1>3, <1>4, <1>5, <1>6, <1>7, <1>8, <1>9, <1>10 DEF Step

-----------------------------------------------------------------------------
(***************************************************************************)
(* Discovery: the second crawl stays within what the first one left.       *)
(***************************************************************************)
Within(V, D, x, depth) == x \in V /\ D[x] <= depth

\* The second walk stays within the works of the first and meets none of them
\* at a smaller depth than the first did.
SecondWalk(V, D) ==
  /\ crawl.asked = {}
  /\ crawl.at \notin {"load", "cite"}
  /\ \A i \in DOMAIN crawl.frontier :
       Within(V, D, crawl.frontier[i].work, crawl.frontier[i].depth)
  /\ crawl.at \in {"upsert", "edge"} =>
       Within(V, D, crawl.work, crawl.depth) /\ crawl.depth <= crawl.policy.depth
  /\ Is("upsert") => crawl.fromCache
  /\ Is("edge") => \A y \in ToSet(crawl.pending) : Within(V, D, y.work, crawl.depth + 1)

Repeats == Run = 2 /\ Uncut(1) /\ runs[1].policy = runs[2].policy

SecondFits ==
  Repeats =>
    /\ crawl.at \in Walking => \E V \in SUBSET Works : \E D \in [V -> Nat] :
         Closed(crawl.policy, V, D, crawl.accepted) /\ SecondWalk(V, D)
    /\ crawl.at \in {"finish", "promote"} => crawl.asked = {}

LEMMA SecondImplies ==
  ASSUME CrawlFits, SecondFits
  PROVE  RepeatIsLocal
<1>1. crawl.at \in Stages /\ (crawl.at = "idle" => crawl = Resting)
  BY DEF CrawlFits, WalkFits, Walks, Is
<1>2. ASSUME Repeats, crawl.at \notin {"search", "start"} PROVE crawl.asked = {}
  <2>1. CASE crawl.at = "idle"
    BY <1>1, <2>1 DEF Resting
  <2>2. CASE crawl.at \in Walking
    BY <1>2, <2>2 DEF SecondFits, SecondWalk
  <2>3. CASE crawl.at \in {"finish", "promote"}
    BY <1>2, <2>3 DEF SecondFits
  <2> QED
    BY <1>1, <1>2, <2>1, <2>2, <2>3 DEF Stages, Walking
<1> QED
  BY <1>2 DEF RepeatIsLocal, Repeats, Uncut, Is

LEMMA RunsStay ==
  ASSUME UNCHANGED runs
  PROVE  Run' = Run /\ Uncut(1)' = Uncut(1) /\ Repeats' = Repeats
BY DEF Run, Uncut, Repeats

LEMMA SecondMoves ==
  ASSUME UNCHANGED runs, crawl'.at \in Walking, NEW V \in SUBSET Works, NEW D \in [V -> Nat],
         Closed(crawl.policy, V, D, crawl.accepted)', SecondWalk(V, D)'
  PROVE  SecondFits'
BY DEF SecondFits, Walking

LEMMA SecondVisit ==
  ASSUME CrawlFits, SecondFits, Repeats, Visit
  PROVE  SecondFits'
<1>0. crawl \in Walks /\ crawl.at = "loop" /\ crawl.policy.depth \in Nat /\ crawl.depth \in Nat
      /\ crawl.frontier \in Seq(Queued) /\ crawl.frontier # <<>>
      /\ UNCHANGED <<cached, edges, runs>>
  BY WalkTyped DEF Visit, Is, WalkOver, Keep, store
<1>1. PICK V \in SUBSET Works : \E D \in [V -> Nat] :
        Closed(crawl.policy, V, D, crawl.accepted) /\ SecondWalk(V, D)
  BY <1>0 DEF SecondFits, Walking
<1>2. PICK D \in [V -> Nat] : Closed(crawl.policy, V, D, crawl.accepted) /\ SecondWalk(V, D)
  BY <1>1
<1> DEFINE f == crawl.frontier
           next == Head(f)
<1>3. /\ next \in Queued /\ Within(V, D, next.work, next.depth)
      /\ \A i \in DOMAIN Tail(f) : Within(V, D, Tail(f)[i].work, Tail(f)[i].depth)
  <2>1. /\ Len(f) \in Nat /\ Len(f) >= 1 /\ DOMAIN f = 1 .. Len(f) /\ next = f[1]
        /\ next \in Queued /\ DOMAIN Tail(f) = 1 .. Len(f) - 1
        /\ \A i \in 1 .. Len(f) - 1 : Tail(f)[i] = f[i + 1]
    BY <1>0, HeadTailProperties
  <2>2. \A i \in 1 .. Len(f) : Within(V, D, f[i].work, f[i].depth)
    BY <1>2, <2>1 DEF SecondWalk
  <2>3. \A i \in 1 .. Len(f) - 1 : i + 1 \in 1 .. Len(f)
    BY <2>1
  <2> QED
    BY <2>1, <2>2, <2>3
<1>4. next.work \in V /\ next.work \in cached /\ next.depth \in Nat
  BY <1>2, <1>3 DEF Within, Closed, Queued
<1> HIDE DEF next
<1>5. crawl'.accepted = crawl.accepted /\ crawl'.policy = crawl.policy /\ crawl'.asked = {}
      /\ crawl'.frontier = Tail(f) /\ crawl'.at \in {"loop", "upsert"}
      /\ (crawl'.at = "upsert" => /\ crawl'.work = next.work /\ crawl'.depth = next.depth
                                  /\ crawl'.fromCache /\ ~(next.depth > crawl.policy.depth))
  <2>0. crawl.asked = {}
    BY <1>2 DEF SecondWalk
  <2>1. CASE next.work \in crawl.visited \/ next.depth > crawl.policy.depth
    <3>1. crawl' = [crawl EXCEPT !.frontier = Tail(f)]
      BY <2>1 DEF Visit, next
    <3> QED
      BY <1>0, <2>0, <3>1 DEF Walks
  <2>2. CASE ~(next.work \in crawl.visited \/ next.depth > crawl.policy.depth)
    <3>1. crawl' = [crawl EXCEPT !.frontier = Tail(f), !.visited = @ \cup {next.work},
                       !.work = next.work, !.depth = next.depth,
                       !.fromCache = next.work \in cached,
                       !.at = IF next.work \in cached THEN "upsert" ELSE "load"]
      BY <2>2 DEF Visit, next
    <3> QED
      BY <1>0, <1>4, <2>0, <2>2, <3>1 DEF Walks
  <2> QED
    BY <2>1, <2>2
<1>6. Closed(crawl.policy, V, D, crawl.accepted)'
  BY <1>0, <1>2, <1>5, ClosedStays DEF ForwardRows
<1>7. SecondWalk(V, D)'
  <2>1. crawl'.at \in {"upsert", "edge"} =>
          Within(V, D, crawl'.work, crawl'.depth) /\ crawl'.depth <= crawl'.policy.depth
    BY <1>0, <1>3, <1>4, <1>5
  <2> QED
    BY <1>3, <1>5, <2>1 DEF SecondWalk, Is
<1> QED
  BY <1>0, <1>5, <1>6, <1>7, SecondMoves DEF Walking

LEMMA SecondUpsert ==
  ASSUME CrawlFits, SecondFits, Repeats, Upsert
  PROVE  SecondFits'
<1>0. /\ crawl \in Walks /\ crawl.at = "upsert" /\ crawl.policy.depth \in Nat /\ crawl.depth \in Nat
      /\ crawl.policy.branch \in Nat /\ crawl.work \in Works /\ crawl.work \notin crawl.accepted
      /\ UNCHANGED <<edges, runs>> /\ cached' = cached \cup {crawl.work}
  BY WalkTyped DEF Upsert, Is, Keep, CrawlFits, WalkFits
<1>1. PICK V \in SUBSET Works : \E D \in [V -> Nat] :
        Closed(crawl.policy, V, D, crawl.accepted) /\ SecondWalk(V, D)
  BY <1>0 DEF SecondFits, Walking
<1>2. PICK D \in [V -> Nat] : Closed(crawl.policy, V, D, crawl.accepted) /\ SecondWalk(V, D)
  BY <1>1
<1>3. /\ crawl.asked = {} /\ crawl.fromCache /\ Within(V, D, crawl.work, crawl.depth)
      /\ crawl.depth <= crawl.policy.depth
      /\ \A i \in DOMAIN crawl.frontier :
           Within(V, D, crawl.frontier[i].work, crawl.frontier[i].depth)
  BY <1>0, <1>2 DEF SecondWalk, Is
<1>4. ~AsksCitations
  BY <1>3 DEF AsksCitations
<1>5. /\ crawl'.policy = crawl.policy /\ crawl'.asked = {} /\ crawl'.frontier = crawl.frontier
      /\ crawl'.work = crawl.work /\ crawl'.depth = crawl.depth
      /\ crawl'.at \in {"loop", "edge"} /\ crawl.accepted \subseteq crawl'.accepted
  <2>1. CASE crawl.policy.open /\ crawl.work \notin OpenAccess
    BY <1>0, <1>3, <2>1 DEF Upsert, Goto, Walks
  <2>2. CASE ~(crawl.policy.open /\ crawl.work \notin OpenAccess) /\ crawl.depth = crawl.policy.depth
    <3>1. crawl' = [crawl EXCEPT !.at = "loop", !.accepted = crawl.accepted \cup {crawl.work}]
      BY <2>2 DEF Upsert
    <3> QED
      BY <1>0, <1>3, <3>1 DEF Walks
  <2>3. CASE ~(crawl.policy.open /\ crawl.work \notin OpenAccess) /\ crawl.depth # crawl.policy.depth
    <3> DEFINE pending == NextWorkEdges(crawl.work,
                            IF crawl.policy.forward THEN EdgeTargets(crawl.work) ELSE <<>>)
    <3>1. crawl' = [crawl EXCEPT !.at = "edge", !.accepted = crawl.accepted \cup {crawl.work},
                                 !.pending = pending]
      BY <1>4, <2>3 DEF Upsert
    <3> HIDE DEF pending
    <3> QED
      BY <1>0, <1>3, <3>1 DEF Walks
  <2> QED
    BY <2>1, <2>2, <2>3
<1>6. crawl'.at = "edge" =>
        /\ GoesOn(crawl.policy, crawl.work, D[crawl.work])
        /\ crawl'.pending = NextWorkEdges(crawl.work,
               IF crawl.policy.forward THEN EdgeTargets(crawl.work) ELSE <<>>)
  <2> HAVE crawl'.at = "edge"
  <2>1. ~(crawl.policy.open /\ crawl.work \notin OpenAccess)
    BY <1>0 DEF Upsert, Goto, Walks
  <2>2. crawl.depth # crawl.policy.depth
    BY <1>0, <2>1 DEF Upsert, Walks
  <2>3. D[crawl.work] \in Nat /\ D[crawl.work] <= crawl.depth
    BY <1>3 DEF Within
  <2>4. D[crawl.work] < crawl.policy.depth
    BY <1>0, <1>3, <2>2, <2>3
  <2>5. crawl'.pending = NextWorkEdges(crawl.work,
               IF crawl.policy.forward THEN EdgeTargets(crawl.work) ELSE <<>>)
    BY <1>0, <1>4, <2>1, <2>2 DEF Upsert, Walks
  <2> QED
    BY <2>1, <2>4, <2>5 DEF GoesOn
<1>7. crawl'.at = "edge" => \A y \in ToSet(crawl'.pending) : Within(V, D, y.work, crawl.depth + 1)
  <2> HAVE crawl'.at = "edge"
  <2> DEFINE forward == IF crawl.policy.forward THEN EdgeTargets(crawl.work) ELSE <<>>
  <2>1. forward \in Seq(Works)
    <3>1. EdgeTargets(crawl.work) \in Seq(Works)
      BY EdgeTargetsIs DEF CrawlFits, TablesFit
    <3> QED
      BY <3>1
  <2>2. crawl'.pending = NextWorkEdges(crawl.work, forward)
    BY <1>6
  <2>3. Reached(crawl.policy, crawl.work) =
          {y.work : y \in Leads(crawl.policy.branch, crawl.work, forward)}
    BY DEF Reached
  <2> HIDE DEF forward
  <2>4. ToSet(crawl'.pending) = Leads(crawl.policy.branch, crawl.work, forward)
    BY <1>0, <2>1, <2>2, NextWorkEdgesIs DEF Leads
  <2>5. crawl.work \in V \ crawl.accepted
    BY <1>0, <1>3 DEF Within
  <2>6. \A x \in Reached(crawl.policy, crawl.work) : x \in V /\ D[x] <= D[crawl.work] + 1
    BY <1>2, <1>6, <2>5 DEF Closed
  <2>7. ASSUME NEW y \in ToSet(crawl'.pending) PROVE Within(V, D, y.work, crawl.depth + 1)
    <3>1. y.work \in V /\ D[y.work] <= D[crawl.work] + 1
      BY <2>3, <2>4, <2>6
    <3>2. D[crawl.work] \in Nat /\ D[crawl.work] <= crawl.depth /\ D[y.work] \in Nat
      BY <1>3, <3>1 DEF Within
    <3> QED
      BY <1>0, <3>1, <3>2 DEF Within
  <2> QED
    BY <2>7
<1>8. Closed(crawl.policy, V, D, crawl.accepted)'
  BY <1>0, <1>2, <1>5, ClosedStays DEF ForwardRows
<1>9. SecondWalk(V, D)'
  BY <1>3, <1>5, <1>7 DEF SecondWalk, Is
<1> QED
  BY <1>0, <1>5, <1>8, <1>9, SecondMoves DEF Walking

LEMMA SecondAddEdge ==
  ASSUME CrawlFits, SecondFits, Repeats, AddEdge
  PROVE  SecondFits'
<1> DEFINE f == crawl.frontier
           next == Head(crawl.pending)
           row == [source |-> crawl.work, target |-> next.work, kind |-> next.kind, run |-> Run]
<1>0. /\ crawl \in Walks /\ crawl.at = "edge" /\ crawl.depth \in Nat
      /\ crawl.pending \in Seq(Entries) /\ crawl.pending # <<>> /\ f \in Seq(Queued)
      /\ UNCHANGED <<cached, runs>> /\ crawl.work \in crawl.accepted /\ edges' = edges \cup {row}
  BY WalkTyped DEF AddEdge, Is, Keep, CrawlFits, WalkFits
<1>1. PICK V \in SUBSET Works : \E D \in [V -> Nat] :
        Closed(crawl.policy, V, D, crawl.accepted) /\ SecondWalk(V, D)
  BY <1>0 DEF SecondFits, Walking
<1>2. PICK D \in [V -> Nat] : Closed(crawl.policy, V, D, crawl.accepted) /\ SecondWalk(V, D)
  BY <1>1
<1>3. /\ crawl'.policy = crawl.policy /\ crawl'.asked = {} /\ crawl'.accepted = crawl.accepted
      /\ crawl'.work = crawl.work /\ crawl'.depth = crawl.depth /\ crawl'.at = "edge"
      /\ crawl'.pending = Tail(crawl.pending)
      /\ crawl'.frontier = IF next.work \in crawl.visited THEN f
                           ELSE Append(f, [work |-> next.work, depth |-> crawl.depth + 1])
  <2>1. crawl.asked = {}
    BY <1>2 DEF SecondWalk
  <2> QED
    BY <1>0, <2>1 DEF AddEdge, Walks, Is
<1>4. /\ next \in ToSet(crawl.pending)
      /\ ToSet(Tail(crawl.pending)) \subseteq ToSet(crawl.pending)
  <2>1. /\ Len(crawl.pending) \in Nat /\ Len(crawl.pending) >= 1
        /\ DOMAIN crawl.pending = 1 .. Len(crawl.pending) /\ next = crawl.pending[1]
        /\ DOMAIN Tail(crawl.pending) = 1 .. Len(crawl.pending) - 1
        /\ \A i \in 1 .. Len(crawl.pending) - 1 : Tail(crawl.pending)[i] = crawl.pending[i + 1]
    BY <1>0, HeadTailProperties
  <2>2. ASSUME NEW x \in ToSet(Tail(crawl.pending)) PROVE x \in ToSet(crawl.pending)
    <3>1. PICK i \in 1 .. Len(crawl.pending) - 1 : x = Tail(crawl.pending)[i]
      BY <2>1, <2>2 DEF ToSet
    <3>2. i + 1 \in 1 .. Len(crawl.pending) /\ x = crawl.pending[i + 1]
      BY <2>1, <3>1
    <3> QED
      BY <2>1, <3>2 DEF ToSet
  <2>3. 1 \in DOMAIN crawl.pending
    BY <2>1
  <2> QED
    BY <2>1, <2>2, <2>3 DEF ToSet
<1>5. /\ \A y \in ToSet(crawl.pending) : Within(V, D, y.work, crawl.depth + 1)
      /\ \A i \in DOMAIN f : Within(V, D, f[i].work, f[i].depth)
      /\ Within(V, D, crawl.work, crawl.depth) /\ crawl.depth <= crawl.policy.depth
  BY <1>0, <1>2 DEF SecondWalk, Is
<1>6. row.source = crawl.work
  OBVIOUS
<1> HIDE DEF next, row
<1>7. \A i \in DOMAIN crawl'.frontier :
        Within(V, D, crawl'.frontier[i].work, crawl'.frontier[i].depth)
  <2>1. CASE next.work \in crawl.visited
    BY <1>3, <1>5, <2>1
  <2>2. CASE next.work \notin crawl.visited
    <3> DEFINE last == [work |-> next.work, depth |-> crawl.depth + 1]
    <3>1. crawl'.frontier = Append(f, last) /\ last.work = next.work /\ last.depth = crawl.depth + 1
      BY <1>3, <2>2
    <3>2. Within(V, D, last.work, last.depth)
      BY <1>4, <1>5, <3>1
    <3> HIDE DEF last
    <3>3. /\ DOMAIN Append(f, last) = 1 .. Len(f) + 1 /\ DOMAIN f = 1 .. Len(f) /\ Len(f) \in Nat
          /\ \A i \in 1 .. Len(f) : Append(f, last)[i] = f[i]
          /\ Append(f, last)[Len(f) + 1] = last
      BY <1>0, AppendProperties
    <3>4. ASSUME NEW i \in 1 .. Len(f) + 1
          PROVE  Within(V, D, Append(f, last)[i].work, Append(f, last)[i].depth)
      <4>1. CASE i \in 1 .. Len(f)
        BY <1>5, <3>3, <4>1
      <4>2. CASE i = Len(f) + 1
        BY <3>2, <3>3, <4>2
      <4> QED
        BY <3>3, <4>1, <4>2
    <3> QED
      BY <3>1, <3>3, <3>4
  <2> QED
    BY <2>1, <2>2
<1>8. \A v \in V \ crawl.accepted : ForwardRows(v)' = ForwardRows(v)
  <2> TAKE v \in V \ crawl.accepted
  <2>1. v # row.source
    BY <1>0, <1>6
  <2> QED
    BY <1>0, <2>1 DEF ForwardRows
<1>9. Closed(crawl.policy, V, D, crawl.accepted)'
  BY <1>0, <1>2, <1>3, <1>8, ClosedStays
<1>10. SecondWalk(V, D)'
  <2>1. \A y \in ToSet(crawl'.pending) : Within(V, D, y.work, crawl'.depth + 1)
    BY <1>3, <1>4, <1>5
  <2> QED
    BY <1>3, <1>5, <1>7, <2>1 DEF SecondWalk, Is
<1> QED
  BY <1>0, <1>3, <1>9, <1>10, SecondMoves DEF Walking

LEMMA SecondEdgesDone ==
  ASSUME CrawlFits, SecondFits, Repeats, EdgesDone
  PROVE  SecondFits'
<1>0. /\ crawl \in Walks /\ crawl.at = "edge" /\ UNCHANGED <<cached, edges, runs>>
      /\ crawl' = [crawl EXCEPT !.at = "loop"]
  BY WalkTyped DEF EdgesDone, Is, Keep, store, Goto
<1>1. PICK V \in SUBSET Works : \E D \in [V -> Nat] :
        Closed(crawl.policy, V, D, crawl.accepted) /\ SecondWalk(V, D)
  BY <1>0 DEF SecondFits, Walking
<1>2. PICK D \in [V -> Nat] : Closed(crawl.policy, V, D, crawl.accepted) /\ SecondWalk(V, D)
  BY <1>1
<1>3. /\ crawl'.at = "loop" /\ crawl'.policy = crawl.policy /\ crawl'.accepted = crawl.accepted
      /\ crawl'.asked = crawl.asked /\ crawl'.frontier = crawl.frontier
  BY <1>0 DEF Walks
<1>4. Closed(crawl.policy, V, D, crawl.accepted)'
  BY <1>0, <1>2, <1>3, ClosedStays DEF ForwardRows
<1>5. SecondWalk(V, D)'
  BY <1>2, <1>3 DEF SecondWalk, Is
<1> QED
  BY <1>0, <1>3, <1>4, <1>5, SecondMoves DEF Walking

LEMMA SecondStarts ==
  ASSUME CrawlFits, StartFits, FirstFits, StartRun
  PROVE  SecondFits'
<1> DEFINE row == [policy |-> crawl.policy, completed |-> FALSE, visited |-> 0,
                   accepted |-> 0, discovered |-> FALSE]
<1>0. /\ crawl \in Walks /\ crawl.at = "start" /\ crawl.asked = {} /\ crawl.policy \in Policies
      /\ crawl' = [crawl EXCEPT !.at = "loop"] /\ UNCHANGED <<cached, edges>>
      /\ runs' = Append(runs, row) /\ runs \in Seq(RunRows) /\ row \in RunRows
  <2>1. /\ crawl \in Walks /\ crawl.at = "start" /\ crawl.asked = {} /\ crawl.policy \in Policies
        /\ runs \in Seq(RunRows)
    BY DEF StartRun, Is, CrawlFits, WalkFits, TablesFit
  <2>2. row \in RunRows
    BY <2>1 DEF RunRows
  <2>3. crawl' = [crawl EXCEPT !.at = "loop"] /\ runs' = Append(runs, row)
    BY DEF StartRun, Goto
  <2>4. UNCHANGED <<cached, edges>>
    BY DEF StartRun, Keep
  <2> QED
    BY <2>1, <2>2, <2>3, <2>4
<1>1. row.policy = crawl.policy
  OBVIOUS
<1> HIDE DEF row
<1>2. /\ Run' = Run + 1 /\ Run \in Nat
      /\ \A i \in 1 .. Run : runs'[i] = runs[i]
      /\ runs'[Run + 1] = row
  BY <1>0, AppendProperties DEF Run
<1>3. /\ crawl'.at = "loop" /\ crawl'.policy = crawl.policy /\ crawl'.accepted = crawl.accepted
      /\ crawl'.asked = {} /\ crawl'.frontier = crawl.frontier
  BY <1>0 DEF Walks
<1>4. CASE Repeats'
  <2>1. Run = 1 /\ runs'[1] = runs[1] /\ runs'[2].policy = crawl.policy
    <3>1. Run = 1
      BY <1>2, <1>4 DEF Repeats
    <3> QED
      BY <1>1, <1>2, <3>1
  <2>2. Uncut(1) /\ runs[1].policy = crawl.policy
    BY <1>4, <2>1 DEF Repeats, Uncut
  <2>3. PICK V \in SUBSET Works : \E D \in [V -> Nat] : Closed(crawl.policy, V, D, {})
    BY <1>0, <2>1, <2>2 DEF FirstFits
  <2>4. PICK D \in [V -> Nat] : Closed(crawl.policy, V, D, {})
    BY <2>3
  <2>5. Closed(crawl.policy, V, D, crawl.accepted)'
    BY <1>0, <1>3, <2>4, ClosedStays DEF ForwardRows
  <2>6. \A i \in DOMAIN crawl.frontier :
          Within(V, D, crawl.frontier[i].work, crawl.frontier[i].depth)
    <3>1. ASSUME NEW i \in DOMAIN crawl.frontier
          PROVE  Within(V, D, crawl.frontier[i].work, crawl.frontier[i].depth)
      <4>1. crawl.frontier[i].work \in Seeds(crawl.policy) /\ crawl.frontier[i].depth = 0
        BY <1>0, SeedsWait DEF Is
      <4>2. crawl.frontier[i].work \in V /\ D[crawl.frontier[i].work] = 0
        BY <2>4, <4>1 DEF Closed
      <4> QED
        BY <4>1, <4>2 DEF Within
    <3> QED
      BY <3>1
  <2>7. SecondWalk(V, D)'
    BY <1>3, <2>6 DEF SecondWalk, Is
  <2> QED
    BY <1>3, <2>5, <2>7 DEF SecondFits, Walking
<1>5. CASE ~Repeats'
  BY <1>5 DEF SecondFits
<1> QED
  BY <1>4, <1>5

\* Steps outside the walk.
LEMMA SecondRests ==
  ASSUME SecondFits, Repeats' => Repeats, crawl'.at \notin Walking,
         crawl'.at \in {"finish", "promote"} =>
           crawl.at \in Walking \cup {"finish", "promote"} /\ crawl'.asked = crawl.asked
  PROVE  SecondFits'
<1>1. Repeats /\ crawl.at \in Walking \cup {"finish", "promote"} => crawl.asked = {}
  BY DEF SecondFits, SecondWalk
<1> QED
  BY <1>1 DEF SecondFits

\* What is written into the row of a run leaves its policy.
LEMMA RepeatsBefore ==
  ASSUME CrawlFits, FinishRun \/ MineGaps, Repeats'
  PROVE  Repeats
<1>0. runs \in Seq(RunRows) /\ crawl.at \in {"finish", "promote"}
  BY DEF CrawlFits, TablesFit, FinishRun, MineGaps, Is
<1>1. /\ Run' = Run
      /\ \A i \in DOMAIN runs : i # Run => runs'[i] = runs[i]
      /\ Run \in DOMAIN runs => runs'[Run].policy = runs[Run].policy
  <2>1. \A i \in DOMAIN runs : runs[i] \in RunRows
    BY <1>0
  <2>2. CASE FinishRun
    <3>1. runs' = [runs EXCEPT ![Run].completed = TRUE,
                    ![Run].visited = Cardinality(crawl.visited),
                    ![Run].accepted = Cardinality(crawl.accepted)]
      BY <2>2 DEF FinishRun
    <3> QED
      BY <1>0, <2>1, <3>1 DEF Run, RunRows
  <2>3. CASE MineGaps
    <3>1. runs' = [runs EXCEPT ![Run].discovered = rankings[Run] # <<>>]
      BY <2>3 DEF MineGaps
    <3> QED
      BY <1>0, <2>1, <3>1 DEF Run, RunRows
  <2> QED
    BY <2>2, <2>3
<1>2. Run = 2 /\ DOMAIN runs = 1 .. 2
  <2>1. Run = 2
    BY <1>1 DEF Repeats
  <2> QED
    BY <1>0, <2>1 DEF Run
<1>3. runs'[1] = runs[1] /\ runs'[2].policy = runs[2].policy
  BY <1>1, <1>2
<1> QED
  BY <1>2, <1>3 DEF Repeats, Uncut

LEMMA SecondStep ==
  ASSUME CrawlFits, StartFits, FirstFits, SecondFits, [CrawlNext]_crawlVars
  PROVE  SecondFits'
<1>0. crawl \in Walks
  BY DEF CrawlFits, WalkFits
<1>1. CASE UNCHANGED <<cached, edges, runs, crawl>>
  <2>1. CASE Repeats /\ crawl.at \in Walking
    <3>1. PICK V \in SUBSET Works : \E D \in [V -> Nat] :
            Closed(crawl.policy, V, D, crawl.accepted) /\ SecondWalk(V, D)
      BY <2>1 DEF SecondFits
    <3>2. PICK D \in [V -> Nat] : Closed(crawl.policy, V, D, crawl.accepted) /\ SecondWalk(V, D)
      BY <3>1
    <3>3. Closed(crawl.policy, V, D, crawl.accepted)'
      BY <1>1, <3>2, ClosedStays DEF ForwardRows
    <3>4. SecondWalk(V, D)'
      BY <1>1, <3>2 DEF SecondWalk, Is
    <3> QED
      BY <1>1, <2>1, <3>3, <3>4, SecondMoves
  <2>2. CASE ~(Repeats /\ crawl.at \in Walking)
    <3>1. Repeats' = Repeats
      BY <1>1, RunsStay
    <3> QED
      BY <1>1, <2>2, <3>1 DEF SecondFits
  <2> QED
    BY <2>1, <2>2
<1>2. CASE Discover \/ Search
  <2>1. UNCHANGED runs /\ crawl'.at \in {"search", "start"}
    <3>1. CASE Discover
      <4>1. crawl'.at = "search"
        BY <3>1 DEF Discover, Resting
      <4> QED
        BY <3>1, <4>1 DEF Discover, Keep, store
    <3>2. CASE Search
      BY <1>0, <3>2 DEF Search, Is, Walks, Keep, store
    <3> QED
      BY <1>2, <3>1, <3>2
  <2> QED
    BY <2>1, RunsStay, SecondRests DEF Walking
<1>3. CASE StartRun
  BY <1>3, SecondStarts
<1>4. CASE Visit \/ Upsert \/ AddEdge \/ EdgesDone
  <2>1. CASE Repeats
    BY <1>4, <2>1, SecondVisit, SecondUpsert, SecondAddEdge, SecondEdgesDone
  <2>2. CASE ~Repeats
    <3>1. Repeats' = Repeats
      BY <1>4, WalkStaysInRun, RunsStay
    <3> QED
      BY <2>2, <3>1 DEF SecondFits
  <2> QED
    BY <2>1, <2>2
<1>5. CASE GetWork \/ Cite
  <2>1. ~Repeats
    <3>1. crawl.at \in {"load", "cite"}
      BY <1>5 DEF GetWork, Cite, Is
    <3> QED
      BY <3>1 DEF SecondFits, SecondWalk, Walking
  <2>2. Repeats' = Repeats
    BY <1>5, WalkStaysInRun, RunsStay
  <2> QED
    BY <2>1, <2>2 DEF SecondFits
<1>6. CASE StoreRanking
  <2>1. UNCHANGED runs /\ crawl.at = "loop" /\ crawl'.at = "finish" /\ crawl'.asked = crawl.asked
    BY <1>0, <1>6 DEF StoreRanking, Is, Goto, Walks, Keep
  <2> QED
    BY <2>1, RunsStay, SecondRests DEF Walking
<1>7. CASE FinishRun
  <2>1. crawl.at = "finish" /\ crawl'.at = "promote" /\ crawl'.asked = crawl.asked
    BY <1>0, <1>7 DEF FinishRun, Is, Walks
  <2> QED
    BY <1>7, <2>1, RepeatsBefore, SecondRests DEF Walking
<1>8. CASE PromoteWork
  <2>1. UNCHANGED runs /\ crawl.at = "promote" /\ crawl'.at = "promote" /\ crawl'.asked = crawl.asked
    BY <1>0, <1>8 DEF PromoteWork, Is, Walks, store
  <2> QED
    BY <2>1, RunsStay, SecondRests DEF Walking
<1>9. CASE MineGaps
  <2>1. crawl'.at = "idle"
    BY <1>9 DEF MineGaps, Resting
  <2> QED
    BY <1>9, <2>1, RepeatsBefore, SecondRests DEF Walking
<1>10. CASE (Busy \/ Abort) /\ crawl' = Resting
  <2>1. UNCHANGED runs /\ crawl'.at = "idle"
    BY <1>10 DEF Busy, Abort, Keep, store, Resting
  <2> QED
    BY <2>1, RunsStay, SecondRests DEF Walking
<1>11. \/ UNCHANGED <<cached, edges, runs, crawl>>
       \/ (Busy \/ Abort) /\ crawl' = Resting
       \/ Discover \/ Step
  <2>1. CASE Busy
    <3>1. cached' = cached /\ edges' = edges /\ runs' = runs
      BY <2>1 DEF Busy, Keep, store
    <3>2. crawl' = Resting \/ crawl' = crawl
      BY <2>1 DEF Busy
    <3> QED
      BY <2>1, <3>1, <3>2
  <2>2. CASE Abort
    BY <2>2 DEF Abort
  <2>3. CASE UNCHANGED crawlVars
    <3>1. cached' = cached /\ edges' = edges /\ runs' = runs /\ crawl' = crawl
      BY <2>3 DEF crawlVars, store
    <3> QED
      BY <3>1
  <2> QED
    BY <2>1, <2>2, <2>3 DEF CrawlNext
<1> QED
  BY <1>1, <1>2, <1>3, <1>4, <1>5, <1>6, <1>7, <1>8, <1>9, <1>10, <1>11 DEF Step

-----------------------------------------------------------------------------
\* All that is kept, step by step.
CrawlHolds == CrawlFits /\ WalkLeveled /\ RecordsFit /\ StartFits /\ FirstFits /\ SecondFits

LEMMA CrawlHoldsFirst == CrawlInit => CrawlHolds
<1> SUFFICES ASSUME CrawlInit PROVE CrawlHolds
  OBVIOUS
<1>1. crawl.at = "idle" /\ Len(runs) = 0
  BY DEF CrawlInit, Resting
<1>2. StartFits /\ FirstFits /\ SecondFits
  BY <1>1 DEF StartFits, FirstFits, SecondFits, Repeats, Run, Is
<1> QED
  BY <1>2, CrawlStarts, LeveledStarts, RecordsStart DEF CrawlHolds

LEMMA CrawlHoldsNext == CrawlHolds /\ [CrawlNext]_crawlVars => CrawlHolds'
BY CrawlFitsStep, LeveledStep, RecordsStep, StartStep, FirstStep, SecondStep DEF CrawlHolds

LEMMA CrawlHoldsImplies == CrawlHolds => CrawlSound
BY LeveledIsBreadthFirst, RecordsFitImplies, SecondImplies DEF CrawlHolds, CrawlSound

\* A walk is breadth first, the tables of a completed run fit together, and a
\* crawl that repeats one that was not cut asks OpenAlex for nothing: for any
\* graph, any policies, and any number of pages, crawls, kills and errors.
THEOREM CrawlsAreSound == CrawlSpec => []CrawlSound
<1>1. CrawlSpec => CrawlInit /\ [][CrawlNext]_crawlVars
  BY DEF CrawlSpec
<1> QED
  BY <1>1, CrawlHoldsFirst, CrawlHoldsNext, CrawlHoldsImplies, PTL

-----------------------------------------------------------------------------
(***************************************************************************)
(* Selection: for any strategies, evidence and cells, rows are only added, *)
(* what is observed of them is evidence, and parents are taken from one    *)
(* cell after the other.                                                   *)
(***************************************************************************)
ArchiveRows == [cell : Cells \cup {NoCell}, evidence : Evidence \cup {Unproven}]

LEMMA SelectionStarts == SelectionInit => SelectionTypeOK
BY DEF SelectionInit, SelectionTypeOK

LEMMA SelectionKeeps == SelectionTypeOK /\ [SelectionNext]_selectionVars => SelectionTypeOK'
<1> SUFFICES ASSUME SelectionTypeOK, [SelectionNext]_selectionVars PROVE SelectionTypeOK'
  OBVIOUS
<1>1. archive \in [Strategies -> {NoRow} \cup ArchiveRows] /\ enforce \in BOOLEAN
  BY DEF SelectionTypeOK, ArchiveRows
<1>2. CASE AddRow
  <2>1. PICK s \in Strategies \ Candidates, c \in Cells \cup {NoCell} :
            archive' = [archive EXCEPT ![s] = [cell |-> c, evidence |-> Unproven]]
    BY <1>2 DEF AddRow
  <2>2. [cell |-> c, evidence |-> Unproven] \in ArchiveRows
    BY DEF ArchiveRows
  <2>3. archive' \in [Strategies -> {NoRow} \cup ArchiveRows]
    BY <1>1, <2>1, <2>2
  <2> QED
    BY <1>1, <1>2, <2>3 DEF AddRow, SelectionTypeOK, ArchiveRows
<1>3. CASE Observe
  <2>1. PICK s \in Candidates, e \in Evidence :
            archive' = [archive EXCEPT ![s].evidence = e]
    BY <1>3 DEF Observe
  <2>2. s \in Strategies /\ archive[s] \in ArchiveRows
    BY <1>1 DEF Candidates
  <2>3. [archive[s] EXCEPT !.evidence = e] \in ArchiveRows
    BY <2>2 DEF ArchiveRows
  <2>4. archive' = [archive EXCEPT ![s] = [archive[s] EXCEPT !.evidence = e]]
    BY <2>1
  <2>5. archive' \in [Strategies -> {NoRow} \cup ArchiveRows]
    BY <1>1, <2>2, <2>3, <2>4
  <2> QED
    BY <1>1, <1>3, <2>5 DEF Observe, SelectionTypeOK, ArchiveRows
<1>4. CASE UNCHANGED selectionVars
  BY <1>4 DEF SelectionTypeOK, selectionVars
<1> QED
  BY <1>2, <1>3, <1>4 DEF SelectionNext

\* The archive that select_lineages reads holds rows with evidence only.
THEOREM SelectionTypeCorrect == SelectionSpec => []SelectionTypeOK
BY SelectionStarts, SelectionKeeps, PTL DEF SelectionSpec

\* What is known of a candidate.
Fields == {"reward", "surprise", "distance"}

LEMMA RowOfCandidate ==
  ASSUME SelectionTypeOK, NEW s \in Candidates
  PROVE  /\ s \in Strategies /\ s \in Nat /\ s # 0
         /\ Cell(s) \in Cells \cup {NoCell}
         /\ \A field \in Fields : archive[s].evidence[field] \in {NoValue, 0, 1, 2}
         /\ archive[s].evidence.feasible \in 0 .. 2
         /\ Exploration[archive[s].evidence.visits] \in Nat
<1>1. archive[s] \in ArchiveRows /\ s \in Strategies
  BY DEF SelectionTypeOK, Candidates, ArchiveRows
<1>2. archive[s].cell \in Cells \cup {NoCell} /\ archive[s].evidence \in Evidence \cup {Unproven}
  BY <1>1 DEF ArchiveRows
<1>3. CASE archive[s].evidence = Unproven
  BY <1>1, <1>2, <1>3, SelectionAssumption DEF Unproven, Cell, Fields
<1>4. CASE archive[s].evidence \in Evidence
  BY <1>1, <1>2, <1>4, SelectionAssumption DEF Cell, Fields
<1> QED
  BY <1>2, <1>3, <1>4

LEMMA LeastAndGreatestPlace ==
  ASSUME NEW S \in SUBSET (0 .. 2), S # {}
  PROVE  /\ Min(S) \in S /\ \A x \in S : Min(S) <= x
         /\ Max(S) \in S /\ \A x \in S : x <= Max(S)
<1>1. 0 \in Int /\ 2 \in Int /\ S \in SUBSET Int
  OBVIOUS
<1>2. IsFiniteSet(0 .. 2)
  BY <1>1, FS_Interval
<1>3. IsFiniteSet(S)
  BY <1>2, FS_Subset
<1> QED
  BY <1>1, <1>3, LeastAndGreatest

LEMMA Fractions ==
  ASSUME NEW v \in 0 .. 2, NEW a \in 0 .. 2, NEW b \in 0 .. 2, a <= v, v <= b, a < b
  PROVE  /\ ((v - a) * Scale) \div (b - a) \in 0 .. Scale
         /\ v = b => ((v - a) * Scale) \div (b - a) = Scale
<1>1. CASE a = 0 /\ b = 2
  BY <1>1 DEF Scale
<1>2. CASE b - a = 1
  BY <1>2 DEF Scale
<1> QED
  BY <1>1, <1>2

\* A normalized value is a fraction of Scale, and where two values are known
\* one of them is the whole.
LEMMA KnownValuesOf ==
  ASSUME SelectionTypeOK, NEW field \in Fields
  PROVE  /\ KnownValues(field) \in SUBSET (0 .. 2)
         /\ \A s \in Candidates : archive[s].evidence[field] # NoValue =>
                archive[s].evidence[field] \in KnownValues(field)
<1>1. \A s \in Candidates : archive[s].evidence[field] \in {NoValue, 0, 1, 2}
  BY RowOfCandidate
<1> QED
  BY <1>1 DEF KnownValues, NoValue

LEMMA TwoKnown ==
  ASSUME NEW S \in SUBSET (0 .. 2), ~ (Cardinality(S) <= 1)
  PROVE  S # {} /\ Min(S) \in 0 .. 2 /\ Max(S) \in 0 .. 2 /\ Min(S) < Max(S)
<1>1. ~ \A x, y \in S : x = y
  BY AtMostOne
<1>2. S # {}
  BY <1>1
<1>3. /\ Min(S) \in S /\ Max(S) \in S
      /\ \A x \in S : Min(S) <= x /\ x <= Max(S)
  BY <1>2, LeastAndGreatestPlace
<1>4. ASSUME NEW x \in S, NEW y \in S, Min(S) = Max(S)
      PROVE  x = y
  <2>1. /\ Min(S) <= x /\ x <= Min(S) /\ Min(S) <= y /\ y <= Min(S)
        /\ x \in 0 .. 2 /\ y \in 0 .. 2 /\ Min(S) \in 0 .. 2
    BY <1>3, <1>4
  <2> QED
    BY <2>1
<1>5. Min(S) # Max(S)
  BY <1>1, <1>4
<1>6. Min(S) \in 0 .. 2 /\ Max(S) \in 0 .. 2 /\ Min(S) <= Max(S)
  BY <1>3
<1> QED
  BY <1>2, <1>5, <1>6

LEMMA NormalizeType ==
  ASSUME SelectionTypeOK, NEW s \in Candidates, NEW field \in Fields, NEW cold \in 0 .. Scale
  PROVE  Normalize(s, field, cold) \in 0 .. Scale
<1> DEFINE all == KnownValues(field)
           value == archive[s].evidence[field]
<1>1. CASE value = NoValue \/ Cardinality(all) <= 1
  BY <1>1 DEF Normalize
<1>2. CASE value # NoValue /\ ~ (Cardinality(all) <= 1)
  <2>1. all \in SUBSET (0 .. 2) /\ value \in all
    BY <1>2, KnownValuesOf
  <2>2. all # {} /\ Min(all) \in 0 .. 2 /\ Max(all) \in 0 .. 2 /\ Min(all) < Max(all)
    BY <1>2, <2>1, TwoKnown
  <2>3. Min(all) <= value /\ value <= Max(all) /\ value \in 0 .. 2
    BY <2>1, <2>2, LeastAndGreatestPlace
  <2>4. ((value - Min(all)) * Scale) \div (Max(all) - Min(all)) \in 0 .. Scale
    BY <2>2, <2>3, Fractions
  <2>5. Normalize(s, field, cold) = ((value - Min(all)) * Scale) \div (Max(all) - Min(all))
    BY <1>2 DEF Normalize
  <2> QED
    BY <2>4, <2>5
<1> QED
  BY <1>1, <1>2

\* The best reward is worth something, known or not.
LEMMA SomeReward ==
  ASSUME SelectionTypeOK, Candidates # {}
  PROVE  \E s \in Candidates : Normalize(s, "reward", Scale \div 2) > 0
<1> DEFINE all == KnownValues("reward")
<1>0. "reward" \in Fields
  BY DEF Fields
<1>1. CASE Cardinality(all) <= 1
  <2>1. PICK s \in Candidates : TRUE
    OBVIOUS
  <2>2. Normalize(s, "reward", Scale \div 2) = Scale \div 2
    BY <1>1 DEF Normalize
  <2> QED
    BY <2>2 DEF Scale
<1>2. CASE ~ (Cardinality(all) <= 1)
  <2>1. all \in SUBSET (0 .. 2)
    BY <1>0, KnownValuesOf
  <2>2. all # {} /\ Min(all) \in 0 .. 2 /\ Max(all) \in 0 .. 2 /\ Min(all) < Max(all)
    BY <1>2, <2>1, TwoKnown
  <2>3. Max(all) \in all
    BY <2>1, <2>2, LeastAndGreatestPlace
  <2>4. PICK s \in Candidates : archive[s].evidence["reward"] = Max(all)
    BY <2>3 DEF KnownValues
  <2>5. ((Max(all) - Min(all)) * Scale) \div (Max(all) - Min(all)) = Scale
    BY <2>2, Fractions
  <2>6. archive[s].evidence["reward"] # NoValue
    BY <2>2, <2>4 DEF NoValue
  <2>7. Normalize(s, "reward", Scale \div 2)
            = ((Max(all) - Min(all)) * Scale) \div (Max(all) - Min(all))
    BY <1>2, <2>4, <2>6 DEF Normalize
  <2> QED
    BY <2>5, <2>7 DEF Scale
<1> QED
  BY <1>1, <1>2

LEMMA PressureType ==
  ASSUME SelectionTypeOK, NEW s \in Candidates
  PROVE  FeasibilityPressure(s) \in Nat
<1> DEFINE counts == {archive[t].evidence.feasible : t \in Candidates}
<1>1. counts \in SUBSET (0 .. 2) /\ archive[s].evidence.feasible \in counts
  BY RowOfCandidate
<1>2. MaxFeasible \in 0 .. 2 /\ archive[s].evidence.feasible \in 0 .. 2
  BY <1>1, LeastAndGreatestPlace DEF MaxFeasible
<1>3. CASE MaxFeasible > 0
  <2>1. MaxFeasible = 1 \/ MaxFeasible = 2
    BY <1>2, <1>3
  <2>2. (archive[s].evidence.feasible * Scale) \div MaxFeasible \in Nat
    BY <1>2, <2>1 DEF Scale
  <2> QED
    BY <1>3, <2>2 DEF FeasibilityPressure
<1>4. CASE ~ (MaxFeasible > 0)
  <2>1. Normalize(s, "distance", Scale) \in 0 .. Scale
    BY NormalizeType DEF Fields, Scale
  <2> QED
    BY <1>4, <2>1 DEF FeasibilityPressure, Scale
<1> QED
  BY <1>3, <1>4

LEMMA BaseScoreType ==
  ASSUME SelectionTypeOK, NEW s \in Candidates
  PROVE  /\ BaseScore(s) \in Nat
         /\ Normalize(s, "reward", Scale \div 2) > 0 => BaseScore(s) > 0
<1>1. /\ Normalize(s, "reward", Scale \div 2) \in Nat
      /\ Normalize(s, "surprise", 0) \in Nat
  <2>1. Scale \div 2 \in 0 .. Scale /\ 0 \in 0 .. Scale
    BY DEF Scale
  <2> QED
    BY <2>1, NormalizeType DEF Fields
<1>2. FeasibilityPressure(s) \in Nat
  BY PressureType
<1>3. ExplorationTerm(s) \in Nat
  BY RowOfCandidate DEF ExplorationTerm, Scale
<1>4. Novelty(s) \in Nat
  BY DEF Novelty, Scale
<1> QED
  BY <1>1, <1>2, <1>3, <1>4 DEF BaseScore, RewardAlpha, SurpriseBeta, FeasibilityGamma, NoveltyWeight

LEMMA NotAllZero == SelectionTypeOK => ~AllScoresZero
<1> SUFFICES ASSUME SelectionTypeOK, AllScoresZero PROVE FALSE
  OBVIOUS
<1>1. PICK s \in Candidates : Normalize(s, "reward", Scale \div 2) > 0
  BY SomeReward DEF AllScoresZero
<1> QED
  BY <1>1, BaseScoreType DEF AllScoresZero

LEMMA CandidatesFinite == IsFiniteSet(Candidates)
BY SelectionAssumption, FS_Subset DEF Candidates

LEMMA ScoreType ==
  ASSUME SelectionTypeOK, NEW chosen, IsFiniteSet(chosen), NEW s \in Candidates
  PROVE  Score(s, chosen) \in Int
<1> DEFINE V == Vectors(chosen)
           W == {c \in V : Cell(c) # Cell(s)}
<1>1. IsFiniteSet(V) /\ IsFiniteSet(W)
  BY FS_Subset DEF Vectors
<1>2. Cardinality(V) \in Nat /\ Cardinality(W) \in Nat /\ (V # {} => Cardinality(V) # 0)
  BY <1>1, FS_CardinalityType, FS_EmptySet
<1> HIDE DEF V, W
<1>3. V # {} => (NoveltyWeight * Scale * Cardinality(W)) \div Cardinality(V) \in Int
  BY <1>2 DEF NoveltyWeight, Scale
<1>4. SelectedBonus(s, chosen) \in Int
  BY <1>3 DEF SelectedBonus, V, W
<1> QED
  BY <1>4, BaseScoreType DEF Score, CellBonus, Scale

\* What is chosen is one of those that are eligible.
LEMMA SelectsEligible ==
  ASSUME SelectionTypeOK, NEW chosen, IsFiniteSet(chosen), ~ (Candidates \subseteq chosen)
  PROVE  /\ SelectNext(chosen) \in Eligible(Candidates \ chosen, RemainingElites(chosen))
         /\ SelectNext(chosen) \in Candidates \ chosen
<1> DEFINE E == Eligible(Candidates \ chosen, RemainingElites(chosen))
           R == {p \in E \X E : \/ Score(p[1], chosen) > Score(p[2], chosen)
                                \/ Score(p[1], chosen) = Score(p[2], chosen) /\ p[1] < p[2]}
<1>1. E \subseteq Candidates \ chosen /\ E # {}
  BY DEF Eligible
<1>2. IsFiniteSet(E)
  BY <1>1, CandidatesFinite, FS_Subset
<1>3. \A s \in E : Score(s, chosen) \in Int /\ s \in Int
  BY <1>1, ScoreType, RowOfCandidate
<1> HIDE DEF E
<1>4. StrictlyOrders(R, E)
  BY <1>3 DEF StrictlyOrders
<1>5. PICK s \in E : \A t \in E \ {s} : <<s, t>> \in R
  BY <1>1, <1>2, <1>4, FirstIsTaken DEF IsFirst
<1>6. \A t \in E \ {s} : \/ Score(s, chosen) > Score(t, chosen)
                         \/ Score(s, chosen) = Score(t, chosen) /\ s < t
  BY <1>5
<1>7. SelectNext(chosen) =
          CHOOSE x \in E : \A t \in E \ {x} :
              \/ Score(x, chosen) > Score(t, chosen)
              \/ Score(x, chosen) = Score(t, chosen) /\ x < t
  BY DEF SelectNext, E
<1>8. SelectNext(chosen) \in E
  BY <1>6, <1>7, Zenon
<1> QED
  BY <1>1, <1>8 DEF E

\* Of the candidates of a cell one is the elite.
LEMMA CellHasElite ==
  ASSUME SelectionTypeOK, NEW cell, cell # NoCell, \E s \in Candidates : Cell(s) = cell
  PROVE  \E s \in CellElites : Cell(s) = cell
<1> DEFINE S == {s \in Candidates : Cell(s) = cell}
           R == {p \in S \X S : Beats(p[1], p[2])}
<1>1. S # {} /\ IsFiniteSet(S)
  BY CandidatesFinite, FS_Subset
<1>2. StrictlyOrders(R, S)
  <2>1. \A s \in S : /\ s \in Int /\ archive[s].evidence.feasible \in Int
                     /\ archive[s].evidence.distance \in Int
                     /\ archive[s].evidence.reward \in Int
    <3> SUFFICES ASSUME NEW s \in S
                 PROVE  /\ s \in Int /\ archive[s].evidence.feasible \in Int
                        /\ archive[s].evidence.distance \in Int
                        /\ archive[s].evidence.reward \in Int
      OBVIOUS
    <3>1. "distance" \in Fields /\ "reward" \in Fields
      BY DEF Fields
    <3>2. /\ archive[s].evidence["distance"] \in {NoValue, 0, 1, 2}
          /\ archive[s].evidence["reward"] \in {NoValue, 0, 1, 2}
          /\ archive[s].evidence.feasible \in 0 .. 2 /\ s \in Nat
      BY <3>1, RowOfCandidate
    <3> QED
      BY <3>2 DEF NoValue
  <2>2. \A x \in S : ~Beats(x, x)
    BY <2>1 DEF Beats
  <2>3. \A x, y \in S : x # y => Beats(x, y) \/ Beats(y, x)
    BY <2>1 DEF Beats
  <2>4. ASSUME NEW x \in S, NEW y \in S, NEW z \in S, Beats(x, y), Beats(y, z)
        PROVE  Beats(x, z)
    BY <2>1, <2>4 DEF Beats, NoValue
  <2> HIDE DEF S
  <2> QED
    BY <2>2, <2>3, <2>4 DEF StrictlyOrders
<1> HIDE DEF R
<1>3. PICK s \in S : \A t \in S \ {s} : <<s, t>> \in R
  BY <1>1, <1>2, FirstIsTaken DEF IsFirst
<1>4. s \in CellElites
  BY <1>3 DEF CellElites, R
<1> QED
  BY <1>3, <1>4

-----------------------------------------------------------------------------
\* The selection is defined: a number of parents is the one before and one.
LEMMA SelectionProceeds ==
  ASSUME SelectionTypeOK
  PROVE  /\ SelectLineages[0] = <<>>
         /\ \A k \in Nat :
              /\ SelectLineages[k] \in Seq(Candidates \cup {Novel})
              /\ SelectLineages[k + 1] =
                     Append(SelectLineages[k], SelectNext(ToSet(SelectLineages[k])))
<1> DEFINE Q == Seq(Candidates \cup {Novel})
           g == [q \in Q |-> Append(q, SelectNext(ToSet(q)))]
           Steps(f) == [k \in Nat |-> IF k = 0 THEN <<>>
                                      ELSE LET selected == f[k - 1]
                                           IN  Append(selected, SelectNext(ToSet(selected)))]
<1>1. g \in [Q -> Q]
  <2> SUFFICES ASSUME NEW q \in Q PROVE Append(q, SelectNext(ToSet(q))) \in Q
    OBVIOUS
  <2>1. IsFiniteSet(ToSet(q))
    <3>1. DOMAIN q = 1 .. Len(q) /\ Len(q) \in Nat
      OBVIOUS
    <3>2. q \in Surjection(1 .. Len(q), ToSet(q))
      BY <3>1 DEF Surjection, ToSet
    <3> QED
      BY <3>1, <3>2, FS_Interval, FS_Surjection
  <2>2. SelectNext(ToSet(q)) \in Candidates \cup {Novel}
    <3>1. CASE Candidates \subseteq ToSet(q)
      BY <3>1 DEF SelectNext
    <3>2. CASE ~ (Candidates \subseteq ToSet(q))
      BY <2>1, <3>2, SelectsEligible
    <3> QED
      BY <3>1, <3>2
  <2> QED
    BY <2>2
<1>2. <<>> \in Q
  OBVIOUS
<1>7. \A q \in Q : g[q] = Append(q, SelectNext(ToSet(q)))
  OBVIOUS
<1> HIDE DEF Q, g
<1>3. PICK f \in [Nat -> Q] : f = [n \in Nat |-> IF n = 0 THEN <<>> ELSE g[f[n - 1]]]
  BY <1>1, <1>2, IterationExists
<1>4. f = Steps(f)
  <2>1. ASSUME NEW n \in Nat, n # 0
        PROVE  g[f[n - 1]] = Append(f[n - 1], SelectNext(ToSet(f[n - 1])))
    <3>1. n - 1 \in Nat
      BY <2>1
    <3>2. f[n - 1] \in Q
      BY <3>1
    <3> QED
      BY <1>7, <3>2
  <2> QED
    BY <1>3, <2>1
<1>5. SelectLineages = CHOOSE h : h = Steps(h)
  BY DEF SelectLineages
<1> HIDE DEF Steps
<1>6. SelectLineages = Steps(SelectLineages)
  BY <1>4, <1>5, Zenon
<1>8. /\ SelectLineages[0] = <<>>
      /\ \A k \in Nat : SelectLineages[k + 1] =
             Append(SelectLineages[k], SelectNext(ToSet(SelectLineages[k])))
  <2>1. \A k \in Nat :
            SelectLineages[k] = IF k = 0 THEN <<>>
                                ELSE Append(SelectLineages[k - 1],
                                            SelectNext(ToSet(SelectLineages[k - 1])))
    <3> DEFINE L == SelectLineages
    <3>1. L = Steps(L)
      BY <1>6
    <3> HIDE DEF L
    <3>2. \A k \in Nat : L[k] = IF k = 0 THEN <<>>
                                ELSE Append(L[k - 1], SelectNext(ToSet(L[k - 1])))
      BY <3>1 DEF Steps
    <3> QED
      BY <3>2 DEF L
  <2>2. ASSUME NEW k \in Nat
        PROVE  SelectLineages[k + 1] = Append(SelectLineages[k], SelectNext(ToSet(SelectLineages[k])))
    <3>1. k + 1 \in Nat /\ k + 1 # 0 /\ (k + 1) - 1 = k
      OBVIOUS
    <3> QED
      BY <2>1, <3>1
  <2> QED
    BY <2>1, <2>2
<1>9. \A k \in Nat : SelectLineages[k] \in Q
  <2> DEFINE Untyped == {k \in Nat : SelectLineages[k] \notin Q}
  <2> SUFFICES ASSUME Untyped # {} PROVE FALSE
    OBVIOUS
  <2>1. PICK x \in Untyped : \A y \in Untyped : x <= y
    BY LeastNumber
  <2>2. x # 0
    BY <1>2, <1>8, <2>1
  <2>3. x - 1 \in Nat /\ x - 1 \notin Untyped /\ (x - 1) + 1 = x
    BY <2>1, <2>2
  <2>4. SelectLineages[x - 1] \in Q
    BY <2>3
  <2>5. SelectLineages[x] = Append(SelectLineages[x - 1],
                                   SelectNext(ToSet(SelectLineages[x - 1])))
    BY <1>8, <2>3
  <2>6. SelectLineages[x] \in Q
    BY <1>1, <1>7, <2>4, <2>5
  <2> QED
    BY <2>1, <2>6
<1> QED
  BY <1>8, <1>9 DEF Q

\* What SelectionDiverse says of k parents q.
Populated == {Cell(s) : s \in Candidates} \ {NoCell}
FirstOf(k) == {i \in 1 .. k : i <= Cardinality(Populated)}
Diverse(k, q) ==
    /\ Len(q) = k
    /\ \A i, j \in 1 .. k : i < j =>
         /\ q[i] = Novel => q[j] = Novel
         /\ q[i] = q[j] => q[i] = Novel
    /\ Novel \in ToSet(q) => Candidates \subseteq ToSet(q)
    /\ \A i \in FirstOf(k) : q[i] \in CellElites
    /\ \A i, j \in FirstOf(k) : i # j => Cell(q[i]) # Cell(q[j])

\* k parents cannot have been taken from more than k cells.
LEMMA CellIsLeft ==
  ASSUME NEW k \in Nat, NEW q, Len(q) = k, k < Cardinality(Populated)
  PROVE  \E cell \in Populated : \A i \in 1 .. k : Cell(q[i]) # cell
<1> SUFFICES ASSUME \A cell \in Populated : \E i \in 1 .. k : Cell(q[i]) = cell
             PROVE  FALSE
  OBVIOUS
<1> DEFINE I == {i \in 1 .. k : Cell(q[i]) \in Populated}
           f == [i \in I |-> Cell(q[i])]
<1>1. IsFiniteSet(1 .. k) /\ Cardinality(1 .. k) = k
  BY FS_Interval
<1>2. I \subseteq 1 .. k
  OBVIOUS
<1>3. IsFiniteSet(I) /\ Cardinality(I) <= k /\ Cardinality(I) \in Nat
  BY <1>1, <1>2, FS_Subset, FS_CardinalityType
<1>4. f \in Surjection(I, Populated)
  BY DEF Surjection
<1> HIDE DEF f
<1>5. Cardinality(Populated) <= Cardinality(I) /\ IsFiniteSet(Populated)
  BY <1>3, <1>4, FS_Surjection
<1>6. Cardinality(Populated) \in Nat
  BY <1>5, FS_CardinalityType
<1> QED
  BY <1>3, <1>5, <1>6

LEMMA PopulatedFinite == Cardinality(Populated) \in Nat
<1> DEFINE C == {s \in Candidates : Cell(s) # NoCell}
           f == [s \in C |-> Cell(s)]
<1>1. IsFiniteSet(C)
  BY CandidatesFinite, FS_Subset
<1>2. f \in Surjection(C, Populated)
  BY DEF Surjection, Populated
<1> HIDE DEF f
<1> QED
  BY <1>1, <1>2, FS_Surjection, FS_CardinalityType

\* One parent more.
LEMMA DiverseProceeds ==
  ASSUME SelectionTypeOK, NEW k \in Nat, NEW q \in Seq(Candidates \cup {Novel}), Diverse(k, q)
  PROVE  Diverse(k + 1, Append(q, SelectNext(ToSet(q))))
<1> DEFINE x == SelectNext(ToSet(q))
           r == Append(q, x)
<1>1. /\ DOMAIN q = 1 .. k /\ Len(q) = k
      /\ \A i, j \in 1 .. k : i < j =>
           /\ q[i] = Novel => q[j] = Novel
           /\ q[i] = q[j] => q[i] = Novel
      /\ Novel \in ToSet(q) => Candidates \subseteq ToSet(q)
  BY DEF Diverse
<1>2. IsFiniteSet(ToSet(q))
  <2>1. q \in Surjection(1 .. k, ToSet(q))
    BY <1>1 DEF Surjection, ToSet
  <2> QED
    BY <2>1, FS_Interval, FS_Surjection
<1>3. Novel \notin Candidates
  BY RowOfCandidate DEF Novel
<1>4. /\ Candidates \subseteq ToSet(q) => x = Novel
      /\ ~ (Candidates \subseteq ToSet(q)) =>
             /\ x \in Eligible(Candidates \ ToSet(q), RemainingElites(ToSet(q)))
             /\ x \in Candidates \ ToSet(q)
  <2>1. CASE Candidates \subseteq ToSet(q)
    BY <2>1 DEF SelectNext
  <2>2. CASE ~ (Candidates \subseteq ToSet(q))
    BY <1>2, <2>2, SelectsEligible
  <2> QED
    BY <2>1, <2>2
<1> HIDE DEF x
<1>5. /\ Len(r) = k + 1 /\ DOMAIN r = 1 .. k + 1
      /\ \A i \in 1 .. k : r[i] = q[i]
      /\ r[k + 1] = x
  BY <1>1
<1>6. ToSet(r) = ToSet(q) \cup {x}
  BY <1>1, <1>5 DEF ToSet
<1>7. \A i \in 1 .. k : q[i] \in ToSet(q)
  BY <1>1 DEF ToSet
<1> HIDE DEF r
<1>8. ASSUME NEW i \in 1 .. k + 1, NEW j \in 1 .. k + 1, i < j
      PROVE  /\ r[i] = Novel => r[j] = Novel
             /\ r[i] = r[j] => r[i] = Novel
  <2>1. i \in 1 .. k /\ (j \in 1 .. k \/ j = k + 1)
    BY <1>8
  <2>2. CASE j \in 1 .. k
    BY <1>1, <1>5, <1>8, <2>1, <2>2
  <2>3. CASE j = k + 1
    <3>1. r[i] = q[i] /\ q[i] \in ToSet(q) /\ r[j] = x
      BY <1>5, <1>7, <2>1, <2>3
    <3>2. CASE Candidates \subseteq ToSet(q)
      BY <1>4, <3>1, <3>2
    <3>3. CASE ~ (Candidates \subseteq ToSet(q))
      BY <1>1, <1>4, <3>1, <3>3
    <3> QED
      BY <3>2, <3>3
  <2> QED
    BY <2>1, <2>2, <2>3
<1>9. Novel \in ToSet(r) => Candidates \subseteq ToSet(r)
  BY <1>1, <1>3, <1>4, <1>6
<1>10. ASSUME k + 1 <= Cardinality(Populated)
       PROVE  /\ x \in CellElites
              /\ \A i \in 1 .. k : Cell(q[i]) # Cell(x)
  <2>1. k < Cardinality(Populated)
    BY <1>10, PopulatedFinite
  <2>2. PICK cell \in Populated : \A i \in 1 .. k : Cell(q[i]) # cell
    BY <1>1, <2>1, CellIsLeft
  <2>3. PICK s \in CellElites : Cell(s) = cell
    BY <2>2, CellHasElite DEF Populated
  <2>4. \A c \in ToSet(q) : Cell(c) # Cell(s)
    BY <1>1, <2>2, <2>3 DEF ToSet
  <2>5. s \in Candidates \ ToSet(q) /\ s \in RemainingElites(ToSet(q))
    BY <2>3, <2>4 DEF CellElites, RemainingElites
  <2>6. x \in RemainingElites(ToSet(q))
    BY <1>4, <2>5 DEF Eligible
  <2> QED
    BY <1>7, <2>6 DEF RemainingElites
<1>11. \A i \in FirstOf(k + 1) :
           \/ i \in 1 .. k /\ i \in FirstOf(k)
           \/ i = k + 1 /\ k + 1 <= Cardinality(Populated)
  <2> DEFINE c == Cardinality(Populated)
  <2>1. c \in Nat
    BY PopulatedFinite
  <2> HIDE DEF c
  <2>2. \A i \in 1 .. k + 1 : i <= c => \/ i \in 1 .. k
                                        \/ i = k + 1 /\ k + 1 <= c
    BY <2>1
  <2> QED
    BY <2>2 DEF FirstOf, c
<1>12. \A i \in FirstOf(k + 1) : r[i] \in CellElites
  <2>1. \A i \in FirstOf(k) : q[i] \in CellElites
    BY DEF Diverse
  <2> QED
    BY <1>5, <1>10, <1>11, <2>1
<1>13. \A i, j \in FirstOf(k + 1) : i # j => Cell(r[i]) # Cell(r[j])
  <2>1. \A i, j \in FirstOf(k) : i # j => Cell(q[i]) # Cell(q[j])
    BY DEF Diverse
  <2>2. ASSUME NEW i \in FirstOf(k + 1), NEW j \in FirstOf(k + 1), i # j
        PROVE  Cell(r[i]) # Cell(r[j])
    <3>1. CASE i \in 1 .. k /\ i \in FirstOf(k) /\ j \in 1 .. k /\ j \in FirstOf(k)
      BY <1>5, <2>1, <2>2, <3>1
    <3>2. CASE i = k + 1 \/ j = k + 1
      BY <1>5, <1>10, <1>11, <2>2, <3>2
    <3> QED
      BY <1>11, <3>1, <3>2
  <2> QED
    BY <2>2
<1> QED
  BY <1>5, <1>8, <1>9, <1>12, <1>13 DEF Diverse, r, x

LEMMA AllDiverse ==
  ASSUME SelectionTypeOK
  PROVE  \A k \in Nat : Diverse(k, SelectLineages[k])
<1> DEFINE Wrong == {k \in Nat : ~Diverse(k, SelectLineages[k])}
<1> SUFFICES ASSUME Wrong # {} PROVE FALSE
  OBVIOUS
<1>1. PICK m \in Wrong : \A n \in Wrong : m <= n
  BY LeastNumber
<1>2. m # 0
  <2>1. Diverse(0, <<>>)
    BY DEF Diverse, FirstOf, ToSet
  <2> QED
    BY <1>1, <2>1, SelectionProceeds
<1>3. m - 1 \in Nat /\ (m - 1) + 1 = m /\ ~ (m <= m - 1)
  BY <1>1, <1>2
<1>4. Diverse(m - 1, SelectLineages[m - 1])
  BY <1>1, <1>3
<1>5. Diverse((m - 1) + 1, SelectLineages[(m - 1) + 1])
  BY <1>3, <1>4, SelectionProceeds, DiverseProceeds
<1> QED
  BY <1>1, <1>3, <1>5

LEMMA SelectionImplies == SelectionTypeOK => SelectionDiverse
<1> SUFFICES ASSUME SelectionTypeOK PROVE SelectionDiverse
  OBVIOUS
<1>1. ASSUME NEW k \in 1 .. MaxSelected
      PROVE  /\ Diverse(k, SelectLineages[k])
             /\ k > 1 => SelectLineages[k - 1] = Front(SelectLineages[k])
  <2>1. k \in Nat /\ k - 1 \in Nat /\ (k - 1) + 1 = k
    BY <1>1, SelectionAssumption
  <2>2. /\ SelectLineages[k - 1] \in Seq(Candidates \cup {Novel})
        /\ SelectLineages[k] = Append(SelectLineages[k - 1],
                                      SelectNext(ToSet(SelectLineages[k - 1])))
    BY <2>1, SelectionProceeds
  <2>3. Front(SelectLineages[k]) = SelectLineages[k - 1]
    BY <2>2 DEF Front
  <2> QED
    BY <2>1, <2>3, AllDiverse
<1> QED
  BY <1>1, NotAllZero DEF SelectionDiverse, Diverse, Populated, FirstOf

\* Lineages are diverse over any archive, with any evidence, and the default
\* weights never find every score zero.
THEOREM SelectionsAreDiverse == SelectionSpec => []SelectionDiverse
BY SelectionStarts, SelectionKeeps, SelectionImplies, PTL DEF SelectionSpec

-----------------------------------------------------------------------------
(***************************************************************************)
(* The five together, as module MCCycle runs them.                         *)
(***************************************************************************)
CycleInv == CrawlHolds /\ GateInv /\ GenVerInv /\ LadderInv /\ SelectionTypeOK

LEMMA CycleStarts == MCInit => CycleInv
BY CrawlHoldsFirst, GateInvInit, GenVerStarts, LadderStarts, SelectionStarts
   DEF MCInit, CycleInv

LEMMA EachPartOfTheCycle ==
    ASSUME [MCNext]_allVars
    PROVE  /\ [CrawlNext]_crawlVars
           /\ [GateNext]_gateVars
           /\ [GenVerNext]_genverVars
           /\ [FidelityNext]_fidelityVars
           /\ [SelectionNext]_selectionVars
BY DEF MCNext, allVars

LEMMA CycleStep == CycleInv /\ [MCNext]_allVars => CycleInv'
BY EachPartOfTheCycle, CrawlHoldsNext, GateInvNext, GenVerStepKeeps, LadderStep,
   SelectionKeeps
   DEF CycleInv

LEMMA CycleInvariant == MCSpec => []CycleInv
BY CycleStarts, CycleStep, PTL DEF MCSpec

\* Discoveries, cycles, generators, ladders and selections keep their types
\* side by side.
THEOREM CycleTypesCorrect == MCSpec => []CycleTypeOK
<1>1. CycleInv => CycleTypeOK
  <2> SUFFICES ASSUME CycleInv PROVE CycleTypeOK
    OBVIOUS
  <2>1. CrawlTypeOK
    BY CrawlFitsImplies DEF CycleInv, CrawlHolds
  <2>2. GateTypeOK /\ GenVerTypeOK /\ FidelityTypeOK /\ SelectionTypeOK
    BY DEF CycleInv, GateInv, GenVerInv, LadderInv
  <2> QED
    BY <2>1, <2>2 DEF CycleTypeOK
<1> QED
  BY <1>1, CycleInvariant, PTL
=============================================================================
