------------------------------ MODULE GateCycle ------------------------------
(***************************************************************************)
(* Concurrent cycles of gates and the checkpoints they resume from         *)
(* (factory/state_machine/concurrency.py and checkpoint.py).               *)
(*                                                                         *)
(* run_cycles_concurrently opens a task group with one task per cycle, and *)
(* each of those a task group with one task per gate.  A gate that raises  *)
(* ends its group, the group that raises ends the outer one, and what the  *)
(* other gates had returned is gone.  The caller loads one checkpoint per  *)
(* cycle, runs the gates its resume plan names and saves what completed;   *)
(* no caller in the repository does all three, so that order is external.  *)
(* The process may be killed at any step.                                  *)
(***************************************************************************)
EXTENDS Integers, FiniteSets

CONSTANTS
    Cycles,         \* cycles that run together
    Gates,          \* canonical_gate_order
    Interruptions,  \* bound: kills, and runs in which a gate raises
    SkipBound       \* bound: how many gates are skipped, once each

ASSUME GateAssumption ==
    /\ IsFiniteSet(Cycles) /\ IsFiniteSet(Gates)
    /\ {Interruptions, SkipBound} \subseteq Nat

VARIABLES
    checkpoint,     \* completed_gates in the checkpoint file of each cycle
    driver,         \* what the caller is doing
    gateTask,       \* the task of each gate of each cycle
    written,        \* cycles whose temporary file is complete
    starts,         \* history: how often a gate was executed
    skipped,        \* history: how often a gate returned "skipped"
    interrupted     \* history: kills, and runs that raised

gateVars == <<checkpoint, driver, gateTask, written, starts, skipped, interrupted>>

Unfinished == {"created", "running"}
Completed == {"passed", "failed"}
Terminal == Completed \cup {"skipped", "raised", "cancelled"}
NoTasks == [c \in Cycles |-> [g \in Gates |-> "none"]]
Never == [c \in Cycles |-> [g \in Gates |-> 0]]

GateTypeOK ==
    /\ checkpoint \in [Cycles -> SUBSET Gates]
    /\ driver \in {"idle", "running", "saving"}
    /\ gateTask \in [Cycles -> [Gates -> {"none"} \cup Unfinished \cup Terminal]]
    /\ written \subseteq Cycles
    /\ starts \in [Cycles -> [Gates -> Nat]]
    /\ skipped \in [Cycles -> [Gates -> {0, 1}]]
    /\ interrupted \in 0 .. Interruptions

GateInit ==
    /\ checkpoint = [c \in Cycles |-> {}]
    /\ driver = "idle"
    /\ gateTask = NoTasks
    /\ written = {}
    /\ starts = Never /\ skipped = Never /\ interrupted = 0

\* Mutant: the plan names every gate.
PendingGatesAll(c) == Gates

\* build_resume_plan: the gates that the checkpoint does not list.
PendingGates(c) == Gates \ checkpoint[c]

\* load_checkpoint and build_resume_plan for each cycle, then create_task for
\* each pending gate.
BeginRun ==
    /\ driver = "idle"
    /\ \E c \in Cycles : PendingGates(c) # {}
    /\ driver' = "running"
    /\ gateTask' = [c \in Cycles |-> [g \in Gates |->
           IF g \in PendingGates(c) THEN "created" ELSE "none"]]
    /\ UNCHANGED <<checkpoint, written, starts, skipped, interrupted>>

StartGate(c, g) ==
    /\ gateTask[c][g] = "created"
    /\ gateTask' = [gateTask EXCEPT ![c][g] = "running"]
    /\ starts' = [starts EXCEPT ![c][g] = @ + 1]
    /\ UNCHANGED <<checkpoint, driver, written, skipped, interrupted>>

SkipsLeft(c, g) ==
    /\ skipped[c][g] = 0
    /\ Cardinality({p \in Cycles \X Gates : skipped[p[1]][p[2]] > 0}) < SkipBound

GateReturns(c, g) ==
    /\ gateTask[c][g] = "running"
    /\ \/ /\ \E status \in Completed : gateTask' = [gateTask EXCEPT ![c][g] = status]
          /\ UNCHANGED skipped
       \/ /\ SkipsLeft(c, g)
          /\ gateTask' = [gateTask EXCEPT ![c][g] = "skipped"]
          /\ skipped' = [skipped EXCEPT ![c][g] = @ + 1]
    /\ UNCHANGED <<checkpoint, driver, written, starts, interrupted>>

GateRaises(c, g) ==
    /\ gateTask[c][g] = "running"
    /\ interrupted < Interruptions
    /\ gateTask' = [gateTask EXCEPT ![c][g] = "raised"]
    /\ UNCHANGED <<checkpoint, driver, written, starts, skipped, interrupted>>

Raised(c) == \E g \in Gates : gateTask[c][g] = "raised"
Ended(c) == \A g \in Gates : gateTask[c][g] \notin Unfinished
Cancelled(c) ==
    [g \in Gates |-> IF gateTask[c][g] \in Unfinished THEN "cancelled" ELSE gateTask[c][g]]

\* The done callback of the gate that raised cancels the rest of its group.
\* Until it runs, the other gates go on.
AbortCycle(c) ==
    /\ Raised(c) /\ ~Ended(c)
    /\ gateTask' = [gateTask EXCEPT ![c] = Cancelled(c)]
    /\ UNCHANGED <<checkpoint, driver, written, starts, skipped, interrupted>>

\* A cycle that ended with an exception cancels the others.
AbortOthers(c) ==
    /\ Raised(c) /\ Ended(c)
    /\ \E d \in Cycles : ~Ended(d)
    /\ gateTask' = [d \in Cycles |-> Cancelled(d)]
    /\ UNCHANGED <<checkpoint, driver, written, starts, skipped, interrupted>>

\* The exception group leaves run_cycles_concurrently: no result is returned,
\* not even of the cycles that had completed.
RunRaises ==
    /\ driver = "running"
    /\ \A c \in Cycles : Ended(c)
    /\ \E c \in Cycles : Raised(c)
    /\ driver' = "idle"
    /\ gateTask' = NoTasks
    /\ interrupted' = interrupted + 1
    /\ UNCHANGED <<checkpoint, written, starts, skipped>>

RunReturns ==
    /\ driver = "running"
    /\ \A c \in Cycles : Ended(c) /\ ~Raised(c)
    /\ driver' = "saving"
    /\ UNCHANGED <<checkpoint, gateTask, written, starts, skipped, interrupted>>

\* CycleTaskResult.completed_gates: a skipped gate has not completed.
CompletedGates(c) == {g \in Gates : gateTask[c][g] \in Completed}

\* save_checkpoint: a temporary file of its own name, then os.replace.
WriteCheckpoint(c) ==
    /\ driver = "saving"
    /\ gateTask[c] # NoTasks[c]
    /\ c \notin written
    /\ written' = written \cup {c}
    /\ UNCHANGED <<checkpoint, driver, gateTask, starts, skipped, interrupted>>

ReplaceCheckpoint(c) ==
    /\ c \in written
    /\ checkpoint' = [checkpoint EXCEPT ![c] = @ \cup CompletedGates(c)]
    /\ written' = written \ {c}
    /\ gateTask' = [gateTask EXCEPT ![c] = NoTasks[c]]
    /\ UNCHANGED <<driver, starts, skipped, interrupted>>

Saved ==
    /\ driver = "saving"
    /\ gateTask = NoTasks
    /\ driver' = "idle"
    /\ UNCHANGED <<checkpoint, gateTask, written, starts, skipped, interrupted>>

\* A temporary file that is not yet replaced stays behind and is never read.
KillCycles ==
    /\ driver # "idle"
    /\ interrupted < Interruptions
    /\ driver' = "idle"
    /\ gateTask' = NoTasks
    /\ written' = {}
    /\ interrupted' = interrupted + 1
    /\ UNCHANGED <<checkpoint, starts, skipped>>

GateStep ==
    \/ RunRaises \/ RunReturns \/ Saved
    \/ \E c \in Cycles :
         \/ AbortCycle(c) \/ AbortOthers(c) \/ WriteCheckpoint(c) \/ ReplaceCheckpoint(c)
         \/ \E g \in Gates : StartGate(c, g) \/ GateReturns(c, g)

GateNext ==
    \/ BeginRun \/ GateStep \/ KillCycles
    \/ \E c \in Cycles, g \in Gates : GateRaises(c, g)

\* The event loop runs every task that is ready, and a gate returns at last.
GateFairness == WF_gateVars(BeginRun) /\ WF_gateVars(GateStep)
GateSpec == GateInit /\ [][GateNext]_gateVars /\ GateFairness

-----------------------------------------------------------------------------
(***************************************************************************)
(* Properties.                                                             *)
(***************************************************************************)
\* "completed gates are never replayed on resume": a gate is executed once,
\* and once more only for each run that was killed or raised and for each
\* time it was skipped; a gate is in a checkpoint only when one of its
\* executions ended other than by a skip.
GatesRunOnce ==
    \A c \in Cycles, g \in Gates :
        /\ starts[c][g] <= 1 + interrupted + skipped[c][g]
        /\ g \in checkpoint[c] => starts[c][g] > skipped[c][g]

\* The gates of every cycle are completed at last, whatever was killed,
\* raised or skipped on the way.
GatesComplete == <>[](\A c \in Cycles : checkpoint[c] = Gates)
=============================================================================
