----------------------------- MODULE AuditTail -----------------------------
(***************************************************************************)
(* A cycle's event log and the Aggregator that tails it                    *)
(* (factory/telemetry/api.py).                                             *)
(*                                                                         *)
(* Emitters append to cycle.jsonl under an flock, each through a file it   *)
(* opens for the one line; a line longer than the file's buffer reaches    *)
(* the disk in several writes.  The Aggregator takes no lock: it reads     *)
(* from the offset it has kept to the end of the file, counts the lines it *)
(* can parse, and keeps counters and offset in state.json, which it        *)
(* truncates and writes anew.  Any of these processes may be killed.       *)
(*                                                                         *)
(* An event is known by its number.  The log is the sequence of the writes *)
(* that reached it.                                                        *)
(***************************************************************************)
EXTENDS Integers, Sequences, FiniteSets, Functions

CONSTANTS
    Emitters,       \* processes that emit to this log
    Parts,          \* how many writes a line may take
    FlushEvery,     \* values of flush_every_n
    Events,         \* bound: events emitted
    EmitterKills,   \* bound: emitters killed
    AggKills,       \* bound: aggregators killed
    SaveErrors,     \* bound: errors of writing state.json
    Poisons,        \* sets of events whose payload _process_event cannot read
    Raises,         \* bound: polls that end in such an event
    Corrupt,        \* a state.json that does not parse
    None            \* lock free, no event

ASSUME TailAssumption ==
    /\ Parts \subseteq Nat \ {0}
    /\ FlushEvery \subseteq Nat \ {0}
    /\ Events \in Nat
    /\ {EmitterKills, AggKills, SaveErrors, Raises} \subseteq Nat
    /\ None \notin Emitters

VARIABLES
    parts,          \* per emitter: the writes its lines take
    flush_every_n,  \* of all emitters
    poison,     \* events with a payload that is null, or a cost that is a list
    log,        \* cycle.jsonl
    lock,       \* who holds the flock
    emitter,    \* per emitter: the line it is writing
    emitted,    \* events given out so far
    torn,       \* history: events whose emitter was killed
    agg,        \* the Aggregator's memory
    saved,      \* state.json
    saving,     \* whether the Aggregator is between its poll and its save
    kills       \* bound: what happened of each kind

config == <<parts, flush_every_n, poison>>
tailVars == <<config, log, lock, emitter, emitted, torn, agg, saved, saving, kills>>
aggVars == <<agg, saved, saving>>
emitVars == <<config, log, lock, emitter, emitted, torn>>

\* The part-th of the writes a line takes, `of` in all.
Chunk == [ev : 1 .. Events, part : Nat, of : Parts]
Line(ev, n) == [k \in 1 .. n |-> [ev |-> ev, part |-> k, of |-> n]]
Counters == [1 .. Events -> Nat]
Memory == [offset : Nat, counted : Counters]

Idle(written) == [at |-> "idle", ev |-> 0, buffer |-> <<>>, writes |-> written]
Blank == [offset |-> 0, counted |-> [ev \in 1 .. Events |-> 0]]

TailTypeOK ==
    /\ parts \in [Emitters -> Parts] /\ flush_every_n \in FlushEvery /\ poison \in Poisons
    /\ log \in Seq(Chunk)
    /\ lock \in Emitters \cup {None}
    /\ emitter \in [Emitters ->
          [at : {"idle", "locking", "flush", "unlock", "close"},
           ev : 0 .. Events, buffer : Seq(Chunk), writes : 0 .. Events]]
    /\ emitted \in 0 .. Events
    /\ torn \subseteq 1 .. Events
    /\ agg \in Memory
    /\ saved \in Memory \cup {Corrupt}
    /\ saving \in {"no", "truncate", "write"}
    /\ kills \in [{"emitter", "agg", "save", "raise"} -> Nat]

TailInit ==
    /\ parts \in [Emitters -> Parts] /\ flush_every_n \in FlushEvery /\ poison \in Poisons
    /\ log = <<>>
    /\ lock = None
    /\ emitter = [e \in Emitters |-> Idle(0)]
    /\ emitted = 0
    /\ torn = {}
    /\ agg = Blank
    /\ saved = Blank
    /\ saving = "no"
    /\ kills = [kind \in {"emitter", "agg", "save", "raise"} |-> 0]

-----------------------------------------------------------------------------
(***************************************************************************)
(* TelemetryEmitter._append_record.                                        *)
(***************************************************************************)
EmitterAt(e, place) == emitter[e].at = place

Emit(e) ==
    /\ EmitterAt(e, "idle")
    /\ emitted < Events
    /\ emitted' = emitted + 1
    /\ emitter' = [emitter EXCEPT ![e].at = "locking", ![e].ev = emitted + 1]
    /\ UNCHANGED <<config, log, lock, torn, aggVars, kills>>

\* f.write puts the line in the file's buffer; a flush is due every n-th time.
Due(count) == count % flush_every_n = 0

Lock(e) ==
    /\ EmitterAt(e, "locking")
    /\ lock = None
    /\ lock' = e
    /\ emitter' = [emitter EXCEPT ![e] =
          [at |-> IF Due(@.writes + 1) THEN "flush" ELSE "unlock",
           ev |-> @.ev, buffer |-> Line(@.ev, parts[e]), writes |-> @.writes + 1]]
    /\ UNCHANGED <<config, log, emitted, torn, aggVars, kills>>

\* LogFileLocked after five seconds; `emit` logs it and the event is lost.
GiveUp(e) ==
    /\ EmitterAt(e, "locking")
    /\ lock # None
    /\ emitter' = [emitter EXCEPT ![e] = Idle(@.writes)]
    /\ UNCHANGED <<config, log, lock, emitted, torn, aggVars, kills>>

\* One write of the buffer to the disk, by flush or by close.
WritePart(e) ==
    /\ EmitterAt(e, "flush") \/ EmitterAt(e, "close")
    /\ emitter[e].buffer # <<>>
    /\ log' = Append(log, Head(emitter[e].buffer))
    /\ emitter' = [emitter EXCEPT ![e].buffer = Tail(@)]
    /\ UNCHANGED <<config, lock, emitted, torn, aggVars, kills>>

Flushed(e) ==
    /\ EmitterAt(e, "flush")
    /\ emitter[e].buffer = <<>>
    /\ emitter' = [emitter EXCEPT ![e].at = "unlock"]
    /\ UNCHANGED <<config, log, lock, emitted, torn, aggVars, kills>>

\* finally: flock(LOCK_UN), then close, which writes what is still buffered.
Unlock(e) ==
    /\ EmitterAt(e, "unlock")
    /\ lock' = None
    /\ emitter' = [emitter EXCEPT ![e].at = "close"]
    /\ UNCHANGED <<config, log, emitted, torn, aggVars, kills>>

Closed(e) ==
    /\ EmitterAt(e, "close")
    /\ emitter[e].buffer = <<>>
    /\ emitter' = [emitter EXCEPT ![e] = Idle(@.writes)]
    /\ UNCHANGED <<config, log, lock, emitted, torn, aggVars, kills>>

\* The kernel drops the lock with the file; the buffer is gone.
KillEmitter(e) ==
    /\ ~EmitterAt(e, "idle")
    /\ kills["emitter"] < EmitterKills
    /\ kills' = [kills EXCEPT !["emitter"] = @ + 1]
    /\ torn' = torn \cup {emitter[e].ev}
    /\ emitter' = [emitter EXCEPT ![e] = Idle(0)]
    /\ lock' = IF lock = e THEN None ELSE lock
    /\ UNCHANGED <<config, log, emitted, aggVars>>

-----------------------------------------------------------------------------
(***************************************************************************)
(* Aggregator.                                                             *)
(***************************************************************************)
\* The line that starts at place i is that of one event, whole.
End(i) == i + log[i].of - 1
WholeAt(i) ==
    /\ End(i) <= Len(log)
    /\ SubSeq(log, i, End(i)) = Line(log[i].ev, log[i].of)

EndsLine(i) == log[i].part = log[i].of

\* Mutant: the first line after the offset is taken for the rest of a broken one.
StartsLineAfterFirst(i, offset) ==
    IF offset = 0 THEN i = 1 \/ EndsLine(i - 1)
    ELSE i > offset + 1 /\ EndsLine(i - 1)

\* Where readline finds a line's start when it reads on from an offset.
StartsLine(i, offset) == i = offset + 1 \/ EndsLine(i - 1)

Parsed(offset, ev) ==
    {i \in offset + 1 .. Len(log) :
        log[i].ev = ev /\ StartsLine(i, offset) /\ WholeAt(i)}

\* The lines after an offset on which _process_event raises.
Raising(offset) ==
    {i \in offset + 1 .. Len(log) :
        log[i].ev \in poison /\ StartsLine(i, offset) /\ WholeAt(i)}

\* _process_cycle_log reads on from its offset, or anew a file that has become
\* shorter; a line that does not parse is passed over, and the offset with it.
\* The first line that raises ends the reading: it and the lines before it are
\* counted, but the offset stays where it was.
From == IF Len(log) < agg.offset THEN 0 ELSE agg.offset

Reached(i) == \A r \in Raising(From) : i <= r

ProcessCycleLog ==
    agg' = [offset |-> IF Raising(From) = {} THEN Len(log) ELSE agg.offset,
            counted |-> [ev \in 1 .. Events |->
                agg.counted[ev] + Cardinality({i \in Parsed(From, ev) : Reached(i)})]]

\* A round of `run` ends with a save, also when there was nothing to read or
\* the reading raised, which is logged.
Poll ==
    /\ saving = "no"
    /\ \/ Raising(From) = {} /\ UNCHANGED kills
       \/ /\ Raising(From) # {} /\ kills["raise"] < Raises
          /\ kills' = [kills EXCEPT !["raise"] = @ + 1]
    /\ IF Len(log) = agg.offset THEN UNCHANGED agg ELSE ProcessCycleLog
    /\ saving' = "truncate"
    /\ UNCHANGED <<emitVars, saved>>

\* _save_state: open("w") empties the file, then the state is written.
TruncateState ==
    /\ saving = "truncate"
    /\ saved' = Corrupt
    /\ saving' = "write"
    /\ UNCHANGED <<emitVars, agg, kills>>

WriteState ==
    /\ saving = "write"
    /\ saved' = agg
    /\ saving' = "no"
    /\ UNCHANGED <<emitVars, agg, kills>>

\* An OSError of either is logged.
SaveFails ==
    /\ saving # "no"
    /\ kills["save"] < SaveErrors
    /\ kills' = [kills EXCEPT !["save"] = @ + 1]
    /\ saving' = "no"
    /\ UNCHANGED <<emitVars, agg, saved>>

\* Mutant: the offset restarts with the process, the counters come back.
LoadedWithoutOffset ==
    IF saved = Corrupt THEN Blank ELSE [saved EXCEPT !.offset = 0]

\* _load_state: a file that does not parse leaves the fields as __init__ set them.
Loaded == IF saved = Corrupt THEN Blank ELSE saved

RestartAggregator ==
    /\ kills["agg"] < AggKills
    /\ kills' = [kills EXCEPT !["agg"] = @ + 1]
    /\ agg' = Loaded
    /\ saving' = "no"
    /\ UNCHANGED <<emitVars, saved>>

Append_record(e) ==
    Lock(e) \/ WritePart(e) \/ Flushed(e) \/ Unlock(e) \/ Closed(e)
Emitting(e) == Emit(e) \/ Append_record(e) \/ GiveUp(e) \/ KillEmitter(e)
Aggregating == Poll \/ TruncateState \/ WriteState

TailNext ==
    \/ \E e \in Emitters : Emitting(e)
    \/ Aggregating \/ SaveFails \/ RestartAggregator

TailSpec == TailInit /\ [][TailNext]_tailVars

\* Aggregator.run is a loop that only ends with its process.
FairTailSpec == TailSpec /\ WF_tailVars(Aggregating)

-----------------------------------------------------------------------------
Whole(ev) == \E i \in 1 .. Len(log) : log[i].ev = ev /\ WholeAt(i)

\* A line that raises stands beyond what has been read: it stops the reading
\* there for good, and what comes before it is read anew at each poll.
Stuck == Raising(agg.offset) # {}

\* No event is counted without its whole line in the log, nor, unless the
\* Aggregator is stuck, twice, whatever the moment it is killed: counters and
\* offset are kept together.
CountedAtMostOnce ==
    \A ev \in 1 .. Events :
        /\ agg.counted[ev] <= 1 \/ Stuck
        /\ agg.counted[ev] >= 1 => Whole(ev)

\* A line of its own that reaches the file in one write.
Short(i) == log[i].of = 1 /\ (i = 1 \/ EndsLine(i - 1))

\* What the Aggregator has read past, it has counted, beside long lines that
\* are read when they are half there and events behind a line that was torn.
ReadMeansCounted ==
    \A i \in 1 .. Len(log) :
        Short(i) /\ i <= agg.offset => agg.counted[log[i].ev] >= 1

\* With a flush for each line the lock keeps a line in one piece: between its
\* writes no other emitter gets in, unless its emitter was killed before the
\* last.
LinesUnbroken ==
    flush_every_n = 1 =>
        \A i \in 1 .. Len(log) :
            ~EndsLine(i) /\ log[i].ev \notin torn =>
                i = Len(log) \/ log[i + 1] = [log[i] EXCEPT !.part = @ + 1]

\* A short line in the log is counted in the end, if the Aggregator is let run
\* and however often it is restarted, or else the reading is stuck.
LinesGetCounted ==
    \A ev \in 1 .. Events :
        (\E i \in 1 .. Len(log) : log[i].ev = ev /\ Short(i))
            ~> agg.counted[ev] >= 1 \/ Stuck

\* The log is counted once: no line twice but where one that raises follows it,
\* none that was read past left out, and none in pieces that its lock should
\* have kept together.
LogCountedOnce == CountedAtMostOnce /\ ReadMeansCounted /\ LinesUnbroken
=============================================================================
