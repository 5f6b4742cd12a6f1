------------------------------- MODULE Budget -------------------------------
(***************************************************************************)
(* The budget governor (factory/budget/api.py): BudgetTracker and the      *)
(* Reservation handles it gives out.                                       *)
(*                                                                         *)
(* Every public method runs under one threading.Lock, so the methods do    *)
(* not interleave with one another, except halt_program, which an operator *)
(* may call and which takes no lock.  What does interleave with a method   *)
(* is the end of the process: a method changes memory first and then       *)
(* writes the halt sentinel, the ledger line and state.json one after the  *)
(* other.  `op` is the method that holds the lock and the write it is at;  *)
(* each write is a step, a write may raise, and the process may be killed  *)
(* between any two of them.                                                *)
(*                                                                         *)
(* A cost is a function from the surfaces a tier counts (dollars, tokens,  *)
(* wall clock) to naturals; the program tier counts dollars only.          *)
(***************************************************************************)
EXTENDS Integers, FiniteSets

CONSTANTS
    Clients,        \* threads that call the tracker
    Hyps,           \* hypothesis ids
    Surfaces,       \* what a cost is counted in, "dollars" among them
    Costs,          \* the estimates and the actual costs of operations
    MaxCost,        \* a bound on the dollars of one operation
    HypCaps,        \* the caps a hypothesis may be opened with
    ConfigAggCap,   \* aggregate cap of budget.yaml (dollars)
    ConfigDayCap,   \* day caps of budget.yaml, one per surface
    AggCaps,        \* values an operator may set the aggregate cap to
    TierCaps,       \* values an operator may set a day or hypothesis cap to
    Fuels,          \* bounds: how many events of each kind, see Limited
    None            \* "no reservation" and "lock free"

\* The events that would grow the state without bound.
Limited == {"records", "crashes", "errors", "setcaps", "halts", "days"}

Cost == [Surfaces -> Nat]
HypCap == [surf : Cost, iterations : Nat]

ASSUME CostAssumption ==
    /\ "dollars" \in Surfaces
    /\ Costs \subseteq Cost
    /\ MaxCost \in Nat
    /\ \A c \in Costs : c["dollars"] <= MaxCost
    /\ HypCaps \subseteq HypCap
ASSUME CapAssumption ==
    /\ ConfigAggCap \in Nat
    /\ ConfigDayCap \in Cost
    /\ AggCaps \subseteq Nat
    /\ TierCaps \subseteq Nat
ASSUME FuelAssumption == Fuels \subseteq [Limited -> Nat]
ASSUME ClientAssumption == IsFiniteSet(Clients) /\ Clients # {}

Kinds == {"open", "check", "record", "iterate", "setcap", "close"}
Steps == {"sentinel", "append", "unlink", "save"}
Op == [kind : Kinds, step : Steps, hyp : Hyps \cup {None}, dollars : Nat]
Reservation == [hyp : Hyps, est : Costs]
Account == [cap : HypCap, used : Cost, iters : Nat]
Totals == [agg : Nat, window : Nat, day : Cost,
           hyp : [Hyps -> Account \cup {None}]]

ASSUME NoneAssumption ==
    None \notin Hyps \cup Op \cup Reservation \cup Account

VARIABLES
    tot,        \* running totals in memory: program, day window, hypotheses
    halted,     \* _program_halted
    aggCap,     \* _aggregate_dollar_cap
    dayCap,     \* _day_cap_dollars, _day_cap_tokens, _day_cap_wall_clock
    resv,       \* _reservations: what each client holds
    op,         \* the method that holds _lock and the write it has come to
    ext,        \* an operator's halt_program: "none", or flag set, file not
    saved,      \* state.json
    sentinel,   \* does _control/HALT_AGGREGATE_CAP exist
    ledger,     \* dollars in ledger.jsonl, summed over its lines
    today,      \* the UTC date
    fuel        \* what is left of each bound

\* History variables: they record what happened and guard nothing.
VARIABLES
    acked,      \* dollars of the record() calls that have returned
    ackedToday, \* those of them charged to the day that is now `today`
    iterAcked,  \* record_iteration() calls that returned, per hypothesis
    unreserved, \* dollars charged beyond any reservation held for them
    capHigh,    \* the highest aggregate cap that was ever in force
    standing    \* a halt was written in full and no clear came with or after it

memory == <<tot, halted, aggCap, dayCap, resv, op, ext>>
disk == <<saved, sentinel, ledger>>
history == <<acked, ackedToday, iterAcked, unreserved, capHigh, standing>>
vars == <<memory, disk, today, fuel, history>>

-----------------------------------------------------------------------------
Zero == [s \in Surfaces |-> 0]
Add(u, c) == [s \in Surfaces |-> u[s] + c[s]]
Fits(u, c, cap) == \A s \in Surfaces : u[s] + c[s] <= cap[s]
Greater(a, b) == IF a > b THEN a ELSE b

Opened(t) == {h \in Hyps : t.hyp[h] # None}

\* A bounded event uses up one unit of its fuel.
Burn(kind) ==
    /\ fuel[kind] > 0
    /\ fuel' = [fuel EXCEPT ![kind] = @ - 1]

\* _lazy_reset_day: a new UTC date zeroes the day's totals.
LazyReset(t) ==
    IF t.window = today THEN t
    ELSE [t EXCEPT !.window = today, !.day = Zero]

\* Mutant: a charge makes a total for a hypothesis that has no caps.
ChargeMakesTotal(account, c) ==
    IF account = None THEN [used |-> c, iters |-> 0]
    ELSE [account EXCEPT !.used = Add(account.used, c)]

ChargeAccount(account, c) ==
    IF account = None THEN None
    ELSE [account EXCEPT !.used = Add(account.used, c)]

\* Mutant: the program is charged only for what no hypothesis pays.
ChargeOneTier(t, h, c) ==
    [agg |-> t.agg + (IF t.hyp[h] = None THEN c["dollars"] ELSE 0),
     window |-> t.window,
     day |-> t.day,
     hyp |-> [t.hyp EXCEPT ![h] = ChargeAccount(@, c)]]

\* The running totals after a charge.  Iterations are not charged here, and
\* a hypothesis that was never opened has no total of its own.
Charge(t, h, c) ==
    [agg |-> t.agg + c["dollars"],
     window |-> t.window,
     day |-> Add(t.day, c),
     hyp |-> [t.hyp EXCEPT ![h] = ChargeAccount(@, c)]]

WithAccount(t, h, account) == [t EXCEPT !.hyp = [t.hyp EXCEPT ![h] = account]]

\* An account whose cap in dollars was changed; what it has used stays.
Recapped(account, dollars) ==
    [cap |-> [surf |-> [account.cap.surf EXCEPT !["dollars"] = dollars],
              iterations |-> account.cap.iterations],
     used |-> account.used,
     iters |-> account.iters]

Holding(kind, step, h, d) ==
    [kind |-> kind, step |-> step, hyp |-> h, dollars |-> d]

Init ==
    /\ tot = [agg |-> 0, window |-> 0, day |-> Zero, 
              hyp |-> [h \in Hyps |-> None]]
    /\ halted = FALSE
    /\ aggCap = ConfigAggCap
    /\ dayCap = ConfigDayCap
    /\ resv = [c \in Clients |-> None]
    /\ op = None
    /\ ext = "none"
    /\ saved = [halted |-> FALSE, aggCap |-> ConfigAggCap, tot |-> tot]
    /\ sentinel = FALSE
    /\ ledger = 0
    /\ today = 0
    /\ fuel \in Fuels
    /\ acked = 0
    /\ ackedToday = 0
    /\ iterAcked = [h \in Hyps |-> 0]
    /\ unreserved = 0
    /\ capHigh = ConfigAggCap
    /\ standing = FALSE

-----------------------------------------------------------------------------
\* open_hypothesis: sets the caps and zeroes the totals, also of a
\* hypothesis that is already open.
OpenHypothesis(h, cap) ==
    /\ op = None
    /\ tot' = WithAccount(tot, h, [cap |-> cap, used |-> Zero, iters |-> 0])
    /\ op' = Holding("open", "save", h, 0)
    /\ iterAcked' = [iterAcked EXCEPT ![h] = 0]
    /\ UNCHANGED <<halted, aggCap, dayCap, resv, ext, disk, today, fuel,
                   acked, ackedToday, unreserved, capHigh, standing>>

\* close_hypothesis: writes state.json and reads the ledger; the caps stay.
CloseHypothesis(h) ==
    /\ op = None
    /\ op' = Holding("close", "save", h, 0)
    /\ UNCHANGED <<tot, halted, aggCap, dayCap, resv, ext, disk, today, fuel,
                   history>>

-----------------------------------------------------------------------------
\* check_and_deduct, in the order of its checks.
HaltActive == halted \/ sentinel
\* Mutant: the check leaves out the estimate.
AggregateFitsSpent(t, est) == t.agg <= aggCap

AggregateFits(t, est) == t.agg + est["dollars"] <= aggCap
DayFits(t, est) == Fits(t.day, est, dayCap)
HypothesisFits(t, h, est, iters) ==
    h \in Opened(t) =>
        /\ Fits(t.hyp[h].used, est, t.hyp[h].cap.surf)
        /\ t.hyp[h].iters + iters <= t.hyp[h].cap.iterations

\* A check that raises: a halt is active, or a day or hypothesis cap would be
\* passed.  It still moves the day window.
CheckRefused(h, est, iters) ==
    /\ op = None
    /\ tot' = LazyReset(tot)
    /\ \/ HaltActive
       \/ /\ AggregateFits(tot', est)
          /\ ~ (DayFits(tot', est) /\ HypothesisFits(tot', h, est, iters))
    /\ UNCHANGED <<halted, aggCap, dayCap, resv, op, ext, disk, today, fuel,
                   history>>

\* A check that would pass the aggregate cap halts the program and raises.
CheckTripsAggregate(h, est) ==
    /\ op = None
    /\ ~ HaltActive
    /\ tot' = LazyReset(tot)
    /\ ~ AggregateFits(tot', est)
    /\ halted' = TRUE
    /\ op' = Holding("check", "sentinel", h, 0)
    /\ UNCHANGED <<aggCap, dayCap, resv, ext, disk, today, fuel, history>>

\* A check that passes adds a reservation, which no later check looks at.
CheckGranted(c, h, est, iters) ==
    /\ op = None
    /\ resv[c] = None
    /\ ~ HaltActive
    /\ tot' = LazyReset(tot)
    /\ AggregateFits(tot', est)
    /\ DayFits(tot', est)
    /\ HypothesisFits(tot', h, est, iters)
    /\ resv' = [resv EXCEPT ![c] = [hyp |-> h, est |-> est]]
    /\ UNCHANGED <<halted, aggCap, dayCap, op, ext, disk, today, fuel,
                   history>>

\* Reservation.cancel -> _release_reservation.
Cancel(c) ==
    /\ op = None
    /\ resv[c] # None
    /\ resv' = [resv EXCEPT ![c] = None]
    /\ UNCHANGED <<tot, halted, aggCap, dayCap, op, ext, disk, today, fuel,
                   history>>

-----------------------------------------------------------------------------
\* record, up to its first write: the totals are charged whatever the caps
\* say, and a program total above its cap sets the halt flag.
BeginRecord(h, cost) ==
    /\ op = None
    /\ Burn("records")
    /\ tot' = Charge(LazyReset(tot), h, cost)
    /\ LET over == tot'.agg > aggCap IN
         /\ halted' = (halted \/ over)
         /\ op' = Holding("record", IF over THEN "sentinel" ELSE "append",
                          h, cost["dollars"])
    /\ UNCHANGED <<aggCap, dayCap, ext, disk, today,
                   acked, ackedToday, iterAcked, capHigh, standing>>

\* Reservation.commit: record with the reservation, which is released.
Commit(c, cost) ==
    /\ resv[c] # None
    /\ BeginRecord(resv[c].hyp, cost)
    /\ resv' = [resv EXCEPT ![c] = None]
    /\ unreserved' = unreserved +
           Greater(0, cost["dollars"] - resv[c].est["dollars"])

\* record without a reservation (the council's call_llm, the strategy
\* archive's guide model), or with one that was released before.
RecordDirect(h, cost) ==
    /\ BeginRecord(h, cost)
    /\ unreserved' = unreserved + cost["dollars"]
    /\ UNCHANGED resv

\* record_iteration below the cap; at the cap it raises and changes nothing.
RecordIteration(h) ==
    /\ op = None
    /\ h \in Opened(tot)
    /\ tot.hyp[h].iters + 1 <= tot.hyp[h].cap.iterations
    /\ tot' = WithAccount(tot, h, [tot.hyp[h] EXCEPT !.iters = @ + 1])
    /\ op' = Holding("iterate", "save", h, 0)
    /\ UNCHANGED <<halted, aggCap, dayCap, resv, ext, disk, today, fuel,
                   history>>

\* remaining: reads the headroom, and moves the day window.
Remaining ==
    /\ op = None
    /\ tot' = LazyReset(tot)
    /\ UNCHANGED <<halted, aggCap, dayCap, resv, op, ext, disk, today, fuel,
                   history>>

-----------------------------------------------------------------------------
\* set_cap: the aggregate cap, the day's and an open hypothesis' dollars, and
\* clear_halt, which takes the flag back and goes on to the sentinel.
SetCap(agg, day, h, dollars, clear) ==
    /\ op = None
    /\ Burn("setcaps")
    /\ aggCap' = agg
    /\ dayCap' = [dayCap EXCEPT !["dollars"] = day]
    /\ tot' = IF h \in Opened(tot)
              THEN WithAccount(tot, h, Recapped(tot.hyp[h], dollars))
              ELSE tot
    /\ capHigh' = Greater(capHigh, agg)
    /\ halted' = (halted /\ ~clear)
    /\ standing' = (standing /\ ~clear)
    /\ op' = Holding("setcap", IF clear THEN "unlink" ELSE "save", None, 0)
    /\ UNCHANGED <<resv, ext, disk, today,
                   acked, ackedToday, iterAcked, unreserved>>

\* halt_program as an operator calls it: no lock, first the flag ...
OperatorHaltFlag ==
    /\ ext = "none"
    /\ Burn("halts")
    /\ halted' = TRUE
    /\ ext' = "flagged"
    /\ UNCHANGED <<tot, aggCap, dayCap, resv, op, disk, today, history>>

\* ... and then the file.  A file that is written while set_cap(clear_halt)
\* is on its way to the unlink may be taken away again: that halt promises
\* nothing.  Any other stands.
Clearing == op # None /\ op.step = "unlink"

OperatorHaltFile ==
    /\ ext = "flagged"
    /\ sentinel' = TRUE
    /\ ext' = "none"
    /\ standing' = (standing \/ ~Clearing)
    /\ UNCHANGED <<tot, halted, aggCap, dayCap, resv, op, saved, ledger,
                   today, fuel, acked, ackedToday, iterAcked, unreserved,
                   capHigh>>

\* The directory or the file cannot be made: halt_program raises and leaves
\* its flag in memory only.
OperatorHaltFails ==
    /\ ext = "flagged"
    /\ Burn("errors")
    /\ ext' = "none"
    /\ UNCHANGED <<tot, halted, aggCap, dayCap, resv, op, disk, today, history>>

-----------------------------------------------------------------------------
\* The writes of the method that holds the lock.

\* Mutant: a record that halts the program goes on without its ledger line.
WriteSentinelThenSave ==
    /\ op # None
    /\ op.step = "sentinel"
    /\ sentinel' = TRUE
    /\ standing' = TRUE
    /\ op' = IF op.kind = "record" THEN [op EXCEPT !.step = "save"] ELSE None
    /\ UNCHANGED <<tot, halted, aggCap, dayCap, resv, ext, saved, ledger,
                   today, fuel, acked, ackedToday, iterAcked, unreserved,
                   capHigh>>

\* Mutant: the sentinel file is not written.
WriteSentinelInMemory ==
    /\ op # None
    /\ op.step = "sentinel"
    /\ standing' = TRUE
    /\ op' = IF op.kind = "record" THEN [op EXCEPT !.step = "append"]
             ELSE None
    /\ UNCHANGED <<tot, halted, aggCap, dayCap, resv, ext, sentinel, saved,
                   ledger, today, fuel, acked, ackedToday, iterAcked,
                   unreserved, capHigh>>

WriteSentinel ==
    /\ op # None
    /\ op.step = "sentinel"
    /\ sentinel' = TRUE
    /\ standing' = TRUE
    /\ op' = IF op.kind = "record" THEN [op EXCEPT !.step = "append"]
             ELSE None
    /\ UNCHANGED <<tot, halted, aggCap, dayCap, resv, ext, saved, ledger,
                   today, fuel, acked, ackedToday, iterAcked, unreserved,
                   capHigh>>

AppendLedger ==
    /\ op # None
    /\ op.step = "append"
    /\ ledger' = ledger + op.dollars
    /\ op' = [op EXCEPT !.step = "save"]
    /\ UNCHANGED <<tot, halted, aggCap, dayCap, resv, ext, saved, sentinel,
                   today, fuel, history>>

\* The unlink of clear_halt; an unlink that fails is logged and passed over.
UnlinkSentinel ==
    /\ op # None
    /\ op.step = "unlink"
    /\ \/ sentinel' = FALSE /\ UNCHANGED fuel
       \/ sentinel' = sentinel /\ Burn("errors")
    /\ op' = [op EXCEPT !.step = "save"]
    /\ UNCHANGED <<tot, halted, aggCap, dayCap, resv, ext, saved, ledger,
                   today, history>>

\* _save_state replaces state.json in one rename; then the method returns.
SaveState ==
    /\ op # None
    /\ op.step = "save"
    /\ saved' = [halted |-> halted, aggCap |-> aggCap, tot |-> tot]
    /\ op' = None
    /\ acked' = acked + op.dollars
    /\ ackedToday' = IF tot.window = today THEN ackedToday + op.dollars
                     ELSE ackedToday
    /\ iterAcked' = IF op.kind = "iterate"
                    THEN [iterAcked EXCEPT ![op.hyp] = @ + 1] ELSE iterAcked
    /\ UNCHANGED <<tot, halted, aggCap, dayCap, resv, ext, sentinel, ledger,
                   today, fuel, unreserved, capHigh, standing>>

\* A write raises: the method ends there, its change to memory stays.
DiskError ==
    /\ op # None
    /\ op.step # "unlink"
    /\ Burn("errors")
    /\ op' = None
    /\ UNCHANGED <<tot, halted, aggCap, dayCap, resv, ext, disk, today,
                   history>>

-----------------------------------------------------------------------------
\* Mutant: the day's totals start from nothing after a restart.
RestartForgetsDay ==
    /\ Burn("crashes")
    /\ tot' = [saved.tot EXCEPT !.day = Zero]
    /\ halted' = (saved.halted \/ sentinel)
    /\ aggCap' = ConfigAggCap
    /\ dayCap' = ConfigDayCap
    /\ resv' = [c \in Clients |-> None]
    /\ op' = None
    /\ ext' = "none"
    /\ UNCHANGED <<disk, today, history>>

\* The process is killed at any point and a new BudgetTracker is built:
\* totals and the halt flag come from state.json, the caps of the program
\* and of the day from budget.yaml; the ledger's lines are not added up.
CrashRestart ==
    /\ Burn("crashes")
    /\ tot' = saved.tot
    /\ halted' = (saved.halted \/ sentinel)
    /\ aggCap' = ConfigAggCap
    /\ dayCap' = ConfigDayCap
    /\ resv' = [c \in Clients |-> None]
    /\ op' = None
    /\ ext' = "none"
    /\ UNCHANGED <<disk, today, history>>

\* Midnight UTC.
DayTick ==
    /\ Burn("days")
    /\ today' = today + 1
    /\ ackedToday' = 0
    /\ UNCHANGED <<memory, disk, acked, iterAcked, unreserved, capHigh,
                   standing>>

-----------------------------------------------------------------------------
Hypotheses ==
    \E h \in Hyps :
        \/ \E cap \in HypCaps : OpenHypothesis(h, cap)
        \/ CloseHypothesis(h)
        \/ RecordIteration(h)

Checks ==
    \E h \in Hyps, est \in Costs :
        \/ \E iters \in {0, 1} :
              \/ CheckRefused(h, est, iters)
              \/ \E c \in Clients : CheckGranted(c, h, est, iters)
        \/ CheckTripsAggregate(h, est)

Charges ==
    \E cost \in Costs :
        \/ \E c \in Clients : Commit(c, cost)
        \/ \E h \in Hyps : RecordDirect(h, cost)

Operator ==
    \/ \E agg \in AggCaps \cup {aggCap},
          day \in TierCaps \cup {dayCap["dollars"]},
          h \in Hyps \cup {None}, dollars \in TierCaps, clear \in BOOLEAN :
              SetCap(agg, day, h, dollars, clear)
    \/ OperatorHaltFlag
    \/ OperatorHaltFile
    \/ OperatorHaltFails

Writes ==
    \/ WriteSentinel
    \/ AppendLedger
    \/ UnlinkSentinel
    \/ SaveState
    \/ DiskError

Next ==
    \/ Hypotheses
    \/ Checks
    \/ Charges
    \/ \E c \in Clients : Cancel(c)
    \/ Remaining
    \/ Operator
    \/ Writes
    \/ CrashRestart
    \/ DayTick

Spec == Init /\ [][Next]_vars

-----------------------------------------------------------------------------
TypeOK ==
    /\ tot \in Totals
    /\ halted \in BOOLEAN
    /\ aggCap \in Nat
    /\ dayCap \in Cost
    /\ resv \in [Clients -> Reservation \cup {None}]
    /\ op \in Op \cup {None}
    /\ ext \in {"none", "flagged"}
    /\ saved \in [halted : BOOLEAN, aggCap : Nat, tot : Totals]
    /\ sentinel \in BOOLEAN
    /\ ledger \in Nat
    /\ today \in Nat
    /\ fuel \in [Limited -> Nat]
    /\ acked \in Nat
    /\ ackedToday \in Nat
    /\ iterAcked \in [Hyps -> Nat]
    /\ unreserved \in Nat
    /\ capHigh \in Nat
    /\ standing \in BOOLEAN

\* Spend whose record() call has returned is on disk twice, in state.json and
\* in the ledger, so that neither a crash nor a failed write of a later call
\* can make the tracker forget it: append comes before save, save before
\* return.
AckedSpendDurable ==
    /\ acked <= saved.tot.agg
    /\ acked <= ledger

\* Restarting does not give back the day's budget: what was charged to the
\* current day and acknowledged is counted against its cap from then on, over
\* lazy resets and restarts.
DayNotForgotten ==
    /\ ackedToday <= LazyReset(tot).day["dollars"]
    /\ ackedToday <= LazyReset(saved.tot).day["dollars"]

\* Iterations a hypothesis was told it may use stay within its cap, over
\* restarts: the counter is saved before record_iteration() returns.
IterationsWithinCap ==
    \A h \in Opened(tot) :
        /\ iterAcked[h] <= tot.hyp[h].iters
        /\ tot.hyp[h].iters <= tot.hyp[h].cap.iterations

\* What each tier was promised outlasts restarts and failed writes: the
\* program's spend, the day's budget and the iterations of each hypothesis.
PromisesOutlastRestarts ==
    /\ AckedSpendDurable
    /\ DayNotForgotten
    /\ IterationsWithinCap

\* Money enters and leaves the account of the tracker in the order that module
\* Spending lays down, whatever the checks, caps, halts and days do: record()
\* alone charges, its line is written before its total is saved, its total is
\* saved before it returns, and a restart reads the total back.
Recording == op # None /\ op.kind = "record"
Stage ==
    IF ~ Recording THEN "none"
    ELSE IF op.step = "save" THEN "written" ELSE "entered"

Books == INSTANCE Spending
    WITH Prices <- {c["dollars"] : c \in Costs},
         spent <- tot.agg,
         written <- ledger,
         stored <- saved.tot.agg,
         answered <- acked,
         stage <- Stage,
         price <- IF Recording THEN op.dollars ELSE 0
SpendingAccounted == Books!Spec

\* What the open hypotheses have spent together, counted in units: the n-th
\* dollar of each of them.
Units(t) == UNION {{h} \X (1 .. t.hyp[h].used["dollars"]) : h \in Opened(t)}
HypothesisDollars(t) == Cardinality(Units(t))

\* The tiers never contradict one another, in memory or on disk: the day and
\* the open hypotheses together account for no more than the program spent.
TiersAgree ==
    \A t \in {tot, saved.tot} :
        /\ t.day["dollars"] <= t.agg
        /\ HypothesisDollars(t) <= t.agg

\* check_and_deduct counts no reservation but its own, so reservations that
\* are out together may pass the aggregate cap together.  The damage is
\* bounded: by one operation for each client but the last to be checked, and
\* by what was charged without a reservation to cover it.  With one client at
\* a time the cap holds.
Outstanding == {c \in Clients : resv[c] # None}
Room == capHigh + MaxCost * (Cardinality(Clients) - 1) + unreserved

OvershootBounded == tot.agg <= Room

\* A halt whose sentinel was written while no clear was under way, by the
\* tracker itself or by halt_program without the lock, is never bypassed:
\* until the next set_cap(clear_halt) no reservation is granted, over crashes,
\* restarts and failed writes.  (A halt that meets a clear may lose its file to
\* the clear's unlink and then its flag to a crash.)
HaltNeverBypassed ==
    [][standing => \A c \in Clients : resv[c] = None => resv'[c] = None]_vars

-----------------------------------------------------------------------------
\* The specification of the module (docs/specs/013) says and the code does not
\* do: "Reservations exist purely to prevent two concurrent operations from each
\* independently passing the check and then jointly breaching the cap."
NoJointBreach == unreserved = 0 => tot.agg <= capHigh
=============================================================================
