----------------------------- MODULE BudgetProof -----------------------------
(***************************************************************************)
(* Proofs about Budget, for every value of its constants.                  *)
(***************************************************************************)
EXTENDS Budget, TLAPS, FiniteSetTheorems

USE DEF Limited, Kinds, Steps

-----------------------------------------------------------------------------
(* What the helpers on costs and totals return.                            *)

\* The dollars of a cost are a natural number no larger than MaxCost.
LEMMA CostDollars ==
    ASSUME NEW c \in Costs
    PROVE  c \in Cost /\ c["dollars"] \in Nat /\ c["dollars"] <= MaxCost
BY CostAssumption DEF Cost

\* Vectors of naturals are closed under addition.
LEMMA AddType ==
    ASSUME NEW u \in Cost, NEW c \in Cost
    PROVE  Add(u, c) \in Cost
BY DEF Cost, Add

LEMMA ZeroType == Zero \in Cost
BY DEF Zero, Cost

\* _lazy_reset_day keeps the program and hypothesis totals.
LEMMA LazyResetType ==
    ASSUME NEW t \in Totals, today \in Nat
    PROVE  /\ LazyReset(t) \in Totals
           /\ LazyReset(t).agg = t.agg
           /\ LazyReset(t).hyp = t.hyp
BY ZeroType DEF LazyReset, Totals

\* A charge raises the program total by the dollars charged.
LEMMA ChargeType ==
    ASSUME NEW t \in Totals, NEW h \in Hyps, NEW c \in Costs
    PROVE  /\ Charge(t, h, c) \in Totals
           /\ Charge(t, h, c).agg = t.agg + c["dollars"]
<1>1. c \in Cost /\ c["dollars"] \in Nat
  BY CostDollars
<1>2. Add(t.day, c) \in Cost
  BY <1>1, AddType DEF Totals
<1> DEFINE acc == ChargeAccount(t.hyp[h], c)
<1>3. acc \in Account \cup {None}
  <2>1. CASE t.hyp[h] = None
    BY <2>1 DEF ChargeAccount
  <2>2. CASE t.hyp[h] # None
    <3>1. t.hyp[h] \in Account
      BY <2>2 DEF Totals
    <3>2. Add(t.hyp[h].used, c) \in Cost
      BY <3>1, <1>1, AddType DEF Account
    <3>3. acc = [t.hyp[h] EXCEPT !.used = Add(t.hyp[h].used, c)]
      BY <2>2 DEF ChargeAccount
    <3>4. QED
      BY <3>1, <3>2, <3>3 DEF Account
  <2>3. QED
    BY <2>1, <2>2
<1>4. Charge(t, h, c) = [agg |-> t.agg + c["dollars"], window |-> t.window,
                         day |-> Add(t.day, c),
                         hyp |-> [t.hyp EXCEPT ![h] = acc]]
  BY DEF Charge
<1>5. QED
  BY <1>1, <1>2, <1>3, <1>4 DEF Totals

\* Changing one hypothesis' account leaves the other totals alone.
LEMMA WithAccountType ==
    ASSUME NEW t \in Totals, NEW h \in Hyps, NEW a \in Account
    PROVE  /\ WithAccount(t, h, a) \in Totals
           /\ WithAccount(t, h, a).agg = t.agg
BY DEF WithAccount, Totals

LEMMA RecappedType ==
    ASSUME NEW a \in Account, NEW d \in Nat
    PROVE  Recapped(a, d) \in Account
<1>1. a.cap.surf \in Cost /\ a.cap.iterations \in Nat
  BY DEF Account, HypCap
<1>2. [a.cap.surf EXCEPT !["dollars"] = d] \in Cost
  BY <1>1 DEF Cost
<1>3. QED
  BY <1>1, <1>2 DEF Recapped, Account, HypCap

\* Burning fuel keeps the fuel's type.
LEMMA BurnType ==
    ASSUME NEW kind \in Limited, fuel \in [Limited -> Nat], Burn(kind)
    PROVE  fuel' \in [Limited -> Nat]
BY DEF Burn

LEMMA HoldingType ==
    ASSUME NEW kind \in Kinds, NEW step \in Steps, NEW h \in Hyps \cup {None},
           NEW d \in Nat
    PROVE  /\ Holding(kind, step, h, d) \in Op
           /\ Holding(kind, step, h, d) # None
BY NoneAssumption DEF Holding, Op

LEMMA GreaterType ==
    ASSUME NEW a \in Nat, NEW b \in Nat
    PROVE  Greater(a, b) \in Nat /\ Greater(a, b) >= a /\ Greater(a, b) >= b
BY DEF Greater

-----------------------------------------------------------------------------
(* Type correctness.                                                       *)

\* The tracker starts well typed.
LEMMA InitType == Init => TypeOK
<1> SUFFICES ASSUME Init PROVE TypeOK
  OBVIOUS
<1>1. tot \in Totals
  BY ZeroType DEF Init, Totals
<1>2. QED
  BY <1>1, CapAssumption, FuelAssumption DEF Init, TypeOK, Cost

\* record, up to its first write, keeps the types and raises the program
\* total by the dollars it charges.
LEMMA BeginRecordType ==
    ASSUME TypeOK, NEW h \in Hyps, NEW cost \in Costs, BeginRecord(h, cost)
    PROVE  /\ tot' \in Totals
           /\ tot'.agg = tot.agg + cost["dollars"]
           /\ halted' \in BOOLEAN
           /\ op' \in Op /\ op' # None
           /\ op'.dollars = cost["dollars"]
           /\ op'.kind = "record"
           /\ op'.step \in {"sentinel", "append"}
           /\ op'.step = "sentinel" => halted'
           /\ fuel' \in [Limited -> Nat]
<1>1. LazyReset(tot) \in Totals /\ LazyReset(tot).agg = tot.agg
  BY LazyResetType DEF TypeOK
<1>2. /\ tot' \in Totals
      /\ tot'.agg = tot.agg + cost["dollars"]
  BY <1>1, ChargeType DEF BeginRecord
<1>3. halted' \in BOOLEAN
  BY DEF TypeOK, BeginRecord
<1>4. fuel' \in [Limited -> Nat]
  BY BurnType DEF BeginRecord, TypeOK
<1> DEFINE step == IF tot'.agg > aggCap THEN "sentinel" ELSE "append"
<1>5. step \in Steps /\ step \in {"sentinel", "append"}
  OBVIOUS
<1>6. op' = Holding("record", step, h, cost["dollars"])
  BY DEF BeginRecord
<1>7. op' \in Op /\ op' # None
  BY <1>5, <1>6, HoldingType, CostDollars
<1>8. /\ op'.dollars = cost["dollars"]
      /\ op'.kind = "record"
      /\ op'.step = step
  BY <1>6 DEF Holding
<1>9. step = "sentinel" => halted'
  BY DEF BeginRecord
<1>10. QED
  BY <1>2, <1>3, <1>4, <1>5, <1>7, <1>8, <1>9

\* Every step keeps the types.
LEMMA NextType == TypeOK /\ [Next]_vars => TypeOK'
<1> SUFFICES ASSUME TypeOK, [Next]_vars PROVE TypeOK'
  OBVIOUS
<1> USE DEF disk, history
<1>1. ASSUME NEW h \in Hyps, NEW cap \in HypCaps, OpenHypothesis(h, cap)
      PROVE  TypeOK'
  <2>1. [cap |-> cap, used |-> Zero, iters |-> 0] \in Account
    BY ZeroType, CostAssumption DEF Account
  <2>2. tot' \in Totals
    BY <1>1, <2>1, WithAccountType DEF OpenHypothesis, TypeOK
  <2>3. op' \in Op
    BY <1>1, HoldingType DEF OpenHypothesis
  <2>4. QED
    BY <1>1, <2>2, <2>3 DEF OpenHypothesis, TypeOK
<1>2. ASSUME NEW h \in Hyps, CloseHypothesis(h) PROVE TypeOK'
  <2>1. op' \in Op
    BY <1>2, HoldingType DEF CloseHypothesis
  <2>2. QED
    BY <1>2, <2>1 DEF CloseHypothesis, TypeOK
<1>3. ASSUME NEW h \in Hyps, RecordIteration(h) PROVE TypeOK'
  <2>1. tot.hyp[h] \in Account
    BY <1>3 DEF RecordIteration, Opened, TypeOK, Totals
  <2>2. [tot.hyp[h] EXCEPT !.iters = tot.hyp[h].iters + 1] \in Account
    BY <2>1 DEF Account
  <2>3. tot' \in Totals
    BY <1>3, <2>2, WithAccountType DEF RecordIteration, TypeOK
  <2>4. op' \in Op
    BY <1>3, HoldingType DEF RecordIteration
  <2>5. QED
    BY <1>3, <2>3, <2>4 DEF RecordIteration, TypeOK
<1>4. LazyReset(tot) \in Totals
  BY LazyResetType DEF TypeOK
<1>5. ASSUME NEW h \in Hyps, NEW est \in Costs, NEW iters \in {0, 1},
             CheckRefused(h, est, iters)
      PROVE  TypeOK'
  BY <1>4, <1>5 DEF CheckRefused, TypeOK
<1>6. ASSUME NEW h \in Hyps, NEW est \in Costs, NEW iters \in {0, 1},
             NEW c \in Clients, CheckGranted(c, h, est, iters)
      PROVE  TypeOK'
  <2>1. [hyp |-> h, est |-> est] \in Reservation
    BY DEF Reservation
  <2>2. resv' \in [Clients -> Reservation \cup {None}]
    BY <1>6, <2>1 DEF CheckGranted, TypeOK
  <2>3. QED
    BY <1>4, <1>6, <2>2 DEF CheckGranted, TypeOK
<1>7. ASSUME NEW h \in Hyps, NEW est \in Costs, CheckTripsAggregate(h, est)
      PROVE  TypeOK'
  <2>1. op' \in Op
    BY <1>7, HoldingType DEF CheckTripsAggregate
  <2>2. QED
    BY <1>4, <1>7, <2>1 DEF CheckTripsAggregate, TypeOK
<1>8. ASSUME NEW c \in Clients, Cancel(c) PROVE TypeOK'
  BY <1>8 DEF Cancel, TypeOK
<1>9. ASSUME NEW cost \in Costs, NEW c \in Clients, Commit(c, cost)
      PROVE  TypeOK'
  <2>1. resv[c] \in Reservation
    BY <1>9 DEF Commit, TypeOK
  <2>2. resv[c].hyp \in Hyps /\ resv[c].est["dollars"] \in Nat
    BY <2>1, CostDollars DEF Reservation
  <2>3. cost["dollars"] - resv[c].est["dollars"] \in Int
    BY <2>2, CostDollars
  <2>4. unreserved' \in Nat
    BY <1>9, <2>3 DEF Commit, Greater, TypeOK
  <2>5. resv' \in [Clients -> Reservation \cup {None}]
    BY <1>9 DEF Commit, TypeOK
  <2>6. BeginRecord(resv[c].hyp, cost)
    BY <1>9 DEF Commit
  <2>7. QED
    BY <2>2, <2>4, <2>5, <2>6, BeginRecordType DEF BeginRecord, TypeOK
<1>10. ASSUME NEW cost \in Costs, NEW h \in Hyps, RecordDirect(h, cost)
       PROVE  TypeOK'
  <2>1. BeginRecord(h, cost)
    BY <1>10 DEF RecordDirect
  <2>2. unreserved' \in Nat
    BY <1>10, CostDollars DEF RecordDirect, TypeOK
  <2>3. QED
    BY <1>10, <2>1, <2>2, BeginRecordType DEF RecordDirect, BeginRecord, TypeOK
<1>11. CASE Remaining
  BY <1>4, <1>11 DEF Remaining, TypeOK
<1>12. ASSUME NEW agg \in Nat, NEW day \in Nat, NEW h \in Hyps \cup {None},
              NEW dollars \in Nat, NEW clear \in BOOLEAN,
              SetCap(agg, day, h, dollars, clear)
       PROVE  TypeOK'
  <2>1. tot' \in Totals
    <3>1. CASE h \in Opened(tot)
      <4>1. h \in Hyps /\ tot.hyp[h] \in Account
        BY <3>1 DEF Opened, TypeOK, Totals
      <4>2. QED
        BY <1>12, <3>1, <4>1, RecappedType, WithAccountType
           DEF SetCap, TypeOK
    <3>2. CASE h \notin Opened(tot)
      BY <1>12, <3>2 DEF SetCap, TypeOK
    <3>3. QED
      BY <3>1, <3>2
  <2>2. op' \in Op
    <3>1. (IF clear THEN "unlink" ELSE "save") \in Steps
      OBVIOUS
    <3>2. QED
      BY <1>12, <3>1, HoldingType DEF SetCap
  <2>3. dayCap' \in Cost
    BY <1>12 DEF SetCap, TypeOK, Cost
  <2>4. capHigh' \in Nat
    BY <1>12, GreaterType DEF SetCap, TypeOK
  <2>5. fuel' \in [Limited -> Nat]
    BY <1>12, BurnType DEF SetCap, TypeOK
  <2>6. QED
    BY <1>12, <2>1, <2>2, <2>3, <2>4, <2>5 DEF SetCap, TypeOK
<1>13. CASE OperatorHaltFlag
  <2>1. fuel' \in [Limited -> Nat]
    BY <1>13, BurnType DEF OperatorHaltFlag, TypeOK
  <2>2. QED
    BY <1>13, <2>1 DEF OperatorHaltFlag, TypeOK
<1>14. CASE OperatorHaltFile \/ OperatorHaltFails
  <2>1. fuel' \in [Limited -> Nat]
    BY <1>14, BurnType DEF OperatorHaltFile, OperatorHaltFails, TypeOK
  <2>2. QED
    BY <1>14, <2>1 DEF OperatorHaltFile, OperatorHaltFails, TypeOK
<1>15. CASE WriteSentinel
  <2>1. op' \in Op \cup {None}
    BY <1>15 DEF WriteSentinel, TypeOK, Op
  <2>2. QED
    BY <1>15, <2>1 DEF WriteSentinel, TypeOK
<1>16. CASE AppendLedger
  <2>1. op' \in Op /\ ledger' \in Nat
    BY <1>16 DEF AppendLedger, TypeOK, Op
  <2>2. QED
    BY <1>16, <2>1 DEF AppendLedger, TypeOK
<1>17. CASE UnlinkSentinel
  <2>1. op' \in Op
    BY <1>17 DEF UnlinkSentinel, TypeOK, Op
  <2>2. fuel' \in [Limited -> Nat] /\ sentinel' \in BOOLEAN
    BY <1>17, BurnType DEF UnlinkSentinel, TypeOK
  <2>3. QED
    BY <1>17, <2>1, <2>2 DEF UnlinkSentinel, TypeOK
<1>18. CASE SaveState
  <2>1. op \in Op /\ op.dollars \in Nat
    BY <1>18 DEF SaveState, TypeOK, Op
  <2>2. acked' \in Nat /\ ackedToday' \in Nat
    BY <1>18, <2>1 DEF SaveState, TypeOK
  <2>3. iterAcked' \in [Hyps -> Nat]
    <3>1. iterAcked \in [Hyps -> Nat]
      BY DEF TypeOK
    <3>2. \A k \in Hyps : [iterAcked EXCEPT ![k] = iterAcked[k] + 1]
                          \in [Hyps -> Nat]
      BY <3>1
    <3>3. [iterAcked EXCEPT ![None] = iterAcked[None] + 1] = iterAcked
      BY <3>1, NoneAssumption
    <3>4. op.hyp \in Hyps \cup {None}
      BY <2>1 DEF Op
    <3>5. \/ iterAcked' = iterAcked
          \/ iterAcked' = [iterAcked EXCEPT ![op.hyp] = iterAcked[op.hyp] + 1]
      BY <1>18 DEF SaveState
    <3>6. QED
      BY <3>1, <3>2, <3>3, <3>4, <3>5
  <2>4. saved' \in [halted : BOOLEAN, aggCap : Nat, tot : Totals]
    BY <1>18 DEF SaveState, TypeOK
  <2>5. QED
    BY <1>18, <2>2, <2>3, <2>4 DEF SaveState, TypeOK
<1>19. CASE DiskError
  BY <1>19, BurnType DEF DiskError, TypeOK
<1>20. CASE CrashRestart
  <2>1. tot' \in Totals /\ halted' \in BOOLEAN
    BY <1>20 DEF CrashRestart, TypeOK
  <2>2. resv' \in [Clients -> Reservation \cup {None}]
    BY <1>20 DEF CrashRestart
  <2>3. fuel' \in [Limited -> Nat]
    BY <1>20, BurnType DEF CrashRestart, TypeOK
  <2>4. QED
    BY <1>20, <2>1, <2>2, <2>3, CapAssumption DEF CrashRestart, TypeOK
<1>21. CASE DayTick
  <2>1. fuel' \in [Limited -> Nat]
    BY <1>21, BurnType DEF DayTick, TypeOK
  <2>2. QED
    BY <1>21, <2>1 DEF DayTick, TypeOK, memory
<1>22. CASE UNCHANGED vars
  BY <1>22 DEF vars, memory, TypeOK
<1>23. \A agg \in AggCaps \cup {aggCap} : agg \in Nat
  BY CapAssumption DEF TypeOK
<1>24. \A day \in TierCaps \cup {dayCap["dollars"]} : day \in Nat
  BY CapAssumption, CostAssumption DEF TypeOK, Cost
<1>25. \A dollars \in TierCaps : dollars \in Nat
  BY CapAssumption
<1>26. CASE Operator
  BY <1>12, <1>13, <1>14, <1>23, <1>24, <1>25, <1>26 DEF Operator
<1>27. QED
  BY <1>1, <1>2, <1>3, <1>5, <1>6, <1>7, <1>8, <1>9, <1>10, <1>11, <1>15,
     <1>16, <1>17, <1>18, <1>19, <1>20, <1>21, <1>22, <1>26
     DEF Next, Hypotheses, Checks, Charges, Writes

\* TypeOK holds in every reachable state of the budget tracker, whatever the
\* caps, the costs, the clients and the bounds.
THEOREM TypeCorrect == Spec => []TypeOK
BY InitType, NextType, PTL DEF Spec
-----------------------------------------------------------------------------
(* Acknowledged spend is durable.  The property is not inductive: a step    *)
(* that saves must know that memory, and the ledger, already hold what it   *)
(* is about to acknowledge.                                                 *)

\* What a record in progress has still to acknowledge.
InFlight == IF op = None THEN 0 ELSE op.dollars

SpendInv ==
    /\ saved.tot.agg <= tot.agg
    /\ acked <= saved.tot.agg
    /\ acked + InFlight <= tot.agg
    /\ acked <= ledger
    /\ (op # None /\ op.step = "save") => acked + op.dollars <= ledger
    /\ (op # None /\ op.step = "unlink") => op.dollars = 0

LEMMA SpendInit == Init => SpendInv
BY DEF Init, SpendInv, InFlight

LEMMA SpendNext ==
    TypeOK /\ SpendInv /\ [Next]_vars => SpendInv'
<1> SUFFICES ASSUME TypeOK, SpendInv, [Next]_vars PROVE SpendInv'
  OBVIOUS
<1> USE DEF disk, history
<1>0. /\ tot \in Totals /\ tot.agg \in Nat /\ saved.tot.agg \in Nat
      /\ acked \in Nat /\ ledger \in Nat
      /\ op # None => op \in Op /\ op.dollars \in Nat
  BY DEF TypeOK, Totals, Op
<1>1. LazyReset(tot).agg = tot.agg
  BY <1>0, LazyResetType DEF TypeOK
<1>2. ASSUME op = None, tot'.agg = tot.agg, UNCHANGED <<disk, acked>>,
             \/ op' = None
             \/ /\ op' \in Op
                /\ op'.dollars = 0
      PROVE  SpendInv'
  BY <1>0, <1>2 DEF SpendInv, InFlight
<1>3. \A kind \in Kinds, step \in Steps, h \in Hyps \cup {None} :
         /\ Holding(kind, step, h, 0) \in Op
         /\ Holding(kind, step, h, 0).dollars = 0
  BY HoldingType DEF Holding
<1>4. ASSUME NEW h \in Hyps, NEW cap \in HypCaps, OpenHypothesis(h, cap)
      PROVE  SpendInv'
  <2>1. tot'.agg = tot.agg
    BY <1>0, <1>4 DEF OpenHypothesis, WithAccount, Totals
  <2>2. QED
    BY <1>2, <1>3, <1>4, <2>1 DEF OpenHypothesis
<1>5. ASSUME NEW h \in Hyps, CloseHypothesis(h) PROVE SpendInv'
  BY <1>2, <1>3, <1>5 DEF CloseHypothesis
<1>6. ASSUME NEW h \in Hyps, RecordIteration(h) PROVE SpendInv'
  <2>1. tot'.agg = tot.agg
    BY <1>0, <1>6 DEF RecordIteration, WithAccount, Totals
  <2>2. QED
    BY <1>2, <1>3, <1>6, <2>1 DEF RecordIteration
<1>7. ASSUME NEW h \in Hyps, NEW est \in Costs, NEW iters \in {0, 1},
             CheckRefused(h, est, iters)
      PROVE  SpendInv'
  BY <1>1, <1>2, <1>7 DEF CheckRefused
<1>8. ASSUME NEW h \in Hyps, NEW est \in Costs, NEW iters \in {0, 1},
             NEW c \in Clients, CheckGranted(c, h, est, iters)
      PROVE  SpendInv'
  BY <1>1, <1>2, <1>8 DEF CheckGranted
<1>9. ASSUME NEW h \in Hyps, NEW est \in Costs, CheckTripsAggregate(h, est)
      PROVE  SpendInv'
  BY <1>1, <1>2, <1>3, <1>9 DEF CheckTripsAggregate
<1>10. ASSUME NEW c \in Clients, Cancel(c) PROVE SpendInv'
  BY <1>2, <1>10 DEF Cancel
<1>11. ASSUME NEW h \in Hyps, NEW cost \in Costs, BeginRecord(h, cost)
       PROVE  SpendInv'
  <2>1. cost["dollars"] \in Nat
    BY CostDollars
  <2>2. op = None /\ UNCHANGED <<disk, acked>>
    BY <1>11 DEF BeginRecord
  <2>3. /\ tot'.agg = tot.agg + cost["dollars"]
        /\ op' # None /\ op'.dollars = cost["dollars"]
        /\ op'.step \in {"sentinel", "append"}
    BY <1>11, BeginRecordType
  <2>4. QED
    BY <1>0, <2>1, <2>2, <2>3 DEF SpendInv, InFlight
<1>12. ASSUME NEW cost \in Costs, NEW c \in Clients, Commit(c, cost)
       PROVE  SpendInv'
  <2>1. resv[c].hyp \in Hyps
    BY <1>12 DEF Commit, TypeOK, Reservation
  <2>2. QED
    BY <1>11, <1>12, <2>1 DEF Commit
<1>13. ASSUME NEW cost \in Costs, NEW h \in Hyps, RecordDirect(h, cost)
       PROVE  SpendInv'
  BY <1>11, <1>13 DEF RecordDirect
<1>14. CASE Remaining
  BY <1>1, <1>2, <1>14 DEF Remaining
<1>15. ASSUME NEW agg, NEW day, NEW h \in Hyps \cup {None}, NEW dollars,
              NEW clear \in BOOLEAN, SetCap(agg, day, h, dollars, clear)
       PROVE  SpendInv'
  <2>1. tot'.agg = tot.agg
    BY <1>0, <1>15 DEF SetCap, WithAccount, Totals
  <2>2. (IF clear THEN "unlink" ELSE "save") \in Steps
    OBVIOUS
  <2>3. op' \in Op /\ op'.dollars = 0
    BY <1>3, <1>15, <2>2 DEF SetCap
  <2>4. op = None /\ UNCHANGED <<disk, acked>>
    BY <1>15 DEF SetCap
  <2>5. QED
    BY <1>2, <2>1, <2>3, <2>4
<1>16. CASE OperatorHaltFlag
  BY <1>16 DEF OperatorHaltFlag, SpendInv, InFlight
<1>17. CASE OperatorHaltFile \/ OperatorHaltFails
  BY <1>17 DEF OperatorHaltFile, OperatorHaltFails, SpendInv, InFlight
<1>18. CASE WriteSentinel
  BY <1>0, <1>18 DEF WriteSentinel, SpendInv, InFlight, Op
<1>19. CASE AppendLedger
  BY <1>0, <1>19 DEF AppendLedger, SpendInv, InFlight, Op
<1>20. CASE UnlinkSentinel
  <2>1. op'.dollars = 0 /\ op.dollars = 0 /\ op # None /\ op' # None
    BY <1>0, <1>20, NoneAssumption DEF UnlinkSentinel, SpendInv, Op
  <2>2. UNCHANGED <<tot, saved, ledger, acked>>
    BY <1>20 DEF UnlinkSentinel
  <2>3. QED
    BY <1>0, <2>1, <2>2 DEF SpendInv, InFlight
<1>21. CASE SaveState
  BY <1>0, <1>21 DEF SaveState, SpendInv, InFlight
<1>22. CASE DiskError
  BY <1>0, <1>22 DEF DiskError, SpendInv, InFlight
<1>23. CASE CrashRestart
  BY <1>0, <1>23 DEF CrashRestart, SpendInv, InFlight
<1>24. CASE DayTick
  BY <1>24 DEF DayTick, memory, SpendInv, InFlight
<1>25. CASE UNCHANGED vars
  BY <1>25 DEF vars, memory, SpendInv, InFlight
<1>26. CASE Operator
  BY <1>15, <1>16, <1>17, <1>26 DEF Operator
<1>27. QED
  BY <1>4, <1>5, <1>6, <1>7, <1>8, <1>9, <1>10, <1>12, <1>13, <1>14, <1>18,
     <1>19, <1>20, <1>21, <1>22, <1>23, <1>24, <1>25, <1>26
     DEF Next, Hypotheses, Checks, Charges, Writes

LEMMA SpendInvariant == Spec => []SpendInv
<1>1. TypeOK /\ TypeOK' /\ SpendInv /\ [Next]_vars => SpendInv'
  BY SpendNext
<1>2. QED
  BY <1>1, SpendInit, TypeCorrect, PTL DEF Spec

\* Once record() has returned, its cost is in state.json and in the ledger,
\* through any later crash or failed write.
LEMMA SpendIsDurable == Spec => []AckedSpendDurable
<1>1. SpendInv => AckedSpendDurable
  BY DEF SpendInv, AckedSpendDurable
<1>2. QED
  BY <1>1, SpendInvariant, PTL
-----------------------------------------------------------------------------
(* The tracker keeps its account as module Spending lays down.  Each step    *)
(* is a step of Spending or leaves its variables alone.  The invariant this  *)
(* takes says that only a record carries dollars and comes to the ledger.    *)

RecordInv ==
    op # None =>
        /\ op.step = "append" => op.kind = "record"
        /\ op.step = "unlink" => op.kind # "record"
        /\ op.kind # "record" => op.dollars = 0

LEMMA RecordInit == Init => RecordInv
BY DEF Init, RecordInv

LEMMA RecordNext == TypeOK /\ RecordInv /\ [Next]_vars => RecordInv'
<1> SUFFICES ASSUME TypeOK, RecordInv, [Next]_vars PROVE RecordInv'
  OBVIOUS
<1>1. op # None => op \in Op
  BY DEF TypeOK
<1>2. ASSUME NEW kind \in Kinds \ {"record"}, NEW step \in Steps \ {"append"},
             NEW h \in Hyps \cup {None}, op' = Holding(kind, step, h, 0)
      PROVE  RecordInv'
  BY <1>2 DEF Holding, RecordInv
<1>3. CASE Hypotheses
  BY <1>2, <1>3 DEF Hypotheses, OpenHypothesis, CloseHypothesis, RecordIteration
<1>4. CASE Checks
  <2>1. ASSUME NEW h \in Hyps, NEW est \in Costs, CheckTripsAggregate(h, est)
        PROVE  RecordInv'
    BY <1>2, <2>1 DEF CheckTripsAggregate
  <2>2. QED
    BY <1>4, <2>1 DEF Checks, CheckRefused, CheckGranted, RecordInv
<1>5. CASE Charges
  <2>1. ASSUME NEW h \in Hyps, NEW cost \in Costs, BeginRecord(h, cost)
        PROVE  RecordInv'
    BY <2>1, BeginRecordType DEF RecordInv
  <2>2. \A c \in Clients : resv[c] # None => resv[c].hyp \in Hyps
    BY DEF TypeOK, Reservation
  <2>3. QED
    BY <1>5, <2>1, <2>2 DEF Charges, Commit, RecordDirect
<1>6. CASE Operator
  <2>1. ASSUME NEW agg, NEW day, NEW h, NEW dollars, NEW clear \in BOOLEAN,
               SetCap(agg, day, h, dollars, clear)
        PROVE  RecordInv'
    <3>1. (IF clear THEN "unlink" ELSE "save") \in Steps \ {"append"}
      OBVIOUS
    <3>2. QED
      BY <1>2, <2>1, <3>1 DEF SetCap
  <2>2. CASE OperatorHaltFlag \/ OperatorHaltFile \/ OperatorHaltFails
    BY <2>2 DEF OperatorHaltFlag, OperatorHaltFile, OperatorHaltFails, RecordInv
  <2>3. QED
    BY <1>6, <2>1, <2>2 DEF Operator
<1>7. CASE Writes
  BY <1>1, <1>7 DEF Writes, WriteSentinel, AppendLedger, UnlinkSentinel,
     SaveState, DiskError, RecordInv, Op
<1>8. CASE (\E c \in Clients : Cancel(c)) \/ Remaining \/ CrashRestart \/ DayTick
  BY <1>8 DEF Cancel, Remaining, CrashRestart, DayTick, memory, RecordInv
<1>9. CASE UNCHANGED vars
  BY <1>9 DEF vars, memory, RecordInv
<1>10. QED
  BY <1>3, <1>4, <1>5, <1>6, <1>7, <1>8, <1>9 DEF Next

LEMMA RecordInvariant == Spec => []RecordInv
<1>1. TypeOK /\ RecordInv /\ [Next]_vars => RecordInv'
  BY RecordNext
<1>2. QED
  BY <1>1, RecordInit, TypeCorrect, PTL DEF Spec

\* A step with which no record begins, ends or goes on, and that changes
\* neither the program's total nor the files, leaves the account alone.
LEMMA AccountAtRest ==
    ASSUME tot'.agg = tot.agg, UNCHANGED <<ledger, saved, acked>>,
           \/ UNCHANGED op
           \/ ~Recording /\ ~Recording'
    PROVE  UNCHANGED Books!account
BY DEF Books!account, Books!charge, Stage, Recording

\* Every step of the tracker is a step of Spending or leaves its account alone.
LEMMA AccountNext ==
    TypeOK /\ RecordInv /\ [Next]_vars => [Books!Next]_(Books!account)
<1> SUFFICES ASSUME TypeOK, RecordInv, [Next]_vars
             PROVE  Books!Next \/ UNCHANGED Books!account
  OBVIOUS
<1> USE DEF disk, history
<1>1. /\ tot \in Totals
      /\ op # None => op \in Op
  BY DEF TypeOK
<1>2. LazyReset(tot).agg = tot.agg
  BY <1>1, LazyResetType DEF TypeOK
<1>3. \A kind \in Kinds \ {"record"}, step \in Steps, h \in Hyps \cup {None} :
         op' = Holding(kind, step, h, 0) => ~Recording'
  BY DEF Holding, Recording
<1>4. CASE Hypotheses
  <2>1. tot'.agg = tot.agg
    BY <1>1, <1>4 DEF Hypotheses, OpenHypothesis, CloseHypothesis,
       RecordIteration, WithAccount, Totals
  <2>2. ~Recording /\ UNCHANGED <<ledger, saved, acked>>
    BY <1>4 DEF Hypotheses, OpenHypothesis, CloseHypothesis, RecordIteration,
       Recording
  <2>3. ~Recording'
    BY <1>3, <1>4 DEF Hypotheses, OpenHypothesis, CloseHypothesis,
       RecordIteration
  <2>4. QED
    BY <2>1, <2>2, <2>3, AccountAtRest
<1>5. CASE Checks \/ (\E c \in Clients : Cancel(c)) \/ Remaining
  <2>1. tot'.agg = tot.agg /\ UNCHANGED <<ledger, saved, acked>>
    BY <1>2, <1>5 DEF Checks, CheckRefused, CheckGranted, CheckTripsAggregate,
       Cancel, Remaining
  <2>2. UNCHANGED op \/ (~Recording /\ ~Recording')
    BY <1>3, <1>5 DEF Checks, CheckRefused, CheckGranted, CheckTripsAggregate,
       Cancel, Remaining, Recording
  <2>3. QED
    BY <2>1, <2>2, AccountAtRest
<1>6. CASE Charges
  <2>1. ASSUME NEW h \in Hyps, NEW cost \in Costs, BeginRecord(h, cost)
        PROVE  Books!Enter(cost["dollars"])
    <3>1. /\ tot'.agg = tot.agg + cost["dollars"]
          /\ op' # None
          /\ op'.kind = "record"
          /\ op'.dollars = cost["dollars"]
          /\ op'.step \in {"sentinel", "append"}
      BY <2>1, BeginRecordType
    <3>2. op = None /\ UNCHANGED <<ledger, saved, acked>>
      BY <2>1 DEF BeginRecord
    <3>3. QED
      BY <3>1, <3>2 DEF Books!Enter, Stage, Recording
  <2>2. \A c \in Clients : resv[c] # None => resv[c].hyp \in Hyps
    BY DEF TypeOK, Reservation
  <2>3. \E h \in Hyps, cost \in Costs : BeginRecord(h, cost)
    BY <1>6, <2>2 DEF Charges, Commit, RecordDirect
  <2>4. QED
    BY <2>1, <2>3 DEF Books!Next
<1>7. CASE Operator
  <2>1. ASSUME NEW agg, NEW day, NEW h, NEW dollars, NEW clear \in BOOLEAN,
               SetCap(agg, day, h, dollars, clear)
        PROVE  UNCHANGED Books!account
    <3>1. tot'.agg = tot.agg
      BY <1>1, <2>1 DEF SetCap, WithAccount, Totals
    <3>2. ~Recording /\ UNCHANGED <<ledger, saved, acked>>
      BY <2>1 DEF SetCap, Recording
    <3>3. (IF clear THEN "unlink" ELSE "save") \in Steps
      OBVIOUS
    <3>4. ~Recording'
      BY <1>3, <2>1, <3>3 DEF SetCap
    <3>5. QED
      BY <3>1, <3>2, <3>4, AccountAtRest
  <2>2. CASE OperatorHaltFlag \/ OperatorHaltFile \/ OperatorHaltFails
    BY <2>2, AccountAtRest DEF OperatorHaltFlag, OperatorHaltFile, OperatorHaltFails
  <2>3. QED
    BY <1>7, <2>1, <2>2 DEF Operator
<1>8. CASE WriteSentinel
  <2>1. op # None /\ op \in Op /\ op.step = "sentinel"
    BY <1>1, <1>8 DEF WriteSentinel
  <2>2. CASE Recording
    <3>1. op' = [op EXCEPT !.step = "append"]
      BY <1>8, <2>2 DEF WriteSentinel, Recording
    <3>2. /\ op' # None
          /\ op'.kind = "record"
          /\ op'.step = "append"
          /\ op'.dollars = op.dollars
      BY <2>1, <2>2, <3>1, NoneAssumption DEF Recording, Op
    <3>3. QED
      BY <1>8, <2>1, <2>2, <3>2
         DEF WriteSentinel, Books!account, Books!charge, Stage, Recording
  <2>3. CASE ~Recording
    <3>1. op' = None
      BY <1>8, <2>3 DEF WriteSentinel, Recording
    <3>2. QED
      BY <1>8, <2>3, <3>1, AccountAtRest DEF WriteSentinel, Recording
  <2>4. QED
    BY <2>2, <2>3
<1>9. CASE AppendLedger
  <2>1. op # None /\ op \in Op /\ op.step = "append" /\ Recording
    BY <1>1, <1>9 DEF AppendLedger, RecordInv, Recording
  <2>2. /\ op' # None
        /\ op'.kind = "record"
        /\ op'.step = "save"
        /\ op'.dollars = op.dollars
    BY <1>9, <2>1, NoneAssumption DEF AppendLedger, Recording, Op
  <2>3. Books!Write
    BY <1>9, <2>1, <2>2 DEF AppendLedger, Books!Write, Stage, Recording
  <2>4. QED
    BY <2>3 DEF Books!Next
<1>10. CASE UnlinkSentinel
  <2>1. op # None /\ op \in Op /\ ~Recording
    BY <1>1, <1>10 DEF UnlinkSentinel, RecordInv, Recording
  <2>2. op'.kind = op.kind
    BY <1>10, <2>1 DEF UnlinkSentinel, Op
  <2>3. ~Recording'
    BY <2>1, <2>2 DEF Recording
  <2>4. QED
    BY <1>10, <2>1, <2>3, AccountAtRest DEF UnlinkSentinel
<1>11. CASE SaveState
  <2>1. /\ op # None /\ op \in Op /\ op.step = "save"
        /\ saved'.tot.agg = tot.agg
        /\ ~Recording'
        /\ acked' = acked + op.dollars
        /\ UNCHANGED <<tot, ledger>>
    BY <1>1, <1>11 DEF SaveState, Recording
  <2>2. CASE Recording
    <3>1. Books!Answer
      BY <2>1, <2>2 DEF Books!Answer, Books!Finish, Stage, Recording
    <3>2. QED
      BY <3>1 DEF Books!Next
  <2>3. CASE ~Recording
    <3>1. acked' = acked
      BY <2>1, <2>3 DEF RecordInv, Recording, TypeOK
    <3>2. Books!Store
      BY <2>1, <2>3, <3>1 DEF Books!Store, Books!charge, Stage
    <3>3. QED
      BY <3>2 DEF Books!Next
  <2>4. QED
    BY <2>2, <2>3
<1>12. CASE DiskError
  <2>1. ~Recording' /\ UNCHANGED <<tot, ledger, saved, acked>>
    BY <1>12 DEF DiskError, Recording
  <2>2. CASE Recording
    <3>1. Books!Fail
      BY <2>1, <2>2 DEF Books!Fail, Books!Finish, Stage
    <3>2. QED
      BY <3>1 DEF Books!Next
  <2>3. CASE ~Recording
    BY <2>1, <2>3, AccountAtRest
  <2>4. QED
    BY <2>2, <2>3
<1>13. CASE CrashRestart
  <2>1. ~Recording' /\ tot' = saved.tot /\ UNCHANGED <<ledger, saved, acked>>
    BY <1>13 DEF CrashRestart, Recording
  <2>2. Books!Restart
    BY <2>1 DEF Books!Restart, Books!Finish, Stage
  <2>3. QED
    BY <2>2 DEF Books!Next
<1>14. CASE DayTick \/ UNCHANGED vars
  BY <1>14, AccountAtRest DEF DayTick, vars, memory
<1>15. QED
  BY <1>4, <1>5, <1>6, <1>7, <1>8, <1>9, <1>10, <1>11, <1>12, <1>13, <1>14
     DEF Next, Writes

\* The tracker implements the account of Spending: over every order of checks,
\* charges, halts, failed writes, crashes and days, money moves as it says.
THEOREM SpendingIsAccounted == Spec => SpendingAccounted
<1>1. Init => Books!Init
  BY DEF Init, Books!Init, Stage, Recording
<1>2. TypeOK /\ RecordInv /\ [Next]_vars => [Books!Next]_(Books!account)
  BY AccountNext
<1>3. QED
  BY <1>1, <1>2, TypeCorrect, RecordInvariant, PTL
     DEF Spec, SpendingAccounted, Books!Spec
-----------------------------------------------------------------------------
(* The tiers agree.  What the hypotheses spent is counted in units, so that  *)
(* a charge adds no more units than the dollars it is of.                    *)

Agrees(t) ==
    /\ t.day["dollars"] <= t.agg
    /\ IsFiniteSet(Units(t))
    /\ Cardinality(Units(t)) <= t.agg

TiersInv == Agrees(tot) /\ Agrees(saved.tot)

\* The totals of the program and of the day are numbers, and so is what each
\* open hypothesis spent.
LEMMA TotalsAreNumbers ==
    ASSUME NEW t \in Totals
    PROVE  /\ t.agg \in Nat /\ t.window \in Nat
           /\ t.day \in Cost /\ t.day["dollars"] \in Nat
           /\ \A h \in Opened(t) :
                 /\ h \in Hyps /\ t.hyp[h] \in Account
                 /\ t.hyp[h].used \in Cost /\ t.hyp[h].used["dollars"] \in Nat
<1>1. t.agg \in Nat /\ t.window \in Nat /\ t.day \in Cost
  BY DEF Totals
<1>2. ASSUME NEW h \in Opened(t)
      PROVE  /\ h \in Hyps /\ t.hyp[h] \in Account
             /\ t.hyp[h].used \in Cost
  BY DEF Totals, Opened, Account
<1>3. \A c \in Cost : c["dollars"] \in Nat
  BY CostAssumption DEF Cost
<1>4. QED
  BY <1>1, <1>2, <1>3

\* Totals with no unit that was not there agree when the program's did.
LEMMA FewerUnitsAgree ==
    ASSUME NEW t, NEW u, Agrees(t), Units(u) \in SUBSET Units(t),
           u.agg = t.agg, t.agg \in Nat, u.day["dollars"] <= u.agg
    PROVE  Agrees(u)
<1>1. IsFiniteSet(Units(t)) /\ Cardinality(Units(t)) <= t.agg
  BY DEF Agrees
<1>2. IsFiniteSet(Units(u)) /\ Cardinality(Units(u)) <= Cardinality(Units(t))
  BY <1>1, FS_Subset
<1>3. Cardinality(Units(u)) \in Nat /\ Cardinality(Units(t)) \in Nat
  BY <1>1, <1>2, FS_CardinalityType
<1>4. QED
  BY <1>1, <1>2, <1>3 DEF Agrees

LEMMA LazyResetAgrees ==
    ASSUME NEW t \in Totals, today \in Nat, Agrees(t)
    PROVE  Agrees(LazyReset(t))
<1>1. LazyReset(t).agg = t.agg /\ LazyReset(t).hyp = t.hyp /\ t.agg \in Nat
  BY LazyResetType, TotalsAreNumbers
<1>2. LazyReset(t).day["dollars"] <= t.agg
  <2>1. Zero["dollars"] = 0
    BY CostAssumption DEF Zero
  <2>2. LazyReset(t).day = t.day \/ LazyReset(t).day = Zero
    BY DEF LazyReset, Totals
  <2>3. QED
    BY <1>1, <2>1, <2>2 DEF Agrees
<1>3. Units(LazyReset(t)) = Units(t)
  BY <1>1 DEF Units, Opened
<1>4. QED
  BY <1>1, <1>2, <1>3, FewerUnitsAgree

\* An account that has used no more than the one it takes the place of.
LEMMA WithAccountAgrees ==
    ASSUME NEW t \in Totals, NEW h \in Hyps, NEW a \in Account, Agrees(t),
           a.used["dollars"] = 0 \/ (h \in Opened(t) /\ a.used = t.hyp[h].used)
    PROVE  Agrees(WithAccount(t, h, a))
<1> DEFINE u == WithAccount(t, h, a)
<1>1. u.agg = t.agg /\ u.day = t.day /\ t.agg \in Nat
  BY TotalsAreNumbers DEF WithAccount, Totals
<1>2. \A g \in Hyps : u.hyp[g] = IF g = h THEN a ELSE t.hyp[g]
  BY DEF WithAccount, Totals
<1> HIDE DEF u
<1>3. ASSUME NEW x \in Units(u)
      PROVE  x \in Units(t)
  <2>1. PICK g \in Opened(u) : x \in {g} \X (1 .. u.hyp[g].used["dollars"])
    BY DEF Units
  <2>2. g \in Hyps
    BY DEF Opened
  <2>3. CASE g = h /\ a.used["dollars"] = 0
    <3>1. u.hyp[g].used["dollars"] = 0
      BY <1>2, <2>2, <2>3
    <3>2. QED
      BY <2>1, <3>1
  <2>4. CASE g = h /\ h \in Opened(t) /\ a.used = t.hyp[h].used
    <3>1. u.hyp[g].used = t.hyp[g].used
      BY <1>2, <2>2, <2>4
    <3>2. QED
      BY <2>1, <2>4, <3>1 DEF Units
  <2>5. CASE g # h
    <3>1. u.hyp[g] = t.hyp[g] /\ g \in Opened(t)
      BY <1>2, <2>2, <2>5 DEF Opened
    <3>2. QED
      BY <2>1, <3>1 DEF Units
  <2>6. QED
    BY <2>3, <2>4, <2>5
<1>4. u.day["dollars"] <= u.agg
  BY <1>1 DEF Agrees
<1>5. Agrees(u)
  BY <1>1, <1>3, <1>4, FewerUnitsAgree
<1>6. QED
  BY <1>5 DEF u

\* The units that a charge of d dollars adds to a hypothesis with n of them.
UnitsAfter(h, n, d) == {h} \X (n + 1 .. n + d)

LEMMA NewUnits ==
    ASSUME NEW h, NEW n \in Nat, NEW d \in Nat
    PROVE  IsFiniteSet(UnitsAfter(h, n, d)) /\ Cardinality(UnitsAfter(h, n, d)) = d
<1>1. IsFiniteSet({h}) /\ Cardinality({h}) = 1
  BY FS_Singleton
<1>2. IsFiniteSet(n + 1 .. n + d) /\ Cardinality(n + 1 .. n + d) = d
  <2>1. n + 1 \in Int /\ n + d \in Int
    OBVIOUS
  <2>2. /\ IsFiniteSet(n + 1 .. n + d)
        /\ Cardinality(n + 1 .. n + d) =
             IF n + 1 > n + d THEN 0 ELSE (n + d) - (n + 1) + 1
    BY <2>1, FS_Interval
  <2>3. QED
    BY <2>2
<1>3. /\ IsFiniteSet({h} \X (n + 1 .. n + d))
      /\ Cardinality({h} \X (n + 1 .. n + d)) =
            Cardinality({h}) * Cardinality(n + 1 .. n + d)
  BY <1>1, <1>2, FS_Product
<1>4. QED
  BY <1>1, <1>2, <1>3 DEF UnitsAfter

LEMMA ChargeAgrees ==
    ASSUME NEW t \in Totals, NEW h \in Hyps, NEW c \in Costs, Agrees(t)
    PROVE  Agrees(Charge(t, h, c))
<1> DEFINE u == Charge(t, h, c)
           d == c["dollars"]
<1>1. d \in Nat /\ t.agg \in Nat /\ t.day["dollars"] \in Nat
  BY CostDollars, TotalsAreNumbers
<1>2. u.agg = t.agg + d /\ u.day["dollars"] = t.day["dollars"] + d
  BY CostAssumption DEF Charge, Add
<1>3. \A g \in Hyps : u.hyp[g] = IF g = h THEN ChargeAccount(t.hyp[h], c) ELSE t.hyp[g]
  BY DEF Charge, Totals
<1> SUFFICES Agrees(u)
  OBVIOUS
<1> HIDE DEF u, d
<1>4. /\ IsFiniteSet(Units(t)) /\ Cardinality(Units(t)) \in Nat
      /\ Cardinality(Units(t)) <= t.agg /\ t.day["dollars"] <= t.agg
  BY FS_CardinalityType DEF Agrees
<1>5. CASE t.hyp[h] = None
  <2>1. \A g \in Hyps : u.hyp[g] = t.hyp[g]
    BY <1>3, <1>5 DEF ChargeAccount
  <2>2. Opened(u) = Opened(t) /\ \A g \in Opened(t) : u.hyp[g] = t.hyp[g]
    BY <2>1 DEF Opened
  <2>3. Units(u) = Units(t)
    BY <2>2 DEF Units
  <2>4. QED
    BY <1>1, <1>2, <1>4, <2>3 DEF Agrees
<1>6. CASE t.hyp[h] # None
  <2> DEFINE n == t.hyp[h].used["dollars"]
             more == UnitsAfter(h, n, d)
  <2>1. h \in Opened(t) /\ n \in Nat /\ t.hyp[h] \in Account /\ t.hyp[h].used \in Cost
    <3>1. h \in Opened(t)
      BY <1>6 DEF Opened
    <3>2. QED
      BY <3>1, TotalsAreNumbers
  <2>2. u.hyp[h].used["dollars"] = n + d
    <3>1. u.hyp[h] = [t.hyp[h] EXCEPT !.used = Add(t.hyp[h].used, c)]
      BY <1>3, <1>6 DEF ChargeAccount
    <3>2. u.hyp[h].used = Add(t.hyp[h].used, c)
      BY <2>1, <3>1 DEF Account
    <3>3. QED
      BY <3>2, CostAssumption DEF Add, d
  <2>3. \A g \in Hyps \ {h} : u.hyp[g] = t.hyp[g]
    BY <1>3
  <2> HIDE DEF n
  <2>4. IsFiniteSet(more) /\ Cardinality(more) = d
    <3>1. n \in Nat /\ d \in Nat
      BY <1>1, <2>1
    <3>2. QED
      BY <3>1, NewUnits
  <2>5. ASSUME NEW x \in Units(u)
        PROVE  x \in Units(t) \cup more
    <3>1. PICK g \in Opened(u) : x \in {g} \X (1 .. u.hyp[g].used["dollars"])
      BY DEF Units
    <3>2. g \in Hyps
      BY DEF Opened
    <3>3. CASE g # h
      <4>1. u.hyp[g] = t.hyp[g] /\ g \in Opened(t)
        BY <2>3, <3>2, <3>3 DEF Opened
      <4>2. QED
        BY <3>1, <4>1 DEF Units
    <3>4. CASE g = h
      <4>1. PICK i \in 1 .. n + d : x = <<h, i>>
        BY <2>2, <3>1, <3>4
      <4>2. CASE i <= n
        <5>1. i \in 1 .. n
          BY <2>1, <1>1, <4>2
        <5>2. x \in {h} \X (1 .. t.hyp[h].used["dollars"])
          BY <4>1, <5>1 DEF n
        <5>3. QED
          BY <2>1, <5>2 DEF Units
      <4>3. CASE ~ (i <= n)
        <5>1. i \in n + 1 .. n + d
          BY <2>1, <1>1, <4>3
        <5>2. QED
          BY <4>1, <5>1 DEF UnitsAfter
      <4>4. QED
        BY <4>2, <4>3
    <3>5. QED
      BY <3>3, <3>4
  <2> HIDE DEF more
  <2>6. /\ IsFiniteSet(Units(t) \cup more)
        /\ Cardinality(Units(t) \cup more) =
              Cardinality(Units(t)) + Cardinality(more) - Cardinality(Units(t) \cap more)
    BY <1>4, <2>4, FS_Union
  <2>7. Cardinality(Units(t) \cap more) \in Nat
    BY <1>4, <2>4, FS_Intersection, FS_CardinalityType
  <2>8. Units(u) \in SUBSET (Units(t) \cup more)
    BY <2>5
  <2>9. IsFiniteSet(Units(u)) /\ Cardinality(Units(u)) <= Cardinality(Units(t) \cup more)
    BY <2>6, <2>8, FS_Subset
  <2>10. Cardinality(Units(u)) \in Nat
    BY <2>9, FS_CardinalityType
  <2>11. Cardinality(Units(u)) <= u.agg
    <3>1. Cardinality(Units(t) \cup more) <= t.agg + d
      BY <1>1, <1>4, <2>4, <2>6, <2>7
    <3>2. QED
      BY <1>1, <1>2, <2>9, <2>10, <3>1, <1>4, <2>4, <2>6, <2>7
  <2>12. QED
    BY <1>1, <1>2, <2>9, <2>11 DEF Agrees
<1>7. QED
  BY <1>5, <1>6

LEMMA TiersInit == Init => TiersInv
<1> SUFFICES ASSUME Init PROVE TiersInv
  OBVIOUS
<1>1. /\ tot.agg = 0 /\ tot.day = Zero /\ saved.tot = tot
      /\ tot.hyp = [h \in Hyps |-> None]
  BY DEF Init
<1>2. Zero["dollars"] = 0
  BY CostAssumption DEF Zero
<1>3. Units(tot) = {}
  BY <1>1 DEF Units, Opened
<1>4. QED
  BY <1>1, <1>2, <1>3, FS_EmptySet DEF TiersInv, Agrees

LEMMA TiersNext == TypeOK /\ TiersInv /\ [Next]_vars => TiersInv'
<1> SUFFICES ASSUME TypeOK, TiersInv, [Next]_vars PROVE TiersInv'
  OBVIOUS
<1> USE DEF disk, history
<1>0. /\ tot \in Totals /\ today \in Nat /\ Agrees(tot) /\ Agrees(saved.tot)
      /\ LazyReset(tot) \in Totals
  BY LazyResetType DEF TypeOK, TiersInv
<1>1. ASSUME Agrees(tot'), saved' = saved
      PROVE  TiersInv'
  BY <1>0, <1>1 DEF TiersInv, Agrees, Units, Opened
<1>2. Agrees(LazyReset(tot))
  BY <1>0, LazyResetAgrees
<1>3. ASSUME NEW h \in Hyps, NEW cap \in HypCaps, OpenHypothesis(h, cap)
      PROVE  TiersInv'
  <2> DEFINE a == [cap |-> cap, used |-> Zero, iters |-> 0]
  <2>1. a \in Account /\ a.used["dollars"] = 0
    BY ZeroType, CostAssumption DEF Account, Zero
  <2>2. tot' = WithAccount(tot, h, a) /\ saved' = saved
    BY <1>3 DEF OpenHypothesis
  <2> HIDE DEF a
  <2>3. Agrees(WithAccount(tot, h, a))
    BY <1>0, <2>1, WithAccountAgrees
  <2>4. QED
    BY <1>1, <2>2, <2>3
<1>4. ASSUME NEW h \in Hyps, RecordIteration(h) PROVE TiersInv'
  <2> DEFINE a == [tot.hyp[h] EXCEPT !.iters = tot.hyp[h].iters + 1]
  <2>1. h \in Opened(tot) /\ tot' = WithAccount(tot, h, a) /\ saved' = saved
    BY <1>4 DEF RecordIteration
  <2>2. tot.hyp[h] \in Account
    BY <1>0, <2>1, TotalsAreNumbers
  <2>3. a \in Account /\ a.used = tot.hyp[h].used
    BY <2>2 DEF Account
  <2> HIDE DEF a
  <2>4. Agrees(WithAccount(tot, h, a))
    BY <1>0, <2>1, <2>3, WithAccountAgrees
  <2>5. QED
    BY <1>1, <2>1, <2>4
<1>5. ASSUME NEW h \in Hyps, NEW cost \in Costs, BeginRecord(h, cost)
      PROVE  TiersInv'
  <2>1. tot' = Charge(LazyReset(tot), h, cost) /\ saved' = saved
    BY <1>5 DEF BeginRecord
  <2>2. Agrees(Charge(LazyReset(tot), h, cost))
    BY <1>0, <1>2, ChargeAgrees
  <2>3. QED
    BY <1>1, <2>1, <2>2
<1>6. ASSUME NEW agg, NEW day, NEW h \in Hyps \cup {None}, NEW dollars \in Nat,
             NEW clear \in BOOLEAN, SetCap(agg, day, h, dollars, clear)
      PROVE  TiersInv'
  <2>1. CASE h \in Opened(tot)
    <3>1. h \in Hyps /\ tot.hyp[h] \in Account
      BY <1>0, <2>1, TotalsAreNumbers
    <3>2. /\ Recapped(tot.hyp[h], dollars) \in Account
          /\ Recapped(tot.hyp[h], dollars).used = tot.hyp[h].used
      BY <3>1, RecappedType DEF Recapped
    <3>3. Agrees(WithAccount(tot, h, Recapped(tot.hyp[h], dollars)))
      BY <1>0, <2>1, <3>1, <3>2, WithAccountAgrees
    <3>4. tot' = WithAccount(tot, h, Recapped(tot.hyp[h], dollars)) /\ saved' = saved
      BY <1>6, <2>1 DEF SetCap
    <3>5. QED
      BY <1>1, <3>3, <3>4
  <2>2. CASE h \notin Opened(tot)
    BY <1>0, <1>1, <1>6, <2>2 DEF SetCap
  <2>3. QED
    BY <2>1, <2>2
<1>7. ASSUME tot' = tot \/ tot' = LazyReset(tot) \/ tot' = saved.tot,
             saved' = saved \/ (saved'.tot = tot /\ tot' = tot)
      PROVE  TiersInv'
  <2>1. Agrees(tot') /\ Agrees(saved'.tot)
    BY <1>0, <1>2, <1>7
  <2>2. QED
    BY <2>1 DEF TiersInv, Agrees, Units, Opened
<1>8. CASE \/ \E h \in Hyps : CloseHypothesis(h)
           \/ Checks \/ (\E c \in Clients : Cancel(c)) \/ Remaining
           \/ OperatorHaltFlag \/ OperatorHaltFile \/ OperatorHaltFails
           \/ Writes \/ CrashRestart \/ DayTick \/ UNCHANGED vars
  <2>1. /\ tot' = tot \/ tot' = LazyReset(tot) \/ tot' = saved.tot
        /\ saved' = saved \/ (saved'.tot = tot /\ tot' = tot)
    BY <1>8 DEF CloseHypothesis, Checks, CheckRefused, CheckGranted, CheckTripsAggregate,
       Cancel, Remaining, OperatorHaltFlag, OperatorHaltFile, OperatorHaltFails,
       Writes, WriteSentinel, AppendLedger, UnlinkSentinel, SaveState, DiskError, CrashRestart, DayTick,
       vars, memory
  <2>2. QED
    BY <1>7, <2>1
<1>9. CASE Charges
  <2>1. \A c \in Clients : resv[c] # None => resv[c].hyp \in Hyps
    BY DEF TypeOK, Reservation
  <2>2. QED
    BY <1>5, <1>9, <2>1 DEF Charges, Commit, RecordDirect
<1>10. CASE Operator
  <2>1. \A dollars \in TierCaps : dollars \in Nat
    BY CapAssumption
  <2>2. QED
    BY <1>6, <1>8, <1>10, <2>1 DEF Operator
<1>11. QED
  BY <1>3, <1>4, <1>8, <1>9, <1>10 DEF Next, Hypotheses

LEMMA TiersInvariant == Spec => []TiersInv
<1>1. TypeOK /\ TiersInv /\ [Next]_vars => TiersInv'
  BY TiersNext
<1>2. QED
  BY <1>1, TiersInit, TypeCorrect, PTL DEF Spec

\* In memory and in state.json, through crashes, failed writes, new days and
\* hypotheses that are opened again, the day and the open hypotheses together
\* account for no more than the program spent.
THEOREM TiersDoAgree == Spec => []TiersAgree
<1>1. TiersInv => TiersAgree
  BY DEF TiersInv, Agrees, TiersAgree, HypothesisDollars
<1>2. QED
  BY <1>1, TiersInvariant, PTL
-----------------------------------------------------------------------------
(* What one tier was promised outlasts restarts.  A method that has charged  *)
(* the day, or counted an iteration, and has yet to write state.json holds a *)
(* total in memory that covers what it is about to acknowledge; what it      *)
(* wrote before covers what was acknowledged before.                         *)

DayKept(t) ==
    /\ t.window <= today
    /\ ackedToday <= (IF t.window = today THEN t.day["dollars"] ELSE 0)

DayInv ==
    /\ DayKept(tot)
    /\ DayKept(saved.tot)
    /\ op # None /\ tot.window = today => ackedToday + op.dollars <= tot.day["dollars"]

IterKept(t) ==
    \A h \in Opened(t) :
        iterAcked[h] <= t.hyp[h].iters /\ t.hyp[h].iters <= t.hyp[h].cap.iterations

IterInv ==
    /\ IterKept(tot)
    /\ IterKept(saved.tot)
    /\ op # None /\ op.kind = "iterate" =>
          op.hyp \in Opened(tot) /\ iterAcked[op.hyp] + 1 <= tot.hyp[op.hyp].iters

LEMMA LazyResetDay ==
    ASSUME NEW t \in Totals
    PROVE  /\ LazyReset(t).window = today
           /\ LazyReset(t).day["dollars"] =
                 IF t.window = today THEN t.day["dollars"] ELSE 0
BY CostAssumption DEF LazyReset, Totals, Zero

LEMMA DayInit == Init => DayInv
<1> SUFFICES ASSUME Init PROVE DayInv
  OBVIOUS
<1>1. tot.window = 0 /\ tot.day["dollars"] = 0 /\ saved.tot = tot
  BY CostAssumption DEF Init, Zero
<1>2. QED
  BY <1>1 DEF Init, DayInv, DayKept

LEMMA DayNext == TypeOK /\ DayInv /\ [Next]_vars => DayInv'
<1> SUFFICES ASSUME TypeOK, DayInv, [Next]_vars PROVE DayInv'
  OBVIOUS
<1> USE DEF disk, history
<1>1. /\ tot \in Totals /\ saved.tot \in Totals /\ today \in Nat /\ ackedToday \in Nat
      /\ tot.window \in Nat /\ saved.tot.window \in Nat
      /\ tot.day["dollars"] \in Nat /\ saved.tot.day["dollars"] \in Nat
  BY TotalsAreNumbers DEF TypeOK
<1>2. ASSUME tot'.window = tot.window, tot'.day = tot.day,
             UNCHANGED <<saved, today, ackedToday>>,
             op' = None \/ op'.dollars = 0 \/ (op # None /\ op'.dollars = op.dollars)
      PROVE  DayInv'
  BY <1>1, <1>2 DEF DayInv, DayKept
<1>3. ASSUME tot' = LazyReset(tot), UNCHANGED <<saved, today, ackedToday>>,
             op' = None \/ op'.dollars = 0
      PROVE  DayInv'
  BY <1>1, <1>3, LazyResetDay DEF DayInv, DayKept
<1>4. ASSUME NEW h \in Hyps, NEW cost \in Costs, BeginRecord(h, cost) PROVE DayInv'
  <2>1. cost["dollars"] \in Nat
    BY CostDollars
  <2>2. /\ tot'.window = today
        /\ tot'.day["dollars"] = LazyReset(tot).day["dollars"] + cost["dollars"]
    BY <1>1, <1>4, LazyResetDay, CostAssumption DEF BeginRecord, Charge, Add
  <2>3. op'.dollars = cost["dollars"]
    BY <1>4, BeginRecordType
  <2>4. UNCHANGED <<saved, today, ackedToday>>
    BY <1>4 DEF BeginRecord
  <2>5. QED
    BY <1>1, <2>1, <2>2, <2>3, <2>4, LazyResetDay DEF DayInv, DayKept
<1>5. ASSUME NEW h \in Hyps, NEW cap, OpenHypothesis(h, cap) PROVE DayInv'
  <2>1. tot'.window = tot.window /\ tot'.day = tot.day
    BY <1>1, <1>5 DEF OpenHypothesis, WithAccount, Totals
  <2>2. QED
    BY <1>2, <1>5, <2>1 DEF OpenHypothesis, Holding
<1>6. ASSUME NEW h \in Hyps, RecordIteration(h) PROVE DayInv'
  <2>1. tot'.window = tot.window /\ tot'.day = tot.day
    BY <1>1, <1>6 DEF RecordIteration, WithAccount, Totals
  <2>2. QED
    BY <1>2, <1>6, <2>1 DEF RecordIteration, Holding
<1>7. ASSUME NEW agg, NEW day, NEW h, NEW dollars, NEW clear,
             SetCap(agg, day, h, dollars, clear)
      PROVE  DayInv'
  <2>1. tot'.window = tot.window /\ tot'.day = tot.day
    BY <1>1, <1>7 DEF SetCap, WithAccount, Totals
  <2>2. QED
    BY <1>2, <1>7, <2>1 DEF SetCap, Holding
<1>8. CASE Checks
  <2>1. /\ tot' = LazyReset(tot) /\ UNCHANGED <<saved, today, ackedToday>>
        /\ op' = None \/ op'.dollars = 0
    BY <1>8 DEF Checks, CheckRefused, CheckGranted, CheckTripsAggregate, Holding
  <2>2. QED
    BY <1>3, <2>1
<1>9. CASE Remaining
  BY <1>3, <1>9 DEF Remaining
<1>10. CASE \/ \E h \in Hyps : CloseHypothesis(h)
            \/ \E c \in Clients : Cancel(c)
            \/ OperatorHaltFlag \/ OperatorHaltFile \/ OperatorHaltFails
            \/ UNCHANGED vars
  <2>1. /\ tot' = tot /\ UNCHANGED <<saved, today, ackedToday>>
        /\ op' = None \/ op'.dollars = 0 \/ op' = op
    BY <1>10 DEF CloseHypothesis, Holding, Cancel, OperatorHaltFlag, OperatorHaltFile,
       OperatorHaltFails, vars, memory
  <2>2. QED
    BY <1>2, <2>1
<1>11. CASE WriteSentinel \/ AppendLedger \/ UnlinkSentinel \/ DiskError
  <2>1. /\ tot' = tot /\ UNCHANGED <<saved, today, ackedToday>>
        /\ op # None
        /\ \/ op' = None
           \/ op' = [op EXCEPT !.step = "append"] \/ op' = [op EXCEPT !.step = "save"]
    BY <1>11 DEF WriteSentinel, AppendLedger, UnlinkSentinel, DiskError
  <2>2. op \in Op
    BY <2>1 DEF TypeOK
  <2>3. op' = None \/ op'.dollars = op.dollars
    BY <2>1, <2>2 DEF Op
  <2>4. QED
    BY <1>2, <2>1, <2>3
<1>12. CASE SaveState
  <2>1. op.dollars \in Nat /\ op # None
    BY <1>12 DEF SaveState, TypeOK, Op
  <2>2. /\ tot' = tot /\ saved'.tot = tot /\ today' = today /\ op' = None
        /\ ackedToday' = IF tot.window = today THEN ackedToday + op.dollars
                         ELSE ackedToday
    BY <1>12 DEF SaveState
  <2>3. QED
    BY <1>1, <2>1, <2>2 DEF DayInv, DayKept
<1>13. CASE CrashRestart
  BY <1>1, <1>13 DEF CrashRestart, DayInv, DayKept
<1>14. CASE DayTick
  BY <1>1, <1>14 DEF DayTick, memory, DayInv, DayKept
<1>15. CASE Charges
  <2>1. \A c \in Clients : resv[c] # None => resv[c].hyp \in Hyps
    BY DEF TypeOK, Reservation
  <2>2. QED
    BY <1>4, <1>15, <2>1 DEF Charges, Commit, RecordDirect
<1>16. QED
  BY <1>5, <1>6, <1>7, <1>8, <1>9, <1>10, <1>11, <1>12, <1>13, <1>14, <1>15
     DEF Next, Hypotheses, Operator, Writes

LEMMA IterInit == Init => IterInv
BY DEF Init, IterInv, IterKept, Opened

\* Giving a hypothesis an account that keeps the promise keeps all of them.
LEMMA WithAccountKeeps ==
    ASSUME NEW t \in Totals, NEW h \in Hyps, NEW a \in Account, IterKept(t),
           iterAcked[h] <= a.iters, a.iters <= a.cap.iterations
    PROVE  IterKept(WithAccount(t, h, a))
<1>1. \A g \in Hyps : WithAccount(t, h, a).hyp[g] = IF g = h THEN a ELSE t.hyp[g]
  BY DEF WithAccount, Totals
<1>2. QED
  BY <1>1 DEF IterKept, Opened

LEMMA ChargeKeeps ==
    ASSUME NEW t \in Totals, NEW h \in Hyps, NEW c, IterKept(t)
    PROVE  IterKept(Charge(t, h, c))
<1>1. \A g \in Hyps : Charge(t, h, c).hyp[g] =
                         IF g = h THEN ChargeAccount(t.hyp[h], c) ELSE t.hyp[g]
  BY DEF Charge, Totals
<1>2. CASE t.hyp[h] = None
  BY <1>1, <1>2 DEF ChargeAccount, IterKept, Opened
<1>3. CASE t.hyp[h] # None
  <2>1. h \in Opened(t) /\ t.hyp[h] \in Account
    BY <1>3 DEF Opened, Totals
  <2>2. /\ ChargeAccount(t.hyp[h], c).iters = t.hyp[h].iters
        /\ ChargeAccount(t.hyp[h], c).cap = t.hyp[h].cap
    BY <1>3, <2>1 DEF ChargeAccount, Account
  <2> HIDE DEF ChargeAccount
  <2>3. QED
    BY <1>1, <2>1, <2>2 DEF IterKept, Opened
<1>4. QED
  BY <1>2, <1>3

LEMMA IterNext == TypeOK /\ IterInv /\ [Next]_vars => IterInv'
<1> SUFFICES ASSUME TypeOK, IterInv, [Next]_vars PROVE IterInv'
  OBVIOUS
<1> USE DEF disk, history
<1>1. /\ tot \in Totals /\ saved.tot \in Totals /\ iterAcked \in [Hyps -> Nat]
      /\ IterKept(tot) /\ IterKept(saved.tot) /\ LazyReset(tot).hyp = tot.hyp
      /\ LazyReset(tot) \in Totals
  BY LazyResetType DEF TypeOK, IterInv
<1>2. \A h \in Opened(tot) :
         /\ h \in Hyps /\ tot.hyp[h] \in Account /\ tot.hyp[h].iters \in Nat
         /\ tot.hyp[h].cap.iterations \in Nat
  BY <1>1 DEF Opened, Totals, Account, HypCap
<1>3. ASSUME tot'.hyp = tot.hyp, UNCHANGED <<saved, iterAcked>>,
             op' = None \/ op'.kind # "iterate"
                \/ (op # None /\ op'.kind = op.kind /\ op'.hyp = op.hyp)
      PROVE  IterInv'
  BY <1>3 DEF IterInv, IterKept, Opened
<1>4. ASSUME IterKept(tot'), UNCHANGED <<saved, iterAcked>>,
             op' = None \/ op'.kind # "iterate"
      PROVE  IterInv'
  BY <1>4 DEF IterInv, IterKept, Opened
<1>5. ASSUME NEW h \in Hyps, NEW cost \in Costs, BeginRecord(h, cost) PROVE IterInv'
  <2>1. IterKept(LazyReset(tot))
    BY <1>1 DEF IterKept, Opened
  <2>2. tot' = Charge(LazyReset(tot), h, cost)
    BY <1>5 DEF BeginRecord
  <2>3. IterKept(tot')
    BY <1>1, <2>1, <2>2, ChargeKeeps
  <2>4. op'.kind = "record" /\ UNCHANGED <<saved, iterAcked>>
    BY <1>5, BeginRecordType DEF BeginRecord
  <2>5. QED
    BY <1>4, <2>3, <2>4
<1>6. ASSUME NEW h \in Hyps, NEW cap \in HypCaps, OpenHypothesis(h, cap)
      PROVE  IterInv'
  <2> DEFINE a == [cap |-> cap, used |-> Zero, iters |-> 0]
  <2>1. a \in Account /\ a.iters = 0 /\ a.cap.iterations \in Nat
    BY ZeroType, CostAssumption DEF Account, HypCap
  <2>2. tot' = WithAccount(tot, h, a) /\ saved' = saved /\ op'.kind = "open"
    BY <1>6 DEF OpenHypothesis, Holding
  <2> HIDE DEF a
  <2>3. \A g \in Hyps : iterAcked'[g] = IF g = h THEN 0 ELSE iterAcked[g]
    BY <1>1, <1>6 DEF OpenHypothesis
  <2>4. \A g \in Hyps : tot'.hyp[g] = IF g = h THEN a ELSE tot.hyp[g]
    BY <1>1, <2>2 DEF WithAccount, Totals
  <2>5. IterKept(tot)'
    BY <1>1, <2>1, <2>3, <2>4 DEF IterKept, Opened
  <2>6. ASSUME NEW g \in Opened(saved.tot)
        PROVE  /\ iterAcked'[g] <= saved.tot.hyp[g].iters
               /\ saved.tot.hyp[g].iters <= saved.tot.hyp[g].cap.iterations
    <3>1. g \in Hyps /\ saved.tot.hyp[g].iters \in Nat
      BY <1>1 DEF Opened, Totals, Account
    <3>2. QED
      BY <1>1, <2>3, <3>1 DEF IterKept
  <2>7. IterKept(saved.tot)'
    BY <2>2, <2>6 DEF IterKept, Opened
  <2>8. QED
    BY <2>2, <2>5, <2>7 DEF IterInv
<1>7. ASSUME NEW h \in Hyps, RecordIteration(h) PROVE IterInv'
  <2> DEFINE a == [tot.hyp[h] EXCEPT !.iters = tot.hyp[h].iters + 1]
  <2>1. /\ h \in Opened(tot) /\ tot' = WithAccount(tot, h, a)
        /\ tot.hyp[h].iters + 1 <= tot.hyp[h].cap.iterations
        /\ saved' = saved /\ iterAcked' = iterAcked /\ op'.hyp = h
    BY <1>7 DEF RecordIteration, Holding
  <2>2. a \in Account /\ a.iters = tot.hyp[h].iters + 1 /\ a.cap = tot.hyp[h].cap
    BY <1>2, <2>1 DEF Account
  <2> HIDE DEF a
  <2>3. iterAcked[h] \in Nat /\ iterAcked[h] <= tot.hyp[h].iters /\ tot.hyp[h].iters \in Nat
    BY <1>1, <1>2, <2>1 DEF IterKept
  <2>4. iterAcked[h] + 1 <= a.iters /\ iterAcked[h] <= a.iters /\ a.iters <= a.cap.iterations
    BY <2>1, <2>2, <2>3
  <2>5. IterKept(WithAccount(tot, h, a))
    BY <1>1, <2>2, <2>4, WithAccountKeeps
  <2>6. tot'.hyp[h] = a /\ h \in Opened(tot')
    BY <1>1, <2>1, <2>2, NoneAssumption DEF WithAccount, Totals, Opened
  <2>7. QED
    BY <1>1, <2>1, <2>4, <2>5, <2>6 DEF IterInv, IterKept, Opened
<1>8. ASSUME NEW agg, NEW day, NEW h, NEW dollars \in Nat, NEW clear,
             SetCap(agg, day, h, dollars, clear)
      PROVE  IterInv'
  <2>1. UNCHANGED <<saved, iterAcked>> /\ op'.kind = "setcap"
    BY <1>8 DEF SetCap, Holding
  <2>2. CASE h \in Opened(tot)
    <3>1. h \in Hyps /\ tot.hyp[h] \in Account
      BY <1>2, <2>2
    <3>2. Recapped(tot.hyp[h], dollars) \in Account
      BY <3>1, RecappedType
    <3>3. /\ Recapped(tot.hyp[h], dollars).iters = tot.hyp[h].iters
          /\ Recapped(tot.hyp[h], dollars).cap.iterations = tot.hyp[h].cap.iterations
      BY DEF Recapped
    <3>4. IterKept(WithAccount(tot, h, Recapped(tot.hyp[h], dollars)))
      <4>1. iterAcked[h] <= tot.hyp[h].iters /\ tot.hyp[h].iters <= tot.hyp[h].cap.iterations
        BY <1>1, <2>2 DEF IterKept
      <4> HIDE DEF Recapped
      <4>2. QED
        BY <1>1, <3>1, <3>2, <3>3, <4>1, WithAccountKeeps
    <3>5. tot' = WithAccount(tot, h, Recapped(tot.hyp[h], dollars))
      BY <1>8, <2>2 DEF SetCap
    <3>6. QED
      BY <1>4, <2>1, <3>4, <3>5
  <2>3. CASE h \notin Opened(tot)
    BY <1>1, <1>4, <1>8, <2>1, <2>3 DEF SetCap
  <2>4. QED
    BY <2>2, <2>3
<1>9. CASE \/ \E h \in Hyps : CloseHypothesis(h)
           \/ Checks \/ (\E c \in Clients : Cancel(c)) \/ Remaining
           \/ OperatorHaltFlag \/ OperatorHaltFile \/ OperatorHaltFails
           \/ DayTick \/ UNCHANGED vars
  <2>1. /\ tot' = tot \/ tot' = LazyReset(tot)
        /\ UNCHANGED <<saved, iterAcked>>
        /\ op' = op \/ op' = None \/ op'.kind \in {"close", "check"}
    BY <1>9 DEF CloseHypothesis, Checks, CheckRefused, CheckGranted, CheckTripsAggregate,
       Cancel, Remaining, OperatorHaltFlag, OperatorHaltFile, OperatorHaltFails,
       DayTick, Holding, vars, memory
  <2>2. QED
    BY <1>1, <1>3, <2>1
<1>10. CASE WriteSentinel \/ AppendLedger \/ UnlinkSentinel \/ DiskError
  <2>1. /\ tot' = tot /\ UNCHANGED <<saved, iterAcked>>
        /\ op # None
        /\ \/ op' = None
           \/ op' = [op EXCEPT !.step = "append"] \/ op' = [op EXCEPT !.step = "save"]
    BY <1>10 DEF WriteSentinel, AppendLedger, UnlinkSentinel, DiskError
  <2>2. op \in Op
    BY <2>1 DEF TypeOK
  <2>3. op' = None \/ (op'.kind = op.kind /\ op'.hyp = op.hyp)
    BY <2>1, <2>2 DEF Op
  <2>4. QED
    BY <1>3, <2>1, <2>3
<1>11. CASE SaveState
  <2>1. /\ tot' = tot /\ saved'.tot = tot /\ op # None /\ op' = None
        /\ iterAcked' = IF op.kind = "iterate"
                        THEN [iterAcked EXCEPT ![op.hyp] = iterAcked[op.hyp] + 1] ELSE iterAcked
    BY <1>11 DEF SaveState
  <2>2. ASSUME NEW h \in Opened(tot)
        PROVE  iterAcked'[h] <= tot.hyp[h].iters
    <3>1. h \in Hyps /\ iterAcked[h] <= tot.hyp[h].iters
      BY <1>1, <1>2 DEF IterKept
    <3>2. CASE op.kind = "iterate" /\ op.hyp = h
      BY <1>1, <2>1, <3>1, <3>2 DEF IterInv
    <3>3. CASE ~ (op.kind = "iterate" /\ op.hyp = h)
      BY <1>1, <2>1, <3>1, <3>3
    <3>4. QED
      BY <3>2, <3>3
  <2>3. QED
    BY <1>1, <2>1, <2>2 DEF IterInv, IterKept, Opened
<1>12. CASE CrashRestart
  BY <1>1, <1>12 DEF CrashRestart, IterInv, IterKept, Opened
<1>13. CASE Charges
  <2>1. \A c \in Clients : resv[c] # None => resv[c].hyp \in Hyps
    BY DEF TypeOK, Reservation
  <2>2. QED
    BY <1>5, <1>13, <2>1 DEF Charges, Commit, RecordDirect
<1>14. CASE Operator
  <2>1. \A dollars \in TierCaps : dollars \in Nat
    BY CapAssumption
  <2>2. QED
    BY <1>8, <1>9, <1>14, <2>1 DEF Operator
<1>15. QED
  BY <1>6, <1>7, <1>9, <1>10, <1>11, <1>12, <1>13, <1>14 DEF Next, Hypotheses, Writes

\* A restart, a failed write or a new day takes nothing back that the tracker
\* acknowledged: the program's spend, the day's, and the iterations each
\* hypothesis was told it may use.
THEOREM PromisesHold == Spec => []PromisesOutlastRestarts
<1>1. TypeOK /\ DayInv => DayNotForgotten
  <2> SUFFICES ASSUME TypeOK, DayInv PROVE DayNotForgotten
    OBVIOUS
  <2>1. tot \in Totals /\ saved.tot \in Totals
    BY DEF TypeOK
  <2>2. QED
    BY <2>1, LazyResetDay DEF DayInv, DayKept, DayNotForgotten
<1>2. IterInv => IterationsWithinCap
  BY DEF IterInv, IterKept, IterationsWithinCap
<1>3. TypeOK /\ DayInv /\ IterInv /\ AckedSpendDurable => PromisesOutlastRestarts
  BY <1>1, <1>2 DEF PromisesOutlastRestarts
<1>4. TypeOK /\ DayInv /\ [Next]_vars => DayInv'
  BY DayNext
<1>5. TypeOK /\ IterInv /\ [Next]_vars => IterInv'
  BY IterNext
<1>6. QED
  BY <1>3, <1>4, <1>5, DayInit, IterInit, TypeCorrect, SpendIsDurable, PTL DEF Spec
-----------------------------------------------------------------------------
(* The overshoot of the aggregate cap.                                      *)

\* What one reservation covers, and what all the others may cost.
Covered(c) == resv[c].est["dollars"] + MaxCost * (Cardinality(Outstanding) - 1)

\* While reservations are out, there is one among them that the aggregate cap
\* leaves room for, with an operation of any price for each of the others:
\* the one that was checked last, or one that stood beside it.
OvershootInv ==
    /\ aggCap <= capHigh
    /\ ConfigAggCap <= capHigh
    /\ tot.agg <= Room
    /\ Outstanding # {} => \E c \in Outstanding : tot.agg + Covered(c) <= Room

LEMMA OutstandingFinite ==
    /\ IsFiniteSet(Outstanding)
    /\ Cardinality(Outstanding) \in Nat
    /\ Cardinality(Clients) \in Nat \ {0}
    /\ Cardinality(Outstanding) <= Cardinality(Clients)
<1>1. Outstanding \subseteq Clients
  BY DEF Outstanding
<1>2. Cardinality(Clients) # 0
  BY ClientAssumption, FS_EmptySet
<1>3. QED
  BY <1>1, <1>2, ClientAssumption, FS_Subset, FS_CardinalityType

LEMMA OutstandingNextFinite ==
    /\ IsFiniteSet(Outstanding')
    /\ Cardinality(Outstanding') \in Nat
    /\ Cardinality(Outstanding') <= Cardinality(Clients)
<1>1. Outstanding' \subseteq Clients
  BY DEF Outstanding
<1>2. QED
  BY <1>1, ClientAssumption, FS_Subset, FS_CardinalityType

\* Giving a reservation back frees one client.
LEMMA ReleaseCounts ==
    ASSUME TypeOK, NEW c \in Clients, resv[c] # None,
           resv' = [resv EXCEPT ![c] = None]
    PROVE  /\ c \in Outstanding
           /\ Outstanding' = Outstanding \ {c}
           /\ Cardinality(Outstanding) = Cardinality(Outstanding') + 1
<1>1. Outstanding' = Outstanding \ {c} /\ c \in Outstanding
  BY DEF Outstanding, TypeOK
<1>2. Cardinality(Outstanding \ {c}) = Cardinality(Outstanding) - 1
  BY <1>1, OutstandingFinite, FS_RemoveElement
<1>3. QED
  BY <1>1, <1>2, OutstandingFinite

LEMMA TimesMonotone ==
    ASSUME NEW m \in Nat, NEW a \in Nat, NEW b \in Nat, a <= b
    PROVE  m * a <= m * b /\ m * a \in Nat /\ m * b \in Nat
OBVIOUS

LEMMA TimesSuccessor ==
    ASSUME NEW m \in Nat, NEW a \in Nat
    PROVE  m * (a + 1) = m * a + m
OBVIOUS

LEMMA RoomType == TypeOK => Room \in Nat
<1>1. Cardinality(Clients) - 1 \in Nat
  BY OutstandingFinite
<1>2. MaxCost * (Cardinality(Clients) - 1) \in Nat
  BY <1>1, CostAssumption, TimesMonotone
<1>3. QED
  BY <1>2 DEF TypeOK, Room

\* The estimate a client holds is a price.
LEMMA EstimateType ==
    ASSUME TypeOK, NEW c \in Outstanding
    PROVE  /\ resv[c].hyp \in Hyps
           /\ resv[c].est["dollars"] \in Nat
           /\ resv[c].est["dollars"] <= MaxCost
<1>1. resv[c] \in Reservation
  BY DEF Outstanding, TypeOK
<1>2. QED
  BY <1>1, CostDollars DEF Reservation

\* Once one reservation is given back, each of the others is covered if the
\* dollars the one given back had are still there, or its share of the bound.
LEMMA StillCovered ==
    ASSUME TypeOK, NEW c \in Clients, resv[c] # None,
           resv' = [resv EXCEPT ![c] = None],
           NEW spent \in Nat, NEW room \in Nat, NEW w \in Outstanding,
           w = c  => spent + resv[c].est["dollars"]
                        + MaxCost * (Cardinality(Outstanding) - 1) <= room,
           w # c  => spent + resv[w].est["dollars"]
                        + MaxCost * (Cardinality(Outstanding) - 2) <= room
    PROVE  Outstanding' # {} =>
              \E d \in Outstanding' : spent + Covered(d)' <= room
<1> SUFFICES ASSUME Outstanding' # {}
             PROVE  \E d \in Outstanding' : spent + Covered(d)' <= room
  OBVIOUS
<1> DEFINE n == Cardinality(Outstanding')
<1>1. /\ n \in Nat /\ n # 0
      /\ Cardinality(Outstanding) = n + 1
      /\ Outstanding' = Outstanding \ {c}
      /\ MaxCost \in Nat
  BY ReleaseCounts, OutstandingNextFinite, FS_EmptySet, CostAssumption
<1>2. PICK m \in Nat : n = m + 1
  <2>1. n - 1 \in Nat /\ n = (n - 1) + 1
    BY <1>1
  <2>2. QED
    BY <2>1
<1>3. /\ MaxCost * n = MaxCost * m + MaxCost
      /\ MaxCost * m \in Nat
  BY <1>1, <1>2, TimesSuccessor, TimesMonotone
<1>4. \A d \in Outstanding' :
         /\ d \in Outstanding
         /\ Covered(d)' = resv[d].est["dollars"] + MaxCost * m
  <2>1. SUFFICES ASSUME NEW d \in Outstanding'
                 PROVE  /\ d \in Outstanding
                        /\ Covered(d)' = resv[d].est["dollars"] + MaxCost * m
    OBVIOUS
  <2>2. d \in Outstanding /\ d # c /\ d \in Clients
    BY <1>1, <2>1 DEF Outstanding
  <2>3. resv'[d] = resv[d]
    BY <2>2 DEF TypeOK
  <2>4. n - 1 = m
    BY <1>2
  <2>5. QED
    BY <2>2, <2>3, <2>4 DEF Covered
<1>5. CASE w = c
  <2>1. PICK d \in Outstanding' : TRUE
    OBVIOUS
  <2>2. /\ resv[d].est["dollars"] \in Nat
        /\ resv[d].est["dollars"] <= MaxCost
        /\ resv[c].est["dollars"] \in Nat
    BY <1>4, <1>5, <2>1, EstimateType
  <2>3. spent + resv[c].est["dollars"] + MaxCost * n <= room
    BY <1>1, <1>5
  <2>4. spent + (resv[d].est["dollars"] + MaxCost * m) <= room
    BY <1>1, <1>3, <2>2, <2>3
  <2>5. QED
    BY <1>4, <2>1, <2>4
<1>6. CASE w # c
  <2>1. w \in Outstanding'
    BY <1>1, <1>6
  <2>2. resv[w].est["dollars"] \in Nat
    BY EstimateType
  <2>3. Cardinality(Outstanding) - 2 = m
    BY <1>1, <1>2
  <2>4. spent + (resv[w].est["dollars"] + MaxCost * m) <= room
    BY <1>3, <1>6, <2>2, <2>3
  <2>5. QED
    BY <1>4, <2>1, <2>4
<1>7. QED
  BY <1>5, <1>6

LEMMA OvershootInit == Init => OvershootInv
<1> SUFFICES ASSUME Init PROVE OvershootInv
  OBVIOUS
<1>1. tot.agg = 0 /\ capHigh = ConfigAggCap /\ aggCap = ConfigAggCap
  BY DEF Init
<1>2. Room \in Nat
  BY InitType, RoomType
<1>3. Outstanding = {}
  BY DEF Init, Outstanding
<1>4. QED
  BY <1>1, <1>2, <1>3, CapAssumption DEF OvershootInv

LEMMA OvershootNext ==
    TypeOK /\ SpendInv /\ OvershootInv /\ [Next]_vars => OvershootInv'
<1> SUFFICES ASSUME TypeOK, SpendInv, OvershootInv, [Next]_vars
             PROVE  OvershootInv'
  OBVIOUS
<1> USE DEF disk, history
<1> DEFINE others == MaxCost * (Cardinality(Outstanding) - 1)
           rest == MaxCost * (Cardinality(Outstanding) - 2)
           share == MaxCost * (Cardinality(Clients) - 1)
<1>0. /\ tot \in Totals /\ tot.agg \in Nat /\ saved.tot.agg \in Nat
      /\ aggCap \in Nat /\ capHigh \in Nat /\ unreserved \in Nat
      /\ ConfigAggCap \in Nat /\ MaxCost \in Nat
      /\ Room \in Nat /\ share \in Nat
  <2>1. share \in Nat
    BY OutstandingFinite, CostAssumption, TimesMonotone
  <2>2. QED
    BY <2>1, RoomType, CapAssumption, CostAssumption DEF TypeOK, Totals
<1>1. LazyReset(tot).agg = tot.agg
  BY <1>0, LazyResetType DEF TypeOK
<1>2. Room = capHigh + share + unreserved
  BY DEF Room
<1>3. ASSUME tot'.agg = tot.agg,
             UNCHANGED <<aggCap, resv, capHigh, unreserved>>
      PROVE  OvershootInv'
  BY <1>3 DEF OvershootInv, Room, Outstanding, Covered
<1>4. ASSUME NEW h \in Hyps, NEW cap \in HypCaps, OpenHypothesis(h, cap)
      PROVE  OvershootInv'
  <2>1. tot'.agg = tot.agg
    BY <1>0, <1>4 DEF OpenHypothesis, WithAccount, Totals
  <2>2. QED
    BY <1>3, <1>4, <2>1 DEF OpenHypothesis
<1>5. ASSUME NEW h \in Hyps, CloseHypothesis(h) PROVE OvershootInv'
  BY <1>3, <1>5 DEF CloseHypothesis
<1>6. ASSUME NEW h \in Hyps, RecordIteration(h) PROVE OvershootInv'
  <2>1. tot'.agg = tot.agg
    BY <1>0, <1>6 DEF RecordIteration, WithAccount, Totals
  <2>2. QED
    BY <1>3, <1>6, <2>1 DEF RecordIteration
<1>7. ASSUME NEW h \in Hyps, NEW est \in Costs, NEW iters \in {0, 1},
             CheckRefused(h, est, iters)
      PROVE  OvershootInv'
  BY <1>1, <1>3, <1>7 DEF CheckRefused
<1>8. ASSUME NEW h \in Hyps, NEW est \in Costs, NEW iters \in {0, 1},
             NEW c \in Clients, CheckGranted(c, h, est, iters)
      PROVE  OvershootInv'
  <2>1. tot'.agg = tot.agg /\ UNCHANGED <<aggCap, capHigh, unreserved>>
    BY <1>1, <1>8 DEF CheckGranted
  <2>2. tot.agg + est["dollars"] <= aggCap
    BY <1>8, <2>1 DEF CheckGranted, AggregateFits
  <2>3. est["dollars"] \in Nat
    BY CostDollars
  <2>4. resv'[c].est = est /\ c \in Outstanding'
    <3>1. resv' = [resv EXCEPT ![c] = [hyp |-> h, est |-> est]]
      BY <1>8 DEF CheckGranted
    <3>2. [hyp |-> h, est |-> est] \in Reservation
      BY DEF Reservation
    <3>3. resv'[c] # None
      BY <3>1, <3>2, NoneAssumption DEF TypeOK
    <3>4. QED
      BY <3>1, <3>3 DEF TypeOK, Outstanding
  <2>5. MaxCost * (Cardinality(Outstanding') - 1) <= share
    <3>1. Cardinality(Outstanding') # 0
      BY <2>4, OutstandingNextFinite, FS_EmptySet
    <3>2. /\ Cardinality(Outstanding') - 1 \in Nat
          /\ Cardinality(Clients) - 1 \in Nat
          /\ Cardinality(Outstanding') - 1 <= Cardinality(Clients) - 1
      BY <3>1, OutstandingNextFinite, OutstandingFinite
    <3>3. QED
      BY <1>0, <3>2, TimesMonotone
  <2>6. MaxCost * (Cardinality(Outstanding') - 1) \in Int
    BY <1>0, OutstandingNextFinite
  <2>7. tot'.agg + Covered(c)' <= capHigh + share + unreserved
    BY <1>0, <2>1, <2>2, <2>3, <2>4, <2>5, <2>6 DEF OvershootInv, Covered
  <2>8. Room' = capHigh + share + unreserved
    BY <2>1 DEF Room
  <2>9. QED
    BY <2>1, <2>4, <2>7, <2>8, <1>2 DEF OvershootInv
<1>9. ASSUME NEW h \in Hyps, NEW est \in Costs, CheckTripsAggregate(h, est)
      PROVE  OvershootInv'
  BY <1>1, <1>3, <1>9 DEF CheckTripsAggregate
<1>10. ASSUME NEW c \in Clients, resv[c] # None,
              resv' = [resv EXCEPT ![c] = None]
       PROVE  /\ c \in Outstanding
              /\ others \in Nat
              /\ \A w \in Outstanding : w # c =>
                    others = rest + MaxCost /\ rest \in Nat
  <2>1. c \in Outstanding /\ Outstanding' = Outstanding \ {c}
        /\ Cardinality(Outstanding) = Cardinality(Outstanding') + 1
    BY <1>10, ReleaseCounts
  <2>2. others \in Nat
    <3>1. Cardinality(Outstanding) - 1 = Cardinality(Outstanding')
      BY <2>1, OutstandingNextFinite
    <3>2. QED
      BY <1>0, <3>1, OutstandingNextFinite, TimesMonotone
  <2>3. ASSUME NEW w \in Outstanding, w # c
        PROVE  others = rest + MaxCost /\ rest \in Nat
    <3>1. Outstanding' # {}
      BY <2>1, <2>3
    <3>2. Cardinality(Outstanding') # 0
      BY <3>1, OutstandingNextFinite, FS_EmptySet
    <3> DEFINE m == Cardinality(Outstanding) - 2
    <3>3. m \in Nat /\ Cardinality(Outstanding) - 1 = m + 1
      BY <2>1, <3>2, OutstandingNextFinite
    <3> HIDE DEF m
    <3>4. MaxCost * (m + 1) = MaxCost * m + MaxCost /\ MaxCost * m \in Nat
      BY <1>0, <3>3, TimesSuccessor, TimesMonotone
    <3>5. QED
      BY <3>3, <3>4 DEF m
  <2>4. QED
    BY <2>1, <2>2, <2>3
<1>24. ASSUME Outstanding # {}, others \in Nat
       PROVE  \E w \in Outstanding :
                 tot.agg + resv[w].est["dollars"] + others <= Room
  <2>1. PICK w \in Outstanding : tot.agg + Covered(w) <= Room
    BY <1>24 DEF OvershootInv
  <2>2. resv[w].est["dollars"] \in Nat
    BY EstimateType
  <2>3. Covered(w) = resv[w].est["dollars"] + others
    BY DEF Covered
  <2> HIDE DEF others
  <2>4. tot.agg + resv[w].est["dollars"] + others <= Room
    BY <1>0, <1>24, <2>1, <2>2, <2>3
  <2>5. QED
    BY <2>4
<1> HIDE DEF others, rest
<1>11. ASSUME NEW c \in Clients, Cancel(c) PROVE OvershootInv'
  <2>1. /\ resv[c] # None /\ resv' = [resv EXCEPT ![c] = None]
        /\ UNCHANGED <<tot, aggCap, capHigh, unreserved>>
    BY <1>11 DEF Cancel
  <2>2. PICK w \in Outstanding :
           tot.agg + resv[w].est["dollars"] + others <= Room
    BY <1>10, <1>24, <2>1
  <2>3. w # c => tot.agg + resv[w].est["dollars"] + rest <= Room
    <3>1. resv[w].est["dollars"] \in Nat
      BY EstimateType
    <3>2. w # c => others = rest + MaxCost /\ rest \in Nat
      BY <1>10, <2>1
    <3>3. QED
      BY <1>0, <2>2, <3>1, <3>2
  <2>4. w = c => tot.agg + resv[c].est["dollars"] + others <= Room
    BY <2>2
  <2>5. Outstanding' # {} =>
           \E d \in Outstanding' : tot.agg + Covered(d)' <= Room
    BY <1>0, <2>1, <2>3, <2>4, StillCovered DEF others, rest
  <2>6. Room' = Room
    BY <2>1 DEF Room
  <2>7. QED
    BY <2>1, <2>5, <2>6 DEF OvershootInv
<1>12. ASSUME NEW cost \in Costs, NEW c \in Clients, Commit(c, cost)
       PROVE  OvershootInv'
  <2>1. resv[c] # None /\ resv' = [resv EXCEPT ![c] = None]
        /\ UNCHANGED <<aggCap, capHigh>>
    BY <1>12 DEF Commit, BeginRecord
  <2>2. /\ resv[c].hyp \in Hyps
        /\ resv[c].est["dollars"] \in Nat
        /\ resv[c].est["dollars"] <= MaxCost
        /\ cost["dollars"] \in Nat
        /\ cost["dollars"] <= MaxCost
    BY <1>10, <2>1, EstimateType, CostDollars
  <2>3. tot'.agg = tot.agg + cost["dollars"] /\ tot'.agg \in Nat
    BY <1>0, <1>12, <2>2, BeginRecordType DEF Commit
  <2>4. /\ unreserved' \in Nat /\ unreserved' >= unreserved
        /\ cost["dollars"] <= resv[c].est["dollars"] + unreserved' - unreserved
    BY <1>0, <1>12, <2>2 DEF Commit, Greater
  <2>5. Room' = Room + (unreserved' - unreserved) /\ Room' \in Nat
    <3>1. Room' = capHigh + share + unreserved'
      BY <2>1 DEF Room
    <3>2. QED
      BY <1>0, <1>2, <2>4, <3>1
  <2>6. PICK w \in Outstanding :
           tot.agg + resv[w].est["dollars"] + others <= Room
    BY <1>10, <1>24, <2>1
  <2>7. resv[w].est["dollars"] \in Nat
    BY EstimateType
  <2>8. CASE w = c
    <3>0. others \in Nat
      BY <1>10, <2>1
    <3>1. tot'.agg + others <= Room'
      <4>1. tot.agg + resv[c].est["dollars"] + others <= Room
        BY <2>6, <2>8
      <4>2. QED
        BY <1>0, <2>2, <2>3, <2>4, <2>5, <3>0, <4>1
    <3>2. tot'.agg <= Room'
      BY <2>3, <2>5, <3>0, <3>1
    <3>3. Outstanding' # {} =>
             \E d \in Outstanding' : tot'.agg + Covered(d)' <= Room'
      <4>1. SUFFICES ASSUME NEW d \in Outstanding'
                     PROVE  tot'.agg + Covered(d)' <= Room'
        OBVIOUS
      <4>2. d \in Outstanding /\ d # c /\ d \in Clients
        BY <2>1, <4>1, ReleaseCounts
           DEF Outstanding
      <4>3. others = rest + MaxCost /\ rest \in Nat
        BY <1>10, <2>1, <4>2
      <4>4. /\ resv[d].est["dollars"] \in Nat
            /\ resv[d].est["dollars"] <= MaxCost
        BY <4>2, EstimateType
      <4>5. Covered(d)' = resv[d].est["dollars"] + rest
        <5>1. Cardinality(Outstanding') - 1 = Cardinality(Outstanding) - 2
          <6>1. Cardinality(Outstanding) = Cardinality(Outstanding') + 1
            BY <2>1, ReleaseCounts
          <6>2. QED
            BY <6>1, OutstandingNextFinite, OutstandingFinite
        <5>2. resv'[d] = resv[d]
          BY <2>1, <4>2 DEF TypeOK
        <5>3. QED
          BY <5>1, <5>2 DEF Covered, rest
      <4>6. QED
        BY <1>0, <2>3, <2>5, <3>1, <4>3, <4>4, <4>5
    <3>4. QED
      BY <1>0, <2>1, <3>2, <3>3 DEF OvershootInv
  <2>9. CASE w # c
    <3>1. others = rest + MaxCost /\ rest \in Nat
      BY <1>10, <2>1, <2>9
    <3>2. tot'.agg + resv[w].est["dollars"] + rest <= Room'
      BY <1>0, <2>2, <2>3, <2>4, <2>5, <2>6, <2>7, <3>1
    <3>3. tot'.agg <= Room'
      BY <2>3, <2>5, <2>7, <3>1, <3>2
    <3>4. Outstanding' # {} =>
             \E d \in Outstanding' : tot'.agg + Covered(d)' <= Room'
      BY <2>1, <2>3, <2>5, <2>9, <3>2, StillCovered DEF rest
    <3>5. QED
      BY <1>0, <2>1, <3>3, <3>4 DEF OvershootInv
  <2>10. QED
    BY <2>8, <2>9
<1>13. ASSUME NEW cost \in Costs, NEW h \in Hyps, RecordDirect(h, cost)
       PROVE  OvershootInv'
  <2>1. tot'.agg = tot.agg + cost["dollars"] /\ cost["dollars"] \in Nat
    BY <1>13, BeginRecordType, CostDollars DEF RecordDirect
  <2>2. /\ unreserved' = unreserved + cost["dollars"]
        /\ UNCHANGED <<resv, aggCap, capHigh>>
    BY <1>13 DEF RecordDirect, BeginRecord
  <2>3. Room' = Room + cost["dollars"]
    BY <1>0, <1>2, <2>1, <2>2 DEF Room
  <2>4. Outstanding' = Outstanding
    BY <2>2 DEF Outstanding
  <2>5. \A c \in Outstanding : Covered(c)' = Covered(c) /\ Covered(c) \in Int
    BY <1>0, <2>2, <2>4, EstimateType, OutstandingFinite DEF Covered
  <2>6. QED
    BY <1>0, <2>1, <2>2, <2>3, <2>4, <2>5 DEF OvershootInv
<1>14. CASE Remaining
  BY <1>1, <1>3, <1>14 DEF Remaining
<1>15. ASSUME NEW agg \in Nat, NEW day, NEW h \in Hyps \cup {None}, NEW dollars,
              NEW clear \in BOOLEAN, SetCap(agg, day, h, dollars, clear)
       PROVE  OvershootInv'
  <2>1. tot'.agg = tot.agg
    BY <1>0, <1>15 DEF SetCap, WithAccount, Totals
  <2>2. /\ capHigh' \in Nat /\ capHigh' >= capHigh /\ capHigh' >= agg
        /\ aggCap' = agg
        /\ UNCHANGED <<resv, unreserved>>
    BY <1>0, <1>15, GreaterType DEF SetCap
  <2>3. Room' \in Nat /\ Room' >= Room
    <3>1. Room' = capHigh' + share + unreserved
      BY <2>2 DEF Room
    <3>2. QED
      BY <1>0, <1>2, <2>2, <3>1
  <2>4. Outstanding' = Outstanding
    BY <2>2 DEF Outstanding
  <2>5. \A c \in Outstanding : Covered(c)' = Covered(c) /\ Covered(c) \in Int
    BY <1>0, <2>2, <2>4, EstimateType, OutstandingFinite DEF Covered
  <2>6. QED
    BY <1>0, <2>1, <2>2, <2>3, <2>4, <2>5 DEF OvershootInv
<1>16. CASE CrashRestart
  <2>1. tot'.agg <= tot.agg /\ tot'.agg \in Nat
    BY <1>0, <1>16 DEF CrashRestart, SpendInv
  <2>2. Outstanding' = {}
    BY <1>16 DEF CrashRestart, Outstanding
  <2>3. aggCap' = ConfigAggCap /\ UNCHANGED <<capHigh, unreserved>>
    BY <1>16 DEF CrashRestart
  <2>4. Room' = Room
    BY <2>3 DEF Room
  <2>5. QED
    BY <1>0, <2>1, <2>2, <2>3, <2>4 DEF OvershootInv
<1>17. CASE OperatorHaltFlag
  BY <1>3, <1>17 DEF OperatorHaltFlag
<1>18. CASE OperatorHaltFile \/ OperatorHaltFails
  BY <1>3, <1>18 DEF OperatorHaltFile, OperatorHaltFails
<1>19. CASE Operator
  <2>1. \A agg \in AggCaps \cup {aggCap} : agg \in Nat
    BY CapAssumption DEF TypeOK
  <2>2. QED
    BY <1>15, <1>17, <1>18, <1>19, <2>1 DEF Operator
<1>20. CASE Writes
  BY <1>3, <1>20 DEF Writes, WriteSentinel, AppendLedger, UnlinkSentinel,
     SaveState, DiskError
<1>21. CASE DayTick
  BY <1>3, <1>21 DEF DayTick, memory
<1>22. CASE UNCHANGED vars
  BY <1>3, <1>22 DEF vars, memory
<1>23. QED
  BY <1>4, <1>5, <1>6, <1>7, <1>8, <1>9, <1>11, <1>12, <1>13, <1>14, <1>16,
     <1>19, <1>20, <1>21, <1>22
     DEF Next, Hypotheses, Checks, Charges

LEMMA OvershootInvariant == Spec => []OvershootInv
<1>1. TypeOK /\ SpendInv /\ OvershootInv /\ [Next]_vars => OvershootInv'
  BY OvershootNext
<1>2. QED
  BY <1>1, OvershootInit, TypeCorrect, SpendInvariant, PTL DEF Spec

\* However many threads check and commit at once, and through any restarts,
\* the program spends no more than the highest cap ever in force, one
\* operation for each thread but one, and what was charged beyond any
\* reservation.
THEOREM OvershootIsBounded == Spec => []OvershootBounded
<1>1. OvershootInv => OvershootBounded
  BY DEF OvershootInv, OvershootBounded
<1>2. QED
  BY <1>1, OvershootInvariant, PTL
-----------------------------------------------------------------------------
(* A halt is not bypassed.                                                  *)

\* A halt that stands is on disk, where a restart finds it, and the one step
\* that deletes the file comes after its clear has ended the promise.
HaltInv ==
    /\ standing => sentinel
    /\ Clearing => ~standing

LEMMA HaltInit == Init => HaltInv
BY DEF Init, HaltInv, Clearing

LEMMA HaltNext == TypeOK /\ HaltInv /\ [Next]_vars => HaltInv'
<1> SUFFICES ASSUME TypeOK, HaltInv, [Next]_vars PROVE HaltInv'
  OBVIOUS
<1> USE DEF disk, history, HaltInv, Clearing
<1>0. /\ standing \in BOOLEAN /\ sentinel \in BOOLEAN
      /\ op # None => op \in Op
  BY DEF TypeOK
<1>1. ASSUME UNCHANGED <<standing, sentinel>>,
             op' = op \/ op' = None \/ op'.step # "unlink"
      PROVE  HaltInv'
  BY <1>0, <1>1
<1>2. \A kind \in Kinds, h \in Hyps :
         Holding(kind, "save", h, 0).step = "save"
  BY DEF Holding
<1>3. ASSUME NEW cost \in Costs, NEW h \in Hyps, BeginRecord(h, cost)
      PROVE  HaltInv'
  <2>1. op'.step \in {"sentinel", "append"}
    BY <1>3, BeginRecordType
  <2>2. UNCHANGED <<standing, sentinel>>
    BY <1>3 DEF BeginRecord
  <2>3. QED
    BY <1>1, <2>1, <2>2
<1>4. CASE Hypotheses
  BY <1>1, <1>2, <1>4 DEF Hypotheses, OpenHypothesis, CloseHypothesis, RecordIteration
<1>5. CASE Checks
  <2>1. ASSUME NEW h \in Hyps, NEW est \in Costs, CheckTripsAggregate(h, est)
        PROVE  HaltInv'
    <3>1. op'.step = "sentinel" /\ UNCHANGED <<standing, sentinel>>
      BY <2>1 DEF CheckTripsAggregate, Holding
    <3>2. QED
      BY <1>1, <3>1
  <2>2. ASSUME NEW h \in Hyps, NEW est \in Costs, NEW iters \in {0, 1},
               \/ CheckRefused(h, est, iters)
               \/ \E c \in Clients : CheckGranted(c, h, est, iters)
        PROVE  HaltInv'
    BY <1>1, <2>2 DEF CheckRefused, CheckGranted
  <2>3. QED
    BY <1>5, <2>1, <2>2 DEF Checks
<1>6. CASE Charges
  <2>1. ASSUME NEW c \in Clients, NEW cost \in Costs, Commit(c, cost)
        PROVE  HaltInv'
    <3>1. resv[c].hyp \in Hyps
      BY <2>1 DEF Commit, TypeOK, Reservation
    <3>2. QED
      BY <1>3, <2>1, <3>1 DEF Commit
  <2>2. ASSUME NEW cost \in Costs, NEW h \in Hyps, RecordDirect(h, cost)
        PROVE  HaltInv'
    BY <1>3, <2>2 DEF RecordDirect
  <2>3. QED
    BY <1>6, <2>1, <2>2 DEF Charges
<1>7. CASE Operator
  <2>1. ASSUME NEW agg, NEW day, NEW h, NEW dollars, NEW clear \in BOOLEAN,
               SetCap(agg, day, h, dollars, clear)
        PROVE  HaltInv'
    <3>1. op'.step = IF clear THEN "unlink" ELSE "save"
      BY <2>1 DEF SetCap, Holding
    <3>2. /\ standing' = (standing /\ ~clear)
          /\ UNCHANGED sentinel
      BY <2>1 DEF SetCap
    <3>3. QED
      BY <1>0, <3>1, <3>2
  <2>2. CASE OperatorHaltFlag \/ OperatorHaltFails
    BY <1>1, <2>2 DEF OperatorHaltFlag, OperatorHaltFails
  <2>3. CASE OperatorHaltFile
    BY <1>0, <2>3 DEF OperatorHaltFile
  <2>4. QED
    BY <1>7, <2>1, <2>2, <2>3 DEF Operator
<1>8. CASE WriteSentinel
  <2>1. sentinel' = TRUE
    BY <1>8 DEF WriteSentinel
  <2>2. op' = None \/ op'.step = "append"
    BY <1>0, <1>8 DEF WriteSentinel, Op
  <2>3. QED
    BY <2>1, <2>2
<1>9. CASE AppendLedger \/ SaveState \/ DiskError
  <2>1. op' = None \/ op'.step = "save"
    BY <1>0, <1>9 DEF AppendLedger, SaveState, DiskError, Op
  <2>2. QED
    BY <1>1, <1>9, <2>1 DEF AppendLedger, SaveState, DiskError
<1>10. CASE UnlinkSentinel
  <2>1. op'.step = "save" /\ ~standing /\ standing' = standing
    BY <1>0, <1>10 DEF UnlinkSentinel, Op
  <2>2. QED
    BY <2>1
<1>11. CASE CrashRestart
  BY <1>1, <1>11 DEF CrashRestart
<1>12. CASE \/ \E c \in Clients : Cancel(c)
            \/ Remaining \/ DayTick \/ UNCHANGED vars
  BY <1>1, <1>12 DEF Cancel, Remaining, DayTick, memory, vars
<1>13. QED
  BY <1>4, <1>5, <1>6, <1>7, <1>8, <1>9, <1>10, <1>11, <1>12 DEF Next, Writes

LEMMA HaltInvariant == Spec => []HaltInv
<1>1. TypeOK /\ HaltInv /\ [Next]_vars => HaltInv'
  BY HaltNext
<1>2. QED
  BY <1>1, HaltInit, TypeCorrect, PTL DEF Spec

\* Only a granted check gives a client a reservation it did not have, and a
\* check is granted only while neither the flag nor the sentinel is there.
LEMMA GrantNeedsNoHalt ==
    ASSUME TypeOK, [Next]_vars, NEW c \in Clients,
           resv[c] = None, resv'[c] # None
    PROVE  ~ HaltActive
<1>1. resv' # resv
  OBVIOUS
<1>2. \A d \in Clients : resv' = [resv EXCEPT ![d] = None] => resv'[c] = None
  BY DEF TypeOK
<1>3. resv' # [d \in Clients |-> None]
  OBVIOUS
<1>4. \E d \in Clients, h \in Hyps, est \in Costs, iters \in {0, 1} :
         CheckGranted(d, h, est, iters)
  BY <1>1, <1>2, <1>3 DEF Next, Hypotheses, Checks, Charges, Operator, Writes,
     OpenHypothesis, CloseHypothesis, RecordIteration, CheckRefused,
     CheckTripsAggregate, Cancel, Commit, RecordDirect, Remaining, SetCap,
     OperatorHaltFlag, OperatorHaltFile, OperatorHaltFails, WriteSentinel, AppendLedger,
     UnlinkSentinel, SaveState, DiskError, CrashRestart, DayTick, vars, memory
<1>5. QED
  BY <1>4 DEF CheckGranted

\* A halt whose sentinel was written while no clear was under way keeps every
\* client from new reservations until it is cleared, through crashes, restarts
\* and failed writes, also when it came from halt_program without the lock.
THEOREM HaltIsNotBypassed == Spec => HaltNeverBypassed
<1>1. TypeOK /\ HaltInv => (standing => HaltActive)
  BY DEF HaltInv, HaltActive, TypeOK
<1>2. TypeOK /\ HaltInv /\ [Next]_vars
        => [standing => \A c \in Clients : resv[c] = None => resv'[c] = None]_vars
  BY <1>1, GrantNeedsNoHalt
<1>3. QED
  BY <1>2, TypeCorrect, HaltInvariant, PTL DEF Spec, HaltNeverBypassed
=============================================================================
