---------------------------- MODULE CouncilProof ----------------------------
(***************************************************************************)
(* The council, in three parts: a deliberation of any number of members    *)
(* (Council) costs a bounded amount that is accounted for, has no thread   *)
(* that calls after it has ended, and the chair goes round; no dissent is  *)
(* synthesised away (Dissent); what a certificate says is true and a       *)
(* calibration clears a line-up on real disagreement only (Certify).       *)
(*                                                                         *)
(* The costs of members that call at the same time are summed as the size  *)
(* of a set that holds one pair for each unit of each amount: the lemmas   *)
(* on finite sets then say how a sum changes with one of its amounts.      *)
(***************************************************************************)
EXTENDS MCCouncil, FiniteSetTheorems, SequenceTheorems, TLAPS

Amounts == [Lineup -> 0 .. MaxCost]
Pile(amount) == {unit \in Lineup \X (1 .. MaxCost) : unit[2] <= amount[unit[1]]}
Total(amount) == Cardinality(Pile(amount))

LEMMA LineupFinite == IsFiniteSet(Lineup) /\ Cardinality(Lineup) = Size
BY CouncilAssumption, FS_Interval DEF Lineup

LEMMA PileFinite ==
    ASSUME NEW amount
    PROVE  IsFiniteSet(Pile(amount)) /\ Total(amount) \in Nat
<1>1. IsFiniteSet(1 .. MaxCost)
  BY CouncilAssumption, FS_Interval
<1>2. IsFiniteSet(Lineup \X (1 .. MaxCost))
  BY <1>1, LineupFinite, FS_Product
<1>3. Pile(amount) \in SUBSET (Lineup \X (1 .. MaxCost))
  BY DEF Pile
<1>4. IsFiniteSet(Pile(amount))
  BY <1>2, <1>3, FS_Subset
<1> QED
  BY <1>4, FS_CardinalityType DEF Total

\* A sum is that of the others and the amount of one.
LEMMA TotalOfOne ==
    ASSUME NEW amount \in Amounts, NEW m \in Lineup
    PROVE  Total(amount) = Total([amount EXCEPT ![m] = 0]) + amount[m]
<1> DEFINE others == [amount EXCEPT ![m] = 0]
           mine == {m} \X (1 .. amount[m])
<1>1. amount[m] \in 0 .. MaxCost /\ MaxCost \in Nat
  BY CouncilAssumption DEF Amounts
<1>2. IsFiniteSet(mine) /\ Cardinality(mine) = amount[m]
  <2>1. IsFiniteSet({m}) /\ Cardinality({m}) = 1
    BY FS_Singleton
  <2>2. IsFiniteSet(1 .. amount[m]) /\ Cardinality(1 .. amount[m]) = amount[m]
    <3>1. ASSUME NEW k \in Nat PROVE IsFiniteSet(1 .. k) /\ Cardinality(1 .. k) = k
      BY FS_Interval
    <3> QED
      BY <1>1, <3>1
  <2>3. IsFiniteSet(mine) /\ Cardinality(mine) = 1 * amount[m]
    BY <2>1, <2>2, FS_Product
  <2> QED
    BY <2>3, <1>1
<1>3. others[m] = 0 /\ \A n \in Lineup : n # m => others[n] = amount[n]
  BY DEF Amounts
<1>4. ASSUME NEW unit \in Lineup \X (1 .. MaxCost)
      PROVE  unit \in Pile(amount) <=> unit \in Pile(others) \/ unit \in mine
  <2>1. PICK n \in Lineup, i \in 1 .. MaxCost : unit = <<n, i>>
    BY <1>4
  <2> HIDE DEF others
  <2>2. CASE n = m
    BY <2>1, <2>2, <1>1, <1>3 DEF Pile
  <2>3. CASE n # m
    BY <2>1, <2>3, <1>1, <1>3 DEF Pile
  <2> QED
    BY <2>2, <2>3
<1>5. Pile(amount) = Pile(others) \cup mine
  <2>1. mine \subseteq Lineup \X (1 .. MaxCost)
    BY <1>1
  <2> QED
    BY <1>4, <2>1 DEF Pile
<1>6. Pile(others) \cap mine = {}
  <2> HIDE DEF others
  <2> QED
    BY <1>1, <1>3 DEF Pile
<1>7. Cardinality(Pile(others) \cap mine) = 0
  BY <1>6, FS_EmptySet
<1> HIDE DEF others, mine
<1>8. Total(amount) = Total(others) + Cardinality(mine) - 0
  BY <1>2, <1>5, <1>7, PileFinite, FS_Union DEF Total
<1>9. Total(amount) = Total(others) + amount[m]
  BY <1>8, <1>2, <1>1, PileFinite
<1> QED
  BY <1>9 DEF others

\* One amount changes.
LEMMA TotalChanges ==
    ASSUME NEW amount \in Amounts, NEW m \in Lineup, NEW v \in 0 .. MaxCost
    PROVE  Total([amount EXCEPT ![m] = v]) = Total(amount) - amount[m] + v
<1> DEFINE after == [amount EXCEPT ![m] = v]
<1>1. after \in Amounts /\ after[m] = v
  BY DEF Amounts
<1>2. [after EXCEPT ![m] = 0] = [amount EXCEPT ![m] = 0]
  BY DEF Amounts
<1>3. Total(after) = Total([amount EXCEPT ![m] = 0]) + v
  BY <1>1, <1>2, TotalOfOne
<1>4. Total(amount) = Total([amount EXCEPT ![m] = 0]) + amount[m]
  BY TotalOfOne
<1>5. amount[m] \in Int /\ v \in Int /\ Total([amount EXCEPT ![m] = 0]) \in Int
  BY PileFinite, CouncilAssumption DEF Amounts
<1> HIDE DEF after
<1>6. Total(after) = Total(amount) - amount[m] + v
  BY <1>3, <1>4, <1>5
<1> QED
  BY <1>6 DEF after

\* The full amount for each of a team, and none for the others.
LEMMA TotalOfTeam ==
    ASSUME NEW team \in SUBSET Lineup
    PROVE  Total([m \in Lineup |-> IF m \in team THEN MaxCost ELSE 0])
              = Cardinality(team) * MaxCost
<1> DEFINE amount == [m \in Lineup |-> IF m \in team THEN MaxCost ELSE 0]
<1>1. ASSUME NEW unit \in Lineup \X (1 .. MaxCost)
      PROVE  unit[2] <= amount[unit[1]] <=> unit[1] \in team
  BY CouncilAssumption
<1>2. Pile(amount) = team \X (1 .. MaxCost)
  BY <1>1 DEF Pile
<1>3. IsFiniteSet(team)
  BY LineupFinite, FS_Subset
<1>4. IsFiniteSet(1 .. MaxCost) /\ Cardinality(1 .. MaxCost) = MaxCost
  BY CouncilAssumption, FS_Interval
<1>5. Cardinality(team \X (1 .. MaxCost)) = Cardinality(team) * MaxCost
  BY <1>3, <1>4, FS_Product
<1> QED
  BY <1>2, <1>5 DEF Total

LEMMA TotalOfNone == Total([m \in Lineup |-> 0]) = 0
<1>1. Pile([m \in Lineup |-> 0]) = {}
  BY DEF Pile
<1> QED
  BY <1>1, FS_EmptySet DEF Total

-----------------------------------------------------------------------------
(***************************************************************************)
(* What a seat stands for: an amount the session has charged and not yet   *)
(* recorded, an answer that is held and paid for, a charge and an answer   *)
(* thrown away that may still come of it.                                  *)
(***************************************************************************)
Unrecorded(s) == IF s.at = "record" THEN s.held.cost ELSE 0
HeldPaid(s) ==
    IF s.at \in {"call", "charge", "record"} /\ s.held # None THEN Metered(s.held) ELSE 0
MayCharge(s) == IF s.at \in {"call", "charge"} THEN MaxCost ELSE 0
MayThrow(s) == IF s.at = "call" THEN MaxCost ELSE 0

AllUnrecorded == Total([m \in Lineup |-> Unrecorded(seat[m])])
AllHeld == Total([m \in Lineup |-> HeldPaid(seat[m])])
AllToCharge == Total([m \in Lineup |-> MayCharge(seat[m])])
AllToThrow == Total([m \in Lineup |-> MayThrow(seat[m])])

SeatFits(s) ==
    /\ s \in Seat
    /\ s.at = "call" /\ s.attempt = 1 => s.held = None
    /\ s.at = "charge" => s.held # None
    /\ s.at = "record" => s.held # None /\ s.held.cost # NoUsage

SomeFailed == \E m \in Lineup : seat[m].at = "failed"

\* The members of the longest stage, and the calls up to a stage.
Most == IF Size > 2 THEN Size ELSE 2
Ceiling == IF stage = "synthesis" THEN Cap + MaxCost ELSE Cap + MaxCost * Most
Calls ==
    CASE stage = "idle" -> 0
      [] stage = "opinions" -> Size
      [] stage = "reviews" -> 2 * Size
      [] stage = "synthesis" -> 2 * Size + 1
      [] OTHER -> 2 * Size + 2

SeatsFit == TypeOK /\ \A m \in Lineup : SeatFits(seat[m])
Rest ==
    /\ stage \in Ended \cup {"idle"} => StageOver
    /\ stage \in {"verdict", "no_consensus"} => AllDone
Booked == SomeFailed \/ running_cost = recorded + AllUnrecorded
Capped == running_cost + AllToCharge <= Ceiling
Accounted ==
    SomeFailed \/ billed + AllToThrow <= recorded + AllHeld + MaxCost * Calls

CostInv == SeatsFit /\ Rest /\ Booked /\ Capped /\ Accounted

LEMMA SeatMoves ==
    ASSUME NEW s \in Seat, NEW place \in {"off", "call", "charge", "record", "done", "failed"}
    PROVE  LET moved == [s EXCEPT !.at = place]
           IN  moved \in Seat /\ moved.at = place /\ moved.held = s.held
BY DEF Seat

LEMMA SeatHolds ==
    ASSUME NEW s \in Seat, NEW a \in Answers
    PROVE  LET held == [s EXCEPT !.at = "charge", !.held = a]
           IN  held \in Seat /\ held.at = "charge" /\ held.held = a
BY DEF Seat

LEMMA MeteredBounded == \A a \in Answers : Metered(a) \in 0 .. MaxCost
<1>1. MaxCost \in Nat /\ 0 \in 0 .. MaxCost
  BY CouncilAssumption
<1>2. ASSUME NEW a \in Answers PROVE a.cost \in Costs \cup {NoUsage}
  BY DEF Answers
<1> QED
  BY <1>1, <1>2, CouncilAssumption DEF Metered

LEMMA SeatAmounts ==
    ASSUME NEW s, SeatFits(s)
    PROVE  /\ Unrecorded(s) \in 0 .. MaxCost
           /\ HeldPaid(s) \in 0 .. MaxCost
           /\ MayCharge(s) \in 0 .. MaxCost
           /\ MayThrow(s) \in 0 .. MaxCost
<1>1. MaxCost \in Nat /\ MaxCost \in 0 .. MaxCost /\ 0 \in 0 .. MaxCost
  BY CouncilAssumption
<1>2. ASSUME s.held # None
      PROVE  /\ Metered(s.held) \in 0 .. MaxCost
             /\ s.held.cost # NoUsage => s.held.cost = Metered(s.held)
  <2>1. s.held \in Answers
    BY <1>2 DEF SeatFits, Seat
  <2> QED
    BY <2>1, MeteredBounded DEF Metered
<1>3. s.at = "record" => s.held # None /\ s.held.cost # NoUsage
  BY DEF SeatFits
<1> QED
  BY <1>1, <1>2, <1>3 DEF Unrecorded, HeldPaid, MayCharge, MayThrow

\* A seat changes, and each sum by what it stands for.
LEMMA OneSeatMoves ==
    ASSUME SeatsFit, NEW m \in Lineup, NEW s, SeatFits(s), seat' = [seat EXCEPT ![m] = s]
    PROVE  /\ \A n \in Lineup : SeatFits(seat'[n])
           /\ AllUnrecorded' = AllUnrecorded - Unrecorded(seat[m]) + Unrecorded(s)
           /\ AllHeld' = AllHeld - HeldPaid(seat[m]) + HeldPaid(s)
           /\ AllToCharge' = AllToCharge - MayCharge(seat[m]) + MayCharge(s)
           /\ AllToThrow' = AllToThrow - MayThrow(seat[m]) + MayThrow(s)
<1>1. seat \in [Lineup -> Seat] /\ \A n \in Lineup : SeatFits(seat[n])
  BY DEF SeatsFit, TypeOK
<1>2. seat'[m] = s /\ \A n \in Lineup : n # m => seat'[n] = seat[n]
  BY <1>1
<1>3. \A n \in Lineup : SeatFits(seat'[n])
  BY <1>1, <1>2
<1>4. AllUnrecorded' = AllUnrecorded - Unrecorded(seat[m]) + Unrecorded(s)
  <2> DEFINE amount == [n \in Lineup |-> Unrecorded(seat[n])]
  <2>1. amount \in Amounts /\ amount[m] = Unrecorded(seat[m])
    BY <1>1, SeatAmounts DEF Amounts
  <2>2. \A n \in Lineup : Unrecorded(seat'[n]) = IF n = m THEN Unrecorded(s) ELSE amount[n]
    BY <1>2
  <2>3. [n \in Lineup |-> Unrecorded(seat'[n])] = [amount EXCEPT ![m] = Unrecorded(s)]
    <3> HIDE DEF amount
    <3> QED
      BY <2>1, <2>2 DEF Amounts
  <2> HIDE DEF amount
  <2>4. Total([amount EXCEPT ![m] = Unrecorded(s)])
          = Total(amount) - Unrecorded(seat[m]) + Unrecorded(s)
    BY <2>1, SeatAmounts, TotalChanges
  <2> QED
    BY <2>3, <2>4 DEF AllUnrecorded, amount
<1>5. AllHeld' = AllHeld - HeldPaid(seat[m]) + HeldPaid(s)
  <2> DEFINE amount == [n \in Lineup |-> HeldPaid(seat[n])]
  <2>1. amount \in Amounts /\ amount[m] = HeldPaid(seat[m])
    BY <1>1, SeatAmounts DEF Amounts
  <2>2. \A n \in Lineup : HeldPaid(seat'[n]) = IF n = m THEN HeldPaid(s) ELSE amount[n]
    BY <1>2
  <2>3. [n \in Lineup |-> HeldPaid(seat'[n])] = [amount EXCEPT ![m] = HeldPaid(s)]
    <3> HIDE DEF amount
    <3> QED
      BY <2>1, <2>2 DEF Amounts
  <2> HIDE DEF amount
  <2>4. Total([amount EXCEPT ![m] = HeldPaid(s)])
          = Total(amount) - HeldPaid(seat[m]) + HeldPaid(s)
    BY <2>1, SeatAmounts, TotalChanges
  <2> QED
    BY <2>3, <2>4 DEF AllHeld, amount
<1>6. AllToCharge' = AllToCharge - MayCharge(seat[m]) + MayCharge(s)
  <2> DEFINE amount == [n \in Lineup |-> MayCharge(seat[n])]
  <2>1. amount \in Amounts /\ amount[m] = MayCharge(seat[m])
    BY <1>1, SeatAmounts DEF Amounts
  <2>2. \A n \in Lineup : MayCharge(seat'[n]) = IF n = m THEN MayCharge(s) ELSE amount[n]
    BY <1>2
  <2>3. [n \in Lineup |-> MayCharge(seat'[n])] = [amount EXCEPT ![m] = MayCharge(s)]
    <3> HIDE DEF amount
    <3> QED
      BY <2>1, <2>2 DEF Amounts
  <2> HIDE DEF amount
  <2>4. Total([amount EXCEPT ![m] = MayCharge(s)])
          = Total(amount) - MayCharge(seat[m]) + MayCharge(s)
    BY <2>1, SeatAmounts, TotalChanges
  <2> QED
    BY <2>3, <2>4 DEF AllToCharge, amount
<1>7. AllToThrow' = AllToThrow - MayThrow(seat[m]) + MayThrow(s)
  <2> DEFINE amount == [n \in Lineup |-> MayThrow(seat[n])]
  <2>1. amount \in Amounts /\ amount[m] = MayThrow(seat[m])
    BY <1>1, SeatAmounts DEF Amounts
  <2>2. \A n \in Lineup : MayThrow(seat'[n]) = IF n = m THEN MayThrow(s) ELSE amount[n]
    BY <1>2
  <2>3. [n \in Lineup |-> MayThrow(seat'[n])] = [amount EXCEPT ![m] = MayThrow(s)]
    <3> HIDE DEF amount
    <3> QED
      BY <2>1, <2>2 DEF Amounts
  <2> HIDE DEF amount
  <2>4. Total([amount EXCEPT ![m] = MayThrow(s)])
          = Total(amount) - MayThrow(seat[m]) + MayThrow(s)
    BY <2>1, SeatAmounts, TotalChanges
  <2> QED
    BY <2>3, <2>4 DEF AllToThrow, amount
<1> QED
  BY <1>3, <1>4, <1>5, <1>6, <1>7

\* Nobody calls: nothing is held, and nothing more will be charged.
LEMMA NothingPending ==
    ASSUME SeatsFit, StageOver
    PROVE  AllUnrecorded = 0 /\ AllHeld = 0 /\ AllToCharge = 0 /\ AllToThrow = 0
<1>1. \A m \in Lineup : /\ Unrecorded(seat[m]) = 0 /\ HeldPaid(seat[m]) = 0
                        /\ MayCharge(seat[m]) = 0 /\ MayThrow(seat[m]) = 0
  BY DEF StageOver, Settled, Unrecorded, HeldPaid, MayCharge, MayThrow
<1>2. /\ [m \in Lineup |-> Unrecorded(seat[m])] = [m \in Lineup |-> 0]
      /\ [m \in Lineup |-> HeldPaid(seat[m])] = [m \in Lineup |-> 0]
      /\ [m \in Lineup |-> MayCharge(seat[m])] = [m \in Lineup |-> 0]
      /\ [m \in Lineup |-> MayThrow(seat[m])] = [m \in Lineup |-> 0]
  BY <1>1
<1> QED
  BY <1>2, TotalOfNone DEF AllUnrecorded, AllHeld, AllToCharge, AllToThrow

\* A team starts: each may charge once and throw one answer away.
LEMMA TeamStarts ==
    ASSUME NEW next, NEW team \in SUBSET Lineup, Enter(next, team)
    PROVE  /\ \A m \in Lineup : SeatFits(seat'[m]) /\ seat'[m].at \in {"off", "call"}
           /\ seat' \in [Lineup -> Seat]
           /\ AllUnrecorded' = 0 /\ AllHeld' = 0
           /\ AllToCharge' = Cardinality(team) * MaxCost
           /\ AllToThrow' = Cardinality(team) * MaxCost
<1>1. seat' = [m \in Lineup |-> IF m \in team THEN Ready ELSE Off]
  BY DEF Enter
<1>2. Ready = [at |-> "call", attempt |-> 1, held |-> None]
  BY DEF Ready, Off
<1>3. \A m \in Lineup : SeatFits(seat'[m]) /\ seat'[m].at \in {"off", "call"}
  BY <1>1, <1>2 DEF SeatFits, Seat, Off
<1>4. \A m \in Lineup :
        /\ Unrecorded(seat'[m]) = 0 /\ HeldPaid(seat'[m]) = 0
        /\ MayCharge(seat'[m]) = (IF m \in team THEN MaxCost ELSE 0)
        /\ MayThrow(seat'[m]) = (IF m \in team THEN MaxCost ELSE 0)
  BY <1>1, <1>2 DEF Off, Unrecorded, HeldPaid, MayCharge, MayThrow
<1>5. /\ [m \in Lineup |-> Unrecorded(seat'[m])] = [m \in Lineup |-> 0]
      /\ [m \in Lineup |-> HeldPaid(seat'[m])] = [m \in Lineup |-> 0]
      /\ [m \in Lineup |-> MayCharge(seat'[m])]
            = [m \in Lineup |-> IF m \in team THEN MaxCost ELSE 0]
      /\ [m \in Lineup |-> MayThrow(seat'[m])]
            = [m \in Lineup |-> IF m \in team THEN MaxCost ELSE 0]
  BY <1>4
<1>6. /\ AllUnrecorded' = 0 /\ AllHeld' = 0
      /\ AllToCharge' = Cardinality(team) * MaxCost
      /\ AllToThrow' = Cardinality(team) * MaxCost
  BY <1>5, TotalOfNone, TotalOfTeam DEF AllUnrecorded, AllHeld, AllToCharge, AllToThrow
<1>7. seat' \in [Lineup -> Seat]
  BY <1>1, <1>3 DEF SeatFits
<1> QED
  BY <1>3, <1>6, <1>7

-----------------------------------------------------------------------------
LEMMA Products ==
    /\ Most \in Nat /\ MaxCost * Most \in Nat
    /\ Size * MaxCost <= MaxCost * Most
    /\ Size * MaxCost = MaxCost * Size
    /\ MaxCost + MaxCost <= MaxCost * Most
<1>1. MaxCost \in Nat /\ Size \in Nat /\ Most \in Nat /\ Size <= Most /\ 2 <= Most
  BY CouncilAssumption DEF Most
<1> HIDE DEF Most
<1>2. \A a, b, c \in Nat : b <= c => a * b <= a * c
  OBVIOUS
<1>3. MaxCost * Size <= MaxCost * Most /\ MaxCost * 2 <= MaxCost * Most
  BY <1>1, <1>2
<1>4. Size * MaxCost = MaxCost * Size /\ MaxCost * 2 = MaxCost + MaxCost
  BY <1>1
<1>5. MaxCost * Most \in Nat
  BY <1>1
<1> QED
  BY <1>1, <1>3, <1>4, <1>5

LEMMA CallsAreMore ==
    /\ MaxCost * 0 = 0
    /\ MaxCost * (2 * Size) = MaxCost * Size + Size * MaxCost
    /\ MaxCost * (2 * Size + 1) = MaxCost * (2 * Size) + MaxCost
    /\ MaxCost * (2 * Size + 2) = MaxCost * (2 * Size + 1) + MaxCost
    /\ MaxCost * Size \in Nat
    /\ MaxCost * (2 * Size) \in Nat
<1>1. MaxCost \in Nat /\ Size \in Nat
  BY CouncilAssumption
<1> QED
  BY <1>1

LEMMA SumsAreNumbers ==
    /\ AllUnrecorded \in Nat /\ AllHeld \in Nat /\ AllToCharge \in Nat /\ AllToThrow \in Nat
BY PileFinite DEF AllUnrecorded, AllHeld, AllToCharge, AllToThrow

LEMMA CostInit == Init => CostInv
<1> SUFFICES ASSUME Init PROVE CostInv
  OBVIOUS
<1>1. Off \in Seat /\ SeatFits(Off)
  BY DEF Off, Seat, SeatFits
<1>2. SeatsFit
  <2>1. TypeOK
    BY <1>1, CouncilAssumption DEF Init, TypeOK, Stages
  <2> QED
    BY <1>1, <2>1 DEF Init, SeatsFit
<1>3. StageOver
  BY DEF Init, StageOver, Settled, Off
<1>4. AllUnrecorded = 0 /\ AllHeld = 0 /\ AllToCharge = 0 /\ AllToThrow = 0
  BY <1>2, <1>3, NothingPending
<1>5. stage = "idle" /\ running_cost = 0 /\ recorded = 0 /\ billed = 0
  BY DEF Init
<1>6. Rest /\ Booked /\ Capped /\ Accounted
  BY <1>3, <1>4, <1>5, Products, CallsAreMore, CouncilAssumption
     DEF Rest, Booked, Capped, Accounted, Ceiling, Calls
<1> QED
  BY <1>2, <1>6 DEF CostInv

\* A thread answers, fails, charges or records.  The stage does not change.
LEMMA CallKeeps ==
    ASSUME CostInv, NEW m \in Lineup, Call(m)
    PROVE  CostInv'
<1> DEFINE old == seat[m]
<1>1. SeatsFit /\ seat \in [Lineup -> Seat] /\ SeatFits(old)
  BY DEF CostInv, SeatsFit, TypeOK
<1>2. /\ old \in Seat /\ old.at \in {"call", "charge", "record"}
      /\ old.held # None => old.held \in Answers
      /\ old.held \in Answers => old.held # None
      /\ old.at \in {"charge", "record"} => old.held \in Answers
  BY <1>1, CouncilAssumption
     DEF SeatFits, Seat, Call, Answer, Error, Charge, Record, At
<1>3. UNCHANGED <<stage, council, sessions>>
  BY DEF Call, Answer, Error, Charge, Record
<1>4. stage \notin Ended \cup {"idle"}
  BY <1>2 DEF CostInv, Rest, StageOver, Settled
<1>5. /\ running_cost \in Nat /\ recorded \in Nat /\ billed \in Nat /\ MaxCost \in Nat
      /\ AllUnrecorded \in Nat /\ AllHeld \in Nat /\ AllToCharge \in Nat /\ AllToThrow \in Nat
  BY <1>1, SumsAreNumbers, CouncilAssumption DEF SeatsFit, TypeOK
<1>7. Ceiling' = Ceiling /\ Calls' = Calls
  BY <1>3 DEF Ceiling, Calls
<1>8. ASSUME NEW s, SeatFits(s), seat' = [seat EXCEPT ![m] = s],
             running_cost' \in Nat, recorded' \in Nat, billed' \in Nat,
             running_cost' - running_cost <= MayCharge(old) - MayCharge(s),
             s.at # "failed" =>
                /\ running_cost' - running_cost - (recorded' - recorded)
                      = Unrecorded(s) - Unrecorded(old)
                /\ billed' - billed - (recorded' - recorded)
                      <= HeldPaid(s) - HeldPaid(old) + MayThrow(old) - MayThrow(s)
      PROVE  CostInv'
  <2>1. /\ \A n \in Lineup : SeatFits(seat'[n])
        /\ AllUnrecorded' = AllUnrecorded - Unrecorded(old) + Unrecorded(s)
        /\ AllHeld' = AllHeld - HeldPaid(old) + HeldPaid(s)
        /\ AllToCharge' = AllToCharge - MayCharge(old) + MayCharge(s)
        /\ AllToThrow' = AllToThrow - MayThrow(old) + MayThrow(s)
    BY <1>1, <1>8, OneSeatMoves
  <2>2. /\ Unrecorded(s) \in Nat /\ HeldPaid(s) \in Nat /\ MayCharge(s) \in Nat
        /\ MayThrow(s) \in Nat /\ Unrecorded(old) \in Nat /\ HeldPaid(old) \in Nat
        /\ MayCharge(old) \in Nat /\ MayThrow(old) \in Nat
    BY <1>1, <1>5, <1>8, SeatAmounts
  <2>3. SeatsFit'
    BY <1>1, <1>3, <1>8, <2>1 DEF SeatsFit, TypeOK, council, SeatFits
  <2>4. Rest'
    BY <1>3, <1>4 DEF Rest, Ended
  <2>5. ~SomeFailed' => ~SomeFailed /\ s.at # "failed"
    BY <1>1, <1>2, <1>8 DEF SomeFailed
  <2> HIDE DEF old
  <2>6. Booked'
    <3>1. CASE SomeFailed'
      BY <3>1 DEF Booked
    <3>2. CASE ~SomeFailed'
      <4>1. running_cost = recorded + AllUnrecorded
        BY <2>5, <3>2 DEF CostInv, Booked
      <4>2. running_cost' - running_cost - (recorded' - recorded)
               = Unrecorded(s) - Unrecorded(old)
        BY <1>8, <2>5, <3>2
      <4>3. AllUnrecorded' = AllUnrecorded - Unrecorded(old) + Unrecorded(s)
        BY <2>1
      <4>4. running_cost' = recorded' + AllUnrecorded'
        BY <1>5, <1>8, <2>2, <4>1, <4>2, <4>3
      <4> QED
        BY <4>4 DEF Booked
    <3> QED
      BY <3>1, <3>2
  <2>7. Capped'
    <3>1. running_cost + AllToCharge <= Ceiling /\ Ceiling \in Nat
      BY Products, CouncilAssumption DEF CostInv, Capped, Ceiling
    <3> QED
      BY <1>5, <1>7, <1>8, <2>1, <2>2, <3>1 DEF Capped
  <2>8. Accounted'
    <3>1. CASE SomeFailed'
      BY <3>1 DEF Accounted
    <3>2. CASE ~SomeFailed'
      <4>1. billed + AllToThrow <= recorded + AllHeld + MaxCost * Calls
        BY <2>5, <3>2 DEF CostInv, Accounted
      <4>2. MaxCost * Calls \in Int
        BY CouncilAssumption DEF Calls
      <4> QED
        BY <1>5, <1>7, <1>8, <2>1, <2>2, <2>5, <3>2, <4>1, <4>2 DEF Accounted
    <3> QED
      BY <3>1, <3>2
  <2> QED
    BY <2>3, <2>4, <2>6, <2>7, <2>8 DEF CostInv
<1>9. CASE Answer(m)
  <2>1. PICK a \in Answers :
          /\ billed' = billed + Metered(a)
          /\ \/ a.json /\ seat' = [seat EXCEPT ![m].at = "charge", ![m].held = a]
             \/ ~a.json /\ NextAttempt(m, a)
    BY <1>9 DEF Answer
  <2>2. old.at = "call" /\ UNCHANGED <<running_cost, recorded>>
    BY <1>9 DEF Answer, At
  <2>3. a # None
    BY CouncilAssumption
  <2>4. \E s \in Seat :
          /\ seat' = [seat EXCEPT ![m] = s] /\ s.held = a
          /\ \/ s.at = "charge"
             \/ s.at = "call" /\ s.attempt = 2 /\ old.attempt = 1
    <3>1. CASE a.json /\ seat' = [seat EXCEPT ![m].at = "charge", ![m].held = a]
      <4> DEFINE s == [old EXCEPT !.at = "charge", !.held = a]
      <4>1. seat' = [seat EXCEPT ![m] = s]
        BY <1>1, <3>1
      <4> HIDE DEF old
      <4>2. s \in Seat /\ s.at = "charge" /\ s.held = a
        BY <1>2, SeatHolds
      <4> HIDE DEF s
      <4> QED
        BY <4>1, <4>2
    <3>2. CASE NextAttempt(m, a)
      <4>1. CASE seat[m].attempt = 1
        <5>1. seat' = [seat EXCEPT ![m] = [at |-> "call", attempt |-> 2, held |-> a]]
          BY <3>2, <4>1 DEF NextAttempt
        <5>2. [at |-> "call", attempt |-> 2, held |-> a] \in Seat
          BY DEF Seat
        <5> QED
          BY <5>1, <5>2, <4>1
      <4>2. CASE seat[m].attempt # 1
        <5>1. seat' = [seat EXCEPT ![m] = [at |-> "charge", attempt |-> 2, held |-> a]]
          BY <3>2, <4>2, <2>3 DEF NextAttempt
        <5> DEFINE s == [at |-> "charge", attempt |-> 2, held |-> a]
        <5>2. s \in Seat /\ s.at = "charge" /\ s.held = a
          BY DEF Seat
        <5> HIDE DEF s
        <5> QED
          BY <5>1, <5>2 DEF s
      <4> QED
        BY <4>1, <4>2
    <3> QED
      BY <2>1, <3>1, <3>2
  <2>5. Metered(a) \in 0 .. MaxCost /\ billed' \in Nat /\ billed' - billed = Metered(a)
    BY <1>5, <2>1, MeteredBounded
  <2>6. HeldPaid(old) \in 0 .. MaxCost
    BY <1>1, SeatAmounts
  <2>7. MayCharge(old) = MaxCost /\ MayThrow(old) = MaxCost /\ Unrecorded(old) = 0
    BY <2>2 DEF MayCharge, MayThrow, Unrecorded
  <2>8. old.attempt = 1 => HeldPaid(old) = 0
    BY <1>1, <1>2, <2>2 DEF SeatFits, HeldPaid
  <2> HIDE DEF old
  <2>9. PICK s \in Seat :
          /\ seat' = [seat EXCEPT ![m] = s] /\ s.held = a
          /\ \/ s.at = "charge"
             \/ s.at = "call" /\ s.attempt = 2 /\ old.attempt = 1
    BY <2>4
  <2>10. SeatFits(s) /\ s.at # "failed"
    BY <2>3, <2>9 DEF SeatFits
  <2>11. /\ Unrecorded(s) = 0 /\ HeldPaid(s) = Metered(a) /\ MayCharge(s) = MaxCost
         /\ s.at = "charge" => MayThrow(s) = 0
         /\ s.at = "call" => MayThrow(s) = MaxCost
    BY <2>3, <2>9 DEF Unrecorded, HeldPaid, MayCharge, MayThrow
  <2>12. billed' - billed - (recorded' - recorded)
            <= HeldPaid(s) - HeldPaid(old) + MayThrow(old) - MayThrow(s)
    BY <1>5, <2>2, <2>5, <2>6, <2>7, <2>8, <2>9, <2>11
  <2>13. running_cost' - running_cost <= MayCharge(old) - MayCharge(s)
    BY <1>5, <2>2, <2>7, <2>11
  <2>14. running_cost' - running_cost - (recorded' - recorded) = Unrecorded(s) - Unrecorded(old)
    BY <1>5, <2>2, <2>7, <2>11
  <2> QED
    BY <1>5, <1>8, <2>2, <2>5, <2>9, <2>10, <2>12, <2>13, <2>14
<1>10. CASE Error(m)
  <2>1. old.at = "call" /\ UNCHANGED <<running_cost, recorded, billed>>
    BY <1>10 DEF Error, At, money
  <2>2. \E s \in Seat :
          /\ seat' = [seat EXCEPT ![m] = s] /\ s.held = old.held
          /\ \/ s.at = "call" /\ s.attempt = 2
             \/ s.at = "charge" /\ s.held # None
             \/ s.at = "failed"
    <3>1. CASE seat[m].attempt = 1
      <4>1. seat' = [seat EXCEPT ![m] = [at |-> "call", attempt |-> 2, held |-> old.held]]
        BY <1>10, <3>1 DEF Error, NextAttempt
      <4>2. [at |-> "call", attempt |-> 2, held |-> old.held] \in Seat
        BY <1>2 DEF Seat
      <4> QED
        BY <4>1, <4>2
    <3>2. CASE seat[m].attempt # 1 /\ old.held = None
      <4>1. seat' = [seat EXCEPT ![m] = [at |-> "failed", attempt |-> 2, held |-> old.held]]
        BY <1>10, <3>2 DEF Error, NextAttempt
      <4>2. [at |-> "failed", attempt |-> 2, held |-> old.held] \in Seat
        BY <1>2 DEF Seat
      <4> QED
        BY <4>1, <4>2
    <3>3. CASE seat[m].attempt # 1 /\ old.held # None
      <4>1. seat' = [seat EXCEPT ![m] = [at |-> "charge", attempt |-> 2, held |-> old.held]]
        BY <1>10, <3>3 DEF Error, NextAttempt
      <4>2. [at |-> "charge", attempt |-> 2, held |-> old.held] \in Seat
        BY <1>2 DEF Seat
      <4> QED
        BY <3>3, <4>1, <4>2
    <3> QED
      BY <3>1, <3>2, <3>3
  <2>3. MayCharge(old) = MaxCost /\ MayThrow(old) = MaxCost /\ Unrecorded(old) = 0
    BY <2>1 DEF MayCharge, MayThrow, Unrecorded
  <2>4. HeldPaid(old) \in Nat
    BY <1>1, <1>5, SeatAmounts
  <2>5. HeldPaid(old) = IF old.held # None THEN Metered(old.held) ELSE 0
    BY <2>1 DEF HeldPaid
  <2> HIDE DEF old
  <2>6. PICK s \in Seat :
          /\ seat' = [seat EXCEPT ![m] = s] /\ s.held = old.held
          /\ \/ s.at = "call" /\ s.attempt = 2
             \/ s.at = "charge" /\ s.held # None
             \/ s.at = "failed"
    BY <2>2
  <2>7. SeatFits(s)
    BY <2>6 DEF SeatFits
  <2>8. /\ Unrecorded(s) = 0 /\ MayCharge(s) \in {0, MaxCost} /\ MayThrow(s) \in {0, MaxCost}
        /\ s.at # "failed" => HeldPaid(s) = HeldPaid(old)
    BY <2>5, <2>6 DEF Unrecorded, HeldPaid, MayCharge, MayThrow
  <2>9. running_cost' - running_cost <= MayCharge(old) - MayCharge(s)
    BY <1>5, <2>1, <2>3, <2>8
  <2>10. running_cost' - running_cost - (recorded' - recorded) = Unrecorded(s) - Unrecorded(old)
    BY <1>5, <2>1, <2>3, <2>8
  <2>11. s.at # "failed" =>
            billed' - billed - (recorded' - recorded)
               <= HeldPaid(s) - HeldPaid(old) + MayThrow(old) - MayThrow(s)
    BY <1>5, <2>1, <2>3, <2>4, <2>8
  <2> QED
    BY <1>5, <1>8, <2>1, <2>6, <2>7, <2>9, <2>10, <2>11
<1>11. CASE Charge(m)
  <2>1. old.at = "charge" /\ old.held \in Answers /\ UNCHANGED <<recorded, billed>>
    BY <1>2, <1>11 DEF Charge, At
  <2>2. MayCharge(old) = MaxCost /\ MayThrow(old) = 0 /\ Unrecorded(old) = 0
    BY <2>1 DEF MayCharge, MayThrow, Unrecorded
  <2>3. HeldPaid(old) = Metered(old.held) /\ HeldPaid(old) \in 0 .. MaxCost
    BY <1>1, <1>2, <2>1, SeatAmounts DEF HeldPaid
  <2>4. CASE /\ old.held.cost # NoUsage /\ running_cost' = running_cost + old.held.cost
             /\ Moved(m, "record")
    <3> DEFINE s == [old EXCEPT !.at = "record"]
    <3>1. seat' = [seat EXCEPT ![m] = s]
      BY <1>1, <2>4 DEF Moved
    <3> HIDE DEF old
    <3>2. s \in Seat /\ s.at = "record" /\ s.held = old.held
      BY <1>2, SeatMoves
    <3> HIDE DEF s
    <3>3. SeatFits(s)
      BY <1>2, <2>1, <2>4, <3>2 DEF SeatFits
    <3>4. old.held.cost = Metered(old.held)
      BY <2>4 DEF Metered
    <3>5. /\ Unrecorded(s) = old.held.cost /\ HeldPaid(s) = HeldPaid(old)
          /\ MayCharge(s) = 0 /\ MayThrow(s) = 0
      BY <1>2, <2>1, <2>3, <3>2 DEF Unrecorded, HeldPaid, MayCharge, MayThrow
    <3>6. running_cost' \in Nat /\ running_cost' - running_cost = Unrecorded(s)
      BY <1>5, <2>3, <2>4, <3>4, <3>5
    <3>7. running_cost' - running_cost <= MayCharge(old) - MayCharge(s)
      <4>1. Unrecorded(s) \in 0 .. MaxCost
        BY <2>3, <3>4, <3>5
      <4>2. Unrecorded(s) <= MaxCost - 0
        BY <1>5, <4>1
      <4> QED
        BY <2>2, <3>5, <3>6, <4>2
    <3>8. /\ running_cost' - running_cost - (recorded' - recorded)
                = Unrecorded(s) - Unrecorded(old)
          /\ billed' - billed - (recorded' - recorded)
                <= HeldPaid(s) - HeldPaid(old) + MayThrow(old) - MayThrow(s)
      BY <1>5, <2>1, <2>2, <2>3, <3>5, <3>6
    <3> QED
      BY <1>5, <1>8, <2>1, <3>1, <3>3, <3>6, <3>7, <3>8
  <2>5. CASE Moved(m, "failed") /\ UNCHANGED running_cost
    <3> DEFINE s == [old EXCEPT !.at = "failed"]
    <3>1. seat' = [seat EXCEPT ![m] = s]
      BY <1>1, <2>5 DEF Moved
    <3> HIDE DEF old
    <3>2. s \in Seat /\ s.at = "failed"
      BY <1>2, SeatMoves
    <3> HIDE DEF s
    <3>3. SeatFits(s) /\ MayCharge(s) = 0
      BY <3>2 DEF SeatFits, MayCharge
    <3>4. running_cost' - running_cost <= MayCharge(old) - MayCharge(s)
      BY <1>5, <2>2, <2>5, <3>3
    <3> QED
      BY <1>5, <1>8, <2>1, <2>5, <3>1, <3>2, <3>3, <3>4
  <2> QED
    BY <1>11, <2>4, <2>5 DEF Charge
<1>12. CASE Record(m)
  <2>1. /\ old.at = "record" /\ old.held \in Answers /\ old.held.cost # NoUsage
        /\ UNCHANGED <<running_cost, billed>>
    BY <1>1, <1>2, <1>12 DEF Record, At, SeatFits
  <2>2. MayCharge(old) = 0 /\ MayThrow(old) = 0 /\ Unrecorded(old) = old.held.cost
    BY <2>1 DEF MayCharge, MayThrow, Unrecorded
  <2>3. HeldPaid(old) = old.held.cost /\ HeldPaid(old) \in 0 .. MaxCost
    BY <1>1, <1>2, <2>1, SeatAmounts DEF HeldPaid, Metered
  <2>4. \E place \in {"done", "failed"} :
          /\ seat' = [seat EXCEPT ![m] = [old EXCEPT !.at = place]]
          /\ place = "done" => recorded' = recorded + old.held.cost
          /\ recorded' = recorded + old.held.cost \/ recorded' = recorded
    BY <1>1, <1>12 DEF Record, Moved
  <2> HIDE DEF old
  <2>5. PICK place \in {"done", "failed"} :
          /\ seat' = [seat EXCEPT ![m] = [old EXCEPT !.at = place]]
          /\ place = "done" => recorded' = recorded + old.held.cost
          /\ recorded' = recorded + old.held.cost \/ recorded' = recorded
    BY <2>4
  <2> DEFINE s == [old EXCEPT !.at = place]
  <2>6. s \in Seat /\ s.at = place
    <3>1. \A p \in {"off", "call", "charge", "record", "done", "failed"} :
            [old EXCEPT !.at = p] \in Seat /\ [old EXCEPT !.at = p].at = p
      BY <1>2, SeatMoves
    <3> QED
      BY <3>1
  <2>7. seat' = [seat EXCEPT ![m] = s]
    BY <2>5
  <2> HIDE DEF s
  <2>8. SeatFits(s)
    BY <2>6 DEF SeatFits
  <2>9. MayCharge(s) = 0 /\ MayThrow(s) = 0 /\ Unrecorded(s) = 0 /\ HeldPaid(s) = 0
    BY <2>6 DEF MayCharge, MayThrow, Unrecorded, HeldPaid
  <2>10. recorded' \in Nat
    BY <1>5, <2>3, <2>5
  <2>11. s.at # "failed" => recorded' - recorded = old.held.cost
    BY <1>5, <2>3, <2>5, <2>6
  <2>12. running_cost' - running_cost <= MayCharge(old) - MayCharge(s)
    BY <1>5, <2>1, <2>2, <2>9
  <2>13. s.at # "failed" =>
            /\ running_cost' - running_cost - (recorded' - recorded)
                  = Unrecorded(s) - Unrecorded(old)
            /\ billed' - billed - (recorded' - recorded)
                  <= HeldPaid(s) - HeldPaid(old) + MayThrow(old) - MayThrow(s)
    BY <1>5, <2>1, <2>2, <2>3, <2>9, <2>11
  <2> QED
    BY <1>5, <1>8, <2>1, <2>7, <2>8, <2>10, <2>12, <2>13
<1> QED
  BY <1>9, <1>10, <1>11, <1>12 DEF Call

LEMMA AddZero == \A n \in Nat : n + 0 = n
OBVIOUS

\* A stage begins: nobody holds anything, and a call of each of the team is
\* taken into the bounds.
LEMMA StageBegins ==
    ASSUME SeatsFit, NEW team \in SUBSET Lineup, Enter(stage', team), TypeOK',
           NEW share \in Nat, Cardinality(team) * MaxCost = share,
           stage' \in Stages \ (Ended \cup {"idle"}),
           running_cost' = recorded',
           running_cost' + share <= Ceiling',
           billed' + share <= recorded' + MaxCost * Calls'
    PROVE  CostInv'
<1>1. /\ \A m \in Lineup : SeatFits(seat'[m])
      /\ AllUnrecorded' = 0 /\ AllHeld' = 0
      /\ AllToCharge' = share /\ AllToThrow' = share
  BY TeamStarts
<1>2. recorded' \in Nat
  BY DEF TypeOK
<1>3. SeatsFit'
  BY <1>1 DEF SeatsFit
<1>4. Rest'
  BY DEF Rest, Ended
<1>5. recorded' + 0 = recorded'
  BY <1>2, AddZero, Zenon
<1>6. Booked' /\ Capped' /\ Accounted'
  BY <1>1, <1>5 DEF Booked, Capped, Accounted
<1> QED
  BY <1>3, <1>4, <1>6 DEF CostInv

\* The end of a stage in which all are done: what was charged is recorded, and
\* what was thrown away was one answer for each call so far.
LEMMA StageDone ==
    ASSUME CostInv, StageOver, AllDone
    PROVE  /\ running_cost = recorded /\ running_cost <= Ceiling
           /\ billed <= recorded + MaxCost * Calls
<1>1. ~SomeFailed
  BY DEF AllDone, SomeFailed
<1>2. AllUnrecorded = 0 /\ AllHeld = 0 /\ AllToCharge = 0 /\ AllToThrow = 0
  BY NothingPending DEF CostInv
<1>3. /\ running_cost \in Nat /\ recorded \in Nat /\ billed \in Nat
  BY DEF CostInv, SeatsFit, TypeOK
<1>4. /\ running_cost = recorded + AllUnrecorded
      /\ running_cost + AllToCharge <= Ceiling
      /\ billed + AllToThrow <= recorded + AllHeld + MaxCost * Calls
  BY <1>1 DEF CostInv, Booked, Capped, Accounted
<1>5. Ceiling \in Int /\ MaxCost * Calls \in Int
  BY Products, CouncilAssumption DEF Ceiling, Calls
<1> QED
  BY <1>2, <1>3, <1>4, <1>5

\* A session ends with all threads settled, and takes nothing more.
LEMMA SessionEnds ==
    ASSUME CostInv, StageOver, NEW how \in Ended, End(how), UNCHANGED <<money, sessions>>,
           TypeOK', stage \notin Ended \cup {"idle"},
           how \in {"verdict", "no_consensus"} => AllDone
    PROVE  CostInv'
<1>1. seat' = seat /\ stage' = how /\ UNCHANGED <<running_cost, recorded, billed>>
  BY DEF End, money
<1>2. SeatsFit'
  BY <1>1 DEF CostInv, SeatsFit
<1>3. Rest'
  BY <1>1 DEF Rest, StageOver, AllDone, Settled
<1>4. Booked'
  BY <1>1 DEF CostInv, Booked, SomeFailed, AllUnrecorded
<1>5. /\ running_cost \in Nat /\ recorded \in Nat /\ billed \in Nat /\ MaxCost \in Nat /\ Cap \in Nat
      /\ AllUnrecorded \in Nat /\ AllHeld \in Nat /\ AllToCharge \in Nat /\ AllToThrow \in Nat
  BY SumsAreNumbers, CouncilAssumption DEF CostInv, SeatsFit, TypeOK
<1>6. Capped'
  <2>1. AllToCharge' = AllToCharge
    BY <1>1 DEF AllToCharge
  <2>2. Ceiling \in Int /\ Ceiling <= Cap + MaxCost * Most /\ Cap + MaxCost * Most \in Int
    BY <1>5, Products DEF Ceiling
  <2>3. Ceiling' = Cap + MaxCost * Most
    BY <1>1 DEF Ceiling, Ended
  <2> QED
    BY <1>1, <1>5, <2>1, <2>2, <2>3 DEF CostInv, Capped
<1>7. Accounted'
  <2>1. AllToThrow' = AllToThrow /\ AllHeld' = AllHeld /\ SomeFailed' = SomeFailed
    BY <1>1 DEF AllToThrow, AllHeld, SomeFailed
  <2>2. MaxCost * Calls <= MaxCost * (2 * Size + 2) /\ MaxCost * Calls \in Int
    BY CallsAreMore, Products, <1>5, CouncilAssumption DEF Calls
  <2>3. Calls' = 2 * Size + 2 /\ MaxCost * (2 * Size + 2) \in Int
    BY <1>1, <1>5, CouncilAssumption DEF Calls, Ended
  <2> QED
    BY <1>1, <1>5, <2>1, <2>2, <2>3 DEF CostInv, Accounted
<1> QED
  BY <1>2, <1>3, <1>4, <1>6, <1>7 DEF CostInv

LEMMA CouncilTypeNext == CostInv /\ [Next]_vars => TypeOK'
<1> SUFFICES ASSUME CostInv, [Next]_vars PROVE TypeOK'
  OBVIOUS
<1>1. TypeOK
  BY DEF CostInv, SeatsFit
<1>2. \A next, team : Enter(next, team) => seat' \in [Lineup -> Seat] /\ stage' = next
  BY DEF Enter, Ready, Off, Seat
<1>3. CASE Deliberate
  BY <1>1, <1>2, <1>3, CouncilAssumption DEF Deliberate, TypeOK, Stages, council
<1>4. CASE Abort
  BY <1>1, <1>4 DEF Abort, End, TypeOK, Stages, money, council
<1>5. CASE CrossReview
  BY <1>1, <1>2, <1>5 DEF CrossReview, End, TypeOK, Stages, money, council
<1>6. CASE Synthesise
  <2>1. CASE UNCHANGED council
    BY <1>1, <1>2, <1>6, <2>1 DEF Synthesise, Seated, End, TypeOK, Stages, money, council
  <2>2. ASSUME NEW m \in Selectable, Seated(m) PROVE TypeOK'
    <3>1. m \in Lineup
      BY CouncilAssumption, <1>1, <2>2 DEF Selectable, Lineup, TypeOK
    <3> QED
      BY <1>1, <1>2, <1>6, <2>2, <3>1 DEF Synthesise, Seated, TypeOK, Stages, money
  <2> QED
    BY <1>6, <2>1, <2>2 DEF Synthesise
<1>7. CASE Conclude
  BY <1>1, <1>2, <1>7 DEF Conclude, End, TypeOK, Stages, money, council
<1>8. ASSUME NEW m \in Lineup, Call(m) PROVE TypeOK'
  BY <1>8, CallKeeps DEF CostInv, SeatsFit
<1>9. CASE UNCHANGED vars
  BY <1>1, <1>9 DEF vars, money, council, TypeOK
<1> QED
  BY <1>3, <1>4, <1>5, <1>6, <1>7, <1>8, <1>9 DEF Next, Main

LEMMA CostNext == CostInv /\ [Next]_vars => CostInv'
<1> SUFFICES ASSUME CostInv, [Next]_vars PROVE CostInv'
  OBVIOUS
<1>1. SeatsFit /\ TypeOK /\ TypeOK'
  BY CouncilTypeNext DEF CostInv, SeatsFit
<1>2. /\ running_cost \in Nat /\ recorded \in Nat /\ billed \in Nat
      /\ MaxCost \in Nat /\ Cap \in Nat /\ Size \in Nat
  BY <1>1, CouncilAssumption DEF TypeOK
<1>3. CASE Deliberate
  <2>1. stage' = "opinions" /\ running_cost' = 0 /\ recorded' = 0 /\ billed' = 0
    BY <1>3 DEF Deliberate, Enter
  <2>2. Enter(stage', Lineup)
    BY <1>3, <2>1 DEF Deliberate
  <2>3. 0 + Size * MaxCost <= Ceiling'
    BY <1>2, <2>1, Products, LineupFinite DEF Ceiling
  <2>4. 0 + Size * MaxCost <= 0 + MaxCost * Calls'
    BY <1>2, <2>1, Products, CallsAreMore, LineupFinite DEF Calls
  <2> QED
    BY <1>1, <1>2, <2>1, <2>2, <2>3, <2>4, StageBegins, LineupFinite DEF Stages, Ended
<1>4. CASE Abort
  BY <1>1, <1>4, SessionEnds DEF Abort, Ended
<1>5. CASE CrossReview
  <2>1. /\ stage = "opinions" /\ StageOver /\ AllDone
        /\ UNCHANGED <<money, council, sessions>>
    BY <1>5 DEF CrossReview
  <2>2. CASE End("raised") \/ End("no_consensus")
    BY <1>1, <2>1, <2>2, SessionEnds DEF Ended
  <2>3. CASE ~CapReached /\ Enter("reviews", Lineup)
    <3>1. running_cost = recorded /\ billed <= recorded + MaxCost * Calls
      BY <2>1, StageDone
    <3>2. stage' = "reviews" /\ UNCHANGED <<running_cost, recorded, billed>>
      BY <2>1, <2>3 DEF Enter, money
    <3>3. running_cost' + Size * MaxCost <= Ceiling'
      BY <1>2, <2>3, <3>2, Products, LineupFinite DEF CapReached, Ceiling
    <3>4. billed' + Size * MaxCost <= recorded' + MaxCost * Calls'
      BY <1>2, <2>1, <3>1, <3>2, CallsAreMore, LineupFinite DEF Calls
    <3> QED
      BY <1>1, <1>2, <2>3, <3>1, <3>2, <3>3, <3>4, StageBegins, LineupFinite DEF Stages, Ended
  <2> QED
    BY <1>5, <2>2, <2>3 DEF CrossReview
<1>6. CASE Synthesise
  <2>1. /\ stage = "reviews" /\ StageOver /\ AllDone /\ UNCHANGED <<money, sessions>>
    BY <1>6 DEF Synthesise
  <2>2. CASE End("no_consensus")
    BY <1>1, <2>1, <2>2, SessionEnds DEF Ended
  <2>3. ASSUME ~CapReached, NEW m \in Selectable, Seated(m) PROVE CostInv'
    <3>1. running_cost = recorded /\ billed <= recorded + MaxCost * Calls
      BY <2>1, StageDone
    <3>2. /\ stage' = "synthesis" /\ Enter("synthesis", {m})
          /\ UNCHANGED <<running_cost, recorded, billed>>
      BY <2>1, <2>3 DEF Seated, Enter, money
    <3>3. m \in Lineup /\ Cardinality({m}) * MaxCost = MaxCost
      <4>1. m \in Lineup
        BY <1>1, <2>3, CouncilAssumption DEF Selectable, Lineup, TypeOK
      <4>2. Cardinality({m}) = 1
        BY FS_Singleton
      <4>3. 1 * MaxCost = MaxCost
        BY <1>2
      <4> QED
        BY <4>1, <4>2, <4>3
    <3>4. running_cost' + MaxCost <= Ceiling'
      BY <1>2, <2>3, <3>2 DEF CapReached, Ceiling
    <3>5. billed' + MaxCost <= recorded' + MaxCost * Calls'
      BY <1>2, <2>1, <3>1, <3>2, CallsAreMore DEF Calls
    <3> QED
      BY <1>1, <1>2, <3>1, <3>2, <3>3, <3>4, <3>5, StageBegins DEF Stages, Ended
  <2> QED
    BY <1>6, <2>2, <2>3 DEF Synthesise
<1>7. CASE Conclude
  <2>1. /\ stage \in {"synthesis", "reprompt"} /\ StageOver /\ AllDone
        /\ UNCHANGED <<money, council, sessions>>
    BY <1>7 DEF Conclude
  <2>2. CASE End("verdict") \/ End("raised")
    BY <1>1, <2>1, <2>2, SessionEnds DEF Ended
  <2>3. CASE stage = "synthesis" /\ Enter("reprompt", {Chair})
    <3> DEFINE team == {Chair} \cap Lineup
    <3>1. /\ running_cost = recorded /\ billed <= recorded + MaxCost * Calls
          /\ running_cost <= Cap + MaxCost
      BY <2>1, <2>3, StageDone DEF Ceiling
    <3>2. /\ stage' = "reprompt" /\ Enter("reprompt", team)
          /\ UNCHANGED <<running_cost, recorded, billed>>
      BY <2>1, <2>3 DEF Enter, money
    <3>3. team \in SUBSET Lineup
      OBVIOUS
    <3>4. PICK share \in {0, MaxCost} : Cardinality(team) * MaxCost = share
      <4>1. Cardinality(team) = 0 \/ Cardinality(team) = 1
        <5>1. team = {} \/ team = {Chair}
          OBVIOUS
        <5> HIDE DEF team
        <5> QED
          BY <5>1, FS_Singleton, FS_EmptySet
      <4>2. 0 * MaxCost = 0 /\ 1 * MaxCost = MaxCost
        BY <1>2
      <4> QED
        BY <4>1, <4>2
    <3> HIDE DEF team
    <3>5. share \in Nat /\ share <= MaxCost
      BY <1>2, <3>4
    <3>6. running_cost' + share <= Ceiling'
      BY <1>2, <3>1, <3>2, <3>5, Products DEF Ceiling
    <3>7. billed' + share <= recorded' + MaxCost * Calls'
      BY <1>2, <2>3, <3>1, <3>2, <3>5, CallsAreMore DEF Calls
    <3> QED
      BY <1>1, <3>1, <3>2, <3>3, <3>4, <3>5, <3>6, <3>7, StageBegins DEF Stages, Ended
  <2> QED
    BY <1>7, <2>2, <2>3 DEF Conclude
<1>8. ASSUME NEW m \in Lineup, Call(m) PROVE CostInv'
  BY <1>8, CallKeeps
<1>9. CASE UNCHANGED vars
  BY <1>1, <1>9
     DEF vars, money, council, CostInv, SeatsFit, TypeOK, Rest, StageOver, AllDone, Settled, Booked,
         Capped, Accounted, SomeFailed, AllUnrecorded, AllToCharge, AllHeld, AllToThrow, Ceiling,
         Calls
<1> QED
  BY <1>3, <1>4, <1>5, <1>6, <1>7, <1>8, <1>9 DEF Next, Main

\* What the sums come to: the three bounds on what a session costs.
LEMMA CostsFollow == CostInv => CostsAccountedFor /\ NoCallAfterReturn
<1> SUFFICES ASSUME CostInv PROVE CostsAccountedFor /\ NoCallAfterReturn
  OBVIOUS
<1>1. /\ running_cost \in Nat /\ recorded \in Nat /\ billed \in Nat
      /\ MaxCost \in Nat /\ Cap \in Nat /\ Size \in Nat
      /\ AllUnrecorded \in Nat /\ AllHeld \in Nat /\ AllToCharge \in Nat /\ AllToThrow \in Nat
  BY SumsAreNumbers, CouncilAssumption DEF CostInv, SeatsFit, TypeOK
<1>2. CapOverrunBounded
  <2>1. running_cost + AllToCharge <= Ceiling
    BY DEF CostInv, Capped
  <2>2. Ceiling <= Cap + MaxCost * Most /\ Ceiling \in Int /\ MaxCost * Most \in Int
    BY <1>1, Products DEF Ceiling
  <2>3. running_cost <= Cap + MaxCost * Most
    BY <1>1, <2>1, <2>2
  <2> QED
    BY <2>3 DEF CapOverrunBounded, Most
<1>3. NoCallAfterReturn
  BY DEF CostInv, Rest, NoCallAfterReturn, StageOver
<1>4. ASSUME stage \in {"verdict", "no_consensus"}
      PROVE  /\ running_cost = recorded
             /\ billed <= recorded + MaxCost * Calls
  <2>1. StageOver /\ AllDone
    BY <1>4 DEF CostInv, Rest, Ended
  <2> QED
    BY <2>1, StageDone
<1>5. VerdictCostRecorded
  BY <1>4 DEF VerdictCostRecorded
<1>6. UnrecordedBounded
  BY <1>4 DEF UnrecordedBounded, Calls
<1> QED
  BY <1>2, <1>3, <1>5, <1>6 DEF CostsAccountedFor

-----------------------------------------------------------------------------
\* The counter is the number of chairmen so far, and round_robin takes them in
\* the order of the line-up.
ChairInv ==
    /\ session_counter = Len(chairmen)
    /\ chairman_policy = "round_robin" =>
          \A k \in 1 .. Len(chairmen) : chairmen[k] = (k - 1) % Size

LEMMA ChairNext == TypeOK /\ ChairInv /\ [Next]_vars => ChairInv'
<1> SUFFICES ASSUME TypeOK, ChairInv, [Next]_vars PROVE ChairInv'
  OBVIOUS
<1>1. CASE UNCHANGED council
  BY <1>1 DEF ChairInv, council
<1>2. ASSUME NEW m \in Selectable, Seated(m) PROVE ChairInv'
  <2>1. /\ chairmen \in Seq(Lineup) /\ Len(chairmen) \in Nat /\ session_counter = Len(chairmen)
        /\ chairmen' = Append(chairmen, m) /\ session_counter' = session_counter + 1
        /\ chairman_policy' = chairman_policy
    BY <1>2 DEF Seated, TypeOK, ChairInv
  <2>2. /\ Len(chairmen') = Len(chairmen) + 1 /\ chairmen'[Len(chairmen) + 1] = m
        /\ \A k \in 1 .. Len(chairmen) : chairmen'[k] = chairmen[k]
    BY <2>1
  <2>3. ASSUME chairman_policy = "round_robin", NEW k \in 1 .. Len(chairmen')
        PROVE  chairmen'[k] = (k - 1) % Size
    <3>1. CASE k = Len(chairmen) + 1
      <4>1. m = session_counter % Size
        BY <1>2, <2>3 DEF Selectable
      <4>2. k - 1 = session_counter
        BY <2>1, <3>1
      <4> QED
        BY <2>2, <3>1, <4>1, <4>2
    <3>2. CASE k # Len(chairmen) + 1
      <4>1. k \in 1 .. Len(chairmen)
        BY <2>1, <2>2, <3>2
      <4> QED
        BY <2>2, <2>3, <4>1 DEF ChairInv
    <3> QED
      BY <3>1, <3>2
  <2> QED
    BY <2>1, <2>2, <2>3 DEF ChairInv
<1> QED
  BY <1>1, <1>2
     DEF Next, Main, Deliberate, Abort, CrossReview, Synthesise, Conclude, Call, Answer, Error,
         Charge, Record, vars

\* Less than a full round apart, the remainders differ.
LEMMA RemaindersDiffer ==
    ASSUME NEW i \in Nat, NEW j \in Nat, i < j, j < i + Size
    PROVE  i % Size # j % Size
<1>1. Size \in Nat /\ Size > 0
  BY CouncilAssumption
<1>2. /\ i = Size * (i \div Size) + (i % Size) /\ i \div Size \in Int /\ i % Size \in 0 .. Size - 1
      /\ j = Size * (j \div Size) + (j % Size) /\ j \div Size \in Int /\ j % Size \in 0 .. Size - 1
  BY <1>1
<1> DEFINE a == i \div Size
           b == j \div Size
<1>3. ASSUME i % Size = j % Size PROVE FALSE
  <2>1. j - i = Size * b - Size * a
    BY <1>1, <1>2, <1>3
  <2>2. a \in Int /\ b \in Int
    BY <1>2
  <2> HIDE DEF a, b
  <2>3. j - i = Size * (b - a)
    BY <1>1, <2>1, <2>2
  <2>4. CASE b - a <= 0
    <3>1. Size * (b - a) <= 0
      BY <1>1, <2>2, <2>4
    <3> QED
      BY <2>3, <3>1
  <2>5. CASE b - a >= 1
    <3>1. Size * (b - a) >= Size
      BY <1>1, <2>2, <2>5
    <3> QED
      BY <1>1, <2>3, <3>1
  <2> QED
    BY <2>2, <2>4, <2>5
<1> QED
  BY <1>3

LEMMA ChairFollows == ChairInv /\ TypeOK => ChairmanRotates
<1> SUFFICES ASSUME ChairInv, TypeOK, chairman_policy = "round_robin",
                    NEW i \in 1 .. Len(chairmen), NEW j \in 1 .. Len(chairmen),
                    i < j, j < i + Size
             PROVE  chairmen[i] # chairmen[j]
  BY DEF ChairmanRotates
<1>1. i - 1 \in Nat /\ j - 1 \in Nat /\ i - 1 < j - 1 /\ j - 1 < (i - 1) + Size
  BY CouncilAssumption DEF TypeOK
<1>2. (i - 1) % Size # (j - 1) % Size
  BY <1>1, RemaindersDiffer
<1> QED
  BY <1>2 DEF ChairInv

-----------------------------------------------------------------------------
LEMMA CostInvariant == Spec => []CostInv
BY CostInit, CostNext, PTL DEF Spec

\* The variables of a council keep their types.
THEOREM CouncilTypeCorrect == Spec => []TypeOK
<1>1. CostInv => TypeOK
  BY DEF CostInv, SeatsFit
<1> QED
  BY <1>1, CostInvariant, PTL

\* A session passes its cap by at most the calls of its longest stage, the cost
\* in a verdict is what the budget tracker was told, and the answers that were
\* thrown away are at most one for each call.
THEOREM CostsAreAccountedFor == Spec => []CostsAccountedFor
BY CostsFollow, CostInvariant, PTL

\* When deliberate has returned or raised, no thread of it calls a model.
THEOREM NoCallsAfterReturn == Spec => []NoCallAfterReturn
BY CostsFollow, CostInvariant, PTL

\* With round_robin, nobody has the chair twice in Size successive syntheses,
\* whatever sessions ended early in between.
THEOREM ChairRotates == Spec => []ChairmanRotates
<1>1. Init => ChairInv
  BY DEF Init, ChairInv
<1>2. CostInv => TypeOK
  BY DEF CostInv, SeatsFit
<1>3. Spec => [](TypeOK /\ ChairInv)
  BY <1>1, <1>2, ChairNext, CostInvariant, PTL DEF Spec
<1> QED
  BY <1>3, ChairFollows, PTL

-----------------------------------------------------------------------------
(***************************************************************************)
(* Dissent: for any members and texts, and whatever the two models that    *)
(* compare texts answer.                                                   *)
(***************************************************************************)
\* Letters are dealt to the members while there are reviews, and a review is
\* about what its letter stood for.
ReviewFits(m) ==
    LET r == reviewer_results[m] IN
    /\ r.letter \in Voices => r.about = first_opinions[voice_to_opinion[r.letter]]
    /\ r.letter \notin Voices => r.about = NoText

\* What each place of the session may rely on.
TurnFits ==
    /\ turn = "opinions" => matrix = {}
    /\ turn \in {"opinions", "agreement", "chairman"} =>
          \A m \in Members : reviewer_results[m] = Unreviewed
    /\ turn \in {"reviews", "synthesis"} =>
          voice_to_opinion \in [Voices -> Members] /\ \A m \in Members : ReviewFits(m)
    /\ turn \in {"reviews", "synthesis", "chairman", "check", "reprompt", "recheck",
                 "verdict"} => ~Sycophancy

DissentInv ==
    /\ DissentTypeOK
    /\ TurnFits
    /\ NothingSynthesisedAway

-----------------------------------------------------------------------------
LEMMA VoicesAreLetters ==
    /\ Voices \subseteq {"A", "B", "C", "D"}
    /\ \A i \in DOMAIN Letters : Letters[i] \in {"A", "B", "C", "D"}
<1> DEFINE n == Cardinality(Members)
<1>1. n \in 1 .. 4
  BY DissentAssumption DEF Letters
<1>2. \A i \in 1 .. 4 : Letters[i] \in {"A", "B", "C", "D"}
  BY DEF Letters
<1>3. DOMAIN Letters = 1 .. 4
  BY DEF Letters
<1>4. Voices = {Letters[i] : i \in 1 .. n}
  BY DEF Voices
<1> HIDE DEF n
<1>5. \A i \in 1 .. n : i \in 1 .. 4
  BY <1>1
<1> QED
  BY <1>2, <1>3, <1>4, <1>5

LEMMA NoneIsNoVoice == "none" \notin Voices /\ "malformed" \notin Voices
BY VoicesAreLetters

LEMMA DissentInvInit == DissentInit => DissentInv
<1> SUFFICES ASSUME DissentInit PROVE DissentInv
  OBVIOUS
<1>1. DissentTypeOK
  BY DEF DissentInit, DissentTypeOK, Unreviewed
<1>2. TurnFits
  BY DEF DissentInit, TurnFits
<1>3. NothingSynthesisedAway
  BY DEF DissentInit, NothingSynthesisedAway, VerdictKeepsDissent, ReviewsNameTheirAuthor,
         NoLockstep
<1> QED
  BY <1>1, <1>2, <1>3 DEF DissentInv

LEMMA DissentTypeNext ==
    DissentTypeOK /\ TurnFits /\ [DissentNext]_dissentVars => DissentTypeOK'
<1> SUFFICES ASSUME DissentTypeOK, TurnFits, [DissentNext]_dissentVars PROVE DissentTypeOK'
  OBVIOUS
<1>1. CASE Fails
  BY <1>1 DEF Fails, EndSession, DissentTypeOK, answer
<1>2. CASE FirstOpinions
  BY <1>2 DEF FirstOpinions, DissentTypeOK, answer
<1>3. CASE DetectSycophancy
  BY <1>3 DEF DetectSycophancy, EndSession, DissentTypeOK, answer
<1>4. CASE OutOfMoney
  BY <1>4 DEF OutOfMoney, EndSession, DissentTypeOK, answer
<1>5. CASE Shuffle
  BY <1>5 DEF Shuffle, DissentTypeOK, answer
<1>6. ASSUME NEW m \in Members, Review(m) PROVE DissentTypeOK'
  <2>1. voice_to_opinion \in [Voices -> Members]
    BY <1>6 DEF Review, TurnFits
  <2>2. \A letter : OpinionsBlock(letter) \in Texts \cup {NoText}
    BY <2>1 DEF OpinionsBlock, DissentTypeOK
  <2>3. \A i \in DOMAIN Letters : Letters[i] \in {"A", "B", "C", "D"}
    BY VoicesAreLetters
  <2>4. reviewer_results' \in [Members -> [letter : {"A", "B", "C", "D", "none", "malformed"},
                                          about : Texts \cup {NoText}]]
    BY <1>6, <2>2, <2>3 DEF Review, DissentTypeOK
  <2> QED
    BY <1>6, <2>4 DEF Review, DissentTypeOK, answer
<1>7. CASE EndReviews
  BY <1>7 DEF EndReviews, EndSession, DissentTypeOK, answer
<1>8. CASE Synthesis
  <2>1. voice_to_opinion \in [Voices -> Members]
    BY <1>8 DEF Synthesis, TurnFits
  <2>2. \A letter : Target(letter) \in Members \cup {NoText}
    BY <2>1 DEF Target
  <2>3. matrix' \subseteq [by : Members, of : Members \cup {NoText}, about : Texts \cup {NoText}]
    BY <1>8, <2>2 DEF Synthesis, DissentTypeOK
  <2> QED
    BY <1>8, <2>3 DEF Synthesis, Unreviewed, DissentTypeOK, answer
<1>9. CASE ChairmanAnswers
  BY <1>9 DEF ChairmanAnswers, DissentTypeOK
<1>10. CASE CheckDissent
  BY <1>10 DEF CheckDissent, OmittedOf, DissentTypeOK, answer
<1>11. CASE RecheckDissent
  BY <1>11 DEF RecheckDissent, EndSession, DissentTypeOK, answer
<1>12. CASE UNCHANGED dissentVars
  BY <1>12 DEF dissentVars, answer, DissentTypeOK
<1> QED
  BY <1>1, <1>2, <1>3, <1>4, <1>5, <1>6, <1>7, <1>8, <1>9, <1>10, <1>11, <1>12
     DEF DissentNext

\* The turns before the reviews and after them.
LEMMA TurnFitsNext ==
    DissentTypeOK /\ TurnFits /\ [DissentNext]_dissentVars => TurnFits'
<1> SUFFICES ASSUME DissentTypeOK, TurnFits, [DissentNext]_dissentVars PROVE TurnFits'
  OBVIOUS
<1>1. CASE Fails
  BY <1>1 DEF Fails, EndSession, TurnFits
<1>2. CASE FirstOpinions
  BY <1>2 DEF FirstOpinions, TurnFits
<1>3. CASE DetectSycophancy
  BY <1>3 DEF DetectSycophancy, EndSession, TurnFits
<1>4. CASE OutOfMoney
  BY <1>4 DEF OutOfMoney, EndSession, TurnFits
<1>5. CASE Shuffle
  BY <1>5, NoneIsNoVoice DEF Shuffle, TurnFits, ReviewFits, Unreviewed, Sycophancy
<1>6. ASSUME NEW m \in Members, Review(m) PROVE TurnFits'
  <2>1. \A n \in Members : ReviewFits(n)'
    <3>1. TAKE n \in Members
    <3>2. CASE n = m
      BY <1>6, <3>2, NoneIsNoVoice
         DEF Review, TurnFits, ReviewFits, OpinionsBlock, DissentTypeOK, Unreviewed
    <3>3. CASE n # m
      BY <1>6, <3>3 DEF Review, TurnFits, ReviewFits, DissentTypeOK
    <3> QED
      BY <3>2, <3>3
  <2> QED
    BY <1>6, <2>1 DEF Review, TurnFits, Sycophancy
<1>7. CASE EndReviews
  BY <1>7 DEF EndReviews, EndSession, TurnFits, ReviewFits, Sycophancy
<1>8. CASE Synthesis
  BY <1>8 DEF Synthesis, TurnFits, Sycophancy
<1>9. CASE ChairmanAnswers
  BY <1>9 DEF ChairmanAnswers, TurnFits, Sycophancy
<1>10. CASE CheckDissent
  BY <1>10 DEF CheckDissent, TurnFits, Sycophancy
<1>11. CASE RecheckDissent
  BY <1>11 DEF RecheckDissent, EndSession, TurnFits, Sycophancy
<1>12. CASE UNCHANGED dissentVars
  BY <1>12 DEF dissentVars, answer, TurnFits, ReviewFits, Sycophancy
<1> QED
  BY <1>1, <1>2, <1>3, <1>4, <1>5, <1>6, <1>7, <1>8, <1>9, <1>10, <1>11, <1>12
     DEF DissentNext

\* Only the two checks give a verdict, and both look at every member.
LEMMA VerdictNext ==
    DissentInv /\ [DissentNext]_dissentVars => VerdictKeepsDissent'
<1> SUFFICES ASSUME DissentInv, [DissentNext]_dissentVars, turn' = "verdict",
                    NEW m \in Members, Contradicts(majority_view, first_opinions[m])'
             PROVE  Represented(first_opinions[m])'
  BY DEF VerdictKeepsDissent
<1>1. CASE CheckDissent
  <2>1. UNCHANGED <<first_opinions, majority_view, preserved_dissents>>
    BY <1>1 DEF CheckDissent, answer
  <2>2. OmittedOf(Members) = {}
    BY <1>1 DEF CheckDissent
  <2> QED
    BY <2>1, <2>2 DEF OmittedOf, Contradicts, Represented
<1>2. CASE RecheckDissent
  <2>1. UNCHANGED <<first_opinions, majority_view, preserved_dissents>>
    BY <1>2 DEF RecheckDissent, answer
  <2>2. FinalOmission = {}
    BY <1>2 DEF RecheckDissent, EndSession
  <2> QED
    BY <2>1, <2>2 DEF FinalOmission, OmittedOf, Contradicts, Represented
<1>3. CASE UNCHANGED dissentVars
  <2>1. UNCHANGED <<turn, first_opinions, majority_view, preserved_dissents>>
    BY <1>3 DEF dissentVars, answer
  <2> QED
    BY <2>1 DEF DissentInv, NothingSynthesisedAway, VerdictKeepsDissent, Contradicts, Represented
<1> QED
  BY <1>1, <1>2, <1>3
     DEF DissentNext, Fails, FirstOpinions, DetectSycophancy, OutOfMoney, Shuffle, Review,
         EndReviews, Synthesis, ChairmanAnswers, EndSession

\* The matrix is made of the reviews, and no opinion changes while it is read.
LEMMA MatrixNext ==
    DissentInv /\ [DissentNext]_dissentVars => ReviewsNameTheirAuthor'
<1> SUFFICES ASSUME DissentInv, [DissentNext]_dissentVars PROVE ReviewsNameTheirAuthor'
  OBVIOUS
<1> USE DEF DissentInv
<1>1. CASE Synthesis
  <2>1. /\ voice_to_opinion \in [Voices -> Members]
        /\ \A m \in Members : ReviewFits(m)
        /\ first_opinions' = first_opinions
    BY <1>1 DEF Synthesis, TurnFits
  <2>2. ASSUME NEW m \in Members
        PROVE  LET r == reviewer_results[m] IN
               r.about = IF Target(r.letter) = NoText THEN NoText
                         ELSE first_opinions[Target(r.letter)]
    <3>1. CASE reviewer_results[m].letter \in Voices
      BY <2>1, <3>1, DissentAssumption DEF ReviewFits, Target
    <3>2. CASE reviewer_results[m].letter \notin Voices
      BY <2>1, <3>2 DEF ReviewFits, Target
    <3> QED
      BY <3>1, <3>2
  <2> QED
    BY <1>1, <2>1, <2>2 DEF Synthesis, ReviewsNameTheirAuthor
<1>2. CASE ChairmanAnswers
  BY <1>2 DEF ChairmanAnswers, ReviewsNameTheirAuthor
<1>3. CASE FirstOpinions
  BY <1>3 DEF FirstOpinions, TurnFits, ReviewsNameTheirAuthor
<1>4. CASE UNCHANGED <<matrix, first_opinions>>
  BY <1>4 DEF NothingSynthesisedAway, ReviewsNameTheirAuthor
<1> QED
  BY <1>1, <1>2, <1>3, <1>4
     DEF DissentNext, Fails, DetectSycophancy, OutOfMoney, Shuffle, Review, EndReviews,
         CheckDissent, RecheckDissent, dissentVars

\* The session goes on only where the members do not agree too much.
LEMMA NoLockstepNext ==
    TurnFits' => NoLockstep'
BY DEF TurnFits, NoLockstep, Sycophancy

LEMMA DissentInvNext == DissentInv /\ [DissentNext]_dissentVars => DissentInv'
<1> SUFFICES ASSUME DissentInv, [DissentNext]_dissentVars PROVE DissentInv'
  OBVIOUS
<1>1. DissentTypeOK' /\ TurnFits'
  BY DissentTypeNext, TurnFitsNext DEF DissentInv
<1>2. NothingSynthesisedAway'
  BY <1>1, VerdictNext, MatrixNext, NoLockstepNext DEF NothingSynthesisedAway
<1> QED
  BY <1>1, <1>2 DEF DissentInv

-----------------------------------------------------------------------------
\* The variables of a session keep their types.
THEOREM DissentTypeCorrect == DissentSpec => []DissentTypeOK
<1>1. DissentInv => DissentTypeOK
  BY DEF DissentInv
<1> QED
  BY <1>1, DissentInvInit, DissentInvNext, PTL DEF DissentSpec

\* A verdict keeps each dissent from its majority view, the chairman reads each
\* review under the name of its author, and no session of members in lockstep
\* reaches him.
THEOREM DissentIsKept == DissentSpec => []NothingSynthesisedAway
<1>1. DissentInv => NothingSynthesisedAway
  BY DEF DissentInv
<1> QED
  BY <1>1, DissentInvInit, DissentInvNext, PTL DEF DissentSpec

-----------------------------------------------------------------------------
(***************************************************************************)
(* Certify: for any line-up, prices, cap, probes and number of commands.   *)
(***************************************************************************)
SessionRecords == [cost : Nat, stage1 : SUBSET Models, stage2 : SUBSET Models, stage3 : SUBSET Models]
ProbeResults == [opinions : Nat, agree : BOOLEAN]

\* The types, with the command that a kill ends counted before it is killed.
CertifyTypeInv ==
    /\ CertifyTypeOK
    /\ session \in SessionRecords
    /\ command # "idle" => kills < commands

\* The ledger has what the session cost, since both are charged at once and the
\* session starts from nothing; what is about to be written has been checked.
CertificateInv ==
    /\ spent >= session.cost
    /\ command = "write" => VerdictWithinCap /\ SessionCovers
    /\ CertificateTrue

Grounded(report) ==
    /\ report.status = "report"
    /\ report.flagged \/ \E i \in DOMAIN report.results :
            report.results[i].opinions >= 2 /\ ~report.results[i].agree

\* Probes with too few opinions are not kept, and reports are never changed.
ReportInv ==
    /\ \A i \in DOMAIN probed : probed[i].opinions >= 2
    /\ command = "report" => probed # <<>>
    /\ \A report \in reports : Grounded(report)
    /\ command = "copy" => active.status = "torn" /\ active.of \in reports \cup {Foreign}
    /\ active.status = "torn" => command = "copy" \/ kills > 0

CertifyInv == CertifyTypeInv /\ CertificateInv /\ ReportInv

-----------------------------------------------------------------------------
LEMMA CertifyStarts == CertifyInit => CertifyInv
<1> SUFFICES ASSUME CertifyInit PROVE CertifyInv
  OBVIOUS
<1>1. CertifyTypeInv
  <2>1. 0 \in 0 .. Probes /\ 0 \in 0 .. Commands /\ 0 \in 0 .. 0
    BY CertifyAssumption
  <2>2. session \in SessionRecords
    BY DEF CertifyInit, NoSession, SessionRecords
  <2>3. probed \in Seq([opinions : Nat, agree : BOOLEAN]) /\ kills <= commands
    BY DEF CertifyInit
  <2>4. answers \in [Models -> {"off", "asked", "recorded", "done", "failed"} \cup Views]
    BY DEF CertifyInit, Silent
  <2>5. {session.stage1, session.stage2, session.stage3} \subseteq SUBSET Models
    BY <2>2 DEF SessionRecords
  <2> QED
    BY <2>1, <2>2, <2>3, <2>4, <2>5 DEF CertifyInit, CertifyTypeInv, CertifyTypeOK, SessionRecords, NoFileYet
<1>2. CertificateInv
  BY DEF CertifyInit, CertificateInv, CertificateTrue, NoSession, NoFileYet
<1>3. ReportInv
  BY DEF CertifyInit, ReportInv, NoFileYet
<1> QED
  BY <1>1, <1>2, <1>3 DEF CertifyInv

\* A command that leaves has nothing in memory any more.
LEMMA LeaveTyped ==
    ASSUME CertifyTypeInv, Leave, commands' = commands, reports' = reports,
           kills' \in 0 .. commands, spent' = spent,
           certificate'.status \in {"absent", "torn", "passed"},
           active'.status \in {"absent", "torn", "report", "foreign"}
    PROVE  CertifyTypeInv'
<1>1. answers' \in [Models -> {"off", "asked", "recorded", "done", "failed"} \cup Views]
  BY DEF Leave, Silent
<1>2. session' \in SessionRecords
  BY DEF Leave, NoSession, SessionRecords
<1>3. 0 \in 0 .. Probes
  BY CertifyAssumption
<1>4. probed' \in Seq(ProbeResults) /\ probed' = <<>>
  BY DEF Leave
<1> QED
  BY <1>1, <1>2, <1>3, <1>4 DEF Leave, CertifyTypeInv, CertifyTypeOK, SessionRecords, ProbeResults

LEMMA SettleTyped ==
    ASSUME CertifyTypeInv, Doing("probe"), ProbeSettles
    PROVE  CertifyTypeInv'
<1> DEFINE n == Cardinality(Opinions)
           kept == IF n < Quorum THEN probed
                   ELSE Append(probed, [opinions |-> n, agree |-> Agreement])
<1>1. n \in Nat
  <2>1. IsFiniteSet(Opinions)
    BY CertifyAssumption, FS_Subset DEF Opinions
  <2> QED
    BY <2>1, FS_CardinalityType
<1>2. kept \in Seq(ProbeResults)
  <2>1. probed \in Seq(ProbeResults)
    BY DEF CertifyTypeInv, CertifyTypeOK, ProbeResults
  <2>2. Agreement \in BOOLEAN
    BY DEF Agreement
  <2>3. [opinions |-> n, agree |-> Agreement] \in ProbeResults
    BY <1>1, <2>2 DEF ProbeResults
  <2> HIDE DEF n
  <2> QED
    BY <2>1, <2>3
<1>3. \/ /\ asked < Probes
         /\ probed' = kept /\ asked' = asked + 1 /\ answers' = Asked
         /\ UNCHANGED <<command, session, reserved>>
      \/ /\ asked = Probes /\ kept # <<>>
         /\ probed' = kept /\ command' = "report" /\ answers' = Silent
         /\ UNCHANGED <<asked, session, reserved>>
      \/ asked = Probes /\ kept = <<>> /\ Leave
  BY DEF ProbeSettles
<1>4. UNCHANGED <<spent, certificate, reports, active, commands, kills>>
  BY DEF ProbeSettles, Bounds
<1> HIDE DEF kept
<1>5. CASE Leave
  BY <1>4, <1>5, LeaveTyped DEF CertifyTypeInv, CertifyTypeOK
<1>6. CASE ~Leave
  <2>1. answers' \in [Models -> {"off", "asked", "recorded", "done", "failed"} \cup Views]
    BY <1>3, <1>6 DEF Asked, Silent
  <2>2. asked' \in 0 .. Probes
    BY <1>3, <1>6, CertifyAssumption DEF CertifyTypeInv, CertifyTypeOK
  <2>3. command' \in {"probe", "report"} /\ kills < commands
    BY <1>3, <1>6 DEF CertifyTypeInv, Doing
  <2>4. probed' \in Seq([opinions : Nat, agree : BOOLEAN])
    BY <1>2, <1>3, <1>6 DEF ProbeResults
  <2>5. UNCHANGED <<session, reserved>>
    BY <1>3, <1>6
  <2> QED
    BY <1>4, <2>1, <2>2, <2>3, <2>4, <2>5 DEF CertifyTypeInv, CertifyTypeOK
<1> QED
  BY <1>5, <1>6

LEMMA TypeKeeps ==
    ASSUME CertifyTypeInv, CertifyNext, ReportInv
    PROVE  CertifyTypeInv'
<1> USE DEF Doing, Begin, Bounds, Certification, Calibration
<1>1. CASE CertifyLive
  <2>1. commands' \in 0 .. Commands /\ kills' \in 0 .. commands' /\ kills' < commands'
    BY <1>1, CertifyAssumption DEF CertifyLive, CertifyTypeInv, CertifyTypeOK
  <2> QED
    BY <1>1, <2>1 DEF CertifyLive, CertifyTypeInv, CertifyTypeOK
<1>2. CASE Reserve
  <2>1. CASE Leave
    BY <1>2, <2>1, LeaveTyped DEF Reserve, CertifyTypeInv, CertifyTypeOK
  <2>2. CASE ~Leave
    BY <1>2, <2>2 DEF Reserve, CertifyTypeInv, CertifyTypeOK, Asked
  <2> QED
    BY <2>1, <2>2
<1>3. CASE NextStage
  <2>1. CASE Leave
    BY <1>3, <2>1, LeaveTyped DEF NextStage, CertifyTypeInv, CertifyTypeOK
  <2>2. CASE ~Leave
    <3>1. answers' \in [Models -> {"off", "asked", "recorded", "done", "failed"} \cup Views]
      BY <1>3, <2>2 DEF NextStage, Silent, Asked
    <3>2. /\ command' \in {"reviews", "synthesis", "close"} /\ reserved' \in BOOLEAN
          /\ command # "idle" /\ UNCHANGED <<session, asked, probed>>
      BY <1>3, <2>2 DEF NextStage, CertifyTypeInv, CertifyTypeOK
    <3>3. UNCHANGED <<spent, certificate, reports, active, commands, kills>>
      BY <1>3 DEF NextStage
    <3> QED
      BY <3>1, <3>2, <3>3 DEF CertifyTypeInv, CertifyTypeOK
  <2> QED
    BY <2>1, <2>2
<1>4. CASE CloseAfter
  BY <1>4 DEF CloseAfter, CertifyTypeInv, CertifyTypeOK
<1>5. CASE Check
  <2>1. CASE Leave /\ UNCHANGED certificate
    BY <1>5, <2>1, LeaveTyped DEF Check, CertifyTypeInv, CertifyTypeOK
  <2>2. CASE ~(Leave /\ UNCHANGED certificate)
    BY <1>5, <2>2 DEF Check, CertifyTypeInv, CertifyTypeOK, Torn
  <2> QED
    BY <2>1, <2>2
<1>6. CASE WriteCertificate
  <2>1. certificate'.status = "passed"
    BY <1>6 DEF WriteCertificate
  <2> QED
    BY <1>6, <2>1, LeaveTyped DEF WriteCertificate, CertifyTypeInv, CertifyTypeOK
<1>7. CASE Calibrate
  <2>1. commands' \in 0 .. Commands /\ kills' \in 0 .. commands' /\ kills' < commands'
    BY <1>7, CertifyAssumption DEF Calibrate, CertifyTypeInv, CertifyTypeOK
  <2>2. 1 \in 0 .. Probes
    BY CertifyAssumption
  <2> QED
    BY <1>7, <2>1, <2>2 DEF Calibrate, CertifyTypeInv, CertifyTypeOK, Asked
<1>8. CASE ProbeSettles
  BY <1>8, SettleTyped DEF ProbeSettles
<1>9. CASE WriteReport
  <2>1. commands' = commands /\ spent' = spent /\ certificate' = certificate /\ active' = active
    BY <1>9 DEF WriteReport
  <2>2. command' = "idle" /\ answers' = Silent /\ session' = NoSession
        /\ reserved' = FALSE /\ asked' = 0 /\ probed' = <<>> /\ kills' = kills
    BY <1>9 DEF WriteReport, Leave
  <2>3. 0 \in 0 .. Probes
    BY CertifyAssumption
  <2>4. probed' \in Seq([opinions : Nat, agree : BOOLEAN])
    BY <2>2
  <2>5. session' \in SessionRecords
    BY <2>2 DEF SessionRecords, NoSession
  <2>6. answers' \in [Models -> {"off", "asked", "recorded", "done", "failed"} \cup Views]
    BY <2>2 DEF Silent
  <2>7. reserved' \in BOOLEAN /\ kills' \in 0 .. commands'
    BY <2>1, <2>2 DEF CertifyTypeInv, CertifyTypeOK
  <2> QED
    BY <2>1, <2>2, <2>3, <2>4, <2>5, <2>6, <2>7 DEF CertifyTypeInv, CertifyTypeOK, SessionRecords
<1>10. CASE CopyReport
  <2>1. active'.status \in {"report", "foreign"}
    BY <1>10 DEF CopyReport, ReportInv, Grounded, Foreign
  <2> QED
    BY <1>10, <2>1, LeaveTyped DEF CopyReport, CertifyTypeInv, CertifyTypeOK
<1>11. CASE KillCommand
  <2>1. kills' \in 0 .. commands
    BY <1>11, CertifyAssumption DEF KillCommand, CertifyTypeInv, CertifyTypeOK
  <2> QED
    BY <1>11, <2>1, LeaveTyped DEF KillCommand, CertifyTypeInv, CertifyTypeOK
<1>12. ASSUME NEW m \in Models, MemberAnswers(m)
       PROVE  CertifyTypeInv'
  <2>1. /\ answers' \in [Models -> {"off", "asked", "recorded", "done", "failed"} \cup Views]
        /\ command # "idle"
        /\ UNCHANGED <<command, reserved, certificate, asked, probed, reports, active,
                       commands, kills>>
    BY <1>12 DEF MemberAnswers, CertifyTypeInv, CertifyTypeOK
  <2>2. session' \in SessionRecords /\ spent' \in Nat
    <3>1. session \in SessionRecords /\ spent \in Nat
      BY DEF CertifyTypeInv, CertifyTypeOK
    <3>2. CASE UNCHANGED <<session, spent>>
      BY <3>1, <3>2
    <3>3. ASSUME NEW cost \in Prices,
                 session' = [session EXCEPT !.cost = session.cost + cost], spent' = spent + cost
          PROVE  session' \in SessionRecords /\ spent' \in Nat
      <4>1. cost \in Nat
        BY CertifyAssumption
      <4> QED
        BY <3>1, <3>3, <4>1 DEF SessionRecords
    <3> QED
      BY <1>12, <3>2, <3>3 DEF MemberAnswers
  <2> QED
    BY <2>1, <2>2 DEF CertifyTypeInv, CertifyTypeOK, SessionRecords
<1>13. ASSUME NEW m \in Models, LogAnswer(m)
       PROVE  CertifyTypeInv'
  <2>1. /\ answers' \in [Models -> {"off", "asked", "recorded", "done", "failed"} \cup Views]
        /\ UNCHANGED <<command, reserved, spent, certificate, asked, probed, reports, active,
                       commands, kills>>
    BY <1>13 DEF LogAnswer, CertifyTypeInv, CertifyTypeOK
  <2>2. session' \in SessionRecords
    <3>1. command \in {"opinions", "reviews", "synthesis"} /\ session \in SessionRecords
      BY <1>13 DEF LogAnswer, CertifyTypeInv
    <3>2. \/ session' = session
          \/ session' = [session EXCEPT !.stage1 = session.stage1 \cup {m}]
          \/ session' = [session EXCEPT !.stage2 = session.stage2 \cup {m}]
          \/ session' = [session EXCEPT !.stage3 = session.stage3 \cup {m}]
      BY <1>13, <3>1 DEF LogAnswer
    <3> QED
      BY <3>1, <3>2 DEF SessionRecords
  <2> QED
    BY <2>1, <2>2 DEF CertifyTypeInv, CertifyTypeOK, SessionRecords
<1>14. ASSUME NEW m \in Models, ProbeAnswers(m)
       PROVE  CertifyTypeInv'
  <2>1. answers' \in [Models -> {"off", "asked", "recorded", "done", "failed"} \cup Views]
    BY <1>14 DEF ProbeAnswers, CertifyTypeInv, CertifyTypeOK
  <2> QED
    BY <1>14, <2>1 DEF ProbeAnswers, CertifyTypeInv, CertifyTypeOK
<1>15. ASSUME NEW file \in reports \cup {Foreign}, PromoteCalibration(file)
       PROVE  CertifyTypeInv'
  <2>1. commands' \in 0 .. Commands /\ kills' \in 0 .. commands' /\ kills' < commands'
    BY <1>15, CertifyAssumption DEF PromoteCalibration, CertifyTypeInv, CertifyTypeOK
  <2> QED
    BY <1>15, <2>1 DEF PromoteCalibration, CertifyTypeInv, CertifyTypeOK
<1> QED
  BY <1>1, <1>2, <1>3, <1>4, <1>5, <1>6, <1>7, <1>8, <1>9, <1>10, <1>11, <1>12,
     <1>13, <1>14, <1>15 DEF CertifyNext

-----------------------------------------------------------------------------
\* A command that ends or that never touches the certificate.
LEMMA SessionForgotten ==
    ASSUME CertificateInv, CertifyTypeInv, Leave, spent' = spent, certificate' = certificate
    PROVE  CertificateInv'
<1>1. session'.cost = 0 /\ command' = "idle" /\ spent \in Nat
  BY DEF Leave, NoSession, CertifyTypeInv, CertifyTypeOK
<1> QED
  BY <1>1 DEF CertificateInv, CertificateTrue

LEMMA SessionKept ==
    ASSUME CertificateInv, command' # "write",
           UNCHANGED <<session, spent, certificate>>
    PROVE  CertificateInv'
BY DEF CertificateInv, CertificateTrue

LEMMA CertificateKeeps ==
    ASSUME CertifyTypeInv, CertificateInv, CertifyNext
    PROVE  CertificateInv'
<1> USE DEF Doing, Begin, Bounds, Certification, Calibration
<1>1. CASE CertifyLive \/ CloseAfter \/ Calibrate
  BY <1>1, SessionKept DEF CertifyLive, CloseAfter, Calibrate
<1>2. CASE Reserve
  BY <1>2, SessionKept, SessionForgotten DEF Reserve
<1>3. CASE NextStage
  BY <1>3, SessionKept, SessionForgotten DEF NextStage
<1>4. CASE Check
  <2>1. CASE Leave /\ UNCHANGED certificate
    BY <1>4, <2>1, SessionForgotten DEF Check
  <2>2. CASE ~(Leave /\ UNCHANGED certificate)
    <3>1. VerdictWithinCap /\ SessionCovers /\ certificate' = Torn /\ UNCHANGED <<session, spent>>
      BY <1>4, <2>2 DEF Check
    <3> QED
      BY <3>1 DEF CertificateInv, CertificateTrue, Torn, VerdictWithinCap, SessionCovers
  <2> QED
    BY <2>1, <2>2
<1>5. CASE WriteCertificate
  <2>1. /\ certificate' = [status |-> "passed", cost |-> session.cost, recorded |-> spent,
                           stage1 |-> session.stage1, stage2 |-> session.stage2]
        /\ VerdictWithinCap /\ SessionCovers
    BY <1>5 DEF WriteCertificate, CertificateInv
  <2>2. /\ certificate'.stage1 = Models /\ certificate'.stage2 = Models
        /\ certificate'.cost <= CostCap
        /\ certificate'.recorded >= certificate'.cost
    BY <2>1 DEF CertificateInv, VerdictWithinCap, SessionCovers
  <2>3. session'.cost = 0 /\ command' = "idle" /\ spent' = spent /\ spent \in Nat
    BY <1>5 DEF WriteCertificate, Leave, NoSession, CertifyTypeInv, CertifyTypeOK
  <2> QED
    BY <2>2, <2>3 DEF CertificateInv, CertificateTrue
<1>6. CASE ProbeSettles
  BY <1>6, SessionKept, SessionForgotten DEF ProbeSettles
<1>7. CASE WriteReport \/ CopyReport \/ KillCommand
  BY <1>7, SessionForgotten DEF WriteReport, CopyReport, KillCommand
<1>8. ASSUME NEW m \in Models, MemberAnswers(m)
      PROVE  CertificateInv'
  <2>1. command' \in {"opinions", "reviews", "synthesis"} /\ certificate' = certificate
    BY <1>8 DEF MemberAnswers
  <2>2. spent' >= session'.cost
    <3>1. session.cost \in Nat /\ spent \in Nat /\ spent >= session.cost
      BY DEF CertifyTypeInv, CertifyTypeOK, CertificateInv
    <3>2. CASE UNCHANGED <<session, spent>>
      BY <3>1, <3>2
    <3>3. CASE \E cost \in Prices : /\ session' = [session EXCEPT !.cost = @ + cost]
                                    /\ spent' = spent + cost
      <4>1. PICK cost \in Prices : /\ session' = [session EXCEPT !.cost = @ + cost]
                                   /\ spent' = spent + cost
        BY <3>3
      <4>2. session'.cost = session.cost + cost /\ cost \in Nat
        BY <4>1, CertifyAssumption DEF CertifyTypeInv, SessionRecords
      <4> QED
        BY <3>1, <4>1, <4>2
    <3> QED
      BY <1>8, <3>2, <3>3 DEF MemberAnswers
  <2> QED
    BY <2>1, <2>2 DEF CertificateInv, CertificateTrue
<1>9. ASSUME NEW m \in Models, LogAnswer(m)
      PROVE  CertificateInv'
  <2>1. /\ command' \in {"opinions", "reviews", "synthesis"}
        /\ UNCHANGED <<spent, certificate>>
    BY <1>9 DEF LogAnswer
  <2>2. session'.cost = session.cost
    BY <1>9 DEF LogAnswer, CertifyTypeInv, SessionRecords
  <2> QED
    BY <2>1, <2>2 DEF CertificateInv, CertificateTrue
<1>10. ASSUME NEW m \in Models, ProbeAnswers(m)
       PROVE  CertificateInv'
  BY <1>10, SessionKept DEF ProbeAnswers
<1>11. ASSUME NEW file \in reports \cup {Foreign}, PromoteCalibration(file)
       PROVE  CertificateInv'
  <2>1. command' = "copy" /\ UNCHANGED <<session, spent, certificate>>
    BY <1>11 DEF PromoteCalibration
  <2> QED
    BY <2>1, SessionKept
<1> QED
  BY <1>1, <1>2, <1>3, <1>4, <1>5, <1>6, <1>7, <1>8, <1>9, <1>10, <1>11 DEF CertifyNext

-----------------------------------------------------------------------------
\* A report that does not flag sycophancy has a disputed probe.
LEMMA UnflaggedIsDisputed ==
    ASSUME CertifyTypeInv, ~Flagged, probed # <<>>
    PROVE  \E i \in DOMAIN probed : ~probed[i].agree
<1> SUFFICES ASSUME \A i \in DOMAIN probed : probed[i].agree
             PROVE  FALSE
  OBVIOUS
<1>1. {i \in DOMAIN probed : ~probed[i].agree} = {}
  OBVIOUS
<1>2. Disputed = 0
  BY <1>1, FS_EmptySet DEF Disputed
<1>3. Len(probed) \in Nat /\ Len(probed) > 0
  BY DEF CertifyTypeInv, CertifyTypeOK
<1> QED
  BY <1>2, <1>3 DEF Flagged

LEMMA ReportsForgotten ==
    ASSUME ReportInv, Leave, UNCHANGED <<reports, active, kills>>, command # "copy"
    PROVE  ReportInv'
BY DEF ReportInv, Leave

LEMMA ReportsKept ==
    ASSUME ReportInv, UNCHANGED <<reports, active, kills, probed>>, command # "copy",
           command' \notin {"report", "copy"}
    PROVE  ReportInv'
BY DEF ReportInv

LEMMA ReportKeeps ==
    ASSUME CertifyTypeInv, ReportInv, CertifyNext
    PROVE  ReportInv'
<1> USE DEF Doing, Begin, Bounds, Certification, Calibration
<1>1. CASE CertifyLive \/ CloseAfter \/ Calibrate
  BY <1>1, ReportsKept DEF CertifyLive, CloseAfter, Calibrate
<1>2. CASE Reserve \/ NextStage \/ Check
  BY <1>2, ReportsKept, ReportsForgotten DEF Reserve, NextStage, Check
<1>3. CASE WriteCertificate
  BY <1>3, ReportsForgotten DEF WriteCertificate
<1>4. CASE ProbeSettles
  <2>1. CASE Leave
    BY <1>4, <2>1, ReportsForgotten DEF ProbeSettles
  <2>2. CASE ~Leave
    <3> DEFINE n == Cardinality(Opinions)
               result == [opinions |-> n, agree |-> Agreement]
               kept == IF n < Quorum THEN probed ELSE Append(probed, result)
    <3>1. /\ command' \in {"probe", "report"} /\ probed' = kept
          /\ UNCHANGED <<reports, active, kills>>
          /\ command = "probe"
      BY <1>4, <2>2 DEF ProbeSettles
    <3>2. command' = "report" => probed' # <<>>
      BY <1>4, <2>2 DEF ProbeSettles
    <3>3. probed' = probed \/ (n >= 2 /\ probed' = Append(probed, result))
      <4>1. n \in Nat
        BY CertifyAssumption, FS_Subset, FS_CardinalityType DEF Opinions
      <4> HIDE DEF n
      <4> QED
        BY <3>1, <4>1 DEF Quorum
    <3>4. \A i \in DOMAIN probed' : probed'[i].opinions >= 2
      <4>1. probed \in Seq([opinions : Nat, agree : BOOLEAN])
        BY DEF CertifyTypeInv, CertifyTypeOK
      <4>2. CASE probed' = probed
        BY <4>2 DEF ReportInv
      <4>3. CASE n >= 2 /\ probed' = Append(probed, result)
        <5>1. result.opinions >= 2
          BY <4>3
        <5> HIDE DEF result
        <5> QED
          BY <4>1, <4>3, <5>1 DEF ReportInv
      <4> QED
        BY <3>3, <4>2, <4>3
    <3> QED
      BY <3>1, <3>2, <3>4 DEF ReportInv
  <2> QED
    BY <2>1, <2>2
<1>5. CASE WriteReport
  <2> DEFINE report == [status |-> "report", flagged |-> Flagged, results |-> probed]
  <2>1. command = "report" /\ probed # <<>>
    BY <1>5 DEF WriteReport, ReportInv
  <2>2. Grounded(report)
    <3>1. CASE Flagged
      BY <3>1 DEF Grounded
    <3>2. CASE ~Flagged
      <4>1. \E i \in DOMAIN probed : probed[i].opinions >= 2 /\ ~probed[i].agree
        BY <2>1, <3>2, UnflaggedIsDisputed DEF ReportInv
      <4> QED
        BY <4>1 DEF Grounded
    <3> QED
      BY <3>1, <3>2
  <2>3. /\ reports' = reports \cup {report} /\ UNCHANGED <<active, kills>>
        /\ probed' = <<>> /\ command' = "idle"
    BY <1>5 DEF WriteReport, Leave
  <2> HIDE DEF report
  <2> QED
    BY <2>1, <2>2, <2>3 DEF ReportInv
<1>6. CASE CopyReport
  <2>1. active'.status \in {"report", "foreign"} /\ reports' = reports
    BY <1>6 DEF CopyReport, ReportInv, Grounded, Foreign
  <2>2. probed' = <<>> /\ command' = "idle"
    BY <1>6 DEF CopyReport, Leave
  <2> QED
    BY <2>1, <2>2 DEF ReportInv
<1>7. CASE KillCommand
  <2>1. kills' > 0 /\ UNCHANGED <<reports, active>>
    BY <1>7 DEF KillCommand, CertifyTypeInv, CertifyTypeOK
  <2>2. probed' = <<>> /\ command' = "idle"
    BY <1>7 DEF KillCommand, Leave
  <2> QED
    BY <2>1, <2>2 DEF ReportInv
<1>8. ASSUME NEW m \in Models, MemberAnswers(m) \/ LogAnswer(m) \/ ProbeAnswers(m)
      PROVE  ReportInv'
  BY <1>8, ReportsKept DEF MemberAnswers, LogAnswer, ProbeAnswers
<1>9. ASSUME NEW file \in reports \cup {Foreign}, PromoteCalibration(file)
      PROVE  ReportInv'
  BY <1>9 DEF PromoteCalibration, ReportInv
<1> QED
  BY <1>1, <1>2, <1>3, <1>4, <1>5, <1>6, <1>7, <1>8, <1>9 DEF CertifyNext

LEMMA CertifyStepKeeps ==
    ASSUME CertifyInv, [CertifyNext]_certifyVars
    PROVE  CertifyInv'
<1>1. CASE UNCHANGED certifyVars
  BY <1>1 DEF CertifyInv, CertifyTypeInv, CertifyTypeOK, CertificateInv, CertificateTrue,
              VerdictWithinCap, SessionCovers, ReportInv, Grounded, certifyVars
<1>2. CASE CertifyNext
  BY <1>2, TypeKeeps, CertificateKeeps, ReportKeeps DEF CertifyInv
<1> QED
  BY <1>1, <1>2

\* The state of the commands is always of its type; in particular no command
\* is killed twice and no probe is asked beyond the last.
THEOREM CertifyTypeCorrect == CertifySpec => []CertifyTypeOK
<1>1. CertifyInv => CertifyTypeOK
  BY DEF CertifyInv, CertifyTypeInv
<1> QED
  BY <1>1, CertifyStarts, CertifyStepKeeps, PTL DEF CertifySpec

\* handle_certify_live: a certificate that says "passed" is of one deliberation
\* that all models took part in, within the cap, with its costs in the ledger.
THEOREM CertificatesAreTrue == CertifySpec => []CertificateTrue
<1>1. CertifyInv => CertificateTrue
  BY DEF CertifyInv, CertificateInv
<1> QED
  BY <1>1, CertifyStarts, CertifyStepKeeps, PTL DEF CertifySpec

\* handle_calibrate and handle_promote_calibration: a calibration's report does
\* not clear a line-up whose models never disagreed, whatever number of them
\* and of probes, and the active file is whole but for a copy under way and
\* what a kill left.
THEOREM ReportsAreGrounded == CertifySpec => []ReportsGrounded
<1>1. CertifyInv => ReportsGrounded
  BY DEF CertifyInv, ReportInv, Grounded, ReportsGrounded, Doing
<1> QED
  BY <1>1, CertifyStarts, CertifyStepKeeps, PTL DEF CertifySpec

-----------------------------------------------------------------------------
(* The three together, as module MCCouncil runs them.                      *)

LEMMA EachPartOfTheCouncil ==
    /\ MCInit => Init /\ CertifyInit /\ DissentInit
    /\ [MCNext]_allVars =>
          [Next]_vars /\ [CertifyNext]_certifyVars /\ [DissentNext]_dissentVars
BY DEF MCInit, MCNext, allVars

\* Deliberations, commands and texts keep their types side by side: what is
\* proved of each holds of the run that has all of them.
THEOREM CouncilTypesCorrect == MCSpec => []CouncilTypeOK
<1>1. MCSpec => Spec /\ CertifySpec /\ DissentSpec
  BY EachPartOfTheCouncil, PTL DEF MCSpec, Spec, CertifySpec, DissentSpec
<1> QED
  BY <1>1, CouncilTypeCorrect, CertifyTypeCorrect, DissentTypeCorrect, PTL DEF CouncilTypeOK
=============================================================================
