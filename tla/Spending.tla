------------------------------ MODULE Spending ------------------------------
(***************************************************************************)
(* What the budget governor promises about money, without its caps, tiers, *)
(* reservations, halts and days: an account that is kept in memory and in  *)
(* two files, the ledger's lines and the total in state.json.              *)
(*                                                                         *)
(* A charge is counted in memory, then written to the ledger, then saved,  *)
(* and only then acknowledged.  A charge that fails on the way stays in    *)
(* memory, and the next save of any method takes it along.  A restart goes *)
(* back to what was saved, and counts no line of the ledger again.         *)
(***************************************************************************)
EXTENDS Naturals

CONSTANT
    Prices      \* the dollars of the operations that are charged

VARIABLES
    spent,      \* the program's total in memory
    written,    \* the ledger's lines, added up
    stored,     \* the program's total in state.json
    answered,   \* the charges whose callers were answered
    stage,      \* how far the charge in progress is
    price       \* and what it charges

charge == <<stage, price>>
account == <<spent, written, stored, answered, charge>>

Init ==
    /\ spent = 0
    /\ written = 0
    /\ stored = 0
    /\ answered = 0
    /\ stage = "none"
    /\ price = 0

\* The charge in progress is over, for better or worse.
Finish == stage' = "none" /\ price' = 0

\* A charge enters memory; one is in progress at a time.
Enter(dollars) ==
    /\ stage = "none"
    /\ spent' = spent + dollars
    /\ stage' = "entered"
    /\ price' = dollars
    /\ UNCHANGED <<written, stored, answered>>

Write ==
    /\ stage = "entered"
    /\ written' = written + price
    /\ stage' = "written"
    /\ UNCHANGED <<spent, stored, answered, price>>

\* Memory is saved and the charge acknowledged.
Answer ==
    /\ stage = "written"
    /\ stored' = spent
    /\ answered' = answered + price
    /\ Finish
    /\ UNCHANGED <<spent, written>>

\* Memory is saved for another reason, while no charge is in progress.
Store ==
    /\ stage = "none"
    /\ stored' = spent
    /\ UNCHANGED <<spent, written, answered, charge>>

\* The charge raises.
Fail ==
    /\ stage # "none"
    /\ Finish
    /\ UNCHANGED <<spent, written, stored, answered>>

Restart ==
    /\ spent' = stored
    /\ Finish
    /\ UNCHANGED <<written, stored, answered>>

Next ==
    \/ \E dollars \in Prices : Enter(dollars)
    \/ Write
    \/ Answer
    \/ Store
    \/ Fail
    \/ Restart

Spec == Init /\ [][Next]_account
=============================================================================
