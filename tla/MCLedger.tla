------------------------------ MODULE MCLedger ------------------------------
(***************************************************************************)
(* Small instances of Ledger: every entry cites the ones with a smaller    *)
(* number.                                                                 *)
(***************************************************************************)
EXTENDS Ledger, TLC

MCParents == [e \in Entries |-> {p \in Entries : p < e}]
=============================================================================
