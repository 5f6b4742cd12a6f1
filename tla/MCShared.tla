------------------------------ MODULE MCShared ------------------------------
(***************************************************************************)
(* What the threads and processes of the factory share while they run.  A  *)
(* behaviour is of one part: either of two threads that share a bucket of  *)
(* two units in three calls, with amounts that take half of it and all of  *)
(* it, so that one who has slept finds his units taken by the third call;  *)
(* three attempts for a call, delays of one and two ticks; or of two       *)
(* emitters that share an event log, and the Aggregator that tails it.     *)
(***************************************************************************)
EXTENDS LlmClient, AuditTail

VARIABLE part

allVars == <<part, clientVars, tailVars>>

MCInit ==
    /\ ClientInit /\ TailInit
    /\ \/ part = "client" /\ parts = [e \in Emitters |-> 1] /\ flush_every_n = 1 /\ poison = {}
       \/ part = "log"

MCNext ==
    /\ UNCHANGED part
    /\ \/ part = "client" /\ ClientNext /\ UNCHANGED tailVars
       \/ part = "log" /\ TailNext /\ UNCHANGED clientVars

\* ClientFairness and the fairness of FairTailSpec.
MCSpec ==
    /\ MCInit /\ [][MCNext]_allVars
    /\ \A t \in Threads : WF_clientVars(part = "client" /\ Serve(t))
    /\ WF_clientVars(part = "client" /\ ClientTick)
    /\ WF_tailVars(part = "log" /\ Aggregating)

\* The variables of both parts have their types.
SharedTypeOK == ClientTypeOK /\ TailTypeOK
=============================================================================
