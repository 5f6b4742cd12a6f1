----------------------------- MODULE MCCouncil -----------------------------
(***************************************************************************)
(* The council and its commands.  A behaviour is of one part:              *)
(* deliberations of two members in three sessions, so that one that ends   *)
(* early may lie between two that have a chairman (a random and a weighted *)
(* choice of the chairman are the same in the model); what three members   *)
(* and a chairman say, out of four texts; or three commands for a line-up  *)
(* of two, each of which may be killed.                                    *)
(***************************************************************************)
EXTENDS Council, Certify, Dissent, TLC

VARIABLE part

allVars == <<part, vars, certifyVars, dissentVars>>

\* Four texts: two that contradict each other, one that gives way to each of
\* them and is close to the first, one that says little and is like the second.
MCTexts == {"for", "against", "mixed", "vague"}

Probabilities(contradiction, entailment) ==
    "contradiction" :> contradiction @@ "entailment" :> entailment
        @@ "neutral" :> 100 - contradiction - entailment

\* On the bounds: a contradiction of 59 and of 60, and labels that are equal.
MCNli ==
    LET table == <<"for", "against">> :> Probabilities(95, 1)
                 @@ <<"against", "for">> :> Probabilities(60, 20)
                 @@ <<"against", "mixed">> :> Probabilities(59, 30)
                 @@ <<"for", "mixed">> :> Probabilities(60, 40)
                 @@ <<"mixed", "for">> :> Probabilities(20, 40)
                 @@ <<"mixed", "against">> :> Probabilities(40, 40)
    IN  [pair \in MCTexts \X MCTexts |->
            IF pair \in DOMAIN table THEN table[pair]
            ELSE IF pair[1] = pair[2] THEN Probabilities(1, 98) ELSE Probabilities(20, 20)]

MCAlike ==
    [pair \in MCTexts \X MCTexts |->
        IF pair[1] = pair[2] THEN 100
        ELSE IF {pair[1], pair[2]} = {"for", "mixed"} THEN 85
        ELSE IF {pair[1], pair[2]} = {"against", "vague"} THEN 86 ELSE 20]

MCInit ==
    /\ Init /\ CertifyInit /\ DissentInit
    /\ \/ part = "deliberation"
       \/ /\ part \in {"commands", "texts"}
          /\ chairman_policy = CHOOSE p \in Policies : TRUE

MCNext ==
    /\ UNCHANGED part
    /\ \/ part = "deliberation" /\ Next /\ UNCHANGED <<certifyVars, dissentVars>>
       \/ part = "commands" /\ CertifyNext /\ UNCHANGED <<vars, dissentVars>>
       \/ part = "texts" /\ DissentNext /\ UNCHANGED <<vars, certifyVars>>

\* FairSpec of module Council.
MCSpec ==
    /\ MCInit /\ [][MCNext]_allVars
    /\ WF_vars(part = "deliberation" /\ Main)
    /\ \A m \in Lineup : WF_vars(part = "deliberation" /\ Call(m))

\* The variables of all parts have their types.
CouncilTypeOK == TypeOK /\ CertifyTypeOK /\ DissentTypeOK
=============================================================================
