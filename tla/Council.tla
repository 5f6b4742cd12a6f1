------------------------------ MODULE Council ------------------------------
(***************************************************************************)
(* A deliberation of the council (factory/council/deliberation.py): the    *)
(* opinions of all members, their reviews of one another, the synthesis of *)
(* a chairman and, when it leaves out a dissent, one more prompt to him.   *)
(*                                                                         *)
(* The members of a stage run in a thread each and share the session's     *)
(* running cost and the budget tracker; the main thread waits for all of   *)
(* them at the end of the stage, also when one has failed.  One Council    *)
(* object serves several sessions, one after another.                      *)
(*                                                                         *)
(* What the members say is not modelled: what matters is whether it parses *)
(* and what it costs.  An adverse opinion of the checks on the text        *)
(* (agreement, dissent, schema) may come at each place the code asks.      *)
(***************************************************************************)
EXTENDS Integers, FiniteSets, Sequences

CONSTANTS
    Size,       \* members of the line-up
    Costs,      \* what a call may cost
    MaxCost,    \* bound on Costs
    Cap,        \* cost_cap_usd; one no session reaches when none is set
    Policies,   \* chairman_policy, a subset of the three names
    Sessions,   \* bound: deliberations of one Council object
    NoUsage,    \* an answer without the usage block
    None        \* nothing held, no chairman

Lineup == 0 .. Size - 1
Answers == [json : BOOLEAN, cost : Costs \cup {NoUsage}]

ASSUME CouncilAssumption ==
    /\ Size \in Nat \ {0}
    /\ MaxCost \in Nat
    /\ Costs \subseteq 0 .. MaxCost
    /\ Cap \in Nat
    /\ Policies \subseteq {"random", "round_robin", "weighted_by_cost"}
    /\ Sessions \in Nat
    /\ NoUsage \notin Nat
    /\ None \notin Answers

Seat == [at : {"off", "call", "charge", "record", "done", "failed"},
         attempt : 1 .. 2, held : Answers \cup {None}]
Stages == {"idle", "opinions", "reviews", "synthesis", "reprompt",
           "verdict", "no_consensus", "raised"}

VARIABLES
    stage,              \* where the main thread is, or how it ended
    seat,               \* the call each member's thread is making
    running_cost,       \* of the session, shared by the threads
    recorded,           \* what the session has recorded with the tracker
    billed,             \* history: what the provider has metered
    chairman_policy,    \* of the line-up
    session_counter,    \* syntheses this Council has begun
    chairmen,           \* history: who chaired them
    sessions            \* bound: deliberations begun

money == <<running_cost, recorded, billed>>
council == <<chairman_policy, session_counter, chairmen>>
vars == <<stage, seat, money, council, sessions>>

Off == [at |-> "off", attempt |-> 1, held |-> None]
Ready == [Off EXCEPT !.at = "call"]
Ended == {"verdict", "no_consensus", "raised"}

TypeOK ==
    /\ stage \in Stages
    /\ seat \in [Lineup -> Seat]
    /\ running_cost \in Nat /\ recorded \in Nat /\ billed \in Nat
    /\ chairman_policy \in Policies
    /\ session_counter \in Nat
    /\ chairmen \in Seq(Lineup)
    /\ sessions \in 0 .. Sessions

Init ==
    /\ stage = "idle"
    /\ seat = [m \in Lineup |-> Off]
    /\ running_cost = 0 /\ recorded = 0 /\ billed = 0
    /\ chairman_policy \in Policies
    /\ session_counter = 0
    /\ chairmen = <<>>
    /\ sessions = 0

-----------------------------------------------------------------------------
(***************************************************************************)
(* call_llm, run by the thread of member m.                                *)
(***************************************************************************)
At(m, place) == seat[m].at = place
Settled(m) == seat[m].at \in {"off", "done", "failed"}

Moved(m, place) == seat' = [seat EXCEPT ![m].at = place]

\* Mutant: a third attempt.
NextAttemptThird(m, held) ==
    seat' = [seat EXCEPT ![m] =
        IF seat[m].attempt <= 2
        THEN [at |-> "call", attempt |-> seat[m].attempt + 1, held |-> held]
        ELSE [at |-> IF held = None THEN "failed" ELSE "charge",
              attempt |-> 3, held |-> held]]

\* The second attempt, or the end of the call: an answer that an earlier
\* attempt left in `response` is still there and is the one charged.
NextAttempt(m, held) ==
    seat' = [seat EXCEPT ![m] =
        IF seat[m].attempt = 1 THEN [at |-> "call", attempt |-> 2, held |-> held]
        ELSE [at |-> IF held = None THEN "failed" ELSE "charge",
              attempt |-> 2, held |-> held]]

Metered(answer) == IF answer.cost = NoUsage THEN 0 ELSE answer.cost

\* client.invoke returned; an answer that is not JSON is tried once more.
Answer(m) ==
    /\ At(m, "call")
    /\ \E answer \in Answers :
          /\ billed' = billed + Metered(answer)
          /\ \/ /\ answer.json
                /\ seat' = [seat EXCEPT ![m].at = "charge", ![m].held = answer]
             \/ /\ ~answer.json
                /\ NextAttempt(m, answer)
    /\ UNCHANGED <<stage, running_cost, recorded, council, sessions>>

\* client.invoke raised, for whatever reason.
Error(m) ==
    /\ At(m, "call")
    /\ NextAttempt(m, seat[m].held)
    /\ UNCHANGED <<stage, money, council, sessions>>

\* The price of the answer, added to the session.  An answer without usage
\* and a model without a price raise before that.
Charge(m) ==
    /\ At(m, "charge")
    /\ \/ /\ seat[m].held.cost # NoUsage
          /\ running_cost' = running_cost + seat[m].held.cost
          /\ Moved(m, "record")
       \/ /\ Moved(m, "failed")
          /\ UNCHANGED running_cost
    /\ UNCHANGED <<stage, recorded, billed, council, sessions>>

\* Mutant: a budget error is logged, and the answer used.
RecordSwallowsError(m) ==
    /\ At(m, "record")
    /\ \/ recorded' = recorded + seat[m].held.cost
       \/ UNCHANGED recorded
    /\ Moved(m, "done")
    /\ UNCHANGED <<stage, running_cost, billed, council, sessions>>

\* BudgetTracker.record, which may raise; then the caller parses the answer
\* and looks for the fields it wants.
Record(m) ==
    /\ At(m, "record")
    /\ \/ /\ recorded' = recorded + seat[m].held.cost
          /\ \/ seat[m].held.json /\ Moved(m, "done")
             \/ Moved(m, "failed")
       \/ /\ Moved(m, "failed")
          /\ UNCHANGED recorded
    /\ UNCHANGED <<stage, running_cost, billed, council, sessions>>

-----------------------------------------------------------------------------
(***************************************************************************)
(* The main thread.                                                        *)
(***************************************************************************)
Enter(next, team) ==
    /\ stage' = next
    /\ seat' = [m \in Lineup |-> IF m \in team THEN Ready ELSE Off]

End(how) == stage' = how /\ UNCHANGED seat

\* The check at the head of a stage.
CapReached == running_cost > Cap

\* Mutant: the first failed future ends the stage, the others are left running.
StageOverAtFirstFailure ==
    (\A m \in Lineup : Settled(m)) \/ \E m \in Lineup : At(m, "failed")

\* Mutant: the stage waits until it has an answer of every member.
StageOverWhenAnswered == \A m \in Lineup : At(m, "off") \/ At(m, "done")

\* fut.result() of every member; the executor waits for the others before
\* the error of one of them leaves the stage.
StageOver == \A m \in Lineup : Settled(m)
AllDone == \A m \in Lineup : seat[m].at \in {"off", "done"}

Deliberate ==
    /\ stage = "idle" \/ stage \in Ended
    /\ sessions < Sessions
    /\ sessions' = sessions + 1
    /\ running_cost' = 0 /\ recorded' = 0 /\ billed' = 0
    /\ Enter("opinions", Lineup)
    /\ UNCHANGED council

\* A member failed: CouncilError; in the last stages the error itself.
Abort ==
    /\ stage \notin Ended \cup {"idle"}
    /\ StageOver
    /\ ~AllDone
    /\ End("raised")
    /\ UNCHANGED <<money, council, sessions>>

CrossReview ==
    /\ stage = "opinions"
    /\ StageOver /\ AllDone
    /\ \/ End("raised")                    \* CouncilSycophancyDetected
       \/ CapReached /\ End("no_consensus")
       \/ ~CapReached /\ Enter("reviews", Lineup)
    /\ UNCHANGED <<money, council, sessions>>

\* select_chairman.
Selectable ==
    IF chairman_policy = "round_robin" THEN {session_counter % Size} ELSE Lineup

\* Mutant: the counter moves on when the verdict is out.
SeatedUncounted(m) ==
    /\ session_counter' = Len(chairmen)
    /\ chairmen' = Append(chairmen, m)
    /\ Enter("synthesis", {m})
    /\ UNCHANGED chairman_policy

Seated(m) ==
    /\ session_counter' = session_counter + 1
    /\ chairmen' = Append(chairmen, m)
    /\ Enter("synthesis", {m})
    /\ UNCHANGED chairman_policy

Synthesise ==
    /\ stage = "reviews"
    /\ StageOver /\ AllDone
    /\ \/ CapReached /\ End("no_consensus") /\ UNCHANGED council
       \/ ~CapReached /\ \E m \in Selectable : Seated(m)
    /\ UNCHANGED <<money, sessions>>

\* NLIDissentValidator finds nothing left out, or the chairman is asked once
\* more; the second time an omission is ChairmanDissentOmission.
Chair == chairmen[Len(chairmen)]

Conclude ==
    /\ stage \in {"synthesis", "reprompt"}
    /\ StageOver /\ AllDone
    /\ \/ End("verdict")
       \/ stage = "synthesis" /\ Enter("reprompt", {Chair})
       \/ stage = "reprompt" /\ End("raised")
    /\ UNCHANGED <<money, council, sessions>>

Call(m) == Answer(m) \/ Error(m) \/ Charge(m) \/ Record(m)
Main == Abort \/ CrossReview \/ Synthesise \/ Conclude
Next == Deliberate \/ Main \/ \E m \in Lineup : Call(m)

Spec == Init /\ [][Next]_vars

\* A call of the client returns or raises (LlmClient, InvokeReturns), so a
\* thread of a member and the main thread both go on.
FairSpec == Spec /\ WF_vars(Main) /\ \A m \in Lineup : WF_vars(Call(m))

-----------------------------------------------------------------------------
\* The cap is looked at between the stages only, yet a session cannot run
\* past it by more than the calls of one stage, or of the two prompts to the
\* chairman: one charge for each call_llm, whatever it retried.
CapOverrunBounded ==
    running_cost <= Cap + MaxCost * (IF Size > 2 THEN Size ELSE 2)

\* A verdict's total_cost_usd is what the budget tracker was told: a record
\* that raised takes the session down with it.
VerdictCostRecorded ==
    stage \in {"verdict", "no_consensus"} => recorded = running_cost

\* When deliberate has returned or raised, no thread of it goes on calling.
NoCallAfterReturn == stage \in Ended => \A m \in Lineup : Settled(m)

\* round_robin: among Size successive syntheses nobody chairs twice, also
\* when sessions in between ended early or failed.
ChairmanRotates ==
    chairman_policy = "round_robin" =>
        \A i, j \in 1 .. Len(chairmen) :
            (i < j /\ j < i + Size) => chairmen[i] # chairmen[j]

\* Every deliberation ends.
DeliberationEnds == stage \notin Ended \cup {"idle"} ~> stage \in Ended

\* The tracker is told of the last answer of a call only: an answer that was
\* not JSON is paid for and asked for again.  What a verdict hides that way is
\* at most one answer for each call_llm of its session.
UnrecordedBounded ==
    stage = "verdict" => billed <= recorded + MaxCost * (2 * Size + 2)

\* What a session costs is bounded, and known to the budget but for the
\* answers that were thrown away, of which there are only so many.
CostsAccountedFor == CapOverrunBounded /\ VerdictCostRecorded /\ UnrecordedBounded
=============================================================================
