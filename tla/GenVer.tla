------------------------------- MODULE GenVer -------------------------------
(***************************************************************************)
(* Generator and verifier (factory/genver): the bounded turn loop of an    *)
(* agent that edits a candidate in its staging path, and the promotion of  *)
(* the candidate to its destination.                                       *)
(*                                                                         *)
(* Several generators, each with a staging path of its own, promote to one *)
(* destination.  What a file contains is a version number.  The agent, the *)
(* tools and the commands of the stages are external; so is the caller,    *)
(* which promotes what a finished loop leaves in the staging path.  A      *)
(* generator may be killed at any step: its staging path keeps its content *)
(* and the next loop starts from there.                                    *)
(***************************************************************************)
EXTENDS Integers, Sequences, FiniteSets, SequencesExt

CONSTANTS
    Generators,     \* turn loops
    Checks,         \* validation_stages, in order
    Rewriting,      \* the stages whose command may rewrite the candidate
    MaxTurns,       \* max_turns of run_turn_loop
    Attempts,       \* bound: loops that each generator begins
    Versions        \* bound: contents ever written

ASSUME GenVerAssumption ==
    /\ IsFiniteSet(Generators)
    /\ Checks \in Seq(ToSet(Checks)) \ {<<>>} /\ Rewriting \subseteq ToSet(Checks)
    /\ {MaxTurns, Attempts, Versions} \subseteq Nat \ {0}

VARIABLES
    loop,           \* per generator: stage, turn, tool call, stage results
    staging,        \* per generator: the version in its staging path
    copied,         \* per generator: the version in its temporary file
    destination,    \* the version at the destination
    newest,         \* the newest version ever written
    passing         \* history: the stages each version has passed

genverVars == <<loop, staging, copied, destination, newest, passing>>

NoVersion == 0
Waiting == [at |-> "idle", turn |-> 0, attempt |-> 0, call |-> "none", results |-> <<>>]

GenVerTypeOK ==
    /\ loop \in [Generators ->
           [at : {"idle", "agent", "execute", "validate", "replace"},
            turn : 0 .. MaxTurns, attempt : 0 .. Attempts,
            call : {"none", "write", "other", "finish"},
            results : UNION {[1 .. n -> BOOLEAN] : n \in 0 .. Len(Checks)}]]
    /\ staging \in [Generators -> 0 .. newest]
    /\ copied \in [Generators -> 0 .. newest]
    /\ destination \in 0 .. newest
    /\ newest \in 0 .. Versions
    /\ passing \in [1 .. Versions -> SUBSET ToSet(Checks)]

GenVerInit ==
    /\ loop = [g \in Generators |-> Waiting]
    /\ staging = [g \in Generators |-> NoVersion]
    /\ copied = [g \in Generators |-> NoVersion]
    /\ destination = NoVersion
    /\ newest = 0
    /\ passing = [v \in 1 .. Versions |-> {}]

At(g, place) == loop[g].at = place
Writing == Cardinality({g \in Generators : loop[g].call = "write"})
Files == <<staging, copied, destination, newest, passing>>

-----------------------------------------------------------------------------
(***************************************************************************)
(* run_turn_loop.                                                          *)
(***************************************************************************)
BeginLoop(g) ==
    /\ At(g, "idle")
    /\ loop[g].attempt < Attempts
    /\ loop' = [loop EXCEPT ![g] = [Waiting EXCEPT !.at = "agent",
                                                   !.attempt = loop[g].attempt + 1]]
    /\ UNCHANGED Files

Rest(g) == [Waiting EXCEPT !.attempt = loop[g].attempt]

\* The agent's request, validated before it is dispatched: a call without its
\* required inputs ends the loop.
AgentTurn(g) ==
    /\ At(g, "agent")
    /\ \E call \in {"invalid", "write", "other", "finish"} :
          /\ call = "write" => newest + Writing < Versions
          /\ loop' = [loop EXCEPT ![g] =
                 IF @.turn = MaxTurns \/ call = "invalid" THEN Rest(g)
                 ELSE [@ EXCEPT !.at = "execute", !.call = call]]
    /\ UNCHANGED Files

\* execute_tool.  WRITE_FILE changes the staging path; FINISH ends the loop,
\* and the caller promotes.
ExecuteTool(g) ==
    /\ At(g, "execute")
    /\ IF loop[g].call = "write"
       THEN newest' = newest + 1 /\ staging' = [staging EXCEPT ![g] = newest + 1]
       ELSE UNCHANGED <<staging, newest>>
    /\ loop' = [loop EXCEPT ![g] =
           IF @.call = "finish"
           THEN IF staging[g] = NoVersion THEN Rest(g)
                ELSE [@ EXCEPT !.at = "validate", !.call = "none"]
           ELSE [@ EXCEPT !.at = "agent", !.turn = loop[g].turn + 1, !.call = "none"]]
    /\ UNCHANGED <<copied, destination, passing>>

-----------------------------------------------------------------------------
(***************************************************************************)
(* promote_candidate.                                                      *)
(***************************************************************************)
\* Mutant: only the number of results is compared.
AllStagesRan(results) == Len(results) = Len(Checks)

\* _all_stages_passed, of the results of a validation that is over.
AllStagesPassed(results) ==
    /\ Len(results) = Len(Checks)
    /\ \A i \in DOMAIN results : results[i]

ValidationOver(results) ==
    Len(results) = Len(Checks) \/ (results # <<>> /\ ~Last(results))

\* One stage runs on the staging path, which it may rewrite.
RunStage(g) ==
    /\ At(g, "validate") /\ ~ValidationOver(loop[g].results)
    /\ LET check == Checks[Len(loop[g].results) + 1] IN
       \E passed, rewritten \in BOOLEAN :
          /\ rewritten => check \in Rewriting /\ newest + Writing < Versions
          /\ newest' = IF rewritten THEN newest + 1 ELSE newest
          /\ staging' = IF rewritten THEN [staging EXCEPT ![g] = newest'] ELSE staging
          /\ loop' = [loop EXCEPT ![g].results = Append(@, passed)]
          /\ passing' = IF passed
                        THEN [passing EXCEPT ![staging'[g]] = @ \cup {check}]
                        ELSE passing
    /\ UNCHANGED <<copied, destination>>

Refuse(g) ==
    /\ At(g, "validate") /\ ValidationOver(loop[g].results)
    /\ ~AllStagesPassed(loop[g].results)
    /\ loop' = [loop EXCEPT ![g] = Rest(g)]
    /\ UNCHANGED Files

\* The staging path is read again and copied into a directory of its own,
\* which then replaces the destination.
CopyCandidate(g) ==
    /\ At(g, "validate") /\ ValidationOver(loop[g].results)
    /\ AllStagesPassed(loop[g].results)
    /\ copied' = [copied EXCEPT ![g] = staging[g]]
    /\ loop' = [loop EXCEPT ![g].at = "replace"]
    /\ UNCHANGED <<staging, destination, newest, passing>>

ReplaceDestination(g) ==
    /\ At(g, "replace")
    /\ destination' = copied[g]
    /\ copied' = [copied EXCEPT ![g] = NoVersion]
    /\ loop' = [loop EXCEPT ![g] = Rest(g)]
    /\ UNCHANGED <<staging, newest, passing>>

KillGenerator(g) ==
    /\ ~At(g, "idle")
    /\ loop' = [loop EXCEPT ![g] = Rest(g)]
    /\ copied' = [copied EXCEPT ![g] = NoVersion]
    /\ UNCHANGED <<staging, destination, newest, passing>>

GenVerStep(g) ==
    \/ AgentTurn(g) \/ ExecuteTool(g)
    \/ RunStage(g) \/ Refuse(g) \/ CopyCandidate(g) \/ ReplaceDestination(g)

GenVerNext == \E g \in Generators : BeginLoop(g) \/ GenVerStep(g) \/ KillGenerator(g)

\* The agent answers, and the tools and the stages return.
GenVerFairness == \A g \in Generators : WF_genverVars(GenVerStep(g))
GenVerSpec == GenVerInit /\ [][GenVerNext]_genverVars /\ GenVerFairness

-----------------------------------------------------------------------------
(***************************************************************************)
(* Properties.                                                             *)
(***************************************************************************)
\* "Promote a candidate only after every validation stage passes": what
\* stands at the destination has passed, in this very content, the last stage
\* and every stage back to the last one that may have rewritten it, whichever
\* generator put it there and whatever was killed.
DestinationPassed ==
    destination # NoVersion =>
        \E i \in DOMAIN Checks :
            /\ i = 1 \/ Checks[i] \in Rewriting
            /\ \A j \in i .. Len(Checks) : Checks[j] \in passing[destination]

\* A turn loop and the promotion after it come to an end.
LoopsEnd == \A g \in Generators : loop[g].at # "idle" ~> loop[g].at = "idle"
=============================================================================
