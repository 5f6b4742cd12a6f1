------------------------------ MODULE Dissent ------------------------------
(***************************************************************************)
(* What is said in a deliberation (factory/council/deliberation.py and     *)
(* chairman.py): the opinions and whether they agree too much, the letters *)
(* under which they are reviewed and the names under which the reviews     *)
(* reach the chairman, his synthesis, and the check that it leaves out no  *)
(* dissent, once before and once after the second prompt.                  *)
(*                                                                         *)
(* Module Council has the calls, costs and failures of the same session.   *)
(* A text is a member of Texts; the two language models that compare texts *)
(* are the tables Nli and Alike.  A review ranks any number of letters,    *)
(* each by itself; here it ranks one.                                      *)
(***************************************************************************)
EXTENDS Integers, FiniteSets, Sequences

CONSTANTS
    Members,    \* models of the line-up
    Texts,      \* what a member or the chairman may say
    Nli,        \* predict_nli: premise, hypothesis -> label probabilities in %
    Alike,      \* cosine similarity of two texts in %
    NoText      \* nothing said, or nothing shown

Letters == <<"A", "B", "C", "D">>
Labels == {"contradiction", "entailment", "neutral"}

ASSUME DissentAssumption ==
    /\ IsFiniteSet(Members) /\ Cardinality(Members) \in 1 .. Len(Letters)
    /\ NoText \notin Texts \cup Members
    /\ Nli \in [Texts \X Texts -> [Labels -> 0 .. 100]]
    /\ Alike \in [Texts \X Texts -> 0 .. 100]

\* The letters given out; a reviewer may write any of Letters.
Voices == {Letters[i] : i \in 1 .. Cardinality(Members)}
Unreviewed == [letter |-> "none", about |-> NoText]

VARIABLES
    turn,               \* where the session is, or how it ended
    first_opinions,     \* per member, his view
    voice_to_opinion,   \* per letter, whose view it stands for
    reviewer_results,   \* per member, what he ranks and about which text
    matrix,             \* the reviews as the chairman reads them
    majority_view,      \* of the chairman's last answer
    preserved_dissents, \* of the same answer, the texts
    omitted             \* whose dissents the first answer left out

answer == <<majority_view, preserved_dissents>>
dissentVars == <<turn, first_opinions, voice_to_opinion, reviewer_results, matrix,
                 answer, omitted>>

DissentTypeOK ==
    /\ turn \in {"opinions", "agreement", "reviews", "synthesis", "chairman", "check",
                 "reprompt", "recheck", "verdict", "no_consensus", "raised"}
    /\ first_opinions \in [Members -> Texts \cup {NoText}]
    /\ voice_to_opinion \in [Voices -> Members] \cup {<<>>}
    /\ reviewer_results \in [Members -> [letter : {"A", "B", "C", "D", "none", "malformed"},
                                         about : Texts \cup {NoText}]]
    /\ matrix \subseteq [by : Members, of : Members \cup {NoText}, about : Texts \cup {NoText}]
    /\ majority_view \in Texts \cup {NoText}
    /\ preserved_dissents \subseteq Texts
    /\ omitted \subseteq Members

DissentInit ==
    /\ turn = "opinions"
    /\ first_opinions = [m \in Members |-> NoText]
    /\ voice_to_opinion = <<>>
    /\ reviewer_results = [m \in Members |-> Unreviewed]
    /\ matrix = {} /\ omitted = {}
    /\ majority_view = NoText /\ preserved_dissents = {}

-----------------------------------------------------------------------------
\* How a session ends; nothing of it is in use afterwards but the verdict.
EndSession(how) == turn' = how

\* A call that fails twice, or an answer the session cannot read, ends it.
Fails ==
    /\ turn \in {"opinions", "chairman", "reprompt"}
    /\ EndSession("raised")
    /\ UNCHANGED <<first_opinions, voice_to_opinion, reviewer_results, matrix, answer, omitted>>

\* run_stage1_model of all members: an answer without a view has the empty one.
FirstOpinions ==
    /\ turn = "opinions"
    /\ \E views \in [Members -> Texts] : first_opinions' = views
    /\ turn' = "agreement"
    /\ UNCHANGED <<voice_to_opinion, reviewer_results, matrix, answer, omitted>>

\* detect_sycophancy > 0.85: the two opinions that are most alike.
Sycophancy ==
    \E m, n \in Members :
        m # n /\ Alike[<<first_opinions[m], first_opinions[n]>>] > 85

DetectSycophancy ==
    /\ turn = "agreement" /\ Sycophancy
    /\ EndSession("raised")
    /\ UNCHANGED <<first_opinions, voice_to_opinion, reviewer_results, matrix, answer, omitted>>

\* The two checks of the cost cap: the verdict of the fallback.
OutOfMoney ==
    /\ turn = "synthesis" \/ (turn = "agreement" /\ ~Sycophancy)
    /\ EndSession("no_consensus")
    /\ UNCHANGED <<first_opinions, voice_to_opinion, reviewer_results, matrix, answer, omitted>>

\* The opinions get letters in any order.
Shuffle ==
    /\ turn = "agreement" /\ ~Sycophancy
    /\ \E deal \in [Voices -> Members] :
          /\ \A v, w \in Voices : v # w => deal[v] # deal[w]
          /\ voice_to_opinion' = deal
    /\ turn' = "reviews"
    /\ UNCHANGED <<first_opinions, reviewer_results, matrix, answer, omitted>>

\* What every reviewer is shown under a letter: all opinions, his own too.
OpinionsBlock(letter) ==
    IF letter \in Voices THEN first_opinions[voice_to_opinion[letter]] ELSE NoText

\* run_stage2_model of one member; "malformed" has no rankings or critiques.
Review(m) ==
    /\ turn = "reviews" /\ reviewer_results[m] = Unreviewed
    /\ \/ \E i \in DOMAIN Letters :
             reviewer_results' = [reviewer_results EXCEPT
                 ![m] = [letter |-> Letters[i], about |-> OpinionsBlock(Letters[i])]]
       \/ reviewer_results' = [reviewer_results EXCEPT ![m].letter = "malformed"]
    /\ UNCHANGED <<turn, first_opinions, voice_to_opinion, matrix, answer, omitted>>

Reviewed == Unreviewed \notin {reviewer_results[m] : m \in Members}
Malformed == \E m \in Members : reviewer_results[m].letter = "malformed"

\* The end of the stage: one that could not be read ends the session.
EndReviews ==
    /\ turn = "reviews" /\ Reviewed
    /\ IF Malformed THEN EndSession("raised") ELSE turn' = "synthesis"
    /\ UNCHANGED <<first_opinions, voice_to_opinion, reviewer_results, matrix, answer, omitted>>

\* voice_to_opinion.get: the member whose opinion a review is about, if any.
Target(letter) == IF letter \in Voices THEN voice_to_opinion[letter] ELSE NoText

\* The chairman's prompt names the members again.  The letters and reviews are
\* not read after that.
Synthesis ==
    /\ turn = "synthesis"
    /\ matrix' = {[by |-> m, of |-> Target(reviewer_results[m].letter),
                   about |-> reviewer_results[m].about] : m \in Members}
    /\ voice_to_opinion' = <<>>
    /\ reviewer_results' = [m \in Members |-> Unreviewed]
    /\ turn' = "chairman"
    /\ UNCHANGED <<first_opinions, answer, omitted>>

\* The whole answer of the chairman, also to the second prompt: he may say
\* anything.  The matrix is not read again.
ChairmanAnswers ==
    /\ turn \in {"chairman", "reprompt"}
    /\ majority_view' \in Texts
    /\ preserved_dissents' \in SUBSET Texts
    /\ turn' = (IF turn = "chairman" THEN "check" ELSE "recheck")
    /\ matrix' = {}
    /\ UNCHANGED <<first_opinions, voice_to_opinion, reviewer_results, omitted>>
-----------------------------------------------------------------------------
\* The label of the greatest probability; the first of equal ones, in the
\* order of the dictionary.
MaxLabel(premise, hypothesis) ==
    LET p == Nli[<<premise, hypothesis>>]
    IN  IF p["contradiction"] >= p["entailment"] /\ p["contradiction"] >= p["neutral"]
        THEN "contradiction"
        ELSE IF p["entailment"] >= p["neutral"] THEN "entailment" ELSE "neutral"

\* A material dissent: a contradiction of 0.60 or more.
Contradicts(majority, view) ==
    MaxLabel(majority, view) = "contradiction" /\ Nli[<<majority, view>>]["contradiction"] >= 60

Represented(view) == \E d \in preserved_dissents : MaxLabel(d, view) = "entailment"

\* check_dissent_omission among some members.
OmittedOf(members) ==
    {m \in members : /\ Contradicts(majority_view, first_opinions[m])
                     /\ ~Represented(first_opinions[m])}

\* Mutant: the second answer is checked for the dissents the first left out.
FinalOmissionOfFirst == OmittedOf(omitted)

\* The second answer is checked against all opinions again.
FinalOmission == OmittedOf(Members)

\* The check of the first answer: the second prompt lists what it left out.
CheckDissent ==
    /\ turn = "check"
    /\ omitted' = OmittedOf(Members)
    /\ turn' = (IF omitted' = {} THEN "verdict" ELSE "reprompt")
    /\ UNCHANGED <<first_opinions, voice_to_opinion, reviewer_results, matrix, answer>>

\* The check of the second: there is no third.
RecheckDissent ==
    /\ turn = "recheck"
    /\ EndSession(IF FinalOmission = {} THEN "verdict" ELSE "raised")
    /\ UNCHANGED <<first_opinions, voice_to_opinion, reviewer_results, matrix, answer, omitted>>

DissentNext ==
    \/ Fails \/ FirstOpinions \/ DetectSycophancy \/ OutOfMoney \/ Shuffle
    \/ \E m \in Members : Review(m)
    \/ EndReviews \/ Synthesis \/ ChairmanAnswers
    \/ CheckDissent \/ RecheckDissent

DissentSpec == DissentInit /\ [][DissentNext]_dissentVars
-----------------------------------------------------------------------------
\* A verdict leaves no dissent out: whoever contradicts its majority view, the
\* one of the second answer if there were two, finds his view entailed by one
\* of the dissents listed beside it (deliberation.py:842, 897).
VerdictKeepsDissent ==
    turn = "verdict" =>
        \A m \in Members :
            Contradicts(majority_view, first_opinions[m]) => Represented(first_opinions[m])

\* The chairman reads a review under the name of the member whose opinion was
\* reviewed, whatever letter it had, and of nobody when there was no such letter
\* (deliberation.py:558, 735).
ReviewsNameTheirAuthor ==
    \A entry \in matrix :
        entry.about = IF entry.of = NoText THEN NoText ELSE first_opinions[entry.of]

\* A session of members in lockstep goes no further than their opinions
\* (deliberation.py:526).
NoLockstep == turn \in {"reviews", "chairman", "check", "verdict"} => ~Sycophancy

\* What was said reaches the chairman as it was said, and the verdict with its
\* dissents.
NothingSynthesisedAway == VerdictKeepsDissent /\ ReviewsNameTheirAuthor /\ NoLockstep
=============================================================================
