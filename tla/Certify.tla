------------------------------ MODULE Certify ------------------------------
(***************************************************************************)
(* The commands of the council around a deliberation (factory/council:     *)
(* cli.py and calibration.py): the live certification of a line-up, which  *)
(* reserves its whole budget, deliberates, reads the session log and the   *)
(* budget ledger back and writes a certificate; and the calibration of the *)
(* line-up with probes, whose report a later command makes the active one. *)
(*                                                                         *)
(* A certification is repeated in the same directory for the same          *)
(* hypothesis.  The deliberation is the one of module Council, reduced to  *)
(* what these commands see of it: costs, log lines and how it ends; the    *)
(* second prompt to the chairman is left out.  Each command is a process;  *)
(* it may be killed at any step.                                           *)
(***************************************************************************)
EXTENDS Integers, FiniteSets, Sequences

CONSTANTS
    Models,         \* openrouter_ids of the line-up
    Prices,         \* what an answer may cost
    CostCap,        \* --cost-cap-usd
    Probes,         \* number of calibration probes
    Views,          \* what a model may say to a probe
    Commands        \* bound: commands run

ASSUME CertifyAssumption ==
    /\ IsFiniteSet(Models) /\ Models # {}
    /\ Prices \subseteq Nat
    /\ {CostCap, Commands} \subseteq Nat
    /\ Probes \in Nat \ {0}
    /\ Views \cap {"off", "asked", "recorded", "done", "failed"} = {}

VARIABLES
    command,        \* the command under way and where it is
    answers,        \* per model: its thread in this stage or probe
    session,        \* the session log and running cost of this certification
    reserved,       \* the reservation is held
    spent,          \* the ledger's entries of the hypothesis, summed
    certificate,    \* certification.json
    asked,          \* the probe of this calibration in progress
    probed,         \* its ProbeResults
    reports,        \* the report.json files that calibrations have written
    active,         \* active_report.json
    commands, kills \* bounds: commands so far, and how many were killed

certifyVars == <<command, answers, session, reserved, spent, certificate,
                 asked, probed, reports, active, commands, kills>>

NoFileYet == [status |-> "absent"]
Torn == [status |-> "torn"]
Foreign == [status |-> "foreign"]   \* any other file that parses as JSON
NoSession == [cost |-> 0, stage1 |-> {}, stage2 |-> {}, stage3 |-> {}]
Silent == [m \in Models |-> "off"]
Asked == [m \in Models |-> "asked"]

\* Mutant: one opinion will do.
QuorumOne == 1

\* Opinions a probe needs to count.
Quorum == 2

CertifyTypeOK ==
    /\ command \in {"idle", "open", "opinions", "reviews", "synthesis",
                    "close", "check", "write", "probe", "report", "copy"}
    /\ answers \in [Models -> {"off", "asked", "recorded", "done", "failed"} \cup Views]
    /\ session.cost \in Nat /\ spent \in Nat
    /\ {session.stage1, session.stage2, session.stage3} \subseteq SUBSET Models
    /\ reserved \in BOOLEAN
    /\ asked \in 0 .. Probes
    /\ probed \in Seq([opinions : Nat, agree : BOOLEAN])
    /\ certificate.status \in {"absent", "torn", "passed"}
    /\ active.status \in {"absent", "torn", "report", "foreign"}
    /\ commands \in 0 .. Commands /\ kills \in 0 .. commands

CertifyInit ==
    /\ command = "idle" /\ answers = Silent
    /\ session = NoSession /\ reserved = FALSE /\ spent = 0
    /\ certificate = NoFileYet
    /\ asked = 0 /\ probed = <<>> /\ reports = {} /\ active = NoFileYet
    /\ commands = 0 /\ kills = 0

Doing(place) == command = place
Calibration == <<asked, probed, reports, active>>
Certification == <<session, reserved, spent, certificate>>
Bounds == <<commands, kills>>

\* The exception leaves the command: its process ends, and with it what it
\* held in memory.
Leave ==
    /\ command' = "idle" /\ answers' = Silent
    /\ session' = NoSession /\ reserved' = FALSE
    /\ asked' = 0 /\ probed' = <<>>

Begin(place) ==
    /\ Doing("idle") /\ commands < Commands
    /\ command' = place
    /\ commands' = commands + 1
    /\ UNCHANGED kills

-----------------------------------------------------------------------------
(***************************************************************************)
(* handle_certify_live.                                                    *)
(***************************************************************************)
CertifyLive ==
    /\ Begin("open")
    /\ UNCHANGED <<answers, Certification, Calibration>>

\* open_hypothesis, then the reservation of all its caps, which the budget
\* may refuse; the deliberation begins.
Reserve ==
    /\ Doing("open")
    /\ \/ /\ command' = "opinions" /\ answers' = Asked /\ reserved' = TRUE
          /\ UNCHANGED <<session, asked, probed>>
       \/ Leave
    /\ UNCHANGED <<spent, certificate, reports, active, Bounds>>

\* A member answers: its cost is recorded, then its answer is parsed and the
\* line is logged.
MemberAnswers(m) ==
    /\ command \in {"opinions", "reviews", "synthesis"} /\ answers[m] = "asked"
    /\ \/ /\ \E cost \in Prices :
                /\ session' = [session EXCEPT !.cost = @ + cost]
                /\ spent' = spent + cost
          /\ answers' = [answers EXCEPT ![m] = "recorded"]
       \/ /\ answers' = [answers EXCEPT ![m] = "failed"]
          /\ UNCHANGED <<session, spent>>
    /\ UNCHANGED <<command, reserved, certificate, Calibration, Bounds>>

LogAnswer(m) ==
    /\ command \in {"opinions", "reviews", "synthesis"} /\ answers[m] = "recorded"
    /\ \/ /\ answers' = [answers EXCEPT ![m] = "done"]
          /\ session' =
               CASE command = "opinions" -> [session EXCEPT !.stage1 = @ \cup {m}]
                 [] command = "reviews" -> [session EXCEPT !.stage2 = @ \cup {m}]
                 [] command = "synthesis" -> [session EXCEPT !.stage3 = @ \cup {m}]
       \/ /\ answers' = [answers EXCEPT ![m] = "failed"]
          /\ UNCHANGED session
    /\ UNCHANGED <<command, reserved, spent, certificate, Calibration, Bounds>>

StageSettled == \A m \in Models : answers[m] \in {"off", "done", "failed"}
StageFailed == \E m \in Models : answers[m] = "failed"
CapPassed == session.cost > CostCap

\* The stages of deliberate, with the cap looked at before the reviews and
\* before the synthesis, where a verdict without consensus is returned.  It
\* raises when a member failed, and when the opinions agree too much.  The
\* reservation is cancelled whichever way it ends.
NextStage ==
    /\ command \in {"opinions", "reviews", "synthesis"} /\ StageSettled
    /\ \/ /\ StageFailed \/ Doing("opinions")
          /\ Leave
       \/ /\ ~StageFailed
          /\ \/ /\ Doing("synthesis") \/ CapPassed
                /\ command' = "close" /\ answers' = Silent /\ reserved' = FALSE
             \/ /\ Doing("opinions") /\ ~CapPassed
                /\ command' = "reviews" /\ answers' = Asked /\ UNCHANGED reserved
             \/ /\ Doing("reviews") /\ ~CapPassed
                /\ command' = "synthesis" /\ UNCHANGED reserved
                /\ \E chair \in Models : answers' = [Silent EXCEPT ![chair] = "asked"]
          /\ UNCHANGED <<session, asked, probed>>
    /\ UNCHANGED <<spent, certificate, reports, active, Bounds>>

\* close_hypothesis writes the state and reads the ledger.
CloseAfter ==
    /\ Doing("close")
    /\ command' = "check"
    /\ UNCHANGED <<answers, Certification, Calibration, Bounds>>

\* What is looked at: the cost of the verdict, summarize_live_certification_session and
\* summarize_live_certification_budget.
\* Mutant: the deliberation looks after its cap.
VerdictWithinCapAssumed == session.cost <= CostCap \/ session.stage3 # {}

VerdictWithinCap == session.cost <= CostCap
SessionCovers ==
    /\ session.stage1 = Models /\ session.stage2 = Models
    /\ session.stage3 # {} /\ session.stage3 \subseteq Models

Check ==
    /\ Doing("check")
    /\ \/ /\ VerdictWithinCap /\ SessionCovers
          /\ command' = "write"
          /\ certificate' = Torn
          /\ UNCHANGED <<answers, session, reserved, asked, probed>>
       \/ Leave /\ UNCHANGED certificate    \* also: the probe of a missing model
    /\ UNCHANGED <<spent, reports, active, Bounds>>

\* certification.json is written in place.
WriteCertificate ==
    /\ Doing("write")
    /\ certificate' = [status |-> "passed", cost |-> session.cost,
                       recorded |-> spent, stage1 |-> session.stage1,
                       stage2 |-> session.stage2]
    /\ Leave
    /\ UNCHANGED <<spent, reports, active, Bounds>>

-----------------------------------------------------------------------------
(***************************************************************************)
(* handle_calibrate with Council.calibrate, of which run_calibration is a  *)
(* copy, and handle_promote_calibration.                                   *)
(***************************************************************************)
Calibrate ==
    /\ Begin("probe")
    /\ answers' = Asked /\ asked' = 1
    /\ UNCHANGED <<Certification, probed, reports, active>>

\* run_probe_model, in a thread of its own; its error is logged.
ProbeAnswers(m) ==
    /\ Doing("probe") /\ answers[m] = "asked"
    /\ \E view \in Views \cup {"failed"} : answers' = [answers EXCEPT ![m] = view]
    /\ UNCHANGED <<command, Certification, Calibration, Bounds>>

Opinions == {m \in Models : answers[m] \in Views}

\* detect_sycophancy: of texts that are the same or have nothing in common,
\* the greatest similarity of a pair is 1 or 0; without a pair it is 0.
Agreement == \E m, n \in Opinions : m # n /\ answers[m] = answers[n]

\* The executor is done; a probe with too few opinions is passed over.  After
\* the last one, a calibration without results raises.
ProbeSettles ==
    /\ Doing("probe") /\ \A m \in Models : answers[m] # "asked"
    /\ LET n == Cardinality(Opinions)
           kept == IF n < Quorum THEN probed
                   ELSE Append(probed, [opinions |-> n, agree |-> Agreement])
       IN  \/ /\ asked < Probes
              /\ probed' = kept /\ asked' = asked + 1 /\ answers' = Asked
              /\ UNCHANGED <<command, session, reserved>>
           \/ /\ asked = Probes /\ kept # <<>>
              /\ probed' = kept /\ command' = "report" /\ answers' = Silent
              /\ UNCHANGED <<asked, session, reserved>>
           \/ asked = Probes /\ kept = <<>> /\ Leave
    /\ UNCHANGED <<spent, certificate, reports, active, Bounds>>

\* The mean disagreement is below 0.40.
Disputed == Cardinality({i \in DOMAIN probed : ~probed[i].agree})
Flagged == 5 * Disputed < 2 * Len(probed)

\* report.json of a directory of its own.
WriteReport ==
    /\ Doing("report")
    /\ reports' = reports \cup {[status |-> "report", flagged |-> Flagged,
                                 results |-> probed]}
    /\ Leave
    /\ UNCHANGED <<spent, certificate, active, Bounds>>

\* A file that does not parse as JSON is refused, and nothing else is asked of
\* it: it need be no calibration's report.  copy2 opens active_report.json for
\* writing ...
PromoteCalibration(file) ==
    /\ Begin("copy")
    /\ active' = [status |-> "torn", of |-> file]
    /\ UNCHANGED <<answers, Certification, probed, asked, reports>>

\* ... and fills it.
CopyReport ==
    /\ Doing("copy")
    /\ active' = active.of
    /\ Leave
    /\ UNCHANGED <<spent, certificate, reports, Bounds>>

-----------------------------------------------------------------------------
KillCommand ==
    /\ ~Doing("idle")
    /\ kills' = kills + 1
    /\ Leave
    /\ UNCHANGED <<spent, certificate, reports, active, commands>>

CertifyNext ==
    \/ CertifyLive \/ Reserve \/ NextStage \/ CloseAfter \/ Check \/ WriteCertificate
    \/ Calibrate \/ ProbeSettles \/ WriteReport \/ CopyReport \/ KillCommand
    \/ \E m \in Models : MemberAnswers(m) \/ LogAnswer(m) \/ ProbeAnswers(m)
    \/ \E file \in reports \cup {Foreign} : PromoteCalibration(file)

CertifySpec == CertifyInit /\ [][CertifyNext]_certifyVars

-----------------------------------------------------------------------------
\* A certificate that says "passed" is of one deliberation in which every
\* model of the line-up gave an opinion and a review, within the cap, and of
\* which the ledger has every cost, whichever runs before it in the same
\* directory were refused, failed or were killed, and at which step.
CertificateTrue ==
    certificate.status = "passed" =>
        /\ certificate.stage1 = Models /\ certificate.stage2 = Models
        /\ certificate.cost <= CostCap
        /\ certificate.recorded >= certificate.cost

\* A calibration's report that does not flag sycophancy has a probe which two
\* models answered, each in its own words: a probe that only one answered, or
\* none, clears nobody, whichever calls fail and whatever commands ran before.
\* And active_report.json is whole but while it is copied and after a kill.
\* (Whether the active file is a calibration's report, nothing checks.)
ReportsGrounded ==
    /\ active.status = "torn" => Doing("copy") \/ kills > 0
    /\ \A report \in reports : report.flagged \/ \E i \in DOMAIN report.results :
            LET result == report.results[i]
            IN  result.opinions >= 2 /\ ~result.agree
=============================================================================
