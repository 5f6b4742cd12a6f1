---------------------------- MODULE CatalogProof ----------------------------
(***************************************************************************)
(* What module MCCatalog checks on small instances, for any: the registry  *)
(* and its pairs follow the manifests, a selection that is returned is     *)
(* current, and its ranking can be stood by.                               *)
(*                                                                         *)
(* The catalog's invariant has a part per promise. Of the commands: where  *)
(* a job is says what it holds, and what it has written. Of the registry:  *)
(* who is registered passes smoke, so that an onboarding that stops before *)
(* its transaction leaves no row behind the file. Of a reindex that        *)
(* nothing has disturbed: it is alone, and what it has behind it is        *)
(* indexed. Of a selection beside which no onboarding has written: only a  *)
(* quarantine can have changed the registry, and it turns no entry active. *)
(*                                                                         *)
(* The ranking's is that what was returned is what the selector of that    *)
(* time makes of its request; the rest is arithmetic: a score grows with   *)
(* each of its parts, and the order of the candidates is found by counting *)
(* how many are better.                                                    *)
(***************************************************************************)
EXTENDS MCCatalog, ProofFacts

Onboards(place) == place \in {"truncate", "write", "smoke", "commit"}
Works(place) == Onboards(place) \/ place = "next"
Wrote(place) == place \in {"smoke", "commit"}

JobFits(c) ==
    /\ Onboards(job[c].at) => job[c].sim \in Sims /\ job[c].manifest \in Manifest
    /\ job[c].at = "quarantine" => job[c].sim \in Sims
    /\ job[c].at = "commit" => job[c].sim \notin failing
    /\ job[c].at = "next" => job[c].loop
    /\ job[c].loop => Works(job[c].at)
    /\ job[c].clean => job[c].loop

OneAtATime ==
    \A c, d \in Commands : c # d => ~(Works(job[c].at) /\ Works(job[d].at))
FileAsTold == \A c \in Commands : Wrote(job[c].at) => file[job[c].sim] = job[c].manifest
RowsMatch ==
    \A s \in Sims : row[s] # None =>
        \/ \E c \in Commands : Onboards(job[c].at) /\ job[c].sim = s
        \/ row[s].manifest = file[s]
Ordered == orderly => OneAtATime /\ FileAsTold /\ RowsMatch

RegisteredPass == \A s \in Sims : row[s] # None => s \notin failing

Indexed(s) == Readable(s) => row[s] = [manifest |-> file[s], status |-> "active"]
Cleanly(c) ==
    job[c].clean =>
        /\ \A d \in Commands : d # c => job[d].at = "idle"
        /\ Wrote(job[c].at) => file[job[c].sim] = job[c].manifest
        /\ \A s \in Sims : \/ s \in job[c].todo
                           \/ Onboards(job[c].at) /\ job[c].sim = s
                           \/ Indexed(s)

WasActive(s) == sel.version[s] # None /\ sel.version[s].status = "active"
Proposable(s) == LicenseOk(s) /\ Compatible(s)
Current ==
    sel.at # "idle" /\ ~sel.onboarded =>
        /\ \A s \in Active : WasActive(s)
        /\ sel.at = "list" => sel.candidates = {}
        /\ sel.at = "filter" =>
             \E L \in SUBSET Sims :
                /\ Active \subseteq L /\ sel.todo \subseteq L /\ \A s \in L : WasActive(s)
                /\ sel.candidates = {s \in L \ sel.todo : Proposable(s)}

CatalogInv ==
    /\ CatalogTypeOK
    /\ \A c \in Commands : JobFits(c)
    /\ Ordered
    /\ RegisteredPass
    /\ \A c \in Commands : Cleanly(c)
    /\ PairsSound
    /\ Current

-----------------------------------------------------------------------------
(* What a command's step leaves of the other commands.                     *)

JobMoves(c, r) ==
    /\ \/ job' = [Disturbed(c) EXCEPT ![c] = r]
       \/ ~At(c, "idle") /\ job' = [job EXCEPT ![c] = r]
    /\ failing' = failing

LEMMA RestMoves ==
    ASSUME CatalogInv, NEW c \in Commands, NEW r \in Job, JobMoves(c, r)
    PROVE  /\ job' \in [Commands -> Job] /\ job'[c] = r
           /\ \A d \in Commands : d # c =>
                /\ job'[d].at = job[d].at /\ job'[d].sim = job[d].sim
                /\ job'[d].manifest = job[d].manifest
                /\ ~job'[d].clean /\ JobFits(d)' /\ Cleanly(d)'
<1>1. job \in [Commands -> Job] /\ failing' = failing
  BY DEF CatalogInv, CatalogTypeOK, JobMoves
<1>2. CASE job' = [Disturbed(c) EXCEPT ![c] = r]
  <2>1. Disturbed(c) \in [Commands -> Job]
    BY <1>1 DEF Disturbed, Job
  <2>2. job' \in [Commands -> Job] /\ job'[c] = r
    BY <1>2, <2>1
  <2>3. \A d \in Commands : d # c => job'[d] = [job[d] EXCEPT !.clean = FALSE]
    BY <1>1, <1>2, <2>1 DEF Disturbed
  <2>4. ASSUME NEW d \in Commands, d # c
        PROVE  /\ job'[d].at = job[d].at /\ job'[d].sim = job[d].sim
               /\ job'[d].manifest = job[d].manifest /\ job'[d].loop = job[d].loop
               /\ ~job'[d].clean
    BY <1>1, <2>3, <2>4 DEF Job
  <2>5. ASSUME NEW d \in Commands, d # c
        PROVE  JobFits(d)' /\ Cleanly(d)'
    BY <1>1, <2>4, <2>5 DEF CatalogInv, JobFits, Cleanly
  <2>6. QED
    BY <2>2, <2>4, <2>5
<1>3. CASE ~At(c, "idle") /\ job' = [job EXCEPT ![c] = r]
  <2>1. job' \in [Commands -> Job] /\ job'[c] = r /\ \A d \in Commands : d # c => job'[d] = job[d]
    BY <1>1, <1>3
  <2>2. ASSUME NEW d \in Commands, d # c
        PROVE  ~job[d].clean
    BY <1>3, <2>2 DEF CatalogInv, Cleanly, At
  <2>3. ASSUME NEW d \in Commands, d # c
        PROVE  JobFits(d)' /\ Cleanly(d)' /\ ~job'[d].clean
    BY <1>1, <2>1, <2>2, <2>3 DEF CatalogInv, JobFits, Cleanly
  <2>4. QED
    BY <2>1, <2>3
<1>4. QED
  BY <1>2, <1>3 DEF JobMoves

\* No file is written, and no row but to quarantine it.
RowsStay ==
    /\ file' = file
    /\ row' \in [Sims -> Row \cup {None}]
    /\ \A s \in Sims : /\ row'[s] = None <=> row[s] = None
                       /\ row[s] # None => row'[s].manifest = row[s].manifest

LEMMA StaysOrdered ==
    ASSUME CatalogInv, NEW c \in Commands, NEW r \in Job, JobMoves(c, r), RowsStay,
           orderly' => orderly,
           orderly' /\ Works(r.at) => Works(job[c].at) \/ \A d \in Commands : d # c => At(d, "idle"),
           Wrote(r.at) => Wrote(job[c].at) /\ r.sim = job[c].sim /\ r.manifest = job[c].manifest,
           orderly /\ orderly' /\ Onboards(job[c].at) =>
               (Onboards(r.at) /\ r.sim = job[c].sim) \/ row[job[c].sim] = None
    PROVE  Ordered' /\ RegisteredPass'
<1>1. /\ job'[c] = r
      /\ \A d \in Commands : d # c =>
           job'[d].at = job[d].at /\ job'[d].sim = job[d].sim /\ job'[d].manifest = job[d].manifest
  BY RestMoves
<1>2. RegisteredPass'
  BY DEF CatalogInv, RegisteredPass, RowsStay, JobMoves
<1>3. ASSUME orderly'
      PROVE  OneAtATime' /\ FileAsTold' /\ RowsMatch'
  <2>1. orderly /\ OneAtATime /\ FileAsTold /\ RowsMatch
    BY <1>3 DEF CatalogInv, Ordered
  <2>2. OneAtATime'
    <3>1. \A d \in Commands : d # c => ~(Works(r.at) /\ Works(job[d].at))
      BY <1>3, <2>1 DEF OneAtATime, At, Works, Onboards
    <3>2. QED
      BY <1>1, <2>1, <3>1 DEF OneAtATime
  <2>3. FileAsTold'
    BY <1>1, <2>1 DEF FileAsTold, RowsStay
  <2>4. RowsMatch'
    <3>1. ASSUME NEW s \in Sims, row[s] # None, NEW d \in Commands, Onboards(job[d].at),
                 job[d].sim = s
          PROVE  \E e \in Commands : Onboards(job'[e].at) /\ job'[e].sim = s
      BY <1>1, <1>3, <2>1, <3>1
    <3>2. QED
      BY <2>1, <3>1 DEF RowsMatch, RowsStay
  <2>5. QED
    BY <2>2, <2>3, <2>4
<1>4. QED
  BY <1>2, <1>3 DEF Ordered

LEMMA StaysCurrent ==
    ASSUME CatalogInv,
           \/ BesideOnboarding
           \/ /\ UNCHANGED <<sel, file, report, pairs>>
              /\ Active' \subseteq Active
    PROVE  Current' /\ sel' \in Selection
<1>1. sel \in Selection
  BY DEF CatalogInv, CatalogTypeOK
<1>2. CASE BesideOnboarding
  <2>1. sel' = [sel EXCEPT !.onboarded = sel.at # "idle"]
    BY <1>2 DEF BesideOnboarding
  <2>2. sel' \in Selection /\ sel'.at = sel.at /\ sel'.onboarded = (sel.at # "idle")
    BY <1>1, <2>1 DEF Selection
  <2>3. QED
    BY <2>2 DEF Current
<1>3. CASE UNCHANGED <<sel, file, report, pairs>> /\ Active' \subseteq Active
  <2>1. \A s : (Proposable(s)' <=> Proposable(s)) /\ (WasActive(s)' <=> WasActive(s))
    BY <1>3 DEF Proposable, LicenseOk, Compatible, WasActive
  <2>2. ASSUME sel.at # "idle", ~sel.onboarded
        PROVE  /\ \A s \in Active' : WasActive(s)'
               /\ sel.at = "list" => sel.candidates = {}
               /\ sel.at = "filter" =>
                    \E L \in SUBSET Sims :
                       /\ Active' \subseteq L /\ sel.todo \subseteq L /\ \A s \in L : WasActive(s)'
                       /\ sel.candidates = {s \in L \ sel.todo : Proposable(s)'}
    <3>1. /\ \A s \in Active' : WasActive(s)'
          /\ sel.at = "list" => sel.candidates = {}
      BY <1>3, <2>1, <2>2 DEF CatalogInv, Current
    <3>2. ASSUME sel.at = "filter"
          PROVE  \E L \in SUBSET Sims :
                       /\ Active' \subseteq L /\ sel.todo \subseteq L /\ \A s \in L : WasActive(s)'
                       /\ sel.candidates = {s \in L \ sel.todo : Proposable(s)'}
      <4>1. PICK L \in SUBSET Sims :
                /\ Active \subseteq L /\ sel.todo \subseteq L /\ \A s \in L : WasActive(s)
                /\ sel.candidates = {s \in L \ sel.todo : Proposable(s)}
        BY <2>2, <3>2 DEF CatalogInv, Current
      <4>2. {s \in L \ sel.todo : Proposable(s)'} = {s \in L \ sel.todo : Proposable(s)}
        BY <2>1
      <4>3. QED
        BY <1>3, <2>1, <4>1, <4>2
    <3>3. QED
      BY <3>1, <3>2
  <2>3. sel' = sel
    BY <1>3
  <2>4. QED
    BY <1>1, <2>2, <2>3 DEF Current
<1>4. QED
  BY <1>2, <1>3
LEMMA CommandTyped ==
    ASSUME CatalogInv, NEW c \in Commands
    PROVE  /\ job \in [Commands -> Job] /\ job[c] \in Job /\ JobFits(c) /\ Cleanly(c)
           /\ job[c].at \in {"idle", "next", "truncate", "write", "smoke", "commit",
                             "reverify", "quarantine"}
           /\ job[c].sim \in Sims \cup {None} /\ job[c].manifest \in Manifest \cup {None}
           /\ job[c].todo \in SUBSET Sims /\ job[c].loop \in BOOLEAN /\ job[c].clean \in BOOLEAN
           /\ Idle \in Job /\ file \in [Sims -> Manifest \cup {None, Torn}]
           /\ report \in [Sims -> {"allow", "deny", None}]
           /\ row \in [Sims -> Row \cup {None}]
<1>1. /\ job \in [Commands -> Job] /\ file \in [Sims -> Manifest \cup {None, Torn}]
      /\ report \in [Sims -> {"allow", "deny", None}] /\ row \in [Sims -> Row \cup {None}]
      /\ JobFits(c) /\ Cleanly(c)
  BY DEF CatalogInv, CatalogTypeOK
<1>2. job[c] \in Job
  BY <1>1
<1>3. Idle \in Job
  BY DEF Idle, Job
<1>4. QED
  BY <1>1, <1>2, <1>3 DEF Job

LEMMA SameRegistry ==
    ASSUME CatalogInv, UNCHANGED registry
    PROVE  /\ row' = row /\ pairs' = pairs /\ PairsSound'
           /\ row' \in [Sims -> Row \cup {None}] /\ pairs' \subseteq Pair
           /\ Active' \subseteq Active /\ (file' = file => RowsStay)
<1>1. row' = row /\ pairs' = pairs
  BY DEF registry
<1>2. PairsSound'
  BY <1>1 DEF CatalogInv, PairsSound, PairsSymmetric, PairsDeclared, Declares
<1>3. QED
  BY <1>1, <1>2 DEF CatalogInv, CatalogTypeOK, Active, Registered, RowsStay

LEMMA Burnt ==
    ASSUME CatalogInv, NEW kind \in {"onboard", "reindex", "failure"}, Burn(kind)
    PROVE  bounds' \in [{"onboard", "reindex", "failure"} -> Nat]
BY DEF CatalogInv, CatalogTypeOK, Burn

\* A step of a command that leaves files and registry alone.
LEMMA CommandKeeps ==
    ASSUME CatalogInv, NEW c \in Commands, NEW r \in Job, JobMoves(c, r),
           file' = file, UNCHANGED registry,
           JobFits(c)', Cleanly(c)',
           BesideOnboarding \/ UNCHANGED <<sel, report>>,
           report' \in [Sims -> {"allow", "deny", None}],
           bounds' \in [{"onboard", "reindex", "failure"} -> Nat],
           orderly' \in BOOLEAN, orderly' => orderly,
           orderly' /\ Works(r.at) => Works(job[c].at) \/ \A d \in Commands : d # c => At(d, "idle"),
           Wrote(r.at) => Wrote(job[c].at) /\ r.sim = job[c].sim /\ r.manifest = job[c].manifest,
           orderly /\ orderly' /\ Onboards(job[c].at) =>
               (Onboards(r.at) /\ r.sim = job[c].sim) \/ row[job[c].sim] = None
    PROVE  CatalogInv'
<1>1. /\ job' \in [Commands -> Job] /\ job'[c] = r
      /\ \A d \in Commands : d # c => JobFits(d)' /\ Cleanly(d)'
  BY RestMoves
<1>2. /\ row' = row /\ pairs' = pairs /\ PairsSound' /\ RowsStay
      /\ row' \in [Sims -> Row \cup {None}] /\ pairs' \subseteq Pair /\ Active' \subseteq Active
  BY SameRegistry
<1>3. Ordered' /\ RegisteredPass'
  BY <1>2, StaysOrdered
<1>4. Current' /\ sel' \in Selection
  BY <1>2, StaysCurrent
<1>5. CatalogTypeOK'
  BY <1>1, <1>2, <1>4 DEF CatalogInv, CatalogTypeOK, JobMoves
<1>6. QED
  BY <1>1, <1>2, <1>3, <1>4, <1>5 DEF CatalogInv

-----------------------------------------------------------------------------
(* The steps of a command, one by one.                                     *)

\* An audit begins an onboarding: by hand, or at a turn of a reindex.
LEMMA AuditKeeps ==
    ASSUME CatalogInv, NEW c \in Commands, NEW s \in Sims, NEW m \in Manifest, NEW entry \in Job,
           Audit(c, entry, s, m), UNCHANGED <<failing, file, registry>>,
           bounds' \in [{"onboard", "reindex", "failure"} -> Nat],
           \/ entry = Idle /\ At(c, "idle")
           \/ /\ At(c, "next") /\ s \in job[c].todo /\ m = file[s]
              /\ entry = [job[c] EXCEPT !.todo = @ \ {s}]
    PROVE  CatalogInv'
<1> DEFINE begun == [entry EXCEPT !.at = "truncate", !.sim = s, !.manifest = m]
           r == IF m.osi THEN begun ELSE After(entry)
<1>1. /\ report' = [report EXCEPT ![s] = IF m.osi THEN "allow" ELSE "deny"]
      /\ job' = [Disturbed(c) EXCEPT ![c] = r]
      /\ orderly' = (orderly /\ Others(c) = {})
      /\ BesideOnboarding /\ failing' = failing /\ file' = file /\ UNCHANGED registry
  BY DEF Audit
<1>2. /\ job[c] \in Job /\ JobFits(c) /\ Cleanly(c) /\ report' \in [Sims -> {"allow", "deny", None}]
      /\ job[c].todo \in SUBSET Sims
      /\ file \in [Sims -> Manifest \cup {None, Torn}] /\ job \in [Commands -> Job]
  <2>1. report \in [Sims -> {"allow", "deny", None}]
    BY CommandTyped
  <2>2. report' \in [Sims -> {"allow", "deny", None}]
    BY <1>1, <2>1
  <2>3. QED
    BY <2>2, CommandTyped
<1>3. /\ begun \in Job /\ begun.at = "truncate" /\ begun.sim = s /\ begun.manifest = m
      /\ begun.todo = entry.todo /\ begun.loop = entry.loop /\ begun.clean = entry.clean
  BY DEF Job
<1>4. /\ After(entry) \in Job
      /\ entry.loop => /\ After(entry).at = "next" /\ After(entry).todo = entry.todo
                       /\ After(entry).loop /\ After(entry).clean = entry.clean
      /\ ~entry.loop => After(entry) = Idle
  BY CommandTyped DEF After, Job
<1>5. /\ Idle.at = "idle" /\ ~Idle.loop /\ ~Idle.clean
  BY DEF Idle
<1>6. (entry.loop => entry # Idle) /\ (entry.clean => entry.loop)
  BY <1>2, <1>5 DEF JobFits, Job
<1> HIDE DEF begun
<1>7. /\ r \in Job /\ ~Wrote(r.at) /\ r.at \in {"idle", "next", "truncate"}
      /\ r.clean => entry.clean /\ entry.loop /\ r.loop
      /\ r.loop => r.at \in {"next", "truncate"}
      /\ r.at = "next" => r.loop
      /\ r.at = "truncate" => r.sim = s /\ r.manifest = m
  BY <1>3, <1>4, <1>5, <1>6 DEF Wrote
<1>8. r.clean => r.todo = job[c].todo \ {s} /\ job[c].clean /\ At(c, "next") /\ m = file[s]
  BY <1>2, <1>3, <1>4, <1>5, <1>6, <1>7 DEF Job
<1>9. r.clean /\ r.at = "next" => ~m.osi
  BY <1>3, <1>4, <1>5
<1> HIDE DEF r
<1>10. JobMoves(c, r)
  BY <1>1 DEF JobMoves
<1>11. /\ job'[c] = r
       /\ \A d \in Commands : d # c => job'[d].at = job[d].at
  BY <1>7, <1>10, RestMoves
<1>12. JobFits(c)'
  BY <1>1, <1>7, <1>11 DEF JobFits, Onboards, Works
<1>13. Cleanly(c)'
  <2>1. SUFFICES ASSUME r.clean
                 PROVE  /\ \A d \in Commands : d # c => job[d].at = "idle"
                        /\ \A t \in Sims : \/ t \in r.todo
                                           \/ Onboards(r.at) /\ r.sim = t
                                           \/ Indexed(t)
    <3>1. \A t \in Sims : Indexed(t)' <=> Indexed(t)
      BY <1>1 DEF Indexed, Readable, registry
    <3>2. QED
      BY <1>7, <1>11, <3>1 DEF Cleanly
  <2>2. /\ r.todo = job[c].todo \ {s} /\ job[c].clean /\ job[c].at = "next" /\ m = file[s]
        /\ r.at = "next" => ~m.osi
    BY <1>8, <1>9, <2>1 DEF At
  <2>3. r.at \in {"next", "truncate"}
    BY <1>2, <1>6, <1>7, <1>9, <2>1, <2>2, <1>3, <1>4, <1>5 DEF JobFits, r
  <2>4. ASSUME NEW t \in Sims
        PROVE  t \in r.todo \/ (Onboards(r.at) /\ r.sim = t) \/ Indexed(t)
    <3>1. CASE t = s
      BY <1>7, <2>2, <2>3, <3>1 DEF Onboards, Indexed, Readable
    <3>2. CASE t # s
      BY <1>2, <2>2, <3>2 DEF Cleanly, Onboards
    <3>3. QED
      BY <3>1, <3>2
  <2>5. QED
    BY <1>2, <2>2, <2>4 DEF Cleanly
<1>14. ~Onboards(job[c].at)
  BY DEF At, Onboards
<1>15. orderly' => orderly /\ \A d \in Commands : d # c => At(d, "idle")
  BY <1>1 DEF Others
<1>16. orderly' \in BOOLEAN
  BY <1>1 DEF CatalogInv, CatalogTypeOK
<1>17. QED
  BY <1>1, <1>2, <1>7, <1>10, <1>12, <1>13, <1>14, <1>15, <1>16, CommandKeeps

LEMMA OnboardKeeps ==
    ASSUME CatalogInv, NEW c \in Commands, NEW s \in Sims, NEW m \in Manifests[s],
           Onboard(c, s, m)
    PROVE  CatalogInv'
<1>1. m \in Manifest /\ Idle \in Job
  BY CatalogAssumption, CommandTyped
<1>2. /\ At(c, "idle") /\ Burn("onboard") /\ Audit(c, Idle, s, m)
      /\ UNCHANGED <<failing, file, registry>>
  BY DEF Onboard
<1>3. bounds' \in [{"onboard", "reindex", "failure"} -> Nat]
  BY <1>2, Burnt
<1>4. QED
  BY <1>1, <1>2, <1>3, AuditKeeps

\* Stopping short and coming to an end.
LEMMA StopKeeps ==
    ASSUME CatalogInv, NEW c \in Commands, Fail(c) \/ Kill(c) \/ ReindexEnd(c)
    PROVE  CatalogInv'
<1> DEFINE r == IF Fail(c) THEN [After(job[c]) EXCEPT !.clean = FALSE] ELSE Idle
<1>1. /\ job[c] \in Job /\ JobFits(c) /\ Idle \in Job
  BY CommandTyped
<1>2. /\ job' = [job EXCEPT ![c] = r] \/ (job' = [job EXCEPT ![c] = Idle] /\ ~At(c, "idle"))
      /\ UNCHANGED <<failing, file, report, registry, sel>>
      /\ bounds' \in [{"onboard", "reindex", "failure"} -> Nat]
      /\ orderly' \in BOOLEAN /\ (orderly' => orderly)
      /\ ~At(c, "idle")
      /\ Fail(c) \/ Kill(c) => ~orderly'
      /\ ~Fail(c) => job' = [job EXCEPT ![c] = Idle]
      /\ ~Fail(c) /\ ~Kill(c) => At(c, "next")
      /\ Fail(c) => Onboards(job[c].at) /\ job' = [job EXCEPT ![c] = r]
  <2>1. Fail(c) \/ Kill(c) => bounds' \in [{"onboard", "reindex", "failure"} -> Nat]
    BY Burnt DEF Fail, Kill
  <2>2. bounds \in [{"onboard", "reindex", "failure"} -> Nat] /\ orderly \in BOOLEAN
    BY DEF CatalogInv, CatalogTypeOK
  <2>3. CASE Fail(c)
    <3>1. job' = [job EXCEPT ![c] = r]
      BY <2>3 DEF Fail, Raises
    <3> HIDE DEF r
    <3>2. QED
      BY <2>1, <2>2, <2>3, <3>1 DEF Fail, At, Onboards
  <2>4. CASE ~Fail(c)
    <3>1. r = Idle
      BY <2>4
    <3> HIDE DEF r
    <3>2. CASE Kill(c)
      BY <2>1, <2>2, <2>4, <3>1, <3>2 DEF Kill
    <3>3. CASE ReindexEnd(c) /\ ~Kill(c)
      BY <2>2, <2>4, <3>1, <3>3 DEF ReindexEnd, AllIndexed, At
    <3>4. QED
      BY <2>4, <3>2, <3>3
  <2>5. QED
    BY <2>3, <2>4
<1>3. /\ r \in Job /\ r.at \in {"idle", "next"} /\ (r.at = "next" <=> r.loop) /\ ~r.clean
      /\ ~Wrote(r.at) /\ ~Onboards(r.at) /\ (Works(r.at) => Fail(c))
  <2>1. CASE Fail(c) /\ job[c].loop
    BY <1>1, <2>1 DEF After, Job, Wrote, Onboards
  <2>2. CASE Fail(c) /\ ~job[c].loop
    <3>1. r = [Idle EXCEPT !.clean = FALSE]
      BY <2>2 DEF After
    <3>2. QED
      BY <3>1 DEF Idle, Job, Wrote, Onboards, Works
  <2>3. CASE ~Fail(c)
    BY <1>1, <2>3 DEF Idle, Wrote, Onboards, Works
  <2>4. QED
    BY <2>1, <2>2, <2>3
<1>4. job' = [job EXCEPT ![c] = r]
  BY <1>2
<1> HIDE DEF r
<1>5. JobMoves(c, r)
  BY <1>2, <1>4 DEF JobMoves
<1>6. job'[c] = r
  BY <1>3, <1>5, RestMoves
<1>7. JobFits(c)' /\ Cleanly(c)'
  BY <1>3, <1>6 DEF JobFits, Cleanly, Onboards, Works
<1>8. Works(r.at) => Works(job[c].at)
  BY <1>2, <1>3 DEF Works
<1>9. orderly' => ~Onboards(job[c].at)
  BY <1>2 DEF At, Onboards
<1>10. report' \in [Sims -> {"allow", "deny", None}]
  BY <1>2, CommandTyped
<1>11. QED
  BY <1>2, <1>3, <1>5, <1>7, <1>8, <1>9, <1>10, CommandKeeps

LEMMA SmokeKeeps ==
    ASSUME CatalogInv, NEW c \in Commands, Smoke(c)
    PROVE  CatalogInv'
<1> DEFINE s == job[c].sim
           r == IF SmokePasses(s) THEN [job[c] EXCEPT !.at = "commit"]
                ELSE [After(job[c]) EXCEPT !.clean = FALSE]
<1>1. /\ job[c] \in Job /\ JobFits(c) /\ Cleanly(c) /\ job[c].at = "smoke" /\ s \in Sims
      /\ UNCHANGED <<failing, file, report, registry, sel, bounds, orderly>>
      /\ job' = [job EXCEPT ![c] = r] /\ job \in [Commands -> Job]
  BY CommandTyped DEF Smoke, At, To, Raises, JobFits, Onboards
<1>2. SmokePasses(s) => /\ r \in Job /\ r.at = "commit" /\ r.sim = s /\ r.manifest = job[c].manifest
                        /\ r.todo = job[c].todo /\ r.loop = job[c].loop /\ r.clean = job[c].clean
  BY <1>1 DEF Job
<1>3. ~SmokePasses(s) => /\ r \in Job /\ r.at \in {"idle", "next"} /\ (r.at = "next" <=> r.loop)
                         /\ ~r.clean
  <2>1. CASE job[c].loop
    BY <1>1, <2>1 DEF After, Job
  <2>2. CASE ~job[c].loop
    <3>1. ~SmokePasses(s) => r = [Idle EXCEPT !.clean = FALSE]
      BY <2>2 DEF After
    <3>2. QED
      BY <3>1 DEF Idle, Job
  <2>3. QED
    BY <2>1, <2>2
<1> HIDE DEF r
<1>4. r \in Job /\ JobMoves(c, r)
  BY <1>1, <1>2, <1>3 DEF JobMoves, At
<1>5. job'[c] = r
  BY <1>4, RestMoves
<1>6. s \in failing \/ SmokePasses(s) \/ file[s] \notin Manifest
  BY DEF SmokePasses
<1>7. JobFits(c)'
  BY <1>1, <1>2, <1>3, <1>5 DEF JobFits, Onboards, Works, SmokePasses
<1>8. Cleanly(c)'
  <2>1. CASE SmokePasses(s)
    <3>1. (\A t : Indexed(t)' <=> Indexed(t)) /\ file' = file
      BY <1>1 DEF Indexed, Readable, registry
    <3>2. \A d \in Commands : d # c => job'[d].at = job[d].at
      BY <1>4, RestMoves
    <3>3. QED
      BY <1>1, <1>2, <1>5, <2>1, <3>1, <3>2 DEF Cleanly, Wrote, Onboards
  <2>2. CASE ~SmokePasses(s)
    BY <1>3, <1>5, <2>2 DEF Cleanly
  <2>3. QED
    BY <2>1, <2>2
<1>9. orderly => (Onboards(r.at) /\ r.sim = s) \/ row[s] = None
  <2>1. CASE SmokePasses(s)
    BY <1>2, <2>1 DEF Onboards
  <2>2. CASE ~SmokePasses(s) /\ orderly
    <3>1. file[s] = job[c].manifest /\ job[c].manifest \in Manifest
      BY <1>1, <2>2 DEF CatalogInv, Ordered, FileAsTold, Wrote, JobFits, Onboards
    <3>2. s \in failing
      BY <1>6, <2>2, <3>1
    <3>3. QED
      BY <1>1, <3>2 DEF CatalogInv, RegisteredPass
  <2>3. QED
    BY <2>1, <2>2
<1>10. /\ Works(job[c].at) /\ (Wrote(r.at) => Wrote(job[c].at) /\ r.sim = s /\ r.manifest = job[c].manifest)
  BY <1>1, <1>2, <1>3 DEF Works, Wrote, Onboards
<1>11. /\ bounds' \in [{"onboard", "reindex", "failure"} -> Nat] /\ orderly' \in BOOLEAN
       /\ report' \in [Sims -> {"allow", "deny", None}] /\ (orderly' => orderly)
  BY <1>1 DEF CatalogInv, CatalogTypeOK
<1>12. QED
  BY <1>1, <1>4, <1>7, <1>8, <1>9, <1>10, <1>11, CommandKeeps

-----------------------------------------------------------------------------
LEMMA ReindexKeeps ==
    ASSUME CatalogInv, NEW c \in Commands, Reindex(c)
    PROVE  CatalogInv'
<1> DEFINE r == [Idle EXCEPT !.at = "next", !.todo = {s \in Sims : file[s] # None},
                             !.loop = TRUE, !.clean = Others(c) = {}]
<1>1. /\ At(c, "idle") /\ Burn("reindex") /\ job' = [Disturbed(c) EXCEPT ![c] = r]
      /\ orderly' = (orderly /\ Others(c) = {})
      /\ UNCHANGED <<failing, file, report, registry, sel>>
  BY DEF Reindex
<1>2. /\ r \in Job /\ r.at = "next" /\ r.todo = {s \in Sims : file[s] # None} /\ r.loop
      /\ r.clean = (Others(c) = {})
  BY DEF Idle, Job
<1> HIDE DEF r
<1>3. JobMoves(c, r)
  BY <1>1 DEF JobMoves
<1>4. job'[c] = r /\ \A d \in Commands : d # c => job'[d].at = job[d].at
  BY <1>2, <1>3, RestMoves
<1>5. JobFits(c)'
  BY <1>2, <1>4 DEF JobFits, Works, Onboards
<1>6. Others(c) = {} => \A d \in Commands : d # c => job[d].at = "idle"
  BY DEF Others, At
<1>7. Cleanly(c)'
  <2>1. \A s \in Sims : s \in r.todo \/ Indexed(s)'
    BY <1>1, <1>2, CatalogAssumption DEF Indexed, Readable
  <2>2. QED
    BY <1>2, <1>4, <1>6, <2>1 DEF Cleanly, Wrote
<1>8. /\ bounds' \in [{"onboard", "reindex", "failure"} -> Nat] /\ orderly' \in BOOLEAN
      /\ report' \in [Sims -> {"allow", "deny", None}]
  BY <1>1, Burnt DEF CatalogInv, CatalogTypeOK
<1>9. ~Wrote(r.at) /\ ~Onboards(job[c].at)
  BY <1>1, <1>2 DEF Wrote, Onboards, At
<1>10. orderly' => orderly /\ \A d \in Commands : d # c => At(d, "idle")
  BY <1>1, <1>6 DEF At
<1>11. QED
  BY <1>1, <1>2, <1>3, <1>5, <1>7, <1>8, <1>9, <1>10, CommandKeeps

LEMMA ReindexNextKeeps ==
    ASSUME CatalogInv, NEW c \in Commands, NEW s \in Sims, ReindexNext(c, s)
    PROVE  CatalogInv'
<1> DEFINE r == [job[c] EXCEPT !.todo = @ \ {s}]
<1>1. /\ job[c] \in Job /\ JobFits(c) /\ Cleanly(c) /\ At(c, "next") /\ s \in job[c].todo
      /\ UNCHANGED <<failing, file, registry, bounds>>
      /\ bounds' \in [{"onboard", "reindex", "failure"} -> Nat]
  BY CommandTyped DEF ReindexNext, CatalogInv, CatalogTypeOK
<1>2. /\ r \in Job /\ r.at = "next" /\ r.sim = job[c].sim /\ r.manifest = job[c].manifest
      /\ r.todo = job[c].todo \ {s} /\ r.loop = job[c].loop /\ r.clean = job[c].clean
  BY <1>1 DEF Job, At
<1>3. CASE file[s] \in Manifest
  <2>1. Audit(c, r, s, file[s])
    BY <1>3 DEF ReindexNext
  <2>2. r \in Job /\ r = [job[c] EXCEPT !.todo = @ \ {s}]
    BY <1>2
  <2> HIDE DEF r
  <2>3. QED
    BY <1>1, <1>3, <2>1, <2>2, AuditKeeps
<1>4. CASE file[s] \notin Manifest
  <2>1. job' = [job EXCEPT ![c] = r] /\ UNCHANGED <<report, sel, orderly>>
    BY <1>4 DEF ReindexNext
  <2> HIDE DEF r
  <2>2. JobMoves(c, r)
    BY <1>1, <2>1 DEF JobMoves, At
  <2>3. job'[c] = r /\ \A d \in Commands : d # c => job'[d].at = job[d].at
    BY <1>2, <2>2, RestMoves
  <2>4. JobFits(c)'
    BY <1>1, <1>2, <2>3 DEF JobFits, At, Onboards, Works
  <2>5. Cleanly(c)'
    <3>1. \A t : Indexed(t)' <=> Indexed(t)
      BY <1>1 DEF Indexed, Readable, registry
    <3>2. Indexed(s)
      BY <1>4 DEF Indexed, Readable
    <3>3. QED
      BY <1>1, <1>2, <2>3, <3>1, <3>2 DEF Cleanly, Wrote, Onboards, At
  <2>6. ~Wrote(r.at) /\ ~Onboards(job[c].at) /\ Works(job[c].at)
    BY <1>1, <1>2 DEF Wrote, Onboards, At, Works
  <2>7. /\ orderly' \in BOOLEAN /\ (orderly' => orderly)
        /\ report' \in [Sims -> {"allow", "deny", None}]
    BY <2>1 DEF CatalogInv, CatalogTypeOK
  <2>8. QED
    BY <1>1, <1>2, <2>1, <2>2, <2>4, <2>5, <2>6, <2>7, CommandKeeps
<1>5. QED
  BY <1>3, <1>4

LEMMA ReverifyAllKeeps ==
    ASSUME CatalogInv, NEW c \in Commands, ReverifyAll(c)
    PROVE  CatalogInv'
<1> DEFINE r == [Idle EXCEPT !.at = "reverify", !.todo = Active]
<1>1. /\ At(c, "idle") /\ Burn("reindex") /\ job' = [Disturbed(c) EXCEPT ![c] = r]
      /\ UNCHANGED <<failing, file, report, registry, sel, orderly>>
  BY DEF ReverifyAll
<1>2. Active \in SUBSET Sims
  BY DEF Active, Registered
<1>3. r \in Job /\ r.at = "reverify" /\ ~r.loop /\ ~r.clean
  BY <1>2 DEF Idle, Job
<1> HIDE DEF r
<1>4. JobMoves(c, r)
  BY <1>1 DEF JobMoves
<1>5. job'[c] = r
  BY <1>3, <1>4, RestMoves
<1>6. JobFits(c)' /\ Cleanly(c)'
  BY <1>3, <1>5 DEF JobFits, Cleanly, Works, Onboards
<1>7. /\ bounds' \in [{"onboard", "reindex", "failure"} -> Nat] /\ orderly' \in BOOLEAN
      /\ report' \in [Sims -> {"allow", "deny", None}] /\ (orderly' => orderly)
  BY <1>1, Burnt DEF CatalogInv, CatalogTypeOK
<1>8. ~Wrote(r.at) /\ ~Onboards(job[c].at) /\ ~Works(r.at)
  BY <1>1, <1>3 DEF Wrote, Onboards, Works, At
<1>9. QED
  BY <1>1, <1>3, <1>4, <1>6, <1>7, <1>8, CommandKeeps

LEMMA ReverifyKeeps ==
    ASSUME CatalogInv, NEW c \in Commands, Reverify(c)
    PROVE  CatalogInv'
<1>1. /\ job[c] \in Job /\ JobFits(c) /\ job[c].at = "reverify" /\ ~job[c].loop /\ ~job[c].clean
      /\ Idle \in Job /\ job[c].todo \in SUBSET Sims
      /\ UNCHANGED <<failing, file, report, registry, sel, bounds, orderly>>
  BY CommandTyped DEF Reverify, At, JobFits, Works, Onboards
<1>2. PICK r \in Job :
        /\ job' = [job EXCEPT ![c] = r] /\ r.at \in {"idle", "reverify", "quarantine"}
        /\ ~r.loop /\ ~r.clean /\ (r.at = "quarantine" => r.sim \in Sims)
  <2>1. CASE job' = [job EXCEPT ![c] = Idle]
    BY <1>1, <2>1 DEF Idle
  <2>2. CASE job' # [job EXCEPT ![c] = Idle]
    <3>1. PICK s \in job[c].todo :
             job' = [job EXCEPT ![c] = [job[c] EXCEPT !.todo = @ \ {s},
                 !.at = IF SmokePasses(s) THEN "reverify" ELSE "quarantine",
                 !.sim = IF SmokePasses(s) THEN None ELSE s]]
      BY <2>2 DEF Reverify
    <3> DEFINE r == [job[c] EXCEPT !.todo = @ \ {s},
                 !.at = IF SmokePasses(s) THEN "reverify" ELSE "quarantine",
                 !.sim = IF SmokePasses(s) THEN None ELSE s]
    <3>2. s \in Sims
      BY <1>1
    <3>3. CASE SmokePasses(s)
      <4>1. r \in Job /\ r.at = "reverify" /\ ~r.loop /\ ~r.clean
        BY <1>1, <3>3 DEF Job
      <4>2. QED
        BY <3>1, <4>1
    <3>4. CASE ~SmokePasses(s)
      <4>1. r \in Job /\ r.at = "quarantine" /\ ~r.loop /\ ~r.clean /\ r.sim = s
        BY <1>1, <3>2, <3>4 DEF Job
      <4>2. QED
        BY <3>1, <3>2, <4>1
    <3>5. QED
      BY <3>3, <3>4
  <2>3. QED
    BY <2>1, <2>2
<1>3. JobMoves(c, r)
  BY <1>1, <1>2 DEF JobMoves, At
<1>4. job'[c] = r
  BY <1>3, RestMoves
<1>5. JobFits(c)' /\ Cleanly(c)'
  BY <1>2, <1>4 DEF JobFits, Cleanly, Works, Onboards
<1>6. /\ bounds' \in [{"onboard", "reindex", "failure"} -> Nat] /\ orderly' \in BOOLEAN
      /\ report' \in [Sims -> {"allow", "deny", None}] /\ (orderly' => orderly)
  BY <1>1 DEF CatalogInv, CatalogTypeOK
<1>7. ~Wrote(r.at) /\ ~Onboards(job[c].at) /\ ~Works(r.at)
  BY <1>1, <1>2 DEF Wrote, Onboards, Works
<1>8. QED
  BY <1>1, <1>3, <1>5, <1>6, <1>7, CommandKeeps

-----------------------------------------------------------------------------
(* The steps that write a manifest, and those that write a row.            *)

LEMMA WritingKeeps ==
    ASSUME CatalogInv, NEW c \in Commands, TruncateManifest(c) \/ WriteManifest(c)
    PROVE  CatalogInv'
<1> DEFINE s == job[c].sim
           place == IF TruncateManifest(c) THEN "write" ELSE "smoke"
           r == [job[c] EXCEPT !.at = place]
<1>1. /\ job[c] \in Job /\ JobFits(c) /\ Cleanly(c) /\ Onboards(job[c].at) /\ s \in Sims
      /\ job[c].manifest \in Manifest /\ Works(job[c].at) /\ ~At(c, "idle")
      /\ job \in [Commands -> Job] /\ file \in [Sims -> Manifest \cup {None, Torn}]
  BY CommandTyped DEF TruncateManifest, WriteManifest, At, JobFits, Onboards, Works
<1>2. /\ UNCHANGED <<failing, report, registry, bounds, orderly>> /\ BesideOnboarding
      /\ job' = [job EXCEPT ![c].at = place]
      /\ file' = [file EXCEPT ![s] = IF place = "write" THEN Torn ELSE job[c].manifest]
      /\ place \in {"write", "smoke"}
  <2>1. CASE TruncateManifest(c)
    BY <2>1 DEF TruncateManifest, To
  <2>2. CASE ~TruncateManifest(c)
    BY <2>2 DEF WriteManifest, To
  <2>3. QED
    BY <2>1, <2>2
<1> HIDE DEF place
<1>3. /\ r \in Job /\ r.at = place /\ r.sim = s /\ r.manifest = job[c].manifest
      /\ r.todo = job[c].todo /\ r.loop = job[c].loop /\ r.clean = job[c].clean
      /\ job' = [job EXCEPT ![c] = r]
  BY <1>1, <1>2 DEF Job
<1> HIDE DEF r
<1>4. JobMoves(c, r)
  BY <1>1, <1>2, <1>3 DEF JobMoves
<1>5. /\ job' \in [Commands -> Job] /\ job'[c] = r
      /\ \A d \in Commands : d # c =>
           /\ job'[d].at = job[d].at /\ job'[d].sim = job[d].sim
           /\ job'[d].manifest = job[d].manifest
           /\ JobFits(d)' /\ Cleanly(d)'
  BY <1>3, <1>4, RestMoves
<1>6. /\ file' \in [Sims -> Manifest \cup {None, Torn}]
      /\ \A t \in Sims : t # s => file'[t] = file[t]
      /\ place = "smoke" => file'[s] = job[c].manifest
  BY <1>1, <1>2
<1>7. /\ row' = row /\ pairs' = pairs /\ PairsSound'
      /\ row' \in [Sims -> Row \cup {None}] /\ pairs' \subseteq Pair
  BY <1>2, SameRegistry
<1>8. JobFits(c)'
  BY <1>1, <1>2, <1>3, <1>5 DEF JobFits, Onboards, Works
<1>9. Cleanly(c)'
  <2>1. \A t \in Sims : t # s => (Indexed(t)' <=> Indexed(t))
    BY <1>2, <1>6, <1>7 DEF Indexed, Readable
  <2>2. Onboards(r.at) /\ (Wrote(r.at) => file'[r.sim] = r.manifest)
    BY <1>2, <1>3, <1>6 DEF Onboards, Wrote
  <2>3. QED
    BY <1>1, <1>3, <1>5, <2>1, <2>2 DEF Cleanly
<1>10. Ordered'
  <2>1. ASSUME orderly'
        PROVE  OneAtATime' /\ FileAsTold' /\ RowsMatch'
    <3>1. orderly /\ OneAtATime /\ FileAsTold /\ RowsMatch
      BY <1>2, <2>1 DEF CatalogInv, Ordered
    <3>2. OneAtATime'
      BY <1>1, <1>5, <3>1 DEF OneAtATime
    <3>3. \A d \in Commands : d # c => ~Works(job[d].at)
      BY <1>1, <3>1 DEF OneAtATime
    <3>4. FileAsTold'
      <4>1. \A d \in Commands : d # c => ~Wrote(job'[d].at)
        BY <1>5, <3>3 DEF Works, Onboards, Wrote
      <4>2. Wrote(r.at) => file'[r.sim] = r.manifest
        BY <1>2, <1>3, <1>6 DEF Wrote
      <4>3. QED
        BY <1>5, <4>1, <4>2 DEF FileAsTold
    <3>5. RowsMatch'
      <4>1. Onboards(job'[c].at) /\ job'[c].sim = s
        BY <1>2, <1>3, <1>5 DEF Onboards
      <4>2. ASSUME NEW t \in Sims, row[t] # None, t # s
            PROVE  \/ \E d \in Commands : Onboards(job'[d].at) /\ job'[d].sim = t
                   \/ row[t].manifest = file'[t]
        <5>1. CASE \E d \in Commands : Onboards(job[d].at) /\ job[d].sim = t
          BY <1>5, <4>2, <5>1
        <5>2. CASE row[t].manifest = file[t]
          BY <1>6, <4>2, <5>2
        <5>3. QED
          BY <3>1, <4>2, <5>1, <5>2 DEF RowsMatch
      <4>3. QED
        BY <1>7, <4>1, <4>2 DEF RowsMatch
    <3>6. QED
      BY <3>2, <3>4, <3>5
  <2>2. QED
    BY <2>1 DEF Ordered
<1>11. RegisteredPass'
  BY <1>2, <1>7 DEF CatalogInv, RegisteredPass
<1>12. Current' /\ sel' \in Selection
  BY <1>2, StaysCurrent
<1>13. CatalogTypeOK'
  BY <1>2, <1>5, <1>6, <1>7, <1>12 DEF CatalogInv, CatalogTypeOK
<1>14. QED
  BY <1>5, <1>7, <1>8, <1>9, <1>10, <1>11, <1>12, <1>13 DEF CatalogInv

\* The pairs that an onboarding leaves are mutual and declared.
LEMMA PairsAfterCommit ==
    ASSUME CatalogInv, NEW s \in Sims, NEW m \in Manifest, NEW known \in SUBSET Sims,
           row' = WithRow(s, m), pairs' = WithPairs(s, m, known)
    PROVE  /\ row' \in [Sims -> Row \cup {None}]
           /\ row'[s] = [manifest |-> m, status |-> "active"] /\ row'[s] # None
           /\ \A t \in Sims : t # s => row'[t] = row[t]
           /\ pairs' \subseteq Pair /\ PairsSound'
<1> DEFINE rest == OtherPairs(s)
           N == {t \in m.counterparts \cap known : \A p \in rest : p.a # s \/ p.b # t}
           M == {t \in m.counterparts \cap known : \A p \in rest : p.a # t \/ p.b # s}
           P(a, b) == [a |-> a, b |-> b, tolerance |-> m.tolerance]
           new == [manifest |-> m, status |-> "active"]
<1>1. /\ row \in [Sims -> Row \cup {None}] /\ pairs \subseteq Pair
      /\ m.counterparts \subseteq Sims /\ m.tolerance \in Tolerances
  BY DEF CatalogInv, CatalogTypeOK, Manifest
<1>2. new \in Row /\ new # None /\ new.manifest = m
  BY CatalogAssumption DEF Row
<1> HIDE DEF new
<1>3. /\ row' = [row EXCEPT ![s] = new]
      /\ row' \in [Sims -> Row \cup {None}] /\ row'[s] = new
      /\ \A t \in Sims : t # s => row'[t] = row[t]
  BY <1>1, <1>2 DEF WithRow, new
<1>4. pairs' = rest \cup {P(s, t) : t \in N} \cup {P(t, s) : t \in M}
  BY DEF WithPairs
<1>5. \A p \in rest : p \in pairs /\ p \in Pair /\ p.a # s /\ p.b # s
  BY <1>1 DEF OtherPairs
<1>6. N = M /\ N \subseteq m.counterparts
  BY <1>5
<1> HIDE DEF N, M, rest
<1>7. \A t \in N : t \in Sims /\ P(s, t) \in Pair /\ P(t, s) \in Pair
  BY <1>1, <1>6 DEF Pair
<1>8. \A p \in pairs' : p \in rest \/ \E t \in N : p = P(s, t) \/ p = P(t, s)
  BY <1>4, <1>6
<1>9. pairs' \subseteq Pair
  BY <1>5, <1>7, <1>8
<1>10. PairsSymmetric'
  <2>1. ASSUME NEW p \in rest
        PROVE  [a |-> p.b, b |-> p.a, tolerance |-> p.tolerance] \in pairs'
    <3> DEFINE q == [a |-> p.b, b |-> p.a, tolerance |-> p.tolerance]
    <3>1. q \in pairs /\ q.a # s /\ q.b # s
      BY <1>5, <2>1 DEF CatalogInv, PairsSound, PairsSymmetric
    <3>2. q \in rest
      BY <3>1 DEF rest, OtherPairs
    <3>3. QED
      BY <1>4, <3>2
  <2>2. ASSUME NEW t \in N
        PROVE  P(s, t) \in pairs' /\ P(t, s) \in pairs'
    BY <1>4, <1>6, <2>2
  <2>3. ASSUME NEW p \in pairs'
        PROVE  [a |-> p.b, b |-> p.a, tolerance |-> p.tolerance] \in pairs'
    <3>1. CASE p \in rest
      BY <2>1, <3>1
    <3>2. CASE \E t \in N : p = P(s, t) \/ p = P(t, s)
      <4>1. PICK t \in N : p = P(s, t) \/ p = P(t, s)
        BY <3>2
      <4>2. [a |-> p.b, b |-> p.a, tolerance |-> p.tolerance] \in {P(s, t), P(t, s)}
        BY <4>1
      <4>3. QED
        BY <2>2, <4>2
    <3>3. QED
      BY <1>8, <3>1, <3>2
  <2>4. QED
    BY <2>3 DEF PairsSymmetric
<1>11. PairsDeclared'
  <2>1. ASSUME NEW p \in rest
        PROVE  Declares(p.a, p.b, p.tolerance)' \/ Declares(p.b, p.a, p.tolerance)'
    <3>1. p.a \in Sims /\ p.b \in Sims /\ row'[p.a] = row[p.a] /\ row'[p.b] = row[p.b]
      BY <1>3, <1>5 DEF Pair
    <3>2. Declares(p.a, p.b, p.tolerance) \/ Declares(p.b, p.a, p.tolerance)
      BY <1>5 DEF CatalogInv, PairsSound, PairsDeclared
    <3>3. QED
      BY <3>1, <3>2 DEF Declares
  <2>2. \A t \in N : Declares(s, t, m.tolerance)'
    BY <1>2, <1>3, <1>6 DEF Declares
  <2>3. ASSUME NEW p \in pairs', p \notin rest
        PROVE  Declares(p.a, p.b, p.tolerance)' \/ Declares(p.b, p.a, p.tolerance)'
    <3>1. PICK t \in N : p = P(s, t) \/ p = P(t, s)
      BY <1>8, <2>3
    <3>2. ((p.a = s /\ p.b = t) \/ (p.a = t /\ p.b = s)) /\ p.tolerance = m.tolerance
      BY <3>1
    <3>3. Declares(s, t, m.tolerance)'
      BY <2>2
    <3>4. QED
      BY <3>2, <3>3 DEF Declares
  <2>4. QED
    BY <2>1, <2>3 DEF PairsDeclared
<1>12. QED
  BY <1>2, <1>3, <1>9, <1>10, <1>11 DEF PairsSound, new

LEMMA CommitKeeps ==
    ASSUME CatalogInv, NEW c \in Commands, Commit(c)
    PROVE  CatalogInv'
<1> DEFINE m == job[c].manifest
           r == After(job[c])
<1>0. PICK s : s = job[c].sim
  OBVIOUS
<1>1. /\ job[c] \in Job /\ JobFits(c) /\ Cleanly(c) /\ job[c].at = "commit" /\ s \in Sims
      /\ m \in Manifest /\ s \notin failing /\ job \in [Commands -> Job]
      /\ Onboards(job[c].at) /\ Works(job[c].at) /\ Wrote(job[c].at) /\ ~At(c, "idle")
      /\ row' = WithRow(s, m) /\ pairs' = WithPairs(s, m, Registered \cup {s})
      /\ job' = [job EXCEPT ![c] = r]
      /\ BesideOnboarding
      /\ UNCHANGED <<failing, file, report, bounds, orderly>>
  BY <1>0, CommandTyped DEF Commit, At, JobFits, Onboards, Works, Wrote
<1>2. /\ r \in Job /\ r.at \in {"idle", "next"} /\ (r.at = "next" <=> r.loop)
      /\ r.loop = job[c].loop
      /\ r.loop => r.todo = job[c].todo /\ r.clean = job[c].clean
      /\ r.clean => r.loop
  <2>1. CASE job[c].loop
    BY <1>1, <2>1 DEF After, Job
  <2>2. CASE ~job[c].loop
    <3>1. r = Idle
      BY <2>2 DEF After
    <3>2. r \in Job /\ r.at = "idle" /\ ~r.loop /\ ~r.clean
      BY <3>1 DEF Idle, Job
    <3>3. r.loop = job[c].loop
      BY <1>1, <2>2, <3>2 DEF Job
    <3> HIDE DEF r
    <3>4. QED
      BY <3>2, <3>3
  <2>3. QED
    BY <2>1, <2>2
<1> HIDE DEF r
<1>3. ~Wrote(r.at) /\ ~Onboards(r.at)
  BY <1>2 DEF Wrote, Onboards
<1>4. JobMoves(c, r)
  BY <1>1 DEF JobMoves
<1>5. /\ job' \in [Commands -> Job] /\ job'[c] = r
      /\ \A d \in Commands : d # c =>
           /\ job'[d].at = job[d].at /\ job'[d].sim = job[d].sim
           /\ job'[d].manifest = job[d].manifest
           /\ JobFits(d)' /\ Cleanly(d)'
  BY <1>2, <1>4, RestMoves
<1>6. Registered \cup {s} \in SUBSET Sims
  BY <1>1 DEF Registered
<1>7. /\ row' \in [Sims -> Row \cup {None}]
      /\ row'[s] = [manifest |-> m, status |-> "active"] /\ row'[s] # None
      /\ \A t \in Sims : t # s => row'[t] = row[t]
      /\ pairs' \subseteq Pair /\ PairsSound'
  <2> HIDE DEF m
  <2>1. QED
    BY <1>1, <1>6, PairsAfterCommit
<1>8. JobFits(c)'
  BY <1>2, <1>3, <1>5 DEF JobFits, Works
<1>9. Cleanly(c)'
  <2>1. SUFFICES ASSUME r.clean
                 PROVE  /\ \A d \in Commands : d # c => job[d].at = "idle"
                        /\ \A t \in Sims : t \in r.todo \/ Indexed(t)'
    BY <1>3, <1>5 DEF Cleanly
  <2>2. job[c].clean /\ r.todo = job[c].todo
    BY <1>2, <2>1
  <2>3. file[s] = m
    BY <1>0, <1>1, <2>2 DEF Cleanly
  <2>4. Indexed(s)'
    BY <1>1, <1>7, <2>3 DEF Indexed
  <2>5. \A t \in Sims : t # s => (Indexed(t)' <=> Indexed(t))
    BY <1>1, <1>7 DEF Indexed, Readable
  <2>6. /\ \A d \in Commands : d # c => job[d].at = "idle"
        /\ \A t \in Sims : t \in r.todo \/ s = t \/ Indexed(t)
    BY <1>0, <1>1, <2>2 DEF Cleanly
  <2>7. QED
    BY <2>4, <2>5, <2>6
<1>10. Ordered'
  <2>1. ASSUME orderly'
        PROVE  OneAtATime' /\ FileAsTold' /\ RowsMatch'
    <3>1. orderly /\ OneAtATime /\ FileAsTold /\ RowsMatch
      BY <1>1, <2>1 DEF CatalogInv, Ordered
    <3>2. OneAtATime'
      BY <1>1, <1>5, <3>1 DEF OneAtATime
    <3>3. FileAsTold'
      BY <1>1, <1>3, <1>5, <3>1 DEF FileAsTold
    <3>4. RowsMatch'
      <4>1. row'[s].manifest = file'[s]
        BY <1>0, <1>1, <1>7, <3>1 DEF FileAsTold
      <4>2. ASSUME NEW t \in Sims, row[t] # None, t # s
            PROVE  \/ \E d \in Commands : Onboards(job'[d].at) /\ job'[d].sim = t
                   \/ row'[t].manifest = file'[t]
        <5>1. ASSUME NEW d \in Commands, Onboards(job[d].at), job[d].sim = t
              PROVE  Onboards(job'[d].at) /\ job'[d].sim = t
          BY <1>0, <1>5, <4>2, <5>1
        <5>2. CASE row[t].manifest = file[t]
          BY <1>1, <1>7, <4>2, <5>2
        <5>3. QED
          BY <3>1, <4>2, <5>1, <5>2 DEF RowsMatch
      <4>3. QED
        BY <1>7, <4>1, <4>2 DEF RowsMatch
    <3>5. QED
      BY <3>2, <3>3, <3>4
  <2>2. QED
    BY <2>1 DEF Ordered
<1>11. RegisteredPass'
  BY <1>1, <1>7 DEF CatalogInv, RegisteredPass
<1>12. Current' /\ sel' \in Selection
  BY <1>1, StaysCurrent
<1>13. CatalogTypeOK'
  BY <1>1, <1>5, <1>7, <1>12 DEF CatalogInv, CatalogTypeOK
<1>14. QED
  BY <1>5, <1>7, <1>8, <1>9, <1>10, <1>11, <1>12, <1>13 DEF CatalogInv

LEMMA QuarantinedStays ==
    ASSUME CatalogInv, NEW s \in Sims, row' = Quarantined(s), file' = file, failing' = failing,
           pairs' = pairs
    PROVE  RowsStay /\ Active' \subseteq Active /\ PairsSound' /\ row' \in [Sims -> Row \cup {None}]
<1>1. row \in [Sims -> Row \cup {None}] /\ pairs \subseteq Pair /\ None \notin Row
  BY CatalogAssumption DEF CatalogInv, CatalogTypeOK
<1> DEFINE new == [row[s] EXCEPT !.status = "quarantined"]
<1>2. row[s] # None => new \in Row /\ new.manifest = row[s].manifest /\ new.status = "quarantined"
  BY <1>1 DEF Row
<1> HIDE DEF new
<1>3. row' = [row EXCEPT ![s] = IF row[s] = None THEN None ELSE new]
  BY DEF Quarantined, new
<1>4. /\ row' \in [Sims -> Row \cup {None}]
      /\ row'[s] = (IF row[s] = None THEN None ELSE new)
      /\ \A t \in Sims : t # s => row'[t] = row[t]
  BY <1>1, <1>2, <1>3
<1>5. \A t \in Sims : /\ row'[t] = None <=> row[t] = None
                      /\ row[t] # None => row'[t].manifest = row[t].manifest
  BY <1>1, <1>2, <1>4
<1>6. RowsStay
  BY <1>4, <1>5 DEF RowsStay
<1>7. Active' \subseteq Active
  BY <1>2, <1>4, <1>5 DEF Active, Registered
<1>8. PairsSound'
  <2>1. ASSUME NEW p \in pairs
        PROVE  Declares(p.a, p.b, p.tolerance)' \/ Declares(p.b, p.a, p.tolerance)'
    <3>1. p.a \in Sims /\ p.b \in Sims
      BY <1>1 DEF Pair
    <3>2. Declares(p.a, p.b, p.tolerance) \/ Declares(p.b, p.a, p.tolerance)
      BY DEF CatalogInv, PairsSound, PairsDeclared
    <3>3. QED
      BY <1>5, <3>1, <3>2 DEF Declares
  <2>2. QED
    BY <2>1 DEF CatalogInv, PairsSound, PairsDeclared, PairsSymmetric
<1>9. QED
  BY <1>4, <1>6, <1>7, <1>8

LEMMA ReverifyQuarantineKeeps ==
    ASSUME CatalogInv, NEW c \in Commands, ReverifyQuarantine(c)
    PROVE  CatalogInv'
<1> DEFINE r == [job[c] EXCEPT !.at = "reverify", !.sim = None]
<1>1. /\ job[c] \in Job /\ JobFits(c) /\ job[c].at = "quarantine" /\ job[c].sim \in Sims
      /\ ~job[c].loop /\ ~job[c].clean /\ ~At(c, "idle") /\ job \in [Commands -> Job]
      /\ row' = Quarantined(job[c].sim)
      /\ job' = [job EXCEPT ![c].at = "reverify", ![c].sim = None]
      /\ UNCHANGED <<failing, file, report, pairs, sel, bounds, orderly>>
  BY CommandTyped DEF ReverifyQuarantine, At, JobFits, Works, Onboards
<1>2. r \in Job /\ r.at = "reverify" /\ ~r.loop /\ ~r.clean /\ job' = [job EXCEPT ![c] = r]
  BY <1>1 DEF Job
<1> HIDE DEF r
<1>3. JobMoves(c, r)
  BY <1>1, <1>2 DEF JobMoves
<1>4. /\ job' \in [Commands -> Job] /\ job'[c] = r
      /\ \A d \in Commands : d # c => JobFits(d)' /\ Cleanly(d)'
  BY <1>2, <1>3, RestMoves
<1>5. RowsStay /\ Active' \subseteq Active /\ PairsSound' /\ row' \in [Sims -> Row \cup {None}]
  BY <1>1, QuarantinedStays
<1>6. JobFits(c)' /\ Cleanly(c)'
  BY <1>2, <1>4 DEF JobFits, Cleanly, Works, Onboards
<1>7. Ordered' /\ RegisteredPass'
  <2>1. ~Wrote(r.at) /\ ~Onboards(job[c].at) /\ ~Works(r.at)
    BY <1>1, <1>2 DEF Wrote, Onboards, Works
  <2>2. QED
    BY <1>1, <1>2, <1>3, <1>5, <2>1, StaysOrdered
<1>8. Current' /\ sel' \in Selection
  BY <1>1, <1>5, StaysCurrent
<1>9. CatalogTypeOK'
  BY <1>1, <1>4, <1>5, <1>8 DEF CatalogInv, CatalogTypeOK
<1>10. QED
  BY <1>4, <1>5, <1>6, <1>7, <1>8, <1>9 DEF CatalogInv

LEMMA QuarantineKeeps ==
    ASSUME CatalogInv, NEW s \in Sims, Quarantine(s)
    PROVE  CatalogInv'
<1>1. /\ row' = Quarantined(s)
      /\ job' = [c \in Commands |-> [job[c] EXCEPT !.clean = FALSE]]
      /\ UNCHANGED <<failing, file, report, pairs, sel, bounds, orderly>>
      /\ job \in [Commands -> Job]
  BY DEF Quarantine, CatalogInv, CatalogTypeOK
<1>2. ASSUME NEW c \in Commands
      PROVE  /\ job'[c] \in Job /\ job'[c].at = job[c].at /\ job'[c].sim = job[c].sim
             /\ job'[c].manifest = job[c].manifest /\ job'[c].loop = job[c].loop
             /\ ~job'[c].clean
  BY <1>1 DEF Job
<1>3. job' \in [Commands -> Job]
  <2>1. \A c \in Commands : [job[c] EXCEPT !.clean = FALSE] \in Job
    BY <1>1, <1>2
  <2>2. QED
    BY <1>1, <2>1
<1>4. RowsStay /\ Active' \subseteq Active /\ PairsSound' /\ row' \in [Sims -> Row \cup {None}]
  BY <1>1, QuarantinedStays
<1>5. \A c \in Commands : JobFits(c)' /\ Cleanly(c)'
  BY <1>1, <1>2 DEF CatalogInv, JobFits, Cleanly
<1>6. RegisteredPass'
  BY <1>1, <1>4 DEF CatalogInv, RegisteredPass, RowsStay
<1>7. Ordered'
  <2>1. OneAtATime => OneAtATime'
    BY <1>2 DEF OneAtATime
  <2>2. FileAsTold => FileAsTold'
    BY <1>1, <1>2 DEF FileAsTold
  <2>3. RowsMatch => RowsMatch'
    <3>1. SUFFICES ASSUME RowsMatch, NEW t \in Sims, row'[t] # None
                   PROVE  \/ \E c \in Commands : Onboards(job'[c].at) /\ job'[c].sim = t
                          \/ row'[t].manifest = file'[t]
      BY DEF RowsMatch
    <3>2. row[t] # None /\ row'[t].manifest = row[t].manifest /\ file' = file
      BY <1>4, <3>1 DEF RowsStay
    <3>3. CASE \E c \in Commands : Onboards(job[c].at) /\ job[c].sim = t
      BY <1>2, <3>3
    <3>4. QED
      BY <3>1, <3>2, <3>3 DEF RowsMatch
  <2>4. QED
    BY <1>1, <2>1, <2>2, <2>3 DEF CatalogInv, Ordered
<1>8. Current' /\ sel' \in Selection
  BY <1>1, <1>4, StaysCurrent
<1>9. CatalogTypeOK'
  BY <1>1, <1>3, <1>4, <1>8 DEF CatalogInv, CatalogTypeOK
<1>10. QED
  BY <1>4, <1>5, <1>6, <1>7, <1>8, <1>9 DEF CatalogInv

-----------------------------------------------------------------------------
(* The selector, and the invariant.                                        *)

LEMMA OnlySelStays ==
    ASSUME CatalogInv, UNCHANGED <<failing, file, report, registry, job, bounds, orderly>>,
           sel' \in Selection, Current'
    PROVE  CatalogInv'
<1>1. UNCHANGED <<failing, file, report, row, pairs, job, bounds, orderly>>
  BY DEF registry
<1>2. CatalogTypeOK' /\ Ordered' /\ RegisteredPass' /\ PairsSound'
  BY <1>1 DEF CatalogInv, CatalogTypeOK, Ordered, OneAtATime, FileAsTold, RowsMatch,
     RegisteredPass, PairsSound, PairsSymmetric, PairsDeclared, Declares
<1>3. \A c \in Commands : JobFits(c)' /\ Cleanly(c)'
  BY <1>1 DEF CatalogInv, JobFits, Cleanly, Indexed, Readable
<1>4. QED
  BY <1>2, <1>3 DEF CatalogInv

LEMMA SelectingKeeps ==
    ASSUME CatalogInv, Selecting
    PROVE  CatalogInv'
<1>1. /\ UNCHANGED <<failing, file, report, registry, job, bounds, orderly>>
      /\ UNCHANGED <<file, report, row, pairs>>
      /\ sel \in Selection /\ row \in [Sims -> Row \cup {None}]
  BY DEF Selecting, Select, ListEntries, SelectEnd, Filter, registry, CatalogInv, CatalogTypeOK
<1>2. /\ Active' = Active /\ Active \in SUBSET Sims
      /\ \A s : (Proposable(s)' <=> Proposable(s))
  BY <1>1 DEF Active, Registered, Proposable, LicenseOk, Compatible
<1>3. NoSelection \in Selection /\ NoSelection.at = "idle"
  BY DEF NoSelection, Selection
<1>4. CASE sel' = NoSelection
  <2>1. Current'
    BY <1>3, <1>4 DEF Current
  <2>2. QED
    BY <1>1, <1>3, <1>4, <2>1, OnlySelStays
<1>5. CASE Select
  <2>1. sel' = [NoSelection EXCEPT !.at = "list", !.version = row]
    BY <1>5 DEF Select, VersionHash
  <2>2. row \in Version
    BY <1>1 DEF Version
  <2>3. sel' \in Selection /\ sel'.at = "list" /\ sel'.version = row /\ sel'.candidates = {}
    BY <2>1, <2>2 DEF NoSelection, Selection
  <2>4. \A s \in Active : WasActive(s)'
    BY <2>3 DEF Active, Registered, WasActive
  <2>5. Current'
    BY <1>2, <2>3, <2>4 DEF Current
  <2>6. QED
    BY <1>1, <2>3, <2>5, OnlySelStays
<1>6. CASE ListEntries
  <2>1. sel.at = "list" /\ sel' = [sel EXCEPT !.at = "filter", !.todo = Active]
    BY <1>6 DEF ListEntries
  <2>2. /\ sel' \in Selection /\ sel'.at = "filter" /\ sel'.todo = Active
        /\ sel'.version = sel.version /\ sel'.onboarded = sel.onboarded
        /\ sel'.candidates = sel.candidates
    BY <1>1, <1>2, <2>1 DEF Selection
  <2>3. \A s : WasActive(s)' <=> WasActive(s)
    BY <2>2 DEF WasActive
  <2>4. ASSUME ~sel.onboarded
        PROVE  /\ \A s \in Active' : WasActive(s)'
               /\ \E L \in SUBSET Sims :
                     /\ Active' \subseteq L /\ sel'.todo \subseteq L /\ \A s \in L : WasActive(s)'
                     /\ sel'.candidates = {s \in L \ sel'.todo : Proposable(s)'}
    <3>1. sel.candidates = {} /\ \A s \in Active : WasActive(s)
      BY <2>1, <2>4 DEF CatalogInv, Current
    <3>2. {s \in Active \ sel'.todo : Proposable(s)'} = {}
      BY <2>2
    <3>3. QED
      BY <1>2, <2>2, <2>3, <3>1, <3>2
  <2>5. Current'
    BY <2>2, <2>4 DEF Current
  <2>6. QED
    BY <1>1, <2>2, <2>5, OnlySelStays
<1>7. ASSUME NEW s \in Sims, Filter(s), sel' # NoSelection
      PROVE  CatalogInv'
  <2>1. sel.at = "filter" /\ s \in sel.todo
    BY <1>7 DEF Filter
  <2>2. sel' = [sel EXCEPT !.todo = @ \ {s},
                           !.candidates = IF Proposable(s) THEN @ \cup {s} ELSE @]
    <3>1. CASE ~LicenseOk(s)
      <4>1. sel' = [sel EXCEPT !.todo = @ \ {s}]
        BY <1>7, <3>1 DEF Filter
      <4>2. QED
        BY <1>1, <3>1, <4>1 DEF Proposable, Selection
    <3>2. CASE LicenseOk(s)
      BY <1>7, <3>2 DEF Filter, Proposable
    <3>3. QED
      BY <3>1, <3>2
  <2>3. /\ sel' \in Selection /\ sel'.at = "filter" /\ sel'.todo = sel.todo \ {s}
        /\ sel'.version = sel.version /\ sel'.onboarded = sel.onboarded
        /\ sel'.candidates = (IF Proposable(s) THEN sel.candidates \cup {s} ELSE sel.candidates)
    BY <1>1, <2>1, <2>2 DEF Selection
  <2>4. \A t : WasActive(t)' <=> WasActive(t)
    BY <2>3 DEF WasActive
  <2>5. ASSUME ~sel.onboarded
        PROVE  /\ \A t \in Active' : WasActive(t)'
               /\ \E L \in SUBSET Sims :
                     /\ Active' \subseteq L /\ sel'.todo \subseteq L /\ \A t \in L : WasActive(t)'
                     /\ sel'.candidates = {t \in L \ sel'.todo : Proposable(t)'}
    <3>1. PICK L \in SUBSET Sims :
              /\ Active \subseteq L /\ sel.todo \subseteq L /\ \A t \in L : WasActive(t)
              /\ sel.candidates = {t \in L \ sel.todo : Proposable(t)}
      BY <2>1, <2>5 DEF CatalogInv, Current
    <3>2. sel'.candidates = {t \in L \ sel'.todo : Proposable(t)'}
      <4>1. \A t : t \in sel'.candidates <=> t \in L \ sel'.todo /\ Proposable(t)
        BY <2>1, <2>3, <3>1
      <4>2. QED
        BY <1>2, <4>1
    <3>3. \A t \in Active : WasActive(t)
      BY <3>1
    <3>4. QED
      BY <1>2, <2>3, <2>4, <3>1, <3>2, <3>3
  <2>6. Current'
    BY <2>3, <2>5 DEF Current
  <2>7. QED
    BY <1>1, <2>3, <2>6, OnlySelStays
<1>8. QED
  BY <1>4, <1>5, <1>6, <1>7 DEF Selecting, SelectEnd

LEMMA CommandStepKeeps ==
    ASSUME CatalogInv, NEW c \in Commands, Command(c)
    PROVE  CatalogInv'
<1>1. CASE \E s \in Sims : \E m \in Manifests[s] : Onboard(c, s, m)
  BY <1>1, OnboardKeeps
<1>2. CASE TruncateManifest(c) \/ WriteManifest(c)
  BY <1>2, WritingKeeps
<1>3. CASE Fail(c) \/ Kill(c) \/ ReindexEnd(c)
  BY <1>3, StopKeeps
<1>4. CASE \E s \in Sims : ReindexNext(c, s)
  BY <1>4, ReindexNextKeeps
<1>5. QED
  BY <1>1, <1>2, <1>3, <1>4, SmokeKeeps, CommitKeeps, ReindexKeeps, ReverifyAllKeeps,
     ReverifyKeeps, ReverifyQuarantineKeeps DEF Command

LEMMA CatalogBegins ==
    CatalogInit => CatalogInv
<1> SUFFICES ASSUME CatalogInit
             PROVE  CatalogInv
  OBVIOUS
<1>1. /\ \A s \in Sims : file[s] = None /\ report[s] = None /\ row[s] = None
      /\ \A c \in Commands : job[c] = Idle
      /\ pairs = {} /\ sel = NoSelection /\ Active = {}
  BY DEF CatalogInit, Active, Registered
<1>2. Idle \in Job /\ Idle.at = "idle" /\ ~Idle.loop /\ ~Idle.clean
  BY DEF Idle, Job
<1>3. NoSelection \in Selection /\ NoSelection.at = "idle"
  BY DEF NoSelection, Selection
<1>4. CatalogTypeOK
  <2>1. bounds \in [{"onboard", "reindex", "failure"} -> Nat]
    BY CatalogAssumption DEF CatalogInit
  <2>2. job \in [Commands -> Job]
    BY <1>2 DEF CatalogInit
  <2>3. QED
    BY <1>3, <2>1, <2>2 DEF CatalogInit, CatalogTypeOK
<1>5. \A c \in Commands : JobFits(c) /\ Cleanly(c)
  BY <1>1, <1>2 DEF JobFits, Cleanly, Onboards, Works
<1>6. Ordered /\ RegisteredPass
  BY <1>1, <1>2 DEF Ordered, OneAtATime, FileAsTold, RowsMatch, RegisteredPass, Works, Wrote, Onboards
<1>7. PairsSound /\ Current
  BY <1>1, <1>3 DEF PairsSound, PairsSymmetric, PairsDeclared, Current
<1>8. QED
  BY <1>4, <1>5, <1>6, <1>7 DEF CatalogInv

LEMMA CatalogInvariant ==
    CatalogSpec => []CatalogInv
<1>1. CatalogInv /\ [CatalogNext]_catalogVars => CatalogInv'
  <2> SUFFICES ASSUME CatalogInv, [CatalogNext]_catalogVars
               PROVE  CatalogInv'
    OBVIOUS
  <2>1. CASE CatalogNext
    BY <2>1, CommandStepKeeps, QuarantineKeeps, SelectingKeeps DEF CatalogNext
  <2>2. CASE UNCHANGED catalogVars
    <3>1. UNCHANGED <<failing, file, report, registry, job, sel, bounds, orderly>>
          /\ UNCHANGED <<row, pairs>>
      BY <2>2 DEF catalogVars, registry
    <3>2. Current'
      BY <3>1 DEF CatalogInv, Current, WasActive, Proposable, LicenseOk, Compatible, Active,
         Registered
    <3>3. QED
      BY <3>1, <3>2, OnlySelStays DEF CatalogInv, CatalogTypeOK
  <2>3. QED
    BY <2>1, <2>2
<1>2. QED
  BY <1>1, CatalogBegins, PTL DEF CatalogSpec

\* Files, registry, commands and selector keep their types.
THEOREM CatalogTypeCorrect == CatalogSpec => []CatalogTypeOK
BY CatalogInvariant, PTL DEF CatalogInv

\* Whatever commands overlap and wherever they are killed: pairs are mutual
\* and declared by the manifest registered for one of their ends; without
\* overlaps a row has the manifest of its file; and an undisturbed reindex
\* brings every readable manifest into the registry.
THEOREM IndexIsSound == CatalogSpec => []IndexSound
<1>1. CatalogInv => IndexSound
  <2> SUFFICES ASSUME CatalogInv
               PROVE  IndexSound
    OBVIOUS
  <2>1. IndexMatches
    <3>1. SUFFICES ASSUME orderly, NEW s \in Sims, row[s] # None,
                          \A c \in Commands : job[c].sim # s
                   PROVE  row[s].manifest = file[s]
      BY DEF IndexMatches, Registered
    <3>2. QED
      BY <3>1 DEF CatalogInv, Ordered, RowsMatch
  <2>2. ReindexRepairs
    <3>1. SUFFICES ASSUME NEW c \in Commands, AllIndexed(c), job[c].clean, NEW s \in Sims
                   PROVE  Indexed(s)
      BY DEF ReindexRepairs, Indexed
    <3>2. job[c].todo = {} /\ ~Onboards(job[c].at) /\ Cleanly(c)
      BY <3>1 DEF AllIndexed, At, Onboards, CatalogInv
    <3>3. QED
      BY <3>1, <3>2 DEF Cleanly
  <2>3. QED
    BY <2>1, <2>2 DEF IndexSound, CatalogInv
<1>2. QED
  BY <1>1, CatalogInvariant, PTL

\* Unless an onboarding wrote beside it, a selection that is returned proposes
\* the entries that are active, licensed and compatible at its end: a
\* quarantine beside it changes the version, and makes the selection stale.
THEOREM SelectionsAreCurrent == CatalogSpec => []SelectionIsCurrent
<1>1. CatalogInv => SelectionIsCurrent
  <2> SUFFICES ASSUME CatalogInv, Returns, ~sel.onboarded
               PROVE  sel.candidates = {s \in Active : LicenseOk(s) /\ Compatible(s)}
    BY DEF SelectionIsCurrent
  <2>1. sel.at = "filter" /\ sel.todo = {} /\ row = sel.version
    BY DEF Returns, VersionHash
  <2>2. PICK L \in SUBSET Sims :
            /\ Active \subseteq L /\ \A s \in L : WasActive(s)
            /\ sel.candidates = {s \in L \ sel.todo : Proposable(s)}
    BY <2>1 DEF CatalogInv, Current
  <2>3. L = Active
    BY <2>1, <2>2 DEF WasActive, Active, Registered
  <2>4. QED
    BY <2>1, <2>2, <2>3 DEF Proposable
<1>2. QED
  BY <1>1, CatalogInvariant, PTL

-----------------------------------------------------------------------------
(* Ranking: one selection.                                                 *)

\* sorted(run_times) has as many times as there are.
LEMMA SortedTimes ==
  ASSUME NEW times \in Seq(Nat)
  PROVE  Sorted(times) \in [1 .. Len(times) -> Nat]
<1>1. Len(times) \in Nat /\ times \in [1 .. Len(times) -> Nat]
  OBVIOUS
<1>2. Sorted(times) = InAscendingOrder(times)
  BY DEF Sorted, InAscendingOrder
<1>3. CASE Len(times) = 0
  <2>1. DOMAIN Sorted(times) = {} /\ Sorted(times) = [i \in {} |-> 0]
    BY <1>1, <1>3 DEF Sorted
  <2> QED
    BY <1>3, <2>1
<1>4. CASE Len(times) # 0
  <2>1. Len(times) \in Positive
    BY <1>1, <1>4 DEF Positive
  <2> QED
    BY <1>1, <1>2, <2>1, AscendingIs
<1> QED
  BY <1>3, <1>4

LEMMA MedianIsNat ==
  ASSUME NEW times \in Seq(Nat), Len(times) >= 1
  PROVE  Median(times) \in Nat
<1>1. PICK n \in Nat : n = Len(times) /\ n >= 1
  OBVIOUS
<1>2. Sorted(times) \in [1 .. n -> Nat]
  BY <1>1, SortedTimes
<1>3. CASE n % 2 = 1
  <2>1. n \div 2 + 1 \in 1 .. n
    BY <1>1, <1>3
  <2> QED
    BY <1>1, <1>2, <1>3, <2>1 DEF Median
<1>4. CASE n % 2 # 1
  <2>1. n \div 2 \in 1 .. n /\ n \div 2 + 1 \in 1 .. n
    BY <1>1, <1>4
  <2> QED
    BY <1>1, <1>2, <1>4, <2>1, SMTT(30) DEF Median
<1> QED
  BY <1>3, <1>4

Weighed == [capability_match : Int, license_compliance : Int, cost : Int,
            cross_simulator_availability : Int, maintenance_freshness : Int,
            ambiguity_epsilon : Int, cost_estimate_missing_penalty : Int,
            over_budget_penalty : Int]
Selectors == [weights : WeightTables, runs : Telemetries]

LEMMA SelectorTyped ==
  ASSUME NEW self \in Selectors
  PROVE  /\ self.weights \in Weighed
         /\ self.runs \in [Simulators -> Seq(Nat)]
BY RankingAssumption DEF Selectors, Weighed

LEMMA ProductOfNats == \A a, b \in Nat : a * b \in Nat
OBVIOUS

LEMMA ProductGrows ==
  ASSUME NEW w \in Nat, NEW x \in Int, NEW y \in Int, x <= y
  PROVE  w * x <= w * y /\ w * x \in Int /\ w * y \in Int
OBVIOUS

\* What is known of one candidate.
LEMMA EntryTyped ==
  ASSUME entries \in Registries, NEW s \in Simulators
  PROVE  /\ entries[s].rate \in Nat /\ entries[s].days \in Nat /\ entries[s].smoke \in Nat
         /\ entries[s].runtime \in Nat \cup {Unknown}
BY RankingAssumption

LEMMA CapabilityTyped == \A s : CapabilityMatch(s) \in Nat
BY DEF CapabilityMatch

LEMMA FreshnessTyped ==
  ASSUME entries \in Registries, NEW s \in Simulators
  PROVE  Freshness(s) \in Nat
<1>1. entries[s].days \in Nat
  BY EntryTyped
<1>2. ASSUME NEW d \in 0 .. 730
      PROVE  (100 * (730 - d)) \div 550 \in Nat
  OBVIOUS
<1> QED
  BY <1>1, <1>2 DEF Freshness

LEMMA CostTyped ==
  ASSUME entries \in Registries, NEW self \in Selectors, NEW s \in Simulators
  PROVE  Estimated(self, s) \in Nat /\ ExpectedCost(self, s) \in Nat
<1>1. self.runs[s] \in Seq(Nat) /\ Len(self.runs[s]) \in Nat
  BY SelectorTyped
<1>2. Estimated(self, s) \in Nat
  <2>1. CASE Len(self.runs[s]) >= MinRuns
    BY <1>1, <2>1, MedianIsNat, RankingAssumption DEF Estimated
  <2>2. CASE ~(Len(self.runs[s]) >= MinRuns)
    BY <2>2, EntryTyped DEF Estimated, Unknown
  <2> QED
    BY <2>1, <2>2
<1>3. ExpectedCost(self, s) \in Nat
  <2>1. (IF CostMissing(self, s) THEN 20 ELSE Estimated(self, s)) \in Nat
    BY <1>2
  <2>2. entries[s].rate \in Nat
    BY EntryTyped
  <2> QED
    BY <2>1, <2>2, ProductOfNats DEF ExpectedCost
<1> QED
  BY <1>2, <1>3

\* The costs of the candidates lie in their spread.
LEMMA CostsInSpread ==
  ASSUME entries \in Registries, NEW self \in Selectors,
         NEW C \in SUBSET Simulators, NEW s \in C
  PROVE  /\ Cheapest(self, C) \in Nat /\ Spread(self, C) \in Nat \ {0}
         /\ Cheapest(self, C) <= ExpectedCost(self, s)
         /\ ExpectedCost(self, s) - Cheapest(self, C) <= Spread(self, C)
<1> DEFINE cost == [c \in C |-> ExpectedCost(self, c)]
           costs == {ExpectedCost(self, c) : c \in C}
<1>1. costs \in SUBSET Nat /\ ExpectedCost(self, s) \in costs
  BY CostTyped
<1>2. IsFiniteSet(costs)
  <2>1. cost \in Surjection(C, costs)
    BY DEF Surjection
  <2>2. IsFiniteSet(C)
    BY FS_Subset, RankingAssumption
  <2> HIDE DEF cost, costs
  <2> QED
    BY <2>1, <2>2, FS_Surjection
<1>3. /\ Min(costs) \in costs /\ Max(costs) \in costs
      /\ \A x \in costs : Min(costs) <= x /\ x <= Max(costs)
  <2> HIDE DEF costs
  <2>1. costs \in SUBSET Int /\ costs # {}
    BY <1>1
  <2> QED
    BY <1>2, <2>1, LeastAndGreatest
<1>4. Min(costs) = Cheapest(self, C) /\ Max(costs) = Dearest(self, C)
  BY DEF Cheapest, Dearest
<1>5. /\ Cheapest(self, C) \in Nat /\ Dearest(self, C) \in Nat /\ ExpectedCost(self, s) \in Nat
      /\ Cheapest(self, C) <= ExpectedCost(self, s)
      /\ ExpectedCost(self, s) <= Dearest(self, C)
  <2> HIDE DEF costs
  <2> QED
    BY <1>1, <1>3, <1>4
<1> QED
  BY <1>5 DEF Spread

\* The subscores of one candidate, weighted; without the cost, and not yet
\* multiplied by the spread.
Weighted(self, s, C) ==
    self.weights.capability_match * CapabilityMatch(s)
    + self.weights.license_compliance * 100
    + self.weights.cross_simulator_availability * (IF Partners(s, C) # {} THEN 100 ELSE 0)
    + self.weights.maintenance_freshness * Freshness(s)
Penalty(self, s, C, cap) ==
    IF OverBudget(self, s, cap) THEN 100 * self.weights.over_budget_penalty * Spread(self, C)
    ELSE 0

LEMMA ScoreIs ==
  ASSUME NEW self, NEW s, NEW C, NEW cap
  PROVE  FinalScore(self, s, C, cap) =
           AtLeast(0, AtMost(10000 * Spread(self, C),
               (Spread(self, C) * Weighted(self, s, C)
                    + self.weights.cost * CostSubscore(self, s, C))
               - Penalty(self, s, C, cap)))
BY DEF FinalScore, Weighted, Penalty

LEMMA WeightsTyped ==
  ASSUME NEW self \in Selectors
  PROVE  /\ self.weights.capability_match \in Int
         /\ self.weights.license_compliance \in Int
         /\ self.weights.cost \in Int
         /\ self.weights.cross_simulator_availability \in Int
         /\ self.weights.maintenance_freshness \in Int
         /\ self.weights.ambiguity_epsilon \in Int
         /\ self.weights.cost_estimate_missing_penalty \in Int
         /\ self.weights.over_budget_penalty \in Int
BY SelectorTyped DEF Weighed

LEMMA ProductOfInts == \A a, b \in Int : a * b \in Int
OBVIOUS

LEMMA PartsTyped ==
  ASSUME entries \in Registries, NEW self \in Selectors,
         NEW C \in SUBSET Simulators, NEW s \in C, NEW cap
  PROVE  /\ Weighted(self, s, C) \in Int
         /\ CostSubscore(self, s, C) \in Int
         /\ Penalty(self, s, C, cap) \in Int
<1>1. Spread(self, C) \in Int /\ Cheapest(self, C) \in Int /\ ExpectedCost(self, s) \in Int
  BY CostsInSpread, CostTyped
<1>2. Weighted(self, s, C) \in Int
  <2>1. self.weights.capability_match * CapabilityMatch(s) \in Int
    BY WeightsTyped, CapabilityTyped, ProductOfInts
  <2>2. self.weights.cross_simulator_availability * (IF Partners(s, C) # {} THEN 100 ELSE 0) \in Int
    BY WeightsTyped
  <2>3. self.weights.maintenance_freshness * Freshness(s) \in Int
    BY WeightsTyped, FreshnessTyped, ProductOfInts
  <2>4. self.weights.license_compliance * 100 \in Int
    BY WeightsTyped
  <2> QED
    BY <2>1, <2>2, <2>3, <2>4 DEF Weighted
<1>3. CostSubscore(self, s, C) \in Int
  <2>1. self.weights.cost_estimate_missing_penalty * Spread(self, C) \in Int
    BY <1>1, WeightsTyped, ProductOfInts
  <2> QED
    BY <1>1, <2>1 DEF CostSubscore, AtLeast
<1>4. Penalty(self, s, C, cap) \in Int
  <2>1. (100 * self.weights.over_budget_penalty) * Spread(self, C) \in Int
    BY <1>1, WeightsTyped, ProductOfInts
  <2> QED
    BY <2>1 DEF Penalty
<1> QED
  BY <1>2, <1>3, <1>4

LEMMA ScoreTyped ==
  ASSUME entries \in Registries, NEW self \in Selectors,
         NEW C \in SUBSET Simulators, NEW s \in C, NEW cap
  PROVE  FinalScore(self, s, C, cap) \in Int
<1>1. Spread(self, C) \in Int
  BY CostsInSpread
<1>2. Spread(self, C) * Weighted(self, s, C) \in Int
  BY <1>1, PartsTyped, ProductOfInts
<1>3. self.weights.cost * CostSubscore(self, s, C) \in Int
  BY PartsTyped, WeightsTyped, ProductOfInts
<1> QED
  BY <1>1, <1>2, <1>3, PartsTyped, ScoreIs DEF AtLeast, AtMost

\* Weights and penalties that are not negative.
NotNegative(w) ==
    /\ {w.capability_match, w.cost, w.cross_simulator_availability,
        w.maintenance_freshness} \subseteq Nat
    /\ {w.ambiguity_epsilon, w.cost_estimate_missing_penalty,
        w.over_budget_penalty} \subseteq Nat

\* Who is in no respect worse scores no less.
LEMMA ScoreGrows ==
  ASSUME entries \in Registries, NEW self \in Selectors, NotNegative(self.weights),
         NEW C \in SUBSET Simulators, NEW s \in C, NEW t \in C,
         NEW cap \in Nat \cup {Unknown}, NEW partners,
         partners[s] = Partners(s, C), partners[t] = Partners(t, C),
         AtLeastAsGood(self, s, t, partners)
  PROVE  FinalScore(self, t, C, cap) <= FinalScore(self, s, C, cap)
<1> DEFINE w == self.weights
<1>1. PICK spread \in Nat : spread = Spread(self, C)
  BY CostsInSpread
<1>2. /\ w.capability_match \in Nat /\ w.cost \in Nat /\ w.cross_simulator_availability \in Nat
      /\ w.maintenance_freshness \in Nat /\ w.cost_estimate_missing_penalty \in Nat
      /\ w.over_budget_penalty \in Nat /\ w.license_compliance * 100 \in Int
  BY WeightsTyped DEF NotNegative
<1>3. ExpectedCost(self, s) <= ExpectedCost(self, t) /\ (CostMissing(self, s) => CostMissing(self, t))
  BY DEF AtLeastAsGood
<1>4. Weighted(self, t, C) <= Weighted(self, s, C)
  <2>1. /\ CapabilityMatch(t) \in Int /\ CapabilityMatch(s) \in Int
        /\ CapabilityMatch(t) <= CapabilityMatch(s)
    BY CapabilityTyped DEF AtLeastAsGood
  <2>2. /\ Freshness(t) \in Int /\ Freshness(s) \in Int /\ Freshness(t) <= Freshness(s)
    BY FreshnessTyped DEF AtLeastAsGood
  <2>3. (IF Partners(t, C) # {} THEN 100 ELSE 0) <= (IF Partners(s, C) # {} THEN 100 ELSE 0)
    BY DEF AtLeastAsGood
  <2>4. w.capability_match * CapabilityMatch(t) <= w.capability_match * CapabilityMatch(s)
        /\ w.capability_match * CapabilityMatch(t) \in Int
        /\ w.capability_match * CapabilityMatch(s) \in Int
    BY <1>2, <2>1, ProductGrows
  <2>5. w.maintenance_freshness * Freshness(t) <= w.maintenance_freshness * Freshness(s)
        /\ w.maintenance_freshness * Freshness(t) \in Int
        /\ w.maintenance_freshness * Freshness(s) \in Int
    BY <1>2, <2>2, ProductGrows
  <2>6. PICK a, b \in {0, 100} : /\ a = IF Partners(t, C) # {} THEN 100 ELSE 0
                                 /\ b = IF Partners(s, C) # {} THEN 100 ELSE 0
    OBVIOUS
  <2>7. /\ w.cross_simulator_availability * a <= w.cross_simulator_availability * b
        /\ w.cross_simulator_availability * a \in Int
        /\ w.cross_simulator_availability * b \in Int
    BY <1>2, <2>3, <2>6
  <2> HIDE DEF w
  <2>8. /\ Weighted(self, t, C) =
             w.capability_match * CapabilityMatch(t) + w.license_compliance * 100
             + w.cross_simulator_availability * a + w.maintenance_freshness * Freshness(t)
        /\ Weighted(self, s, C) =
             w.capability_match * CapabilityMatch(s) + w.license_compliance * 100
             + w.cross_simulator_availability * b + w.maintenance_freshness * Freshness(s)
    BY <2>6 DEF Weighted, w
  <2> QED
    BY <1>2, <2>4, <2>5, <2>7, <2>8
<1>5. CostSubscore(self, t, C) <= CostSubscore(self, s, C)
  <2>1. PICK p \in Nat : p = w.cost_estimate_missing_penalty * spread
    BY <1>1, <1>2, ProductOfNats
  <2>2. PICK cheapest \in Nat : cheapest = Cheapest(self, C)
    BY CostsInSpread
  <2>3. PICK x \in Nat : x = ExpectedCost(self, s)
    BY CostTyped
  <2>4. PICK y \in Nat : y = ExpectedCost(self, t)
    BY CostTyped
  <2>5. x <= y /\ y - cheapest <= spread
    BY <1>1, <1>3, <2>2, <2>3, <2>4, CostsInSpread
  <2>6. /\ CostSubscore(self, s, C) = IF CostMissing(self, s)
              THEN AtLeast(0, 100 * (spread - (x - cheapest)) - p)
              ELSE 100 * (spread - (x - cheapest))
        /\ CostSubscore(self, t, C) = IF CostMissing(self, t)
              THEN AtLeast(0, 100 * (spread - (y - cheapest)) - p)
              ELSE 100 * (spread - (y - cheapest))
    BY <1>1, <2>1, <2>2, <2>3, <2>4 DEF CostSubscore
  <2> QED
    BY <1>1, <1>3, <2>1, <2>5, <2>6 DEF AtLeast
<1>6. Penalty(self, s, C, cap) <= Penalty(self, t, C, cap)
  <2>1. OverBudget(self, s, cap) => OverBudget(self, t, cap)
    BY <1>3, CostTyped DEF OverBudget, Unknown
  <2>2. (100 * w.over_budget_penalty) * spread \in Nat
    BY <1>1, <1>2, ProductOfNats
  <2> QED
    BY <1>1, <2>1, <2>2 DEF Penalty
<1>7. /\ spread * Weighted(self, t, C) <= spread * Weighted(self, s, C)
      /\ spread * Weighted(self, t, C) \in Int /\ spread * Weighted(self, s, C) \in Int
  BY <1>1, <1>4, PartsTyped, ProductGrows
<1>8. /\ w.cost * CostSubscore(self, t, C) <= w.cost * CostSubscore(self, s, C)
      /\ w.cost * CostSubscore(self, t, C) \in Int /\ w.cost * CostSubscore(self, s, C) \in Int
  BY <1>2, <1>5, PartsTyped, ProductGrows
<1>9. Penalty(self, s, C, cap) \in Int /\ Penalty(self, t, C, cap) \in Int
  BY PartsTyped
<1> QED
  BY <1>1, <1>6, <1>7, <1>8, <1>9, ScoreIs DEF AtLeast, AtMost

\* sorted(candidates_raw) has every candidate once, best first.
LEMMA CandidatesSorted ==
  ASSUME NEW C \in SUBSET Nat, IsFiniteSet(C), NEW score, \A s \in C : score[s] \in Int
  PROVE  LET order == SortedCandidates(C, score) IN
         /\ order \in Seq(C) /\ ToSet(order) = C
         /\ \A i, j \in DOMAIN order : i < j =>
              /\ score[order[j]] <= score[order[i]]
              /\ order[i] # order[j]
<1> DEFINE P == {<<score[s], s>> : s \in C}
           Better(p, q) == p[1] > q[1] \/ (p[1] = q[1] /\ p[2] < q[2])
           R == {pq \in P \X P : Better(pq[1], pq[2])}
           n == Cardinality(P)
           ranked == [i \in 1 .. n |->
               CHOOSE x \in P : Cardinality({y \in P : Better(y, x)}) = i - 1]
<1>1. \A x \in P : x[1] \in Int /\ x[2] \in C /\ x = <<x[1], x[2]>> /\ x[1] = score[x[2]]
  OBVIOUS
<1>2. IsFiniteSet(P) /\ n \in Nat
  <2>1. [s \in C |-> <<score[s], s>>] \in Surjection(C, P)
    BY DEF Surjection
  <2>2. IsFiniteSet(P)
    <3> HIDE DEF P
    <3> QED
      BY <2>1, FS_Surjection
  <2> QED
    BY <2>2, FS_CardinalityType
<1>3. StrictlyOrders(R, P)
  <2>1. ASSUME NEW x \in P, NEW y \in P, x # y
        PROVE  Better(x, y) \/ Better(y, x)
    <3>1. x[2] # y[2] /\ {x[2], y[2]} \subseteq Nat /\ {x[1], y[1]} \subseteq Int
      <4> HIDE DEF P
      <4> QED
        BY <1>1, <2>1
    <3> QED
      BY <3>1
  <2>2. ASSUME NEW x \in P, NEW y \in P, NEW z \in P, Better(x, y), Better(y, z)
        PROVE  Better(x, z)
    <3>1. {x[2], y[2], z[2]} \subseteq Nat /\ {x[1], y[1], z[1]} \subseteq Int
      <4> HIDE DEF P
      <4> QED
        BY <1>1
    <3> QED
      BY <2>2, <3>1
  <2>3. ASSUME NEW x \in P
        PROVE  ~Better(x, x)
    <3>1. {x[2]} \subseteq Nat /\ {x[1]} \subseteq Int
      <4> HIDE DEF P
      <4> QED
        BY <1>1
    <3> QED
      BY <3>1
  <2> HIDE DEF P, Better
  <2> QED
    BY <2>1, <2>2, <2>3 DEF StrictlyOrders
<1>4. \A x \in P : Lower(R, P, x) = {y \in P : Better(y, x)}
  <2> HIDE DEF P, Better
  <2> QED
    BY DEF Lower
<1>5. \A i \in 1 .. n : ranked[i] \in P /\ Cardinality(Lower(R, P, ranked[i])) = i - 1
  <2> SUFFICES ASSUME NEW i \in 1 .. n
               PROVE  ranked[i] \in P /\ Cardinality(Lower(R, P, ranked[i])) = i - 1
    OBVIOUS
  <2>1. PICK x \in P : Cardinality(Lower(R, P, x)) = i - 1
    <3> HIDE DEF P, R
    <3> QED
      BY <1>2, <1>3, RankIsTaken
  <2> HIDE DEF P, R, Better
  <2> QED
    BY <1>4, <2>1
<1>6. ranked \in [1 .. n -> P]
  BY <1>5
<1>7. /\ \A x \in P : \E i \in 1 .. n : ranked[i] = x
      /\ \A i, j \in 1 .. n : i < j => <<ranked[i], ranked[j]>> \in R
  <2> HIDE DEF ranked, R, P
  <2> QED
    BY <1>2, <1>3, <1>5, <1>6, RanksAreInOrder
<1>8. ranked = InOrder(P, LAMBDA p, q : p[1] > q[1] \/ (p[1] = q[1] /\ p[2] < q[2]))
  BY DEF InOrder
<1>9. SortedCandidates(C, score) = [i \in DOMAIN ranked |-> ranked[i][2]]
  BY <1>8 DEF SortedCandidates
<1>10. PICK order : order = SortedCandidates(C, score)
  OBVIOUS
<1> HIDE DEF ranked
<1>11. order = [i \in 1 .. n |-> ranked[i][2]]
  BY <1>6, <1>9, <1>10
<1>12. order \in [1 .. n -> C]
  BY <1>1, <1>6, <1>11
<1>13. order \in Seq(C) /\ DOMAIN order = 1 .. n
  BY <1>2, <1>12, FunctionIsSeq
<1>14. ToSet(order) = C
  <2>1. ASSUME NEW s \in C
        PROVE  \E i \in 1 .. n : order[i] = s
    <3>1. <<score[s], s>> \in P
      OBVIOUS
    <3>2. PICK i \in 1 .. n : ranked[i] = <<score[s], s>>
      BY <1>7, <3>1
    <3>3. <<score[s], s>>[2] = s
      OBVIOUS
    <3> HIDE DEF P
    <3> QED
      BY <1>11, <3>2, <3>3
  <2> QED
    BY <1>12, <2>1 DEF ToSet
<1>15. ASSUME NEW i \in DOMAIN order, NEW j \in DOMAIN order, i < j
       PROVE  score[order[j]] <= score[order[i]] /\ order[i] # order[j]
  <2>1. i \in 1 .. n /\ j \in 1 .. n
    BY <1>13
  <2>2. Better(ranked[i], ranked[j])
    BY <1>7, <1>15, <2>1
  <2>3. /\ order[i] = ranked[i][2] /\ order[j] = ranked[j][2]
        /\ ranked[i][1] = score[order[i]] /\ ranked[j][1] = score[order[j]]
        /\ ranked[i][1] \in Int /\ ranked[j][1] \in Int /\ order[i] \in Nat /\ order[j] \in Nat
    <3> HIDE DEF P
    <3> QED
      BY <1>1, <1>6, <1>11, <1>12, <2>1
  <2> QED
    BY <2>2, <2>3
<1> QED
  BY <1>10, <1>13, <1>14, <1>15

LEMMA SuitableAre ==
  ASSUME NEW request
  PROVE  /\ Suitable(request) \in SUBSET Simulators /\ IsFiniteSet(Suitable(request))
         /\ Suitable(request) \in SUBSET Nat
<1>1. Suitable(request) \in SUBSET Simulators
  BY DEF Suitable
<1> QED
  BY <1>1, FS_Subset, RankingAssumption

\* What a selection returns can be stood by.
LEMMA ResultSound ==
  ASSUME entries \in Registries, NEW self \in Selectors, NotNegative(self.weights),
         NEW request, request.cap \in Nat \cup {Unknown}
  PROVE  /\ NoneOvertaken(self, SelectionResult(self, request))
         /\ ModeFits(SelectionResult(self, request))
<1>1. PICK C \in SUBSET Simulators : C = Suitable(request) /\ IsFiniteSet(C) /\ C \in SUBSET Nat
  BY SuitableAre
<1> DEFINE score == [s \in C |-> FinalScore(self, s, C, request.cap)]
           partners == [s \in C |-> Partners(s, C)]
           over == {s \in C : OverBudget(self, s, request.cap)}
<1>2. PICK order : order = SortedCandidates(C, score)
  OBVIOUS
<1>3. PICK r : r = SelectionResult(self, request)
  OBVIOUS
<1>4. /\ r.order = order /\ r.score = score /\ r.partners = partners /\ r.over = over
      /\ r.ambiguous = Ambiguous(self, order, C, score)
      /\ r.failure_mode = FailureMode(C, partners, over)
  BY <1>1, <1>2, <1>3 DEF SelectionResult
<1>5. \A s \in C : score[s] \in Int /\ score[s] = FinalScore(self, s, C, request.cap)
  BY ScoreTyped
<1>6. \A s \in C : partners[s] = Partners(s, C)
  OBVIOUS
<1> HIDE DEF score, partners
<1>7. /\ order \in Seq(C) /\ ToSet(order) = C
      /\ \A i, j \in DOMAIN order : i < j =>
           score[order[j]] <= score[order[i]] /\ order[i] # order[j]
  BY <1>1, <1>2, <1>5, CandidatesSorted
<1>8. ASSUME NEW i \in DOMAIN order, NEW j \in DOMAIN order, i < j,
             AtLeastAsGood(self, order[j], order[i], partners)
      PROVE  score[order[i]] = score[order[j]]
  <2>1. order[i] \in C /\ order[j] \in C
    BY <1>7
  <2>2. score[order[i]] <= score[order[j]]
    BY <1>5, <1>6, <1>8, <2>1, ScoreGrows
  <2>3. score[order[j]] <= score[order[i]]
    BY <1>7, <1>8
  <2> QED
    BY <1>5, <2>1, <2>2, <2>3
<1>9. NoneOvertaken(self, r)
  BY <1>4, <1>8 DEF NoneOvertaken
<1>10. \A s, t \in C : t \in partners[s] <=> s \in partners[t]
  BY <1>6 DEF Partners, CanCrossValidate
<1>11. r.failure_mode = "ok" =>
          C \ over # {} /\ \E s, t \in C : s # t /\ t \in partners[s]
  BY <1>4, <1>6 DEF FailureMode, Partners, CanCrossValidate
<1>12. ASSUME C # {}, ~r.ambiguous, NEW s \in C \ {Head(order)}
       PROVE  score[s] < score[Head(order)]
  <2>1. PICK k \in DOMAIN order : order[k] = s
    BY <1>7, <1>12 DEF ToSet
  <2>2. order # <<>> /\ DOMAIN order = 1 .. Len(order) /\ Len(order) \in Nat /\ Head(order) = order[1]
    BY <1>7, <2>1
  <2>3. k >= 2 /\ k \in Nat /\ Len(order) >= 2 /\ 1 \in DOMAIN order /\ 2 \in DOMAIN order
    BY <1>12, <2>1, <2>2
  <2>4. order[1] \in C /\ order[2] \in C
    BY <1>7, <2>3
  <2>5. ~(score[order[1]] - score[order[2]]
            <= 100 * self.weights.ambiguity_epsilon * Spread(self, C))
    BY <1>4, <1>12, <2>3 DEF Ambiguous
  <2>6. (100 * self.weights.ambiguity_epsilon) * Spread(self, C) \in Nat
    <3>1. Spread(self, C) \in Nat
      BY <1>12, CostsInSpread
    <3>2. 100 * self.weights.ambiguity_epsilon \in Nat
      BY WeightsTyped DEF NotNegative
    <3> QED
      BY <3>1, <3>2, ProductOfNats
  <2>7. score[order[2]] < score[order[1]]
    BY <1>5, <2>4, <2>5, <2>6
  <2>8. score[s] <= score[order[2]]
    <3>1. CASE k = 2
      BY <1>5, <2>1, <2>4, <3>1
    <3>2. CASE k > 2
      BY <1>7, <2>1, <2>3, <3>2
    <3> QED
      BY <2>3, <3>1, <3>2
  <2> QED
    BY <1>5, <1>12, <2>2, <2>4, <2>7, <2>8
<1>13. ModeFits(r)
  BY <1>4, <1>7, <1>10, <1>11, <1>12 DEF ModeFits
<1> QED
  BY <1>3, <1>9, <1>13

\* The hash of a selector tells apart whatever its results depend on.
LEMMA SameHashSameResult ==
  ASSUME NEW self \in Selectors, NEW other \in Selectors, NEW request,
         SelectionHash(self) = SelectionHash(other)
  PROVE  SelectionResult(self, request) = SelectionResult(other, request)
<1>1. /\ self.weights = other.weights
      /\ \A s \in Simulators : Sorted(self.runs[s]) = Sorted(other.runs[s])
  BY DEF SelectionHash
<1>2. ASSUME NEW s \in Simulators
      PROVE  Estimated(self, s) = Estimated(other, s)
  <2>1. self.runs[s] \in Seq(Nat) /\ other.runs[s] \in Seq(Nat)
    BY SelectorTyped
  <2>2. /\ Sorted(self.runs[s]) \in [1 .. Len(self.runs[s]) -> Nat]
        /\ Sorted(other.runs[s]) \in [1 .. Len(other.runs[s]) -> Nat]
    BY <2>1, SortedTimes
  <2>3. 1 .. Len(self.runs[s]) = 1 .. Len(other.runs[s])
    BY <1>1, <2>2
  <2>4. Len(self.runs[s]) = Len(other.runs[s])
    BY <2>1, <2>3
  <2>5. Median(self.runs[s]) = Median(other.runs[s])
    BY <1>1, <2>4 DEF Median
  <2> QED
    BY <2>4, <2>5 DEF Estimated
<1>3. \A s \in Simulators : /\ CostMissing(self, s) <=> CostMissing(other, s)
                            /\ ExpectedCost(self, s) = ExpectedCost(other, s)
  BY <1>2 DEF CostMissing, ExpectedCost
<1>4. PICK C \in SUBSET Simulators : C = Suitable(request)
  BY SuitableAre
<1>5. {ExpectedCost(self, s) : s \in C} = {ExpectedCost(other, s) : s \in C}
  BY <1>3
<1>6. Cheapest(self, C) = Cheapest(other, C) /\ Dearest(self, C) = Dearest(other, C)
  BY <1>5 DEF Cheapest, Dearest
<1>7. Spread(self, C) = Spread(other, C)
  BY <1>6 DEF Spread
<1>8. \A s \in C : OverBudget(self, s, request.cap) <=> OverBudget(other, s, request.cap)
  BY <1>3 DEF OverBudget
<1>9. \A s \in C : CostSubscore(self, s, C) = CostSubscore(other, s, C)
  BY <1>1, <1>3, <1>6, <1>7 DEF CostSubscore
<1>10. \A s \in C : FinalScore(self, s, C, request.cap) = FinalScore(other, s, C, request.cap)
  <2>1. \A s \in C : Weighted(self, s, C) = Weighted(other, s, C)
    BY <1>1 DEF Weighted
  <2>2. \A s \in C : Penalty(self, s, C, request.cap) = Penalty(other, s, C, request.cap)
    BY <1>1, <1>7, <1>8 DEF Penalty
  <2> QED
    BY <1>1, <1>7, <1>9, <2>1, <2>2, ScoreIs
<1>11. PICK score : /\ score = [s \in C |-> FinalScore(self, s, C, request.cap)]
                    /\ score = [s \in C |-> FinalScore(other, s, C, request.cap)]
  BY <1>10
<1>12. PICK over : /\ over = {s \in C : OverBudget(self, s, request.cap)}
                   /\ over = {s \in C : OverBudget(other, s, request.cap)}
  BY <1>8
<1>13. \A order : Ambiguous(self, order, C, score) = Ambiguous(other, order, C, score)
  BY <1>1, <1>7 DEF Ambiguous
<1> QED
  BY <1>4, <1>11, <1>12, <1>13 DEF SelectionResult

-----------------------------------------------------------------------------
(* Ranking: selections one after another.                                  *)

\* As long as the entries stay, so does what any selector makes of them.
LEMMA EntriesStay ==
  ASSUME entries' = entries
  PROVE  \A self, request : SelectionResult(self, request)' = SelectionResult(self, request)
<1>1. \A s, t : Declared(s, t)' <=> Declared(s, t)
  BY DEF Declared
<1>2. \A s : CapabilityMatch(s)' = CapabilityMatch(s)
  BY <1>1 DEF CapabilityMatch
<1>3. \A x, s : Allows(x, s)' <=> Allows(x, s)
  BY DEF Allows
<1>4. \A request : Suitable(request)' = Suitable(request)
  BY <1>2, <1>3 DEF Suitable
<1>5. \A s, C : Partners(s, C)' = Partners(s, C)
  BY <1>1 DEF Partners, CanCrossValidate
<1>6. \A self, s : Estimated(self, s)' = Estimated(self, s)
  BY DEF Estimated
<1>7. \A self, s : /\ CostMissing(self, s)' <=> CostMissing(self, s)
                   /\ ExpectedCost(self, s)' = ExpectedCost(self, s)
  BY <1>6 DEF CostMissing, ExpectedCost
<1>8. \A s : Freshness(s)' = Freshness(s)
  BY DEF Freshness
<1>9. \A self, s, cap : OverBudget(self, s, cap)' <=> OverBudget(self, s, cap)
  BY <1>7 DEF OverBudget
<1>10. \A self, C : /\ Cheapest(self, C)' = Cheapest(self, C)
                    /\ Dearest(self, C)' = Dearest(self, C)
  <2> SUFFICES ASSUME NEW self, NEW C
               PROVE  Cheapest(self, C)' = Cheapest(self, C) /\ Dearest(self, C)' = Dearest(self, C)
    OBVIOUS
  <2>1. {ExpectedCost(self, s)' : s \in C} = {ExpectedCost(self, s) : s \in C}
    BY <1>7
  <2> QED
    BY <2>1 DEF Cheapest, Dearest
<1>11. \A self, C : Spread(self, C)' = Spread(self, C)
  BY <1>10 DEF Spread
<1>12. \A self, s, C : CostSubscore(self, s, C)' = CostSubscore(self, s, C)
  BY <1>7, <1>10, <1>11 DEF CostSubscore
<1>13. \A self, s, C, cap : FinalScore(self, s, C, cap)' = FinalScore(self, s, C, cap)
  BY <1>2, <1>5, <1>8, <1>9, <1>11, <1>12 DEF FinalScore
<1>14. \A self, order, C, score :
          Ambiguous(self, order, C, score)' <=> Ambiguous(self, order, C, score)
  BY <1>11 DEF Ambiguous
<1> SUFFICES ASSUME NEW self, NEW request
             PROVE  SelectionResult(self, request)' = SelectionResult(self, request)
  OBVIOUS
<1>15. PICK C : C = Suitable(request) /\ C = Suitable(request)'
  BY <1>4
<1>16. PICK score : /\ score = [s \in C |-> FinalScore(self, s, C, request.cap)]
                    /\ score = [s \in C |-> FinalScore(self, s, C, request.cap)']
  BY <1>13
<1>17. PICK partners : /\ partners = [s \in C |-> Partners(s, C)]
                       /\ partners = [s \in C |-> Partners(s, C)']
  BY <1>5
<1>18. PICK over : /\ over = {s \in C : OverBudget(self, s, request.cap)}
                   /\ over = {s \in C : OverBudget(self, s, request.cap)'}
  BY <1>9
<1> QED
  BY <1>14, <1>15, <1>16, <1>17, <1>18 DEF SelectionResult

Selected(s) ==
    /\ s.selector \in Selectors /\ s.request.cap \in Caps
    /\ s.result = SelectionResult(s.selector, s.request)

RankingInv ==
    /\ entries \in Registries
    /\ selector \in Selectors \cup {NoSelector}
    /\ scope.simulators \subseteq Simulators
    /\ IsFiniteSet(returned) /\ Cardinality(returned) <= Selections
    /\ \A s \in returned : Selected(s)
    /\ \A key \in DOMAIN traces : \E s \in returned :
          SelectionHash(s.selector) = key /\ s.result = traces[key]

LEMMA SelectedStay ==
  ASSUME RankingInv, entries' = entries
  PROVE  \A s \in returned : Selected(s)'
BY EntriesStay DEF RankingInv, Selected

LEMMA RankingBegins == RankingInit => RankingInv
BY FS_EmptySet, RankingAssumption DEF RankingInit, RankingInv

LEMMA RankingKeeps == RankingInv /\ [RankingNext]_rankingVars => RankingInv'
<1> SUFFICES ASSUME RankingInv, [RankingNext]_rankingVars
             PROVE  RankingInv'
  OBVIOUS
<1>1. CASE NewSelector
  BY <1>1, SelectedStay DEF NewSelector, RankingInv, Selectors
<1>2. CASE MoveScope
  <2>1. scope'.simulators \subseteq Simulators
    BY <1>2, RankingAssumption DEF MoveScope, UpdateDomainScope, RankingInv
  <2> QED
    BY <1>2, <2>1, SelectedStay DEF MoveScope, RankingInv
<1>3. CASE RankCandidates
  <2>1. PICK cap \in Caps :
            LET request == [scope |-> scope, cap |-> cap]
                result  == SelectionResult(selector, request)
            IN  /\ WriteTrace(SelectionHash(selector), result)
                /\ returned' = returned \cup
                     {[selector |-> selector, request |-> request, result |-> result]}
    BY <1>3 DEF RankCandidates
  <2>2. UNCHANGED <<entries, selector, scope>> /\ selector \in Selectors
        /\ Cardinality(returned) < Selections
    BY <1>3 DEF RankCandidates, RankingInv
  <2>3. PICK request : request = [scope |-> scope, cap |-> cap]
    OBVIOUS
  <2>4. PICK result : result = SelectionResult(selector, request)
    OBVIOUS
  <2>5. PICK new : new = [selector |-> selector, request |-> request, result |-> result]
    OBVIOUS
  <2>6. returned' = returned \cup {new} /\ WriteTrace(SelectionHash(selector), result)
    BY <2>1, <2>3, <2>4, <2>5
  <2>7. IsFiniteSet(returned') /\ Cardinality(returned') <= Selections
    <3>1. IsFiniteSet(returned) /\ Cardinality(returned) \in Nat
      BY FS_CardinalityType DEF RankingInv
    <3>2. /\ IsFiniteSet(returned \cup {new})
          /\ Cardinality(returned \cup {new}) =
               IF new \in returned THEN Cardinality(returned) ELSE Cardinality(returned) + 1
      BY <3>1, FS_AddElement, Zenon
    <3>3. Selections \in Nat
      BY RankingAssumption
    <3>4. Cardinality(returned \cup {new}) <= Selections
      BY <2>2, <3>1, <3>2, <3>3
    <3> QED
      BY <2>6, <3>2, <3>4, Zenon
  <2>8. Selected(new)'
    <3>1. SelectionResult(selector, request)' = SelectionResult(selector, request)
      <4>1. PICK self : self = selector
        OBVIOUS
      <4>2. SelectionResult(self, request)' = SelectionResult(self, request)
        BY <2>2, EntriesStay
      <4> QED
        BY <2>2, <4>1, <4>2
    <3> QED
      BY <2>2, <2>3, <2>4, <2>5, <3>1 DEF Selected
  <2>9. \A s \in returned' : Selected(s)'
    BY <2>2, <2>6, <2>8, SelectedStay
  <2>10. \A key \in DOMAIN traces' : \E s \in returned' :
            SelectionHash(s.selector) = key /\ s.result = traces'[key]
    <3>1. SelectionHash(new.selector) = SelectionHash(selector) /\ new.result = result
      BY <2>5
    <3>2. CASE UNCHANGED traces
      BY <2>6, <3>2 DEF RankingInv
    <3>3. CASE traces' = [k \in DOMAIN traces \cup {SelectionHash(selector)} |->
                  IF k = SelectionHash(selector) THEN result ELSE traces[k]]
      BY <2>6, <3>1, <3>3 DEF RankingInv
    <3> QED
      BY <2>6, <3>2, <3>3 DEF WriteTrace
  <2> QED
    BY <2>2, <2>7, <2>9, <2>10 DEF RankingInv
<1>4. CASE UNCHANGED rankingVars
  BY <1>4, SelectedStay DEF rankingVars, RankingInv
<1> QED
  BY <1>1, <1>2, <1>3, <1>4 DEF RankingNext

LEMMA RankingInvariant == RankingSpec => []RankingInv
BY RankingBegins, RankingKeeps, PTL DEF RankingSpec

\* The selector, its scope and its traces keep their types.
THEOREM RankingTypeCorrect == RankingSpec => []RankingTypeOK
<1>1. RankingInv => RankingTypeOK
  <2> SUFFICES ASSUME RankingInv
               PROVE  RankingTypeOK
    OBVIOUS
  <2>1. ASSUME NEW key \in DOMAIN traces
        PROVE  key.weights \in WeightTables /\ DOMAIN key.runs = Simulators
    BY DEF RankingInv, Selected, Selectors, SelectionHash
  <2> QED
    BY <2>1 DEF RankingInv, RankingTypeOK, Selectors
<1> QED
  BY <1>1, RankingInvariant, PTL

\* Where no weight is negative, which the code does not check, a ranking can be
\* stood by, for any catalog, telemetry, scope and cap: no candidate is placed
\* behind one that is in no respect better, partners are mutual, a first place
\* is held alone unless it is called ambiguous, and one hash has one result.
THEOREM RankingsAreSound ==
  ASSUME \A w \in WeightTables : NotNegative(w)
  PROVE  RankingSpec => []RankingSound
<1>1. RankingInv => RankingSound
  <2> SUFFICES ASSUME RankingInv
               PROVE  RankingSound
    OBVIOUS
  <2>1. ASSUME NEW s \in returned
        PROVE  NoneOvertaken(s.selector, s.result) /\ ModeFits(s.result)
    <3>1. s.selector \in Selectors /\ s.request.cap \in Nat \cup {Unknown}
      BY RankingAssumption DEF RankingInv, Selected
    <3>2. NotNegative(s.selector.weights)
      BY <3>1 DEF Selectors
    <3> QED
      BY <3>1, <3>2, ResultSound DEF RankingInv, Selected
  <2>2. ASSUME NEW s \in returned, NEW t \in returned,
               SelectionHash(s.selector) = SelectionHash(t.selector), s.request = t.request
        PROVE  s.result = t.result
    BY <2>2, SameHashSameResult DEF RankingInv, Selected
  <2> QED
    BY <2>1, <2>2 DEF RankingSound, Reproducible, RankingInv
<1> QED
  BY <1>1, RankingInvariant, PTL

-----------------------------------------------------------------------------
(* The two together, as module MCCatalog runs them.                        *)

LEMMA EachPartOfTheCatalog ==
    /\ MCInit => CatalogInit /\ RankingInit
    /\ [MCNext]_allVars => [CatalogNext]_catalogVars /\ [RankingNext]_rankingVars
BY DEF MCInit, MCNext, allVars

\* The catalog and the selector keep their types side by side: what is proved
\* of each holds of the run that has both.
THEOREM CatalogTypesCorrect == MCSpec => []MCTypeOK
<1>1. MCSpec => CatalogSpec /\ RankingSpec
  BY EachPartOfTheCatalog, PTL DEF MCSpec, CatalogSpec, RankingSpec
<1> QED
  BY <1>1, CatalogTypeCorrect, RankingTypeCorrect, PTL DEF MCTypeOK
=============================================================================
