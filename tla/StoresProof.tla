---------------------------- MODULE StoresProof -----------------------------
(***************************************************************************)
(* What module MCStores checks on small instances, for any: the artifacts  *)
(* and the papers, beside the ledger, the archive and the surrogate of module*)
(* RecordsProof.                                                           *)
(***************************************************************************)
EXTENDS MCStores, RecordsProof

-----------------------------------------------------------------------------
(***************************************************************************)
(* Artifacts: for any number of processes, contents and operations, they   *)
(* are put once and read whole.                                            *)
(***************************************************************************)

\* What a process has in hand: a content to store or to write, or a reading of
\* a file that has held what it holds now ever since it had that, and whose
\* signature was that of something it held.
ClientFits(p) ==
    LET r == client[p] IN
    /\ r.at \in {"lookup", "link", "replace"} => r.content \in Contents
    /\ r.at = "read" =>
         /\ held_by[r.name] \in r.held
         /\ r.name = "packed" => r.signed
         /\ r.name = "plain" /\ r.signed => r.held \cap Coded # {}

ArtifactInv ==
    /\ ArtifactTypeOK
    /\ \A p \in Clients : ClientFits(p)
    /\ ArtifactsSound

-----------------------------------------------------------------------------
LEMMA ArtifactInvInit == ArtifactInit => ArtifactInv
BY ArtifactAssumption
   DEF ArtifactInit, ArtifactInv, ArtifactTypeOK, ClientFits, ArtifactsSound, PutOnce,
       ReadsWhatWasHeld, Resting, Names

\* Every operation begins with room for it, and leaves the others alone.
LEMMA StartsKeeps ==
    ASSUME ArtifactInv, NEW p \in Clients, NEW r, Starts(p, r),
           r \in [at : {"idle", "lookup", "link", "replace", "read"}, name : Names,
                  content : Contents \cup {NoContent}, signed : BOOLEAN,
                  held : SUBSET Contents],
           r.at \in {"lookup", "link", "replace"} => r.content \in Contents,
           r.at = "read" =>
                /\ held_by[r.name] \in r.held
                /\ r.name = "packed" => r.signed
                /\ r.name = "plain" /\ r.signed => r.held \cap Coded # {},
           UNCHANGED <<blob, created, held_by, answers>>
    PROVE  ArtifactInv'
<1>1. ArtifactTypeOK'
  BY ArtifactAssumption DEF ArtifactInv, ArtifactTypeOK, Starts
<1>2. \A q \in Clients : ClientFits(q)'
  BY DEF ArtifactInv, ArtifactTypeOK, Starts, ClientFits
<1>3. ArtifactsSound'
  BY DEF ArtifactInv, ArtifactsSound, PutOnce, ReadsWhatWasHeld
<1> QED
  BY <1>1, <1>2, <1>3 DEF ArtifactInv

\* A process that is done, or killed, holds nothing.
LEMMA FinishedKeeps ==
    ASSUME ArtifactTypeOK, \A q \in Clients : ClientFits(q), NEW p \in Clients, Finished(p),
           UNCHANGED held_by
    PROVE  /\ client' \in [Clients ->
                 [at : {"idle", "lookup", "link", "replace", "read"}, name : Names,
                  content : Contents \cup {NoContent}, signed : BOOLEAN,
                  held : SUBSET Contents]]
           /\ \A q \in Clients : ClientFits(q)'
BY DEF ArtifactTypeOK, Finished, Resting, ClientFits, Names

LEMMA PutKeeps == ASSUME ArtifactInv, NEW p \in Clients, Put(p) PROVE ArtifactInv'
<1>1. PICK c \in Contents : Starts(p, [Resting EXCEPT !.at = "lookup", !.content = c])
  BY DEF Put
<1> DEFINE r == [Resting EXCEPT !.at = "lookup", !.content = c]
<1>2. /\ r \in [at : {"idle", "lookup", "link", "replace", "read"}, name : Names,
                content : Contents \cup {NoContent}, signed : BOOLEAN, held : SUBSET Contents]
      /\ r.at = "lookup" /\ r.content \in Contents
  BY DEF Resting, Names
<1> HIDE DEF r
<1> QED
  BY <1>1, <1>2, StartsKeeps DEF Put, r

LEMMA WriteKeeps == ASSUME ArtifactInv, NEW p \in Clients, Write(p) PROVE ArtifactInv'
<1>1. PICK f \in Names, c \in Contents :
         Starts(p, [Resting EXCEPT !.at = "replace", !.name = f, !.content = c])
  BY DEF Write
<1> DEFINE r == [Resting EXCEPT !.at = "replace", !.name = f, !.content = c]
<1>2. /\ r \in [at : {"idle", "lookup", "link", "replace", "read"}, name : Names,
                content : Contents \cup {NoContent}, signed : BOOLEAN, held : SUBSET Contents]
      /\ r.at = "replace" /\ r.content \in Contents
  BY DEF Resting, Names
<1> HIDE DEF r
<1> QED
  BY <1>1, <1>2, StartsKeeps DEF Write, r

LEMMA CompressPathKeeps ==
    ASSUME ArtifactInv, NEW p \in Clients, CompressPath(p) PROVE ArtifactInv'
<1> DEFINE r == [Resting EXCEPT !.at = "replace", !.name = "packed",
                                !.content = held_by["plain"]]
<1>1. held_by["plain"] \in Contents
  BY DEF CompressPath, ArtifactInv, ArtifactTypeOK, Names
<1>2. /\ r \in [at : {"idle", "lookup", "link", "replace", "read"}, name : Names,
                content : Contents \cup {NoContent}, signed : BOOLEAN, held : SUBSET Contents]
      /\ r.at = "replace" /\ r.content \in Contents
  BY <1>1 DEF Resting, Names
<1>3. Starts(p, r)
  BY DEF CompressPath
<1> HIDE DEF r
<1> QED
  BY <1>2, <1>3, StartsKeeps DEF CompressPath

LEMMA DecompressPathKeeps ==
    ASSUME ArtifactInv, NEW p \in Clients, DecompressPath(p) PROVE ArtifactInv'
<1> DEFINE r == [Resting EXCEPT !.at = "replace", !.name = "plain",
                                !.content = Decompressed("packed", TRUE)]
<1>1. Decompressed("packed", TRUE) \in Contents
  BY DEF DecompressPath, Decompressed, ArtifactInv, ArtifactTypeOK, Names
<1>2. /\ r \in [at : {"idle", "lookup", "link", "replace", "read"}, name : Names,
                content : Contents \cup {NoContent}, signed : BOOLEAN, held : SUBSET Contents]
      /\ r.at = "replace" /\ r.content \in Contents
  BY <1>1 DEF Resting, Names
<1>3. Starts(p, r)
  BY DEF DecompressPath
<1> HIDE DEF r
<1> QED
  BY <1>2, <1>3, StartsKeeps DEF DecompressPath

LEMMA ReadSignatureKeeps ==
    ASSUME ArtifactInv, NEW p \in Clients, NEW f \in Names, ReadSignature(p, f)
    PROVE  ArtifactInv'
<1> DEFINE r == [Resting EXCEPT !.at = "read", !.name = f, !.signed = Signed(f),
                                !.held = {held_by[f]}]
<1>1. held_by[f] \in Contents
  BY DEF ReadSignature, ArtifactInv, ArtifactTypeOK
<1>2. /\ r \in [at : {"idle", "lookup", "link", "replace", "read"}, name : Names,
                content : Contents \cup {NoContent}, signed : BOOLEAN, held : SUBSET Contents]
      /\ r.at = "read" /\ held_by[r.name] \in r.held
      /\ r.name = "packed" => r.signed
      /\ r.name = "plain" /\ r.signed => r.held \cap Coded # {}
  BY <1>1 DEF Resting, Names, Signed
<1>3. Starts(p, r)
  BY DEF ReadSignature
<1> HIDE DEF r
<1> QED
  BY <1>2, <1>3, StartsKeeps DEF ReadSignature

LEMMA LookupKeeps == ASSUME ArtifactInv, NEW p \in Clients, Lookup(p) PROVE ArtifactInv'
<1>1. ArtifactTypeOK'
  <2>1. CASE Finished(p)
    BY <2>1, FinishedKeeps DEF ArtifactInv, ArtifactTypeOK, Lookup
  <2>2. CASE client' = [client EXCEPT ![p].at = "link"]
    BY <2>2 DEF ArtifactInv, ArtifactTypeOK, Lookup
  <2> QED
    BY <2>1, <2>2 DEF Lookup
<1>2. \A q \in Clients : ClientFits(q)'
  BY DEF ArtifactInv, ArtifactTypeOK, ClientFits, Lookup, Finished, Resting
<1>3. ArtifactsSound'
  BY DEF ArtifactInv, ArtifactsSound, PutOnce, ReadsWhatWasHeld, Lookup
<1> QED
  BY <1>1, <1>2, <1>3 DEF ArtifactInv

\* Only the process that finds the digest absent is told that it was new.
LEMMA LinkKeeps == ASSUME ArtifactInv, NEW p \in Clients, Link(p) PROVE ArtifactInv'
<1>1. client[p].content \in Contents
  BY DEF ArtifactInv, ClientFits, Link
<1>2. UNCHANGED held_by /\ Finished(p)
  BY DEF Link
<1>3. PutOnce'
  BY <1>1 DEF ArtifactInv, ArtifactTypeOK, ArtifactsSound, PutOnce, Link, Linked
<1>4. ArtifactTypeOK'
  <2>1. created' \in [Contents -> Nat] /\ blob' \subseteq Contents
    BY <1>1 DEF ArtifactInv, ArtifactTypeOK, Link
  <2> QED
    BY <1>2, <2>1, FinishedKeeps DEF ArtifactInv, ArtifactTypeOK, Link
<1>5. \A q \in Clients : ClientFits(q)'
  BY <1>2, FinishedKeeps DEF ArtifactInv
<1>6. ArtifactsSound'
  BY <1>3 DEF ArtifactInv, ArtifactsSound, PutOnce, ReadsWhatWasHeld, Link
<1> QED
  BY <1>4, <1>5, <1>6 DEF ArtifactInv

\* Whoever reads the file meanwhile has seen what it holds now.
LEMMA ReplaceKeeps == ASSUME ArtifactInv, NEW p \in Clients, Replace(p) PROVE ArtifactInv'
<1> DEFINE f == client[p].name
           c == client[p].content
           Watching(q) == client[q].at = "read" /\ client[q].name = f
<1>1. c \in Contents /\ f \in Names /\ ArtifactTypeOK
  BY DEF ArtifactInv, ArtifactTypeOK, ClientFits, Replace
<1>2. /\ held_by' = [held_by EXCEPT ![f] = c]
      /\ UNCHANGED <<blob, created, answers, accesses>>
  BY DEF Replace
<1>3. \A q \in Clients : client'[q] =
          IF q = p THEN Resting
          ELSE IF Watching(q) THEN [client[q] EXCEPT !.held = client[q].held \cup {c}]
          ELSE client[q]
  BY DEF Replace, Watched
<1>4. client' = [q \in Clients |-> client'[q]]
  BY DEF Replace, Watched
<1> HIDE DEF f, c
<1>5. ArtifactTypeOK'
  <2>1. held_by' \in [Names -> Contents \cup {NoContent}]
    BY <1>1, <1>2 DEF ArtifactTypeOK
  <2> DEFINE Client == [at : {"idle", "lookup", "link", "replace", "read"}, name : Names,
                        content : Contents \cup {NoContent}, signed : BOOLEAN,
                        held : SUBSET Contents]
  <2>2. ASSUME NEW q \in Clients PROVE client'[q] \in Client
    <3>1. client[q] \in Client
      BY <1>1 DEF ArtifactTypeOK
    <3>2. Resting \in Client
      BY DEF Resting, Names
    <3>3. [client[q] EXCEPT !.held = client[q].held \cup {c}] \in Client
      BY <1>1, <3>1
    <3> QED
      BY <1>3, <3>1, <3>2, <3>3
  <2>3. client' \in [Clients -> Client]
    <3> HIDE DEF Client
    <3> QED
      BY <1>4, <2>2
  <2> QED
    BY <1>1, <1>2, <2>1, <2>3 DEF ArtifactTypeOK
<1>6. ASSUME NEW q \in Clients PROVE ClientFits(q)'
  <2>1. CASE q = p
    <3>1. client'[q] = Resting
      BY <1>3, <2>1
    <3>2. client'[q].at = "idle"
      BY <3>1 DEF Resting
    <3> QED
      BY <3>2 DEF ClientFits
  <2>2. CASE q # p /\ Watching(q)
    <3>1. /\ client'[q].at = "read" /\ client'[q].name = f
          /\ client'[q].signed = client[q].signed
          /\ client'[q].held = client[q].held \cup {c}
      <4>1. client'[q] = [client[q] EXCEPT !.held = client[q].held \cup {c}]
        BY <1>3, <2>2
      <4>2. client[q] \in [at : {"idle", "lookup", "link", "replace", "read"}, name : Names,
                            content : Contents \cup {NoContent}, signed : BOOLEAN,
                            held : SUBSET Contents]
        BY <1>1 DEF ArtifactTypeOK
      <4> QED
        BY <2>2, <4>1, <4>2
    <3>2. held_by'[f] = c
      BY <1>1, <1>2 DEF ArtifactTypeOK
    <3>3. ClientFits(q)
      BY DEF ArtifactInv
    <3> QED
      BY <2>2, <3>1, <3>2, <3>3 DEF ClientFits
  <2>3. CASE q # p /\ ~Watching(q)
    <3>1. client'[q] = client[q] /\ ClientFits(q)
      BY <1>3, <2>3 DEF ArtifactInv
    <3>2. client[q].at = "read" => held_by'[client[q].name] = held_by[client[q].name]
      BY <1>1, <1>2, <2>3 DEF ArtifactTypeOK
    <3> QED
      BY <3>1, <3>2 DEF ClientFits
  <2> QED
    BY <2>1, <2>2, <2>3
<1>7. ArtifactsSound'
  BY <1>2 DEF ArtifactInv, ArtifactsSound, PutOnce, ReadsWhatWasHeld
<1> QED
  BY <1>5, <1>6, <1>7 DEF ArtifactInv

LEMMA ReadDataKeeps == ASSUME ArtifactInv, NEW p \in Clients, ReadData(p) PROVE ArtifactInv'
<1> DEFINE r == [name |-> client[p].name, held |-> client[p].held,
                 answer |-> Decompressed(client[p].name, client[p].signed)]
<1>1. UNCHANGED held_by /\ Finished(p)
  BY DEF ReadData
<1>2. r.name \in Names /\ r.held \subseteq Contents /\ held_by[r.name] \in r.held
  BY DEF ArtifactInv, ArtifactTypeOK, ClientFits, ReadData
<1>3. r.answer \in Answers
  BY <1>2 DEF Decompressed, Answers
<1>4. r.name = "packed" \/ r.held \cap Coded = {} => r.answer \in r.held
  BY <1>2 DEF ArtifactInv, ClientFits, ReadData, Decompressed, Names
<1>5. answers' = answers \cup {r}
  BY DEF ReadData
<1>6. ArtifactTypeOK'
  BY <1>1, <1>2, <1>3, <1>5, FinishedKeeps DEF ArtifactInv, ArtifactTypeOK, ReadData
<1>7. \A q \in Clients : ClientFits(q)'
  BY <1>1, FinishedKeeps DEF ArtifactInv
<1>8. ArtifactsSound'
  BY <1>4, <1>5 DEF ArtifactInv, ArtifactsSound, PutOnce, ReadsWhatWasHeld, ReadData
<1> QED
  BY <1>6, <1>7, <1>8 DEF ArtifactInv

LEMMA KillClientKeeps ==
    ASSUME ArtifactInv, NEW p \in Clients, KillClient(p) PROVE ArtifactInv'
<1>1. UNCHANGED held_by /\ Finished(p)
  BY DEF KillClient
<1>2. ArtifactTypeOK'
  BY <1>1, FinishedKeeps DEF ArtifactInv, ArtifactTypeOK, KillClient
<1>3. \A q \in Clients : ClientFits(q)'
  BY <1>1, FinishedKeeps DEF ArtifactInv
<1>4. ArtifactsSound'
  BY DEF ArtifactInv, ArtifactsSound, PutOnce, ReadsWhatWasHeld, KillClient
<1> QED
  BY <1>2, <1>3, <1>4 DEF ArtifactInv

LEMMA ArtifactInvNext == ArtifactInv /\ [ArtifactNext]_artifactVars => ArtifactInv'
<1> SUFFICES ASSUME ArtifactInv, [ArtifactNext]_artifactVars PROVE ArtifactInv'
  OBVIOUS
<1>1. CASE ArtifactNext
  BY <1>1, PutKeeps, LookupKeeps, LinkKeeps, WriteKeeps, CompressPathKeeps,
     DecompressPathKeeps, ReplaceKeeps, ReadSignatureKeeps, ReadDataKeeps, KillClientKeeps
     DEF ArtifactNext
<1>2. CASE UNCHANGED artifactVars
  BY <1>2 DEF artifactVars, ArtifactInv, ArtifactTypeOK, ClientFits, ArtifactsSound, PutOnce,
     ReadsWhatWasHeld
<1> QED
  BY <1>1, <1>2

-----------------------------------------------------------------------------
\* The variables keep their types.
THEOREM ArtifactTypeCorrect == ArtifactSpec => []ArtifactTypeOK
<1>1. ArtifactInv => ArtifactTypeOK
  BY DEF ArtifactInv
<1> QED
  BY <1>1, ArtifactInvInit, ArtifactInvNext, PTL DEF ArtifactSpec

\* One process at most is told that it made the blob of a content, and a read
\* returns, whole, what the file held while it lasted.
THEOREM ArtifactsAreSound == ArtifactSpec => []ArtifactsSound
<1>1. ArtifactInv => ArtifactsSound
  BY DEF ArtifactInv
<1> QED
  BY <1>1, ArtifactInvInit, ArtifactInvNext, PTL DEF ArtifactSpec

-----------------------------------------------------------------------------
(***************************************************************************)
(* Papers: for any number of promoters, versions, promotions and failures, *)
(* a promotion that is cut short leaves a whole version of the paper, as   *)
(* long as promotions do not overlap.                                      *)
(***************************************************************************)

Promoter == [at : Steps, version : Versions \cup {Absent}, written : 0 .. Len(Order)]

\* While promotions do not overlap, one promoter at most is under way.
OneAtWork == \A p, q \in Promoters : p # q => At(p, "idle") \/ At(q, "idle")

\* What a promoter has in hand at each step.
StepFits(p) ==
    /\ promoter[p].at # "idle" => promoter[p].version \in Versions
    /\ promoter[p].at \in {"clear", "clear_old", "make"} => promoter[p].written = 0
    /\ promoter[p].at = "write" => promoter[p].written < Len(Order)

PaperTyped == PaperTypeOK /\ \A p \in Promoters : StepFits(p)

\* What stands on the disk at each step of the one promoter at work.
DiskFits(p) ==
    /\ promoter[p].at \in {"clear_old", "make"} => staging = Absent
    /\ promoter[p].at \in {"make", "write", "move_away"} => old = Absent
    /\ promoter[p].at = "write" =>
         /\ staging # Absent
         /\ \A i \in 1 .. promoter[p].written : staging[Order[i]] = promoter[p].version
    /\ promoter[p].at \in {"move_away", "move_in"} => Complete(staging)
    /\ promoter[p].at = "move_in" => paper = Absent
    /\ promoter[p].at = "drop_old" => Complete(paper)

\* Before the first failure the paper is whole, or moved away by the promoter
\* that will put another in its place; the first failure leaves one of the two.
CopyKept ==
    done # {} =>
        /\ failures = 0 =>
             Complete(paper) \/ (Complete(old) /\ \E p \in Promoters : At(p, "move_in"))
        /\ failures = 1 /\ Quiet => Complete(paper) \/ Complete(old)

PaperInv ==
    /\ PaperTyped
    /\ alone => /\ OneAtWork
                /\ \A p \in Promoters : DiskFits(p)
                /\ PaperIsWhole
                /\ CopyKept

-----------------------------------------------------------------------------
LEMMA OrderFacts ==
    /\ Len(Order) = 4
    /\ \A i \in 1 .. 4 : Order[i] \in Files
    /\ \A i, j \in 1 .. 4 : Order[i] = Order[j] => i = j
    /\ \A f \in Files : \E i \in 1 .. 4 : Order[i] = f
<1>1. Len(Order) = 4 /\ Order[1] = "work" /\ Order[2] = "provenance"
      /\ Order[3] = "bibtex" /\ Order[4] = "entry"
  BY DEF Order
<1>2. \A i \in 1 .. 4 : i = 1 \/ i = 2 \/ i = 3 \/ i = 4
  OBVIOUS
<1> QED
  BY <1>1, <1>2 DEF Files

LEMMA PaperStarts ==
    ASSUME PaperInit
    PROVE  PaperInv
<1>1. PaperTypeOK
  BY StoreAssumption, OrderFacts DEF PaperInit, PaperTypeOK, Idle, Steps
<1>2. OneAtWork /\ PaperIsWhole /\ CopyKept
  BY DEF PaperInit, OneAtWork, At, Idle, PaperIsWhole, CopyKept
<1>3. \A p \in Promoters : StepFits(p) /\ DiskFits(p)
  BY DEF PaperInit, StepFits, DiskFits, Idle
<1> QED
  BY <1>1, <1>2, <1>3 DEF PaperInv, PaperTyped

\* A promoter goes on to its next step, or returns.
LEMMA GoesOn ==
    ASSUME PaperTyped, NEW p \in Promoters, NEW s \in Steps, To(p, s)
    PROVE  /\ promoter' \in [Promoters -> Promoter]
           /\ promoter'[p].at = s
           /\ promoter'[p].version = promoter[p].version
           /\ promoter'[p].written = promoter[p].written
           /\ \A q \in Promoters \ {p} : promoter'[q] = promoter[q]
BY DEF PaperTyped, PaperTypeOK, Promoter, To

LEMMA Returns ==
    ASSUME PaperTyped, NEW p \in Promoters, Raised(p)
    PROVE  /\ promoter' \in [Promoters -> Promoter]
           /\ promoter'[p] = Idle
           /\ \A q \in Promoters \ {p} : promoter'[q] = promoter[q]
BY OrderFacts DEF PaperTyped, PaperTypeOK, Promoter, Raised, Idle, Steps

\* The step of one promoter, as far as types go.
LEMMA TypeStep ==
    ASSUME PaperTyped, NEW p \in Promoters,
           promoter' \in [Promoters -> Promoter], StepFits(p)',
           \A q \in Promoters \ {p} : promoter'[q] = promoter[q],
           {paper', staging', old'} \subseteq Directory \cup {Absent},
           promotions' \in 0 .. Promotions, failures' \in 0 .. Failures,
           done' \subseteq Versions, alone' \in BOOLEAN
    PROVE  PaperTyped'
BY DEF PaperTyped, PaperTypeOK, Promoter, StepFits

\* Once promotions have overlapped nothing more is claimed; until then the
\* other promoters are idle.
LEMMA AloneStep ==
    ASSUME PaperInv, NEW p \in Promoters, ~At(p, "idle"), alone' = alone, PaperTyped',
           \A q \in Promoters \ {p} : promoter'[q] = promoter[q],
           alone => DiskFits(p)' /\ PaperIsWhole' /\ CopyKept'
    PROVE  PaperInv'
<1> SUFFICES ASSUME alone
             PROVE  (OneAtWork /\ (\A q \in Promoters : DiskFits(q)) /\ PaperIsWhole /\ CopyKept)'
  BY DEF PaperInv
<1>1. \A q \in Promoters \ {p} : promoter'[q].at = "idle"
  BY DEF PaperInv, OneAtWork, At
<1>2. OneAtWork'
  BY <1>1 DEF OneAtWork, At
<1>3. \A q \in Promoters \ {p} : DiskFits(q)'
  BY <1>1 DEF DiskFits
<1> QED
  BY <1>2, <1>3

\* While promoter p is at work alone, no other is moving its version in.
LEMMA NobodyMovesIn ==
    ASSUME PaperInv, alone, NEW p \in Promoters, ~At(p, "idle"), ~At(p, "move_in")
    PROVE  ~\E q \in Promoters : At(q, "move_in")
<1>1. \A q \in Promoters : q # p => At(q, "idle")
  BY DEF PaperInv, OneAtWork
<1> QED
  BY <1>1 DEF At

\* ... so the paper is whole before the first failure, if it was ever promoted.
LEMMA PaperStands ==
    ASSUME PaperInv, alone, NEW p \in Promoters, ~At(p, "idle"), ~At(p, "move_in"),
           done # {}, failures = 0
    PROVE  Complete(paper)
BY NobodyMovesIn DEF PaperInv, CopyKept

LEMMA PromoteKeeps ==
    ASSUME PaperInv, NEW p \in Promoters, Promote(p)
    PROVE  PaperInv'
<1>1. PaperTyped /\ At(p, "idle")
  BY DEF PaperInv, Promote
<1>2. PICK v \in Versions :
          promoter' = [promoter EXCEPT ![p] = [at |-> "clear", version |-> v, written |-> 0]]
  BY DEF Promote
<1>3. /\ promoter' \in [Promoters -> Promoter]
      /\ promoter'[p] = [at |-> "clear", version |-> v, written |-> 0]
      /\ \A q \in Promoters \ {p} : promoter'[q] = promoter[q]
  BY <1>1, <1>2, OrderFacts DEF PaperTyped, PaperTypeOK, Promoter, Steps
<1>4. UNCHANGED <<paper, staging, old, failures, done>> /\ alone' = (alone /\ Quiet)
  BY DEF Promote, disk
<1>5. PaperTyped'
  <2>1. StepFits(p)'
    BY <1>3, OrderFacts DEF StepFits
  <2>2. promotions' \in 0 .. Promotions
    BY <1>1, StoreAssumption DEF Promote, PaperTyped, PaperTypeOK
  <2>3. alone' \in BOOLEAN
    BY <1>1, <1>4 DEF PaperTyped, PaperTypeOK, Quiet
  <2> QED
    BY <1>1, <1>3, <1>4, <2>1, <2>2, <2>3, TypeStep DEF PaperTyped, PaperTypeOK
<1>6. ASSUME alone, Quiet
      PROVE  (OneAtWork /\ (\A q \in Promoters : DiskFits(q)) /\ PaperIsWhole /\ CopyKept)'
  <2>1. \A q \in Promoters \ {p} : promoter'[q].at = "idle"
    BY <1>3, <1>6 DEF Quiet, At
  <2>2. OneAtWork' /\ \A q \in Promoters : DiskFits(q)'
    BY <1>3, <2>1 DEF OneAtWork, At, DiskFits
  <2>3. PaperIsWhole'
    BY <1>4, <1>6 DEF PaperInv, PaperIsWhole, Complete
  <2>4. CopyKept'
    <3>1. done # {} /\ failures = 0 => Complete(paper)
      BY <1>6 DEF PaperInv, CopyKept, Quiet, At
    <3>2. ~Quiet'
      BY <1>3 DEF Quiet, At
    <3> QED
      BY <1>4, <3>1, <3>2 DEF CopyKept, Complete
  <2> QED
    BY <2>2, <2>3, <2>4
<1> QED
  BY <1>4, <1>5, <1>6 DEF PaperInv

\* The process is killed or the file system raises.
LEMMA FailKeeps ==
    ASSUME PaperInv, NEW p \in Promoters, Fail(p)
    PROVE  PaperInv'
<1>1. PaperTyped /\ ~At(p, "idle") /\ failures' = failures + 1 /\ Raised(p)
      /\ UNCHANGED <<paper, staging, old, promotions, done, alone>>
  BY DEF PaperInv, Fail, disk
<1>2. /\ promoter' \in [Promoters -> Promoter] /\ promoter'[p] = Idle
      /\ \A q \in Promoters \ {p} : promoter'[q] = promoter[q]
  BY <1>1, Returns
<1>3. failures \in Nat /\ failures' \in 0 .. Failures
  BY <1>1, StoreAssumption DEF Fail, PaperTyped, PaperTypeOK
<1>4. PaperTyped'
  <2>1. StepFits(p)'
    BY <1>2 DEF StepFits, Idle
  <2> QED
    BY <1>1, <1>2, <1>3, <2>1, TypeStep DEF PaperTyped, PaperTypeOK
<1>5. ASSUME alone
      PROVE  DiskFits(p)' /\ PaperIsWhole' /\ CopyKept'
  <2>1. DiskFits(p)'
    BY <1>2 DEF DiskFits, Idle
  <2>2. PaperIsWhole'
    BY <1>1, <1>5 DEF PaperInv, PaperIsWhole, Complete
  <2>3. CopyKept'
    <3>1. failures' # 0 /\ (failures' = 1 => failures = 0)
      BY <1>1, <1>3
    <3>2. done # {} /\ failures = 0 => Complete(paper) \/ Complete(old)
      BY <1>5 DEF PaperInv, CopyKept
    <3> QED
      BY <1>1, <3>1, <3>2 DEF CopyKept, Complete
  <2> QED
    BY <2>1, <2>2, <2>3
<1> QED
  BY <1>1, <1>2, <1>4, <1>5, AloneStep

-----------------------------------------------------------------------------
(***************************************************************************)
(* _write_entry.                                                           *)
(***************************************************************************)
\* A step that leaves the paper where it is, before the promoter moves it away.
LEMMA PaperLeft ==
    ASSUME PaperInv, alone, NEW p \in Promoters, ~At(p, "idle"), ~At(p, "move_in"),
           UNCHANGED <<paper, failures, done, alone>>, ~Quiet'
    PROVE  PaperIsWhole' /\ CopyKept'
<1>1. PaperIsWhole'
  BY DEF PaperInv, PaperIsWhole, Complete
<1>2. CopyKept'
  BY PaperStands DEF CopyKept, Complete
<1> QED
  BY <1>1, <1>2

LEMMA ClearStagingKeeps ==
    ASSUME PaperInv, NEW p \in Promoters, ClearStaging(p)
    PROVE  PaperInv'
<1>1. PaperTyped /\ At(p, "clear") /\ staging' = Absent /\ To(p, "clear_old")
      /\ UNCHANGED <<paper, old, promotions, failures, done, alone>>
  BY DEF PaperInv, ClearStaging
<1>2. /\ promoter' \in [Promoters -> Promoter] /\ promoter'[p].at = "clear_old"
      /\ promoter'[p].version = promoter[p].version
      /\ promoter'[p].written = promoter[p].written
      /\ \A q \in Promoters \ {p} : promoter'[q] = promoter[q]
  BY <1>1, GoesOn DEF Steps
<1>3. PaperTyped'
  <2>1. StepFits(p)'
    BY <1>1, <1>2 DEF PaperTyped, StepFits, At
  <2> QED
    BY <1>1, <1>2, <2>1, TypeStep DEF PaperTyped, PaperTypeOK
<1>4. ~Quiet' /\ DiskFits(p)'
  BY <1>1, <1>2 DEF Quiet, At, DiskFits
<1> QED
  BY <1>1, <1>2, <1>3, <1>4, PaperLeft, AloneStep DEF At

LEMMA ClearOldKeeps ==
    ASSUME PaperInv, NEW p \in Promoters, ClearOld(p)
    PROVE  PaperInv'
<1>1. PaperTyped /\ At(p, "clear_old") /\ old' = Absent /\ To(p, "make")
      /\ UNCHANGED <<paper, staging, promotions, failures, done, alone>>
  BY DEF PaperInv, ClearOld
<1>2. /\ promoter' \in [Promoters -> Promoter] /\ promoter'[p].at = "make"
      /\ promoter'[p].version = promoter[p].version
      /\ promoter'[p].written = promoter[p].written
      /\ \A q \in Promoters \ {p} : promoter'[q] = promoter[q]
  BY <1>1, GoesOn DEF Steps
<1>3. PaperTyped'
  <2>1. StepFits(p)'
    BY <1>1, <1>2 DEF PaperTyped, StepFits, At
  <2> QED
    BY <1>1, <1>2, <2>1, TypeStep DEF PaperTyped, PaperTypeOK
<1>4. ~Quiet'
  BY <1>2 DEF Quiet, At
<1>5. ASSUME alone
      PROVE  DiskFits(p)'
  BY <1>1, <1>2, <1>5 DEF PaperInv, DiskFits, At
<1> QED
  BY <1>1, <1>2, <1>3, <1>4, <1>5, PaperLeft, AloneStep DEF At

LEMMA MakeStagingKeeps ==
    ASSUME PaperInv, NEW p \in Promoters, MakeStaging(p)
    PROVE  PaperInv'
<1>1. PaperTyped /\ At(p, "make") /\ UNCHANGED <<paper, old, promotions, failures, done, alone>>
  BY DEF PaperInv, MakeStaging
<1>2. CASE staging = Absent
  <2>1. staging' = EmptyDirectory /\ To(p, "write")
    BY <1>2 DEF MakeStaging
  <2>2. /\ promoter' \in [Promoters -> Promoter] /\ promoter'[p].at = "write"
        /\ promoter'[p].version = promoter[p].version
        /\ promoter'[p].written = promoter[p].written
        /\ \A q \in Promoters \ {p} : promoter'[q] = promoter[q]
    BY <1>1, <2>1, GoesOn DEF Steps
  <2>3. promoter'[p].written = 0 /\ promoter'[p].version \in Versions
    BY <1>1, <2>2 DEF PaperTyped, StepFits, At
  <2>4. staging' \in Directory /\ staging' # Absent
    BY <2>1, StoreAssumption DEF EmptyDirectory, Directory
  <2>5. PaperTyped'
    <3>1. StepFits(p)'
      BY <2>2, <2>3, OrderFacts DEF StepFits
    <3> QED
      BY <1>1, <2>2, <2>4, <3>1, TypeStep DEF PaperTyped, PaperTypeOK
  <2>6. ~Quiet'
    BY <2>2 DEF Quiet, At
  <2>7. ASSUME alone
        PROVE  DiskFits(p)'
    <3>1. old' = Absent
      BY <1>1, <2>7 DEF PaperInv, DiskFits, At
    <3> QED
      BY <2>2, <2>3, <2>4, <3>1 DEF DiskFits
  <2> QED
    BY <1>1, <2>2, <2>5, <2>6, <2>7, PaperLeft, AloneStep DEF At
<1>3. CASE staging # Absent
  <2>1. Raised(p) /\ staging' = staging /\ ~alone
    BY <1>1, <1>3 DEF MakeStaging, PaperInv, DiskFits, At
  <2>2. /\ promoter' \in [Promoters -> Promoter] /\ promoter'[p] = Idle
        /\ \A q \in Promoters \ {p} : promoter'[q] = promoter[q]
    BY <1>1, <2>1, Returns
  <2>3. StepFits(p)'
    BY <2>2 DEF StepFits, Idle
  <2>4. PaperTyped'
    BY <1>1, <2>1, <2>2, <2>3, TypeStep DEF PaperTyped, PaperTypeOK
  <2> QED
    BY <1>1, <2>1, <2>4 DEF PaperInv
<1> QED
  BY <1>2, <1>3

\* The last file makes the new directory whole.
LEMMA WriteFileKeeps ==
    ASSUME PaperInv, NEW p \in Promoters, WriteFile(p)
    PROVE  PaperInv'
<1> DEFINE w == promoter[p].written + 1
           v == promoter[p].version
<1>1. PaperTyped /\ At(p, "write") /\ UNCHANGED <<paper, old, promotions, failures, done, alone>>
  BY DEF PaperInv, WriteFile
<1>2. w \in 1 .. 4 /\ promoter[p].written \in Nat /\ v \in Versions
  BY <1>1, OrderFacts DEF PaperTyped, PaperTypeOK, StepFits, At
<1>3. CASE staging # Absent
  <2> DEFINE next == [promoter[p] EXCEPT !.written = w,
                          !.at = IF w = Len(Order) THEN "move_away" ELSE "write"]
  <2>1. staging' = [staging EXCEPT ![Order[w]] = v] /\ promoter' = [promoter EXCEPT ![p] = next]
    BY <1>3 DEF WriteFile
  <2>2. next \in Promoter
    <3>1. promoter[p] \in Promoter
      BY <1>1 DEF PaperTyped, PaperTypeOK, Promoter
    <3>2. w \in 0 .. Len(Order)
      BY <1>2, OrderFacts
    <3>3. (IF w = Len(Order) THEN "move_away" ELSE "write") \in Steps
      BY DEF Steps
    <3> HIDE DEF w
    <3> QED
      BY <3>1, <3>2, <3>3 DEF Promoter
  <2>3. /\ promoter' \in [Promoters -> Promoter]
        /\ \A q \in Promoters \ {p} : promoter'[q] = promoter[q]
        /\ promoter'[p] = next
    <3>1. promoter \in [Promoters -> Promoter]
      BY <1>1 DEF PaperTyped, PaperTypeOK, Promoter
    <3> HIDE DEF next
    <3> QED
      BY <2>1, <2>2, <3>1
  <2>4. /\ promoter'[p].written = w /\ promoter'[p].version = v
        /\ promoter'[p].at = IF w = 4 THEN "move_away" ELSE "write"
    BY <1>1, <2>3, OrderFacts DEF PaperTyped, PaperTypeOK
  <2>5. staging \in Directory /\ staging' \in Directory /\ staging' # Absent
    <3>1. staging \in Directory
      BY <1>1, <1>3 DEF PaperTyped, PaperTypeOK
    <3>2. staging' \in Directory
      BY <1>2, <2>1, <3>1 DEF Directory
    <3> QED
      BY <3>1, <3>2, StoreAssumption
  <2>6. PaperTyped'
    <3>1. StepFits(p)'
      BY <1>2, <2>4, OrderFacts DEF StepFits
    <3> QED
      BY <1>1, <2>3, <2>5, <3>1, TypeStep DEF PaperTyped, PaperTypeOK
  <2>7. ~Quiet'
    BY <2>4 DEF Quiet, At
  <2>8. ASSUME alone
        PROVE  DiskFits(p)'
    <3>1. old' = Absent /\ \A i \in 1 .. promoter[p].written : staging[Order[i]] = v
      BY <1>1, <2>8 DEF PaperInv, DiskFits, At
    <3>2. \A i \in 1 .. w : staging'[Order[i]] = v
      <4>1. \A i \in 1 .. w : i = w \/ i \in 1 .. promoter[p].written
        BY <1>2
      <4>2. staging'[Order[w]] = v
        BY <1>2, <2>1, <2>5, OrderFacts DEF Directory
      <4>3. \A i \in 1 .. w : i # w => staging'[Order[i]] = staging[Order[i]]
        BY <1>2, <2>1, <2>5, OrderFacts DEF Directory
      <4> QED
        BY <3>1, <4>1, <4>2, <4>3
    <3>3. w = 4 => Complete(staging')
      <4> SUFFICES ASSUME w = 4 PROVE Complete(staging')
        OBVIOUS
      <4>1. \A f \in Files : staging'[f] = v
        BY <3>2, OrderFacts
      <4>2. staging' = [f \in Files |-> v]
        BY <2>5, <4>1 DEF Directory
      <4> QED
        BY <1>2, <2>5, <4>2 DEF Complete
    <3> QED
      BY <2>4, <2>5, <3>1, <3>2, <3>3 DEF DiskFits, Complete
  <2> QED
    BY <1>1, <2>3, <2>6, <2>7, <2>8, PaperLeft, AloneStep DEF At
<1>4. CASE staging = Absent
  <2>1. Raised(p) /\ staging' = staging /\ ~alone
    BY <1>1, <1>4 DEF WriteFile, PaperInv, DiskFits, At
  <2>2. /\ promoter' \in [Promoters -> Promoter] /\ promoter'[p] = Idle
        /\ \A q \in Promoters \ {p} : promoter'[q] = promoter[q]
    BY <1>1, <2>1, Returns
  <2>3. StepFits(p)'
    BY <2>2 DEF StepFits, Idle
  <2>4. PaperTyped'
    BY <1>1, <2>1, <2>2, <2>3, TypeStep DEF PaperTyped, PaperTypeOK
  <2> QED
    BY <1>1, <2>1, <2>4 DEF PaperInv
<1> QED
  BY <1>3, <1>4

\* The paper goes away as it is, and is the backup until the new one is there.
LEMMA MoveAwayKeeps ==
    ASSUME PaperInv, NEW p \in Promoters, MoveAway(p)
    PROVE  PaperInv'
<1>1. PaperTyped /\ At(p, "move_away") /\ UNCHANGED <<promotions, failures, done, alone>>
      /\ staging' = staging
  BY DEF PaperInv, MoveAway, disk
<1>2. ASSUME To(p, "move_in"), paper' = Absent, old' \in {paper, old},
             paper # Absent => old' = paper
      PROVE  PaperInv'
  <2>1. /\ promoter' \in [Promoters -> Promoter] /\ promoter'[p].at = "move_in"
        /\ promoter'[p].version = promoter[p].version
        /\ \A q \in Promoters \ {p} : promoter'[q] = promoter[q]
    BY <1>1, <1>2, GoesOn DEF Steps
  <2>2. PaperTyped'
    <3>1. StepFits(p)'
      BY <1>1, <2>1 DEF PaperTyped, StepFits, At
    <3> QED
      BY <1>1, <1>2, <2>1, <3>1, TypeStep DEF PaperTyped, PaperTypeOK
  <2>3. ASSUME alone
        PROVE  DiskFits(p)' /\ PaperIsWhole' /\ CopyKept'
    <3>1. Complete(staging)
      BY <1>1, <2>3 DEF PaperInv, DiskFits, At
    <3>2. DiskFits(p)'
      BY <1>1, <1>2, <2>1, <3>1 DEF DiskFits, Complete
    <3>3. PaperIsWhole'
      BY <1>2 DEF PaperIsWhole
    <3>4. done # {} /\ failures = 0 => Complete(old')
      <4>1. done # {} /\ failures = 0 => Complete(paper) /\ paper # Absent
        BY <1>1, <2>3, PaperStands DEF At, Complete
      <4> QED
        BY <1>2, <4>1 DEF Complete
    <3>5. At(p, "move_in")' /\ ~Quiet'
      BY <2>1 DEF At, Quiet
    <3>6. CopyKept'
      BY <1>1, <3>4, <3>5 DEF CopyKept, Complete
    <3> QED
      BY <3>2, <3>3, <3>6
  <2> QED
    BY <1>1, <2>1, <2>2, <2>3, AloneStep DEF At
<1>3. CASE paper # Absent /\ old # Absent
  <2>1. Raised(p) /\ UNCHANGED <<paper, old>> /\ ~alone
    BY <1>1, <1>3 DEF MoveAway, disk, PaperInv, DiskFits, At
  <2>2. /\ promoter' \in [Promoters -> Promoter] /\ promoter'[p] = Idle
        /\ \A q \in Promoters \ {p} : promoter'[q] = promoter[q]
    BY <1>1, <2>1, Returns
  <2>3. StepFits(p)'
    BY <2>2 DEF StepFits, Idle
  <2>4. PaperTyped'
    BY <1>1, <2>1, <2>2, <2>3, TypeStep DEF PaperTyped, PaperTypeOK
  <2> QED
    BY <1>1, <2>1, <2>4 DEF PaperInv
<1> QED
  BY <1>2, <1>3 DEF MoveAway, disk

LEMMA MoveInKeeps ==
    ASSUME PaperInv, NEW p \in Promoters, MoveIn(p)
    PROVE  PaperInv'
<1>1. PaperTyped /\ At(p, "move_in") /\ UNCHANGED <<old, promotions, failures, done, alone>>
  BY DEF PaperInv, MoveIn
<1>2. CASE staging # Absent /\ paper \in {Absent, EmptyDirectory}
  <2>1. paper' = staging /\ staging' = Absent /\ To(p, "drop_old")
    BY <1>2 DEF MoveIn
  <2>2. /\ promoter' \in [Promoters -> Promoter] /\ promoter'[p].at = "drop_old"
        /\ promoter'[p].version = promoter[p].version
        /\ \A q \in Promoters \ {p} : promoter'[q] = promoter[q]
    BY <1>1, <2>1, GoesOn DEF Steps
  <2>3. PaperTyped'
    <3>1. StepFits(p)'
      BY <1>1, <2>2 DEF PaperTyped, StepFits, At
    <3> QED
      BY <1>1, <2>1, <2>2, <3>1, TypeStep DEF PaperTyped, PaperTypeOK
  <2>4. ASSUME alone
        PROVE  DiskFits(p)' /\ PaperIsWhole' /\ CopyKept'
    <3>1. Complete(paper')
      BY <1>1, <2>1, <2>4 DEF PaperInv, DiskFits, At, Complete
    <3> QED
      BY <2>2, <3>1 DEF DiskFits, PaperIsWhole, CopyKept, Complete
  <2> QED
    BY <1>1, <2>2, <2>3, <2>4, AloneStep DEF At
<1>3. CASE ~(staging # Absent /\ paper \in {Absent, EmptyDirectory})
  <2>1. Raised(p) /\ UNCHANGED <<paper, staging>> /\ ~alone
    BY <1>1, <1>3 DEF MoveIn, PaperInv, DiskFits, At, Complete
  <2>2. /\ promoter' \in [Promoters -> Promoter] /\ promoter'[p] = Idle
        /\ \A q \in Promoters \ {p} : promoter'[q] = promoter[q]
    BY <1>1, <2>1, Returns
  <2>3. StepFits(p)'
    BY <2>2 DEF StepFits, Idle
  <2>4. PaperTyped'
    BY <1>1, <2>1, <2>2, <2>3, TypeStep DEF PaperTyped, PaperTypeOK
  <2> QED
    BY <1>1, <2>1, <2>4 DEF PaperInv
<1> QED
  BY <1>2, <1>3

LEMMA DropOldKeeps ==
    ASSUME PaperInv, NEW p \in Promoters, DropOld(p)
    PROVE  PaperInv'
<1>1. PaperTyped /\ At(p, "drop_old") /\ old' = Absent /\ done' = done \cup {promoter[p].version}
      /\ Raised(p) /\ UNCHANGED <<paper, staging, promotions, failures, alone>>
  BY DEF PaperInv, DropOld
<1>2. /\ promoter' \in [Promoters -> Promoter] /\ promoter'[p] = Idle
      /\ \A q \in Promoters \ {p} : promoter'[q] = promoter[q]
  BY <1>1, Returns
<1>3. promoter[p].version \in Versions
  BY <1>1 DEF PaperTyped, StepFits, At
<1>4. StepFits(p)'
  BY <1>2 DEF StepFits, Idle
<1>5. PaperTyped'
  BY <1>1, <1>2, <1>3, <1>4, TypeStep DEF PaperTyped, PaperTypeOK
<1>6. ASSUME alone
      PROVE  DiskFits(p)' /\ PaperIsWhole' /\ CopyKept'
  <2>1. Complete(paper')
    BY <1>1, <1>6 DEF PaperInv, DiskFits, At, Complete
  <2> QED
    BY <1>2, <2>1 DEF DiskFits, Idle, PaperIsWhole, CopyKept, Complete
<1> QED
  BY <1>1, <1>2, <1>5, <1>6, AloneStep DEF At

LEMMA PaperStepKeeps ==
    ASSUME PaperInv, [PaperNext]_paperVars
    PROVE  PaperInv'
<1>1. CASE UNCHANGED paperVars
  BY <1>1 DEF paperVars, disk, PaperInv, PaperTyped, PaperTypeOK, StepFits, OneAtWork, At,
              DiskFits, PaperIsWhole, CopyKept, Complete, Quiet
<1>2. CASE PaperNext
  <2>1. PICK p \in Promoters : Promote(p) \/ WriteEntry(p) \/ Fail(p)
    BY <1>2 DEF PaperNext
  <2> QED
    BY <2>1, PromoteKeeps, FailKeeps, ClearStagingKeeps, ClearOldKeeps, MakeStagingKeeps,
       WriteFileKeeps, MoveAwayKeeps, MoveInKeeps, DropOldKeeps DEF WriteEntry
<1> QED
  BY <1>1, <1>2

\* The paper, its staging and its backup directory are each absent or a
\* directory of the four files, and the promoters' bounds hold.
THEOREM PaperTypeCorrect == PaperSpec => []PaperTypeOK
<1>1. PaperInv => PaperTypeOK
  BY DEF PaperInv, PaperTyped
<1> QED
  BY <1>1, PaperStarts, PaperStepKeeps, PTL DEF PaperSpec

\* _write_entry: as long as promotions do not overlap, what stands under the
\* work's name is one version, whole, and one failure does not cost the work.
THEOREM PaperIsKept == PaperSpec => []PaperSurvives
<1>1. ASSUME PaperInv
      PROVE  PaperSurvives
  <2>1. PaperIsWhole
    BY <1>1 DEF PaperInv, PaperIsWhole
  <2>2. OneCopySurvives
    BY <1>1 DEF PaperInv, CopyKept, OneCopySurvives
  <2> QED
    BY <2>1, <2>2 DEF PaperSurvives
<1> QED
  BY <1>1, PaperStarts, PaperStepKeeps, PTL DEF PaperSpec

-----------------------------------------------------------------------------
(* The five together, as module MCStores runs them.                        *)

LEMMA EachStore ==
    /\ MCInit => LedgerInit /\ PaperInit /\ ArchiveInit /\ SurrogateInit /\ ArtifactInit
    /\ [MCNext]_allVars =>
          /\ [LedgerNext]_ledgerVars /\ [PaperNext]_paperVars /\ [ArchiveNext]_archiveVars
          /\ [SurrogateNext]_surrogateVars /\ [ArtifactNext]_artifactVars
BY DEF MCInit, MCNext, allVars

\* The stores keep their types side by side: what is proved of each holds of
\* the run that has all of them.
THEOREM StoresTypesCorrect == MCSpec => []StoresTypeOK
<1>1. MCSpec => /\ LedgerSpec /\ PaperSpec /\ ArchiveSpec
                /\ SurrogateSpec /\ ArtifactSpec
  BY EachStore, PTL DEF MCSpec, LedgerSpec, PaperSpec, ArchiveSpec, SurrogateSpec, ArtifactSpec
<1> QED
  BY <1>1, LedgerTypeCorrect, PaperTypeCorrect, ArchiveTypeCorrect, SurrogateTypeCorrect,
     ArtifactTypeCorrect, PTL DEF StoresTypeOK
=============================================================================
