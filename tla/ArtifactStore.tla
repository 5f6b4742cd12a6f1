--------------------------- MODULE ArtifactStore ---------------------------
(***************************************************************************)
(* Artifacts at rest (factory/artifacts): the content-addressed store of   *)
(* dedup.py, where a blob is linked under its digest, and the files of     *)
(* compression.py, which are replaced as a whole and whose coding is       *)
(* recognised when they are read.                                          *)
(*                                                                         *)
(* Processes put, write, compress, decompress and read, overlap and are    *)
(* killed.  A content stands for its bytes and for their digest; a coding  *)
(* is gzip or zstd.  A file is always written by one method: "plain" raw,  *)
(* "packed" compressed.  What a writer prepares in its temporary directory *)
(* nobody else sees; a kill leaves it there.                               *)
(***************************************************************************)
EXTENDS Naturals, FiniteSets

CONSTANTS
    Clients,    \* processes
    Contents,   \* what artifacts there are
    Coded,      \* those whose own bytes begin like a compressed file
    NoContent,     \* nothing under that name
    Accesses    \* bound: operations begun

Names == {"plain", "packed"}

ASSUME ArtifactAssumption ==
    /\ IsFiniteSet(Contents) /\ Coded \subseteq Contents
    /\ NoContent \notin Contents
    /\ Accesses \in Nat

VARIABLES
    blob,       \* digests that have a file in the store
    created,    \* history: per content, puts that find they have made its file
    held_by,    \* per name, the content that was written
    client,     \* per process, its operation
    answers,    \* history: reads that ended, with what the file held meanwhile
    accesses    \* bound: operations so far

artifactVars == <<blob, created, held_by, client, answers, accesses>>

Resting == [at |-> "idle", name |-> "plain", content |-> NoContent,
            signed |-> FALSE, held |-> {}]
\* What comes out when coded bytes are taken for a content or the other way.
Answers == Contents \cup {"error", "unpacked", "still packed"}

ArtifactTypeOK ==
    /\ blob \subseteq Contents
    /\ created \in [Contents -> Nat]
    /\ held_by \in [Names -> Contents \cup {NoContent}]
    /\ client \in [Clients ->
           [at : {"idle", "lookup", "link", "replace", "read"}, name : Names,
            content : Contents \cup {NoContent}, signed : BOOLEAN, held : SUBSET Contents]]
    /\ answers \subseteq [name : Names, answer : Answers, held : SUBSET Contents]
    /\ accesses \in 0 .. Accesses

ArtifactInit ==
    /\ blob = {}
    /\ created = [c \in Contents |-> 0]
    /\ held_by = [f \in Names |-> NoContent]
    /\ client = [p \in Clients |-> Resting]
    /\ answers = {}
    /\ accesses = 0

-----------------------------------------------------------------------------
Starts(p, operation) ==
    /\ client[p] = Resting /\ accesses < Accesses
    /\ accesses' = accesses + 1
    /\ client' = [client EXCEPT ![p] = operation]

Finished(p) == client' = [client EXCEPT ![p] = Resting]

\* put_bytes, put_path: the content is in memory from here on.
Put(p) ==
    /\ \E c \in Contents : Starts(p, [Resting EXCEPT !.at = "lookup", !.content = c])
    /\ UNCHANGED <<blob, created, held_by, answers>>

\* lookup: a digest that has a file is returned; otherwise the blob is staged.
Lookup(p) ==
    /\ client[p].at = "lookup"
    /\ IF client[p].content \in blob THEN Finished(p)
       ELSE client' = [client EXCEPT ![p].at = "link"]
    /\ UNCHANGED <<blob, created, held_by, answers, accesses>>

\* Mutant: the blob is moved over one that another process has put.
LinkedReplacing(c) == TRUE

\* os.link: whether this process made the file, FileExistsError if not.
Linked(c) == c \notin blob

Link(p) ==
    /\ client[p].at = "link"
    /\ LET c == client[p].content IN
          /\ blob' = blob \cup {c}
          /\ created' = IF Linked(c) THEN [created EXCEPT ![c] = @ + 1] ELSE created
    /\ Finished(p)
    /\ UNCHANGED <<held_by, answers, accesses>>

-----------------------------------------------------------------------------
\* The bytes of a file begin with a signature.
Signed(f) == f = "packed" \/ held_by[f] \in Coded

\* decompress_bytes by the coding that was recognised.
Decompressed(f, signed) ==
    IF ~signed THEN IF f = "packed" THEN "still packed" ELSE held_by[f]
    ELSE IF f = "packed" THEN held_by[f]
    ELSE IF held_by[f] \in Coded THEN "unpacked" ELSE "error"

\* write_compressed_artifact with new data.
Write(p) ==
    /\ \E f \in Names, c \in Contents :
          Starts(p, [Resting EXCEPT !.at = "replace", !.name = f, !.content = c])
    /\ UNCHANGED <<blob, created, held_by, answers>>

\* compress_path and decompress_path: the data are those the other file has now;
\* a source that is not there raises.
CompressPath(p) ==
    /\ held_by["plain"] # NoContent
    /\ Starts(p, [Resting EXCEPT !.at = "replace", !.name = "packed",
                                 !.content = held_by["plain"]])
    /\ UNCHANGED <<blob, created, held_by, answers>>

DecompressPath(p) ==
    /\ held_by["packed"] # NoContent
    /\ Starts(p, [Resting EXCEPT !.at = "replace", !.name = "plain",
                                 !.content = Decompressed("packed", TRUE)])
    /\ UNCHANGED <<blob, created, held_by, answers>>

\* Readers that are under way see one more content.
Watched(f, c) ==
    [q \in Clients |->
        IF client[q].at = "read" /\ client[q].name = f
        THEN [client[q] EXCEPT !.held = @ \cup {c}] ELSE client[q]]

\* os.replace of the staged file.
Replace(p) ==
    /\ client[p].at = "replace"
    /\ held_by' = [held_by EXCEPT ![client[p].name] = client[p].content]
    /\ client' = [Watched(client[p].name, client[p].content) EXCEPT ![p] = Resting]
    /\ UNCHANGED <<blob, created, answers, accesses>>

\* read_compressed_artifact opens the file for the signature and once more for
\* the data.
ReadSignature(p, f) ==
    /\ held_by[f] # NoContent
    /\ Starts(p, [Resting EXCEPT !.at = "read", !.name = f, !.signed = Signed(f),
                                 !.held = {held_by[f]}])
    /\ UNCHANGED <<blob, created, held_by, answers>>

ReadData(p) ==
    /\ client[p].at = "read"
    /\ answers' = answers \cup
           {[name |-> client[p].name, held |-> client[p].held,
             answer |-> Decompressed(client[p].name, client[p].signed)]}
    /\ Finished(p)
    /\ UNCHANGED <<blob, created, held_by, accesses>>

KillClient(p) ==
    /\ client[p] # Resting
    /\ Finished(p)
    /\ UNCHANGED <<blob, created, held_by, answers, accesses>>

ArtifactNext ==
    \E p \in Clients :
        \/ Put(p) \/ Lookup(p) \/ Link(p)
        \/ Write(p) \/ CompressPath(p) \/ DecompressPath(p) \/ Replace(p)
        \/ \E f \in Names : ReadSignature(p, f)
        \/ ReadData(p) \/ KillClient(p)

ArtifactSpec == ArtifactInit /\ [][ArtifactNext]_artifactVars
-----------------------------------------------------------------------------
\* Of all processes that put a content, however they overlap, one at most is
\* told that it was new, and it is in the store then (dedup.py:80).
PutOnce ==
    \A c \in Contents : created[c] <= 1 /\ (created[c] = 1 => c \in blob)

\* A read returns what the file held at some time since it began, whole.  Only a
\* raw file that held bytes like those of a compressed one is the exception
\* (compression.py:178).
ReadsWhatWasHeld ==
    \A r \in answers :
        r.name = "packed" \/ r.held \cap Coded = {} => r.answer \in r.held

\* Artifacts at rest are put once and read whole.
ArtifactsSound == PutOnce /\ ReadsWhatWasHeld
=============================================================================
