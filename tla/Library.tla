------------------------------- MODULE Library -------------------------------
(***************************************************************************)
(* One pinned file of the model library: `models fetch` downloads it into  *)
(* a staging directory, verifies it and renames it into place; `models     *)
(* status` verifies what is in place; a stamp beside the file spares later *)
(* runs the hashing.  Fetches exclude each other by the download lock,     *)
(* status runs beside them, and the user moves files about.                *)
(*                                                                         *)
(* Bytes are counted, and told only to be the pinned ones or not; a hash   *)
(* matches a file of the pinned size whose bytes all are.  An identity     *)
(* stands for size, mtime, inode and device: every write makes a new one.  *)
(***************************************************************************)
EXTENDS Naturals

CONSTANTS
    Fetches,      \* slots that run `models fetch`
    Statuses,     \* slots that run `models status`
    Size,         \* the pinned size
    MaxEdits,     \* bound: how often the user moves files
    MaxFaults,    \* bound: failures of the server, the network, the host
    None          \* no file, no stamp, no process

Runs == Fetches \cup Statuses

ASSUME ConstantsAssumption ==
    /\ Fetches \cap Statuses = {} /\ None \notin Runs /\ None \notin Nat
    /\ None \notin [size : Nat, pinned : BOOLEAN]
    /\ None \notin [size : Nat, pinned : BOOLEAN, id : Nat]
    /\ Size \in Nat \ {0}
    /\ MaxEdits \in Nat /\ MaxFaults \in Nat

VARIABLES
    file,     \* the file at the destination
    stamp,    \* the identity the stamp beside it records
    part,     \* <name>.part in the staging directory
    staged,   \* <name> in the staging directory
    holder,   \* the fetch that holds the download lock
    pc,
    writes,   \* how many files have been put at the destination
    edits, faults

staging == <<part, staged>>
vars == <<file, stamp, staging, holder, pc, writes, edits, faults>>

Bytes(n, pinned) == [size |-> n, pinned |-> pinned]
Pinned(bytes) == bytes # None /\ bytes.size = Size /\ bytes.pinned
Placed(bytes) == [size |-> bytes.size, pinned |-> bytes.pinned, id |-> writes + 1]
Stamped == file # None /\ file.size = Size /\ stamp = file.id

Init ==
    /\ file = None /\ stamp = None /\ part = None /\ staged = None
    /\ holder = None
    /\ pc = [p \in Runs |-> "idle"]
    /\ writes = 0 /\ edits = 0 /\ faults = 0

At(p, step) == pc[p] = step
To(p, step) == pc' = [pc EXCEPT ![p] = step]

\* Whatever ends a run, the lock goes with it.
Ends(p) == To(p, "idle") /\ holder' = IF holder = p THEN None ELSE holder

Fault == faults < MaxFaults /\ faults' = faults + 1

-----------------------------------------------------------------------------
(***************************************************************************)
(* file_state, which both commands call.  `missing` is what follows when   *)
(* nothing is there, `ready` when the pinned file is; any other file ends  *)
(* the run.                                                                *)
(***************************************************************************)
\* Size and stamp, from one stat; `verify` hashes whatever the stamp says.
Look(p, from, hash, missing, ready, verify) ==
    /\ At(p, from)
    /\ \/ file = None /\ missing
       \/ file # None /\ file.size # Size /\ Ends(p)
       \/ file # None /\ file.size = Size /\ ~verify /\ Stamped /\ ready
       \/ /\ file # None /\ file.size = Size /\ (verify \/ ~Stamped)
          /\ To(p, hash) /\ UNCHANGED holder
    /\ UNCHANGED <<file, stamp, staging, writes, edits, faults>>

\* Variant: a file of the pinned size is taken for the pinned file.
HashTrustsSize(p, from, to) ==
    /\ At(p, from)
    /\ IF file # None /\ file.size = Size THEN To(p, to) /\ UNCHANGED holder ELSE Ends(p)
    /\ UNCHANGED <<file, stamp, staging, writes, edits, faults>>

\* `sha256_file` reads what has the name now; a file that is gone raises.
Hash(p, from, to) ==
    /\ At(p, from)
    /\ IF Pinned(file) THEN To(p, to) /\ UNCHANGED holder ELSE Ends(p)
    /\ UNCHANGED <<file, stamp, staging, writes, edits, faults>>

\* `write_stamp` stats the file again.
Stamp(p, from, ready) ==
    /\ At(p, from)
    /\ stamp' = IF file = None THEN stamp ELSE file.id
    /\ ready
    /\ UNCHANGED <<file, staging, writes, edits, faults>>

Step(p, to) == To(p, to) /\ UNCHANGED holder

\* `models status`, with and without --verify.
Status(p) ==
    \/ At(p, "idle") /\ To(p, "look")
       /\ UNCHANGED <<file, stamp, staging, holder, writes, edits, faults>>
    \/ \E verify \in BOOLEAN : Look(p, "look", "hash", Ends(p), Ends(p), verify)
    \/ Hash(p, "hash", "stamp")
    \/ Stamp(p, "stamp", Ends(p))

-----------------------------------------------------------------------------
(***************************************************************************)
(* `models fetch`.                                                         *)
(***************************************************************************)
\* LOCK_NB: a second fetch is refused, which changes nothing.
Begin(p) ==
    /\ At(p, "idle") /\ To(p, "look")
    /\ holder = None /\ holder' = p
    /\ UNCHANGED <<file, stamp, staging, writes, edits, faults>>

\* The file before the download.
FirstLook(p) ==
    \/ Look(p, "look", "hash", Step(p, "download"), Ends(p), FALSE)
    \/ Hash(p, "hash", "stamp")
    \/ Stamp(p, "stamp", Ends(p))

\* Of the pinned size, and awaiting verification.
Complete == staged # None /\ staged.size = Size

Received == IF part = None THEN 0 ELSE part.size

SkipDownload(p) ==
    /\ At(p, "download") /\ Complete /\ To(p, "verify")
    /\ UNCHANGED <<file, stamp, staging, holder, writes, edits, faults>>

\* Variant: the resumed stream truncates what is there.
ResumeTruncates(p) ==
    /\ At(p, "download") /\ ~Complete
    /\ Received \in 1 .. Size - 1
    /\ To(p, "stream")
    /\ part' = Bytes(0, TRUE)
    /\ UNCHANGED <<file, stamp, staged, holder, writes, edits, faults>>

\* 206: the server goes on where the part ends.
Resume(p) ==
    /\ At(p, "download") /\ ~Complete
    /\ Received \in 1 .. Size - 1
    /\ To(p, "stream")
    /\ UNCHANGED <<file, stamp, staging, holder, writes, edits, faults>>

\* 200: the whole file.  It answers a request without a range, and one whose
\* range the server ignores.
Restart(p) ==
    /\ At(p, "download") /\ ~Complete
    /\ IF Received = 0 THEN UNCHANGED faults ELSE Fault
    /\ To(p, "stream")
    /\ part' = Bytes(0, TRUE)
    /\ UNCHANGED <<file, stamp, staged, holder, writes, edits>>

\* 416: no byte beyond the part, which is taken for complete.
RangeUnsatisfiable(p) ==
    /\ At(p, "download") /\ ~Complete
    /\ Received >= Size
    /\ To(p, "verify")
    /\ staged' = part /\ part' = None
    /\ UNCHANGED <<file, stamp, holder, writes, edits, faults>>

\* A chunk, which the server may get wrong, or may send beyond the size.
Receive(p) ==
    /\ At(p, "stream")
    /\ \/ part.size < Size /\ part' = Bytes(part.size + 1, part.pinned) /\ UNCHANGED faults
       \/ part.size <= Size /\ part' = Bytes(part.size + 1, FALSE) /\ Fault
    /\ UNCHANGED <<file, stamp, staged, holder, pc, writes, edits>>

\* The stream ends.  Short of the size, the part stays for the next run.
EndOfStream(p) ==
    /\ At(p, "stream")
    /\ IF part.size < Size
       THEN Ends(p) /\ Fault /\ UNCHANGED staging
       ELSE Step(p, "verify") /\ staged' = part /\ part' = None /\ UNCHANGED faults
    /\ UNCHANGED <<file, stamp, writes, edits>>

\* Variant: a download that is not the pinned file stays in staging.
VerifyKeeps(p) ==
    /\ At(p, "verify")
    /\ IF Pinned(staged) THEN Step(p, "appeared") ELSE Ends(p)
    /\ UNCHANGED <<file, stamp, staging, writes, edits, faults>>

\* Variant: the size alone is compared.
VerifySize(p) ==
    /\ At(p, "verify")
    /\ IF staged.size = Size
       THEN Step(p, "appeared") /\ UNCHANGED staging
       ELSE Ends(p) /\ part' = None /\ staged' = None
    /\ UNCHANGED <<file, stamp, writes, edits, faults>>

\* Size and checksum; what is not the pinned file is discarded.
Verify(p) ==
    /\ At(p, "verify")
    /\ IF Pinned(staged)
       THEN Step(p, "appeared") /\ UNCHANGED staging
       ELSE Ends(p) /\ part' = None /\ staged' = None
    /\ UNCHANGED <<file, stamp, writes, edits, faults>>

\* A file that appeared meanwhile is judged, and never overwritten.
SecondLook(p) ==
    \/ Look(p, "appeared", "hash2", Step(p, "publish"), Step(p, "clean"), FALSE)
    \/ Hash(p, "hash2", "stamp2")
    \/ Stamp(p, "stamp2", Step(p, "clean"))

\* The rename, then the stamp, then the staging directory.
Publish(p) ==
    /\ At(p, "publish") /\ To(p, "restamp")
    /\ file' = Placed(staged) /\ writes' = writes + 1
    /\ staged' = None
    /\ UNCHANGED <<stamp, part, holder, edits, faults>>

PublishStamp(p) == Stamp(p, "restamp", Step(p, "clean"))

Clean(p) ==
    /\ At(p, "clean") /\ Ends(p)
    /\ part' = None /\ staged' = None
    /\ UNCHANGED <<file, stamp, writes, edits, faults>>

Fetch(p) ==
    \/ Begin(p) \/ FirstLook(p) \/ SkipDownload(p) \/ Resume(p) \/ Restart(p)
    \/ RangeUnsatisfiable(p) \/ Receive(p) \/ EndOfStream(p) \/ Verify(p)
    \/ SecondLook(p) \/ Publish(p) \/ PublishStamp(p) \/ Clean(p)

\* A refused request, a full disk, an interrupt, a crash.
Stops(p) ==
    /\ ~At(p, "idle")
    /\ Ends(p) /\ Fault
    /\ UNCHANGED <<file, stamp, staging, writes, edits>>

-----------------------------------------------------------------------------
\* The user puts a file at the destination, or takes it away, at any moment.
UserEdits ==
    /\ edits < MaxEdits /\ edits' = edits + 1
    /\ \/ file # None /\ file' = None /\ writes' = writes
       \/ \E n \in {Size - 1, Size}, pinned \in BOOLEAN :
             file' = Placed(Bytes(n, pinned)) /\ writes' = writes + 1
    /\ UNCHANGED <<stamp, staging, holder, pc, faults>>

Next ==
    \/ \E p \in Fetches : Fetch(p)
    \/ \E p \in Statuses : Status(p)
    \/ \E p \in Runs : Stops(p)
    \/ UserEdits

Spec == Init /\ [][Next]_vars

\* The user runs `models fetch` again until it has nothing to do, and a
\* fetch goes on by itself.
LiveSpec == Spec /\ WF_vars(\E p \in Fetches : Fetch(p))

-----------------------------------------------------------------------------
Staged == {None} \cup [size : 0 .. Size + 1, pinned : BOOLEAN]

LookSteps == {"idle", "look", "hash", "stamp"}
FetchSteps == LookSteps \cup {"download", "stream", "verify", "appeared", "hash2",
                              "stamp2", "publish", "restamp", "clean"}

\* The type invariant.
TypeOK ==
    /\ file \in {None} \cup [size : 0 .. Size + 1, pinned : BOOLEAN, id : Nat]
    /\ stamp \in Nat \cup {None}
    /\ part \in Staged /\ staged \in Staged
    /\ holder \in Fetches \cup {None}
    /\ pc \in [Runs -> FetchSteps]
    /\ \A p \in Statuses : pc[p] \in LookSteps
    /\ writes \in Nat /\ edits \in 0 .. MaxEdits /\ faults \in 0 .. MaxFaults

\* What each run found at the destination is still so when it acts on it.
FindingsHold ==
    \A p \in Runs :
        /\ At(p, "publish") => file = None
        /\ pc[p] \in {"stamp", "stamp2", "restamp"} => Pinned(file)
        /\ At(p, "clean") => file # None

\* "Record the verified file beside it": a stamp that matches the file beside
\* it vouches for the pinned content.  A file that the user puts there between
\* the hash and the stat of `write_stamp` breaks it (library_stamp.cfg).
StampTellsTruth == Stamped => Pinned(file)

\* The stamps tell the truth, and what each run has found stays so, through
\* the looks, hashes, renames and stamps of all the others, through crashes,
\* and through every edit of the user's that falls between two findings: an
\* edit breaks no stamp by itself, and nothing but an edit makes a finding old.
StampsGoStaleByEditOnly ==
    [][ StampTellsTruth /\ FindingsHold =>
            StampTellsTruth' /\ (edits' = edits => FindingsHold') ]_vars

\* "Files become visible only after the size and checksum match", and a file
\* that is there is not overwritten: but for the user's own edits, what
\* appears at the destination is the pinned file, and it takes no file's
\* place, unless the user put that file there between the last look and the
\* rename.
PublishesPinnedOnly ==
    [][ edits' = edits /\ file' # file => Pinned(file') /\ (FindingsHold => file = None) ]_vars

\* "A file at the same destination with different content is never
\* overwritten": the rename replaces whatever has appeared since the last look
\* (library_overwrite.cfg).
NeverOverwrites ==
    [][ edits' = edits /\ file # None => file' = file ]_vars

\* "An interrupted download resumes": while nothing is at the destination,
\* pinned bytes in staging, resumed or complete, are given up only when the
\* server ignores the range or garbles the rest, or when the user takes away
\* the file whose presence made them needless.
PinnedBytes(bytes) == IF bytes # None /\ bytes.pinned /\ bytes.size <= Size THEN bytes.size ELSE 0

Kept == IF PinnedBytes(part) >= PinnedBytes(staged) THEN PinnedBytes(part) ELSE PinnedBytes(staged)

KeepsPinnedBytes ==
    [][ Kept' >= Kept \/ faults' > faults \/ file # None \/ file' # None \/ ~FindingsHold ]_vars

\* No download is a dead end: the user who repeats the fetch gets the file,
\* whatever was left in staging, once failures are over.
FetchArrives == <>[](file # None)

=============================================================================
