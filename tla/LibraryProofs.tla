---------------------------- MODULE LibraryProofs ----------------------------
(***************************************************************************)
(* Proofs about Library, for every number of runs, every size, however     *)
(* often downloads fail, and whenever the user moves files.  What a run    *)
(* found out about the destination stays true through every step but the   *)
(* user's.                                                                 *)
(***************************************************************************)
EXTENDS Library, TLAPS

Files == [size : 0 .. Size + 1, pinned : BOOLEAN, id : Nat]

Locked == \A p \in Fetches : pc[p] # "idle" => holder = p

\* What a fetch knows of the staging directory, which is its own.
StagingKnown ==
    \A p \in Fetches :
        /\ pc[p] = "stream" => part # None
        /\ pc[p] = "verify" => staged # None
        /\ pc[p] \in {"appeared", "hash2", "stamp2", "publish"} => Pinned(staged)

\* An identity is never given twice.
Identities ==
    /\ file # None => file.id <= writes
    /\ stamp # None => stamp <= writes

Base == TypeOK /\ Locked /\ StagingKnown
Inv == Base /\ Identities
Looks == FindingsHold /\ StampTellsTruth

LEMMA BytesTypes ==
  ASSUME NEW n \in 0 .. Size + 1, NEW pinned \in BOOLEAN
  PROVE  Bytes(n, pinned) \in Staged /\ Bytes(n, pinned) # None
  BY ConstantsAssumption DEF Staged, Bytes

LEMMA PlacedType ==
  ASSUME writes \in Nat, NEW b \in [size : 0 .. Size + 1, pinned : BOOLEAN]
  PROVE  /\ Placed(b) \in Files
         /\ Placed(b).id = writes + 1 /\ Placed(b).size = b.size /\ Placed(b).pinned = b.pinned
  BY DEF Placed, Files

LEMMA InitInv == Init => Inv
<1> SUFFICES ASSUME Init PROVE Inv
  OBVIOUS
<1>1. TypeOK
  BY ConstantsAssumption DEF Init, TypeOK, FetchSteps, LookSteps, Staged, Runs
<1>2. Locked /\ StagingKnown /\ Identities
  BY DEF Init, Locked, StagingKnown, Identities, Runs
<1> QED
  BY <1>1, <1>2 DEF Inv, Base

-----------------------------------------------------------------------------
(***************************************************************************)
(* Types, the lock, and the staging directory, which is the holder's.      *)
(***************************************************************************)
LEMMA StatusBase ==
  ASSUME Base, NEW p \in Statuses, Status(p)
  PROVE  Base'
<1> USE ConstantsAssumption
  DEF Base, TypeOK, Locked, StagingKnown, Runs, At, To, Ends, staging, FetchSteps, LookSteps, Pinned
<1>1. CASE At(p, "idle") /\ To(p, "look") /\ UNCHANGED <<file, stamp, staging, holder, writes, edits, faults>>
  BY <1>1
<1>2. ASSUME NEW v \in BOOLEAN, Look(p, "look", "hash", Ends(p), Ends(p), v) PROVE Base'
  BY <1>2 DEF Look
<1>3. CASE Hash(p, "hash", "stamp")
  BY <1>3 DEF Hash
<1>4. CASE Stamp(p, "stamp", Ends(p))
  BY <1>4 DEF Stamp
<1> QED
  BY <1>1, <1>2, <1>3, <1>4 DEF Status

LEMMA FetchBase ==
  ASSUME Base, NEW p \in Fetches, Fetch(p)
  PROVE  Base'
<1> USE ConstantsAssumption
  DEF Base, TypeOK, Locked, StagingKnown, Runs, At, To, Ends, Step, staging, FetchSteps, LookSteps, Pinned
<1>1. CASE Begin(p)
  BY <1>1 DEF Begin
<1>2. CASE FirstLook(p)
  <2>1. CASE Look(p, "look", "hash", Step(p, "download"), Ends(p), FALSE)
    BY <2>1 DEF Look
  <2>2. CASE Hash(p, "hash", "stamp")
    BY <2>2 DEF Hash
  <2>3. CASE Stamp(p, "stamp", Ends(p))
    BY <2>3 DEF Stamp
  <2> QED
    BY <1>2, <2>1, <2>2, <2>3 DEF FirstLook
<1>3. CASE SkipDownload(p)
  BY <1>3 DEF SkipDownload, Complete
<1>4. CASE Resume(p)
  BY <1>4 DEF Resume, Received
<1>5. CASE Restart(p)
  <2>1. part' \in Staged /\ part' # None
    <3>1. part' = Bytes(0, TRUE)
      BY <1>5 DEF Restart
    <3>2. 0 \in 0 .. Size + 1 /\ TRUE \in BOOLEAN
      OBVIOUS
    <3> QED
      BY <3>1, <3>2, BytesTypes
  <2>2. faults' \in 0 .. MaxFaults
    BY <1>5 DEF Restart, Fault
  <2> QED
    BY <1>5, <2>1, <2>2 DEF Restart
<1>6. CASE RangeUnsatisfiable(p)
  <2>1. part # None /\ None \in Staged
    BY <1>6 DEF RangeUnsatisfiable, Received, Staged
  <2> QED
    BY <1>6, <2>1 DEF RangeUnsatisfiable
<1>7. CASE Receive(p)
  <2>1. part \in [size : 0 .. Size + 1, pinned : BOOLEAN]
    BY <1>7 DEF Receive, Staged
  <2>2. part' \in Staged /\ part' # None
    <3>1. CASE part.size < Size /\ part' = Bytes(part.size + 1, part.pinned)
      <4>1. part.size + 1 \in 0 .. Size + 1 /\ part.pinned \in BOOLEAN
        BY <2>1, <3>1
      <4> QED
        BY <3>1, <4>1, BytesTypes
    <3>2. CASE part.size <= Size /\ part' = Bytes(part.size + 1, FALSE)
      <4>1. part.size + 1 \in 0 .. Size + 1
        BY <2>1, <3>2
      <4> QED
        BY <3>2, <4>1, BytesTypes
    <3> QED
      BY <1>7, <3>1, <3>2 DEF Receive
  <2>3. faults' \in 0 .. MaxFaults
    <3>1. UNCHANGED faults \/ Fault
      BY <1>7 DEF Receive
    <3> QED
      BY <3>1 DEF Fault
  <2> QED
    BY <1>7, <2>2, <2>3 DEF Receive
<1>8. CASE EndOfStream(p)
  <2>1. part # None /\ None \in Staged /\ faults' \in 0 .. MaxFaults
    BY <1>8 DEF EndOfStream, Staged, Fault
  <2> QED
    BY <1>8, <2>1 DEF EndOfStream
<1>9. CASE Verify(p)
  <2>1. None \in Staged
    BY DEF Staged
  <2>2. CASE Pinned(staged)
    BY <1>9, <2>2 DEF Verify
  <2>3. CASE ~Pinned(staged)
    BY <1>9, <2>1, <2>3 DEF Verify
  <2> QED
    BY <2>2, <2>3
<1>10. CASE SecondLook(p)
  <2>1. CASE Look(p, "appeared", "hash2", Step(p, "publish"), Step(p, "clean"), FALSE)
    BY <2>1 DEF Look
  <2>2. CASE Hash(p, "hash2", "stamp2")
    BY <2>2 DEF Hash
  <2>3. CASE Stamp(p, "stamp2", Step(p, "clean"))
    BY <2>3 DEF Stamp
  <2> QED
    BY <1>10, <2>1, <2>2, <2>3 DEF SecondLook
<1>11. CASE Publish(p)
  <2>1. staged \in [size : 0 .. Size + 1, pinned : BOOLEAN] /\ None \in Staged
    BY <1>11 DEF Publish, Staged
  <2>2. /\ file' \in Files /\ file'.id = writes + 1
        /\ file'.size = Size /\ file'.pinned
    BY <1>11, <2>1, PlacedType DEF Publish
  <2>3. file' # None
    BY <2>2, ConstantsAssumption DEF Files
  <2> QED
    BY <1>11, <2>1, <2>2, <2>3 DEF Publish, Files
<1>12. CASE PublishStamp(p)
  BY <1>12 DEF PublishStamp, Stamp
<1>13. CASE Clean(p)
  <2>1. None \in Staged
    BY DEF Staged
  <2> QED
    BY <1>13, <2>1 DEF Clean
<1> QED
  BY <1>1, <1>2, <1>3, <1>4, <1>5, <1>6, <1>7, <1>8, <1>9, <1>10, <1>11, <1>12, <1>13 DEF Fetch

LEMMA EditsBase ==
  ASSUME Base, UserEdits
  PROVE  Base'
<1> USE ConstantsAssumption DEF Base, TypeOK, Locked, StagingKnown, staging
<1>1. edits' \in 0 .. MaxEdits
  BY DEF UserEdits
<1>2. Locked' /\ StagingKnown'
  BY DEF UserEdits, Pinned
<1>3. CASE file' = None /\ writes' = writes
  BY <1>1, <1>2, <1>3 DEF UserEdits
<1>4. ASSUME NEW n \in {Size - 1, Size}, NEW pinned \in BOOLEAN,
             file' = Placed(Bytes(n, pinned)), writes' = writes + 1
      PROVE  Base'
  <2>1. Bytes(n, pinned) \in [size : 0 .. Size + 1, pinned : BOOLEAN]
    <3>1. n \in 0 .. Size + 1
      OBVIOUS
    <3> QED
      BY <3>1 DEF Bytes
  <2>2. file' \in Files
    BY <1>4, <2>1, PlacedType
  <2> QED
    BY <1>1, <1>2, <1>4, <2>2 DEF UserEdits, Files
<1> QED
  BY <1>3, <1>4 DEF UserEdits

LEMMA StepBase == Base /\ [Next]_vars => Base'
<1> SUFFICES ASSUME Base, [Next]_vars PROVE Base'
  OBVIOUS
<1>1. ASSUME NEW p \in Runs, Stops(p) PROVE Base'
  BY <1>1, ConstantsAssumption
  DEF Stops, Fault, Ends, At, To, Base, TypeOK, Locked, StagingKnown, Pinned, Runs, staging,
      FetchSteps, LookSteps
<1>2. CASE UNCHANGED vars
  BY <1>2 DEF vars, staging, Base, TypeOK, Locked, StagingKnown, Pinned
<1> QED
  BY <1>1, <1>2, FetchBase, StatusBase, EditsBase DEF Next

LEMMA AlwaysBase == Spec => []Base
<1>1. Init => Base
  BY InitInv DEF Inv
<1> QED
  BY <1>1, StepBase, PTL DEF Spec

\* Parts, files, stamps and fetches are well typed, whenever the user edits.
THEOREM TypeCorrect == Spec => []TypeOK
<1>1. Base => TypeOK
  BY DEF Base
<1> QED
  BY AlwaysBase, <1>1, PTL

HolderRuns == holder # None => holder \in Fetches /\ pc[holder] # "idle"

LEMMA StepHolder == Base /\ HolderRuns /\ [Next]_vars => HolderRuns'
<1> SUFFICES ASSUME Base, HolderRuns, [Next]_vars PROVE HolderRuns'
  OBVIOUS
<1> USE ConstantsAssumption DEF Base, TypeOK, HolderRuns, Runs, At, To, Ends, Step
<1>1. ASSUME NEW p \in Fetches, Fetch(p) PROVE HolderRuns'
  BY <1>1 DEF Fetch, Begin, FirstLook, SkipDownload, Resume, Restart, RangeUnsatisfiable,
     Receive, EndOfStream, Verify, SecondLook, Publish, PublishStamp, Clean, Look, Hash, Stamp
<1>2. ASSUME NEW p \in Statuses, Status(p) PROVE HolderRuns'
  BY <1>2 DEF Status, Look, Hash, Stamp
<1>3. ASSUME NEW p \in Runs, Stops(p) PROVE HolderRuns'
  BY <1>3 DEF Stops
<1>4. CASE UserEdits \/ UNCHANGED vars
  BY <1>4 DEF UserEdits, vars
<1> QED
  BY <1>1, <1>2, <1>3, <1>4 DEF Next

\* A fetch is refused over the download lock only while another fetch runs:
\* whatever ends a fetch gives the lock back.
THEOREM LockIsAFetchs == Spec => []HolderRuns
<1>1. Init => HolderRuns
  BY DEF Init, HolderRuns
<1> QED
  BY AlwaysBase, StepHolder, <1>1, PTL DEF Spec

\* The one step of the commands that changes the destination puts the pinned
\* file there.
LEMMA StepPlaces ==
  ASSUME Base, [Next]_vars, edits' = edits, file' # file
  PROVE  /\ \E p \in Fetches : Publish(p)
         /\ Pinned(file') /\ file'.id = writes + 1
<1>1. ASSUME NEW p \in Fetches, Publish(p) PROVE Pinned(file') /\ file'.id = writes + 1
  <2>1. staged \in [size : 0 .. Size + 1, pinned : BOOLEAN] /\ Pinned(staged)
    BY <1>1 DEF Publish, At, Base, TypeOK, Staged, StagingKnown, Pinned
  <2>2. file' \in Files /\ file'.size = Size /\ file'.pinned /\ file'.id = writes + 1
    BY <1>1, <2>1, PlacedType DEF Publish, Base, TypeOK, Pinned
  <2> QED
    BY <2>2, ConstantsAssumption DEF Files, Pinned
<1>2. ~ \E p \in Statuses : Status(p)
  BY DEF Status, Look, Hash, Stamp
<1>3. ~ \E p \in Runs : Stops(p)
  BY DEF Stops
<1>4. ~UserEdits
  BY DEF UserEdits, Base, TypeOK
<1>5. ASSUME NEW p \in Fetches, Fetch(p) PROVE Publish(p)
  BY <1>5 DEF Fetch, Begin, FirstLook, SkipDownload, Resume, Restart, RangeUnsatisfiable,
     Receive, EndOfStream, Verify, SecondLook, PublishStamp, Clean, Look, Hash, Stamp
<1> QED
  BY <1>1, <1>2, <1>3, <1>4, <1>5 DEF Next, vars

\* "Files become visible only after the size and checksum match", whenever the
\* user moves files: no command ever puts anything else at the destination.
THEOREM PlacesPinned == Spec => [][edits' = edits /\ file' # file => Pinned(file')]_vars
<1>1. Base /\ [Next]_vars => [edits' = edits /\ file' # file => Pinned(file')]_vars
  BY StepPlaces
<1> QED
  BY AlwaysBase, <1>1, PTL DEF Spec

-----------------------------------------------------------------------------
(***************************************************************************)
(* Identities are given once, so an edit of the user's, which gives a new  *)
(* one, breaks no stamp by itself.                                         *)
(***************************************************************************)
LEMMA EditsIdentities ==
  ASSUME Inv, UserEdits
  PROVE  Identities' /\ (StampTellsTruth => StampTellsTruth')
<1> USE ConstantsAssumption
  DEF Inv, Base, TypeOK, Identities, StampTellsTruth, Stamped, staging
<1>1. CASE file' = None /\ writes' = writes
  BY <1>1 DEF UserEdits
<1>2. ASSUME NEW n \in {Size - 1, Size}, NEW pinned \in BOOLEAN,
             file' = Placed(Bytes(n, pinned)), writes' = writes + 1
      PROVE  Identities' /\ StampTellsTruth'
  <2>1. Bytes(n, pinned) \in [size : 0 .. Size + 1, pinned : BOOLEAN]
    <3>1. n \in 0 .. Size + 1
      OBVIOUS
    <3> QED
      BY <3>1 DEF Bytes
  <2>2. file' \in Files /\ file'.id = writes + 1
    BY <1>2, <2>1, PlacedType
  <2> QED
    BY <1>2, <2>2 DEF UserEdits, Files
<1> QED
  BY <1>1, <1>2 DEF UserEdits

LEMMA StepInv == Inv /\ [Next]_vars => Inv'
<1> SUFFICES ASSUME Inv, [Next]_vars PROVE Identities'
  BY StepBase DEF Inv
<1> USE ConstantsAssumption DEF Inv, Base, TypeOK, Identities
<1>1. ASSUME NEW p \in Fetches, Fetch(p), ~Publish(p) PROVE Identities'
  BY <1>1 DEF Fetch, Begin, FirstLook, SkipDownload, Resume, Restart, RangeUnsatisfiable,
     Receive, EndOfStream, Verify, SecondLook, PublishStamp, Clean, Look, Hash, Stamp
<1>2. ASSUME NEW p \in Fetches, Publish(p) PROVE Identities'
  <2>1. staged \in [size : 0 .. Size + 1, pinned : BOOLEAN]
    BY <1>2 DEF Publish, At, Staged, StagingKnown, Pinned
  <2>2. file' \in Files /\ file'.id = writes + 1
    BY <1>2, <2>1, PlacedType DEF Publish
  <2> QED
    BY <1>2, <2>2 DEF Publish
<1>3. ASSUME NEW p \in Statuses, Status(p) PROVE Identities'
  BY <1>3 DEF Status, Look, Hash, Stamp
<1>4. ASSUME NEW p \in Runs, Stops(p) PROVE Identities'
  BY <1>4 DEF Stops
<1>5. CASE UNCHANGED vars
  BY <1>5 DEF vars
<1> QED
  BY <1>1, <1>2, <1>3, <1>4, <1>5, EditsIdentities DEF Next

LEMMA AlwaysInv == Spec => []Inv
  BY InitInv, StepInv, PTL DEF Spec

-----------------------------------------------------------------------------
(***************************************************************************)
(* What a run found out about the destination is still so when it acts, if *)
(* the steps between are those of the commands.                            *)
(***************************************************************************)
LEMMA StatusLooks ==
  ASSUME Inv, Looks, NEW p \in Statuses, Status(p)
  PROVE  Looks'
<1> USE ConstantsAssumption
  DEF Inv, Base, Looks, TypeOK, FindingsHold, Identities, StampTellsTruth, Stamped,
      Runs, At, To, Ends, staging, Pinned
<1>1. CASE At(p, "idle") /\ To(p, "look") /\ UNCHANGED <<file, stamp, staging, holder, writes, edits, faults>>
  BY <1>1
<1>2. ASSUME NEW v \in BOOLEAN, Look(p, "look", "hash", Ends(p), Ends(p), v) PROVE Looks'
  BY <1>2 DEF Look
<1>3. CASE Hash(p, "hash", "stamp")
  BY <1>3 DEF Hash
<1>4. CASE Stamp(p, "stamp", Ends(p))
  BY <1>4 DEF Stamp
<1> QED
  BY <1>1, <1>2, <1>3, <1>4 DEF Status

LEMMA FetchLooks ==
  ASSUME Inv, Looks, NEW p \in Fetches, Fetch(p)
  PROVE  Looks'
<1> USE ConstantsAssumption
  DEF Inv, Base, Looks, TypeOK, Locked, FindingsHold, Identities, StampTellsTruth, Stamped,
      Runs, At, To, Ends, Step, staging, Pinned
<1>1. CASE Begin(p)
  BY <1>1 DEF Begin
<1>2. CASE FirstLook(p)
  <2>1. CASE Look(p, "look", "hash", Step(p, "download"), Ends(p), FALSE)
    BY <2>1 DEF Look
  <2>2. CASE Hash(p, "hash", "stamp")
    BY <2>2 DEF Hash
  <2>3. CASE Stamp(p, "stamp", Ends(p))
    BY <2>3 DEF Stamp
  <2> QED
    BY <1>2, <2>1, <2>2, <2>3 DEF FirstLook
<1>3. CASE SkipDownload(p) \/ Resume(p) \/ Restart(p) \/ RangeUnsatisfiable(p)
  BY <1>3 DEF SkipDownload, Resume, Restart, RangeUnsatisfiable
<1>4. CASE Receive(p) \/ EndOfStream(p) \/ Verify(p)
  BY <1>4 DEF Receive, EndOfStream, Verify
<1>5. CASE SecondLook(p)
  <2>1. CASE Look(p, "appeared", "hash2", Step(p, "publish"), Step(p, "clean"), FALSE)
    BY <2>1 DEF Look
  <2>2. CASE Hash(p, "hash2", "stamp2")
    BY <2>2 DEF Hash
  <2>3. CASE Stamp(p, "stamp2", Step(p, "clean"))
    BY <2>3 DEF Stamp
  <2> QED
    BY <1>5, <2>1, <2>2, <2>3 DEF SecondLook
<1>6. CASE Publish(p)
  <2>1. Pinned(file') /\ file'.id = writes + 1
    <3>1. file = None /\ edits' = edits
      BY <1>6 DEF Publish
    <3>2. staged \in [size : 0 .. Size + 1, pinned : BOOLEAN]
      BY <1>6 DEF Publish, StagingKnown, Staged
    <3>3. file' \in Files
      BY <1>6, <3>2, PlacedType DEF Publish
    <3>4. file' # file /\ [Next]_vars
      BY <1>6, <3>1, <3>3 DEF Files, Next, Fetch
    <3> QED
      BY <3>1, <3>4, StepPlaces
  <2>2. FindingsHold'
    BY <1>6, <2>1 DEF Publish, LookSteps
  <2>3. StampTellsTruth'
    BY <1>6, <2>1 DEF Publish
  <2> QED
    BY <2>2, <2>3
<1>7. CASE PublishStamp(p)
  BY <1>7 DEF PublishStamp, Stamp
<1>8. CASE Clean(p)
  BY <1>8 DEF Clean
<1> QED
  BY <1>1, <1>2, <1>3, <1>4, <1>5, <1>6, <1>7, <1>8 DEF Fetch

LEMMA StepLooks ==
  ASSUME Inv, Looks, [Next]_vars, edits' = edits
  PROVE  Looks'
<1>1. ASSUME NEW p \in Runs, Stops(p) PROVE Looks'
  BY <1>1, ConstantsAssumption
  DEF Stops, Ends, At, To, Inv, Base, Looks, TypeOK, FindingsHold, StampTellsTruth, Stamped,
      Pinned, Runs, staging
<1>2. CASE UNCHANGED vars
  BY <1>2 DEF vars, staging, Inv, Looks, FindingsHold, StampTellsTruth, Stamped, Pinned, At
<1>3. ~UserEdits
  BY DEF UserEdits, Inv, Base, TypeOK
<1> QED
  BY <1>1, <1>2, <1>3, FetchLooks, StatusLooks DEF Next

LEMMA StepStamp ==
  ASSUME Inv, Looks, [Next]_vars
  PROVE  StampTellsTruth'
<1>1. CASE edits' = edits
  BY <1>1, StepLooks DEF Looks
<1>2. CASE edits' # edits
  <2>1. UserEdits
    BY <1>2 DEF Next, Status, Stops, Fetch, Begin, FirstLook, SkipDownload, Resume, Restart,
       RangeUnsatisfiable, Receive, EndOfStream, Verify, SecondLook, Publish, PublishStamp, Clean,
       Look, Hash, Stamp, vars
  <2> QED
    BY <2>1, EditsIdentities DEF Looks
<1> QED
  BY <1>1, <1>2

\* A stamp that status and fetch trust stops vouching for the pinned content
\* only after an edit between a finding and the act on it: `sha256_file` and
\* `write_stamp`, or the last look and the rename.
THEOREM StampTrue == Spec => StampsGoStaleByEditOnly
<1> DEFINE Step1 == StampTellsTruth /\ FindingsHold =>
                        StampTellsTruth' /\ (edits' = edits => FindingsHold')
<1>1. Inv /\ [Next]_vars => [Step1]_vars
  BY StepLooks, StepStamp DEF Looks
<1> QED
  BY AlwaysInv, <1>1, PTL DEF Spec, StampsGoStaleByEditOnly

\* Only the verified file becomes visible, whenever the user moves files, and
\* it replaces only what came after the last look.
THEOREM PublishesPinned == Spec => PublishesPinnedOnly
<1> DEFINE Publishes == edits' = edits /\ file' # file => Pinned(file') /\ (FindingsHold => file = None)
<1>1. Inv /\ [Next]_vars => [Publishes]_vars
  BY StepPlaces DEF Inv, FindingsHold, Publish, Runs
<1> QED
  BY AlwaysInv, <1>1, PTL DEF Spec, PublishesPinnedOnly

-----------------------------------------------------------------------------
(***************************************************************************)
(* What is in staging: there is no part beside a download that is          *)
(* complete, so the bytes that count are in one of them.                   *)
(***************************************************************************)
OneDownload ==
    /\ staged # None => staged.size >= Size
    /\ Complete => part = None
    /\ \A p \in Fetches :
        /\ pc[p] = "stream" => ~Complete
        /\ pc[p] = "verify" => part = None

LEMMA OneDownloadInit == Init => OneDownload
  BY ConstantsAssumption DEF Init, OneDownload, Complete, Runs

LEMMA PublishedIsThere ==
  ASSUME Inv, NEW p \in Fetches, Publish(p)
  PROVE  file' # None
<1>1. staged \in [size : 0 .. Size + 1, pinned : BOOLEAN]
  BY DEF Publish, At, Inv, Base, TypeOK, Staged, StagingKnown, Pinned
<1>2. file' \in Files
  BY <1>1, PlacedType DEF Publish, Inv, Base, TypeOK
<1> QED
  BY <1>2, ConstantsAssumption DEF Files

\* Who is not the holder of the download lock leaves staging alone.
LEMMA OneDownloadStep ==
  ASSUME Inv, OneDownload, [Next]_vars
  PROVE  OneDownload'
<1> USE ConstantsAssumption DEF OneDownload, Complete, Inv, Base, TypeOK, Locked, At, To, Ends, Step, staging, Runs
<1>1. ASSUME NEW p \in Fetches, Begin(p) \/ FirstLook(p) \/ SecondLook(p) \/ PublishStamp(p) PROVE OneDownload'
  BY <1>1 DEF Begin, FirstLook, SecondLook, PublishStamp, Look, Hash, Stamp
<1>2. ASSUME NEW p \in Fetches, SkipDownload(p) \/ Resume(p) PROVE OneDownload'
  BY <1>2 DEF SkipDownload, Resume
<1>3. ASSUME NEW p \in Fetches, Restart(p) PROVE OneDownload'
  BY <1>3 DEF Restart
<1>4. ASSUME NEW p \in Fetches, RangeUnsatisfiable(p) PROVE OneDownload'
  <2>1. part # None /\ part.size >= Size
    BY <1>4 DEF RangeUnsatisfiable, Received
  <2> QED
    BY <1>4, <2>1 DEF RangeUnsatisfiable
<1>5. ASSUME NEW p \in Fetches, Receive(p) PROVE OneDownload'
  BY <1>5 DEF Receive
<1>6. ASSUME NEW p \in Fetches, EndOfStream(p) PROVE OneDownload'
  <2>1. part # None /\ part.size \in Nat
    BY <1>6 DEF EndOfStream, StagingKnown, Staged
  <2> QED
    BY <1>6, <2>1 DEF EndOfStream
<1>7. ASSUME NEW p \in Fetches, Verify(p) PROVE OneDownload'
  BY <1>7 DEF Verify
<1>8. ASSUME NEW p \in Fetches, Publish(p) PROVE OneDownload'
  BY <1>8, PublishedIsThere DEF Publish
<1>12. ASSUME NEW p \in Fetches, Clean(p) PROVE OneDownload'
  BY <1>12 DEF Clean
<1>9. ASSUME NEW p \in Statuses, Status(p) PROVE OneDownload'
  BY <1>9 DEF Status, Look, Hash, Stamp
<1>10. ASSUME NEW p \in Runs, Stops(p) PROVE OneDownload'
  BY <1>10 DEF Stops
<1>11. CASE UserEdits \/ UNCHANGED vars
  BY <1>11 DEF UserEdits, vars
<1> QED
  BY <1>1, <1>2, <1>3, <1>4, <1>5, <1>6, <1>7, <1>8, <1>9, <1>10, <1>11, <1>12 DEF Next, Fetch

\* Pinned bytes that were downloaded once are kept through failed requests,
\* crashes and later fetches, unless the server sends others.
THEOREM KeepsPinned == Spec => KeepsPinnedBytes
<1> DEFINE Keeps == Kept' >= Kept \/ faults' > faults \/ file # None \/ file' # None \/ ~FindingsHold
<1>1. ASSUME Inv, OneDownload, Inv', [Next]_vars PROVE [Keeps]_vars
  <2> USE ConstantsAssumption
  <2>1. Kept \in Nat /\ Kept' \in Nat /\ PinnedBytes(part) \in Nat /\ PinnedBytes(staged) \in Nat
    BY <1>1 DEF Inv, Base, TypeOK, Staged, PinnedBytes, Kept
  <2>2. ASSUME UNCHANGED staging PROVE Keeps
    <3>1. Kept' = Kept
      BY <2>2 DEF staging, Kept, PinnedBytes
    <3> QED
      BY <2>1, <3>1
  <2>3. ASSUME NEW p \in Fetches, Restart(p) PROVE Keeps
    <3>1. CASE Received = 0
      <4>1. Kept = 0
        BY <1>1, <2>3, <3>1 DEF Restart, Received, Kept, PinnedBytes, OneDownload, Complete, Inv, Base, TypeOK, Staged
      <4> QED
        BY <2>1, <4>1
    <3>2. CASE Received # 0
      BY <1>1, <2>3, <3>2 DEF Restart, Fault, Inv, Base, TypeOK
    <3> QED
      BY <3>1, <3>2
  <2>4. ASSUME NEW p \in Fetches, RangeUnsatisfiable(p) PROVE Keeps
    <3>1. PinnedBytes(staged) = 0
      BY <1>1, <2>4 DEF RangeUnsatisfiable, PinnedBytes, OneDownload, Complete, Inv, Base, TypeOK, Staged
    <3>2. PinnedBytes(staged)' = PinnedBytes(part) /\ PinnedBytes(part)' = 0
      BY <2>4 DEF RangeUnsatisfiable, PinnedBytes
    <3> QED
      BY <2>1, <3>1, <3>2 DEF Kept
  <2>5. ASSUME NEW p \in Fetches, Receive(p) PROVE Keeps
    <3>1. CASE part.size < Size /\ part' = Bytes(part.size + 1, part.pinned)
      <4>1. PinnedBytes(part)' >= PinnedBytes(part) /\ PinnedBytes(part)' \in Nat
        BY <1>1, <2>5, <3>1 DEF Receive, At, PinnedBytes, Bytes, Inv, Base, TypeOK, Staged, StagingKnown
      <4>2. PinnedBytes(staged)' = PinnedBytes(staged)
        BY <2>5 DEF Receive, PinnedBytes
      <4> QED
        BY <2>1, <4>1, <4>2 DEF Kept
    <3>2. CASE Fault
      BY <1>1, <3>2 DEF Fault, Inv, Base, TypeOK
    <3> QED
      BY <2>5, <3>1, <3>2 DEF Receive
  <2>6. ASSUME NEW p \in Fetches, EndOfStream(p) PROVE Keeps
    <3>1. CASE part.size < Size
      BY <1>1, <2>6, <3>1 DEF EndOfStream, Fault, Inv, Base, TypeOK
    <3>2. CASE ~(part.size < Size)
      <4>1. PinnedBytes(staged) = 0
        BY <1>1, <2>6 DEF EndOfStream, At, PinnedBytes, OneDownload, Complete, Inv, Base, TypeOK, Staged
      <4>2. PinnedBytes(staged)' = PinnedBytes(part) /\ PinnedBytes(part)' = 0
        BY <2>6, <3>2 DEF EndOfStream, PinnedBytes
      <4> QED
        BY <2>1, <4>1, <4>2 DEF Kept
    <3> QED
      BY <3>1, <3>2
  <2>7. ASSUME NEW p \in Fetches, Verify(p) PROVE Keeps
    <3>1. CASE Pinned(staged)
      BY <2>2, <2>7, <3>1 DEF Verify, staging
    <3>2. CASE ~Pinned(staged)
      <4>1. Kept = 0
        BY <1>1, <2>7, <3>2 DEF Verify, At, Kept, Pinned, PinnedBytes, OneDownload, Inv, Base, TypeOK, Staged
      <4> QED
        BY <2>1, <4>1
    <3> QED
      BY <3>1, <3>2
  <2>8. ASSUME NEW p \in Fetches, Publish(p) PROVE Keeps
    BY <1>1, <2>8, PublishedIsThere
  <2>9. ASSUME NEW p \in Fetches, Clean(p) PROVE Keeps
    BY <1>1, <2>9 DEF Clean, FindingsHold, Runs
  <2>10. ASSUME NEW p \in Fetches, Begin(p) \/ FirstLook(p) \/ SecondLook(p) \/ PublishStamp(p)
                                   \/ SkipDownload(p) \/ Resume(p)
         PROVE  Keeps
    BY <2>2, <2>10 DEF Begin, FirstLook, SecondLook, PublishStamp, Look, Hash, Stamp, SkipDownload, Resume, staging
  <2>11. ASSUME NEW p \in Statuses, Status(p) PROVE Keeps
    BY <2>2, <2>11 DEF Status, Look, Hash, Stamp, staging
  <2>12. ASSUME NEW p \in Runs, Stops(p) PROVE Keeps
    BY <2>2, <2>12 DEF Stops, staging
  <2>13. CASE UserEdits
    BY <2>2, <2>13 DEF UserEdits
  <2> QED
    BY <1>1, <2>3, <2>4, <2>5, <2>6, <2>7, <2>8, <2>9, <2>10, <2>11, <2>12, <2>13 DEF Next, Fetch
<1>2. Inv /\ OneDownload /\ Inv' /\ [Next]_vars => [Keeps]_vars
  BY <1>1
<1>3. Inv /\ OneDownload /\ [Next]_vars => OneDownload'
  BY OneDownloadStep
<1> QED
  BY AlwaysInv, OneDownloadInit, <1>2, <1>3, PTL DEF Spec, KeepsPinnedBytes

=============================================================================
