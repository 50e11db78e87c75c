---------------------------- MODULE SkillsProofs ----------------------------
(***************************************************************************)
(* Proofs about Skills, for every number of fetches and skills, every      *)
(* number of faults and every number of the user's edits.                  *)
(***************************************************************************)
EXTENDS Skills, TLAPS

LEMMA SkillOfFetch == TypeOK => \A p \in Fetches : Skill(p) \in Skills
<1> SUFFICES ASSUME TypeOK, NEW p \in Fetches PROVE Skill(p) \in Skills
  OBVIOUS
<1>1. at[p] \in DOMAIN Manifest
  BY DEF TypeOK
<1> QED
  BY <1>1 DEF Skill, Skills

LEMMA Positions ==
  /\ DOMAIN Manifest = 1 .. Len(Manifest) /\ Len(Manifest) \in Nat \ {0}
  /\ 1 \in DOMAIN Manifest
  /\ \A i \in DOMAIN Manifest : i < Len(Manifest) => i + 1 \in DOMAIN Manifest
<1>1. Len(Manifest) \in Nat /\ Len(Manifest) >= 1 /\ DOMAIN Manifest = 1 .. Len(Manifest)
  BY ConstantsAssumption
<1> QED
  BY <1>1

LEMMA InitType == Init => TypeOK
  BY Positions, ConstantsAssumption
  DEF Init, TypeOK, Contents, Trees, Verified, Steps, None, Pinned, Outdated, Foreign

\* What a step of a fetch does to the fetch itself.
Moves(p) ==
    /\ pc' \in [Fetches -> Steps] /\ at' \in [Fetches -> DOMAIN Manifest]
    /\ staged' \in [Fetches -> {None, Pinned, Foreign}]
    /\ \A q \in Fetches \ {p} : pc'[q] = pc[q] /\ staged'[q] = staged[q]

LEMMA EndsMoves == ASSUME TypeOK, NEW p \in Fetches, Ends(p) PROVE Moves(p) /\ pc'[p] = "idle"
  BY Positions DEF TypeOK, Ends, To, Moves, Steps

LEMMA OnwardMoves ==
  ASSUME TypeOK, NEW p \in Fetches, Onward(p)
  PROVE  Moves(p) /\ pc'[p] \in {"look", "prune"}
<1>1. at[p] \in DOMAIN Manifest
  BY DEF TypeOK
<1>2. CASE at[p] < Len(Manifest)
  BY <1>1, <1>2, Positions DEF TypeOK, Onward, To, Moves, Steps
<1>3. CASE ~(at[p] < Len(Manifest))
  BY <1>1, <1>3, Positions DEF TypeOK, Onward, To, Moves, Steps
<1> QED
  BY <1>2, <1>3

Replacing == {"backup", "drop", "there", "aside", "swap", "clean", "drop2"}

LEMMA FetchMoves ==
  ASSUME TypeOK, NEW p \in Fetches, Fetch(p)
  PROVE  Moves(p) /\ (pc'[p] \in Replacing => staged'[p] = Pinned)
<1> DEFINE Good == Moves(p) /\ (pc'[p] \in Replacing => staged'[p] = Pinned)
<1>1. Ends(p) => Good
  BY EndsMoves DEF Replacing
<1>2. Onward(p) => Good
  BY OnwardMoves DEF Replacing
<1>3. ASSUME NEW step \in Steps, To(p, step), at' = at, staged' = staged,
             step \in Replacing => staged[p] = Pinned
      PROVE  Good
  BY <1>3 DEF TypeOK, To, Moves, Replacing
<1>4. CASE Look(p)
  BY <1>1, <1>2, <1>3, <1>4 DEF Look, Replacing, Steps
<1>5. CASE Stage(p)
  BY <1>5 DEF Stage, CheckedOut, TypeOK, To, Moves, Replacing, Steps
<1>6. CASE Verify(p)
  BY <1>1, <1>3, <1>6 DEF Verify, Replacing, Steps
<1>7. CASE LookForBackup(p)
  BY <1>3, <1>7 DEF LookForBackup, At, TypeOK, Steps
<1>8. CASE DropStale(p)
  BY <1>1, <1>3, <1>8 DEF DropStale, Drops, At, TypeOK, Steps, Moves, fetching, Replacing
<1>9. CASE LookAtPlace(p)
  BY <1>3, <1>9 DEF LookAtPlace, At, TypeOK, Steps
<1>10. CASE MoveAside(p)
  BY <1>1, <1>3, <1>10 DEF MoveAside, At, TypeOK, Steps
<1>11. CASE Swap(p)
  BY <1>1, <1>3, <1>11 DEF Swap, At, TypeOK, Steps
<1>12. CASE LookForCopy(p)
  BY <1>2, <1>3, <1>12 DEF LookForCopy, At, TypeOK, Steps
<1>13. CASE DropCopy(p)
  BY <1>1, <1>2, <1>13 DEF DropCopy, Drops, At, TypeOK, Moves, fetching, Replacing
<1>14. CASE Prune(p)
  BY <1>1, <1>14 DEF Prune, At, TypeOK, Moves, fetching, Replacing
<1> QED
  BY <1>4, <1>5, <1>6, <1>7, <1>8, <1>9, <1>10, <1>11, <1>12, <1>13, <1>14 DEF Fetch

LEMMA FetchPlaces ==
  ASSUME TypeOK, NEW p \in Fetches, Fetch(p)
  PROVE  /\ place' \in [Skills \cup Undeclared -> Contents]
         /\ previous' \in [Skills -> Contents]
         /\ had' \subseteq Skills /\ touched' = touched
         /\ faults' \in 0 .. MaxFaults /\ edits' = edits
<1> DEFINE Good == /\ place' \in [Skills \cup Undeclared -> Contents]
                   /\ previous' \in [Skills -> Contents]
                   /\ had' \subseteq Skills /\ touched' = touched
                   /\ faults' \in 0 .. MaxFaults /\ edits' = edits
<1> USE DEF TypeOK, Still
<1>1. Skill(p) \in Skills
  BY SkillOfFetch
<1>2. {None, Torn, Pinned, Foreign} \subseteq Contents
  BY DEF Contents, Trees, Verified
<1>3. CASE Look(p) \/ Verify(p) \/ LookForBackup(p) \/ LookAtPlace(p) \/ LookForCopy(p)
  BY <1>3 DEF Look, Verify, LookForBackup, LookAtPlace, LookForCopy
<1>4. CASE Stage(p)
  <2>1. PICK good \in BOOLEAN : faults' = (IF good THEN faults ELSE faults + 1) /\ faults' <= MaxFaults
    BY <1>4 DEF Stage
  <2> QED
    BY <1>4, <2>1, ConstantsAssumption DEF Stage
<1>5. CASE DropStale(p) \/ DropCopy(p)
  BY <1>1, <1>2, <1>5 DEF DropStale, DropCopy, Drops
<1>6. CASE MoveAside(p)
  BY <1>1, <1>2, <1>6 DEF MoveAside
<1>7. CASE Swap(p)
  BY <1>1, <1>2, <1>7 DEF Swap
<1>8. CASE Prune(p)
  BY <1>2, <1>8 DEF Prune
<1> QED
  BY <1>3, <1>4, <1>5, <1>6, <1>7, <1>8 DEF Fetch

LEMMA StepType == TypeOK /\ [Next]_vars => TypeOK'
<1> SUFFICES ASSUME TypeOK, [Next]_vars PROVE TypeOK'
  OBVIOUS
<1>1. ASSUME NEW p \in Fetches, Begin(p) PROVE TypeOK'
  BY <1>1 DEF Begin, At, To, Still, TypeOK, Steps
<1>2. ASSUME NEW p \in Fetches, Fetch(p) PROVE TypeOK'
  BY <1>2, FetchMoves, FetchPlaces DEF TypeOK, Moves, Replacing
<1>3. ASSUME NEW p \in Fetches, Stops(p) PROVE TypeOK'
  <2>1. Moves(p) /\ pc'[p] = "idle"
    BY <1>3, EndsMoves DEF Stops
  <2>2. faults' \in 0 .. MaxFaults
    BY <1>3, ConstantsAssumption DEF Stops, TypeOK
  <2> QED
    BY <1>3, <2>1, <2>2 DEF Stops, TypeOK, Moves
<1>4. ASSUME NEW s \in Skills, UserEdits(s) PROVE TypeOK'
  <2>1. edits' \in 0 .. MaxEdits /\ touched' \subseteq Skills
    BY <1>4, ConstantsAssumption DEF UserEdits, TypeOK
  <2> QED
    BY <1>4, <2>1 DEF UserEdits, TypeOK
<1>5. CASE UNCHANGED vars
  BY <1>5 DEF vars, TypeOK
<1> QED
  BY <1>1, <1>2, <1>3, <1>4, <1>5 DEF Next

\* Fetches, places and copies are well typed, and a fetch that replaces has
\* verified what it replaces with.
THEOREM TypeCorrect == Spec => []TypeOK
  BY InitType, StepType, PTL DEF Spec

\* What any step does to the places of the skills: nothing, the second rename,
\* the first one, or the user's edit.
Swaps(s) ==
    /\ place[s] = None /\ place'[s] = Pinned
    /\ \A t \in Skills \ {s} : place'[t] = place[t]
    /\ edits' = edits /\ touched' = touched
Takes(s) ==
    /\ place[s] # None /\ place'[s] = None
    /\ \A t \in Skills \ {s} : place'[t] = place[t]
    /\ edits' = edits /\ touched' = touched
Edits(s) ==
    /\ \A t \in Skills \ {s} : place'[t] = place[t]
    /\ edits' = edits + 1 /\ touched' = touched \cup {s}
Rests ==
    /\ \A t \in Skills : place'[t] = place[t]
    /\ edits' = edits /\ touched' = touched

LEMMA StepPlaces ==
  ASSUME TypeOK, [Next]_vars
  PROVE  Rests \/ \E s \in Skills : Swaps(s) \/ Takes(s) \/ Edits(s)
<1>1. ASSUME NEW p \in Fetches, Fetch(p)
      PROVE  Rests \/ \E s \in Skills : Swaps(s) \/ Takes(s)
  <2>1. Skill(p) \in Skills
    BY SkillOfFetch
  <2>2. CASE Swap(p)
    <3>1. CASE place[Skill(p)] = None
      <4>1. staged[p] = Pinned
        BY <2>2 DEF Swap, At, TypeOK
      <4>2. Swaps(Skill(p))
        BY <2>1, <2>2, <3>1, <4>1 DEF Swap, Swaps, TypeOK
      <4> QED
        BY <2>1, <4>2
    <3>2. CASE place[Skill(p)] # None
      BY <2>2, <3>2 DEF Swap, Rests
    <3> QED
      BY <3>1, <3>2
  <2>3. CASE MoveAside(p)
    <3>1. CASE place[Skill(p)] # None /\ previous[Skill(p)] = None
      <4>1. Takes(Skill(p))
        BY <2>1, <2>3, <3>1 DEF MoveAside, Takes, TypeOK, Still
      <4> QED
        BY <2>1, <4>1
    <3>2. CASE ~(place[Skill(p)] # None /\ previous[Skill(p)] = None)
      BY <2>3, <3>2 DEF MoveAside, Rests, Still
    <3> QED
      BY <3>1, <3>2
  <2>4. CASE Prune(p)
    BY <2>4, ConstantsAssumption DEF Prune, Rests, TypeOK, Still
  <2>5. CASE ~Swap(p) /\ ~MoveAside(p) /\ ~Prune(p)
    BY <1>1, <2>5
    DEF Fetch, Look, Stage, Verify, LookForBackup, DropStale, Drops, LookAtPlace, LookForCopy,
        DropCopy, Rests, Still
  <2> QED
    BY <2>2, <2>3, <2>4, <2>5
<1>2. ASSUME NEW p \in Fetches, Begin(p) \/ Stops(p) PROVE Rests
  BY <1>2 DEF Begin, Stops, Rests, Still
<1>3. ASSUME NEW s \in Skills, UserEdits(s) PROVE Edits(s)
  BY <1>3 DEF UserEdits, Edits, TypeOK
<1>4. CASE UNCHANGED vars
  BY <1>4 DEF vars, Rests
<1> QED
  BY <1>1, <1>2, <1>3, <1>4 DEF Next

\* A session finds at the place of a skill a whole tree that was pinned, or
\* nothing, wherever fetches stop and however they overlap.
THEOREM InPlace == Spec => []VerifiedInPlace
<1>1. Init => VerifiedInPlace
  BY DEF Init, VerifiedInPlace
<1>2. TypeOK /\ VerifiedInPlace /\ [Next]_vars => VerifiedInPlace'
  <2> SUFFICES ASSUME TypeOK, VerifiedInPlace, [Next]_vars,
                      NEW s \in Skills, s \notin touched'
               PROVE  place'[s] \in Verified \cup {None}
    BY DEF VerifiedInPlace
  <2>1. CASE Rests
    BY <2>1 DEF Rests, VerifiedInPlace
  <2>2. ASSUME NEW t \in Skills, Swaps(t) \/ Takes(t) \/ Edits(t)
        PROVE  place'[s] \in Verified \cup {None}
    BY <2>2 DEF Swaps, Takes, Edits, Verified, VerifiedInPlace
  <2> QED
    BY <2>1, <2>2, StepPlaces
<1> QED
  BY <1>1, <1>2, TypeCorrect, PTL DEF Spec

\* Fetches fill and empty the places of the skills in single steps: they
\* implement AtomicPlaces.
THEOREM SwapAtomically == Spec => SwapsAtomically
<1>1. Init => Swapped!Init
  BY DEF Init, Swapped!Init
<1>2. TypeOK /\ [Next]_vars => [Swapped!Next]_(Swapped!vars)
  <2> SUFFICES ASSUME TypeOK, [Next]_vars PROVE [Swapped!Next]_(Swapped!vars)
    OBVIOUS
  <2>1. CASE Rests
    BY <2>1 DEF Rests, Swapped!vars
  <2>2. ASSUME NEW s \in Skills, Swaps(s) PROVE Swapped!Next
    <3>1. Swapped!Publish(s)
      BY <2>2 DEF Swaps, Swapped!Publish, Verified
    <3> QED
      BY <3>1 DEF Swapped!Next
  <2>3. ASSUME NEW s \in Skills, Takes(s) PROVE Swapped!Next
    <3> DEFINE now == [t \in Skills |-> place[t]]
               then == [t \in Skills |-> place'[t]]
    <3>1. then = [now EXCEPT ![s] = None] /\ edits' = edits
      <4>1. then[s] = None /\ \A t \in Skills \ {s} : then[t] = now[t]
        BY <2>3 DEF Takes
      <4> QED
        BY <2>3, <4>1 DEF Takes
    <3>2. Swapped!Withdraw(s)
      BY <3>1 DEF Swapped!Withdraw
    <3> QED
      BY <3>2 DEF Swapped!Next
  <2>4. ASSUME NEW s \in Skills, Edits(s) PROVE Swapped!Next
    <3>1. Swapped!Disturb(s)
      BY <2>4 DEF Edits, Swapped!Disturb
    <3> QED
      BY <3>1 DEF Swapped!Next
  <2> QED
    BY <2>1, <2>2, <2>3, <2>4, StepPlaces
<1> QED
  BY <1>1, <1>2, TypeCorrect, PTL DEF Spec, SwapsAtomically, Swapped!Spec

-----------------------------------------------------------------------------
(***************************************************************************)
(* Where the previous copy can be lost.  `CopySurvives` is what the code   *)
(* says of the swap and is false of it: a fetch that is repeated after an  *)
(* interrupted swap removes the copy that the interrupted one left.  While *)
(* fetches do not overlap, that removal is the only step to lose one.      *)
(***************************************************************************)
SwapDone ==
    \A p \in Fetches :
        pc[p] \in {"clean", "drop2"} => Skill(p) \in touched \/ place[Skill(p)] = Pinned

LEMMA SwapDoneStep ==
  ASSUME TypeOK, SwapDone, [Next]_vars, \A p, q \in Fetches : p = q
  PROVE  SwapDone'
<1> USE DEF TypeOK, SwapDone, Skill
<1>1. ASSUME NEW p \in Fetches, Fetch(p) PROVE SwapDone'
  <2>1. Moves(p) /\ touched' = touched
    BY <1>1, FetchMoves, FetchPlaces
  <2>2. Skill(p) \in Skills
    BY SkillOfFetch
  <2>3. CASE pc'[p] \notin {"clean", "drop2"}
    BY <2>3
  <2>4. CASE Swap(p) /\ pc'[p] \in {"clean", "drop2"}
    <3>1. place[Skill(p)] = None /\ staged[p] = Pinned /\ at' = at
      BY <2>4 DEF Swap, At, Ends, To
    <3>2. place' = [place EXCEPT ![Skill(p)] = Pinned]
      BY <2>4, <3>1 DEF Swap
    <3> QED
      BY <2>2, <3>1, <3>2
  <2>5. CASE ~Swap(p) /\ pc'[p] \in {"clean", "drop2"}
    <3>1. at' = at /\ place' = place /\ pc[p] \in {"clean", "drop2"}
      BY <1>1, <2>5
      DEF Fetch, Look, Stage, Verify, LookForBackup, DropStale, Drops, LookAtPlace, MoveAside, LookForCopy,
          DropCopy, Prune, Ends, Onward, At, To, fetching
    <3> QED
      BY <2>1, <3>1
  <2> QED
    BY <2>3, <2>4, <2>5
<1>2. ASSUME NEW p \in Fetches, Begin(p) \/ Stops(p) PROVE SwapDone'
  BY <1>2 DEF Begin, Stops, Ends, At, To, Still
<1>3. ASSUME NEW s \in Skills, UserEdits(s) PROVE SwapDone'
  BY <1>3, SkillOfFetch DEF UserEdits
<1>4. CASE UNCHANGED vars
  BY <1>4 DEF vars
<1> QED
  BY <1>1, <1>2, <1>3, <1>4 DEF Next

\* While fetches follow one another, whatever stops them, a copy of a skill
\* that was installed is lost in one way only: by the removal of the copy that
\* an earlier fetch left behind (skills.py:341).
THEOREM LosesStaleCopiesOnly ==
  ASSUME \A p, q \in Fetches : p = q
  PROVE  Spec => [][CopySurvives => CopySurvives' \/ \E p \in Fetches : DropStale(p)]_vars
<1> DEFINE Keeps == CopySurvives => CopySurvives' \/ \E p \in Fetches : DropStale(p)
<1>1. Init => SwapDone
  BY DEF Init, SwapDone
<1>2. TypeOK /\ SwapDone /\ [Next]_vars => SwapDone'
  BY SwapDoneStep
<1>3. TypeOK /\ VerifiedInPlace /\ SwapDone /\ [Next]_vars => [Keeps]_vars
  <2> SUFFICES ASSUME TypeOK, VerifiedInPlace, SwapDone, [Next]_vars, CopySurvives,
                      \A p \in Fetches : ~DropStale(p),
                      NEW s \in Skills, s \in had', s \notin touched'
               PROVE  place'[s] \in Verified \/ previous'[s] \in Verified
    <3>1. TypeOK /\ [Next]_vars => had' \subseteq Skills
      BY StepType DEF TypeOK
    <3> QED
      BY <3>1 DEF CopySurvives
  <2> DEFINE Whole == place'[s] \in Verified \/ previous'[s] \in Verified
  <2>1. ASSUME NEW p \in Fetches, Fetch(p) PROVE Whole
    <3>1. Skill(p) \in Skills /\ s \notin touched
      BY <2>1, SkillOfFetch, FetchPlaces
    <3>2. CASE MoveAside(p)
      <4>1. s \in had /\ (place[s] \in Verified \/ previous[s] \in Verified)
        BY <3>1, <3>2 DEF MoveAside, Still, CopySurvives
      <4>2. CASE place[Skill(p)] # None /\ previous[Skill(p)] = None
        <5>1. previous' = [previous EXCEPT ![Skill(p)] = place[Skill(p)]]
              /\ place' = [place EXCEPT ![Skill(p)] = None]
          BY <3>2, <4>2 DEF MoveAside
        <5>2. None \notin Verified
          BY DEF Verified, None, Pinned, Outdated
        <5> QED
          BY <3>1, <4>1, <4>2, <5>1, <5>2 DEF TypeOK
      <4>3. CASE ~(place[Skill(p)] # None /\ previous[Skill(p)] = None)
        BY <3>2, <4>1, <4>3 DEF MoveAside
      <4> QED
        BY <4>2, <4>3
    <3>3. CASE Swap(p)
      <4>1. staged[p] = Pinned /\ Pinned \in Verified
        BY <3>3 DEF Swap, At, TypeOK, Verified
      <4>2. CASE s = Skill(p) /\ place[Skill(p)] = None
        BY <3>1, <3>3, <4>1, <4>2 DEF Swap, TypeOK
      <4>3. CASE ~(s = Skill(p) /\ place[Skill(p)] = None)
        BY <3>1, <3>3, <4>3 DEF Swap, TypeOK, CopySurvives
      <4> QED
        BY <4>2, <4>3
    <3>4. CASE DropCopy(p)
      <4>1. s \in had /\ place' = place
        BY <3>4 DEF DropCopy, Drops, Still
      <4>2. CASE s = Skill(p)
        BY <3>1, <3>4, <4>1, <4>2 DEF DropCopy, At, SwapDone, Verified
      <4>3. CASE s # Skill(p)
        BY <3>1, <3>4, <4>1, <4>3 DEF DropCopy, Drops, CopySurvives, TypeOK
      <4> QED
        BY <4>2, <4>3
    <3>5. CASE Prune(p)
      BY <3>1, <3>5, ConstantsAssumption DEF Prune, Still, CopySurvives, TypeOK
    <3>6. CASE ~MoveAside(p) /\ ~Swap(p) /\ ~DropCopy(p) /\ ~Prune(p)
      BY <2>1, <3>1, <3>6
      DEF Fetch, Look, Stage, Verify, LookForBackup, LookAtPlace, LookForCopy, Still, CopySurvives
    <3> QED
      BY <3>2, <3>3, <3>4, <3>5, <3>6
  <2>2. ASSUME NEW p \in Fetches, Begin(p) \/ Stops(p) PROVE Whole
    BY <2>2 DEF Begin, Stops, Still, CopySurvives
  <2>3. ASSUME NEW t \in Skills, UserEdits(t) PROVE Whole
    BY <2>3 DEF UserEdits, CopySurvives, TypeOK
  <2>4. CASE UNCHANGED vars
    BY <2>4 DEF vars, CopySurvives
  <2> QED
    BY <2>1, <2>2, <2>3, <2>4 DEF Next
<1> QED
  BY <1>1, <1>2, <1>3, TypeCorrect, InPlace, PTL DEF Spec

==============================================================================
