------------------------------- MODULE Skills -------------------------------
(***************************************************************************)
(* skills.fetch: each `skills fetch` installs the skills of one set below  *)
(* data/skills/<set>, unlocked, beside other fetches, agent sessions that  *)
(* mount the directory, and a user who works in it by hand.  A skill is    *)
(* checked out and digested in a staging directory of the fetch's own and  *)
(* swapped into place by two renames, with the previous copy kept beside   *)
(* it as `.<name>.previous` in between.                                    *)
(*                                                                         *)
(* A tree is told by what it is to the manifest.  A set directory that is  *)
(* empty is the same as none to everyone who reads it; a staging directory *)
(* that a crash leaves is read by nothing.                                 *)
(***************************************************************************)
EXTENDS Naturals, Sequences

CONSTANTS
    Fetches,      \* slots that run `skills fetch`
    Manifest,     \* the skills of the set, in the manifest's order
    Undeclared,   \* skills the manifest no longer names
    MaxFaults,    \* bound: failures and crashes
    MaxEdits      \* bound: how often the user edits

Skills == {Manifest[i] : i \in DOMAIN Manifest}

ASSUME ConstantsAssumption ==
    /\ Manifest \in Seq(Skills) /\ Len(Manifest) >= 1
    /\ \A i, j \in DOMAIN Manifest : Manifest[i] = Manifest[j] => i = j
    /\ Skills \cap Undeclared = {}
    /\ MaxFaults \in Nat /\ MaxEdits \in Nat

VARIABLES
    place,    \* per skill, what stands at its place
    previous, \* per skill, what stands at `.<name>.previous`
    pc, at,   \* per fetch, its next step and the skill it is at
    staged,   \* per fetch, what it has checked out
    had,      \* history: the skills that were installed, once
    touched,  \* the skills whose place the user has edited
    faults, edits

vars == <<place, previous, pc, at, staged, had, touched, faults, edits>>
fetching == <<pc, at, staged>>

None == "none"          \* no such name
Pinned == "pinned"      \* the tree the manifest pins
Outdated == "outdated"  \* a whole tree that an earlier manifest pinned
Foreign == "foreign"    \* a tree that no manifest pins
Torn == "torn"          \* what rmtree has not removed yet
Conflict == "conflict"  \* a link, a file, or a tree with a link in it

Verified == {Pinned, Outdated}
Trees == Verified \cup {Foreign, Torn}
Contents == Trees \cup {None, Conflict}

Init ==
    /\ place \in [Skills \cup Undeclared -> Verified \cup {None}]
    /\ previous = [s \in Skills |-> None]
    /\ pc = [p \in Fetches |-> "idle"]
    /\ at = [p \in Fetches |-> 1]
    /\ staged = [p \in Fetches |-> None]
    /\ had = {s \in Skills : place[s] # None}
    /\ touched = {} /\ faults = 0 /\ edits = 0

-----------------------------------------------------------------------------
At(p, step) == pc[p] = step
To(p, step) == pc' = [pc EXCEPT ![p] = step]
Skill(p) == Manifest[at[p]]

\* The process ends; its staging directory goes with it.
Ends(p) ==
    /\ To(p, "idle")
    /\ at' = [at EXCEPT ![p] = 1]
    /\ staged' = [staged EXCEPT ![p] = None]

\* The skill is done: the next one, or the names of the set directory.
Onward(p) ==
    /\ staged' = [staged EXCEPT ![p] = None]
    /\ IF at[p] < Len(Manifest)
       THEN To(p, "look") /\ at' = [at EXCEPT ![p] = @ + 1]
       ELSE To(p, "prune") /\ UNCHANGED at

Still == UNCHANGED <<had, touched, faults, edits>>

Begin(p) ==
    /\ At(p, "idle") /\ To(p, "look")
    /\ UNCHANGED <<place, previous, at, staged>> /\ Still

\* `installed_state`: what is pinned stays, a conflict is for the user.
Look(p) ==
    /\ At(p, "look")
    /\ CASE place[Skill(p)] = Pinned -> Onward(p)
         [] place[Skill(p)] = Conflict -> Ends(p)
         [] OTHER -> To(p, "stage") /\ UNCHANGED <<at, staged>>
    /\ UNCHANGED <<place, previous>> /\ Still

\* `checkout_subtree` finds the subtree at the pinned commit, which is the
\* tree that was reviewed or, when the pins do not match, another.
CheckedOut(good) == IF good THEN Pinned ELSE Foreign

\* The checkout, and its copy in the staging directory.
Stage(p) ==
    /\ At(p, "stage") /\ To(p, "verify")
    /\ \E good \in BOOLEAN :
        /\ faults' = (IF good THEN faults ELSE faults + 1) /\ faults' <= MaxFaults
        /\ staged' = [staged EXCEPT ![p] = CheckedOut(good)]
    /\ UNCHANGED <<place, previous, at, had, touched, edits>>

\* The tree's digest is the pinned one, or the fetch is over.
Verify(p) ==
    /\ At(p, "verify")
    /\ IF staged[p] = Pinned THEN To(p, "backup") /\ UNCHANGED <<at, staged>> ELSE Ends(p)
    /\ UNCHANGED <<place, previous>> /\ Still

\* Variant: nobody looks for a copy an earlier fetch left.
LookForNoCopy(p) ==
    /\ At(p, "backup") /\ To(p, "there")
    /\ UNCHANGED <<place, previous, at, staged>> /\ Still

\* The first look for a copy an earlier fetch left ...
LookForBackup(p) ==
    /\ At(p, "backup")
    /\ IF previous[Skill(p)] = None THEN To(p, "there") ELSE To(p, "drop")
    /\ UNCHANGED <<place, previous, at, staged>> /\ Still

\* rmtree takes a while; a name that is gone, and a name that is no
\* directory, are errors.
Drops(p, onward) ==
    LET found == previous[Skill(p)] IN
    /\ \/ /\ found \in Trees \cup {Conflict}
          /\ previous' = [previous EXCEPT ![Skill(p)] = None]
          /\ onward
       \/ /\ found \in Trees \ {Torn}
          /\ previous' = [previous EXCEPT ![Skill(p)] = Torn]
          /\ UNCHANGED fetching
       \/ /\ found \in {None, Conflict}
          /\ Ends(p) /\ UNCHANGED previous
    /\ UNCHANGED place /\ Still

\* ... which is removed before the present one takes its name.
DropStale(p) ==
    At(p, "drop") /\ Drops(p, To(p, "there") /\ UNCHANGED <<at, staged>>)

LookAtPlace(p) ==
    /\ At(p, "there")
    /\ IF place[Skill(p)] = None THEN To(p, "swap") ELSE To(p, "aside")
    /\ UNCHANGED <<place, previous, at, staged>> /\ Still

\* Variant: what stands at the place is removed, not kept.
RemoveInPlace(p) ==
    /\ At(p, "aside") /\ To(p, "swap")
    /\ place' = [place EXCEPT ![Skill(p)] = IF @ \in Verified THEN Torn ELSE None]
    /\ UNCHANGED <<previous, at, staged>> /\ Still

\* The first rename; it fails when the name is gone or a directory that
\* holds something took the other one.
MoveAside(p) ==
    /\ At(p, "aside")
    /\ IF place[Skill(p)] # None /\ previous[Skill(p)] = None
       THEN /\ previous' = [previous EXCEPT ![Skill(p)] = place[Skill(p)]]
            /\ place' = [place EXCEPT ![Skill(p)] = None]
            /\ To(p, "swap") /\ UNCHANGED <<at, staged>>
       ELSE Ends(p) /\ UNCHANGED <<place, previous>>
    /\ Still

\* The second rename; it fails when another fetch was quicker.
Swap(p) ==
    /\ At(p, "swap")
    /\ IF place[Skill(p)] = None
       THEN /\ place' = [place EXCEPT ![Skill(p)] = staged[p]]
            /\ had' = had \cup {Skill(p)}
            /\ To(p, "clean") /\ UNCHANGED <<at, staged>>
       ELSE Ends(p) /\ UNCHANGED <<place, had>>
    /\ UNCHANGED <<previous, touched, faults, edits>>

LookForCopy(p) ==
    /\ At(p, "clean")
    /\ IF previous[Skill(p)] = None THEN Onward(p) ELSE To(p, "drop2") /\ UNCHANGED <<at, staged>>
    /\ UNCHANGED <<place, previous>> /\ Still

DropCopy(p) ==
    At(p, "drop2") /\ Drops(p, Onward(p))

\* After its last skill a fetch removes the directories nothing declares;
\* one that goes away meanwhile is an error.
Prune(p) ==
    /\ At(p, "prune")
    /\ \/ /\ \A s \in Undeclared : place[s] \notin Trees
          /\ Ends(p) /\ UNCHANGED place
       \/ \E s \in Undeclared :
            /\ place[s] \in Trees
            /\ \E left \in {None, Torn} \ {place[s]} : place' = [place EXCEPT ![s] = left]
            /\ UNCHANGED fetching
    /\ UNCHANGED previous /\ Still

Fetch(p) ==
    \/ Look(p) \/ Stage(p) \/ Verify(p) \/ LookForBackup(p) \/ DropStale(p) \/ LookAtPlace(p)
    \/ MoveAside(p) \/ Swap(p) \/ LookForCopy(p) \/ DropCopy(p) \/ Prune(p)

\* A checkout that fails, a full disk, an interrupt, a crash.
Stops(p) ==
    /\ pc[p] # "idle" /\ Ends(p)
    /\ faults < MaxFaults /\ faults' = faults + 1
    /\ UNCHANGED <<place, previous, had, touched, edits>>

\* The user removes, edits or replaces what stands at a place, at any moment.
UserEdits(s) ==
    /\ edits < MaxEdits
    /\ \E c \in Contents \ {place[s]} : place' = [place EXCEPT ![s] = c]
    /\ touched' = touched \cup {s} /\ edits' = edits + 1
    /\ UNCHANGED <<previous, pc, at, staged, had, faults>>

Next ==
    \/ \E p \in Fetches : Begin(p) \/ Fetch(p) \/ Stops(p)
    \/ \E s \in Skills : UserEdits(s)

Spec == Init /\ [][Next]_vars

\* A call ends, and somebody repeats the command.
LiveSpec ==
    /\ Spec
    /\ \A p \in Fetches : WF_vars(Fetch(p))
    /\ WF_vars(\E p \in Fetches : Begin(p))

-----------------------------------------------------------------------------
Steps == {"idle", "look", "stage", "verify", "backup", "drop", "there", "aside", "swap",
          "clean", "drop2", "prune"}

\* The type invariant; a fetch that replaces has verified what it replaces with.
TypeOK ==
    /\ place \in [Skills \cup Undeclared -> Contents]
    /\ previous \in [Skills -> Contents]
    /\ pc \in [Fetches -> Steps]
    /\ at \in [Fetches -> DOMAIN Manifest]
    /\ staged \in [Fetches -> {None, Pinned, Foreign}]
    /\ \A p \in Fetches :
        pc[p] \in {"backup", "drop", "there", "aside", "swap", "clean", "drop2"}
            => staged[p] = Pinned
    /\ had \subseteq Skills /\ touched \subseteq Skills
    /\ faults \in 0 .. MaxFaults /\ edits \in 0 .. MaxEdits

\* "The agent must only load skills that fetch() verified and published in
\* place": wherever fetches stop and however they overlap, what a session
\* finds at the place of a skill is a whole tree that was pinned, or nothing.
VerifiedInPlace ==
    \A s \in Skills \ touched : place[s] \in Verified \cup {None}

\* A fetch implements AtomicPlaces: it fills a place in one step and only with
\* a tree it has verified, and takes out what it is about to replace; that
\* goes for the places the user has worked in as well.
Swapped == INSTANCE AtomicPlaces WITH
    Places <- Skills, Whole <- Verified, Absent <- None, Withdraws <- TRUE,
    content <- [s \in Skills |-> place[s]], disturbances <- edits
SwapsAtomically == Swapped!Spec

\* "{state}; move it aside and retry": a conflict is for the user to move
\* aside, no fetch takes it away.  One that comes up during the checkout, after
\* the look, goes the way of an outdated tree (skills_conflict.cfg).
ConflictStays ==
    [][ edits' = edits => \A s \in Skills : place[s] = Conflict => place'[s] = Conflict ]_vars

\* "The previous copy survives as `.<name>.previous` until the swap has
\* succeeded": a skill that was installed once is whole at its place or beside
\* it, at every moment of every fetch.
CopySurvives ==
    \A s \in had \ touched : place[s] \in Verified \/ previous[s] \in Verified

Arrived ==
    /\ \A s \in Skills : place[s] = Pinned
    /\ \A s \in Undeclared : place[s] \notin Trees

\* Whatever crashes, bad checkouts and overlapping fetches left behind, a
\* fetch that is repeated alone installs every skill, removes what is not
\* declared, and leaves it so, unless a conflict waits for the user at its
\* place, or at the name of the copy, where a fetch that took it away put it
\* and no fetch can remove it.
FetchArrives ==
    (\E p \in Fetches : <>[](\A q \in Fetches \ {p} : pc[q] = "idle"))
        => <>[](Arrived \/ \E s \in Skills : Conflict \in {place[s], previous[s]})

=============================================================================
