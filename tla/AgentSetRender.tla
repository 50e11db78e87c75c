--------------------------- MODULE AgentSetRender ---------------------------
(***************************************************************************)
(* agentsets.render: each start of a session renders its selection of      *)
(* agent sets to build/agents/pi/<tag>/, unlocked, beside other starts of  *)
(* the same or of another selection, and beside a user who works in build/ *)
(* by hand.  The tag is a digest of the files, so the starts of one tag    *)
(* write the same ones.                                                    *)
(*                                                                         *)
(* A staging directory has a name of its own; one that a crash leaves is   *)
(* read by nothing and is not modelled further.                            *)
(***************************************************************************)
EXTENDS Naturals, FiniteSets

CONSTANTS
    Starts,      \* slots that start a session
    Tags,
    Others,      \* the rendered files beside the Dockerfile
    Theirs,      \* files of the user's own
    MaxTouches,  \* bound: how often the user touches a directory
    None         \* no tag

Dockerfile == "Dockerfile"
Files == Others \cup {Dockerfile}

ASSUME RenderAssumption ==
    /\ Dockerfile \notin Others /\ Theirs \cap Files = {}
    /\ None \notin Tags /\ MaxTouches \in Nat

VARIABLES
    out,      \* per tag, the directory and what is in it
    staging,  \* per start, the files it has written
    rpc, tag, \* per start, its next step and its tag
    touched,  \* the tags whose directory the user has touched
    touches

renderVars == <<out, staging, rpc, tag, touched, touches>>

NoDirectory == [there |-> FALSE, files |-> {}]
Directory(files) == [there |-> TRUE, files |-> files]
Directories == {NoDirectory} \cup {Directory(files) : files \in SUBSET (Files \cup Theirs)}

HasDockerfile(p) == Dockerfile \in out[tag[p]].files

RenderInit ==
    /\ out = [t \in Tags |-> NoDirectory]
    /\ staging = [p \in Starts |-> {}]
    /\ rpc = [p \in Starts |-> "idle"]
    /\ tag = [p \in Starts |-> None]
    /\ touched = {} /\ touches = 0

-----------------------------------------------------------------------------
At(p, step) == rpc[p] = step
To(p, step) == rpc' = [rpc EXCEPT ![p] = step]

\* The process ends, with a result, an error or a crash.
Ends(p) ==
    /\ To(p, "idle")
    /\ staging' = [staging EXCEPT ![p] = {}]
    /\ tag' = [tag EXCEPT ![p] = None]

\* `render_selection` fixes the files, and with them the tag.
Select(p, t) ==
    /\ At(p, "idle") /\ To(p, "look")
    /\ tag' = [tag EXCEPT ![p] = t]
    /\ UNCHANGED <<out, staging, touched, touches>>

\* The first look: a Dockerfile means the whole directory.
Look(p) ==
    /\ At(p, "look")
    /\ IF HasDockerfile(p) THEN To(p, "rendered") ELSE To(p, "entries")
    /\ UNCHANGED <<out, staging, tag, touched, touches>>

\* A directory that holds something ...
LookAtEntries(p) ==
    /\ At(p, "entries")
    /\ IF out[tag[p]].files # {} THEN To(p, "look2") ELSE To(p, "stage")
    /\ UNCHANGED <<out, staging, tag, touched, touches>>

\* Variant: the first look at the Dockerfile is trusted.
LookOnce(p) ==
    /\ At(p, "look2") /\ To(p, "refuse")
    /\ UNCHANGED <<out, staging, tag, touched, touches>>

\* ... and has no Dockerfile even now is refused.
LookAgain(p) ==
    /\ At(p, "look2")
    /\ IF HasDockerfile(p) THEN To(p, "stage") ELSE To(p, "refuse")
    /\ UNCHANGED <<out, staging, tag, touched, touches>>

Write(p) ==
    /\ At(p, "stage")
    /\ \E f \in Files \ staging[p] :
        /\ f # Dockerfile => Dockerfile \in staging[p]
        /\ staging' = [staging EXCEPT ![p] = @ \cup {f}]
    /\ UNCHANGED <<out, rpc, tag, touched, touches>>

\* Variant: the directory takes its name while it is being written.
RenameEarly(p) ==
    /\ At(p, "stage")
    /\ IF out[tag[p]].files = {}
       THEN out' = [out EXCEPT ![tag[p]] = Directory(staging[p])] /\ To(p, "rendered")
       ELSE out' = out /\ To(p, "lost")
    /\ UNCHANGED <<staging, tag, touched, touches>>

\* rename(2) takes a name that is free or an empty directory's, and fails on
\* any other.
Rename(p) ==
    /\ At(p, "stage") /\ staging[p] = Files
    /\ IF out[tag[p]].files = {}
       THEN out' = [out EXCEPT ![tag[p]] = Directory(Files)] /\ To(p, "rendered")
       ELSE out' = out /\ To(p, "lost")
    /\ UNCHANGED <<staging, tag, touched, touches>>

\* Another start was first, or the user put something there.
LookAfterLoss(p) ==
    /\ At(p, "lost")
    /\ IF HasDockerfile(p) THEN To(p, "rendered") ELSE To(p, "refuse")
    /\ UNCHANGED <<out, staging, tag, touched, touches>>

\* "build/agents/pi/<tag> has no Dockerfile; remove the directory and retry"
RefuseRender(p) ==
    /\ At(p, "refuse") /\ Ends(p)
    /\ UNCHANGED <<out, touched, touches>>

\* `Launch.build` has read the directory.
Build(p) ==
    /\ At(p, "rendered") /\ Ends(p)
    /\ UNCHANGED <<out, touched, touches>>

\* A write that fails, an interrupt, a crash.
Stops(p) ==
    /\ rpc[p] \notin {"idle", "refuse"} /\ Ends(p)
    /\ UNCHANGED <<out, touched, touches>>

Render(p) ==
    \/ \E t \in Tags : Select(p, t)
    \/ Look(p) \/ LookAtEntries(p) \/ LookAgain(p) \/ Write(p) \/ Rename(p)
    \/ LookAfterLoss(p) \/ RefuseRender(p) \/ Build(p) \/ Stops(p)

\* The user removes the directory, makes it, or changes what is in it.
UserTouches(t) ==
    /\ touches < MaxTouches
    /\ touches' = touches + 1
    /\ touched' = touched \cup {t}
    /\ \E d \in Directories \ {out[t]} : out' = [out EXCEPT ![t] = d]
    /\ UNCHANGED <<staging, rpc, tag>>

RenderNext ==
    \/ \E p \in Starts : Render(p)
    \/ \E t \in Tags : UserTouches(t)

RenderSpec == RenderInit /\ [][RenderNext]_renderVars

-----------------------------------------------------------------------------
RenderSteps == {"idle", "look", "entries", "look2", "stage", "lost", "refuse", "rendered"}

\* The type invariant.
RenderTypeOK ==
    /\ out \in [Tags -> Directories]
    /\ staging \in [Starts -> SUBSET Files]
    /\ rpc \in [Starts -> RenderSteps]
    /\ tag \in [Starts -> Tags \cup {None}]
    /\ \A p \in Starts : rpc[p] # "idle" => tag[p] \in Tags
    /\ touched \subseteq Tags
    /\ touches \in 0 .. MaxTouches

\* "Parallel starts of one selection never see a half-written render": what
\* a start goes on to build is the whole directory, whoever rendered it and
\* wherever the others stopped.
RenderedIsWhole ==
    \A p \in Starts : rpc[p] = "rendered" /\ tag[p] \notin touched => out[tag[p]].files = Files

\* The Dockerfile is looked at last: a start is refused only over a
\* directory the user touched, never over another start that was quicker.
RefusesOnlyTheTouched ==
    \A p \in Starts : rpc[p] = "refuse" => tag[p] \in touched

\* The starts implement AtomicPlaces: a directory appears whole, in one step,
\* only where nothing is, and no start changes or removes what is there.
Appears == INSTANCE AtomicPlaces WITH
    Places <- Tags, Whole <- {Files}, Absent <- {}, Withdraws <- FALSE,
    content <- [t \in Tags |-> out[t].files], disturbances <- touches
RendersAtomically == Appears!Spec

\* "Nothing here deletes a user's files", nor the files of another start.
StartsRemoveNothing ==
    [][ touches' = touches => \A t \in Tags : out[t].files \subseteq out'[t].files ]_renderVars

=============================================================================
