------------------------------- MODULE Stack -------------------------------
(***************************************************************************)
(* The stack of one checkout: the llama container and the dashboard that   *)
(* `up` starts and `down` removes, the files `up` renders below build/,    *)
(* the stack record, the stack lock, and the terminal sessions that start  *)
(* beside them.  One process of this module is one invocation slot of      *)
(* bin/tokencrate, which runs its command over and over; the commands of   *)
(* different slots interleave.                                             *)
(*                                                                         *)
(* A command may fail, or be interrupted or killed, at every step.  The    *)
(* lock is an flock, so it goes with the process that holds it; the        *)
(* Compose client a killed `up` leaves behind does not.                    *)
(***************************************************************************)
EXTENDS Naturals, FiniteSets

CONSTANTS
    Ups,             \* slots that run `up`
    Downs,           \* slots that run `down`
    Agents,          \* slots that run `agent`, which never takes the lock
    Checks,          \* slots that run `smoke --agent`, which runs under it
    Engines,         \* the engines this host has
    Configs,         \* the texts build/models.ini may be rendered to
    Offering,        \* those that list the preset the sessions ask for
    Dashboard,       \* LLM_DASHBOARD
    RestartsItself,  \* RESTART_POLICY is not `no`
    MaxKills,        \* bound: Compose calls cut off by a kill, and restarts by the engine
    None             \* no engine, no configuration, no digest, no process

Sessions == Agents \cup Checks
Commands == Ups \cup Downs \cup Sessions

ASSUME CommandsAssumption ==
    /\ Ups \cap Downs = {} /\ Ups \cap Sessions = {} /\ Downs \cap Sessions = {}
    /\ Agents \cap Checks = {}
    /\ None \notin Commands

ASSUME DataAssumption ==
    /\ None \notin Engines /\ None \notin Configs
    /\ Offering \subseteq Configs
    /\ Dashboard \in BOOLEAN /\ RestartsItself \in BOOLEAN
    /\ MaxKills \in Nat
    /\ {"llama", "dash"} \cap Sessions = {}

VARIABLES
    ini,      \* build/models.ini
    list,     \* build/agents/pi/models.json
    record,   \* the engine named by build/stack.json
    llama,    \* per engine, the project's llama container
    dash,     \* per engine, whether the dashboard containers run
    sess,     \* per session slot, the engine its container runs on
    holder,   \* the process that holds the stack lock
    pc,       \* per command, its next step
    eng,      \* per command, the engine it detected
    mine,     \* per `up`, the configuration it evaluated, until it is written
    digest,   \* per `up`, the digest it read, until Compose has it; per
              \* session, the label it read, until it is compared
    owned,    \* per `down`, the listed containers still to be removed
    orphans,  \* Compose calls whose wrapper was killed
    kills,    \* how many there have been
    restarts  \* and how many times an engine started its container again

files      == <<ini, list, record>>
containers == <<llama, dash, sess>>
locals     == <<eng, mine, digest, owned>>
inflight   == <<orphans, kills, restarts>>
vars == <<files, containers, holder, pc, locals, inflight>>

(***************************************************************************)
(* Containers.  Compose bind-mounts ./build/models.ini, so a container     *)
(* reads the file that has the name when it starts: `content` is what it   *)
(* read, `label` the digest it was created with.                           *)
(***************************************************************************)
Digest(c) == <<"sha256", c>>
Digests   == {Digest(c) : c \in Configs}

ASSUME DigestAssumption == None \notin Digests

Absent      == [state |-> "absent", label |-> None, content |-> None]
Created(d)  == [state |-> "created", label |-> d, content |-> None]
Exited(d)   == [state |-> "exited", label |-> d, content |-> None]
Running(d)  == [state |-> "running", label |-> d, content |-> ini]

Runs(e) == llama[e].state = "running"

\* The loopback port of each service goes to one engine at a time.
LlamaPortFree(e) == \A f \in Engines \ {e} : ~Runs(f)
DashPortFree(e)  == \A f \in Engines \ {e} : ~dash[f]

\* Variant: a container whose label differs is started again, not recreated.
ComposedInPlace(e, d) ==
    IF llama[e].state = "absent" THEN Running(d)
    ELSE [llama[e] EXCEPT !.state = "running", !.content = ini]

\* Compose keeps a running container whose configuration did not change,
\* starts a stopped one, and recreates one whose label differs.
Composed(e, d) ==
    IF Runs(e) /\ llama[e].label = d THEN llama[e] ELSE Running(d)

\* A Compose `up` that fails leaves the old container, or none, or one that
\* was created and could not be started.
FailedCompose(e, d) == {llama[e], Absent, Created(d)}

\* A container that is replaced or gone is not found under its old Id.
Forgotten(things) == owned' = [d \in Commands |-> owned[d] \ things]

-----------------------------------------------------------------------------
Init ==
    /\ ini = None /\ list = None /\ record = None
    /\ llama = [e \in Engines |-> Absent]
    /\ dash = [e \in Engines |-> FALSE]
    /\ sess = [p \in Sessions |-> None]
    /\ holder = None
    /\ pc = [p \in Commands |-> "idle"]
    /\ eng = [p \in Commands |-> None]
    /\ mine = [p \in Commands |-> None]
    /\ digest = [p \in Commands |-> None]
    /\ owned = [p \in Commands |-> {}]
    /\ orphans = {} /\ kills = 0 /\ restarts = 0

Goto(p, from, to) == pc[p] = from /\ pc' = [pc EXCEPT ![p] = to]

\* Variant: a command that fails keeps its lock.
EndsLocked(p) ==
    /\ pc' = [pc EXCEPT ![p] = "idle"]
    /\ holder' = holder
    /\ eng' = [eng EXCEPT ![p] = None]
    /\ mine' = [mine EXCEPT ![p] = None]
    /\ digest' = [digest EXCEPT ![p] = None]

\* The end of a command, whatever the reason: its file descriptors close,
\* so a lock it holds is free, and what it remembered is gone.
Ends(p) ==
    /\ pc' = [pc EXCEPT ![p] = "idle"]
    /\ holder' = IF holder = p THEN None ELSE holder
    /\ eng' = [eng EXCEPT ![p] = None]
    /\ mine' = [mine EXCEPT ![p] = None]
    /\ digest' = [digest EXCEPT ![p] = None]

EndsAndForgets(p) == Ends(p) /\ owned' = [owned EXCEPT ![p] = {}]

FirstStep(p) ==
    CASE p \in Ups      -> "port"
      [] p \in Downs    -> "lock"
      [] p \in Sessions -> "models"

\* `engine.detect`, which every command runs before anything else and
\* outside the lock.  A record decides; without one CONTAINER_ENGINE or the
\* probes do, which is any engine of the host.
Detect(p) ==
    /\ Goto(p, "idle", FirstStep(p))
    /\ p \in Sessions => sess[p] = None
    /\ \E e \in Engines :
        /\ record # None => e = record
        /\ eng' = [eng EXCEPT ![p] = e]
    /\ UNCHANGED <<files, containers, holder, mine, digest, owned, inflight>>

\* Variant: a lock that does not exclude.
AcquireShared(p, from, to) ==
    /\ Goto(p, from, to)
    /\ holder' = p
    /\ UNCHANGED <<files, containers, locals, inflight>>

\* `Engine.lock`: an exclusive flock on build/locks/<project>.lock.
Acquire(p, from, to) ==
    /\ Goto(p, from, to)
    /\ holder = None
    /\ holder' = p
    /\ UNCHANGED <<files, containers, locals, inflight>>

-----------------------------------------------------------------------------
(***************************************************************************)
(* `up`: runtime.start_stack.                                              *)
(***************************************************************************)
PortsAccepted(p) ==
    LlamaPortFree(eng[p]) /\ (Dashboard => DashPortFree(eng[p]))

\* The early look at the ports, before anything is rendered.
UpRequirePort(p) ==
    /\ Goto(p, "port", "render")
    /\ PortsAccepted(p)
    /\ UNCHANGED <<files, containers, holder, locals, inflight>>

\* presets.render: the presets and model files as they are now, written to
\* build/models.ini first.  The user may have edited them since the last up.
UpRender(p) ==
    /\ Goto(p, "render", "lists")
    /\ \E c \in Configs :
        /\ ini' = c
        /\ mine' = [mine EXCEPT ![p] = c]
    /\ UNCHANGED <<list, record, containers, holder, eng, digest, owned, inflight>>

\* ... and to the agent model lists after it.
UpRenderLists(p) ==
    /\ Goto(p, "lists", "digest")
    /\ list' = mine[p]
    /\ mine' = [mine EXCEPT ![p] = None]
    /\ UNCHANGED <<ini, record, containers, holder, eng, digest, owned, inflight>>

\* `config_digest` hashes the file that is there, not the text just written.
UpDigest(p) ==
    /\ Goto(p, "digest", "build")
    /\ digest' = [digest EXCEPT ![p] = Digest(ini)]
    /\ UNCHANGED <<files, containers, holder, eng, mine, owned, inflight>>

UpBuild(p) ==
    /\ Goto(p, "build", "lock")
    /\ UNCHANGED <<files, containers, holder, locals, inflight>>

UpLock(p) == Acquire(p, "lock", "port2")

\* Variant: only the early look judges the port.
UpTrustsEarlyLook(p) ==
    /\ Goto(p, "port2", "compose")
    /\ UNCHANGED <<files, containers, holder, locals, inflight>>

\* Variant: the record is written first.
UpRecordsFirst(p) ==
    /\ Goto(p, "port2", "record")
    /\ LlamaPortFree(eng[p])
    /\ UNCHANGED <<files, containers, holder, locals, inflight>>

\* The judgement that counts, under the lock.
UpRequirePortAgain(p) ==
    /\ Goto(p, "port2", "compose")
    /\ LlamaPortFree(eng[p])
    /\ UNCHANGED <<files, containers, holder, locals, inflight>>

UpCompose(p) ==
    /\ Goto(p, "compose", "record")
    /\ LlamaPortFree(eng[p])
    /\ llama' = [llama EXCEPT ![eng[p]] = Composed(eng[p], digest[p])]
    /\ digest' = [digest EXCEPT ![p] = None]
    /\ UNCHANGED <<files, dash, sess, holder, eng, mine, owned, inflight>>

UpComposeFails(p) ==
    /\ pc[p] = "compose"
    /\ \E l \in FailedCompose(eng[p], digest[p]) : llama' = [llama EXCEPT ![eng[p]] = l]
    /\ EndsAndForgets(p)
    /\ UNCHANGED <<files, dash, sess, inflight>>

\* `record_stack`, the last statement under the lock.
UpRecord(p) ==
    /\ Goto(p, "record", "wait")
    /\ record' = eng[p]
    /\ holder' = None
    /\ UNCHANGED <<ini, list, containers, locals, inflight>>

\* `wait_until_ready` returned; with LLM_DASHBOARD the dashboard follows.
UpReady(p) ==
    /\ pc[p] = "wait"
    /\ Runs(eng[p])
    /\ IF Dashboard
       THEN Goto(p, "wait", "lock2") /\ UNCHANGED <<holder, locals>>
       ELSE EndsAndForgets(p)
    /\ UNCHANGED <<files, containers, inflight>>

UpLockAgain(p) == Acquire(p, "lock2", "dash")

\* The port again, and the Compose call.  One that fails half-way has started
\* some of the containers and ends the command the same way.
UpDashboard(p) ==
    /\ pc[p] = "dash"
    /\ DashPortFree(eng[p])
    /\ dash' = [dash EXCEPT ![eng[p]] = TRUE]
    /\ EndsAndForgets(p)
    /\ UNCHANGED <<files, llama, sess, inflight>>

UpNext(p) ==
    \/ UpRequirePort(p) \/ UpRender(p) \/ UpRenderLists(p) \/ UpDigest(p)
    \/ UpBuild(p) \/ UpLock(p) \/ UpRequirePortAgain(p) \/ UpCompose(p)
    \/ UpComposeFails(p) \/ UpRecord(p) \/ UpReady(p) \/ UpLockAgain(p)
    \/ UpDashboard(p)

-----------------------------------------------------------------------------
(***************************************************************************)
(* `down`: runtime.stop_stack.                                             *)
(***************************************************************************)
OnEngine(e) ==
    {t \in {"llama"} : llama[e].state # "absent"} \cup {t \in {"dash"} : dash[e]}
        \cup {s \in Sessions : sess[s] = e}

DownLock(p) == Acquire(p, "lock", "owned")

DownList(p) ==
    /\ Goto(p, "owned", "remove")
    /\ owned' = [owned EXCEPT ![p] = OnEngine(eng[p])]
    /\ UNCHANGED <<files, containers, holder, eng, mine, digest, inflight>>

\* `remove_containers`: one container of the listing at a time.
DownRemove(p) ==
    /\ pc[p] = "remove"
    /\ \E t \in owned[p] :
        /\ llama' = IF t = "llama" THEN [llama EXCEPT ![eng[p]] = Absent] ELSE llama
        /\ dash' = IF t = "dash" THEN [dash EXCEPT ![eng[p]] = FALSE] ELSE dash
        /\ sess' = [s \in Sessions |-> IF s = t THEN None ELSE sess[s]]
        /\ Forgotten({t})
    /\ UNCHANGED <<files, holder, pc, eng, mine, digest, inflight>>

\* Variant: the networks and the record go before the containers are gone.
DownForgetsEarly(p) ==
    /\ Goto(p, "remove", "forget")
    /\ UNCHANGED <<files, containers, holder, locals, inflight>>

\* A network that still has a container is not removed, and `down` fails
\* there (`Fails`) with the record kept.
DownNetworks(p) ==
    /\ Goto(p, "remove", "forget")
    /\ owned[p] = {}
    /\ OnEngine(eng[p]) = {}
    /\ UNCHANGED <<files, containers, holder, locals, inflight>>

\* `forget_stack`, last.
DownForget(p) ==
    /\ pc[p] = "forget"
    /\ record' = None
    /\ EndsAndForgets(p)
    /\ UNCHANGED <<ini, list, containers, inflight>>

DownNext(p) ==
    DownLock(p) \/ DownList(p) \/ DownRemove(p) \/ DownNetworks(p) \/ DownForget(p)

-----------------------------------------------------------------------------
(***************************************************************************)
(* A session: session.plan and Launch, for `agent` and for the containment *)
(* check of `smoke --agent`, which alone takes the lock for its run.       *)
(***************************************************************************)
\* The preset must be in the rendered model list.
SessionModels(p) ==
    /\ Goto(p, "models", "label")
    /\ list \in Offering
    /\ UNCHANGED <<files, containers, holder, locals, inflight>>

\* `running_llama_id` and the inspect of that container's label.
SessionLabel(p) ==
    /\ Goto(p, "label", "compare")
    /\ Runs(eng[p])
    /\ digest' = [digest EXCEPT ![p] = llama[eng[p]].label]
    /\ UNCHANGED <<files, containers, holder, eng, mine, owned, inflight>>

\* The label against the digest of build/models.ini.
SessionCompare(p) ==
    /\ Goto(p, "compare", "build")
    /\ digest[p] = Digest(ini)
    /\ digest' = [digest EXCEPT ![p] = None]
    /\ UNCHANGED <<files, containers, holder, eng, mine, owned, inflight>>

\* Variant: the containment check runs without the lock.
SessionBuildUnlocked(p) ==
    /\ Goto(p, "build", "run")
    /\ UNCHANGED <<files, containers, holder, locals, inflight>>

\* `Launch.build`: the image, which may take minutes.
SessionBuild(p) ==
    /\ Goto(p, "build", IF p \in Checks THEN "lock" ELSE "run")
    /\ UNCHANGED <<files, containers, holder, locals, inflight>>

SessionLock(p) == Acquire(p, "lock", "run")

SessionRun(p) ==
    /\ Goto(p, "run", "session")
    /\ sess' = [sess EXCEPT ![p] = eng[p]]
    /\ UNCHANGED <<files, llama, dash, holder, locals, inflight>>

\* The container exited, or was removed, or the wrapper was interrupted and
\* stopped it (`stop_container`); `run --rm` removes it.
SessionEnd(p) ==
    /\ pc[p] = "session"
    /\ sess' = [sess EXCEPT ![p] = None]
    /\ Forgotten({p})
    /\ Ends(p)
    /\ UNCHANGED <<files, llama, dash, inflight>>

\* A SIGKILL leaves the container running; it goes when its agent exits.
SessionKilled(p) ==
    /\ pc[p] = "session"
    /\ EndsAndForgets(p)
    /\ UNCHANGED <<files, containers, inflight>>

SessionExits(p) ==
    /\ pc[p] # "session" /\ sess[p] # None
    /\ sess' = [sess EXCEPT ![p] = None]
    /\ Forgotten({p})
    /\ UNCHANGED <<files, llama, dash, holder, pc, eng, mine, digest, inflight>>

SessionNext(p) ==
    \/ SessionModels(p) \/ SessionLabel(p) \/ SessionCompare(p) \/ SessionBuild(p)
    \/ (p \in Checks /\ SessionLock(p)) \/ SessionRun(p) \/ SessionEnd(p)
    \/ SessionKilled(p) \/ SessionExits(p)

-----------------------------------------------------------------------------
(***************************************************************************)
(* Failures, and what happens outside the wrapper.                         *)
(***************************************************************************)
\* A refusal, an engine call that fails, an interrupt, or a kill, at a step
\* that has nothing in flight: the process ends, the rest stays as it is.
Fails(p) ==
    /\ pc[p] \notin {"idle", "session"}
    /\ EndsAndForgets(p)
    /\ UNCHANGED <<files, containers, inflight>>

\* The wrapper goes while its Compose call runs: the flock goes with it, the
\* Compose provider goes on.
Killed(p) ==
    /\ pc[p] \in {"compose", "dash"}
    /\ kills + restarts < MaxKills
    /\ kills' = kills + 1
    /\ orphans' = orphans \cup {[step |-> pc[p], engine |-> eng[p], label |-> digest[p]]}
    /\ EndsAndForgets(p)
    /\ UNCHANGED <<files, containers, restarts>>

OrphanLands(o) ==
    /\ orphans' = orphans \ {o}
    /\ IF o.step = "compose"
       THEN /\ LlamaPortFree(o.engine)
            /\ llama' = [llama EXCEPT ![o.engine] = Composed(o.engine, o.label)]
            /\ UNCHANGED dash
            /\ Forgotten(IF llama' = llama THEN {} ELSE {"llama"})
       ELSE /\ DashPortFree(o.engine)
            /\ dash' = [dash EXCEPT ![o.engine] = TRUE]
            /\ UNCHANGED <<llama, owned>>
    /\ UNCHANGED <<files, sess, holder, pc, eng, mine, digest, kills, restarts>>

OrphanDies(o) ==
    /\ orphans' = orphans \ {o}
    /\ UNCHANGED <<files, containers, holder, pc, locals, kills, restarts>>

LlamaExits(e) ==
    /\ Runs(e)
    /\ llama' = [llama EXCEPT ![e] = Exited(llama[e].label)]
    /\ UNCHANGED <<files, dash, sess, holder, pc, locals, inflight>>

\* With a restart policy the engine starts an exited container again, with
\* the file that has the name now.
LlamaRestarts(e) ==
    /\ RestartsItself
    /\ kills + restarts < MaxKills
    /\ llama[e].state = "exited"
    /\ LlamaPortFree(e)
    /\ llama' = [llama EXCEPT ![e] = Running(llama[e].label)]
    /\ restarts' = restarts + 1
    /\ UNCHANGED <<files, dash, sess, holder, pc, locals, orphans, kills>>

Next ==
    \/ \E p \in Commands : Detect(p) \/ Fails(p) \/ Killed(p)
    \/ \E p \in Ups : UpNext(p)
    \/ \E p \in Downs : DownNext(p)
    \/ \E p \in Sessions : SessionNext(p)
    \/ \E o \in orphans : OrphanLands(o) \/ OrphanDies(o)
    \/ \E e \in Engines : LlamaExits(e) \/ LlamaRestarts(e)

Spec == Init /\ [][Next]_vars

-----------------------------------------------------------------------------
(***************************************************************************)
(* Fairness.  A command goes on, or fails, at every step but the wait for  *)
(* the lock: every engine call it makes returns, and `wait_until_ready`    *)
(* has a deadline.  How long an agent session lasts is its user's choice.  *)
(* The kernel wakes every waiter when an flock is released, so no waiter   *)
(* is overtaken for ever.                                                  *)
(***************************************************************************)
Waits(p) == pc[p] \in {"lock", "lock2"}

TakesLock(p) ==
    \/ (p \in Ups /\ (UpLock(p) \/ UpLockAgain(p)))
    \/ (p \in Downs /\ DownLock(p))
    \/ (p \in Checks /\ SessionLock(p))

GoesOn(p) ==
    /\ ~Waits(p)
    /\ \/ (p \in Ups /\ UpNext(p))
       \/ (p \in Downs /\ DownNext(p))
       \/ (p \in Sessions /\ SessionNext(p))
       \/ Fails(p)

LiveSpec ==
    /\ Spec
    /\ \A p \in Commands \ Agents : WF_vars(GoesOn(p)) /\ SF_vars(TakesLock(p))

-----------------------------------------------------------------------------
(***************************************************************************)
(* Properties.                                                             *)
(***************************************************************************)
Containers ==
    {Absent}
        \cup [state : {"created", "exited"}, label : Digests, content : {None}]
        \cup [state : {"running"}, label : Digests, content : Configs]

Orphans == [step : {"compose"}, engine : Engines, label : Digests]
               \cup [step : {"dash"}, engine : Engines, label : {None}]

UpSteps == {"idle", "port", "render", "lists", "digest", "build", "lock", "port2",
            "compose", "record", "wait", "lock2", "dash"}
DownSteps == {"idle", "lock", "owned", "remove", "forget"}
SessionSteps == {"idle", "models", "label", "compare", "build", "lock", "run", "session"}

\* The type invariant.
TypeOK ==
    /\ ini \in Configs \cup {None} /\ list \in Configs \cup {None}
    /\ record \in Engines \cup {None}
    /\ llama \in [Engines -> Containers]
    /\ dash \in [Engines -> BOOLEAN]
    /\ sess \in [Sessions -> Engines \cup {None}]
    /\ holder \in Commands \cup {None}
    /\ pc \in [Commands -> UpSteps \cup DownSteps \cup SessionSteps]
    /\ \A p \in Ups : pc[p] \in UpSteps
    /\ \A p \in Downs : pc[p] \in DownSteps
    /\ \A p \in Sessions : pc[p] \in SessionSteps
    /\ eng \in [Commands -> Engines \cup {None}]
    /\ mine \in [Commands -> Configs \cup {None}]
    /\ digest \in [Commands -> Digests \cup {None}]
    /\ owned \in [Commands -> SUBSET ({"llama", "dash"} \cup Sessions)]
    /\ orphans \in SUBSET Orphans
    /\ kills \in 0 .. MaxKills /\ restarts \in 0 .. MaxKills

\* The steps that change the stack: the Compose `up` calls, the removal,
\* and the run of the containment check.
InLock(p) ==
    \/ p \in Ups /\ pc[p] \in {"port2", "compose", "record", "dash"}
    \/ p \in Downs /\ pc[p] \in {"owned", "remove", "forget"}
    \/ p \in Checks /\ pc[p] \in {"run", "session"}

\* `Engine.lock` serializes the steps that change the stack, whoever fails or
\* is killed meanwhile; the holder is the one command inside.
MutualExclusion ==
    /\ \A p, q \in Commands : InLock(p) /\ InLock(q) => p = q
    /\ \A p \in Commands : InLock(p) => holder = p

\* No Compose call has outlived its wrapper and no engine has restarted a
\* container: what changes the stack is then a command under the lock.
Undisturbed == kills = 0 /\ restarts = 0

\* `require_port` under the lock is the judgement that counts: from there to
\* the Compose call no other engine's llama takes the port, so the call
\* never has to fail on it with the old container already gone.
PortHeldThroughUp ==
    Undisturbed => \A p \in Ups : pc[p] = "compose" => LlamaPortFree(eng[p])

\* The record is written for a stack that is there: the container Compose
\* just made is still known to the engine, and no other engine serves the
\* port, so a command that obeys the record acts on the stack that serves.
RecordNamesTheStack ==
    [][ Undisturbed /\ record' # None /\ record' # record
        => llama[record'] # Absent /\ LlamaPortFree(record') ]_vars

\* `down` removes the record last: on the engine it worked on, nothing that
\* starts under the lock is left when the record goes.
ForgetsLast ==
    [][ record # None /\ record' = None /\ kills = 0
        => \E p \in Downs :
              holder = p /\ llama[eng[p]] = Absent /\ ~dash[eng[p]] ]_vars

\* "The check holds the stack lock while it runs": a `down` never takes the
\* container from under a containment check.
CheckKeepsItsContainer ==
    \A p \in Checks : pc[p] = "session" => sess[p] = eng[p]

\* The digests that a Compose call under way, or one to come, will label a
\* container with.
Pending == ({digest[p] : p \in Ups} \cup {o.label : o \in orphans}) \ {None}

\* The label is the digest of the file the container was started with:
\* compose.yaml says so of io.tokencrate.config-sha256, and the pre-flight of
\* a session relies on it.  Two `up`s can break it (stack_label.cfg).
LabelTellsContent ==
    \A e \in Engines : Runs(e) => llama[e].label = Digest(llama[e].content)

LabelsAgree ==
    /\ LabelTellsContent
    /\ \A p \in Ups : digest[p] \in {None, Digest(ini)}
    /\ \A o \in orphans : o.label \in {None, Digest(ini)}

\* The two ways in which a label comes to tell another configuration, over
\* any number of `up`s, cut-off Compose calls and failures: `up` renders
\* while a digest of the file it replaces is still to become a label, or an
\* engine starts an old container again, which reads the file that is there
\* now.
LabelGoesStaleByRenderOnly ==
    [][ LabelsAgree /\ ~LabelsAgree'
        => \/ Pending # {} /\ \E p \in Ups : pc[p] = "render" /\ pc'[p] = "lists"
           \/ restarts' # restarts ]_vars

\* "Remove all project-owned containers and networks ..., then the stack
\* record" (stop_stack): the record that is removed names an engine whose
\* stack is gone.  A `down` that chose its engine before it waited for the
\* lock can break it (stack_forget.cfg).
ForgottenStackIsGone ==
    [][ record # None /\ record' = None /\ kills = 0
        => llama[record] = Absent /\ ~dash[record] ]_vars

\* "Serialize the steps that change this checkout's stack: the Compose `up`,
\* `run`, and removal calls" (Engine.lock): while a `down` holds the lock no
\* Compose call brings the llama container up.  The call of a killed `up`,
\* whose lock went with it, breaks it (stack_orphan.cfg).
NoComposeDuringADown ==
    [][ \A e \in Engines : Runs(e)' /\ llama'[e] # llama[e] /\ restarts' = restarts
            => holder \notin Downs ]_vars

\* A pre-flight that passes was about a stack that serves the preset.
AcceptedPresetIsServed ==
    [][ \A p \in Sessions :
          pc[p] = "compare" /\ pc'[p] = "build" /\ Runs(eng[p])
              => llama[eng[p]].content \in Offering ]_vars

\* Every `up`, `down` and containment check ends, however the others fail:
\* no lock is lost, no waiter is forgotten.
EveryCommandEnds ==
    \A p \in Commands \ Agents : pc[p] # "idle" ~> pc[p] = "idle"

=============================================================================
