---------------------------- MODULE StackProofs ----------------------------
(***************************************************************************)
(* Proofs about Stack, for every number of commands, engines and           *)
(* configurations: types first, then the lock, then what the lock          *)
(* protects.                                                               *)
(***************************************************************************)
EXTENDS Stack, TLAPS

(***************************************************************************)
(* Types.  A label is a digest because an `up` has one before Compose gets *)
(* it, and a container reads a configuration because an `up` rendered one  *)
(* before it took the digest: the type of the containers rests on the      *)
(* order of the steps.                                                     *)
(***************************************************************************)
HasRendered == {"lists", "digest", "build", "lock", "port2", "compose",
                "record", "wait", "lock2", "dash"}
HasDigest   == {"build", "lock", "port2", "compose"}

EngineKnown == \A p \in Commands : pc[p] # "idle" => eng[p] \in Engines

Rendered ==
    ini = None
        => /\ \A p \in Ups : pc[p] \notin HasRendered
           /\ \A e \in Engines : llama[e] = Absent
           /\ orphans = {}

DigestTaken ==
    \A p \in Ups : /\ pc[p] \in HasDigest => digest[p] \in Digests
                   /\ pc[p] = "dash" => digest[p] = None

DashNext ==
    \A p \in Ups : pc[p] \in {"record", "wait", "lock2"} => digest[p] = None

Typed == TypeOK /\ EngineKnown /\ Rendered /\ DigestTaken /\ DashNext

LEMMA ContainerTypes ==
  ASSUME ini \in Configs, NEW d \in Digests
  PROVE  /\ Created(d) \in Containers
         /\ Exited(d) \in Containers
         /\ Running(d) \in Containers
  BY DEF Created, Exited, Running, Containers

LEMMA LabelTypes ==
  ASSUME NEW c \in Containers, c # Absent
  PROVE  c.label \in Digests
  BY DEF Containers, Absent

LEMMA AbsentState ==
  ASSUME NEW c \in Containers, c.state = "absent"
  PROVE  c = Absent
  BY DEF Containers

LEMMA InitTyped == Init => Typed
<1> SUFFICES ASSUME Init PROVE Typed
  OBVIOUS
<1> USE DEF Init
<1>1. ini \in Configs \cup {None} /\ list \in Configs \cup {None} /\ record \in Engines \cup {None}
  OBVIOUS
<1>2. llama \in [Engines -> Containers]
  BY DEF Containers, Absent
<1>3. dash \in [Engines -> BOOLEAN] /\ sess \in [Sessions -> Engines \cup {None}] /\ holder \in Commands \cup {None}
  OBVIOUS
<1>4. /\ pc \in [Commands -> UpSteps \cup DownSteps \cup SessionSteps]
      /\ \A p \in Ups : pc[p] \in UpSteps
      /\ \A p \in Downs : pc[p] \in DownSteps
      /\ \A p \in Sessions : pc[p] \in SessionSteps
  BY DEF UpSteps, DownSteps, SessionSteps, Commands
<1>5. /\ eng \in [Commands -> Engines \cup {None}]
      /\ mine \in [Commands -> Configs \cup {None}]
      /\ digest \in [Commands -> Digests \cup {None}]
      /\ owned \in [Commands -> SUBSET ({"llama", "dash"} \cup Sessions)]
  OBVIOUS
<1>6. orphans \in SUBSET Orphans /\ kills \in 0 .. MaxKills /\ restarts \in 0 .. MaxKills
  BY DataAssumption
<1>7. EngineKnown /\ Rendered /\ DigestTaken /\ DashNext
  BY DEF EngineKnown, Rendered, DigestTaken, DashNext, HasRendered, HasDigest, Commands
<1> QED
  BY <1>1, <1>2, <1>3, <1>4, <1>5, <1>6, <1>7 DEF TypeOK, Typed

LEMMA DetectTyped ==
  ASSUME Typed, NEW p \in Commands, Detect(p)
  PROVE  Typed'
<1>1. TypeOK'
  BY CommandsAssumption
  DEF Typed, TypeOK, Detect, Goto, FirstStep, files, containers, inflight, Commands,
      UpSteps, DownSteps, SessionSteps
<1>2. EngineKnown' /\ Rendered' /\ DigestTaken' /\ DashNext'
  BY CommandsAssumption
  DEF Typed, TypeOK, Detect, Goto, FirstStep, files, containers, inflight, Commands,
      UpSteps, DownSteps, SessionSteps, EngineKnown, Rendered, DigestTaken, DashNext, HasRendered, HasDigest
<1> QED
  BY <1>1, <1>2 DEF Typed

LEMMA UpTyped ==
  ASSUME Typed, NEW p \in Ups, UpNext(p)
  PROVE  Typed'
<1> USE CommandsAssumption
  DEF Typed, TypeOK, Goto, files, containers, locals, inflight, Commands, EngineKnown,
      Rendered, DigestTaken, DashNext, HasRendered, HasDigest, UpSteps, Acquire
<1>1. CASE UpRequirePort(p)
  BY <1>1 DEF UpRequirePort
<1>2. CASE UpRender(p)
  BY <1>2, DataAssumption DEF UpRender
<1>3. CASE UpRenderLists(p)
  BY <1>3 DEF UpRenderLists
<1>4. CASE UpDigest(p)
  BY <1>4 DEF UpDigest, Digests
<1>5. CASE UpBuild(p)
  BY <1>5 DEF UpBuild
<1>6. CASE UpLock(p)
  BY <1>6 DEF UpLock
<1>7. CASE UpRequirePortAgain(p)
  BY <1>7 DEF UpRequirePortAgain
<1>8. CASE UpCompose(p)
  BY <1>8, ContainerTypes DEF UpCompose, Composed
<1>9. CASE UpComposeFails(p)
  <2>1. PICK l \in FailedCompose(eng[p], digest[p]) : llama' = [llama EXCEPT ![eng[p]] = l]
    BY <1>9 DEF UpComposeFails
  <2>2. l \in Containers
    BY <1>9, ContainerTypes DEF UpComposeFails, FailedCompose, Containers
  <2>3. ini \in Configs
    BY <1>9 DEF UpComposeFails
  <2> QED
    BY <1>9, <2>1, <2>2, <2>3 DEF UpComposeFails, EndsAndForgets, Ends
<1>10. CASE UpRecord(p)
  BY <1>10 DEF UpRecord
<1>11. CASE UpReady(p)
  BY <1>11 DEF UpReady, EndsAndForgets, Ends
<1>12. CASE UpLockAgain(p)
  BY <1>12 DEF UpLockAgain
<1>13. CASE UpDashboard(p)
  BY <1>13 DEF UpDashboard, EndsAndForgets, Ends
<1> QED
  BY <1>1, <1>2, <1>3, <1>4, <1>5, <1>6, <1>7, <1>8, <1>9, <1>10, <1>11, <1>12, <1>13
  DEF UpNext

LEMMA DownTyped ==
  ASSUME Typed, NEW p \in Downs, DownNext(p)
  PROVE  Typed'
<1> USE CommandsAssumption
  DEF Typed, TypeOK, Goto, files, containers, locals, inflight, Commands, EngineKnown,
      Rendered, DigestTaken, DashNext, HasRendered, HasDigest, DownSteps, Acquire,
      EndsAndForgets, Ends
<1>1. CASE DownLock(p)
  BY <1>1 DEF DownLock
<1>2. CASE DownList(p)
  BY <1>2 DEF DownList, OnEngine
<1>3. CASE DownRemove(p)
  <2>1. Absent \in Containers
    BY DEF Containers
  <2> QED
    BY <1>3, <2>1 DEF DownRemove, Forgotten
<1>4. CASE DownNetworks(p)
  BY <1>4 DEF DownNetworks
<1>5. CASE DownForget(p)
  BY <1>5 DEF DownForget
<1> QED
  BY <1>1, <1>2, <1>3, <1>4, <1>5 DEF DownNext

LEMMA SessionTyped ==
  ASSUME Typed, NEW p \in Sessions, SessionNext(p)
  PROVE  Typed'
<1> USE CommandsAssumption
  DEF Typed, TypeOK, Goto, files, containers, locals, inflight, Commands, EngineKnown,
      Rendered, DigestTaken, DashNext, HasRendered, HasDigest, SessionSteps, Acquire,
      EndsAndForgets, Ends
<1>1. CASE SessionModels(p)
  BY <1>1 DEF SessionModels
<1>2. CASE SessionLabel(p)
  BY <1>2, LabelTypes DEF SessionLabel, Runs, Absent
<1>3. CASE SessionCompare(p)
  BY <1>3 DEF SessionCompare
<1>4. CASE SessionBuild(p)
  BY <1>4 DEF SessionBuild
<1>5. CASE p \in Checks /\ SessionLock(p)
  BY <1>5 DEF SessionLock
<1>6. CASE SessionRun(p)
  BY <1>6 DEF SessionRun
<1>7. CASE SessionEnd(p)
  BY <1>7 DEF SessionEnd, Forgotten
<1>8. CASE SessionKilled(p)
  BY <1>8 DEF SessionKilled
<1>9. CASE SessionExits(p)
  BY <1>9 DEF SessionExits, Forgotten
<1> QED
  BY <1>1, <1>2, <1>3, <1>4, <1>5, <1>6, <1>7, <1>8, <1>9 DEF SessionNext

LEMMA FailureTyped ==
  ASSUME Typed, NEW p \in Commands, Fails(p) \/ Killed(p)
  PROVE  Typed'
<1> USE CommandsAssumption
  DEF Typed, TypeOK, files, containers, locals, inflight, Commands, EngineKnown,
      Rendered, DigestTaken, DashNext, HasRendered, HasDigest, EndsAndForgets, Ends,
      UpSteps, DownSteps, SessionSteps
<1>1. CASE Fails(p)
  BY <1>1 DEF Fails
<1>2. CASE Killed(p)
  <2>1. p \in Ups
    BY <1>2 DEF Killed
  <2>2. [step |-> pc[p], engine |-> eng[p], label |-> digest[p]] \in Orphans
    BY <1>2, <2>1 DEF Killed, Orphans
  <2>3. kills' \in 0 .. MaxKills
    BY <1>2, DataAssumption DEF Killed
  <2> QED
    BY <1>2, <2>1, <2>2, <2>3 DEF Killed
<1> QED
  BY <1>1, <1>2

LEMMA OrphanTyped ==
  ASSUME Typed, NEW o \in orphans, OrphanLands(o) \/ OrphanDies(o)
  PROVE  Typed'
<1> USE CommandsAssumption
  DEF Typed, TypeOK, files, containers, locals, Commands, EngineKnown,
      Rendered, DigestTaken, DashNext, HasRendered, HasDigest
<1>1. CASE OrphanLands(o) /\ o.step = "compose"
  <2>1. o.label \in Digests /\ o.engine \in Engines /\ ini \in Configs
    BY <1>1 DEF Orphans
  <2>2. Composed(o.engine, o.label) \in Containers
    BY <2>1, ContainerTypes DEF Composed
  <2> QED
    BY <1>1, <2>1, <2>2 DEF OrphanLands, Forgotten
<1>2. CASE OrphanLands(o) /\ o.step # "compose"
  BY <1>2 DEF OrphanLands
<1>3. CASE OrphanDies(o)
  BY <1>3 DEF OrphanDies
<1> QED
  BY <1>1, <1>2, <1>3

LEMMA EngineTyped ==
  ASSUME Typed, NEW e \in Engines, LlamaExits(e) \/ LlamaRestarts(e)
  PROVE  Typed'
<1> USE DEF Typed, TypeOK, files, locals, inflight, EngineKnown,
      Rendered, DigestTaken, DashNext, HasRendered, HasDigest
<1>1. llama[e] # Absent /\ ini \in Configs /\ llama[e].label \in Digests
  BY LabelTypes DEF LlamaExits, LlamaRestarts, Runs, Absent
<1>2. CASE LlamaExits(e)
  BY <1>1, <1>2, ContainerTypes DEF LlamaExits
<1>3. CASE LlamaRestarts(e)
  <2>1. restarts' \in 0 .. MaxKills
    BY <1>3, DataAssumption DEF LlamaRestarts
  <2>2. llama' \in [Engines -> Containers]
    BY <1>1, <1>3, ContainerTypes DEF LlamaRestarts
  <2> QED
    BY <1>1, <1>3, <2>1, <2>2 DEF LlamaRestarts
<1> QED
  BY <1>2, <1>3

LEMMA StepTyped == Typed /\ [Next]_vars => Typed'
<1> SUFFICES ASSUME Typed, [Next]_vars PROVE Typed'
  OBVIOUS
<1>1. CASE Next
  BY <1>1, DetectTyped, FailureTyped, UpTyped, DownTyped, SessionTyped, OrphanTyped, EngineTyped
  DEF Next
<1>2. CASE UNCHANGED vars
  BY <1>2 DEF vars, files, containers, locals, inflight, Typed, TypeOK, EngineKnown,
              Rendered, DigestTaken, DashNext
<1> QED
  BY <1>1, <1>2

LEMMA AlwaysTyped == Spec => []Typed
<1> QED
  BY InitTyped, StepTyped, PTL DEF Spec

\* Every variable keeps its type, for any number of commands, engines and
\* configurations and however many Compose calls are cut off by a kill.
THEOREM TypeCorrect == Spec => []TypeOK
<1>1. Typed => TypeOK
  BY DEF Typed
<1> QED
  BY AlwaysTyped, <1>1, PTL

-----------------------------------------------------------------------------
(***************************************************************************)
(* The lock.                                                               *)
(***************************************************************************)
Locked == \A p \in Commands : InLock(p) => holder = p

LEMMA LockedExcludes == Locked => MutualExclusion
  BY DEF Locked, MutualExclusion

LEMMA InitLocked == Init => Locked
  BY CommandsAssumption DEF Init, Locked, InLock, Commands, Sessions

LEMMA StepLocked == Typed /\ Locked /\ [Next]_vars => Locked'
<1> SUFFICES ASSUME Typed, Locked, [Next]_vars PROVE Locked'
  OBVIOUS
<1> USE CommandsAssumption
  DEF Locked, InLock, Goto, Acquire, EndsAndForgets, Ends, Typed, TypeOK, Commands, Sessions
<1>1. ASSUME NEW p \in Commands, Detect(p) \/ Fails(p) \/ Killed(p) PROVE Locked'
  BY <1>1 DEF Detect, FirstStep, Fails, Killed
<1>2. ASSUME NEW p \in Ups, UpNext(p) PROVE Locked'
  BY <1>2 DEF UpNext, UpRequirePort, UpRender, UpRenderLists, UpDigest, UpBuild, UpLock,
     UpRequirePortAgain, UpCompose, UpComposeFails, UpRecord, UpReady, UpLockAgain, UpDashboard
<1>3. ASSUME NEW p \in Downs, DownNext(p) PROVE Locked'
  BY <1>3 DEF DownNext, DownLock, DownList, DownRemove, DownNetworks, DownForget
<1>4. ASSUME NEW p \in Sessions, SessionNext(p) PROVE Locked'
  BY <1>4 DEF SessionNext, SessionModels, SessionLabel, SessionCompare, SessionBuild,
     SessionLock, SessionRun, SessionEnd, SessionKilled, SessionExits
<1>5. ASSUME NEW o \in orphans, OrphanLands(o) \/ OrphanDies(o) PROVE Locked'
  BY <1>5 DEF OrphanLands, OrphanDies
<1>6. ASSUME NEW e \in Engines, LlamaExits(e) \/ LlamaRestarts(e) PROVE Locked'
  BY <1>6 DEF LlamaExits, LlamaRestarts
<1>7. CASE UNCHANGED vars
  BY <1>7 DEF vars
<1> QED
  BY <1>1, <1>2, <1>3, <1>4, <1>5, <1>6, <1>7 DEF Next

LEMMA AlwaysLocked == Spec => [](Typed /\ Locked)
<1>1. Init => Typed /\ Locked
  BY InitTyped, InitLocked
<1>2. (Typed /\ Locked) /\ [Next]_vars => (Typed /\ Locked)'
  BY StepTyped, StepLocked
<1> QED
  BY <1>1, <1>2, PTL DEF Spec

\* Whoever fails or is killed, at most one command is at a step that changes
\* the stack, and it holds the lock.
THEOREM Exclusion == Spec => []MutualExclusion
  BY AlwaysLocked, LockedExcludes, PTL

-----------------------------------------------------------------------------
(***************************************************************************)
(* What the lock protects: facts a command established under the lock and  *)
(* relies on a step later.                                                 *)
(***************************************************************************)
NoOrphans == kills = 0 => orphans = {}

StackStays ==
    Undisturbed
        => \A p \in Ups :
              pc[p] = "record" => llama[eng[p]] # Absent /\ LlamaPortFree(eng[p])

RemovedStays ==
    kills = 0
        => \A p \in Downs :
              pc[p] = "forget" => llama[eng[p]] = Absent /\ ~dash[eng[p]]

Kept == /\ NoOrphans /\ CheckKeepsItsContainer /\ PortHeldThroughUp
        /\ StackStays /\ RemovedStays

LEMMA InitKept == Init => Kept
  BY DEF Init, Kept, NoOrphans, CheckKeepsItsContainer, PortHeldThroughUp, StackStays,
         RemovedStays, Commands, Sessions

LEMMA StepKept == Typed /\ Locked /\ Kept /\ [Next]_vars => Kept'
<1> SUFFICES ASSUME Typed, Locked, Kept, [Next]_vars PROVE Kept'
  OBVIOUS
<1> USE CommandsAssumption, DataAssumption
  DEF Locked, InLock, Goto, Acquire, EndsAndForgets, Ends, Typed, TypeOK, EngineKnown, Commands,
      Sessions, Kept, NoOrphans, CheckKeepsItsContainer, PortHeldThroughUp, StackStays,
      RemovedStays, Undisturbed, LlamaPortFree, Runs, files, containers, locals, inflight,
      Absent, Exited, Running, Created
<1>1. ASSUME NEW p \in Commands, Detect(p) \/ Fails(p) \/ Killed(p) PROVE Kept'
  <2>1. CASE Detect(p)
    BY <2>1 DEF Detect, FirstStep
  <2>2. CASE Fails(p)
    BY <2>2 DEF Fails
  <2>3. CASE Killed(p)
    BY <2>3 DEF Killed
  <2> QED
    BY <1>1, <2>1, <2>2, <2>3
<1>2. ASSUME NEW p \in Ups, UpNext(p) PROVE Kept'
  <2>1. CASE UpRequirePort(p)
    BY <2>1 DEF UpRequirePort
  <2>2. CASE UpRender(p)
    BY <2>2 DEF UpRender
  <2>3. CASE UpRenderLists(p)
    BY <2>3 DEF UpRenderLists
  <2>4. CASE UpDigest(p)
    BY <2>4 DEF UpDigest
  <2>5. CASE UpBuild(p)
    BY <2>5 DEF UpBuild
  <2>6. CASE UpLock(p)
    BY <2>6 DEF UpLock
  <2>7. CASE UpRequirePortAgain(p)
    BY <2>7 DEF UpRequirePortAgain
  <2>8. CASE UpCompose(p)
    BY <2>8 DEF UpCompose, Composed
  <2>9. CASE UpComposeFails(p)
    BY <2>9 DEF UpComposeFails, FailedCompose
  <2>10. CASE UpRecord(p)
    BY <2>10 DEF UpRecord
  <2>11. CASE UpReady(p)
    BY <2>11 DEF UpReady
  <2>12. CASE UpLockAgain(p)
    BY <2>12 DEF UpLockAgain
  <2>13. CASE UpDashboard(p)
    BY <2>13 DEF UpDashboard
  <2> QED
    BY <1>2, <2>1, <2>2, <2>3, <2>4, <2>5, <2>6, <2>7, <2>8, <2>9, <2>10, <2>11, <2>12, <2>13 DEF UpNext
<1>3. ASSUME NEW p \in Downs, DownNext(p) PROVE Kept'
  <2>1. CASE DownLock(p)
    BY <2>1 DEF DownLock
  <2>2. CASE DownList(p)
    BY <2>2 DEF DownList
  <2>3. CASE DownRemove(p)
    BY <2>3 DEF DownRemove, Forgotten
  <2>4. CASE DownNetworks(p)
    <3>1. llama[eng[p]].state = "absent" /\ ~dash[eng[p]]
      BY <2>4 DEF DownNetworks, OnEngine
    <3>2. llama[eng[p]] = Absent
      BY <2>4, <3>1, AbsentState DEF DownNetworks
    <3> QED
      BY <2>4, <3>1, <3>2 DEF DownNetworks
  <2>5. CASE DownForget(p)
    BY <2>5 DEF DownForget
  <2> QED
    BY <1>3, <2>1, <2>2, <2>3, <2>4, <2>5 DEF DownNext
<1>4. ASSUME NEW p \in Sessions, SessionNext(p) PROVE Kept'
  <2>1. CASE SessionModels(p)
    BY <2>1 DEF SessionModels
  <2>2. CASE SessionLabel(p)
    BY <2>2 DEF SessionLabel
  <2>3. CASE SessionCompare(p)
    BY <2>3 DEF SessionCompare
  <2>4. CASE SessionBuild(p)
    BY <2>4 DEF SessionBuild
  <2>5. CASE p \in Checks /\ SessionLock(p)
    BY <2>5 DEF SessionLock
  <2>6. CASE SessionRun(p)
    BY <2>6 DEF SessionRun
  <2>7. CASE SessionEnd(p)
    BY <2>7 DEF SessionEnd, Forgotten
  <2>8. CASE SessionKilled(p)
    BY <2>8 DEF SessionKilled
  <2>9. CASE SessionExits(p)
    BY <2>9 DEF SessionExits, Forgotten
  <2> QED
    BY <1>4, <2>1, <2>2, <2>3, <2>4, <2>5, <2>6, <2>7, <2>8, <2>9 DEF SessionNext
<1>5. ASSUME NEW o \in orphans, OrphanLands(o) \/ OrphanDies(o) PROVE Kept'
  BY <1>5 DEF OrphanLands, OrphanDies, Forgotten
<1>6. ASSUME NEW e \in Engines, LlamaExits(e) \/ LlamaRestarts(e) PROVE Kept'
  BY <1>6 DEF LlamaExits, LlamaRestarts
<1>7. CASE UNCHANGED vars
  BY <1>7 DEF vars
<1> QED
  BY <1>1, <1>2, <1>3, <1>4, <1>5, <1>6, <1>7 DEF Next

LEMMA AlwaysKept == Spec => [](Typed /\ Locked /\ Kept)
<1>1. Init => Typed /\ Locked /\ Kept
  BY InitTyped, InitLocked, InitKept
<1>2. (Typed /\ Locked /\ Kept) /\ [Next]_vars => (Typed /\ Locked /\ Kept)'
  BY StepTyped, StepLocked, StepKept
<1> QED
  BY <1>1, <1>2, PTL DEF Spec

\* A `down` never takes the container from under a containment check.
THEOREM CheckKept == Spec => []CheckKeepsItsContainer
<1>1. Kept => CheckKeepsItsContainer
  BY DEF Kept
<1> QED
  BY AlwaysKept, <1>1, PTL

\* The port judged free under the lock is still free when Compose is called.
THEOREM PortHeld == Spec => []PortHeldThroughUp
<1>1. Kept => PortHeldThroughUp
  BY DEF Kept
<1> QED
  BY AlwaysKept, <1>1, PTL

-----------------------------------------------------------------------------
(***************************************************************************)
(* The record.  UpRecord alone writes it, DownForget alone removes it.     *)
(***************************************************************************)
RecordStep ==
    \/ UNCHANGED record
    \/ \E p \in Ups : UpRecord(p)
    \/ \E p \in Downs : DownForget(p)

LEMMA RecordSteps == [Next]_vars => RecordStep
<1> SUFFICES ASSUME [Next]_vars PROVE RecordStep
  OBVIOUS
<1> USE DEF RecordStep, files, Acquire
<1>1. ASSUME NEW p \in Commands, Detect(p) \/ Fails(p) \/ Killed(p) PROVE RecordStep
  BY <1>1 DEF Detect, Fails, Killed
<1>2. ASSUME NEW p \in Ups, UpNext(p) PROVE RecordStep
  BY <1>2 DEF UpNext, UpRequirePort, UpRender, UpRenderLists, UpDigest, UpBuild, UpLock,
     UpRequirePortAgain, UpCompose, UpComposeFails, UpReady, UpLockAgain, UpDashboard
<1>3. ASSUME NEW p \in Downs, DownNext(p) PROVE RecordStep
  BY <1>3 DEF DownNext, DownLock, DownList, DownRemove, DownNetworks
<1>4. ASSUME NEW p \in Sessions, SessionNext(p) PROVE RecordStep
  BY <1>4 DEF SessionNext, SessionModels, SessionLabel, SessionCompare, SessionBuild,
     SessionLock, SessionRun, SessionEnd, SessionKilled, SessionExits
<1>5. ASSUME NEW o \in orphans, OrphanLands(o) \/ OrphanDies(o) PROVE RecordStep
  BY <1>5 DEF OrphanLands, OrphanDies
<1>6. ASSUME NEW e \in Engines, LlamaExits(e) \/ LlamaRestarts(e) PROVE RecordStep
  BY <1>6 DEF LlamaExits, LlamaRestarts
<1>7. CASE UNCHANGED vars
  BY <1>7 DEF vars
<1> QED
  BY <1>1, <1>2, <1>3, <1>4, <1>5, <1>6, <1>7 DEF Next

\* A record that appears or changes names an engine whose llama container is
\* there and whose port no other engine serves.
THEOREM RecordTold == Spec => RecordNamesTheStack
<1> DEFINE Told == Undisturbed /\ record' # None /\ record' # record
                    => llama[record'] # Absent /\ LlamaPortFree(record')
<1>1. Typed /\ Locked /\ Kept /\ [Next]_vars => [Told]_vars
  <2> SUFFICES ASSUME Typed, Locked, Kept, [Next]_vars PROVE Told
    OBVIOUS
  <2>1. ASSUME NEW p \in Ups, UpRecord(p) PROVE Told
    BY <2>1 DEF Kept, StackStays, UpRecord, Goto
  <2>2. ASSUME NEW p \in Downs, DownForget(p) PROVE Told
    BY <2>2 DEF DownForget
  <2> QED
    BY <2>1, <2>2, RecordSteps DEF RecordStep
<1> QED
  BY AlwaysKept, <1>1, PTL DEF Spec, RecordNamesTheStack

\* `down` removes the record only when the engine it worked on has neither
\* the llama container nor the dashboard any more.
THEOREM ForgetLast == Spec => ForgetsLast
<1> DEFINE Gone == record # None /\ record' = None /\ kills = 0
                    => \E p \in Downs :
                          holder = p /\ llama[eng[p]] = Absent /\ ~dash[eng[p]]
<1>1. Typed /\ Locked /\ Kept /\ [Next]_vars => [Gone]_vars
  <2> SUFFICES ASSUME Typed, Locked, Kept, [Next]_vars PROVE Gone
    OBVIOUS
  <2>1. ASSUME NEW p \in Ups, UpRecord(p) PROVE Gone
    <3>1. record' \in Engines
      BY <2>1 DEF UpRecord, Goto, Typed, EngineKnown, Commands
    <3> QED
      BY <3>1, DataAssumption
  <2>2. ASSUME NEW p \in Downs, DownForget(p) PROVE Gone
    <3>1. holder = p
      BY <2>2 DEF DownForget, Locked, InLock, Commands
    <3> QED
      BY <2>2, <3>1 DEF DownForget, Kept, RemovedStays
  <2> QED
    BY <2>1, <2>2, RecordSteps DEF RecordStep
<1> QED
  BY AlwaysKept, <1>1, PTL DEF Spec, ForgetsLast

-----------------------------------------------------------------------------
(***************************************************************************)
(* The label.                                                              *)
(***************************************************************************)
\* While the file stays, what is hashed, built and started agrees: Compose
\* recreates a container whose label is another, and reads the file then.
LEMMA LabelsStay ==
  ASSUME Typed, LabelsAgree, [Next]_vars,
         \A p \in Ups : ~UpRender(p), \A e \in Engines : ~LlamaRestarts(e)
  PROVE  LabelsAgree'
<1> USE CommandsAssumption, DataAssumption
  DEF Goto, Acquire, EndsAndForgets, Ends, Typed, TypeOK, EngineKnown, Commands,
      Sessions, LabelTellsContent, LabelsAgree,
      Runs, files, containers, locals, inflight,
      Absent, Exited, Running, Created
<1>1. ASSUME NEW p \in Commands, Detect(p) \/ Fails(p) \/ Killed(p) PROVE LabelsAgree'
  <2>1. CASE Detect(p)
    BY <2>1 DEF Detect, FirstStep
  <2>2. CASE Fails(p)
    BY <2>2 DEF Fails
  <2>3. CASE Killed(p)
    <3>1. p \in Ups
      BY <2>3 DEF Killed, UpSteps, DownSteps, SessionSteps
    <3>2. \A o \in orphans' : o \in orphans \/ o.label = digest[p]
      BY <2>3 DEF Killed
    <3>3. /\ UNCHANGED <<llama, ini>>
          /\ \A q \in Ups : digest'[q] \in {digest[q], None}
      BY <2>3 DEF Killed
    <3> QED
      BY <3>1, <3>2, <3>3
  <2> QED
    BY <1>1, <2>1, <2>2, <2>3
<1>2. ASSUME NEW p \in Ups, UpNext(p) PROVE LabelsAgree'
  <2>1. CASE UpRequirePort(p)
    BY <2>1 DEF UpRequirePort
  <2>3. CASE UpRenderLists(p)
    BY <2>3 DEF UpRenderLists
  <2>4. CASE UpDigest(p)
    BY <2>4 DEF UpDigest
  <2>5. CASE UpBuild(p)
    BY <2>5 DEF UpBuild
  <2>6. CASE UpLock(p)
    BY <2>6 DEF UpLock
  <2>7. CASE UpRequirePortAgain(p)
    BY <2>7 DEF UpRequirePortAgain
  <2>8. CASE UpCompose(p)
    <3>1. digest[p] = Digest(ini)
      BY <2>8, DigestAssumption DEF UpCompose, DigestTaken, HasDigest
    <3>2. Composed(eng[p], digest[p]) \in {llama[eng[p]], Running(Digest(ini))}
      BY <3>1 DEF Composed
    <3>3. /\ UNCHANGED <<ini, orphans>>
          /\ \A q \in Ups : digest'[q] \in {digest[q], None}
          /\ \A e \in Engines : llama'[e] \in {llama[e], Running(Digest(ini))}
      BY <2>8, <3>2 DEF UpCompose
    <3> QED
      BY <3>3
  <2>9. CASE UpComposeFails(p)
    BY <2>9 DEF UpComposeFails, FailedCompose
  <2>10. CASE UpRecord(p)
    BY <2>10 DEF UpRecord
  <2>11. CASE UpReady(p)
    BY <2>11 DEF UpReady
  <2>12. CASE UpLockAgain(p)
    BY <2>12 DEF UpLockAgain
  <2>13. CASE UpDashboard(p)
    BY <2>13 DEF UpDashboard
  <2> QED
    BY <1>2, <2>1, <2>3, <2>4, <2>5, <2>6, <2>7, <2>8, <2>9, <2>10, <2>11, <2>12, <2>13
    DEF UpNext
<1>3. ASSUME NEW p \in Downs, DownNext(p) PROVE LabelsAgree'
  BY <1>3 DEF DownNext, DownLock, DownList, DownRemove, DownNetworks, DownForget, Forgotten
<1>4. ASSUME NEW p \in Sessions, SessionNext(p) PROVE LabelsAgree'
  BY <1>4 DEF SessionNext, SessionModels, SessionLabel, SessionCompare, SessionBuild,
     SessionLock, SessionRun, SessionEnd, SessionKilled, SessionExits, Forgotten
<1>5. ASSUME NEW o \in orphans, OrphanLands(o) \/ OrphanDies(o) PROVE LabelsAgree'
  <2>1. CASE OrphanLands(o) /\ o.step = "compose"
    <3>1. o.label = Digest(ini)
      BY <2>1, DigestAssumption DEF Orphans
    <3>2. Composed(o.engine, o.label) \in {llama[o.engine], Running(Digest(ini))}
      BY <3>1 DEF Composed
    <3>3. /\ UNCHANGED <<ini, digest>> /\ orphans' \subseteq orphans
          /\ \A e \in Engines : llama'[e] \in {llama[e], Running(Digest(ini))}
      BY <2>1, <3>2 DEF OrphanLands
    <3> QED
      BY <3>3
  <2>2. CASE OrphanLands(o) /\ o.step # "compose"
    BY <2>2 DEF OrphanLands
  <2>3. CASE OrphanDies(o)
    BY <2>3 DEF OrphanDies
  <2> QED
    BY <1>5, <2>1, <2>2, <2>3
<1>6. ASSUME NEW e \in Engines, LlamaExits(e) PROVE LabelsAgree'
  BY <1>6 DEF LlamaExits
<1>7. CASE UNCHANGED vars
  BY <1>7 DEF vars
<1> QED
  BY <1>1, <1>2, <1>3, <1>4, <1>5, <1>6, <1>7 DEF Next

\* A render that disturbs the agreement finds a digest on its way.
LEMMA RendersOver ==
  ASSUME Typed, LabelsAgree, NEW p \in Ups, UpRender(p), Pending = {}
  PROVE  LabelsAgree'
<1>1. UNCHANGED <<llama, digest, orphans>>
  BY DEF UpRender, containers, inflight
<1>2. /\ \A q \in Ups : digest'[q] = None
      /\ \A o \in orphans' : o.label = None
  BY <1>1 DEF Pending
<1>3. LabelTellsContent'
  BY <1>1 DEF LabelsAgree, LabelTellsContent, Runs
<1> QED
  BY <1>2, <1>3 DEF LabelsAgree

\* A label comes to tell another configuration in two ways only: an `up`
\* renders over a file whose digest is still to become a label, or an engine
\* starts an old container again; for any number of `up`s and kills.
THEOREM LabelStale == Spec => LabelGoesStaleByRenderOnly
<1> DEFINE Stale ==
      LabelsAgree /\ ~LabelsAgree'
        => \/ Pending # {} /\ \E p \in Ups : pc[p] = "render" /\ pc'[p] = "lists"
           \/ restarts' # restarts
<1>1. Typed /\ [Next]_vars => [Stale]_vars
  <2> SUFFICES ASSUME Typed, [Next]_vars, LabelsAgree, ~LabelsAgree' PROVE Stale
    OBVIOUS
  <2>1. ASSUME NEW p \in Ups, UpRender(p) PROVE Stale
    <3>1. pc[p] = "render" /\ pc'[p] = "lists"
      BY <2>1 DEF UpRender, Goto, Typed, TypeOK, Commands
    <3> QED
      BY <2>1, <3>1, RendersOver
  <2>2. ASSUME NEW e \in Engines, LlamaRestarts(e) PROVE Stale
    BY <2>2 DEF LlamaRestarts, Typed, TypeOK
  <2> QED
    BY <2>1, <2>2, LabelsStay
<1> QED
  BY AlwaysTyped, <1>1, PTL DEF Spec, LabelGoesStaleByRenderOnly

-----------------------------------------------------------------------------
(***************************************************************************)
(* What the end of every command rests on, up to the fairness of its       *)
(* steps: a lock that is held is held by a command at work under it, and a *)
(* command never goes back, so none is at work for ever.                   *)
(***************************************************************************)
HolderWorks == holder # None => holder \in Commands /\ InLock(holder)

LEMMA StepHolder == Typed /\ Locked /\ HolderWorks /\ [Next]_vars => HolderWorks'
<1> SUFFICES ASSUME Typed, Locked, HolderWorks, [Next]_vars PROVE HolderWorks'
  OBVIOUS
<1> USE CommandsAssumption
  DEF Locked, HolderWorks, InLock, Goto, Acquire, EndsAndForgets, Ends, Typed, TypeOK, Commands, Sessions
<1>1. ASSUME NEW p \in Commands, Detect(p) \/ Fails(p) \/ Killed(p) PROVE HolderWorks'
  BY <1>1 DEF Detect, FirstStep, Fails, Killed
<1>2. ASSUME NEW p \in Ups, UpNext(p) PROVE HolderWorks'
  BY <1>2 DEF UpNext, UpRequirePort, UpRender, UpRenderLists, UpDigest, UpBuild, UpLock,
     UpRequirePortAgain, UpCompose, UpComposeFails, UpRecord, UpReady, UpLockAgain, UpDashboard
<1>3. ASSUME NEW p \in Downs, DownNext(p) PROVE HolderWorks'
  BY <1>3 DEF DownNext, DownLock, DownList, DownRemove, DownNetworks, DownForget
<1>4. ASSUME NEW p \in Sessions, SessionNext(p) PROVE HolderWorks'
  BY <1>4 DEF SessionNext, SessionModels, SessionLabel, SessionCompare, SessionBuild,
     SessionLock, SessionRun, SessionEnd, SessionKilled, SessionExits
<1>5. ASSUME NEW o \in orphans, OrphanLands(o) \/ OrphanDies(o) PROVE HolderWorks'
  BY <1>5 DEF OrphanLands, OrphanDies
<1>6. ASSUME NEW e \in Engines, LlamaExits(e) \/ LlamaRestarts(e) PROVE HolderWorks'
  BY <1>6 DEF LlamaExits, LlamaRestarts
<1>7. CASE UNCHANGED vars
  BY <1>7 DEF vars
<1> QED
  BY <1>1, <1>2, <1>3, <1>4, <1>5, <1>6, <1>7 DEF Next

\* The lock is never lost: whoever fails or is killed, it is free or held by a
\* command that is between its acquisition and its release, never by one that
\* has ended, waits for it, or polls the router.
THEOREM LockIsInUse == Spec => []HolderWorks
<1>1. Init => HolderWorks
  BY DEF Init, HolderWorks
<1> QED
  BY AlwaysLocked, StepHolder, <1>1, PTL DEF Spec

\* The lines of the three commands, in one order that fits them all.
Line(step) ==
    CASE step = "models" -> 1  [] step = "label" -> 2   [] step = "compare" -> 3
      [] step = "port" -> 4    [] step = "render" -> 5  [] step = "lists" -> 6
      [] step = "digest" -> 7  [] step = "build" -> 8   [] step = "lock" -> 9
      [] step = "owned" -> 10  [] step = "remove" -> 11 [] step = "forget" -> 12
      [] step = "port2" -> 13  [] step = "compose" -> 14 [] step = "record" -> 15
      [] step = "wait" -> 16   [] step = "lock2" -> 17  [] step = "dash" -> 18
      [] step = "run" -> 19    [] step = "session" -> 20

\* p is where it was, is over, begins, or is further on.
GoesForward(p) ==
    \/ pc'[p] = pc[p] \/ pc'[p] = "idle" \/ pc[p] = "idle"
    \/ Line(pc[p]) < Line(pc'[p])

\* Nothing makes a command repeat a line, and the one loop of any of them, the
\* removals of a `down`, takes something off its listing each time.
THEOREM NeverGoesBack ==
  Spec => [][ /\ \A p \in Commands : GoesForward(p)
              /\ \A p \in Downs : pc[p] = "remove" => owned'[p] \subseteq owned[p]
              /\ \A p \in Downs : DownRemove(p) => owned'[p] # owned[p] ]_vars
<1> DEFINE Onward == /\ \A p \in Commands : GoesForward(p)
                     /\ \A p \in Downs : pc[p] = "remove" => owned'[p] \subseteq owned[p]
                     /\ \A p \in Downs : DownRemove(p) => owned'[p] # owned[p]
<1>1. Typed /\ [Next]_vars => [Onward]_vars
  <2> SUFFICES ASSUME Typed, Next PROVE Onward
    OBVIOUS
  <2>1. \A p \in Commands : GoesForward(p)
    <3> USE CommandsAssumption DEF GoesForward, Goto, Acquire, EndsAndForgets, Ends, Typed, TypeOK, Commands, Sessions
    <3>1. ASSUME NEW p \in Commands, Detect(p) \/ Fails(p) \/ Killed(p) PROVE \A q \in Commands : GoesForward(q)
      BY <3>1 DEF Detect, Fails, Killed
    <3>2. ASSUME NEW p \in Ups, UpNext(p) PROVE \A q \in Commands : GoesForward(q)
      BY <3>2 DEF UpNext, UpRequirePort, UpRender, UpRenderLists, UpDigest, UpBuild, UpLock,
         UpRequirePortAgain, UpCompose, UpComposeFails, UpRecord, UpReady, UpLockAgain, UpDashboard, Line
    <3>3. ASSUME NEW p \in Downs, DownNext(p) PROVE \A q \in Commands : GoesForward(q)
      BY <3>3 DEF DownNext, DownLock, DownList, DownRemove, DownNetworks, DownForget, Line
    <3>4. ASSUME NEW p \in Sessions, SessionNext(p) PROVE \A q \in Commands : GoesForward(q)
      BY <3>4 DEF SessionNext, SessionModels, SessionLabel, SessionCompare, SessionBuild,
         SessionLock, SessionRun, SessionEnd, SessionKilled, SessionExits, Line
    <3>5. ASSUME NEW o \in orphans, OrphanLands(o) \/ OrphanDies(o) PROVE \A q \in Commands : GoesForward(q)
      BY <3>5 DEF OrphanLands, OrphanDies
    <3>6. ASSUME NEW e \in Engines, LlamaExits(e) \/ LlamaRestarts(e) PROVE \A q \in Commands : GoesForward(q)
      BY <3>6 DEF LlamaExits, LlamaRestarts
    <3> QED
      BY <3>1, <3>2, <3>3, <3>4, <3>5, <3>6 DEF Next
  <2>2. ASSUME NEW p \in Downs, pc[p] = "remove" PROVE owned'[p] \subseteq owned[p]
    <3> USE CommandsAssumption, <2>2 DEF Goto, Acquire, EndsAndForgets, Ends, Forgotten, Typed, TypeOK, Commands, Sessions, locals
    <3>1. ASSUME NEW q \in Commands, Detect(q) \/ Fails(q) \/ Killed(q) PROVE owned'[p] \subseteq owned[p]
      BY <3>1 DEF Detect, Fails, Killed
    <3>2. ASSUME NEW q \in Ups, UpNext(q) PROVE owned'[p] \subseteq owned[p]
      BY <3>2 DEF UpNext, UpRequirePort, UpRender, UpRenderLists, UpDigest, UpBuild, UpLock,
         UpRequirePortAgain, UpCompose, UpComposeFails, UpRecord, UpReady, UpLockAgain, UpDashboard
    <3>3. ASSUME NEW q \in Downs, DownNext(q) PROVE owned'[p] \subseteq owned[p]
      BY <3>3 DEF DownNext, DownLock, DownList, DownRemove, DownNetworks, DownForget
    <3>4. ASSUME NEW q \in Sessions, SessionNext(q) PROVE owned'[p] \subseteq owned[p]
      BY <3>4 DEF SessionNext, SessionModels, SessionLabel, SessionCompare, SessionBuild,
         SessionLock, SessionRun, SessionEnd, SessionKilled, SessionExits
    <3>5. ASSUME NEW o \in orphans, OrphanLands(o) \/ OrphanDies(o) PROVE owned'[p] \subseteq owned[p]
      BY <3>5 DEF OrphanLands, OrphanDies
    <3>6. ASSUME NEW e \in Engines, LlamaExits(e) \/ LlamaRestarts(e) PROVE owned'[p] \subseteq owned[p]
      BY <3>6 DEF LlamaExits, LlamaRestarts
    <3> QED
      BY <3>1, <3>2, <3>3, <3>4, <3>5, <3>6 DEF Next
  <2>3. ASSUME NEW p \in Downs, DownRemove(p) PROVE owned'[p] # owned[p]
    BY <2>3 DEF DownRemove, Forgotten, Commands
  <2> QED
    BY <2>1, <2>2, <2>3
<1> QED
  BY AlwaysTyped, <1>1, PTL DEF Spec

==============================================================================
