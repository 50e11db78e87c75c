------------------------------ MODULE UiProofs ------------------------------
(***************************************************************************)
(* Proofs about Ui, for every number of commands, sets, ports and, where   *)
(* it says nothing else, checkouts.  First who is where and holds which    *)
(* lock, then what the containers are and who may remove them.             *)
(***************************************************************************)
EXTENDS Ui, TLAPS

StepsOf(p) ==
    IF Launching(p)
    THEN {"lock", "list", "remove"} \cup StartSteps
    ELSE {"idle", "lock", "list", "remove", "removed"}

JobOf(p) == set[p] \in IF Launching(p) THEN Sets ELSE Sets \cup {All}

Control ==
    /\ holder \in [Checkouts -> Procs \cup {None}]
    /\ pc \in [Procs -> {"idle", "lock", "list", "remove", "removed"} \cup StartSteps]
    /\ set \in [Procs -> Sets \cup {All, None}]
    /\ port \in [Procs -> Ports \cup {None}]
    /\ \A p \in Procs : holder[CheckoutOf[p]] = p <=> pc[p] \in LockedSteps
    /\ \A p \in Procs : pc[p] \in StepsOf(p) /\ (pc[p] # "idle" => JobOf(p))

LEMMA Slots ==
  /\ None \notin Procs
  /\ \A p \in Procs : CheckoutOf[p] \in Checkouts
  /\ None \notin Ports
  BY ConstantsAssumption

LEMMA LaunchSteps ==
  ASSUME Control, NEW p \in Procs
  PROVE  /\ pc[p] \in StartSteps =>
              /\ Launching(p) /\ set[p] \in Sets /\ port[p] \in Ports
              /\ StepsOf(p) = {"lock", "list", "remove"} \cup StartSteps
         /\ pc[p] \in {"idle", "removed"} => port[p] = None
  BY DEF Control, StepsOf, JobOf, Launching, StartSteps

LEMMA InitControl == Init => Control
  BY Slots DEF Init, Control, StepsOf, Launching, LockedSteps

\* A step that keeps the lock it has, or has not.
LEMMA Moves ==
  ASSUME Control, NEW p \in Procs, NEW step \in StepsOf(p), To(p, step),
         holder' = holder, set' = set, port' = port, pc[p] # "idle",
         pc[p] \in LockedSteps <=> step \in LockedSteps
  PROVE  Control'
  BY DEF Control, To, StepsOf, JobOf, Launching

LEMMA Ended ==
  ASSUME Control, NEW p \in Procs, Ends(p)
  PROVE  Control'
<1>1. pc' = [pc EXCEPT ![p] = "idle"] /\ set' = [set EXCEPT ![p] = None] /\ port' = [port EXCEPT ![p] = None]
  BY DEF Ends, To
<1>2. holder' = IF holder[CheckoutOf[p]] = p THEN [holder EXCEPT ![CheckoutOf[p]] = None] ELSE holder
  BY DEF Ends, Unlocked
<1>3. "idle" \notin LockedSteps
  BY DEF LockedSteps
<1>4. \A q \in Procs : holder'[CheckoutOf[q]] = q <=> pc'[q] \in LockedSteps
  BY <1>1, <1>2, <1>3, Slots DEF Control
<1>5. \A q \in Procs : pc'[q] \in StepsOf(q)' /\ (pc'[q] # "idle" => JobOf(q)')
  <2> SUFFICES ASSUME NEW q \in Procs
               PROVE  pc'[q] \in StepsOf(q)' /\ (pc'[q] # "idle" => JobOf(q)')
    OBVIOUS
  <2>1. CASE q = p
    BY <1>1, <2>1 DEF Control, StepsOf, Launching
  <2>2. CASE q # p
    BY <1>1, <2>2 DEF Control, StepsOf, JobOf, Launching
  <2> QED
    BY <2>1, <2>2
<1>6. holder' \in [Checkouts -> Procs \cup {None}]
  BY <1>2, Slots DEF Control
<1>7. /\ pc' \in [Procs -> {"idle", "lock", "list", "remove", "removed"} \cup StartSteps]
      /\ set' \in [Procs -> Sets \cup {All, None}]
      /\ port' \in [Procs -> Ports \cup {None}]
  BY <1>1 DEF Control
<1> QED
  BY <1>4, <1>5, <1>6, <1>7 DEF Control

LEMMA Acquired ==
  ASSUME Control, NEW p \in Procs, NEW step \in StepsOf(p), step \in LockedSteps, Acquire(p, step)
  PROVE  Control'
<1>1. pc' = [pc EXCEPT ![p] = step] /\ holder' = [holder EXCEPT ![CheckoutOf[p]] = p]
  BY DEF Acquire, To
<1>2. pc[p] = "lock" /\ holder[CheckoutOf[p]] = None /\ set' = set /\ port' = port
  BY DEF Acquire, At
<1>3. \A q \in Procs : holder'[CheckoutOf[q]] = q <=> pc'[q] \in LockedSteps
  BY <1>1, <1>2, Slots DEF Control
<1>4. holder' \in [Checkouts -> Procs \cup {None}]
  BY <1>1, Slots DEF Control
<1>5. /\ pc' \in [Procs -> {"idle", "lock", "list", "remove", "removed"} \cup StartSteps]
      /\ \A q \in Procs : pc'[q] \in StepsOf(q) /\ (pc'[q] # "idle" => JobOf(q)')
  BY <1>1, <1>2 DEF Control, JobOf, StepsOf, Launching
<1> QED
  BY <1>2, <1>3, <1>4, <1>5 DEF Control, StepsOf, Launching

LEMMA StartControl ==
  ASSUME Control, NEW p \in Procs, Start(p)
  PROVE  Control'
<1> USE Slots DEF StepsOf, Launching, StartSteps, LockedSteps, At
<1>1. CASE \E s \in Sets, q \in Ports : Launch(p, s, q)
  BY <1>1 DEF Launch, Control, To, JobOf, Launching
<1>2. CASE RequirePort(p)
  BY <1>2, Moves, LaunchSteps, Ended DEF RequirePort
<1>3. CASE Build(p)
  BY <1>3, Moves, LaunchSteps DEF Build
<1>4. CASE StartLock(p)
  BY <1>4, Acquired DEF StartLock
<1>5. CASE RequirePortAgain(p)
  BY <1>5, Moves, LaunchSteps, Ended DEF RequirePortAgain
<1>6. CASE LookAtUi(p) \/ LookAtForward(p)
  BY <1>6, Moves, LaunchSteps, Ended DEF LookAtUi, LookAtForward, LookAt
<1>7. CASE StartLists(p)
  BY <1>7, Moves DEF StartLists, Lists
<1>8. CASE RunUi(p) \/ RunUiFails(p) \/ RunUiInterrupted(p)
  BY <1>8, Moves, LaunchSteps DEF RunUi, RunUiFails, RunUiInterrupted
<1>9. CASE RunForward(p)
  <2>1. pc[p] = "forward" /\ holder[CheckoutOf[p]] = p
    BY <1>9 DEF RunForward, Control
  <2>2. holder' = [holder EXCEPT ![CheckoutOf[p]] = None] /\ pc' = [pc EXCEPT ![p] = "wait"]
    BY <1>9, <2>1 DEF RunForward, Unlocked, To
  <2> QED
    BY <1>9, <2>1, <2>2, LaunchSteps DEF RunForward, Control, JobOf, Launching
<1>10. CASE \/ Unwind(p) \/ UnwindDeadline(p) \/ RunForwardFails(p) \/ RunForwardInterrupted(p)
           \/ WaitEnds(p) \/ Killed(p)
  BY <1>10, Ended
  DEF Unwind, UnwindDeadline, RunForwardFails, RunForwardInterrupted, WaitEnds, Killed
<1> QED
  BY <1>1, <1>2, <1>3, <1>4, <1>5, <1>6, <1>7, <1>8, <1>9, <1>10 DEF Start

LEMMA StopControl ==
  ASSUME Control, NEW p \in Procs, Stop(p)
  PROVE  Control'
<1> USE Slots DEF StepsOf, Launching, StartSteps, LockedSteps, At
<1>1. CASE \E s \in Sets \cup {All} : StopBegins(p, s)
  BY <1>1 DEF StopBegins, Control, To, JobOf, Launching
<1>2. CASE StopLock(p)
  BY <1>2, Acquired DEF StopLock
<1>3. CASE StopLists(p)
  BY <1>3, Moves, Ended DEF StopLists, Lists
<1>4. CASE StopEnds(p)
  BY <1>4, Ended DEF StopEnds
<1> QED
  BY <1>1, <1>2, <1>3, <1>4 DEF Stop

LEMMA SharedControl ==
  ASSUME Control, NEW p \in Procs, Remove(p) \/ RemoveFails(p) \/ Removed(p) \/ Fails(p)
  PROVE  Control'
<1> USE Slots DEF StepsOf, Launching, StartSteps, LockedSteps, At
<1>1. CASE Remove(p)
  BY <1>1 DEF Remove, Control, JobOf, Launching
<1>2. CASE RemoveFails(p) \/ Fails(p)
  BY <1>2, Ended DEF RemoveFails, Fails
<1>3. CASE Removed(p)
  BY <1>3, Moves DEF Removed
<1> QED
  BY <1>1, <1>2, <1>3

LEMMA OtherControl ==
  ASSUME Control, \/ \E n \in Names : Exits(n)
                  \/ \E l \in late : LateCreates(l) \/ LateStarts(l) \/ LateFails(l)
                  \/ UNCHANGED vars
  PROVE  Control'
  BY DEF Exits, LateCreates, LateStarts, LateFails, vars, Control, JobOf, StepsOf, Launching

LEMMA StepControl ==
  ASSUME Control, [Next]_vars
  PROVE  Control'
  BY StartControl, StopControl, SharedControl, OtherControl DEF Next

(***************************************************************************)
(* What a command has listed stays its checkout's and of its set until it  *)
(* removes it: no other command of the checkout has the lock, and none of  *)
(* another checkout lists it.                                              *)
(***************************************************************************)
OwnedKnown ==
    \A p \in Procs :
        /\ pc[p] # "remove" => owned[p] = {}
        /\ \A n \in owned[p] : OfCheckout(p, n) /\ set[p] \in {n[1], All}

Data ==
    /\ box \in [Names -> {NoBox} \cup Boxes]
    /\ late \subseteq Calls
    /\ owned \in [Procs -> SUBSET Names]
    /\ OwnedKnown

\* A container that is there stays its checkout's.
Kept == \A n \in Names : There(n) => There(n)' /\ box'[n].owner = box[n].owner

Exited(b) == [b EXCEPT !.state = "exited"]
Started(b) == [b EXCEPT !.state = "running", !.late = TRUE]

LEMMA NoBoxIsNone == NoBox \notin Boxes
  BY ConstantsAssumption DEF NoBox, Boxes

LEMMA ExitedBox ==
  ASSUME NEW b \in Boxes
  PROVE  /\ Exited(b) \in Boxes /\ Exited(b) # NoBox /\ Exited(b).owner = b.owner
         /\ Exited(b).port = b.port /\ Exited(b).state = "exited" /\ Exited(b).late = b.late
  BY NoBoxIsNone DEF Boxes, Exited

LEMMA StartedBox ==
  ASSUME NEW b \in Boxes
  PROVE  /\ Started(b) \in Boxes /\ Started(b) # NoBox /\ Started(b).owner = b.owner
         /\ Started(b).port = b.port /\ Started(b).late
  BY NoBoxIsNone DEF Boxes, Started

LEMMA MadeBox ==
  ASSUME NEW p \in Procs, NEW q \in Ports, NEW state \in {"created", "running", "exited"}
  PROVE  /\ Box(p, state, q) \in Boxes /\ Box(p, state, q).owner = CheckoutOf[p]
         /\ Box(p, state, q).port = q /\ Box(p, state, q).late = FALSE
  BY Slots DEF Boxes, Box

LEMMA NameFacts ==
  /\ \A s \in Sets : UiName(s) \in Names /\ ForwardName(s) \in Names
  /\ \A s \in Sets : UiName(s)[1] = s /\ ForwardName(s)[1] = s
  /\ \A s, t \in Sets : UiName(s) # ForwardName(t)
  /\ \A n \in Names : n[1] \in Sets /\ (n = UiName(n[1]) \/ n = ForwardName(n[1]))
  BY DEF Names, UiName, ForwardName

LEMMA InitData == Init => Data
  BY DEF Init, Data, OwnedKnown

\* A container is put under a name that was free.
LEMMA PutFree ==
  ASSUME Data, NEW n \in Names, ~There(n), NEW b \in Boxes, Put(n, b)
  PROVE  box' \in [Names -> {NoBox} \cup Boxes] /\ Kept
<1>1. box' = [box EXCEPT ![n] = b] /\ box \in [Names -> {NoBox} \cup Boxes]
  BY DEF Data, Put
<1>2. \A m \in Names : There(m) => box'[m] = box[m]
  BY <1>1 DEF There
<1> QED
  BY <1>1, <1>2 DEF Kept, There

\* The container of a name changes, and stays its owner's.
LEMMA PutSame ==
  ASSUME Data, NEW n \in Names, NEW b \in Boxes, b.owner = box[n].owner, Put(n, b)
  PROVE  box' \in [Names -> {NoBox} \cup Boxes] /\ Kept
<1>1. box' = [box EXCEPT ![n] = b] /\ box \in [Names -> {NoBox} \cup Boxes]
  BY DEF Data, Put
<1>2. b # NoBox /\ \A m \in Names : m # n => box'[m] = box[m]
  BY <1>1, NoBoxIsNone
<1> QED
  BY <1>1, <1>2 DEF Kept, There

LEMMA PutExited ==
  ASSUME Data, NEW n \in Names, Running(n), Put(n, [box[n] EXCEPT !.state = "exited"])
  PROVE  box' \in [Names -> {NoBox} \cup Boxes] /\ Kept
<1>1. box[n] \in Boxes
  BY DEF Data, Running, NoBox
<1> QED
  BY <1>1, ExitedBox, PutSame DEF Exited

LEMMA Untouched ==
  ASSUME Data, UNCHANGED box
  PROVE  box' \in [Names -> {NoBox} \cup Boxes] /\ Kept
  BY DEF Data, Kept, There

LEMMA RemainsKept ==
  ASSUME Data, NEW p \in Procs, port[p] \in Ports, NEW n \in Names,
         NEW states \in SUBSET {"created", "running", "exited"}, Remains(p, n, states)
  PROVE  box' \in [Names -> {NoBox} \cup Boxes] /\ Kept
  BY PutFree, Untouched, MadeBox DEF Remains

LEMMA ClientGoesKept ==
  ASSUME Data, NEW p \in Procs, port[p] \in Ports, NEW n \in Names, ClientGoes(p, n)
  PROVE  box' \in [Names -> {NoBox} \cup Boxes] /\ Kept /\ late' \subseteq Calls
<1>1. late \subseteq Calls /\ \A step \in {"create", "start"} : Call(p, n, step) \in Calls
  BY Slots DEF Data, Call, Calls
<1>2. late' \subseteq Calls
  BY <1>1 DEF ClientGoes
<1>3. \/ UNCHANGED box
      \/ ~There(n) /\ \E state \in {"created", "running"} : Put(n, Box(p, state, port[p]))
  BY DEF ClientGoes
<1> QED
  BY <1>2, <1>3, PutFree, Untouched, MadeBox

LEMMA LateKept ==
  ASSUME Data, NEW l \in late, LateCreates(l) \/ LateStarts(l) \/ LateFails(l)
  PROVE  box' \in [Names -> {NoBox} \cup Boxes] /\ Kept /\ late' \subseteq Calls
<1>1. /\ l \in Calls /\ late \subseteq Calls /\ [l EXCEPT !.step = "start"] \in Calls
      /\ l.name \in Names
  BY DEF Data, Calls
<1>2. late' \subseteq Calls
  BY <1>1 DEF LateCreates, LateStarts, LateFails
<1>3. CASE LateCreates(l)
  <2>1. [owner |-> l.owner, state |-> "created", port |-> l.port, late |-> TRUE] \in Boxes
    BY <1>1 DEF Boxes, Calls
  <2> QED
    BY <1>1, <1>2, <1>3, <2>1, PutFree DEF LateCreates
<1>4. CASE LateStarts(l)
  <2>1. box[l.name] \in Boxes
    BY <1>1, <1>4 DEF LateStarts, Data, NoBox
  <2> QED
    BY <1>1, <1>2, <1>4, <2>1, StartedBox, PutSame DEF LateStarts, Started
<1>5. CASE LateFails(l)
  BY <1>2, <1>5, Untouched DEF LateFails
<1> QED
  BY <1>3, <1>4, <1>5

\* The step of a command that lists and removes nothing.
LEMMA QuietData ==
  ASSUME Data, NEW p \in Procs, NEW step, To(p, step), owned' = owned,
         pc[p] # "remove", set' = set \/ (\E s : set' = [set EXCEPT ![p] = s]),
         Control,
         step # "remove", box' \in [Names -> {NoBox} \cup Boxes], Kept,
         late' \subseteq Calls
  PROVE  Data'
<1>1. pc' = [pc EXCEPT ![p] = step] /\ owned[p] = {}
  BY DEF To, Data, OwnedKnown
<1>2. ASSUME NEW q \in Procs
      PROVE  /\ pc'[q] # "remove" => owned'[q] = {}
             /\ \A n \in owned'[q] : OfCheckout(q, n)' /\ set'[q] \in {n[1], All}
  <2>1. CASE q = p
    BY <1>1, <2>1
  <2>2. CASE q # p
    <3>1. pc'[q] = pc[q] /\ set'[q] = set[q] /\ owned'[q] = owned[q]
      BY <1>1, <2>2 DEF Control
    <3>2. owned[q] \subseteq Names
      BY DEF Data
    <3> QED
      BY <3>1, <3>2 DEF Data, OwnedKnown, OfCheckout, Kept
  <2> QED
    BY <2>1, <2>2
<1> QED
  BY <1>2 DEF Data, OwnedKnown

LEMMA EndedData ==
  ASSUME Control, Data, NEW p \in Procs, Ends(p),
         box' \in [Names -> {NoBox} \cup Boxes], Kept, late' \subseteq Calls
  PROVE  Data'
<1>1. /\ pc' = [pc EXCEPT ![p] = "idle"] /\ set' = [set EXCEPT ![p] = None]
      /\ owned' = [owned EXCEPT ![p] = {}]
  BY DEF Ends, To
<1>2. owned' \in [Procs -> SUBSET Names]
  BY <1>1 DEF Data
<1>3. ASSUME NEW q \in Procs
      PROVE  /\ pc'[q] # "remove" => owned'[q] = {}
             /\ \A n \in owned'[q] : OfCheckout(q, n)' /\ set'[q] \in {n[1], All}
  <2>1. CASE q = p
    BY <1>1, <2>1 DEF Data
  <2>2. CASE q # p
    <3>1. pc'[q] = pc[q] /\ set'[q] = set[q] /\ owned'[q] = owned[q]
      BY <1>1, <2>2 DEF Control, Data
    <3>2. owned[q] \subseteq Names
      BY DEF Data
    <3> QED
      BY <3>1, <3>2 DEF Data, OwnedKnown, OfCheckout, Kept
  <2> QED
    BY <2>1, <2>2
<1> QED
  BY <1>2, <1>3 DEF Data, OwnedKnown

LEMMA ListedData ==
  ASSUME Control, Data, NEW p \in Procs, Lists(p, Listed(p))
  PROVE  Data'
<1>1. /\ pc' = [pc EXCEPT ![p] = "remove"] /\ owned' = [owned EXCEPT ![p] = Listed(p)]
      /\ UNCHANGED <<box, set, late>>
  BY DEF Lists, To
<1>2. Listed(p) \subseteq Names
  BY DEF Listed
<1>3. \A n \in Listed(p) : OfCheckout(p, n) /\ set[p] \in {n[1], All}
  BY DEF Listed
<1> QED
  BY <1>1, <1>2, <1>3 DEF Control, Data, OwnedKnown, OfCheckout, There

LEMMA RemoveData ==
  ASSUME Control, Data, NEW p \in Procs, Remove(p)
  PROVE  Data'
<1>1. PICK m \in owned[p] : Put(m, NoBox) /\ owned' = [owned EXCEPT ![p] = @ \ {m}]
  BY DEF Remove
<1>2. /\ pc' = pc /\ set' = set /\ late' \subseteq late /\ box' = [box EXCEPT ![m] = NoBox]
      /\ pc[p] = "remove"
  BY <1>1 DEF Remove, Put, At
<1>3. m \in Names /\ OfCheckout(p, m)
  BY DEF Data, OwnedKnown
<1>4. holder[CheckoutOf[p]] = p
  BY <1>2 DEF Control, LockedSteps
<1>5. \A q \in Procs : q # p => m \notin owned[q]
  <2> SUFFICES ASSUME NEW q \in Procs, q # p, m \in owned[q] PROVE FALSE
    OBVIOUS
  <2>1. pc[q] = "remove" /\ OfCheckout(q, m)
    BY DEF Data, OwnedKnown
  <2>2. holder[CheckoutOf[q]] = q
    BY <2>1 DEF Control, LockedSteps
  <2> QED
    BY <1>3, <1>4, <2>1, <2>2 DEF OfCheckout
<1>6. box' \in [Names -> {NoBox} \cup Boxes] /\ owned' \in [Procs -> SUBSET Names]
  BY <1>1, <1>2 DEF Data
<1>7. ASSUME NEW q \in Procs
      PROVE  /\ pc'[q] # "remove" => owned'[q] = {}
             /\ \A n \in owned'[q] : OfCheckout(q, n)' /\ set'[q] \in {n[1], All}
  <2>1. owned'[q] = owned[q] \ {m}
    BY <1>1, <1>5 DEF Data
  <2>2. \A n \in owned[q] \ {m} : box'[n] = box[n]
    BY <1>2 DEF Data
  <2> QED
    BY <1>2, <2>1, <2>2 DEF Data, OwnedKnown, OfCheckout, There
<1> QED
  BY <1>2, <1>6, <1>7 DEF Data, OwnedKnown

LEMMA StoppedKept ==
  ASSUME Data, NEW n \in Names, Stopped(n)
  PROVE  box' \in [Names -> {NoBox} \cup Boxes] /\ Kept
  BY PutExited, Untouched DEF Stopped

LEMMA StartData ==
  ASSUME Control, Data, NEW p \in Procs, Start(p)
  PROVE  Data'
<1> USE Slots DEF At
<1>1. late \subseteq Calls
  BY DEF Data
<1>2. CASE \E s \in Sets, q \in Ports : Launch(p, s, q)
  BY <1>1, <1>2, QuietData, Untouched DEF Launch
<1>3. CASE RequirePort(p) \/ RequirePortAgain(p)
  BY <1>1, <1>3, QuietData, EndedData, Untouched DEF RequirePort, RequirePortAgain
<1>4. CASE Build(p)
  BY <1>1, <1>4, QuietData, Untouched DEF Build
<1>5. CASE StartLock(p)
  BY <1>1, <1>5, QuietData, Untouched DEF StartLock, Acquire
<1>6. CASE LookAtUi(p) \/ LookAtForward(p)
  BY <1>1, <1>6, QuietData, EndedData, Untouched DEF LookAtUi, LookAtForward, LookAt
<1>7. CASE StartLists(p)
  BY <1>7, ListedData DEF StartLists
<1>8. ASSUME pc[p] \in {"run", "unwind", "forward"}
      PROVE  /\ set[p] \in Sets /\ port[p] \in Ports
             /\ UiName(set[p]) \in Names /\ ForwardName(set[p]) \in Names
  BY <1>8, NameFacts, LaunchSteps DEF StartSteps
<1>9. CASE RunUi(p)
  BY <1>1, <1>8, <1>9, QuietData, PutFree, MadeBox DEF RunUi
<1>10. CASE RunUiFails(p)
  BY <1>1, <1>8, <1>10, QuietData, RemainsKept DEF RunUiFails
<1>11. CASE RunUiInterrupted(p)
  BY <1>8, <1>11, QuietData, ClientGoesKept DEF RunUiInterrupted
<1>12. CASE Unwind(p) \/ UnwindDeadline(p)
  BY <1>1, <1>8, <1>12, EndedData, StoppedKept, Untouched DEF Unwind, UnwindDeadline
<1>13. CASE RunForward(p)
  BY <1>1, <1>8, <1>13, QuietData, PutFree, MadeBox DEF RunForward
<1>14. CASE RunForwardFails(p)
  BY <1>1, <1>8, <1>14, EndedData, RemainsKept DEF RunForwardFails
<1>15. CASE WaitEnds(p)
  BY <1>1, <1>15, EndedData, Untouched DEF WaitEnds
<1>16. CASE Killed(p) \/ RunForwardInterrupted(p)
  BY <1>1, <1>8, <1>16, EndedData, ClientGoesKept, Untouched DEF Killed, RunForwardInterrupted
<1> QED
  BY <1>2, <1>3, <1>4, <1>5, <1>6, <1>7, <1>9, <1>10, <1>11, <1>12, <1>13, <1>14, <1>15, <1>16
  DEF Start

LEMMA StopData ==
  ASSUME Control, Data, NEW p \in Procs, Stop(p)
  PROVE  Data'
<1> USE Slots DEF At
<1>1. late \subseteq Calls
  BY DEF Data
<1>2. CASE \E s \in Sets \cup {All} : StopBegins(p, s)
  BY <1>1, <1>2, QuietData, Untouched DEF StopBegins
<1>3. CASE StopLock(p)
  BY <1>1, <1>3, QuietData, Untouched DEF StopLock, Acquire
<1>4. CASE StopLists(p)
  BY <1>1, <1>4, ListedData, EndedData, Untouched DEF StopLists
<1>5. CASE StopEnds(p)
  BY <1>1, <1>5, EndedData, Untouched DEF StopEnds
<1> QED
  BY <1>2, <1>3, <1>4, <1>5 DEF Stop

LEMMA SharedData ==
  ASSUME Control, Data, NEW p \in Procs, Remove(p) \/ RemoveFails(p) \/ Removed(p) \/ Fails(p)
  PROVE  Data'
<1>1. late \subseteq Calls
  BY DEF Data
<1>2. CASE Remove(p)
  BY <1>2, RemoveData
<1>3. CASE RemoveFails(p)
  <2>1. \A n \in owned[p] : n \in Names
    BY DEF Data
  <2>2. box' \in [Names -> {NoBox} \cup Boxes] /\ Kept
    BY <1>3, <2>1, PutExited, Untouched DEF RemoveFails
  <2> QED
    BY <1>1, <1>3, <2>2, EndedData DEF RemoveFails
<1>4. CASE Removed(p)
  <2>1. owned[p] = {} /\ owned' = owned /\ set' = set /\ late' = late /\ box' = box
    BY <1>4 DEF Removed
  <2>2. pc' = [pc EXCEPT ![p] = IF Launching(p) THEN "run" ELSE "removed"]
    BY <1>4 DEF Removed, To
  <2> QED
    BY <2>1, <2>2 DEF Data, Control, OwnedKnown, OfCheckout, There
<1>5. CASE Fails(p)
  BY <1>1, <1>5, EndedData, Untouched DEF Fails
<1> QED
  BY <1>2, <1>3, <1>4, <1>5

LEMMA OtherData ==
  ASSUME Control, Data, \/ \E n \in Names : Exits(n)
                        \/ \E l \in late : LateCreates(l) \/ LateStarts(l) \/ LateFails(l)
                        \/ UNCHANGED vars
  PROVE  Data'
<1>2. /\ box' \in [Names -> {NoBox} \cup Boxes] /\ Kept /\ late' \subseteq Calls
      /\ pc' = pc /\ set' = set /\ owned' = owned
  <2>1. CASE \E n \in Names : Exits(n)
    BY <2>1, PutExited DEF Exits, Data
  <2>2. CASE \E l \in late : LateCreates(l) \/ LateStarts(l) \/ LateFails(l)
    BY <2>2, LateKept DEF LateCreates, LateStarts, LateFails
  <2>3. CASE UNCHANGED vars
    BY <2>3, Untouched DEF vars, Data
  <2> QED
    BY <2>1, <2>2, <2>3
<1>3. \A p \in Procs : owned[p] \subseteq Names
  BY DEF Data
<1> QED
  BY <1>2, <1>3 DEF Data, OwnedKnown, OfCheckout, Kept

StraysTyped == strays \in [Procs -> SUBSET Names]

LEMMA StepStrays ==
  ASSUME Data, StraysTyped, [Next]_vars
  PROVE  StraysTyped'
<1> USE DEF StraysTyped
<1>1. ASSUME NEW p \in Procs, NEW o, strays' = [strays EXCEPT ![p] = @ \ o] \/ strays' = [strays EXCEPT ![p] = {}]
      PROVE  StraysTyped'
  BY <1>1
<1>2. ASSUME NEW p \in Procs, Ends(p) PROVE StraysTyped'
  BY <1>1, <1>2 DEF Ends
<1>3. CASE strays' = strays
  BY <1>3
<1>4. ASSUME NEW p \in Procs, Start(p) PROVE StraysTyped'
  <2> USE Slots
  <2>1. CASE \/ RequirePort(p) \/ RequirePortAgain(p) \/ LookAtUi(p) \/ LookAtForward(p) \/ Unwind(p)
            \/ UnwindDeadline(p) \/ RunForwardFails(p) \/ RunForwardInterrupted(p) \/ WaitEnds(p) \/ Killed(p)
    BY <1>2, <1>3, <2>1 DEF RequirePort, RequirePortAgain, LookAtUi, LookAtForward, LookAt, Unwind,
       UnwindDeadline, RunForwardFails, RunForwardInterrupted, WaitEnds, Killed
  <2>2. CASE RunForward(p) \/ StartLists(p)
    BY <1>1, <2>2 DEF RunForward, StartLists, Lists
  <2>3. CASE \/ RunUi(p) \/ RunUiFails(p) \/ RunUiInterrupted(p) \/ Build(p) \/ StartLock(p)
            \/ \E s \in Sets, q \in Ports : Launch(p, s, q)
    BY <1>3, <2>3 DEF RunUi, RunUiFails, RunUiInterrupted, Build, StartLock, Acquire, Launch
  <2> QED
    BY <1>4, <2>1, <2>2, <2>3 DEF Start
<1>5. ASSUME NEW p \in Procs, Stop(p) PROVE StraysTyped'
  BY <1>1, <1>2, <1>3, <1>5, Slots DEF Stop, StopBegins, StopLock, Acquire, StopLists, Lists, StopEnds
<1>6. ASSUME NEW p \in Procs, Remove(p) \/ RemoveFails(p) \/ Removed(p) \/ Fails(p) PROVE StraysTyped'
  BY <1>1, <1>2, <1>3, <1>6 DEF Remove, RemoveFails, Removed, Fails
<1>7. ASSUME NEW l \in late, LateCreates(l) \/ LateStarts(l) PROVE StraysTyped'
  BY <1>7 DEF LateCreates, LateStarts, Strays, Data, Calls
<1> QED
  BY <1>3, <1>4, <1>5, <1>6, <1>7 DEF Next, Exits, LateFails, vars

Inv == Control /\ Data /\ StraysTyped

LEMMA StepInv ==
  ASSUME Inv, [Next]_vars
  PROVE  Inv'
<1>1. Control' /\ StraysTyped'
  BY StepControl, StepStrays DEF Inv
<1>2. Data'
  BY StartData, StopData, SharedData, OtherData DEF Inv, Next
<1> QED
  BY <1>1, <1>2 DEF Inv

\* Who holds which lock at which step, what the containers are, and that what a
\* command listed stays its checkout's, for any number of checkouts.
THEOREM InvHolds == Spec => []Inv
<1>1. Init => Inv
  BY InitControl, InitData DEF Inv, Init, StraysTyped
<1>2. Inv /\ [Next]_vars => Inv'
  BY StepInv
<1> QED
  BY <1>1, <1>2, PTL DEF Spec

\* The type invariant, for any number of commands, checkouts, sets and ports
\* (the containers and commands of uis.py).
THEOREM TypeCorrect == Spec => []TypeOK
<1>1. Inv => TypeOK
  BY DEF Inv, Control, Data, StraysTyped, TypeOK
<1> QED
  BY <1>1, InvHolds, PTL

\* A step leaves the locks alone, or somebody takes or gives back the lock of
\* its own checkout.
LEMMA HolderChanges ==
  ASSUME [Next]_vars
  PROVE  \/ holder' = holder
         \/ \E p \in Procs : holder' \in {[holder EXCEPT ![CheckoutOf[p]] = p], [holder EXCEPT ![CheckoutOf[p]] = None]}
<1> USE Slots DEF Ends, Unlocked
<1>1. ASSUME NEW p \in Procs, Start(p)
      PROVE  holder' \in {holder, [holder EXCEPT ![CheckoutOf[p]] = p], [holder EXCEPT ![CheckoutOf[p]] = None]}
  BY <1>1 DEF Start, Launch, RequirePort, Build, StartLock, Acquire, RequirePortAgain, LookAtUi, LookAtForward,
     LookAt, StartLists, Lists, RunUi, RunUiFails, RunUiInterrupted, Unwind, UnwindDeadline, RunForward, RunForwardFails,
     RunForwardInterrupted, WaitEnds, Killed
<1>2. ASSUME NEW p \in Procs, Stop(p)
      PROVE  holder' \in {holder, [holder EXCEPT ![CheckoutOf[p]] = p], [holder EXCEPT ![CheckoutOf[p]] = None]}
  BY <1>2 DEF Stop, StopBegins, StopLock, Acquire, StopLists, Lists, StopEnds
<1>3. ASSUME NEW p \in Procs, Remove(p) \/ RemoveFails(p) \/ Removed(p) \/ Fails(p)
      PROVE  holder' \in {holder, [holder EXCEPT ![CheckoutOf[p]] = None]}
  BY <1>3 DEF Remove, RemoveFails, Removed, Fails
<1>4. CASE (\E n \in Names : Exits(n)) \/ (\E l \in late : LateCreates(l) \/ LateStarts(l) \/ LateFails(l)) \/ UNCHANGED vars
  BY <1>4 DEF Exits, LateCreates, LateStarts, LateFails, vars
<1> QED
  BY <1>1, <1>2, <1>3, <1>4 DEF Next

\* A lock that is held is held by a command of its checkout, from its
\* acquisition to the end of what it protects, whatever fails or is killed:
\* none waits for a command that has ended or belongs elsewhere.
HolderWorks ==
    \A c \in Checkouts : holder[c] # None => CheckoutOf[holder[c]] = c /\ pc[holder[c]] \in LockedSteps

THEOREM LockIsInUse == Spec => []HolderWorks
<1> DEFINE Own == \A c \in Checkouts : holder[c] # None => CheckoutOf[holder[c]] = c
<1>1. Init => Own
  BY DEF Init
<1>2. Inv /\ Own /\ [Next]_vars => Own'
  BY HolderChanges, Slots DEF Inv, Control
<1>3. Inv /\ Own => HolderWorks
  BY DEF Inv, Control, HolderWorks
<1> QED
  BY <1>1, <1>2, <1>3, InvHolds, PTL DEF Spec

\* A container is removed by a command of its own checkout that was asked for
\* its set and holds the lock (uis.py:66, 255).
THEOREM RemovedByOwn == Spec => RemovedByItsOwn
<1> DEFINE Own == \A n \in Names : There(n) /\ ~There(n)' =>
                    \E p \in Procs : /\ holder[box[n].owner] = p /\ CheckoutOf[p] = box[n].owner
                                     /\ set[p] \in {n[1], All}
<1>1. Inv /\ [Next]_vars => [Own]_vars
  <2> SUFFICES ASSUME Inv, [Next]_vars, NEW n \in Names, There(n), ~There(n)'
               PROVE  \E p \in Procs : /\ holder[box[n].owner] = p /\ CheckoutOf[p] = box[n].owner
                                       /\ set[p] \in {n[1], All}
    OBVIOUS
  <2>1. PICK p \in Procs : Remove(p)
    <3>1. ASSUME NEW p \in Procs, port[p] \in Ports, NEW m \in Names,
                 NEW states \in SUBSET {"created", "running", "exited"}, Remains(p, m, states)
          PROVE  FALSE
      BY <3>1, RemainsKept DEF Inv, Kept
    <3>10. ASSUME NEW p \in Procs, port[p] \in Ports, NEW m \in Names, ClientGoes(p, m) PROVE FALSE
      BY <3>10, ClientGoesKept DEF Inv, Kept
    <3>2. ASSUME NEW m \in Names, Stopped(m) PROVE FALSE
      BY <3>2, StoppedKept DEF Inv, Kept
    <3>3. ASSUME NEW m \in Names, ~There(m), NEW b \in Boxes, Put(m, b) PROVE FALSE
      BY <3>3, PutFree DEF Inv, Kept
    <3>4. ASSUME NEW m \in Names, Running(m), Put(m, [box[m] EXCEPT !.state = "exited"]) PROVE FALSE
      BY <3>4, PutExited DEF Inv, Kept
    <3>5. ASSUME UNCHANGED box PROVE FALSE
      BY <3>5 DEF There
    <3>6. ASSUME NEW p \in Procs, Start(p) PROVE FALSE
      <4>1. ASSUME pc[p] \in {"run", "unwind", "forward"}
            PROVE  /\ set[p] \in Sets /\ port[p] \in Ports /\ p \in Procs
                   /\ UiName(set[p]) \in Names /\ ForwardName(set[p]) \in Names
        BY <4>1, NameFacts, LaunchSteps DEF Inv, StartSteps
      <4>2. CASE RunUi(p) \/ RunForward(p)
        BY <3>3, <4>1, <4>2, MadeBox DEF RunUi, RunForward, At
      <4>3. CASE RunUiFails(p)
        BY <3>1, <4>1, <4>3 DEF RunUiFails, At
      <4>4. CASE RunForwardFails(p)
        BY <3>1, <4>1, <4>4 DEF RunForwardFails, At
      <4>5. CASE Killed(p) \/ RunUiInterrupted(p) \/ RunForwardInterrupted(p)
        BY <3>5, <3>10, <4>1, <4>5 DEF Killed, RunUiInterrupted, RunForwardInterrupted, At
      <4>6. CASE Unwind(p)
        BY <3>2, <4>1, <4>6 DEF Unwind, At
      <4>7. CASE UnwindDeadline(p) \/ WaitEnds(p) \/ Build(p) \/ StartLists(p) \/ StartLock(p)
        BY <3>5, <4>7 DEF UnwindDeadline, WaitEnds, Build, StartLists, Lists, StartLock, Acquire
      <4>8. CASE RequirePort(p) \/ RequirePortAgain(p) \/ LookAtUi(p) \/ LookAtForward(p)
        BY <3>5, <4>8 DEF RequirePort, RequirePortAgain, LookAtUi, LookAtForward, LookAt
      <4>9. CASE \E s \in Sets, q \in Ports : Launch(p, s, q)
        BY <3>5, <4>9 DEF Launch
      <4> QED
        BY <3>6, <4>2, <4>3, <4>4, <4>5, <4>6, <4>7, <4>8, <4>9 DEF Start
    <3>7. ASSUME NEW p \in Procs, Stop(p) PROVE FALSE
      BY <3>5, <3>7 DEF Stop, StopBegins, StopLock, Acquire, StopLists, Lists, StopEnds
    <3>8. ASSUME NEW p \in Procs, RemoveFails(p) \/ Removed(p) \/ Fails(p) PROVE FALSE
      <4>1. owned[p] \subseteq Names
        BY DEF Inv, Data
      <4> QED
        BY <3>4, <3>5, <3>8, <4>1 DEF RemoveFails, Removed, Fails
    <3>9. ASSUME \/ \E m \in Names : Exits(m)
                 \/ \E l \in late : LateCreates(l) \/ LateStarts(l) \/ LateFails(l)
                 \/ UNCHANGED vars
          PROVE FALSE
      BY <3>4, <3>5, <3>9, LateKept DEF Exits, vars, Inv, Kept
    <3> QED
      BY <3>6, <3>7, <3>8, <3>9 DEF Next
  <2>2. n \in owned[p] /\ pc[p] = "remove"
    BY <2>1 DEF Remove, Put, At, Inv, Data, There
  <2>3. holder[CheckoutOf[p]] = p /\ OfCheckout(p, n) /\ set[p] \in {n[1], All}
    BY <2>2 DEF Inv, Data, OwnedKnown, Control, LockedSteps
  <2> QED
    BY <2>3 DEF OfCheckout
<1> QED
  BY <1>1, InvHolds, PTL DEF Spec, RemovedByItsOwn

(***************************************************************************)
(* One checkout: the lock is then everybody's, and what a command looked   *)
(* at under it stays so until the command changes it.                      *)
(***************************************************************************)
OneCheckout == \A c, d \in Checkouts : c = d

Knows(p) ==
    /\ pc[p] = "remove" => Listed(p) \subseteq owned[p] \cup strays[p]
    /\ pc[p] = "removed" => Listed(p) \subseteq strays[p]
    /\ Launching(p) /\ pc[p] \in {"foreign-ui", "foreign-forward", "list", "remove", "run", "forward"}
          => \A n \in Names : Publishes(n, port[p]) => n = ForwardName(set[p]) \/ n \in strays[p]
    /\ pc[p] \in {"run", "forward"} /\ There(ForwardName(set[p])) => ForwardName(set[p]) \in strays[p]
    /\ pc[p] = "run" /\ There(UiName(set[p])) => UiName(set[p]) \in strays[p]
    /\ pc[p] = "forward" /\ There(UiName(set[p])) =>
          box[UiName(set[p])].port = port[p] \/ box[UiName(set[p])].late
    /\ \A n \in strays[p] : There(n) /\ box[n].late
    /\ pc[p] \notin LockedSteps => strays[p] = {}

Serial == (\A p \in Procs : Knows(p)) /\ PairIsOfOneLaunch

LEMMA Alone ==
  ASSUME OneCheckout, Control, NEW p \in Procs, NEW q \in Procs,
         pc[p] \in LockedSteps, pc[q] \in LockedSteps
  PROVE  p = q
  BY Slots DEF OneCheckout, Control

\* Everything that is there is of the one checkout.
LEMMA Ours ==
  ASSUME OneCheckout, Data, NEW p \in Procs, NEW n \in Names
  PROVE  OfCheckout(p, n) <=> There(n)
  BY Slots DEF OneCheckout, Data, OfCheckout, There, Boxes

LEMMA InitSerial == Init => Serial
  BY DEF Init, Serial, Knows, Launching, PairIsOfOneLaunch, There, UiName, ForwardName, Names

Frame(p) ==
    \A q \in Procs : q # p =>
        /\ pc'[q] = pc[q] /\ set'[q] = set[q] /\ port'[q] = port[q]
        /\ owned'[q] = owned[q] /\ strays'[q] = strays[q]

LEMMA MoveFrame ==
  ASSUME Inv, NEW p \in Procs, NEW step, To(p, step),
         set' = set \/ (\E s : set' = [set EXCEPT ![p] = s]),
         port' = port \/ (\E q : port' = [port EXCEPT ![p] = q]),
         owned' = owned \/ (\E o : owned' = [owned EXCEPT ![p] = o]),
         strays' = strays \/ (\E o : strays' = [strays EXCEPT ![p] = o])
  PROVE  Frame(p)
  BY DEF Frame, To, Inv, Control, Data, StraysTyped

LEMMA EndFrame ==
  ASSUME Inv, NEW p \in Procs, Ends(p)
  PROVE  Frame(p) /\ pc'[p] = "idle" /\ strays'[p] = {}
  BY DEF Frame, Ends, To, Inv, Control, Data, StraysTyped

\* A command that ends, or does not hold the lock, knows nothing.
LEMMA NothingKnown ==
  ASSUME NEW p, pc[p] \notin LockedSteps, strays[p] = {}
  PROVE  Knows(p)
  BY DEF Knows, Launching, LockedSteps

\* What the others know a step changes in no way: either they do not hold
\* the lock, or no container changes.
LEMMA Others ==
  ASSUME OneCheckout, Inv, Serial, NEW p \in Procs, Frame(p),
         box' = box \/ pc[p] \in LockedSteps, NEW q \in Procs, q # p
  PROVE  Knows(q)'
<1>1. /\ pc'[q] = pc[q] /\ set'[q] = set[q] /\ port'[q] = port[q] /\ owned'[q] = owned[q]
      /\ strays'[q] = strays[q]
  BY DEF Frame
<1>2. CASE pc[q] \notin LockedSteps
  BY <1>1, <1>2 DEF Serial, Knows, Launching, LockedSteps
<1>3. CASE box' = box
  BY <1>1, <1>3 DEF Serial, Knows, Launching, Listed, OfCheckout, There, Publishes, Running
<1>4. CASE pc[p] \in LockedSteps
  BY <1>2, <1>4, Alone DEF Inv
<1> QED
  BY <1>2, <1>3, <1>4

\* A command that touches no container.
LEMMA QuietSerial ==
  ASSUME OneCheckout, Inv, Serial, NEW p \in Procs, Frame(p), UNCHANGED box, Knows(p)'
  PROVE  Serial'
<1>1. \A q \in Procs : Knows(q)'
  BY Others
<1>2. PairIsOfOneLaunch'
  BY DEF Serial, PairIsOfOneLaunch, There
<1> QED
  BY <1>1, <1>2 DEF Serial

LEMMA EndSerial ==
  ASSUME OneCheckout, Inv, Serial, NEW p \in Procs, Ends(p),
         box' = box \/ pc[p] \in LockedSteps, PairIsOfOneLaunch'
  PROVE  Serial'
<1>1. Frame(p) /\ pc'[p] = "idle" /\ strays'[p] = {}
  BY EndFrame
<1>2. Knows(p)'
  BY <1>1 DEF Knows, Launching, LockedSteps
<1> QED
  BY <1>1, <1>2, Others DEF Serial

LEMMA EndsQuietly ==
  ASSUME OneCheckout, Inv, Serial, NEW p \in Procs, Ends(p), UNCHANGED box
  PROVE  Serial'
<1>1. PairIsOfOneLaunch'
  BY DEF Serial, PairIsOfOneLaunch, There
<1> QED
  BY <1>1, EndSerial

\* What was listed is what is there, but for what has strayed in since.
LEMMA ListsSerial ==
  ASSUME OneCheckout, Inv, Serial, NEW p \in Procs, Lists(p, Listed(p))
  PROVE  Serial'
<1>1. /\ pc[p] = "list" /\ To(p, "remove") /\ owned' = [owned EXCEPT ![p] = Listed(p)]
      /\ strays' = [strays EXCEPT ![p] = @ \ Listed(p)]
      /\ UNCHANGED <<box, holder, set, port, late>>
  BY DEF Lists, At
<1>2. /\ pc'[p] = "remove" /\ owned'[p] = Listed(p) /\ Frame(p)
      /\ strays'[p] = strays[p] \ Listed(p)
  BY <1>1, MoveFrame DEF To, Inv, Control, Data, StraysTyped
<1>3. Listed(p)' = Listed(p)
  BY <1>1 DEF Listed, OfCheckout, There
<1>4. ASSUME Launching(p), NEW n \in Names, Publishes(n, port[p])
      PROVE  n = ForwardName(set[p]) \/ n \in strays'[p]
  <2>1. n = ForwardName(set[p]) \/ n \in strays[p]
    BY <1>1, <1>4 DEF Serial, Knows, Launching
  <2>2. set[p] \in Sets
    BY <1>1, <1>4 DEF Inv, Control, JobOf, Launching
  <2>3. n \in Listed(p) => n[1] = set[p]
    BY <2>2, ConstantsAssumption DEF Listed
  <2>4. n = ForwardName(n[1])
    BY <1>4, NameFacts DEF Publishes
  <2> QED
    BY <1>2, <2>1, <2>3, <2>4
<1>5. \A n \in Names : Publishes(n, port[p])' => Publishes(n, port[p])
  BY <1>1 DEF Publishes, Running, ForwardName
<1>6. \A n \in strays'[p] : There(n)' /\ box'[n].late
  BY <1>1, <1>2 DEF Serial, Knows, Launching, There
<1>7. Knows(p)'
  BY <1>1, <1>2, <1>3, <1>4, <1>5, <1>6 DEF Knows, Launching, LockedSteps, ForwardName
<1> QED
  BY <1>1, <1>2, <1>7, QuietSerial

LEMMA QuietStart ==
  ASSUME OneCheckout, Inv, Serial, NEW p \in Procs,
         \/ \E s \in Sets, q \in Ports : Launch(p, s, q)
         \/ RequirePort(p) \/ Build(p) \/ StartLock(p) \/ RequirePortAgain(p)
         \/ LookAtUi(p) \/ LookAtForward(p) \/ StartLists(p) \/ WaitEnds(p) \/ UnwindDeadline(p)
  PROVE  Serial'
<1> USE Slots DEF At
<1>1. p \in Procs /\ Knows(p)
  BY DEF Serial
<1>2. ASSUME Ends(p), UNCHANGED box PROVE Serial'
  BY <1>2, EndsQuietly
<1>3. ASSUME NEW step \in {"port", "build", "lock", "again"}, To(p, step), Frame(p),
             UNCHANGED <<box, strays>>, pc[p] \in {"idle", "port", "build", "lock"}
      PROVE  Serial'
  <2>1. pc'[p] = step /\ strays'[p] = {}
    BY <1>1, <1>3 DEF To, Inv, Control, Knows, Launching, LockedSteps
  <2>2. Knows(p)'
    BY <1>3, <2>1 DEF Knows, Launching
  <2> QED
    BY <1>3, <2>2, QuietSerial
<1>4. ASSUME NEW step \in {"foreign-ui", "foreign-forward", "list"}, To(p, step), Frame(p),
             UNCHANGED <<box, set, port, owned, strays>>,
             \A n \in Names : Publishes(n, port[p]) => n = ForwardName(set[p]) \/ n \in strays[p]
      PROVE  Serial'
  <2>1. pc'[p] = step
    BY <1>1, <1>4 DEF To, Inv, Control
  <2>2. \A n \in Names : Publishes(n, port[p])' => Publishes(n, port[p])
    BY <1>4 DEF Publishes, Running, ForwardName
  <2>3. \A n \in strays'[p] : There(n)' /\ box'[n].late
    BY <1>1, <1>4 DEF Knows, Launching, There
  <2>4. Knows(p)'
    BY <1>4, <2>1, <2>2, <2>3 DEF Knows, Launching, LockedSteps, ForwardName
  <2> QED
    BY <1>4, <2>4, QuietSerial
<1>5. CASE \E s \in Sets, q \in Ports : Launch(p, s, q)
  BY <1>3, <1>5, MoveFrame DEF Launch
<1>6. CASE RequirePort(p)
  BY <1>2, <1>3, <1>6, MoveFrame DEF RequirePort
<1>7. CASE Build(p)
  BY <1>3, <1>7, MoveFrame DEF Build
<1>8. CASE StartLock(p)
  BY <1>3, <1>8, MoveFrame DEF StartLock, Acquire
<1>9. CASE RequirePortAgain(p)
  BY <1>2, <1>4, <1>9, MoveFrame DEF RequirePortAgain, PortAccepted
<1>10. CASE LookAtUi(p) \/ LookAtForward(p)
  <2>1. Launching(p)
    BY <1>10, LaunchSteps DEF LookAtUi, LookAtForward, LookAt, Inv, StartSteps
  <2> QED
    BY <1>1, <1>2, <1>4, <1>10, <2>1, MoveFrame DEF LookAtUi, LookAtForward, LookAt, Knows
<1>11. CASE StartLists(p)
  BY <1>1, <1>11, ListsSerial DEF StartLists
<1>12. CASE WaitEnds(p) \/ UnwindDeadline(p)
  BY <1>2, <1>12 DEF WaitEnds, UnwindDeadline
<1> QED
  BY <1>5, <1>6, <1>7, <1>8, <1>9, <1>10, <1>11, <1>12

LEMMA StopSerial ==
  ASSUME OneCheckout, Inv, Serial, NEW p \in Procs, Stop(p)
  PROVE  Serial'
<1> USE Slots DEF At
<1>1. ASSUME Ends(p), UNCHANGED box PROVE Serial'
  BY <1>1, EndsQuietly
<1>2. ASSUME NEW step \in {"lock", "list"}, To(p, step), Frame(p),
             UNCHANGED <<box, strays>>, pc[p] \in {"idle", "lock"},
             ~Launching(p), port' = port
      PROVE  Serial'
  <2>1. pc'[p] = step /\ strays'[p] = {}
    BY <1>2 DEF To, Inv, Control, Serial, Knows, Launching, LockedSteps
  <2>2. Knows(p)'
    BY <1>2, <2>1 DEF Knows, Launching
  <2> QED
    BY <1>2, <2>2, QuietSerial
<1>3. CASE \E s \in Sets \cup {All} : StopBegins(p, s)
  <2>1. ~Launching(p)
    BY <1>3, LaunchSteps DEF StopBegins, Inv, Launching
  <2> QED
    BY <1>2, <1>3, <2>1, MoveFrame DEF StopBegins
<1>4. CASE StopLock(p)
  BY <1>2, <1>4, MoveFrame DEF StopLock, Acquire
<1>5. CASE StopLists(p)
  BY <1>1, <1>5, ListsSerial DEF StopLists
<1>6. CASE StopEnds(p)
  BY <1>1, <1>6 DEF StopEnds
<1> QED
  BY <1>3, <1>4, <1>5, <1>6 DEF Stop

(***************************************************************************)
(* A step that only stops or removes containers.                           *)
(***************************************************************************)
Lesser ==
    \A n \in Names : There(n)' =>
        /\ There(n)
        /\ box'[n].owner = box[n].owner /\ box'[n].port = box[n].port /\ box'[n].late = box[n].late
        /\ box'[n].state = "running" => box[n].state = "running"

LEMMA LesserPair ==
  ASSUME Lesser, PairIsOfOneLaunch
  PROVE  PairIsOfOneLaunch'
<1> SUFFICES ASSUME NEW s \in Sets, There(UiName(s))', There(ForwardName(s))'
             PROVE  \/ box'[UiName(s)].port = box'[ForwardName(s)].port
                    \/ box'[UiName(s)].late \/ box'[ForwardName(s)].late
  BY DEF PairIsOfOneLaunch, UiName, ForwardName
<1> QED
  BY NameFacts DEF Lesser, PairIsOfOneLaunch

LEMMA NobodyRuns == NoBox.state # "running"
  BY DEF NoBox

LEMMA LesserKnows ==
  ASSUME Inv, Lesser, NEW p \in Procs, Knows(p), pc' = pc, set' = set, port' = port,
         strays'[p] \subseteq strays[p], \A n \in strays'[p] : There(n)',
         \A n \in Names : There(n)' => /\ n \in owned[p] => n \in owned'[p]
                                       /\ n \in strays[p] => n \in strays'[p]
  PROVE  Knows(p)'
<1>1. /\ Listed(p)' \subseteq Listed(p)
      /\ \A n \in Listed(p)' : n \in Names /\ There(n)'
  BY DEF Listed, OfCheckout, Lesser
<1>2. \A n \in Names : Publishes(n, port[p])' => Publishes(n, port[p]) /\ There(n)'
  BY NobodyRuns DEF Lesser, Publishes, Running, There, ForwardName
<1>3. pc[p] \in {"run", "forward"} =>
        UiName(set[p]) \in Names /\ ForwardName(set[p]) \in Names
  BY NameFacts, Slots DEF Inv, Control, JobOf, StepsOf, Launching
<1>4. pc[p] \in {"run", "forward"} /\ There(ForwardName(set[p]))' =>
        (ForwardName(set[p]) \in strays[p] => ForwardName(set[p]) \in strays'[p])
  BY <1>3
<1>5. pc[p] \in {"run", "forward"} /\ There(ForwardName(set[p]))' => There(ForwardName(set[p]))
  BY <1>3 DEF Lesser
<1>6. pc[p] = "run" /\ There(UiName(set[p]))' =>
        There(UiName(set[p])) /\ (UiName(set[p]) \in strays[p] => UiName(set[p]) \in strays'[p])
  BY <1>3 DEF Lesser
<1>7. pc[p] = "forward" /\ There(UiName(set[p]))' =>
        /\ There(UiName(set[p])) /\ box'[UiName(set[p])].port = box[UiName(set[p])].port
        /\ box'[UiName(set[p])].late = box[UiName(set[p])].late
  BY <1>3 DEF Lesser
<1>8. \A n \in strays'[p] : n \in Names /\ There(n)' /\ box'[n].late
  BY DEF Inv, StraysTyped, Knows, Launching, Lesser
<1>9. pc[p] = "remove" => Listed(p)' \subseteq owned'[p] \cup strays'[p]
  BY <1>1 DEF Knows, Launching
<1>10. pc[p] = "removed" => Listed(p)' \subseteq strays'[p]
  BY <1>1 DEF Knows, Launching
<1>11. Launching(p) /\ pc[p] \in {"foreign-ui", "foreign-forward", "list", "remove", "run", "forward"}
         => \A n \in Names : Publishes(n, port[p])' => n = ForwardName(set[p]) \/ n \in strays'[p]
  BY <1>2 DEF Knows, Launching
<1>12. pc[p] \in {"run", "forward"} /\ There(ForwardName(set[p]))' => ForwardName(set[p]) \in strays'[p]
  BY <1>4, <1>5 DEF Knows, Launching
<1>13. pc[p] = "run" /\ There(UiName(set[p]))' => UiName(set[p]) \in strays'[p]
  BY <1>6 DEF Knows, Launching
<1>14. pc[p] = "forward" /\ There(UiName(set[p]))' =>
         box'[UiName(set[p])].port = port[p] \/ box'[UiName(set[p])].late
  BY <1>7 DEF Knows, Launching
<1>15. UNCHANGED <<UiName(set[p]), ForwardName(set[p]), pc, set, port>>
  BY DEF UiName, ForwardName
<1>16. pc[p] \notin LockedSteps => strays'[p] = {}
  BY DEF Knows, Launching
<1> QED
  BY <1>8, <1>9, <1>10, <1>11, <1>12, <1>13, <1>14, <1>15, <1>16 DEF Knows, Launching

LEMMA ExitedLesser ==
  ASSUME Data, NEW n \in Names, Running(n), Put(n, [box[n] EXCEPT !.state = "exited"])
  PROVE  Lesser /\ \A m \in Names : There(m)' <=> There(m)
<1>1. box[n] \in Boxes /\ There(n)
  BY DEF Data, Running, NoBox, There
<1>2. box' = [box EXCEPT ![n] = [box[n] EXCEPT !.state = "exited"]] /\ box \in [Names -> {NoBox} \cup Boxes]
  BY DEF Put, Data
<1>3. box'[n] = [box[n] EXCEPT !.state = "exited"] /\ \A m \in Names : m # n => box'[m] = box[m]
  BY <1>2
<1>4. /\ box'[n] # NoBox /\ box'[n].owner = box[n].owner /\ box'[n].port = box[n].port
      /\ box'[n].late = box[n].late
  BY <1>1, <1>3, ExitedBox DEF Exited
<1>5. ASSUME NEW m \in Names
      PROVE  /\ There(m)' <=> There(m)
             /\ There(m)' => /\ box'[m].owner = box[m].owner /\ box'[m].port = box[m].port
                             /\ box'[m].late = box[m].late
             /\ box'[m].state = "running" => box[m].state = "running"
  <2>1. CASE m = n
    BY <1>1, <1>4, <2>1 DEF There, Running
  <2>2. CASE m # n
    BY <1>3, <2>2 DEF There
  <2> QED
    BY <2>1, <2>2
<1> QED
  BY <1>5 DEF Lesser

LEMMA SameLesser ==
  ASSUME UNCHANGED box
  PROVE  Lesser
  BY DEF Lesser, There

LEMMA SharedSerial ==
  ASSUME OneCheckout, Inv, Serial, NEW p \in Procs,
         Remove(p) \/ RemoveFails(p) \/ Removed(p) \/ Fails(p)
  PROVE  Serial'
<1>1. Knows(p) /\ owned[p] \subseteq Names
  BY DEF Serial, Inv, Data
<1>2. CASE Remove(p)
  <2>1. PICK m \in owned[p] : /\ Put(m, NoBox) /\ owned' = [owned EXCEPT ![p] = @ \ {m}]
                              /\ strays' = [strays EXCEPT ![p] = @ \ {m}]
    BY <1>2 DEF Remove
  <2>2. pc[p] = "remove" /\ UNCHANGED <<holder, pc, set, port>> /\ m \in Names
    BY <1>1, <1>2 DEF Remove, At
  <2>3. box'[m] = NoBox /\ \A n \in Names : n # m => box'[n] = box[n]
    BY <2>1, <2>2 DEF Put, Inv, Data
  <2>4. Lesser /\ ~(There(m)')
    BY <2>3 DEF Lesser, There
  <2>5. owned'[p] = owned[p] \ {m} /\ strays'[p] = strays[p] \ {m} /\ strays[p] \subseteq Names
    BY <2>1 DEF Inv, Data, StraysTyped
  <2>6. \A n \in strays'[p] : There(n)'
    BY <1>1, <2>3, <2>5 DEF Knows, Launching, There
  <2>7. Knows(p)'
    BY <1>1, <2>2, <2>4, <2>5, <2>6, LesserKnows
  <2>8. Frame(p)
    BY <2>1, <2>2 DEF Frame, Inv, Data, StraysTyped
  <2>9. \A q \in Procs : Knows(q)'
    BY <2>2, <2>7, <2>8, Others DEF LockedSteps
  <2> QED
    BY <2>4, <2>9, LesserPair DEF Serial
<1>3. CASE RemoveFails(p)
  <2>1. pc[p] = "remove" /\ Ends(p)
    BY <1>3 DEF RemoveFails, At
  <2>2. Lesser
    BY <1>1, <1>3, ExitedLesser, SameLesser DEF RemoveFails, Inv
  <2> QED
    BY <2>1, <2>2, LesserPair, EndSerial DEF Serial, LockedSteps
<1>4. CASE Removed(p)
  <2>1. /\ pc[p] = "remove" /\ owned[p] = {}
        /\ UNCHANGED <<box, holder, set, port, owned, late, strays>>
        /\ To(p, IF Launching(p) THEN "run" ELSE "removed")
    BY <1>4 DEF Removed, At
  <2>2. pc'[p] = (IF Launching(p) THEN "run" ELSE "removed") /\ Frame(p)
    BY <2>1, MoveFrame DEF To, Inv, Control
  <2>3. Listed(p)' \subseteq strays'[p]
    BY <1>1, <2>1 DEF Knows, Launching, Listed, OfCheckout, There
  <2>4. \A n \in Names : Publishes(n, port[p])' => Publishes(n, port[p])
    BY <2>1 DEF Publishes, Running, ForwardName
  <2>5. ASSUME Launching(p), NEW n \in {UiName(set[p]), ForwardName(set[p])}, There(n)
        PROVE  n \in strays[p]
    <3>1. set[p] \in Sets
      BY <2>1, <2>5 DEF Inv, Control, JobOf, Launching
    <3>2. n \in Names /\ n[1] = set[p]
      BY <3>1, NameFacts
    <3>3. n \in Listed(p)
      BY <2>5, <3>2, Ours DEF Listed, Inv
    <3> QED
      BY <1>1, <2>1, <3>3 DEF Knows, Launching
  <2>6. \A n \in strays'[p] : There(n)' /\ box'[n].late
    BY <1>1, <2>1 DEF Knows, Launching, There
  <2>7. Launching(p) => \A n \in {UiName(set[p]), ForwardName(set[p])} : box'[n] # NoBox => n \in strays'[p]
    BY <2>1, <2>5 DEF There
  <2>8. Knows(p)'
    BY <1>1, <2>1, <2>2, <2>3, <2>4, <2>6, <2>7 DEF Knows, Launching, UiName, ForwardName, There, LockedSteps
  <2> QED
    BY <2>1, <2>2, <2>8, QuietSerial
<1>5. CASE Fails(p)
  BY <1>5, EndsQuietly DEF Fails
<1> QED
  BY <1>2, <1>3, <1>4, <1>5

(***************************************************************************)
(* The steps that put a container.                                         *)
(***************************************************************************)
LEMMA PutPair ==
  ASSUME Data, PairIsOfOneLaunch, NEW s \in Sets, NEW b \in Boxes,
         \/ /\ Put(UiName(s), b)
            /\ There(ForwardName(s)) =>
                  box[ForwardName(s)].port = b.port \/ b.late \/ box[ForwardName(s)].late
         \/ /\ Put(ForwardName(s), b)
            /\ There(UiName(s)) => box[UiName(s)].port = b.port \/ b.late \/ box[UiName(s)].late
  PROVE  PairIsOfOneLaunch'
<1> SUFFICES ASSUME NEW t \in Sets, There(UiName(t))', There(ForwardName(t))'
             PROVE  \/ box'[UiName(t)].port = box'[ForwardName(t)].port
                    \/ box'[UiName(t)].late \/ box'[ForwardName(t)].late
  BY DEF PairIsOfOneLaunch, UiName, ForwardName
<1>1. CASE t = s
  BY <1>1, NameFacts DEF Data, Put, There
<1>2. CASE t # s
  <2>1. box'[UiName(t)] = box[UiName(t)] /\ box'[ForwardName(t)] = box[ForwardName(t)]
    BY <1>2, NameFacts DEF Data, Put
  <2> QED
    BY <2>1 DEF PairIsOfOneLaunch, There
<1> QED
  BY <1>1, <1>2

LEMMA AtRun ==
  ASSUME Inv, NEW p \in Procs, pc[p] \in {"run", "unwind", "forward"}
  PROVE  /\ p \in Procs /\ set[p] \in Sets /\ port[p] \in Ports
         /\ UiName(set[p]) \in Names /\ ForwardName(set[p]) \in Names
         /\ pc[p] \in LockedSteps
  BY NameFacts, LaunchSteps DEF Inv, StartSteps, LockedSteps

\* A name that is put away from is as it was.
LEMMA PutElse ==
  ASSUME Data, NEW n \in Names, NEW m \in Names, n # m, NEW b, Put(n, b)
  PROVE  box'[m] = box[m] /\ box'[n] = b
  BY DEF Data, Put

\* What a `run` has put, whether it succeeds or not.
Puts(p, n) ==
    \/ UNCHANGED box
    \/ ~There(n) /\ \E state \in {"created", "running", "exited"} : Put(n, Box(p, state, port[p]))

LEMMA RunPuts ==
  ASSUME NEW p, NEW n
  PROVE  /\ ClientGoes(p, n) => Puts(p, n)
         /\ \A states \in SUBSET {"created", "running", "exited"} : Remains(p, n, states) => Puts(p, n)
  BY DEF ClientGoes, Remains, Puts

LEMMA UiPuts ==
  ASSUME Inv, Serial, NEW p \in Procs, pc[p] = "run", Puts(p, UiName(set[p]))
  PROVE  /\ PairIsOfOneLaunch'
         /\ \A n \in Names : n # UiName(set[p]) => box'[n] = box[n]
         /\ \A n \in strays[p] : box'[n] = box[n]
<1>1. /\ p \in Procs /\ set[p] \in Sets /\ port[p] \in Ports
      /\ UiName(set[p]) \in Names /\ ForwardName(set[p]) \in Names
  BY AtRun
<1>2. Knows(p) /\ PairIsOfOneLaunch /\ Data /\ strays[p] \subseteq Names
  BY <1>1 DEF Serial, Inv, StraysTyped
<1>3. There(ForwardName(set[p])) => box[ForwardName(set[p])].late
  BY <1>2 DEF Knows, Launching
<1>4. CASE UNCHANGED box
  BY <1>2, <1>4 DEF PairIsOfOneLaunch, There
<1>5. ASSUME NEW state \in {"created", "running", "exited"}, ~There(UiName(set[p])),
             Put(UiName(set[p]), Box(p, state, port[p]))
      PROVE  /\ PairIsOfOneLaunch'
             /\ \A n \in Names : n # UiName(set[p]) => box'[n] = box[n]
             /\ UiName(set[p]) \notin strays[p]
  <2>1. Box(p, state, port[p]) \in Boxes
    BY <1>1, MadeBox
  <2>2. PairIsOfOneLaunch'
    BY <1>1, <1>2, <1>3, <1>5, <2>1, PutPair
  <2>3. \A n \in Names : n # UiName(set[p]) => box'[n] = box[n]
    BY <1>1, <1>2, <1>5, PutElse
  <2>4. UiName(set[p]) \notin strays[p]
    BY <1>2, <1>5 DEF Knows, Launching
  <2> QED
    BY <2>2, <2>3, <2>4
<1> QED
  BY <1>2, <1>4, <1>5 DEF Puts

LEMMA RunUiSerial ==
  ASSUME OneCheckout, Inv, Serial, NEW p \in Procs,
         RunUi(p) \/ RunUiFails(p) \/ RunUiInterrupted(p)
  PROVE  Serial'
<1>1. pc[p] = "run" /\ UNCHANGED <<holder, set, port, owned, strays>>
  BY DEF RunUi, RunUiFails, RunUiInterrupted, At
<1>2. /\ p \in Procs /\ Knows(p) /\ pc[p] \in LockedSteps /\ port[p] \in Ports
      /\ set[p] \in Sets /\ UiName(set[p]) \in Names /\ ForwardName(set[p]) \in Names
  BY <1>1, AtRun DEF Serial
<1>3. Puts(p, UiName(set[p]))
  BY RunPuts DEF RunUi, RunUiFails, RunUiInterrupted, Puts
<1>4. /\ PairIsOfOneLaunch'
      /\ \A n \in Names : n # UiName(set[p]) => box'[n] = box[n]
      /\ \A n \in strays[p] : box'[n] = box[n]
  BY <1>1, <1>3, UiPuts
<1>5. \A n \in strays'[p] : There(n)' /\ box'[n].late
  BY <1>1, <1>2, <1>4 DEF Knows, Launching, There
<1>6. CASE RunUi(p)
  <2>1. pc'[p] = "forward" /\ Frame(p)
    BY <1>1, <1>2, <1>6, MoveFrame DEF RunUi, To, Inv, Control
  <2>2. box'[UiName(set[p])].port = port[p]
    BY <1>2, <1>6, MadeBox DEF RunUi, Put, Inv, Data
  <2>3. \A s \in Sets : ForwardName(s) \in Names /\ box'[ForwardName(s)] = box[ForwardName(s)]
    BY <1>2, <1>4, NameFacts
  <2>4. \A n \in Names : Publishes(n, port[p])' => Publishes(n, port[p])
    BY <1>1, <2>3 DEF Publishes, Running, ForwardName
  <2>5. \A n \in Names : Publishes(n, port[p])' => n = ForwardName(set[p]) \/ n \in strays'[p]
    BY <1>1, <1>2, <1>6, <2>4, LaunchSteps DEF RunUi, At, Inv, StartSteps, Knows
  <2>6. box'[ForwardName(set[p])] # NoBox => ForwardName(set[p]) \in strays'[p]
    BY <1>1, <1>2, <2>3 DEF Knows, Launching, There
  <2>7. Knows(p)'
    BY <1>1, <1>5, <2>1, <2>2, <2>5, <2>6 DEF Knows, Launching, UiName, ForwardName, There, LockedSteps
  <2> QED
    BY <1>2, <1>4, <2>1, <2>7, Others DEF Serial
<1>7. CASE RunUiFails(p) \/ RunUiInterrupted(p)
  <2>1. pc'[p] = "unwind" /\ Frame(p)
    BY <1>1, <1>2, <1>7, MoveFrame DEF RunUiFails, RunUiInterrupted, To, Inv, Control
  <2>2. Knows(p)'
    BY <1>5, <2>1 DEF Knows, Launching, LockedSteps
  <2> QED
    BY <1>2, <1>4, <2>1, <2>2, Others DEF Serial
<1> QED
  BY <1>6, <1>7

LEMMA UnwindSerial ==
  ASSUME OneCheckout, Inv, Serial, NEW p \in Procs, Unwind(p) \/ Killed(p)
  PROVE  Serial'
<1>1. Ends(p) /\ pc[p] \in {"run", "unwind"} /\ pc[p] \in LockedSteps
  BY DEF Unwind, Killed, At, LockedSteps
<1>2. p \in Procs /\ UiName(set[p]) \in Names
  BY <1>1, AtRun
<1>3. PairIsOfOneLaunch'
  <2>1. CASE Unwind(p)
    <3>1. Lesser
      BY <1>2, <2>1, ExitedLesser, SameLesser DEF Unwind, Stopped, Inv
    <3> QED
      BY <3>1, LesserPair DEF Serial
  <2>2. CASE Killed(p)
    <3>1. (pc[p] = "run" /\ Puts(p, UiName(set[p]))) \/ UNCHANGED box
      BY <2>2, RunPuts DEF Killed, At
    <3>2. CASE UNCHANGED box
      BY <3>2 DEF Serial, PairIsOfOneLaunch, There
    <3> QED
      BY <3>1, <3>2, UiPuts
  <2> QED
    BY <2>1, <2>2
<1> QED
  BY <1>1, <1>2, <1>3, EndSerial

LEMMA ForwardSerial ==
  ASSUME OneCheckout, Inv, Serial, NEW p \in Procs,
         RunForward(p) \/ RunForwardFails(p) \/ RunForwardInterrupted(p)
  PROVE  Serial'
<1>1. pc[p] = "forward" /\ pc[p] \in LockedSteps
  BY DEF RunForward, RunForwardFails, RunForwardInterrupted, At, LockedSteps
<1>2. /\ p \in Procs /\ set[p] \in Sets /\ port[p] \in Ports
      /\ UiName(set[p]) \in Names /\ ForwardName(set[p]) \in Names
  BY <1>1, AtRun
<1>3. There(UiName(set[p])) => box[UiName(set[p])].port = port[p] \/ box[UiName(set[p])].late
  BY <1>1, <1>2 DEF Serial, Knows, Launching
<1>4. Puts(p, ForwardName(set[p]))
  BY RunPuts DEF RunForward, RunForwardFails, RunForwardInterrupted, Puts
<1>5. PairIsOfOneLaunch'
  <2>1. CASE UNCHANGED box
    BY <2>1 DEF Serial, PairIsOfOneLaunch, There
  <2>2. ASSUME NEW state \in {"created", "running", "exited"},
               Put(ForwardName(set[p]), Box(p, state, port[p]))
        PROVE  PairIsOfOneLaunch'
    <3>1. Box(p, state, port[p]) \in Boxes /\ Box(p, state, port[p]).port = port[p]
      BY <1>2, MadeBox
    <3>2. ForwardName(set[p]) \in Names
      BY <1>2
    <3> QED
      BY <1>2, <1>3, <2>2, <3>1, PutPair DEF Inv, Serial
  <2> QED
    BY <1>4, <2>1, <2>2 DEF Puts
<1>6. CASE RunForward(p)
  <2>1. pc'[p] = "wait" /\ Frame(p) /\ strays'[p] = {}
    BY <1>2, <1>6, MoveFrame DEF RunForward, To, Inv, Control, StraysTyped
  <2>2. Knows(p)'
    BY <2>1 DEF Knows, Launching, LockedSteps
  <2> QED
    BY <1>1, <1>2, <1>5, <2>1, <2>2, Others DEF Serial
<1>7. CASE RunForwardFails(p) \/ RunForwardInterrupted(p)
  BY <1>1, <1>2, <1>5, <1>7, EndSerial DEF RunForwardFails, RunForwardInterrupted
<1> QED
  BY <1>6, <1>7

(***************************************************************************)
(* The rest of the world: a container's end, a provider without a client.  *)
(***************************************************************************)
LEMMA ExitsSerial ==
  ASSUME Inv, Serial, NEW n \in Names, Exits(n)
  PROVE  Serial'
<1>1. /\ Lesser /\ UNCHANGED <<holder, pc, set, port, owned, strays>>
      /\ \A m \in Names : There(m)' <=> There(m)
  BY ExitedLesser DEF Exits, Inv
<1>2. ASSUME NEW p \in Procs PROVE Knows(p)'
  <2>1. Knows(p) /\ strays[p] \subseteq Names
    BY DEF Serial, Inv, StraysTyped
  <2>2. \A m \in strays'[p] : There(m)'
    BY <1>1, <2>1 DEF Knows, Launching
  <2> QED
    BY <1>1, <2>1, <2>2, LesserKnows
<1> QED
  BY <1>1, <1>2, LesserPair DEF Serial

\* A provider that creates or starts under a name m, while p may hold the lock.
LEMMA StraySerial ==
  ASSUME OneCheckout, Inv, Serial, NEW m \in Names, NEW b \in Boxes, b.late, Put(m, b), Strays(m),
         UNCHANGED <<holder, pc, set, port, owned>>
  PROVE  Serial'
<1>1. /\ box'[m] = b /\ b # NoBox /\ box' = [box EXCEPT ![m] = b]
      /\ \A n \in Names : n # m => box'[n] = box[n]
  BY NoBoxIsNone DEF Put, Inv, Data
<1>2. PairIsOfOneLaunch'
  <2> SUFFICES ASSUME NEW s \in Sets, There(UiName(s))', There(ForwardName(s))'
               PROVE  \/ box'[UiName(s)].port = box'[ForwardName(s)].port
                      \/ box'[UiName(s)].late \/ box'[ForwardName(s)].late
    BY DEF PairIsOfOneLaunch, UiName, ForwardName
  <2>1. UiName(s) \in Names /\ ForwardName(s) \in Names
    BY NameFacts
  <2>2. CASE UiName(s) = m \/ ForwardName(s) = m
    BY <1>1, <2>2
  <2>3. CASE UiName(s) # m /\ ForwardName(s) # m
    BY <1>1, <2>1, <2>3 DEF Serial, PairIsOfOneLaunch, There
  <2> QED
    BY <2>2, <2>3
<1>3. ASSUME NEW p \in Procs PROVE Knows(p)'
  <2>1. Knows(p) /\ strays[p] \subseteq Names
    BY DEF Serial, Inv, StraysTyped
  <2>2. CASE pc[p] \notin LockedSteps
    <3>1. strays'[p] = {}
      BY <2>1, <2>2 DEF Strays, Inv, Control, Knows, Launching
    <3> QED
      BY <2>2, <3>1 DEF Knows, Launching, LockedSteps
  <2>3. CASE pc[p] \in LockedSteps
    <3>1. strays'[p] = strays[p] \cup {m}
      BY <2>3 DEF Strays, Inv, Control
    <3>2. \A n \in Names : n \notin strays'[p] => box'[n] = box[n]
      BY <1>1, <3>1
    <3>3. \A n \in strays'[p] : There(n)' /\ box'[n].late
      <4> SUFFICES ASSUME NEW n \in strays'[p] PROVE box'[n] # NoBox /\ box'[n].late
        BY DEF There
      <4>1. CASE n = m
        BY <1>1, <4>1
      <4>2. CASE n # m
        <5>1. n \in strays[p] /\ n \in Names
          BY <2>1, <3>1, <4>2
        <5> QED
          BY <1>1, <2>1, <4>2, <5>1 DEF Knows, Launching, There
      <4> QED
        BY <4>1, <4>2
    <3>4. \A n \in Names : n \in Listed(p)' => n \in Listed(p) \/ n \in strays'[p]
      BY <3>2 DEF Listed, OfCheckout, There
    <3>5. Listed(p)' \subseteq Names
      BY DEF Listed
    <3>6. \A n \in Names : Publishes(n, port[p])' => Publishes(n, port[p]) \/ n \in strays'[p]
      BY <3>2 DEF Publishes, Running, ForwardName
    <3>7. pc[p] \in {"run", "forward"} =>
            UiName(set[p]) \in Names /\ ForwardName(set[p]) \in Names
      BY NameFacts, Slots DEF Inv, Control, JobOf, StepsOf, Launching
    <3>8. \A n \in Names : There(n)' /\ (There(n) => n \in strays[p]) => n \in strays'[p]
      BY <3>1, <3>2 DEF There
    <3>9. pc[p] = "remove" => Listed(p)' \subseteq owned[p] \cup strays'[p]
      BY <2>1, <3>1, <3>4, <3>5 DEF Knows, Launching
    <3>10. pc[p] = "removed" => Listed(p)' \subseteq strays'[p]
      BY <2>1, <3>1, <3>4, <3>5 DEF Knows, Launching
    <3>11. Launching(p) /\ pc[p] \in {"foreign-ui", "foreign-forward", "list", "remove", "run", "forward"}
             => \A n \in Names : Publishes(n, port[p])' => n = ForwardName(set[p]) \/ n \in strays'[p]
      BY <2>1, <3>1, <3>6 DEF Knows, Launching
    <3>12. pc[p] \in {"run", "forward"} /\ There(ForwardName(set[p]))' => ForwardName(set[p]) \in strays'[p]
      BY <2>1, <3>7, <3>8 DEF Knows, Launching
    <3>13. pc[p] = "run" /\ There(UiName(set[p]))' => UiName(set[p]) \in strays'[p]
      BY <2>1, <3>7, <3>8 DEF Knows, Launching
    <3>14. pc[p] = "forward" /\ There(UiName(set[p]))' =>
             box'[UiName(set[p])].port = port[p] \/ box'[UiName(set[p])].late
      <4>1. CASE UiName(set[p]) = m
        BY <1>1, <4>1
      <4>2. CASE UiName(set[p]) # m
        BY <1>1, <2>1, <3>7, <4>2 DEF Knows, Launching, There
      <4> QED
        BY <4>1, <4>2
    <3>15. UNCHANGED <<UiName(set[p]), ForwardName(set[p]), pc, set, port, owned>>
      BY DEF UiName, ForwardName
    <3> QED
      BY <2>3, <3>3, <3>9, <3>10, <3>11, <3>12, <3>13, <3>14, <3>15 DEF Knows, Launching
  <2> QED
    BY <2>2, <2>3
<1> QED
  BY <1>2, <1>3 DEF Serial

LEMMA LateSerial ==
  ASSUME OneCheckout, Inv, Serial, NEW l \in late, LateCreates(l) \/ LateStarts(l) \/ LateFails(l)
  PROVE  Serial'
<1>1. l \in Calls /\ l.name \in Names
  BY DEF Inv, Data, Calls
<1>2. CASE LateCreates(l)
  <2>1. [owner |-> l.owner, state |-> "created", port |-> l.port, late |-> TRUE] \in Boxes
    BY <1>1 DEF Boxes, Calls
  <2> QED
    BY <1>1, <1>2, <2>1, StraySerial DEF LateCreates
<1>3. CASE LateStarts(l)
  <2>1. box[l.name] \in Boxes
    BY <1>1, <1>3 DEF LateStarts, Inv, Data, NoBox
  <2> QED
    BY <1>1, <1>3, <2>1, StartedBox, StraySerial DEF LateStarts, Started
<1>4. CASE LateFails(l)
  BY <1>4 DEF LateFails, Serial, Knows, Launching, PairIsOfOneLaunch, Publishes, Running, Listed, OfCheckout, There,
     UiName, ForwardName
<1> QED
  BY <1>2, <1>3, <1>4

LEMMA StepSerial ==
  ASSUME OneCheckout, Inv, Serial, [Next]_vars
  PROVE  Serial'
<1>1. CASE \E p \in Procs : Start(p)
  BY <1>1, QuietStart, RunUiSerial, UnwindSerial, ForwardSerial DEF Start
<1>2. CASE \E p \in Procs : Stop(p)
  BY <1>2, StopSerial
<1>3. CASE \E p \in Procs : Remove(p) \/ RemoveFails(p) \/ Removed(p) \/ Fails(p)
  BY <1>3, SharedSerial
<1>4. CASE \E n \in Names : Exits(n)
  BY <1>4, ExitsSerial
<1>5. CASE \E l \in late : LateCreates(l) \/ LateStarts(l) \/ LateFails(l)
  BY <1>5, LateSerial
<1>6. CASE UNCHANGED vars
  BY <1>6 DEF vars, Serial, Knows, Launching, PairIsOfOneLaunch, Publishes, Running, Listed, OfCheckout, There,
     UiName, ForwardName
<1> QED
  BY <1>1, <1>2, <1>3, <1>4, <1>5, <1>6 DEF Next

LEMMA SerialHolds == ASSUME OneCheckout PROVE Spec => [](Inv /\ Serial)
<1>1. Init => Inv /\ Serial
  BY InitControl, InitData, InitSerial DEF Inv, Init, StraysTyped
<1>2. Inv /\ Serial /\ [Next]_vars => (Inv /\ Serial)'
  BY StepInv, StepSerial
<1> QED
  BY <1>1, <1>2, PTL DEF Spec

\* Within one checkout, a forwarder never leads to the UI of another launch,
\* unless a provider whose client was gone has put one of the two
\* (uis.py:255-269).
THEOREM PairOfOneLaunch == OneCheckout => (Spec => []PairIsOfOneLaunch)
<1> SUFFICES ASSUME OneCheckout PROVE Spec => []PairIsOfOneLaunch
  OBVIOUS
<1>1. Inv /\ Serial => PairIsOfOneLaunch
  BY DEF Serial
<1> QED
  BY <1>1, SerialHolds, PTL

\* Within one checkout, the port that was judged under the lock is free when
\* the forwarder starts, but for a forwarder that such a provider has started
\* since the lock was taken (uis.py:243).
THEOREM PortHeld == OneCheckout => (Spec => []PortHeldThroughStart)
<1> SUFFICES ASSUME OneCheckout PROVE Spec => []PortHeldThroughStart
  OBVIOUS
<1>1. Inv /\ Serial => PortHeldThroughStart
  <2> SUFFICES ASSUME Inv, Serial, NEW p \in Procs, At(p, "forward"), NEW n \in Names, Publishes(n, port[p])
               PROVE  n \in strays[p]
    BY DEF PortHeldThroughStart
  <2>1. Knows(p) /\ There(n)
    BY Slots, NobodyRuns DEF Serial, Publishes, Running, There
  <2>2. Launching(p)
    BY LaunchSteps DEF Inv, At, StartSteps
  <2> QED
    BY <2>1, <2>2 DEF Knows, At
<1> QED
  BY <1>1, SerialHolds, PTL

\* Within one checkout, a launch finds its names free whatever the last one
\* left, a container that the provider of a killed or interrupted client had
\* created by then included; what such a provider creates after the launch has
\* listed the set is all that can take a name (uis.py:244-255).
THEOREM RetryFree == OneCheckout => (Spec => []RetryFindsNamesFree)
<1> SUFFICES ASSUME OneCheckout PROVE Spec => []RetryFindsNamesFree
  OBVIOUS
<1>1. Inv /\ Serial => RetryFindsNamesFree
  BY Slots DEF Serial, Knows, Launching, RetryFindsNamesFree, At
<1> QED
  BY <1>1, SerialHolds, PTL

\* Within one checkout, `ui stop` leaves no container of what it was asked
\* to stop, but for one that such a provider creates after the listing
\* (uis.py:65-69).
THEOREM StopComplete == OneCheckout => (Spec => []StopLeavesNothing)
<1> SUFFICES ASSUME OneCheckout PROVE Spec => []StopLeavesNothing
  OBVIOUS
<1>1. Inv /\ Serial => StopLeavesNothing
  BY Slots DEF Serial, Knows, Launching, StopLeavesNothing, At
<1> QED
  BY <1>1, SerialHolds, PTL

=============================================================================
