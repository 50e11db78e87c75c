--------------------------------- MODULE Ui ---------------------------------
(***************************************************************************)
(* uis.start and uis.stop: the two containers of a browser UI set, which   *)
(* bear fixed names on the engine, and the commands that replace and       *)
(* remove them under the lock of their own checkout.                       *)
(*                                                                         *)
(* A name is the engine's: the checkouts of a host share the names and the *)
(* loopback ports, and each has a lock of its own.  The provider of a      *)
(* client that is interrupted or killed goes on without it: it creates the *)
(* container and starts it, in two calls, whenever it gets to them, or it  *)
(* fails.                                                                  *)
(***************************************************************************)
EXTENDS Naturals, FiniteSets

CONSTANTS
    Procs,           \* slots, each of which runs `ui <set>` or `ui stop [<set>]`,
                     \* over and over
    Checkouts,
    CheckoutOf,      \* per slot, where it runs
    Sets,            \* the UI sets
    Ports,
    Kills,           \* SIGKILL is among what may happen
    MaxLate,         \* bound: the providers that have outlived their client, and
                     \* the containers they have left
    All,             \* `ui stop` without a set
    None

ASSUME ConstantsAssumption ==
    /\ CheckoutOf \in [Procs -> Checkouts]
    /\ None \notin Procs \cup Checkouts \cup Sets \cup Ports
    /\ All \notin Sets \cup {None}
    /\ Kills \in BOOLEAN /\ MaxLate \in Nat

UiName(s) == <<s, "ui">>
ForwardName(s) == <<s, "forward">>
Names == {UiName(s) : s \in Sets} \cup {ForwardName(s) : s \in Sets}

NoBox == [owner |-> None, state |-> "none", port |-> None, late |-> FALSE]
Box(p, state, port) ==
    [owner |-> CheckoutOf[p], state |-> state, port |-> port, late |-> FALSE]

VARIABLES
    box,         \* per name, the container that bears it: the checkout it
                 \* is labelled with, the port it was started for, and
                 \* whether it was created or started by a provider whose
                 \* client was gone
    holder,      \* per checkout, who holds its lock
    pc,
    set, port,   \* per command, what it was asked for
    owned,       \* per command, the listed containers it has not removed yet
    late,        \* what the providers whose client is gone have yet to call
    strays       \* per command that holds a lock, the names under which such
                 \* a provider has created or started a container since, less
                 \* those the command has listed or removed since

vars == <<box, holder, pc, set, port, owned, late, strays>>

There(n) == box[n] # NoBox
Running(n) == box[n].state = "running"
OfCheckout(p, n) == There(n) /\ box[n].owner = CheckoutOf[p]

\* The forwarder is the one that publishes.
Publishes(n, q) == Running(n) /\ box[n].port = q /\ \E s \in Sets : n = ForwardName(s)
PortFree(q) == \A n \in Names : ~Publishes(n, q)

Init ==
    /\ box = [n \in Names |-> NoBox]
    /\ holder = [c \in Checkouts |-> None]
    /\ pc = [p \in Procs |-> "idle"]
    /\ set = [p \in Procs |-> None]
    /\ port = [p \in Procs |-> None]
    /\ owned = [p \in Procs |-> {}]
    /\ late = {}
    /\ strays = [p \in Procs |-> {}]

-----------------------------------------------------------------------------
At(p, step) == pc[p] = step
Launching(p) == port[p] # None
To(p, step) == pc' = [pc EXCEPT ![p] = step]
Put(n, container) == box' = [box EXCEPT ![n] = container]

Unlocked(p) ==
    holder' = IF holder[CheckoutOf[p]] = p
              THEN [holder EXCEPT ![CheckoutOf[p]] = None] ELSE holder

\* The process ends, and its lock with it.
Ends(p) ==
    /\ To(p, "idle")
    /\ Unlocked(p)
    /\ set' = [set EXCEPT ![p] = None]
    /\ port' = [port EXCEPT ![p] = None]
    /\ owned' = [owned EXCEPT ![p] = {}]
    /\ strays' = [strays EXCEPT ![p] = {}]

Acquire(p, step) ==
    /\ At(p, "lock") /\ holder[CheckoutOf[p]] = None
    /\ holder' = [holder EXCEPT ![CheckoutOf[p]] = p]
    /\ To(p, step)
    /\ UNCHANGED <<box, set, port, owned, late, strays>>

\* A published port is accepted from the set's own forwarder alone.
PortAccepted(p) ==
    \A n \in Names : Publishes(n, port[p]) => n = ForwardName(set[p]) /\ OfCheckout(p, n)

Launch(p, s, q) ==
    /\ At(p, "idle") /\ To(p, "port")
    /\ set' = [set EXCEPT ![p] = s]
    /\ port' = [port EXCEPT ![p] = q]
    /\ UNCHANGED <<box, holder, owned, late, strays>>

RequirePort(p) ==
    /\ At(p, "port")
    /\ IF PortAccepted(p)
       THEN To(p, "build") /\ UNCHANGED <<holder, set, port, owned, strays>>
       ELSE Ends(p)
    /\ UNCHANGED <<box, late>>

\* The plan, its pre-flight and the image.
Build(p) ==
    /\ At(p, "build") /\ To(p, "lock")
    /\ UNCHANGED <<box, holder, set, port, owned, late, strays>>

StartLock(p) == Launching(p) /\ Acquire(p, "again")

\* Variant: the port was judged before the build.
TrustEarlyLook(p) ==
    /\ At(p, "again") /\ To(p, "foreign-ui")
    /\ UNCHANGED <<box, holder, set, port, owned, late, strays>>

RequirePortAgain(p) ==
    /\ At(p, "again")
    /\ IF PortAccepted(p)
       THEN To(p, "foreign-ui") /\ UNCHANGED <<holder, set, port, owned, strays>>
       ELSE Ends(p)
    /\ UNCHANGED <<box, late>>

\* A name that another checkout's container bears is refused.
LookAt(p, here, n, next) ==
    /\ At(p, here)
    /\ IF There(n) /\ ~OfCheckout(p, n)
       THEN Ends(p)
       ELSE To(p, next) /\ UNCHANGED <<holder, set, port, owned, strays>>
    /\ UNCHANGED <<box, late>>

LookAtUi(p) == LookAt(p, "foreign-ui", UiName(set[p]), "foreign-forward")
LookAtForward(p) == LookAt(p, "foreign-forward", ForwardName(set[p]), "list")

\* Every container of the checkout's that has a UI label, in any state.
Listed(p) == {n \in Names : OfCheckout(p, n) /\ set[p] \in {n[1], All}}

Lists(p, names) ==
    /\ At(p, "list") /\ To(p, "remove")
    /\ owned' = [owned EXCEPT ![p] = names]
    /\ strays' = [strays EXCEPT ![p] = @ \ names]
    /\ UNCHANGED <<box, holder, set, port, late>>

\* Variants: containers that run, UI containers only, whatever the set.
ListRunning(p) == Lists(p, {n \in Listed(p) : Running(n)})
ListUisOnly(p) == Lists(p, Listed(p) \ {ForwardName(s) : s \in Sets})
ListEverySet(p) == Lists(p, {n \in Names : OfCheckout(p, n)})

StartLists(p) == Launching(p) /\ Lists(p, Listed(p))

\* `ui stop <set>` fails on a set without a container.
StopLists(p) ==
    /\ ~Launching(p)
    /\ \/ set[p] # All /\ Listed(p) = {} /\ At(p, "list") /\ Ends(p) /\ UNCHANGED <<box, late>>
       \/ (set[p] = All \/ Listed(p) # {}) /\ Lists(p, Listed(p))

\* `stop` and `rm`, by id: a provider that was to start it finds it gone.
Remove(p) ==
    /\ At(p, "remove")
    /\ \E n \in owned[p] :
        /\ Put(n, NoBox)
        /\ owned' = [owned EXCEPT ![p] = @ \ {n}]
        /\ strays' = [strays EXCEPT ![p] = @ \ {n}]
        /\ late' = {l \in late : l.name # n \/ l.step # "start"}
    /\ UNCHANGED <<holder, pc, set, port>>

\* The one that fails is stopped at most.
RemoveFails(p) ==
    /\ At(p, "remove")
    /\ \E n \in owned[p] : \/ UNCHANGED box
                           \/ Running(n) /\ Put(n, [box[n] EXCEPT !.state = "exited"])
    /\ Ends(p) /\ UNCHANGED late

Removed(p) ==
    /\ At(p, "remove") /\ owned[p] = {}
    /\ To(p, IF Launching(p) THEN "run" ELSE "removed")
    /\ UNCHANGED <<box, holder, set, port, owned, late, strays>>

-----------------------------------------------------------------------------
\* What a `run` that fails may have made, of a name that was free.
Remains(p, n, states) ==
    \/ UNCHANGED box
    \/ ~There(n) /\ \E state \in states : Put(n, Box(p, state, port[p]))

\* A name that can be started: the forwarder needs its port.
Startable(n, q) == (\E s \in Sets : n = ForwardName(s)) => PortFree(q)

Call(p, n, step) ==
    [name |-> n, owner |-> CheckoutOf[p], port |-> port[p], step |-> step]

MayOutlive == Cardinality(late) + Cardinality({n \in Names : box[n].late}) < MaxLate

\* A client that is gone leaves nothing, a container that runs, or a provider
\* that has yet to create its container or to start it.
ClientGoes(p, n) ==
    \/ UNCHANGED <<box, late>>
    \/ /\ ~There(n) /\ Startable(n, port[p])
       /\ Put(n, Box(p, "running", port[p])) /\ UNCHANGED late
    \/ /\ MayOutlive
       /\ late' = late \cup {Call(p, n, "create")} /\ UNCHANGED box
    \/ /\ MayOutlive
       /\ ~There(n) /\ Put(n, Box(p, "created", port[p]))
       /\ late' = late \cup {Call(p, n, "start")}

RunUi(p) ==
    /\ At(p, "run") /\ ~There(UiName(set[p]))
    /\ Put(UiName(set[p]), Box(p, "running", port[p]))
    /\ To(p, "forward")
    /\ UNCHANGED <<holder, set, port, owned, late, strays>>

\* The name is taken, the container was not created, or it did not start.
RunUiFails(p) ==
    /\ At(p, "run") /\ To(p, "unwind")
    /\ Remains(p, UiName(set[p]), {"created", "exited"})
    /\ UNCHANGED <<holder, set, port, owned, late, strays>>

RunUiInterrupted(p) ==
    /\ At(p, "run") /\ To(p, "unwind")
    /\ ClientGoes(p, UiName(set[p]))
    /\ UNCHANGED <<holder, set, port, owned, strays>>

Stopped(n) ==
    IF Running(n) THEN Put(n, [box[n] EXCEPT !.state = "exited"]) ELSE UNCHANGED box

\* stop_container: `stop` succeeds as soon as somebody bears the name, whoever
\* it is.  One that is created and has not been started stays as it is.
Unwind(p) ==
    /\ At(p, "unwind") /\ Ends(p)
    /\ There(UiName(set[p])) /\ Stopped(UiName(set[p]))
    /\ UNCHANGED late

\* Nobody bore the name for five seconds.
UnwindDeadline(p) ==
    /\ At(p, "unwind") /\ Ends(p)
    /\ ~There(UiName(set[p]))
    /\ UNCHANGED <<box, late>>

RunForward(p) ==
    /\ At(p, "forward") /\ ~There(ForwardName(set[p])) /\ PortFree(port[p])
    /\ Put(ForwardName(set[p]), Box(p, "running", port[p]))
    /\ To(p, "wait") /\ Unlocked(p)
    /\ strays' = [strays EXCEPT ![p] = {}]
    /\ UNCHANGED <<set, port, owned, late>>

\* No unwind here: the UI stays as it is.
RunForwardFails(p) ==
    /\ At(p, "forward")
    /\ Remains(p, ForwardName(set[p]), {"created"})
    /\ Ends(p) /\ UNCHANGED late

RunForwardInterrupted(p) ==
    /\ At(p, "forward")
    /\ ClientGoes(p, ForwardName(set[p]))
    /\ Ends(p)

\* A SIGKILL, where a client may run.
Killed(p) ==
    /\ Kills
    /\ \/ At(p, "run") /\ ClientGoes(p, UiName(set[p]))
       \/ At(p, "unwind") /\ UNCHANGED <<box, late>>
    /\ Ends(p)

-----------------------------------------------------------------------------
(***************************************************************************)
(* The providers that go on without their client.                          *)
(***************************************************************************)
Strays(n) ==
    strays' = [p \in Procs |-> IF holder[CheckoutOf[p]] = p THEN strays[p] \cup {n} ELSE strays[p]]

LateCreates(l) ==
    /\ l.step = "create" /\ ~There(l.name)
    /\ Put(l.name, [owner |-> l.owner, state |-> "created", port |-> l.port, late |-> TRUE])
    /\ late' = (late \ {l}) \cup {[l EXCEPT !.step = "start"]}
    /\ Strays(l.name)
    /\ UNCHANGED <<holder, pc, set, port, owned>>

LateStarts(l) ==
    /\ l.step = "start" /\ box[l.name].state = "created" /\ Startable(l.name, l.port)
    /\ Put(l.name, [box[l.name] EXCEPT !.state = "running", !.late = TRUE])
    /\ late' = late \ {l}
    /\ Strays(l.name)
    /\ UNCHANGED <<holder, pc, set, port, owned>>

LateFails(l) ==
    /\ late' = late \ {l}
    /\ UNCHANGED <<box, holder, pc, set, port, owned, strays>>

-----------------------------------------------------------------------------
\* The UI answered, a container stopped, or 90 seconds went by.
WaitEnds(p) ==
    /\ At(p, "wait") /\ Ends(p)
    /\ UNCHANGED <<box, late>>

-----------------------------------------------------------------------------
StopBegins(p, s) ==
    /\ At(p, "idle") /\ To(p, "lock")
    /\ set' = [set EXCEPT ![p] = s]
    /\ UNCHANGED <<box, holder, port, owned, late, strays>>

\* Variant: a stop that does not wait for the lock.
StopUnlocked(p) ==
    /\ ~Launching(p) /\ At(p, "lock") /\ To(p, "list")
    /\ UNCHANGED <<box, holder, set, port, owned, late, strays>>

StopLock(p) == ~Launching(p) /\ Acquire(p, "list")

StopEnds(p) ==
    /\ At(p, "removed") /\ Ends(p)
    /\ UNCHANGED <<box, late>>

\* An error, an interrupt or a kill where no client runs.
Fails(p) ==
    /\ pc[p] \notin {"idle", "run", "unwind", "forward"}
    /\ Ends(p) /\ UNCHANGED <<box, late>>

Start(p) ==
    \/ \E s \in Sets, q \in Ports : Launch(p, s, q)
    \/ RequirePort(p) \/ Build(p) \/ StartLock(p) \/ RequirePortAgain(p)
    \/ LookAtUi(p) \/ LookAtForward(p) \/ StartLists(p)
    \/ RunUi(p) \/ RunUiFails(p) \/ RunUiInterrupted(p) \/ Unwind(p) \/ UnwindDeadline(p)
    \/ RunForward(p) \/ RunForwardFails(p) \/ RunForwardInterrupted(p) \/ WaitEnds(p) \/ Killed(p)

Stop(p) ==
    \/ \E s \in Sets \cup {All} : StopBegins(p, s)
    \/ StopLock(p) \/ StopLists(p) \/ StopEnds(p)

\* A container's process ends.
Exits(n) ==
    /\ Running(n)
    /\ Put(n, [box[n] EXCEPT !.state = "exited"])
    /\ UNCHANGED <<holder, pc, set, port, owned, late, strays>>

Next ==
    \/ \E p \in Procs : Start(p) \/ Stop(p)
    \/ \E p \in Procs : Remove(p) \/ RemoveFails(p) \/ Removed(p) \/ Fails(p)
    \/ \E n \in Names : Exits(n)
    \/ \E l \in late : LateCreates(l) \/ LateStarts(l) \/ LateFails(l)

Spec == Init /\ [][Next]_vars

-----------------------------------------------------------------------------
StartSteps ==
    {"port", "build", "again", "foreign-ui", "foreign-forward", "run", "unwind",
     "forward", "wait"}
LockedSteps ==
    {"again", "foreign-ui", "foreign-forward", "list", "remove", "run", "unwind",
     "forward", "removed"}

Boxes == [owner : Checkouts, port : Ports, state : {"created", "running", "exited"},
          late : BOOLEAN]
Calls == [name : Names, owner : Checkouts, port : Ports, step : {"create", "start"}]

\* The type invariant, with who holds a lock: the replacement is covered,
\* the build and the wait are not.
TypeOK ==
    /\ box \in [Names -> {NoBox} \cup Boxes]
    /\ holder \in [Checkouts -> Procs \cup {None}]
    /\ pc \in [Procs -> {"idle", "lock", "list", "remove", "removed"} \cup StartSteps]
    /\ set \in [Procs -> Sets \cup {All, None}]
    /\ port \in [Procs -> Ports \cup {None}]
    /\ owned \in [Procs -> SUBSET Names]
    /\ late \subseteq Calls
    /\ strays \in [Procs -> SUBSET Names]
    /\ \A p \in Procs : holder[CheckoutOf[p]] = p <=> pc[p] \in LockedSteps

\* "Only the named UI is replaced": a container is removed by a command of
\* its own checkout that was asked for its set, and that holds the lock.
RemovedByItsOwn ==
    [][ \A n \in Names : There(n) /\ ~There(n)' =>
            \E p \in Procs : /\ holder[box[n].owner] = p /\ CheckoutOf[p] = box[n].owner
                             /\ set[p] \in {n[1], All} ]_vars

\* The port that was judged under the lock is free when the forwarder
\* starts, minutes of building and a removal after the first look, unless a
\* provider whose client was gone has started another forwarder meanwhile.
PortHeldThroughStart ==
    \A p \in Procs : At(p, "forward") =>
        \A n \in Names : Publishes(n, port[p]) => n \in strays[p]

\* The pair of a set is of one launch: a forwarder never leads to the UI of
\* another launch (of another port, project or grant), unless a provider
\* whose client was gone has put one of the two.
PairIsOfOneLaunch ==
    \A s \in Sets : There(UiName(s)) /\ There(ForwardName(s)) =>
        \/ box[UiName(s)].port = box[ForwardName(s)].port
        \/ box[UiName(s)].late \/ box[ForwardName(s)].late

\* "A failed target stays for logs/retry/stop": whatever a failed launch, an
\* interrupt or a crash left before the retry listed the set, it finds the
\* names free; what a provider creates after that listing is all that can
\* take one.
RetryFindsNamesFree ==
    \A p \in Procs : At(p, "run") =>
        \A n \in {UiName(set[p]), ForwardName(set[p])} : There(n) => n \in strays[p]

\* "`ui stop <set>` removes that UI and its forwarder", and all that may be
\* left is what a provider whose client was gone creates after the listing.
StopLeavesNothing ==
    \A p \in Procs : At(p, "removed") => Listed(p) \subseteq strays[p]

\* "The container is stopped on any unwind of the start": a UI that is started
\* after its client was interrupted runs only until its start has unwound.
\* A provider that needs more than the five seconds, or that has created the
\* container and not started it, breaks it (ui_unwind.cfg).
UnwoundUiIsStopped ==
    \A s \in Sets : Running(UiName(s)) /\ box[UiName(s)].late =>
        \E p \in Procs : At(p, "unwind") /\ set[p] = s

=============================================================================
