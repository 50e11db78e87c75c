------------------------------- MODULE Router -------------------------------
(***************************************************************************)
(* llama.cpp's router in the llama container, as its clients in            *)
(* src/tokencrate use it: it lists the presets of its file with a status,  *)
(* keeps one model server at a time (`--models-max 1`), starts one for a   *)
(* request that names an unloaded preset, and starts one some time after   *)
(* it has accepted POST /models/load.  Everything here is external.        *)
(***************************************************************************)
EXTENDS Integers

CONSTANTS
    Presets,
    MaxExits   \* bound: model servers and containers that exit

ASSUME RouterAssumption == MaxExits \in Nat

VARIABLES
    listed,    \* the presets of the file the container was started with
    status,    \* per preset, what GET /models says of it
    accepted,  \* the presets of load requests that are not acted on yet
    container, \* what the engine says of the container
    ended,     \* history: presets whose model server exited or was evicted
    exits

router == <<listed, status, accepted, container, ended, exits>>

Statuses == {"unloaded", "loading", "loaded", "sleeping"}

RouterInit ==
    /\ listed \in SUBSET Presets
    /\ status \in {[q \in Presets |-> "unloaded"]}
            \cup {[q \in Presets |-> IF q = p THEN s ELSE "unloaded"] :
                    p \in listed, s \in {"loading", "loaded"}}
    /\ accepted = {} /\ container = "running" /\ ended = {} /\ exits = 0

Occupied == {p \in Presets : status[p] # "unloaded"}

\* A model server starts for p, in the place of any other.
Loads(p) ==
    /\ status' = [q \in Presets |-> IF q = p THEN "loading" ELSE "unloaded"]
    /\ ended' = ended \cup (Occupied \ {p})

Spawn(p) ==
    /\ p \in accepted /\ accepted' = accepted \ {p}
    /\ IF status[p] = "unloaded" THEN Loads(p) ELSE UNCHANGED <<status, ended>>
    /\ UNCHANGED <<listed, container, exits>>

Becomes(p, from, to) ==
    /\ status[p] = from /\ status' = [status EXCEPT ![p] = to]
    /\ UNCHANGED <<listed, accepted, container, ended, exits>>

ModelExits(p) ==
    /\ status[p] # "unloaded" /\ status' = [status EXCEPT ![p] = "unloaded"]
    /\ ended' = ended \cup {p}
    /\ exits < MaxExits /\ exits' = exits + 1
    /\ UNCHANGED <<listed, accepted, container>>

ContainerExits ==
    /\ container = "running" /\ exits < MaxExits /\ exits' = exits + 1
    /\ container' \in {"exited", "removed"}
    /\ status' = [p \in Presets |-> "unloaded"]
    /\ accepted' = {} /\ ended' = ended \cup Occupied
    /\ UNCHANGED listed

\* Another client names a preset in a request.
OtherRequest(p) ==
    /\ container = "running" /\ p \in listed /\ status[p] = "unloaded" /\ Loads(p)
    /\ UNCHANGED <<listed, accepted, container, exits>>

RouterNext ==
    \/ \E p \in Presets :
        \/ Spawn(p) \/ Becomes(p, "loading", "loaded") \/ Becomes(p, "loaded", "sleeping")
        \/ Becomes(p, "sleeping", "loaded") \/ ModelExits(p) \/ OtherRequest(p)
    \/ ContainerExits

RouterTypeOK ==
    /\ listed \subseteq Presets /\ accepted \subseteq listed
    /\ status \in [Presets -> Statuses]
    /\ \A p, q \in Occupied : p = q
    /\ Occupied \subseteq listed
    /\ container \in {"running", "exited", "removed"}
    /\ ended \subseteq Presets /\ exits \in 0 .. MaxExits

=============================================================================
