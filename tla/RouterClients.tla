--------------------------- MODULE RouterClients ----------------------------
(***************************************************************************)
(* The router with either of the two clients that judge it, the wait of    *)
(* `up` and a smoke run.  To one of them the other is a client like any    *)
(* session: its requests are Router's OtherRequest, which evict the preset *)
(* that the first one waits for or probes, at any moment.                  *)
(***************************************************************************)
EXTENDS Readiness, Smoke

clients == <<router, wait, smoke>>

\* The client that is not looked at is over.
WaitOver == /\ default = NoPreset /\ wpc = "done" /\ report = "healthy"
            /\ loadStarted = FALSE /\ polls = 1 /\ asked = 0 /\ refused = Accepted /\ posts = 0
SmokeOver == /\ preset \in Presets /\ efforts = 1 /\ options = {} /\ able = Abilities
             /\ at = Len(Checks) + 1 /\ step = "next" /\ rows = {"FAIL"} /\ upsets = {"request"}
             /\ completions = [c \in Completions |-> NoCompletion]

Init == RouterInit /\ ((WaitInit /\ SmokeOver) \/ (SmokeInit /\ WaitOver))

Next ==
    \/ Wait /\ UNCHANGED smoke
    \/ Probe /\ UNCHANGED wait
    \/ RouterNext /\ UNCHANGED <<wait, smoke>>

Spec == Init /\ [][Next]_clients

\* Every request has a timeout, and every poll a deadline.
LiveSpec ==
    /\ Spec
    /\ WF_clients(Wait /\ UNCHANGED smoke)
    /\ WF_clients(Probe /\ UNCHANGED wait)

-----------------------------------------------------------------------------
\* The type invariant.
TypeOK == WaitTypeOK /\ SmokeTypeOK

\* The wait ends by its deadline and the probes by their timeouts, whatever
\* the router and its other clients do.
BothEnd == <>(wpc = "done" /\ ~Running)

=============================================================================
