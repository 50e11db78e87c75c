----------------------------- MODULE Readiness ------------------------------
(***************************************************************************)
(* runtime.wait_until_ready: after `up` has started the container it polls *)
(* the engine and the router every two seconds, asks for the default       *)
(* preset once when nothing is loaded, and reports one of five outcomes.   *)
(* Between two of its looks the router, and its other clients, go on.      *)
(***************************************************************************)
EXTENDS Router

CONSTANTS
    NoPreset,    \* DEFAULT_PRESET is empty
    GracePolls,  \* LOAD_GRACE_POLLS
    Timeout      \* bound: how many polls the deadline leaves time for

ASSUME ReadinessAssumption ==
    NoPreset \notin Presets /\ GracePolls \in Nat /\ Timeout \in Nat

VARIABLES
    default,     \* settings.default_preset
    wpc,         \* the next step of the wait
    loadStarted, \* the listing has said `loading`
    polls, asked,\* the polls so far, and the one that asked for a load, or 0
    refused,     \* what the load request came back with
    posts,       \* history: load requests that were sent
    report       \* the outcome

wait == <<default, wpc, loadStarted, polls, asked, refused, posts, report>>
vars == <<router, wait>>

Accepted == "accepted"    \* http_post: the router accepted the request
Refused == "refused"      \* it did not, or could not be reached
NoAnswer == "no_answer"   \* it did, and its answer was too late

WaitInit ==
    /\ default \in Presets \cup {NoPreset}
    /\ wpc = "container" /\ loadStarted = FALSE
    /\ polls = 0 /\ asked = 0 /\ refused = Accepted
    /\ posts = 0 /\ report = "none"

Reports(outcome) == wpc' = "done" /\ report' = outcome
Continue == wpc' = "clock" /\ UNCHANGED report

\* Every poll looks at the container first.
LookAtContainer ==
    /\ wpc = "container"
    /\ IF container = "running" THEN wpc' = "list" /\ UNCHANGED report ELSE Reports("stopped")
    /\ UNCHANGED <<router, default, loadStarted, polls, asked, refused, posts>>

\* A deadline that has passed is noticed after the poll.
Clock ==
    /\ wpc = "clock"
    /\ IF polls > Timeout THEN Reports("timed_out") ELSE wpc' = "container" /\ UNCHANGED report
    /\ UNCHANGED <<router, default, loadStarted, polls, asked, refused, posts>>

\* Variant: a service that does not answer is asked again at once.
NoListingAgain ==
    /\ wpc = "list" /\ wpc' = "container"
    /\ UNCHANGED <<router, default, loadStarted, polls, asked, refused, posts, report>>

\* `model_states`: the listing, or none while the service does not answer.
NoListing ==
    /\ wpc = "list" /\ Continue /\ polls' = polls + 1
    /\ UNCHANGED <<router, default, loadStarted, asked, refused, posts>>

Says(s) == default \in listed /\ status[default] = s

\* Variant: the last poll of the grace is not waited for.
ShortGrace == polls' - asked < GracePolls

\* The router spawns the model server after it has answered the request.
InGrace == polls' - asked <= GracePolls

\* Nothing was seen to load, and no request was refused.
MayYetLoad == Says("unloaded") /\ ~loadStarted /\ refused = Accepted

\* The load request is for a slot that is free, and made once.
Asks == MayYetLoad /\ asked = 0 /\ Occupied = {} /\ wpc' = "ask"

JudgeListing ==
    \/ default = NoPreset /\ Reports("healthy") /\ UNCHANGED loadStarted
    \/ Says("loaded") /\ Reports("ready") /\ UNCHANGED loadStarted
    \/ Says("sleeping") /\ Reports("ready") /\ UNCHANGED loadStarted
    \/ Says("loading") /\ loadStarted' = TRUE /\ Continue
    \/ Asks /\ UNCHANGED <<loadStarted, report>>
    \/ MayYetLoad /\ asked = 0 /\ Occupied # {} /\ Reports("occupied") /\ UNCHANGED loadStarted
    \/ MayYetLoad /\ asked > 0 /\ InGrace /\ Continue /\ UNCHANGED loadStarted
    \/ /\ default # NoPreset
       /\ \/ default \notin listed
          \/ Says("unloaded") /\ (MayYetLoad => asked > 0 /\ ~InGrace)
       /\ Reports("not_loaded") /\ UNCHANGED loadStarted

List ==
    /\ wpc = "list" /\ container = "running" /\ polls' = polls + 1
    /\ JudgeListing
    /\ UNCHANGED <<router, default, asked, refused, posts>>

\* `http_post`: what the answer says is not always what the router did.
Ask ==
    /\ wpc = "ask" /\ Continue
    /\ asked' = polls /\ posts' = posts + 1
    /\ \/ /\ container = "running" /\ accepted' = accepted \cup {default}
          /\ refused' \in {Accepted, NoAnswer}
       \/ refused' = Refused /\ UNCHANGED accepted
    /\ UNCHANGED <<listed, status, container, ended, exits, default, loadStarted, polls>>

Wait == LookAtContainer \/ Clock \/ NoListing \/ List \/ Ask

-----------------------------------------------------------------------------
Outcomes == {"none", "stopped", "timed_out", "healthy", "ready", "occupied", "not_loaded"}

\* The type invariant.
WaitTypeOK ==
    /\ RouterTypeOK
    /\ default \in Presets \cup {NoPreset}
    /\ wpc \in {"container", "list", "ask", "clock", "done"}
    /\ loadStarted \in BOOLEAN
    /\ polls \in 0 .. Timeout + 1 /\ asked \in 0 .. polls
    /\ wpc \in {"container", "list"} => polls <= Timeout
    /\ wpc = "ask" => asked = 0 /\ polls > 0 /\ default \in listed
    /\ refused \in {Accepted, Refused, NoAnswer}
    /\ posts \in Nat /\ report \in Outcomes
    /\ wpc = "done" <=> report # "none"

\* "`up` asks the router to load the preset once", however often the listing
\* goes back and forth while it polls.
AsksOnce == posts <= 1 /\ (asked > 0 => posts = 1)

\* Accepted loads may begin late: "preset is unloaded instead of loaded" is
\* said only of a preset the router does not offer, of a load that was refused
\* or whose answer was lost, of a model server that ended, or of a load that
\* had not begun GracePolls polls after it was accepted.
FailsForAReason ==
    [][ report' = "not_loaded" /\ report # "not_loaded" =>
            \/ default \notin listed
            \/ refused # Accepted
            \/ default \in ended
            \/ default \in accepted /\ polls' - asked > GracePolls ]_vars

=============================================================================
