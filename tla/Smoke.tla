------------------------------- MODULE Smoke --------------------------------
(***************************************************************************)
(* probe.smoke: nine checks of one preset, each of which asks the router   *)
(* something, and whose failures end up in a table and never end the run.  *)
(* What the model can do is a set of abilities; a request may also fail on *)
(* its way, or because the preset was unloaded under it.                   *)
(***************************************************************************)
EXTENDS Router, Sequences

CONSTANT NoCompletion

ASSUME SmokeAssumption == NoCompletion \notin {"stop", "length"}

VARIABLES
    preset, efforts, \* what the run is asked to probe
    options,     \* whether it is `--basic`, and the template a patched one
    able,        \* what the model and its template can do
    at, step,    \* the check it is at, and whether a request is under way
    rows,        \* what the rows of the table say
    completions, \* per completion, the finish reason that was kept
    upsets       \* history: requests that failed, replies cut short before any text

smoke == <<preset, efforts, options, able, at, step, rows, completions, upsets>>

Checks == <<"listing", "completion", "tool_call", "mid_system", "terminates",
            "template", "effort", "tokenize", "metrics">>
CheckNames == {Checks[i] : i \in DOMAIN Checks}
Completions == {"completion", "mid_system"}

\* What each check is there to prove.
Proves(check) ==
    CASE check \in Completions -> "answers"
      [] check = "terminates"  -> "ends"
      [] OTHER                 -> check

Abilities == {Proves(check) : check \in CheckNames \ {"listing"}}

Wanted(check) ==
    /\ check \in {"tool_call", "terminates"} => "basic" \notin options
    /\ check = "template" => "patched" \in options

Current == Checks[at]

SmokeInit ==
    /\ preset \in Presets /\ efforts \in {1, 2} /\ options \in SUBSET {"basic", "patched"}
    /\ able \in {Abilities} \cup {Abilities \ {a} : a \in Abilities}
    /\ at = 1 /\ step = "next" /\ rows = {} /\ upsets = {}
    /\ completions = [c \in Completions |-> NoCompletion]

\* `run_check`: the row of the table, and on to the next check.
Row(passed) ==
    /\ rows' = rows \cup {IF passed THEN "pass" ELSE "FAIL"}
    /\ at' = at + 1 /\ step' = "next"

Probed == UNCHANGED <<preset, efforts, options, able>>
Running == at <= Len(Checks)

Skip ==
    /\ Running /\ step = "next" /\ ~Wanted(Current)
    /\ at' = at + 1
    /\ UNCHANGED <<router, step, rows, completions, upsets>> /\ Probed

\* A reply that ran into the token budget is one that does not terminate.
JudgeReplies ==
    /\ Running /\ step = "next" /\ Wanted(Current) /\ Current = "terminates"
    /\ Row(/\ \E c \in Completions : completions[c] # NoCompletion
           /\ \A c \in Completions : completions[c] \in {NoCompletion, "stop"})
    /\ UNCHANGED <<router, completions, upsets>> /\ Probed

NothingToCompare ==
    /\ Running /\ step = "next" /\ Current = "effort" /\ efforts < 2 /\ Row(TRUE)
    /\ UNCHANGED <<router, completions, upsets>> /\ Probed

\* A request that names the preset has the router load it.
Request ==
    /\ Running /\ step = "next" /\ Wanted(Current) /\ step' = "asking"
    /\ Current # "terminates" /\ ~(Current = "effort" /\ efforts < 2)
    /\ IF Current # "listing" /\ container = "running" /\ preset \in listed /\ status[preset] = "unloaded"
       THEN Loads(preset) ELSE UNCHANGED <<status, ended>>
    /\ UNCHANGED <<listed, accepted, container, exits, at, rows, completions, upsets>> /\ Probed

Listing ==
    /\ Running /\ step = "asking" /\ Current = "listing" /\ container = "running"
    /\ Row(preset \in listed)
    /\ UNCHANGED <<router, completions, upsets>> /\ Probed

\* The finish reason is kept before the text is looked at; a reasoning that
\* ran into the budget may leave none.
Completion ==
    /\ Running /\ step = "asking" /\ Current \in Completions /\ status[preset] = "loaded"
    /\ \E reason \in {"stop", "length"}, thought \in BOOLEAN :
        /\ reason = "length" => "ends" \notin able
        /\ thought => reason = "length"
        /\ completions' = [completions EXCEPT ![Current] = reason]
        /\ upsets' = upsets \cup (IF thought THEN {"cut"} ELSE {})
        /\ Row("answers" \in able /\ ~thought)
    /\ UNCHANGED router /\ Probed

\* The other replies: the pieces of a streamed call, a rendered prompt, two of
\* them, tokens, counters.
Reply ==
    /\ Running /\ step = "asking" /\ Current \notin Completions \cup {"listing"} /\ status[preset] = "loaded"
    /\ Row(Proves(Current) \in able)
    /\ UNCHANGED <<router, completions, upsets>> /\ Probed

\* Variant: an exception is taken for the end of the check.
BreaksUnnoticed ==
    /\ Running /\ step = "asking" /\ upsets' = upsets \cup {"request"} /\ Row(TRUE)
    /\ UNCHANGED <<router, completions>> /\ Probed

\* Every exception is a row.
Breaks ==
    /\ Running /\ step = "asking" /\ upsets' = upsets \cup {"request"} /\ Row(FALSE)
    /\ UNCHANGED <<router, completions>> /\ Probed

Probe ==
    Skip \/ JudgeReplies \/ NothingToCompare \/ Request \/ Listing \/ Completion \/ Reply \/ Breaks

\* The exit status of `smoke_report`.
Passed == ~Running /\ "FAIL" \notin rows

-----------------------------------------------------------------------------
\* The type invariant.
SmokeTypeOK ==
    /\ preset \in Presets /\ efforts \in {1, 2}
    /\ options \subseteq {"basic", "patched"} /\ able \subseteq Abilities
    /\ at \in 1 .. Len(Checks) + 1 /\ step \in {"next", "asking"}
    /\ completions \in [Completions -> {NoCompletion, "stop", "length"}]
    /\ rows \subseteq {"pass", "FAIL"} /\ upsets \subseteq {"request", "cut"}
    /\ step = "asking" => Running /\ Wanted(Current) /\ Current # "terminates"

\* What a run is for: a tiny model need not call tools nor end a reply, and
\* only a patched template need keep a later system message.
Purpose ==
    Abilities \ ((IF "basic" \in options THEN {"tool_call", "ends"} ELSE {})
                    \cup (IF "patched" \in options THEN {} ELSE {"template"}))

\* What a passed run proves: the preset is listed, no reply was cut short
\* unless the run is for a tiny model, and everything it is for works.
PassProves ==
    Passed =>
        /\ preset \in listed /\ upsets = {}
        /\ "basic" \notin options => \A c \in Completions : completions[c] = "stop"
        /\ Purpose \ {"ends"} \subseteq able \cup (IF efforts < 2 THEN {"effort"} ELSE {})

\* A run fails only over a request that failed, a preset that is not listed,
\* or something it is for: a tiny model that never ends a reply and calls no
\* tool passes a basic run.
FailIsForAReason ==
    ~Running /\ "FAIL" \in rows => upsets # {} \/ preset \notin listed \/ ~(Purpose \subseteq able)

\* The verdict of a smoke run is right both ways, whatever the router and its
\* other clients do between two of its requests: what passes works, and what
\* fails does not, or could not be asked.
VerdictIsRight == PassProves /\ FailIsForAReason

=============================================================================
