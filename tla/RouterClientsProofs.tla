------------------------ MODULE RouterClientsProofs -------------------------
(***************************************************************************)
(* Proofs about RouterClients, for any number of presets and of exits, and *)
(* any grace and deadline.                                                 *)
(***************************************************************************)
EXTENDS RouterClients, TLAPS

LEMMA LoadsTypes ==
  ASSUME RouterTypeOK, NEW p \in listed, Loads(p)
  PROVE  /\ status' \in [Presets -> Statuses] /\ ended' \subseteq Presets
         /\ \A q \in Presets : status'[q] # "unloaded" => q = p
         /\ \A q \in Occupied : q \in ended' \/ q = p
         /\ ended \subseteq ended' /\ status'[p] = "loading"
BY DEF RouterTypeOK, Loads, Statuses, Occupied

\* What any step of the router does: it keeps its types, forgets no end, takes
\* no preset from its slot without an end, and drops no accepted load but with
\* the container.
Keeps ==
    /\ ended \subseteq ended' /\ Occupied \subseteq Occupied' \cup ended'
    /\ container' # "running" \/ container' = container
    /\ container' = "running" => accepted \subseteq accepted' \cup Occupied'
    /\ listed' = listed

LEMMA LoadsOccupied ==
  ASSUME RouterTypeOK, NEW p \in listed, Loads(p)
  PROVE  /\ \A q \in Presets : status'[q] # "unloaded" <=> q = p
         /\ Occupied' = {p} /\ Occupied \subseteq Occupied' \cup ended'
<1>1. p \in Presets
  BY DEF RouterTypeOK
<1>2. \A q \in Presets : status'[q] # "unloaded" <=> q = p
  BY <1>1, LoadsTypes
<1> QED
  BY <1>1, <1>2, LoadsTypes DEF Occupied

LEMMA RouterStep ==
  ASSUME RouterTypeOK, RouterNext
  PROVE  RouterTypeOK' /\ Keeps
<1>1. ASSUME NEW p \in Presets, Spawn(p) PROVE RouterTypeOK' /\ Keeps
  <2>1. p \in listed
    BY <1>1 DEF Spawn, RouterTypeOK
  <2>2. CASE status[p] = "unloaded"
    BY <1>1, <2>1, <2>2, LoadsTypes, LoadsOccupied DEF Spawn, RouterTypeOK, Keeps
  <2>3. CASE status[p] # "unloaded"
    BY <1>1, <2>1, <2>3 DEF Spawn, RouterTypeOK, Keeps, Occupied
  <2> QED
    BY <2>2, <2>3
<1>2. ASSUME NEW p \in Presets, NEW from \in Statuses \ {"unloaded"},
             NEW to \in Statuses \ {"unloaded"}, Becomes(p, from, to)
      PROVE  RouterTypeOK' /\ Keeps
  <2>1. Occupied' = Occupied
    BY <1>2 DEF Becomes, RouterTypeOK, Occupied
  <2> QED
    BY <1>2, <2>1 DEF Becomes, RouterTypeOK, Keeps
<1>3. ASSUME NEW p \in Presets, ModelExits(p) PROVE RouterTypeOK' /\ Keeps
  <2>1. Occupied' = Occupied \ {p}
    BY <1>3 DEF ModelExits, RouterTypeOK, Occupied
  <2>2. exits' \in 0 .. MaxExits
    BY <1>3, RouterAssumption DEF ModelExits, RouterTypeOK
  <2> QED
    BY <1>3, <2>1, <2>2 DEF ModelExits, RouterTypeOK, Keeps, Statuses
<1>4. ASSUME NEW p \in Presets, OtherRequest(p) PROVE RouterTypeOK' /\ Keeps
  BY <1>4, LoadsTypes, LoadsOccupied DEF OtherRequest, RouterTypeOK, Keeps
<1>5. CASE ContainerExits
  <2>1. Occupied' = {}
    BY <1>5 DEF ContainerExits, Occupied
  <2>2. exits' \in 0 .. MaxExits
    BY <1>5, RouterAssumption DEF ContainerExits, RouterTypeOK
  <2>3. Occupied \subseteq Presets
    BY DEF Occupied
  <2> QED
    BY <1>5, <2>1, <2>2, <2>3 DEF ContainerExits, RouterTypeOK, Keeps, Statuses
<1> QED
  BY <1>1, <1>2, <1>3, <1>4, <1>5 DEF RouterNext, Statuses

LEMMA RouterInitType == RouterInit => RouterTypeOK
<1> SUFFICES ASSUME RouterInit PROVE RouterTypeOK
  OBVIOUS
<1>1. CASE status = [q \in Presets |-> "unloaded"]
  BY <1>1, RouterAssumption DEF RouterInit, RouterTypeOK, Statuses, Occupied
<1>2. ASSUME NEW p \in listed, NEW s \in {"loading", "loaded"},
             status = [q \in Presets |-> IF q = p THEN s ELSE "unloaded"]
      PROVE  RouterTypeOK
  BY <1>2, RouterAssumption DEF RouterInit, RouterTypeOK, Statuses, Occupied
<1> QED
  BY <1>1, <1>2 DEF RouterInit

-----------------------------------------------------------------------------
\* What the wait knows: a load that was seen to begin, or was accepted, is
\* under way, in the queue, or has ended.
LoadAccounted ==
    /\ posts = IF asked > 0 THEN 1 ELSE 0
    /\ loadStarted => default \in Occupied \cup ended
    /\ asked > 0 /\ refused = Accepted /\ container = "running"
            => default \in accepted \cup Occupied \cup ended

WaitInv == WaitTypeOK /\ LoadAccounted

\* What is so while the wait takes a step of its own.
RouterRests ==
    /\ listed' = listed /\ accepted' = accepted /\ container' = container
    /\ ended' = ended /\ Occupied' = Occupied /\ RouterTypeOK'

LEMMA Rests == ASSUME RouterTypeOK, UNCHANGED router PROVE RouterRests
BY DEF router, RouterRests, RouterTypeOK, Occupied

LEMMA AccountedStep ==
  ASSUME LoadAccounted, RouterRests, UNCHANGED <<default, asked, refused, posts>>,
         loadStarted' => loadStarted \/ default \in Occupied
  PROVE  LoadAccounted'
BY DEF LoadAccounted, RouterRests

LEMMA WaitStep ==
  ASSUME WaitInv, Wait
  PROVE  WaitInv'
<1>0. RouterTypeOK /\ LoadAccounted /\ WaitTypeOK /\ Timeout \in Nat
  BY ReadinessAssumption DEF WaitInv, WaitTypeOK
<1>1. CASE LookAtContainer
  <2>1. RouterRests /\ LoadAccounted'
    BY <1>0, <1>1, Rests, AccountedStep DEF LookAtContainer
  <2> QED
    BY <1>0, <1>1, <2>1 DEF LookAtContainer, WaitTypeOK, WaitInv, Reports, Outcomes, RouterRests
<1>2. CASE Clock
  <2>1. RouterRests /\ LoadAccounted'
    BY <1>0, <1>2, Rests, AccountedStep DEF Clock
  <2>2. polls \in Nat /\ report = "none"
    <3>1. polls \in Nat
      BY <1>0 DEF WaitTypeOK
    <3>2. wpc # "done" /\ (wpc = "done" <=> report # "none")
      BY <1>0, <1>2 DEF Clock, WaitTypeOK
    <3> QED
      BY <3>1, <3>2
  <2>3. wpc' \in {"container", "done"} /\ (wpc' = "container" => polls <= Timeout)
        /\ report' \in Outcomes /\ (wpc' = "done" <=> report' # "none")
    <3>1. CASE polls > Timeout
      BY <1>2, <3>1 DEF Clock, Reports, Outcomes
    <3>2. CASE ~(polls > Timeout)
      BY <1>0, <1>2, <2>2, <3>2 DEF Clock, Outcomes
    <3> QED
      BY <3>1, <3>2
  <2> QED
    BY <1>0, <1>2, <2>1, <2>3 DEF Clock, WaitTypeOK, WaitInv, RouterRests
<1>3. CASE NoListing
  <2>1. RouterRests /\ LoadAccounted'
    BY <1>0, <1>3, Rests, AccountedStep DEF NoListing
  <2> QED
    BY <1>0, <1>3, <2>1 DEF NoListing, WaitTypeOK, WaitInv, Continue, Outcomes, RouterRests
<1>4. CASE List
  <2>1. loadStarted' \in BOOLEAN /\ (loadStarted' => loadStarted \/ default \in Occupied)
    <3>1. loadStarted' = loadStarted \/ (loadStarted' = TRUE /\ Says("loading"))
      BY <1>4 DEF List, JudgeListing, Asks
    <3>2. Says("loading") => default \in Occupied
      BY <1>0 DEF Says, Occupied, RouterTypeOK
    <3>3. loadStarted \in BOOLEAN
      BY <1>0 DEF WaitTypeOK
    <3>4. CASE loadStarted' = loadStarted
      BY <3>3, <3>4
    <3>5. CASE loadStarted' = TRUE /\ Says("loading")
      BY <3>2, <3>5
    <3> QED
      BY <3>1, <3>4, <3>5
  <2>2. RouterRests /\ LoadAccounted'
    BY <1>0, <1>4, <2>1, Rests, AccountedStep DEF List
  <2>3. polls' \in 0 .. Timeout + 1 /\ asked' \in 0 .. polls' /\ polls' > 0
    BY <1>0, <1>4 DEF List, WaitTypeOK
  <2>4. /\ wpc' \in {"ask", "clock", "done"} /\ report' \in Outcomes
        /\ wpc' = "ask" => asked = 0 /\ default \in listed
        /\ wpc' = "done" <=> report' # "none"
    <3>1. report = "none"
      BY <1>0, <1>4 DEF List, WaitTypeOK
    <3> QED
      BY <1>4, <3>1 DEF List, JudgeListing, Asks, MayYetLoad, Says, Reports, Continue, Outcomes
  <2>5. WaitTypeOK'
    BY <1>0, <1>4, <2>1, <2>2, <2>3, <2>4 DEF List, WaitTypeOK, RouterRests
  <2> QED
    BY <2>2, <2>5 DEF WaitInv
<1>5. CASE Ask
  <2>1. RouterTypeOK' /\ Occupied' = Occupied
    BY <1>0, <1>5 DEF Ask, RouterTypeOK, WaitTypeOK, Occupied
  <2>2. LoadAccounted'
    <3>1. asked = 0 /\ posts' = 1 /\ asked' > 0 /\ (loadStarted' => default \in Occupied \cup ended)
      BY <1>0, <1>5 DEF Ask, LoadAccounted, WaitTypeOK
    <3>2. CASE accepted' = accepted \cup {default}
      BY <1>5, <2>1, <3>1, <3>2 DEF Ask, LoadAccounted
    <3>3. CASE refused' = Refused
      BY <1>5, <2>1, <3>1, <3>3 DEF Ask, LoadAccounted, Accepted, Refused
    <3> QED
      BY <1>5, <3>2, <3>3 DEF Ask
  <2>3. polls \in Nat /\ posts' \in Nat
    BY <1>0, <1>5 DEF Ask, WaitTypeOK
  <2>4. WaitTypeOK'
    BY <1>0, <1>5, <2>1, <2>3 DEF Ask, WaitTypeOK, Continue
  <2> QED
    BY <2>2, <2>4 DEF WaitInv
<1> QED
  BY <1>1, <1>2, <1>3, <1>4, <1>5 DEF Wait

\* A step of the router, of whoever takes it, keeps what the wait knows.
LEMMA WaitKept ==
  ASSUME WaitInv, RouterTypeOK', Keeps, UNCHANGED wait
  PROVE  WaitInv'
<1>1. LoadAccounted'
  BY DEF WaitInv, LoadAccounted, Keeps, wait, WaitTypeOK, RouterTypeOK
<1>2. WaitTypeOK'
  BY DEF WaitInv, WaitTypeOK, Keeps, wait
<1> QED
  BY <1>1, <1>2 DEF WaitInv

-----------------------------------------------------------------------------
\* A probe moves the router as a client does, or not at all.
LEMMA ProbeRouter ==
  ASSUME RouterTypeOK, Probe
  PROVE  RouterTypeOK' /\ Keeps
<1>1. ASSUME UNCHANGED router PROVE RouterTypeOK' /\ Keeps
  BY <1>1, Rests DEF RouterRests, Keeps, router
<1>2. ASSUME Loads(preset), preset \in listed, UNCHANGED <<listed, accepted, container, exits>>
      PROVE  RouterTypeOK' /\ Keeps
  BY <1>2, LoadsTypes, LoadsOccupied DEF RouterTypeOK, Keeps
<1> QED
  BY <1>1, <1>2
  DEF Probe, Skip, JudgeReplies, NothingToCompare, Request, Listing, Completion, Reply, Breaks, router

-----------------------------------------------------------------------------
LEMMA InitInv == Init => WaitInv
<1> SUFFICES ASSUME Init PROVE WaitInv
  OBVIOUS
<1>1. RouterTypeOK
  BY RouterInitType DEF Init
<1>2. Timeout \in Nat /\ NoPreset \notin Presets
  BY ReadinessAssumption
<1>3. /\ ~loadStarted /\ loadStarted \in BOOLEAN
      /\ default \in Presets \cup {NoPreset} /\ asked = 0 /\ posts = 0 /\ refused = Accepted
      /\ ((polls = 0 /\ wpc = "container" /\ report = "none") \/ (polls = 1 /\ wpc = "done" /\ report = "healthy"))
  <2>1. WaitInit \/ WaitOver
    BY DEF Init
  <2>2. loadStarted = FALSE
    BY <2>1 DEF WaitInit, WaitOver
  <2>3. /\ default \in Presets \cup {NoPreset} /\ asked = 0 /\ posts = 0 /\ refused = Accepted
        /\ ((polls = 0 /\ wpc = "container" /\ report = "none") \/ (polls = 1 /\ wpc = "done" /\ report = "healthy"))
    BY <2>1 DEF WaitInit, WaitOver
  <2> QED
    BY <2>2, <2>3
<1>4. LoadAccounted
  BY <1>3 DEF LoadAccounted
<1>5. polls \in 0 .. Timeout + 1 /\ asked \in 0 .. polls /\ (wpc \in {"container", "list"} => polls <= Timeout)
  BY <1>2, <1>3
<1>6. WaitTypeOK
  BY <1>1, <1>3, <1>5 DEF WaitTypeOK, Outcomes
<1> QED
  BY <1>4, <1>6 DEF WaitInv

LEMMA NextInv == WaitInv /\ [Next]_clients => WaitInv'
<1> SUFFICES ASSUME WaitInv, [Next]_clients PROVE WaitInv'
  OBVIOUS
<1>0. RouterTypeOK
  BY DEF WaitInv, WaitTypeOK
<1>1. CASE Wait
  BY <1>1, WaitStep
<1>2. CASE Probe /\ UNCHANGED wait
  BY <1>0, <1>2, ProbeRouter, WaitKept
<1>3. CASE RouterNext /\ UNCHANGED wait
  BY <1>0, <1>3, RouterStep, WaitKept
<1>4. CASE UNCHANGED clients
  <2>1. RouterTypeOK' /\ Keeps /\ UNCHANGED wait
    BY <1>0, <1>4, Rests DEF clients, RouterRests, Keeps, router
  <2> QED
    BY <2>1, WaitKept
<1> QED
  BY <1>1, <1>2, <1>3, <1>4 DEF Next

\* What became of the load the wait asked for is never lost sight of, whatever
\* the router and its other clients do.
THEOREM WaitIsAccounted == Spec => []WaitInv
BY InitInv, NextInv, PTL DEF Spec

\* The load of the default preset is asked for at most once.
THEOREM AsksAtMostOnce == Spec => []AsksOnce
<1>1. WaitInv => AsksOnce
  BY DEF WaitInv, WaitTypeOK, LoadAccounted, AsksOnce
<1> QED
  BY <1>1, WaitIsAccounted, PTL

\* What the listing that ends the wait with "not_loaded" found.
Reason ==
    \/ default \notin listed
    \/ refused # Accepted
    \/ default \in ended
    \/ default \in accepted /\ polls' - asked > GracePolls

LEMMA Beyond ==
  ASSUME NEW a \in Nat, NEW b \in Nat, NEW c \in Nat, ~(a - b <= c)
  PROVE  a - b > c
OBVIOUS

LEMMA ListedReason ==
  ASSUME WaitInv, List, report' = "not_loaded", report # "not_loaded"
  PROVE  Reason
<1>2. \/ default \in listed /\ Says("unloaded") /\ (MayYetLoad => asked > 0 /\ ~InGrace)
      \/ default \notin listed
  BY DEF List, JudgeListing, Reports, Continue, Asks, Says, WaitInv, WaitTypeOK
<1>3. CASE default \in listed /\ Says("unloaded") /\ ~MayYetLoad
  <2>1. loadStarted \/ refused # Accepted
    BY <1>3 DEF MayYetLoad
  <2>2. default \notin Occupied
    BY <1>3 DEF Says, Occupied
  <2> QED
    BY <2>1, <2>2 DEF WaitInv, LoadAccounted, Reason
<1>4. CASE default \in listed /\ Says("unloaded") /\ asked > 0 /\ ~InGrace
  <2>1. default \notin Occupied
    BY <1>4 DEF Says, Occupied
  <2>2. refused # Accepted \/ default \in accepted \cup ended
    BY <1>4, <2>1 DEF WaitInv, LoadAccounted, List
  <2>3. polls' \in Nat /\ asked \in Nat
    BY DEF List, WaitInv, WaitTypeOK
  <2>4. polls' - asked > GracePolls
    <3>1. ~(polls' - asked <= GracePolls)
      BY <1>4 DEF InGrace
    <3>2. GracePolls \in Nat
      BY ReadinessAssumption
    <3> QED
      BY <2>3, <3>1, <3>2, Beyond
  <2> QED
    BY <2>2, <2>4 DEF Reason
<1> QED
  BY <1>2, <1>3, <1>4 DEF Reason

\* An accepted load is given its grace, whatever the listing goes through.
THEOREM NotLoadedForAReason == Spec => FailsForAReason
<1>1. ASSUME Next, report' = "not_loaded", report # "not_loaded" PROVE List
  BY <1>1 DEF Next, Wait, LookAtContainer, Clock, NoListing, Ask, Reports, Continue, wait
<1>2. WaitInv /\ [Next]_clients => [report' = "not_loaded" /\ report # "not_loaded" => Reason]_vars
  <2> SUFFICES ASSUME WaitInv, Next \/ UNCHANGED clients, report' = "not_loaded", report # "not_loaded"
               PROVE  Reason
    OBVIOUS
  <2>1. Next
    BY DEF clients, wait
  <2> QED
    BY <2>1, <1>1, ListedReason
<1> QED
  BY <1>2, WaitIsAccounted, PTL DEF Spec, FailsForAReason, Reason

-----------------------------------------------------------------------------
\* The probes, by the check the run is at.
LEMMA ChecksAre ==
  /\ Len(Checks) = 9 /\ DOMAIN Checks = 1 .. 9
  /\ Checks[1] = "listing" /\ Checks[2] = "completion" /\ Checks[3] = "tool_call"
  /\ Checks[4] = "mid_system" /\ Checks[5] = "terminates" /\ Checks[6] = "template"
  /\ Checks[7] = "effort" /\ Checks[8] = "tokenize" /\ Checks[9] = "metrics"
BY DEF Checks

LEMMA WhereItIs ==
  ASSUME SmokeTypeOK
  PROVE  /\ at \in 1 .. 10 /\ (Running <=> at # 10)
         /\ at = 1 => Current = "listing"
         /\ at = 2 => Current = "completion"
         /\ at = 3 => Current = "tool_call"
         /\ at = 4 => Current = "mid_system"
         /\ at = 5 => Current = "terminates"
         /\ at = 6 => Current = "template"
         /\ at = 7 => Current = "effort"
         /\ at = 8 => Current = "tokenize"
         /\ at = 9 => Current = "metrics"
<1>1. at \in 1 .. 10
  BY ChecksAre DEF SmokeTypeOK
<1>2. Running <=> at # 10
  BY <1>1, ChecksAre DEF Running
<1> QED
  BY <1>1, <1>2, ChecksAre DEF Current

LEMMA NamesAre ==
  CheckNames = {"listing", "completion", "tool_call", "mid_system", "terminates", "template",
                "effort", "tokenize", "metrics"}
<1>2. ASSUME NEW i \in 1 .. 9
      PROVE  i = 1 \/ i = 2 \/ i = 3 \/ i = 4 \/ i = 5 \/ i = 6 \/ i = 7 \/ i = 8 \/ i = 9
  OBVIOUS
<1>3. CheckNames = {Checks[i] : i \in {1, 2, 3, 4, 5, 6, 7, 8, 9}}
  BY ChecksAre, <1>2 DEF CheckNames
<1>4. CheckNames = {Checks[1], Checks[2], Checks[3], Checks[4], Checks[5], Checks[6], Checks[7],
                    Checks[8], Checks[9]}
  BY <1>3
<1> QED
  BY <1>4, ChecksAre

LEMMA ProvesAre ==
  /\ Proves("completion") = "answers" /\ Proves("mid_system") = "answers"
  /\ Proves("terminates") = "ends" /\ Proves("tool_call") = "tool_call"
  /\ Proves("template") = "template" /\ Proves("effort") = "effort"
  /\ Proves("tokenize") = "tokenize" /\ Proves("metrics") = "metrics"
BY DEF Proves, Completions

LEMMA AbilitiesAre ==
  Abilities = {"answers", "tool_call", "ends", "template", "effort", "tokenize", "metrics"}
BY NamesAre, ProvesAre DEF Abilities

LEMMA PurposeIs ==
  /\ {"answers", "effort", "tokenize", "metrics"} \subseteq Purpose
  /\ "basic" \notin options => {"tool_call", "ends"} \subseteq Purpose
  /\ "basic" \in options => "tool_call" \notin Purpose /\ "ends" \notin Purpose
  /\ "patched" \in options <=> "template" \in Purpose
  /\ Purpose \subseteq Abilities
BY AbilitiesAre DEF Purpose

\* Which finish reasons are kept, and what a table without a FAIL has shown.
Kept ==
    /\ \A c \in Completions : completions[c] = "length" => "ends" \notin able
    /\ at > 2 => upsets # {} \/ completions["completion"] # NoCompletion
    /\ at > 4 => upsets # {} \/ completions["mid_system"] # NoCompletion
    /\ upsets # {} => "FAIL" \in rows

Shown ==
    "FAIL" \notin rows =>
        /\ at > 1 => preset \in listed
        /\ at > 2 => "answers" \in able
        /\ at > 3 /\ "basic" \notin options => "tool_call" \in able
        /\ at > 5 /\ "basic" \notin options => \A c \in Completions : completions[c] = "stop"
        /\ at > 6 /\ "patched" \in options => "template" \in able
        /\ at > 7 /\ efforts = 2 => "effort" \in able
        /\ at > 8 => "tokenize" \in able
        /\ at > 9 => "metrics" \in able

Explained == "FAIL" \in rows => upsets # {} \/ preset \notin listed \/ ~(Purpose \subseteq able)

SmokeInv == SmokeTypeOK /\ Kept /\ Shown /\ Explained

\* A check is over, with or without a row.
Over(row) ==
    /\ at' = at + 1 /\ step' = "next" /\ rows' = rows \cup row
    /\ listed' = listed /\ Probed

LEMMA OverType ==
  ASSUME SmokeTypeOK, Running, NEW row \in SUBSET {"pass", "FAIL"}, Over(row),
         completions' \in [Completions -> {NoCompletion, "stop", "length"}],
         upsets' \subseteq {"request", "cut"}
  PROVE  SmokeTypeOK'
<1>1. at + 1 \in 1 .. Len(Checks) + 1
  BY ChecksAre, WhereItIs
<1> QED
  BY <1>1 DEF SmokeTypeOK, Over, Probed

LEMMA OverKept ==
  ASSUME SmokeTypeOK, Kept, Running, NEW row \in SUBSET {"pass", "FAIL"}, Over(row),
         UNCHANGED completions, at \notin {2, 4} \/ upsets' # {},
         upsets \subseteq upsets', upsets' # upsets => "FAIL" \in row
  PROVE  Kept'
<1>1. at \in 1 .. 9 /\ at' = at + 1 /\ able' = able /\ rows' = rows \cup row
  BY WhereItIs DEF Over, Probed
<1>2. at' > 2 => upsets' # {} \/ completions'["completion"] # NoCompletion
  BY <1>1 DEF Kept
<1>3. at' > 4 => upsets' # {} \/ completions'["mid_system"] # NoCompletion
  BY <1>1 DEF Kept
<1>4. upsets' # {} => "FAIL" \in rows'
  BY <1>1 DEF Kept
<1>5. \A c \in Completions : completions'[c] = "length" => "ends" \notin able'
  BY <1>1 DEF Kept
<1> QED
  BY <1>2, <1>3, <1>4, <1>5 DEF Kept, Completions

\* What a row that is not FAIL must show.
Earned ==
    /\ at = 1 => preset \in listed
    /\ at = 2 => "answers" \in able
    /\ at = 3 /\ "basic" \notin options => "tool_call" \in able
    /\ at = 5 /\ "basic" \notin options => \A c \in Completions : completions[c] = "stop"
    /\ at = 6 /\ "patched" \in options => "template" \in able
    /\ at = 7 /\ efforts = 2 => "effort" \in able
    /\ at = 8 => "tokenize" \in able
    /\ at = 9 => "metrics" \in able

LEMMA OverShown ==
  ASSUME SmokeTypeOK, Shown, Running, NEW row \in SUBSET {"pass", "FAIL"}, Over(row),
         completions' = completions \/ at \in {2, 4}, "FAIL" \notin row => Earned
  PROVE  Shown'
<1>1. /\ at \in 1 .. 9 /\ at' = at + 1 /\ rows' = rows \cup row
      /\ able' = able /\ options' = options /\ efforts' = efforts /\ preset' = preset /\ listed' = listed
  BY WhereItIs DEF Over, Probed
<1>2. at' > 5 /\ "basic" \notin options /\ "FAIL" \notin rows'
        => \A c \in Completions : completions'[c] = "stop"
  BY <1>1 DEF Shown, Earned
<1> QED
  BY <1>1, <1>2 DEF Shown, Earned, Completions

LEMMA OverExplained ==
  ASSUME Explained, NEW row \in SUBSET {"pass", "FAIL"}, Over(row), upsets \subseteq upsets',
         "FAIL" \in row => upsets' # {} \/ preset \notin listed \/ ~(Purpose \subseteq able)
  PROVE  Explained'
<1>1. Purpose' = Purpose
  BY DEF Purpose, Over, Probed
<1> QED
  BY <1>1 DEF Explained, Over, Probed

LEMMA ProbeStep ==
  ASSUME SmokeInv, Probe
  PROVE  SmokeInv'
<1> DEFINE verdict(passed) == {IF passed THEN "pass" ELSE "FAIL"}
<1>0. SmokeTypeOK /\ Kept /\ Shown /\ Explained
  BY DEF SmokeInv
<1>1. CASE Skip
  <2>1. Over({}) /\ UNCHANGED <<completions, upsets>> /\ Running
    BY <1>0, <1>1 DEF Skip, Over, router, SmokeTypeOK
  <2>2. Earned /\ at \notin {2, 4}
    BY <1>0, <1>1, WhereItIs DEF Skip, Earned, Wanted
  <2> QED
    BY <1>0, <2>1, <2>2, OverType, OverKept, OverShown, OverExplained DEF SmokeInv, SmokeTypeOK
<1>2. CASE JudgeReplies
  <2> DEFINE passed == /\ \E c \in Completions : completions[c] # NoCompletion
                       /\ \A c \in Completions : completions[c] \in {NoCompletion, "stop"}
  <2>1. Over(verdict(passed)) /\ UNCHANGED <<completions, upsets>> /\ Running
    BY <1>2 DEF JudgeReplies, Over, Row, router
  <2>2. at = 5 /\ "basic" \notin options
    BY <1>0, <1>2, WhereItIs DEF JudgeReplies, Wanted
  <2>3. \/ completions["completion"] # NoCompletion /\ completions["mid_system"] # NoCompletion
        \/ upsets # {}
    BY <1>0, <2>2 DEF Kept
  <2>4. /\ "completion" \in Completions /\ "mid_system" \in Completions
        /\ \A c \in Completions : completions[c] \in {NoCompletion, "stop", "length"}
        /\ \A c \in Completions : c = "completion" \/ c = "mid_system"
    BY <1>0 DEF Completions, SmokeTypeOK
  <2>5. upsets # {} => "FAIL" \in rows /\ rows \subseteq rows'
    BY <1>0, <2>1 DEF Kept, Over
  <2>6. upsets = {} /\ passed => Earned
    BY <2>2, <2>3, <2>4 DEF Earned
  <2>7. ~passed => upsets # {} \/ ~(Purpose \subseteq able)
    BY <1>0, <2>2, <2>3, <2>4, PurposeIs DEF Kept
  <2>8. SmokeTypeOK' /\ Kept' /\ Explained'
    BY <1>0, <2>1, <2>2, <2>7, OverType, OverKept, OverExplained DEF SmokeTypeOK
  <2>9. Shown'
    BY <1>0, <2>1, <2>2, <2>5, <2>6, OverShown DEF Shown
  <2> QED
    BY <2>8, <2>9 DEF SmokeInv
<1>3. CASE NothingToCompare
  <2>1. Over({"pass"}) /\ UNCHANGED <<completions, upsets>> /\ Running
    BY <1>3 DEF NothingToCompare, Over, Row, router
  <2>2. at = 7 /\ efforts # 2
    BY <1>0, <1>3, WhereItIs DEF NothingToCompare
  <2>3. Earned /\ at \notin {2, 4}
    BY <2>2 DEF Earned
  <2> QED
    BY <1>0, <2>1, <2>3, OverType, OverKept, OverShown, OverExplained DEF SmokeInv, SmokeTypeOK
<1>4. CASE Request
  <2>1. UNCHANGED <<preset, efforts, options, able, at, rows, completions, upsets, listed>>
        /\ step' = "asking" /\ Running /\ Wanted(Current) /\ Current # "terminates"
    BY <1>4 DEF Request, Probed
  <2>2. Running' /\ Wanted(Current)' /\ Current' = Current /\ Purpose' = Purpose
    BY <2>1 DEF Running, Wanted, Current, Purpose
  <2> QED
    BY <1>0, <2>1, <2>2 DEF SmokeInv, SmokeTypeOK, Kept, Shown, Explained
<1>5. CASE Listing
  <2>1. Over(verdict(preset \in listed)) /\ UNCHANGED <<completions, upsets>> /\ Running
    BY <1>5 DEF Listing, Over, Row, router
  <2>2. at = 1
    BY <1>0, <1>5, WhereItIs DEF Listing
  <2>3. preset \in listed => Earned
    BY <2>2 DEF Earned
  <2> QED
    BY <1>0, <2>1, <2>2, <2>3, OverType, OverKept, OverShown, OverExplained DEF SmokeInv, SmokeTypeOK
<1>6. CASE Completion
  <2>1. PICK reason \in {"stop", "length"}, thought \in BOOLEAN :
           /\ reason = "length" => "ends" \notin able
           /\ thought => reason = "length"
           /\ completions' = [completions EXCEPT ![Current] = reason]
           /\ upsets' = upsets \cup (IF thought THEN {"cut"} ELSE {})
           /\ Row("answers" \in able /\ ~thought)
    BY <1>6 DEF Completion
  <2> DEFINE passed == "answers" \in able /\ ~thought
  <2>2. Over(verdict(passed)) /\ Running
    BY <1>6, <2>1 DEF Completion, Over, Row, router
  <2>3. Current \in Completions /\ at \in {2, 4} /\ (at = 2 <=> Current = "completion")
        /\ (at = 4 <=> Current = "mid_system")
    BY <1>0, <1>6, WhereItIs DEF Completion, Completions
  <2>4. /\ completions' \in [Completions -> {NoCompletion, "stop", "length"}]
        /\ upsets' \subseteq {"request", "cut"} /\ upsets \subseteq upsets'
        /\ upsets' # upsets => thought
    BY <1>0, <2>1, <2>3 DEF SmokeTypeOK
  <2>5. SmokeTypeOK'
    BY <1>0, <2>2, <2>4, OverType
  <2>6. Earned \/ ~passed
    BY <2>3 DEF Earned
  <2>7. Shown'
    BY <1>0, <2>2, <2>3, <2>6, OverShown
  <2>8. "answers" \in Purpose
    BY PurposeIs
  <2>9. Explained'
    BY <1>0, <2>1, <2>2, <2>4, <2>8, OverExplained
  <2>10. Kept'
    <3>1. able' = able /\ at' = at + 1 /\ rows' = rows \cup verdict(passed)
      BY <2>2 DEF Over, Probed
    <3>2. \A c \in Completions : completions'[c] = "length" => "ends" \notin able'
      BY <1>0, <2>1, <2>3, <3>1 DEF Kept, SmokeTypeOK
    <3>3. completions'[Current] # NoCompletion /\ \A c \in Completions \ {Current} : completions'[c] = completions[c]
      <4>1. completions' = [completions EXCEPT ![Current] = reason] /\ DOMAIN completions = Completions
        BY <1>0, <2>1 DEF SmokeTypeOK
      <4>2. reason # NoCompletion
        BY SmokeAssumption
      <4> QED
        BY <2>3, <4>1, <4>2
    <3>4. upsets' # {} \/ (upsets' = upsets /\ upsets = {})
      BY <2>4
    <3>5. at' > 2 => upsets' # {} \/ completions'["completion"] # NoCompletion
      <4>1. CASE at = 2
        BY <2>3, <3>3, <4>1
      <4>2. CASE at = 4
        <5>1. completions'["completion"] = completions["completion"]
          BY <2>3, <3>3, <4>2 DEF Completions
        <5> QED
          BY <1>0, <3>4, <4>2, <5>1 DEF Kept
      <4> QED
        BY <2>3, <4>1, <4>2
    <3>7. at' > 4 => upsets' # {} \/ completions'["mid_system"] # NoCompletion
      <4>1. CASE at = 2
        BY <3>1, <4>1
      <4>2. CASE at = 4
        BY <2>3, <3>3, <4>2
      <4> QED
        BY <2>3, <4>1, <4>2
    <3>6. upsets' # {} => "FAIL" \in rows'
      BY <1>0, <2>4, <3>1 DEF Kept
    <3> QED
      BY <3>2, <3>5, <3>6, <3>7 DEF Kept
  <2> QED
    BY <2>5, <2>7, <2>9, <2>10 DEF SmokeInv
<1>7. CASE Reply
  <2>1. Over(verdict(Proves(Current) \in able)) /\ UNCHANGED <<completions, upsets>> /\ Running
    BY <1>7 DEF Reply, Over, Row, router
  <2>2. at \in {3, 6, 7, 8, 9} /\ Wanted(Current)
    BY <1>0, <1>7, WhereItIs DEF Reply, Completions, SmokeTypeOK
  <2>3. Proves(Current) \in able => Earned
    BY <1>0, <2>2, WhereItIs, ProvesAre DEF Earned
  <2>4. Proves(Current) \in Purpose
    BY <1>0, <2>2, WhereItIs, ProvesAre, PurposeIs DEF Wanted
  <2>5. SmokeTypeOK' /\ Kept' /\ Shown'
    BY <1>0, <2>1, <2>2, <2>3, OverType, OverKept, OverShown DEF SmokeTypeOK
  <2>6. Explained'
    BY <1>0, <2>1, <2>4, OverExplained
  <2> QED
    BY <2>5, <2>6 DEF SmokeInv
<1>8. CASE Breaks
  <2>1. Over({"FAIL"}) /\ UNCHANGED completions /\ Running
        /\ upsets' = upsets \cup {"request"}
    BY <1>8 DEF Breaks, Over, Row, router
  <2> QED
    BY <1>0, <2>1, OverType, OverKept, OverShown, OverExplained DEF SmokeInv, SmokeTypeOK
<1> QED
  BY <1>1, <1>2, <1>3, <1>4, <1>5, <1>6, <1>7, <1>8 DEF Probe

\* Only the listed presets of the router are a run's business, and they stay.
LEMMA SmokeKept ==
  ASSUME SmokeInv, UNCHANGED smoke, listed' = listed
  PROVE  SmokeInv'
<1>1. Purpose' = Purpose /\ Running' = Running /\ Current' = Current /\ Wanted(Current)' = Wanted(Current)
  BY DEF Purpose, Running, Current, Wanted, smoke
<1> QED
  BY <1>1 DEF SmokeInv, SmokeTypeOK, Kept, Shown, Explained, smoke

LEMMA SmokeInitInv == Init => SmokeInv
<1> SUFFICES ASSUME Init PROVE SmokeInv
  OBVIOUS
<1>1. \A c \in Completions : completions[c] = NoCompletion
  BY DEF Init, SmokeInit, SmokeOver
<1>2. Abilities \subseteq Abilities /\ ("FAIL" \notin {}) /\ NoCompletion # "length"
  BY SmokeAssumption
<1>3. CASE SmokeInit
  <2>1. SmokeTypeOK
    BY <1>3, ChecksAre DEF SmokeInit, SmokeTypeOK, Running
  <2> QED
    BY <1>1, <1>2, <1>3, <2>1 DEF SmokeInit, SmokeInv, Kept, Shown, Explained
<1>4. CASE SmokeOver
  <2>1. SmokeTypeOK
    BY <1>4, ChecksAre DEF SmokeOver, SmokeTypeOK, Running
  <2> QED
    BY <1>1, <1>2, <1>4, <2>1 DEF SmokeOver, SmokeInv, Kept, Shown, Explained
<1> QED
  BY <1>3, <1>4 DEF Init

\* At every check the rows written so far say what was shown, and what was
\* not, of the preset.
THEOREM SmokeIsExplained == Spec => []SmokeInv
<1>1. WaitInv /\ SmokeInv /\ [Next]_clients => SmokeInv'
  <2> SUFFICES ASSUME WaitInv, SmokeInv, Next \/ UNCHANGED clients PROVE SmokeInv'
    OBVIOUS
  <2>0. RouterTypeOK
    BY DEF WaitInv, WaitTypeOK
  <2>1. CASE Probe /\ UNCHANGED wait
    BY <2>1, ProbeStep
  <2>2. CASE (Wait \/ RouterNext) /\ UNCHANGED smoke
    <3>1. Wait => listed' = listed
      BY DEF Wait, LookAtContainer, Clock, NoListing, List, Ask, router
    <3>2. RouterNext => listed' = listed
      BY <2>0, RouterStep DEF Keeps
    <3> QED
      BY <2>2, <3>1, <3>2, SmokeKept
  <2>3. CASE UNCHANGED clients
    BY <2>3, SmokeKept DEF clients, router
  <2> QED
    BY <2>1, <2>2, <2>3 DEF Next
<1> QED
  BY <1>1, SmokeInitInv, WaitIsAccounted, PTL DEF Spec

\* Both clients keep their types, with the router.
THEOREM TypeCorrect == Spec => []TypeOK
<1>1. WaitInv /\ SmokeInv => TypeOK
  BY DEF WaitInv, SmokeInv, TypeOK
<1> QED
  BY <1>1, WaitIsAccounted, SmokeIsExplained, PTL

\* A smoke run that passes has shown all it is for.
THEOREM PassIsEarned == Spec => []PassProves
<1>1. SmokeInv => PassProves
  <2> SUFFICES ASSUME SmokeInv, Passed PROVE PassProves
    BY DEF PassProves
  <2>1. at = 10 /\ "FAIL" \notin rows
    BY WhereItIs DEF Passed, SmokeInv
  <2>2. upsets = {} /\ efforts \in {1, 2}
    BY <2>1 DEF SmokeInv, Kept, SmokeTypeOK
  <2>3. /\ preset \in listed /\ "answers" \in able /\ "tokenize" \in able /\ "metrics" \in able
        /\ "basic" \notin options => "tool_call" \in able /\ \A c \in Completions : completions[c] = "stop"
        /\ "patched" \in options => "template" \in able
        /\ efforts = 2 => "effort" \in able
    BY <2>1, <2>2 DEF SmokeInv, Shown
  <2>4. Purpose \ {"ends"} \subseteq able \cup (IF efforts < 2 THEN {"effort"} ELSE {})
    BY <2>2, <2>3, AbilitiesAre DEF Purpose
  <2> QED
    BY <2>2, <2>3, <2>4 DEF PassProves
<1> QED
  BY <1>1, SmokeIsExplained, PTL

\* A smoke run that fails says so of the router or of what the preset is for.
THEOREM FailureIsExplained == Spec => []FailIsForAReason
<1>1. SmokeInv => FailIsForAReason
  BY DEF SmokeInv, Explained, FailIsForAReason
<1> QED
  BY <1>1, SmokeIsExplained, PTL

\* The verdict of a smoke run is right both ways.
THEOREM VerdictRight == Spec => []VerdictIsRight
  BY PassIsEarned, FailureIsExplained, PTL DEF VerdictIsRight

-----------------------------------------------------------------------------

-----------------------------------------------------------------------------
(***************************************************************************)
(* What the end of both clients rests on, up to the fairness of their      *)
(* steps: how much each has still to do, at most, when it is somewhere.    *)
(***************************************************************************)
WaitLeft ==
    CASE wpc = "done"      -> 0
      [] wpc = "container" -> 4 * (Timeout + 1 - polls) + 2
      [] wpc = "list"      -> 4 * (Timeout + 1 - polls) + 1
      [] wpc = "ask"       -> 4 * (Timeout + 1 - polls) + 4
      [] wpc = "clock"     -> 4 * (Timeout + 1 - polls) + 3

ProbesLeft == 2 * (Len(Checks) + 1 - at) - (IF step = "asking" THEN 1 ELSE 0)

LEMMA WaitLeftType ==
  ASSUME WaitTypeOK
  PROVE  WaitLeft \in 0 .. 4 * Timeout + 8
<1>1. Timeout \in Nat /\ polls \in 0 .. Timeout + 1 /\ wpc \in {"container", "list", "ask", "clock", "done"}
  BY ReadinessAssumption DEF WaitTypeOK
<1>2. 4 * (Timeout + 1 - polls) \in 0 .. 4 * Timeout + 4
  BY <1>1
<1> QED
  BY <1>1, <1>2 DEF WaitLeft

LEMMA WaitAdvances ==
  ASSUME WaitTypeOK, Wait, WaitTypeOK'
  PROVE  WaitLeft' < WaitLeft
<1>1. Timeout \in Nat /\ polls \in 0 .. Timeout + 1 /\ polls' \in 0 .. Timeout + 1
  BY ReadinessAssumption DEF WaitTypeOK
<1>2. CASE wpc' = "done"
  <2>1. wpc \in {"container", "list", "clock"}
    BY <1>2 DEF Wait, LookAtContainer, Clock, NoListing, List, Ask, Continue
  <2> QED
    BY <1>1, <1>2, <2>1 DEF WaitLeft
<1>3. CASE LookAtContainer /\ wpc' = "list" /\ polls' = polls
  BY <1>1, <1>3 DEF LookAtContainer, WaitLeft
<1>4. CASE Clock /\ wpc' = "container" /\ polls' = polls
  BY <1>1, <1>4 DEF Clock, WaitLeft
<1>5. CASE (NoListing \/ List) /\ wpc' \in {"clock", "ask"} /\ polls' = polls + 1
  <2>1. wpc = "list"
    BY <1>5 DEF NoListing, List
  <2> QED
    BY <1>1, <1>5, <2>1 DEF WaitLeft
<1>6. CASE Ask /\ wpc' = "clock" /\ polls' = polls
  BY <1>1, <1>6 DEF Ask, WaitLeft
<1> QED
  BY <1>2, <1>3, <1>4, <1>5, <1>6
  DEF Wait, LookAtContainer, Clock, NoListing, List, Ask, JudgeListing, Asks, Reports, Continue

LEMMA ProbesLeftType ==
  ASSUME SmokeTypeOK
  PROVE  ProbesLeft \in 0 .. 18 /\ (ProbesLeft = 0 <=> ~Running)
<1>1. at \in 1 .. 10 /\ (Running <=> at # 10) /\ Len(Checks) = 9
  BY WhereItIs, ChecksAre
<1>2. step = "asking" => at # 10
  BY <1>1 DEF SmokeTypeOK
<1> QED
  BY <1>1, <1>2 DEF ProbesLeft

LEMMA ProbeAdvances ==
  ASSUME SmokeTypeOK, Probe
  PROVE  ProbesLeft' < ProbesLeft
<1>1. at \in 1 .. 10 /\ Len(Checks) = 9
  BY WhereItIs, ChecksAre
<1>2. CASE at' = at + 1 /\ step' = "next"
  BY <1>1, <1>2 DEF ProbesLeft
<1>3. CASE at' = at /\ step = "next" /\ step' = "asking"
  BY <1>1, <1>3 DEF ProbesLeft
<1> QED
  BY <1>2, <1>3
  DEF Probe, Skip, JudgeReplies, NothingToCompare, Request, Listing, Completion, Reply, Breaks, Row

\* Neither client can be kept busy for ever, whatever the router and its other
\* clients do: every step of the wait and of the run leaves it less to do, and
\* the wait has at most 4 * Timeout + 8 steps, a run at most eighteen.
THEOREM EveryStepCounts ==
  Spec => /\ [](WaitLeft \in 0 .. 4 * Timeout + 8 /\ ProbesLeft \in 0 .. 18)
          /\ [][ /\ wait' # wait => WaitLeft' < WaitLeft
                 /\ smoke' # smoke => ProbesLeft' < ProbesLeft ]_clients
<1> DEFINE Bounded == WaitLeft \in 0 .. 4 * Timeout + 8 /\ ProbesLeft \in 0 .. 18
           Advances == /\ wait' # wait => WaitLeft' < WaitLeft
                       /\ smoke' # smoke => ProbesLeft' < ProbesLeft
<1>1. TypeOK => Bounded
  BY WaitLeftType, ProbesLeftType DEF TypeOK
<1>2. TypeOK /\ TypeOK' /\ [Next]_clients => [Advances]_clients
  <2> SUFFICES ASSUME TypeOK, TypeOK', Next PROVE Advances
    OBVIOUS
  <2>1. wait' # wait => Wait
    BY DEF Next
  <2>2. smoke' # smoke => Probe
    BY DEF Next
  <2> QED
    BY <2>1, <2>2, WaitAdvances, ProbeAdvances DEF TypeOK
<1> QED
  BY <1>1, <1>2, TypeCorrect, PTL DEF Spec

==============================================================================
