---------------------------- MODULE LiveSampler ----------------------------
(***************************************************************************)
(* The sampler behind the live panel of `stats --serve`: the request       *)
(* threads of the page server call `snapshot`, which lets at most one of   *)
(* them ask the model server's router and append what it saw to a bounded  *)
(* ring.  A snapshot that is not due returns the ring and changes nothing, *)
(* so it is no action here.                                                *)
(*                                                                         *)
(* The router is outside: it holds one preset at a time, swaps it on the   *)
(* first request for another one, and counts the tokens it serves from the *)
(* preset's load on.                                                       *)
(***************************************************************************)
EXTENDS Naturals, Sequences

CONSTANTS
    Threads,    \* the server's request threads
    Presets,
    Interval,   \* LIVE_INTERVAL
    Ring,       \* LIVE_SAMPLES
    MaxTime,    \* bound: how far the clock goes
    MaxTokens,  \* bound: tokens served of one preset
    None        \* no preset, no rate, no time

ASSUME ConstantsAssumption ==
    /\ None \notin Presets /\ None \notin Nat /\ None \notin Threads
    /\ Interval \in Nat /\ Ring \in Nat \ {0}
    /\ MaxTime \in Nat /\ MaxTokens \in Nat

VARIABLES
    now,        \* the clock
    active,     \* the preset the router holds
    count,      \* its token counter, from its load on
    served,     \* history: the tokens of each preset over all its loads
    scrapedAt,  \* when the last scrape began
    scraping,
    loaded,     \* the preset the last listing named
    previous,   \* the counters of the scrape before
    samples,    \* the ring
    pc, sample  \* per thread, its next step and the sample it builds

router == <<active, count, served>>
vars == <<now, router, scrapedAt, scraping, loaded, previous, samples, pc, sample>>

NoSample == [t |-> 0, model |-> None, rate |-> None]
NoCounters == [model |-> None, count |-> 0, at |-> 0, served |-> 0]

Init ==
    /\ now = 0
    /\ active = None /\ count = 0 /\ served = [p \in Presets |-> 0]
    /\ scrapedAt = None /\ scraping = FALSE
    /\ loaded = None /\ previous = NoCounters
    /\ samples = <<>>
    /\ pc = [t \in Threads |-> "idle"]
    /\ sample = [t \in Threads |-> NoSample]

-----------------------------------------------------------------------------
Goto(t, from, to) == pc[t] = from /\ pc' = [pc EXCEPT ![t] = to]

\* Variant: only the interval is looked at, not the scrape in flight.
BeginOverlapping(t) ==
    /\ Goto(t, "idle", "models")
    /\ scrapedAt # None => now >= scrapedAt + Interval
    /\ scrapedAt' = now
    /\ scraping' = TRUE
    /\ UNCHANGED <<now, router, loaded, previous, samples, sample>>

\* A scrape is due, which one thread decides and claims under the lock.
Begin(t) ==
    /\ Goto(t, "idle", "models")
    /\ ~scraping
    /\ scrapedAt # None => now >= scrapedAt + Interval
    /\ scrapedAt' = now
    /\ scraping' = TRUE
    /\ UNCHANGED <<now, router, loaded, previous, samples, sample>>

\* `loaded_preset`: GET /models, which may find the router down.  Only a
\* preset that the listing before named too is asked for its counters.
List(t) ==
    \E seen \in {active, None} :
        LET settled == seen # None /\ seen = loaded
        IN  /\ Goto(t, "models", IF settled THEN "metrics" ELSE "gpu")
            /\ sample' = [sample EXCEPT ![t] = [t |-> now, model |-> seen, rate |-> None]]
            /\ loaded' = seen
            /\ previous' = IF settled THEN previous ELSE NoCounters
            /\ UNCHANGED <<now, router, scrapedAt, scraping, samples>>

\* Variant: a counter that went backwards is taken for an advance.
RateBackwards(p, counters) ==
    IF previous.model = p /\ counters.at > previous.at
    THEN [tokens  |-> IF counters.count >= previous.count
                      THEN counters.count - previous.count
                      ELSE previous.count - counters.count,
          elapsed |-> counters.at - previous.at,
          served  |-> counters.served - previous.served]
    ELSE None

\* A rate needs the counters of the scrape before, of the same preset and
\* not above these.  `served` tells what the router did serve meanwhile.
Rate(p, counters) ==
    IF previous.model = p /\ counters.at > previous.at /\ counters.count >= previous.count
    THEN [tokens  |-> counters.count - previous.count,
          elapsed |-> counters.at - previous.at,
          served  |-> counters.served - previous.served]
    ELSE None

\* GET /metrics?model=p is answered by p's model server, which the router
\* starts when it is not the active one.
Answered(p) == [model |-> p, count |-> IF active = p THEN count ELSE 0, at |-> now, served |-> served[p]]

Metrics(t) ==
    LET p == sample[t].model
    IN  /\ Goto(t, "metrics", "gpu")
        /\ active' = p /\ count' = Answered(p).count
        /\ sample' = [sample EXCEPT ![t].rate = Rate(p, Answered(p))]
        /\ previous' = Answered(p)
        /\ UNCHANGED <<now, served, scrapedAt, scraping, loaded, samples>>

\* No answer, or one that lacks a counter.
MetricsMissing(t) ==
    /\ Goto(t, "metrics", "gpu")
    /\ previous' = NoCounters
    /\ UNCHANGED <<now, router, scrapedAt, scraping, loaded, samples, sample>>

\* Variant: the claim is released on the way that returns only.
RaisesClaimed(t) ==
    /\ pc[t] \in {"models", "metrics", "gpu"}
    /\ pc' = [pc EXCEPT ![t] = "idle"]
    /\ sample' = [sample EXCEPT ![t] = NoSample]
    /\ UNCHANGED <<now, router, scrapedAt, scraping, loaded, previous, samples>>

\* An exception none of the calls catches (an answer cut short, say) ends
\* the request through the `finally`, without a sample.
Raises(t) ==
    /\ pc[t] \in {"models", "metrics", "gpu"}
    /\ pc' = [pc EXCEPT ![t] = "idle"]
    /\ scraping' = FALSE
    /\ sample' = [sample EXCEPT ![t] = NoSample]
    /\ UNCHANGED <<now, router, scrapedAt, loaded, previous, samples>>

\* The GPU reading is in; `finally` gives the claim back under the lock.
Release(t) ==
    /\ Goto(t, "gpu", "append")
    /\ scraping' = FALSE
    /\ UNCHANGED <<now, router, scrapedAt, loaded, previous, samples, sample>>

\* The last Ring samples: a deque with maxlen.
Pushed(s) ==
    IF Len(samples) < Ring THEN Append(samples, s) ELSE Append(Tail(samples), s)

\* ... and the sample is appended when the lock has been taken again.
AppendSample(t) ==
    /\ Goto(t, "append", "idle")
    /\ samples' = Pushed(sample[t])
    /\ sample' = [sample EXCEPT ![t] = NoSample]
    /\ UNCHANGED <<now, router, scrapedAt, scraping, loaded, previous>>

Snapshot(t) ==
    \/ Begin(t) \/ List(t) \/ Metrics(t) \/ MetricsMissing(t) \/ Raises(t)
    \/ Release(t) \/ AppendSample(t)

-----------------------------------------------------------------------------
Serve ==
    /\ active # None
    /\ served[active] < MaxTokens
    /\ count' = count + 1
    /\ served' = [served EXCEPT ![active] = @ + 1]
    /\ UNCHANGED <<now, active, scrapedAt, scraping, loaded, previous, samples, pc, sample>>

\* Another client's request, an unload or an exit: the counter starts over.
Swap(p) ==
    /\ active # p
    /\ active' = p /\ count' = 0
    /\ UNCHANGED <<now, served, scrapedAt, scraping, loaded, previous, samples, pc, sample>>

Tick ==
    /\ now < MaxTime
    /\ now' = now + 1
    /\ UNCHANGED <<router, scrapedAt, scraping, loaded, previous, samples, pc, sample>>

Next ==
    \/ \E t \in Threads : Snapshot(t)
    \/ Serve \/ Tick
    \/ \E p \in Presets \cup {None} : Swap(p)

Spec == Init /\ [][Next]_vars

\* Every request of a scrape has a timeout and every thread runs on.
LiveSpec == Spec /\ \A t \in Threads : WF_vars(pc[t] # "idle" /\ Snapshot(t))

-----------------------------------------------------------------------------
Rates == [tokens : Nat, elapsed : Nat, served : Nat]
Samples == [t : Nat, model : Presets \cup {None}, rate : Rates \cup {None}]
Counters == [model : Presets, count : Nat, at : Nat, served : Nat]
Scrapes == {"models", "metrics", "gpu"}

\* The type invariant.
TypeOK ==
    /\ now \in Nat
    /\ active \in Presets \cup {None} /\ count \in Nat /\ served \in [Presets -> Nat]
    /\ scrapedAt \in Nat \cup {None} /\ scraping \in BOOLEAN
    /\ loaded \in Presets \cup {None}
    /\ previous \in Counters \cup {NoCounters}
    /\ samples \in Seq(Samples)
    /\ pc \in [Threads -> Scrapes \cup {"idle", "append"}]
    /\ sample \in [Threads -> Samples]

\* However many pages poll and however scrapes fail, one thread at a time
\* asks the router, and the counters it compares are its own.
OneScrapeAtATime ==
    \A t, u \in Threads : pc[t] \in Scrapes /\ pc[u] \in Scrapes => t = u

\* The preset whose counters are asked for is the one the last listing of
\* any thread named, so it was seen loaded twice in a row.
AsksWhatWasListedLast ==
    \A t \in Threads : pc[t] = "metrics" => sample[t].model = loaded

\* A rate never claims tokens the preset did not serve between the two
\* scrapes, whatever unloads, reloads and lost answers lie between them.
RateNeverOverstates ==
    \A t \in Threads : sample[t].rate # None => sample[t].rate.tokens <= sample[t].rate.served

\* A scrape that raised or went unanswered does not keep later ones away.
SamplerGoesOn == scraping ~> ~scraping

=============================================================================
