------------------------- MODULE LiveSamplerProofs -------------------------
(***************************************************************************)
(* Proofs about LiveSampler, for every number of threads, presets and      *)
(* samples, and whatever the bounds.                                       *)
(***************************************************************************)
EXTENDS LiveSampler, TLAPS

Claimed ==
    /\ \A t \in Threads : pc[t] \in Scrapes => scraping
    /\ \A t, u \in Threads : pc[t] \in Scrapes /\ pc[u] \in Scrapes => t = u

Settled ==
    \A t \in Threads : pc[t] = "metrics" => sample[t].model = loaded /\ loaded # None

\* What the counters of the scrape before may be compared with: the preset
\* has served at least what its counter has gained since, over all its loads.
Accounted ==
    previous # NoCounters
        => /\ previous.served <= served[previous.model]
           /\ active = previous.model
                => count + previous.served <= served[previous.model] + previous.count

Inv == TypeOK /\ Claimed /\ Settled /\ Accounted /\ RateNeverOverstates

LEMMA CounterFields ==
  ASSUME previous \in Counters \cup {NoCounters}, NEW p \in Presets, previous.model = p
  PROVE  previous \in Counters /\ previous # NoCounters
  BY ConstantsAssumption DEF Counters, NoCounters

LEMMA InitInv == Init => Inv
<1> SUFFICES ASSUME Init PROVE Inv
  OBVIOUS
<1>1. NoSample \in Samples
  BY DEF NoSample, Samples
<1>2. TypeOK
  <2>1. samples \in Seq(Samples)
    BY DEF Init
  <2>2. sample \in [Threads -> Samples]
    BY <1>1 DEF Init
  <2> QED
    BY <2>1, <2>2 DEF Init, TypeOK
<1>3. Claimed /\ Settled /\ Accounted /\ RateNeverOverstates
  BY DEF Init, Claimed, Settled, Accounted, RateNeverOverstates, Scrapes, NoSample
<1> QED
  BY <1>2, <1>3 DEF Inv

LEMMA MetricsInv ==
  ASSUME Inv, NEW t \in Threads, Metrics(t)
  PROVE  Inv'
<1> DEFINE p == sample[t].model
           a == Answered(p)
<1> USE DEF Inv, TypeOK
<1>1. p \in Presets
  BY DEF Metrics, Goto, Settled
<1>2. a \in Counters /\ a.model = p /\ a.served = served[p] /\ a.at = now
  BY <1>1 DEF Answered, Counters
<1>3. a.count = (IF active = p THEN count ELSE 0)
  BY DEF Answered
<1>4. Rate(p, a) \in Rates \cup {None} /\ (Rate(p, a) # None => Rate(p, a).tokens <= Rate(p, a).served)
  <2>1. CASE previous.model = p /\ a.at > previous.at /\ a.count >= previous.count
    <3>1. previous \in Counters /\ previous # NoCounters
      BY <1>1, <2>1, CounterFields
    <3>2. /\ previous.count \in Nat /\ previous.at \in Nat /\ previous.served \in Nat
          /\ a.count \in Nat /\ a.at \in Nat /\ served[p] \in Nat
      BY <1>1, <1>2, <3>1 DEF Counters
    <3>3. previous.served <= served[p]
      BY <2>1, <3>1 DEF Accounted
    <3>4. a.count - previous.count <= served[p] - previous.served
      BY <2>1, <3>1, <3>2, <3>3, <1>3 DEF Accounted
    <3>5. /\ a.count - previous.count \in Nat /\ a.at - previous.at \in Nat
          /\ served[p] - previous.served \in Nat
      BY <2>1, <3>2, <3>3
    <3> QED
      BY <1>2, <2>1, <3>4, <3>5 DEF Rate, Rates
  <2>2. CASE ~(previous.model = p /\ a.at > previous.at /\ a.count >= previous.count)
    BY <2>2 DEF Rate
  <2> QED
    BY <2>1, <2>2
<1>5. sample' = [sample EXCEPT ![t].rate = Rate(p, a)] /\ sample'[t].rate = Rate(p, a)
  BY DEF Metrics, Samples
<1>6. sample' \in [Threads -> Samples]
  BY <1>4, <1>5 DEF Samples
<1>7. TypeOK'
  BY <1>1, <1>2, <1>6 DEF Metrics, Goto, Scrapes, Counters
<1>8. Claimed' /\ Settled'
  BY <1>5 DEF Metrics, Goto, Claimed, Settled, Scrapes
<1>9. Accounted'
  BY <1>1, <1>2 DEF Metrics, Goto, Accounted, Counters
<1>10. RateNeverOverstates'
  BY <1>4, <1>5 DEF RateNeverOverstates
<1> QED
  BY <1>7, <1>8, <1>9, <1>10

LEMMA ThreadInv ==
  ASSUME Inv, NEW t \in Threads, Snapshot(t)
  PROVE  Inv'
<1> USE DEF Inv, TypeOK, Goto, Scrapes, router
<1>1. CASE Begin(t)
  BY <1>1 DEF Begin, Claimed, Settled, Accounted, RateNeverOverstates
<1>2. CASE List(t)
  <2>1. PICK seen \in {active, None} :
          /\ sample' = [sample EXCEPT ![t] = [t |-> now, model |-> seen, rate |-> None]]
          /\ pc' = [pc EXCEPT ![t] = IF seen # None /\ seen = loaded THEN "metrics" ELSE "gpu"]
          /\ loaded' = seen
          /\ previous' = IF seen # None /\ seen = loaded THEN previous ELSE NoCounters
    BY <1>2 DEF List
  <2>2. [t |-> now, model |-> seen, rate |-> None] \in Samples
    BY DEF Samples
  <2>3. sample' \in [Threads -> Samples] /\ sample'[t].rate = None /\ sample'[t].model = seen
    BY <2>1, <2>2
  <2>4. TypeOK'
    BY <1>2, <2>1, <2>3 DEF List
  <2>5. Claimed' /\ Settled'
    BY <1>2, <2>1, <2>3 DEF List, Claimed, Settled
  <2>6. Accounted'
    BY <1>2, <2>1 DEF List, Accounted
  <2>7. RateNeverOverstates'
    BY <2>1, <2>3 DEF RateNeverOverstates
  <2> QED
    BY <2>4, <2>5, <2>6, <2>7
<1>3. CASE Metrics(t)
  BY <1>3, MetricsInv
<1>4. CASE MetricsMissing(t)
  BY <1>4 DEF MetricsMissing, Claimed, Settled, Accounted, RateNeverOverstates
<1>5. CASE Raises(t) \/ Release(t)
  <2>1. NoSample \in Samples /\ NoSample.rate = None
    BY DEF NoSample, Samples
  <2>2. TypeOK' /\ RateNeverOverstates'
    BY <1>5, <2>1 DEF Raises, Release, RateNeverOverstates
  <2>3. Claimed' /\ Settled' /\ Accounted'
    BY <1>5 DEF Raises, Release, Claimed, Settled, Accounted
  <2> QED
    BY <2>2, <2>3
<1>6. CASE AppendSample(t)
  <2>1. NoSample \in Samples /\ NoSample.rate = None
    BY DEF NoSample, Samples
  <2>2. Pushed(sample[t]) \in Seq(Samples)
    <3>1. CASE Len(samples) < Ring
      BY <3>1 DEF Pushed
    <3>2. CASE ~(Len(samples) < Ring)
      <4>1. samples # <<>>
        BY <3>2, ConstantsAssumption
      <4>2. Tail(samples) \in Seq(Samples)
        BY <4>1
      <4> QED
        BY <3>2, <4>2 DEF Pushed
    <3> QED
      BY <3>1, <3>2
  <2>3. TypeOK' /\ RateNeverOverstates'
    BY <1>6, <2>1, <2>2 DEF AppendSample, RateNeverOverstates
  <2>4. Claimed' /\ Settled' /\ Accounted'
    BY <1>6 DEF AppendSample, Claimed, Settled, Accounted
  <2> QED
    BY <2>3, <2>4
<1> QED
  BY <1>1, <1>2, <1>3, <1>4, <1>5, <1>6 DEF Snapshot

LEMMA StepInv == Inv /\ [Next]_vars => Inv'
<1> SUFFICES ASSUME Inv, [Next]_vars PROVE Inv'
  OBVIOUS
<1> USE DEF Inv, TypeOK, Claimed, Settled, Accounted, RateNeverOverstates
<1>1. CASE Serve
  <2>1. TypeOK' /\ Claimed' /\ Settled' /\ RateNeverOverstates'
    BY <1>1 DEF Serve
  <2>2. Accounted'
    BY <1>1 DEF Serve, Counters
  <2> QED
    BY <2>1, <2>2
<1>2. ASSUME NEW p \in Presets \cup {None}, Swap(p) PROVE Inv'
  <2>1. TypeOK' /\ Claimed' /\ Settled' /\ RateNeverOverstates'
    BY <1>2 DEF Swap
  <2>2. Accounted'
    BY <1>2 DEF Swap, Counters
  <2> QED
    BY <2>1, <2>2
<1>3. CASE Tick
  BY <1>3 DEF Tick, router
<1>4. CASE UNCHANGED vars
  BY <1>4 DEF vars, router
<1> QED
  BY <1>1, <1>2, <1>3, <1>4, ThreadInv DEF Next

LEMMA AlwaysInv == Spec => []Inv
  BY InitInv, StepInv, PTL DEF Spec

\* Every variable keeps its type; the tokens and the time of a rate are
\* never negative.
THEOREM TypeCorrect == Spec => []TypeOK
<1>1. Inv => TypeOK
  BY DEF Inv
<1> QED
  BY AlwaysInv, <1>1, PTL

\* One thread at a time asks the router.
THEOREM OneScrape == Spec => []OneScrapeAtATime
<1>1. Inv => OneScrapeAtATime
  BY DEF Inv, Claimed, OneScrapeAtATime
<1> QED
  BY AlwaysInv, <1>1, PTL

\* The counters of a preset are asked for only after two listings in a row
\* named it.
THEOREM AsksListed == Spec => []AsksWhatWasListedLast
<1>1. Inv => AsksWhatWasListedLast
  BY DEF Inv, Settled, AsksWhatWasListedLast
<1> QED
  BY AlwaysInv, <1>1, PTL

\* A rate never claims tokens the preset did not serve.
THEOREM RateHonest == Spec => []RateNeverOverstates
<1>1. Inv => RateNeverOverstates
  BY DEF Inv
<1> QED
  BY AlwaysInv, <1>1, PTL

-----------------------------------------------------------------------------

-----------------------------------------------------------------------------
(***************************************************************************)
(* What `SamplerGoesOn` rests on, up to the fairness of the threads: a     *)
(* claim is some thread's, which goes from each of its calls to a later    *)
(* one or gives the claim back.                                            *)
(***************************************************************************)
ClaimIsHeld == scraping => \E t \in Threads : pc[t] \in Scrapes

LEMMA StepClaim == Inv /\ ClaimIsHeld /\ [Next]_vars => ClaimIsHeld'
<1> SUFFICES ASSUME Inv, ClaimIsHeld, [Next]_vars PROVE ClaimIsHeld'
  OBVIOUS
<1> USE DEF Inv, TypeOK, Claimed, ClaimIsHeld, Goto, Scrapes
<1>1. ASSUME NEW t \in Threads, Snapshot(t) PROVE ClaimIsHeld'
  <2>1. CASE Begin(t)
    BY <2>1 DEF Begin
  <2>2. CASE List(t)
    <3>1. scraping' = scraping /\ pc'[t] \in {"metrics", "gpu"}
      BY <2>2 DEF List
    <3> QED
      BY <3>1
  <2>3. CASE Metrics(t) \/ MetricsMissing(t)
    <3>1. scraping' = scraping /\ pc'[t] = "gpu"
      BY <2>3 DEF Metrics, MetricsMissing
    <3> QED
      BY <3>1
  <2>4. CASE Raises(t) \/ Release(t)
    BY <2>4 DEF Raises, Release
  <2>5. CASE AppendSample(t)
    BY <2>5 DEF AppendSample
  <2> QED
    BY <1>1, <2>1, <2>2, <2>3, <2>4, <2>5 DEF Snapshot
<1>2. CASE ~ \E t \in Threads : Snapshot(t)
  BY <1>2 DEF Next, Serve, Tick, Swap, vars
<1> QED
  BY <1>1, <1>2

\* No claim is left behind: while `_scraping` is set, a thread is between the
\* decision and the `finally`, whichever of its requests failed and however.
THEOREM ClaimIsSomeones == Spec => []ClaimIsHeld
<1>1. Init => ClaimIsHeld
  BY DEF Init, ClaimIsHeld
<1> QED
  BY AlwaysInv, StepClaim, <1>1, PTL DEF Spec

==============================================================================
