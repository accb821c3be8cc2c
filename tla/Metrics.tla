------------------------------ MODULE Metrics -------------------------------
(***************************************************************************)
(* The metrics collector (internal/core/metrics.go): totals, a cumulative  *)
(* latency histogram, and a ring with one slot per second of the last      *)
(* minute, whose slots are reused. Every operation runs under its mutex.   *)
(* Time is the wall clock in seconds; latencies are in milliseconds.       *)
(***************************************************************************)
EXTENDS Integers, Sequences, FiniteSets, SequencesExt, FiniteSetsExt

CONSTANTS
  RingSlots,       \* secBucketSize (60 in the code)
  LatencyBounds,   \* upper bounds of the buckets, ascending; one more has none
  Latencies,       \* latencies a request may take
  Beyond,          \* what is reported for the bucket without a bound (5000)
  StartSecond      \* the second in which the process starts

Buckets == 1 .. Len(LatencyBounds) + 1
Slots   == 0 .. RingSlots - 1

ASSUME RingAssumption    == RingSlots \in Nat \ {0}
ASSUME StartAssumption   == StartSecond \in Nat /\ StartSecond >= RingSlots
ASSUME LatencyAssumption == Latencies \subseteq Nat /\ LatencyBounds \in Seq(Nat)

VARIABLES
  now,        \* the clock
  metrics,    \* the collector
  observed    \* observer: what was observed, in order

metricsVars == <<now, metrics, observed>>

Within(latency, b) == b = Len(LatencyBounds) + 1 \/ latency <= LatencyBounds[b]

MetricsTypeOK ==
  /\ now \in Nat
  /\ metrics \in [total : Nat, total4xx : Nat, total5xx : Nat, total429 : Nat,
                  histogram : [Buckets -> Nat], sum : Nat,
                  counts : [Slots -> Nat], epochs : [Slots -> Nat]]

MetricsInit ==
  /\ now = StartSecond
  /\ metrics = [total |-> 0, total4xx |-> 0, total5xx |-> 0, total429 |-> 0,
                histogram |-> [b \in Buckets |-> 0], sum |-> 0,
                counts |-> [s \in Slots |-> 0], epochs |-> [s \in Slots |-> 0]]
  /\ observed = <<>>

\* Mutant: the slot of an earlier minute keeps its count.
CountedInSlotAdding(m, sec) ==
  LET s == sec % RingSlots
  IN [m EXCEPT !.epochs[s] = sec, !.counts[s] = @ + 1]

\* A slot that belongs to another second is taken over, and starts from zero.
CountedInSlot(m, sec) ==
  LET s == sec % RingSlots
  IN [m EXCEPT !.epochs[s] = sec,
               !.counts[s] = IF m.epochs[s] # sec THEN 1 ELSE @ + 1]

Observe(status, latency) ==
  /\ metrics' = CountedInSlot(
       [metrics EXCEPT !.total    = @ + 1,
                       !.total4xx = IF status \in 400 .. 499 THEN @ + 1 ELSE @,
                       !.total5xx = IF status >= 500 THEN @ + 1 ELSE @,
                       !.total429 = IF status = 429 THEN @ + 1 ELSE @,
                       !.sum      = @ + latency,
                       !.histogram = [b \in Buckets |-> IF Within(latency, b) THEN @[b] + 1 ELSE @[b]]],
       now)
  /\ observed' = Append(observed, [sec |-> now, status |-> status, latency |-> latency])
  /\ UNCHANGED now

TickSecond == now' = now + 1 /\ UNCHANGED <<metrics, observed>>

\* The requests of the last w seconds, this one included, that windowQPS divides by
\* the length of the window.
WindowTotal(w) ==
  MapThenSumSet(LAMBDA s : metrics.counts[s],
    {s \in Slots : metrics.epochs[s] \in now - Min({w, RingSlots}) + 1 .. now})

\* The bound of the first bucket that holds 99 of 100 requests.
P99Latency ==
  LET b == Min({c \in Buckets : 100 * metrics.histogram[c] >= 99 * metrics.total})
  IN IF metrics.total = 0 THEN 0 ELSE IF b <= Len(LatencyBounds) THEN LatencyBounds[b] ELSE Beyond

-----------------------------------------------------------------------------
Observations(Test(_)) == Cardinality({i \in DOMAIN observed : Test(observed[i])})

\* Whatever the age of a slot: what a window reports is the number of requests that
\* ended within it, and no more than one request in a hundred took longer than
\* the latency reported, unless that is the one beyond all bounds.
WindowExact ==
  /\ \A w \in 1 .. RingSlots :
       WindowTotal(w) = Observations(LAMBDA o : o.sec > now - w)
  /\ P99Latency # Beyond =>
       100 * Observations(LAMBDA o : o.latency > P99Latency) <= Len(observed)
=============================================================================
