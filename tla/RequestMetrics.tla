---------------------------- MODULE RequestMetrics ----------------------------
(***************************************************************************)
(* How long requests take: RequestMetricsInterceptor measures each,        *)
(* whether it is answered or fails, and RequestMetricsService keeps the    *)
(* last samples of a route and reports three percentiles at intervals.     *)
(* The service is enabled (REQUEST_METRICS_ENABLED). A quantile is in      *)
(* percent: for the sizes of a bucket the product of the code's doubles    *)
(* has the ceiling of the exact one.                                       *)
(***************************************************************************)
EXTENDS Integers, Sequences, FiniteSets

CONSTANTS
  Routes,
  Requests,      \* requests in progress at once
  MaxSamples,    \* REQUEST_METRICS_SAMPLE_SIZE
  MaxTime,       \* bound of the clock
  MaxFinished    \* bound of the requests of a route between two reports

MetricsAssumption == MaxSamples \in Nat \ {0} /\ MaxTime \in Nat /\ MaxFinished \in Nat

VARIABLES
  now,
  running,       \* route and start of each request in progress
  samples,       \* the bucket of each route
  finished,      \* history: all durations since the last report
  log            \* the last report of each route, with what it is about

vars == <<now, running, samples, finished, log>>

Quantiles == {50, 95, 99}

None == <<>>

Init ==
  /\ now = 0
  /\ running = [q \in Requests |-> None]
  /\ samples = [r \in Routes |-> <<>>] /\ finished = samples
  /\ log = [r \in Routes |-> None]

Tick ==
  /\ now < MaxTime /\ now' = now + 1
  /\ UNCHANGED <<running, samples, finished, log>>

Intercept(q, r) ==
  /\ running[q] = None
  /\ running' = [running EXCEPT ![q] = <<r, now>>]
  /\ UNCHANGED <<now, samples, finished, log>>

Recent(bucket) == IF Len(bucket) > MaxSamples THEN Tail(bucket) ELSE bucket

(* The request is answered, fails or is abandoned *)
Record(q) ==
  LET r == running[q][1]
      d == now - running[q][2]
  IN
  /\ running[q] # None /\ Len(finished[running[q][1]]) < MaxFinished
  /\ running' = [running EXCEPT ![q] = None]
  /\ samples' = [samples EXCEPT ![r] = Recent(Append(@, d))]
  /\ finished' = [finished EXCEPT ![r] = Append(@, d)]
  /\ UNCHANGED <<now, log>>

(* The ceiling of n * quantile / 100 *)
Ceil(n, quantile) == (n * quantile + 99) \div 100

LeastOf(a, b) == IF a <= b THEN a ELSE b

GreatestOf(a, b) == IF a >= b THEN a ELSE b

(* Mutant of Position: one further *)
PositionAfter(n, quantile) == LeastOf(n, GreatestOf(1, Ceil(n, quantile) + 1))

(* The place in the sorted samples, from 1 *)
Position(n, quantile) == LeastOf(n - 1, GreatestOf(0, Ceil(n, quantile) - 1)) + 1

(* The sample at a place of the bucket in order *)
SortedAt(values, k) ==
  CHOOSE d \in {values[i] : i \in DOMAIN values} :
    /\ Cardinality({i \in DOMAIN values : values[i] < d}) < k
    /\ Cardinality({i \in DOMAIN values : values[i] <= d}) >= k

Percentiles(values) ==
  [quantile \in Quantiles |-> SortedAt(values, Position(Len(values), quantile))]

(* Buckets without samples are not reported, and all are emptied. *)
Flush ==
  /\ log' = [r \in Routes |-> IF samples[r] = <<>> THEN log[r]
                              ELSE [of |-> finished[r], count |-> Len(samples[r]),
                                    percentiles |-> Percentiles(samples[r])]]
  /\ samples' = [r \in Routes |-> <<>>] /\ finished' = samples'
  /\ UNCHANGED <<now, running>>

Next ==
  \/ \E q \in Requests : (\E r \in Routes : Intercept(q, r)) \/ Record(q)
  \/ Tick \/ Flush

Spec == Init /\ [][Next]_vars

-----------------------------------------------------------------------------
(* Properties *)

TypeOK ==
  /\ now \in 0..MaxTime
  /\ \A q \in Requests : running[q] = None \/ running[q] \in Routes \X (0..now)
  /\ \A r \in Routes : samples[r] \in Seq(0..MaxTime) /\ Len(samples[r]) <= MaxSamples

(* The newest of the durations, as many as a bucket may hold *)
Newest(durations) ==
  LET n == Len(durations) IN SubSeq(durations, GreatestOf(1, n - MaxSamples + 1), n)

(* p50, p95 and p99 of a report are percentiles of the newest durations      *)
(* since the report before, though the bucket has dropped others: at least   *)
(* so many in a hundred are no greater, and fewer are less.                  *)
ReportedPercentiles ==
  \A r \in Routes : log[r] # None =>
    LET values == Newest(log[r].of)
        Share(S) == 100 * Cardinality(S)
    IN /\ log[r].count = Len(values)
       /\ \A quantile \in Quantiles :
            LET p == log[r].percentiles[quantile]
            IN /\ Share({i \in DOMAIN values : values[i] <= p}) >= quantile * log[r].count
               /\ Share({i \in DOMAIN values : values[i] < p}) < quantile * log[r].count
=============================================================================
