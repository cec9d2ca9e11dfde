------------------------------ MODULE Baseline ------------------------------
(***************************************************************************)
(* The self-learning baseline of one window (detector/baseline.go) and its *)
(* preload from a log (LocalDetector.PreloadFromLogFile).  Requests per    *)
(* second are in thousandths, rates in ten-thousandths, confidence in      *)
(* hundredths, time in minutes; divisions truncate.  The eight rates are   *)
(* treated alike: "rate" is the one of 4xx answers and stands for them.    *)
(***************************************************************************)
EXTENDS Integers, Sequences, FiniteSets, Functions

CONSTANTS WindowSec,       \* size of the window
          CounterSets,     \* what AllCounters may return: counts of some addresses
          Logs,            \* logs to preload: non-empty sequences of buckets
          Minutes,         \* the window the preload starts from
          TargetBuckets,   \* preloadTargetHealthyBuckets
          MaxMinutes,      \* preloadMaxWindowMinutes
          MaxUpdates       \* bound on the updates of a behaviour

VARIABLES dims,            \* Baseline.dims: [qps, rate -> percentiles]
          sampleCount,     \* Baseline.sampleCount
          age,             \* minutes since startAt
          confidence,      \* Baseline.confidence
          updates          \* updates so far

baseVars == <<dims, sampleCount, age, confidence, updates>>

\* NewBaseline makes a window of no seconds one of a second; requests are counted.
ASSUME BaselineAssumption ==
    /\ WindowSec \in Nat \ {0}
    /\ \A log \in CounterSets \cup Logs :
          /\ IsFiniteSet(DOMAIN log)
          /\ \A i \in DOMAIN log : log[i].total \in Nat /\ log[i].n4xx \in Nat

Clamp(v, low, high) == IF v < low THEN low ELSE IF v > high THEN high ELSE v

AtLeast(v, low) == IF v < low THEN low ELSE v

Size(f) == Cardinality(DOMAIN f)

\* The n-th smallest of the samples f, one for each address or bucket.
Nth(f, n) ==
    CHOOSE v \in Range(f) : /\ Cardinality({i \in DOMAIN f : f[i] < v}) < n
                            /\ n <= Cardinality({i \in DOMAIN f : f[i] <= v})

Median(f) == Nth(f, Size(f) \div 2 + 1)

NoPercentile == [p50 |-> 0, p95 |-> 0, p99 |-> 0, n |-> 0]

\* computePercentiles: by index, without interpolation.
Percentiles(f) ==
    IF DOMAIN f = {} THEN NoPercentile
    ELSE [p50 |-> Median(f), p95 |-> Nth(f, (95 * Size(f)) \div 100 + 1),
          p99 |-> Nth(f, (99 * Size(f)) \div 100 + 1), n |-> Size(f)]

UpTo(f, high) == Restrict(f, {i \in DOMAIN f : f[i] <= high})

\* trimExtremes: drops what lies above ten times the P99.
TrimExtremes(f) ==
    LET p99 == Percentiles(f).p99
    IN  IF Size(f) < 5 \/ p99 <= 0 THEN f ELSE UpTo(f, 10 * p99)

\* Mutant: extremes are judged by their P99, which they set themselves.
OutliersByP99(f) == TrimExtremes(f)

\* The deviation of each sample from m.
Apartness(f, m) == [i \in DOMAIN f |-> IF f[i] < m THEN m - f[i] ELSE f[i] - m]

\* removeOutliersMAD: drops what lies above the median by five times the median
\* absolute deviation.
RemoveOutliers(f) ==
    LET m == Median(f)
        mad == Median(Apartness(f, m))
    IN  IF Size(f) < 5 THEN f ELSE IF mad <= 0 THEN f ELSE UpTo(f, m + 5 * mad)

\* isLikelyAttacker: addresses the baseline does not learn from.
IsLikelyAttacker(c) ==
    /\ c.total > 0
    /\ \/ c.n4xx * 100 > 80 * c.total
       \/ c.n404 * 100 > 80 * c.total
       \/ c.botUA * 100 > 90 * c.total
       \/ c.danger >= 3
       \/ c.traversal >= 3

\* The addresses with enough requests, and their samples.
Usable(cs) == {a \in DOMAIN cs : cs[a].total >= 5 /\ ~IsLikelyAttacker(cs[a])}

QpsOf(cs) == [a \in Usable(cs) |-> (cs[a].total * 1000) \div WindowSec]

RateOf(cs) ==
    [a \in Usable(cs) |-> IF cs[a].total <= 0 THEN 0 ELSE (cs[a].n4xx * 10000) \div cs[a].total]

\* floorRatePercentile: at least 0.1% when there are samples.
FloorRate(p) ==
    IF p.n = 0 THEN p
    ELSE [p EXCEPT !.p95 = AtLeast(@, 10), !.p99 = AtLeast(@, 30), !.p50 = AtLeast(@, 3)]

\* computeMinQPS, computeGuardQPS.
MinQps(q) == IF q.n = 0 \/ q.p95 <= 0 THEN 1000 ELSE Clamp(q.p95 \div 10, 500, 50000)

GuardQps(q) == IF q.n = 0 \/ q.p95 <= 0 THEN 300 ELSE AtLeast(q.p95 \div 50, 50)

\* computeThresholds: how many times the P95 counts as a deviation, in hundredths.
Thresholds(q, conf) ==
    LET r == Clamp((q.p95 * 100) \div AtLeast(q.p50, 500), 101, 1000)
    IN  IF conf < 50 \/ q.n = 0 \/ q.p50 <= 0 THEN <<200, 500, 1000>>
        ELSE <<Clamp((r * 12) \div 10, 150, 1500), Clamp((r * 15) \div 10, 200, 1500),
               Clamp((r * 25) \div 10, 300, 1500)>>

\* Mutant: the percentiles of the first round are taken as they are.
FloorQpsNever(q, min) == q

\* The percentiles of one round are raised to the floor.
FloorQps(q, min) ==
    IF q.p95 >= min THEN q
    ELSE [q EXCEPT !.p95 = min, !.p99 = AtLeast(@, 2 * min), !.p50 = AtLeast(@, (min * 3) \div 10)]

\* decayPercentile: a dimension without samples keeps what it has.
DecayPercentile(old, curr, decay) ==
    IF curr.n = 0 THEN old
    ELSE [p50 |-> (old.p50 * decay + curr.p50 * (10 - decay)) \div 10,
          p95 |-> (old.p95 * decay + curr.p95 * (10 - decay)) \div 10,
          p99 |-> (old.p99 * decay + curr.p99 * (10 - decay)) \div 10, n |-> curr.n]
-----------------------------------------------------------------------------
\* NewBaseline.
BaseInit ==
    /\ dims = [qps |-> NoPercentile, rate |-> NoPercentile]
    /\ sampleCount = 0 /\ age = 0 /\ confidence = 50 /\ updates = 0

\* Update, every ten seconds; nothing happens while no address is known.
Update(cs) ==
    LET qps  == TrimExtremes(RemoveOutliers(QpsOf(cs)))
        rate == TrimExtremes(RemoveOutliers(RateOf(cs)))
        curr == [qps  |-> FloorQps(Percentiles(qps), MinQps(dims.qps)),
                 rate |-> FloorRate(Percentiles(rate))]
        decay == IF age < 30 THEN 5 ELSE 8
        mixed == DecayPercentile(dims.qps, curr.qps, decay)
    IN  /\ updates < MaxUpdates
        /\ DOMAIN cs # {}
        /\ dims' = IF dims.qps.n = 0 THEN curr
                   ELSE [qps  |-> [mixed EXCEPT !.p95 = AtLeast(@, MinQps(mixed))],
                         rate |-> FloorRate(DecayPercentile(dims.rate, curr.rate, decay))]
        /\ sampleCount' = Size(qps) + 8 * Size(rate)
        /\ updates' = updates + 1
        /\ UNCHANGED <<age, confidence>>

\* The buckets of the log's last m minutes, those that are not nearly empty, and
\* the window that is widened until enough of them are found.
LastEnd(log) == log[Len(log)].end

Recent(log, m) == {i \in DOMAIN log : log[i].start >= LastEnd(log) - m}

MedianReq(log, bs) == AtLeast(Median([i \in bs |-> log[i].total]), 1)

Healthy(log, m) ==
    LET bs == Recent(log, m) IN {i \in bs : 2 * log[i].total >= MedianReq(log, bs)}

Tries == {Minutes + 30 * k : k \in 0..(MaxMinutes \div 30)} \cap 0..MaxMinutes

Enough(log, m) ==
    Cardinality(Healthy(log, m)) >= TargetBuckets \/ log[1].start >= LastEnd(log) - m

ActualWindow(log) ==
    LET good == {m \in Tries : Enough(log, m)}
    IN  IF Tries = {} THEN Minutes
        ELSE IF good = {} THEN CHOOSE m \in Tries : \A k \in Tries : k <= m
             ELSE CHOOSE m \in good : \A k \in good : m <= k

PreloadConfidence(log) ==
    LET m == ActualWindow(log)
        healthy == Cardinality(Healthy(log, m))
        part == (100 * healthy) \div Cardinality(Recent(log, m))
    IN  IF healthy < TargetBuckets THEN part \div 2 ELSE part

\* PreloadFromLogFile: the healthy buckets become the baseline, which is made
\* ready at once.  Here the extremes are trimmed before the outliers are removed,
\* and the floor of the rates is not applied.  dims.rate is one of the four rates the
\* preload learns; of the other four it sets three to 100% and one to nothing.
Preload(log) ==
    LET bs   == Healthy(log, ActualWindow(log))
        qps  == Percentiles(RemoveOutliers(TrimExtremes(
                    [i \in bs |-> (log[i].total * 1000) \div 300])))
        rate == TrimExtremes([i \in bs |-> IF log[i].total > 0
                    THEN (log[i].n4xx * 10000) \div log[i].total ELSE 0])
        min  == MinQps(qps)
    IN  /\ updates = 0 /\ age = 0
        /\ dims' = [qps |-> IF qps.p95 >= min THEN qps
                            ELSE [qps EXCEPT !.p95 = min, !.p99 = 2 * min,
                                             !.p50 = (min * 3) \div 10],
                    rate |-> Percentiles(rate)]
        /\ age' = 10
        /\ sampleCount' = AtLeast(10 * Cardinality(bs), 100)
        /\ confidence' = PreloadConfidence(log)
        /\ UNCHANGED updates

\* Five minutes pass: the ages that matter are 5 (IsReady) and 30 (WARMUP_DURATION).
Age == /\ age < 30
       /\ age' = age + 5
       /\ UNCHANGED <<dims, sampleCount, confidence, updates>>

BaseNext == \/ \E cs \in CounterSets : Update(cs)
            \/ \E log \in Logs : Preload(log)
            \/ Age

BaseSpec == BaseInit /\ [][BaseNext]_baseVars
-----------------------------------------------------------------------------
\* IsReady: until then GetWithConfidence hands out permissive defaults.
IsReady == sampleCount >= 100 /\ age >= 5

DefaultDims == [qps  |-> [p50 |-> 0, p95 |-> 1000000, p99 |-> 2000000, n |-> 0],
                rate |-> [p50 |-> 0, p95 |-> 10000, p99 |-> 10000, n |-> 0]]

\* GetWithConfidence.
GetDims == IF IsReady THEN dims ELSE DefaultDims

GetConfidence == IF IsReady THEN confidence ELSE 0

\* The baseline the scorer divides by is never so small that any traffic at all counts as
\* a deviation: it is half a request per second (half of MIN_BASELINE_QPS, which the
\* comments call the floor and computeMinQPS undercuts) and, once it has learnt from
\* running traffic, a rate of 0.1% (the preload, for which the comments claim that floor,
\* does not apply it).  The rate of requests below which an address is
\* ignored stays below the usual one (before the baseline is ready it is measured against
\* the default, which it could only pass at 50000 requests per second), and thresholds grow
\* with the tolerance.
BaselineFloor ==
    /\ GetDims.qps.p95 >= 500
    /\ IsReady \/ dims.qps.p95 < 50000000 => GuardQps(dims.qps) < GetDims.qps.p95
    /\ LET t == Thresholds(dims.qps, confidence) IN 100 < t[1] /\ t[1] <= t[2] /\ t[2] <= t[3]
    /\ updates > 0 /\ dims.rate.n > 0 => GetDims.rate.p95 >= 10

\* A round without a usable sample (a quiet night, or nobody but attackers) leaves
\* what was learnt as it is.
QuietKeepsBaseline ==
    [][updates' > updates => \A cs \in CounterSets :
          Update(cs) /\ Usable(cs) = {} /\ updates > 0 /\ dims.qps.n > 0
          => dims' = dims]_baseVars

\* Addresses that are more than ten times as fast as the rest, and fewer than it, do not
\* raise the P95 above what it was or what the rest does, as long as no rate is that of
\* more than half of the rest.
SpikesForgotten ==
    [][updates' > updates => \A cs \in CounterSets : \A most \in Range(QpsOf(cs)) :
          LET qps  == QpsOf(cs)
              slow == {a \in DOMAIN qps : qps[a] <= most}
              fast == DOMAIN qps \ slow
          IN  /\ \A a \in fast : qps[a] > 10 * most
              /\ Cardinality(slow) >= 5 /\ Cardinality(fast) < Cardinality(slow)
              /\ \A a \in slow :
                    2 * Cardinality({b \in slow : qps[b] = qps[a]}) <= Cardinality(slow)
              /\ Update(cs)
              => dims'.qps.p95 <= AtLeast(AtLeast(dims.qps.p95, most), 1000)]_baseVars

\* The baseline follows neither silence nor attackers.
BaselineIsRobust == QuietKeepsBaseline /\ SpikesForgotten

=============================================================================
