---------------------------- MODULE Consistency ----------------------------
(***************************************************************************)
(* Consistency scores (detector/consistency.go): the ring of the latest    *)
(* requests of an address, and the score that tells a user's shape of      *)
(* traffic from a scanner's.  A path is its first segment, its name and    *)
(* its kind (the two regular expressions of the file); ratios are in       *)
(* 100000ths, the variation of the statuses in thousandths.                *)
(***************************************************************************)
EXTENDS Integers, Sequences, FiniteSets, FiniteSetsExt, SequencesExt, Functions

CONSTANTS UserThresholds   \* detector.consistency of the configuration: 0 is "not set"

\* DefaultConsistencyThresholds.
DefaultThresholds ==
    [ringCapacity |-> 512, minSamples |-> 20, scoreThreshold |-> 4, prefixRunLenMin |-> 300000,
     prefixDominantMin |-> 50000, noveltyEarly30Min |-> 70000, lateNoveltyRateMax |-> 40000,
     pathConcentrated |-> 25000, statusCVMax |-> 600, getRatioMin |-> 50000, getRatioMax |-> 99000,
     postRatioMin |-> 1000, postRatioMax |-> 49000, unusualMax |-> 5000, pureAPIGetMax |-> 80000,
     pureAPIPostMin |-> 50000, alwaysErrorDynamicMin |-> 5, alwaysErrorProbeMin |-> 10,
     singlePathErrorBonus |-> 3, alwaysErrorPenalty |-> 5, novelEarlyMax |-> 50000,
     novelLateMin |-> 70000, novelCoverMax |-> 40000, novelPenalty |-> 3, weightPrefix |-> 2,
     weightNovelty |-> 2, weightPathConc |-> 2, weightErrors |-> 1, weightMethod |-> 1]

\* The whole numbers among them are taken from the configuration only if positive.
Positive == {"ringCapacity", "minSamples", "scoreThreshold", "alwaysErrorDynamicMin",
             "alwaysErrorProbeMin", "singlePathErrorBonus", "alwaysErrorPenalty",
             "novelPenalty"}

\* MergeConsistencyThresholds.
Merge(cfg) ==
    [k \in DOMAIN DefaultThresholds |->
        IF k \notin DOMAIN cfg \/ cfg[k] = 0 \/ (k \in Positive /\ cfg[k] < 0)
        THEN DefaultThresholds[k] ELSE cfg[k]]

T == Merge(UserThresholds)
-----------------------------------------------------------------------------
\* newPathRing, append, all.
NewRing(capacity) ==
    [buf |-> [i \in 1..(IF capacity <= 0 THEN DefaultThresholds.ringCapacity ELSE capacity)
                 |-> [path |-> "", method |-> "GET", status |-> 0]],
     head |-> 1, full |-> FALSE]

\* Mutant: the ring counts as full one record early.
AppendFullEarly(r, rec) ==
    [buf |-> [r.buf EXCEPT ![r.head] = rec], head |-> (r.head % Len(r.buf)) + 1,
     full |-> r.full \/ r.head >= Len(r.buf) - 1]

AppendRecord(r, rec) ==
    [buf |-> [r.buf EXCEPT ![r.head] = rec], head |-> (r.head % Len(r.buf)) + 1,
     full |-> r.full \/ r.head = Len(r.buf)]

AllRecords(r) ==
    LET newest == SubSeq(r.buf, 1, r.head - 1)
    IN  IF r.full THEN SubSeq(r.buf, r.head, Len(r.buf)) \o newest ELSE newest
-----------------------------------------------------------------------------
PartOf(n, of) == (100000 * n) \div of

PathsOf(recs) == {recs[i].path : i \in DOMAIN recs}

CountBy(recs, P(_)) == Cardinality({i \in DOMAIN recs : P(recs[i])})

CountOf(recs, p) == CountBy(recs, LAMBDA r : r.path = p)

\* Records one after the other with the same first segment; the longest-run test
\* is on the average.
AvgRunLen(recs) ==
    LET breaks == {i \in 2..Len(recs) : recs[i].path.seg # recs[i - 1].path.seg}
    IN  PartOf(Len(recs), Cardinality(breaks) + 1)

Dominant(recs) ==
    PartOf(Max({CountBy(recs, LAMBDA r : r.path.seg = s) : s \in {p.seg : p \in PathsOf(recs)}}),
            Len(recs))

PrefixCoherent(recs) ==
    AvgRunLen(recs) >= T.prefixRunLenMin \/ Dominant(recs) >= T.prefixDominantMin

\* The first and the last third of the records.
Third(recs) == Max({1, Len(recs) \div 3})

Early(recs) == PathsOf(SubSeq(recs, 1, Third(recs)))

NoveltyEarly(recs) == PartOf(Cardinality(Early(recs)), Cardinality(PathsOf(recs)))

LateNovelty(recs) ==
    LET late == SubSeq(recs, Len(recs) - Third(recs) + 1, Len(recs))
    IN  PartOf(CountBy(late, LAMBDA r : r.path \notin Early(recs)), Third(recs))

NoveltyConverged(recs) ==
    NoveltyEarly(recs) >= T.noveltyEarly30Min /\ LateNovelty(recs) <= T.lateNoveltyRateMax

\* topKStrings: the k most requested paths (the order of equals is a map's).
TopK(recs, k) ==
    LET count == [p \in PathsOf(recs) |-> CountOf(recs, p)]
        most(ps) == {p \in ps : \A q \in ps : count[p] >= count[q]}
        top[n \in 0..k] ==
            IF n = 0 THEN {}
            ELSE LET before == top[n - 1]
                     rest   == DOMAIN count \ before
                 IN  before \cup IF rest = {} THEN {} ELSE {CHOOSE p \in most(rest) : TRUE}
    IN  top[k]

Top5Cover(recs) == PartOf(CountBy(recs, LAMBDA r : r.path \in TopK(recs, 5)), Len(recs))

\* cvInt: standard deviation over mean of how often each status occurs.
StatusCV(recs, p) ==
    LET mine == SelectSeq(recs, LAMBDA r : r.path = p)
        seen == {mine[i].status : i \in DOMAIN mine}
        k    == Cardinality(seen)
        sq   == MapThenSumSet(LAMBDA s : CountBy(mine, LAMBDA r : r.status = s) ^ 2, seen)
        n    == Len(mine)
        cv2  == (1000000 * ((k * (k * sq - n * n)) \div (k - 1))) \div (n * n)
    IN  IF k < 2 THEN 0 ELSE CHOOSE v \in 0..3000 : v * v <= cv2 /\ cv2 < (v + 1) * (v + 1)

ErrorsStable(recs) ==
    LET often == {p \in PathsOf(recs) : CountOf(recs, p) >= 3}
    IN  often = {} \/ MapThenSumSet(LAMBDA p : StatusCV(recs, p), often) \div Cardinality(often)
                         < T.statusCVMax

MethodNatural(recs) ==
    LET part(ms) == PartOf(CountBy(recs, LAMBDA r : r.method \in ms), Len(recs))
        get == part({"GET"})
        post == part({"POST"})
        unusual == part({"PUT", "DELETE", "PATCH"})
    IN  \/ /\ get \in T.getRatioMin..T.getRatioMax /\ post \in T.postRatioMin..T.postRatioMax
           /\ unusual < T.unusualMax
        \/ get >= T.pureAPIGetMax /\ unusual < 1000
        \/ post >= T.pureAPIPostMin /\ get > 1000 /\ unusual < T.unusualMax

\* One of the most requested paths that are not static files only ever fails.
AlwaysSameError(recs) ==
    \E p \in TopK(recs, 5) :
        /\ p.kind # "static"
        /\ CountOf(recs, p) >= IF p.kind = "probe" THEN T.alwaysErrorProbeMin
                               ELSE T.alwaysErrorDynamicMin
        /\ \A i \in DOMAIN recs : recs[i].path = p => recs[i].status >= 400

HighlyNovel(recs) ==
    /\ NoveltyEarly(recs) < T.novelEarlyMax
    /\ LateNovelty(recs) > T.novelLateMin
    /\ Top5Cover(recs) < T.novelCoverMax

HasSamples(recs) == Len(recs) >= T.minSamples

\* pathRing.Score.
ConsistencyScore(recs) ==
    LET if(b, n) == IF b THEN n ELSE 0
        walled == AlwaysSameError(recs)
    IN  if(PrefixCoherent(recs), T.weightPrefix) + if(NoveltyConverged(recs), T.weightNovelty)
        + if(Top5Cover(recs) >= T.pathConcentrated, T.weightPathConc)
        + if(ErrorsStable(recs), T.weightErrors) + if(MethodNatural(recs), T.weightMethod)
        - if(walled, T.alwaysErrorPenalty)
        - if(walled /\ Cardinality(PathsOf(recs)) < 3, T.singlePathErrorBonus)
        - if(HighlyNovel(recs), T.novelPenalty)

\* ComputeConsistency: what Process asks before it lowers a score.
IsBenign(recs) == HasSamples(recs) /\ ConsistencyScore(recs) >= T.scoreThreshold
-----------------------------------------------------------------------------
\* The ring holds the latest records, as many as fit, in their order: a wrapped
\* ring is not read from the wrong end.
RingKeepsLatest(capacity, recs) ==
    LET r == FoldLeft(AppendRecord, NewRing(capacity), recs)
    IN  AllRecords(r) = SubSeq(recs, Max({1, Len(recs) - capacity + 1}), Len(recs))

\* Whoever only gets errors from pages, one of them time and again, is not taken
\* for a user, whatever else speaks for it.
WallIsNotBenign(recs) ==
    /\ \A i \in DOMAIN recs : recs[i].status >= 400 /\ recs[i].path.kind = "dynamic"
    /\ \E p \in PathsOf(recs) : CountOf(recs, p) >= 5
    => ~IsBenign(recs)

\* Whoever never asks for a path twice is not taken for a user, with one prefix
\* and one method or not, with errors or not.
ScanIsNotBenign(recs) ==
    Cardinality(PathsOf(recs)) = Len(recs) => ~IsBenign(recs)
=============================================================================
