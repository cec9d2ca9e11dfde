------------------------------- MODULE Scorer -------------------------------
(***************************************************************************)
(* Scorer.ScoreWithDetail (detector/scorer.go) with the pure helpers of    *)
(* baseline.go it calls.  Counts are integers as in the code; deviations,  *)
(* thresholds are in tenths, rates in thousandths, confidence in hundredth.*)
(***************************************************************************)
EXTENDS Naturals, Integers, FiniteSets, FiniteSetsExt

CONSTANTS ScoreHigh, ScoreMedium,   \* thresholds of DetectorCfg
          Weights,                  \* [danger, method, upload |-> Nat]
          Sensitivity               \* DetectorCfg.Sensitivity, 1..3

ASSUME ScorerAssumption == /\ ScoreHigh \in Nat /\ ScoreMedium \in Nat
                           /\ ScoreMedium < ScoreHigh
                           /\ Sensitivity \in 1..3
                           /\ Weights \in [danger : Nat, method : Nat, upload : Nat]

\* The relative features; a count of the window belongs to each but "qps".
RelDims == {"qps", "status4xx", "status5xx", "status404", "authFail",
            "sensPath", "botUA", "emptyRef", "head"}

Least(a, b) == IF a < b THEN a ELSE b

Most(a, b) == IF a > b THEN a ELSE b

\* deviation: value over the P95 of the baseline, at most 1000 times.
Deviation(value, p95) == IF p95 <= 0 THEN 0 ELSE Least((value * 10) \div p95, 10000)

DeviationToScore(dev, threshold) ==
    IF dev < threshold THEN 0 ELSE Least(dev - threshold, 100)

\* ratio in thousandths.
Ratio(count, total) == IF total <= 0 THEN 0 ELSE (count * 1000) \div total

EffectiveSensitivity(seen) ==
    CASE seen < 20 -> 1 [] seen > 1000 -> 3 [] OTHER -> Sensitivity

\* Requests per second, in thousandths.
Qps(c, b) == (c.total * 1000) \div b.windowSec

Deviations(c, b, ip) ==
    [d \in RelDims |->
        IF d # "qps" THEN Deviation(Ratio(c[d], c.total), b.p95[d])
        ELSE LET own == IF ip.seen > 20 /\ ip.qpsEMA > 0
                        THEN (Qps(c, b) * 10) \div ip.qpsEMA ELSE 0
             IN  Most(Deviation(Qps(c, b), b.p95["qps"]), own)]

\* A baseline that is not trusted halves the score of the rate; a pure spike
\* without any feature of an attack keeps three tenths of it.
QpsMitigated(score, c, b) ==
    LET attack == \E f \in {"danger", "botUA", "traversal", "method", "upload"} : c[f] > 0
    IN  CASE b.confidence < 30 -> (score * 5) \div 10
          [] b.confidence >= 30 /\ ~attack -> (score * 3) \div 10
          [] OTHER -> score

PureBrowser(c) == c.total > 0 /\ c.browser * 100 >= 95 * c.total

\* What the features that need no baseline contribute.
Absolute(c) ==
    [danger    |-> Least(c.danger * Weights.danger, ScoreHigh \div 2),
     traversal |-> Least(c.traversal * Weights.danger, ScoreHigh \div 2),
     method    |-> Least(c.method * Weights.method, 3 * Weights.method),
     upload    |-> Least(c.upload * Weights.upload, ScoreHigh)]

AbsoluteScore(c) ==
    LET a == Absolute(c) IN a.danger + a.traversal + a.method + a.upload

NoFatalAttack(c) == \A f \in {"danger", "method", "upload", "traversal"} : c[f] = 0

\* The noise a user may make: more of it when nearly all requests are a browser's.
NoAttackFeature(c) ==
    /\ NoFatalAttack(c)
    /\ IF PureBrowser(c)
       THEN /\ c.botUA * 100 <= 3 * c.total /\ c.botUA <= 5
            /\ c.sensPath * 100 <= 2 * c.total /\ c.sensPath <= 3
            /\ c.authFail * 100 <= 2 * c.total /\ c.authFail <= 3
       ELSE c.botUA = 0 /\ c.sensPath = 0 /\ c.authFail = 0

LegitimateUser(c, dev, sens) ==
    /\ c.browser > 0 /\ c.total >= 3 /\ NoAttackFeature(c)
    /\ LET limit == <<400, 1000, 2000>>[sens]
       IN  \A d \in {"qps", "status4xx", "status404"} : dev[d] < limit

Concentrated4xx(c, dev, score) ==
    /\ c.distinct4xx \in 1..2 /\ c.browser = 0 /\ c.botUA = 0
    /\ score > 0 \/ dev["status4xx"] >= 10

\* One relative feature contributes at most 60% of ScoreHigh.
RelCap == (ScoreHigh * 6) \div 10

\* The score of the empty Referer: little without another feature beside it.
EmptyReferer(score, c, dev, threshold) ==
    LET corroborated == \/ \E d \in RelDims \ {"emptyRef", "head"} : dev[d] >= threshold
                        \/ Absolute(c).danger > 0 \/ Absolute(c).method > 0
        points == IF corroborated THEN score ELSE score \div 5
        synergy == c.total >= 5 /\ c.status404 > 0 /\ (c.status404 * 100) \div c.total >= 50
        cap == IF synergy THEN ScoreHigh \div 2 ELSE ScoreHigh \div 4
    IN  Least(Least(points, cap), RelCap)

\* A legitimate user's errors count a tenth, those of one broken page half.
Mitigated(score, legit, concentrated) ==
    LET s == IF legit THEN score \div 10 ELSE score
    IN  IF concentrated THEN (s * 5) \div 10 ELSE s

\* The relative scores of a window after every mitigation, before the guard
\* against low activity.
Relative(c, b, ip) ==
    LET sens  == EffectiveSensitivity(ip.seen)
        thr   == b.thresholds[sens]
        dev   == Deviations(c, b, ip)
        raw   == [d \in RelDims |-> IF c.total >= 5 THEN DeviationToScore(dev[d], thr) ELSE 0]
        legit == LegitimateUser(c, dev, sens)
        concentrated == Concentrated4xx(c, dev, raw["status4xx"])
    IN  [d \in RelDims |->
            CASE d = "qps"       -> Least(QpsMitigated(raw[d], c, b), RelCap)
              [] d = "status4xx" -> Least(Mitigated(raw[d], legit, concentrated), RelCap)
              [] d = "status404" -> Least(Mitigated(raw[d], legit, FALSE), RelCap)
              [] d = "emptyRef"  -> EmptyReferer(raw[d], c, dev, thr)
              [] OTHER           -> Least(raw[d], RelCap)]

Inactive(c, b) == Qps(c, b) < b.guardQPS

\* The relative scores are noise below the guard rate.
ActiveScores(c, b, ip) ==
    IF Inactive(c, b) THEN [d \in RelDims |-> 0] ELSE Relative(c, b, ip)

ActiveDims(rel) == {d \in RelDims : rel[d] > 0}

\* One relative feature alone, without an absolute one, stays at ScoreMedium.
Capped(rel, abs) ==
    LET sum == MapThenSumSet(LAMBDA d : rel[d], RelDims)
    IN  IF Cardinality(ActiveDims(rel)) <= 1 /\ abs = 0 THEN Least(sum, ScoreMedium) ELSE sum

\* Mutant: the bonus of a real user is doubled by hits of a fatal feature.
BonusForAttackers(c, legit) == c.staticRes * 3 + (c.total - c.emptyRef) + c.danger * 20

\* What a real user is given back.
Bonus(c, legit) ==
    LET probes == IF PureBrowser(c) /\ c.botUA = 0 /\ c.staticRes > 0
                  THEN c.status404 \div 2 ELSE 0
        bonus  == c.staticRes * 3 + (c.total - c.emptyRef) + probes
    IN  IF legit /\ bonus > 0 THEN (bonus * 15) \div 10 ELSE bonus

\* The details of a window: P2-1 raises two scores after the sum was taken, and
\* the score of the empty Referer is noted before the guard clears it.
Details(c, b, ip) ==
    LET rel == ActiveScores(c, b, ip)
        synergy == c.botUA > 0 /\ c.sensPath >= 3
        floor == (RelCap * 60) \div 100
    IN  [d \in RelDims |->
            CASE d = "emptyRef" -> Relative(c, b, ip)[d]
              [] synergy /\ d \in {"botUA", "sensPath"} -> Most(rel[d], floor)
              [] OTHER -> rel[d]]

WindowScore(c, b, ip) ==
    LET rel == ActiveScores(c, b, ip)
        abs == AbsoluteScore(c)
        legit == LegitimateUser(c, Deviations(c, b, ip), EffectiveSensitivity(ip.seen))
        sum == Capped(rel, abs) + abs - Bonus(c, legit)
    IN  IF Inactive(c, b) /\ abs < ScoreMedium THEN Least(sum, ScoreMedium) ELSE sum

\* baseline.IsConfident(CONFIDENCE_MIN_FOR_BLOCK) of any window: it reads the
\* stored confidence, which a baseline that is not ready does not report.
AnyConfident(bs) == \E i \in 1..3 : bs[i].storedConfidence >= 10

\* The score of an address: the highest of its windows, kept below ScoreHigh when
\* no baseline is trusted at all.
FinalScore(cs, bs, ip) ==
    LET best == Least(Max({WindowScore(cs[i], bs[i], ip) : i \in 1..3} \cup {0}), 2 * ScoreHigh)
    IN  IF best >= ScoreHigh /\ ScoreHigh > 0 /\ ~AnyConfident(bs) THEN ScoreHigh - 1 ELSE best

IsHigh(score) == score >= ScoreHigh /\ ScoreHigh > 0

\* GetLocalScores: the frequency signal is the sum of the relative details.
FrequencyScore(cs, bs, ip) ==
    Least(Max({MapThenSumSet(LAMBDA d : Details(cs[i], bs[i], ip)[d], RelDims) : i \in 1..3}),
          ScoreHigh)
-----------------------------------------------------------------------------
\* The same windows with one more hit of feature f in each.
OneMore(cs, f) == [i \in 1..3 |-> [cs[i] EXCEPT ![f] = @ + 1]]

\* One more hit of an attack among the same requests never lowers the score:
\* no mitigation, cap or bonus turns an attack into an excuse.
AttackNeverLowers(cs, bs, ip) ==
    \A f \in {"danger", "traversal", "method", "upload", "botUA", "sensPath"} :
        FinalScore(OneMore(cs, f), bs, ip) >= FinalScore(cs, bs, ip)

\* However fast an address asks, and without any Referer, requests that fail in no
\* way and match nothing do not make it a candidate for a block.
SpikeAloneIsNotHigh(cs, bs, ip) ==
    (\A i \in 1..3 : /\ \A d \in RelDims \ {"qps", "emptyRef"} : cs[i][d] = 0
                     /\ AbsoluteScore(cs[i]) = 0) => ~IsHigh(FinalScore(cs, bs, ip))

\* A browser that loads the page's files, names the pages it comes from and has no hit
\* of an attack's features is not a candidate, however many pages are missing or
\* forbidden.  (Errors of the server, HEAD requests, empty Referers and the few hits that
\* NoAttackFeature lets a browser have are not mitigated: with them even a user may be.)
UserIsNotHigh(cs, bs, ip) ==
    (\A i \in 1..3 : /\ cs[i].staticRes > 0
                     /\ \A d \in RelDims \ {"qps", "status4xx", "status404"} : cs[i][d] = 0
                     /\ LegitimateUser(cs[i], Deviations(cs[i], bs[i], ip),
                                       EffectiveSensitivity(ip.seen)))
        => ~IsHigh(FinalScore(cs, bs, ip))
=============================================================================
