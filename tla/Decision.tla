------------------------------ MODULE Decision ------------------------------
(***************************************************************************)
(* The decision engine of the cloud synchronisation                        *)
(* (agent/internal/cloudsync/decision.go): what the agent does with the    *)
(* score that the cloud gives an address, the number of tenants that       *)
(* reported it, and the two scores of its own detector.                    *)
(*                                                                         *)
(* Scores are 0 .. 100.  A weight is in tenths and a confidence in         *)
(* hundredths, so that a sum of weighted scores is in thousandths.         *)
(***************************************************************************)
EXTENDS Integers

CONSTANT LocalHigh     \* detector.score_high, the cap of the detector's frequency score

BlockThreshold == 80
AlertThreshold == 50
MinVotes == 20         \* CONSENSUS_MIN_VOTES
MinScore == 90         \* CONSENSUS_MIN_SCORE

DefaultWeights == [cloud |-> 4, local |-> 3, detector |-> 3]

\* SetDecisionWeights: the weights that the cloud may set.
Accepted(w) ==
    /\ w.cloud > 0 /\ w.local > 0 /\ w.detector > 0
    /\ w.cloud + w.local + w.detector \in 5 .. 15

\* What the agent knows of an address it has not seen for a minute.
Neutral == [freq |-> 50, detector |-> 50]

\* GetLocalScores: the frequency score is capped at score_high, the other at twice that.
LocalScores == [freq : 0 .. LocalHigh, detector : 0 .. 2 * LocalHigh]

\* Mutant: a single vote is like an unknown number of votes.
MultiplierLoneVote(votes) ==
    CASE votes >= MinVotes -> 100
      [] votes \in 10 .. MinVotes - 1 -> 90
      [] votes \in 5 .. 9 -> 75
      [] votes \in 3 .. 4 -> 60
      [] OTHER -> 70

\* cloudConfidenceMultiplier; two votes are like an unknown number.
Multiplier(votes) ==
    CASE votes >= MinVotes -> 100
      [] votes \in 10 .. MinVotes - 1 -> 90
      [] votes \in 5 .. 9 -> 75
      [] votes \in 3 .. 4 -> 60
      [] votes = 1 -> 40
      [] OTHER -> 70

Confidence(ts) ==
    IF ts.source = "global" /\ ts.votes > 0 THEN Multiplier(ts.votes) ELSE 70

\* shouldTriggerConsensusFastPath.
IsConsensus(ts) ==
    ts.source = "global" /\ ts.votes >= MinVotes /\ ts.score >= MinScore

AtMost(n, high) == IF n > high THEN high ELSE n

Final(ts, local, w) ==
    AtMost(ts.score * Confidence(ts) * w.cloud
            + 100 * (AtMost(local.freq, 100) * w.local + AtMost(local.detector, 100) * w.detector),
          100 * 1000)

Decide(ts, local, w) ==
    IF IsConsensus(ts) \/ Final(ts, local, w) >= BlockThreshold * 1000 THEN "block"
    ELSE IF Final(ts, local, w) >= AlertThreshold * 1000 THEN "alert" ELSE "ignore"

-----------------------------------------------------------------------------
(* Properties of a call. *)

\* One tenant cannot have an address blocked that the agent knows nothing against,
\* whatever weights the cloud set and it accepted (decision.go:151, against false
\* reports that spread through the global pool).
LoneTenantBlocksNobody(ts, local, w) ==
    /\ Accepted(w) /\ ts.source = "global" /\ ts.votes = 1
    /\ local.freq <= Neutral.freq /\ local.detector <= Neutral.detector
    => Decide(ts, local, w) # "block"

\* With the default weights the score of an address that fewer than ten tenants
\* reported, or of the tenant's own pool, never blocks it, not even together with
\* the highest scores that the agent's detector can give: the frequency score is
\* capped at score_high.
TenTenantsToBlock(ts, local) ==
    /\ local \in LocalScores
    /\ ts.source # "global" \/ ts.votes < 10
    => Decide(ts, local, DefaultWeights) # "block"

\* More of anything that speaks against an address never has it judged less severely;
\* votes are compared from three on, as two count as an unknown number.
Severity(action) == CASE action = "block" -> 2 [] action = "alert" -> 1 [] OTHER -> 0

MoreIsWorse(ts, local, w, more) ==
    LET worse == [ts EXCEPT !.score = AtMost(@ + more, 100), !.votes = @ + more]
        stronger == [freq |-> local.freq + more, detector |-> local.detector + more]
    IN  ts.source # "global" \/ ts.votes >= 3
        => /\ Severity(Decide(ts, local, w)) <= Severity(Decide(worse, local, w))
           /\ Severity(Decide(ts, local, w)) <= Severity(Decide(ts, stronger, w))
=============================================================================
