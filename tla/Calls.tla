------------------------------- MODULE Calls -------------------------------
(***************************************************************************)
(* The functions that decide what an address did, each without a state of  *)
(* its own: the score, the consistency and its ring, what is read of a     *)
(* path and of a body, and the decision.  A behaviour is one call of one   *)
(* of them after the other, each with what the code may give it.           *)
(***************************************************************************)
EXTENDS Scorer, Consistency, Requests, Decision

CONSTANT Inputs     \* the calls: the function's name and its arguments

VARIABLE call

-----------------------------------------------------------------------------
(* What the functions are given. *)

\* What the code counts of an address in a window, ...
CountsOfWindow ==
    [total : Nat, status4xx : Nat, status5xx : Nat, status404 : Nat, authFail : Nat,
     sensPath : Nat, botUA : Nat, emptyRef : Nat, head : Nat, staticRes : Nat, danger : Nat,
     traversal : Nat, method : Nat, upload : Nat, browser : Nat, distinct4xx : Nat]

\* ... and what it compares that with.
BaselineOfWindow ==
    [windowSec : Nat \ {0}, p95 : [RelDims -> Nat], thresholds : [1..3 -> Nat],
     guardQPS : Nat, confidence : Nat, storedConfidence : Nat]

ThreeBaselines == [1..3 -> BaselineOfWindow]

RatesOfAddress == [seen : Nat, qpsEMA : Nat]

\* A request has one Referer or none.
Referred(cs) == \A i \in 1..3 : cs[i].emptyRef <= cs[i].total

IsList(s) == s \in Seq({s[i] : i \in DOMAIN s})

\* A token of a path as the log writes it: a text under encodings of four kinds.
Encodings == {"url", "unicode", "hex", "html"}

IsToken(t) == t = [t |-> t.t, enc |-> t.enc] /\ t.enc \in Seq(Encodings)

\* Texts: finite sets of patterns, under so many encodings each.
IsText(t) ==
    IsFiniteSet(t) /\ \A w \in t : w = [pattern |-> w.pattern, enc |-> w.enc] /\ w.enc \in Nat

IsField(x) == IsText(x.name) /\ IsText(x.value)

\* What the cloud says of an address, what the agent does, and the weights.
CloudScores == [source : {"global", "private"}, score : 0 .. 100, votes : Nat]

OwnScores == [freq : Nat, detector : Nat]

DecisionWeights == [cloud : Nat, local : Nat, detector : Nat]

IsCall(c) ==
    /\ c.f \in {"Score", "Consistency", "Ring", "Path", "Body", "Decide"}
    /\ c.f = "Score" => /\ c.cs \in [1..3 -> CountsOfWindow] /\ Referred(c.cs)
                        /\ c.bs \in ThreeBaselines /\ c.ip \in RatesOfAddress
    /\ c.f = "Consistency" => IsList(c.recs)
    /\ c.f = "Ring" => c.capacity \in Nat \ {0} /\ IsList(c.recs)
    /\ c.f = "Path" => IsList(c.path) /\ \A i \in DOMAIN c.path : IsToken(c.path[i])
    /\ c.f = "Body" => /\ IsList(c.body.fields)
                       /\ \A i \in DOMAIN c.body.fields : IsField(c.body.fields[i])
    /\ c.f = "Decide" => /\ c.ts \in CloudScores /\ c.local \in OwnScores
                         /\ c.w \in DecisionWeights /\ c.more \in Nat

ASSUME CallsAssumption == \A c \in Inputs : IsCall(c)

CallInit == call \in Inputs

CallNext == call' \in Inputs

CallSpec == CallInit /\ [][CallNext]_call

-----------------------------------------------------------------------------
(* The properties of a call; the modules of the functions state them. *)

\* Scorer.ScoreWithDetail: one more hit of an attack never lowers the score.
AttackScores == call.f = "Score" => AttackNeverLowers(call.cs, call.bs, call.ip)

\* Scorer.ScoreWithDetail: speed alone makes no candidate for a block.
SpikeScores == call.f = "Score" => SpikeAloneIsNotHigh(call.cs, call.bs, call.ip)

\* Scorer.ScoreWithDetail: a browser's user is no candidate, whatever pages are missing.
UserScores == call.f = "Score" => UserIsNotHigh(call.cs, call.bs, call.ip)

\* consistencyRing: a ring that has wrapped around holds the latest records in order.
RingRecords == call.f = "Ring" => RingKeepsLatest(call.capacity, call.recs)

\* ComputeConsistency: whoever only gets errors is not taken for a user.
WallScores == call.f = "Consistency" => WallIsNotBenign(call.recs)

\* ComputeConsistency: whoever never asks for a path twice is not taken for a user.
ScanScores == call.f = "Consistency" => ScanIsNotBenign(call.recs)

\* normalizePath: the lists of paths judge every spelling as its plain form, if every
\* percent sign of it begins an escape.
PathSpelling == call.f = "Path" => SpellingIsIrrelevant(call.path)

\* normalizePath: a path that is normalised twice is judged as if once, if every percent
\* sign of it begins an escape.
PathTwice == call.f = "Path" => NormalizeTwice(call.path)

\* Process: a path that climbs is noticed although the normalised one does not show it,
\* if every percent sign of it begins an escape.
PathClimbs == call.f = "Path" => TraversalIsSeen(call.path)

\* ScanBody: every value that fits is searched, whether the body parses or not; names
\* only if it does not.
BodyHits == call.f = "Body" => WhatFitsIsScanned(call.body)

\* Decide: one tenant's word blocks nobody, whatever weights the cloud set.
LoneTenant == call.f = "Decide" => LoneTenantBlocksNobody(call.ts, call.local, call.w)

\* Decide: by default only the word of ten tenants can add up to a block.
TenTenants == call.f = "Decide" => TenTenantsToBlock(call.ts, call.local)

\* Decide: more against an address never has it judged less severely.
MoreIsSevere == call.f = "Decide" => MoreIsWorse(call.ts, call.local, call.w, call.more)

\* Scorer.ScoreWithDetail: an attack, a spike and a user's missing pages each get the
\* score they should, whatever the other counts are.
ScoresAreFair == AttackScores /\ SpikeScores /\ UserScores

\* ComputeConsistency: the signs of a user are those of the latest requests, and neither
\* somebody who only gets errors nor one who never comes back shows enough of them.
UsersAreTold == RingRecords /\ WallScores /\ ScanScores

\* normalizePath and ScanBody: no spelling of a path hides from the lists what its plain
\* form shows them, and none of a body's values hides a pattern.  Two exceptions are the
\* code's: one percent sign that begins no escape keeps the path from being decoded, and
\* the names of what parses are not searched.
RequestsAreRead == PathSpelling /\ PathTwice /\ PathClimbs /\ BodyHits

\* Decide: the word of few tenants blocks nobody, and more evidence is never judged
\* less severely.
VerdictsAreFair == LoneTenant /\ TenTenants /\ MoreIsSevere
=============================================================================
