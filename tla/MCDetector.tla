----------------------------- MODULE MCDetector -----------------------------
(***************************************************************************)
(* The detectors, the decision engine and the statistics for TLC.  Their   *)
(* pure functions are checked over bounded inputs, a behaviour being one   *)
(* call; of the stateful parts, which share no state, each behaviour is    *)
(* one.                                                                    *)
(***************************************************************************)
EXTENDS Calls, Baseline, Window, Detector, ResourceBaseline, PortScan, Stats, TLC

CONSTANT Parts     \* the parts that the run checks

VARIABLE part      \* the one this behaviour is of

vars == <<part, call, baseVars, windowVars, detectorVars, resourceVars, portVars, statsVars>>

-----------------------------------------------------------------------------
(* Inputs of the pure functions. *)

\* The weights of DefaultDetectorCfg.
MCWeights == [danger |-> 5, method |-> 3, upload |-> 20]

\* Counts of one address: n requests with some of them failing or matching.
AllCounts == UNION {
    [total : {n}, status4xx : {0, n \div 2, n}, status5xx : {0, n}, status404 : {0, 3},
     authFail : {0}, sensPath : {0, 2}, botUA : {0, 1}, emptyRef : {0, n}, head : {0},
     staticRes : {0, 1}, danger : {0, 2}, traversal : {0}, method : {0}, upload : {0, 2},
     browser : {0, n}, distinct4xx : {1}] : n \in {4, 6, 600}}

\* A request has one status, and a 404 does not count as a 4xx.
Counts == {c \in AllCounts : c.status4xx + c.status5xx + c.status404 <= c.total}

\* No setting of detector.consistency.
MCUserThresholds == [ringCapacity |-> 0]

Learnt(size, conf, stored) ==
    [windowSec |-> size, p95 |-> [d \in RelDims |-> IF d = "qps" THEN 500 ELSE 20],
     thresholds |-> <<20, 50, 100>>, guardQPS |-> 300,
     confidence |-> conf, storedConfidence |-> stored]

ScorerCalls ==
    [f : {"Score"}, cs : {<<c, c, c>> : c \in Counts},
     bs : {<<Learnt(10, k, s), Learnt(30, k, s), Learnt(60, k, s)>> :
              k \in {20, 60}, s \in {60}},
     ip : {[seen |-> 25, qpsEMA |-> 10], [seen |-> 5, qpsEMA |-> 0]}]

\* Requests of one address: blocks of requests for a path, one block after the
\* other or in turn; and scans that never ask for a path twice.
Page(seg, name) == [seg |-> seg, name |-> name, kind |-> "dynamic"]

Rec(p, m, s) == [path |-> p, method |-> m, status |-> s]

BlockPaths == <<Page(1, 1), Page(1, 2), Page(2, 3)>>

Blocks(n, st, m, inTurn) ==
    [i \in 1..(n[1] + n[2] + n[3]) |->
        LET b == IF inTurn THEN (i % 3) + 1
                 ELSE IF i <= n[1] THEN 1 ELSE IF i <= n[1] + n[2] THEN 2 ELSE 3
        IN  Rec(BlockPaths[b], m, st[b])]

Scan(n, segs, st, m) ==
    [i \in 1..n |-> Rec(Page(i % segs, i), m, IF i % 2 = 0 THEN st ELSE 404)]

ConsistencyCalls ==
    [f : {"Consistency"}, recs :
        {Blocks(n, st, m, t) : n \in {<<20, 0, 0>>, <<5, 10, 5>>, <<12, 6, 12>>, <<18, 1, 0>>},
                               st \in {<<404, 404, 404>>, <<500, 404, 404>>, <<404, 200, 200>>},
                               m \in {"GET", "POST"}, t \in BOOLEAN}
        \cup {Scan(n, k, st, m) : n \in {19, 20, 23, 40}, k \in {1, 2, 7, 40}, st \in {200, 404},
                                  m \in {"GET", "POST", "HEAD"}}]

RingCalls ==
    [f : {"Ring"}, capacity : 1..4, recs : {[i \in 1..n |-> i] : n \in 0..9}]

\* Paths: a directory, a step that may lead out of it, and a page.
Tok(t, enc) == [t |-> t, enc |-> enc]

Slash == Tok("/", <<>>)

MCSkipPaths == {<<Slash, Tok("skip", <<>>), Slash>>, <<Slash, Tok("..", <<>>), Slash>>}

MCHoneypotPaths ==
    {<<Slash, Tok("trap", <<>>)>>, <<Slash, Tok("x", <<>>), Slash, Tok("trap", <<>>)>>}

MCSensitivePaths == {<<"trap">>, <<"x", "trap">>}

Encs == {<<>>, <<"url">>, <<"url", "url">>, <<"hex", "html">>, <<"html", "unicode", "url">>}

PathCalls ==
    [f : {"Path"}, path :
        {<<Slash, Tok(dir, <<>>), Tok(sep, e), Tok(step, d), Tok(sep, e), Tok(page, e)>> \o end :
            dir \in {"skip", "x"}, sep \in {"/", "\\"}, e \in Encs, step \in {".", "..", "x"},
            d \in Encs, page \in {"trap", "skip"},
            end \in {<<>>, <<Slash>>, <<Tok("?", <<>>), Tok("x", <<>>)>>,
                     <<Tok("%", <<>>)>>, <<Tok("%", <<"url">>)>>}}]

BodyTexts == {{}, {[pattern |-> "select", enc |-> 0]}, {[pattern |-> "select", enc |-> 1]},
              {[pattern |-> "eval", enc |-> 0], [pattern |-> "select", enc |-> 2]}}

BodyFields == [name : {{}, {[pattern |-> "select", enc |-> 0]}}, value : BodyTexts]

BodyCalls ==
    [f : {"Body"}, body :
        [type : {"json", "xml", "form", "multipart", "text"}, wellFormed : BOOLEAN,
         doctype : BOOLEAN, fields : UNION {[1..n -> BodyFields] : n \in 0..3}]]

DecideCalls ==
    [f : {"Decide"}, more : {1, 5},
     ts : [score : {0, 50, 85, 89, 90, 100}, source : {"global", "private"},
           votes : {0, 1, 2, 3, 4, 5, 9, 10, 19, 20, 50}],
     local : {Neutral} \cup [freq : {0, 50}, detector : {0, 100}],
     w : {DefaultWeights} \cup {v \in [cloud : {1, 6, 13, 14}, local : {1, 4}, detector : {1, 5}] :
                                   Accepted(v)}]

MCInputs == ScorerCalls \cup ConsistencyCalls \cup RingCalls \cup PathCalls \cup BodyCalls
                \cup DecideCalls

-----------------------------------------------------------------------------
(* Inputs of the baseline: counts of addresses in a window, and logs. *)

Cnt(t, e) == [total |-> t, n4xx |-> e, n404 |-> 0, botUA |-> 0, danger |-> 0, traversal |-> 0]

Attacker(t) == [Cnt(t, 0) EXCEPT !.danger = 3]

MCCounterSets ==
    {<<>>, <<Attacker(900)>>, <<Cnt(3, 0)>>, <<Cnt(8, 0), Cnt(12, 1)>>,
     <<Cnt(6, 1), Cnt(10, 0), Cnt(20, 2), Cnt(30, 0), Cnt(45, 0)>>,
     <<Cnt(6, 1), Cnt(9000, 0), Cnt(10, 0), Cnt(20, 2), Cnt(30, 0), Cnt(45, 0), Cnt(12000, 0),
       Cnt(9500, 0), Cnt(11000, 0)>>,
     <<Cnt(10, 0), Cnt(10, 0), Cnt(10, 0), Cnt(10, 0), Cnt(10, 0), Cnt(9000, 0)>>,
     <<Cnt(6, 5), Cnt(10, 10), Cnt(20, 2), Cnt(30, 0), Attacker(45), Cnt(45, 40)>>,
     [i \in 1..12 |-> Cnt(6 + (i % 2), 0)]}

Bucket(i, t, e) == [start |-> 5 * i, end |-> 5 * i + 4, total |-> t, n4xx |-> e]

MCLogs == {<<Bucket(1, 3, 0)>>, <<Bucket(1, 3000, 100), Bucket(2, 3, 0)>>,
           <<Bucket(1, 300, 0), Bucket(2, 600, 3), Bucket(3, 10, 0), Bucket(9, 300, 0),
             Bucket(15, 900, 30)>>,
           [i \in 1..8 |-> Bucket(i, 100 * i, 0)]}

-----------------------------------------------------------------------------
(* Inputs of the windows, the confirmation and the identifiers. *)

NoBody == [type |-> "", wellFormed |-> TRUE, doctype |-> FALSE, fields |-> <<>>]

WebPage(n) == <<[t |-> "/", enc |-> <<>>], [t |-> n, enc |-> <<>>]>>

Ev(status, n, climbs) ==
    [path |-> WebPage(n), traversal |-> climbs, method |-> "GET", status |-> status,
     binary |-> FALSE, source |-> "nginx_access", authFailed |-> FALSE, ua |-> {"chrome/"},
     referer |-> TRUE, static |-> FALSE, body |-> NoBody,
     file |-> [ext |-> "", mime |-> "", exts |-> <<>>]]

MCEvents == {Ev(404, "x", FALSE), Ev(404, "y", FALSE), Ev(403, "y", TRUE)}

MCSizes == <<1, 2, 3>>

MCNone == {}

\* Candidates for two pages, of which one comes from a trusted subnet, a fatal
\* attack, a honeypot, and a series that looks harmless.
Candidate ==
    [page |-> "p", score |-> 12, idor |-> 0, whitelisted |-> FALSE, loopback |-> FALSE,
     honeypot |-> FALSE, skipped |-> FALSE, benign |-> FALSE, trusted |-> FALSE, sure |-> FALSE]

MCCases == {Candidate,
            [Candidate EXCEPT !.page = "q", !.score = 9, !.idor = 1, !.trusted = TRUE,
                              !.benign = TRUE],
            [Candidate EXCEPT !.sure = TRUE],
            [Candidate EXCEPT !.honeypot = TRUE, !.page = "t"],
            [Candidate EXCEPT !.benign = TRUE]}

MCMatches == [i \in 1..4 |-> [p \in {"orders"} |-> IF i = 4 THEN 0 ELSE i]]

MCWindowSecs == [p \in {"orders"} |-> 2]

MCMaxIDs == [p \in {"orders"} |-> 1]

MCPortSizes == <<1, 2, 2>>

MCMaxPorts == <<1, 1, 1>>

Symmetry == Permutations(Addresses)

-----------------------------------------------------------------------------
NoCall == [f |-> "none"]

Init ==
    /\ part \in Parts
    /\ IF part = "calls" THEN CallInit ELSE call = NoCall
    /\ BaseInit /\ WindowInit /\ DetectorInit /\ ResourceInit /\ PortInit /\ StatsInit

Next ==
    /\ UNCHANGED <<part, call>>
    /\ \/ /\ part = "baseline" /\ BaseNext
          /\ UNCHANGED <<windowVars, detectorVars, resourceVars, portVars, statsVars>>
       \/ /\ part = "window" /\ WindowNext
          /\ UNCHANGED <<baseVars, detectorVars, resourceVars, portVars, statsVars>>
       \/ /\ part = "confirmation" /\ DetectorNext
          /\ UNCHANGED <<baseVars, windowVars, resourceVars, portVars, statsVars>>
       \/ /\ part = "resources" /\ ResourceNext
          /\ UNCHANGED <<baseVars, windowVars, detectorVars, portVars, statsVars>>
       \/ /\ part = "ports" /\ PortNext
          /\ UNCHANGED <<baseVars, windowVars, detectorVars, resourceVars, statsVars>>
       \/ /\ part = "stats" /\ StatsNext
          /\ UNCHANGED <<baseVars, windowVars, detectorVars, resourceVars, portVars>>

Spec == Init /\ [][Next]_vars
=============================================================================
