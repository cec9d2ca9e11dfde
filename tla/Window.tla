------------------------------- MODULE Window -------------------------------
(***************************************************************************)
(* The sliding windows of counts per address (detector/window.go).  The    *)
(* event loop records one request at a time, in steps between which the    *)
(* eviction loop may run: the time of the request moves the anchor of all  *)
(* windows, the entry of the address is found or made, the request is      *)
(* written to it, and the counts are read.  Requests carry the time of     *)
(* their log line, which may lie behind that of another log's line.        *)
(***************************************************************************)
EXTENDS Integers, Sequences, FiniteSets, Functions, Requests

CONSTANTS Addresses,
          Events,          \* requests, as Classify takes them
          Sizes,           \* the sizes of the three windows, ascending
          Idle,            \* seconds after which an entry is evicted
          MaxNow,          \* bound on the clock
          MaxWrites        \* bound on the requests of a behaviour

VARIABLES ips,             \* SlidingWindow.ips: address -> entry
          lastEventSec,    \* SlidingWindow.lastEventSec
          recording,       \* the request the event loop is at, or NoRequest
          clock,           \* the clock, in seconds
          written          \* what was written to each entry since it was made

windowVars == <<ips, lastEventSec, recording, clock, written>>

ASSUME WindowSizes == Sizes \in [1..3 -> Nat \ {0}]

NoRequest == [step |-> "none"]

NoCounts == [k \in Kinds |-> 0]

Widest == Sizes[3]

\* What the requests count for, and the roots of their paths.
Class == [ev \in Events |-> Classify(ev)]

\* Every count of a request is a number: the events are well formed.
ASSUME ClassAssumption == \A ev \in Events : Class[ev] \in [Kinds -> Nat]

Root == [ev \in Events |-> Base404(Cleaned(ev.path))]

\* newIPWindow, and the entry getOrCreateEntry makes.
NewEntry(sec) ==
    [last |-> sec, seen |-> 0, bases404 |-> <<>>, bases4xx |-> <<>>,
     buckets |-> [i \in 1..3 |-> [p \in 0..(Sizes[i] - 1) |-> [second |-> 0, n |-> NoCounts]]]]

\* Mutant: the bucket of an older second is added to.
BucketRecordStale(b, sec, counts) ==
    [second |-> sec,
     n |-> [k \in Kinds |-> b.n[k] + (IF k = "traversal" THEN 0 ELSE counts[k])]]

\* ipWindow.record: the bucket of another second is emptied first.  The count of
\* traversals is not added.
BucketRecord(b, sec, counts) ==
    [second |-> sec,
     n |-> [k \in Kinds |-> (IF b.second = sec THEN b.n[k] ELSE 0)
                            + (IF k = "traversal" THEN 0 ELSE counts[k])]]

\* ipWindow.sum.
LiveBuckets(buckets, since) == {p \in DOMAIN buckets : buckets[p].second > since}

Sum(e, i, sec, k) ==
    SumFunctionOnSet([p \in DOMAIN e.buckets[i] |-> e.buckets[i][p].n[k]],
                     LiveBuckets(e.buckets[i], sec - Sizes[i]))

\* addPath: the path was asked for at that second.
Stamped(f, b, sec) == [c \in DOMAIN f \cup {b} |-> IF c = b THEN sec ELSE f[c]]

Bases(f, since) == Cardinality({b \in DOMAIN f : f[b] > since})

\* Counters: the count of 404s is that of their roots, and so are the paths with
\* other 4xx; neither exceeds the requests counted.
Counters(e, i, sec) ==
    LET since == sec - Sizes[i]
    IN  [k \in Kinds \cup {"distinct4xx"} |->
            CASE k = "distinct4xx" -> Min({Sum(e, i, sec, "n4xx"), Bases(e.bases4xx, since)})
              [] k = "n404" /\ DOMAIN e.bases404 # {} ->
                    Min({Sum(e, i, sec, k), Bases(e.bases404, since)})
              [] OTHER -> Sum(e, i, sec, k)]

Fresh(f, since) == [b \in {c \in DOMAIN f : f[c] > since} |-> f[b]]
-----------------------------------------------------------------------------
WindowInit ==
    /\ ips = <<>>
    /\ lastEventSec = 0
    /\ recording = NoRequest
    /\ clock = 1
    /\ written = [a \in Addresses |-> <<>>]

\* Record takes the time of the log line and moves the anchor.
Anchor(a, ev, sec) ==
    /\ recording = NoRequest
    /\ SumFunction([b \in Addresses |-> Len(written[b])]) < MaxWrites
    /\ recording' = [step |-> "entry", ip |-> a, ev |-> ev, sec |-> sec, live |-> FALSE]
    /\ lastEventSec' = IF sec > lastEventSec THEN sec ELSE lastEventSec
    /\ UNCHANGED <<ips, clock, written>>

\* getOrCreateEntry.
FindEntry ==
    /\ recording.step = "entry"
    /\ ips' = [a \in DOMAIN ips \cup {recording.ip} |->
                  IF a \in DOMAIN ips THEN ips[a] ELSE NewEntry(recording.sec)]
    /\ recording' = [recording EXCEPT !.step = "write", !.live = TRUE]
    /\ UNCHANGED <<lastEventSec, clock, written>>

\* The request ev at sec is written to the entry e.
EntryAfter(e, ev, sec) ==
    [last |-> sec, seen |-> e.seen + 1,
     bases404 |-> IF Class[ev].n404 = 1 THEN Stamped(e.bases404, Root[ev], sec) ELSE e.bases404,
     bases4xx |-> IF Class[ev].n4xx = 1 THEN Stamped(e.bases4xx, Root[ev], sec) ELSE e.bases4xx,
     buckets |-> [i \in 1..3 |-> [e.buckets[i] EXCEPT ![sec % Sizes[i]] =
                                       BucketRecord(@, sec, Class[ev])]]]

\* Record writes to the entry that was found, evicted or not.
Write ==
    LET a == recording.ip
        r == recording
    IN  /\ r.step = "write"
        /\ IF ~r.live THEN UNCHANGED <<ips, written>>
           ELSE /\ ips' = [ips EXCEPT ![a] = EntryAfter(@, r.ev, r.sec)]
                /\ written' = [written EXCEPT ![a] = Append(@, [sec |-> r.sec, ev |-> r.ev])]
        /\ recording' = [recording EXCEPT !.step = "count"]
        /\ UNCHANGED <<lastEventSec, clock>>

\* Process reads the counts, which forgets the roots that left the widest window.
ReadCounters ==
    LET a == recording.ip
        since == lastEventSec - Widest
    IN  /\ recording.step = "count"
        /\ ips' = IF a \notin DOMAIN ips THEN ips
                  ELSE [ips EXCEPT ![a].bases404 = Fresh(@, since), ![a].bases4xx = Fresh(@, since)]
        /\ recording' = NoRequest
        /\ UNCHANGED <<lastEventSec, clock, written>>

\* Evict, every minute: by the clock, and by the time of the last request written.
\* Mutant: by that of the first.
IdlersByFirst ==
    {a \in DOMAIN ips : written[a] # <<>> /\ written[a][1].sec <= clock - Idle}

Idlers == {a \in DOMAIN ips : ips[a].last <= clock - Idle}

Evict ==
    /\ Idlers # {}
    /\ ips' = [a \in DOMAIN ips \ Idlers |-> ips[a]]
    /\ written' = [a \in Addresses |-> IF a \in Idlers THEN <<>> ELSE written[a]]
    /\ recording' = IF recording.step = "write" /\ recording.ip \in Idlers
                    THEN [recording EXCEPT !.live = FALSE] ELSE recording
    /\ UNCHANGED <<lastEventSec, clock>>

Second ==
    /\ clock < MaxNow
    /\ clock' = clock + 1
    /\ UNCHANGED <<ips, lastEventSec, recording, written>>

WindowNext ==
    \/ \E a \in Addresses, ev \in Events, sec \in 1..clock : Anchor(a, ev, sec)
    \/ FindEntry
    \/ Write
    \/ ReadCounters
    \/ Evict
    \/ Second

WindowSpec == WindowInit /\ [][WindowNext]_windowVars
-----------------------------------------------------------------------------
\* The requests of an address that lie in window i, and the count of one kind.
InWindow(a, i) ==
    {j \in DOMAIN written[a] : written[a][j].sec > lastEventSec - Sizes[i]}

Expected(a, i, k) ==
    SumFunctionOnSet([j \in DOMAIN written[a] |-> Class[written[a][j].ev][k]], InWindow(a, i))

ExpectedRoots(a, i, k) ==
    Cardinality({Root[written[a][j].ev] :
                    j \in {l \in InWindow(a, i) : Class[written[a][l].ev][k] = 1}})

Occurring == {k \in Kinds : \E ev \in Events : Class[ev][k] > 0}

InOrder(a) ==
    \A j, l \in DOMAIN written[a] : j < l => written[a][j].sec <= written[a][l].sec

\* No request counts twice or after it left the window, in whatever order the lines
\* of several logs arrive: a count never exceeds what was recorded.
NeverOvercounts ==
    \A a \in DOMAIN ips, i \in 1..3 :
        LET c == Counters(ips[a], i, lastEventSec)
        IN  \A k \in Occurring : c[k] <= Expected(a, i, k)

\* While the lines of an address arrive in their order, all of them count (but for
\* traversals), in every window, whatever others do to the anchor; the 404s count
\* once for each root that still lies in the window, and so do other 4xx.
CountsInOrder ==
    \A a \in DOMAIN ips, i \in 1..3 :
        LET c == Counters(ips[a], i, lastEventSec)
        IN  InOrder(a) =>
                /\ \A k \in Occurring \ {"n404", "traversal"} : c[k] = Expected(a, i, k)
                /\ c.n404 = ExpectedRoots(a, i, "n404")
                /\ c.distinct4xx = ExpectedRoots(a, i, "n4xx")

\* Eviction forgets nothing that a window would still count by the clock, unless a
\* late line made the entry look older than it is.
EvictForgetsNothing ==
    [][\A a \in DOMAIN ips \ DOMAIN ips' :
          InOrder(a) => \A j \in DOMAIN written[a] : written[a][j].sec <= clock - Widest]_windowVars

\* Every attempt at a path traversal counts (comment of Event.PathTraversal).
TraversalIsCounted ==
    \A a \in DOMAIN ips : Counters(ips[a], 3, lastEventSec).traversal = Expected(a, 3, "traversal")

\* The counts of a window: never too much, and nothing lost that arrives in order.
WindowCounts == NeverOvercounts /\ CountsInOrder

=============================================================================
