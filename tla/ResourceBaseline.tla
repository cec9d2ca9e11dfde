-------------------------- MODULE ResourceBaseline --------------------------
(***************************************************************************)
(* The count of distinct identifiers an address asks for, a sign that it   *)
(* walks through other users' data (detector/resource_baseline.go).  The   *)
(* event loop checks a request in two critical sections: it looks the      *)
(* address up under the read lock and counts under the write lock.  The    *)
(* eviction loop runs between requests, and between the two sections.      *)
(***************************************************************************)
EXTENDS Integers, FiniteSets

CONSTANTS Callers,         \* addresses
          Patterns,        \* the compiled patterns
          NoId,            \* a path the pattern does not match
          Matches,         \* path -> pattern -> identifier or NoId
          WindowSecs,      \* pattern -> seconds
          MaxIDs,          \* pattern -> identifiers allowed
          MaxSec,          \* bound on the clock
          MaxChecks        \* bound on the requests of a behaviour

ASSUME ResourceAssumption ==
    /\ WindowSecs \in [Patterns -> Nat \ {0}] /\ MaxIDs \in [Patterns -> Nat \ {0}]

VARIABLES windows,         \* ResourceBaseline.windows: address -> pattern -> window
          check,           \* the request the event loop checks
          second,          \* the clock
          crashed,         \* a loop met a window that was never made
          asked            \* every identifier asked for, and what its check said

resourceVars == <<windows, check, second, crashed, asked>>

NoCheck == [step |-> "none"]

NoWindow == [made |-> FALSE, ids |-> <<>>]

\* Mutant: an identifier lives a second longer.
LiveLonger(ids, w, sec) == [id \in {i \in DOMAIN ids : ids[i] >= sec - w} |-> ids[id]]

\* The identifiers first asked for within w seconds.
Live(ids, w, sec) == [id \in {i \in DOMAIN ids : ids[i] > sec - w} |-> ids[id]]

\* An identifier that is there already keeps its time.
Added(ids, id, sec) ==
    [i \in DOMAIN ids \cup {id} |-> IF i \in DOMAIN ids THEN ids[i] ELSE sec]

\* One request is added to the windows of the patterns it matches.
Noted(ws, path, sec) ==
    [p \in Patterns |->
        IF Matches[path][p] = NoId THEN ws[p]
        ELSE [made |-> TRUE,
              ids |-> Added(Live(ws[p].ids, WindowSecs[p], sec), Matches[path][p], sec)]]

Exceeds(ws, path) ==
    {p \in Patterns : Matches[path][p] # NoId /\ Cardinality(DOMAIN ws[p].ids) > MaxIDs[p]}
-----------------------------------------------------------------------------
ResourceInit ==
    /\ windows = <<>>
    /\ check = NoCheck
    /\ second = 1
    /\ crashed = FALSE
    /\ asked = {}

\* Check takes the time and looks the address up.
LookUp(a, path) ==
    /\ check = NoCheck /\ ~crashed
    /\ Cardinality(asked) < MaxChecks
    /\ check' = [step |-> "count", ip |-> a, path |-> path, sec |-> second,
                 exists |-> a \in DOMAIN windows, evicted |-> FALSE]
    /\ UNCHANGED <<windows, second, crashed, asked>>

\* Check counts, in the windows it found: the map may no longer hold them.
Count ==
    LET a    == check.ip
        path == check.path
        old  == IF check.exists /\ ~check.evicted THEN windows[a]
                ELSE [p \in Patterns |-> NoWindow]
        new  == Noted(old, path, check.sec)
    IN  /\ check.step = "count" /\ ~crashed
        /\ windows' = IF check.evicted THEN windows
                      ELSE [b \in DOMAIN windows \cup {a} |-> IF b = a THEN new ELSE windows[b]]
        /\ asked' = asked \cup {[ip |-> a, path |-> path, sec |-> check.sec,
                                 n |-> Cardinality(asked), over |-> Exceeds(new, path)]}
        /\ check' = NoCheck
        /\ UNCHANGED <<second, crashed>>

IdleCallers(pruned) == {a \in DOMAIN pruned : \A p \in Patterns : pruned[a][p].ids = <<>>}

\* Evict, every 30 seconds: a window that was never made ends the process.
EvictWindows ==
    LET pruned == [a \in DOMAIN windows |->
                      [p \in Patterns |->
                          [windows[a][p] EXCEPT !.ids = Live(@, WindowSecs[p], second)]]]
        gone == IdleCallers(pruned)
    IN  /\ windows # <<>> /\ ~crashed
        /\ IF \E a \in DOMAIN windows, p \in Patterns : ~windows[a][p].made
           THEN crashed' = TRUE /\ UNCHANGED <<windows, check>>
           ELSE /\ windows' = [a \in DOMAIN windows \ gone |-> pruned[a]]
                /\ check' = IF check.step = "count" /\ check.exists /\ check.ip \in gone
                            THEN [check EXCEPT !.evicted = TRUE] ELSE check
                /\ UNCHANGED crashed
        /\ UNCHANGED <<second, asked>>

\* A check takes less than a second.
PassSecond ==
    /\ second < MaxSec /\ ~crashed /\ check = NoCheck
    /\ second' = second + 1
    /\ UNCHANGED <<windows, check, crashed, asked>>

ResourceNext ==
    \/ \E a \in Callers, path \in DOMAIN Matches : LookUp(a, path)
    \/ Count
    \/ EvictWindows
    \/ PassSecond

ResourceSpec == ResourceInit /\ [][ResourceNext]_resourceVars
-----------------------------------------------------------------------------
\* The checks of pattern p by the address of check c in the window that c ends.
Within(c, p) ==
    {d \in asked : /\ d.ip = c.ip /\ d.n <= c.n /\ Matches[d.path][p] # NoId
                   /\ d.sec > c.sec - WindowSecs[p]}

IdsOf(cs, p) == {Matches[d.path][p] : d \in cs}

\* An address is only held to walk through identifiers when it asked for more than
\* allowed within the window.
OnlyWalkersScore ==
    \A c \in asked : \A p \in c.over : Cardinality(IdsOf(Within(c, p), p)) > MaxIDs[p]

\* The identifiers that the address asks for again are counted from the first time.
Anew(c, p) ==
    IdsOf({d \in Within(c, p) :
              \A e \in asked : e.ip = d.ip /\ e.n < d.n /\ Matches[e.path][p] = Matches[d.path][p]
                                 => e.sec <= d.sec - WindowSecs[p]}, p)

\* Whatever eviction does between the two critical sections, a check misses at most
\* one identifier of its window.
AtMostOneMissed ==
    \A c \in asked, p \in Patterns :
        /\ Matches[c.path][p] # NoId
        /\ Cardinality(Anew(c, p)) > MaxIDs[p] + 1
        => p \in c.over

\* "A path that path_regex does not match is skipped silently"
\* (resource_baseline.go:45): it does no harm.
UnmatchedIsSkipped == ~crashed

\* Check finds those who walk through identifiers, all but for one identifier, and nobody
\* else, in whatever order calls and evictions come.
WalksAreCounted == OnlyWalkersScore /\ AtMostOneMissed

=============================================================================
