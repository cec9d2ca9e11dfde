------------------------------- MODULE Stats -------------------------------
(***************************************************************************)
(* The statistics of the detector (stats/collector.go) and those who use   *)
(* them: the event loop counts an event and records it, in two critical    *)
(* sections (LogDetail of main.go), and the reporting goroutine makes a    *)
(* report and resets the window, in two more.                              *)
(***************************************************************************)
EXTENDS Integers, Sequences, FiniteSets, Functions

CONSTANTS StatAddresses,   \* the addresses of events
          RecentCap,       \* length of the ring of recent events
          SampleRate,      \* 0 records every event in the ring, n every n-th
          MaxRecords       \* bound on the events

ASSUME StatsAssumption ==
    /\ IsFiniteSet(StatAddresses)
    /\ RecentCap \in Nat \ {0} /\ SampleRate \in Nat /\ MaxRecords \in Nat

VARIABLES window,          \* the counters since the last Reset
          ring,            \* recentEvents, recentIdx and counter
          logging,         \* the event the loop has counted and not recorded, or <<>>
          reporting,       \* the report made before its Reset, or <<>>
          told,            \* processed events of all reports
          unseen,          \* processed events that came between a report and its Reset
          handled,         \* all processed events
          records          \* the numbers of the events put in the ring

statsVars == <<window, ring, logging, reporting, told, unseen, handled, records>>

EmptyWindow ==
    [processed |-> 0, total |-> 0, high |-> 0, medium |-> 0, low |-> 0,
     ips |-> {}, blocks |-> [a \in StatAddresses |-> 0]]

\* What LogDetail gets: the risk of the event and whether it led to a block.  Below
\* score_low, which is positive, an event is only counted, so that what is recorded has
\* a score above 0 and is of medium risk at least: the class "low" stays empty.
Risks == {"below", "medium", "high", "blocked"}

StatsInit ==
    /\ window = EmptyWindow
    /\ ring = [events |-> <<>>, idx |-> 0, counter |-> 0]
    /\ logging = <<>> /\ reporting = <<>>
    /\ told = 0 /\ unseen = 0 /\ handled = 0 /\ records = <<>>

\* LogDetail: IncrementProcessed.
IncrementProcessed(a, risk) ==
    /\ logging = <<>> /\ handled < MaxRecords
    /\ handled' = handled + 1
    /\ window' = [window EXCEPT !.processed = @ + 1]
    /\ logging' = IF risk = "below" THEN <<>> ELSE <<[ip |-> a, risk |-> risk]>>
    /\ UNCHANGED <<ring, reporting, told, unseen, records>>

\* The three classes exclude each other; a block is counted for its address.
RecordedIn(w, ev) ==
    [w EXCEPT !.total = @ + 1,
              !.ips = @ \cup {ev.ip},
              !.high = IF ev.risk \in {"high", "blocked"} THEN @ + 1 ELSE @,
              !.blocks[ev.ip] = IF ev.risk = "blocked" THEN @ + 1 ELSE @,
              !.medium = IF ev.risk = "medium" THEN @ + 1 ELSE @,
              !.low = IF ev.risk = "low" THEN @ + 1 ELSE @]

\* addRecent appends until the ring is full, and then overwrites the oldest.
AddRecent(r, n) ==
    IF Len(r.events) < RecentCap THEN [r EXCEPT !.events = Append(@, n)]
    ELSE [r EXCEPT !.events[r.idx + 1] = n, !.idx = (@ + 1) % RecentCap]

IsSampled == SampleRate = 0 \/ ring.counter % SampleRate = 0

Record ==
    /\ logging # <<>>
    /\ window' = RecordedIn(window, logging[1])
    /\ ring' = [IF IsSampled THEN AddRecent(ring, ring.counter) ELSE ring
                EXCEPT !.counter = @ + 1]
    /\ records' = IF IsSampled THEN Append(records, ring.counter) ELSE records
    /\ logging' = <<>>
    /\ UNCHANGED <<reporting, told, unseen, handled>>

\* At every tick, also when the window is empty: an event may come before its Reset.
GenerateReport ==
    /\ reporting = <<>>
    /\ reporting' = <<window>>
    /\ told' = told + window.processed
    /\ UNCHANGED <<window, ring, logging, unseen, handled, records>>

\* Mutant: the counter of all events goes on.
ResetWindowKeeps == [EmptyWindow EXCEPT !.processed = window.processed]

ResetWindow == EmptyWindow

\* Reset: the ring and its counter stay.
Reset ==
    /\ reporting # <<>>
    /\ unseen' = unseen + window.processed - reporting[1].processed
    /\ window' = ResetWindow
    /\ reporting' = <<>>
    /\ UNCHANGED <<ring, logging, told, handled, records>>

StatsNext ==
    \/ \E a \in StatAddresses, risk \in Risks : IncrementProcessed(a, risk)
    \/ Record \/ GenerateReport \/ Reset

StatsSpec == StatsInit /\ [][StatsNext]_statsVars
-----------------------------------------------------------------------------
\* The entry of RecentEvents that is i back from the newest, or 0 for a zero record.
RecentEvent(i) ==
    LET idx == (ring.idx - 1 - i + RecentCap) % RecentCap
    IN  IF idx < Len(ring.events) THEN ring.events[idx + 1] + 1 ELSE 0

\* In every window, also in one that a report sees half-way, the classes add up,
\* blocks are of high scores and of addresses counted, and at most one event was
\* recorded that was not counted in the same window: the one the loop was at when the
\* window was reset.
CountersAgree ==
    /\ window.total = window.high + window.medium + window.low
    /\ SumFunction(window.blocks) <= window.high
    /\ Cardinality(window.ips) <= window.total
    /\ window.total + Len(logging) <= window.processed + 1

\* Every processed event is told of by one report, or by none if it came between a
\* report and the reset that followed it.
ToldByOneReport ==
    LET again == IF reporting = <<>> THEN 0 ELSE reporting[1].processed
    IN  told + unseen + window.processed - again = handled

\* A full ring yields the newest sampled events, the newest first.
RecentAreNewest ==
    Len(ring.events) = RecentCap =>
        \A i \in 0..(RecentCap - 1) : RecentEvent(i) = records[Len(records) - i] + 1

\* What a report and a reader of the ring are told is what happened, however the loop
\* and the reporting goroutine interleave.
StatsAreTrue == CountersAgree /\ ToldByOneReport /\ RecentAreNewest

=============================================================================
