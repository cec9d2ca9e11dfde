------------------------------ MODULE Detector ------------------------------
(***************************************************************************)
(* What LocalDetector.Process (detector/detector.go) makes of a request    *)
(* once it is scored, and the confirmation of blocks by several requests.  *)
(* The event loop takes one request at a time: it decides, calls the block *)
(* trigger, which may refuse, and forgets the observation if it did not.   *)
(* Beside it, the eviction loop drops observations by the clock, and the   *)
(* end of main closes the detector while the event loop still runs.        *)
(***************************************************************************)
EXTENDS Integers, Sequences, FiniteSets

CONSTANTS Sources,         \* addresses
          Cases,           \* what a request may be: see Route and Score
          High, Medium,    \* ScoreHigh, ScoreMedium of DetectorCfg
          ReportOnly,      \* Mode = 1
          ConfirmCount, ObserveWindow, MergeWindow,
          MaxTime,         \* bound on the clock
          MaxLate,         \* bound on how late a log line is
          MaxEvents,       \* bound on the requests of a behaviour
          OddCost          \* what one counts for that is late, needs no confirmation
                           \* or is not of the first one's address

ASSUME DetectorAssumption ==
    /\ High \in Nat /\ Medium \in Nat /\ Medium < High
    /\ ReportOnly \in BOOLEAN
    /\ ConfirmCount \in Nat /\ ObserveWindow \in Nat /\ MergeWindow \in Nat
    /\ MaxTime \in Nat /\ MaxLate \in Nat /\ MaxEvents \in Nat /\ OddCost \in Nat

VARIABLES observations,    \* LocalDetector.observations: address -> observation
          processing,      \* where the event loop is: its step and request
          closed,          \* LocalDetector.closed
          panicked,        \* the event loop wrote to the table Close removed
          time,            \* the clock, in seconds
          decided          \* the requests with a high score, and what was decided

detectorVars == <<observations, processing, closed, panicked, time, decided>>

Free == [step |-> "free"]

\* The checks before the request is scored, in their order.
Route(c) ==
    IF c.whitelisted \/ c.loopback THEN "exempt"
    ELSE IF c.honeypot THEN "honeypot"
    ELSE IF c.skipped THEN "exempt" ELSE "scored"

\* Process: the score with the one for traversed identifiers added, at most High;
\* a harmless series of requests is only worth a look, unless the subnet is trusted
\* and its series means nothing.
Score(c) ==
    IF Route(c) = "honeypot" THEN 2 * High
    ELSE LET sum == IF c.score + c.idor > High THEN High ELSE c.score + c.idor
         IN  IF ~c.trusted /\ c.benign /\ sum >= High THEN Medium ELSE sum

Observation(path, sec) == [first |-> sec, last |-> sec, count |-> 1, path |-> path]

\* Mutant: a burst over several paths counts.
MergesPathOnly(o, path, sec) ==
    MergeWindow > 0 /\ sec - o.last <= MergeWindow /\ o.path = path

\* The same attack as the last one observed.
Merges(o, path, sec) ==
    /\ MergeWindow > 0
    /\ sec - o.last <= MergeWindow
    /\ o.path = path \/ sec = o.last

\* Mutant: it is left to the eviction loop to end an observation.
ExpiredNever(o, sec) == FALSE

Expired(o, sec) == sec - o.first > ObserveWindow

Counted(o, path, sec) == [o EXCEPT !.last = sec, !.path = path, !.count = @ + 1]

\* What shouldBlock makes of the observation of an address.
Observed(o, path, sec) ==
    CASE Merges(o, path, sec) -> [o EXCEPT !.last = sec]
      [] ~Merges(o, path, sec) /\ Expired(o, sec) -> Observation(path, sec)
      [] OTHER -> Counted(o, path, sec)

\* Without confirmation, or with a fatal feature, one request is enough.
Immediate(c) == ConfirmCount <= 1 \/ c.sure \/ ObserveWindow = 0

\* shouldBlock.
Confirms(a, path, sec) ==
    /\ a \in DOMAIN observations
    /\ LET o == observations[a]
       IN  /\ ~Merges(o, path, sec) /\ ~Expired(o, sec)
           /\ o.count + 1 >= ConfirmCount
-----------------------------------------------------------------------------
DetectorInit ==
    /\ observations = <<>>
    /\ processing = Free
    /\ closed = FALSE /\ panicked = FALSE
    /\ time = MaxLate + 1
    /\ decided = <<>>

\* The bound on requests: the model takes a request when it allows it.
Odd(a, sec, c) ==
    \/ sec < time \/ Immediate(c) \/ c.honeypot
    \/ decided # <<>> /\ a # decided[1].ip

MayTake(a, sec, c) ==
    LET cost == Cardinality({i \in DOMAIN decided : decided[i].odd})
                + IF Odd(a, sec, c) THEN 1 ELSE 0
    IN  Len(decided) + (OddCost - 1) * cost < MaxEvents

Start(a, path, sec, c, blocks) ==
    /\ decided' = Append(decided, [ip |-> a, path |-> path, sec |-> sec, late |-> sec < time,
                                   odd |-> Odd(a, sec, c), case |-> c,
                                   blocked |-> blocks])
    /\ processing' = IF blocks THEN [step |-> "trigger", ip |-> a, honeypot |-> c.honeypot]
                     ELSE Free

\* Process of a request that is not judged by earlier ones.  (One that is exempt or
\* whose score is low changes nothing here.)
Judge(a, path, sec, c) ==
    /\ processing = Free /\ ~panicked
    /\ MayTake(a, sec, c)
    /\ \/ Route(c) = "honeypot" /\ Start(a, path, sec, c, ~ReportOnly)
       \/ Route(c) = "scored" /\ Score(c) >= High /\ (ReportOnly \/ Immediate(c))
          /\ Start(a, path, sec, c, ~ReportOnly)
    /\ UNCHANGED <<observations, closed, panicked, time>>

\* Process of a request that needs confirmation: shouldBlock.
Observe(a, path, sec, c) ==
    /\ processing = Free /\ ~panicked
    /\ MayTake(a, sec, c)
    /\ Route(c) = "scored" /\ Score(c) >= High /\ ~ReportOnly /\ ~Immediate(c)
    /\ IF closed
       THEN panicked' = TRUE /\ UNCHANGED <<observations, processing, decided>>
       ELSE /\ observations' =
                  [b \in DOMAIN observations \cup {a} |->
                      IF b # a THEN observations[b]
                      ELSE IF a \in DOMAIN observations THEN Observed(observations[a], path, sec)
                           ELSE Observation(path, sec)]
            /\ Start(a, path, sec, c, Confirms(a, path, sec))
            /\ UNCHANGED panicked
    /\ UNCHANGED <<closed, time>>

\* The block trigger; the observation of an address is dropped with its block, but
\* not for a honeypot's.
Trigger(accepted) ==
    /\ processing.step = "trigger"
    /\ processing' = IF accepted /\ ~processing.honeypot THEN [processing EXCEPT !.step = "clear"]
                     ELSE Free
    /\ UNCHANGED <<observations, closed, panicked, time, decided>>

\* clearObservation.
Clear ==
    /\ processing.step = "clear"
    /\ observations' = [b \in DOMAIN observations \ {processing.ip} |-> observations[b]]
    /\ processing' = Free
    /\ UNCHANGED <<closed, panicked, time, decided>>

\* Mutant: the eviction loop takes the merge window for the observation window.
StaleByMerge == {a \in DOMAIN observations : observations[a].last < time - MergeWindow}

\* observEvictLoop, by the clock.
Stale == {a \in DOMAIN observations : observations[a].last < time - ObserveWindow}

EvictObservations ==
    /\ ~closed /\ Stale # {}
    /\ observations' = [a \in DOMAIN observations \ Stale |-> observations[a]]
    /\ UNCHANGED <<processing, closed, panicked, time, decided>>

\* Close; nothing stops the event loop.
Close ==
    /\ ~closed
    /\ closed' = TRUE
    /\ observations' = <<>>
    /\ UNCHANGED <<processing, panicked, time, decided>>

Tick ==
    /\ time < MaxTime
    /\ time' = time + 1
    /\ UNCHANGED <<observations, processing, closed, panicked, decided>>

Pages == {c.page : c \in Cases}

DetectorNext ==
    \/ \E a \in Sources, c \in Cases, sec \in (time - MaxLate)..time :
          Judge(a, c.page, sec, c) \/ Observe(a, c.page, sec, c)
    \/ \E accepted \in BOOLEAN : Trigger(accepted)
    \/ Clear
    \/ EvictObservations
    \/ Close
    \/ Tick

DetectorSpec == DetectorInit /\ [][DetectorNext]_detectorVars
-----------------------------------------------------------------------------
\* The properties speak of the last decision: every one was the last once.
Newest == IF decided = <<>> THEN {} ELSE {Len(decided)}

NeedsConfirmation(d) == Route(d.case) = "scored" /\ ~Immediate(d.case) /\ Score(d.case) >= High

\* The lines of an address came in their order up to event n.
InOrderTo(n) ==
    \A i, j \in 1..n : i < j /\ decided[i].ip = decided[j].ip => decided[i].sec <= decided[j].sec

\* Two candidates of one address that are not one attack; without a merge window any
\* two are.
Apart(d, e) ==
    /\ d.ip = e.ip /\ NeedsConfirmation(d) /\ NeedsConfirmation(e)
    /\ MergeWindow > 0 => /\ d.sec < e.sec
                          /\ d.path = e.path => e.sec - d.sec > MergeWindow

Independent(i, j) == i < j /\ Apart(decided[i], decided[j])

\* ConfirmCount candidates, the last of them event j, within the observation window.
Confirmed(j) ==
    \E s \in [1..ConfirmCount -> 1..j] :
        /\ s[ConfirmCount] = j
        /\ \A k \in 1..(ConfirmCount - 1) : Independent(s[k], s[k + 1])
        /\ decided[s[1]].sec >= decided[j].sec - ObserveWindow

\* A request without a fatal feature blocks its address only when ConfirmCount
\* independent requests were candidates within the observation window, as long as
\* the lines of the address arrive in their order.
BlockIsConfirmed ==
    \A j \in Newest :
        decided[j].blocked /\ NeedsConfirmation(decided[j]) /\ InOrderTo(j)
            => Confirmed(j)

\* What the theorem states: the block was announced by an earlier candidate.
BlockIsAnnounced ==
    \A j \in Newest :
        decided[j].blocked /\ NeedsConfirmation(decided[j]) =>
            \E i \in 1..(j - 1) : /\ decided[i].ip = decided[j].ip
                                  /\ NeedsConfirmation(decided[i])
                                  /\ decided[j].sec - decided[i].sec <= ObserveWindow

\* Candidates that reach the agent in time, each later than the merge window after
\* the one before, all within one observation window: 2 * ConfirmCount - 1 of them
\* block the address at least once, whatever was observed, merged or evicted before,
\* unless the agent only reports.
Persistent(j) ==
    LET n == 2 * ConfirmCount - 1
        mine == {i \in 1..j : decided[i].ip = decided[j].ip /\ NeedsConfirmation(decided[i])
                                /\ decided[i].sec >= decided[j].sec - ObserveWindow}
    IN  /\ NeedsConfirmation(decided[j])
        /\ \A i \in 1..j : decided[i].ip = decided[j].ip => ~decided[i].late
        /\ \A i \in mine, k \in mine : i < k => decided[k].sec - decided[i].sec > MergeWindow
        /\ Cardinality(mine) >= n

PersistentIsBlocked ==
    \A j \in Newest :
        ~ReportOnly /\ Persistent(j) =>
            \E i \in 1..j : /\ decided[i].ip = decided[j].ip /\ decided[i].blocked
                            /\ decided[i].sec >= decided[j].sec - ObserveWindow
=============================================================================
