------------------------------ MODULE Reporter ------------------------------
(***************************************************************************)
(* The threat reporter (threatreporter/reporter.go): events are buffered   *)
(* and sent in batches.  A batch is taken by a loop at its tick, by a      *)
(* goroutine that Add starts when the buffer is full, and by Stop, which   *)
(* waits for the loops but not for those goroutines.                       *)
(***************************************************************************)
EXTENDS Integers, FiniteSets

CONSTANTS Threats,         \* the events that have a source address
          Loops,           \* goroutines of Start: one for each of its calls
          Spawned,         \* goroutines of Add
          Stopper,         \* the goroutine of Stop
          BufferSize       \* Config.BufferSize

Flushers == Loops \cup Spawned \cup {Stopper}

ASSUME ReporterAssumption ==
    /\ BufferSize \in Nat \ {0}
    /\ Loops \cap Spawned = {} /\ Stopper \notin Loops \cup Spawned

VARIABLES buffer,          \* Reporter.buffer
          flush,           \* what each goroutine is at: its step and batch
          closed,          \* Reporter.closed
          sent, dropped,   \* the events counted in sentCount and dropCount
          added,           \* the events Add was called with
          early            \* those of them added before Stop was called

reporterVars == <<buffer, flush, closed, sent, dropped, added, early>>

\* "off": not started; "take": about to take the buffer; "send": in ReportFull;
\* "done": ended, or Stop has returned.
Steps == {"off", "idle", "wait", "take", "send", "done"}

ReporterInit ==
    /\ buffer = {} /\ sent = {} /\ dropped = {} /\ added = {} /\ early = {}
    /\ flush = [g \in Flushers |-> [step |-> "off", batch |-> {}]]
    /\ closed = FALSE

\* Each call of Start starts a loop, though its comment says that only the first does.
StartLoop(g) ==
    /\ ~closed /\ flush[g].step = "off"
    /\ flush' = [flush EXCEPT ![g].step = "idle"]
    /\ UNCHANGED <<buffer, closed, sent, dropped, added, early>>

\* Add; a full buffer starts a goroutine, whether or not one is on its way.  An event
\* without a source address is left aside at once and not counted: that changes nothing.
Add(e) ==
    /\ e \notin added
    /\ buffer' = buffer \cup {e}
    /\ added' = added \cup {e}
    /\ early' = IF closed THEN early ELSE early \cup {e}
    /\ IF Cardinality(buffer') < BufferSize THEN UNCHANGED flush
       ELSE \E g \in Spawned : /\ flush[g].step = "off"
                               /\ flush' = [flush EXCEPT ![g].step = "take"]
    /\ UNCHANGED <<closed, sent, dropped>>

\* The ticker of a loop.  At a tick and a stop at once, either may be taken.
TickOfLoop(g) ==
    /\ flush[g].step = "idle"
    /\ flush' = [flush EXCEPT ![g].step = "take"]
    /\ UNCHANGED <<buffer, closed, sent, dropped, added, early>>

\* Mutant: the array of the buffer is used again.
BufferKept == buffer

BufferTaken == {}

\* flush takes the buffer.
Take(g) ==
    /\ flush[g].step = "take" /\ buffer # {}
    /\ flush' = [flush EXCEPT ![g] = [step |-> "send", batch |-> buffer]]
    /\ buffer' = BufferTaken
    /\ UNCHANGED <<closed, sent, dropped, added, early>>

\* Mutant: a loop ends after its first batch.
AfterEnds(g) == "done"

\* What a goroutine does after flush: a loop goes on, the others end.
After(g) == IF g \in Loops THEN "idle" ELSE "done"

TakeNothing(g) ==
    /\ flush[g].step = "take" /\ buffer = {}
    /\ flush' = [flush EXCEPT ![g].step = After(g)]
    /\ UNCHANGED <<buffer, closed, sent, dropped, added, early>>

\* ReportFull succeeds or fails: the batch is sent or counted as dropped.
Report(g, ok) ==
    /\ flush[g].step = "send"
    /\ sent' = IF ok THEN sent \cup flush[g].batch ELSE sent
    /\ dropped' = IF ok THEN dropped ELSE dropped \cup flush[g].batch
    /\ flush' = [flush EXCEPT ![g] = [step |-> After(g), batch |-> {}]]
    /\ UNCHANGED <<buffer, closed, added, early>>

CallStop ==
    /\ ~closed
    /\ closed' = TRUE
    /\ flush' = [flush EXCEPT ![Stopper].step = "wait"]
    /\ UNCHANGED <<buffer, sent, dropped, added, early>>

LoopStops(g) ==
    /\ closed /\ flush[g].step = "idle"
    /\ flush' = [flush EXCEPT ![g].step = "done"]
    /\ UNCHANGED <<buffer, closed, sent, dropped, added, early>>

\* Mutant: Stop does not wait for a loop that is sending.
LoopsWaitedBriefly == \A g \in Loops : flush[g].step \in {"off", "done", "send"}

LoopsEnded == \A g \in Loops : flush[g].step \in {"off", "done"}

\* Stop has waited for the loops and flushes.
LastFlush ==
    /\ flush[Stopper].step = "wait" /\ LoopsEnded
    /\ flush' = [flush EXCEPT ![Stopper].step = "take"]
    /\ UNCHANGED <<buffer, closed, sent, dropped, added, early>>

\* The goroutine g goes on with its flush.
FlushStep(g) == Take(g) \/ TakeNothing(g) \/ \E ok \in BOOLEAN : Report(g, ok)

ReporterNext ==
    \/ \E e \in Threats : Add(e)
    \/ \E g \in Loops : StartLoop(g) \/ TickOfLoop(g) \/ LoopStops(g)
    \/ \E g \in Flushers : FlushStep(g)
    \/ CallStop \/ LastFlush

\* ReportFull ends (its client has a time limit), and the ticker ticks.
ReporterFairness ==
    /\ \A g \in Flushers : WF_reporterVars(FlushStep(g))
    /\ \A g \in Loops : WF_reporterVars(TickOfLoop(g))

ReporterSpec == ReporterInit /\ [][ReporterNext]_reporterVars /\ ReporterFairness
-----------------------------------------------------------------------------
InFlight == UNION {flush[g].batch : g \in Flushers}

\* Each event is in one place: in the buffer, in one batch, sent or counted as
\* dropped, however flushes overlap.
Accounted ==
    /\ added = buffer \cup InFlight \cup sent \cup dropped
    /\ sent \cap dropped = {}
    /\ (sent \cup dropped) \cap (buffer \cup InFlight) = {}
    /\ buffer \cap InFlight = {}
    /\ \A g, h \in Flushers : g # h => flush[g].batch \cap flush[h].batch = {}

\* When Stop has returned, every event added before it was called has been sent or
\* counted, but for those that a goroutine of Add is still sending ("the last flush,
\* no data may be lost", reporter.go:123).
StopFlushes ==
    flush[Stopper].step = "done" =>
        early \subseteq sent \cup dropped \cup UNION {flush[g].batch : g \in Spawned}

\* While a loop runs, an event does not stay in the buffer.
EventsLeave ==
    \A e \in Threats :
        (e \in buffer /\ \E g \in Loops : flush[g].step # "off")
            ~> (e \in sent \cup dropped \/ closed)
=============================================================================
