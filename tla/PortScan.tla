------------------------------ MODULE PortScan ------------------------------
(***************************************************************************)
(* The port scan detector (portscan/detector.go, window.go,                *)
(* source_linux.go).  The kernel logs dropped packets; the source reads    *)
(* the log to its end, closes it, sleeps, and opens it again at its end;   *)
(* the consumer records each hit in the windows of its address and reports *)
(* an address once that touched too many ports; the eviction loop drops    *)
(* addresses that are quiet; Close ends the source and the consumer.       *)
(***************************************************************************)
EXTENDS Integers, Sequences, FiniteSets

CONSTANTS Scanners,        \* addresses
          Ports,
          PortSizes,       \* sizes of the three windows, ascending
          MaxPorts,        \* ports allowed in each
          IdlePorts,       \* seconds after which an address is evicted
          QueueCap,        \* capacity of the channel
          MaxHits,         \* bound on the log
          MaxPortClock     \* bound on the clock

ASSUME PortScanAssumption ==
    /\ PortSizes \in Seq(Nat \ {0}) /\ Len(PortSizes) = 3
    /\ MaxPorts \in Seq(Nat) /\ Len(MaxPorts) = 3
    /\ IdlePorts \in Nat
    /\ QueueCap \in Nat \ {0}

VARIABLES hitLog,          \* the log file: addresses and ports
          source,          \* the tail of it: its step, position, and the line it sends
          events,          \* linuxLogSource.events
          consumer,        \* consumeEvents: its step and the hit it is at
          tracker,         \* PortWindowTracker.ips: address -> entry
          fired,           \* portScanDetector.fired
          closing,         \* how far Close is
          portClock,
          judged           \* what was received of each address, and when it was reported

portVars == <<hitLog, source, events, consumer, tracker, fired, closing, portClock, judged>>

Sleeping == [step |-> "open", pos |-> 0]

NoPorts == [i \in 1..3 |-> [s \in 0..(PortSizes[i] - 1) |-> [second |-> 0, ports |-> {}]]]

\* portWindow.sum: the distinct ports of the buckets that lie in the window.
PortCount(e, i, sec) ==
    Cardinality(UNION {b.ports : b \in {e.window[i][s] : s \in {t \in DOMAIN e.window[i] :
                                            e.window[i][t].second > sec - PortSizes[i]}}})

\* portWindow.record.
PortRecord(b, sec, port) ==
    [second |-> sec, ports |-> (IF b.second = sec THEN b.ports ELSE {}) \cup {port}]
-----------------------------------------------------------------------------
PortInit ==
    /\ hitLog = <<>>
    /\ source = Sleeping
    /\ events = <<>>
    /\ consumer = [step |-> "wait"]
    /\ tracker = <<>> /\ fired = {}
    /\ closing = "no" /\ portClock = 1
    /\ judged = [a \in Scanners |-> [hits |-> <<>>, reports |-> <<>>]]

\* The kernel logs a packet.
LogHit(a, port) ==
    /\ Len(hitLog) < MaxHits
    /\ hitLog' = Append(hitLog, [ip |-> a, port |-> port])
    /\ UNCHANGED <<source, events, consumer, tracker, fired, closing, portClock, judged>>

StopSignalled == closing # "no"

\* tailLoop: the log is opened at its end.
OpenLog ==
    /\ source.step = "open" /\ ~StopSignalled
    /\ source' = [step |-> "scan", pos |-> Len(hitLog)]
    /\ UNCHANGED <<hitLog, events, consumer, tracker, fired, closing, portClock, judged>>

\* It is read line by line, and each hit gets the time of its reading; at the end
\* of the file the source sleeps.
ScanLog ==
    /\ source.step = "scan" /\ ~StopSignalled
    /\ source' = IF source.pos < Len(hitLog)
                 THEN [step |-> "send", pos |-> source.pos + 1, sec |-> portClock]
                 ELSE [source EXCEPT !.step = "sleep"]
    /\ UNCHANGED <<hitLog, events, consumer, tracker, fired, closing, portClock, judged>>

SendHit ==
    /\ source.step = "send" /\ Len(events) < QueueCap
    /\ events' = Append(events, [sec |-> source.sec, ip |-> hitLog[source.pos].ip,
                                    port |-> hitLog[source.pos].port])
    /\ source' = [step |-> "scan", pos |-> source.pos]
    /\ UNCHANGED <<hitLog, consumer, tracker, fired, closing, portClock, judged>>

WakeUp ==
    /\ source.step = "sleep" /\ ~StopSignalled
    /\ source' = Sleeping
    /\ UNCHANGED <<hitLog, events, consumer, tracker, fired, closing, portClock, judged>>

\* Mutant: the stop does not interrupt the sending of a hit.
MayStopBetween == source.step # "send"

\* Everything the source waits in is interrupted by the stop.
MayStop == TRUE

SourceEnds ==
    /\ closing = "source" /\ source.step # "done" /\ MayStop
    /\ source' = [step |-> "done", pos |-> source.pos]
    /\ UNCHANGED <<hitLog, events, consumer, tracker, fired, closing, portClock, judged>>

\* consumeEvents takes a hit, and RecordAt finds or makes the entry.
ReceiveHit ==
    /\ consumer.step = "wait" /\ events # <<>>
    /\ LET h == Head(events)
       IN  /\ consumer' = [step |-> "record", hit |-> h, live |-> TRUE]
           /\ tracker' = IF h.ip \in DOMAIN tracker THEN tracker
                         ELSE [a \in DOMAIN tracker \cup {h.ip} |->
                                  IF a = h.ip THEN [last |-> h.sec, window |-> NoPorts]
                                  ELSE tracker[a]]
    /\ events' = Tail(events)
    /\ UNCHANGED <<hitLog, source, fired, closing, portClock, judged>>

\* The hit is written to the entry that was found, evicted or not.
RecordHit ==
    LET h == consumer.hit
        e == tracker[h.ip]
    IN  /\ consumer.step = "record"
        /\ tracker' =
              IF ~consumer.live THEN tracker
              ELSE [tracker EXCEPT ![h.ip] =
                       [last |-> h.sec,
                        window |-> [i \in 1..3 |->
                            [e.window[i] EXCEPT ![h.sec % PortSizes[i]] =
                                PortRecord(@, h.sec, h.port)]]]]
        /\ judged' = [judged EXCEPT ![h.ip].hits = Append(@, h)]
        /\ consumer' = [step |-> "judge", hit |-> h]
        /\ UNCHANGED <<hitLog, source, events, fired, closing, portClock>>

\* Count by the clock; an address is reported the first time only, whatever becomes of
\* the block: what `fired` counts is never raised.
JudgeHit ==
    LET a == consumer.hit.ip
        over == a \in DOMAIN tracker
                /\ \E i \in 1..3 : PortCount(tracker[a], i, portClock) > MaxPorts[i]
    IN  /\ consumer.step = "judge"
        /\ fired' = IF over THEN fired \cup {a} ELSE fired
        /\ judged' = IF over /\ a \notin fired
                     THEN [judged EXCEPT ![a].reports = Append(@, portClock)] ELSE judged
        /\ consumer' = [step |-> "judged", ip |-> a]
        /\ UNCHANGED <<hitLog, source, events, tracker, closing, portClock>>

NextHit ==
    /\ consumer.step = "judged"
    /\ consumer' = [step |-> "wait"]
    /\ UNCHANGED <<hitLog, source, events, tracker, fired, closing, portClock, judged>>

ConsumerEnds ==
    /\ consumer.step = "wait"
    /\ closing # "no"
    /\ consumer' = [step |-> "done"]
    /\ UNCHANGED <<hitLog, source, events, tracker, fired, closing, portClock, judged>>

\* Mutant: an address is evicted by its shortest window.
QuietByFirst == {a \in DOMAIN tracker : tracker[a].last <= portClock - PortSizes[1]}

Quiet == {a \in DOMAIN tracker : tracker[a].last <= portClock - IdlePorts}

EvictPorts ==
    /\ Quiet # {} /\ closing # "done"
    /\ tracker' = [a \in DOMAIN tracker \ Quiet |-> tracker[a]]
    /\ consumer' = IF consumer.step = "record" /\ consumer.hit.ip \in Quiet
                   THEN [consumer EXCEPT !.live = FALSE] ELSE consumer
    /\ UNCHANGED <<hitLog, source, events, fired, closing, portClock, judged>>

\* Close stops the source and waits for it, then for the consumer.
ClosePorts ==
    /\ closing' = CASE closing = "no" -> "source"
                    [] closing = "source" /\ source.step = "done" -> "consumer"
                    [] closing = "consumer" /\ consumer.step = "done" -> "done"
                    [] OTHER -> closing
    /\ closing' # closing
    /\ UNCHANGED <<hitLog, source, events, consumer, tracker, fired, portClock, judged>>

PortSecond ==
    /\ portClock < MaxPortClock
    /\ portClock' = portClock + 1
    /\ UNCHANGED <<hitLog, source, events, consumer, tracker, fired, closing, judged>>

PortNext ==
    \/ \E a \in Scanners, port \in Ports : LogHit(a, port)
    \/ OpenLog \/ ScanLog \/ SendHit \/ WakeUp \/ SourceEnds
    \/ ReceiveHit \/ RecordHit \/ JudgeHit \/ NextHit \/ ConsumerEnds
    \/ EvictPorts \/ ClosePorts \/ PortSecond

SourceStep == OpenLog \/ ScanLog \/ SendHit \/ WakeUp \/ SourceEnds

ConsumerStep == ReceiveHit \/ RecordHit \/ JudgeHit \/ NextHit

\* The goroutines run, and Close, once called, goes on.
PortSpec ==
    /\ PortInit /\ [][PortNext]_portVars
    /\ WF_portVars(SourceStep) /\ WF_portVars(ConsumerStep) /\ WF_portVars(ConsumerEnds)
    /\ WF_portVars(closing # "no" /\ ClosePorts)
-----------------------------------------------------------------------------
\* The ports that hits received of an address touched in window i.
Touched(a, i, sec) ==
    {judged[a].hits[k].port : k \in {j \in DOMAIN judged[a].hits :
                                        judged[a].hits[j].sec > sec - PortSizes[i]}}

LatestReport(a) == judged[a].reports[Len(judged[a].reports)]

\* An address is reported, and blocked for a long time, only if it touched more
\* ports than allowed within one of the windows.
ReportedAreScanners ==
    \A a \in Scanners :
        consumer.step = "judged" /\ consumer.ip = a /\ judged[a].reports # <<>>
        /\ LatestReport(a) = portClock
        => \E i \in 1..3 : Cardinality(Touched(a, i, portClock)) > MaxPorts[i]

\* An address that touched more ports than allowed, and one more for a hit that an
\* eviction between two critical sections lost, has been reported when its hit is
\* judged.  That the code reports it once for ever, where its comment announces more
\* (detector.go:106), is neither asked nor denied.
ScannersAreReported ==
    \A a \in Scanners :
        consumer.step = "judged" /\ consumer.ip = a
        /\ (\E i \in 1..3 : Cardinality(Touched(a, i, portClock)) > MaxPorts[i] + 1)
        => judged[a].reports # <<>>

\* Close ends whatever the source, the channel and the consumer were at.
CloseEnds == closing = "source" ~> closing = "done"

\* Those reported are scanners, and scanners are reported.
ScannersAreTold == ReportedAreScanners /\ ScannersAreReported

=============================================================================
