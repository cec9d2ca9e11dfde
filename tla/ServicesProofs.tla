--------------------------- MODULE ServicesProofs ---------------------------
(***************************************************************************)
(* Proofs about what runs beside the detector.  Reporter, for any events,  *)
(* loops and goroutines: no event is lost or sent twice by flushes that    *)
(* overlap, and the last flush of Stop leaves nothing behind.              *)
(* ControlSocket, for any connections: when Stop has returned no handler   *)
(* runs and none will.  AgentMain, for any deadline, pauses and times of   *)
(* the attempts: how long the start may wait for the cloud; and that       *)
(* whatever fails in the start, components end before what they use.       *)
(* LogTail, for any lines, files, starts and capacity of the channel: the  *)
(* tail passes over no line silently and tells of none twice, outside the  *)
(* cases that LinesOnce lists.                                             *)
(***************************************************************************)
EXTENDS Reporter, ControlSocket, AgentMain, LogTail, WellFoundedInduction, TLAPS

Batch == [step : Steps, batch : SUBSET Threats]

ReporterTypeOK ==
    /\ buffer \subseteq Threats /\ sent \subseteq Threats /\ dropped \subseteq Threats
    /\ added \subseteq Threats /\ early \subseteq added
    /\ flush \in [Flushers -> Batch]
    /\ closed \in BOOLEAN

\* Only a goroutine in ReportFull holds a batch.
BatchesAreSent == \A g \in Flushers : flush[g].step # "send" => flush[g].batch = {}

\* Stop has been called exactly when its goroutine is past "off".  From the last flush
\* on no loop runs, and once it has taken the buffer no early event is there.
StopOrder ==
    /\ flush[Stopper].step \in {"off", "wait", "take", "send", "done"}
    /\ flush[Stopper].step # "off" => closed
    /\ flush[Stopper].step \in {"take", "send", "done"} => LoopsEnded
    /\ flush[Stopper].step \in {"send", "done"} => buffer \cap early = {}

ReporterInv == ReporterTypeOK /\ BatchesAreSent /\ Accounted /\ StopOrder

\* At first nothing has been added.
LEMMA InitReporter == ReporterInit => ReporterInv
<1> SUFFICES ASSUME ReporterInit PROVE ReporterInv
  OBVIOUS
<1> USE DEF ReporterInit
<1>1. \A g \in Flushers : flush[g].step = "off" /\ flush[g].batch = {}
  OBVIOUS
<1>2. flush \in [Flushers -> Batch]
  BY DEF Batch, Steps
<1>3. InFlight = {}
  BY <1>1 DEF InFlight
<1>4. Stopper \in Flushers
  BY DEF Flushers
<1> QED
  BY <1>1, <1>2, <1>3, <1>4
     DEF ReporterInv, ReporterTypeOK, BatchesAreSent, Accounted, StopOrder

\* A goroutine that only goes to another step keeps its batch.
LEMMA SameBatches ==
  ASSUME ReporterTypeOK, NEW g \in Flushers, NEW s \in Steps,
         flush' = [flush EXCEPT ![g].step = s]
  PROVE  /\ flush' \in [Flushers -> Batch]
         /\ \A h \in Flushers : /\ flush'[h].batch = flush[h].batch
                                /\ flush'[h].step = IF h = g THEN s ELSE flush[h].step
         /\ InFlight' = InFlight
<1>1. \A h \in Flushers : /\ flush'[h].batch = flush[h].batch
                          /\ flush'[h].step = IF h = g THEN s ELSE flush[h].step
  BY DEF ReporterTypeOK, Batch
<1>2. flush' \in [Flushers -> Batch]
  BY DEF ReporterTypeOK, Batch
<1> QED  BY <1>1, <1>2 DEF InFlight

\* Such a step keeps the invariant if the events stay where they are, g sends nothing
\* and the order of Stop is kept.
LEMMA MoveKeeps ==
  ASSUME ReporterInv, NEW g \in Flushers, NEW s \in Steps \ {"send"},
         flush[g].step # "send",
         flush' = [flush EXCEPT ![g].step = s],
         UNCHANGED <<buffer, sent, dropped, added, early>>, closed' \in BOOLEAN
  PROVE  /\ ReporterTypeOK' /\ BatchesAreSent' /\ Accounted'
         /\ \A h \in Flushers : flush'[h].step = IF h = g THEN s ELSE flush[h].step
<1>1. /\ flush' \in [Flushers -> Batch] /\ InFlight' = InFlight
      /\ \A h \in Flushers : /\ flush'[h].batch = flush[h].batch
                             /\ flush'[h].step = IF h = g THEN s ELSE flush[h].step
  BY SameBatches DEF ReporterInv
<1>2. ReporterTypeOK'
  BY <1>1 DEF ReporterInv, ReporterTypeOK
<1>3. BatchesAreSent'
  BY <1>1 DEF ReporterInv, BatchesAreSent
<1>4. Accounted'
  BY <1>1 DEF ReporterInv, Accounted
<1> QED  BY <1>1, <1>2, <1>3, <1>4

\* The goroutines are distinct.
LEMMA Goroutines ==
  /\ Loops \subseteq Flushers /\ Spawned \subseteq Flushers /\ Stopper \in Flushers
  /\ Stopper \notin Loops /\ Stopper \notin Spawned /\ Loops \cap Spawned = {}
  BY ReporterAssumption DEF ReporterAssumption, Flushers

\* A loop that starts, ticks or stops, and Stop, move one goroutine.
LEMMA MoveStep ==
  ASSUME ReporterInv,
         \/ \E g \in Loops : StartLoop(g) \/ TickOfLoop(g) \/ LoopStops(g)
         \/ \E g \in Flushers : TakeNothing(g)
         \/ CallStop \/ LastFlush
  PROVE  ReporterInv'
<1> USE Goroutines
<1>1. ASSUME NEW g \in Loops, StartLoop(g) \/ TickOfLoop(g) \/ LoopStops(g) PROVE ReporterInv'
  <2>1. PICK s \in {"idle", "take", "done"} :
            /\ flush' = [flush EXCEPT ![g].step = s]
            /\ s \in {"idle", "take"} => ~LoopsEnded \/ ~closed
    BY <1>1 DEF StartLoop, TickOfLoop, LoopStops, LoopsEnded
  <2>2. /\ flush[g].step \in {"off", "idle"}
        /\ UNCHANGED <<closed, buffer, sent, dropped, added, early>>
    BY <1>1 DEF StartLoop, TickOfLoop, LoopStops
  <2>3. /\ ReporterTypeOK' /\ BatchesAreSent' /\ Accounted'
        /\ \A h \in Flushers : flush'[h].step = IF h = g THEN s ELSE flush[h].step
    BY <2>1, <2>2, MoveKeeps DEF ReporterInv, ReporterTypeOK, Steps
  <2>4. StopOrder'
    BY <2>1, <2>2, <2>3 DEF ReporterInv, StopOrder, LoopsEnded
  <2> QED  BY <2>3, <2>4 DEF ReporterInv
<1>2. ASSUME NEW g \in Flushers, TakeNothing(g) PROVE ReporterInv'
  <2>1. /\ flush[g].step = "take" /\ buffer = {} /\ After(g) \in {"idle", "done"}
        /\ g \notin Loops => After(g) = "done"
        /\ flush' = [flush EXCEPT ![g].step = After(g)]
        /\ UNCHANGED <<closed, buffer, sent, dropped, added, early>>
    BY <1>2 DEF TakeNothing, After
  <2>2. /\ ReporterTypeOK' /\ BatchesAreSent' /\ Accounted'
        /\ \A h \in Flushers : flush'[h].step = IF h = g THEN After(g) ELSE flush[h].step
    BY <2>1, MoveKeeps DEF ReporterInv, ReporterTypeOK, Steps
  <2>3. StopOrder'
    BY <2>1, <2>2 DEF ReporterInv, StopOrder, LoopsEnded
  <2> QED  BY <2>2, <2>3 DEF ReporterInv
<1>3. ASSUME CallStop PROVE ReporterInv'
  <2>1. /\ ~closed /\ closed' = TRUE /\ flush' = [flush EXCEPT ![Stopper].step = "wait"]
        /\ UNCHANGED <<buffer, sent, dropped, added, early>>
    BY <1>3 DEF CallStop
  <2>2. flush[Stopper].step = "off"
    BY <2>1 DEF ReporterInv, StopOrder
  <2>4. /\ "wait" \in Steps \ {"send"} /\ flush[Stopper].step # "send"
        /\ closed' \in BOOLEAN /\ Stopper \in Flushers
    BY <2>1, <2>2 DEF Steps
  <2>3. /\ ReporterTypeOK' /\ BatchesAreSent' /\ Accounted'
        /\ \A h \in Flushers : flush'[h].step = IF h = Stopper THEN "wait" ELSE flush[h].step
    BY <2>1, <2>4, MoveKeeps
  <2> QED  BY <2>1, <2>3 DEF ReporterInv, StopOrder
<1>4. ASSUME LastFlush PROVE ReporterInv'
  <2>1. /\ flush[Stopper].step = "wait" /\ LoopsEnded
        /\ flush' = [flush EXCEPT ![Stopper].step = "take"]
        /\ UNCHANGED <<closed, buffer, sent, dropped, added, early>>
    BY <1>4 DEF LastFlush
  <2>2. /\ ReporterTypeOK' /\ BatchesAreSent' /\ Accounted'
        /\ \A h \in Flushers : flush'[h].step = IF h = Stopper THEN "take" ELSE flush[h].step
    BY <2>1, MoveKeeps DEF ReporterInv, ReporterTypeOK, Steps
  <2>3. StopOrder'
    BY <2>1, <2>2 DEF ReporterInv, StopOrder, LoopsEnded
  <2> QED  BY <2>2, <2>3 DEF ReporterInv
<1> QED  BY <1>1, <1>2, <1>3, <1>4

\* An event that is added is nowhere else.
LEMMA AddStep ==
  ASSUME ReporterInv, NEW e \in Threats, Add(e)
  PROVE  ReporterInv'
<1>1. /\ e \notin added /\ buffer' = buffer \cup {e} /\ added' = added \cup {e}
      /\ early' = IF closed THEN early ELSE early \cup {e}
      /\ UNCHANGED <<closed, sent, dropped>>
  BY DEF Add
<1>2. \/ flush' = flush
      \/ \E g \in Spawned : flush[g].step = "off" /\ flush' = [flush EXCEPT ![g].step = "take"]
  BY DEF Add
<1> DEFINE OnlySpawned ==
      /\ flush' \in [Flushers -> Batch] /\ InFlight' = InFlight
      /\ \A h \in Flushers : /\ flush'[h].batch = flush[h].batch
                             /\ h \notin Spawned => flush'[h].step = flush[h].step
                             /\ flush'[h].step # flush[h].step
                                    => flush[h].step = "off" /\ flush'[h].step = "take"
<1>3. OnlySpawned
  <2>1. CASE flush' = flush
    BY <2>1 DEF InFlight, ReporterInv, ReporterTypeOK
  <2>2. ASSUME NEW g \in Spawned, flush[g].step = "off",
               flush' = [flush EXCEPT ![g].step = "take"]
        PROVE  OnlySpawned
    <3>1. "take" \in Steps
      BY DEF Steps
    <3>2. g \in Flushers /\ ReporterTypeOK
      BY Goroutines DEF ReporterInv
    <3>3. /\ flush' \in [Flushers -> Batch] /\ InFlight' = InFlight
          /\ \A h \in Flushers : /\ flush'[h].batch = flush[h].batch
                                 /\ flush'[h].step = IF h = g THEN "take" ELSE flush[h].step
      BY <2>2, <3>1, <3>2, SameBatches
    <3> QED  BY <2>2, <3>3
  <2> QED  BY <1>2, <2>1, <2>2
<1>4. ReporterTypeOK'
  BY <1>1, <1>3 DEF ReporterInv, ReporterTypeOK
<1>5. BatchesAreSent'
  BY <1>3 DEF ReporterInv, BatchesAreSent
<1>6. Accounted'
  <2>1. e \notin buffer \cup InFlight \cup sent \cup dropped
    BY <1>1 DEF ReporterInv, Accounted
  <2> QED  BY <1>1, <1>3, <2>1 DEF ReporterInv, Accounted
<1>7. StopOrder'
  BY <1>1, <1>3, Goroutines DEF ReporterInv, ReporterTypeOK, StopOrder, LoopsEnded
<1> QED  BY <1>4, <1>5, <1>6, <1>7 DEF ReporterInv

\* flush takes the whole buffer: what was in it is in the batch.
LEMMA TakeStep ==
  ASSUME ReporterInv, NEW g \in Flushers, Take(g)
  PROVE  ReporterInv'
<1>1. /\ flush[g].step = "take" /\ buffer' = {}
      /\ flush' = [flush EXCEPT ![g] = [step |-> "send", batch |-> buffer]]
      /\ UNCHANGED <<closed, sent, dropped, added, early>>
  BY DEF Take, BufferTaken
<1>2. flush[g].batch = {}
  BY <1>1 DEF ReporterInv, BatchesAreSent
<1>3. [step |-> "send", batch |-> buffer] \in Batch
  BY DEF Batch, Steps, ReporterInv, ReporterTypeOK
<1>4. /\ flush' \in [Flushers -> Batch]
      /\ flush'[g].step = "send" /\ flush'[g].batch = buffer
      /\ \A h \in Flushers \ {g} : flush'[h] = flush[h]
  BY <1>1, <1>3 DEF ReporterInv, ReporterTypeOK
<1>5. InFlight' = InFlight \cup buffer
  BY <1>2, <1>4 DEF InFlight
<1>6. ReporterTypeOK'
  BY <1>1, <1>4 DEF ReporterInv, ReporterTypeOK
<1>7. BatchesAreSent'
  BY <1>4 DEF ReporterInv, BatchesAreSent
<1>8. Accounted'
  <2>1. \A h \in Flushers : flush[h].batch \subseteq InFlight
    BY DEF InFlight
  <2>2. \A h, k \in Flushers : h # k => flush'[h].batch \cap flush'[k].batch = {}
    BY <1>4, <2>1 DEF ReporterInv, Accounted
  <2> QED  BY <1>1, <1>5, <2>2 DEF ReporterInv, Accounted
<1>9. StopOrder'
  BY <1>1, <1>4, Goroutines DEF ReporterInv, StopOrder, LoopsEnded
<1> QED  BY <1>6, <1>7, <1>8, <1>9 DEF ReporterInv

\* A batch is sent or dropped as a whole.
LEMMA ReportStep ==
  ASSUME ReporterInv, NEW g \in Flushers, NEW ok \in BOOLEAN, Report(g, ok)
  PROVE  ReporterInv'
<1> DEFINE batch == flush[g].batch
<1>1. /\ flush[g].step = "send"
      /\ sent' = IF ok THEN sent \cup batch ELSE sent
      /\ dropped' = IF ok THEN dropped ELSE dropped \cup batch
      /\ flush' = [flush EXCEPT ![g] = [step |-> After(g), batch |-> {}]]
      /\ UNCHANGED <<buffer, closed, added, early>>
  BY DEF Report
<1>2. After(g) \in {"idle", "done"} /\ (g \notin Loops => After(g) = "done")
  BY DEF After
<1>3. [step |-> After(g), batch |-> {}] \in Batch
  BY <1>2 DEF Batch, Steps
<1>4. /\ flush' \in [Flushers -> Batch]
      /\ flush'[g].step = After(g) /\ flush'[g].batch = {}
      /\ \A h \in Flushers \ {g} : flush'[h] = flush[h]
  BY <1>1, <1>3 DEF ReporterInv, ReporterTypeOK
<1>5. batch \subseteq Threats /\ batch \subseteq InFlight
  BY DEF ReporterInv, ReporterTypeOK, Batch, InFlight
<1>6. \A h \in Flushers \ {g} : flush[h].batch \cap batch = {}
  BY DEF ReporterInv, Accounted
<1>7. InFlight' = InFlight \ batch
  BY <1>4, <1>6 DEF InFlight
<1> HIDE DEF batch
<1>8. ReporterTypeOK'
  BY <1>1, <1>4, <1>5 DEF ReporterInv, ReporterTypeOK
<1>9. BatchesAreSent'
  BY <1>4 DEF ReporterInv, BatchesAreSent
<1>10. Accounted'
  <2>1. \A h, k \in Flushers : h # k => flush'[h].batch \cap flush'[k].batch = {}
    BY <1>4 DEF ReporterInv, Accounted
  <2> QED  BY <1>1, <1>5, <1>7, <2>1 DEF ReporterInv, Accounted
<1>11. StopOrder'
  BY <1>1, <1>2, <1>4, Goroutines DEF ReporterInv, StopOrder, LoopsEnded
<1> QED  BY <1>8, <1>9, <1>10, <1>11 DEF ReporterInv

\* No step breaks the invariant.
LEMMA ReporterStep == ReporterInv /\ [ReporterNext]_reporterVars => ReporterInv'
<1> SUFFICES ASSUME ReporterInv, [ReporterNext]_reporterVars PROVE ReporterInv'
  OBVIOUS
<1>1. CASE UNCHANGED reporterVars
  BY <1>1
     DEF reporterVars, ReporterInv, ReporterTypeOK, BatchesAreSent, Accounted, StopOrder,
         InFlight, LoopsEnded
<1>2. ASSUME NEW e \in Threats, Add(e) PROVE ReporterInv'
  BY <1>2, AddStep
<1>3. ASSUME NEW g \in Flushers, FlushStep(g) PROVE ReporterInv'
  BY <1>3, TakeStep, ReportStep, MoveStep DEF FlushStep
<1>4. CASE (\E g \in Loops : StartLoop(g) \/ TickOfLoop(g) \/ LoopStops(g)) \/ CallStop \/ LastFlush
  BY <1>4, MoveStep
<1> QED  BY <1>1, <1>2, <1>3, <1>4 DEF ReporterNext

\* Whatever flushes overlap and fail, each event added is in one place: in the buffer,
\* in one batch, sent, or counted as dropped.
THEOREM EventsAccounted == ReporterSpec => []Accounted
<1>1. ReporterInv => Accounted
  BY DEF ReporterInv
<1> QED  BY <1>1, InitReporter, ReporterStep, PTL DEF ReporterSpec

\* When Stop has returned, the events of a loop and of the buffer are gone: only the
\* goroutines of Add may still hold some that were added before.
THEOREM StopLeavesNothing == ReporterSpec => []StopFlushes
<1>1. ReporterInv => StopFlushes
  <2> SUFFICES ASSUME ReporterInv, flush[Stopper].step = "done"
               PROVE  early \subseteq sent \cup dropped
                                        \cup UNION {flush[g].batch : g \in Spawned}
    BY DEF StopFlushes
  <2>1. buffer \cap early = {} /\ LoopsEnded
    BY DEF ReporterInv, StopOrder
  <2>2. flush[Stopper].batch = {} /\ \A g \in Loops : flush[g].batch = {}
    BY <2>1, Goroutines DEF ReporterInv, BatchesAreSent, LoopsEnded
  <2>3. InFlight \subseteq UNION {flush[g].batch : g \in Spawned}
    BY <2>2 DEF InFlight, Flushers
  <2> QED  BY <2>1, <2>3 DEF ReporterInv, ReporterTypeOK, Accounted
<1> QED  BY <1>1, InitReporter, ReporterStep, PTL DEF ReporterSpec

-----------------------------------------------------------------------------
Handler == {"none", "loop", "decode", "dispatch", "ended"}

Connection == [client : {"new", "open", "left"}, handler : Handler, sent : 0 .. MaxRequests,
               read : 0 .. MaxRequests, unread : Nat, expired : BOOLEAN]

SocketTypeOK ==
    /\ server \in [step : {"off", "up", "stopping", "stopped"}, listening : BOOLEAN,
                   accept : {"none", "loop", "ended"}]
    /\ conn \in [Clients -> Connection]
    /\ \A c \in Clients : conn[c].read <= conn[c].sent

\* Before Start nothing is accepted, the accept loop ends only when Stop has been called,
\* and Stop returns when all have ended.
StopWaits ==
    /\ server.step = "off" => server.accept = "none"
    /\ server.accept = "ended" => ~server.listening
    /\ server.step = "stopped" => AllDone

SocketInv == SocketTypeOK /\ StopWaits

\* Nothing runs at first.
LEMMA InitSocket == SocketInit => SocketInv
  BY SocketAssumption
     DEF SocketAssumption, SocketInit, SocketInv, SocketTypeOK, StopWaits, Unconnected,
         Connection, Handler

\* What a step of a connection may do: it takes the connection to d, and a handler that
\* has ended, or that was not accepted by the loop, does not run.
Serves(c, d) ==
    /\ conn' = [conn EXCEPT ![c] = d]
    /\ UNCHANGED server
    /\ conn[c].handler = "none" /\ server.accept # "loop" => d.handler = "none"
    /\ conn[c].handler = "ended" => d.handler = "ended"

\* Such a step keeps the invariant.
LEMMA ServesKeeps ==
  ASSUME SocketInv, NEW c \in Clients, NEW d \in Connection, d.read <= d.sent, Serves(c, d)
  PROVE  SocketInv'
<1>1. conn' \in [Clients -> Connection] /\ conn'[c] = d
      /\ \A e \in Clients \ {c} : conn'[e] = conn[e]
  BY DEF Serves, SocketInv, SocketTypeOK
<1>2. SocketTypeOK'
  BY <1>1 DEF Serves, SocketInv, SocketTypeOK
<1>3. StopWaits'
  BY <1>1 DEF Serves, SocketInv, StopWaits, AllDone
<1> QED  BY <1>2, <1>3 DEF SocketInv

\* A client connects, asks, reads and leaves.
LEMMA ClientStep ==
  ASSUME SocketInv, NEW c \in Clients,
         Connect(c) \/ SendRequest(c) \/ ReadAnswer(c) \/ Leave(c)
  PROVE  SocketInv'
<1>0. conn[c] \in Connection /\ conn[c].read <= conn[c].sent
  BY DEF SocketInv, SocketTypeOK
<1>1. PICK d \in Connection :
          /\ conn' = [conn EXCEPT ![c] = d] /\ d.handler = conn[c].handler /\ d.read <= d.sent
  <2>1. CASE Connect(c)
    <3> DEFINE d == [conn[c] EXCEPT !.client = "open"]
    <3>1. d \in Connection /\ d.handler = conn[c].handler /\ d.read <= d.sent
      BY <1>0 DEF Connection
    <3>2. conn' = [conn EXCEPT ![c] = d]
      BY <2>1 DEF Connect
    <3> QED  BY <3>1, <3>2
  <2>2. CASE SendRequest(c)
    <3> DEFINE d == [conn[c] EXCEPT !.sent = @ + 1]
    <3>1. d \in Connection /\ d.handler = conn[c].handler /\ d.read <= d.sent
      BY <1>0, <2>2, SocketAssumption DEF Connection, SocketAssumption, SendRequest
    <3>2. conn' = [conn EXCEPT ![c] = d]
      BY <2>2 DEF SendRequest
    <3> QED  BY <3>1, <3>2
  <2>3. CASE Leave(c)
    <3> DEFINE d == [conn[c] EXCEPT !.client = "left"]
    <3>1. d \in Connection /\ d.handler = conn[c].handler /\ d.read <= d.sent
      BY <1>0 DEF Connection
    <3>2. conn' = [conn EXCEPT ![c] = d]
      BY <2>3 DEF Leave
    <3> QED  BY <3>1, <3>2
  <2>4. CASE ReadAnswer(c)
    <3> DEFINE d == [conn[c] EXCEPT !.unread = @ - 1]
    <3>1. d \in Connection /\ d.handler = conn[c].handler /\ d.read <= d.sent
      BY <1>0, <2>4 DEF Connection, ReadAnswer
    <3>2. conn' = [conn EXCEPT ![c] = d]
      BY <2>4 DEF ReadAnswer
    <3> QED  BY <3>1, <3>2
  <2> QED  BY <2>1, <2>2, <2>3, <2>4
<1>2. Serves(c, d)
  BY <1>1 DEF Serves, Connect, SendRequest, ReadAnswer, Leave
<1> QED  BY <1>1, <1>2, ServesKeeps

\* The server accepts a connection and handles it.
LEMMA HandlerStep ==
  ASSUME SocketInv, NEW c \in Clients, Accept(c) \/ ServerStep(c)
  PROVE  SocketInv'
<1>0. conn[c] \in Connection /\ conn[c].read <= conn[c].sent
  BY DEF SocketInv, SocketTypeOK
<1>1. CASE Accept(c)
  <2> DEFINE d == [conn[c] EXCEPT !.handler = "loop"]
  <2>1. d \in Connection /\ d.read <= d.sent
    BY <1>0 DEF Connection, Handler
  <2>2. Serves(c, d)
    BY <1>1 DEF Serves, Accept
  <2> HIDE DEF d
  <2> QED  BY <2>1, <2>2, ServesKeeps
<1>2. CASE LookAtStop(c)
  <2> DEFINE h == IF server.step = "up" THEN "decode" ELSE "ended"
  <2> DEFINE d == [conn[c] EXCEPT !.handler = h]
  <2>1. d \in Connection /\ d.read <= d.sent
    BY <1>0 DEF Connection, Handler
  <2>2. Serves(c, d)
    BY <1>2 DEF Serves, LookAtStop
  <2> HIDE DEF d
  <2> QED  BY <2>1, <2>2, ServesKeeps
<1>3. CASE DecodeRequest(c)
  <2> DEFINE d == [conn[c] EXCEPT !.handler = "dispatch", !.read = @ + 1]
  <2>1. d \in Connection /\ d.read <= d.sent
    <3>1. conn[c].read + 1 \in 0 .. MaxRequests /\ conn[c].read + 1 <= conn[c].sent
      BY <1>0, <1>3, SocketAssumption DEF Connection, DecodeRequest, SocketAssumption
    <3>2. "dispatch" \in Handler
      BY DEF Handler
    <3> QED  BY <1>0, <3>1, <3>2 DEF Connection
  <2>2. Serves(c, d)
    BY <1>3 DEF Serves, DecodeRequest
  <2> HIDE DEF d
  <2> QED  BY <2>1, <2>2, ServesKeeps
<1>4. CASE Expire(c)
  <2> DEFINE d == [conn[c] EXCEPT !.expired = TRUE]
  <2>1. d \in Connection /\ d.read <= d.sent /\ d.handler = conn[c].handler
    BY <1>0 DEF Connection
  <2>2. conn' = [conn EXCEPT ![c] = d] /\ UNCHANGED server
    BY <1>4 DEF Expire
  <2> HIDE DEF d
  <2> QED  BY <2>1, <2>2, ServesKeeps DEF Serves
<1>5. CASE DecodeFails(c)
  <2> DEFINE d == [conn[c] EXCEPT !.handler = "ended"]
  <2>1. d \in Connection /\ d.read <= d.sent
    BY <1>0 DEF Connection, Handler
  <2>2. Serves(c, d)
    BY <1>5 DEF Serves, DecodeFails
  <2> HIDE DEF d
  <2> QED  BY <2>1, <2>2, ServesKeeps
<1>6. CASE Answer(c)
  <2> DEFINE u == IF conn[c].client = "open" THEN conn[c].unread + 1 ELSE conn[c].unread
             d == [conn[c] EXCEPT !.handler = "loop", !.unread = u]
  <2>1. d \in Connection /\ d.read <= d.sent
    <3>1. u \in Nat /\ "loop" \in Handler
      BY <1>0 DEF Connection, Handler
    <3> HIDE DEF u
    <3> QED  BY <1>0, <3>1 DEF Connection
  <2>2. conn' = [conn EXCEPT ![c] = d]
    BY <1>0, <1>6 DEF Answer, SocketInv, SocketTypeOK, Connection
  <2>3. d.handler = "loop"
    BY <1>0 DEF Connection
  <2>4. Serves(c, d)
    BY <1>6, <2>2, <2>3 DEF Serves, Answer
  <2> HIDE DEF d
  <2> QED  BY <2>1, <2>4, ServesKeeps
<1> QED  BY <1>1, <1>2, <1>3, <1>4, <1>5, <1>6 DEF ServerStep

\* No step breaks the invariant: the accept loop ends after the listener is closed, and
\* Stop returns after both.
LEMMA SocketStep == SocketInv /\ [SocketNext]_socketVars => SocketInv'
<1> SUFFICES ASSUME SocketInv, [SocketNext]_socketVars PROVE SocketInv'
  OBVIOUS
<1> USE DEF SocketInv, SocketTypeOK, StopWaits, AllDone
<1>1. CASE UNCHANGED socketVars
  BY <1>1 DEF socketVars
<1>2. CASE StartServer
  BY <1>2 DEF StartServer
<1>3. CASE AcceptFails
  BY <1>3 DEF AcceptFails
<1>4. CASE CallStopServer
  BY <1>4 DEF CallStopServer
<1>5. CASE CloseListener
  BY <1>5 DEF CloseListener
<1>6. CASE StopReturns
  BY <1>6 DEF StopReturns
<1>7. ASSUME NEW c \in Clients,
             \/ Connect(c) \/ SendRequest(c) \/ ReadAnswer(c) \/ Leave(c)
             \/ Accept(c) \/ ServerStep(c)
      PROVE  SocketInv'
  BY <1>7, ClientStep, HandlerStep
<1> QED  BY <1>1, <1>2, <1>3, <1>4, <1>5, <1>6, <1>7 DEF SocketNext, ServerStep

\* When Stop has returned no command runs and none will, however many clients connect,
\* ask and stay silent.
THEOREM NoCommandAfterStop == SocketSpec => []NoHandlerAfterStop
<1>1. SocketInv => NoHandlerAfterStop
  BY DEF SocketInv, StopWaits, AllDone, NoHandlerAfterStop
<1> QED  BY <1>1, InitSocket, SocketStep, PTL DEF SocketSpec

-----------------------------------------------------------------------------
\* The pause is limited, and the deadline is looked at before each attempt.
AuthInv ==
    /\ auth \in [elapsed : Nat, backoff : 0 .. MaxBackoff]
    /\ AuthEndsInTime

\* No time has passed at first.
LEMMA InitAuth == AgentInit => AuthInv
  BY AgentAssumption
     DEF AgentAssumption, AgentInit, NoAttempt, AuthInv, AuthEndsInTime, AuthLimit

\* An attempt is made before the deadline, and takes one call and one pause.
LEMMA AuthFailsInTime ==
  ASSUME AuthInv, NEW d \in CallTimes, AuthFails(d)
  PROVE  AuthInv'
<1> DEFINE spent == auth.elapsed + d + auth.backoff
<1>1. /\ auth.elapsed \in Nat /\ auth.backoff \in 0 .. MaxBackoff
      /\ d \in 0 .. LongestCall /\ LongestCall \in Nat
      /\ AuthDeadline \in Nat /\ MaxBackoff \in Nat
  BY AgentAssumption DEF AuthInv, AgentAssumption
<1>2. auth.elapsed <= AuthDeadline
  BY <1>1 DEF AuthFails, GivesUp
<1>3. spent \in Nat /\ spent <= AuthLimit
  BY <1>1, <1>2 DEF AuthLimit
<1>4. auth' = [elapsed |-> spent, backoff |-> NextBackoff(auth.backoff)]
  BY <1>1, <1>3 DEF AuthFails, AuthLimit
<1>5. NextBackoff(auth.backoff) \in 0 .. MaxBackoff
  BY <1>1 DEF NextBackoff
<1> QED  BY <1>3, <1>4, <1>5 DEF AuthInv, AuthEndsInTime, AuthLimit

\* Only attempts take time.
LEMMA AuthStep == AuthInv /\ [AgentNext]_agentVars => AuthInv'
<1> SUFFICES ASSUME AuthInv, [AgentNext]_agentVars PROVE AuthInv'
  OBVIOUS
<1>1. CASE UNCHANGED auth
  BY <1>1 DEF AuthInv, AuthEndsInTime, AuthLimit
<1>2. CASE auth' = NoAttempt
  BY <1>2, AgentAssumption
     DEF AgentAssumption, NoAttempt, AuthInv, AuthEndsInTime, AuthLimit
<1>3. ASSUME NEW d \in CallTimes, AuthFails(d) PROVE AuthInv'
  BY <1>3, AuthFailsInTime
<1>4. CASE UNCHANGED agentVars
  BY <1>1, <1>4 DEF agentVars
<1>5. ASSUME NEW c, StartOne(c) \/ StartFails(c) PROVE UNCHANGED auth
  BY <1>5 DEF StartOne, StartFails
<1>6. CASE CloudSkipped \/ AuthSucceeds
  BY <1>2, <1>6 DEF CloudSkipped, AuthSucceeds
<1>7. CASE Signal \/ RunDeferred \/ TailEnds \/ Gone
  BY <1>1, <1>7 DEF Signal, RunDeferred, TailEnds, Gone
<1> QED  BY <1>1, <1>3, <1>4, <1>5, <1>6, <1>7 DEF AgentNext

\* The start never waits for the cloud longer than the deadline, one attempt and one
\* pause, whatever the attempts take and however often they fail.
THEOREM StartIsBounded == AgentSpec => []AuthEndsInTime
<1>1. AuthInv => AuthEndsInTime
  BY DEF AuthInv
<1> QED  BY <1>1, InitAuth, AuthStep, PTL DEF AgentSpec

-----------------------------------------------------------------------------
(* The order of the ends.                                                     *)

Names == {Order[i] : i \in 1 .. 18}

\* The components whose end is deferred, but for the socket, which may not open.
Sure == {"logger", "lock", "manager", "timers", "detector", "ports", "cloud", "reporter",
         "watch", "tails"}

\* What has been started, and deferred, when c is.
Lower(c) ==
    CASE c = "logger" -> {}
      [] c = "lock" -> {"logger"}
      [] c = "manager" -> {"logger", "lock"}
      [] c = "timers" -> {"logger", "lock", "manager"}
      [] c = "detector" -> {"logger", "lock", "manager", "timers"}
      [] c = "ports" -> {"logger", "lock", "manager", "timers", "detector"}
      [] c \in {"socket", "cloud"} ->
            {"logger", "lock", "manager", "timers", "detector", "ports"}
      [] c = "reporter" -> {"logger", "lock", "manager", "timers", "detector", "ports", "cloud"}
      [] OTHER -> {"logger"}

\* Above all that is deferred before it, once, and started.
Stacked(s) ==
    /\ \A i, j \in 1 .. Len(s) : i < j => s[i] # s[j]
    /\ \A i \in 1 .. Len(s) : \A u \in Lower(s[i]) : \E j \in 1 .. Len(s) : i < j /\ s[j] = u

\* What s ends is open, what is open and uses others is ended by s, and the end of the
\* cloud is that of the plugin.
Covers(s, opened) ==
    /\ \A i \in 1 .. Len(s) : s[i] # "plugin" /\ s[i] \in opened \cup {"cloud"}
    /\ \A c \in opened \cap DOMAIN Uses : \E i \in 1 .. Len(s) : s[i] = c
    /\ \A i \in 1 .. Len(s) : s[i] = "cloud" => "plugin" \in opened

\* While main starts, s ends all that was started before position n and can be sure to.
UpTo(s, n, opened) ==
    /\ \A i \in 1 .. Len(s) : \E k \in 1 .. 18 : k < n /\ Order[k] = s[i]
    /\ \A k \in 1 .. 18 : k < n /\ Order[k] \in Sure => \E i \in 1 .. Len(s) : s[i] = Order[k]
    /\ 12 < n => "plugin" \in opened

EndsInv ==
    /\ at \in 1 .. 19 /\ deferred \in Seq(Names)
    /\ Stacked(deferred) /\ Covers(deferred, open)
    /\ life = "starting" => UpTo(deferred, at, open)

\* The order of the start, position by position.
LEMMA OrderIs ==
  /\ Len(Order) = 18 /\ DOMAIN Order = 1 .. 18
  /\ Order[1] = "config" /\ Order[2] = "logger" /\ Order[3] = "lock"
  /\ Order[4] = "manager" /\ Order[5] = "rules" /\ Order[6] = "timers"
  /\ Order[7] = "detector" /\ Order[8] = "ports" /\ Order[9] = "preload"
  /\ Order[10] = "socket" /\ Order[11] = "restore" /\ Order[12] = "plugin"
  /\ Order[13] = "cloud" /\ Order[14] = "reporter" /\ Order[15] = "watch"
  /\ Order[16] = "tails" /\ Order[17] = "loop" /\ Order[18] = "signals"
  BY DEF Order

\* Nothing is started twice.
LEMMA OrderOnce == \A i, k \in 1 .. 18 : i # k => Order[i] # Order[k]
  BY OrderIs

\* What is below a component comes before it and is sure to be started.
LEMMA LowerIsEarlier ==
  ASSUME NEW n \in 1 .. 18, Order[n] \in Sure \cup {"socket"}, NEW u \in Lower(Order[n])
  PROVE  u \in Sure /\ \E k \in 1 .. 18 : k < n /\ Order[k] = u
<1>1. u \in Sure
  BY DEF Lower, Sure
<1>2. PICK k \in {2, 3, 4, 6, 7, 8, 13} : Order[k] = u
  BY OrderIs DEF Lower
<1>3. n \in {2, 3, 4, 6, 7, 8, 10, 13, 14, 15, 16}
  BY OrderIs DEF Sure
<1>4. k < n
  BY <1>2, <1>3, OrderIs DEF Lower
<1> QED  BY <1>1, <1>2, <1>4

\* One more end goes on top of those deferred.
LEMMA Pushed ==
  ASSUME NEW s \in Seq(Names), NEW c \in Names, NEW t, t = <<c>> \o s
  PROVE  /\ t \in Seq(Names) /\ Len(t) = Len(s) + 1 /\ Len(s) \in Nat
         /\ t[1] = c /\ \A i \in 1 .. Len(s) : t[i + 1] = s[i] /\ i + 1 \in 1 .. Len(t)
         /\ \A j \in 1 .. Len(t) : j = 1 \/ \E i \in 1 .. Len(s) : j = i + 1
<1>1. /\ t \in Seq(Names) /\ Len(t) = Len(s) + 1 /\ Len(s) \in Nat
      /\ t[1] = c /\ \A i \in 1 .. Len(s) : t[i + 1] = s[i]
  OBVIOUS
<1>2. ASSUME NEW j \in 1 .. Len(t), j # 1 PROVE \E i \in 1 .. Len(s) : j = i + 1
  <2>1. j - 1 \in 1 .. Len(s) /\ j = (j - 1) + 1
    BY <1>1, <1>2
  <2> QED  BY <2>1
<1> QED  BY <1>1, <1>2

\* The end on top is run, and the others stay.
LEMMA Popped ==
  ASSUME NEW s \in Seq(Names), s # <<>>, NEW t, t = Tail(s)
  PROVE  /\ t \in Seq(Names) /\ Len(t) \in Nat /\ 1 \in 1 .. Len(s) /\ Head(s) = s[1]
         /\ \A i \in 1 .. Len(t) : t[i] = s[i + 1] /\ i + 1 \in 1 .. Len(s)
         /\ \A j \in 1 .. Len(s) : j = 1 \/ \E i \in 1 .. Len(t) : j = i + 1
<1>1. /\ t \in Seq(Names) /\ Len(t) = Len(s) - 1 /\ Len(t) \in Nat /\ Head(s) = s[1]
      /\ \A i \in 1 .. Len(t) : t[i] = s[i + 1]
  OBVIOUS
<1>2. ASSUME NEW j \in 1 .. Len(s), j # 1 PROVE \E i \in 1 .. Len(t) : j = i + 1
  <2>1. j - 1 \in 1 .. Len(t) /\ j = (j - 1) + 1
    BY <1>1, <1>2
  <2> QED  BY <2>1
<1> QED  BY <1>1, <1>2

\* A component that is started goes on top of all it may use.
LEMMA StackGrows ==
  ASSUME NEW s \in Seq(Names), NEW n \in 1 .. 18, NEW opened, Stacked(s), UpTo(s, n, opened),
         Order[n] \in Sure \cup {"socket"}, NEW t, t = <<Order[n]>> \o s
  PROVE  Stacked(t)
<1> DEFINE c == Order[n]
<1>1. c \in Names
  BY DEF Names
<1>2. /\ t \in Seq(Names) /\ Len(t) = Len(s) + 1 /\ Len(s) \in Nat
      /\ t[1] = c /\ \A i \in 1 .. Len(s) : t[i + 1] = s[i] /\ i + 1 \in 1 .. Len(t)
      /\ \A j \in 1 .. Len(t) : j = 1 \/ \E i \in 1 .. Len(s) : j = i + 1
  BY <1>1, Pushed
<1>3. ASSUME NEW i \in 1 .. Len(s) PROVE s[i] # c
  <2>1. PICK k \in 1 .. 18 : k < n /\ Order[k] = s[i]
    BY DEF UpTo
  <2>2. k # n
    BY <2>1
  <2> QED  BY <2>1, <2>2, OrderOnce
<1>4. ASSUME NEW u \in Lower(c) PROVE \E i \in 1 .. Len(s) : s[i] = u
  <2>1. PICK k \in 1 .. 18 : u \in Sure /\ k < n /\ Order[k] = u
    BY LowerIsEarlier
  <2> QED  BY <2>1 DEF UpTo
<1> HIDE DEF c
<1>5. ASSUME NEW i \in 1 .. Len(t), NEW j \in 1 .. Len(t), i < j PROVE t[i] # t[j]
  <2>1. PICK m \in 1 .. Len(s) : j = m + 1
    BY <1>2, <1>5
  <2>2. CASE i = 1
    BY <1>2, <1>3, <2>1, <2>2
  <2>3. ASSUME NEW k \in 1 .. Len(s), i = k + 1 PROVE t[i] # t[j]
    <3>1. k < m
      BY <1>5, <2>1, <2>3
    <3> QED  BY <1>2, <2>1, <2>3, <3>1 DEF Stacked
  <2> QED  BY <1>2, <2>2, <2>3
<1>6. ASSUME NEW i \in 1 .. Len(t), NEW u \in Lower(t[i])
      PROVE  \E j \in 1 .. Len(t) : i < j /\ t[j] = u
  <2>1. CASE i = 1
    <3>1. PICK m \in 1 .. Len(s) : s[m] = u
      BY <1>2, <1>4, <1>6, <2>1
    <3>2. m + 1 \in 1 .. Len(t) /\ 1 < m + 1 /\ t[m + 1] = u
      BY <1>2, <3>1
    <3> QED  BY <2>1, <3>2
  <2>2. ASSUME NEW k \in 1 .. Len(s), i = k + 1
        PROVE  \E j \in 1 .. Len(t) : i < j /\ t[j] = u
    <3>1. u \in Lower(s[k])
      BY <1>2, <1>6, <2>2
    <3>2. PICK m \in 1 .. Len(s) : k < m /\ s[m] = u
      BY <3>1 DEF Stacked
    <3>3. m + 1 \in 1 .. Len(t) /\ i < m + 1 /\ t[m + 1] = u
      BY <1>2, <2>2, <3>2
    <3> QED  BY <3>3
  <2> QED  BY <1>2, <2>1, <2>2
<1> QED  BY <1>5, <1>6 DEF Stacked

\* When the end on top has run, what is left is in its order.
LEMMA StackShrinks ==
  ASSUME NEW s \in Seq(Names), s # <<>>, Stacked(s), NEW t, t = Tail(s)
  PROVE  Stacked(t) /\ \A i \in 1 .. Len(t) : t[i] # s[1]
<1>1. /\ t \in Seq(Names) /\ Len(t) \in Nat /\ 1 \in 1 .. Len(s)
      /\ \A i \in 1 .. Len(t) : t[i] = s[i + 1] /\ i + 1 \in 1 .. Len(s)
      /\ \A j \in 1 .. Len(s) : j = 1 \/ \E i \in 1 .. Len(t) : j = i + 1
  BY Popped
<1>2. ASSUME NEW i \in 1 .. Len(t), NEW j \in 1 .. Len(t), i < j PROVE t[i] # t[j]
  <2>1. i + 1 < j + 1
    BY <1>2
  <2> QED  BY <1>1, <2>1 DEF Stacked
<1>3. ASSUME NEW i \in 1 .. Len(t), NEW u \in Lower(t[i])
      PROVE  \E j \in 1 .. Len(t) : i < j /\ t[j] = u
  <2>1. PICK m \in 1 .. Len(s) : i + 1 < m /\ s[m] = u
    BY <1>1, <1>3 DEF Stacked
  <2>2. PICK j \in 1 .. Len(t) : m = j + 1
    BY <1>1, <2>1
  <2> QED  BY <1>1, <2>1, <2>2
<1>4. ASSUME NEW i \in 1 .. Len(t) PROVE t[i] # s[1]
  <2>1. 1 < i + 1
    OBVIOUS
  <2> QED  BY <1>1, <2>1 DEF Stacked
<1> QED  BY <1>2, <1>3, <1>4 DEF Stacked

\* Main comes one further.
LEMMA StartedInOrder ==
  ASSUME EndsInv, NEW running, Starting(Order[at]), Started(Order[at], running),
         running = {Order[at]} \/ (running = {} /\ Order[at] = "cloud")
  PROVE  EndsInv'
<1> DEFINE n == at
           c == Order[n]
           s == deferred
           t == deferred'
<1>1. /\ n \in 1 .. 18 /\ at' = n + 1 /\ life = "starting"
      /\ open' = open \cup ({c} \cap running) /\ t = Deferred(c) \o s
  BY OrderIs DEF EndsInv, Starting, Started
<1>2. /\ s \in Seq(Names) /\ Stacked(s) /\ Covers(s, open) /\ UpTo(s, n, open)
  BY <1>1 DEF EndsInv
<1>3. c \in Names
  BY <1>1 DEF Names
<1>4. open \subseteq open' /\ open' \subseteq open \cup {c} /\ (c # "cloud" => c \in open')
  BY <1>1
<1>5. 12 < n + 1 => "plugin" \in open'
  <2>1. CASE n = 12
    BY <1>4, <2>1, OrderIs
  <2>2. CASE n # 12
    BY <1>1, <1>2, <1>4, <2>2 DEF UpTo
  <2> QED  BY <2>1, <2>2
<1>6. c = "cloud" => "plugin" \in open'
  <2>1. c = "cloud" => n = 13
    BY <1>1, OrderIs, OrderOnce
  <2> QED  BY <1>5, <2>1
<1>7. \A k \in 1 .. 18 : k < n + 1 => k < n \/ k = n
  BY <1>1
<1>8. CASE c \in Sure \cup {"socket"}
  <2>1. t = <<c>> \o s
    BY <1>1, <1>8 DEF Deferred, Sure
  <2>2. /\ t \in Seq(Names) /\ Len(t) = Len(s) + 1 /\ Len(s) \in Nat
        /\ t[1] = c /\ \A i \in 1 .. Len(s) : t[i + 1] = s[i] /\ i + 1 \in 1 .. Len(t)
        /\ \A j \in 1 .. Len(t) : j = 1 \/ \E i \in 1 .. Len(s) : j = i + 1
    BY <1>2, <1>3, <2>1, Pushed
  <2>3. Stacked(t)
    BY <1>1, <1>2, <1>8, <2>1, StackGrows
  <2> HIDE DEF n, c, s, t
  <2>4. 1 \in 1 .. Len(t)
    BY <2>2
  <2>5. \A x : (\E i \in 1 .. Len(t) : t[i] = x) <=> x = c \/ \E i \in 1 .. Len(s) : s[i] = x
    <3>1. ASSUME NEW j \in 1 .. Len(t) PROVE t[j] = c \/ \E i \in 1 .. Len(s) : s[i] = t[j]
      BY <2>2
    <3>2. \E i \in 1 .. Len(t) : t[i] = c
      BY <2>2, <2>4
    <3>3. ASSUME NEW k \in 1 .. Len(s) PROVE \E i \in 1 .. Len(t) : t[i] = s[k]
      BY <2>2
    <3> QED  BY <3>1, <3>2, <3>3
  <2>6. Covers(t, open')
    <3>1. \A i \in 1 .. Len(t) : t[i] = c \/ \E k \in 1 .. Len(s) : s[k] = t[i]
      BY <2>2
    <3>2. \A i \in 1 .. Len(t) : t[i] # "plugin" /\ t[i] \in open' \cup {"cloud"}
      <4>1. c # "plugin"
        BY <1>8 DEF Sure
      <4> QED  BY <1>2, <1>4, <3>1, <4>1 DEF Covers
    <3>3. \A x \in open' \cap DOMAIN Uses : \E i \in 1 .. Len(t) : t[i] = x
      BY <1>2, <1>4, <2>5 DEF Covers
    <3>4. \A i \in 1 .. Len(t) : t[i] = "cloud" => "plugin" \in open'
      BY <1>2, <1>4, <1>6, <3>1 DEF Covers
    <3> QED  BY <3>2, <3>3, <3>4 DEF Covers
  <2>7. UpTo(t, n + 1, open')
    <3>1. \A i \in 1 .. Len(t) : t[i] = c \/ \E k \in 1 .. Len(s) : s[k] = t[i]
      BY <2>2
    <3>2. \A k \in 1 .. 18 : k < n => k < n + 1
      BY <1>1
    <3>3. Order[n] = c /\ n < n + 1
      BY <1>1 DEF c
    <3>4. ASSUME NEW i \in 1 .. Len(t)
          PROVE  \E k \in 1 .. 18 : k < n + 1 /\ Order[k] = t[i]
      <4>1. CASE t[i] = c
        BY <1>1, <3>3, <4>1
      <4>2. ASSUME NEW m \in 1 .. Len(s), s[m] = t[i]
            PROVE  \E k \in 1 .. 18 : k < n + 1 /\ Order[k] = t[i]
        <5>1. PICK k \in 1 .. 18 : k < n /\ Order[k] = s[m]
          BY <1>2 DEF UpTo
        <5> QED  BY <3>2, <4>2, <5>1
      <4> QED  BY <3>1, <4>1, <4>2
    <3>5. \A k \in 1 .. 18 : k < n + 1 /\ Order[k] \in Sure
                                => \E i \in 1 .. Len(t) : t[i] = Order[k]
      BY <1>2, <1>7, <2>5, <3>3 DEF UpTo
    <3> QED  BY <1>5, <3>4, <3>5 DEF UpTo
  <2> QED  BY <1>1, <2>2, <2>3, <2>6, <2>7 DEF EndsInv, n, t
<1>9. CASE c \notin Sure \cup {"socket"}
  <2>1. t = s
    <3>1. Deferred(c) = <<>>
      BY <1>9 DEF Deferred, Sure
    <3> QED  BY <1>1, <1>2, <3>1
  <2>2. c \notin DOMAIN Uses
    BY <1>9 DEF Uses, Sure
  <2> HIDE DEF n, c, s, t
  <2>3. Covers(t, open')
    BY <1>2, <1>4, <2>1, <2>2 DEF Covers
  <2>4. UpTo(t, n + 1, open')
    <3>1. \A k \in 1 .. 18 : k < n => k < n + 1
      BY <1>1
    <3>2. Order[n] = c
      BY DEF c
    <3> QED  BY <1>2, <1>5, <1>7, <1>9, <2>1, <3>1, <3>2 DEF UpTo
  <2> QED  BY <1>1, <1>2, <2>1, <2>3, <2>4 DEF EndsInv, n, t
<1> QED  BY <1>8, <1>9

\* Nothing runs at first.
LEMMA InitEnds == AgentInit => EndsInv
  BY OrderIs DEF AgentInit, EndsInv, Stacked, Covers, UpTo

\* Each step keeps the order.
LEMMA EndsStep == EndsInv /\ [AgentNext]_agentVars => EndsInv'
<1> SUFFICES ASSUME EndsInv, [AgentNext]_agentVars PROVE EndsInv'
  OBVIOUS
<1>0. CASE UNCHANGED <<life, at, open, deferred>>
  BY <1>0 DEF EndsInv
<1>1. ASSUME NEW i \in DOMAIN Order, StartOne(Order[i]) PROVE EndsInv'
  <2>1. Order[i] = Order[at] /\ Starting(Order[at]) /\ Started(Order[at], {Order[at]})
    BY <1>1 DEF StartOne, Starting
  <2> QED  BY <2>1, StartedInOrder
<1>2. CASE CloudSkipped \/ AuthSucceeds
  <2>1. Order[at] = "cloud" /\ Starting(Order[at])
    BY <1>2 DEF CloudSkipped, AuthSucceeds, Starting
  <2>2. \E running \in {{}, {"cloud"}} : Started(Order[at], running)
    BY <1>2, <2>1 DEF CloudSkipped, AuthSucceeds
  <2> QED  BY <2>1, <2>2, StartedInOrder
<1>3. CASE deferred' = <<>> /\ open' = {} /\ life' = "gone" /\ at' = at
  BY <1>3 DEF EndsInv, Stacked, Covers
<1>4. ASSUME NEW i \in DOMAIN Order, StartFails(Order[i]) PROVE EndsInv'
  <2>1. CASE at' = at + 1 /\ UNCHANGED <<life, open, deferred>>
             /\ Order[i] \in {"socket", "restore", "rules"}
    <3>1. Order[at] = Order[i] /\ at \in 1 .. 18 /\ life = "starting"
      BY <1>4, OrderIs DEF StartFails, Starting, EndsInv
    <3>2. Order[at] \notin Sure /\ at # 12
      BY <2>1, <3>1, OrderIs DEF Sure
    <3>3. UpTo(deferred, at, open)
      BY <3>1 DEF EndsInv
    <3>4. \A k \in 1 .. 18 : (k < at => k < at + 1) /\ (k < at + 1 => k < at \/ k = at)
      BY <3>1
    <3>5. 12 < at + 1 => 12 < at
      BY <3>1, <3>2
    <3>6. UpTo(deferred, at + 1, open)
      BY <3>2, <3>3, <3>4, <3>5 DEF UpTo
    <3> QED  BY <2>1, <3>1, <3>6 DEF EndsInv
  <2> QED  BY <1>3, <1>4, <2>1 DEF StartFails
<1>5. CASE Signal
  BY <1>3, <1>5 DEF Signal, EndsInv
<1>6. CASE RunDeferred
  <2> DEFINE s == deferred
             t == deferred'
  <2>1. /\ s \in Seq(Names) /\ s # <<>> /\ Stacked(s) /\ Covers(s, open) /\ t = Tail(s)
        /\ UNCHANGED <<life, at>> /\ life = "ending"
    BY <1>6 DEF RunDeferred, EndsInv
  <2>2. /\ t \in Seq(Names) /\ Len(t) \in Nat /\ 1 \in 1 .. Len(s) /\ Head(s) = s[1]
        /\ \A i \in 1 .. Len(t) : t[i] = s[i + 1] /\ i + 1 \in 1 .. Len(s)
        /\ \A j \in 1 .. Len(s) : j = 1 \/ \E i \in 1 .. Len(t) : j = i + 1
    BY <2>1, Popped
  <2>3. Stacked(t) /\ \A i \in 1 .. Len(t) : t[i] # s[1]
    <3> HIDE DEF s, t
    <3>1. s \in Seq(Names) /\ s # <<>> /\ Stacked(s)
      BY <2>1
    <3>2. t = Tail(s)
      BY <2>1
    <3> QED  BY <3>1, <3>2, StackShrinks
  <2>4. open' = CASE s[1] = "cloud" -> open \ {"cloud", "plugin"}
                  [] s[1] = "tails" -> open
                  [] OTHER -> open \ {s[1]}
    BY <1>6, <2>2 DEF RunDeferred
  <2>5. /\ open' \subseteq open /\ (s[1] # "tails" => s[1] \notin open')
        /\ \A x \in open : x \notin open' =>
              x = s[1] \/ (x = "plugin" /\ s[1] = "cloud")
    BY <2>4
  <2> HIDE DEF s, t
  <2>6. \A i \in 1 .. Len(t) : t[i] # "plugin" /\ t[i] \in open' \cup {"cloud"}
    <3> SUFFICES ASSUME NEW i \in 1 .. Len(t)
                 PROVE  t[i] # "plugin" /\ t[i] \in open' \cup {"cloud"}
      OBVIOUS
    <3>1. t[i] = s[i + 1] /\ i + 1 \in 1 .. Len(s) /\ t[i] # s[1]
      BY <2>2, <2>3
    <3>2. t[i] \in open \cup {"cloud"} /\ t[i] # "plugin"
      BY <2>1, <3>1 DEF Covers
    <3> QED  BY <2>5, <3>1, <3>2
  <2>7. \A x \in open' \cap DOMAIN Uses : \E i \in 1 .. Len(t) : t[i] = x
    <3> SUFFICES ASSUME NEW x \in open' \cap DOMAIN Uses PROVE \E i \in 1 .. Len(t) : t[i] = x
      OBVIOUS
    <3>1. PICK j \in 1 .. Len(s) : s[j] = x
      BY <2>1, <2>5 DEF Covers
    <3>2. x # "tails" /\ x # s[1]
      BY <2>5 DEF Uses
    <3>3. PICK i \in 1 .. Len(t) : j = i + 1
      BY <2>2, <3>1, <3>2
    <3> QED  BY <2>2, <3>1, <3>3
  <2>8. \A i \in 1 .. Len(t) : t[i] = "cloud" => "plugin" \in open'
    <3> SUFFICES ASSUME NEW i \in 1 .. Len(t), t[i] = "cloud" PROVE "plugin" \in open'
      OBVIOUS
    <3>1. "plugin" \in open /\ s[1] # "cloud"
      BY <2>1, <2>2, <2>3 DEF Covers
    <3>2. s[1] # "plugin"
      BY <2>1, <2>2 DEF Covers
    <3> QED  BY <2>5, <3>1, <3>2
  <2> QED  BY <2>1, <2>2, <2>3, <2>6, <2>7, <2>8 DEF EndsInv, Covers, s, t
<1>7. CASE TailEnds
  <2>1. /\ open' = open \ {"tails"} /\ UNCHANGED <<life, at, deferred>> /\ life = "ending"
        /\ \A i \in 1 .. Len(deferred) : deferred[i] # "tails"
    BY <1>7 DEF TailEnds, EndsInv
  <2>2. Covers(deferred, open')
    BY <2>1 DEF EndsInv, Covers, Uses
  <2> QED  BY <2>1, <2>2 DEF EndsInv
<1>8. CASE Gone
  BY <1>3, <1>8 DEF Gone
<1>9. ASSUME NEW d \in CallTimes, AuthFails(d) PROVE EndsInv'
  BY <1>0, <1>9 DEF AuthFails
<1>10. CASE UNCHANGED agentVars
  BY <1>0, <1>10 DEF agentVars
<1> QED  BY <1>1, <1>2, <1>4, <1>5, <1>6, <1>7, <1>8, <1>9, <1>10 DEF AgentNext

\* What runs finds open what it calls: the ends are deferred in the order of the start, so
\* that what a component uses ends after it, whatever failed before.
THEOREM UsersEndFirst == AgentSpec => []UsersBeforeUsed
<1>1. EndsInv => UsersBeforeUsed
  <2> SUFFICES ASSUME EndsInv, NEW c \in open \cap DOMAIN Uses, NEW u \in Uses[c]
               PROVE  u \in open
    BY DEF UsersBeforeUsed
  <2>1. PICK i \in 1 .. Len(deferred) : deferred[i] = c
    BY DEF EndsInv, Covers
  <2>2. CASE u = "plugin"
    <3>1. c = "cloud" \/ "cloud" \in Lower(c)
      BY <2>2 DEF Uses, Lower
    <3>2. PICK j \in 1 .. Len(deferred) : deferred[j] = "cloud"
      BY <2>1, <3>1 DEF EndsInv, Stacked
    <3> QED  BY <2>2, <3>2 DEF EndsInv, Covers
  <2>3. CASE u # "plugin"
    <3>1. u \in Lower(c) /\ u # "cloud"
      BY <2>3 DEF Uses, Lower
    <3>2. PICK j \in 1 .. Len(deferred) : deferred[j] = u
      BY <2>1, <3>1 DEF EndsInv, Stacked
    <3> QED  BY <3>1, <3>2 DEF EndsInv, Covers
  <2> QED  BY <2>2, <2>3
<1> QED  BY <1>1, InitEnds, EndsStep, PTL DEF AgentSpec
-----------------------------------------------------------------------------
(* The tail of a log: TailSpec => []LinesOnce. *)

Cell == [line : Nat, ends : BOOLEAN]

Reader == [step : {"down", "idle", "poll", "read"}, inode : 0..MaxFiles, offset : Nat,
           fd : 0..MaxFiles, cancelled : BOOLEAN, stat : [inode : 0..MaxFiles, size : Nat],
           rotated : BOOLEAN]

Fate == [sent : Nat, dropped : Nat, cut : BOOLEAN, astray : BOOLEAN]

FileType ==
    /\ writer \in 1..MaxFiles /\ path \in {0, writer} /\ (path = 0 => writer < MaxFiles)
    /\ content \in [1..MaxFiles -> Seq(Cell)]
    /\ line \in [n : 0..MaxLines, ended : BOOLEAN]

TailType ==
    /\ tail \in Reader /\ (~Up => tail = Stopped)
    /\ saved \in [inode : 0..MaxFiles, offset : Nat]
    /\ queue \in Seq(Nat)
    /\ fate \in [1..MaxLines -> Fate]

\* A cell holds a line that was begun.  A line ends in the cell after the one that began
\* it, and only the last line of the file written to may not have ended.
CellInv(i, k) ==
    /\ content[i][k].line \in 1..line.n
    /\ content[i][k].ends =>
          /\ k > 1 /\ ~content[i][k - 1].ends /\ content[i][k - 1].line = content[i][k].line
          /\ content[i][k].line = line.n => line.ended
    /\ ~content[i][k].ends =>
          /\ k > 1 => content[i][k - 1].ends
          /\ k = Size(i) => i = writer /\ ~line.ended

HalfLineInv ==
    ~line.ended => /\ Size(writer) > 0
                   /\ content[writer][Size(writer)] = [line |-> line.n, ends |-> FALSE]

\* A line ends in one place.
UniqueInv ==
    \A i, j \in 1..MaxFiles : \A k \in 1..Size(i), m \in 1..Size(j) :
        content[i][k].ends /\ content[j][m].ends /\ content[i][k].line = content[j][m].line
            => i = j /\ k = m

FileInv ==
    /\ FileType
    /\ \A i \in 1..MaxFiles : \A k \in 1..Size(i) : CellInv(i, k)
    /\ HalfLineInv /\ UniqueInv

-----------------------------------------------------------------------------
\* At first every file is empty.
LEMMA InitFiles == TailInit => FileInv
<1> SUFFICES ASSUME TailInit PROVE FileInv
  OBVIOUS
<1>1. \A i \in 1..MaxFiles : content[i] = <<>> /\ Size(i) = 0
  BY DEF TailInit, Size
<1>2. FileType
  <2>1. content \in [1..MaxFiles -> Seq(Cell)]
    BY DEF TailInit
  <2> QED  BY <2>1, TailAssumption DEF FileType, TailInit
<1>3. HalfLineInv
  BY DEF HalfLineInv, TailInit
<1> QED  BY <1>1, <1>2, <1>3 DEF FileInv, UniqueInv

\* What the server has written stays where it is; a line that begins or ends is in the
\* new cells.
LEMMA AppendedCells ==
  ASSUME FileType, NEW ended \in BOOLEAN, AppendLine(ended), NEW s \in Nat, s = Size(writer)
  PROVE  /\ content' \in [1..MaxFiles -> Seq(Cell)]
         /\ line' = [n |-> line'.n, ended |-> ended] /\ line'.n \in 0..MaxLines
         /\ line'.n = IF line.ended THEN line.n + 1 ELSE line.n
         /\ line'.ended = ended /\ line'.n \in Nat
         /\ \A j \in 1..MaxFiles : j # writer => content'[j] = content[j]
         /\ \A k \in 1..s : content'[writer][k] = content[writer][k]
         /\ line.ended => Len(content'[writer]) = IF ended THEN s + 2 ELSE s + 1
         /\ line.ended => content'[writer][s + 1] = [line |-> line.n + 1, ends |-> FALSE]
         /\ line.ended /\ ended
              => content'[writer][s + 2] = [line |-> line.n + 1, ends |-> TRUE]
         /\ ~line.ended => ended /\ Len(content'[writer]) = s + 1
         /\ ~line.ended => content'[writer][s + 1] = [line |-> line.n, ends |-> TRUE]
<1> DEFINE c == content[writer]
           a == [line |-> line.n + 1, ends |-> FALSE]
           b == [line |-> line.n + 1, ends |-> TRUE]
           e == [line |-> line.n, ends |-> TRUE]
           d == IF line.ended THEN IF ended THEN (c \o <<a>>) \o <<b>> ELSE c \o <<a>>
                ELSE c \o <<e>>
<1>1. /\ line' = [n |-> IF line.ended THEN line.n + 1 ELSE line.n, ended |-> ended]
      /\ line.ended => line.n < MaxLines
      /\ ~line.ended => ended
  BY DEF AppendLine
<1>2. /\ c \in Seq(Cell) /\ a \in Cell /\ b \in Cell /\ e \in Cell
      /\ writer \in 1..MaxFiles /\ line.n \in 0..MaxLines /\ line.ended \in BOOLEAN
  BY TailAssumption DEF FileType, Cell
<1>3. content' = [content EXCEPT ![writer] = d]
  <2>1. /\ line'.n = IF line.ended THEN line.n + 1 ELSE line.n
    BY <1>1
  <2>2. \A q \in Seq(Cell) : q \o <<>> = q
    OBVIOUS
  <2>3. (c \o <<a>>) \in Seq(Cell) /\ (c \o <<e>>) \in Seq(Cell) /\ c \o <<>> = c
    BY <1>2
  <2>4. CASE line.ended
    <3>1. content' = [content EXCEPT ![writer] =
             (c \o <<[line |-> line.n + 1, ends |-> FALSE]>>)
             \o (IF ended THEN <<[line |-> line.n + 1, ends |-> TRUE]>> ELSE <<>>)]
      BY <2>1, <2>4 DEF AppendLine
    <3> QED  BY <3>1, <2>2, <2>3, <2>4
  <2>5. CASE ~line.ended
    <3>1. content' = [content EXCEPT ![writer] =
             (c \o <<>>) \o <<[line |-> line.n, ends |-> TRUE]>>]
      BY <2>1, <2>5, <1>1 DEF AppendLine
    <3> QED  BY <3>1, <2>3, <2>5
  <2> QED  BY <2>4, <2>5
<1>4. d \in Seq(Cell)
  BY <1>2
<1>5. /\ content' \in [1..MaxFiles -> Seq(Cell)] /\ content'[writer] = d
      /\ \A i \in 1..MaxFiles : i # writer => content'[i] = content[i]
  BY <1>2, <1>3, <1>4 DEF FileType
<1>9. s = Len(c)
  BY DEF Size
<1>6. \A k \in 1..s : d[k] = c[k]
  BY <1>2, <1>9
<1>7. /\ line.ended => Len(d) = IF ended THEN s + 2 ELSE s + 1
      /\ line.ended => d[s + 1] = a
      /\ line.ended /\ ended => d[s + 2] = b
      /\ ~line.ended => Len(d) = s + 1 /\ d[s + 1] = e
  BY <1>2, <1>9
<1>8. line'.n \in 0..MaxLines /\ line'.n \in Nat
  <2>1. line'.n = IF line.ended THEN line.n + 1 ELSE line.n
    BY <1>1
  <2> QED  BY <2>1, <1>1, <1>2, TailAssumption
<1> HIDE DEF d
<1> QED  BY <1>1, <1>5, <1>6, <1>7, <1>8

\* The cells that were there keep their shape, and the new ones have it.
LEMMA AppendKeepsCells ==
  ASSUME FileInv, NEW ended \in BOOLEAN, AppendLine(ended), NEW i \in 1..MaxFiles,
         NEW s \in Nat, s = Size(writer)
  PROVE  \A k \in 1..Len(content'[i]) : CellInv(i, k)'
<1>1. FileType /\ writer \in 1..MaxFiles /\ writer' = writer /\ line.ended \in BOOLEAN
      /\ line.n \in Nat
  BY DEF FileInv, FileType, AppendLine, Size
<1>2. /\ line'.n = IF line.ended THEN line.n + 1 ELSE line.n
      /\ line'.ended = ended /\ line'.n \in Nat
      /\ \A j \in 1..MaxFiles : j # writer => content'[j] = content[j]
      /\ \A k \in 1..s : content'[writer][k] = content[writer][k]
      /\ line.ended => Len(content'[writer]) = IF ended THEN s + 2 ELSE s + 1
      /\ line.ended => content'[writer][s + 1] = [line |-> line.n + 1, ends |-> FALSE]
      /\ line.ended /\ ended
           => content'[writer][s + 2] = [line |-> line.n + 1, ends |-> TRUE]
      /\ ~line.ended => ended /\ Len(content'[writer]) = s + 1
      /\ ~line.ended => content'[writer][s + 1] = [line |-> line.n, ends |-> TRUE]
  BY <1>1, AppendedCells
<1>3. \A j \in 1..MaxFiles : \A k \in 1..Size(j) : CellInv(j, k)
  BY DEF FileInv
<1>4. ASSUME NEW k \in 1..Size(i), k \in 1..Len(content'[i]),
             i # writer \/ k < Len(content'[i])
      PROVE  CellInv(i, k)'
  <2>1. content'[i][k] = content[i][k] /\ (k > 1 => content'[i][k - 1] = content[i][k - 1])
    <3>1. CASE i # writer
      BY <3>1, <1>2
    <3>2. CASE i = writer
      <4>1. k > 1 => k - 1 \in 1..s
        BY <3>2, <1>1
      <4> QED  BY <3>2, <4>1, <1>2
    <3> QED  BY <3>1, <3>2
  <2>2. CellInv(i, k) /\ Size(i) \in Nat
    BY <1>1, <1>3 DEF FileType, Size
  <2>3. content'[i][k].line \in 1..line'.n
    <3>1. content'[i][k].line \in 1..line.n
      BY <2>1, <2>2 DEF CellInv
    <3>2. line'.n \in Nat /\ line.n \in Nat /\ line.n <= line'.n
      BY <1>1, <1>2
    <3> QED  BY ONLY <3>1, <3>2
  <2>4. content'[i][k].ends =>
          /\ k > 1 /\ ~content'[i][k - 1].ends /\ content'[i][k - 1].line = content'[i][k].line
          /\ content'[i][k].line = line'.n => line'.ended
    BY <2>1, <2>2, <1>1, <1>2 DEF CellInv
  <2>5. ~content'[i][k].ends /\ k > 1 => content'[i][k - 1].ends
    BY <2>1, <2>2 DEF CellInv
  <2>6. ~content'[i][k].ends /\ k = Len(content'[i]) => i = writer' /\ ~line'.ended
    BY <2>1, <2>2, <1>2, <1>4 DEF CellInv, Size
  <2> QED  BY <2>3, <2>4, <2>5, <2>6 DEF CellInv, Size
<1>5. ASSUME i = writer, line.ended
      PROVE  CellInv(i, s + 1)'
  <2>1. s + 1 > 1 => content'[i][s].ends
    <3>1. s > 0 => CellInv(i, s) /\ content'[i][s] = content[i][s]
      BY <1>1, <1>2, <1>3, <1>5
    <3> QED  BY <3>1, <1>1, <1>5 DEF CellInv
  <2>2. content'[i][s + 1].line = line'.n /\ ~content'[i][s + 1].ends
    BY <1>2, <1>5
  <2>3. s + 1 = Len(content'[i]) => i = writer' /\ ~line'.ended
    BY <1>1, <1>2, <1>5
  <2>4. s + 1 - 1 = s /\ line'.n \in 1..line'.n
    BY <1>1, <1>2, <1>5
  <2> QED  BY <2>1, <2>2, <2>3, <2>4 DEF CellInv, Size
<1>6. ASSUME i = writer, line.ended, ended
      PROVE  CellInv(i, s + 2)'
  <2>1. content'[i][s + 2] = [line |-> line'.n, ends |-> TRUE]
        /\ content'[i][s + 1] = [line |-> line'.n, ends |-> FALSE]
    BY <1>2, <1>6
  <2>2. s + 2 - 1 = s + 1 /\ s + 2 > 1 /\ line'.n \in 1..line'.n
    BY <1>1, <1>2, <1>6
  <2> QED  BY <2>1, <2>2, <1>2, <1>6 DEF CellInv
<1>7. ASSUME i = writer, ~line.ended
      PROVE  CellInv(i, s + 1)'
  <2>1. s > 0 /\ content[writer][s] = [line |-> line.n, ends |-> FALSE]
    BY <1>7 DEF FileInv, HalfLineInv
  <2>2. content'[i][s] = [line |-> line.n, ends |-> FALSE] /\ s \in 1..s
    BY <2>1, <1>1, <1>2, <1>7
  <2>3. content'[i][s + 1] = [line |-> line'.n, ends |-> TRUE] /\ line'.ended
    BY <1>2, <1>7
  <2>4. s + 1 - 1 = s /\ s + 1 > 1 /\ line'.n = line.n
    BY <2>1, <1>1, <1>2, <1>7
  <2>5. line.n \in 1..line.n
    BY <2>1, <2>2, <1>1, <1>3 DEF CellInv
  <2> QED  BY <2>2, <2>3, <2>4, <2>5 DEF CellInv
<1>8. TAKE k \in 1..Len(content'[i])
<1>9. CASE i # writer
  BY <1>2, <1>4, <1>9 DEF Size
<1>10. CASE i = writer /\ line.ended
  <2>1. k \in 1..s \/ k = s + 1 \/ (ended /\ k = s + 2)
    BY <1>1, <1>2, <1>10
  <2>2. k \in 1..s => k < Len(content'[i])
    BY <1>1, <1>2, <1>10
  <2> QED  BY <2>1, <2>2, <1>4, <1>5, <1>6, <1>10
<1>11. CASE i = writer /\ ~line.ended
  <2>1. k \in 1..s \/ k = s + 1
    BY <1>1, <1>2, <1>11
  <2>2. k \in 1..s => k < Len(content'[i])
    BY <1>1, <1>2, <1>11
  <2> QED  BY <2>1, <2>2, <1>4, <1>7, <1>11
<1> QED  BY <1>1, <1>9, <1>10, <1>11

\* The line that ends is the last begun, which had not ended before.
LEMMA AppendKeepsUnique ==
  ASSUME FileInv, NEW ended \in BOOLEAN, AppendLine(ended),
         NEW s \in Nat, s = Size(writer)
  PROVE  UniqueInv'
<1> DEFINE Old(i, k) == k \in 1..Size(i) /\ content'[i][k] = content[i][k]
           New(i, k) == i = writer /\ k = Len(content'[writer]) /\ content'[i][k].line = line'.n
<1>1. FileType /\ writer \in 1..MaxFiles /\ line.ended \in BOOLEAN /\ line.n \in Nat
  BY DEF FileInv, FileType, AppendLine, Size
<1>2. /\ line'.n = IF line.ended THEN line.n + 1 ELSE line.n
      /\ \A j \in 1..MaxFiles : j # writer => content'[j] = content[j]
      /\ \A k \in 1..s : content'[writer][k] = content[writer][k]
      /\ line.ended => Len(content'[writer]) = IF ended THEN s + 2 ELSE s + 1
      /\ line.ended => content'[writer][s + 1] = [line |-> line.n + 1, ends |-> FALSE]
      /\ line.ended /\ ended
           => content'[writer][s + 2] = [line |-> line.n + 1, ends |-> TRUE]
      /\ ~line.ended => ended /\ Len(content'[writer]) = s + 1
      /\ ~line.ended => content'[writer][s + 1] = [line |-> line.n, ends |-> TRUE]
  BY <1>1, AppendedCells
<1>3. ASSUME NEW i \in 1..MaxFiles, NEW k \in 1..Len(content'[i]), content'[i][k].ends
      PROVE  Old(i, k) \/ New(i, k)
  <2>1. CASE i # writer
    BY <2>1, <1>2 DEF Size
  <2>2. CASE i = writer /\ line.ended
    <3>1. k \in 1..s \/ k = s + 1 \/ (ended /\ k = s + 2)
      BY <1>1, <1>2, <2>2
    <3> QED  BY <3>1, <1>2, <1>3, <2>2
  <2>3. CASE i = writer /\ ~line.ended
    <3>1. k \in 1..s \/ k = s + 1
      BY <1>1, <1>2, <2>3
    <3> QED  BY <3>1, <1>2, <2>3
  <2> QED  BY <2>1, <2>2, <2>3, <1>1
<1>4. ASSUME NEW i \in 1..MaxFiles, NEW k \in 1..Len(content'[i]), Old(i, k),
             content'[i][k].ends
      PROVE  content'[i][k].line # line'.n
  <2>1. CellInv(i, k) /\ content[i][k].ends
    BY <1>4 DEF FileInv
  <2> QED  BY <2>1, <1>1, <1>2, <1>4 DEF CellInv
<1> SUFFICES ASSUME NEW i \in 1..MaxFiles, NEW j \in 1..MaxFiles,
                    NEW k \in 1..Len(content'[i]), NEW m \in 1..Len(content'[j]),
                    content'[i][k].ends, content'[j][m].ends,
                    content'[i][k].line = content'[j][m].line
             PROVE  i = j /\ k = m
  BY DEF UniqueInv, Size
<1>5. (Old(i, k) \/ New(i, k)) /\ (Old(j, m) \/ New(j, m))
  BY <1>3
<1>6. CASE Old(i, k) /\ Old(j, m)
  BY <1>6 DEF FileInv, UniqueInv
<1>7. CASE New(i, k) /\ New(j, m)
  BY <1>7
<1> QED  BY <1>4, <1>5, <1>6, <1>7

\* The files keep their shape whatever the server and the tail do.
LEMMA FileStep ==
  ASSUME FileInv, [TailNext]_tailVars
  PROVE  FileInv'
<1>1. FileType /\ line.n \in Nat
  BY DEF FileInv, FileType
<1>2. ASSUME NEW ended \in BOOLEAN, AppendLine(ended)
      PROVE  FileInv'
  <2>1. PICK s \in Nat : s = Size(writer)
    BY <1>1 DEF FileType, Size
  <2>2. FileType'
    <3>1. /\ content' \in [1..MaxFiles -> Seq(Cell)] /\ line'.n \in 0..MaxLines
          /\ line' = [n |-> line'.n, ended |-> ended]
      BY <1>1, <1>2, <2>1, AppendedCells
    <3>2. line' \in [n : 0..MaxLines, ended : BOOLEAN]
      BY <3>1
    <3> QED  BY <1>1, <1>2, <3>1, <3>2 DEF FileType, AppendLine
  <2>3. \A i \in 1..MaxFiles : \A k \in 1..Len(content'[i]) : CellInv(i, k)'
    BY <1>2, <2>1, AppendKeepsCells
  <2>4. HalfLineInv'
    <3>1. CASE ended
      <4>1. line'.ended
        BY <3>1, <1>1, <1>2, <2>1, AppendedCells
      <4> QED  BY <4>1 DEF HalfLineInv
    <3>2. CASE ~ended
      <4>1. line.ended /\ writer' = writer
        BY <3>2, <1>1, <1>2 DEF AppendLine
      <4>2. /\ Len(content'[writer]) = s + 1 /\ line'.n = line.n + 1
            /\ content'[writer][s + 1] = [line |-> line.n + 1, ends |-> FALSE]
        BY <3>2, <4>1, <1>1, <1>2, <2>1, AppendedCells
      <4> QED  BY <4>1, <4>2 DEF HalfLineInv, Size
    <3> QED  BY <3>1, <3>2
  <2>5. UniqueInv'
    BY <1>2, <2>1, AppendKeepsUnique
  <2> QED  BY <2>2, <2>3, <2>4, <2>5 DEF FileInv, Size
<1>3. ASSUME UNCHANGED content, UNCHANGED line, FileType',
             writer' = writer \/ line.ended
      PROVE  FileInv'
  <2>1. \A i \in 1..MaxFiles : \A k \in 1..Len(content'[i]) : CellInv(i, k)'
    <3>1. \A i \in 1..MaxFiles : \A k \in 1..Size(i) : CellInv(i, k)
      BY DEF FileInv
    <3> QED  BY <3>1, <1>3 DEF CellInv, Size
  <2>2. HalfLineInv'
    BY <1>3 DEF FileInv, HalfLineInv, Size
  <2>3. UniqueInv'
    BY <1>3 DEF FileInv, UniqueInv, Size
  <2> QED  BY <1>3, <2>1, <2>2, <2>3 DEF FileInv, Size
<1>4. CASE Rename
  <2>1. FileType'
    BY <1>1, <1>4 DEF Rename, FileType
  <2> QED  BY <2>1, <1>3, <1>4 DEF Rename
<1>5. CASE Reopen
  <2>1. FileType'
    BY <1>1, <1>5, TailAssumption DEF Reopen, FileType
  <2> QED  BY <2>1, <1>3, <1>5 DEF Reopen
<1>6. CASE Truncate
  <2>1. /\ path \in 1..MaxFiles /\ path = writer /\ line.ended
        /\ content' = [content EXCEPT ![path] = <<>>] /\ UNCHANGED <<path, writer, line>>
    BY <1>1, <1>6 DEF Truncate, FileType
  <2>2. FileType'
    <3>1. content' \in [1..MaxFiles -> Seq(Cell)]
      BY <1>1, <2>1 DEF FileType
    <3> QED  BY <3>1, <1>1, <2>1 DEF FileType
  <2>3. \A i \in 1..MaxFiles : i # path => content'[i] = content[i]
    BY <1>1, <2>1 DEF FileType
  <2>4. Len(content'[path]) = 0
    BY <1>1, <2>1 DEF FileType
  <2>5. ASSUME NEW i \in 1..MaxFiles, NEW k \in 1..Len(content'[i]) PROVE CellInv(i, k)'
    <3>1. i # path /\ CellInv(i, k)
      BY <2>3, <2>4 DEF FileInv, Size
    <3> QED  BY <3>1, <2>1, <2>3 DEF CellInv, Size
  <2>6. UniqueInv'
    <3>1. \A i \in 1..MaxFiles : \A k \in 1..Len(content'[i]) :
             i # path /\ content'[i] = content[i]
      BY <2>3, <2>4
    <3> QED  BY <3>1 DEF FileInv, UniqueInv, Size
  <2> QED  BY <2>1, <2>2, <2>5, <2>6 DEF FileInv, HalfLineInv, Size
<1>7. CASE UNCHANGED <<path, writer, content, line>>
  <2>1. FileType'
    BY <1>1, <1>7 DEF FileType
  <2> QED  BY <2>1, <1>3, <1>7
<1>8. ASSUME TailNext, ~\E ended \in BOOLEAN : AppendLine(ended), ~Rename, ~Reopen, ~Truncate
      PROVE  UNCHANGED <<path, writer, content, line>>
  BY <1>8 DEF TailNext, StartTail, Stat, Poll, ReadLine, CutLine, EndRead, CancelTail,
              ExitTail, KillTail, TakeEvent
<1> QED  BY <1>2, <1>4, <1>5, <1>6, <1>7, <1>8 DEF tailVars
-----------------------------------------------------------------------------
\* The tail has no offset without an inode, notes and opens only files there have been,
\* and the file it has open is the one it noted or a later one.  It reads what it looked
\* at, or what replaced that.
ReaderInv ==
    /\ tail.inode = 0 => tail.offset = 0
    /\ saved.inode = 0 => saved.offset = 0
    /\ tail.inode <= writer /\ saved.inode <= writer /\ tail.stat.inode <= writer
    /\ tail.fd <= writer
    /\ tail.fd # 0 => tail.inode > 0 /\ tail.inode <= tail.fd
    /\ tail.step = "poll" => tail.stat.inode >= 1 /\ tail.inode <= tail.stat.inode
    /\ tail.step = "read" => tail.inode = tail.stat.inode /\ tail.fd # 0

LEMMA LeastOf ==
  ASSUME NEW S \in SUBSET Nat, S # {}
  PROVE  \E x \in S : \A y \in S : x <= y
<1>1. \E x \in S : \A y \in S : ~(<<y, x>> \in OpToRel(<, Nat))
  BY NatLessThanWellFounded, WFMin
<1>2. \A x, y \in Nat : x < y => <<x, y>> \in OpToRel(<, Nat)
  BY DEF OpToRel
<1>3. PICK x \in S : \A y \in S : ~(<<y, x>> \in OpToRel(<, Nat))
  BY <1>1
<1>4. \A y \in S : ~(y < x)
  BY <1>2, <1>3
<1>5. \A y \in S : x <= y
  BY <1>4
<1> QED  BY <1>5

\* The next line to read ends at the first end behind the offset, in a line that was
\* begun.
LEMMA NextEndIsFirst ==
  ASSUME FileInv, tail \in Reader, tail.fd \in 1..MaxFiles, LineEnds # {}
  PROVE  /\ NextEnd \in (tail.offset + 1)..Size(tail.fd)
         /\ content[tail.fd][NextEnd].ends
         /\ \A k \in (tail.offset + 1)..Size(tail.fd) :
               content[tail.fd][k].ends => NextEnd <= k
         /\ NextLine # 0 => /\ NextLine \in 1..MaxLines
                            /\ NextLine = content[tail.fd][NextEnd].line
<1> DEFINE f == tail.fd
<1>1. tail.offset \in Nat /\ Size(f) \in Nat
  BY DEF Reader, FileInv, FileType, Size
<1>2. LineEnds \in SUBSET Nat
  BY <1>1 DEF LineEnds
<1>3. \E k \in LineEnds : \A j \in LineEnds : k <= j
  BY ONLY <1>2, LineEnds # {}, LeastOf
<1>4. NextEnd \in LineEnds /\ \A j \in LineEnds : NextEnd <= j
  BY <1>3 DEF NextEnd
<1>5. NextEnd \in (tail.offset + 1)..Size(f) /\ content[f][NextEnd].ends
  BY <1>4 DEF LineEnds
<1>6. CellInv(f, NextEnd)
  BY <1>1, <1>5 DEF FileInv
<1>7. content[f][NextEnd].line \in 1..MaxLines
  <2>1. line.n \in 0..MaxLines /\ content[f][NextEnd].line \in 1..line.n
    BY <1>6 DEF CellInv, FileInv, FileType
  <2> QED  BY <2>1, TailAssumption
<1>8. NextLine # 0 => NextLine = content[f][NextEnd].line
  BY DEF NextLine
<1> QED  BY <1>4, <1>5, <1>7, <1>8 DEF LineEnds

\* What a poll does: it goes on with the open file, finds none at the path, or opens the
\* one that is there.
GoesOn ==
    /\ tail.fd # 0 /\ tail.inode = tail.stat.inode
    /\ tail'.fd = tail.fd /\ tail'.inode = tail.inode /\ tail'.offset = tail.offset
    /\ passedBy' = passedBy

FindsNone ==
    /\ path = 0 /\ tail'.fd = 0 /\ tail'.step = "idle" /\ passedBy' = passedBy
    /\ \/ tail.fd = 0 /\ tail'.inode = tail.inode /\ tail'.offset = tail.offset
       \/ /\ tail.fd # 0 /\ tail.inode # tail.stat.inode
          /\ tail'.inode = 0 /\ tail'.offset = 0

OpensFile ==
    /\ path # 0 /\ tail'.fd = path /\ tail'.inode = tail.stat.inode
    /\ tail'.offset <= tail.stat.size
    /\ \/ /\ tail.fd = 0
          /\ tail'.offset = IF tail.offset > tail.stat.size THEN 0 ELSE tail.offset
       \/ tail.fd # 0 /\ tail.inode # tail.stat.inode /\ tail'.offset = 0
    /\ passedBy' = passedBy \cup LinesPassedBy(path, tail'.offset)

LEMMA PollCases ==
  ASSUME FileInv, TailType, ReaderInv, Poll
  PROVE  /\ tail' \in Reader /\ tail'.step \in {"idle", "read"} /\ tail'.stat = tail.stat
         /\ tail'.fd # 0 /\ tail'.step = "idle" => tail.stat.size <= tail'.offset
         /\ GoesOn \/ FindsNone \/ OpensFile
<1>1. /\ tail \in Reader /\ path \in 0..MaxFiles /\ tail.step = "poll"
      /\ tail.stat \in [inode : 0..MaxFiles, size : Nat]
      /\ tail.offset \in Nat /\ tail.inode \in Nat /\ tail.stat.inode \in 0..MaxFiles
      /\ tail.stat.size \in Nat
  BY TailAssumption DEF FileInv, FileType, TailType, Poll, Reader
<1>2. CASE tail.fd = 0
  <2>1. OpenAndRead(tail)
    BY <1>2 DEF Poll
  <2>2. CASE path = 0
    <3>1. tail' = [tail EXCEPT !.step = "idle", !.fd = 0] /\ passedBy' = passedBy
      BY <2>1, <2>2 DEF OpenAndRead
    <3> QED  BY <3>1, <2>2, <1>1, <1>2, TailAssumption DEF FindsNone, Reader
  <2>3. CASE path # 0
    <3> DEFINE o == IF tail.offset > tail.stat.size THEN 0 ELSE tail.offset
               u == [tail EXCEPT !.fd = path, !.inode = tail.stat.inode, !.offset = o]
    <3>1. /\ tail' = Reading(u)
          /\ passedBy' = passedBy \cup LinesPassedBy(path, o)
      <4>1. Opened(tail) = Reading(u)
        BY DEF Opened
      <4>2. Reading(u).offset = o
        <5>1. u.offset = o /\ u.step = tail.step
          BY <1>1 DEF Reader
        <5> QED  BY <5>1, <1>1 DEF Reading, Reader
      <4> QED  BY <2>1, <2>3, <4>1, <4>2 DEF OpenAndRead
    <3>2. o \in Nat /\ o <= tail.stat.size
      BY <1>1
    <3>3. /\ u \in Reader /\ u.fd = path /\ u.inode = tail.stat.inode /\ u.offset = o
          /\ u.stat = tail.stat
      BY <1>1, <3>2 DEF Reader
    <3> HIDE DEF u
    <3>4. /\ tail' \in Reader /\ tail'.step \in {"idle", "read"} /\ tail'.fd = u.fd
          /\ tail'.inode = u.inode /\ tail'.offset = u.offset /\ tail'.stat = u.stat
          /\ tail'.step = "idle" => u.stat.size <= u.offset
      BY <3>1, <3>3 DEF Reading, Reader
    <3> QED  BY <3>1, <3>2, <3>3, <3>4, <2>3, <1>2 DEF OpensFile
  <2> QED  BY <2>2, <2>3
<1>3. CASE tail.fd # 0 /\ IsRotated
  <2> DEFINE t == Rewound(tail)
  <2>1. OpenAndRead(t)
    BY <1>3 DEF Poll
  <2>2. /\ t \in Reader /\ t.inode = 0 /\ t.offset = 0 /\ t.stat = tail.stat /\ t.fd = tail.fd
    <3>1. 0 \in 0..MaxFiles
      BY TailAssumption
    <3>2. t = [tail EXCEPT !.inode = 0, !.offset = 0, !.rotated = TRUE]
      BY DEF Rewound
    <3> HIDE DEF t
    <3> QED  BY <1>1, <3>1, <3>2 DEF Reader
  <2> HIDE DEF t
  <2>3. CASE path = 0
    <3>1. tail' = [t EXCEPT !.step = "idle", !.fd = 0] /\ passedBy' = passedBy
      BY <2>1, <2>3 DEF OpenAndRead
    <3> QED  BY <3>1, <2>2, <2>3, <1>1, <1>3, TailAssumption
              DEF FindsNone, IsRotated, Reader
  <2>4. CASE path # 0
    <3> DEFINE u == [t EXCEPT !.fd = path, !.inode = t.stat.inode,
                              !.offset = IF @ > t.stat.size THEN 0 ELSE @]
    <3>1. /\ tail' = Reading(u)
          /\ passedBy' = passedBy \cup LinesPassedBy(path, tail'.offset)
      <4>1. Opened(t) = Reading(u)
        BY DEF Opened
      <4> QED  BY <2>1, <2>4, <4>1 DEF OpenAndRead
    <3>2. /\ u \in Reader /\ u.fd = path /\ u.inode = tail.stat.inode /\ u.offset = 0
          /\ u.stat = tail.stat
      BY <1>1, <2>2 DEF Reader
    <3> HIDE DEF u
    <3>3. /\ tail' \in Reader /\ tail'.step \in {"idle", "read"} /\ tail'.fd = u.fd
          /\ tail'.inode = u.inode /\ tail'.offset = u.offset /\ tail'.stat = u.stat
          /\ tail'.step = "idle" => u.stat.size <= u.offset
      BY <3>1, <3>2 DEF Reading, Reader
    <3> QED  BY <3>1, <3>2, <3>3, <2>4, <1>1, <1>3 DEF OpensFile, IsRotated
  <2> QED  BY <2>3, <2>4
<1>4. CASE tail.fd # 0 /\ ~IsRotated
  <2>1. tail' = Reading(tail) /\ passedBy' = passedBy
    BY <1>4 DEF Poll
  <2>2. tail.inode = tail.stat.inode
    BY <1>4, <1>1 DEF IsRotated, ReaderInv
  <2> QED  BY <2>1, <2>2, <1>1, <1>4 DEF GoesOn, Reading, Reader
<1> QED  BY <1>2, <1>3, <1>4

\* What one line read does to the tail and to the fate of the line.
LEMMA ReadCases ==
  ASSUME FileInv, TailType, ReaderInv, ReadLine \/ CutLine
  PROVE  /\ tail' \in Reader /\ tail.step = "read" /\ LineEnds # {}
         /\ tail'.step = "read" /\ tail'.stat = tail.stat /\ tail'.fd = tail.fd
         /\ tail'.inode = tail.inode /\ tail'.offset = NextEnd
         /\ tail.fd \in 1..MaxFiles /\ NextEnd \in Nat
<1>1. tail \in Reader /\ tail.step = "read" /\ tail.fd \in 1..MaxFiles /\ LineEnds # {}
      /\ tail.inode = tail.stat.inode /\ tail.offset \in Nat
  BY DEF TailType, ReaderInv, ReadLine, CutLine, Reader
<1>2. NextEnd \in (tail.offset + 1)..Size(tail.fd)
  BY <1>1, NextEndIsFirst
<1>3. NextEnd \in Nat
  BY <1>1, <1>2
<1>4. Advanced = [tail EXCEPT !.offset = NextEnd]
  <2>1. Advanced = [tail EXCEPT !.offset = NextEnd, !.inode = tail.inode]
    BY <1>1 DEF Advanced
  <2> QED  BY <2>1, <1>1, <1>3 DEF Reader
<1>5. /\ Advanced \in Reader /\ Advanced.step = "read" /\ Advanced.stat = tail.stat
      /\ Advanced.fd = tail.fd /\ Advanced.inode = tail.inode /\ Advanced.offset = NextEnd
  BY <1>1, <1>3, <1>4 DEF Reader
<1>6. CASE ReadLine
  BY <1>1, <1>3, <1>5, <1>6 DEF ReadLine
<1>7. CASE CutLine
  <2> DEFINE a == Advanced
  <2>1. tail' = [a EXCEPT !.cancelled = TRUE]
    BY <1>7 DEF CutLine
  <2> HIDE DEF a
  <2>2. a \in Reader
    BY <1>5 DEF a
  <2>3. /\ tail' \in Reader /\ tail'.step = a.step /\ tail'.stat = a.stat
        /\ tail'.fd = a.fd /\ tail'.inode = a.inode /\ tail'.offset = a.offset
    BY <2>1, <2>2 DEF Reader
  <2> QED  BY <2>3, <1>1, <1>3, <1>5 DEF a
<1> QED  BY <1>6, <1>7

\* The steps of the tail that only change its step, its flags or what it looked at.
LEMMA QuietCases ==
  ASSUME FileInv, TailType, ReaderInv,
         Stat \/ CancelTail \/ \E persist \in BOOLEAN : EndRead(persist)
  PROVE  /\ tail' \in Reader /\ Up /\ Up'
         /\ tail'.fd = tail.fd /\ tail'.inode = tail.inode /\ tail'.offset = tail.offset
         /\ saved' = saved \/ saved' = [inode |-> tail.inode, offset |-> tail.offset]
         /\ \/ /\ tail.step = "idle" /\ tail'.step = "poll" /\ path # 0
               /\ tail'.stat = [inode |-> path, size |-> Size(path)]
            \/ tail'.step \in {"idle", tail.step} /\ tail'.stat = tail.stat
<1>1. tail \in Reader
  BY DEF TailType
<1>2. CASE Stat
  <2>1. path \in 1..MaxFiles /\ Size(path) \in Nat /\ tail.step = "idle"
    BY <1>2 DEF FileInv, FileType, Stat, Size
  <2> DEFINE u == [inode |-> path, size |-> Size(path)]
  <2>2. u \in [inode : 0..MaxFiles, size : Nat]
    BY <2>1, TailAssumption
  <2>3. tail' = [tail EXCEPT !.step = "poll", !.stat = u]
    BY <1>2 DEF Stat
  <2> HIDE DEF u
  <2>4. tail' \in Reader /\ tail'.step = "poll" /\ tail'.stat = u
        /\ tail'.fd = tail.fd /\ tail'.inode = tail.inode /\ tail'.offset = tail.offset
    BY <1>1, <2>2, <2>3 DEF Reader
  <2>5. saved' = saved
    BY <1>2 DEF Stat
  <2> QED  BY <2>1, <2>4, <2>5 DEF u, Up
<1>3. CASE CancelTail
  <2>1. tail' = [tail EXCEPT !.cancelled = TRUE] /\ Up /\ saved' = saved
    BY <1>3 DEF CancelTail
  <2> QED  BY <1>1, <2>1 DEF Reader, Up
<1>4. CASE \E persist \in BOOLEAN : EndRead(persist)
  <2>1. PICK persist \in BOOLEAN : EndRead(persist)
    BY <1>4
  <2>2. /\ tail' = [tail EXCEPT !.step = "idle", !.rotated = @ /\ ~persist]
        /\ tail.step = "read"
        /\ saved' = IF persist THEN [inode |-> tail.inode, offset |-> tail.offset] ELSE saved
    BY <2>1 DEF EndRead
  <2>3. /\ tail' \in Reader /\ tail'.step = "idle" /\ tail'.stat = tail.stat
        /\ tail'.fd = tail.fd /\ tail'.inode = tail.inode /\ tail'.offset = tail.offset
    BY <1>1, <2>2 DEF Reader
  <2> QED  BY <2>2, <2>3 DEF Up
<1> QED  BY <1>2, <1>3, <1>4

\* A start takes over what was saved.
LEMMA StartCases ==
  ASSUME FileInv, TailType, StartTail
  PROVE  /\ tail' \in Reader /\ ~Up /\ tail'.step = "idle" /\ tail'.fd = 0
         /\ tail'.stat = [inode |-> 0, size |-> 0]
         /\ tail'.inode = saved.inode /\ tail'.offset = saved.offset
         /\ UNCHANGED saved
<1>1. /\ tail' = [Stopped EXCEPT !.step = "idle", !.inode = saved.inode,
                                 !.offset = saved.offset]
      /\ ~Up /\ saved' = saved /\ saved.inode \in 0..MaxFiles /\ saved.offset \in Nat
      /\ 0 \in 0..MaxFiles
  BY TailAssumption DEF StartTail, TailType
<1>2. tail' = [step |-> "idle", inode |-> saved.inode, offset |-> saved.offset, fd |-> 0,
               cancelled |-> FALSE, stat |-> [inode |-> 0, size |-> 0], rotated |-> FALSE]
  BY <1>1 DEF Stopped
<1>3. [inode |-> 0, size |-> 0] \in [inode : 0..MaxFiles, size : Nat]
  BY <1>1
<1> DEFINE z == [inode |-> 0, size |-> 0]
<1> HIDE DEF z
<1>4. /\ tail' \in Reader /\ tail'.step = "idle" /\ tail'.fd = 0 /\ tail'.stat = z
      /\ tail'.inode = saved.inode /\ tail'.offset = saved.offset
  <2>1. z \in [inode : 0..MaxFiles, size : Nat]
    BY <1>3 DEF z
  <2>2. tail' = [step |-> "idle", inode |-> saved.inode, offset |-> saved.offset, fd |-> 0,
                 cancelled |-> FALSE, stat |-> z, rotated |-> FALSE]
    BY <1>2 DEF z
  <2>3. /\ tail'.step = "idle" /\ tail'.fd = 0 /\ tail'.stat = z
        /\ tail'.inode = saved.inode /\ tail'.offset = saved.offset
    BY <2>2
  <2>4. ASSUME NEW i \in 0..MaxFiles, NEW o \in Nat
        PROVE  [step |-> "idle", inode |-> i, offset |-> o, fd |-> 0, cancelled |-> FALSE,
                stat |-> z, rotated |-> FALSE] \in Reader
    BY <1>1, <2>1 DEF Reader
  <2> QED  BY <1>1, <2>2, <2>3, <2>4
<1> QED  BY <1>1, <1>4 DEF z

\* What stopped has read nothing.
LEMMA StoppedFacts ==
  /\ Stopped \in Reader /\ Stopped.step = "down" /\ Stopped.inode = 0 /\ Stopped.offset = 0
  /\ Stopped.fd = 0 /\ Stopped.stat.inode = 0
<1>1. [inode |-> 0, size |-> 0] \in [inode : 0..MaxFiles, size : Nat] /\ 0 \in 0..MaxFiles
  BY TailAssumption
<1> QED  BY <1>1 DEF Stopped, Reader

\* How a process ends.
Ends == ExitTail \/ KillTail

LEMMA EndCases ==
  ASSUME TailType, Ends
  PROVE  /\ tail' = Stopped /\ Up
         /\ saved' = saved \/ saved' = [inode |-> tail.inode, offset |-> tail.offset]
BY DEF Ends, ExitTail, KillTail, Up

\* A line read is counted once, as sent or as dropped, and keeps its other marks.
LEMMA ToldFate ==
  ASSUME fate \in [1..MaxLines -> Fate], NEW n \in 1..MaxLines, NEW full \in BOOLEAN
  PROVE  /\ Told(n, full) \in [1..MaxLines -> Fate]
         /\ \A m \in 1..MaxLines : m # n => Told(n, full)[m] = fate[m]
         /\ Told(n, full)[n].cut = fate[n].cut
         /\ Told(n, full)[n].astray = (fate[n].astray \/ tail.fd # tail.inode)
         /\ Told(n, full)[n].sent + Told(n, full)[n].dropped
              = fate[n].sent + fate[n].dropped + 1
<1> DEFINE f == fate[n]
           s == IF full THEN f.sent ELSE f.sent + 1
           d == IF full THEN f.dropped + 1 ELSE f.dropped
           a == f.astray \/ tail.fd # tail.inode
           g == [sent |-> s, dropped |-> d, cut |-> f.cut, astray |-> a]
<1>1. /\ f \in Fate /\ f.sent \in Nat /\ f.dropped \in Nat /\ f.cut \in BOOLEAN
      /\ f.astray \in BOOLEAN
  BY DEF Fate
<1>2. s \in Nat /\ d \in Nat /\ s + d = f.sent + f.dropped + 1
  BY <1>1
<1>3. a \in BOOLEAN
  OBVIOUS
<1>4. g \in Fate
  BY <1>1, <1>2, <1>3 DEF Fate
<1>5. Told(n, full) = [fate EXCEPT ![n] = g]
  <2>1. Told(n, full) = [fate EXCEPT ![n] = [[[f EXCEPT !.dropped = d] EXCEPT !.sent = s]
                                                 EXCEPT !.astray = a]]
    BY <1>1 DEF Told
  <2>2. [[[f EXCEPT !.dropped = d] EXCEPT !.sent = s] EXCEPT !.astray = a] = g
    <3>1. f \in Fate /\ s \in Nat /\ d \in Nat /\ a \in BOOLEAN
      BY <1>1, <1>2, <1>3
    <3>2. g = [sent |-> s, dropped |-> d, cut |-> f.cut, astray |-> a]
      OBVIOUS
    <3> HIDE DEF f, s, d, a, g
    <3> DEFINE f1 == [f EXCEPT !.dropped = d]
               f2 == [f1 EXCEPT !.sent = s]
               f3 == [f2 EXCEPT !.astray = a]
    <3>3. f1 \in Fate /\ f1.dropped = d /\ f1.cut = f.cut
      BY <3>1 DEF Fate
    <3> HIDE DEF f1
    <3>4. f2 \in Fate /\ f2.dropped = d /\ f2.cut = f.cut /\ f2.sent = s
      BY <3>1, <3>3 DEF Fate
    <3> HIDE DEF f2
    <3>5. f3 \in Fate /\ f3.dropped = d /\ f3.cut = f.cut /\ f3.sent = s /\ f3.astray = a
      BY <3>1, <3>4 DEF Fate
    <3> HIDE DEF f3
    <3>6. f3 = [sent |-> s, dropped |-> d, cut |-> f.cut, astray |-> a]
      BY <3>5 DEF Fate
    <3> QED  BY <3>2, <3>6 DEF f1, f2, f3
  <2> QED  BY <2>1, <2>2
<1> DEFINE t == Told(n, full)
<1> HIDE DEF s, d, a, g, t
<1>6. t = [fate EXCEPT ![n] = g]
  BY <1>5 DEF t
<1>7. t \in [1..MaxLines -> Fate] /\ t[n] = g /\ \A m \in 1..MaxLines : m # n => t[m] = fate[m]
  BY <1>4, <1>6
<1>8. g.cut = f.cut /\ g.astray = a /\ g.sent + g.dropped = f.sent + f.dropped + 1
  BY <1>2 DEF g
<1> QED  BY <1>7, <1>8 DEF t, a

\* Whatever happens, the tail's fields and the fates keep their types.
LEMMA TypeStep ==
  ASSUME FileInv, TailType, ReaderInv, [TailNext]_tailVars
  PROVE  TailType'
<1>1. /\ tail \in Reader /\ saved \in [inode : 0..MaxFiles, offset : Nat]
      /\ queue \in Seq(Nat) /\ fate \in [1..MaxLines -> Fate] /\ (~Up => tail = Stopped)
  BY DEF TailType
<1>2. /\ tail.inode \in 0..MaxFiles /\ tail.offset \in Nat
      /\ [inode |-> tail.inode, offset |-> tail.offset] \in [inode : 0..MaxFiles, offset : Nat]
  BY <1>1 DEF Reader
<1>3. CASE (\E ended \in BOOLEAN : AppendLine(ended)) \/ Rename \/ Reopen \/ Truncate
           \/ UNCHANGED tailVars
  BY <1>1, <1>3 DEF TailType, AppendLine, Rename, Reopen, Truncate, tailVars, Up
<1>4. CASE StartTail
  <2>1. UNCHANGED <<queue, fate>>
    BY <1>4 DEF StartTail
  <2>2. Up'
    BY <1>4, StartCases DEF Up
  <2> QED  BY <1>1, <1>4, <2>1, <2>2, StartCases DEF TailType
<1>5. CASE Stat \/ CancelTail \/ \E persist \in BOOLEAN : EndRead(persist)
  <2>1. UNCHANGED <<queue, fate>>
    BY <1>5 DEF Stat, CancelTail, EndRead
  <2> QED  BY <1>1, <1>2, <1>5, <2>1, QuietCases DEF TailType
<1>6. CASE Poll
  <2>1. UNCHANGED <<queue, fate, saved>>
    BY <1>6 DEF Poll
  <2>2. Up'
    BY <1>6, PollCases DEF Up
  <2> QED  BY <1>1, <1>6, <2>1, <2>2, PollCases DEF TailType
<1>7. CASE ReadLine \/ CutLine
  <2>1. tail' \in Reader /\ Up' /\ UNCHANGED saved /\ tail.fd \in 1..MaxFiles /\ LineEnds # {}
    BY <1>7, ReadCases DEF Up, ReadLine, CutLine
  <2>2. NextLine # 0 => NextLine \in 1..MaxLines
    BY <1>1, <2>1, NextEndIsFirst
  <2>3. queue' \in Seq(Nat)
    <3>1. queue' = queue \/ (NextLine # 0 /\ queue' = Append(queue, NextLine))
      BY <1>7 DEF ReadLine, CutLine
    <3>2. NextLine # 0 => NextLine \in Nat
      BY <2>2
    <3> DEFINE l == NextLine
    <3>3. queue \in Seq(Nat)
      BY <1>1
    <3>4. l \in Nat => Append(queue, l) \in Seq(Nat)
      BY <3>3
    <3> HIDE DEF l
    <3> QED  BY <3>1, <3>2, <3>3, <3>4 DEF l
  <2>4. fate' \in [1..MaxLines -> Fate]
    <3> DEFINE n == NextLine
    <3>1. CASE n = 0
      BY <1>1, <1>7, <3>1 DEF ReadLine, CutLine
    <3>2. CASE n # 0
      <4>1. n \in 1..MaxLines
        BY <2>2, <3>2
      <4>2. fate' = [fate EXCEPT ![n].cut = TRUE]
            \/ \E full \in BOOLEAN : fate' = Told(n, full)
        BY <1>7, <3>2 DEF ReadLine, CutLine
      <4> HIDE DEF n
      <4>3. ASSUME NEW full \in BOOLEAN PROVE Told(n, full) \in [1..MaxLines -> Fate]
        BY <1>1, <4>1, ToldFate
      <4>4. [fate EXCEPT ![n].cut = TRUE] \in [1..MaxLines -> Fate]
        BY <1>1, <4>1 DEF Fate
      <4> QED  BY <4>2, <4>3, <4>4
    <3> QED  BY <3>1, <3>2
  <2> QED  BY <1>1, <2>1, <2>3, <2>4 DEF TailType
<1>8. CASE Ends
  <2>1. fate' = fate /\ queue' = <<>>
    BY <1>8 DEF Ends, ExitTail, KillTail
  <2>2. queue' \in Seq(Nat)
    BY <2>1
  <2> QED  BY <1>1, <1>2, <1>8, <2>1, <2>2, EndCases, StoppedFacts DEF TailType
<1>9. CASE TakeEvent
  <2>1. queue' \in Seq(Nat)
    BY <1>1, <1>9 DEF TakeEvent
  <2> QED  BY <1>1, <1>9, <2>1 DEF TailType, TakeEvent, Up
<1> QED  BY <1>3, <1>4, <1>5, <1>6, <1>7, <1>8, <1>9 DEF TailNext, Ends

\* The reader keeps to the files there have been.
LEMMA ReaderStep ==
  ASSUME FileInv, TailType, ReaderInv, [TailNext]_tailVars
  PROVE  ReaderInv'
<1>1. /\ writer \in Nat /\ path \in {0, writer} /\ tail \in Reader
      /\ tail.inode \in Nat /\ tail.fd \in Nat /\ tail.stat.inode \in Nat /\ tail.offset \in Nat
      /\ saved.inode \in Nat /\ saved.offset \in Nat
  BY DEF FileInv, FileType, TailType, Reader
<1>2. CASE (\E ended \in BOOLEAN : AppendLine(ended)) \/ Rename \/ Truncate
           \/ TakeEvent \/ UNCHANGED tailVars
  BY <1>2 DEF ReaderInv, AppendLine, Rename, Truncate, TakeEvent, tailVars
<1>3. CASE Reopen
  <2>1. writer' = writer + 1 /\ UNCHANGED <<tail, saved>>
    BY <1>3 DEF Reopen
  <2> QED  BY <1>1, <2>1 DEF ReaderInv
<1>4. CASE StartTail
  <2>1. writer' = writer
    BY <1>4 DEF StartTail
  <2> QED  BY <1>1, <1>4, <2>1, StartCases DEF ReaderInv
<1>5. CASE Stat \/ CancelTail \/ \E persist \in BOOLEAN : EndRead(persist)
  <2>1. writer' = writer
    BY <1>5 DEF Stat, CancelTail, EndRead
  <2> QED  BY <1>1, <1>5, <2>1, QuietCases DEF ReaderInv
<1>6. CASE Poll
  <2>1. writer' = writer /\ UNCHANGED saved /\ tail.step = "poll"
    BY <1>6 DEF Poll
  <2>2. /\ tail' \in Reader /\ tail'.step \in {"idle", "read"} /\ tail'.stat = tail.stat
        /\ GoesOn \/ FindsNone \/ OpensFile
    BY <1>6, PollCases
  <2>3. CASE GoesOn
    BY <1>1, <2>1, <2>2, <2>3 DEF GoesOn, ReaderInv
  <2>4. CASE FindsNone
    BY <1>1, <2>1, <2>2, <2>4 DEF FindsNone, ReaderInv
  <2>5. CASE OpensFile
    BY <1>1, <2>1, <2>2, <2>5 DEF OpensFile, ReaderInv
  <2> QED  BY <2>2, <2>3, <2>4, <2>5
<1>7. CASE ReadLine \/ CutLine
  <2>1. writer' = writer /\ UNCHANGED saved
    BY <1>7 DEF ReadLine, CutLine
  <2> QED  BY <1>1, <1>7, <2>1, ReadCases DEF ReaderInv
<1>8. CASE Ends
  <2>1. writer' = writer
    BY <1>8 DEF Ends, ExitTail, KillTail
  <2> QED  BY <1>1, <1>8, <2>1, EndCases, StoppedFacts DEF ReaderInv
<1> QED  BY <1>2, <1>3, <1>4, <1>5, <1>6, <1>7, <1>8 DEF TailNext, Ends
-----------------------------------------------------------------------------
\* Unless a file was truncated, the offset into the last file noted lies within it, and a
\* file that is to be opened is not shorter than it looked.
Within(w, c, i, o) == i = 0 \/ i < w \/ o <= Len(c[i])

BoundInv ==
    "truncated" \notin marks =>
        /\ Within(writer, content, tail.inode, tail.offset)
        /\ Within(writer, content, saved.inode, saved.offset)
        /\ tail.step = "poll" =>
              /\ tail.stat.size <= Size(tail.stat.inode)
              /\ tail.inode = tail.stat.inode /\ tail.fd = 0 => tail.offset <= tail.stat.size

ToldIn(f, n) == f[n].sent > 0 \/ f[n].dropped > 0 \/ f[n].cut

\* Cell k of file i lies before offset o of file f.
Passed(f, o, i, k) == i < f \/ (i = f /\ k <= o)

\* Every line that ended before offset o of file i was told of or passed by.
Covered(c, f, p, i, o) ==
    \A j \in 1..MaxFiles : \A k \in 1..Len(c[j]) :
        c[j][k].ends /\ Passed(i, o, j, k) => ToldIn(f, c[j][k].line) \/ c[j][k].line \in p

\* Offset o of file i is the end of a line, or lies in one that was passed by.
Aligned(c, p, i, o) == o \in 0..Len(c[i]) /\ (o = 0 \/ c[i][o].ends \/ c[i][o].line \in p)

Valid(w, c, p, i, o) == i = 0 \/ i < w \/ Aligned(c, p, i, o)

SkipInv ==
    "truncated" \notin marks =>
        /\ tail.inode # 0 => Covered(content, fate, passedBy, tail.inode, tail.offset)
        /\ saved.inode # 0 => Covered(content, fate, passedBy, saved.inode, saved.offset)
        /\ tail.fd # 0 => Covered(content, fate, passedBy, tail.fd, 0)
        /\ Valid(writer, content, passedBy, tail.inode, tail.offset)
        /\ Valid(writer, content, passedBy, saved.inode, saved.offset)
        /\ tail.fd # 0 /\ tail.fd = tail.inode =>
              Aligned(content, passedBy, tail.fd, tail.offset)

\* A file that only grows keeps its cells; a line told of stays told of.
Grows(c, d) ==
    \A i \in 1..MaxFiles :
        /\ Len(c[i]) \in Nat /\ Len(d[i]) \in Nat /\ Len(c[i]) <= Len(d[i])
        /\ \A k \in 1..Len(c[i]) : d[i][k] = c[i][k] /\ c[i][k].line \in 1..MaxLines

TellsMore(f, g) == \A n \in 1..MaxLines : ToldIn(f, n) => ToldIn(g, n)

LEMMA GrowthStep ==
  ASSUME FileInv, TailType, ReaderInv, [TailNext]_tailVars, ~Truncate
  PROVE  Grows(content, content') /\ TellsMore(fate, fate')
<1>1. FileType /\ FileType' /\ line.n \in 0..MaxLines
  BY FileStep DEF FileInv, FileType
<1>2. ASSUME NEW i \in 1..MaxFiles
      PROVE  /\ Len(content[i]) \in Nat /\ Len(content'[i]) \in Nat
             /\ \A k \in 1..Len(content[i]) : content[i][k].line \in 1..MaxLines
  <2>1. Len(content[i]) \in Nat /\ Len(content'[i]) \in Nat
    BY <1>1 DEF FileType
  <2>2. ASSUME NEW k \in 1..Len(content[i]) PROVE content[i][k].line \in 1..MaxLines
    <3>1. content[i][k].line \in 1..line.n
      BY DEF FileInv, CellInv, Size
    <3> QED  BY <3>1, <1>1, TailAssumption
  <2> QED  BY <2>1, <2>2
<1>3. Grows(content, content')
  <2>1. CASE \E ended \in BOOLEAN : AppendLine(ended)
    <3>1. PICK ended \in BOOLEAN : AppendLine(ended)
      BY <2>1
    <3>2. PICK s \in Nat : s = Size(writer)
      BY <1>1 DEF FileType, Size
    <3>3. /\ \A j \in 1..MaxFiles : j # writer => content'[j] = content[j]
          /\ \A k \in 1..s : content'[writer][k] = content[writer][k]
          /\ line.ended => Len(content'[writer]) = IF ended THEN s + 2 ELSE s + 1
          /\ ~line.ended => Len(content'[writer]) = s + 1
      BY <1>1, <3>1, <3>2, AppendedCells
    <3>4. s <= Len(content'[writer]) /\ s = Len(content[writer])
      BY <3>2, <3>3 DEF Size
    <3> QED  BY <1>2, <3>3, <3>4 DEF Grows
  <2>2. CASE content' = content
    BY <1>2, <2>2 DEF Grows
  <2> QED  BY <2>1, <2>2 DEF TailNext, tailVars, Rename, Reopen, StartTail, Stat, Poll,
              ReadLine, CutLine, EndRead, CancelTail, ExitTail, KillTail, TakeEvent
<1>4. TellsMore(fate, fate')
  <2>1. CASE ReadLine \/ CutLine
    <3> DEFINE n == NextLine
    <3>1. n # 0 => n \in 1..MaxLines
      BY <2>1, ReadCases, NextEndIsFirst DEF TailType
    <3>2. fate \in [1..MaxLines -> Fate]
      BY DEF TailType
    <3>3. \/ fate' = fate
          \/ n # 0 /\ \E full \in BOOLEAN : fate' = Told(n, full)
          \/ n # 0 /\ fate' = [fate EXCEPT ![n].cut = TRUE]
      BY <2>1 DEF ReadLine, CutLine
    <3> HIDE DEF n
    <3>4. ASSUME n # 0, NEW full \in BOOLEAN, fate' = Told(n, full) PROVE TellsMore(fate, fate')
      <4>1. n \in 1..MaxLines
        BY <3>1, <3>4
      <4>2. /\ \A m \in 1..MaxLines : m # n => fate'[m] = fate[m]
            /\ fate' \in [1..MaxLines -> Fate]
            /\ fate'[n].sent + fate'[n].dropped = fate[n].sent + fate[n].dropped + 1
        BY <3>2, <3>4, <4>1, ToldFate
      <4>3. ToldIn(fate', n)
        <5>1. /\ fate'[n].sent \in Nat /\ fate'[n].dropped \in Nat
              /\ fate[n].sent \in Nat /\ fate[n].dropped \in Nat
          BY <3>2, <4>1, <4>2 DEF Fate
        <5>2. \A x, y, u, v \in Nat : x + y = u + v + 1 => x > 0 \/ y > 0
          OBVIOUS
        <5>3. fate'[n].sent > 0 \/ fate'[n].dropped > 0
          BY ONLY <4>2, <5>1, <5>2
        <5> QED  BY <5>3 DEF ToldIn
      <4> QED  BY <4>1, <4>2, <4>3 DEF TellsMore, ToldIn
    <3>5. ASSUME n # 0, fate' = [fate EXCEPT ![n].cut = TRUE] PROVE TellsMore(fate, fate')
      <4>1. /\ n \in 1..MaxLines /\ \A m \in 1..MaxLines : m # n => fate'[m] = fate[m]
            /\ fate'[n].cut
        BY <3>1, <3>2, <3>5 DEF Fate
      <4> QED  BY <4>1 DEF TellsMore, ToldIn
    <3> QED  BY <3>3, <3>4, <3>5 DEF TellsMore, ToldIn
  <2>2. CASE fate' = fate
    BY <2>2 DEF TellsMore, ToldIn
  <2> QED  BY <2>1, <2>2 DEF TailNext, tailVars, AppendLine, Rename, Reopen, StartTail, Stat,
              Poll, EndRead, CancelTail, ExitTail, KillTail, TakeEvent
<1> QED  BY <1>3, <1>4

\* What a step does to the marks: they stay, and truncation is noted.
LEMMA MarksStep ==
  ASSUME [TailNext]_tailVars
  PROVE  /\ marks \subseteq marks' /\ passedBy \subseteq passedBy'
         /\ Truncate => "truncated" \in marks'
         /\ KillTail => "killed" \in marks'
<1>1. \/ marks' = marks \/ marks' = marks \cup {"truncated"} \/ marks' = marks \cup {"killed"}
  BY DEF TailNext, tailVars, AppendLine, Rename, Reopen, Truncate, StartTail, Stat, Poll,
         ReadLine, CutLine, EndRead, CancelTail, ExitTail, KillTail, TakeEvent
<1>2. passedBy \subseteq passedBy'
  BY DEF TailNext, tailVars, AppendLine, Rename, Reopen, Truncate, StartTail, Stat, Poll,
         OpenAndRead, ReadLine, CutLine, EndRead, CancelTail, ExitTail, KillTail, TakeEvent
<1> QED  BY <1>1, <1>2 DEF Truncate, KillTail

LEMMA BoundStep ==
  ASSUME FileInv, TailType, ReaderInv, BoundInv, [TailNext]_tailVars
  PROVE  BoundInv'
<1> SUFFICES ASSUME "truncated" \notin marks'
             PROVE  /\ Within(writer, content, tail.inode, tail.offset)'
                    /\ Within(writer, content, saved.inode, saved.offset)'
                    /\ tail'.step = "poll" =>
                         /\ tail'.stat.size <= Len(content'[tail'.stat.inode])
                         /\ tail'.inode = tail'.stat.inode /\ tail'.fd = 0
                              => tail'.offset <= tail'.stat.size
  BY DEF BoundInv, Size
<1>1. ~Truncate /\ "truncated" \notin marks
  BY MarksStep
<1>2. /\ Within(writer, content, tail.inode, tail.offset)
      /\ Within(writer, content, saved.inode, saved.offset)
      /\ tail.step = "poll" =>
           /\ tail.stat.size <= Len(content[tail.stat.inode])
           /\ tail.inode = tail.stat.inode /\ tail.fd = 0 => tail.offset <= tail.stat.size
  BY <1>1 DEF BoundInv, Size
<1>3. Grows(content, content')
  BY <1>1, GrowthStep
<1>4. /\ writer \in 1..MaxFiles /\ path \in {0, writer} /\ tail \in Reader
      /\ tail.inode \in 0..MaxFiles /\ tail.fd \in 0..MaxFiles
      /\ tail.stat.inode \in 0..MaxFiles /\ tail.offset \in Nat /\ tail.stat.size \in Nat
      /\ saved.inode \in 0..MaxFiles /\ saved.offset \in Nat
      /\ tail.inode <= writer /\ saved.inode <= writer /\ tail.stat.inode <= writer
      /\ (tail.step = "poll" => tail.stat.inode >= 1)
  BY DEF FileInv, FileType, TailType, Reader, ReaderInv
<1>5. ASSUME NEW i \in 0..MaxFiles, NEW o \in Nat, Within(writer, content, i, o),
             writer' = writer \/ writer' = writer + 1
      PROVE  Within(writer', content', i, o)
  BY <1>3, <1>4, <1>5 DEF Within, Grows
<1>6. ASSUME UNCHANGED <<tail, saved>>, writer' = writer \/ writer' = writer + 1
      PROVE  BoundInv'
  <2>1. tail.step = "poll" => tail.stat.size <= Len(content'[tail.stat.inode])
    BY <1>2, <1>3, <1>4 DEF Grows
  <2> QED  BY <1>2, <1>4, <1>5, <1>6, <2>1 DEF BoundInv, Size
<1>7. CASE (\E ended \in BOOLEAN : AppendLine(ended)) \/ Rename \/ Reopen
           \/ TakeEvent \/ UNCHANGED tailVars
  <2>1. UNCHANGED <<tail, saved>> /\ (writer' = writer \/ writer' = writer + 1)
    BY <1>7 DEF AppendLine, Rename, Reopen, TakeEvent, tailVars
  <2>2. BoundInv'
    BY <1>6, <2>1
  <2> QED  BY <2>2 DEF BoundInv, Size
<1>8. CASE StartTail
  <2>1. UNCHANGED <<writer, content>>
    BY <1>8 DEF StartTail
  <2> QED  BY <1>2, <1>8, <2>1, StartCases DEF Within
<1>9. CASE Stat \/ CancelTail \/ \E persist \in BOOLEAN : EndRead(persist)
  <2>1. UNCHANGED <<writer, content>>
    BY <1>9 DEF Stat, CancelTail, EndRead
  <2>2. /\ tail'.fd = tail.fd /\ tail'.inode = tail.inode /\ tail'.offset = tail.offset
        /\ saved' = saved \/ saved' = [inode |-> tail.inode, offset |-> tail.offset]
        /\ \/ /\ tail.step = "idle" /\ tail'.step = "poll" /\ path # 0
              /\ tail'.stat = [inode |-> path, size |-> Size(path)]
           \/ tail'.step \in {"idle", tail.step} /\ tail'.stat = tail.stat
    BY <1>9, QuietCases
  <2>3. Within(writer, content, saved.inode, saved.offset)'
    BY <1>2, <2>1, <2>2 DEF Within
  <2>4. CASE tail'.stat = [inode |-> path, size |-> Size(path)] /\ path # 0
    <3>1. tail'.stat.inode = writer /\ tail'.stat.size = Len(content[writer])
          /\ Len(content[writer]) \in Nat
      BY <1>3, <1>4, <2>4 DEF Size, Grows
    <3>2. tail'.inode = tail'.stat.inode => tail'.offset <= tail'.stat.size
      BY <1>2, <1>4, <2>2, <3>1 DEF Within
    <3> QED  BY <1>2, <1>4, <2>1, <2>2, <2>3, <3>1, <3>2 DEF Within
  <2>5. CASE tail'.step \in {"idle", tail.step} /\ tail'.stat = tail.stat
    BY <1>2, <2>1, <2>2, <2>3, <2>5 DEF Within
  <2> QED  BY <2>2, <2>4, <2>5
<1>10. CASE Poll
  <2>1. UNCHANGED <<writer, content, saved>> /\ tail.step = "poll"
    BY <1>10 DEF Poll
  <2>2. /\ tail' \in Reader /\ tail'.step \in {"idle", "read"} /\ tail'.stat = tail.stat
        /\ GoesOn \/ FindsNone \/ OpensFile
    BY <1>10, PollCases
  <2>3. Within(writer, content, tail.inode, tail.offset)'
    <3>1. CASE GoesOn
      BY <1>2, <2>1, <3>1 DEF GoesOn, Within
    <3>2. CASE FindsNone
      BY <1>2, <2>1, <3>2 DEF FindsNone, Within
    <3>3. CASE OpensFile
      <4>1. tail'.inode = tail.stat.inode /\ tail'.offset <= tail.stat.size /\ tail'.offset \in Nat
        BY <2>2, <3>3 DEF OpensFile, Reader
      <4>2. Len(content[tail.stat.inode]) \in Nat
        BY <1>3, <1>4, <2>1 DEF Grows
      <4> QED  BY <1>2, <1>4, <2>1, <4>1, <4>2 DEF Within
    <3> QED  BY <2>2, <3>1, <3>2, <3>3
  <2> QED  BY <1>2, <2>1, <2>2, <2>3
<1>11. CASE ReadLine \/ CutLine
  <2>1. UNCHANGED <<writer, content, saved>>
    BY <1>11 DEF ReadLine, CutLine
  <2>2. /\ tail.step = "read" /\ LineEnds # {} /\ tail'.step = "read"
        /\ tail'.inode = tail.inode /\ tail'.offset = NextEnd /\ tail.fd \in 1..MaxFiles
    BY <1>11, ReadCases
  <2>3. NextEnd \in (tail.offset + 1)..Size(tail.fd)
    BY <1>4, <2>2, NextEndIsFirst
  <2>4. tail.inode = tail.fd \/ tail.inode < writer
    BY <1>4, <2>2 DEF ReaderInv
  <2> QED  BY <1>2, <2>1, <2>2, <2>3, <2>4 DEF Within, Size
<1>12. CASE Ends
  <2>1. UNCHANGED <<writer, content>>
    BY <1>12 DEF Ends, ExitTail, KillTail
  <2> QED  BY <1>2, <1>12, <2>1, EndCases, StoppedFacts DEF Within
<1> QED  BY <1>1, <1>7, <1>8, <1>9, <1>10, <1>11, <1>12 DEF TailNext, Ends

\* Only the file written to grows.
Grown(w, c, d) == Grows(c, d) /\ \A j \in 1..MaxFiles : j # w => d[j] = c[j]

LEMMA GrownStep ==
  ASSUME FileInv, TailType, ReaderInv, [TailNext]_tailVars, ~Truncate
  PROVE  Grown(writer, content, content')
<1>1. Grows(content, content') /\ content \in [1..MaxFiles -> Seq(Cell)]
  BY GrowthStep DEF FileInv, FileType
<1>2. \A j \in 1..MaxFiles : j # writer => content'[j] = content[j]
  BY <1>1 DEF TailNext, tailVars, AppendLine, Rename, Reopen, StartTail, Stat, Poll,
              ReadLine, CutLine, EndRead, CancelTail, ExitTail, KillTail, TakeEvent
<1> QED  BY <1>1, <1>2 DEF Grown

LEMMA CoveredKept ==
  ASSUME NEW w \in Nat, NEW c, NEW d, NEW f, NEW g, NEW p, NEW q,
         Grown(w, c, d), TellsMore(f, g), p \subseteq q,
         NEW i \in 1..MaxFiles, NEW o \in Nat, i < w \/ (i = w /\ o <= Len(c[i])),
         Covered(c, f, p, i, o)
  PROVE  Covered(d, g, q, i, o)
<1> SUFFICES ASSUME NEW j \in 1..MaxFiles, NEW k \in 1..Len(d[j]), d[j][k].ends,
                    Passed(i, o, j, k)
             PROVE  ToldIn(g, d[j][k].line) \/ d[j][k].line \in q
  BY DEF Covered
<1>1. i \in Nat /\ j \in Nat /\ k \in Nat /\ Len(d[j]) \in Nat /\ Len(c[j]) \in Nat
  BY TailAssumption DEF Grown, Grows
<1>2. k \in 1..Len(c[j])
  <2>1. CASE j # w
    BY <2>1 DEF Grown
  <2>2. CASE j = w
    BY <1>1, <2>2 DEF Passed
  <2> QED  BY <2>1, <2>2
<1>3. d[j][k] = c[j][k] /\ c[j][k].line \in 1..MaxLines
  BY <1>2 DEF Grown, Grows
<1>4. ToldIn(f, c[j][k].line) \/ c[j][k].line \in p
  BY <1>2, <1>3 DEF Covered
<1> QED  BY <1>3, <1>4 DEF TellsMore

LEMMA AlignedKept ==
  ASSUME NEW c, NEW d, NEW p, NEW q, Grows(c, d), p \subseteq q,
         NEW i \in 1..MaxFiles, NEW o, Aligned(c, p, i, o)
  PROVE  Aligned(d, q, i, o)
BY DEF Grows, Aligned

LEMMA ValidKept ==
  ASSUME NEW c, NEW d, NEW p, NEW q, Grows(c, d), p \subseteq q, NEW w \in Nat,
         NEW v \in {w, w + 1}, NEW i \in 0..MaxFiles, NEW o, Valid(w, c, p, i, o)
  PROVE  Valid(v, d, q, i, o)
<1>1. CASE i = 0 \/ i < w
  BY <1>1, TailAssumption DEF Valid
<1>2. CASE ~(i = 0 \/ i < w)
  <2>1. i \in 1..MaxFiles /\ Aligned(c, p, i, o)
    BY <1>2 DEF Valid
  <2>2. Aligned(d, q, i, o)
    BY <2>1, AlignedKept
  <2> QED  BY <2>2 DEF Valid
<1> QED  BY <1>1, <1>2

\* The tail tells of a line that it reads.
LEMMA ReadTells ==
  ASSUME FileInv, TailType, ReaderInv, ReadLine \/ CutLine, NextLine # 0
  PROVE  ToldIn(fate', NextLine)
<1> DEFINE n == NextLine
<1>1. (\E full \in BOOLEAN : fate' = Told(n, full)) \/ fate' = [fate EXCEPT ![n].cut = TRUE]
  BY DEF ReadLine, CutLine
<1>2. n \in 1..MaxLines /\ fate \in [1..MaxLines -> Fate]
  BY ReadCases, NextEndIsFirst DEF TailType
<1> HIDE DEF n
<1>3. ASSUME NEW full \in BOOLEAN, fate' = Told(n, full) PROVE ToldIn(fate', n)
  <2>1. /\ fate' \in [1..MaxLines -> Fate]
        /\ fate'[n].sent + fate'[n].dropped = fate[n].sent + fate[n].dropped + 1
    BY <1>2, <1>3, ToldFate
  <2>2. /\ fate'[n].sent \in Nat /\ fate'[n].dropped \in Nat
        /\ fate[n].sent \in Nat /\ fate[n].dropped \in Nat
    BY <1>2, <2>1 DEF Fate
  <2>3. \A x, y, u, v \in Nat : x + y = u + v + 1 => x > 0 \/ y > 0
    OBVIOUS
  <2>4. fate'[n].sent > 0 \/ fate'[n].dropped > 0
    BY ONLY <2>1, <2>2, <2>3
  <2> QED  BY <2>4 DEF ToldIn
<1>4. ASSUME fate' = [fate EXCEPT ![n].cut = TRUE] PROVE ToldIn(fate', n)
  <2>1. fate'[n].cut
    BY <1>2, <1>4 DEF Fate
  <2> QED  BY <2>1 DEF ToldIn
<1>5. ToldIn(fate', n)
  BY <1>1, <1>3, <1>4
<1> QED  BY <1>5 DEF n

\* From an offset that is aligned the next line is whole, and the tail tells of it, or it
\* is the rest of one that was passed by.
LEMMA AlignedRead ==
  ASSUME FileInv, TailType, ReaderInv, ReadLine \/ CutLine,
         Aligned(content, passedBy, tail.fd, tail.offset)
  PROVE  ToldIn(fate', content[tail.fd][NextEnd].line)
            \/ content[tail.fd][NextEnd].line \in passedBy
<1> DEFINE f == tail.fd
           e == NextEnd
           o == tail.offset
<1>1. /\ f \in 1..MaxFiles /\ LineEnds # {} /\ o \in Nat /\ Size(f) \in Nat
      /\ tail \in Reader /\ e \in Nat
  BY ReadCases DEF TailType, Reader, FileInv, FileType, Size
<1>2. /\ e \in (o + 1)..Size(f) /\ content[f][e].ends
      /\ \A k \in (o + 1)..Size(f) : content[f][k].ends => e <= k
  BY <1>1, NextEndIsFirst
<1>3. /\ o \in 0..Size(f)
      /\ o = 0 \/ content[f][o].ends \/ content[f][o].line \in passedBy
  BY DEF Aligned, Size
<1>4. e > 1 /\ ~content[f][e - 1].ends /\ content[f][e - 1].line = content[f][e].line
      /\ content[f][e].line >= 1
  BY <1>1, <1>2 DEF FileInv, CellInv
<1>5. e \in {o + 1, o + 2}
  <2> SUFFICES ASSUME e > o + 2 PROVE FALSE
    BY <1>1, <1>2
  <2>1. e - 1 \in 1..Size(f) /\ e - 1 > 1 /\ e - 1 - 1 = e - 2
        /\ e - 2 \in (o + 1)..Size(f)
    BY <1>1, <1>2
  <2>2. content[f][e - 2].ends
    BY <1>1, <1>4, <2>1 DEF FileInv, CellInv
  <2>3. e <= e - 2
    BY <1>2, <2>1, <2>2
  <2> QED  BY <1>1, <2>3
<1>6. CASE e = o + 1
  <2>1. e - 1 = o /\ o # 0
    BY <1>1, <1>4, <1>6
  <2> QED  BY <1>3, <1>4, <2>1
<1>7. CASE e = o + 2
  <2>1. o + 1 = e - 1
    BY <1>1, <1>7
  <2>2. NextLine = content[f][e].line
    BY <1>4, <1>7, <2>1 DEF NextLine
  <2>3. NextLine # 0
    BY <1>4, <2>2
  <2> QED  BY <2>2, <2>3, ReadTells
<1> QED  BY <1>5, <1>6, <1>7

\* What is opened: the lines behind the tail are told of or passed by.
LEMMA OpenCovers ==
  ASSUME FileInv, TailType, ReaderInv, BoundInv, SkipInv, Poll, OpensFile,
         "truncated" \notin marks
  PROVE  /\ Covered(content, fate, passedBy', path, 0)
         /\ Covered(content, fate, passedBy', tail'.inode, tail'.offset)
         /\ tail'.inode = path => Aligned(content, passedBy', path, tail'.offset)
<1> DEFINE i == tail.inode
           o == tail.offset
           s == tail.stat.inode
           u == tail'.offset
<1>1. /\ path \in 1..MaxFiles /\ path = writer /\ i \in 0..MaxFiles /\ s \in 0..MaxFiles
      /\ o \in Nat /\ u \in Nat /\ tail.stat.size \in Nat /\ MaxFiles \in Nat
      /\ i <= s /\ s <= path /\ s >= 1 /\ tail.step = "poll"
  BY PollCases, TailAssumption
     DEF FileInv, FileType, TailType, Reader, ReaderInv, OpensFile, Poll
<1>2. /\ tail'.inode = s /\ u <= tail.stat.size
      /\ u = 0 \/ (u = o /\ tail.fd = 0)
      /\ i = s => u \in {0, o}
      /\ passedBy' = passedBy \cup LinesPassedBy(path, u)
  BY DEF OpensFile
<1>3. ASSUME NEW j \in 1..path, NEW k \in 1..Len(content[j]), IsPassedBy(j, k, path, u)
      PROVE  content[j][k].line \in passedBy'
  <2>1. j \in 1..MaxFiles
    BY <1>1
  <2>2. content[j][k].line \in 1..MaxLines
    <3>1. line.n \in 0..MaxLines /\ content[j][k].line \in 1..line.n
      BY <2>1 DEF FileInv, FileType, CellInv, Size
    <3> QED  BY <3>1, TailAssumption
  <2> DEFINE n == content[j][k].line
  <2>3. n \in 1..MaxLines /\ content[j][k].line = n /\ k \in 1..Size(j)
    BY <2>2 DEF Size
  <2> HIDE DEF n
  <2>4. n \in LinesPassedBy(path, u)
    BY <1>3, <2>3 DEF LinesPassedBy
  <2> QED  BY <1>2, <2>4 DEF n
<1>4. i # 0 => Covered(content, fate, passedBy, i, o)
  BY DEF SkipInv
<1>5. ASSUME NEW j \in 1..MaxFiles, NEW k \in 1..Len(content[j]), content[j][k].ends,
             j < path \/ (j = path /\ s = path /\ k <= u)
      PROVE  ToldIn(fate, content[j][k].line) \/ content[j][k].line \in passedBy'
  <2>0. k \in Nat /\ j \in Nat /\ j \in 1..path
    BY <1>1, <1>5 DEF FileInv, FileType
  <2>1. CASE i # 0 /\ Passed(i, o, j, k)
    BY <1>2, <1>4, <1>5, <2>1 DEF Covered
  <2>2. CASE ~(i # 0 /\ Passed(i, o, j, k))
    <3>1. IsPassedBy(j, k, path, u)
      <4>1. CASE j < path
        BY <1>1, <2>0, <2>2, <4>1 DEF IsPassedBy, Passed
      <4>2. CASE j = path /\ s = path /\ k <= u
        <5>1. i # path
          BY <1>1, <1>2, <2>0, <2>2, <4>2 DEF Passed
        <5> QED  BY <4>2, <5>1 DEF IsPassedBy
      <4> QED  BY <1>5, <4>1, <4>2
    <3> QED  BY <1>3, <2>0, <3>1
  <2> QED  BY <2>1, <2>2
<1>6. Covered(content, fate, passedBy', path, 0)
  <2> SUFFICES ASSUME NEW j \in 1..MaxFiles, NEW k \in 1..Len(content[j]), content[j][k].ends,
                      Passed(path, 0, j, k)
               PROVE  ToldIn(fate, content[j][k].line) \/ content[j][k].line \in passedBy'
    BY DEF Covered
  <2>1. j < path
    BY <1>1 DEF Passed, FileInv, FileType
  <2> QED  BY <1>5, <2>1
<1>7. Covered(content, fate, passedBy', s, u)
  <2> SUFFICES ASSUME NEW j \in 1..MaxFiles, NEW k \in 1..Len(content[j]), content[j][k].ends,
                      Passed(s, u, j, k)
               PROVE  ToldIn(fate, content[j][k].line) \/ content[j][k].line \in passedBy'
    BY DEF Covered
  <2>1. j < path \/ (j = path /\ s = path /\ k <= u)
    BY <1>1 DEF Passed
  <2> QED  BY <1>5, <2>1
<1>8. ASSUME s = path PROVE Aligned(content, passedBy', path, u)
  <2>1. u \in 0..Len(content[path])
    BY <1>1, <1>2, <1>8 DEF BoundInv, Size, FileInv, FileType
  <2>2. CASE u = 0
    BY <2>1, <2>2 DEF Aligned
  <2>3. CASE u # 0 /\ i = path
    <3>1. u = o
      BY <1>2, <2>3
    <3>2. Aligned(content, passedBy, path, o)
      BY <1>1, <2>3 DEF SkipInv, Valid
    <3> QED  BY <1>2, <3>1, <3>2 DEF Aligned
  <2>4. CASE u # 0 /\ i # path
    <3>1. u \in 1..Len(content[path]) /\ IsPassedBy(path, u, path, u) /\ path \in 1..path
      BY <1>1, <2>1, <2>4 DEF IsPassedBy
    <3>2. content[path][u].line \in passedBy'
      BY <1>3, <3>1
    <3> QED  BY <2>1, <3>2 DEF Aligned
  <2> QED  BY <2>2, <2>3, <2>4
<1> QED  BY <1>2, <1>6, <1>7, <1>8

LEMMA SkipStep ==
  ASSUME FileInv, TailType, ReaderInv, BoundInv, SkipInv, [TailNext]_tailVars
  PROVE  SkipInv'
<1> DEFINE C(i, o) == Covered(content', fate', passedBy', i, o)
           V(i, o) == Valid(writer', content', passedBy', i, o)
           A(i, o) == Aligned(content', passedBy', i, o)
<1> SUFFICES ASSUME "truncated" \notin marks'
             PROVE  /\ tail'.inode # 0 => C(tail'.inode, tail'.offset)
                    /\ saved'.inode # 0 => C(saved'.inode, saved'.offset)
                    /\ tail'.fd # 0 => C(tail'.fd, 0)
                    /\ V(tail'.inode, tail'.offset) /\ V(saved'.inode, saved'.offset)
                    /\ tail'.fd # 0 /\ tail'.fd = tail'.inode => A(tail'.fd, tail'.offset)
  BY DEF SkipInv
<1>1. ~Truncate /\ "truncated" \notin marks /\ passedBy \subseteq passedBy'
  BY MarksStep
<1>2. /\ tail.inode # 0 => Covered(content, fate, passedBy, tail.inode, tail.offset)
      /\ saved.inode # 0 => Covered(content, fate, passedBy, saved.inode, saved.offset)
      /\ tail.fd # 0 => Covered(content, fate, passedBy, tail.fd, 0)
      /\ Valid(writer, content, passedBy, tail.inode, tail.offset)
      /\ Valid(writer, content, passedBy, saved.inode, saved.offset)
      /\ tail.fd # 0 /\ tail.fd = tail.inode
            => Aligned(content, passedBy, tail.fd, tail.offset)
      /\ Within(writer, content, tail.inode, tail.offset)
      /\ Within(writer, content, saved.inode, saved.offset)
  BY <1>1 DEF SkipInv, BoundInv
<1>3. Grows(content, content') /\ Grown(writer, content, content') /\ TellsMore(fate, fate')
  BY <1>1, GrowthStep, GrownStep
<1>4. /\ writer \in 1..MaxFiles /\ path \in {0, writer} /\ tail \in Reader
      /\ tail.inode \in 0..MaxFiles /\ tail.fd \in 0..MaxFiles
      /\ tail.stat.inode \in 0..MaxFiles /\ tail.offset \in Nat /\ tail.stat.size \in Nat
      /\ saved.inode \in 0..MaxFiles /\ saved.offset \in Nat
      /\ tail.inode <= writer /\ saved.inode <= writer /\ tail.stat.inode <= writer
      /\ tail.fd <= writer /\ writer \in Nat
  BY DEF FileInv, FileType, TailType, Reader, ReaderInv
<1>5. /\ tail.inode # 0 => C(tail.inode, tail.offset)
      /\ saved.inode # 0 => C(saved.inode, saved.offset)
      /\ tail.fd # 0 => C(tail.fd, 0)
  <2>1. ASSUME NEW i \in 0..MaxFiles, NEW o \in Nat, i # 0, i <= writer,
               Within(writer, content, i, o), Covered(content, fate, passedBy, i, o)
        PROVE  C(i, o)
    <3>1. i \in 1..MaxFiles /\ (i < writer \/ (i = writer /\ o <= Len(content[i])))
      BY <1>4, <2>1, TailAssumption DEF Within
    <3> QED  BY <1>1, <1>3, <1>4, <2>1, <3>1, CoveredKept
  <2>2. tail.fd # 0 => Within(writer, content, tail.fd, 0)
    BY <1>3, <1>4 DEF Within, Grows
  <2> QED  BY <1>2, <1>4, <2>1, <2>2
<1>6. tail.fd # 0 /\ tail.fd = tail.inode => A(tail.fd, tail.offset)
  <2> SUFFICES ASSUME tail.fd # 0, tail.fd = tail.inode PROVE A(tail.fd, tail.offset)
    OBVIOUS
  <2>1. tail.fd \in 1..MaxFiles
    BY <1>4
  <2> QED  BY <1>1, <1>2, <1>3, <2>1, AlignedKept
<1>7. ASSUME writer' \in {writer, writer + 1}
      PROVE  V(tail.inode, tail.offset) /\ V(saved.inode, saved.offset)
  BY <1>1, <1>2, <1>3, <1>4, <1>7, ValidKept
<1>8. CASE (\E ended \in BOOLEAN : AppendLine(ended)) \/ Rename \/ Reopen
           \/ TakeEvent \/ UNCHANGED tailVars
  <2>1. UNCHANGED <<tail, saved>> /\ writer' \in {writer, writer + 1}
    BY <1>8 DEF AppendLine, Rename, Reopen, TakeEvent, tailVars
  <2> HIDE DEF C, V, A
  <2> QED  BY <1>5, <1>6, <1>7, <2>1
<1>9. CASE StartTail
  <2>1. /\ writer' = writer /\ tail'.fd = 0 /\ saved' = saved
        /\ tail'.inode = saved.inode /\ tail'.offset = saved.offset
    BY <1>9, StartCases DEF StartTail
  <2> HIDE DEF C, V, A
  <2> QED  BY <1>5, <1>6, <1>7, <2>1
<1>10. CASE Stat \/ CancelTail \/ \E persist \in BOOLEAN : EndRead(persist)
  <2>1. writer' = writer
    BY <1>10 DEF Stat, CancelTail, EndRead
  <2>2. /\ tail'.fd = tail.fd /\ tail'.inode = tail.inode /\ tail'.offset = tail.offset
        /\ saved' = saved \/ saved' = [inode |-> tail.inode, offset |-> tail.offset]
    BY <1>10, QuietCases
  <2> HIDE DEF C, V, A
  <2> QED  BY <1>5, <1>6, <1>7, <2>1, <2>2
<1>11. CASE Poll
  <2>1. UNCHANGED <<writer, content, saved, fate>> /\ tail.step = "poll"
    BY <1>11 DEF Poll
  <2>2. GoesOn \/ FindsNone \/ OpensFile
    BY <1>11, PollCases
  <2>3. V(0, tail'.offset)
    BY DEF Valid
  <2>4. CASE GoesOn
    <3> HIDE DEF C, V, A
    <3> QED  BY <1>5, <1>6, <1>7, <2>1, <2>4 DEF GoesOn
  <2>5. CASE FindsNone
    <3> HIDE DEF C, V, A
    <3> QED  BY <1>5, <1>6, <1>7, <2>1, <2>3, <2>5 DEF FindsNone
  <2>6. CASE OpensFile
    <3>1. /\ path = writer /\ path # 0 /\ tail'.fd = path /\ tail'.inode = tail.stat.inode
      BY <1>4, <2>6 DEF OpensFile
    <3>2. /\ C(path, 0) /\ C(tail'.inode, tail'.offset)
          /\ tail'.inode = path => A(path, tail'.offset)
      BY <1>1, <1>11, <2>1, <2>6, OpenCovers
    <3>3. V(tail'.inode, tail'.offset)
      <4>1. tail'.inode = path \/ tail'.inode < writer'
        BY <1>4, <2>1, <3>1
      <4> QED  BY <3>2, <4>1 DEF Valid
    <3> HIDE DEF C, V, A
    <3> QED  BY <1>5, <1>7, <2>1, <3>1, <3>2, <3>3
  <2> QED  BY <2>2, <2>4, <2>5, <2>6
<1>12. CASE ReadLine \/ CutLine
  <2>1. UNCHANGED <<writer, content, saved, passedBy>>
    BY <1>12 DEF ReadLine, CutLine
  <2>2. /\ tail.step = "read" /\ tail'.fd = tail.fd /\ tail'.inode = tail.inode
        /\ tail'.offset = NextEnd /\ tail.fd \in 1..MaxFiles /\ LineEnds # {}
    BY <1>12, ReadCases
  <2>3. /\ tail.inode \in 1..MaxFiles /\ tail.inode <= tail.fd
    BY <1>4, <2>2 DEF ReaderInv
  <2>4. /\ NextEnd \in (tail.offset + 1)..Size(tail.fd) /\ content[tail.fd][NextEnd].ends
        /\ \A k \in (tail.offset + 1)..Size(tail.fd) : content[tail.fd][k].ends => NextEnd <= k
        /\ NextEnd \in Nat /\ Size(tail.fd) \in Nat
    BY <1>4, <1>12, <2>2, ReadCases, NextEndIsFirst DEF FileInv, FileType, Size
  <2>5. C(tail.inode, NextEnd)
    <3> SUFFICES ASSUME NEW j \in 1..MaxFiles, NEW k \in 1..Len(content[j]),
                        content[j][k].ends, Passed(tail.inode, NextEnd, j, k)
                 PROVE  ToldIn(fate', content[j][k].line) \/ content[j][k].line \in passedBy
      BY <2>1 DEF Covered
    <3>0. j \in Nat /\ k \in Nat /\ tail.inode \in Nat
      BY <1>4, TailAssumption DEF FileInv, FileType
    <3>1. CASE Passed(tail.inode, tail.offset, j, k)
      BY <1>5, <2>1, <2>3, <3>1 DEF Covered
    <3>2. CASE tail.inode < tail.fd
      <4>1. Passed(tail.fd, 0, j, k)
        BY <3>0, <2>2, <3>2 DEF Passed
      <4> QED  BY <1>5, <2>1, <2>2, <4>1 DEF Covered
    <3>3. CASE ~Passed(tail.inode, tail.offset, j, k) /\ tail.inode = tail.fd
      <4>1. j = tail.fd /\ k = NextEnd
        <5>1. j = tail.fd /\ k > tail.offset /\ k <= NextEnd
          BY <1>4, <3>0, <3>3 DEF Passed
        <5>2. k \in (tail.offset + 1)..Size(tail.fd)
          BY <1>4, <2>4, <3>0, <5>1 DEF Size
        <5> QED  BY <2>4, <3>0, <5>1, <5>2
      <4>2. Aligned(content, passedBy, tail.fd, tail.offset)
        BY <1>2, <2>2, <3>3
      <4> QED  BY <1>12, <4>1, <4>2, AlignedRead
    <3> QED  BY <1>4, <2>2, <2>3, <3>1, <3>2, <3>3
  <2>6. A(tail.fd, NextEnd)
    BY <2>1, <2>4, <1>4 DEF Aligned, Size
  <2>7. V(tail.inode, NextEnd)
    <3>1. tail.inode = tail.fd \/ tail.inode < writer
      BY <1>4, <2>3
    <3> QED  BY <2>1, <2>6, <3>1 DEF Valid
  <2> HIDE DEF C, V, A
  <2> QED  BY <1>5, <1>7, <2>1, <2>2, <2>5, <2>6, <2>7
<1>13. CASE Ends
  <2>1. UNCHANGED <<writer, content>>
    BY <1>13 DEF Ends, ExitTail, KillTail
  <2>2. V(0, 0)
    BY DEF Valid
  <2>3. /\ tail'.inode = 0 /\ tail'.fd = 0 /\ tail'.offset = 0
        /\ saved' = saved \/ saved' = [inode |-> tail.inode, offset |-> tail.offset]
    BY <1>13, EndCases, StoppedFacts
  <2> HIDE DEF C, V, A
  <2> QED  BY <1>5, <1>7, <2>1, <2>2, <2>3
<1> QED  BY <1>1, <1>8, <1>9, <1>10, <1>11, <1>12, <1>13 DEF TailNext, Ends

-----------------------------------------------------------------------------
\* The file looked at is at least as long as it looked; when the tail rests, the lines
\* that had ended in the open one lie before the offset.
LookInv ==
    "truncated" \notin marks =>
        /\ tail.stat.inode # 0 => tail.stat.size <= Size(tail.stat.inode)
        /\ tail.step = "idle" /\ ~tail.cancelled /\ tail.fd # 0 /\ tail.fd = tail.stat.inode
           => \A k \in 1..tail.stat.size : content[tail.fd][k].ends => k <= tail.offset

LEMMA LookStep ==
  ASSUME FileInv, TailType, ReaderInv, LookInv, [TailNext]_tailVars
  PROVE  LookInv'
<1> SUFFICES ASSUME "truncated" \notin marks'
             PROVE  /\ tail'.stat.inode # 0 =>
                          tail'.stat.size <= Len(content'[tail'.stat.inode])
                    /\ tail'.step = "idle" /\ ~tail'.cancelled /\ tail'.fd # 0
                       /\ tail'.fd = tail'.stat.inode
                       => \A k \in 1..tail'.stat.size :
                             content'[tail'.fd][k].ends => k <= tail'.offset
  BY DEF LookInv, Size
<1>1. ~Truncate /\ "truncated" \notin marks
  BY MarksStep
<1>2. /\ tail.stat.inode # 0 => tail.stat.size <= Len(content[tail.stat.inode])
      /\ tail.step = "idle" /\ ~tail.cancelled /\ tail.fd # 0 /\ tail.fd = tail.stat.inode
         => \A k \in 1..tail.stat.size : content[tail.fd][k].ends => k <= tail.offset
  BY <1>1 DEF LookInv, Size
<1>3. Grows(content, content')
  BY <1>1, GrowthStep
<1>4. /\ tail \in Reader /\ path \in 0..MaxFiles /\ tail.fd \in 0..MaxFiles
      /\ tail.stat.inode \in 0..MaxFiles /\ tail.stat.size \in Nat /\ tail.offset \in Nat
  BY TailAssumption DEF FileInv, FileType, TailType, Reader
<1>5. tail.stat.inode # 0 => tail.stat.size <= Len(content'[tail.stat.inode])
  BY <1>2, <1>3, <1>4 DEF Grows
<1>6. ASSUME tail.step = "idle", ~tail.cancelled, tail.fd # 0, tail.fd = tail.stat.inode,
             NEW k \in 1..tail.stat.size, content'[tail.fd][k].ends
      PROVE  k <= tail.offset
  <2>1. k \in 1..Len(content[tail.fd])
    BY <1>2, <1>3, <1>4, <1>6 DEF Grows
  <2> QED  BY <1>2, <1>3, <1>4, <1>6, <2>1 DEF Grows
<1>7. CASE (\E ended \in BOOLEAN : AppendLine(ended)) \/ Rename \/ Reopen
           \/ TakeEvent \/ UNCHANGED tailVars
  <2>1. UNCHANGED tail
    BY <1>7 DEF AppendLine, Rename, Reopen, TakeEvent, tailVars
  <2> QED  BY <1>5, <1>6, <2>1
<1>8. CASE StartTail
  <2>1. tail'.fd = 0 /\ tail'.stat = [inode |-> 0, size |-> 0]
    BY <1>8, StartCases
  <2> QED  BY <2>1
<1>9. CASE Stat
  <2>1. /\ tail'.step = "poll" /\ path # 0 /\ content' = content
        /\ tail'.stat = [inode |-> path, size |-> Size(path)]
    BY <1>9, <1>4, QuietCases DEF Stat
  <2>2. Size(path) \in Nat
    BY <1>4, <2>1 DEF FileInv, FileType, Size
  <2> QED  BY <2>1, <2>2 DEF Size
<1>10. CASE CancelTail
  <2>1. tail' = [tail EXCEPT !.cancelled = TRUE]
    BY <1>10 DEF CancelTail
  <2>2. tail'.cancelled /\ tail'.stat = tail.stat
    BY <1>4, <2>1 DEF Reader
  <2> QED  BY <1>5, <2>2
<1>11. CASE \E persist \in BOOLEAN : EndRead(persist)
  <2>1. PICK persist \in BOOLEAN : EndRead(persist)
    BY <1>11
  <2>2. /\ tail' = [tail EXCEPT !.step = "idle", !.rotated = @ /\ ~persist]
        /\ tail.cancelled \/ LineEnds = {}
        /\ content' = content
    BY <2>1 DEF EndRead
  <2>3. /\ tail'.cancelled = tail.cancelled /\ tail'.fd = tail.fd /\ tail'.stat = tail.stat
        /\ tail'.offset = tail.offset
    BY <1>4, <2>2 DEF Reader
  <2>4. ASSUME ~tail.cancelled, tail.fd # 0, tail.fd = tail.stat.inode,
               NEW k \in 1..tail.stat.size, content'[tail.fd][k].ends
        PROVE  k <= tail.offset
    <3>1. content[tail.fd][k].ends /\ k \in 1..Size(tail.fd) /\ LineEnds = {}
      BY <1>2, <1>3, <1>4, <2>2, <2>4 DEF Size, Grows
    <3>2. k \notin (tail.offset + 1)..Size(tail.fd)
      BY <3>1 DEF LineEnds
    <3> QED  BY <1>3, <1>4, <2>4, <3>1, <3>2 DEF Size, Grows
  <2> QED  BY <1>5, <2>3, <2>4
<1>12. CASE Poll
  <2>1. /\ tail'.stat = tail.stat
        /\ tail'.fd # 0 /\ tail'.step = "idle" => tail.stat.size <= tail'.offset
        /\ tail'.offset \in Nat
    BY <1>12, PollCases DEF Reader
  <2> QED  BY <1>4, <1>5, <2>1
<1>13. CASE ReadLine \/ CutLine
  <2>1. tail'.step = "read" /\ tail'.stat = tail.stat
    BY <1>13, ReadCases
  <2> QED  BY <1>5, <2>1
<1>14. CASE Ends
  BY <1>14, EndCases, StoppedFacts
<1> QED  BY <1>1, <1>7, <1>8, <1>9, <1>10, <1>11, <1>12, <1>13, <1>14 DEF TailNext, Ends

-----------------------------------------------------------------------------
\* The tail is past the cell, or will be when it opens a file: with no inode noted it can
\* only open a later one than it had.  A tail that is down is where its state file says.
Behind(t, s, w, i, k) ==
    IF t.step # "down"
    THEN \/ Passed(t.inode, t.offset, i, k)
         \/ t.inode = 0 /\ i < w /\ (t.step = "poll" => i < t.stat.inode)
    ELSE Passed(s.inode, s.offset, i, k) \/ (s.inode = 0 /\ i < w)

Counted(n) == fate[n].sent + fate[n].dropped

\* A line that was counted, and not astray, ends in a cell that the tail is past.
OnceInv ==
    marks \cap {"truncated", "killed"} = {} =>
        \A n \in 1..MaxLines :
            /\ Counted(n) <= 1 \/ fate[n].astray
            /\ Counted(n) > 0 /\ ~fate[n].astray =>
                 \E i \in 1..MaxFiles : \E k \in 1..Size(i) :
                    /\ content[i][k].ends /\ content[i][k].line = n
                    /\ Behind(tail, saved, writer, i, k)

\* Without a truncation or a kill the tail never goes back.
LEMMA BehindStep ==
  ASSUME FileInv, TailType, ReaderInv, BoundInv, [TailNext]_tailVars,
         ~Truncate, ~KillTail, "truncated" \notin marks,
         NEW i \in 1..MaxFiles, NEW k \in 1..Size(i), Behind(tail, saved, writer, i, k)
  PROVE  Behind(tail', saved', writer', i, k)
<1>1. /\ writer \in 1..MaxFiles /\ path \in {0, writer} /\ tail \in Reader
      /\ tail.inode \in Nat /\ tail.fd \in Nat
      /\ tail.stat.inode \in Nat /\ tail.offset \in Nat /\ tail.stat.size \in Nat
      /\ saved.inode \in Nat /\ saved.offset \in Nat /\ writer \in Nat /\ i \in Nat /\ k \in Nat
      /\ tail.inode <= writer /\ saved.inode <= writer /\ tail.stat.inode <= writer
      /\ tail.fd <= writer /\ i >= 1
  BY DEF FileInv, FileType, TailType, Reader, ReaderInv, Size
<1>2. CASE (\E ended \in BOOLEAN : AppendLine(ended)) \/ Rename \/ Reopen
           \/ TakeEvent \/ UNCHANGED tailVars
  <2>1. UNCHANGED <<tail, saved>> /\ writer' \in {writer, writer + 1}
    BY <1>2 DEF AppendLine, Rename, Reopen, TakeEvent, tailVars
  <2> QED  BY <1>1, <2>1 DEF Behind
<1>3. CASE StartTail
  <2>1. writer' = writer /\ tail.step = "down"
    BY <1>3, StartCases DEF StartTail, Up
  <2>2. tail'.step = "idle" /\ tail'.inode = saved.inode /\ tail'.offset = saved.offset
    BY <1>3, StartCases
  <2> QED  BY <2>1, <2>2 DEF Behind
<1>4. CASE Stat \/ CancelTail \/ \E persist \in BOOLEAN : EndRead(persist)
  <2>1. writer' = writer
    BY <1>4 DEF Stat, CancelTail, EndRead
  <2>2. /\ Up /\ Up' /\ tail'.inode = tail.inode /\ tail'.offset = tail.offset
        /\ \/ /\ tail'.step = "poll" /\ path # 0
              /\ tail'.stat = [inode |-> path, size |-> Size(path)]
           \/ tail'.step \in {"idle", tail.step} /\ tail'.stat = tail.stat
    BY <1>4, QuietCases
  <2>3. tail'.step = "poll" => tail'.stat.inode = writer
                               \/ (tail.step = "poll" /\ tail'.stat = tail.stat)
    BY <1>1, <2>2
  <2> QED  BY <1>1, <2>1, <2>2, <2>3 DEF Behind, Up
<1>5. CASE Poll
  <2>1. UNCHANGED <<writer, content, saved, fate>> /\ tail.step = "poll"
    BY <1>5 DEF Poll
  <2>2. /\ tail' \in Reader /\ tail'.step \in {"idle", "read"}
        /\ GoesOn \/ FindsNone \/ OpensFile
    BY <1>5, PollCases
  <2>3. Passed(tail.inode, tail.offset, i, k) \/ (tail.inode = 0 /\ i < tail.stat.inode)
    BY <2>1 DEF Behind
  <2>4. tail.inode <= tail.stat.inode /\ (tail.inode = 0 => tail.fd = 0)
    BY <2>1, <1>1 DEF ReaderInv
  <2>5. CASE GoesOn
    BY <1>1, <2>1, <2>2, <2>3, <2>4, <2>5 DEF GoesOn, Behind
  <2>6. CASE FindsNone
    BY <1>1, <2>1, <2>2, <2>3, <2>4, <2>6 DEF FindsNone, Behind, Passed
  <2>7. CASE OpensFile
    <3>1. tail'.inode = tail.stat.inode
      BY <2>7 DEF OpensFile
    <3>2. tail.inode = tail.stat.inode => tail'.offset = tail.offset
      <4>1. tail.inode = tail.stat.inode /\ tail.fd = 0 => tail.offset <= tail.stat.size
        BY <2>1 DEF BoundInv
      <4> QED  BY <1>1, <4>1, <2>7 DEF OpensFile
    <3>3. Passed(tail'.inode, tail'.offset, i, k)
      BY <1>1, <2>3, <2>4, <3>1, <3>2 DEF Passed
    <3> QED  BY <2>2, <3>3 DEF Behind
  <2> QED  BY <2>2, <2>5, <2>6, <2>7
<1>6. CASE ReadLine \/ CutLine
  <2>1. UNCHANGED <<writer, content, saved>>
    BY <1>6 DEF ReadLine, CutLine
  <2>2. /\ tail.step = "read" /\ tail'.step = "read" /\ tail'.inode = tail.inode
        /\ tail'.offset = NextEnd /\ tail.fd \in 1..MaxFiles /\ LineEnds # {} /\ NextEnd \in Nat
    BY <1>6, ReadCases
  <2>3. NextEnd > tail.offset
    BY <1>1, <2>2, NextEndIsFirst
  <2> QED  BY <1>1, <2>1, <2>2, <2>3 DEF Behind, Passed
<1>7. CASE ExitTail
  <2>1. /\ tail' = Stopped /\ tail.step = "idle" /\ writer' = writer
        /\ saved' = [inode |-> tail.inode, offset |-> tail.offset]
    BY <1>7 DEF ExitTail
  <2>2. tail'.step = "down"
    BY <2>1, StoppedFacts
  <2> QED  BY <2>1, <2>2 DEF Behind
<1> QED  BY <1>2, <1>3, <1>4, <1>5, <1>6, <1>7 DEF TailNext

LEMMA OnceStep ==
  ASSUME FileInv, TailType, ReaderInv, BoundInv, OnceInv, [TailNext]_tailVars
  PROVE  OnceInv'
<1> DEFINE Place(n) == \E i \in 1..MaxFiles : \E k \in 1..Len(content[i]) :
                          /\ content[i][k].ends /\ content[i][k].line = n
                          /\ Behind(tail, saved, writer, i, k)
<1> SUFFICES ASSUME (marks \cap {"truncated", "killed"} = {})', NEW n \in 1..MaxLines
             PROVE  /\ Counted(n)' <= 1 \/ fate'[n].astray
                    /\ Counted(n)' > 0 /\ ~fate'[n].astray => Place(n)'
  BY DEF OnceInv, Size
<1>1. ~Truncate /\ ~KillTail /\ marks \cap {"truncated", "killed"} = {}
  BY MarksStep
<1>2. /\ Counted(n) <= 1 \/ fate[n].astray
      /\ Counted(n) > 0 /\ ~fate[n].astray => Place(n)
  BY <1>1 DEF OnceInv, Size
<1>3. Grows(content, content')
  BY <1>1, GrowthStep
<1>4. Place(n) => Place(n)'
  <2> SUFFICES ASSUME NEW i \in 1..MaxFiles, NEW k \in 1..Len(content[i]),
                      content[i][k].ends, content[i][k].line = n,
                      Behind(tail, saved, writer, i, k)
               PROVE  Place(n)'
    OBVIOUS
  <2>1. Behind(tail', saved', writer', i, k)
    BY <1>1, BehindStep DEF Size
  <2>2. k \in 1..Len(content'[i]) /\ content'[i][k] = content[i][k]
    BY <1>3 DEF Grows
  <2> QED  BY <2>1, <2>2
<1> HIDE DEF Place
<1>5. CASE ReadLine
  <2> DEFINE m == NextLine
  <2>1. /\ tail \in Reader /\ tail.step = "read" /\ LineEnds # {} /\ tail.fd \in 1..MaxFiles
        /\ tail'.step = "read" /\ tail'.inode = tail.inode /\ tail'.offset = NextEnd
        /\ NextEnd \in Nat /\ tail.offset \in Nat /\ tail.inode \in Nat
        /\ fate \in [1..MaxLines -> Fate]
    BY <1>5, ReadCases DEF TailType, Reader
  <2>2. /\ NextEnd \in (tail.offset + 1)..Size(tail.fd) /\ content[tail.fd][NextEnd].ends
        /\ m # 0 => m \in 1..MaxLines /\ m = content[tail.fd][NextEnd].line
    BY <2>1, NextEndIsFirst
  <2>3. /\ m = 0 => fate' = fate
        /\ m # 0 => \E full \in BOOLEAN : fate' = Told(m, full)
        /\ UNCHANGED <<content, writer, saved>>
    BY <1>5 DEF ReadLine
  <2> HIDE DEF m
  <2>4. CASE m # n
    <3>1. fate'[n] = fate[n]
      <4>1. CASE m # 0
        <5>1. PICK full \in BOOLEAN : fate' = Told(m, full)
          BY <2>3, <4>1
        <5>2. \A l \in 1..MaxLines : l # m => Told(m, full)[l] = fate[l]
          BY <2>1, <2>2, <4>1, ToldFate
        <5> QED  BY <2>4, <5>1, <5>2
      <4> QED  BY <2>3, <4>1
    <3> QED  BY <1>2, <1>4, <3>1 DEF Counted
  <2>5. CASE m = n
    <3>1. /\ Counted(n)' = Counted(n) + 1
          /\ fate'[n].astray = (fate[n].astray \/ tail.fd # tail.inode)
      BY <2>1, <2>3, <2>5, ToldFate DEF Counted
    <3>2. Counted(n) \in Nat /\ fate[n].astray \in BOOLEAN
      BY <2>1 DEF Counted, Fate
    <3>3. CASE fate[n].astray \/ tail.fd # tail.inode
      BY <3>1, <3>3
    <3>4. CASE ~(fate[n].astray \/ tail.fd # tail.inode)
      <4>1. ~Place(n)
        <5> SUFFICES ASSUME NEW i \in 1..MaxFiles, NEW k \in 1..Len(content[i]),
                            content[i][k].ends, content[i][k].line = n,
                            Behind(tail, saved, writer, i, k)
                     PROVE  FALSE
          BY DEF Place
        <5>1. i = tail.fd /\ k = NextEnd
          <6>1. /\ NextEnd \in 1..Size(tail.fd) /\ k \in 1..Size(i)
                /\ content[tail.fd][NextEnd].line = n
            BY <2>1, <2>2, <2>5 DEF Size
          <6> QED  BY <2>1, <2>2, <6>1 DEF FileInv, UniqueInv
        <5>2. tail.inode = tail.fd /\ tail.inode # 0
          BY <2>1, <3>4
        <5>3. NextEnd > tail.offset
          BY <2>1, <2>2
        <5> QED  BY <2>1, <5>1, <5>2, <5>3 DEF Behind, Passed
      <4>2. Counted(n) = 0
        BY <1>2, <3>2, <3>4, <4>1
      <4>3. Behind(tail', saved', writer', tail.fd, NextEnd)
        BY <2>1, <3>4 DEF Behind, Passed
      <4>4. Place(n)'
        <5>1. content'[tail.fd][NextEnd].ends /\ content'[tail.fd][NextEnd].line = n
              /\ NextEnd \in 1..Len(content'[tail.fd])
          BY <2>1, <2>2, <2>3, <2>5 DEF Size
        <5> QED  BY <2>1, <4>3, <5>1 DEF Place
      <4> QED  BY <3>1, <4>2, <4>4
    <3> QED  BY <3>3, <3>4
  <2> QED  BY <2>4, <2>5
<1>6. CASE CutLine
  <2> DEFINE m == NextLine
  <2>1. LineEnds # {} /\ tail.fd \in 1..MaxFiles /\ tail \in Reader
        /\ fate \in [1..MaxLines -> Fate]
    BY <1>6, ReadCases DEF TailType
  <2>2. m # 0 => m \in 1..MaxLines
    BY <2>1, NextEndIsFirst
  <2>3. fate' = fate \/ (m # 0 /\ fate' = [fate EXCEPT ![m].cut = TRUE])
    BY <1>6 DEF CutLine
  <2> HIDE DEF m
  <2>4. /\ fate'[n].sent = fate[n].sent /\ fate'[n].dropped = fate[n].dropped
        /\ fate'[n].astray = fate[n].astray
    <3>1. CASE m # 0 /\ fate' = [fate EXCEPT ![m].cut = TRUE]
      <4>1. m \in 1..MaxLines
        BY <2>2, <3>1
      <4>2. CASE m # n
        BY <2>1, <3>1, <4>1, <4>2
      <4>3. CASE m = n
        <5> DEFINE f == fate[n]
        <5>1. f \in Fate /\ fate'[n] = [f EXCEPT !.cut = TRUE]
          BY <2>1, <3>1, <4>3
        <5> HIDE DEF f
        <5>2. fate'[n].sent = f.sent /\ fate'[n].dropped = f.dropped
              /\ fate'[n].astray = f.astray
          BY <5>1 DEF Fate
        <5> QED  BY <5>2 DEF f
      <4> QED  BY <4>2, <4>3
    <3> QED  BY <2>3, <3>1
  <2> QED  BY <1>2, <1>4, <2>4 DEF Counted
<1>7. CASE fate' = fate
  BY <1>2, <1>4, <1>7 DEF Counted
<1>8. TailNext /\ ~ReadLine /\ ~CutLine => fate' = fate
  BY DEF TailNext, AppendLine, Rename, Reopen, Truncate, StartTail, Stat, Poll, EndRead,
         CancelTail, ExitTail, KillTail, TakeEvent
<1> QED  BY <1>5, <1>6, <1>7, <1>8 DEF tailVars

-----------------------------------------------------------------------------
TailInv == FileInv /\ TailType /\ ReaderInv /\ BoundInv /\ SkipInv /\ LookInv /\ OnceInv

LEMMA InitTail == TailInit => TailInv
<1> SUFFICES ASSUME TailInit PROVE TailInv
  OBVIOUS
<1>1. FileInv
  BY InitFiles
<1>2. /\ tail = Stopped /\ saved.inode = 0 /\ saved.offset = 0 /\ writer = 1 /\ ~Up
      /\ saved = [inode |-> 0, offset |-> 0] /\ queue = <<>>
      /\ fate = [n \in 1..MaxLines |-> Untold]
  BY StoppedFacts DEF TailInit, Up
<1>3. TailType
  <2>1. saved \in [inode : 0..MaxFiles, offset : Nat] /\ queue \in Seq(Nat) /\ Untold \in Fate
    BY <1>2, TailAssumption DEF Untold, Fate
  <2> QED  BY <1>2, <2>1, StoppedFacts DEF TailType
<1>4. ReaderInv /\ BoundInv /\ SkipInv /\ LookInv
  BY <1>2, StoppedFacts DEF ReaderInv, BoundInv, SkipInv, LookInv, Within, Valid
<1>5. OnceInv
  <2>1. \A n \in 1..MaxLines : Counted(n) = 0
    BY <1>2 DEF Counted, Untold
  <2> QED  BY <2>1 DEF OnceInv
<1> QED  BY <1>1, <1>3, <1>4, <1>5 DEF TailInv

\* The invariant says what LinesOnce says: of the lines that lie complete behind the tail,
\* each was told of or passed by; what was seen is read; and none was counted twice.
LEMMA TailInvOnce == TailInv => LinesOnce
<1> SUFFICES ASSUME TailInv PROVE LinesOnce
  OBVIOUS
<1>0. /\ TailType /\ content \in [1..MaxFiles -> Seq(Cell)] /\ MaxFiles \in Nat
      /\ tail.fd \in 0..MaxFiles /\ tail.offset \in Nat /\ tail.stat.size \in Nat
  BY TailAssumption DEF TailInv, FileInv, FileType, TailType, Reader
<1>1. NoLineSkipped
  <2> SUFFICES ASSUME "truncated" \notin marks, tail.fd # 0, NEW i \in 1..tail.fd, NEW o \in Nat,
                      \/ i < tail.fd /\ o = Size(i)
                      \/ i = tail.fd /\ i = tail.inode /\ o = tail.offset,
                      NEW n \in LinesOf(i, o)
               PROVE  IsExcused(n)
    <3>1. \A i \in 1..(tail.fd - 1) : i \in 1..tail.fd /\ i < tail.fd /\ Size(i) \in Nat
      BY <1>0 DEF Size
    <3>2. tail.fd # 0 => tail.fd \in 1..tail.fd
      BY <1>0
    <3> QED  BY <1>0, <3>1, <3>2 DEF NoLineSkipped
  <2>1. PICK k \in 2..o : content[i][k].ends /\ n = content[i][k].line
    BY DEF LinesOf
  <2>2. i \in 1..MaxFiles /\ k \in 1..Len(content[i])
    <3>1. i = tail.fd => Aligned(content, passedBy, tail.fd, tail.offset)
      BY DEF TailInv, SkipInv
    <3> QED  BY <1>0, <3>1 DEF Aligned, Size
  <2>3. \/ Covered(content, fate, passedBy, tail.fd, 0) /\ Passed(tail.fd, 0, i, k)
        \/ Covered(content, fate, passedBy, i, o) /\ Passed(i, o, i, k)
    <3>1. i < tail.fd => Covered(content, fate, passedBy, tail.fd, 0) /\ Passed(tail.fd, 0, i, k)
      BY DEF TailInv, SkipInv, Passed
    <3>2. i = tail.fd => Covered(content, fate, passedBy, i, o) /\ Passed(i, o, i, k)
      BY <2>2 DEF TailInv, SkipInv, Passed
    <3> QED  BY <1>0, <3>1, <3>2
  <2>4. ToldIn(fate, n) \/ n \in passedBy
    BY <2>1, <2>2, <2>3 DEF Covered
  <2> QED  BY <2>4 DEF ToldIn, IsTold, IsExcused
<1>3. LooksAreRead
  <2> SUFFICES ASSUME "truncated" \notin marks, tail.step = "idle", ~tail.cancelled,
                      tail.fd # 0, tail.fd = tail.stat.inode,
                      NEW n \in LinesOf(tail.fd, tail.stat.size)
               PROVE  n \in LinesOf(tail.fd, tail.offset)
    BY DEF LooksAreRead
  <2>1. PICK k \in 2..tail.stat.size :
               /\ content[tail.fd][k].ends /\ n = content[tail.fd][k].line
               /\ content[tail.fd][k - 1].line = content[tail.fd][k].line
    BY DEF LinesOf
  <2>2. k \in 1..tail.stat.size
    BY <1>0
  <2>3. k <= tail.offset
    BY <2>1, <2>2 DEF TailInv, LookInv
  <2>4. k \in 2..tail.offset
    BY <1>0, <2>3
  <2> QED  BY <2>1, <2>4 DEF LinesOf
<1>2. ToldOnce
  BY DEF TailInv, OnceInv, Counted, ToldOnce
<1> QED  BY <1>1, <1>2, <1>3 DEF LinesOnce

\* Whatever the server writes, renames, reopens and truncates, and however the tail is
\* polled, cancelled, killed and started: unless the log was truncated in place, a line
\* behind the tail was sent, counted, cut or passed by as it opened another file; what
\* a look found in the open file is read; and no line is counted twice outside the cases
\* that LinesOnce names (pollOnce, openAndReadLocked, readNewLocked, saveStateLocked).
THEOREM TailTellsOnce == TailSpec => []LinesOnce
<1>1. TailInit => TailInv
  BY InitTail
<1>2. TailInv /\ [TailNext]_tailVars => TailInv'
  BY FileStep, TypeStep, ReaderStep, BoundStep, SkipStep, LookStep, OnceStep DEF TailInv
<1>3. TailInv => LinesOnce
  BY TailInvOnce
<1> QED  BY <1>1, <1>2, <1>3, PTL DEF TailSpec
=============================================================================
