--------------------------- MODULE ControlSocket ---------------------------
(***************************************************************************)
(* The control socket (unixsocket/server.go and client.go): the accept     *)
(* loop, one goroutine for each connection, clients that send a request,   *)
(* wait for five seconds and leave, or connect and stay silent, or do not  *)
(* read what they are answered, and Stop, which closes the listener and    *)
(* waits for all of them.  Reads have a deadline, writes have none.        *)
(***************************************************************************)
EXTENDS Integers

CONSTANTS Clients,         \* the connections
          MaxRequests,     \* bound on the requests of one connection
          HeldAnswers      \* the answers that the kernel holds for a client to read

ASSUME SocketAssumption == MaxRequests \in Nat /\ HeldAnswers \in Nat

VARIABLES server,          \* its step, whether the listener accepts, the accept loop
          socketFile,      \* the file at the path: "none", "stale" or "ours"
          conn             \* connection -> both of its ends

socketVars == <<server, socketFile, conn>>

\* client: "new", "open", "left"; handler: "none", "loop" (before it looks at stop),
\* "decode", "dispatch", "ended"; sent and read count requests, unread the answers the
\* client has not read; expired: the deadline of the handler's reads has passed.
Unconnected == [client |-> "new", handler |-> "none", sent |-> 0, read |-> 0,
                unread |-> 0, expired |-> FALSE]

SocketInit ==
    /\ server = [step |-> "off", listening |-> FALSE, accept |-> "none"]
    /\ socketFile \in {"none", "stale"}
    /\ conn = [c \in Clients |-> Unconnected]

\* Start removes what an earlier process left, listens and starts the accept loop.
StartServer ==
    /\ server.step = "off"
    /\ server' = [step |-> "up", listening |-> TRUE, accept |-> "loop"]
    /\ socketFile' = "ours"
    /\ UNCHANGED conn

Connect(c) ==
    /\ conn[c].client = "new" /\ socketFile = "ours" /\ server.listening
    /\ conn' = [conn EXCEPT ![c].client = "open"]
    /\ UNCHANGED <<server, socketFile>>

SendRequest(c) ==
    /\ conn[c].client = "open" /\ conn[c].sent < MaxRequests
    /\ conn' = [conn EXCEPT ![c].sent = @ + 1]
    /\ UNCHANGED <<server, socketFile>>

ReadAnswer(c) ==
    /\ conn[c].client = "open" /\ conn[c].unread > 0
    /\ conn' = [conn EXCEPT ![c].unread = @ - 1]
    /\ UNCHANGED <<server, socketFile>>

\* The client has its answer, or its five seconds are over.
Leave(c) ==
    /\ conn[c].client = "open"
    /\ conn' = [conn EXCEPT ![c].client = "left"]
    /\ UNCHANGED <<server, socketFile>>

\* A connection waits to be accepted; closing the listener drops it.
Accept(c) ==
    /\ server.accept = "loop" /\ server.listening
    /\ conn[c].client # "new" /\ conn[c].handler = "none"
    /\ conn' = [conn EXCEPT ![c].handler = "loop"]
    /\ UNCHANGED <<server, socketFile>>

\* Accept fails on the closed listener, and the channel says that the loop is to stop.
AcceptFails ==
    /\ server.accept = "loop" /\ server.step = "stopping" /\ ~server.listening
    /\ server' = [server EXCEPT !.accept = "ended"]
    /\ UNCHANGED <<socketFile, conn>>

LookAtStop(c) ==
    /\ conn[c].handler = "loop"
    /\ conn' = [conn EXCEPT ![c].handler = IF server.step = "up" THEN "decode" ELSE "ended"]
    /\ UNCHANGED <<server, socketFile>>

DecodeRequest(c) ==
    /\ conn[c].handler = "decode" /\ conn[c].read < conn[c].sent
    /\ conn' = [conn EXCEPT ![c].handler = "dispatch", ![c].read = @ + 1]
    /\ UNCHANGED <<server, socketFile>>

\* Mutant: the connection has no deadline.
MayExpireNever(c) == conn[c].expired

\* Thirty seconds after the connection was accepted.
MayExpire(c) == conn[c].handler # "none"

Expire(c) ==
    /\ MayExpire(c) /\ ~conn[c].expired
    /\ conn' = [conn EXCEPT ![c].expired = TRUE]
    /\ UNCHANGED <<server, socketFile>>

\* What comes next is no request, or the connection has ended, or the deadline passed.
DecodeFails(c) ==
    /\ conn[c].handler = "decode"
    /\ conn[c].read < conn[c].sent \/ conn[c].client = "left" \/ conn[c].expired
    /\ conn' = [conn EXCEPT ![c].handler = "ended"]
    /\ UNCHANGED <<server, socketFile>>

\* Nobody reads the answers, and the kernel holds no more of them.
Blocked(c) == conn[c].client = "open" /\ conn[c].unread >= HeldAnswers

\* Dispatch has run the command; its answer is written, or lost if the client has left.
Answer(c) ==
    /\ conn[c].handler = "dispatch" /\ ~Blocked(c)
    /\ conn' = [conn EXCEPT ![c].handler = "loop",
                            ![c].unread = IF conn[c].client = "open" THEN @ + 1 ELSE @]
    /\ UNCHANGED <<server, socketFile>>

\* Stop closes the channel and the listener, and waits.
CallStopServer ==
    /\ server.step = "up"
    /\ server' = [server EXCEPT !.step = "stopping"]
    /\ UNCHANGED <<socketFile, conn>>

CloseListener ==
    /\ server.step = "stopping" /\ server.listening
    /\ server' = [server EXCEPT !.listening = FALSE]
    /\ UNCHANGED <<socketFile, conn>>

\* Mutant: the accept loop is not counted.
AllDoneButAccept == \A c \in Clients : conn[c].handler \in {"none", "ended"}

\* The count of the WaitGroup is zero.
AllDone ==
    /\ server.accept = "ended"
    /\ \A c \in Clients : conn[c].handler \in {"none", "ended"}

StopReturns ==
    /\ server.step = "stopping" /\ AllDone
    /\ server' = [server EXCEPT !.step = "stopped"]
    /\ socketFile' = "none"
    /\ UNCHANGED conn

SocketNext ==
    \/ StartServer \/ AcceptFails \/ CallStopServer \/ CloseListener \/ StopReturns
    \/ \E c \in Clients :
          \/ Connect(c) \/ SendRequest(c) \/ ReadAnswer(c) \/ Leave(c)
          \/ Accept(c) \/ LookAtStop(c) \/ DecodeRequest(c) \/ Expire(c) \/ DecodeFails(c)
          \/ Answer(c)

\* The goroutines of the server run, deadlines pass; clients need not do anything.
ServerStep(c) == LookAtStop(c) \/ DecodeRequest(c) \/ Expire(c) \/ DecodeFails(c) \/ Answer(c)

SocketSpec ==
    /\ SocketInit /\ [][SocketNext]_socketVars
    /\ WF_socketVars(CloseListener) /\ WF_socketVars(AcceptFails) /\ WF_socketVars(StopReturns)
    /\ \A c \in Clients : WF_socketVars(ServerStep(c))
-----------------------------------------------------------------------------
\* When Stop has returned no command runs and none will: main.go may take apart what
\* the commands use.
NoHandlerAfterStop ==
    server.step = "stopped" => \A c \in Clients : conn[c].handler \in {"none", "ended"}

\* A handler waits for ever to write: its client stays and does not read.
NeverRead(c) == <>[](conn[c].handler = "dispatch" /\ Blocked(c))

\* Stop returns whatever the clients do, also those that connect and stay silent, or send
\* what is no request, but for a client that stays, asks for more than the kernel holds
\* answers for, and never reads them.
StopEnds ==
    (\A c \in Clients : ~NeverRead(c))
        => (server.step = "stopping" ~> server.step = "stopped")
=============================================================================
