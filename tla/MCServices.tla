----------------------------- MODULE MCServices -----------------------------
(***************************************************************************)
(* What runs beside the detector, for TLC: the tail of a log, the port     *)
(* scan detector, the reporter, the watcher of the configuration, the      *)
(* control socket, the firewall rules, and main, which starts and ends     *)
(* them.  The parts share no state here: each behaviour is one of them.    *)
(***************************************************************************)
EXTENDS LogTail, PortScan, Reporter, ConfigWatch, ControlSocket, Firewall, AgentMain

CONSTANT Parts     \* the parts that the run checks

VARIABLE part      \* the one this behaviour is of

vars == <<part, tailVars, portVars, reporterVars, configVars, socketVars, firewallVars,
          agentVars>>

-----------------------------------------------------------------------------
MCPortSizes == <<1, 2, 2>>

MCMaxPorts == <<1, 1, 1>>

\* Configurations: nothing set, two options set, a mode that is none, and no YAML.
MCConfigs ==
    {Blank, [Blank EXCEPT !["log.level"] = 2, !["detector.enabled"] = 1],
     [Blank EXCEPT !["detector.mode"] = Odd, !["detector.enabled"] = 1], Unparsable}

-----------------------------------------------------------------------------
Init ==
    /\ part \in Parts
    /\ TailInit /\ PortInit /\ ReporterInit /\ SocketInit /\ FirewallInit
    /\ ConfigInit /\ AgentInit
    /\ part # "config" => ~configFile.exists
    /\ part # "socket" => socketFile = "none"
    /\ part # "agent" => ~rules

Next ==
    /\ UNCHANGED part
    /\ \/ /\ part = "tail" /\ TailNext
          /\ UNCHANGED <<portVars, reporterVars, configVars, socketVars, firewallVars,
                         agentVars>>
       \/ /\ part = "ports" /\ PortNext
          /\ UNCHANGED <<tailVars, reporterVars, configVars, socketVars, firewallVars,
                         agentVars>>
       \/ /\ part = "reporter" /\ ReporterNext
          /\ UNCHANGED <<tailVars, portVars, configVars, socketVars, firewallVars,
                         agentVars>>
       \/ /\ part = "config" /\ ConfigNext
          /\ UNCHANGED <<tailVars, portVars, reporterVars, socketVars, firewallVars,
                         agentVars>>
       \/ /\ part = "socket" /\ SocketNext
          /\ UNCHANGED <<tailVars, portVars, reporterVars, configVars, firewallVars,
                         agentVars>>
       \/ /\ part = "firewall" /\ FirewallNext
          /\ UNCHANGED <<tailVars, portVars, reporterVars, configVars, socketVars,
                         agentVars>>
       \/ /\ part = "agent" /\ AgentNext
          /\ UNCHANGED <<tailVars, portVars, reporterVars, configVars, socketVars, firewallVars>>

Spec == Init /\ [][Next]_vars

-----------------------------------------------------------------------------
\* The fairness that each module states, for the part that runs.
Fairness ==
    /\ WF_tailVars(part = "tail" /\ Stat) /\ WF_tailVars(part = "tail" /\ Poll)
    /\ WF_tailVars(part = "tail" /\ ReadLine)
    /\ WF_tailVars(part = "tail" /\ \E persist \in BOOLEAN : EndRead(persist))
    /\ WF_tailVars(part = "tail" /\ ExitTail)
    /\ WF_portVars(part = "ports" /\ SourceStep) /\ WF_portVars(part = "ports" /\ ConsumerStep)
    /\ WF_portVars(part = "ports" /\ ConsumerEnds)
    /\ WF_portVars(part = "ports" /\ closing # "no" /\ ClosePorts)
    /\ \A g \in Flushers : WF_reporterVars(part = "reporter" /\ FlushStep(g))
    /\ \A g \in Loops : WF_reporterVars(part = "reporter" /\ TickOfLoop(g))
    /\ WF_configVars(part = "config" /\ WatchTick) /\ WF_configVars(part = "config" /\ Reload)
    /\ WF_socketVars(part = "socket" /\ CloseListener)
    /\ WF_socketVars(part = "socket" /\ AcceptFails)
    /\ WF_socketVars(part = "socket" /\ StopReturns)
    /\ \A c \in Clients : WF_socketVars(part = "socket" /\ ServerStep(c))

FairSpec == Spec /\ Fairness
=============================================================================
