----------------------------- MODULE AgentMain -----------------------------
(***************************************************************************)
(* The life of the process: main of cmd/wardennet starts its components in *)
(* a fixed order and defers their ends, so that they end in the reverse    *)
(* order.  The start waits for the cloud (authenticate of cloudsync), with *)
(* a growing pause between attempts, before any log is read.               *)
(***************************************************************************)
EXTENDS Integers, Sequences

CONSTANTS AuthDeadline,    \* seconds after which no new attempt is made
          FirstBackoff, MaxBackoff,
          CallTimes,       \* the seconds that an attempt may take
          LongestCall

ASSUME AgentAssumption ==
    /\ AuthDeadline \in Nat /\ FirstBackoff \in Nat \ {0} /\ MaxBackoff \in Nat
    /\ FirstBackoff <= MaxBackoff
    /\ LongestCall \in Nat /\ CallTimes \subseteq 0 .. LongestCall

VARIABLES life,            \* "starting", "serving", "ending" or "gone"
          at,              \* the position of main in Order
          open,            \* what was started and has not ended
          deferred,        \* the deferred ends, the next one first
          auth,            \* seconds spent in authenticate, and the next pause
          rules            \* are the firewall rules in place?

agentVars == <<life, at, open, deferred, auth, rules>>

\* What main starts, in order.  "tails" are the log tails, "loop" the loop that
\* consumes their events, "signals" the call of signal.Notify.
Order == <<"config", "logger", "lock", "manager", "rules", "timers", "detector", "ports",
           "preload", "socket", "restore", "plugin", "cloud", "reporter", "watch", "tails",
           "loop", "signals">>

\* A failure of these ends the process at once, by os.Exit: nothing deferred runs.
Fatal == {"config", "logger", "lock", "preload"}

\* Mutant: reporter.Stop is deferred before syncEngine.Stop.
DeferredLate(c) ==
    IF c = "cloud" THEN <<>> ELSE IF c = "reporter" THEN <<"cloud", "reporter">> ELSE <<c>>

\* The end that main defers when it has started c; cancel ends the tails.
Deferred(c) ==
    IF c \in {"logger", "lock", "manager", "timers", "detector", "ports", "socket", "cloud",
              "reporter", "watch", "tails"}
    THEN <<c>> ELSE <<>>

NoAttempt == [elapsed |-> 0, backoff |-> FirstBackoff]

AgentInit ==
    /\ life = "starting" /\ at = 1
    /\ open = {} /\ deferred = <<>>
    /\ auth = NoAttempt
    /\ rules \in BOOLEAN

-----------------------------------------------------------------------------
Starting(c) == life = "starting" /\ at <= Len(Order) /\ Order[at] = c

\* c runs from now on if it is among running.
Started(c, running) ==
    /\ at' = at + 1
    /\ open' = open \cup ({c} \cap running)
    /\ deferred' = Deferred(c) \o deferred
    /\ life' = IF c = "signals" THEN "serving" ELSE life

StartOne(c) ==
    /\ Starting(c) /\ c # "cloud"
    /\ Started(c, {c})
    /\ rules' = (rules \/ c = "rules")
    /\ UNCHANGED auth

\* A socket that does not open, a snapshot that is not read and rules that cannot be
\* made are logged; the stop of a socket that did not open is not deferred.
StartFails(c) ==
    /\ Starting(c)
    /\ \/ /\ c \in Fatal
          /\ life' = "gone" /\ open' = {} /\ deferred' = <<>>
          /\ UNCHANGED at
       \/ /\ c \in {"socket", "restore", "rules"}
          /\ at' = at + 1
          /\ UNCHANGED <<life, open, deferred>>
    /\ UNCHANGED <<auth, rules>>

\* Only asked before an attempt.
GivesUp == auth.elapsed > AuthDeadline

\* Start returns without loops when there is no plugin, the cloud is off, Init fails
\* or the attempts end; Stop is deferred all the same.
CloudSkipped ==
    /\ Starting("cloud")
    /\ auth.elapsed = 0 \/ GivesUp
    /\ Started("cloud", {})
    /\ auth' = NoAttempt
    /\ UNCHANGED rules

AuthSucceeds ==
    /\ Starting("cloud") /\ ~GivesUp
    /\ Started("cloud", {"cloud"})
    /\ auth' = NoAttempt
    /\ UNCHANGED rules

\* Mutant: the pause is not limited.
NextBackoffUnlimited(b) == b * 2

NextBackoff(b) == IF b * 2 > MaxBackoff THEN MaxBackoff ELSE b * 2

\* What authenticate may take: the deadline is passed in the pause after an attempt.
AuthLimit == AuthDeadline + LongestCall + MaxBackoff

\* An attempt fails and the pause passes.  The clock stops above the limit.
AuthFails(d) ==
    /\ Starting("cloud") /\ ~GivesUp
    /\ LET spent == auth.elapsed + d + auth.backoff
       IN  auth' = [elapsed |-> IF spent > AuthLimit THEN AuthLimit + 1 ELSE spent,
                    backoff |-> NextBackoff(auth.backoff)]
    /\ UNCHANGED <<life, at, open, deferred, rules>>

-----------------------------------------------------------------------------
\* A signal before Notify kills the process; afterwards main saves the snapshot and
\* removes the rules, which may fail, and returns.
Signal ==
    /\ life \in {"starting", "serving"}
    /\ IF life = "starting"
       THEN life' = "gone" /\ open' = {} /\ deferred' = <<>> /\ UNCHANGED rules
       ELSE life' = "ending" /\ rules' \in {rules, FALSE} /\ UNCHANGED <<open, deferred>>
    /\ UNCHANGED <<at, auth>>

\* The end of the cloud loops shuts the plugin down.  The end of the tails only tells
\* them to end.
RunDeferred ==
    /\ life = "ending" /\ deferred # <<>>
    /\ deferred' = Tail(deferred)
    /\ open' = CASE Head(deferred) = "cloud" -> open \ {"cloud", "plugin"}
                 [] Head(deferred) = "tails" -> open
                 [] OTHER -> open \ {Head(deferred)}
    /\ UNCHANGED <<life, at, auth, rules>>

\* cancel has run.
TailEnds ==
    /\ life = "ending" /\ "tails" \in open
    /\ \A i \in DOMAIN deferred : deferred[i] # "tails"
    /\ open' = open \ {"tails"}
    /\ UNCHANGED <<life, at, deferred, auth, rules>>

\* main returns; or an event meets the closed detector and the process panics.
Gone ==
    /\ life = "ending"
    /\ deferred = <<>> \/ "detector" \notin open
    /\ life' = "gone" /\ open' = {} /\ deferred' = <<>>
    /\ UNCHANGED <<at, auth, rules>>

AgentNext ==
    \/ \E i \in DOMAIN Order : StartOne(Order[i]) \/ StartFails(Order[i])
    \/ CloudSkipped \/ AuthSucceeds \/ \E d \in CallTimes : AuthFails(d)
    \/ Signal \/ RunDeferred \/ TailEnds \/ Gone

AgentSpec == AgentInit /\ [][AgentNext]_agentVars
-----------------------------------------------------------------------------
\* What a component calls.
Uses ==
    [c \in {"manager", "timers", "detector", "ports", "socket", "cloud", "reporter", "watch"}
        |-> CASE c = "manager" -> {"lock", "logger"}
              [] c \in {"timers", "detector"} -> {"manager", "lock", "logger"}
              [] c \in {"ports", "socket"} -> {"manager", "timers", "lock", "logger"}
              [] c = "cloud" -> {"manager", "timers", "detector", "plugin", "lock", "logger"}
              [] c = "reporter" -> {"plugin", "lock"}
              [] OTHER -> {"logger"}]

\* Whatever fails in the start and whenever the process is told to end, what runs finds
\* open what it calls: the last flush of the reporter still has the plugin, commands and
\* the cloud loops have the manager and the timers, and all of them hold the lock.  Only
\* the tails and the loop of events, which main does not wait for, are left out.
UsersBeforeUsed ==
    \A c \in open \cap DOMAIN Uses : Uses[c] \subseteq open

\* Authentication against a cloud that fails takes the deadline, one attempt and one
\* pause at most ("at most 10 minutes" in the comment of Start).
AuthEndsInTime == auth.elapsed <= AuthLimit
=============================================================================
