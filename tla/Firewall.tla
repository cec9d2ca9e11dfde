------------------------------ MODULE Firewall ------------------------------
(***************************************************************************)
(* The rules of the agent in the INPUT chain (ipsetutil/iptables.go,       *)
(* cmd/wardennet/platform_linux.go): one accepts what the whitelist set    *)
(* matches, the other drops what the blacklist set matches, and the first  *)
(* that matches decides.  platformInit lists the chain before each change; *)
(* listings and commands fail, other programs change the chain meanwhile,  *)
(* and the agent is killed and started again.                              *)
(***************************************************************************)
EXTENDS Integers, Sequences, FiniteSets

CONSTANTS MaxRules,        \* bound on the length of the chain
          MaxInits         \* bound on the starts of the agent

ASSUME FirewallAssumption == MaxRules \in Nat /\ MaxInits \in Nat

VARIABLES chain,           \* the rules: "accept", "drop", and "other" of other programs
          setup,           \* platformInit and platformShutdown: step and number found
          inits,
          calm,            \* since the start nothing failed and no other program came
          repeated         \* a failure may have left a rule twice

firewallVars == <<chain, setup, inits, calm, repeated>>

Places(rule) == {i \in 1..Len(chain) : chain[i] = rule}

RuleExists(rule) == Places(rule) # {}

\* The first of them, or 0.
RuleNumber(rule) ==
    IF RuleExists(rule) THEN CHOOSE i \in Places(rule) : \A j \in Places(rule) : i <= j ELSE 0

FirewallInit ==
    /\ chain = <<"other">>
    /\ setup = [step |-> "off", number |-> 0]
    /\ inits = 0 /\ calm = TRUE /\ repeated = FALSE

Goes(from, to) == setup.step = from /\ setup' = [setup EXCEPT !.step = to]

InsertOnTop(rule, ok) ==
    /\ Len(chain) < MaxRules
    /\ chain' = IF ok THEN <<rule>> \o chain ELSE chain
    /\ calm' = (calm /\ ok)

Deleted(rules, n) == SubSeq(rules, 1, n - 1) \o SubSeq(rules, n + 1, Len(rules))

\* -D deletes the first such rule, and fails if there is none.
DeleteRule(rule, ok) ==
    chain' = IF ok /\ RuleExists(rule) THEN Deleted(chain, RuleNumber(rule)) ELSE chain

StartInit ==
    /\ inits < MaxInits
    /\ Goes("off", "ban")
    /\ inits' = inits + 1 /\ calm' = TRUE
    /\ UNCHANGED <<chain, repeated>>

\* EnsureBanRule and EnsureWhitelistAcceptRule look for their rule; a listing that
\* fails is taken for a missing rule.
List(rule, from, found, missing, ok) ==
    /\ Goes(from, IF ok /\ RuleExists(rule) THEN found ELSE missing)
    /\ calm' = (calm /\ ok)
    /\ repeated' = (repeated \/ ~ok)
    /\ UNCHANGED <<chain, inits>>

ListForBan(ok) == List("drop", "ban", "accept", "insert ban", ok)

InsertBan(ok) ==
    Goes("insert ban", "accept") /\ InsertOnTop("drop", ok) /\ UNCHANGED <<inits, repeated>>

ListForAccept(ok) == List("accept", "accept", "number accept", "insert accept", ok)

NumberAccept(ok) ==
    /\ setup.step = "number accept"
    /\ setup' = [step |-> "number drop", number |-> IF ok THEN RuleNumber("accept") ELSE 0]
    /\ calm' = (calm /\ ok)
    /\ UNCHANGED <<chain, inits, repeated>>

\* Mutant: the order is never repaired.
IsBehindNever(number, drop) == FALSE

IsBehind(number, drop) == number > 0 /\ drop > 0 /\ number >= drop

NumberDrop(ok) ==
    /\ Goes("number drop",
            IF IsBehind(setup.number, IF ok THEN RuleNumber("drop") ELSE 0)
            THEN "delete accept" ELSE "up")
    /\ calm' = (calm /\ ok)
    /\ UNCHANGED <<chain, inits, repeated>>

\* The rule is deleted and put on top; the result of the deletion is ignored.
DeleteAccept(ok) ==
    /\ Goes("delete accept", "insert accept")
    /\ DeleteRule("accept", ok)
    /\ calm' = (calm /\ ok)
    /\ repeated' = (repeated \/ ~ok)
    /\ UNCHANGED inits

InsertAccept(ok) ==
    Goes("insert accept", "up") /\ InsertOnTop("accept", ok) /\ UNCHANGED <<inits, repeated>>

\* platformShutdown: RemoveBanRule deletes one rule of each kind.
RemoveBan(ok) ==
    /\ Goes("up", "remove accept")
    /\ DeleteRule("drop", ok)
    /\ calm' = ok
    /\ UNCHANGED <<inits, repeated>>

RemoveAccept(ok) ==
    /\ Goes("remove accept", "removed")
    /\ DeleteRule("accept", ok)
    /\ calm' = (calm /\ ok)
    /\ UNCHANGED <<inits, repeated>>

\* The process ends, after a shutdown or killed.
EndAgent ==
    /\ setup.step # "off"
    /\ setup' = [step |-> "off", number |-> 0]
    /\ UNCHANGED <<chain, inits, calm, repeated>>

\* A reload of the firewall leaves the rules of others; an administrator moves a rule.
ReloadFirewall ==
    /\ chain' = [i \in 1..Cardinality(Places("other")) |-> "other"]
    /\ calm' = FALSE /\ repeated' = FALSE
    /\ UNCHANGED <<setup, inits>>

MoveRule(i) ==
    /\ i + 1 <= Len(chain)
    /\ chain' = [chain EXCEPT ![i] = chain[i + 1], ![i + 1] = chain[i]]
    /\ calm' = FALSE
    /\ UNCHANGED <<setup, inits, repeated>>

FirewallNext ==
    \/ StartInit
    \/ \E ok \in BOOLEAN :
          \/ ListForBan(ok) \/ InsertBan(ok)
          \/ ListForAccept(ok) \/ NumberAccept(ok) \/ NumberDrop(ok)
          \/ DeleteAccept(ok) \/ InsertAccept(ok)
          \/ RemoveBan(ok) \/ RemoveAccept(ok)
    \/ EndAgent \/ ReloadFirewall \/ (\E i \in 1..MaxRules : MoveRule(i))

FirewallSpec == FirewallInit /\ [][FirewallNext]_firewallVars
-----------------------------------------------------------------------------
\* When platformInit has run without a failure and without other programs, the
\* whitelist is matched before the blacklist, whatever it found in the chain.
WhitelistMatchesFirst ==
    setup.step = "up" /\ calm =>
        /\ RuleExists("accept") /\ RuleExists("drop")
        /\ RuleNumber("accept") < RuleNumber("drop")

\* After a shutdown without failures no rule of the agent is left, through restarts,
\* kills and repairs, unless a failed listing or deletion has put one there twice.
RulesGo ==
    setup.step = "removed" /\ calm /\ ~repeated => ~RuleExists("accept") /\ ~RuleExists("drop")

\* The rules stand in their order while the agent runs, and none is left behind.
RulesInOrder == WhitelistMatchesFirst /\ RulesGo

=============================================================================
