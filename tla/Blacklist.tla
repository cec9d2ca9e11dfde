----------------------------- MODULE Blacklist -----------------------------
(***************************************************************************)
(* What the blacklist manager promises its callers: one set of addresses   *)
(* that each call reads or changes in a single moment between the request  *)
(* and the answer, that nothing else changes, and that outlives the        *)
(* process.  Nothing is promised of the addresses in unsure: those that    *)
(* two calls are about at once, those of a subnet, and those for which a   *)
(* command to delete or a change from the cloud failed.                    *)
(***************************************************************************)
CONSTANTS
    Address,
    Caller,
    MayFail,       \* may a command fail?
    WhiteConfigs,  \* the addresses that a start may whitelist
    BlackConfigs   \* the addresses that a start may block

VARIABLES
    listed,        \* the addresses that are blocked
    unsure,        \* the addresses of which nothing is promised
    asked,         \* what each caller asked for, and was answered
    serving        \* the configuration is loaded

bvars == <<listed, unsure, asked, serving>>

NoRequest == [op |-> "none", of |-> {}, subnets |-> {}, add |-> {}, del |-> {},
              answer |-> "none"]

\* A request is about some addresses, part of them as those of subnets; some it wants
\* listed and some not.  A block of a whitelisted address, and a change that is empty,
\* is answered at once.
BlockRequest(of, subnets, answer) ==
    [op |-> "block", of |-> of, subnets |-> subnets, add |-> of, del |-> {}, answer |-> answer]

UnblockRequest(of, subnets) ==
    [op |-> "unblock", of |-> of, subnets |-> subnets, add |-> {}, del |-> of,
     answer |-> "none"]

CloudRequest(of, subnets, add, del, answer) ==
    [op |-> "cloud", of |-> of, subnets |-> subnets, add |-> add, del |-> del,
     answer |-> answer]

BInit ==
    /\ listed = {} /\ unsure = {}
    /\ asked = [g \in Caller |-> NoRequest]
    /\ ~serving

\* The set that is left when nothing is promised any more of the addresses in lost.
Lose(lost) == unsure' = unsure \cup lost /\ listed' = listed \ lost

Ask(g, r) ==
    /\ serving /\ asked[g] = NoRequest
    /\ asked' = [asked EXCEPT ![g] = r]
    /\ Lose(r.subnets \cup {ip \in r.of : \E h \in Caller \ {g} : ip \in asked[h].of})
    /\ UNCHANGED serving

AskSomething(g) ==
    /\ asked[g] = NoRequest
    /\ \E of \in SUBSET Address : \E subnets \in SUBSET of :
          \/ \E answer \in {"none", "whitelisted"} : Ask(g, BlockRequest(of, subnets, answer))
          \/ Ask(g, UnblockRequest(of, subnets))
          \/ \E add \in SUBSET of, del \in SUBSET of :
                Ask(g, CloudRequest(of, subnets, add, del, "none"))
          \/ of = {} /\ Ask(g, CloudRequest({}, {}, {}, {}, "accepted"))

Open(g, op) == asked[g].op = op /\ asked[g].answer = "none"

Answer(g, answer) == asked' = [asked EXCEPT ![g].answer = answer] /\ UNCHANGED serving

\* The moment of a block.  It is accepted only if the address was not listed before, so
\* that of several blocks the first is accepted and the others find it done.
BlockOnce(g) ==
    /\ Open(g, "block")
    /\ \/ /\ asked[g].add \cap listed = {}
          /\ listed' = listed \cup (asked[g].add \ unsure)
          /\ Answer(g, "accepted")
       \/ /\ asked[g].add \subseteq listed \cup unsure
          /\ Answer(g, "already") /\ UNCHANGED listed
       \/ /\ asked[g].add \subseteq unsure
          /\ Answer(g, "exists") /\ UNCHANGED listed
       \/ /\ MayFail
          /\ Answer(g, "error") /\ UNCHANGED listed
    /\ UNCHANGED unsure

\* The moment of an unblock.
UnblockOnce(g) ==
    /\ Open(g, "unblock")
    /\ \/ /\ asked[g].del \subseteq listed \cup unsure
          /\ Answer(g, "removed") /\ listed' = listed \ asked[g].del /\ UNCHANGED unsure
       \/ /\ asked[g].del \cap listed = {}
          /\ Answer(g, "notBlocked") /\ UNCHANGED <<listed, unsure>>
       \/ /\ MayFail
          /\ Answer(g, "error") /\ Lose(asked[g].del)

\* A change from the cloud is made part by part, ...
ChangePart(g) ==
    /\ Open(g, "cloud")
    /\ \/ /\ \E part \in SUBSET asked[g].add : listed' = listed \cup (part \ unsure)
          /\ UNCHANGED unsure
       \/ /\ \E part \in SUBSET asked[g].del : listed' = listed \ part
          /\ UNCHANGED unsure
       \/ MayFail /\ \E part \in SUBSET asked[g].of : Lose(part)
    /\ UNCHANGED <<asked, serving>>

\* ... and answered when all of it was made, but for what was lost.
ChangeMade(g) ==
    /\ Open(g, "cloud")
    /\ asked[g].add \subseteq listed \cup unsure
    /\ asked[g].del \cap listed = {}
    /\ Answer(g, "accepted") \/ (MayFail /\ Answer(g, "error"))
    /\ UNCHANGED <<listed, unsure>>

TakeAnswer(g) ==
    /\ asked[g].answer # "none"
    /\ asked' = [asked EXCEPT ![g] = NoRequest]
    /\ UNCHANGED <<listed, unsure, serving>>

\* The configuration takes from the set what it whitelists, and adds what it blocks.
Configure ==
    /\ ~serving
    /\ \E white \in WhiteConfigs, black \in BlackConfigs :
          /\ listed \ white \subseteq listed' \cup unsure'
          /\ listed' \subseteq (listed \cup black) \ unsure'
          /\ MayFail \/ unsure' \subseteq unsure \cup black
    /\ serving' \in BOOLEAN
    /\ UNCHANGED asked

\* The process ends; what was listed still is, and what was unsure is what it is.
ProcessEnds ==
    /\ serving' = FALSE
    /\ asked' = [g \in Caller |-> NoRequest]
    /\ unsure' = {}
    /\ listed \subseteq listed' /\ listed' \subseteq listed \cup unsure

BNext ==
    \/ \E g \in Caller :
          \/ AskSomething(g) \/ BlockOnce(g) \/ UnblockOnce(g) \/ ChangePart(g)
          \/ ChangeMade(g) \/ TakeAnswer(g)
    \/ Configure
    \/ ProcessEnds

BSpec == BInit /\ [][BNext]_bvars
=============================================================================
