------------------------------ MODULE CloudSync -----------------------------
(***************************************************************************)
(* The synchronisation with the cloud (agent/internal/cloudsync/sync.go):  *)
(* doDiff, which heartbeatLoop and diffLoop both run.  It reads the        *)
(* versions the agent has, asks the cloud for what is newer, applies the   *)
(* global layer (threat scores) and the tenant layer (whitelist), and then *)
(* writes the new versions.  Only the first and the last step hold         *)
(* SyncEngine.mu.                                                          *)
(*                                                                         *)
(* The cloud is external: it publishes threat increments, folds them into  *)
(* a new base from time to time, and lets the tenant edit the whitelist.   *)
(***************************************************************************)
EXTENDS Integers, FiniteSets, Sequences

CONSTANTS
    IP,            \* addresses the tenant may put on the whitelist
    Loop,          \* the loops that run doDiff
    MaxChange,     \* bound: increments of the cloud
    MaxBase,       \* bound: bases of the cloud
    MaxEdits,      \* bound: edits of the whitelist
    MayFullSync,   \* may the cloud answer tenant.full_sync?
    DiffFails,     \* may Plugin.Diff fail?
    SnapshotFails, \* may the fetch of a snapshot fail?
    ApplyFails     \* may ApplyCloud fail for an address?

ASSUME SyncAssumption ==
    /\ {MaxChange, MaxBase} \subseteq Nat /\ MaxEdits \in Nat
    /\ {MayFullSync, DiffFails, SnapshotFails, ApplyFails} \subseteq BOOLEAN

VARIABLES
    lastIncr,   \* the cloud: increments 1 .. lastIncr are published
    bases,      \* the cloud: the last increment each global base includes
    edits,      \* the cloud: the tenant's edits; one adds or removes its address
    globalBase, globalSeq, tenantSeq, \* SyncEngine's versions
    decided,    \* increments whose scores went to the decision engine
    white,      \* the tenant's addresses in the kernel's whitelist
    loop,       \* the doDiff of each loop
    lostIncrs,  \* history: increments of a base whose snapshot was not fetched
    lostEdits,  \* history: addresses whose last change was not fetched or applied
    newest,     \* history: the newest tenant version that doDiff dealt with, by address
    overtaken   \* history: addresses that an older version set after a newer one

cloud == <<lastIncr, bases, edits>>
versions == <<globalBase, globalSeq, tenantSeq>>
lost == <<lostIncrs, lostEdits, newest, overtaken>>
syncVars == <<cloud, versions, decided, white, loop, lost>>

-----------------------------------------------------------------------------
(* The cloud. *)

\* The tenant's whitelist after the first n edits.
WhiteAt(n) == {ip \in IP : Cardinality({i \in 1 .. n : edits[i] = ip}) % 2 = 1}

\* The addresses edited after the first m edits and up to the n-th.
Edited(m, n) == {edits[i] : i \in m + 1 .. n}

BaseSeq == IF bases = <<>> THEN 0 ELSE bases[Len(bases)]

Publish ==
    /\ lastIncr < MaxChange
    /\ lastIncr' = lastIncr + 1
    /\ UNCHANGED <<bases, edits, versions, decided, white, loop, lost>>

Rebase ==
    /\ Len(bases) < MaxBase /\ BaseSeq < lastIncr
    /\ bases' = Append(bases, lastIncr)
    /\ UNCHANGED <<lastIncr, edits, versions, decided, white, loop, lost>>

Edit(ip) ==
    /\ Len(edits) < MaxEdits
    /\ edits' = Append(edits, ip)
    /\ UNCHANGED <<lastIncr, bases, versions, decided, white, loop, lost>>

\* The final state of each address edited after the first n edits.
Changes(n) == [add : {Edited(n, Len(edits)) \cap WhiteAt(Len(edits))},
               del : {Edited(n, Len(edits)) \ WhiteAt(Len(edits))}]

\* The answers to Diff.  The increments that a base includes come with its
\* snapshot only.
Answers(req) ==
    [needBase : {req.base # Len(bases)}, base : {Len(bases)},
     incrs : {{i \in 1 .. lastIncr : i > req.seq /\ i > BaseSeq}},
     full : {FALSE} \cup (IF MayFullSync THEN {TRUE} ELSE {}),
     tenant : {Len(edits)}, changes : Changes(req.tenant)]

-----------------------------------------------------------------------------
(* doDiff. *)

NoReq == [base |-> 0, seq |-> 0, tenant |-> 0]
NoRes == [needBase |-> FALSE, base |-> 0, incrs |-> {}, full |-> FALSE, tenant |-> 0,
          changes |-> [add |-> {}, del |-> {}]]

\* snap is the base of a snapshot, maxSeq doDiff's maxGlobalSeq, and todo the whitelist
\* entries, of the tenant's version ver, that ApplyCloud has still to apply.
Waiting == [at |-> "waiting", req |-> NoReq, res |-> NoRes, snap |-> 0,
            maxSeq |-> 0, ver |-> 0, todo |-> [add |-> {}, del |-> {}]]

SyncInit ==
    /\ lastIncr = 0 /\ bases = <<>> /\ edits = <<>>
    /\ globalBase = 0 /\ globalSeq = 0 /\ tenantSeq = 0
    /\ decided = {} /\ white = {}
    /\ loop = [l \in Loop |-> Waiting]
    /\ lostIncrs = {} /\ lostEdits = {}
    /\ newest = [ip \in IP |-> 0] /\ overtaken = {}

\* The timer of the loop fires, or the heartbeat asked for a Diff.
ReadVersions(l) ==
    /\ loop[l].at = "waiting"
    /\ loop' = [loop EXCEPT ![l].at = "asked",
                            ![l].req = [base |-> globalBase, seq |-> globalSeq,
                                        tenant |-> tenantSeq]]
    /\ UNCHANGED <<cloud, versions, decided, white, lost>>

\* The cloud answers; the answer may be applied much later.
Diff(l) ==
    /\ loop[l].at = "asked"
    /\ \E res \in Answers(loop[l].req) :
          loop' = [loop EXCEPT ![l].res = res,
                               ![l].at = IF res.needBase THEN "base" ELSE "incrs"]
    /\ UNCHANGED <<cloud, versions, decided, white, lost>>

DiffFailed(l) ==
    /\ DiffFails
    /\ loop[l].at = "asked"
    /\ loop' = [loop EXCEPT ![l] = Waiting]
    /\ UNCHANGED <<cloud, versions, decided, white, lost>>

\* applyGlobalSnapshot: the snapshot is that of the cloud's newest base.
FetchGlobalSnapshot(l) ==
    /\ loop[l].at = "base"
    /\ \/ /\ decided' = decided \cup (1 .. BaseSeq)
          /\ loop' = [loop EXCEPT ![l].at = "fetched", ![l].snap = Len(bases)]
          /\ UNCHANGED lostIncrs
       \/ /\ SnapshotFails
          /\ lostIncrs' = lostIncrs \cup (1 .. bases[loop[l].res.base])
          /\ loop' = [loop EXCEPT ![l].at = "incrs"]
          /\ UNCHANGED decided
    /\ UNCHANGED <<cloud, versions, white, lostEdits, newest, overtaken>>

WriteBase(l) ==
    /\ loop[l].at = "fetched"
    /\ globalBase' = loop[l].snap
    /\ loop' = [loop EXCEPT ![l].at = "incrs", ![l].snap = 0]
    /\ UNCHANGED <<cloud, globalSeq, tenantSeq, decided, white, lost>>

Highest(s, S) == CHOOSE m \in {s} \cup S : \A i \in {s} \cup S : i <= m

\* Mutant: the increments are taken to be part of the snapshot just fetched.
ApplyIncrsUnlessBase(l) ==
    /\ loop[l].at = "incrs"
    /\ loop' = [loop EXCEPT ![l].at = "tenant",
                            ![l].maxSeq = Highest(globalSeq, loop[l].res.incrs)]
    /\ decided' = IF loop[l].res.needBase THEN decided ELSE decided \cup loop[l].res.incrs
    /\ UNCHANGED <<cloud, versions, white, lost>>

\* Mutant: the loop moves to the cloud's present sequence, not to that of the answer.
ApplyIncrsToPresent(l) ==
    /\ loop[l].at = "incrs"
    /\ loop' = [loop EXCEPT ![l].at = "tenant", ![l].maxSeq = lastIncr]
    /\ decided' = decided \cup loop[l].res.incrs
    /\ UNCHANGED <<cloud, versions, white, lost>>

\* globalSeq is read here, without the lock and after the answer.
ApplyIncrs(l) ==
    /\ loop[l].at = "incrs"
    /\ loop' = [loop EXCEPT ![l].at = "tenant",
                            ![l].maxSeq = Highest(globalSeq, loop[l].res.incrs)]
    /\ decided' = decided \cup loop[l].res.incrs
    /\ UNCHANGED <<cloud, versions, white, lost>>

\* Mutant: full_sync is ignored, and its empty lists are applied.
TenantIgnoresFullSync(l) ==
    /\ loop[l].at = "tenant"
    /\ loop' = [loop EXCEPT ![l].at = "white", ![l].ver = loop[l].res.tenant,
                            ![l].todo = IF loop[l].res.full THEN @ ELSE loop[l].res.changes]
    /\ UNCHANGED <<cloud, versions, decided, white, lost>>

\* doDiff has dealt with the addresses of S as of version n.
NewestIs(S, n) ==
    newest' = [ip \in IP |-> IF ip \in S /\ newest[ip] < n THEN n ELSE newest[ip]]

\* applyTenantSnapshot or applyTenantDiff: what the whitelist has to become.
Tenant(l) ==
    /\ loop[l].at = "tenant"
    /\ IF ~loop[l].res.full
       THEN /\ loop' = [loop EXCEPT ![l].at = "white", ![l].ver = loop[l].res.tenant,
                                    ![l].todo = loop[l].res.changes]
            /\ UNCHANGED <<lostEdits, newest>>
       ELSE \/ /\ \E snap \in Changes(0) :
                     loop' = [loop EXCEPT ![l].at = "white", ![l].ver = Len(edits),
                                          ![l].todo = snap]
               /\ UNCHANGED <<lostEdits, newest>>
            \/ LET missed == Edited(loop[l].req.tenant, loop[l].res.tenant)
               IN  /\ SnapshotFails
                   /\ loop' = [loop EXCEPT ![l].at = "white"]
                   /\ lostEdits' = lostEdits \cup missed
                   /\ NewestIs(missed, loop[l].res.tenant)
    /\ UNCHANGED <<cloud, versions, decided, white, lostIncrs, overtaken>>

\* Version n says otherwise of ip than a newer one that doDiff dealt with.
Outdated(n, ip) == n < newest[ip] /\ (ip \in WhiteAt(n)) # (ip \in WhiteAt(newest[ip]))

\* ApplyCloud, one ipset command at a time; doDiff ignores its result, and nothing
\* compares the version of the entries with that of the entries applied before.
ApplyWhite(l, ip) ==
    LET todo == loop[l].todo
    IN  /\ loop[l].at = "white"
        /\ ip \in todo.add \cup todo.del
        /\ \/ /\ white' = IF ip \in todo.add THEN white \cup {ip} ELSE white \ {ip}
              /\ IF Outdated(loop[l].ver, ip)
                 THEN overtaken' = overtaken \cup {ip} /\ UNCHANGED lostEdits
                 ELSE overtaken' = overtaken \ {ip} /\ lostEdits' = lostEdits \ {ip}
           \/ /\ ApplyFails
              /\ lostEdits' = lostEdits \cup {ip}
              /\ UNCHANGED <<white, overtaken>>
        /\ NewestIs({ip}, loop[l].ver)
        /\ loop' = [loop EXCEPT ![l].todo = [add |-> todo.add \ {ip}, del |-> todo.del \ {ip}]]
        /\ UNCHANGED <<cloud, versions, decided, lostIncrs>>

WriteVersions(l) ==
    /\ loop[l].at = "white"
    /\ loop[l].todo = [add |-> {}, del |-> {}]
    /\ globalBase' = IF loop[l].res.needBase THEN loop[l].res.base ELSE globalBase
    /\ globalSeq' = loop[l].maxSeq
    /\ tenantSeq' = loop[l].res.tenant
    /\ loop' = [loop EXCEPT ![l] = Waiting]
    /\ UNCHANGED <<cloud, decided, white, lost>>

DoDiff(l) ==
    \/ ReadVersions(l) \/ Diff(l) \/ DiffFailed(l)
    \/ FetchGlobalSnapshot(l) \/ WriteBase(l) \/ ApplyIncrs(l)
    \/ Tenant(l) \/ (\E ip \in IP : ApplyWhite(l, ip)) \/ WriteVersions(l)

SyncNext ==
    \/ Publish \/ Rebase \/ (\E ip \in IP : Edit(ip))
    \/ \E l \in Loop : DoDiff(l)

SyncSpec == SyncInit /\ [][SyncNext]_syncVars

\* The timers fire, requests end, and the cloud answers again and again.
SyncFairness ==
    \A l \in Loop : WF_syncVars(DoDiff(l)) /\ SF_syncVars(Diff(l))

SyncFairSpec == SyncSpec /\ SyncFairness

-----------------------------------------------------------------------------
(* Properties. *)

SyncTypeOK ==
    /\ lastIncr \in 0 .. MaxChange
    /\ bases \in Seq(1 .. MaxChange) /\ edits \in Seq(IP)
    /\ globalBase \in 0 .. Len(bases)
    /\ globalSeq \in 0 .. lastIncr
    /\ tenantSeq \in 0 .. Len(edits)
    /\ decided \subseteq 1 .. lastIncr
    /\ white \subseteq IP
    /\ lostIncrs \subseteq 1 .. lastIncr /\ lostEdits \subseteq IP
    /\ newest \in [IP -> 0 .. Len(edits)] /\ overtaken \subseteq IP
    /\ \A l \in Loop :
          /\ loop[l].at \in {"waiting", "asked", "base", "fetched", "incrs", "tenant",
                             "white"}
          /\ loop[l].todo.add \cap loop[l].todo.del = {}

\* The versions the agent sends never run ahead of what it consumed, even when
\* two loops run doDiff at once and one writes an older version over a newer:
\* every increment below globalSeq, and every increment of the base globalBase,
\* went to the decision engine, but for those of a base that was not fetched.
\* The cloud never sends any of them again.
NothingSkipped ==
    /\ 1 .. globalSeq \subseteq decided \cup lostIncrs
    /\ globalBase > 0 => 1 .. bases[globalBase] \subseteq decided \cup lostIncrs

\* The addresses whose entry in the kernel's whitelist doDiff gave up: their last change
\* was not fetched or failed, and doDiff moves tenantSeq on all the same; or one loop
\* applied an older answer after the other had applied a newer one.  Only another
\* answer that names the address repairs it.
GivenUp == lostEdits \cup overtaken

\* But for those, the kernel's whitelist is that of the tenant's first n edits.
TenantsWhitelist(n) ==
    \A ip \in IP \ GivenUp : ip \in white <=> ip \in WhiteAt(n)

\* While the loops fetch, apply and write over each other, the kernel's entry of an
\* address, but for those given up, is never older than the tenant version that the
\* agent claims: it is that of the claimed version or of one after it.
WhitelistInSync ==
    \A ip \in IP \ GivenUp :
       \E n \in tenantSeq .. Len(edits) : ip \in white <=> ip \in WhiteAt(n)

\* Every increment the cloud publishes gets to the decision engine, as long as
\* the cloud keeps answering, though two loops overwrite each other's versions.
ThreatsArrive ==
    \A i \in 1 .. MaxChange : (lastIncr >= i) ~> (i \in decided \cup lostIncrs)

\* When the tenant stops editing, the kernel's whitelist becomes the tenant's, whatever
\* the two loops do, but for the addresses given up.
WhitelistConverges == <>[]TenantsWhitelist(Len(edits))
=============================================================================
