---------------------------- MODULE IpsetManager ----------------------------
(***************************************************************************)
(* The blacklist manager of the agent (agent/internal/ipsetutil): the two  *)
(* kernel sets, the maps in which the Manager remembers them, and the      *)
(* goroutines that call Block, ForceBlock, Unblock and ApplyCloud at the   *)
(* same time.  Manager.mu protects single reads and writes of the maps; no *)
(* lock spans a whole call, so the model takes one step per critical       *)
(* section and one per ipset command, and any goroutine may run between.   *)
(*                                                                         *)
(* The process starts (RebuildFromKernel, SyncLocalWhitelist, the          *)
(* configured blacklist), runs, and dies; the kernel sets outlive it.      *)
(*                                                                         *)
(* A definition whose comment says "Mutant" is not part of the model: it   *)
(* is a plausible bug in the definition that follows it, which a property  *)
(* must tell from the code.                                                *)
(***************************************************************************)
EXTENDS Integers, FiniteSets

CONSTANTS
    IP,               \* addresses
    Net,              \* subnets in CIDR form
    Covers,           \* [Net -> SUBSET IP]
    Goroutine,        \* callers of the manager
    MaxTimeout,       \* the longest --timeout, in ticks
    LocalTimeout,     \* Manager.blockTimeout while the agent runs
    CloudTimeout,     \* the Timeout of a cloud blacklist entry
    SetHasTimeout,    \* was the blacklist set created with timeout support?
    ClientFails,      \* may an ipset command fail?
    Retry,            \* Manager.retry
    WhitelistConfigs, \* the values ipset.whitelist may have at a start
    BlacklistConfigs, \* the values ipset.blacklist may have at a start
    CloudBatches      \* the arguments the cloud passes to ApplyCloud

Target == IP \cup Net

Addrs(t) == IF t \in Net THEN Covers[t] ELSE {t}
AddrsOf(ts) == {ip \in IP : \E t \in ts : ip \in Addrs(t)}
SubnetAddrs(ts) == AddrsOf(ts \cap Net)

\* Manager.whitelisted is keyed by text.  SyncLocalWhitelist writes an address with its
\* prefix (ipToCIDR), the cloud writes it without: two keys, and one kernel member.
\* A subnet is written in one way.
Key == [of : Target, prefix : BOOLEAN]

LocalKey(t) == [of |-> t, prefix |-> TRUE]
CloudKey(t) == [of |-> t, prefix |-> t \in Net]

LocalKeys(ts) == {LocalKey(t) : t \in ts}
CloudKeys(ts) == {CloudKey(t) : t \in ts}

\* A change of a set: Entry of client.go, its timeout left to EntryTimer.
Entry == [list : {"black", "white"}, op : {"add", "del"}, ip : Target]

ASSUME ConstantsAssumption ==
    /\ IP \cap Net = {}
    /\ Covers \in [Net -> SUBSET IP]
    /\ MaxTimeout \in Nat
    /\ LocalTimeout \in 0 .. MaxTimeout
    /\ CloudTimeout \in 0 .. MaxTimeout
    /\ SetHasTimeout \in BOOLEAN
    /\ ClientFails \in BOOLEAN
    /\ Retry \in Nat
    /\ WhitelistConfigs \subseteq SUBSET Target
    /\ BlacklistConfigs \subseteq SUBSET Target

\* What sync.go passes: threat decisions to block, or whitelist changes, and
\* no address twice in one batch.
ASSUME CloudAssumption ==
    \A batch \in CloudBatches :
        /\ batch \subseteq Entry
        /\ \A e \in batch : e.list = "black" => e.op = "add"
        /\ \A e, f \in batch : Addrs(e.ip) \cap Addrs(f.ip) # {} => e = f

VARIABLES
    kernel,      \* blacklist set in the kernel: remaining ticks of each address
    kernelWhite, \* whitelist set in the kernel (hash:net members)
    localWL,     \* Manager.localWL and localWLCIDR
    blocked,     \* Manager.blocked
    whitelisted, \* Manager.whitelisted: a set of keys
    call,        \* the call each goroutine is making
    phase,       \* how far the process has started
    exempt,      \* history: whitelisted addresses blocked by force, or left over
    netBlocked,  \* history: addresses of subnets blocked since the start
    disturbed    \* history: addresses the manager may have lost track of

vars == <<kernel, kernelWhite, localWL, blocked, whitelisted, call, phase,
          exempt, netBlocked, disturbed>>

memory == <<localWL, blocked, whitelisted>>
history == <<exempt, netBlocked, disturbed>>

-----------------------------------------------------------------------------
(* The kernel sets. *)

Absent == 0
Forever == MaxTimeout + 1

InKernel(ip) == kernel[ip] # Absent

\* ipset add with --timeout falls back to an add without it when the set was
\* created without timeout support; the entry then never expires.
EntryTimer(timeout) ==
    IF SetHasTimeout /\ timeout > 0 THEN timeout ELSE Forever

\* ipset add -exist resets the timer of a member; ipset del -exist of a
\* missing member succeeds.
KernelAdd(ts, timeout) ==
    [ip \in IP |-> IF ip \in AddrsOf(ts) THEN EntryTimer(timeout) ELSE kernel[ip]]

KernelDel(ts) == [ip \in IP |-> IF ip \in AddrsOf(ts) THEN Absent ELSE kernel[ip]]

-----------------------------------------------------------------------------
(* The calls in flight. *)

Results == {"none", "accepted", "already", "exists", "whitelisted",
            "removed", "notBlocked", "error"}
Stages == {"read", "add", "readd", "del", "batch", "single", "commit", "done"}

Calls == [op : {"none", "block", "unblock", "cloud"}, at : Stages, tgt : SUBSET Target,
          all : SUBSET Entry, todo : SUBSET Entry, tries : 0 .. Retry,
          failed : SUBSET Target, res : Results]

Idle == [op |-> "none", at |-> "done", tgt |-> {}, all |-> {}, todo |-> {},
         tries |-> 0, failed |-> {}, res |-> "none"]

CallOf(op, at, t, res) ==
    [Idle EXCEPT !.op = op, !.at = at, !.tgt = {t}, !.res = res]

Targets(c) == c.tgt \cup {e.ip : e \in c.all}

\* The call c may change what the kernel or the manager holds of ip.
Touches(c, ip) == ip \in AddrsOf(Targets(c))

\* A subnet is never on the whitelist: the maps are searched for an address.
IsLocalWhitelisted(t) == t \in AddrsOf(localWL)

\* Goroutine g makes the call c.  The history notes the addresses that another
\* call in flight touches too, and those of a subnet.
Invoke(g, c) ==
    /\ phase = "running"
    /\ call[g] = Idle
    /\ call' = [call EXCEPT ![g] = c]
    /\ netBlocked' = netBlocked \cup SubnetAddrs(Targets(c))
    /\ disturbed' = disturbed \cup SubnetAddrs(Targets(c)) \cup
          {ip \in IP : Touches(c, ip)
                 /\ \E h \in Goroutine \ {g} : Touches(call[h], ip)}

\* Goroutine g moves its call on.
Goto(g, at) == call' = [call EXCEPT ![g].at = at]
Commit(g, res) == call' = [call EXCEPT ![g].at = "commit", ![g].res = res]
Finish(g, res) == call' = [call EXCEPT ![g].at = "done", ![g].res = res]

At(g, op, at) == call[g].op = op /\ call[g].at = at

-----------------------------------------------------------------------------
(* Starting: main.go runs these before it starts any other goroutine. *)

Init ==
    /\ kernel = [ip \in IP |-> Absent]
    /\ kernelWhite = {}
    /\ localWL = {} /\ blocked = {} /\ whitelisted = {}
    /\ call = [g \in Goroutine |-> Idle]
    /\ phase = "stopped"
    /\ exempt = {} /\ netBlocked = {} /\ disturbed = {}

\* The members of a set with timeouts are listed as "<ip> timeout <n>", and
\* parseListOutput keeps the whole line: none of them is an address.
Listed == IF SetHasTimeout THEN {} ELSE {ip \in IP : InKernel(ip)}

RebuildFromKernel ==
    /\ phase = "stopped"
    /\ phase' = "rebuilt"
    /\ \/ blocked' = Listed
       \/ ClientFails /\ UNCHANGED blocked
    /\ disturbed' = {ip \in IP : InKernel(ip)} \ blocked'
    /\ UNCHANGED <<kernel, kernelWhite, localWL, whitelisted, call, exempt, netBlocked>>

\* The outcomes of applyBatchOrFallback for a batch no other goroutine
\* interferes with: the failed targets, and the applied ones.  A target that
\* failed on its own may have been applied by an attempt at the whole batch.
Outcomes(batch) ==
    {o \in [failed : SUBSET batch, applied : SUBSET batch] :
        /\ batch \ o.failed \subseteq o.applied
        /\ ClientFails \/ o.failed = {}}

SyncLocalWhitelist(items) ==
    LET toDel == (items \cap IP) \cup (blocked \cap SubnetAddrs(items))
        stale == {k.of : k \in whitelisted \ LocalKeys(items)}
    IN  /\ phase = "rebuilt"
        /\ phase' = "synced"
        /\ localWL' = items
        /\ \E del \in Outcomes(toDel), add \in Outcomes(items), old \in Outcomes(stale) :
              /\ kernel' = [ip \in IP |-> IF ip \in del.applied THEN Absent ELSE kernel[ip]]
              /\ kernelWhite' = (kernelWhite \cup add.applied) \ old.applied
              /\ blocked' = blocked \ (toDel \ del.failed)
              /\ whitelisted' = LocalKeys(items \ add.failed)
              /\ disturbed' = disturbed \cup del.failed
        /\ exempt' = {ip \in AddrsOf(items) : kernel'[ip] # Absent}
        /\ UNCHANGED <<call, netBlocked>>

\* main.go blocks each configured entry, before it sets the block timeout.
PreloadBlacklist(items) ==
    LET new == {t \in items \ blocked : ~IsLocalWhitelisted(t)}
    IN  /\ phase = "synced"
        /\ phase' = "running"
        /\ \E failed \in SUBSET new :
              /\ ClientFails \/ failed = {}
              /\ kernel' = [ip \in IP |->
                    IF ip \in AddrsOf(new \ failed) THEN Forever ELSE kernel[ip]]
              /\ blocked' = blocked \cup (new \ failed)
        /\ netBlocked' = SubnetAddrs(items)
        /\ disturbed' = disturbed \cup SubnetAddrs(items)
        /\ UNCHANGED <<kernelWhite, localWL, whitelisted, call, exempt>>

-----------------------------------------------------------------------------
(* Block and ForceBlock. *)

Block(g, t) ==
    /\ Invoke(g, IF IsLocalWhitelisted(t) THEN CallOf("block", "done", t, "whitelisted")
                                          ELSE CallOf("block", "read", t, "none"))
    /\ UNCHANGED <<kernel, kernelWhite, memory, phase, exempt>>

ForceBlock(g, t) ==
    /\ Invoke(g, CallOf("block", "read", t, "none"))
    /\ exempt' = exempt \cup {ip \in AddrsOf({t}) : IsLocalWhitelisted(ip)}
    /\ UNCHANGED <<kernel, kernelWhite, memory, phase>>

ReadToBlock(g) ==
    /\ At(g, "block", "read")
    /\ IF call[g].tgt \subseteq blocked THEN Finish(g, "already") ELSE Goto(g, "add")
    /\ UNCHANGED <<kernel, kernelWhite, memory, phase, history>>

\* Mutant: a block that was added without a timeout is not remembered.
ReaddForgets(g) ==
    /\ \/ /\ At(g, "block", "add")
          /\ kernel' = KernelAdd(call[g].tgt, LocalTimeout)
          /\ Commit(g, "accepted")
       \/ /\ At(g, "block", "readd")
          /\ kernel' = KernelAdd(call[g].tgt, 0)
          /\ Finish(g, "accepted")
    /\ UNCHANGED <<kernelWhite, memory, phase, history>>

\* The add succeeds, with the block timeout ("add") or, after all attempts
\* with it failed, without it ("readd").
AddToKernel(g) ==
    /\ \/ At(g, "block", "add") /\ kernel' = KernelAdd(call[g].tgt, LocalTimeout)
       \/ At(g, "block", "readd") /\ kernel' = KernelAdd(call[g].tgt, 0)
    /\ Commit(g, "accepted")
    /\ UNCHANGED <<kernelWhite, memory, phase, history>>

\* Mutant: the second failure is taken for a success.
AddFailsSilently(g) ==
    /\ ClientFails
    /\ \/ At(g, "block", "add") /\ Goto(g, "readd")
       \/ At(g, "block", "readd") /\ Finish(g, "accepted")
    /\ UNCHANGED <<kernel, kernelWhite, memory, phase, history>>

\* Every attempt of applyWithRetry fails.
AddFails(g) ==
    /\ ClientFails
    /\ \/ /\ At(g, "block", "add")
          /\ \/ IF LocalTimeout > 0 THEN Goto(g, "readd") ELSE Finish(g, "error")
             \/ (\A ip \in AddrsOf(call[g].tgt) : InKernel(ip)) /\ Commit(g, "exists")
       \/ At(g, "block", "readd") /\ Finish(g, "error")
    /\ UNCHANGED <<kernel, kernelWhite, memory, phase, history>>

CommitBlocked(g) ==
    /\ At(g, "block", "commit")
    /\ blocked' = blocked \cup call[g].tgt
    /\ Goto(g, "done")
    /\ UNCHANGED <<kernel, kernelWhite, localWL, whitelisted, phase, history>>

-----------------------------------------------------------------------------
(* Unblock. *)

Unblock(g, t) ==
    /\ Invoke(g, CallOf("unblock", "read", t, "none"))
    /\ UNCHANGED <<kernel, kernelWhite, memory, phase, exempt>>

ReadToUnblock(g) ==
    /\ At(g, "unblock", "read")
    /\ IF call[g].tgt \subseteq blocked THEN Goto(g, "del") ELSE Finish(g, "notBlocked")
    /\ UNCHANGED <<kernel, kernelWhite, memory, phase, history>>

DelFromKernel(g) ==
    /\ At(g, "unblock", "del")
    /\ kernel' = KernelDel(call[g].tgt)
    /\ Commit(g, "removed")
    /\ UNCHANGED <<kernelWhite, memory, phase, history>>

DelFails(g) ==
    /\ ClientFails
    /\ At(g, "unblock", "del")
    /\ Commit(g, "error")
    /\ disturbed' = disturbed \cup AddrsOf(call[g].tgt)
    /\ UNCHANGED <<kernel, kernelWhite, memory, phase, exempt, netBlocked>>

\* The map forgets the address whatever the kernel answered.
CommitUnblocked(g) ==
    /\ At(g, "unblock", "commit")
    /\ blocked' = blocked \ call[g].tgt
    /\ Goto(g, "done")
    /\ UNCHANGED <<kernel, kernelWhite, localWL, whitelisted, phase, history>>

-----------------------------------------------------------------------------
(* ApplyCloud.  The order of a batch is that of the cloud's list, so that any *)
(* order is possible, but a new whitelist member leaves the blacklist first.  *)

Unblacklist(t) == [list |-> "black", op |-> "del", ip |-> t]

\* Mutant: the cloud is not subject to the local whitelist.
ToApplyUnfiltered(batch) ==
    batch \cup {Unblacklist(e.ip) : e \in {f \in batch : f.list = "white" /\ f.op = "add"}}

ToApply(batch) ==
    LET passed == {e \in batch : e.list = "white" \/ ~IsLocalWhitelisted(e.ip)}
    IN  passed \cup {Unblacklist(e.ip) : e \in {f \in passed : f.list = "white" /\ f.op = "add"}}

ApplyCloud(g, batch) ==
    LET all == ToApply(batch)
    IN  /\ Invoke(g, [Idle EXCEPT !.op = "cloud", !.all = all, !.todo = all,
                                  !.at = IF all = {} THEN "done" ELSE "batch"])
        /\ UNCHANGED <<kernel, kernelWhite, memory, phase, exempt>>

\* e is the next entry of the batch, or of the entries applied one by one.
NextEntry(g, e) ==
    /\ call[g].at \in {"batch", "single"}
    /\ e \in call[g].todo
    /\ e.list = "white" => Unblacklist(e.ip) \notin call[g].todo

After(todo, at) == IF todo = {} THEN "commit" ELSE at

ApplyEntry(g, e) ==
    LET todo == call[g].todo \ {e}
    IN  /\ NextEntry(g, e)
        /\ \/ /\ e.list = "black"
              /\ kernel' = IF e.op = "add" THEN KernelAdd({e.ip}, CloudTimeout)
                                           ELSE KernelDel({e.ip})
              /\ UNCHANGED kernelWhite
           \/ /\ e.list = "white"
              /\ kernelWhite' = IF e.op = "add" THEN kernelWhite \cup {e.ip}
                                                ELSE kernelWhite \ {e.ip}
              /\ UNCHANGED kernel
        /\ call' = [call EXCEPT ![g].todo = todo, ![g].at = After(todo, @)]
        /\ UNCHANGED <<memory, phase, history>>

MayRetry(g) == call[g].tries < Retry

\* An attempt at the whole batch stops at the first failure: it is repeated
\* from the start, Retry times, and then each entry is applied on its own.
BatchFails(g, e) ==
    /\ ClientFails
    /\ NextEntry(g, e) /\ call[g].at = "batch"
    /\ call' = IF MayRetry(g)
                THEN [call EXCEPT ![g].todo = call[g].all, ![g].tries = @ + 1]
                ELSE [call EXCEPT ![g].todo = call[g].all, ![g].at = "single"]
    /\ UNCHANGED <<kernel, kernelWhite, memory, phase, history>>

\* Mutant: an entry that fails on its own is tried again and again.
EntryFailsForGood(g, e) ==
    /\ ClientFails
    /\ NextEntry(g, e) /\ call[g].at = "single"
    /\ call' = [call EXCEPT ![g].todo = call[g].all]
    /\ UNCHANGED <<kernel, kernelWhite, memory, phase, history>>

EntryFails(g, e) ==
    LET todo == call[g].todo \ {e}
    IN  /\ ClientFails
        /\ NextEntry(g, e) /\ call[g].at = "single"
        /\ call' = [call EXCEPT ![g].todo = todo, ![g].at = After(todo, @),
                                ![g].failed = @ \cup {e.ip}]
        /\ disturbed' = disturbed \cup AddrsOf({e.ip})
        /\ UNCHANGED <<kernel, kernelWhite, memory, phase, exempt, netBlocked>>

\* The entries of g's batch on a list whose address no command failed for.
Succeeded(g, list, op) ==
    {e.ip : e \in {f \in call[g].all : f.list = list /\ f.op = op
                                        /\ f.ip \notin call[g].failed}}

\* Mutant: a new whitelist member stays in the map of blocked addresses.
CommitCloudAdds(g) ==
    /\ At(g, "cloud", "commit")
    /\ blocked' = blocked \cup Succeeded(g, "black", "add")
    /\ whitelisted' = (whitelisted \cup CloudKeys(Succeeded(g, "white", "add")))
                          \ CloudKeys(Succeeded(g, "white", "del"))
    /\ Finish(g, IF call[g].failed = {} THEN "accepted" ELSE "error")
    /\ UNCHANGED <<kernel, kernelWhite, localWL, phase, history>>

CommitCloud(g) ==
    /\ At(g, "cloud", "commit")
    /\ blocked' = (blocked \cup Succeeded(g, "black", "add")) \ Succeeded(g, "black", "del")
    /\ whitelisted' = (whitelisted \cup CloudKeys(Succeeded(g, "white", "add")))
                          \ CloudKeys(Succeeded(g, "white", "del"))
    /\ Finish(g, IF call[g].failed = {} THEN "accepted" ELSE "error")
    /\ UNCHANGED <<kernel, kernelWhite, localWL, phase, history>>

-----------------------------------------------------------------------------
(* The environment, and the next-state relation. *)

\* The caller takes the result of its call.
Return(g) ==
    /\ call[g].op # "none" /\ call[g].at = "done"
    /\ call' = [call EXCEPT ![g] = Idle]
    /\ UNCHANGED <<kernel, kernelWhite, memory, phase, history>>

\* The step of g's call that is next.
CallStep(g) ==
    \/ ReadToBlock(g) \/ AddToKernel(g) \/ AddFails(g) \/ CommitBlocked(g)
    \/ ReadToUnblock(g) \/ DelFromKernel(g) \/ DelFails(g) \/ CommitUnblocked(g)
    \/ \E e \in call[g].todo : ApplyEntry(g, e) \/ BatchFails(g, e) \/ EntryFails(g, e)
    \/ CommitCloud(g)

Countdown == [ip \in IP |-> IF kernel[ip] \in 1 .. MaxTimeout THEN kernel[ip] - 1
                                                             ELSE kernel[ip]]

\* Time passes; the kernel deletes the entries whose timeout is over.
Tick ==
    /\ kernel' = Countdown
    /\ kernel' # kernel
    /\ UNCHANGED <<kernelWhite, memory, call, phase, history>>

\* The process ends, whatever its goroutines are doing.
Crash ==
    /\ phase # "stopped"
    /\ phase' = "stopped"
    /\ localWL' = {} /\ blocked' = {} /\ whitelisted' = {}
    /\ call' = [g \in Goroutine |-> Idle]
    /\ exempt' = {} /\ netBlocked' = {} /\ disturbed' = {}
    /\ UNCHANGED <<kernel, kernelWhite>>

Start ==
    \/ RebuildFromKernel
    \/ \E items \in WhitelistConfigs : SyncLocalWhitelist(items)
    \/ \E items \in BlacklistConfigs : PreloadBlacklist(items)

Request(g) ==
    \/ \E t \in Target : Block(g, t) \/ ForceBlock(g, t) \/ Unblock(g, t)
    \/ \E batch \in CloudBatches : ApplyCloud(g, batch)

Next ==
    \/ Start \/ Tick \/ Crash
    \/ \E g \in Goroutine : Request(g) \/ CallStep(g) \/ Return(g)

Spec == Init /\ [][Next]_vars

\* ipset commands end, and the scheduler runs every goroutine.
Fairness == \A g \in Goroutine : WF_vars(CallStep(g))

FairSpec == Spec /\ Fairness

-----------------------------------------------------------------------------
(* Properties. *)

\* The kinds of the variables.
TypeOK ==
    /\ kernel \in [IP -> Absent .. Forever]
    /\ kernelWhite \subseteq Target
    /\ localWL \subseteq Target
    /\ blocked \subseteq Target
    /\ whitelisted \subseteq Key
    /\ call \in [Goroutine -> Calls]
    /\ phase \in {"stopped", "rebuilt", "synced", "running"}
    /\ exempt \subseteq IP /\ netBlocked \subseteq IP /\ disturbed \subseteq IP

\* Absolute priority of the local whitelist (Manager.Block, ApplyCloud,
\* SyncLocalWhitelist): once the configuration is loaded, no interleaving of
\* calls puts a whitelisted address on the kernel's blacklist, unless an
\* operator forced it, the start failed to delete it, or its subnet was blocked.
WhitelistExempt ==
    phase \in {"synced", "running"} =>
        \A ip \in IP : InKernel(ip) /\ IsLocalWhitelisted(ip)
                            => ip \in exempt \cup netBlocked

\* The manager's maps say what the kernel holds: all of its blacklist, and no
\* more than it if the set has no timeouts; of the whitelist what the cloud added
\* and did not take away again.
Match(ip) ==
    /\ InKernel(ip) => ip \in blocked
    /\ ~SetHasTimeout /\ ip \in blocked => InKernel(ip)
    /\ CloudKey(ip) \in whitelisted => ip \in kernelWhite

\* Manager.blocked and Manager.whitelisted agree with the kernel on every address
\* that no call is changing, except for those two calls changed at once, those a
\* delete or a cloud entry failed for, and those of a subnet: these are all the
\* ways in which the manager loses track of the kernel's blacklist.  Of the whitelist
\* it loses track in one more: a delete by the cloud takes a member that the
\* configuration added out of the kernel, and leaves its key, which has a prefix.
Agreement ==
    phase # "stopped" =>
        \A ip \in IP \ disturbed :
            (\A g \in Goroutine : ~Touches(call[g], ip)) => Match(ip)

\* The caller of Block is told the truth when no other call or failed command
\* disturbed the address: accepted and ErrAlreadyBlocked mean that the kernel
\* drops it, a nil error of Unblock that it does not.
HonestResult ==
    \A g \in Goroutine : \A ip \in AddrsOf(call[g].tgt) \ disturbed :
        call[g].at = "done" =>
            /\ call[g].res \in {"accepted", "already"} /\ ~SetHasTimeout => InKernel(ip)
            /\ call[g].res \in {"removed", "notBlocked"} => ~InKernel(ip)

\* A call ends, however often ipset fails: the retries and the fallback of
\* applyBatchOrFallback are bounded.
CallsEnd ==
    \A g \in Goroutine : (call[g].op # "none") ~> (call[g].at = "done")

-----------------------------------------------------------------------------
(* The manager implements one set that calls read and change in a moment.  The moment *)
(* of a call is that of its ipset command, or, if it gives none, of its look at the   *)
(* map; the kernel's set is the set.                                                  *)

\* What a batch tells the kernel's blacklist to do to addresses.
BlackTargets(c, op) == {e.ip : e \in {f \in c.all : f.list = "black" /\ f.op = op}}

\* What the caller asked for, and its answer as soon as that is decided.
AskedBy(c) ==
    [op |-> c.op, of |-> AddrsOf(Targets(c)), subnets |-> SubnetAddrs(Targets(c)),
     add |-> IF c.op = "block" THEN AddrsOf(c.tgt) ELSE AddrsOf(BlackTargets(c, "add")),
     del |-> IF c.op = "unblock" THEN AddrsOf(c.tgt) ELSE AddrsOf(BlackTargets(c, "del")),
     answer |-> IF c.op = "cloud" /\ c.all = {} THEN "accepted" ELSE c.res]

Asked == [g \in Goroutine |-> AskedBy(call[g])]

\* The addresses whose packets the kernel drops, as far as something is promised of them.
Dropped == {ip \in IP : InKernel(ip)} \ disturbed

ConfiguredAddrs(configs) == {AddrsOf(items) : items \in configs} \cup {{}}

List == INSTANCE Blacklist WITH
    Address <- IP, Caller <- Goroutine, MayFail <- ClientFails,
    WhiteConfigs <- ConfiguredAddrs(WhitelistConfigs),
    BlackConfigs <- ConfiguredAddrs(BlacklistConfigs),
    listed <- Dropped, unsure <- disturbed, asked <- Asked, serving <- (phase = "running")

\* A kernel set without timeouts is, to those who call the Manager, one set that each
\* call reads or changes in a moment, for all addresses but those that two calls are
\* about at once, those of subnets and those a command failed for.  However the calls,
\* batches and failures interleave, a block is accepted only of an address that is not
\* blocked, no address comes or goes but as a call or the configuration asks, a batch is
\* answered when all of it was made, and a restart finds what was blocked (Manager's
\* Block, Unblock, ApplyCloud and RebuildFromKernel).
AtomicBlacklist == List!BSpec

=============================================================================
