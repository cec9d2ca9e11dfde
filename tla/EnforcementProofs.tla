------------------------- MODULE EnforcementProofs --------------------------
(***************************************************************************)
(* Theorems about IpsetManager for every value of its constants: however   *)
(* many addresses, subnets and goroutines there are, and whatever the cloud *)
(* and the configuration ask for; the last of them, that it implements the *)
(* one set of Blacklist.  And about Enforcement: its handlers use the      *)
(* blacklist manager only through the calls of IpsetManager, so that what  *)
(* is proved of the manager holds of the whole; the timers keep their      *)
(* type; and every block the agent makes has its timer.                    *)
(***************************************************************************)
EXTENDS Enforcement, TLAPS

-----------------------------------------------------------------------------
(* Type correctness. *)

\* The kernel's timers stay in range when entries are added and deleted.
LEMMA KernelType ==
    ASSUME kernel \in [IP -> Absent .. Forever], NEW ts, NEW timeout \in 0 .. MaxTimeout
    PROVE  /\ EntryTimer(timeout) \in Absent .. Forever
           /\ KernelAdd(ts, timeout) \in [IP -> Absent .. Forever]
           /\ KernelDel(ts) \in [IP -> Absent .. Forever]
           /\ Countdown \in [IP -> Absent .. Forever]
  <1>1. EntryTimer(timeout) \in Absent .. Forever
    BY ConstantsAssumption DEF ConstantsAssumption, EntryTimer, Absent, Forever
  <1>2. KernelAdd(ts, timeout) \in [IP -> Absent .. Forever]
    BY <1>1 DEF KernelAdd
  <1>3. KernelDel(ts) \in [IP -> Absent .. Forever]
    BY ConstantsAssumption DEF ConstantsAssumption, KernelDel, Absent, Forever
  <1>4. Countdown \in [IP -> Absent .. Forever]
    BY ConstantsAssumption DEF ConstantsAssumption, Countdown, Absent, Forever
  <1> QED
    BY <1>1, <1>2, <1>3, <1>4

\* A call that moves on is still a call.
LEMMA CallMoves ==
    ASSUME call \in [Goroutine -> Calls], NEW g \in Goroutine, NEW at \in Stages,
           NEW res \in Results
    PROVE  /\ Goto(g, at) => call' \in [Goroutine -> Calls]
           /\ Commit(g, res) => call' \in [Goroutine -> Calls]
           /\ Finish(g, res) => call' \in [Goroutine -> Calls]
  BY DEF Goto, Commit, Finish, Calls, Stages

\* Starting a call gives the goroutine a call and leaves the history in range.
LEMMA InvokeType ==
    ASSUME TypeOK, NEW g \in Goroutine, NEW c \in Calls, Invoke(g, c)
    PROVE  /\ call' \in [Goroutine -> Calls]
           /\ netBlocked' \subseteq IP /\ disturbed' \subseteq IP
  BY DEF TypeOK, Invoke, SubnetAddrs, AddrsOf

\* Idle and the first state of a Block or an Unblock are calls.
LEMMA FirstCalls ==
    ASSUME NEW op \in {"block", "unblock"}, NEW at \in Stages, NEW t \in Target,
           NEW res \in Results
    PROVE  Idle \in Calls /\ CallOf(op, at, t, res) \in Calls
  <1>1. Idle \in Calls
    BY ConstantsAssumption DEF ConstantsAssumption, Idle, Calls, Stages, Results
  <1>2. CallOf(op, at, t, res) \in Calls
    BY <1>1 DEF CallOf, Idle, Calls
  <1> QED
    BY <1>1, <1>2

\* Either way to write a target is a key.
LEMMA KeysType ==
    ASSUME NEW ts, ts \subseteq Target
    PROVE  LocalKeys(ts) \subseteq Key /\ CloudKeys(ts) \subseteq Key
  <1>1. ASSUME NEW t \in Target
        PROVE  LocalKey(t) \in Key /\ CloudKey(t) \in Key
    <2>1. (t \in Net) \in BOOLEAN
      OBVIOUS
    <2>2. \A prefix \in BOOLEAN : [of |-> t, prefix |-> prefix] \in Key
      BY DEF Key
    <2> QED
      BY <2>1, <2>2 DEF LocalKey, CloudKey
  <1> QED
    BY <1>1 DEF LocalKeys, CloudKeys

\* The initial values have their types.
LEMMA InitType == Init => TypeOK
  BY ConstantsAssumption
     DEF ConstantsAssumption, Init, TypeOK, Idle, Calls, Stages, Results, Absent, Forever

\* The start of the process keeps the types.
LEMMA StartType == TypeOK /\ Start => TypeOK'
  <1> SUFFICES ASSUME TypeOK, Start PROVE TypeOK'
    OBVIOUS
  <1>1. CASE RebuildFromKernel
    BY <1>1 DEF TypeOK, RebuildFromKernel, Listed, Target
  <1>2. ASSUME NEW items \in WhitelistConfigs, SyncLocalWhitelist(items) PROVE TypeOK'
    <2> DEFINE toDel == (items \cap IP) \cup (blocked \cap SubnetAddrs(items))
    <2> DEFINE stale == {k.of : k \in whitelisted \ LocalKeys(items)}
    <2>1. PICK del \in Outcomes(toDel), add \in Outcomes(items), old \in Outcomes(stale) :
              /\ kernel' = [ip \in IP |-> IF ip \in del.applied THEN Absent ELSE kernel[ip]]
              /\ kernelWhite' = (kernelWhite \cup add.applied) \ old.applied
              /\ blocked' = blocked \ (toDel \ del.failed)
              /\ whitelisted' = LocalKeys(items \ add.failed)
              /\ disturbed' = disturbed \cup del.failed
      BY <1>2 DEF SyncLocalWhitelist
    <2>2. items \subseteq Target
      BY ConstantsAssumption DEF ConstantsAssumption
    <2>3. toDel \subseteq IP
      BY DEF SubnetAddrs, AddrsOf
    <2>4. del.failed \subseteq IP /\ add.applied \subseteq Target
      BY <2>2, <2>3 DEF Outcomes
    <2>5. kernel' \in [IP -> Absent .. Forever]
      BY <2>1, ConstantsAssumption DEF ConstantsAssumption, TypeOK, Absent, Forever
    <2>6. whitelisted' \subseteq Key
      BY <2>1, <2>2, KeysType
    <2> HIDE DEF toDel, stale
    <2> QED
      BY <1>2, <2>1, <2>2, <2>3, <2>4, <2>5, <2>6 DEF TypeOK, SyncLocalWhitelist, AddrsOf
  <1>3. ASSUME NEW items \in BlacklistConfigs, PreloadBlacklist(items) PROVE TypeOK'
    <2>1. items \subseteq Target
      BY ConstantsAssumption DEF ConstantsAssumption
    <2>2. kernel' \in [IP -> Absent .. Forever]
      BY <1>3, ConstantsAssumption
         DEF ConstantsAssumption, PreloadBlacklist, TypeOK, Absent, Forever
    <2> QED
      BY <1>3, <2>1, <2>2 DEF TypeOK, PreloadBlacklist, SubnetAddrs, AddrsOf
  <1> QED
    BY <1>1, <1>2, <1>3 DEF Start

\* A new call keeps the types.
LEMMA RequestType ==
    ASSUME TypeOK, NEW g \in Goroutine, Request(g)
    PROVE  TypeOK'
  <1>1. ASSUME NEW t \in Target, Block(g, t) PROVE TypeOK'
    <2> DEFINE c == IF IsLocalWhitelisted(t) THEN CallOf("block", "done", t, "whitelisted")
                                             ELSE CallOf("block", "read", t, "none")
    <2>1. c \in Calls
      BY FirstCalls DEF Stages, Results
    <2>2. Invoke(g, c)
      BY <1>1 DEF Block
    <2> HIDE DEF c
    <2> QED
      BY <1>1, <2>1, <2>2, InvokeType DEF TypeOK, Block, memory, Invoke
  <1>2. ASSUME NEW t \in Target, ForceBlock(g, t) PROVE TypeOK'
    <2> DEFINE c == CallOf("block", "read", t, "none")
    <2>1. c \in Calls
      BY FirstCalls DEF Stages, Results
    <2>2. Invoke(g, c)
      BY <1>2 DEF ForceBlock
    <2> HIDE DEF c
    <2> QED
      BY <1>2, <2>1, <2>2, InvokeType DEF TypeOK, ForceBlock, memory, Invoke, AddrsOf
  <1>3. ASSUME NEW t \in Target, Unblock(g, t) PROVE TypeOK'
    <2> DEFINE c == CallOf("unblock", "read", t, "none")
    <2>1. c \in Calls
      BY FirstCalls DEF Stages, Results
    <2>2. Invoke(g, c)
      BY <1>3 DEF Unblock
    <2> HIDE DEF c
    <2> QED
      BY <1>3, <2>1, <2>2, InvokeType DEF TypeOK, Unblock, memory, Invoke
  <1>4. ASSUME NEW batch \in CloudBatches, ApplyCloud(g, batch) PROVE TypeOK'
    <2> DEFINE all == ToApply(batch)
    <2> DEFINE c == [Idle EXCEPT !.op = "cloud", !.all = all, !.todo = all,
                                 !.at = IF all = {} THEN "done" ELSE "batch"]
    <2>1. all \subseteq Entry
      BY CloudAssumption DEF CloudAssumption, ToApply, Unblacklist, Entry
    <2> HIDE DEF all
    <2>2. c \in Calls
      <3>1. Idle \in Calls
        BY ConstantsAssumption DEF ConstantsAssumption, Idle, Calls, Stages, Results
      <3> DEFINE at == IF all = {} THEN "done" ELSE "batch"
      <3>2. at \in Stages
        BY DEF Stages
      <3> HIDE DEF at
      <3>3. [Idle EXCEPT !.op = "cloud", !.all = all, !.todo = all, !.at = at] \in Calls
        BY <2>1, <3>1, <3>2 DEF Calls
      <3> QED
        BY <3>3 DEF at
    <2>3. Invoke(g, c)
      BY <1>4 DEF ApplyCloud, all
    <2> HIDE DEF c
    <2> QED
      BY <1>4, <2>2, <2>3, InvokeType DEF TypeOK, ApplyCloud, memory, Invoke
  <1> QED
    BY <1>1, <1>2, <1>3, <1>4 DEF Request

\* A step of a call keeps the types.
LEMMA CallStepType ==
    ASSUME TypeOK, NEW g \in Goroutine, CallStep(g)
    PROVE  TypeOK'
  <1> USE DEF TypeOK, memory, history
  <1>1. CASE ReadToBlock(g)
    BY <1>1, CallMoves DEF ReadToBlock, Stages, Results
  <1>2. CASE AddToKernel(g)
    <2>1. kernel' \in [IP -> Absent .. Forever]
      BY <1>2, KernelType, ConstantsAssumption DEF AddToKernel, ConstantsAssumption
    <2> QED
      BY <1>2, <2>1, CallMoves DEF AddToKernel, Stages, Results
  <1>3. CASE AddFails(g)
    BY <1>3, CallMoves DEF AddFails, Stages, Results
  <1>4. CASE CommitBlocked(g)
    BY <1>4, CallMoves DEF CommitBlocked, Calls, Stages, Results
  <1>5. CASE ReadToUnblock(g)
    BY <1>5, CallMoves DEF ReadToUnblock, Stages, Results
  <1>6. CASE DelFromKernel(g)
    <2>1. kernel' \in [IP -> Absent .. Forever]
      BY <1>6, KernelType, ConstantsAssumption DEF DelFromKernel, ConstantsAssumption
    <2> QED
      BY <1>6, <2>1, CallMoves DEF DelFromKernel, Stages, Results
  <1>7. CASE DelFails(g)
    BY <1>7, CallMoves DEF DelFails, Stages, Results, AddrsOf
  <1>8. CASE CommitUnblocked(g)
    BY <1>8, CallMoves DEF CommitUnblocked, Stages, Results
  <1>9. ASSUME NEW e \in call[g].todo, ApplyEntry(g, e) PROVE TypeOK'
    <2>1. e \in Entry
      BY DEF Calls
    <2>2. kernel' \in [IP -> Absent .. Forever]
      <3>1. kernel' \in {kernel, KernelAdd({e.ip}, CloudTimeout), KernelDel({e.ip})}
        BY <1>9 DEF ApplyEntry
      <3>2. kernel \in [IP -> Absent .. Forever]
        OBVIOUS
      <3>3. CloudTimeout \in 0 .. MaxTimeout
        BY ConstantsAssumption DEF ConstantsAssumption
      <3>4. KernelAdd({e.ip}, CloudTimeout) \in [IP -> Absent .. Forever]
        BY ONLY <3>2, <3>3, KernelType
      <3>5. KernelDel({e.ip}) \in [IP -> Absent .. Forever]
        BY ONLY <3>2, <3>3, KernelType
      <3> QED
        BY ONLY <3>1, <3>2, <3>4, <3>5
    <2>3. kernelWhite' \subseteq Target
      BY <1>9, <2>1 DEF ApplyEntry, Entry
    <2>4. call' \in [Goroutine -> Calls]
      <3> DEFINE todo == call[g].todo \ {e}
      <3> DEFINE at == After(todo, call[g].at)
      <3>1. at \in Stages
        BY DEF After, Calls, Stages
      <3>2. todo \in SUBSET Entry
        BY DEF Calls
      <3>3. call' = [call EXCEPT ![g] = [@ EXCEPT !.todo = todo, !.at = at]]
        BY <1>9 DEF ApplyEntry
      <3>4. call[g] \in Calls
        OBVIOUS
      <3> HIDE DEF todo, at
      <3> DEFINE c == [call[g] EXCEPT !.todo = todo, !.at = at]
      <3>5. c \in Calls
        BY <3>1, <3>2, <3>4 DEF Calls
      <3> HIDE DEF c
      <3> QED
        BY <3>3, <3>5 DEF c
    <2> QED
      BY <1>9, <2>2, <2>3, <2>4 DEF ApplyEntry
  <1>10. ASSUME NEW e \in call[g].todo, BatchFails(g, e) PROVE TypeOK'
    <2>1. CASE MayRetry(g)
      <3>1. call[g].tries + 1 \in 0 .. Retry
        BY <2>1, ConstantsAssumption DEF MayRetry, Calls, ConstantsAssumption
      <3>2. call' = [call EXCEPT ![g] = [@ EXCEPT !.todo = call[g].all,
                                                  !.tries = call[g].tries + 1]]
        BY <1>10, <2>1 DEF BatchFails
      <3>3. call[g].all \in SUBSET Entry
        BY DEF Calls
      <3> DEFINE c == [call[g] EXCEPT !.todo = call[g].all, !.tries = call[g].tries + 1]
      <3>5. c \in Calls
        BY <3>1, <3>3 DEF Calls
      <3> HIDE DEF c
      <3>4. call' \in [Goroutine -> Calls]
        BY <3>2, <3>5 DEF c
      <3> QED
        BY <1>10, <3>4 DEF BatchFails
    <2>2. CASE ~MayRetry(g)
      <3>1. call' = [call EXCEPT ![g] = [@ EXCEPT !.todo = call[g].all, !.at = "single"]]
        BY <1>10, <2>2 DEF BatchFails
      <3>2. "single" \in Stages /\ call[g].all \in SUBSET Entry
        BY DEF Stages, Calls
      <3>3. call' \in [Goroutine -> Calls]
        BY <3>1, <3>2 DEF Calls
      <3> QED
        BY <1>10, <3>3 DEF BatchFails
    <2> QED
      BY <2>1, <2>2
  <1>11. ASSUME NEW e \in call[g].todo, EntryFails(g, e) PROVE TypeOK'
    <2>1. e.ip \in Target
      BY DEF Calls, Entry
    <2>2. call' \in [Goroutine -> Calls]
      <3> DEFINE todo == call[g].todo \ {e}
      <3> DEFINE at == After(todo, call[g].at)
      <3> DEFINE failed == call[g].failed \cup {e.ip}
      <3>1. at \in Stages
        BY DEF After, Calls, Stages
      <3>2. todo \in SUBSET Entry /\ failed \in SUBSET Target
        BY <2>1 DEF Calls
      <3>3. call' = [call EXCEPT ![g] = [@ EXCEPT !.todo = todo, !.at = at,
                                                  !.failed = failed]]
        BY <1>11 DEF EntryFails
      <3>4. call[g] \in Calls
        OBVIOUS
      <3> HIDE DEF todo, at, failed
      <3> DEFINE c == [call[g] EXCEPT !.todo = todo, !.at = at, !.failed = failed]
      <3>5. c \in Calls
        BY <3>1, <3>2, <3>4 DEF Calls
      <3> HIDE DEF c
      <3> QED
        BY <3>3, <3>5 DEF c
    <2> QED
      BY <1>11, <2>2 DEF EntryFails, AddrsOf
  <1>12. CASE CommitCloud(g)
    <2>1. \A list, op : Succeeded(g, list, op) \subseteq Target
      BY DEF Succeeded, Calls, Entry
    <2>2. call' \in [Goroutine -> Calls]
      <3> DEFINE res == IF call[g].failed = {} THEN "accepted" ELSE "error"
      <3>1. res \in Results /\ "done" \in Stages
        BY DEF Results, Stages
      <3>2. Finish(g, res)
        BY <1>12 DEF CommitCloud
      <3> HIDE DEF res
      <3> QED
        BY <3>1, <3>2, CallMoves
    <2>3. whitelisted' \subseteq Key
      BY <1>12, <2>1, KeysType DEF CommitCloud
    <2> QED
      BY <1>12, <2>1, <2>2, <2>3 DEF CommitCloud
  <1> QED
    BY <1>1, <1>2, <1>3, <1>4, <1>5, <1>6, <1>7, <1>8, <1>9, <1>10, <1>11, <1>12
       DEF CallStep

\* Every step keeps the types.
LEMMA TypeStep == TypeOK /\ [Next]_vars => TypeOK'
  <1> SUFFICES ASSUME TypeOK, [Next]_vars PROVE TypeOK'
    OBVIOUS
  <1>1. CASE Start
    BY <1>1, StartType
  <1>2. CASE Tick
    BY <1>2, KernelType, ConstantsAssumption
       DEF Tick, TypeOK, memory, history, ConstantsAssumption
  <1>3. CASE Crash
    <2>1. Idle \in Calls
      BY ConstantsAssumption DEF ConstantsAssumption, Idle, Calls, Stages, Results
    <2> QED
      BY <1>3, <2>1 DEF Crash, TypeOK
  <1>4. ASSUME NEW g \in Goroutine, Request(g) PROVE TypeOK'
    BY <1>4, RequestType
  <1>5. ASSUME NEW g \in Goroutine, CallStep(g) PROVE TypeOK'
    BY <1>5, CallStepType
  <1>6. ASSUME NEW g \in Goroutine, Return(g) PROVE TypeOK'
    <2>1. Idle \in Calls
      BY ConstantsAssumption DEF ConstantsAssumption, Idle, Calls, Stages, Results
    <2> QED
      BY <1>6, <2>1 DEF Return, TypeOK, memory, history
  <1>7. CASE UNCHANGED vars
    BY <1>7 DEF vars, TypeOK
  <1> QED
    BY <1>1, <1>2, <1>3, <1>4, <1>5, <1>6, <1>7 DEF Next

\* Every variable keeps its type, however the goroutines interleave: TypeOK is
\* inductive as it stands.
THEOREM TypeCorrect == Spec => []TypeOK
  <1> QED
    BY InitType, TypeStep, PTL DEF Spec

-----------------------------------------------------------------------------
(* The local whitelist.  WhitelistExempt is not inductive: a goroutine that *)
(* passed the check long ago may be about to add the address.  The           *)
(* invariant therefore also speaks of the calls in flight.                   *)

\* The call c may still put ip on the kernel's blacklist.
WillBlock(c, ip) ==
    \/ /\ c.op = "block" /\ c.at \in {"read", "add", "readd"}
       /\ ip \in AddrsOf(c.tgt)
    \/ \E e \in c.all : /\ e.list = "black" /\ e.op = "add"
                        /\ ip \in AddrsOf({e.ip})

Excused(ip) == IsLocalWhitelisted(ip) => ip \in exempt \cup netBlocked

CallsExcused ==
    phase = "running" =>
        \A g \in Goroutine : \A ip \in IP : WillBlock(call[g], ip) => Excused(ip)

CallsWellFormed ==
    /\ \A g \in Goroutine : call[g].todo \subseteq call[g].all
    /\ phase # "running" => netBlocked = {} /\ \A g \in Goroutine : call[g] = Idle

WhitelistInv == TypeOK /\ CallsWellFormed /\ CallsExcused /\ WhitelistExempt

\* What a step of g's call does to the state the invariant speaks of.
Advances(g) ==
    /\ phase = "running"
    /\ UNCHANGED <<phase, localWL, exempt, netBlocked>>
    /\ \A h \in Goroutine \ {g} : call'[h] = call[h]
    /\ call'[g].todo \subseteq call'[g].all
    /\ \A ip \in IP : WillBlock(call'[g], ip) => WillBlock(call[g], ip)
    /\ \A ip \in IP : kernel'[ip] # Absent => InKernel(ip) \/ WillBlock(call[g], ip)

\* A step of a call moves on only the call of its goroutine, which stays the same
\* call.
LEMMA CallStepKeeps ==
    ASSUME TypeOK, CallsWellFormed, NEW g \in Goroutine, CallStep(g)
    PROVE  /\ phase = "running"
           /\ UNCHANGED <<phase, localWL, exempt, netBlocked>>
           /\ \A h \in Goroutine \ {g} : call'[h] = call[h]
           /\ call'[g].op = call[g].op /\ call'[g].tgt = call[g].tgt
           /\ call'[g].all = call[g].all /\ call'[g].todo \subseteq call'[g].all
           /\ disturbed \subseteq disturbed'
  <1> USE DEF TypeOK
  <1>0. call[g] \in Calls
    OBVIOUS
  <1>1. phase = "running"
    <2>1. call[g] # Idle
      BY DEF CallStep, ReadToBlock, AddToKernel, AddFails, CommitBlocked, ReadToUnblock,
             DelFromKernel, DelFails, CommitUnblocked, CommitCloud, At, Idle
    <2> QED
      BY <2>1 DEF CallsWellFormed
  <1>2. UNCHANGED <<phase, localWL, exempt, netBlocked>> /\ disturbed \subseteq disturbed'
    BY DEF CallStep, ReadToBlock, AddToKernel, AddFails, CommitBlocked, ReadToUnblock,
           DelFromKernel, DelFails, CommitUnblocked, ApplyEntry, BatchFails, EntryFails,
           CommitCloud, memory, history
  <1>3. \A h \in Goroutine \ {g} : call'[h] = call[h]
    BY DEF CallStep, ReadToBlock, AddToKernel, AddFails, CommitBlocked, ReadToUnblock,
           DelFromKernel, DelFails, CommitUnblocked, ApplyEntry, BatchFails, EntryFails,
           CommitCloud, Goto, Commit, Finish
  <1> DEFINE Kept == /\ call'[g].op = call[g].op /\ call'[g].tgt = call[g].tgt
                     /\ call'[g].all = call[g].all
                     /\ call'[g].todo \subseteq call'[g].all
  <1>4. Kept
    <2>1. call[g].todo \subseteq call[g].all
      BY DEF CallsWellFormed
    <2>2. ASSUME NEW e \in call[g].todo,
                 ApplyEntry(g, e) \/ BatchFails(g, e) \/ EntryFails(g, e)
          PROVE  Kept
      BY <1>0, <2>1, <2>2 DEF ApplyEntry, BatchFails, EntryFails, Calls
    <2>3. CASE \/ ReadToBlock(g) \/ AddToKernel(g) \/ AddFails(g) \/ CommitBlocked(g)
               \/ ReadToUnblock(g) \/ DelFromKernel(g) \/ DelFails(g) \/ CommitUnblocked(g)
               \/ CommitCloud(g)
      BY <1>0, <2>1, <2>3
         DEF ReadToBlock, AddToKernel, AddFails, CommitBlocked, ReadToUnblock,
             DelFromKernel, DelFails, CommitUnblocked, CommitCloud, Goto, Commit, Finish,
             Calls
    <2> QED
      BY <2>2, <2>3 DEF CallStep
  <1> QED
    BY <1>1, <1>2, <1>3, <1>4

\* The kernel command of a step adds only addresses of its call, and a call adds no
\* other addresses than it was to.
LEMMA CallStepAdvances ==
    ASSUME WhitelistInv, NEW g \in Goroutine, CallStep(g)
    PROVE  Advances(g)
  <1> USE DEF TypeOK, WhitelistInv
  <1>0. call[g] \in Calls
    OBVIOUS
  <1>1. /\ phase = "running"
        /\ UNCHANGED <<phase, localWL, exempt, netBlocked>>
        /\ \A h \in Goroutine \ {g} : call'[h] = call[h]
    BY CallStepKeeps
  <1>4. /\ call'[g].op = call[g].op /\ call'[g].tgt = call[g].tgt
        /\ call'[g].all = call[g].all /\ call'[g].todo \subseteq call'[g].all
    BY CallStepKeeps
  <1>5. \A ip \in IP : WillBlock(call'[g], ip) => WillBlock(call[g], ip)
    <2>1. call[g].op = "block" /\ call'[g].at \in {"read", "add", "readd"}
             => call[g].at \in {"read", "add", "readd"}
      <3> SUFFICES ASSUME call[g].op = "block", call[g].at \notin {"read", "add", "readd"}
                   PROVE  call'[g].at \notin {"read", "add", "readd"}
        OBVIOUS
      <3>1. CASE CommitBlocked(g)
        BY <1>0, <3>1 DEF CommitBlocked, Goto, Calls
      <3>2. ASSUME NEW e \in call[g].todo,
                   ApplyEntry(g, e) \/ BatchFails(g, e) \/ EntryFails(g, e)
            PROVE  call'[g].at \notin {"read", "add", "readd"}
        <4>1. call[g].at \in {"batch", "single"}
          BY <3>2 DEF ApplyEntry, BatchFails, EntryFails, NextEntry
        <4>2. CASE ApplyEntry(g, e)
          BY <1>0, <4>1, <4>2 DEF ApplyEntry, After, Calls
        <4>3. CASE BatchFails(g, e)
          <5>1. CASE MayRetry(g)
            BY <1>0, <4>1, <4>3, <5>1 DEF BatchFails, Calls
          <5>2. CASE ~MayRetry(g)
            BY <1>0, <4>3, <5>2 DEF BatchFails, Calls
          <5> QED
            BY <5>1, <5>2
        <4>4. CASE EntryFails(g, e)
          BY <1>0, <4>1, <4>4 DEF EntryFails, After, Calls
        <4> QED
          BY <3>2, <4>2, <4>3, <4>4
      <3> QED
        BY <3>1, <3>2
           DEF CallStep, ReadToBlock, AddToKernel, AddFails, ReadToUnblock,
               DelFromKernel, DelFails, CommitUnblocked, CommitCloud, At
    <2> QED
      BY <1>4, <2>1 DEF WillBlock
  <1>6. ASSUME NEW ip \in IP, kernel'[ip] # Absent
        PROVE  InKernel(ip) \/ WillBlock(call[g], ip)
    <2>1. CASE AddToKernel(g)
      BY <1>6, <2>1 DEF AddToKernel, At, KernelAdd, WillBlock, InKernel
    <2>2. CASE DelFromKernel(g)
      BY <1>6, <2>2 DEF DelFromKernel, KernelDel, InKernel
    <2>3. ASSUME NEW e \in call[g].todo, ApplyEntry(g, e)
          PROVE  InKernel(ip) \/ WillBlock(call[g], ip)
      <3>1. e \in call[g].all /\ e \in Entry
        BY <1>0 DEF CallsWellFormed, Calls
      <3>2. CASE e.list = "black" /\ e.op = "add"
        <4>1. kernel' = KernelAdd({e.ip}, CloudTimeout)
          BY <2>3, <3>2 DEF ApplyEntry
        <4>2. ip \in AddrsOf({e.ip}) => WillBlock(call[g], ip)
          BY <3>1, <3>2 DEF WillBlock
        <4> QED
          BY <1>6, <4>1, <4>2 DEF KernelAdd, InKernel
      <3>3. CASE e.list = "white"
        <4>1. kernel' = kernel
          BY <2>3, <3>3 DEF ApplyEntry
        <4> QED
          BY <1>6, <4>1 DEF InKernel
      <3>4. CASE e.list = "black" /\ e.op = "del"
        <4>1. kernel' = KernelDel({e.ip})
          BY <2>3, <3>4 DEF ApplyEntry
        <4> QED
          BY <1>6, <4>1 DEF KernelDel, InKernel
      <3> QED
        BY <3>1, <3>2, <3>3, <3>4 DEF Entry
    <2>4. CASE kernel' = kernel
      BY <1>6, <2>4 DEF InKernel
    <2> QED
      BY <2>1, <2>2, <2>3, <2>4
         DEF CallStep, ReadToBlock, AddFails, CommitBlocked, ReadToUnblock,
             DelFails, CommitUnblocked, BatchFails, EntryFails, CommitCloud
  <1> QED
    BY <1>1, <1>4, <1>5, <1>6 DEF Advances

\* A step of a call blocks no whitelisted address that is not excused.
LEMMA CallStepWhitelist ==
    ASSUME WhitelistInv, NEW g \in Goroutine, CallStep(g)
    PROVE  WhitelistInv'
  <1>1. Advances(g)
    BY CallStepAdvances
  <1>2. TypeOK'
    BY CallStepType DEF WhitelistInv
  <1>3. CallsWellFormed'
    BY <1>1 DEF Advances, WhitelistInv, CallsWellFormed
  <1>4. \A ip \in IP : Excused(ip) <=> Excused(ip)'
    BY <1>1 DEF Advances, Excused, IsLocalWhitelisted, AddrsOf, Addrs
  <1>5. ASSUME NEW h \in Goroutine, NEW ip \in IP, WillBlock(call[h], ip)'
        PROVE  Excused(ip)'
    <2>1. WillBlock(call[h], ip)
      BY <1>1, <1>5 DEF Advances, WillBlock
    <2> QED
      BY <1>1, <1>4, <2>1 DEF Advances, WhitelistInv, CallsExcused
  <1>6. ASSUME NEW ip \in IP, InKernel(ip)'
        PROVE  Excused(ip)'
    <2>1. InKernel(ip) \/ WillBlock(call[g], ip)
      BY <1>1, <1>6 DEF Advances, InKernel
    <2>2. Excused(ip)
      BY <1>1, <2>1 DEF Advances, WhitelistInv, CallsExcused, WhitelistExempt, Excused
    <2> QED
      BY <1>4, <2>2
  <1> QED
    BY <1>2, <1>3, <1>5, <1>6 DEF WhitelistInv, CallsExcused, WhitelistExempt, Excused

\* A new call is to a whitelisted address only if the operator forced it, or
\* the address is in a subnet.
LEMMA NewCallExcused ==
    ASSUME WhitelistInv, NEW g \in Goroutine, Request(g), NEW ip \in IP,
           WillBlock(call'[g], ip)
    PROVE  Excused(ip)'
  <1> USE DEF WhitelistInv, TypeOK
  <1>1. localWL' = localWL /\ exempt \subseteq exempt' /\ netBlocked \subseteq netBlocked'
    BY DEF Request, Block, ForceBlock, Unblock, ApplyCloud, Invoke, memory
  <1>2. ASSUME NEW t \in Target, Block(g, t) PROVE Excused(ip)'
    <2>1. ~IsLocalWhitelisted(t) /\ ip \in AddrsOf({t})
      BY <1>2 DEF Block, Invoke, CallOf, Idle, WillBlock, Calls
    <2>2. CASE t \in Net
      <3>1. ip \in SubnetAddrs({t} \cup {e.ip : e \in {}})
        BY <2>1, <2>2 DEF SubnetAddrs, AddrsOf
      <3>2. SubnetAddrs({t} \cup {e.ip : e \in {}}) \subseteq netBlocked'
        BY <1>2, <2>1 DEF Block, Invoke, CallOf, Idle, Targets
      <3> QED
        BY <3>1, <3>2 DEF Excused
    <2>3. CASE t \notin Net
      <3>1. ip = t
        BY <2>1, <2>3 DEF AddrsOf, Addrs
      <3> QED
        BY <1>1, <2>1, <3>1 DEF Excused, IsLocalWhitelisted, AddrsOf, Addrs
    <2> QED
      BY <2>2, <2>3
  <1>3. ASSUME NEW t \in Target, ForceBlock(g, t) PROVE Excused(ip)'
    <2>1. ip \in AddrsOf({t})
      BY <1>3 DEF ForceBlock, Invoke, CallOf, Idle, WillBlock, Calls
    <2> QED
      BY <1>1, <1>3, <2>1 DEF ForceBlock, Excused, IsLocalWhitelisted, AddrsOf, Addrs
  <1>4. ASSUME NEW t \in Target, Unblock(g, t) PROVE FALSE
    BY <1>4 DEF Unblock, Invoke, CallOf, Idle, WillBlock, Calls
  <1>5. ASSUME NEW batch \in CloudBatches, ApplyCloud(g, batch) PROVE Excused(ip)'
    <2> DEFINE all == ToApply(batch)
    <2>1. call'[g].op = "cloud" /\ call'[g].all = all
      BY <1>5 DEF ApplyCloud, Invoke, Idle, Calls
    <2>2. PICK e \in all : e.list = "black" /\ e.op = "add" /\ ip \in AddrsOf({e.ip})
      BY <2>1 DEF WillBlock
    <2>3. e \in batch /\ ~IsLocalWhitelisted(e.ip)
      BY <2>2 DEF ToApply, Unblacklist
    <2>4. e.ip \in Target
      BY <2>3, CloudAssumption DEF CloudAssumption, Entry
    <2>5. CASE e.ip \in Net
      <3>1. ip \in SubnetAddrs({f.ip : f \in all})
        BY <2>2, <2>5 DEF SubnetAddrs, AddrsOf
      <3>2. SubnetAddrs({f.ip : f \in all}) \subseteq netBlocked'
        BY <1>5 DEF ApplyCloud, Invoke, Idle, Targets
      <3> QED
        BY <3>1, <3>2 DEF Excused
    <2>6. CASE e.ip \notin Net
      <3>1. ip = e.ip
        BY <2>2, <2>6 DEF AddrsOf, Addrs
      <3> QED
        BY <1>1, <2>3, <3>1 DEF Excused, IsLocalWhitelisted, AddrsOf, Addrs
    <2> QED
      BY <2>5, <2>6
  <1> QED
    BY <1>2, <1>3, <1>4, <1>5 DEF Request

\* A new call preserves the invariant.
LEMMA RequestWhitelist ==
    ASSUME WhitelistInv, NEW g \in Goroutine, Request(g)
    PROVE  WhitelistInv'
  <1>1. /\ phase = "running" /\ UNCHANGED <<phase, kernel, localWL>>
        /\ exempt \subseteq exempt' /\ netBlocked \subseteq netBlocked'
        /\ \A h \in Goroutine \ {g} : call'[h] = call[h]
    BY DEF Request, Block, ForceBlock, Unblock, ApplyCloud, Invoke, memory, WhitelistInv,
           TypeOK
  <1>2. TypeOK'
    BY RequestType DEF WhitelistInv
  <1>3. call'[g].todo \subseteq call'[g].all
    <2>1. \A op, at, t, res : CallOf(op, at, t, res).todo = CallOf(op, at, t, res).all
      BY DEF CallOf, Idle
    <2>2. CASE \E t \in Target : Block(g, t) \/ ForceBlock(g, t) \/ Unblock(g, t)
      BY <2>1, <2>2 DEF Block, ForceBlock, Unblock, Invoke, WhitelistInv, TypeOK
    <2>3. ASSUME NEW batch \in CloudBatches, ApplyCloud(g, batch)
          PROVE  call'[g].todo = call'[g].all
      BY <2>3 DEF ApplyCloud, Invoke, Idle, WhitelistInv, TypeOK
    <2> QED
      BY <2>2, <2>3 DEF Request
  <1>4. CallsWellFormed'
    BY <1>1, <1>3 DEF WhitelistInv, CallsWellFormed
  <1>5. \A ip \in IP : Excused(ip) => Excused(ip)'
    BY <1>1 DEF Excused, IsLocalWhitelisted, AddrsOf, Addrs
  <1>6. ASSUME NEW h \in Goroutine, NEW ip \in IP, WillBlock(call[h], ip)'
        PROVE  Excused(ip)'
    <2>1. CASE h = g
      BY <1>6, <2>1, NewCallExcused DEF WillBlock, AddrsOf, Addrs
    <2>2. CASE h # g
      <3>1. WillBlock(call[h], ip)
        BY <1>1, <1>6, <2>2 DEF WillBlock
      <3> QED
        BY <1>1, <1>5, <3>1 DEF WhitelistInv, CallsExcused
    <2> QED
      BY <2>1, <2>2
  <1>7. WhitelistExempt'
    BY <1>1, <1>5 DEF WhitelistInv, WhitelistExempt, Excused, InKernel
  <1> QED
    BY <1>2, <1>4, <1>6, <1>7 DEF WhitelistInv, CallsExcused

\* The start establishes the invariant before any goroutine runs.
LEMMA StartWhitelist ==
    ASSUME WhitelistInv, Start
    PROVE  WhitelistInv'
  <1>1. TypeOK'
    BY StartType DEF WhitelistInv
  <1>2. CASE RebuildFromKernel
    BY <1>1, <1>2
       DEF WhitelistInv, CallsWellFormed, CallsExcused, WhitelistExempt, RebuildFromKernel
  <1>3. ASSUME NEW items \in WhitelistConfigs, SyncLocalWhitelist(items) PROVE WhitelistInv'
    <2>1. WhitelistExempt'
      BY <1>3 DEF SyncLocalWhitelist, WhitelistExempt, IsLocalWhitelisted, InKernel, AddrsOf,
                  Addrs
    <2> QED
      BY <1>1, <1>3, <2>1 DEF WhitelistInv, CallsWellFormed, CallsExcused, SyncLocalWhitelist
  <1>4. ASSUME NEW items \in BlacklistConfigs, PreloadBlacklist(items) PROVE WhitelistInv'
    <2>1. /\ phase = "synced" /\ phase' = "running" /\ UNCHANGED <<localWL, call, exempt>>
          /\ netBlocked = {} /\ netBlocked' = SubnetAddrs(items)
          /\ \A g \in Goroutine : call[g] = Idle
      BY <1>4 DEF PreloadBlacklist, WhitelistInv, CallsWellFormed
    <2>2. CallsWellFormed' /\ CallsExcused'
      <3>1. \A g \in Goroutine : call'[g] = Idle
        BY <2>1
      <3>2. \A g \in Goroutine : call'[g].todo = {} /\ call'[g].all = {}
                                  /\ call'[g].op = "none"
        BY <3>1 DEF Idle
      <3> QED
        BY <2>1, <3>2 DEF CallsWellFormed, CallsExcused, WillBlock
    <2>3. ASSUME NEW ip \in IP, InKernel(ip)' PROVE Excused(ip)'
      <3>1. CASE InKernel(ip)
        BY <2>1, <3>1 DEF WhitelistInv, WhitelistExempt, Excused, IsLocalWhitelisted,
                          AddrsOf, Addrs
      <3>2. CASE ~InKernel(ip)
        <4> DEFINE new == {t \in items \ blocked : ~IsLocalWhitelisted(t)}
        <4>1. ip \in AddrsOf(new)
          BY <1>4, <2>3, <3>2 DEF PreloadBlacklist, InKernel, AddrsOf, WhitelistInv, TypeOK
        <4>2. PICK t \in new : ip \in Addrs(t)
          BY <4>1 DEF AddrsOf
        <4>3. CASE t \in Net
          BY <2>1, <4>2, <4>3 DEF SubnetAddrs, AddrsOf, Excused
        <4>4. CASE t \notin Net
          BY <2>1, <4>2, <4>4 DEF Addrs, AddrsOf, Excused, IsLocalWhitelisted
        <4> QED
          BY <4>3, <4>4
      <3> QED
        BY <3>1, <3>2
    <2> QED
      BY <1>1, <2>2, <2>3 DEF WhitelistInv, WhitelistExempt, Excused
  <1> QED
    BY <1>2, <1>3, <1>4 DEF Start

\* Every step preserves the invariant.
LEMMA WhitelistStep == WhitelistInv /\ [Next]_vars => WhitelistInv'
  <1> SUFFICES ASSUME WhitelistInv, [Next]_vars PROVE WhitelistInv'
    OBVIOUS
  <1>0. TypeOK'
    BY TypeStep DEF WhitelistInv
  <1>1. CASE Start
    BY <1>1, StartWhitelist
  <1>2. CASE Tick
    <2>1. \A ip \in IP : InKernel(ip)' => InKernel(ip)
      BY <1>2 DEF Tick, Countdown, InKernel, Absent
    <2> QED
      BY <1>0, <1>2, <2>1
         DEF Tick, memory, history, WhitelistInv, CallsWellFormed, CallsExcused, WillBlock,
             Excused, WhitelistExempt, IsLocalWhitelisted, AddrsOf, Addrs
  <1>3. CASE Crash
    BY <1>0, <1>3 DEF Crash, WhitelistInv, CallsWellFormed, CallsExcused, WhitelistExempt,
                      Idle
  <1>4. ASSUME NEW g \in Goroutine, Request(g) PROVE WhitelistInv'
    BY <1>4, RequestWhitelist
  <1>5. ASSUME NEW g \in Goroutine, CallStep(g) PROVE WhitelistInv'
    BY <1>5, CallStepWhitelist
  <1>6. ASSUME NEW g \in Goroutine, Return(g) PROVE WhitelistInv'
    <2>1. \A h \in Goroutine : call'[h] = Idle \/ call'[h] = call[h]
      BY <1>6 DEF Return, WhitelistInv, TypeOK
    <2>2. ASSUME NEW h \in Goroutine, NEW ip \in IP, WillBlock(call[h], ip)'
          PROVE  WillBlock(call[h], ip)
      BY <2>1, <2>2 DEF WillBlock, Idle
    <2> QED
      BY <1>0, <1>6, <2>1, <2>2
         DEF Return, memory, history, WhitelistInv, CallsWellFormed, CallsExcused,
             Excused, WhitelistExempt, IsLocalWhitelisted, AddrsOf, Addrs, InKernel, Idle
  <1>7. CASE UNCHANGED vars
    BY <1>7 DEF vars, WhitelistInv, TypeOK, CallsWellFormed, CallsExcused, WillBlock,
                Excused, WhitelistExempt, IsLocalWhitelisted, AddrsOf, Addrs, InKernel
  <1> QED
    BY <1>1, <1>2, <1>3, <1>4, <1>5, <1>6, <1>7 DEF Next

\* The invariant holds at first, when nothing is whitelisted.
LEMMA InitWhitelist == Init => WhitelistInv
  BY InitType DEF Init, WhitelistInv, CallsWellFormed, CallsExcused, WhitelistExempt, Idle

\* The absolute priority of the local whitelist, for any number of goroutines
\* that call Block, Unblock and ApplyCloud with any interleaving: a whitelisted
\* address is on the kernel's blacklist only if an operator forced it, the start
\* failed to delete it, or it was blocked as part of a subnet.
THEOREM LocalWhitelist == Spec => []WhitelistExempt
  <1>1. WhitelistInv => WhitelistExempt
    BY DEF WhitelistInv
  <1> QED
    BY <1>1, InitWhitelist, WhitelistStep, PTL DEF Spec

-----------------------------------------------------------------------------
(* The maps and the kernel.  Agreement and HonestResult speak of calls that   *)
(* are over; the invariant says what is true of an address while the one call *)
(* that changes it is where it is.                                            *)

BlackMatch(ip) ==
    /\ InKernel(ip) => ip \in blocked
    /\ ~SetHasTimeout /\ ip \in blocked => InKernel(ip)

WhiteMatch(ip) == CloudKey(ip) \in whitelisted => ip \in kernelWhite

\* The command of a cloud entry was given to the kernel, and nobody undid it.
EntryHolds(e) ==
    /\ e.list = "black" /\ e.op = "add" => (~SetHasTimeout => InKernel(e.ip))
    /\ e.list = "black" /\ e.op = "del" => ~InKernel(e.ip)
    /\ e.list = "white" /\ e.op = "add" => e.ip \in kernelWhite

\* What the maps, the kernel and the answer are while c is the only call on ip.
LocalProgress(c, ip) ==
    /\ WhiteMatch(ip)
    /\ c.at # "commit" => BlackMatch(ip)
    /\ c.at \in {"add", "readd"} => ip \notin blocked
    /\ c.at = "commit" /\ c.op = "block" => (~SetHasTimeout => InKernel(ip))
    /\ c.at = "commit" /\ c.op = "unblock" => ~InKernel(ip)
    /\ c.at = "done" =>
          /\ c.res \in {"accepted", "already"} /\ ~SetHasTimeout => InKernel(ip)
          /\ c.res \in {"removed", "notBlocked"} => ~InKernel(ip)

CloudProgress(c, ip) ==
    /\ c.at = "done" => BlackMatch(ip) /\ WhiteMatch(ip)
    /\ c.at # "done" =>
          /\ \A e \in c.all \ c.todo : e.ip = ip => EntryHolds(e)
          /\ (\A e \in c.all : e.ip = ip => e.list = "white") => BlackMatch(ip)
          /\ (\A e \in c.all : e.ip = ip => e.list = "black") => WhiteMatch(ip)

Progress(c, ip) ==
    /\ c.op = "cloud" => CloudProgress(c, ip)
    /\ c.op # "cloud" => LocalProgress(c, ip)

\* A batch has one entry for an address, but that a new whitelist member also
\* leaves the blacklist.
Consistent(all) ==
    \A e, f \in all : e.ip = f.ip /\ e.ip \in IP =>
        /\ e.list = f.list => e = f
        /\ e.list = "black" /\ f.list = "white" => e.op = "del" /\ f.op = "add"

LocalShape(c, stages, results) ==
    /\ c.all = {} /\ \E t \in Target : c.tgt = {t}
    /\ c.at \in stages /\ c.res \in results

CloudShape(c) ==
    /\ c.tgt = {} /\ Consistent(c.all)
    /\ c.at \in {"batch", "single", "commit", "done"}
    /\ c.at = "commit" => c.todo = {}

CallShape(c) ==
    /\ c.op = "none" => c = Idle
    /\ c.op = "block" =>
          LocalShape(c, {"read", "add", "readd", "commit", "done"},
                     {"none", "accepted", "already", "exists", "whitelisted", "error"})
    /\ c.op = "unblock" =>
          LocalShape(c, {"read", "del", "commit", "done"},
                     {"none", "removed", "notBlocked", "error"})
    /\ c.op = "cloud" => CloudShape(c)

\* The history covers what the calls in flight may break.
Covered(c) ==
    /\ SubnetAddrs(Targets(c)) \subseteq disturbed
    /\ AddrsOf(c.failed) \subseteq disturbed
    /\ c.op = "unblock" /\ c.at = "commit" /\ c.res = "error"
          => AddrsOf(c.tgt) \subseteq disturbed

Alone(ip) ==
    \A g, h \in Goroutine : Touches(call[g], ip) /\ Touches(call[h], ip) => g = h

Settled(ip) ==
    /\ (\A g \in Goroutine : ~Touches(call[g], ip)) => BlackMatch(ip) /\ WhiteMatch(ip)
    /\ \A g \in Goroutine : Touches(call[g], ip) => Progress(call[g], ip)

CallsCovered == \A g \in Goroutine : CallShape(call[g]) /\ Covered(call[g])

StoppedForgets == phase = "stopped" => blocked = {} /\ whitelisted = {}

Untimed == ~SetHasTimeout => \A ip \in IP : kernel[ip] \in {Absent, Forever}

AllSettled ==
    \A ip \in IP \ disturbed : Alone(ip) /\ (phase # "stopped" => Settled(ip))

AgreementInv ==
    WhitelistInv /\ CallsCovered /\ StoppedForgets /\ Untimed /\ AllSettled

\* The state says of ip what it did, but that a timer may have run out.
SameAddress(ip) ==
    /\ InKernel(ip)' => InKernel(ip)
    /\ ~SetHasTimeout /\ InKernel(ip) => InKernel(ip)'
    /\ ip \in blocked' <=> ip \in blocked
    /\ CloudKey(ip) \in whitelisted' <=> CloudKey(ip) \in whitelisted
    /\ ip \in kernelWhite' <=> ip \in kernelWhite

\* The cloud's key of an address stands for it alone, and is never a local one.
LEMMA KeysOfAddress ==
    ASSUME NEW ip \in IP, NEW ts
    PROVE  /\ CloudKey(ip) \in CloudKeys(ts) <=> ip \in ts
           /\ CloudKey(ip) \notin LocalKeys(ts)
  BY ConstantsAssumption
     DEF ConstantsAssumption, CloudKey, CloudKeys, LocalKey, LocalKeys

\* What agrees still agrees when nothing changes for the address.
LEMMA SameMatch ==
    ASSUME NEW ip \in IP, SameAddress(ip)
    PROVE  (BlackMatch(ip) => BlackMatch(ip)') /\ (WhiteMatch(ip) => WhiteMatch(ip)')
  BY DEF SameAddress, BlackMatch, WhiteMatch

\* A call that does not move is as far as it was when nothing changes for its address.
LEMMA SameProgress ==
    ASSUME NEW ip \in IP, SameAddress(ip), NEW g \in Goroutine, call'[g] = call[g],
           Progress(call[g], ip)
    PROVE  Progress(call[g], ip)'
  <1>1. \A e : e.ip = ip /\ EntryHolds(e) => EntryHolds(e)'
    BY DEF EntryHolds, SameAddress
  <1>2. CloudProgress(call[g], ip) => CloudProgress(call[g], ip)'
    BY <1>1, SameMatch DEF CloudProgress
  <1>3. LocalProgress(call[g], ip) => LocalProgress(call[g], ip)'
    BY SameMatch DEF LocalProgress, SameAddress
  <1> QED
    BY <1>2, <1>3 DEF Progress

\* Outside the history an address is touched by its own name only, never as one of a
\* subnet.
LEMMA TouchedByName ==
    ASSUME TypeOK, CallsCovered, NEW g \in Goroutine, NEW ip \in IP \ disturbed
    PROVE  /\ ip \in AddrsOf(call[g].tgt) <=> ip \in call[g].tgt
           /\ \A e \in call[g].all : ip \in AddrsOf({e.ip}) <=> ip = e.ip
           /\ Touches(call[g], ip) <=> \/ ip \in call[g].tgt
                                       \/ \E e \in call[g].all : e.ip = ip
           /\ ip \notin call[g].failed
           /\ ip \in call[g].tgt => call[g].tgt = {ip} /\ call[g].op \in {"block", "unblock"}
  <1>1. \A t \in Targets(call[g]) : ip \in Addrs(t) <=> ip = t
    BY ConstantsAssumption
       DEF ConstantsAssumption, CallsCovered, Covered, SubnetAddrs, AddrsOf, Addrs
  <1>2. call[g].tgt \subseteq Targets(call[g]) /\ \A e \in call[g].all : e.ip \in Targets(call[g])
    BY DEF Targets
  <1>3. ip \notin call[g].failed
    BY ConstantsAssumption DEF ConstantsAssumption, CallsCovered, Covered, AddrsOf, Addrs
  <1>4. ip \in call[g].tgt => call[g].tgt = {ip} /\ call[g].op \in {"block", "unblock"}
    BY DEF TypeOK, Calls, CallsCovered, CallShape, LocalShape, CloudShape, Idle
  <1>5. ip \in AddrsOf(call[g].tgt) <=> ip \in call[g].tgt
    BY <1>1, <1>2 DEF AddrsOf
  <1>6. \A e \in call[g].all : ip \in AddrsOf({e.ip}) <=> ip = e.ip
    BY <1>1, <1>2 DEF AddrsOf
  <1>7. Touches(call[g], ip) <=> \/ ip \in call[g].tgt
                                 \/ \E e \in call[g].all : e.ip = ip
    BY <1>1 DEF Touches, Targets, AddrsOf
  <1> QED
    BY <1>3, <1>4, <1>5, <1>6, <1>7

\* A step of a call that does not touch the address changes nothing of it.
LEMMA CallStepElsewhere ==
    ASSUME AgreementInv, NEW g \in Goroutine, CallStep(g), NEW ip \in IP \ disturbed,
           ~Touches(call[g], ip)
    PROVE  SameAddress(ip)
  <1> USE DEF AgreementInv, WhitelistInv
  <1> DEFINE Same == /\ kernel'[ip] = kernel[ip]
                     /\ ip \in blocked' <=> ip \in blocked
                     /\ CloudKey(ip) \in whitelisted' <=> CloudKey(ip) \in whitelisted
                     /\ ip \in kernelWhite' <=> ip \in kernelWhite
  <1> SUFFICES Same
    BY DEF SameAddress, InKernel
  <1>1. /\ ip \notin call[g].tgt /\ ip \notin AddrsOf(call[g].tgt)
        /\ \A e \in call[g].all : e.ip # ip /\ ip \notin AddrsOf({e.ip})
    BY TouchedByName
  <1>2. CASE AddToKernel(g)
    BY <1>1, <1>2 DEF AddToKernel, KernelAdd, memory
  <1>3. CASE DelFromKernel(g)
    BY <1>1, <1>3 DEF DelFromKernel, KernelDel, memory
  <1>4. CASE CommitBlocked(g) \/ CommitUnblocked(g)
    BY <1>1, <1>4 DEF CommitBlocked, CommitUnblocked
  <1>5. CASE CommitCloud(g)
    <2>1. \A list, op : ip \notin Succeeded(g, list, op)
      BY <1>1 DEF Succeeded
    <2> QED
      BY <1>5, <2>1, KeysOfAddress DEF CommitCloud
  <1>6. ASSUME NEW e \in call[g].todo, ApplyEntry(g, e) PROVE Same
    <2>1. e.ip # ip /\ ip \notin AddrsOf({e.ip})
      BY <1>1 DEF CallsWellFormed
    <2>2. kernel' \in {kernel, KernelAdd({e.ip}, CloudTimeout), KernelDel({e.ip})}
      BY <1>6 DEF ApplyEntry
    <2>3. kernelWhite' \in {kernelWhite, kernelWhite \cup {e.ip}, kernelWhite \ {e.ip}}
      BY <1>6 DEF ApplyEntry
    <2> QED
      BY <1>6, <2>1, <2>2, <2>3 DEF ApplyEntry, KernelAdd, KernelDel, memory
  <1>7. CASE \/ ReadToBlock(g) \/ AddFails(g) \/ ReadToUnblock(g) \/ DelFails(g)
             \/ \E e \in call[g].todo : BatchFails(g, e) \/ EntryFails(g, e)
    BY <1>7 DEF ReadToBlock, AddFails, ReadToUnblock, DelFails, BatchFails, EntryFails, memory
  <1> QED
    BY <1>2, <1>3, <1>4, <1>5, <1>6, <1>7 DEF CallStep

\* Absent and the timer of an entry differ.
LEMMA Added ==
    ASSUME NEW timeout \in 0 .. MaxTimeout
    PROVE  /\ EntryTimer(timeout) # Absent /\ Forever # Absent
           /\ ~SetHasTimeout => EntryTimer(timeout) = Forever
  BY ConstantsAssumption DEF ConstantsAssumption, EntryTimer, Forever, Absent

\* Block of an address comes one step further.
LEMMA BlockProgress ==
    ASSUME AgreementInv, NEW g \in Goroutine, NEW ip \in IP \ disturbed,
           ip \in call[g].tgt, phase # "stopped",
           ReadToBlock(g) \/ AddToKernel(g) \/ AddFails(g) \/ CommitBlocked(g)
    PROVE  Progress(call[g], ip)'
  <1> USE DEF AgreementInv, WhitelistInv
  <1>1. call[g].tgt = {ip} /\ call[g] \in Calls
    BY TouchedByName DEF TypeOK
  <1>2. call[g].op = "block" /\ LocalProgress(call[g], ip)
    BY TouchedByName
       DEF ReadToBlock, AddToKernel, AddFails, CommitBlocked, At, AllSettled, Settled, Progress
  <1>3. call'[g].op = "block"
    BY <1>1, <1>2 DEF ReadToBlock, AddToKernel, AddFails, CommitBlocked, Goto, Commit, Finish,
                      Calls, TypeOK
  <1> DEFINE c == call'[g]
  <1>4. CASE ReadToBlock(g)
    <2>1. kernel' = kernel /\ blocked' = blocked /\ WhiteMatch(ip)'
      BY <1>2, <1>4 DEF ReadToBlock, memory, LocalProgress, WhiteMatch
    <2>2. BlackMatch(ip)
      BY <1>2, <1>4 DEF ReadToBlock, At, LocalProgress
    <2>3. IF ip \in blocked THEN c.at = "done" /\ c.res = "already" ELSE c.at = "add"
      BY <1>1, <1>4 DEF ReadToBlock, Goto, Finish, Calls, TypeOK
    <2> QED
      BY <1>3, <2>1, <2>2, <2>3 DEF Progress, LocalProgress, BlackMatch, InKernel
  <1>5. CASE AddToKernel(g)
    <2>1. WhiteMatch(ip)' /\ c.at = "commit"
      BY <1>1, <1>2, <1>5
         DEF AddToKernel, Commit, memory, LocalProgress, WhiteMatch, Calls, TypeOK
    <2>2. kernel'[ip] # Absent
      <3>1. ip \in AddrsOf(call[g].tgt)
        BY TouchedByName
      <3> QED
        BY <1>5, <3>1, Added, ConstantsAssumption
           DEF ConstantsAssumption, AddToKernel, KernelAdd
    <2> QED
      BY <1>3, <2>1, <2>2 DEF Progress, LocalProgress, InKernel
  <1>6. CASE AddFails(g)
    <2>1. kernel' = kernel /\ blocked' = blocked /\ WhiteMatch(ip)'
      BY <1>2, <1>6 DEF AddFails, memory, LocalProgress, WhiteMatch
    <2>2. BlackMatch(ip) /\ ip \notin blocked
      BY <1>2, <1>6 DEF AddFails, At, LocalProgress
    <2>3. ~InKernel(ip) /\ ip \in AddrsOf(call[g].tgt)
      BY <2>2, TouchedByName DEF BlackMatch
    <2>4. c.at = "readd" \/ (c.at = "done" /\ c.res = "error")
      <3>1. ~(\A x \in AddrsOf(call[g].tgt) : InKernel(x))
        BY <2>3
      <3>2. Goto(g, "readd") \/ Finish(g, "error")
        BY <1>6, <3>1 DEF AddFails
      <3> QED
        BY <1>1, <3>2 DEF Goto, Finish, Calls, TypeOK
    <2> QED
      BY <1>3, <2>1, <2>2, <2>4 DEF Progress, LocalProgress, BlackMatch, InKernel
  <1>7. CASE CommitBlocked(g)
    <2>1. /\ kernel' = kernel /\ blocked' = blocked \cup {ip} /\ WhiteMatch(ip)'
          /\ c.at = "done" /\ c.res = call[g].res
      BY <1>1, <1>2, <1>7
         DEF CommitBlocked, LocalProgress, WhiteMatch, Goto, Calls, TypeOK
    <2>2. ~SetHasTimeout => InKernel(ip)
      BY <1>2, <1>7 DEF CommitBlocked, At, LocalProgress
    <2>3. c.res \notin {"removed", "notBlocked"}
      BY <1>2, <2>1 DEF CallsCovered, CallShape, LocalShape
    <2> QED
      BY <1>3, <2>1, <2>2, <2>3 DEF Progress, LocalProgress, BlackMatch, InKernel
  <1> QED
    BY <1>4, <1>5, <1>6, <1>7

\* Unblock of an address comes one step further, unless its deletion failed.
LEMMA UnblockProgress ==
    ASSUME AgreementInv, NEW g \in Goroutine, NEW ip \in IP \ disturbed,
           ip \in call[g].tgt, phase # "stopped", ip \notin disturbed',
           ReadToUnblock(g) \/ DelFromKernel(g) \/ DelFails(g) \/ CommitUnblocked(g)
    PROVE  Progress(call[g], ip)'
  <1> USE DEF AgreementInv, WhitelistInv
  <1>1. call[g].tgt = {ip} /\ call[g] \in Calls /\ ip \in AddrsOf(call[g].tgt)
    BY TouchedByName DEF TypeOK
  <1>2. call[g].op = "unblock" /\ LocalProgress(call[g], ip)
    BY TouchedByName
       DEF ReadToUnblock, DelFromKernel, DelFails, CommitUnblocked, At, AllSettled, Settled,
           Progress
  <1>3. call'[g].op = "unblock"
    BY <1>1, <1>2 DEF ReadToUnblock, DelFromKernel, DelFails, CommitUnblocked, Goto, Commit,
                      Finish, Calls, TypeOK
  <1> DEFINE c == call'[g]
  <1>4. CASE ReadToUnblock(g)
    <2>1. kernel' = kernel /\ blocked' = blocked /\ WhiteMatch(ip)'
      BY <1>2, <1>4 DEF ReadToUnblock, memory, LocalProgress, WhiteMatch
    <2>2. BlackMatch(ip)
      BY <1>2, <1>4 DEF ReadToUnblock, At, LocalProgress
    <2>3. IF ip \in blocked THEN c.at = "del" ELSE c.at = "done" /\ c.res = "notBlocked"
      BY <1>1, <1>4 DEF ReadToUnblock, Goto, Finish, Calls, TypeOK
    <2> QED
      BY <1>3, <2>1, <2>2, <2>3 DEF Progress, LocalProgress, BlackMatch, InKernel
  <1>5. CASE DelFromKernel(g)
    <2>1. WhiteMatch(ip)' /\ c.at = "commit"
      BY <1>1, <1>2, <1>5
         DEF DelFromKernel, Commit, memory, LocalProgress, WhiteMatch, Calls, TypeOK
    <2>2. kernel'[ip] = Absent
      BY <1>1, <1>5 DEF DelFromKernel, KernelDel
    <2> QED
      BY <1>3, <2>1, <2>2 DEF Progress, LocalProgress, InKernel
  <1>6. CASE DelFails(g)
    BY <1>1, <1>6 DEF DelFails
  <1>7. CASE CommitUnblocked(g)
    <2>1. /\ kernel' = kernel /\ blocked' = blocked \ {ip} /\ WhiteMatch(ip)'
          /\ c.at = "done" /\ c.res = call[g].res
      BY <1>1, <1>2, <1>7
         DEF CommitUnblocked, LocalProgress, WhiteMatch, Goto, Calls, TypeOK
    <2>2. ~InKernel(ip)
      BY <1>2, <1>7 DEF CommitUnblocked, At, LocalProgress
    <2>3. c.res \notin {"accepted", "already"}
      BY <1>2, <2>1 DEF CallsCovered, CallShape, LocalShape
    <2> QED
      BY <1>3, <2>1, <2>2, <2>3 DEF Progress, LocalProgress, BlackMatch, InKernel
  <1> QED
    BY <1>4, <1>5, <1>6, <1>7

\* ApplyCloud comes one step further with an address, unless its entry failed.
LEMMA CloudEntryProgress ==
    ASSUME AgreementInv, NEW g \in Goroutine, NEW ip \in IP \ disturbed,
           Touches(call[g], ip), phase # "stopped", ip \notin disturbed',
           NEW e \in call[g].todo, ApplyEntry(g, e) \/ BatchFails(g, e) \/ EntryFails(g, e)
    PROVE  Progress(call[g], ip)'
  <1> USE DEF AgreementInv, WhitelistInv
  <1>0. /\ call[g] \in Calls /\ call[g].at \in {"batch", "single"}
        /\ e \in call[g].all /\ call[g].todo \subseteq call[g].all
        /\ blocked' = blocked /\ whitelisted' = whitelisted
    BY DEF ApplyEntry, BatchFails, EntryFails, NextEntry, CallsWellFormed, TypeOK, memory
  <1>1. call[g].op = "cloud" /\ CloudShape(call[g])
    BY <1>0 DEF Calls, CallsCovered, CallShape, LocalShape, Idle
  <1>2. CloudProgress(call[g], ip)
    BY <1>1 DEF AllSettled, Settled, Progress
  <1>3. call'[g].op = "cloud" /\ call'[g].all = call[g].all
    BY <1>1, CallStepKeeps DEF CallStep
  <1> DEFINE c == call'[g]
  <1>4. CASE ApplyEntry(g, e)
    <2>1. c.todo = call[g].todo \ {e} /\ c.at # "done"
      BY <1>0, <1>4 DEF ApplyEntry, After, Calls, TypeOK
    <2>2. \/ /\ e.list = "black" /\ kernelWhite' = kernelWhite
             /\ kernel' = IF e.op = "add" THEN KernelAdd({e.ip}, CloudTimeout)
                                           ELSE KernelDel({e.ip})
          \/ /\ e.list = "white" /\ kernel' = kernel
             /\ kernelWhite' = IF e.op = "add" THEN kernelWhite \cup {e.ip}
                                               ELSE kernelWhite \ {e.ip}
      BY <1>4 DEF ApplyEntry
    <2>3. ip \in AddrsOf({e.ip}) <=> ip = e.ip
      BY <1>0, TouchedByName
    <2>4. e.ip # ip => kernel'[ip] = kernel[ip] /\ (ip \in kernelWhite' <=> ip \in kernelWhite)
      BY <2>2, <2>3 DEF KernelAdd, KernelDel
    <2>5. e.ip = ip => EntryHolds(e)'
      BY <2>2, <2>3, Added, ConstantsAssumption
         DEF ConstantsAssumption, EntryHolds, InKernel, KernelAdd, KernelDel
    <2>6. ASSUME NEW f \in call[g].all \ c.todo, f.ip = ip PROVE EntryHolds(f)'
      <3>1. CASE f = e
        BY <2>5, <2>6, <3>1
      <3>2. CASE f # e
        <4>1. EntryHolds(f)
          BY <1>0, <1>2, <2>1, <2>6, <3>2 DEF CloudProgress
        <4>2. e.ip = ip => e.list # f.list
          BY <1>0, <1>1, <2>6, <3>2 DEF CloudShape, Consistent
        <4> QED
          BY <2>2, <2>4, <2>6, <4>1, <4>2 DEF EntryHolds, InKernel
      <3> QED
        BY <3>1, <3>2
    <2>7. ASSUME \A f \in call[g].all : f.ip = ip => f.list = "white"
          PROVE  BlackMatch(ip)'
      BY <1>0, <1>2, <2>2, <2>4, <2>7 DEF CloudProgress, BlackMatch, InKernel
    <2>8. ASSUME \A f \in call[g].all : f.ip = ip => f.list = "black"
          PROVE  WhiteMatch(ip)'
      BY <1>0, <1>2, <2>2, <2>4, <2>8 DEF CloudProgress, WhiteMatch
    <2> QED
      BY <1>3, <2>1, <2>6, <2>7, <2>8 DEF Progress, CloudProgress
  <1>5. CASE BatchFails(g, e)
    <2>1. c.todo = call[g].all /\ c.at # "done"
      <3>1. CASE MayRetry(g)
        BY <1>0, <1>5, <3>1 DEF BatchFails, Calls, TypeOK
      <3>2. CASE ~MayRetry(g)
        BY <1>0, <1>5, <3>2 DEF BatchFails, Calls, TypeOK
      <3> QED
        BY <3>1, <3>2
    <2>2. (BlackMatch(ip) => BlackMatch(ip)') /\ (WhiteMatch(ip) => WhiteMatch(ip)')
      BY <1>0, <1>5 DEF BatchFails, BlackMatch, WhiteMatch, InKernel
    <2> QED
      BY <1>0, <1>2, <1>3, <2>1, <2>2 DEF Progress, CloudProgress
  <1>6. CASE EntryFails(g, e)
    <2>1. e.ip # ip
      BY <1>0, <1>6, TouchedByName DEF EntryFails
    <2>2. c.todo = call[g].todo \ {e} /\ c.at # "done"
      BY <1>0, <1>6 DEF EntryFails, After, Calls, TypeOK
    <2>3. /\ (BlackMatch(ip) => BlackMatch(ip)') /\ (WhiteMatch(ip) => WhiteMatch(ip)')
          /\ \A f : EntryHolds(f) => EntryHolds(f)'
      BY <1>0, <1>6 DEF EntryFails, BlackMatch, WhiteMatch, EntryHolds, InKernel
    <2>4. \A f \in call[g].all \ c.todo : f.ip = ip => EntryHolds(f)
      BY <1>0, <1>2, <2>1, <2>2 DEF CloudProgress
    <2> QED
      BY <1>0, <1>2, <1>3, <2>2, <2>3, <2>4 DEF Progress, CloudProgress
  <1> QED
    BY <1>4, <1>5, <1>6

\* When ApplyCloud writes the maps, they agree with the kernel on its addresses.
LEMMA CloudCommitProgress ==
    ASSUME AgreementInv, NEW g \in Goroutine, NEW ip \in IP \ disturbed,
           Touches(call[g], ip), phase # "stopped", CommitCloud(g)
    PROVE  Progress(call[g], ip)'
  <1> USE DEF AgreementInv, WhitelistInv
  <1>0. call[g] \in Calls /\ call[g].op = "cloud" /\ call[g].at = "commit"
    BY DEF CommitCloud, At, TypeOK
  <1>1. CloudShape(call[g]) /\ call[g].todo = {} /\ CloudProgress(call[g], ip)
    BY <1>0 DEF CallsCovered, CallShape, CloudShape, AllSettled, Settled, Progress
  <1>2. call'[g].op = "cloud" /\ call'[g].at = "done"
    BY <1>0 DEF CommitCloud, Finish, Calls, TypeOK
  <1>3. \A list, op : ip \in Succeeded(g, list, op)
                        <=> \E e \in call[g].all : e.ip = ip /\ e.list = list /\ e.op = op
    <2>1. ip \notin call[g].failed
      BY TouchedByName
    <2> QED
      BY <2>1 DEF Succeeded
  <1>4. \A e \in call[g].all : e.ip = ip => EntryHolds(e)
    BY <1>0, <1>1 DEF CloudProgress
  <1>5. \A e \in call[g].all : e.list \in {"black", "white"} /\ e.op \in {"add", "del"}
    BY <1>0 DEF Calls, Entry
  <1>6. \A e, f \in call[g].all : e.ip = ip /\ f.ip = ip /\ e.list = f.list => e = f
    BY <1>1 DEF CloudShape, Consistent
  <1>7. BlackMatch(ip)'
    <2>1. kernel' = kernel
      BY DEF CommitCloud
    <2>2. ASSUME NEW e \in call[g].all, e.ip = ip, e.list = "black", e.op = "add"
          PROVE  BlackMatch(ip)'
      <3>1. ip \in Succeeded(g, "black", "add") /\ ip \notin Succeeded(g, "black", "del")
        BY <1>3, <1>6, <2>2
      <3>2. ip \in blocked'
        BY <3>1 DEF CommitCloud
      <3> QED
        BY <1>4, <2>1, <2>2, <3>2 DEF EntryHolds, BlackMatch, InKernel
    <2>3. ASSUME NEW e \in call[g].all, e.ip = ip, e.list = "black", e.op = "del"
          PROVE  BlackMatch(ip)'
      <3>1. ip \notin blocked'
        BY <1>3, <2>3 DEF CommitCloud
      <3> QED
        BY <1>4, <2>1, <2>3, <3>1 DEF EntryHolds, BlackMatch, InKernel
    <2>4. CASE \A e \in call[g].all : e.ip = ip => e.list = "white"
      <3>1. ip \notin Succeeded(g, "black", "add") /\ ip \notin Succeeded(g, "black", "del")
        BY <1>3, <2>4
      <3> QED
        BY <1>0, <1>1, <2>1, <2>4, <3>1 DEF CommitCloud, CloudProgress, BlackMatch, InKernel
    <2> QED
      BY <1>5, <2>2, <2>3, <2>4
  <1>8. WhiteMatch(ip)'
    <2>1. kernelWhite' = kernelWhite
      BY DEF CommitCloud
    <2>2. ASSUME NEW e \in call[g].all, e.ip = ip, e.list = "white", e.op = "add"
          PROVE  WhiteMatch(ip)'
      BY <1>4, <2>1, <2>2 DEF EntryHolds, WhiteMatch
    <2>3. ASSUME NEW e \in call[g].all, e.ip = ip, e.list = "white", e.op = "del"
          PROVE  WhiteMatch(ip)'
      <3>1. CloudKey(ip) \notin whitelisted'
        BY <1>3, <2>3, KeysOfAddress DEF CommitCloud
      <3> QED
        BY <3>1 DEF WhiteMatch
    <2>4. CASE \A e \in call[g].all : e.ip = ip => e.list = "black"
      <3>1. ip \notin Succeeded(g, "white", "add")
        BY <1>3, <2>4
      <3> QED
        BY <1>0, <1>1, <2>1, <2>4, <3>1, KeysOfAddress
           DEF CommitCloud, CloudProgress, WhiteMatch
    <2> QED
      BY <1>5, <2>2, <2>3, <2>4
  <1> QED
    BY <1>2, <1>7, <1>8 DEF Progress, CloudProgress

\* Whatever step a call takes, its address is where the next step expects it.
LEMMA CallStepProgress ==
    ASSUME AgreementInv, NEW g \in Goroutine, NEW ip \in IP \ disturbed,
           Touches(call[g], ip), phase # "stopped", ip \notin disturbed', CallStep(g)
    PROVE  Progress(call[g], ip)'
  <1> USE DEF AgreementInv, WhitelistInv
  <1>1. call[g].op \in {"block", "unblock"} => ip \in call[g].tgt
    BY TouchedByName DEF CallsCovered, CallShape, LocalShape
  <1>2. CASE ReadToBlock(g) \/ AddToKernel(g) \/ AddFails(g) \/ CommitBlocked(g)
    BY <1>1, <1>2, BlockProgress DEF ReadToBlock, AddToKernel, AddFails, CommitBlocked, At
  <1>3. CASE ReadToUnblock(g) \/ DelFromKernel(g) \/ DelFails(g) \/ CommitUnblocked(g)
    BY <1>1, <1>3, UnblockProgress
       DEF ReadToUnblock, DelFromKernel, DelFails, CommitUnblocked, At
  <1>4. CASE \E e \in call[g].todo : ApplyEntry(g, e) \/ BatchFails(g, e) \/ EntryFails(g, e)
    BY <1>4, CloudEntryProgress
  <1>5. CASE CommitCloud(g)
    BY <1>5, CloudCommitProgress
  <1> QED
    BY <1>2, <1>3, <1>4, <1>5 DEF CallStep

\* A step of a call leaves it a call, and notes what may break.
LEMMA CallStepCovered ==
    ASSUME AgreementInv, NEW g \in Goroutine, CallStep(g)
    PROVE  CallsCovered'
  <1> USE DEF AgreementInv, WhitelistInv
  <1>0. /\ call[g] \in Calls /\ CallShape(call[g]) /\ Covered(call[g])
        /\ call[g].todo \subseteq call[g].all
    BY DEF CallsCovered, CallsWellFormed, TypeOK
  <1>1. /\ \A h \in Goroutine \ {g} : call'[h] = call[h]
        /\ call'[g].op = call[g].op /\ call'[g].tgt = call[g].tgt
        /\ call'[g].all = call[g].all /\ disturbed \subseteq disturbed'
    BY CallStepKeeps
  <1>2. ASSUME NEW h \in Goroutine, h # g PROVE CallShape(call[h])' /\ Covered(call[h])'
    BY <1>1, <1>2 DEF CallsCovered, CallShape, LocalShape, CloudShape, Consistent, Covered,
                      Targets, SubnetAddrs, AddrsOf, Addrs
  <1> DEFINE c == call'[g]
  <1> DEFINE Good == CallShape(call[g])' /\ Covered(call[g])'
  <1>3. SubnetAddrs(Targets(c)) \subseteq disturbed'
    BY <1>0, <1>1 DEF Covered, Targets
  <1>4. CASE ReadToBlock(g) \/ AddToKernel(g) \/ AddFails(g) \/ CommitBlocked(g)
    <2>1. /\ call[g].op = "block" /\ c.failed = call[g].failed
          /\ c.at \in {"add", "readd", "commit", "done"}
          /\ c.res \in {"none", "accepted", "already", "exists", "whitelisted", "error"}
      BY <1>0, <1>4 DEF ReadToBlock, AddToKernel, AddFails, CommitBlocked, At, Goto, Commit,
                        Finish, CallShape, LocalShape, Calls, TypeOK
    <2>2. CallShape(call[g])'
      BY <1>0, <1>1, <2>1 DEF CallShape, LocalShape
    <2>3. Covered(call[g])'
      BY <1>0, <1>1, <1>3, <2>1 DEF Covered, AddrsOf
    <2> QED
      BY <1>1, <1>2, <2>2, <2>3 DEF CallsCovered
  <1>5. CASE ReadToUnblock(g) \/ DelFromKernel(g) \/ DelFails(g) \/ CommitUnblocked(g)
    <2>1. /\ call[g].op = "unblock" /\ c.failed = call[g].failed
          /\ c.at \in {"del", "commit", "done"}
          /\ c.res \in {"none", "removed", "notBlocked", "error"}
          /\ c.at = "commit" /\ c.res = "error" => AddrsOf(call[g].tgt) \subseteq disturbed'
      BY <1>0, <1>5 DEF ReadToUnblock, DelFromKernel, DelFails, CommitUnblocked, At, Goto,
                        Commit, Finish, CallShape, LocalShape, Calls, TypeOK
    <2>2. CallShape(call[g])'
      BY <1>0, <1>1, <2>1 DEF CallShape, LocalShape
    <2>3. Covered(call[g])'
      BY <1>0, <1>1, <1>3, <2>1 DEF Covered, AddrsOf
    <2> QED
      BY <1>1, <1>2, <2>2, <2>3 DEF CallsCovered
  <1>6. ASSUME NEW e \in call[g].todo, ApplyEntry(g, e) \/ BatchFails(g, e) \/ EntryFails(g, e)
        PROVE  Good
    <2>0. call[g].at \in {"batch", "single"} /\ e \in call[g].all /\ call[g].all # {}
      BY <1>0, <1>6 DEF ApplyEntry, BatchFails, EntryFails, NextEntry
    <2>1. call[g].op = "cloud" /\ CloudShape(call[g])
      BY <1>0, <2>0 DEF Calls, CallShape, LocalShape, Idle
    <2>2. CASE ApplyEntry(g, e)
      <3>1. /\ c.at \in {"batch", "single", "commit"}
            /\ c.at = "commit" => c.todo = {}
            /\ c.failed = call[g].failed
        BY <1>0, <2>0, <2>2 DEF ApplyEntry, After, Calls, TypeOK
      <3> QED
        BY <1>0, <1>1, <1>3, <2>1, <3>1 DEF CallShape, CloudShape, Covered, AddrsOf
    <2>3. CASE BatchFails(g, e)
      <3>1. c.at \in {"batch", "single"} /\ c.failed = call[g].failed
        <4>1. CASE MayRetry(g)
          BY <1>0, <2>0, <2>3, <4>1 DEF BatchFails, Calls, TypeOK
        <4>2. CASE ~MayRetry(g)
          BY <1>0, <2>0, <2>3, <4>2 DEF BatchFails, Calls, TypeOK
        <4> QED
          BY <4>1, <4>2
      <3> QED
        BY <1>0, <1>1, <1>3, <2>1, <3>1 DEF CallShape, CloudShape, Covered, AddrsOf
    <2>4. CASE EntryFails(g, e)
      <3>1. /\ c.at \in {"batch", "single", "commit"}
            /\ c.at = "commit" => c.todo = {}
            /\ c.failed = call[g].failed \cup {e.ip}
            /\ disturbed' = disturbed \cup AddrsOf({e.ip})
        BY <1>0, <2>0, <2>4 DEF EntryFails, After, Calls, TypeOK
      <3>2. AddrsOf(c.failed) \subseteq disturbed'
        BY <1>0, <3>1 DEF Covered, AddrsOf
      <3> QED
        BY <1>1, <1>3, <2>1, <3>1, <3>2 DEF CallShape, CloudShape, Covered
    <2> QED
      BY <1>6, <2>2, <2>3, <2>4
  <1>7. CASE CommitCloud(g)
    <2>1. call[g].op = "cloud" /\ c.at = "done" /\ c.failed = call[g].failed
      BY <1>0, <1>7 DEF CommitCloud, At, Finish, Calls, TypeOK
    <2>2. Good
      BY <1>0, <1>1, <1>3, <2>1 DEF CallShape, CloudShape, Covered, AddrsOf
    <2> QED
      BY <1>1, <1>2, <2>2 DEF CallsCovered
  <1> QED
    BY <1>1, <1>2, <1>4, <1>5, <1>6, <1>7 DEF CallStep, CallsCovered

\* On a set without timeouts a member stays until it is deleted.
LEMMA CallStepUntimed ==
    ASSUME AgreementInv, NEW g \in Goroutine, CallStep(g)
    PROVE  Untimed'
  <1> USE DEF AgreementInv, WhitelistInv
  <1>1. \A ts, timeout : ~SetHasTimeout =>
           /\ \A ip \in IP : KernelAdd(ts, timeout)[ip] \in {kernel[ip], Forever}
           /\ \A ip \in IP : KernelDel(ts)[ip] \in {kernel[ip], Absent}
    BY DEF KernelAdd, KernelDel, EntryTimer
  <1>2. \E ts, timeout : kernel' \in {kernel, KernelAdd(ts, timeout), KernelDel(ts)}
    BY DEF CallStep, ReadToBlock, AddToKernel, AddFails, CommitBlocked, ReadToUnblock,
           DelFromKernel, DelFails, CommitUnblocked, ApplyEntry, BatchFails, EntryFails,
           CommitCloud
  <1> QED
    BY <1>1, <1>2 DEF Untimed

\* A step of a call keeps the invariant.
LEMMA CallStepAgreement ==
    ASSUME AgreementInv, NEW g \in Goroutine, CallStep(g)
    PROVE  AgreementInv'
  <1> USE DEF AgreementInv, WhitelistInv
  <1>1. /\ phase = "running" /\ phase' = phase /\ netBlocked' = netBlocked
        /\ \A h \in Goroutine \ {g} : call'[h] = call[h]
        /\ call'[g].tgt = call[g].tgt /\ call'[g].all = call[g].all
        /\ call'[g].todo \subseteq call'[g].all
        /\ disturbed \subseteq disturbed'
    BY CallStepKeeps
  <1>2. WhitelistInv' /\ CallsCovered' /\ Untimed'
    BY CallStepWhitelist, CallStepCovered, CallStepUntimed
  <1>3. StoppedForgets'
    BY <1>1 DEF StoppedForgets
  <1>4. ASSUME NEW ip \in IP \ disturbed' PROVE Alone(ip)' /\ Settled(ip)'
    <2>1. ip \in IP \ disturbed
      BY <1>1
    <2>2. \A h \in Goroutine : Touches(call'[h], ip) <=> Touches(call[h], ip)
      BY <1>1 DEF Touches, Targets
    <2>3. \A h \in Goroutine : Touches(call[h], ip)' <=> Touches(call'[h], ip)
      BY DEF Touches, Targets, AddrsOf, Addrs
    <2>4. Alone(ip) /\ Settled(ip)
      BY <1>1, <2>1 DEF AllSettled
    <2>5. Alone(ip)'
      BY <2>2, <2>3, <2>4 DEF Alone
    <2>6. CASE Touches(call[g], ip)
      <3>1. Progress(call[g], ip)'
        BY <1>1, <2>1, <2>6, CallStepProgress
      <3> QED
        BY <2>2, <2>3, <2>4, <2>5, <2>6, <3>1 DEF Alone, Settled
    <2>7. CASE ~Touches(call[g], ip)
      <3>1. SameAddress(ip)
        BY <2>1, <2>7, CallStepElsewhere
      <3>2. ASSUME NEW h \in Goroutine, Touches(call[h], ip) PROVE Progress(call[h], ip)'
        BY <1>1, <2>4, <2>7, <3>1, <3>2, SameProgress DEF Settled
      <3> QED
        BY <2>2, <2>3, <2>4, <2>5, <3>1, <3>2, SameMatch DEF Settled
    <2> QED
      BY <2>5, <2>6, <2>7
  <1> QED
    BY <1>1, <1>2, <1>3, <1>4 DEF AllSettled

\* A batch of the cloud is consistent after what a new whitelist member adds to it.
LEMMA BatchConsistent ==
    ASSUME NEW batch \in CloudBatches
    PROVE  Consistent(ToApply(batch))
  <1> DEFINE all == ToApply(batch)
  <1>1. \A e \in batch : e.list = "black" => e.op = "add"
    BY CloudAssumption DEF CloudAssumption
  <1>2. ASSUME NEW e \in batch, NEW f \in batch, e.ip = f.ip, e.ip \in IP PROVE e = f
    <2>1. e.ip \in Addrs(e.ip) \cap Addrs(f.ip)
      BY <1>2, ConstantsAssumption DEF ConstantsAssumption, Addrs
    <2> QED
      BY <2>1, CloudAssumption DEF CloudAssumption
  <1>3. ASSUME NEW e \in all
        PROVE  e \in batch \/ \E w \in batch : /\ e = Unblacklist(w.ip)
                                               /\ w.list = "white" /\ w.op = "add"
    BY DEF ToApply
  <1>4. \A t : Unblacklist(t).list = "black" /\ Unblacklist(t).op = "del"
               /\ Unblacklist(t).ip = t
    BY DEF Unblacklist
  <1>5. ASSUME NEW e \in all, NEW f \in all, e.ip = f.ip, e.ip \in IP
        PROVE  /\ e.list = f.list => e = f
               /\ e.list = "black" /\ f.list = "white" => e.op = "del" /\ f.op = "add"
    <2>1. CASE e \in batch /\ f \in batch
      BY <1>2, <1>5, <2>1
    <2>2. ASSUME e \notin batch
          PROVE  \E w \in batch : /\ e = Unblacklist(w.ip) /\ w.ip = e.ip
                                  /\ w.list = "white" /\ w.op = "add"
      BY <1>3, <1>4, <2>2
    <2>3. ASSUME f \notin batch
          PROVE  \E w \in batch : /\ f = Unblacklist(w.ip) /\ w.ip = f.ip
                                  /\ w.list = "white" /\ w.op = "add"
      BY <1>3, <1>4, <2>3
    <2>4. CASE e \notin batch /\ f \in batch
      <3>1. PICK w \in batch : /\ e = Unblacklist(w.ip) /\ w.ip = e.ip
                               /\ w.list = "white" /\ w.op = "add"
        BY <2>2, <2>4
      <3>2. w = f
        BY <1>2, <1>5, <2>4, <3>1
      <3> QED
        BY <1>4, <3>1, <3>2
    <2>5. CASE e \in batch /\ f \notin batch
      <3>1. PICK w \in batch : /\ f = Unblacklist(w.ip) /\ w.ip = f.ip
                               /\ w.list = "white" /\ w.op = "add"
        BY <2>3, <2>5
      <3>2. w = e
        BY <1>2, <1>5, <2>5, <3>1
      <3> QED
        BY <1>4, <3>1, <3>2
    <2>6. CASE e \notin batch /\ f \notin batch
      BY <1>4, <1>5, <2>2, <2>3, <2>6
    <2> QED
      BY <2>1, <2>4, <2>5, <2>6
  <1> QED
    BY <1>5 DEF Consistent

\* What a new call is: a local one at its first look or refused, or a batch.
LEMMA NewCall ==
    ASSUME TypeOK, NEW g \in Goroutine, Request(g)
    PROVE  \E c : /\ Invoke(g, c) /\ c = call'[g] /\ CallShape(c) /\ c.failed = {}
                  /\ c.op = "cloud" => (c.at = "done" /\ c.all = {}) \/ c.todo = c.all
                  /\ c.op # "cloud" => \/ c.at = "read"
                                       \/ c.at = "done" /\ c.res = "whitelisted"
                  /\ UNCHANGED <<kernel, kernelWhite, memory, phase>>
  <1> DEFINE Local(c) == /\ CallShape(c) /\ c.failed = {} /\ c.op \in {"block", "unblock"}
                         /\ \/ c.at = "read"
                            \/ c.at = "done" /\ c.res = "whitelisted"
  <1>1. ASSUME NEW t \in Target
        PROVE  /\ Local(CallOf("block", "read", t, "none"))
               /\ Local(CallOf("block", "done", t, "whitelisted"))
               /\ Local(CallOf("unblock", "read", t, "none"))
    BY <1>1 DEF CallOf, Idle, CallShape, LocalShape
  <1>2. \A c : Invoke(g, c) => c = call'[g]
    BY DEF Invoke, TypeOK
  <1>3. ASSUME NEW t \in Target, Block(g, t) \/ ForceBlock(g, t) \/ Unblock(g, t)
        PROVE  \E c : Invoke(g, c) /\ Local(c) /\ UNCHANGED <<kernel, kernelWhite, memory, phase>>
    BY <1>1, <1>3 DEF Block, ForceBlock, Unblock
  <1>4. ASSUME NEW batch \in CloudBatches, ApplyCloud(g, batch)
        PROVE  \E c : /\ Invoke(g, c) /\ CallShape(c) /\ c.failed = {} /\ c.op = "cloud"
                      /\ c.todo = c.all
                      /\ UNCHANGED <<kernel, kernelWhite, memory, phase>>
    <2> DEFINE all == ToApply(batch)
    <2> DEFINE c == [Idle EXCEPT !.op = "cloud", !.all = all, !.todo = all,
                                 !.at = IF all = {} THEN "done" ELSE "batch"]
    <2>1. Consistent(all)
      BY BatchConsistent
    <2> HIDE DEF all
    <2>2. /\ c.op = "cloud" /\ c.tgt = {} /\ c.all = all /\ c.todo = all /\ c.failed = {}
          /\ c.at \in {"done", "batch"}
      BY DEF Idle
    <2>3. CallShape(c)
      BY <2>1, <2>2 DEF CallShape, CloudShape
    <2>4. Invoke(g, c) /\ UNCHANGED <<kernel, kernelWhite, memory, phase>>
      BY <1>4 DEF ApplyCloud, all
    <2> QED
      BY <2>2, <2>3, <2>4
  <1> QED
    BY <1>2, <1>3, <1>4 DEF Request

\* A new call keeps the invariant: of two calls on one address the history knows.
LEMMA RequestAgreement ==
    ASSUME AgreementInv, NEW g \in Goroutine, Request(g)
    PROVE  AgreementInv'
  <1> USE DEF AgreementInv, WhitelistInv
  <1>1. PICK c : /\ Invoke(g, c) /\ c = call'[g] /\ CallShape(c) /\ c.failed = {}
                 /\ c.op = "cloud" => (c.at = "done" /\ c.all = {}) \/ c.todo = c.all
                 /\ c.op # "cloud" => \/ c.at = "read"
                                      \/ c.at = "done" /\ c.res = "whitelisted"
                 /\ UNCHANGED <<kernel, kernelWhite, memory, phase>>
    BY NewCall
  <1>2. /\ phase = "running" /\ phase' = "running" /\ call[g] = Idle
        /\ \A h \in Goroutine \ {g} : call'[h] = call[h]
        /\ disturbed' = disturbed \cup SubnetAddrs(Targets(c)) \cup
              {ip \in IP : Touches(c, ip) /\ \E h \in Goroutine \ {g} : Touches(call[h], ip)}
    BY <1>1 DEF Invoke, TypeOK
  <1>3. WhitelistInv' /\ StoppedForgets' /\ Untimed'
    BY <1>1, <1>2, RequestWhitelist DEF StoppedForgets, Untimed
  <1>4. CallsCovered'
    <2>1. CallShape(call[g])'
      BY <1>1 DEF CallShape, LocalShape, CloudShape, Consistent
    <2>2. Covered(call[g])'
      <3>1. SubnetAddrs(Targets(c)) \subseteq disturbed' /\ AddrsOf(c.failed) = {}
        BY <1>1, <1>2 DEF AddrsOf
      <3>2. ~(c.op = "unblock" /\ c.at = "commit")
        BY <1>1
      <3> QED
        BY <1>1, <3>1, <3>2 DEF Covered
    <2>3. ASSUME NEW h \in Goroutine, h # g PROVE CallShape(call[h])' /\ Covered(call[h])'
      BY <1>2, <2>3 DEF CallsCovered, CallShape, LocalShape, CloudShape, Consistent, Covered,
                        Targets, SubnetAddrs, AddrsOf, Addrs
    <2> QED
      BY <2>1, <2>2, <2>3 DEF CallsCovered
  <1>5. ASSUME NEW ip \in IP \ disturbed' PROVE Alone(ip)' /\ Settled(ip)'
    <2>1. Alone(ip) /\ Settled(ip) /\ ip \notin disturbed
      BY <1>2, <1>5 DEF AllSettled
    <2>2. SameAddress(ip)
      BY <1>1 DEF SameAddress, InKernel, memory
    <2>3. ~Touches(call[g], ip)
      BY <1>2 DEF Touches, Targets, AddrsOf, Idle
    <2>4. \A h \in Goroutine : Touches(call[h], ip)' <=> Touches(call'[h], ip)
      BY DEF Touches, Targets, AddrsOf, Addrs
    <2>5. Touches(c, ip) => \A h \in Goroutine \ {g} : ~Touches(call[h], ip)
      BY <1>2, <1>5
    <2>6. Alone(ip)'
      BY <1>1, <1>2, <2>1, <2>4, <2>5 DEF Alone
    <2>7. ASSUME NEW h \in Goroutine, h # g, Touches(call[h], ip) PROVE Progress(call[h], ip)'
      BY <1>2, <2>1, <2>2, <2>7, SameProgress DEF Settled
    <2>8. CASE Touches(c, ip)
      <3>1. BlackMatch(ip)' /\ WhiteMatch(ip)'
        BY <2>1, <2>2, <2>3, <2>5, <2>8, SameMatch DEF Settled
      <3>2. Progress(call[g], ip)'
        BY <1>1, <3>1 DEF Progress, CloudProgress, LocalProgress
      <3> QED
        BY <1>1, <1>2, <2>4, <2>5, <2>6, <2>8, <3>2 DEF Settled
    <2>9. CASE ~Touches(c, ip)
      <3>1. (\A h \in Goroutine : ~Touches(call[h], ip)') => BlackMatch(ip)' /\ WhiteMatch(ip)'
        BY <1>2, <2>1, <2>2, <2>3, <2>4, SameMatch DEF Settled
      <3>2. ASSUME NEW h \in Goroutine, Touches(call[h], ip)' PROVE Progress(call[h], ip)'
        BY <1>1, <1>2, <2>4, <2>7, <2>9, <3>2
      <3> QED
        BY <2>6, <3>1, <3>2 DEF Settled
    <2> QED
      BY <2>8, <2>9
  <1> QED
    BY <1>2, <1>3, <1>4, <1>5 DEF AllSettled

\* The caller that takes its result leaves an address on which all agree.
LEMMA ReturnAgreement ==
    ASSUME AgreementInv, NEW g \in Goroutine, Return(g)
    PROVE  AgreementInv'
  <1> USE DEF AgreementInv, WhitelistInv
  <1>1. /\ call[g].op # "none" /\ call[g].at = "done" /\ call' = [call EXCEPT ![g] = Idle]
        /\ UNCHANGED <<kernel, kernelWhite, blocked, whitelisted, phase, disturbed>>
    BY DEF Return, memory, history
  <1>2. call'[g] = Idle /\ \A h \in Goroutine \ {g} : call'[h] = call[h]
    BY <1>1 DEF TypeOK
  <1>3. WhitelistInv'
    <2>1. Next
      BY DEF Next
    <2> QED
      BY <2>1, WhitelistStep
  <1>4. StoppedForgets' /\ Untimed'
    BY <1>1 DEF StoppedForgets, Untimed
  <1>5. CallsCovered'
    <2>1. CallShape(Idle) /\ Targets(Idle) = {} /\ Idle.failed = {} /\ Idle.op = "none"
      BY DEF CallShape, Idle, Targets
    <2>2. CallShape(call[g])' /\ Covered(call[g])'
      BY <1>2, <2>1 DEF CallShape, Covered, SubnetAddrs, AddrsOf
    <2>3. ASSUME NEW h \in Goroutine, h # g PROVE CallShape(call[h])' /\ Covered(call[h])'
      BY <1>1, <1>2, <2>3 DEF CallsCovered, CallShape, LocalShape, CloudShape, Consistent,
                              Covered, Targets, SubnetAddrs, AddrsOf, Addrs
    <2> QED
      BY <2>2, <2>3 DEF CallsCovered
  <1>6. ASSUME NEW ip \in IP \ disturbed', phase' # "stopped" PROVE Alone(ip)' /\ Settled(ip)'
    <2>1. Alone(ip) /\ Settled(ip)
      BY <1>1, <1>6 DEF AllSettled
    <2>2. SameAddress(ip)
      BY <1>1 DEF SameAddress, InKernel
    <2>3. ~Touches(call[g], ip)'
      BY <1>2 DEF Touches, Targets, AddrsOf, Idle
    <2>4. \A h \in Goroutine \ {g} : Touches(call[h], ip)' <=> Touches(call[h], ip)
      BY <1>2 DEF Touches, Targets, AddrsOf, Addrs
    <2>5. Alone(ip)'
      BY <2>1, <2>3, <2>4 DEF Alone
    <2>6. ASSUME NEW h \in Goroutine, Touches(call[h], ip)' PROVE Progress(call[h], ip)'
      BY <1>2, <2>1, <2>2, <2>3, <2>4, <2>6, SameProgress DEF Settled
    <2>7. ASSUME \A h \in Goroutine : ~Touches(call[h], ip)'
          PROVE  BlackMatch(ip)' /\ WhiteMatch(ip)'
      <3>1. Touches(call[g], ip) => BlackMatch(ip) /\ WhiteMatch(ip)
        BY <1>1, <2>1 DEF Settled, Progress, CloudProgress, LocalProgress
      <3>2. ~Touches(call[g], ip) => BlackMatch(ip) /\ WhiteMatch(ip)
        BY <2>1, <2>4, <2>7 DEF Settled
      <3> QED
        BY <2>2, <3>1, <3>2, SameMatch
    <2> QED
      BY <2>5, <2>6, <2>7 DEF Settled
  <1>7. ASSUME NEW ip \in IP \ disturbed' PROVE Alone(ip)'
    BY <1>1, <1>2, <1>7 DEF AllSettled, Alone, Touches, Targets, AddrsOf, Addrs, Idle
  <1> QED
    BY <1>3, <1>4, <1>5, <1>6, <1>7 DEF AllSettled

\* The end of a timer in the kernel leaves the map behind only on a set with timeouts.
LEMMA TickAgreement ==
    ASSUME AgreementInv, Tick
    PROVE  AgreementInv'
  <1> USE DEF AgreementInv, WhitelistInv
  <1>1. kernel' = Countdown /\ UNCHANGED <<kernelWhite, memory, call, phase, history>>
    BY DEF Tick
  <1>2. WhitelistInv'
    <2>1. Next
      BY DEF Next
    <2> QED
      BY <2>1, WhitelistStep
  <1>3. ASSUME ~SetHasTimeout, NEW ip \in IP PROVE kernel'[ip] = kernel[ip]
    <2>1. kernel[ip] \in {Absent, Forever}
      BY <1>3 DEF Untimed
    <2>2. kernel[ip] \notin 1 .. MaxTimeout
      BY <2>1, ConstantsAssumption DEF ConstantsAssumption, Absent, Forever
    <2> QED
      BY <1>1, <2>2 DEF Countdown
  <1>4. \A ip \in IP : InKernel(ip)' => InKernel(ip)
    BY <1>1 DEF Countdown, InKernel, Absent
  <1>5. \A ip \in IP : SameAddress(ip)
    BY <1>1, <1>3, <1>4 DEF SameAddress, InKernel, memory
  <1>6. Untimed' /\ StoppedForgets'
    BY <1>1, <1>3 DEF Untimed, StoppedForgets, memory
  <1>7. CallsCovered'
    BY <1>1 DEF CallsCovered, CallShape, LocalShape, CloudShape, Consistent, Covered, Targets,
                SubnetAddrs, AddrsOf, Addrs, history
  <1>8. ASSUME NEW ip \in IP \ disturbed' PROVE Alone(ip)' /\ (phase' # "stopped" => Settled(ip)')
    <2>1. Alone(ip) /\ (phase # "stopped" => Settled(ip)) /\ SameAddress(ip)
      BY <1>1, <1>5, <1>8 DEF AllSettled, history
    <2>2. \A h \in Goroutine : Touches(call[h], ip)' <=> Touches(call[h], ip)
      BY <1>1 DEF Touches, Targets, AddrsOf, Addrs
    <2>3. \A h \in Goroutine : Progress(call[h], ip) => Progress(call[h], ip)'
      BY <1>1, <2>1, SameProgress
    <2> QED
      BY <1>1, <2>1, <2>2, <2>3, SameMatch DEF Alone, Settled
  <1> QED
    BY <1>2, <1>6, <1>7, <1>8 DEF AllSettled

\* The start makes the maps agree with the kernel on all that the history does not
\* list, before any goroutine runs.
LEMMA StartAgreement ==
    ASSUME AgreementInv, Start
    PROVE  AgreementInv'
  <1> USE DEF AgreementInv, WhitelistInv
  <1>1. WhitelistInv'
    BY StartWhitelist
  <1>2. phase # "running" /\ call' = call /\ phase' # "stopped"
    BY DEF Start, RebuildFromKernel, SyncLocalWhitelist, PreloadBlacklist
  <1>3. \A g \in Goroutine : call[g] = Idle
    BY <1>2 DEF CallsWellFormed
  <1>4. CallShape(Idle) /\ Targets(Idle) = {} /\ Idle.failed = {} /\ Idle.op = "none"
    BY DEF CallShape, Idle, Targets
  <1>5. CallsCovered'
    <2>1. \A g \in Goroutine : call'[g] = Idle
      BY <1>2, <1>3
    <2> QED
      BY <1>4, <2>1 DEF CallsCovered, CallShape, Covered, SubnetAddrs, AddrsOf
  <1>6. \A g \in Goroutine, ip \in IP : ~Touches(call[g], ip)'
    BY <1>2, <1>3, <1>4 DEF Touches, AddrsOf, Targets
  <1>7. StoppedForgets'
    BY <1>2 DEF StoppedForgets
  <1> DEFINE Agreed == Untimed' /\ \A ip \in IP \ disturbed' : BlackMatch(ip)' /\ WhiteMatch(ip)'
  <1>8. CASE RebuildFromKernel
    <2>1. kernel' = kernel /\ kernelWhite' = kernelWhite /\ whitelisted' = {}
      BY <1>8 DEF RebuildFromKernel, StoppedForgets
    <2>2. blocked' = Listed \/ blocked' = {}
      BY <1>8 DEF RebuildFromKernel, StoppedForgets
    <2>3. disturbed' = {ip \in IP : InKernel(ip)} \ blocked'
      BY <1>8 DEF RebuildFromKernel
    <2>4. Agreed
      BY <2>1, <2>2, <2>3 DEF BlackMatch, WhiteMatch, InKernel, Listed, Untimed
    <2> QED
      BY <1>1, <1>2, <1>5, <1>6, <1>7, <2>4 DEF AllSettled, Alone, Settled
  <1>9. ASSUME NEW items \in WhitelistConfigs, SyncLocalWhitelist(items) PROVE Agreed
    <2> DEFINE toDel == (items \cap IP) \cup (blocked \cap SubnetAddrs(items))
    <2> DEFINE stale == {k.of : k \in whitelisted \ LocalKeys(items)}
    <2>1. PICK del \in Outcomes(toDel), add \in Outcomes(items), old \in Outcomes(stale) :
              /\ kernel' = [ip \in IP |-> IF ip \in del.applied THEN Absent ELSE kernel[ip]]
              /\ kernelWhite' = (kernelWhite \cup add.applied) \ old.applied
              /\ blocked' = blocked \ (toDel \ del.failed)
              /\ whitelisted' = LocalKeys(items \ add.failed)
              /\ disturbed' = disturbed \cup del.failed
      BY <1>9 DEF SyncLocalWhitelist
    <2> HIDE DEF toDel, stale
    <2>2. /\ toDel \ del.failed \subseteq del.applied /\ del.applied \subseteq toDel
          /\ items \ add.failed \subseteq add.applied
      BY DEF Outcomes
    <2>3. Untimed'
      BY <2>1 DEF Untimed
    <2>4. ASSUME NEW ip \in IP \ disturbed' PROVE BlackMatch(ip)' /\ WhiteMatch(ip)'
      <3>1. BlackMatch(ip)
        BY <1>3, <1>4, <1>9, <2>1, <2>4
           DEF SyncLocalWhitelist, AllSettled, Settled, Touches, AddrsOf
      <3>2. BlackMatch(ip)'
        BY <2>1, <2>2, <2>4, <3>1 DEF BlackMatch, InKernel
      <3>3. WhiteMatch(ip)'
        BY <2>1, KeysOfAddress DEF WhiteMatch
      <3> QED
        BY <3>2, <3>3
    <2> QED
      BY <2>3, <2>4
  <1>10. ASSUME NEW items \in BlacklistConfigs, PreloadBlacklist(items) PROVE Agreed
    <2> DEFINE new == {t \in items \ blocked : ~IsLocalWhitelisted(t)}
    <2>1. PICK failed \in SUBSET new :
              /\ kernel' = [ip \in IP |->
                    IF ip \in AddrsOf(new \ failed) THEN Forever ELSE kernel[ip]]
              /\ blocked' = blocked \cup (new \ failed)
      BY <1>10 DEF PreloadBlacklist
    <2>2. /\ disturbed' = disturbed \cup SubnetAddrs(items) /\ new \subseteq items
          /\ kernelWhite' = kernelWhite /\ whitelisted' = whitelisted /\ phase = "synced"
      BY <1>10 DEF PreloadBlacklist
    <2> HIDE DEF new
    <2>3. Untimed'
      BY <2>1 DEF Untimed
    <2>4. ASSUME NEW ip \in IP \ disturbed' PROVE BlackMatch(ip)' /\ WhiteMatch(ip)'
      <3>1. BlackMatch(ip) /\ WhiteMatch(ip)
        BY <1>3, <1>4, <2>2, <2>4 DEF AllSettled, Settled, Touches, AddrsOf
      <3>2. ip \in AddrsOf(new \ failed) <=> ip \in new \ failed
        <4>1. \A t \in new \ failed : ip \in Addrs(t) <=> ip = t
          BY <2>2, <2>4, ConstantsAssumption
             DEF ConstantsAssumption, SubnetAddrs, AddrsOf, Addrs
        <4> QED
          BY <4>1 DEF AddrsOf
      <3> QED
        BY <2>1, <2>2, <3>1, <3>2, Added, ConstantsAssumption
           DEF ConstantsAssumption, BlackMatch, WhiteMatch, InKernel
    <2> QED
      BY <2>3, <2>4
  <1>11. Agreed => AgreementInv'
    BY <1>1, <1>5, <1>6, <1>7 DEF AllSettled, Alone, Settled
  <1> QED
    BY <1>8, <1>9, <1>10, <1>11 DEF Start

\* Every step keeps the invariant.
LEMMA AgreementStep == AgreementInv /\ [Next]_vars => AgreementInv'
  <1> SUFFICES ASSUME AgreementInv, [Next]_vars PROVE AgreementInv'
    OBVIOUS
  <1>1. CASE Start
    BY <1>1, StartAgreement
  <1>2. CASE Tick
    BY <1>2, TickAgreement
  <1>3. CASE Crash
    <2>1. WhitelistInv'
      BY <1>3, WhitelistStep DEF AgreementInv, Next
    <2>2. /\ phase' = "stopped" /\ blocked' = {} /\ whitelisted' = {} /\ disturbed' = {}
          /\ kernel' = kernel /\ \A g \in Goroutine : call'[g] = Idle
      BY <1>3 DEF Crash
    <2>3. CallShape(Idle) /\ Targets(Idle) = {} /\ Idle.failed = {} /\ Idle.op = "none"
      BY DEF CallShape, Idle, Targets
    <2>4. CallsCovered'
      BY <2>2, <2>3 DEF CallsCovered, CallShape, Covered, SubnetAddrs, AddrsOf
    <2>5. \A g \in Goroutine, ip \in IP : ~Touches(call[g], ip)'
      BY <2>2, <2>3 DEF Touches, AddrsOf, Targets
    <2> QED
      BY <2>1, <2>2, <2>4, <2>5
         DEF AgreementInv, StoppedForgets, Untimed, AllSettled, Alone
  <1>4. ASSUME NEW g \in Goroutine, Request(g) PROVE AgreementInv'
    BY <1>4, RequestAgreement
  <1>5. ASSUME NEW g \in Goroutine, CallStep(g) PROVE AgreementInv'
    BY <1>5, CallStepAgreement
  <1>6. ASSUME NEW g \in Goroutine, Return(g) PROVE AgreementInv'
    BY <1>6, ReturnAgreement
  <1>7. CASE UNCHANGED vars
    <2>1. WhitelistInv'
      BY <1>7, WhitelistStep DEF AgreementInv
    <2>2. CallsCovered' /\ StoppedForgets' /\ Untimed'
      BY <1>7 DEF vars, AgreementInv, CallsCovered, CallShape, LocalShape, CloudShape,
                  Consistent, Covered, Targets, SubnetAddrs, AddrsOf, Addrs, StoppedForgets,
                  Untimed
    <2>3. \A ip \in IP : SameAddress(ip)
      BY <1>7 DEF vars, SameAddress, InKernel
    <2>4. \A h \in Goroutine, ip \in IP : Touches(call[h], ip)' <=> Touches(call[h], ip)
      BY <1>7 DEF vars, Touches, Targets, AddrsOf, Addrs
    <2>5. \A h \in Goroutine, ip \in IP : Progress(call[h], ip) => Progress(call[h], ip)'
      BY <1>7, <2>3, SameProgress DEF vars
    <2>6. AllSettled'
      BY <1>7, <2>3, <2>4, <2>5, SameMatch DEF vars, AgreementInv, AllSettled, Alone, Settled
    <2> QED
      BY <2>1, <2>2, <2>6 DEF AgreementInv
  <1> QED
    BY <1>1, <1>2, <1>3, <1>4, <1>5, <1>6, <1>7 DEF Next

\* The invariant holds at first: the process has not started.
LEMMA InitAgreement == Init => AgreementInv
  <1> SUFFICES ASSUME Init PROVE AgreementInv
    OBVIOUS
  <1>1. WhitelistInv
    BY InitWhitelist
  <1>2. CallShape(Idle) /\ Targets(Idle) = {} /\ Idle.failed = {} /\ Idle.op = "none"
    BY DEF CallShape, Idle, Targets
  <1>3. CallsCovered
    BY <1>2 DEF Init, CallsCovered, Covered, SubnetAddrs, AddrsOf
  <1>4. \A g \in Goroutine, ip \in IP : ~Touches(call[g], ip)
    BY <1>2 DEF Init, Touches, AddrsOf
  <1> QED
    BY <1>1, <1>3, <1>4 DEF Init, AgreementInv, StoppedForgets, Untimed, AllSettled, Alone

\* The maps of the manager agree with the kernel, for any number of goroutines, however
\* their calls interleave and fail and the process is killed and started: but for what
\* two calls changed at once, a failed delete or entry, and subnets.  Of the two keys of
\* a whitelisted address that is the one the cloud writes.
THEOREM MapsAgree == Spec => []Agreement
  <1>1. AgreementInv => Agreement
    BY DEF AgreementInv, AllSettled, Settled, Agreement, Match, BlackMatch, WhiteMatch
  <1> QED
    BY <1>1, InitAgreement, AgreementStep, PTL DEF Spec

\* Callers are told what is true: Block and ErrAlreadyBlocked that the kernel drops the
\* address, Unblock that it does not, outside the same cases.
THEOREM AnswersAreTrue == Spec => []HonestResult
  <1>1. AgreementInv => HonestResult
    <2> SUFFICES ASSUME AgreementInv, NEW g \in Goroutine,
                        NEW ip \in AddrsOf(call[g].tgt) \ disturbed, call[g].at = "done"
                 PROVE  /\ call[g].res \in {"accepted", "already"} /\ ~SetHasTimeout
                              => InKernel(ip)
                        /\ call[g].res \in {"removed", "notBlocked"} => ~InKernel(ip)
      BY DEF HonestResult
    <2>1. ip \in IP \ disturbed /\ ip \in call[g].tgt /\ Touches(call[g], ip)
          /\ call[g].op \in {"block", "unblock"}
      BY TouchedByName DEF AgreementInv, WhitelistInv, AddrsOf
    <2>2. phase # "stopped"
      BY <2>1 DEF AgreementInv, WhitelistInv, CallsWellFormed, Idle
    <2>3. LocalProgress(call[g], ip)
      BY <2>1, <2>2 DEF AgreementInv, AllSettled, Settled, Progress
    <2> QED
      BY <2>3 DEF LocalProgress
  <1> QED
    BY <1>1, InitAgreement, AgreementStep, PTL DEF Spec


-----------------------------------------------------------------------------
(* Type correctness. *)

\* The operations of the timer table keep it a table.
LEMMA TableType ==
    ASSUME entries \in TTL!Tables, NEW keys, NEW ttl \in 0 .. MaxTTL,
           NEW source \in {"local", "cloud"}, NEW snap \in TTL!Tables
    PROVE  /\ TTL!Empty \in TTL!Tables
           /\ TTL!Add(keys, ttl, source) => entries' \in TTL!Tables
           /\ TTL!Remove(keys) => entries' \in TTL!Tables
           /\ TTL!Restore(snap) => entries' \in TTL!Tables
           /\ TTL!Elapse(snap) \in TTL!Tables
  <1> USE DEF TTL!Tables, TTL!NoEntry, TTL!Due
  <1>1. TTL!AdjustTTL(ttl, source) \in TTL!NoEntry .. MaxTTL
    BY RolesAssumption DEF RolesAssumption, TTL!AdjustTTL
  <1>2. TTL!Add(keys, ttl, source) => entries' \in TTL!Tables
    BY <1>1 DEF TTL!Add
  <1>3. TTL!Remove(keys) => entries' \in TTL!Tables
    BY RolesAssumption DEF RolesAssumption, TTL!Remove
  <1>4. TTL!Restore(snap) => entries' \in TTL!Tables
    BY DEF TTL!Restore
  <1>5. TTL!Elapse(snap) \in TTL!Tables
    BY RolesAssumption DEF RolesAssumption, TTL!Elapse
  <1>6. TTL!Empty \in TTL!Tables
    BY RolesAssumption DEF RolesAssumption, TTL!Empty
  <1> QED
    BY <1>2, <1>3, <1>4, <1>5, <1>6

\* The timers have their types at first.
LEMMA TimersInit == EInit => TimersTypeOK
  BY TableType, RolesAssumption
     DEF RolesAssumption, EInit, TimersTypeOK, NoJob, TTL!Empty, TTL!Tables, TTL!NoEntry

\* Every step keeps the types of the timers.
LEMMA TimersStep == TimersTypeOK /\ [ENext]_evars => TimersTypeOK'
  <1> SUFFICES ASSUME TimersTypeOK, [ENext]_evars PROVE TimersTypeOK'
    OBVIOUS
  <1> USE DEF TimersTypeOK
  <1>1. CASE StartManager
    BY <1>1 DEF StartManager, AddrsOf
  <1>2. CASE LoadAndRestore
    BY <1>2, TableType, RolesAssumption DEF LoadAndRestore, RolesAssumption
  <1>3. CASE Save \/ SaveOnSignal
    BY <1>3 DEF Save, SaveOnSignal
  <1>4. CASE Exit
    <2>1. NoJob \in [do : {"none", "add", "del"}, ttl : 0 .. MaxTTL, due : SUBSET Target]
      BY RolesAssumption DEF NoJob, RolesAssumption
    <2>2. TTL!Empty \in TTL!Tables
      BY TableType, RolesAssumption DEF RolesAssumption
    <2> QED
      BY <1>4, <2>1, <2>2 DEF Exit, EndProcess
  <1>5. CASE TickAll
    BY <1>5, TableType, RolesAssumption DEF TickAll, RolesAssumption
  <1>6. ASSUME NEW g \in Goroutine, Ask(g) PROVE TimersTypeOK'
    <2>1. ASSUME NEW t \in Target, NEW force \in BOOLEAN, NEW ttl \in TTLRequests,
                 BlocklistAdd(g, t, force, ttl)
          PROVE  TimersTypeOK'
      <3>1. [NoJob EXCEPT !.do = "add", !.ttl = ttl]
               \in [do : {"none", "add", "del"}, ttl : 0 .. MaxTTL, due : SUBSET Target]
        BY RolesAssumption DEF NoJob, RolesAssumption
      <3> QED
        BY <2>1, <3>1 DEF BlocklistAdd
    <2>2. ASSUME NEW t \in Target, BlocklistDel(g, t) PROVE TimersTypeOK'
      <3>1. [NoJob EXCEPT !.do = "del"]
               \in [do : {"none", "add", "del"}, ttl : 0 .. MaxTTL, due : SUBSET Target]
        BY RolesAssumption DEF NoJob, RolesAssumption
      <3> QED
        BY <2>2, <3>1 DEF BlocklistDel
    <2>3. ASSUME UNCHANGED timers PROVE TimersTypeOK'
      BY <2>3 DEF timers
    <2> QED
      BY <1>6, <2>1, <2>2, <2>3 DEF Ask, Trigger, CloudChange
  <1>7. ASSUME NEW g \in Goroutine, Manager(g) PROVE TimersTypeOK'
    BY <1>7 DEF Manager
  <1>8. ASSUME NEW g \in Goroutine, Answer(g) PROVE TimersTypeOK'
    <2>1. NoJob \in [do : {"none", "add", "del"}, ttl : 0 .. MaxTTL, due : SUBSET Target]
      BY RolesAssumption DEF NoJob, RolesAssumption
    <2>2. CASE TriggerReturn(g)
      <3>1. LocalBlockTTL \in 0 .. MaxTTL
        BY RolesAssumption DEF RolesAssumption
      <3> QED
        BY <2>2, <3>1, TableType DEF TriggerReturn
    <2>3. CASE OperatorReturn(g)
      <3>1. job[g].ttl \in 0 .. MaxTTL
        OBVIOUS
      <3>2. entries' \in TTL!Tables
        BY <2>3, <3>1, TableType DEF OperatorReturn
      <3> QED
        BY <2>1, <2>3, <3>2 DEF OperatorReturn
    <2>4. CASE CloudReturn(g)
      <3>1. 0 \in 0 .. MaxTTL
        BY RolesAssumption DEF RolesAssumption
      <3> QED
        BY <2>4, <3>1, TableType DEF CloudReturn
    <2>5. CASE OnExpireReturn(g)
      BY <2>5 DEF OnExpireReturn, timers
    <2> QED
      BY <1>8, <2>2, <2>3, <2>4, <2>5 DEF Answer
  <1>9. ASSUME NEW g \in Goroutine, Expire(g) PROVE TimersTypeOK'
    <2>1. CASE Sweep(g)
      <3>1. entries' \in TTL!Tables
        BY <2>1, TableType, RolesAssumption DEF Sweep, TTL!Collect, RolesAssumption
      <3> QED
        BY <2>1, <3>1 DEF Sweep, TTL!Expired
    <2>2. ASSUME NEW t \in job[g].due, OnExpire(g, t) PROVE TimersTypeOK'
      BY <2>2 DEF OnExpire
    <2> QED
      BY <1>9, <2>1, <2>2 DEF Expire
  <1>10. CASE UNCHANGED evars
    BY <1>10 DEF evars, timers
  <1> QED
    BY <1>1, <1>2, <1>3, <1>4, <1>5, <1>6, <1>7, <1>8, <1>9, <1>10 DEF ENext

\* The timer table, its snapshot and the work of the handlers keep their types;
\* in particular every address the sweep loop has to unblock is a real one.
THEOREM TimersTypeCorrect == ESpec => []TimersTypeOK
  <1> QED
    BY TimersInit, TimersStep, PTL DEF ESpec

-----------------------------------------------------------------------------
(* Enforcement implements IpsetManager. *)

\* One step of the agent is a step of the manager or none.
LEMMA ManagerSteps == TimersTypeOK /\ [ENext]_evars => [Next]_vars
  <1> SUFFICES ASSUME TimersTypeOK, [ENext]_evars PROVE [Next]_vars
    OBVIOUS
  <1>1. CASE StartManager
    BY <1>1 DEF StartManager, Next
  <1>2. CASE LoadAndRestore \/ Save \/ SaveOnSignal
    BY <1>2 DEF LoadAndRestore, Save, SaveOnSignal
  <1>3. CASE Exit
    BY <1>3 DEF Exit, EndProcess, Next
  <1>4. CASE TickAll
    BY <1>4 DEF TickAll, Next, Tick, vars, memory, history
  <1>5. ASSUME NEW g \in Goroutine, Ask(g) PROVE [Next]_vars
    BY <1>5 DEF Ask, Trigger, BlocklistAdd, BlocklistDel, CloudChange, Next, Request
  <1>6. ASSUME NEW g \in Goroutine, Manager(g) PROVE [Next]_vars
    BY <1>6 DEF Manager, Next
  <1>7. ASSUME NEW g \in Goroutine, Answer(g) PROVE [Next]_vars
    BY <1>7 DEF Answer, TriggerReturn, OperatorReturn, CloudReturn, OnExpireReturn, Next
  <1>8. ASSUME NEW g \in Goroutine, Expire(g) PROVE [Next]_vars
    <2>1. CASE Sweep(g)
      BY <2>1 DEF Sweep
    <2>2. ASSUME NEW t \in job[g].due, OnExpire(g, t) PROVE [Next]_vars
      <3>1. Unblock(g, t)
        BY <2>2 DEF OnExpire
      <3>2. t \in Target
        BY DEF TimersTypeOK
      <3> QED
        BY <3>1, <3>2 DEF Next, Request
    <2> QED
      BY <1>8, <2>1, <2>2 DEF Expire
  <1>9. CASE UNCHANGED evars
    BY <1>9 DEF evars
  <1> QED
    BY <1>1, <1>2, <1>3, <1>4, <1>5, <1>6, <1>7, <1>8, <1>9 DEF ENext

\* The triggers, the operators, the cloud loops and the sweep loop together use
\* the manager as IpsetManager says.
THEOREM EnforcementImplementsManager == ESpec => Spec
  <1>1. EInit => Init
    BY DEF EInit
  <1> QED
    BY <1>1, ManagerSteps, TimersTypeCorrect, PTL DEF ESpec, Spec

\* No handler, and no interleaving of handlers with the start, the sweep loop
\* and the end of the process, blocks a whitelisted address but by force, by a
\* failed delete at the start, or as part of a subnet.
THEOREM WhitelistOfTheAgent == ESpec => []WhitelistExempt
  <1> QED
    BY EnforcementImplementsManager, LocalWhitelist, PTL

\* Nor does any of them part the manager's map from the kernel's set, for an
\* address that no two calls changed at once and no ipset command failed for.
THEOREM AgreementOfTheAgent == ESpec => []Agreement
  <1> QED
    BY EnforcementImplementsManager, MapsAgree, PTL

\* The answers on which the triggers and the operators add and remove timers
\* are true when they are given.
THEOREM AnswersOfTheAgent == ESpec => []HonestResult
  <1> QED
    BY EnforcementImplementsManager, AnswersAreTrue, PTL

-----------------------------------------------------------------------------
(* Every block has a timer.  Between the manager's answer and the handler's    *)
(* step on the table a block has none yet: the invariant says who owes it.     *)

\* What is true of a call on ip that no other call disturbs: its add does not find
\* the address in the kernel, and its unblock deletes what the map holds and leaves it
\* out of the map.
LoneCall(c, ip) ==
    /\ c.op = "block" /\ c.at = "commit" => c.res = "accepted"
    /\ c.op = "unblock" /\ c.at = "del" => ip \in blocked
    /\ c.op = "unblock" /\ c.at = "done" => ip \notin blocked

LoneCalls ==
    \A ip \in IP \ disturbed : \A g \in Goroutine :
        ip \in call[g].tgt => LoneCall(call[g], ip)

\* The call c has still to unblock ip, or its handler has still to add the timer.
Settles(c, ip) ==
    \/ c.op = "unblock" /\ c.at # "done" /\ ip \in c.tgt
    \/ c.op = "block" /\ c.at = "done" /\ c.res = "accepted" /\ ip \in c.tgt
    \/ c.op = "cloud" /\ \E e \in c.all : e.list = "black" /\ e.op = "add" /\ e.ip = ip

HasTimer(ip) ==
    ip \in blocked => \/ entries[ip] # TTL!NoEntry
                      \/ \E g \in Goroutine : ip \in job[g].due
                      \/ \E g \in Goroutine : Settles(call[g], ip)

\* Who makes which calls, and that only a sweep loop has addresses to unblock.
RolesKept ==
    \A g \in Goroutine :
        /\ call[g].op = "block" => g \in Triggers \cup Operators
        /\ call[g].op = "unblock" => g \in Operators \cup Sweepers
        /\ call[g].op = "cloud" => g \in Clouds
        /\ job[g].due # {} => g \in Sweepers

BlocksTimed ==
    phase = "running" => \A ip \in IP \ (disturbed \cup untimed) : HasTimer(ip)

TimedInv == AgreementInv /\ TimersTypeOK /\ LoneCalls /\ RolesKept /\ BlocksTimed

\* An address that a call settles is one it touches, by its own name.
LEMMA SettlesTouches ==
    ASSUME NEW ip \in IP, NEW c, Settles(c, ip)
    PROVE  Touches(c, ip)
  BY ConstantsAssumption DEF ConstantsAssumption, Settles, Touches, Targets, AddrsOf, Addrs

\* A step of a call keeps what is true of the calls on addresses it has for itself.
LEMMA LoneCallStep ==
    ASSUME AgreementInv, LoneCalls, NEW g \in Goroutine, CallStep(g)
    PROVE  LoneCalls'
  <1> SUFFICES ASSUME NEW ip \in IP \ disturbed', NEW h \in Goroutine, ip \in call'[h].tgt
               PROVE  LoneCall(call[h], ip)'
    BY DEF LoneCalls, LoneCall
  <1> USE DEF AgreementInv, WhitelistInv
  <1>1. /\ phase = "running" /\ ip \notin disturbed
        /\ \A k \in Goroutine \ {g} : call'[k] = call[k]
        /\ call'[g].op = call[g].op /\ call'[g].tgt = call[g].tgt
    BY CallStepKeeps
  <1>2. ip \in call[h].tgt /\ LoneCall(call[h], ip) /\ Touches(call[h], ip)
    BY <1>1, TouchedByName DEF LoneCalls
  <1>3. CASE h # g
    <2>1. ~Touches(call[g], ip)
      BY <1>1, <1>2, <1>3 DEF AllSettled, Alone
    <2>2. SameAddress(ip)
      BY <1>1, <2>1, CallStepElsewhere
    <2> QED
      BY <1>1, <1>2, <1>3, <2>2 DEF LoneCall, SameAddress
  <1>4. CASE h = g
    <2>1. call[g].tgt = {ip} /\ call[g].op \in {"block", "unblock"} /\ call[g] \in Calls
      BY <1>1, <1>2, <1>4, TouchedByName DEF TypeOK
    <2>2. LocalProgress(call[g], ip) /\ ip \in AddrsOf(call[g].tgt)
      BY <1>1, <1>2, <1>4, <2>1, TouchedByName DEF AllSettled, Settled, Progress
    <2>3. CASE ReadToBlock(g)
      BY <1>1, <1>4, <2>1, <2>3 DEF ReadToBlock, At, Goto, Finish, LoneCall, Calls, TypeOK
    <2>4. CASE AddToKernel(g)
      BY <1>1, <1>4, <2>1, <2>4 DEF AddToKernel, At, Commit, LoneCall, Calls, TypeOK
    <2>5. CASE AddFails(g)
      <3>1. ~InKernel(ip)
        BY <2>2, <2>5 DEF AddFails, At, LocalProgress, BlackMatch
      <3>2. At(g, "block", "add") \/ At(g, "block", "readd")
        BY <2>5 DEF AddFails
      <3>3. Goto(g, "readd") \/ Finish(g, "error")
        BY <2>2, <2>5, <3>1 DEF AddFails
      <3> QED
        BY <1>1, <1>4, <2>1, <3>2, <3>3 DEF At, Goto, Finish, LoneCall, Calls, TypeOK
    <2>6. CASE CommitBlocked(g)
      BY <1>1, <1>4, <2>1, <2>6 DEF CommitBlocked, At, Goto, LoneCall, Calls, TypeOK
    <2>7. CASE ReadToUnblock(g)
      BY <1>1, <1>4, <2>1, <2>7
         DEF ReadToUnblock, At, Goto, Finish, LoneCall, Calls, TypeOK, memory
    <2>8. CASE DelFromKernel(g) \/ DelFails(g)
      BY <1>1, <1>4, <2>1, <2>8 DEF DelFromKernel, DelFails, At, Commit, LoneCall, Calls, TypeOK
    <2>9. CASE CommitUnblocked(g)
      BY <1>1, <1>4, <2>1, <2>9 DEF CommitUnblocked, At, Goto, LoneCall, Calls, TypeOK
    <2>10. CASE \/ \E e \in call[g].todo : ApplyEntry(g, e) \/ BatchFails(g, e) \/ EntryFails(g, e)
                \/ CommitCloud(g)
      <3>1. call[g].at \in {"batch", "single"} => call[g].op = "cloud"
        BY <2>1 DEF CallsCovered, CallShape, LocalShape
      <3> QED
        BY <2>1, <2>10, <3>1 DEF ApplyEntry, BatchFails, EntryFails, NextEntry, CommitCloud, At
    <2> QED
      BY <2>3, <2>4, <2>5, <2>6, <2>7, <2>8, <2>9, <2>10 DEF CallStep
  <1> QED
    BY <1>3, <1>4

\* Every step of the manager keeps it.
LEMMA LoneStep == AgreementInv /\ LoneCalls /\ [Next]_vars => LoneCalls'
  <1> SUFFICES ASSUME AgreementInv, LoneCalls, [Next]_vars PROVE LoneCalls'
    OBVIOUS
  <1> USE DEF AgreementInv, WhitelistInv
  <1>1. CASE Start
    <2>1. phase # "running" /\ call' = call
      BY <1>1 DEF Start, RebuildFromKernel, SyncLocalWhitelist, PreloadBlacklist
    <2>2. \A g \in Goroutine : call'[g].tgt = {}
      BY <2>1 DEF CallsWellFormed, Idle
    <2> QED
      BY <2>2 DEF LoneCalls
  <1>2. CASE Crash
    BY <1>2 DEF Crash, LoneCalls, Idle
  <1>3. CASE Tick \/ UNCHANGED vars
    BY <1>3 DEF Tick, vars, memory, history, LoneCalls, LoneCall
  <1>4. ASSUME NEW g \in Goroutine, Request(g) PROVE LoneCalls'
    <2>1. PICK c : /\ Invoke(g, c) /\ c = call'[g] /\ CallShape(c) /\ c.failed = {}
                   /\ c.op = "cloud" => (c.at = "done" /\ c.all = {}) \/ c.todo = c.all
                   /\ c.op # "cloud" => \/ c.at = "read"
                                        \/ c.at = "done" /\ c.res = "whitelisted"
                   /\ UNCHANGED <<kernel, kernelWhite, memory, phase>>
      BY <1>4, NewCall
    <2>2. \A ip : LoneCall(call[g], ip)'
      BY <2>1 DEF LoneCall, CallShape, LocalShape
    <2>3. /\ \A h \in Goroutine \ {g} : call'[h] = call[h]
          /\ disturbed \subseteq disturbed' /\ blocked' = blocked
      BY <2>1 DEF Invoke, TypeOK, memory
    <2> QED
      BY <2>2, <2>3 DEF LoneCalls, LoneCall
  <1>5. ASSUME NEW g \in Goroutine, CallStep(g) PROVE LoneCalls'
    BY <1>5, LoneCallStep
  <1>6. ASSUME NEW g \in Goroutine, Return(g) PROVE LoneCalls'
    BY <1>6 DEF Return, memory, history, LoneCalls, LoneCall, Idle, TypeOK
  <1> QED
    BY <1>1, <1>2, <1>3, <1>4, <1>5, <1>6 DEF Next

\* A step of the one call on an address that makes or leaves it blocked owes its
\* timer, or its unblock, as before.
LEMMA CallStepSettles ==
    ASSUME AgreementInv, LoneCalls, NEW g \in Goroutine, CallStep(g),
           NEW ip \in IP \ disturbed, Touches(call[g], ip), ip \in blocked',
           Settles(call[g], ip) \/ ip \notin blocked
    PROVE  Settles(call'[g], ip)
  <1> USE DEF AgreementInv, WhitelistInv
  <1>1. /\ call'[g].op = call[g].op /\ call'[g].tgt = call[g].tgt
        /\ call'[g].all = call[g].all /\ call[g] \in Calls
    BY CallStepKeeps DEF TypeOK
  <1>2. call[g].op \in {"block", "unblock"} => call[g].tgt = {ip} /\ ip \in call[g].tgt
    BY TouchedByName DEF CallsCovered, CallShape, LocalShape
  <1>3. call[g].op = "block" /\ call[g].at # "done" => ~Settles(call[g], ip)
    BY DEF Settles
  <1>4. CASE ReadToBlock(g) \/ AddToKernel(g) \/ AddFails(g)
    <2>1. call[g].op = "block" /\ call[g].at # "done" /\ blocked' = blocked
      BY <1>4 DEF ReadToBlock, AddToKernel, AddFails, At, memory
    <2> QED
      BY <1>3, <2>1
  <1>5. CASE CommitBlocked(g)
    <2>1. call[g].res = "accepted"
      BY <1>2, <1>5 DEF CommitBlocked, At, LoneCalls, LoneCall
    <2> QED
      BY <1>1, <1>2, <1>5, <2>1 DEF CommitBlocked, At, Goto, Settles, Calls, TypeOK
  <1>6. CASE ReadToUnblock(g)
    <2>1. ip \in blocked
      BY <1>6 DEF ReadToUnblock, memory
    <2>2. Goto(g, "del")
      BY <1>2, <1>6, <2>1 DEF ReadToUnblock, At
    <2> QED
      BY <1>1, <1>2, <1>6, <2>2 DEF ReadToUnblock, At, Goto, Settles, Calls, TypeOK
  <1>7. CASE DelFromKernel(g) \/ DelFails(g)
    BY <1>1, <1>2, <1>7 DEF DelFromKernel, DelFails, At, Commit, Settles, Calls, TypeOK
  <1>8. CASE CommitUnblocked(g)
    BY <1>2, <1>8 DEF CommitUnblocked, At
  <1>9. ASSUME NEW e \in call[g].todo, ApplyEntry(g, e) \/ BatchFails(g, e) \/ EntryFails(g, e)
        PROVE  Settles(call'[g], ip)
    <2>1. blocked' = blocked /\ call[g].at \in {"batch", "single"}
      BY <1>9 DEF ApplyEntry, BatchFails, EntryFails, NextEntry, memory
    <2>2. call[g].op = "cloud"
      <3>1. call[g].op \in {"none", "block", "unblock", "cloud"}
        BY <1>1 DEF Calls
      <3> QED
        BY <2>1, <3>1 DEF CallsCovered, CallShape, LocalShape, Idle
    <2> QED
      BY <1>1, <2>1, <2>2 DEF Settles
  <1>10. CASE CommitCloud(g)
    <2>1. call[g].op = "cloud"
      BY <1>10 DEF CommitCloud, At
    <2>2. ip \notin blocked => ip \in Succeeded(g, "black", "add")
      BY <1>10 DEF CommitCloud
    <2> QED
      BY <1>1, <2>1, <2>2 DEF Settles, Succeeded
  <1> QED
    BY <1>4, <1>5, <1>6, <1>7, <1>8, <1>9, <1>10 DEF CallStep

\* A step inside the manager.
LEMMA ManagerTimed ==
    ASSUME TimedInv, NEW g \in Goroutine, Manager(g)
    PROVE  BlocksTimed'
  <1> USE DEF TimedInv, AgreementInv, WhitelistInv
  <1>1. CallStep(g) /\ UNCHANGED <<entries, job>> /\ untimed' = untimed \cap AddrsOf(blocked')
    BY DEF Manager
  <1>2. /\ phase = "running" /\ disturbed \subseteq disturbed'
        /\ \A h \in Goroutine \ {g} : call'[h] = call[h]
    BY <1>1, CallStepKeeps
  <1> SUFFICES ASSUME NEW ip \in IP \ (disturbed' \cup untimed'), ip \in blocked'
               PROVE  HasTimer(ip)'
    BY DEF BlocksTimed, HasTimer
  <1>3. ip \in AddrsOf(blocked')
    BY ConstantsAssumption DEF ConstantsAssumption, AddrsOf, Addrs
  <1>4. ip \notin disturbed /\ HasTimer(ip)
    BY <1>1, <1>2, <1>3 DEF BlocksTimed
  <1>5. CASE ~Touches(call[g], ip)
    <2>1. ip \in blocked
      BY <1>1, <1>4, <1>5, CallStepElsewhere DEF SameAddress
    <2>2. ~Settles(call[g], ip)
      BY <1>5, SettlesTouches
    <2> QED
      BY <1>1, <1>2, <1>4, <2>1, <2>2 DEF HasTimer, Settles
  <1>6. CASE Touches(call[g], ip)
    <2>1. \A h \in Goroutine \ {g} : ~Settles(call[h], ip)
      BY <1>4, <1>6, SettlesTouches DEF AllSettled, Alone
    <2>2. CASE ip \in blocked /\ ~Settles(call[g], ip)
      BY <1>1, <1>4, <2>1, <2>2 DEF HasTimer
    <2>3. CASE ip \notin blocked \/ Settles(call[g], ip)
      <3>1. Settles(call'[g], ip)
        BY <1>1, <1>4, <1>6, <2>3, CallStepSettles
      <3> QED
        BY <3>1 DEF HasTimer, Settles
    <2> QED
      BY <2>2, <2>3
  <1> QED
    BY <1>5, <1>6

\* An asked time to live becomes a timer that is not over yet.
LEMMA AddedTimer ==
    ASSUME NEW ttl \in 0 .. MaxTTL, NEW source \in {"local", "cloud"}
    PROVE  TTL!AdjustTTL(ttl, source) # TTL!NoEntry
  BY RolesAssumption DEF RolesAssumption, TTL!AdjustTTL, TTL!NoEntry

\* A handler that takes its result and adds the timer it owes, or removes that of an
\* address that is not blocked.
LEMMA ReturnTimed ==
    ASSUME TimedInv, NEW g \in Goroutine, Return(g), UNCHANGED untimed,
           \A h \in Goroutine : job'[h].due = job[h].due,
           \A ip \in IP \ disturbed :
               /\ Settles(call[g], ip) => entries'[ip] # TTL!NoEntry
               /\ entries'[ip] = TTL!NoEntry => entries[ip] = TTL!NoEntry \/ ip \notin blocked
    PROVE  BlocksTimed'
  <1> USE DEF TimedInv, AgreementInv, WhitelistInv
  <1>1. /\ \A h \in Goroutine \ {g} : call'[h] = call[h]
        /\ UNCHANGED <<blocked, phase, disturbed>>
    BY DEF Return, memory, history, TypeOK
  <1> SUFFICES ASSUME phase = "running", NEW ip \in IP \ (disturbed \cup untimed), ip \in blocked
               PROVE  HasTimer(ip)'
    BY <1>1 DEF BlocksTimed, HasTimer
  <1>2. HasTimer(ip)
    BY DEF BlocksTimed
  <1>3. CASE entries[ip] # TTL!NoEntry \/ Settles(call[g], ip)
    BY <1>3 DEF HasTimer
  <1>4. CASE \E h \in Goroutine : ip \in job[h].due
    BY <1>4 DEF HasTimer
  <1>5. CASE \E h \in Goroutine \ {g} : Settles(call[h], ip)
    BY <1>1, <1>5 DEF HasTimer, Settles
  <1> QED
    BY <1>2, <1>3, <1>4, <1>5 DEF HasTimer

\* The four handlers.
LEMMA AnswerTimed ==
    ASSUME TimedInv, NEW g \in Goroutine, Answer(g)
    PROVE  BlocksTimed' /\ RolesKept'
  <1> USE DEF TimedInv, AgreementInv, WhitelistInv
  <1>1. /\ Return(g) /\ UNCHANGED untimed
        /\ call[g].op # "none" /\ call[g].at = "done" /\ call[g] \in Calls
    BY DEF Answer, TriggerReturn, OperatorReturn, CloudReturn, OnExpireReturn, timers, Return,
           TypeOK
  <1>2. \A h \in Goroutine : job'[h].due = job[h].due
    <2>1. CASE OperatorReturn(g)
      <3>1. g \notin Sweepers
        BY <2>1, RolesAssumption DEF OperatorReturn, RolesAssumption
      <3>2. job[g].due = {} /\ NoJob.due = {}
        BY <3>1 DEF RolesKept, NoJob
      <3> QED
        BY <2>1, <3>2 DEF OperatorReturn, TimersTypeOK
    <2>2. CASE TriggerReturn(g) \/ CloudReturn(g) \/ OnExpireReturn(g)
      BY <2>2 DEF TriggerReturn, CloudReturn, OnExpireReturn, timers
    <2> QED
      BY <2>1, <2>2 DEF Answer
  <1>3. call[g].op \in {"block", "unblock", "cloud"}
    BY <1>1 DEF Calls
  <1>4. RolesKept'
    <2>1. call'[g] = Idle /\ \A h \in Goroutine \ {g} : call'[h] = call[h]
      BY <1>1 DEF Return, TypeOK
    <2> QED
      BY <1>2, <2>1 DEF RolesKept, Idle
  <1> SUFFICES ASSUME NEW ip \in IP \ disturbed
               PROVE  /\ Settles(call[g], ip) => entries'[ip] # TTL!NoEntry
                      /\ entries'[ip] = TTL!NoEntry
                            => entries[ip] = TTL!NoEntry \/ ip \notin blocked
    BY <1>1, <1>2, <1>4, ReturnTimed
  <1>5. ip \in Target /\ 0 \in 0 .. MaxTTL /\ LocalBlockTTL \in 0 .. MaxTTL
        /\ job[g].ttl \in 0 .. MaxTTL
    BY RolesAssumption DEF Target, RolesAssumption, TimersTypeOK
  <1>6. CASE TriggerReturn(g)
    <2>1. call[g].op = "block"
      BY <1>3, <1>6, RolesAssumption DEF TriggerReturn, RolesKept, RolesAssumption
    <2>2. CASE call[g].res = "accepted"
      <3>1. TTL!Add(call[g].tgt, LocalBlockTTL, "local")
        BY <1>6, <2>2 DEF TriggerReturn
      <3> QED
        BY <1>5, <2>1, <3>1, AddedTimer DEF TTL!Add, Settles
    <2>3. CASE call[g].res # "accepted"
      BY <1>6, <2>1, <2>3 DEF TriggerReturn, Settles
    <2> QED
      BY <2>2, <2>3
  <1>7. CASE OperatorReturn(g)
    <2>1. call[g].op \in {"block", "unblock"}
      BY <1>3, <1>7, RolesAssumption DEF OperatorReturn, RolesKept, RolesAssumption
    <2>2. CASE call[g].res = "accepted"
      <3>1. TTL!Add(call[g].tgt, job[g].ttl, "local")
        BY <1>7, <2>2 DEF OperatorReturn
      <3>2. call[g].op = "block"
        BY <2>1, <2>2 DEF CallsCovered, CallShape, LocalShape
      <3> QED
        BY <1>5, <3>1, <3>2, AddedTimer DEF TTL!Add, Settles
    <2>3. CASE call[g].res = "removed"
      <3>1. TTL!Remove(call[g].tgt) /\ call[g].op = "unblock"
        BY <1>7, <2>1, <2>3 DEF OperatorReturn, CallsCovered, CallShape, LocalShape
      <3>2. ip \in call[g].tgt => ip \notin blocked
        BY <1>1, <3>1 DEF LoneCalls, LoneCall
      <3> QED
        BY <1>1, <1>5, <3>1, <3>2 DEF TTL!Remove, Settles
    <2>4. CASE call[g].res \notin {"accepted", "removed"}
      BY <1>1, <1>7, <2>1, <2>4 DEF OperatorReturn, Settles
    <2> QED
      BY <2>2, <2>3, <2>4
  <1>8. CASE CloudReturn(g)
    <2>1. call[g].op = "cloud"
      BY <1>3, <1>8, RolesAssumption DEF CloudReturn, RolesKept, RolesAssumption
    <2>2. TTL!Add({e.ip : e \in {f \in call[g].all : f.list = "black" /\ f.op = "add"}},
                  0, "cloud")
      BY <1>8 DEF CloudReturn
    <2> QED
      BY <1>5, <2>1, <2>2, AddedTimer DEF TTL!Add, Settles
  <1>9. CASE OnExpireReturn(g)
    <2>1. call[g].op = "unblock" /\ entries' = entries
      BY <1>3, <1>9, RolesAssumption DEF OnExpireReturn, timers, RolesKept, RolesAssumption
    <2> QED
      BY <1>1, <2>1 DEF Settles
  <1> QED
    BY <1>6, <1>7, <1>8, <1>9 DEF Answer

\* A new call: the addresses it is for lose nothing.
LEMMA InvokeTimed ==
    ASSUME TimedInv, NEW g \in Goroutine, Request(g), UNCHANGED <<entries, untimed>>,
           \A ip \in IP, h \in Goroutine :
               ip \in job[h].due => ip \in job'[h].due \/ Settles(call'[g], ip)
    PROVE  BlocksTimed'
  <1> USE DEF TimedInv, AgreementInv, WhitelistInv
  <1>1. PICK c : /\ Invoke(g, c) /\ c = call'[g] /\ CallShape(c) /\ c.failed = {}
                 /\ c.op = "cloud" => (c.at = "done" /\ c.all = {}) \/ c.todo = c.all
                 /\ c.op # "cloud" => \/ c.at = "read"
                                      \/ c.at = "done" /\ c.res = "whitelisted"
                 /\ UNCHANGED <<kernel, kernelWhite, memory, phase>>
    BY NewCall
  <1>2. /\ phase = "running" /\ call[g] = Idle /\ disturbed \subseteq disturbed'
        /\ blocked' = blocked /\ \A h \in Goroutine \ {g} : call'[h] = call[h]
    BY <1>1 DEF Invoke, TypeOK, memory
  <1> SUFFICES ASSUME NEW ip \in IP \ (disturbed' \cup untimed), ip \in blocked
               PROVE  HasTimer(ip)'
    BY <1>2 DEF BlocksTimed, HasTimer
  <1>3. HasTimer(ip)
    BY <1>2 DEF BlocksTimed
  <1>4. \A h \in Goroutine : Settles(call[h], ip) => h # g /\ Settles(call[h], ip)'
    BY <1>2 DEF Settles, Idle
  <1>5. Settles(call'[g], ip) => HasTimer(ip)'
    BY DEF HasTimer, Settles
  <1> QED
    BY <1>3, <1>4, <1>5 DEF HasTimer

\* The callers ask only what is theirs to ask.
LEMMA AskTimed ==
    ASSUME TimedInv, NEW g \in Goroutine, Ask(g)
    PROVE  BlocksTimed' /\ RolesKept'
  <1> USE DEF TimedInv, AgreementInv, WhitelistInv
  <1>1. Request(g)
    BY DEF Ask, Trigger, BlocklistAdd, BlocklistDel, CloudChange, Request
  <1>2. UNCHANGED <<entries, untimed>>
    BY DEF Ask, Trigger, BlocklistAdd, BlocklistDel, CloudChange, timers
  <1>3. \A h \in Goroutine : job'[h].due = job[h].due
    <2>1. CASE g \in Operators /\ job'[g].due = {} /\ \A h \in Goroutine \ {g} : job'[h] = job[h]
      <3>1. job[g].due = {}
        BY <2>1, RolesAssumption DEF RolesKept, RolesAssumption
      <3> QED
        BY <2>1, <3>1
    <2>2. ASSUME NEW t \in Target, NEW force \in BOOLEAN, NEW ttl \in TTLRequests,
                 BlocklistAdd(g, t, force, ttl)
          PROVE  \A h \in Goroutine : job'[h].due = job[h].due
      BY <2>1, <2>2 DEF BlocklistAdd, NoJob, TimersTypeOK
    <2>3. ASSUME NEW t \in Target, BlocklistDel(g, t)
          PROVE  \A h \in Goroutine : job'[h].due = job[h].due
      BY <2>1, <2>3 DEF BlocklistDel, NoJob, TimersTypeOK
    <2>4. CASE UNCHANGED timers
      BY <2>4 DEF timers
    <2> QED
      BY <2>2, <2>3, <2>4 DEF Ask, Trigger, CloudChange
  <1>4. BlocksTimed'
    BY <1>1, <1>2, <1>3, InvokeTimed
  <1>5. \A h \in Goroutine \ {g} : call'[h] = call[h]
    <2>1. \E c : Invoke(g, c)
      BY <1>1, NewCall
    <2> QED
      BY <2>1 DEF Invoke, TypeOK
  <1>6. /\ call'[g].op = "block" => g \in Triggers \cup Operators
        /\ call'[g].op = "unblock" => g \in Operators \cup Sweepers
        /\ call'[g].op = "cloud" => g \in Clouds
    <2>1. ASSUME NEW t \in Target, Block(g, t) \/ ForceBlock(g, t) PROVE call'[g].op = "block"
      BY <2>1 DEF Block, ForceBlock, Invoke, CallOf, Idle, TypeOK
    <2>2. ASSUME NEW t \in Target, Unblock(g, t) PROVE call'[g].op = "unblock"
      BY <2>2 DEF Unblock, Invoke, CallOf, Idle, TypeOK
    <2>3. ASSUME NEW batch \in CloudBatches, ApplyCloud(g, batch) PROVE call'[g].op = "cloud"
      BY <2>3 DEF ApplyCloud, Invoke, Idle, TypeOK
    <2> QED
      BY <2>1, <2>2, <2>3 DEF Ask, Trigger, BlocklistAdd, BlocklistDel, CloudChange
  <1>7. RolesKept'
    BY <1>3, <1>5, <1>6 DEF RolesKept
  <1> QED
    BY <1>4, <1>7

\* The sweep loop takes timers out of the table, and then has their addresses to
\* unblock.
LEMMA ExpireTimed ==
    ASSUME TimedInv, NEW g \in Goroutine, Expire(g)
    PROVE  BlocksTimed' /\ RolesKept'
  <1> USE DEF TimedInv, AgreementInv, WhitelistInv
  <1>1. CASE Sweep(g)
    <2>1. /\ g \in Sweepers /\ UNCHANGED <<vars, untimed>>
          /\ job[g].due = {} /\ job'[g].due = TTL!Expired
          /\ \A h \in Goroutine \ {g} : job'[h] = job[h]
      BY <1>1 DEF Sweep, TimersTypeOK
    <2>2. \A ip \in IP : entries'[ip] = entries[ip] \/ ip \in TTL!Expired
      BY <1>1 DEF Sweep, TTL!Collect, TTL!Remove, Target
    <2>3. BlocksTimed'
      BY <2>1, <2>2 DEF BlocksTimed, HasTimer, Settles, vars
    <2>4. RolesKept'
      BY <2>1 DEF RolesKept, vars
    <2> QED
      BY <2>3, <2>4
  <1>2. ASSUME NEW t \in job[g].due, OnExpire(g, t) PROVE BlocksTimed' /\ RolesKept'
    <2>1. /\ g \in Sweepers /\ t \in Target /\ Unblock(g, t) /\ UNCHANGED <<entries, untimed>>
          /\ job'[g].due = job[g].due \ {t}
          /\ \A h \in Goroutine \ {g} : job'[h] = job[h]
      BY <1>2 DEF OnExpire, TimersTypeOK
    <2>2. /\ call'[g] = CallOf("unblock", "read", t, "none")
          /\ \A h \in Goroutine \ {g} : call'[h] = call[h]
      BY <2>1 DEF Unblock, Invoke, TypeOK
    <2>3. Settles(call'[g], t) /\ call'[g].op = "unblock"
      BY <2>2 DEF CallOf, Idle, Settles
    <2>4. BlocksTimed'
      <3>1. Request(g)
        BY <2>1 DEF Request
      <3>2. \A ip \in IP, h \in Goroutine :
                ip \in job[h].due => ip \in job'[h].due \/ Settles(call'[g], ip)
        BY <2>1, <2>3
      <3> QED
        BY <2>1, <3>1, <3>2, InvokeTimed
    <2>5. RolesKept'
      BY <2>1, <2>2, <2>3 DEF RolesKept
    <2> QED
      BY <2>4, <2>5
  <1> QED
    BY <1>1, <1>2 DEF Expire

\* The start, the snapshot, time and the end of the process.
LEMMA LifeTimed ==
    ASSUME TimedInv,
           StartManager \/ LoadAndRestore \/ Save \/ SaveOnSignal \/ Exit \/ TickAll
    PROVE  BlocksTimed' /\ RolesKept'
  <1> USE DEF TimedInv, AgreementInv, WhitelistInv
  <1>1. CASE StartManager
    <2>1. call' = call /\ job' = job
      BY <1>1 DEF StartManager, Start, RebuildFromKernel, SyncLocalWhitelist, PreloadBlacklist
    <2>2. phase' = "running" => \A ip \in IP : ip \in blocked' => ip \in untimed'
      BY <1>1, ConstantsAssumption DEF ConstantsAssumption, StartManager, AddrsOf, Addrs
    <2> QED
      BY <2>1, <2>2 DEF BlocksTimed, HasTimer, RolesKept
  <1>2. CASE LoadAndRestore
    <2>1. UNCHANGED <<blocked, call, phase, disturbed, job>>
      BY <1>2 DEF LoadAndRestore, vars
    <2>2. untimed' = {ip \in untimed : entries'[ip] = TTL!NoEntry}
      BY <1>2 DEF LoadAndRestore
    <2>3. \A ip \in IP : entries'[ip] = entries[ip] \/ entries'[ip] # TTL!NoEntry
      <3>1. TTL!Restore(disk)
        BY <1>2 DEF LoadAndRestore
      <3> QED
        BY <3>1 DEF TTL!Restore, TTL!Due, TTL!NoEntry, TTL!Tables, TimersTypeOK, Target
    <2>4. BlocksTimed'
      BY <2>1, <2>2, <2>3 DEF BlocksTimed, HasTimer, Settles
    <2>5. RolesKept'
      BY <2>1 DEF RolesKept
    <2> QED
      BY <2>4, <2>5
  <1>3. CASE Save \/ SaveOnSignal
    <2>1. UNCHANGED <<vars, entries, job, untimed>>
      BY <1>3 DEF Save, SaveOnSignal
    <2> QED
      BY <2>1 DEF vars, BlocksTimed, HasTimer, Settles, RolesKept
  <1>4. CASE Exit
    BY <1>4 DEF Exit, EndProcess, Crash, BlocksTimed, RolesKept, Idle, NoJob
  <1>5. CASE TickAll
    <2>1. UNCHANGED <<blocked, call, phase, disturbed, job, untimed>>
      BY <1>5 DEF TickAll, memory, history
    <2>2. \A ip \in IP : entries[ip] # TTL!NoEntry => entries'[ip] # TTL!NoEntry
      <3>1. entries' = TTL!Elapse(entries)
        BY <1>5 DEF TickAll
      <3> QED
        BY <3>1, RolesAssumption
           DEF RolesAssumption, TTL!Elapse, TTL!Due, TTL!NoEntry, TTL!Tables, TimersTypeOK, Target
    <2> QED
      BY <2>1, <2>2 DEF BlocksTimed, HasTimer, Settles, RolesKept
  <1> QED
    BY <1>1, <1>2, <1>3, <1>4, <1>5

\* Every step keeps the invariant.
LEMMA TimedStep == TimedInv /\ [ENext]_evars => TimedInv'
  <1> SUFFICES ASSUME TimedInv, [ENext]_evars PROVE TimedInv'
    OBVIOUS
  <1>1. [Next]_vars
    BY ManagerSteps DEF TimedInv
  <1>2. AgreementInv' /\ TimersTypeOK' /\ LoneCalls'
    BY <1>1, AgreementStep, TimersStep, LoneStep DEF TimedInv
  <1>3. ASSUME NEW g \in Goroutine, Manager(g) PROVE BlocksTimed' /\ RolesKept'
    <2>1. CallStep(g) /\ job' = job
      BY <1>3 DEF Manager
    <2>2. /\ \A h \in Goroutine \ {g} : call'[h] = call[h]
          /\ call'[g].op = call[g].op
      BY <2>1, CallStepKeeps DEF TimedInv, AgreementInv, WhitelistInv
    <2>3. RolesKept'
      BY <2>1, <2>2 DEF TimedInv, RolesKept
    <2> QED
      BY <1>3, <2>3, ManagerTimed
  <1>4. CASE UNCHANGED evars
    BY <1>2, <1>4 DEF evars, vars, timers, TimedInv, BlocksTimed, HasTimer, Settles, RolesKept
  <1> QED
    BY <1>2, <1>3, <1>4, AnswerTimed, AskTimed, ExpireTimed, LifeTimed DEF ENext, TimedInv

\* Every block has its timer, for any number of triggers, operators, cloud loops and
\* sweep loops, whatever they do at once: but for addresses two calls changed at once,
\* those a command failed for, and those blocked since before the start.
THEOREM BlocksAreTimed == ESpec => []TimedBlock
  <1>1. EInit => TimedInv
    <2> SUFFICES ASSUME EInit PROVE TimedInv
      OBVIOUS
    <2>1. AgreementInv /\ TimersTypeOK
      BY InitAgreement, TimersInit DEF EInit
    <2>2. \A g \in Goroutine : call[g] = Idle /\ job[g].due = {} /\ phase = "stopped"
      BY DEF EInit, Init, NoJob
    <2>3. phase # "running"
      BY DEF EInit, Init
    <2> QED
      BY <2>1, <2>2, <2>3 DEF TimedInv, LoneCalls, RolesKept, BlocksTimed, Idle
  <1>2. TimedInv => TimedBlock
    <2> SUFFICES ASSUME TimedInv, phase = "running",
                        NEW ip \in IP \ (disturbed \cup untimed), ip \in blocked, Quiet(ip)
                 PROVE  entries[ip] # TTL!NoEntry
      BY DEF TimedBlock
    <2>1. HasTimer(ip)
      BY DEF TimedInv, BlocksTimed
    <2>2. \A g \in Goroutine : ~Settles(call[g], ip)
      BY SettlesTouches DEF Quiet
    <2>3. \A g \in Goroutine : ip \notin job[g].due
      BY ConstantsAssumption DEF ConstantsAssumption, Quiet, AddrsOf, Addrs
    <2> QED
      BY <2>1, <2>2, <2>3 DEF HasTimer
  <1> QED
    BY <1>1, <1>2, TimedStep, PTL DEF ESpec

-----------------------------------------------------------------------------
(* The manager of a set without timeouts is the one set of Blacklist.  A call *)
(* changes that set in the step of its ipset command, or in its look at the   *)
(* map if it gives none; every other step of it changes nothing there.  The   *)
(* invariant adds to what agrees when a call has its answer.                  *)

\* A call has its answer from the step that decides it on, and no sooner.
Answered(c) ==
    /\ c.at \notin {"commit", "done"} => c.res = "none"
    /\ c.op \in {"block", "unblock"} /\ c.at \in {"commit", "done"} => c.res # "none"
    /\ c.op = "cloud" =>
          /\ c.all = {} => c.at = "done" /\ c.res = "none"
          /\ c.all # {} => (c.at = "done" <=> c.res # "none")
    /\ c.failed # {} => ClientFails

CallsAnswered == \A g \in Goroutine : Answered(call[g])

FreshHistory == phase = "stopped" => disturbed = {}

ListInv == AgreementInv /\ LoneCalls /\ CallsAnswered /\ FreshHistory

\* A call that asks the same as before.
SameQuestion(c, d) == d.op = c.op /\ d.tgt = c.tgt /\ d.all = c.all

\* A new call has its answer only if it is refused or has nothing to do.
LEMMA NewAnswer ==
    ASSUME TypeOK, NEW g \in Goroutine, Request(g)
    PROVE  Answered(call'[g]) /\ (call'[g].op = "cloud" => call'[g].res = "none")
  <1> DEFINE NewlyAsked ==
             Answered(call'[g]) /\ (call'[g].op = "cloud" => call'[g].res = "none")
  <1>1. \A c : Invoke(g, c) => call'[g] = c
    BY DEF Invoke, TypeOK
  <1>2. ASSUME NEW t \in Target, Block(g, t) \/ ForceBlock(g, t) \/ Unblock(g, t)
        PROVE  NewlyAsked
    BY <1>1, <1>2 DEF Block, ForceBlock, Unblock, CallOf, Idle, Answered
  <1>3. ASSUME NEW batch \in CloudBatches, ApplyCloud(g, batch)
        PROVE  NewlyAsked
    BY <1>1, <1>3 DEF ApplyCloud, Idle, Answered
  <1> QED
    BY <1>2, <1>3 DEF Request

\* A step of a call gives it its answer in time.
LEMMA CallStepAnswered ==
    ASSUME ListInv, NEW g \in Goroutine, CallStep(g)
    PROVE  Answered(call'[g])
  <1> USE DEF ListInv, AgreementInv, WhitelistInv
  <1>1. call[g] \in Calls /\ Answered(call[g]) /\ CallShape(call[g])
    BY DEF TypeOK, CallsAnswered, CallsCovered
  <1>2. CASE \/ ReadToBlock(g) \/ AddToKernel(g) \/ AddFails(g) \/ CommitBlocked(g)
             \/ ReadToUnblock(g) \/ DelFromKernel(g) \/ DelFails(g) \/ CommitUnblocked(g)
    BY <1>1, <1>2 DEF ReadToBlock, AddToKernel, AddFails, CommitBlocked, ReadToUnblock,
                      DelFromKernel, DelFails, CommitUnblocked, At, Goto, Commit, Finish,
                      Calls, TypeOK, Answered
  <1>3. CASE CommitCloud(g)
    BY <1>1, <1>3 DEF CommitCloud, At, Finish, Calls, TypeOK, Answered
  <1>4. ASSUME NEW e \in call[g].todo, ApplyEntry(g, e) \/ BatchFails(g, e) \/ EntryFails(g, e)
        PROVE  Answered(call'[g])
    <2>1. /\ call[g].at \in {"batch", "single"} /\ e \in call[g].all
          /\ call[g].op = "cloud" /\ call[g].res = "none"
      BY <1>1, <1>4 DEF ApplyEntry, BatchFails, EntryFails, NextEntry, CallsWellFormed, Answered,
                        CallShape, LocalShape, Idle, Calls
    <2>2. /\ call'[g].op = "cloud" /\ call'[g].all = call[g].all /\ call'[g].res = "none"
          /\ call'[g].at # "done" /\ (call'[g].failed # {} => ClientFails)
      <3>1. CASE ApplyEntry(g, e)
        BY <1>1, <2>1, <3>1 DEF ApplyEntry, After, Calls, TypeOK, Answered
      <3>2. CASE BatchFails(g, e) /\ MayRetry(g)
        BY <1>1, <2>1, <3>2 DEF BatchFails, Calls, TypeOK, Answered
      <3>3. CASE BatchFails(g, e) /\ ~MayRetry(g)
        BY <1>1, <2>1, <3>3 DEF BatchFails, Calls, TypeOK, Answered
      <3>4. CASE EntryFails(g, e)
        BY <1>1, <2>1, <3>4 DEF EntryFails, After, Calls, TypeOK, Answered
      <3> QED
        BY <1>4, <3>1, <3>2, <3>3, <3>4
    <2> QED
      BY <2>1, <2>2 DEF Answered
  <1> QED
    BY <1>2, <1>3, <1>4 DEF CallStep

\* Every step keeps the invariant.
LEMMA ListStep == ListInv /\ [Next]_vars => ListInv'
  <1> SUFFICES ASSUME ListInv, [Next]_vars PROVE ListInv'
    OBVIOUS
  <1> USE DEF ListInv, AgreementInv, WhitelistInv
  <1>1. AgreementInv' /\ LoneCalls'
    BY AgreementStep, LoneStep
  <1>2. Answered(Idle)
    BY DEF Answered, Idle
  <1> DEFINE Kept == CallsAnswered' /\ FreshHistory'
  <1>3. ASSUME Start PROVE Kept
    <2>1. phase' # "stopped" /\ call' = call
      BY <1>3 DEF Start, RebuildFromKernel, SyncLocalWhitelist, PreloadBlacklist
    <2> QED
      BY <2>1 DEF CallsAnswered, Answered, FreshHistory
  <1>4. ASSUME Crash PROVE Kept
    BY <1>2, <1>4 DEF Crash, CallsAnswered, Answered, FreshHistory
  <1>5. ASSUME Tick \/ UNCHANGED vars PROVE Kept
    BY <1>5 DEF Tick, vars, memory, history, CallsAnswered, Answered, FreshHistory
  <1>6. ASSUME NEW g \in Goroutine, Request(g) PROVE Kept
    <2>1. PICK c : Invoke(g, c) /\ UNCHANGED phase
      BY <1>6, NewCall
    <2>2. phase' # "stopped" /\ \A h \in Goroutine \ {g} : call'[h] = call[h]
      BY <2>1 DEF Invoke, TypeOK
    <2> QED
      BY <1>6, <2>2, NewAnswer DEF CallsAnswered, Answered, FreshHistory
  <1>7. ASSUME NEW g \in Goroutine, CallStep(g) PROVE Kept
    <2>1. phase' # "stopped" /\ \A h \in Goroutine \ {g} : call'[h] = call[h]
      BY <1>7, CallStepKeeps
    <2> QED
      BY <1>7, <2>1, CallStepAnswered DEF CallsAnswered, Answered, FreshHistory
  <1>8. ASSUME NEW g \in Goroutine, Return(g) PROVE Kept
    BY <1>2, <1>8 DEF Return, history, TypeOK, CallsAnswered, Answered, FreshHistory
  <1>9. Kept
    BY <1>3, <1>4, <1>5, <1>6, <1>7, <1>8 DEF Next
  <1> QED
    BY <1>1, <1>9

\* What a caller asked stays the same while its call moves on; only its answer may
\* come.
LEMMA AskedMoves ==
    ASSUME TypeOK, NEW g \in Goroutine, \A h \in Goroutine \ {g} : call'[h] = call[h],
           SameQuestion(call[g], call'[g])
    PROVE  /\ Asked' = [Asked EXCEPT ![g].answer = AskedBy(call'[g]).answer]
           /\ AskedBy(call'[g]).answer = Asked[g].answer => Asked' = Asked
  <1> DEFINE d == call'[g]
  <1>1. Asked' = [h \in Goroutine |-> AskedBy(call'[h])]
    BY DEF Asked, AskedBy, BlackTargets, Targets, SubnetAddrs, AddrsOf, Addrs
  <1>2. Targets(d) = Targets(call[g])
    BY DEF SameQuestion, Targets
  <1>3. \A op : BlackTargets(d, op) = BlackTargets(call[g], op)
    BY DEF SameQuestion, BlackTargets
  <1>4. AskedBy(d) = [AskedBy(call[g]) EXCEPT !.answer = AskedBy(d).answer]
    <2>1. \A r, a : r = [op |-> r.op, of |-> r.of, subnets |-> r.subnets, add |-> r.add,
                        del |-> r.del, answer |-> r.answer]
             => [r EXCEPT !.answer = a]
                  = [op |-> r.op, of |-> r.of, subnets |-> r.subnets, add |-> r.add,
                     del |-> r.del, answer |-> a]
      OBVIOUS
    <2> DEFINE q == AskedBy(call[g])
               a == AskedBy(d).answer
    <2>2. q = [op |-> q.op, of |-> q.of, subnets |-> q.subnets, add |-> q.add,
               del |-> q.del, answer |-> q.answer]
      BY DEF AskedBy
    <2>3. AskedBy(d) = [op |-> q.op, of |-> q.of, subnets |-> q.subnets, add |-> q.add,
                        del |-> q.del, answer |-> a]
      BY <1>2, <1>3 DEF AskedBy, SameQuestion
    <2> HIDE DEF q, a
    <2>4. AskedBy(d) = [q EXCEPT !.answer = a]
      BY <2>1, <2>2, <2>3
    <2> QED
      BY <2>4 DEF q, a
  <1>5. AskedBy(d).answer = AskedBy(call[g]).answer => AskedBy(d) = AskedBy(call[g])
    BY <1>2, <1>3 DEF AskedBy, SameQuestion
  <1> HIDE DEF d
  <1>6. Asked = [h \in Goroutine |-> AskedBy(call[h])]
    BY DEF Asked
  <1>7. [h \in Goroutine |-> AskedBy(call'[h])]
            = [Asked EXCEPT ![g].answer = AskedBy(d).answer]
    <2>1. \A h \in Goroutine \ {g} : AskedBy(call'[h]) = AskedBy(call[h])
      OBVIOUS
    <2>2. AskedBy(call'[g]) = [Asked[g] EXCEPT !.answer = AskedBy(d).answer]
      BY <1>4, <1>6 DEF d
    <2> QED
      BY <1>6, <2>1, <2>2
  <1>8. AskedBy(d).answer = Asked[g].answer => Asked' = Asked
    <2>1. \A h \in Goroutine \ {g} : AskedBy(call'[h]) = AskedBy(call[h])
      OBVIOUS
    <2> QED
      BY <1>1, <1>5, <1>6, <2>1 DEF d
  <1> QED
    BY <1>1, <1>7, <1>8 DEF d

\* A step of a call is at most an answer to its caller.
LEMMA CallStepAsked ==
    ASSUME ListInv, NEW g \in Goroutine, CallStep(g)
    PROVE  /\ Asked' = [Asked EXCEPT ![g].answer = AskedBy(call'[g]).answer]
           /\ AskedBy(call'[g]).answer = Asked[g].answer => Asked' = Asked
           /\ (phase = "running")' = (phase = "running")
           /\ phase = "running"
           /\ SameQuestion(call[g], call'[g])
  <1>1. /\ phase = "running" /\ phase' = phase
        /\ \A h \in Goroutine \ {g} : call'[h] = call[h]
        /\ SameQuestion(call[g], call'[g])
    BY CallStepKeeps DEF ListInv, AgreementInv, WhitelistInv, SameQuestion
  <1> QED
    BY <1>1, AskedMoves DEF ListInv, AgreementInv, WhitelistInv

\* An address of a block or an unblock that the history does not list is all the call
\* is about, and the call knows how it stands.
LEMMA OwnAddress ==
    ASSUME ListInv, phase = "running", NEW g \in Goroutine,
           call[g].op \in {"block", "unblock"},
           NEW ip \in AddrsOf(call[g].tgt) \ disturbed
    PROVE  /\ ip \in IP \ disturbed /\ call[g].tgt = {ip}
           /\ LocalProgress(call[g], ip) /\ LoneCall(call[g], ip)
  <1> USE DEF ListInv, AgreementInv, WhitelistInv
  <1>1. ip \in IP \ disturbed
    BY DEF AddrsOf
  <1>2. ip \in call[g].tgt /\ call[g].tgt = {ip} /\ Touches(call[g], ip)
    BY <1>1, TouchedByName
  <1>3. LocalProgress(call[g], ip)
    BY <1>1, <1>2 DEF AllSettled, Settled, Progress
  <1>4. LoneCall(call[g], ip)
    BY <1>1, <1>2 DEF LoneCalls
  <1> QED
    BY <1>1, <1>2, <1>3, <1>4

\* What a block and an unblock ask for.
LEMMA LocalQuestion ==
    ASSUME ListInv, NEW g \in Goroutine, call[g].op \in {"block", "unblock"}
    PROVE  /\ Asked[g].op = call[g].op /\ Asked[g].answer = call[g].res
           /\ call[g].op = "block" => Asked[g].add = AddrsOf(call[g].tgt)
           /\ call[g].op = "unblock" => Asked[g].del = AddrsOf(call[g].tgt)
           /\ AskedBy(call[g]).answer = call[g].res
  BY DEF Asked, AskedBy

\* A step that changes neither the kernel's blacklist nor the history and gives no
\* answer is not seen.
LEMMA Unseen ==
    ASSUME ListInv, NEW g \in Goroutine, CallStep(g), kernel' = kernel,
           disturbed' = disturbed, AskedBy(call'[g]).answer = Asked[g].answer
    PROVE  UNCHANGED List!bvars
  <1>1. Asked' = Asked /\ (phase = "running")' = (phase = "running")
    BY CallStepAsked
  <1>2. Dropped' = Dropped
    BY DEF Dropped, InKernel
  <1> QED
    BY <1>1, <1>2 DEF List!bvars

\* The moment of a block: its add, the failure of it, or its look at the map.
LEMMA BlockStep ==
    ASSUME ListInv, ~SetHasTimeout, NEW g \in Goroutine, CallStep(g),
           ReadToBlock(g) \/ AddToKernel(g) \/ AddFails(g) \/ CommitBlocked(g)
    PROVE  List!BlockOnce(g) \/ UNCHANGED List!bvars
  <1>1. call[g].op = "block" /\ call[g] \in Calls /\ Answered(call[g])
    BY DEF ReadToBlock, AddToKernel, AddFails, CommitBlocked, At, ListInv, AgreementInv,
           WhitelistInv, TypeOK, CallsAnswered
  <1>2. /\ Asked[g].op = "block" /\ Asked[g].answer = call[g].res
        /\ Asked[g].add = AddrsOf(call[g].tgt) /\ Asked[g].add \subseteq IP
    BY <1>1, LocalQuestion DEF AddrsOf
  <1>3. /\ phase = "running" /\ (phase = "running")' = (phase = "running")
        /\ Asked' = [Asked EXCEPT ![g].answer = AskedBy(call'[g]).answer]
        /\ call'[g].op = "block" /\ AskedBy(call'[g]).answer = call'[g].res
    BY <1>1, CallStepAsked DEF SameQuestion, AskedBy
  <1>4. disturbed' = disturbed
    BY DEF ReadToBlock, AddToKernel, AddFails, CommitBlocked, history
  <1>5. \A ip \in Asked[g].add \ disturbed :
           /\ call[g].tgt = {ip} /\ LocalProgress(call[g], ip)
           /\ ip \in Dropped <=> InKernel(ip)
    BY <1>1, <1>2, <1>3, OwnAddress DEF Dropped
  <1>6. call[g].at \notin {"commit", "done"} => List!Open(g, "block")
    BY <1>1, <1>2 DEF List!Open, Answered
  <1>7. List!Answer(g, call'[g].res)
    BY <1>3 DEF List!Answer
  <1>8. kernel' = kernel => Dropped' = Dropped
    BY <1>4 DEF Dropped, InKernel
  <1>9. CASE ReadToBlock(g)
    <2>1. CASE call[g].tgt \subseteq blocked
      <3>1. call'[g].res = "already"
        BY <1>1, <1>9, <2>1 DEF ReadToBlock, Finish, Calls, ListInv, AgreementInv,
                                WhitelistInv, TypeOK
      <3>2. Asked[g].add \subseteq Dropped \cup disturbed
        BY <1>5, <1>9, <2>1 DEF ReadToBlock, At, LocalProgress, BlackMatch
      <3>3. List!Open(g, "block") /\ Dropped' = Dropped
        BY <1>6, <1>8, <1>9 DEF ReadToBlock, At
      <3> QED
        BY <1>4, <1>7, <3>1, <3>2, <3>3 DEF List!BlockOnce
    <2>2. CASE ~(call[g].tgt \subseteq blocked)
      <3>1. call'[g].res = call[g].res
        BY <1>1, <1>9, <2>2 DEF ReadToBlock, Goto, Calls, ListInv, AgreementInv,
                                WhitelistInv, TypeOK
      <3> QED
        BY <1>2, <1>3, <1>4, <1>9, <3>1, Unseen DEF ReadToBlock
    <2> QED
      BY <2>1, <2>2
  <1>10. CASE AddToKernel(g)
    <2>1. call'[g].res = "accepted" /\ call[g].at \in {"add", "readd"}
      BY <1>1, <1>10 DEF AddToKernel, At, Commit, Calls, ListInv, AgreementInv,
                         WhitelistInv, TypeOK
    <2>2. Asked[g].add \cap Dropped = {}
      BY <1>5, <2>1 DEF LocalProgress, BlackMatch, Dropped
    <2>3. \A ip \in IP : kernel'[ip] # Absent <=> InKernel(ip) \/ ip \in Asked[g].add
      BY <1>2, <1>10, Added, ConstantsAssumption
         DEF ConstantsAssumption, AddToKernel, KernelAdd, InKernel
    <2>4. Dropped' = Dropped \cup (Asked[g].add \ disturbed)
      BY <1>2, <1>4, <2>3 DEF Dropped, InKernel
    <2> QED
      BY <1>4, <1>6, <1>7, <2>1, <2>2, <2>4 DEF List!BlockOnce
  <1>11. CASE AddFails(g)
    <2>1. kernel' = kernel /\ ClientFails /\ call[g].at \in {"add", "readd"}
      BY <1>11 DEF AddFails, At
    <2>2. \/ Goto(g, "readd") \/ Finish(g, "error")
          \/ (\A ip \in AddrsOf(call[g].tgt) : InKernel(ip)) /\ Commit(g, "exists")
      BY <1>11 DEF AddFails
    <2>3. CASE Goto(g, "readd")
      <3>1. call'[g].res = call[g].res
        BY <1>1, <2>3 DEF Goto, Calls, ListInv, AgreementInv, WhitelistInv, TypeOK
      <3> QED
        BY <1>2, <1>3, <1>4, <2>1, <3>1, Unseen
    <2>4. CASE Finish(g, "error")
      <3>1. call'[g].res = "error"
        BY <1>1, <2>4 DEF Finish, Calls, ListInv, AgreementInv, WhitelistInv, TypeOK
      <3> QED
        BY <1>4, <1>6, <1>7, <1>8, <2>1, <3>1 DEF List!BlockOnce
    <2>5. CASE (\A ip \in AddrsOf(call[g].tgt) : InKernel(ip)) /\ Commit(g, "exists")
      <3>1. call'[g].res = "exists"
        BY <1>1, <2>5 DEF Commit, Calls, ListInv, AgreementInv, WhitelistInv, TypeOK
      <3>2. Asked[g].add \subseteq disturbed
        BY <1>2, <1>5, <2>1, <2>5 DEF LocalProgress, BlackMatch
      <3> QED
        BY <1>4, <1>6, <1>7, <1>8, <2>1, <3>1, <3>2 DEF List!BlockOnce
    <2> QED
      BY <2>2, <2>3, <2>4, <2>5
  <1>12. CASE CommitBlocked(g)
    <2>1. call'[g].res = call[g].res
      BY <1>1, <1>12 DEF CommitBlocked, Goto, Calls, ListInv, AgreementInv, WhitelistInv, TypeOK
    <2> QED
      BY <1>2, <1>3, <1>4, <1>12, <2>1, Unseen DEF CommitBlocked
  <1> QED
    BY <1>9, <1>10, <1>11, <1>12

\* The moment of an unblock: its delete, the failure of it, or its look at the map.
LEMMA UnblockStep ==
    ASSUME ListInv, ~SetHasTimeout, NEW g \in Goroutine, CallStep(g),
           ReadToUnblock(g) \/ DelFromKernel(g) \/ DelFails(g) \/ CommitUnblocked(g)
    PROVE  List!UnblockOnce(g) \/ UNCHANGED List!bvars
  <1>1. call[g].op = "unblock" /\ call[g] \in Calls /\ Answered(call[g])
    BY DEF ReadToUnblock, DelFromKernel, DelFails, CommitUnblocked, At, ListInv,
           AgreementInv, WhitelistInv, TypeOK, CallsAnswered
  <1>2. /\ Asked[g].op = "unblock" /\ Asked[g].answer = call[g].res
        /\ Asked[g].del = AddrsOf(call[g].tgt) /\ Asked[g].del \subseteq IP
    BY <1>1, LocalQuestion DEF AddrsOf
  <1>3. /\ phase = "running" /\ (phase = "running")' = (phase = "running")
        /\ Asked' = [Asked EXCEPT ![g].answer = AskedBy(call'[g]).answer]
        /\ call'[g].op = "unblock" /\ AskedBy(call'[g]).answer = call'[g].res
    BY <1>1, CallStepAsked DEF SameQuestion, AskedBy
  <1>4. \A ip \in Asked[g].del \ disturbed :
           /\ call[g].tgt = {ip} /\ LocalProgress(call[g], ip) /\ LoneCall(call[g], ip)
           /\ ip \in Dropped <=> InKernel(ip)
    BY <1>1, <1>2, <1>3, OwnAddress DEF Dropped
  <1>5. call[g].at \notin {"commit", "done"} => List!Open(g, "unblock")
    BY <1>1, <1>2 DEF List!Open, Answered
  <1>6. List!Answer(g, call'[g].res)
    BY <1>3 DEF List!Answer
  <1>7. CASE ReadToUnblock(g)
    <2>0. kernel' = kernel /\ disturbed' = disturbed /\ call[g].at = "read"
      BY <1>7 DEF ReadToUnblock, At, history
    <2>1. CASE call[g].tgt \subseteq blocked
      <3>1. call'[g].res = call[g].res
        BY <1>1, <1>7, <2>1 DEF ReadToUnblock, Goto, Calls, ListInv, AgreementInv,
                                WhitelistInv, TypeOK
      <3> QED
        BY <1>2, <1>3, <2>0, <3>1, Unseen
    <2>2. CASE ~(call[g].tgt \subseteq blocked)
      <3>1. call'[g].res = "notBlocked"
        BY <1>1, <1>7, <2>2 DEF ReadToUnblock, Finish, Calls, ListInv, AgreementInv,
                                WhitelistInv, TypeOK
      <3>2. Asked[g].del \cap Dropped = {}
        BY <1>4, <2>0, <2>2 DEF LocalProgress, BlackMatch, Dropped
      <3>3. Dropped' = Dropped
        BY <2>0 DEF Dropped, InKernel
      <3> QED
        BY <1>5, <1>6, <2>0, <3>1, <3>2, <3>3 DEF List!UnblockOnce
    <2> QED
      BY <2>1, <2>2
  <1>8. CASE DelFromKernel(g)
    <2>1. call'[g].res = "removed" /\ call[g].at = "del" /\ disturbed' = disturbed
      BY <1>1, <1>8 DEF DelFromKernel, At, Commit, Calls, ListInv, AgreementInv,
                        WhitelistInv, TypeOK, history
    <2>2. Asked[g].del \subseteq Dropped \cup disturbed
      BY <1>1, <1>4, <2>1 DEF LocalProgress, LoneCall, BlackMatch
    <2>3. \A ip \in IP : kernel'[ip] # Absent <=> InKernel(ip) /\ ip \notin Asked[g].del
      BY <1>2, <1>8 DEF DelFromKernel, KernelDel, InKernel
    <2>4. Dropped' = Dropped \ Asked[g].del
      BY <2>1, <2>3 DEF Dropped, InKernel
    <2> QED
      BY <1>5, <1>6, <2>1, <2>2, <2>4 DEF List!UnblockOnce
  <1>9. CASE DelFails(g)
    <2>1. call'[g].res = "error" /\ call[g].at = "del" /\ ClientFails
      BY <1>1, <1>9 DEF DelFails, At, Commit, Calls, ListInv, AgreementInv,
                        WhitelistInv, TypeOK
    <2>2. disturbed' = disturbed \cup Asked[g].del /\ kernel' = kernel
      BY <1>2, <1>9 DEF DelFails
    <2>3. Dropped' = Dropped \ Asked[g].del
      BY <2>2 DEF Dropped, InKernel
    <2> QED
      BY <1>5, <1>6, <2>1, <2>2, <2>3 DEF List!UnblockOnce, List!Lose
  <1>10. CASE CommitUnblocked(g)
    <2>1. call'[g].res = call[g].res /\ kernel' = kernel /\ disturbed' = disturbed
      BY <1>1, <1>10 DEF CommitUnblocked, Goto, Calls, ListInv, AgreementInv, WhitelistInv,
                         TypeOK, history
    <2> QED
      BY <1>2, <1>3, <2>1, Unseen
  <1> QED
    BY <1>7, <1>8, <1>9, <1>10

\* What ApplyCloud asks for, and what an entry of it is part of.
LEMMA CloudQuestion ==
    ASSUME ListInv, NEW g \in Goroutine, call[g].op = "cloud"
    PROVE  /\ Asked[g].op = "cloud" /\ Asked[g].of = AddrsOf(Targets(call[g]))
           /\ Asked[g].add = AddrsOf(BlackTargets(call[g], "add"))
           /\ Asked[g].del = AddrsOf(BlackTargets(call[g], "del"))
           /\ call[g].all # {} => Asked[g].answer = call[g].res
           /\ \A e \in call[g].all :
                 /\ AddrsOf({e.ip}) \subseteq Asked[g].of
                 /\ e.list = "black" /\ e.op = "add" => AddrsOf({e.ip}) \subseteq Asked[g].add
                 /\ e.list = "black" /\ e.op = "del" => AddrsOf({e.ip}) \subseteq Asked[g].del
  <1>1. /\ Asked[g].op = "cloud" /\ Asked[g].of = AddrsOf(Targets(call[g]))
        /\ Asked[g].add = AddrsOf(BlackTargets(call[g], "add"))
        /\ Asked[g].del = AddrsOf(BlackTargets(call[g], "del"))
        /\ call[g].all # {} => Asked[g].answer = call[g].res
    BY DEF Asked, AskedBy
  <1> QED
    BY <1>1 DEF AddrsOf, Targets, BlackTargets

\* Each command of a batch makes a part of the change, or loses one.
LEMMA EntryStep ==
    ASSUME ListInv, ~SetHasTimeout, NEW g \in Goroutine, CallStep(g), NEW e \in call[g].todo,
           ApplyEntry(g, e) \/ BatchFails(g, e) \/ EntryFails(g, e)
    PROVE  List!ChangePart(g) \/ UNCHANGED List!bvars
  <1> USE DEF ListInv, AgreementInv, WhitelistInv
  <1>1. /\ call[g] \in Calls /\ call[g].at \in {"batch", "single"} /\ e \in call[g].all
        /\ call[g].op = "cloud" /\ call[g].res = "none" /\ e.list \in {"black", "white"}
        /\ e.op \in {"add", "del"}
    <2>1. /\ call[g] \in Calls /\ call[g].at \in {"batch", "single"} /\ e \in call[g].all
      BY DEF ApplyEntry, BatchFails, EntryFails, NextEntry, CallsWellFormed, TypeOK
    <2>2. call[g].op = "cloud" /\ call[g].res = "none"
      BY <2>1 DEF CallsAnswered, Answered, CallsCovered, CallShape, LocalShape, Idle, Calls
    <2> QED
      BY <2>1, <2>2 DEF Calls, Entry
  <1>2. List!Open(g, "cloud")
    BY <1>1, CloudQuestion DEF List!Open
  <1>3. call'[g].res = "none" /\ call'[g].op = "cloud" /\ call'[g].all = call[g].all
    <2>1. call'[g].res = call[g].res
      <3>1. CASE ApplyEntry(g, e)
        BY <1>1, <3>1 DEF ApplyEntry, Calls, TypeOK
      <3>2. CASE BatchFails(g, e) /\ MayRetry(g)
        BY <1>1, <3>2 DEF BatchFails, Calls, TypeOK
      <3>3. CASE BatchFails(g, e) /\ ~MayRetry(g)
        BY <1>1, <3>3 DEF BatchFails, Calls, TypeOK
      <3>4. CASE EntryFails(g, e)
        BY <1>1, <3>4 DEF EntryFails, Calls, TypeOK
      <3> QED
        BY <3>1, <3>2, <3>3, <3>4
    <2> QED
      BY <1>1, <2>1, CallStepAsked DEF SameQuestion
  <1>4. AskedBy(call'[g]).answer = Asked[g].answer
    BY <1>1, <1>3, CloudQuestion DEF AskedBy
  <1>5. Asked' = Asked /\ (phase = "running")' = (phase = "running")
    BY <1>4, CallStepAsked
  <1>6. CASE ApplyEntry(g, e)
    <2>1. disturbed' = disturbed
      BY <1>6 DEF ApplyEntry, history
    <2>2. CASE e.list = "white"
      <3>1. kernel' = kernel
        BY <1>6, <2>2 DEF ApplyEntry
      <3> QED
        BY <1>4, <2>1, <3>1, Unseen
    <2>3. CASE e.list = "black" /\ e.op = "add"
      <3>1. kernel' = KernelAdd({e.ip}, CloudTimeout)
        BY <1>6, <2>3 DEF ApplyEntry
      <3>2. \A ip \in IP : kernel'[ip] # Absent <=> InKernel(ip) \/ ip \in AddrsOf({e.ip})
        BY <3>1, Added, ConstantsAssumption DEF ConstantsAssumption, KernelAdd, InKernel
      <3>3. Dropped' = Dropped \cup (AddrsOf({e.ip}) \ disturbed)
        BY <2>1, <3>2 DEF Dropped, InKernel, AddrsOf
      <3>4. AddrsOf({e.ip}) \in SUBSET Asked[g].add
        BY <1>1, <2>3, CloudQuestion
      <3> QED
        BY <1>2, <1>5, <2>1, <3>3, <3>4 DEF List!ChangePart
    <2>4. CASE e.list = "black" /\ e.op = "del"
      <3>1. kernel' = KernelDel({e.ip})
        BY <1>6, <2>4 DEF ApplyEntry
      <3>2. \A ip \in IP : kernel'[ip] # Absent <=> InKernel(ip) /\ ip \notin AddrsOf({e.ip})
        BY <3>1 DEF KernelDel, InKernel
      <3>3. Dropped' = Dropped \ AddrsOf({e.ip})
        BY <2>1, <3>2 DEF Dropped, InKernel
      <3>4. AddrsOf({e.ip}) \in SUBSET Asked[g].del
        BY <1>1, <2>4, CloudQuestion
      <3> QED
        BY <1>2, <1>5, <2>1, <3>3, <3>4 DEF List!ChangePart
    <2> QED
      BY <1>1, <2>2, <2>3, <2>4
  <1>7. CASE BatchFails(g, e)
    BY <1>4, <1>7, Unseen DEF BatchFails, history
  <1>8. CASE EntryFails(g, e)
    <2>1. ClientFails /\ disturbed' = disturbed \cup AddrsOf({e.ip}) /\ kernel' = kernel
      BY <1>8 DEF EntryFails
    <2>2. Dropped' = Dropped \ AddrsOf({e.ip})
      BY <2>1 DEF Dropped, InKernel
    <2>3. AddrsOf({e.ip}) \in SUBSET Asked[g].of
      BY <1>1, CloudQuestion
    <2> QED
      BY <1>2, <1>5, <2>1, <2>2, <2>3 DEF List!ChangePart, List!Lose
  <1> QED
    BY <1>6, <1>7, <1>8

\* When ApplyCloud answers, all of its change was made but for what was lost.
LEMMA CloudAnswer ==
    ASSUME ListInv, ~SetHasTimeout, NEW g \in Goroutine, CallStep(g), CommitCloud(g)
    PROVE  List!ChangeMade(g)
  <1> USE DEF ListInv, AgreementInv, WhitelistInv
  <1>1. /\ call[g] \in Calls /\ call[g].op = "cloud" /\ call[g].at = "commit"
        /\ phase = "running"
    BY CallStepAsked DEF CommitCloud, At, TypeOK
  <1>2. /\ call[g].todo = {} /\ call[g].all # {} /\ call[g].res = "none"
        /\ call[g].failed # {} => ClientFails
    BY <1>1 DEF CallsCovered, CallShape, CloudShape, CallsAnswered, Answered
  <1>3. List!Open(g, "cloud")
    BY <1>1, <1>2, CloudQuestion DEF List!Open
  <1>4. /\ call'[g].res \in {"accepted", "error"}
        /\ call'[g].res = "error" => ClientFails
    BY <1>1, <1>2 DEF CommitCloud, Finish, Calls, TypeOK
  <1>5. AskedBy(call'[g]).answer = call'[g].res
    BY <1>1, <1>2, CallStepAsked DEF SameQuestion, AskedBy
  <1>6. List!Answer(g, call'[g].res)
    BY <1>5, CallStepAsked DEF List!Answer
  <1>7. ASSUME NEW e \in call[g].all, NEW ip \in AddrsOf({e.ip}) \ disturbed
        PROVE  ip \in IP \ disturbed /\ e.ip = ip /\ EntryHolds(e)
    <2>1. ip \in IP \ disturbed
      BY DEF AddrsOf
    <2>2. e.ip = ip /\ Touches(call[g], ip)
      BY <2>1, TouchedByName
    <2>3. CloudProgress(call[g], ip)
      BY <1>1, <2>1, <2>2 DEF AllSettled, Settled, Progress
    <2> QED
      BY <1>1, <1>2, <2>1, <2>2, <2>3 DEF CloudProgress
  <1>8. Asked[g].add \subseteq Dropped \cup disturbed
    <2> SUFFICES ASSUME NEW ip \in Asked[g].add \ disturbed PROVE ip \in Dropped
      OBVIOUS
    <2>1. PICK e \in call[g].all : e.list = "black" /\ e.op = "add" /\ ip \in AddrsOf({e.ip})
      BY <1>1, CloudQuestion DEF AddrsOf, BlackTargets
    <2> QED
      BY <1>7, <2>1 DEF EntryHolds, Dropped
  <1>9. Asked[g].del \cap Dropped = {}
    <2> SUFFICES ASSUME NEW ip \in Asked[g].del \cap Dropped PROVE FALSE
      OBVIOUS
    <2>1. PICK e \in call[g].all : e.list = "black" /\ e.op = "del" /\ ip \in AddrsOf({e.ip})
      BY <1>1, CloudQuestion DEF AddrsOf, BlackTargets
    <2> QED
      BY <1>7, <2>1 DEF EntryHolds, Dropped
  <1>10. Dropped' = Dropped /\ disturbed' = disturbed
    BY DEF CommitCloud, history, Dropped, InKernel
  <1> QED
    BY <1>3, <1>4, <1>6, <1>8, <1>9, <1>10 DEF List!ChangeMade

\* A step of a call is the moment of it, or not seen.
LEMMA CallStepListed ==
    ASSUME ListInv, ~SetHasTimeout, NEW g \in Goroutine, CallStep(g)
    PROVE  List!BNext \/ UNCHANGED List!bvars
  <1>1. CASE ReadToBlock(g) \/ AddToKernel(g) \/ AddFails(g) \/ CommitBlocked(g)
    BY <1>1, BlockStep DEF List!BNext
  <1>2. CASE ReadToUnblock(g) \/ DelFromKernel(g) \/ DelFails(g) \/ CommitUnblocked(g)
    BY <1>2, UnblockStep DEF List!BNext
  <1>3. CASE \E e \in call[g].todo : ApplyEntry(g, e) \/ BatchFails(g, e) \/ EntryFails(g, e)
    BY <1>3, EntryStep DEF List!BNext
  <1>4. CASE CommitCloud(g)
    BY <1>4, CloudAnswer DEF List!BNext
  <1> QED
    BY <1>1, <1>2, <1>3, <1>4 DEF CallStep

\* The caller that takes its result takes an answer.
LEMMA ReturnListed ==
    ASSUME ListInv, NEW g \in Goroutine, Return(g)
    PROVE  List!TakeAnswer(g)
  <1> USE DEF ListInv, AgreementInv, WhitelistInv
  <1>1. /\ call[g].op # "none" /\ call[g].at = "done" /\ call' = [call EXCEPT ![g] = Idle]
        /\ UNCHANGED <<kernel, phase, disturbed>>
    BY DEF Return, history
  <1>2. Asked[g].answer # "none"
    <2>1. call[g].op \in {"block", "unblock", "cloud"} /\ Answered(call[g])
      BY <1>1 DEF TypeOK, Calls, CallsAnswered
    <2> QED
      BY <1>1, <2>1 DEF Asked, AskedBy, Answered
  <1>3. AskedBy(Idle) = List!NoRequest
    BY DEF AskedBy, BlackTargets, Targets, SubnetAddrs, AddrsOf, Idle, List!NoRequest
  <1>4. Asked' = [h \in Goroutine |-> AskedBy(call'[h])]
    BY DEF Asked, AskedBy, BlackTargets, Targets, SubnetAddrs, AddrsOf, Addrs
  <1>5. call'[g] = Idle /\ \A h \in Goroutine \ {g} : call'[h] = call[h]
    BY <1>1 DEF TypeOK
  <1>6. Asked' = [Asked EXCEPT ![g] = List!NoRequest]
    BY <1>3, <1>4, <1>5 DEF Asked
  <1>7. Dropped' = Dropped
    BY <1>1 DEF Dropped, InKernel
  <1> QED
    BY <1>1, <1>2, <1>6, <1>7 DEF List!TakeAnswer

\* A new call asks something: its addresses are lost that another call is about too.
LEMMA RequestListed ==
    ASSUME ListInv, NEW g \in Goroutine, Request(g)
    PROVE  List!AskSomething(g)
  <1> USE DEF ListInv, AgreementInv, WhitelistInv
  <1>1. PICK c : /\ Invoke(g, c) /\ c = call'[g] /\ CallShape(c)
                 /\ c.op = "cloud" => (c.at = "done" /\ c.all = {}) \/ c.todo = c.all
                 /\ c.op # "cloud" => \/ c.at = "read"
                                      \/ c.at = "done" /\ c.res = "whitelisted"
                 /\ UNCHANGED <<kernel, kernelWhite, memory, phase>>
    BY NewCall
  <1>2. Answered(c) /\ (c.op = "cloud" => c.res = "none")
    BY <1>1, NewAnswer
  <1> DEFINE r == AskedBy(c)
  <1>3. r.of = AddrsOf(Targets(c)) /\ r.subnets = SubnetAddrs(Targets(c))
    BY DEF AskedBy
  <1>4. AskedBy(Idle) = List!NoRequest
    BY DEF AskedBy, BlackTargets, Targets, SubnetAddrs, AddrsOf, Idle, List!NoRequest
  <1>5. List!Ask(g, r)
    <2>1. phase = "running" /\ (phase = "running")' = (phase = "running")
      BY <1>1 DEF Invoke
    <2>2. Asked[g] = List!NoRequest
      BY <1>1, <1>4 DEF Invoke, Asked
    <2>3. Asked' = [Asked EXCEPT ![g] = r]
      <3>1. Asked' = [h \in Goroutine |-> AskedBy(call'[h])]
        BY DEF Asked, AskedBy, BlackTargets, Targets, SubnetAddrs, AddrsOf, Addrs
      <3>2. \A h \in Goroutine \ {g} : call'[h] = call[h]
        BY <1>1 DEF Invoke, TypeOK
      <3> QED
        BY <1>1, <3>1, <3>2 DEF Asked
    <2>4. \A h \in Goroutine : Asked[h].of = AddrsOf(Targets(call[h]))
      BY DEF Asked, AskedBy
    <2>5. disturbed' = disturbed \cup (r.subnets
              \cup {ip \in r.of : \E h \in Goroutine \ {g} : ip \in Asked[h].of})
      <3>1. disturbed' = disturbed \cup SubnetAddrs(Targets(c)) \cup
              {ip \in IP : Touches(c, ip)
                     /\ \E h \in Goroutine \ {g} : Touches(call[h], ip)}
        BY <1>1 DEF Invoke
      <3>2. \A d, ip : Touches(d, ip) <=> ip \in AddrsOf(Targets(d))
        BY DEF Touches
      <3>3. r.of \subseteq IP
        BY <1>3 DEF AddrsOf
      <3> HIDE DEF r
      <3> QED
        BY <1>3, <2>4, <3>1, <3>2, <3>3
    <2>6. Dropped' = Dropped \ (r.subnets
              \cup {ip \in r.of : \E h \in Goroutine \ {g} : ip \in Asked[h].of})
      <3>1. kernel' = kernel
        BY <1>1
      <3> QED
        BY <2>5, <3>1 DEF Dropped, InKernel
    <2> HIDE DEF r
    <2> QED
      BY <2>1, <2>2, <2>3, <2>5, <2>6 DEF List!Ask, List!Lose
  <1>6. /\ r.of \in SUBSET IP /\ r.subnets \in SUBSET r.of
        /\ r.add \in SUBSET r.of /\ r.del \in SUBSET r.of
    BY DEF AskedBy, AddrsOf, SubnetAddrs, Targets, BlackTargets
  <1>7. Asked[g] = List!NoRequest
    BY <1>5 DEF List!Ask
  <1>8. c.op \in {"block", "unblock", "cloud"}
    <2>1. call'[g] \in Calls
      BY TypeStep DEF Next, TypeOK
    <2>2. c.op = "none" => c = Idle
      BY <1>1 DEF CallShape
    <2>3. c.op # "none"
      BY <1>1, <2>2 DEF Idle
    <2> QED
      BY <1>1, <2>1, <2>3 DEF Calls
  <1>9. CASE c.op = "block"
    <2>1. c.all = {} /\ c.res \in {"none", "whitelisted"}
      BY <1>1, <1>2, <1>9 DEF CallShape, LocalShape, Answered
    <2>2. r = List!BlockRequest(r.of, r.subnets, c.res)
      BY <1>9, <2>1 DEF AskedBy, BlackTargets, Targets, AddrsOf, List!BlockRequest
    <2> HIDE DEF r
    <2> QED
      BY <1>5, <1>6, <1>7, <2>1, <2>2 DEF List!AskSomething
  <1>10. CASE c.op = "unblock"
    <2>1. c.all = {} /\ c.res = "none"
      BY <1>1, <1>2, <1>10 DEF CallShape, LocalShape, Answered
    <2>2. r = List!UnblockRequest(r.of, r.subnets)
      BY <1>10, <2>1 DEF AskedBy, BlackTargets, Targets, AddrsOf, List!UnblockRequest
    <2> HIDE DEF r
    <2> QED
      BY <1>5, <1>6, <1>7, <2>2 DEF List!AskSomething
  <1>11. CASE c.op = "cloud"
    <2>1. c.tgt = {}
      BY <1>1, <1>11 DEF CallShape, CloudShape
    <2>2. CASE c.all = {}
      <3>1. r = List!CloudRequest({}, {}, {}, {}, "accepted") /\ r.of = {}
        BY <1>11, <2>1, <2>2
           DEF AskedBy, BlackTargets, Targets, AddrsOf, SubnetAddrs, List!CloudRequest
      <3> HIDE DEF r
      <3> QED
        BY <1>5, <1>6, <1>7, <3>1 DEF List!AskSomething
    <2>3. CASE c.all # {}
      <3>1. c.res = "none"
        BY <1>2, <1>11
      <3>2. r = List!CloudRequest(r.of, r.subnets, r.add, r.del, "none")
        BY <1>11, <2>3, <3>1 DEF AskedBy, List!CloudRequest
      <3> HIDE DEF r
      <3> QED
        BY <1>5, <1>6, <1>7, <3>2 DEF List!AskSomething
    <2> QED
      BY <2>2, <2>3
  <1> QED
    BY <1>8, <1>9, <1>10, <1>11

\* The start takes from the set what it whitelists and adds what it blocks.
LEMMA StartListed ==
    ASSUME ListInv, ~SetHasTimeout, Start
    PROVE  List!Configure
  <1> USE DEF ListInv, AgreementInv, WhitelistInv
  <1>1. phase # "running" /\ call' = call
    BY DEF Start, RebuildFromKernel, SyncLocalWhitelist, PreloadBlacklist
  <1>2. Asked' = Asked /\ (phase = "running")' \in BOOLEAN
    BY <1>1 DEF Asked, AskedBy, BlackTargets, Targets, SubnetAddrs, AddrsOf, Addrs
  <1> DEFINE Within(white, black) ==
          /\ Dropped \ white \subseteq Dropped' \cup disturbed'
          /\ Dropped' \subseteq (Dropped \cup black) \ disturbed'
          /\ ClientFails \/ disturbed' \subseteq disturbed \cup black
  <1>3. ASSUME NEW white \in ConfiguredAddrs(WhitelistConfigs),
               NEW black \in ConfiguredAddrs(BlacklistConfigs), Within(white, black)
        PROVE  List!Configure
    BY <1>1, <1>2, <1>3 DEF List!Configure
  <1>4. {} \in ConfiguredAddrs(WhitelistConfigs) /\ {} \in ConfiguredAddrs(BlacklistConfigs)
    BY DEF ConfiguredAddrs
  <1>5. CASE RebuildFromKernel
    <2>1. /\ kernel' = kernel /\ disturbed = {}
          /\ disturbed' = {ip \in IP : InKernel(ip)} \ blocked'
          /\ ClientFails \/ blocked' = {ip \in IP : InKernel(ip)}
      BY <1>5 DEF RebuildFromKernel, FreshHistory, Listed
    <2>2. Within({}, {})
      BY <2>1 DEF Dropped, InKernel
    <2> QED
      BY <1>3, <1>4, <2>2
  <1>6. ASSUME NEW items \in WhitelistConfigs, SyncLocalWhitelist(items)
        PROVE  List!Configure
    <2> DEFINE toDel == (items \cap IP) \cup (blocked \cap SubnetAddrs(items))
    <2>1. PICK del \in Outcomes(toDel) :
              /\ kernel' = [ip \in IP |-> IF ip \in del.applied THEN Absent ELSE kernel[ip]]
              /\ disturbed' = disturbed \cup del.failed
      BY <1>6 DEF SyncLocalWhitelist
    <2>2. toDel \subseteq AddrsOf(items)
      BY ConstantsAssumption DEF ConstantsAssumption, SubnetAddrs, AddrsOf, Addrs
    <2> HIDE DEF toDel
    <2>3. /\ del.applied \subseteq AddrsOf(items)
          /\ ClientFails \/ del.failed = {}
      BY <2>1, <2>2 DEF Outcomes
    <2>4. Within(AddrsOf(items), {})
      BY <2>1, <2>3 DEF Dropped, InKernel
    <2>5. AddrsOf(items) \in ConfiguredAddrs(WhitelistConfigs)
      BY DEF ConfiguredAddrs
    <2> QED
      BY <1>3, <1>4, <2>4, <2>5
  <1>7. ASSUME NEW items \in BlacklistConfigs, PreloadBlacklist(items)
        PROVE  List!Configure
    <2> DEFINE new == {t \in items \ blocked : ~IsLocalWhitelisted(t)}
    <2>1. PICK failed \in SUBSET new :
              kernel' = [ip \in IP |->
                    IF ip \in AddrsOf(new \ failed) THEN Forever ELSE kernel[ip]]
      BY <1>7 DEF PreloadBlacklist
    <2>2. disturbed' = disturbed \cup SubnetAddrs(items)
      BY <1>7 DEF PreloadBlacklist
    <2>3. AddrsOf(new \ failed) \subseteq AddrsOf(items)
          /\ SubnetAddrs(items) \subseteq AddrsOf(items)
      BY DEF AddrsOf, SubnetAddrs
    <2> HIDE DEF new
    <2>4. Forever # Absent
      BY Added, ConstantsAssumption DEF ConstantsAssumption
    <2>5. Within({}, AddrsOf(items))
      BY <2>1, <2>2, <2>3, <2>4 DEF Dropped, InKernel
    <2>6. AddrsOf(items) \in ConfiguredAddrs(BlacklistConfigs)
      BY DEF ConfiguredAddrs
    <2> QED
      BY <1>3, <1>4, <2>5, <2>6
  <1> QED
    BY <1>5, <1>6, <1>7 DEF Start

\* The end of the process loses no address that is on the list.
LEMMA CrashListed ==
    ASSUME ListInv, Crash
    PROVE  List!ProcessEnds
  <1>1. (phase = "running")' = FALSE /\ disturbed' = {} /\ kernel' = kernel
    BY DEF Crash
  <1>2. AskedBy(Idle) = List!NoRequest
    BY DEF AskedBy, BlackTargets, Targets, SubnetAddrs, AddrsOf, Idle, List!NoRequest
  <1>3. Asked' = [g \in Goroutine |-> List!NoRequest]
    <2>1. Asked' = [h \in Goroutine |-> AskedBy(call'[h])]
      BY DEF Asked, AskedBy, BlackTargets, Targets, SubnetAddrs, AddrsOf, Addrs
    <2> QED
      BY <1>2, <2>1 DEF Crash
  <1>4. Dropped \subseteq Dropped' /\ Dropped' \subseteq Dropped \cup disturbed
    BY <1>1 DEF Dropped, InKernel
  <1> QED
    BY <1>1, <1>3, <1>4 DEF List!ProcessEnds

\* No timer of a set without timeouts ever runs out.
LEMMA NoTick ==
    ASSUME ListInv, ~SetHasTimeout
    PROVE  ~Tick
  <1> USE DEF ListInv, AgreementInv, WhitelistInv
  <1>1. ASSUME NEW ip \in IP PROVE kernel[ip] \notin 1 .. MaxTimeout
    BY ConstantsAssumption DEF ConstantsAssumption, Untimed, Absent, Forever
  <1>2. Countdown = kernel
    BY <1>1 DEF Countdown, TypeOK
  <1> QED
    BY <1>2 DEF Tick

\* Every step of the manager is one of the list, or not seen.
LEMMA ListedStep ==
    ASSUME ListInv, ~SetHasTimeout, [Next]_vars
    PROVE  [List!BNext]_(List!bvars)
  <1>1. CASE Start
    BY <1>1, StartListed DEF List!BNext
  <1>2. CASE Crash
    BY <1>2, CrashListed DEF List!BNext
  <1>3. ASSUME NEW g \in Goroutine, Request(g) PROVE List!BNext
    BY <1>3, RequestListed DEF List!BNext
  <1>4. ASSUME NEW g \in Goroutine, CallStep(g) PROVE List!BNext \/ UNCHANGED List!bvars
    BY <1>4, CallStepListed
  <1>5. ASSUME NEW g \in Goroutine, Return(g) PROVE List!BNext
    BY <1>5, ReturnListed DEF List!BNext
  <1>6. CASE UNCHANGED vars
    BY <1>6 DEF vars, List!bvars, Dropped, InKernel, Asked, AskedBy, BlackTargets, Targets,
                SubnetAddrs, AddrsOf, Addrs
  <1> QED
    BY <1>1, <1>2, <1>3, <1>4, <1>5, <1>6, NoTick DEF Next

\* The invariant and the list at first.
LEMMA InitListed == Init => ListInv /\ List!BInit
  <1> SUFFICES ASSUME Init PROVE ListInv /\ List!BInit
    OBVIOUS
  <1>1. AgreementInv
    BY InitAgreement
  <1>2. \A g \in Goroutine : call[g] = Idle
    BY DEF Init
  <1>3. ListInv
    BY <1>1, <1>2 DEF Init, ListInv, LoneCalls, CallsAnswered, Answered, FreshHistory, Idle
  <1>4. AskedBy(Idle) = List!NoRequest
    BY DEF AskedBy, BlackTargets, Targets, SubnetAddrs, AddrsOf, Idle, List!NoRequest
  <1>5. List!BInit
    BY <1>2, <1>4 DEF Init, List!BInit, Dropped, InKernel, Asked
  <1> QED
    BY <1>3, <1>5

\* The manager of a set without timeouts implements one set that calls read and change
\* in a moment, for any number of addresses, subnets and goroutines, whatever the cloud
\* and the configuration ask for and however commands fail and the process dies: but for
\* addresses of two calls at once, of subnets and of failed commands, each call is
\* answered by what is blocked, and a restart finds what was.
THEOREM ManagerIsAtomic == ~SetHasTimeout /\ Spec => AtomicBlacklist
  <1> SUFFICES ASSUME ~SetHasTimeout PROVE Spec => AtomicBlacklist
    OBVIOUS
  <1>1. ListInv /\ [Next]_vars => [List!BNext]_(List!bvars)
    BY ListedStep
  <1> QED
    BY <1>1, InitListed, ListStep, PTL DEF Spec, AtomicBlacklist, List!BSpec

\* So does the manager in the agent, whoever calls it.
THEOREM AtomicBlacklistOfTheAgent == ~SetHasTimeout /\ ESpec => AtomicBlacklist
  BY ManagerIsAtomic, EnforcementImplementsManager
=============================================================================
