--------------------------- MODULE CloudSyncProofs ---------------------------
(***************************************************************************)
(* Proofs about CloudSync, for any number of loops and any cloud: the      *)
(* versions that doDiff writes never run ahead of what was consumed, nor   *)
(* of what became of the whitelist.  And about Decision, for any scores,   *)
(* votes and weights.                                                      *)
(***************************************************************************)
EXTENDS CloudSync, Calls, SequenceTheorems, FiniteSetTheorems, TLAPS

Lists == [add : SUBSET IP, del : SUBSET IP]

Answer == [needBase : BOOLEAN, base : Nat, incrs : SUBSET Nat, full : BOOLEAN, tenant : Nat,
           changes : Lists]

State == [at : {"waiting", "asked", "base", "fetched", "incrs", "tenant", "white"},
          req : [base : Nat, seq : Nat, tenant : Nat], res : Answer, snap : Nat,
          maxSeq : Nat, ver : Nat, todo : Lists]

\* What the decision engine has, or never gets.
Known == decided \cup lostIncrs

\* The increments that base b includes are known.
Covered(b) == b > 0 => 1 .. bases[b] \subseteq Known

CloudOK ==
    /\ lastIncr \in 0 .. MaxChange
    /\ bases \in Seq(1 .. MaxChange) /\ edits \in Seq(IP)
    /\ \A i \in 1 .. Len(bases) : bases[i] <= lastIncr
    /\ \A i, j \in 1 .. Len(bases) : i <= j => bases[i] <= bases[j]

VersionsOK ==
    /\ globalBase \in 0 .. Len(bases) /\ globalSeq \in 0 .. lastIncr
    /\ tenantSeq \in 0 .. Len(edits)
    /\ decided \subseteq 1 .. lastIncr /\ lostIncrs \subseteq 1 .. lastIncr
    /\ white \subseteq IP /\ lostEdits \subseteq IP /\ overtaken \subseteq IP
    /\ newest \in [IP -> 0 .. Len(edits)]
    /\ 1 .. globalSeq \subseteq Known /\ Covered(globalBase)

\* What a loop that has read the versions, has an answer, and so on, may rely on.
Asked(l) ==
    /\ loop[l].req.base \in 0 .. Len(bases) /\ loop[l].req.seq \in 0 .. lastIncr
    /\ loop[l].req.tenant \in 0 .. Len(edits)
    /\ 1 .. loop[l].req.seq \subseteq Known /\ Covered(loop[l].req.base)

\* An increment below one that is answered is answered too, was asked for as known, or
\* is part of the base.
Answered(l) ==
    LET res == loop[l].res
    IN  /\ res.base \in 0 .. Len(bases) /\ res.tenant \in 0 .. Len(edits)
        /\ res.incrs \subseteq 1 .. lastIncr
        /\ res.changes.add \cap res.changes.del = {}
        /\ res.incrs # {} => \E m \in res.incrs : \A i \in res.incrs : i <= m
        /\ loop[l].at \in {"base", "fetched", "incrs"} =>
              \A m \in res.incrs : \A i \in 1 .. m :
                 \/ i \in res.incrs \/ i <= loop[l].req.seq
                 \/ res.base > 0 /\ i <= bases[res.base]

Consumed(l) ==
    /\ loop[l].at = "base" => loop[l].res.base > 0
    /\ loop[l].at \in {"fetched", "incrs", "tenant", "white"} => Covered(loop[l].res.base)
    /\ loop[l].snap \in 0 .. Len(bases) /\ Covered(loop[l].snap)
    /\ loop[l].maxSeq \in 0 .. lastIncr /\ loop[l].ver \in 0 .. Len(edits)
    /\ loop[l].at \in {"tenant", "white"} => 1 .. loop[l].maxSeq \subseteq Known
    /\ loop[l].todo.add \cap loop[l].todo.del = {}

LoopOK(l) == Asked(l) /\ Answered(l) /\ Consumed(l)

SyncInv ==
    /\ CloudOK /\ VersionsOK
    /\ loop \in [Loop -> State]
    /\ \A l \in Loop : LoopOK(l)

\* Nothing is published, asked or known at first.
LEMMA InitSync == SyncInit => SyncInv
<1> SUFFICES ASSUME SyncInit PROVE SyncInv
  OBVIOUS
<1> USE SyncAssumption DEF SyncInit, SyncAssumption
<1>1. CloudOK /\ VersionsOK
  BY DEF CloudOK, VersionsOK, Covered, Known
<1>2. Waiting \in State
  BY DEF Waiting, State, NoReq, NoRes, Answer, Lists
<1>3. \A l \in Loop : loop[l] = Waiting
  OBVIOUS
<1>4. \A l \in Loop : LoopOK(l)
  BY <1>3 DEF LoopOK, Asked, Answered, Consumed, Covered, Known, Waiting, NoReq, NoRes
<1> QED  BY <1>1, <1>2, <1>3, <1>4 DEF SyncInv

-----------------------------------------------------------------------------
(* What is known is never forgotten. *)

Grows ==
    /\ CloudOK'
    /\ lastIncr <= lastIncr' /\ Len(edits) <= Len(edits')
    /\ Len(bases) <= Len(bases') /\ \A i \in 1 .. Len(bases) : bases'[i] = bases[i]
    /\ Known \subseteq Known'

\* A loop that does not move keeps what it relies on.
LEMMA LoopKeeps ==
  ASSUME SyncInv, Grows, NEW l \in Loop, loop'[l] = loop[l]
  PROVE  LoopOK(l)'
<1>1. LoopOK(l) /\ loop[l] \in State /\ CloudOK
  BY DEF SyncInv
<1>2. \A b \in 0 .. Len(bases) : Covered(b) => Covered(b)'
  BY DEF Grows, Covered
<1>3. Asked(l)'
  BY <1>1, <1>2 DEF Grows, LoopOK, Asked, CloudOK
<1>4. Answered(l)'
  <2> DEFINE res == loop[l].res
  <2>1. /\ res.base \in 0 .. Len(bases) /\ res.tenant \in 0 .. Len(edits)
        /\ res.incrs \subseteq 1 .. lastIncr
        /\ res.changes.add \cap res.changes.del = {}
        /\ res.incrs # {} => \E m \in res.incrs : \A i \in res.incrs : i <= m
    BY <1>1 DEF LoopOK, Answered
  <2>2. /\ res.base \in 0 .. Len(bases') /\ res.tenant \in 0 .. Len(edits')
        /\ res.incrs \subseteq 1 .. lastIncr'
    BY <1>1, <2>1 DEF Grows, CloudOK
  <2>3. loop[l].at \in {"base", "fetched", "incrs"} =>
           \A m \in res.incrs : \A i \in 1 .. m :
              \/ i \in res.incrs \/ i <= loop[l].req.seq
              \/ res.base > 0 /\ i <= bases[res.base]
    BY <1>1 DEF LoopOK, Answered
  <2>4. res.base > 0 => bases'[res.base] = bases[res.base]
    BY <1>1, <2>1 DEF Grows, CloudOK
  <2> HIDE DEF res
  <2>5. res' = res /\ loop'[l].req = loop[l].req
    BY DEF res
  <2>6. loop[l].at \in {"base", "fetched", "incrs"} =>
           \A m \in res.incrs : \A i \in 1 .. m :
              \/ i \in res.incrs \/ i <= loop[l].req.seq
              \/ res.base > 0 /\ i <= bases'[res.base]
    BY <2>3, <2>4
  <2> QED  BY <2>1, <2>2, <2>5, <2>6 DEF Answered, res
<1>5. Consumed(l)'
  BY SMTT(20), <1>1, <1>2 DEF Grows, LoopOK, Answered, Consumed, State, Answer, CloudOK
<1> QED  BY <1>3, <1>4, <1>5 DEF LoopOK

\* Nor do the versions lose what they stand for, when they are not written.
LEMMA VersionsKeep ==
  ASSUME SyncInv, Grows, UNCHANGED <<versions, white, lostEdits, newest, overtaken>>,
         decided' \subseteq 1 .. lastIncr', lostIncrs' \subseteq 1 .. lastIncr'
  PROVE  VersionsOK'
<1>1. UNCHANGED <<globalBase, globalSeq, tenantSeq>>
  BY DEF versions
<1>2. \A b \in 0 .. Len(bases) : Covered(b) => Covered(b)'
  BY DEF Grows, Covered, SyncInv, CloudOK
<1> QED  BY <1>1, <1>2 DEF SyncInv, VersionsOK, CloudOK, Grows

\* When the cloud does nothing, what is known only grows.
LEMMA SameCloud ==
  ASSUME SyncInv, UNCHANGED cloud, Known \subseteq Known'
  PROVE  Grows
  BY DEF SyncInv, CloudOK, Grows, cloud

\* A step of one loop.
LEMMA LoopMoves ==
  ASSUME SyncInv, Grows, VersionsOK', NEW l \in Loop, loop' \in [Loop -> State],
         \A k \in Loop \ {l} : loop'[k] = loop[k], LoopOK(l)'
  PROVE  SyncInv'
<1>1. \A k \in Loop : LoopOK(k)'
  BY LoopKeeps
<1> QED  BY <1>1 DEF SyncInv, Grows

-----------------------------------------------------------------------------
(* The cloud. *)

\* The newest base.
LEMMA NewestBase ==
  ASSUME CloudOK
  PROVE  /\ Len(bases) = 0 => BaseSeq = 0
         /\ Len(bases) > 0 => BaseSeq = bases[Len(bases)] /\ Len(bases) \in 1 .. Len(bases)
         /\ BaseSeq \in 0 .. lastIncr
<1>1. bases \in Seq(1 .. MaxChange) /\ Len(bases) \in Nat /\ lastIncr \in Nat
  BY SyncAssumption DEF CloudOK, SyncAssumption
<1>2. bases = <<>> <=> Len(bases) = 0
  BY <1>1, EmptySeq
<1>3. CASE Len(bases) = 0
  BY <1>1, <1>2, <1>3 DEF BaseSeq
<1>4. CASE Len(bases) > 0
  <2>1. Len(bases) \in 1 .. Len(bases) /\ BaseSeq = bases[Len(bases)]
    BY <1>1, <1>2, <1>4 DEF BaseSeq
  <2>2. bases[Len(bases)] \in 1 .. MaxChange /\ bases[Len(bases)] <= lastIncr
    BY <1>1, <2>1, ElementOfSeq DEF CloudOK
  <2> QED  BY <1>1, <2>1, <2>2, SyncAssumption DEF SyncAssumption
<1> QED  BY <1>1, <1>3, <1>4

\* What the cloud publishes, folds and lets be edited takes nothing back.
LEMMA CloudStep ==
  ASSUME SyncInv, Publish \/ Rebase \/ \E ip \in IP : Edit(ip)
  PROVE  SyncInv'
<1>0. /\ CloudOK /\ VersionsOK /\ UNCHANGED <<versions, decided, white, loop, lost>>
      /\ MaxChange \in Nat
  BY SyncAssumption DEF SyncInv, Publish, Rebase, Edit, SyncAssumption
<1>1. UNCHANGED <<white, lostEdits, decided, lostIncrs, newest, overtaken>>
  BY <1>0 DEF lost
<1>3. ASSUME Publish PROVE Grows
  BY <1>0, <1>1, <1>3 DEF Publish, CloudOK, Grows, Known
<1>4. ASSUME Rebase PROVE Grows
  <2>1. /\ bases' = Append(bases, lastIncr) /\ UNCHANGED <<lastIncr, edits>>
        /\ BaseSeq < lastIncr /\ bases \in Seq(1 .. MaxChange)
    BY <1>0, <1>4 DEF Rebase, CloudOK
  <2>2. BaseSeq \in 0 .. lastIncr /\ (Len(bases) > 0 => BaseSeq = bases[Len(bases)])
    BY <1>0, NewestBase
  <2>3. lastIncr \in 1 .. MaxChange
    BY <1>0, <2>1, <2>2 DEF CloudOK
  <2>4. /\ bases' \in Seq(1 .. MaxChange) /\ Len(bases') = Len(bases) + 1
        /\ \A i \in 1 .. Len(bases) : bases'[i] = bases[i]
        /\ bases'[Len(bases) + 1] = lastIncr
    BY <2>1, <2>3, AppendProperties
  <2>5. ASSUME NEW i \in 1 .. Len(bases'), NEW j \in 1 .. Len(bases'), i <= j
        PROVE  bases'[i] <= bases'[j]
    <3>1. CASE j \in 1 .. Len(bases)
      BY <1>0, <2>1, <2>4, <2>5, <3>1 DEF CloudOK
    <3>2. CASE j = Len(bases) + 1 /\ i \in 1 .. Len(bases)
      BY <1>0, <2>4, <3>2 DEF CloudOK
    <3>3. CASE j = Len(bases) + 1 /\ i = j
      BY <2>3, <2>4, <3>3
    <3> QED  BY <2>1, <2>4, <2>5, <3>1, <3>2, <3>3
  <2>6. CloudOK'
    BY <1>0, <2>1, <2>3, <2>4, <2>5 DEF CloudOK
  <2> QED  BY <1>0, <1>1, <2>1, <2>4, <2>6 DEF Grows, Known, CloudOK
<1>5. ASSUME NEW ip \in IP, Edit(ip) PROVE Grows
  <2>1. edits' = Append(edits, ip) /\ UNCHANGED <<lastIncr, bases>> /\ edits \in Seq(IP)
    BY <1>0, <1>5 DEF Edit, CloudOK
  <2>2. edits' \in Seq(IP) /\ Len(edits') = Len(edits) + 1
    BY <2>1, AppendProperties
  <2> QED  BY <1>0, <1>1, <2>1, <2>2 DEF Grows, Known, CloudOK
<1>6. Grows
  BY <1>3, <1>4, <1>5
<1>7. VersionsOK'
  BY <1>0, <1>1, <1>6, VersionsKeep DEF VersionsOK, Grows, CloudOK
<1>8. \A l \in Loop : LoopOK(l)'
  BY <1>0, <1>6, LoopKeeps
<1> QED  BY <1>0, <1>6, <1>7, <1>8 DEF SyncInv, Grows

-----------------------------------------------------------------------------
(* doDiff. *)

\* The versions that are read are known, now and later.
LEMMA ReadVersionsStep ==
  ASSUME SyncInv, NEW l \in Loop, ReadVersions(l)
  PROVE  SyncInv'
<1> DEFINE req == [base |-> globalBase, seq |-> globalSeq, tenant |-> tenantSeq]
<1>1. /\ loop \in [Loop -> State] /\ loop[l] \in State /\ LoopOK(l) /\ VersionsOK /\ CloudOK
      /\ UNCHANGED <<cloud, versions, decided, white, lost>>
      /\ UNCHANGED <<lastIncr, bases, edits, lostIncrs, lostEdits, newest, overtaken>>
  BY DEF SyncInv, ReadVersions, cloud, lost
<1>2. req \in [base : Nat, seq : Nat, tenant : Nat]
  BY <1>1 DEF VersionsOK, CloudOK
<1>3. loop' = [loop EXCEPT ![l].at = "asked", ![l].req = req] /\ loop[l].at = "waiting"
  BY DEF ReadVersions
<1> HIDE DEF req
<1>4. /\ loop' \in [Loop -> State] /\ \A k \in Loop \ {l} : loop'[k] = loop[k]
      /\ loop'[l].at = "asked" /\ loop'[l].req = req /\ loop'[l].res = loop[l].res
      /\ loop'[l].snap = loop[l].snap /\ loop'[l].maxSeq = loop[l].maxSeq
      /\ loop'[l].todo = loop[l].todo
      /\ loop'[l].ver = loop[l].ver
  BY <1>1, <1>2, <1>3 DEF State
<1>5. Grows /\ VersionsOK'
  BY <1>1, SameCloud, VersionsKeep DEF Known, VersionsOK
<1>6. Asked(l)'
  BY <1>1, <1>4 DEF Asked, req, VersionsOK, Covered, Known
<1>7. Answered(l)'
  BY <1>1, <1>4 DEF LoopOK, Answered
<1>8. Consumed(l)'
  BY <1>1, <1>4 DEF LoopOK, Consumed, Covered, Known
<1> QED  BY <1>4, <1>5, <1>6, <1>7, <1>8, LoopMoves DEF LoopOK

\* The addresses of the tenant's edits are addresses.
LEMMA EditedAddresses ==
  ASSUME CloudOK, NEW m \in Nat, NEW n \in 0 .. Len(edits)
  PROVE  Edited(m, n) \subseteq IP
<1>1. edits \in Seq(IP) /\ Len(edits) \in Nat
  BY DEF CloudOK
<1>2. \A i \in m + 1 .. n : edits[i] \in IP
  BY <1>1, ElementOfSeq
<1> QED  BY <1>2 DEF Edited

\* An increment that the cloud leaves out of its answer was asked for as known, or is
\* part of its newest base.
LEMMA DiffStep ==
  ASSUME SyncInv, NEW l \in Loop, Diff(l)
  PROVE  SyncInv'
<1>1. /\ loop \in [Loop -> State] /\ loop[l] \in State /\ LoopOK(l) /\ VersionsOK /\ CloudOK
      /\ UNCHANGED <<cloud, versions, decided, white, lost>>
      /\ UNCHANGED <<lastIncr, bases, edits, lostIncrs, lostEdits, newest, overtaken>>
  BY DEF SyncInv, Diff, cloud, lost
<1>2. PICK res \in Answers(loop[l].req) :
          loop' = [loop EXCEPT ![l].res = res,
                               ![l].at = IF res.needBase THEN "base" ELSE "incrs"]
  BY DEF Diff
<1>3. /\ loop[l].req \in [base : Nat, seq : Nat, tenant : Nat]
      /\ lastIncr \in Nat /\ Len(bases) \in Nat /\ Len(edits) \in Nat
      /\ edits \in Seq(IP) /\ BaseSeq \in 0 .. lastIncr
  BY <1>1, NewestBase, SyncAssumption DEF State, CloudOK, SyncAssumption
<1>4. Edited(loop[l].req.tenant, Len(edits)) \subseteq IP
  BY <1>1, <1>3, EditedAddresses
<1>5. /\ res.changes \in Lists /\ res.changes.add \cap res.changes.del = {}
      /\ res.needBase <=> loop[l].req.base # Len(bases)
      /\ res.base = Len(bases)
      /\ res.incrs = {i \in 1 .. lastIncr : i > loop[l].req.seq /\ i > BaseSeq}
      /\ res.tenant = Len(edits) /\ res \in Answer
  <2>1. \A c \in Changes(loop[l].req.tenant) : c \in Lists /\ c.add \cap c.del = {}
    BY <1>4 DEF Changes, Lists
  <2>2. /\ res \in [needBase : {loop[l].req.base # Len(bases)}, base : {Len(bases)},
                    incrs : {{i \in 1 .. lastIncr : i > loop[l].req.seq /\ i > BaseSeq}},
                    full : {FALSE} \cup (IF MayFullSync THEN {TRUE} ELSE {}),
                    tenant : {Len(edits)}, changes : Changes(loop[l].req.tenant)]
    BY DEF Answers
  <2>3. /\ res.changes \in Changes(loop[l].req.tenant) /\ res.tenant = Len(edits)
        /\ res.incrs = {i \in 1 .. lastIncr : i > loop[l].req.seq /\ i > BaseSeq}
        /\ res.base = Len(bases) /\ res.full \in BOOLEAN
    BY <2>2
  <2>4. res.needBase = (loop[l].req.base # Len(bases))
    BY <2>2
  <2>5. res.needBase \in BOOLEAN /\ (res.needBase <=> loop[l].req.base # Len(bases))
    BY <2>4
  <2>6. res = [needBase |-> res.needBase, base |-> res.base, incrs |-> res.incrs,
               full |-> res.full, tenant |-> res.tenant, changes |-> res.changes]
    BY <2>2
  <2>7. res.incrs \subseteq Nat
    BY <1>3, <2>3
  <2>8. res \in Answer
    BY <1>3, <2>1, <2>3, <2>5, <2>6, <2>7 DEF Answer
  <2> QED  BY <2>1, <2>3, <2>5, <2>8
<1>6. /\ loop' \in [Loop -> State] /\ \A k \in Loop \ {l} : loop'[k] = loop[k]
      /\ loop'[l].at = (IF res.needBase THEN "base" ELSE "incrs")
      /\ loop'[l].req = loop[l].req /\ loop'[l].res = res
      /\ loop'[l].snap = loop[l].snap /\ loop'[l].maxSeq = loop[l].maxSeq
      /\ loop'[l].todo = loop[l].todo
      /\ loop'[l].ver = loop[l].ver
  BY <1>1, <1>2, <1>5 DEF State
<1>7. Grows /\ VersionsOK'
  BY <1>1, SameCloud, VersionsKeep DEF Known, VersionsOK
<1>8. Asked(l)'
  BY <1>1, <1>6 DEF LoopOK, Asked, Covered, Known
<1>9. Answered(l)'
  <2>1. res.incrs # {} => lastIncr \in res.incrs /\ \A i \in res.incrs : i <= lastIncr
    BY <1>3, <1>5
  <2>2. ASSUME NEW m \in res.incrs, NEW i \in 1 .. m
        PROVE  \/ i \in res.incrs \/ i <= loop[l].req.seq
               \/ res.base > 0 /\ i <= bases[res.base]
    <3>1. m \in 1 .. lastIncr /\ i \in 1 .. lastIncr
      BY <1>3, <1>5
    <3>2. CASE i > BaseSeq
      BY <1>3, <1>5, <3>1, <3>2
    <3>3. CASE i <= BaseSeq
      <4>1. Len(bases) > 0 /\ BaseSeq = bases[Len(bases)]
        BY <1>1, <1>3, <3>1, <3>3, NewestBase
      <4> QED  BY <1>5, <3>3, <4>1
    <3> QED  BY <1>3, <3>1, <3>2, <3>3
  <2>3. /\ res.base \in 0 .. Len(bases') /\ res.tenant \in 0 .. Len(edits')
        /\ res.incrs \subseteq 1 .. lastIncr' /\ res.changes.add \cap res.changes.del = {}
    BY <1>1, <1>3, <1>5
  <2>4. res.incrs # {} => \E m \in res.incrs : \A i \in res.incrs : i <= m
    BY <2>1
  <2>5. \A m \in res.incrs : \A i \in 1 .. m :
            \/ i \in res.incrs \/ i <= loop'[l].req.seq
            \/ res.base > 0 /\ i <= bases'[res.base]
    BY <1>1, <1>6, <2>2
  <2> QED  BY <1>6, <2>3, <2>4, <2>5 DEF Answered
<1>10. Consumed(l)'
  <2>1. res.needBase => res.base > 0
    <3>1. loop[l].req.base \in 0 .. Len(bases)
      BY <1>1 DEF LoopOK, Asked
    <3> QED  BY <1>3, <1>5, <3>1
  <2>2. ~res.needBase => Covered(res.base)
    BY <1>1, <1>5 DEF LoopOK, Asked
  <2> QED  BY <1>1, <1>5, <1>6, <2>1, <2>2 DEF LoopOK, Consumed, Covered, Known
<1> QED  BY <1>6, <1>7, <1>8, <1>9, <1>10, LoopMoves DEF LoopOK

\* A request that fails changes nothing else.
LEMMA DiffFailedStep ==
  ASSUME SyncInv, NEW l \in Loop, DiffFailed(l)
  PROVE  SyncInv'
<1>1. /\ loop \in [Loop -> State] /\ CloudOK /\ VersionsOK
      /\ UNCHANGED <<cloud, versions, decided, white, lost>>
      /\ UNCHANGED <<lastIncr, bases, edits, lostIncrs, lostEdits, newest, overtaken>>
      /\ loop' = [loop EXCEPT ![l] = Waiting]
      /\ lastIncr \in Nat /\ Len(bases) \in Nat /\ Len(edits) \in Nat
  BY SyncAssumption DEF SyncInv, DiffFailed, cloud, lost, CloudOK, SyncAssumption
<1>2. Waiting \in State
  BY DEF Waiting, State, NoReq, NoRes, Answer, Lists
<1>3. /\ loop' \in [Loop -> State] /\ \A k \in Loop \ {l} : loop'[k] = loop[k]
      /\ loop'[l] = Waiting
  BY <1>1, <1>2
<1>4. Grows /\ VersionsOK'
  BY <1>1, SameCloud, VersionsKeep DEF Known, VersionsOK
<1>5. LoopOK(l)'
  BY <1>1, <1>3 DEF LoopOK, Asked, Answered, Consumed, Covered, Known, Waiting, NoReq, NoRes
<1> QED  BY <1>3, <1>4, <1>5, LoopMoves

\* The newest base includes the one that was answered; the increments of one whose
\* snapshot is not fetched are noted as lost.
LEMMA FetchStep ==
  ASSUME SyncInv, NEW l \in Loop, FetchGlobalSnapshot(l)
  PROVE  SyncInv'
<1> DEFINE base == loop[l].res.base
<1>1. /\ loop \in [Loop -> State] /\ loop[l] \in State /\ LoopOK(l) /\ VersionsOK /\ CloudOK
      /\ UNCHANGED <<cloud, versions, white, lostEdits, newest, overtaken>>
      /\ UNCHANGED <<lastIncr, bases, edits>> /\ loop[l].at = "base"
      /\ lastIncr \in Nat /\ Len(bases) \in Nat /\ Len(edits) \in Nat
  BY SyncAssumption
     DEF SyncInv, FetchGlobalSnapshot, cloud, CloudOK, SyncAssumption
<1>2. base \in 1 .. Len(bases)
  BY <1>1 DEF LoopOK, Answered, Consumed
<1>3. /\ BaseSeq = bases[Len(bases)] /\ BaseSeq \in 0 .. lastIncr
      /\ bases[base] <= BaseSeq /\ bases[base] \in 1 .. lastIncr
  <2>1. Len(bases) \in 1 .. Len(bases) /\ BaseSeq = bases[Len(bases)] /\ BaseSeq \in 0 .. lastIncr
    BY <1>1, <1>2, NewestBase
  <2>2. bases[base] \in 1 .. MaxChange /\ bases[base] <= lastIncr
    BY <1>1, <1>2, ElementOfSeq DEF CloudOK
  <2>3. bases[base] <= bases[Len(bases)]
    BY <1>1, <1>2, <2>1 DEF CloudOK
  <2> QED  BY <1>1, <2>1, <2>2, <2>3
<1>4. /\ decided \subseteq decided' /\ lostIncrs \subseteq lostIncrs'
      /\ decided' \subseteq 1 .. lastIncr /\ lostIncrs' \subseteq 1 .. lastIncr
      /\ 1 .. bases[base] \subseteq decided' \cup lostIncrs'
      /\ \/ loop' = [loop EXCEPT ![l].at = "incrs"]
         \/ /\ loop' = [loop EXCEPT ![l].at = "fetched", ![l].snap = Len(bases)]
            /\ 1 .. BaseSeq \subseteq decided'
  BY SMTT(20), <1>1, <1>3 DEF FetchGlobalSnapshot, VersionsOK
<1>5. Grows /\ VersionsOK'
  BY <1>1, <1>4, SameCloud, VersionsKeep DEF Known
<1> HIDE DEF base
<1>6. /\ loop' \in [Loop -> State] /\ \A k \in Loop \ {l} : loop'[k] = loop[k]
      /\ loop'[l].at \in {"fetched", "incrs"}
      /\ loop'[l].req = loop[l].req /\ loop'[l].res = loop[l].res
      /\ loop'[l].maxSeq = loop[l].maxSeq /\ loop'[l].todo = loop[l].todo
      /\ loop'[l].ver = loop[l].ver
      /\ \/ loop'[l].snap = loop[l].snap
         \/ loop'[l].snap = Len(bases) /\ 1 .. BaseSeq \subseteq decided'
  <2>1. CASE loop' = [loop EXCEPT ![l].at = "incrs"]
    BY <1>1, <2>1 DEF State
  <2>2. CASE /\ loop' = [loop EXCEPT ![l].at = "fetched", ![l].snap = Len(bases)]
             /\ 1 .. BaseSeq \subseteq decided'
    BY <1>1, <2>2 DEF State
  <2> QED  BY <1>4, <2>1, <2>2
<1>7. Asked(l)'
  BY <1>1, <1>4, <1>6 DEF LoopOK, Asked, Covered, Known
<1>8. Answered(l)'
  BY <1>1, <1>6 DEF LoopOK, Answered
<1>9. Consumed(l)'
  BY <1>1, <1>3, <1>4, <1>6 DEF LoopOK, Consumed, Covered, Known, base
<1> QED  BY <1>5, <1>6, <1>7, <1>8, <1>9, LoopMoves DEF LoopOK

\* The base that is written was consumed or lost.
LEMMA WriteBaseStep ==
  ASSUME SyncInv, NEW l \in Loop, WriteBase(l)
  PROVE  SyncInv'
<1>1. /\ loop \in [Loop -> State] /\ loop[l] \in State /\ LoopOK(l) /\ VersionsOK /\ CloudOK
      /\ UNCHANGED <<cloud, globalSeq, tenantSeq, decided, white, lost>>
      /\ UNCHANGED <<lastIncr, bases, edits, lostIncrs, lostEdits, newest, overtaken>>
      /\ loop[l].at = "fetched"
      /\ globalBase' = loop[l].snap
      /\ loop' = [loop EXCEPT ![l].at = "incrs", ![l].snap = 0]
      /\ Len(bases) \in Nat
  BY DEF SyncInv, WriteBase, cloud, lost, CloudOK
<1>2. Grows
  BY <1>1, SameCloud DEF Known
<1>3. VersionsOK'
  BY <1>1 DEF VersionsOK, LoopOK, Consumed, Covered, Known
<1>4. /\ loop' \in [Loop -> State] /\ \A k \in Loop \ {l} : loop'[k] = loop[k]
      /\ loop'[l].at = "incrs" /\ loop'[l].snap = 0
      /\ loop'[l].req = loop[l].req /\ loop'[l].res = loop[l].res
      /\ loop'[l].maxSeq = loop[l].maxSeq /\ loop'[l].todo = loop[l].todo
      /\ loop'[l].ver = loop[l].ver
  BY <1>1 DEF State
<1>5. Asked(l)'
  BY <1>1, <1>4 DEF LoopOK, Asked, Covered, Known
<1>6. Answered(l)'
  BY <1>1, <1>4 DEF LoopOK, Answered
<1>7. Consumed(l)'
  BY <1>1, <1>4 DEF LoopOK, Consumed, Covered, Known
<1> QED  BY <1>2, <1>3, <1>4, <1>5, <1>6, <1>7, LoopMoves DEF LoopOK

\* The highest of a version and the increments of an answer.
LEMMA HighestOf ==
  ASSUME NEW s \in Nat, NEW S \in SUBSET Nat,
         S # {} => \E m \in S : \A i \in S : i <= m
  PROVE  /\ Highest(s, S) \in {s} \cup S
         /\ \A i \in {s} \cup S : i <= Highest(s, S)
<1>1. \E m \in {s} \cup S : \A i \in {s} \cup S : i <= m
  <2>1. CASE S = {}
    BY <2>1
  <2>2. CASE S # {}
    <3>1. PICK m \in S : \A i \in S : i <= m
      BY <2>2
    <3>2. CASE s <= m
      BY <3>1, <3>2
    <3>3. CASE m <= s
      BY <3>1, <3>3
    <3> QED  BY <3>1, <3>2, <3>3
  <2> QED  BY <2>1, <2>2
<1> QED  BY <1>1 DEF Highest

\* All increments up to the highest one are known when those of the answer are decided.
LEMMA ApplyIncrsStep ==
  ASSUME SyncInv, NEW l \in Loop, ApplyIncrs(l)
  PROVE  SyncInv'
<1> DEFINE incrs == loop[l].res.incrs
<1> DEFINE m == Highest(globalSeq, incrs)
<1>1. /\ loop \in [Loop -> State] /\ loop[l] \in State /\ LoopOK(l) /\ VersionsOK /\ CloudOK
      /\ UNCHANGED <<cloud, versions, white, lost>>
      /\ UNCHANGED <<lastIncr, bases, edits, lostIncrs, lostEdits, newest, overtaken>>
      /\ loop[l].at = "incrs"
      /\ loop' = [loop EXCEPT ![l].at = "tenant", ![l].maxSeq = m]
      /\ decided' = decided \cup incrs
      /\ lastIncr \in Nat
  BY SyncAssumption DEF SyncInv, ApplyIncrs, cloud, lost, CloudOK, SyncAssumption
<1>2. /\ incrs \subseteq 1 .. lastIncr /\ globalSeq \in 0 .. lastIncr
      /\ incrs # {} => \E n \in incrs : \A i \in incrs : i <= n
  BY <1>1 DEF LoopOK, Answered, VersionsOK
<1>3. m \in {globalSeq} \cup incrs
  BY <1>1, <1>2, HighestOf
<1> HIDE DEF m
<1>4. m \in 0 .. lastIncr
  BY <1>1, <1>2, <1>3
<1>5. 1 .. m \subseteq Known'
  <2>1. CASE m = globalSeq
    BY <1>1, <2>1 DEF VersionsOK, Known
  <2>2. ASSUME m \in incrs, NEW i \in 1 .. m
        PROVE  i \in decided \cup lostIncrs \cup incrs
    <3>1. \/ i \in incrs \/ i <= loop[l].req.seq
          \/ loop[l].res.base > 0 /\ i <= bases[loop[l].res.base]
      BY <1>1, <2>2 DEF LoopOK, Answered
    <3>2. CASE i <= loop[l].req.seq
      <4>1. 1 .. loop[l].req.seq \subseteq Known /\ loop[l].req.seq \in 0 .. lastIncr
        BY <1>1 DEF LoopOK, Asked
      <4> QED  BY <1>1, <1>4, <3>2, <4>1 DEF Known
    <3>3. CASE loop[l].res.base > 0 /\ i <= bases[loop[l].res.base]
      <4>1. /\ loop[l].res.base \in 1 .. Len(bases)
            /\ 1 .. bases[loop[l].res.base] \subseteq Known
        BY <1>1, <3>3 DEF LoopOK, Answered, Consumed, Covered
      <4>2. bases[loop[l].res.base] \in 1 .. MaxChange
        BY <1>1, <4>1, ElementOfSeq DEF CloudOK
      <4> QED  BY <1>1, <1>4, <3>3, <4>1, <4>2 DEF Known
    <3> QED  BY <3>1, <3>2, <3>3
  <2> QED  BY <1>1, <1>3, <2>1, <2>2 DEF Known
<1>6. Grows /\ VersionsOK'
  BY <1>1, <1>2, SameCloud, VersionsKeep DEF Known, VersionsOK
<1> HIDE DEF incrs
<1>7. /\ loop' \in [Loop -> State] /\ \A k \in Loop \ {l} : loop'[k] = loop[k]
      /\ loop'[l].at = "tenant" /\ loop'[l].maxSeq = m
      /\ loop'[l].req = loop[l].req /\ loop'[l].res = loop[l].res
      /\ loop'[l].snap = loop[l].snap /\ loop'[l].todo = loop[l].todo
      /\ loop'[l].ver = loop[l].ver
  <2>1. m \in Nat
    BY <1>1, <1>4
  <2> QED  BY <1>1, <2>1 DEF State
<1>8. Asked(l)'
  BY <1>1, <1>6, <1>7 DEF LoopOK, Asked, Covered, Grows
<1>9. Answered(l)'
  BY <1>1, <1>7 DEF LoopOK, Answered
<1>10. Consumed(l)'
  BY <1>1, <1>4, <1>5, <1>6, <1>7 DEF LoopOK, Consumed, Covered, Grows
<1> QED  BY <1>6, <1>7, <1>8, <1>9, <1>10, LoopMoves DEF LoopOK

\* What doDiff dealt with grows, up to the cloud's version.
LEMMA NewestGrows ==
  ASSUME NEW N \in Nat, newest \in [IP -> 0 .. N], NEW S \in SUBSET IP, NEW n \in 0 .. N,
         NewestIs(S, n)
  PROVE  /\ newest' \in [IP -> 0 .. N] /\ \A ip \in IP : newest[ip] <= newest'[ip]
         /\ \A ip \in S : n <= newest'[ip] /\ newest'[ip] \in {n, newest[ip]}
         /\ \A ip \in IP \ S : newest'[ip] = newest[ip]
  BY DEF NewestIs

\* The tenant's layer leaves what is known alone.
LEMMA TenantStep ==
  ASSUME SyncInv, NEW l \in Loop, Tenant(l)
  PROVE  SyncInv'
<1>1. /\ loop \in [Loop -> State] /\ loop[l] \in State /\ LoopOK(l) /\ VersionsOK /\ CloudOK
      /\ UNCHANGED <<cloud, versions, decided, white, lostIncrs, overtaken>>
      /\ UNCHANGED <<lastIncr, bases, edits>> /\ loop[l].at = "tenant"
      /\ edits \in Seq(IP) /\ Len(edits) \in Nat
      /\ loop[l].req.tenant \in Nat /\ loop[l].res.tenant \in 0 .. Len(edits)
  <2>1. /\ loop \in [Loop -> State] /\ loop[l] \in State /\ LoopOK(l) /\ VersionsOK
        /\ CloudOK /\ edits \in Seq(IP) /\ Len(edits) \in Nat
    BY DEF SyncInv, CloudOK
  <2>2. loop[l].req.tenant \in Nat /\ loop[l].res.tenant \in 0 .. Len(edits)
    BY <2>1 DEF LoopOK, Answered, State
  <2>3. /\ UNCHANGED <<cloud, versions, decided, white, lostIncrs, overtaken>>
        /\ UNCHANGED <<lastIncr, bases, edits>> /\ loop[l].at = "tenant"
    BY DEF Tenant, cloud
  <2> QED  BY <2>1, <2>2, <2>3
<1>2. /\ Edited(0, Len(edits)) \subseteq IP
      /\ Edited(loop[l].req.tenant, loop[l].res.tenant) \subseteq IP
  BY <1>1, EditedAddresses
<1>3. PICK todo \in Lists, ver \in 0 .. Len(edits) :
          /\ loop' = [loop EXCEPT ![l].at = "white", ![l].ver = ver, ![l].todo = todo]
          /\ todo.add \cap todo.del = {}
  <2>1. CASE ~loop[l].res.full
    <3> DEFINE todo == loop[l].res.changes
               ver == loop[l].res.tenant
    <3>1. todo \in Lists /\ todo.add \cap todo.del = {} /\ ver \in 0 .. Len(edits)
      BY <1>1 DEF LoopOK, Answered, State, Answer
    <3>2. loop' = [loop EXCEPT ![l].at = "white", ![l].ver = ver, ![l].todo = todo]
      BY <2>1 DEF Tenant
    <3> HIDE DEF todo, ver
    <3> QED  BY <3>1, <3>2
  <2>2. ASSUME NEW snap \in Changes(0),
               loop' = [loop EXCEPT ![l].at = "white", ![l].ver = Len(edits),
                                    ![l].todo = snap]
        PROVE  \E todo \in Lists, ver \in 0 .. Len(edits) :
                  /\ loop' = [loop EXCEPT ![l].at = "white", ![l].ver = ver, ![l].todo = todo]
                  /\ todo.add \cap todo.del = {}
    <3>1. snap \in Lists /\ snap.add \cap snap.del = {}
      BY <1>2 DEF Changes, Lists
    <3>2. Len(edits) \in 0 .. Len(edits)
      BY <1>1
    <3> QED  BY <2>2, <3>1, <3>2
  <2>3. CASE loop' = [loop EXCEPT ![l].at = "white"]
    <3> DEFINE todo == loop[l].todo
               ver == loop[l].ver
    <3>1. todo \in Lists /\ todo.add \cap todo.del = {} /\ ver \in 0 .. Len(edits)
      BY <1>1 DEF LoopOK, Consumed, State
    <3>2. loop' = [loop EXCEPT ![l].at = "white", ![l].ver = ver, ![l].todo = todo]
      BY <1>1, <2>3 DEF State
    <3> HIDE DEF todo, ver
    <3> QED  BY <3>1, <3>2
  <2> QED  BY <2>1, <2>2, <2>3 DEF Tenant
<1>4. lostEdits' \subseteq IP /\ newest' \in [IP -> 0 .. Len(edits)]
  <2>1. lostEdits \subseteq IP /\ newest \in [IP -> 0 .. Len(edits)]
    BY <1>1 DEF VersionsOK
  <2>2. CASE UNCHANGED <<lostEdits, newest>>
    BY <2>1, <2>2
  <2>3. CASE /\ lostEdits' = lostEdits \cup Edited(loop[l].req.tenant, loop[l].res.tenant)
             /\ NewestIs(Edited(loop[l].req.tenant, loop[l].res.tenant), loop[l].res.tenant)
    BY <1>1, <1>2, <2>1, <2>3, NewestGrows
  <2> QED  BY <2>2, <2>3 DEF Tenant
<1>5. /\ loop' \in [Loop -> State] /\ \A k \in Loop \ {l} : loop'[k] = loop[k]
      /\ loop'[l].at = "white" /\ loop'[l].todo = todo /\ loop'[l].ver = ver
      /\ loop'[l].req = loop[l].req /\ loop'[l].res = loop[l].res
      /\ loop'[l].snap = loop[l].snap /\ loop'[l].maxSeq = loop[l].maxSeq
  <2>1. ver \in Nat
    BY <1>1, <1>3
  <2> QED  BY <1>1, <1>3, <2>1 DEF State
<1>6. Grows
  BY <1>1, SameCloud DEF Known
<1>7. VersionsOK'
  BY <1>1, <1>4 DEF VersionsOK, versions, Covered, Known
<1>8. Asked(l)' /\ Answered(l)' /\ Consumed(l)'
  BY <1>1, <1>3, <1>5 DEF LoopOK, Asked, Answered, Consumed, Covered, Known
<1> QED  BY <1>5, <1>6, <1>7, <1>8, LoopMoves DEF LoopOK

\* Nor does an entry of the whitelist change it, applied or not.
LEMMA ApplyWhiteStep ==
  ASSUME SyncInv, NEW l \in Loop, NEW ip \in IP, ApplyWhite(l, ip)
  PROVE  SyncInv'
<1> DEFINE todo == [add |-> loop[l].todo.add \ {ip}, del |-> loop[l].todo.del \ {ip}]
<1>1. /\ loop \in [Loop -> State] /\ loop[l] \in State /\ LoopOK(l) /\ VersionsOK /\ CloudOK
      /\ UNCHANGED <<cloud, versions, decided, lostIncrs>>
      /\ UNCHANGED <<lastIncr, bases, edits>> /\ loop[l].at = "white"
      /\ loop' = [loop EXCEPT ![l].todo = todo]
      /\ NewestIs({ip}, loop[l].ver)
      /\ Len(edits) \in Nat /\ loop[l].ver \in 0 .. Len(edits)
  BY DEF SyncInv, ApplyWhite, cloud, CloudOK, LoopOK, Consumed
<1>2. /\ white' \subseteq IP /\ lostEdits' \subseteq IP /\ overtaken' \subseteq IP
      /\ newest' \in [IP -> 0 .. Len(edits)]
  <2>1. newest' \in [IP -> 0 .. Len(edits)]
    BY <1>1, NewestGrows DEF VersionsOK
  <2>2. white \subseteq IP /\ lostEdits \subseteq IP /\ overtaken \subseteq IP
    BY <1>1 DEF VersionsOK
  <2> QED  BY <2>1, <2>2 DEF ApplyWhite
<1>3. todo \in Lists /\ todo.add \cap todo.del = {}
  BY <1>1 DEF LoopOK, Consumed, State, Lists
<1> HIDE DEF todo
<1>4. /\ loop' \in [Loop -> State] /\ \A k \in Loop \ {l} : loop'[k] = loop[k]
      /\ loop'[l].at = "white" /\ loop'[l].todo = todo /\ loop'[l].ver = loop[l].ver
      /\ loop'[l].req = loop[l].req /\ loop'[l].res = loop[l].res
      /\ loop'[l].snap = loop[l].snap /\ loop'[l].maxSeq = loop[l].maxSeq
  BY <1>1, <1>3 DEF State
<1>5. Grows
  BY <1>1, SameCloud DEF Known
<1>6. VersionsOK'
  BY <1>1, <1>2 DEF VersionsOK, versions, Covered, Known
<1>7. Asked(l)' /\ Answered(l)' /\ Consumed(l)'
  BY <1>1, <1>3, <1>4 DEF LoopOK, Asked, Answered, Consumed, Covered, Known
<1> QED  BY <1>4, <1>5, <1>6, <1>7, LoopMoves DEF LoopOK

\* The versions that are written may be older than those another loop wrote, but what
\* they stand for is known.
LEMMA WriteVersionsStep ==
  ASSUME SyncInv, NEW l \in Loop, WriteVersions(l)
  PROVE  SyncInv'
<1>1. /\ loop \in [Loop -> State] /\ loop[l] \in State /\ LoopOK(l) /\ VersionsOK /\ CloudOK
      /\ UNCHANGED <<cloud, decided, white, lost>>
      /\ UNCHANGED <<lastIncr, bases, edits, lostIncrs, lostEdits, newest, overtaken>>
      /\ loop[l].at = "white"
      /\ globalBase' = (IF loop[l].res.needBase THEN loop[l].res.base ELSE globalBase)
      /\ globalSeq' = loop[l].maxSeq /\ tenantSeq' = loop[l].res.tenant
      /\ loop' = [loop EXCEPT ![l] = Waiting]
      /\ lastIncr \in Nat /\ Len(bases) \in Nat /\ Len(edits) \in Nat
  BY SyncAssumption DEF SyncInv, WriteVersions, cloud, lost, CloudOK, SyncAssumption
<1>2. Waiting \in State
  BY DEF Waiting, State, NoReq, NoRes, Answer, Lists
<1>3. /\ loop' \in [Loop -> State] /\ \A k \in Loop \ {l} : loop'[k] = loop[k]
      /\ loop'[l] = Waiting
  BY <1>1, <1>2
<1>4. Grows
  BY <1>1, SameCloud DEF Known
<1>5. VersionsOK'
  BY <1>1 DEF VersionsOK, LoopOK, Answered, Consumed, Covered, Known
<1>6. LoopOK(l)'
  BY <1>1, <1>3 DEF LoopOK, Asked, Answered, Consumed, Covered, Known, Waiting, NoReq, NoRes
<1> QED  BY <1>3, <1>4, <1>5, <1>6, LoopMoves

-----------------------------------------------------------------------------
\* No step of the cloud or of a loop breaks the invariant.
LEMMA SyncStep == SyncInv /\ [SyncNext]_syncVars => SyncInv'
<1> SUFFICES ASSUME SyncInv, [SyncNext]_syncVars PROVE SyncInv'
  OBVIOUS
<1>1. CASE UNCHANGED syncVars
  BY <1>1
     DEF syncVars, cloud, versions, lost, SyncInv, CloudOK, VersionsOK, LoopOK, Asked,
         Answered, Consumed, Covered, Known
<1>2. ASSUME NEW l \in Loop, DoDiff(l) PROVE SyncInv'
  BY <1>2, ReadVersionsStep, DiffStep, DiffFailedStep, FetchStep, WriteBaseStep,
     ApplyIncrsStep, TenantStep, ApplyWhiteStep, WriteVersionsStep
     DEF DoDiff
<1> QED  BY <1>1, <1>2, CloudStep DEF SyncNext

\* The variables keep their types: no version is beyond what the cloud has published.
THEOREM SyncTypeCorrect == SyncSpec => []SyncTypeOK
<1>1. SyncInv => SyncTypeOK
  BY DEF SyncInv, CloudOK, VersionsOK, LoopOK, Consumed, State, SyncTypeOK
<1> QED  BY <1>1, InitSync, SyncStep, PTL DEF SyncSpec

\* However many loops run doDiff at once and overwrite each other's versions, and whatever
\* fails, the agent never claims an increment that it did not consume, but for those of a
\* base whose snapshot was not fetched.
THEOREM NoIncrementSkipped == SyncSpec => []NothingSkipped
<1>1. SyncInv => NothingSkipped
  BY DEF SyncInv, VersionsOK, Covered, Known, NothingSkipped
<1> QED  BY <1>1, InitSync, SyncStep, PTL DEF SyncSpec

-----------------------------------------------------------------------------
(* The whitelist, for any number of loops. *)

\* doDiff dealt with the edits of ip up to the n-th.
DealtFor(n, ip) == \A e \in 1 .. n : edits[e] = ip => e <= newest[ip]

Dealt(n) == \A ip \in IP : DealtFor(n, ip)

\* The kernel's entry of an address is that of the newest version dealt with.
EntriesOK == \A ip \in IP \ GivenUp : ip \in white <=> ip \in WhiteAt(newest[ip])

\* An answer names every address edited since the version that was sent.
Complete(c) ==
    /\ \A ip \in c.res.changes.add : ip \in WhiteAt(c.res.tenant)
    /\ \A ip \in c.res.changes.del : ip \notin WhiteAt(c.res.tenant)
    /\ Edited(c.req.tenant, c.res.tenant) \subseteq c.res.changes.add \cup c.res.changes.del

\* The entries that are still to apply are of one version, and all others are dealt with.
Underway(c) ==
    /\ \A ip \in c.todo.add : ip \in WhiteAt(c.ver)
    /\ \A ip \in c.todo.del : ip \notin WhiteAt(c.ver)
    /\ \A ip \in c.todo.add \cup c.todo.del : c.res.tenant <= c.ver
    /\ \A ip \in IP \ (c.todo.add \cup c.todo.del) : DealtFor(c.res.tenant, ip)

TenantOK(c) ==
    /\ c.at \in {"asked", "base", "fetched", "incrs", "tenant"} => Dealt(c.req.tenant)
    /\ c.at \in {"base", "fetched", "incrs", "tenant"} => Complete(c)
    /\ c.at # "white" => c.todo.add = {} /\ c.todo.del = {}
    /\ c.at = "white" => Underway(c)

WhitelistOK ==
    /\ EntriesOK /\ Dealt(tenantSeq)
    /\ \A l \in Loop : TenantOK(loop[l])

\* An address that is not edited in between is on both whitelists or on none.
LEMMA NotEdited ==
  ASSUME NEW m \in Nat, NEW n \in Nat, m <= n, NEW ip \in IP,
         \A e \in m + 1 .. n : edits[e] # ip
  PROVE  ip \in WhiteAt(m) <=> ip \in WhiteAt(n)
<1>1. {i \in 1 .. m : edits[i] = ip} = {i \in 1 .. n : edits[i] = ip}
  OBVIOUS
<1> QED  BY <1>1 DEF WhiteAt

\* The tenant only appends edits, and doDiff deals with newer and newer versions.
Newer ==
    /\ Len(edits) \in Nat /\ Len(edits) <= Len(edits')
    /\ \A i \in 1 .. Len(edits) : edits'[i] = edits[i]
    /\ newest \in [IP -> 0 .. Len(edits)]
    /\ newest' \in [IP -> 0 .. Len(edits')]
    /\ Len(edits') \in Nat
    /\ \A ip \in IP : newest[ip] <= newest'[ip]

\* Then what was said of an earlier version stays true.
LEMMA Earlier ==
  ASSUME Newer, NEW n \in 0 .. Len(edits)
  PROVE  /\ WhiteAt(n)' = WhiteAt(n)
         /\ \A m \in Nat : Edited(m, n)' = Edited(m, n)
         /\ \A ip \in IP : DealtFor(n, ip) => DealtFor(n, ip)'
         /\ Dealt(n) => Dealt(n)'
<1>1. n \in Nat /\ \A i \in 1 .. n : edits'[i] = edits[i]
  BY DEF Newer
<1>2. \A x \in IP : {i \in 1 .. n : edits'[i] = x} = {i \in 1 .. n : edits[i] = x}
  BY <1>1
<1>3. WhiteAt(n)' = WhiteAt(n)
  BY <1>2 DEF WhiteAt
<1>4. ASSUME NEW m \in Nat PROVE Edited(m, n)' = Edited(m, n)
  <2>1. \A i \in m + 1 .. n : edits'[i] = edits[i]
    BY <1>1
  <2> QED  BY <2>1 DEF Edited
<1>5. ASSUME NEW ip \in IP, DealtFor(n, ip) PROVE DealtFor(n, ip)'
  <2> SUFFICES ASSUME NEW e \in 1 .. n, edits'[e] = ip PROVE e <= newest'[ip]
    BY DEF DealtFor
  <2>1. e <= newest[ip] /\ newest[ip] <= newest'[ip]
    BY <1>1, <1>5 DEF DealtFor, Newer
  <2>2. e \in Nat /\ newest[ip] \in Nat /\ newest'[ip] \in Nat
    BY <1>1 DEF Newer
  <2> QED  BY <2>1, <2>2
<1>6. Dealt(n) => Dealt(n)'
  BY <1>5 DEF Dealt
<1> QED  BY <1>3, <1>4, <1>5, <1>6

\* What TenantOK rests on in the types.
LEMMA Ranges ==
  ASSUME SyncInv
  PROVE  /\ Len(edits) \in Nat /\ edits \in Seq(IP) /\ tenantSeq \in 0 .. Len(edits)
         /\ newest \in [IP -> 0 .. Len(edits)]
         /\ \A l \in Loop :
               /\ loop[l] \in State
               /\ loop[l].req.tenant \in 0 .. Len(edits) /\ loop[l].req.tenant \in Nat
               /\ loop[l].res.tenant \in 0 .. Len(edits)
               /\ loop[l].ver \in 0 .. Len(edits)
               /\ loop[l].todo.add \subseteq IP /\ loop[l].todo.del \subseteq IP
               /\ loop[l].todo.add \cap loop[l].todo.del = {}
               /\ loop[l].res.changes.add \subseteq IP /\ loop[l].res.changes.del \subseteq IP
<1>1. Len(edits) \in Nat /\ edits \in Seq(IP)
  BY DEF SyncInv, CloudOK
<1>2. ASSUME NEW l \in Loop
      PROVE  /\ loop[l] \in State /\ loop[l].req.tenant \in 0 .. Len(edits)
             /\ loop[l].res.tenant \in 0 .. Len(edits) /\ loop[l].ver \in 0 .. Len(edits)
             /\ loop[l].todo.add \cap loop[l].todo.del = {}
  BY DEF SyncInv, LoopOK, Asked, Answered, Consumed
<1>3. \A c \in State : /\ c.todo.add \subseteq IP /\ c.todo.del \subseteq IP
                       /\ c.res.changes.add \subseteq IP /\ c.res.changes.del \subseteq IP
                       /\ c.req.tenant \in Nat
  BY DEF State, Lists, Answer
<1> QED  BY <1>1, <1>2, <1>3 DEF SyncInv, VersionsOK

\* A loop that does not move keeps to it, whatever the cloud and the others do.
LEMMA LoopWaits ==
  ASSUME SyncInv, Newer, NEW l \in Loop, loop'[l] = loop[l], TenantOK(loop[l])
  PROVE  TenantOK(loop[l])'
<1> DEFINE c == loop[l]
<1>1. /\ c.req.tenant \in 0 .. Len(edits) /\ c.res.tenant \in 0 .. Len(edits)
      /\ c.ver \in 0 .. Len(edits) /\ c.req.tenant \in Nat
  BY Ranges
<1>2. Dealt(c.req.tenant) => Dealt(c.req.tenant)'
  <2>1. c.req.tenant' = c.req.tenant
    OBVIOUS
  <2> HIDE DEF c
  <2> QED  BY <1>1, <2>1, Earlier
<1>3. Complete(c) => Complete(c)'
  <2>1. c' = c
    OBVIOUS
  <2> HIDE DEF c
  <2>2. /\ WhiteAt(c.res.tenant)' = WhiteAt(c.res.tenant)
        /\ Edited(c.req.tenant, c.res.tenant)' = Edited(c.req.tenant, c.res.tenant)
    BY <1>1, <2>1, Earlier
  <2> QED  BY <2>1, <2>2 DEF Complete
<1>4. Underway(c) => Underway(c)'
  <2>1. c' = c
    OBVIOUS
  <2> HIDE DEF c
  <2>2. /\ WhiteAt(c.ver)' = WhiteAt(c.ver)
        /\ \A ip \in IP : DealtFor(c.res.tenant, ip) => DealtFor(c.res.tenant, ip)'
    BY <1>1, <2>1, Earlier
  <2> QED  BY <2>1, <2>2 DEF Underway
<1> QED  BY <1>2, <1>3, <1>4 DEF TenantOK

\* Every entry stays as it is when nothing is dealt with or given up.
LEMMA EntriesStay ==
  ASSUME SyncInv, EntriesOK, Newer, UNCHANGED <<white, newest, lostEdits, overtaken>>
  PROVE  EntriesOK'
<1> SUFFICES ASSUME NEW ip \in IP \ GivenUp
             PROVE  ip \in white' <=> ip \in WhiteAt(newest[ip])'
  BY DEF EntriesOK, GivenUp
<1>1. newest[ip] \in 0 .. Len(edits)
  BY DEF Newer
<1>2. WhiteAt(newest[ip])' = WhiteAt(newest[ip])
  BY <1>1, Earlier
<1> QED  BY <1>2 DEF EntriesOK

\* A step of one loop that deals with answers.
LEMMA WhitelistMoves ==
  ASSUME SyncInv, WhitelistOK, Newer, EntriesOK', UNCHANGED tenantSeq, NEW l \in Loop,
         \A k \in Loop \ {l} : loop'[k] = loop[k], TenantOK(loop[l])'
  PROVE  WhitelistOK'
<1>1. Dealt(tenantSeq)'
  <2>1. tenantSeq \in 0 .. Len(edits) /\ Dealt(tenantSeq)
    BY Ranges DEF WhitelistOK
  <2> QED  BY <2>1, Earlier
<1>2. \A k \in Loop : TenantOK(loop[k])'
  BY LoopWaits DEF WhitelistOK
<1> QED  BY <1>1, <1>2 DEF WhitelistOK

\* A step of no loop.
LEMMA WhitelistWaits ==
  ASSUME SyncInv, WhitelistOK, Newer, EntriesOK', UNCHANGED <<tenantSeq, loop>>
  PROVE  WhitelistOK'
<1>1. Dealt(tenantSeq)'
  <2>1. tenantSeq \in 0 .. Len(edits) /\ Dealt(tenantSeq)
    BY Ranges DEF WhitelistOK
  <2> QED  BY <2>1, Earlier
<1>2. \A k \in Loop : TenantOK(loop[k])'
  BY LoopWaits DEF WhitelistOK
<1> QED  BY <1>1, <1>2 DEF WhitelistOK

\* The cloud's steps: an edit only adds an address that is still to be dealt with.
LEMMA CloudWhitelist ==
  ASSUME SyncInv, WhitelistOK, Publish \/ Rebase \/ \E ip \in IP : Edit(ip)
  PROVE  WhitelistOK'
<1>1. UNCHANGED <<tenantSeq, white, lostEdits, loop, newest, overtaken>>
  BY DEF Publish, Rebase, Edit, versions, lost
<1>2. Newer
  <2>1. CASE UNCHANGED edits
    BY <1>1, <2>1, Ranges DEF Newer
  <2>2. ASSUME NEW ip \in IP, Edit(ip) PROVE Newer
    <3>1. edits' = Append(edits, ip) /\ edits \in Seq(IP) /\ Len(edits) \in Nat
      BY <2>2, Ranges DEF Edit
    <3>2. Len(edits') = Len(edits) + 1 /\ \A i \in 1 .. Len(edits) : edits'[i] = edits[i]
      BY <3>1, AppendProperties
    <3>3. newest \in [IP -> 0 .. Len(edits)]
      BY Ranges
    <3> QED  BY <1>1, <3>1, <3>2, <3>3 DEF Newer
  <2> QED  BY <2>1, <2>2 DEF Publish, Rebase
<1>3. EntriesOK'
  BY <1>1, <1>2, EntriesStay DEF WhitelistOK
<1> QED  BY <1>1, <1>2, <1>3, WhitelistWaits

\* The steps between the request and the tenant layer leave the whitelist alone; the answer
\* names what was edited since.
LEMMA QuietWhitelist ==
  ASSUME SyncInv, WhitelistOK, NEW l \in Loop,
         ReadVersions(l) \/ Diff(l) \/ DiffFailed(l) \/ FetchGlobalSnapshot(l)
            \/ WriteBase(l) \/ ApplyIncrs(l)
  PROVE  WhitelistOK'
<1>1. /\ UNCHANGED <<edits, tenantSeq, white, lostEdits, newest, overtaken>>
      /\ loop[l].at # "white" /\ loop[l] \in State /\ TenantOK(loop[l])
      /\ \A k \in Loop \ {l} : loop'[k] = loop[k]
  BY DEF ReadVersions, Diff, DiffFailed, FetchGlobalSnapshot, WriteBase, ApplyIncrs, cloud,
         versions, lost, SyncInv, WhitelistOK
<1>2. Newer
  BY <1>1, Ranges DEF Newer
<1>3. EntriesOK' /\ loop[l].todo.add = {} /\ loop[l].todo.del = {}
  BY <1>1, <1>2, EntriesStay DEF WhitelistOK, TenantOK
<1> SUFFICES TenantOK(loop[l])'
  BY <1>1, <1>2, <1>3, WhitelistMoves
<1>4. CASE ReadVersions(l)
  <2>1. /\ loop'[l].at = "asked" /\ loop'[l].todo = loop[l].todo
        /\ loop'[l].req.tenant = tenantSeq
    BY <1>1, <1>4 DEF ReadVersions, SyncInv, State
  <2>2. Dealt(tenantSeq)'
    BY <1>1 DEF WhitelistOK, Dealt, DealtFor
  <2>3. Dealt(loop[l].req.tenant)'
    BY <1>1, <2>1, <2>2
  <2> QED  BY <1>3, <2>1, <2>3 DEF TenantOK
<1>5. CASE DiffFailed(l)
  <2>1. loop'[l] = Waiting
    BY <1>5 DEF DiffFailed, SyncInv
  <2> QED  BY <2>1 DEF TenantOK, Waiting
<1>6. CASE FetchGlobalSnapshot(l) \/ WriteBase(l) \/ ApplyIncrs(l)
  <2>1. /\ loop'[l].at \in {"fetched", "incrs", "tenant"} /\ loop'[l].todo = loop[l].todo
        /\ loop'[l].req = loop[l].req /\ loop'[l].res = loop[l].res
        /\ loop[l].at \in {"base", "fetched", "incrs"}
    BY <1>1, <1>6 DEF FetchGlobalSnapshot, WriteBase, ApplyIncrs, SyncInv, State
  <2>2. Complete(loop[l]) /\ Dealt(loop[l].req.tenant)
    BY <1>1, <2>1 DEF TenantOK
  <2>3. Complete(loop[l])'
    <3>1. /\ WhiteAt(loop[l].res.tenant)' = WhiteAt(loop[l].res.tenant)
          /\ Edited(loop[l].req.tenant, loop[l].res.tenant)'
                = Edited(loop[l].req.tenant, loop[l].res.tenant)
      BY <1>1, <2>1 DEF WhiteAt, Edited
    <3> QED  BY <2>1, <2>2, <3>1 DEF Complete
  <2>4. Dealt(loop[l].req.tenant)'
    BY <1>1, <2>1, <2>2 DEF Dealt, DealtFor
  <2> QED  BY <1>3, <2>1, <2>3, <2>4 DEF TenantOK
<1>7. CASE Diff(l)
  <2>1. PICK res \in Answers(loop[l].req) :
            loop' = [loop EXCEPT ![l].res = res,
                                 ![l].at = IF res.needBase THEN "base" ELSE "incrs"]
    BY <1>7 DEF Diff
  <2>2. /\ loop'[l].at \in {"base", "incrs"} /\ loop'[l].todo = loop[l].todo
        /\ loop'[l].req = loop[l].req /\ loop'[l].res = res
    BY <1>1, <2>1 DEF SyncInv, State
  <2>3. Dealt(loop[l].req.tenant)
    BY <1>1, <1>7 DEF Diff, TenantOK
  <2>4. Dealt(loop[l].req.tenant)'
    BY <1>1, <2>2, <2>3 DEF Dealt, DealtFor
  <2>5. res.tenant = Len(edits) /\ res.changes \in Changes(loop[l].req.tenant)
    BY DEF Answers
  <2>6. /\ res.changes.add = Edited(loop[l].req.tenant, Len(edits)) \cap WhiteAt(Len(edits))
        /\ res.changes.del = Edited(loop[l].req.tenant, Len(edits)) \ WhiteAt(Len(edits))
    BY <2>5 DEF Changes
  <2>7. Complete(loop[l])'
    BY <1>1, <2>2, <2>5, <2>6 DEF Complete, Edited, WhiteAt
  <2> QED  BY <1>3, <2>2, <2>4, <2>7 DEF TenantOK
<1> QED  BY <1>4, <1>5, <1>6, <1>7

\* An address that the answer does not name was dealt with before.
LEMMA DealtBefore ==
  ASSUME NEW m \in Nat, NEW n \in Nat, NEW ip \in IP, Dealt(m), ip \notin Edited(m, n)
  PROVE  DealtFor(n, ip)
<1> SUFFICES ASSUME NEW e \in 1 .. n, edits[e] = ip PROVE e <= newest[ip]
  BY DEF DealtFor
<1>1. e \in 1 .. m
  BY DEF Edited
<1> QED  BY <1>1 DEF Dealt, DealtFor

\* What the tenant layer has to apply names all that is still to be dealt with.
LEMMA TenantWhitelist ==
  ASSUME SyncInv, WhitelistOK, NEW l \in Loop, Tenant(l)
  PROVE  WhitelistOK'
<1> DEFINE m == loop[l].req.tenant
           n == loop[l].res.tenant
           missed == Edited(m, n)
<1>1. /\ UNCHANGED <<edits, tenantSeq, white, overtaken>> /\ loop[l].at = "tenant"
      /\ loop[l] \in State /\ TenantOK(loop[l]) /\ CloudOK
      /\ \A k \in Loop \ {l} : loop'[k] = loop[k]
  BY DEF Tenant, cloud, versions, SyncInv, WhitelistOK
<1>2. /\ m \in Nat /\ n \in Nat /\ n \in 0 .. Len(edits) /\ Len(edits) \in Nat
      /\ newest \in [IP -> 0 .. Len(edits)]
      /\ Dealt(m) /\ Complete(loop[l])
      /\ loop[l].todo.add = {} /\ loop[l].todo.del = {}
  BY <1>1, Ranges DEF TenantOK
<1>3. missed \subseteq IP
  BY <1>1, <1>2, EditedAddresses
<1> HIDE DEF m, n, missed
<1>4. \A ip \in IP \ missed : DealtFor(n, ip)
  BY <1>2, DealtBefore DEF missed
<1>5. ASSUME Newer, EntriesOK', loop'[l].at = "white", Underway(loop[l])'
      PROVE  WhitelistOK'
  <2>1. TenantOK(loop[l])'
    BY <1>5 DEF TenantOK
  <2> QED  BY <1>1, <1>5, <2>1, WhitelistMoves
<1>6. ASSUME UNCHANGED <<lostEdits, newest>> PROVE Newer /\ EntriesOK'
  <2>1. Newer
    BY <1>1, <1>2, <1>6 DEF Newer
  <2> QED  BY <1>1, <1>6, <2>1, EntriesStay DEF WhitelistOK
<1>7. CASE /\ loop' = [loop EXCEPT ![l].at = "white", ![l].ver = loop[l].res.tenant,
                                   ![l].todo = loop[l].res.changes]
           /\ UNCHANGED <<lostEdits, newest>>
  <2>1. /\ loop'[l].todo = loop[l].res.changes /\ loop'[l].at = "white"
        /\ loop'[l].res = loop[l].res /\ loop'[l].ver = n
    BY <1>1, <1>7 DEF SyncInv, State, n
  <2>2. /\ \A ip \in loop'[l].todo.add : ip \in WhiteAt(n)
        /\ \A ip \in loop'[l].todo.del : ip \notin WhiteAt(n)
        /\ \A ip \in IP \ (loop'[l].todo.add \cup loop'[l].todo.del) : ip \notin missed
    BY <1>2, <2>1 DEF Complete, n, m, missed
  <2>3. WhiteAt(n)' = WhiteAt(n) /\ n <= n /\ loop'[l].res.tenant = n
    BY <1>1, <1>2, <2>1 DEF WhiteAt, n
  <2>4. \A ip \in IP : DealtFor(n, ip) => DealtFor(n, ip)'
    BY <1>1, <1>7, <2>1 DEF DealtFor, n
  <2>5. \A ip \in IP \ (loop'[l].todo.add \cup loop'[l].todo.del) : DealtFor(n, ip)'
    BY <1>4, <2>2, <2>4
  <2>6. Underway(loop[l])'
    BY <1>1, <2>1, <2>2, <2>3, <2>5 DEF Underway, n
  <2> QED  BY <1>5, <1>6, <1>7, <2>1, <2>6
<1>8. ASSUME NEW snap \in Changes(0), UNCHANGED <<lostEdits, newest>>,
             loop' = [loop EXCEPT ![l].at = "white", ![l].ver = Len(edits), ![l].todo = snap]
      PROVE  WhitelistOK'
  <2>1. /\ snap.add = Edited(0, Len(edits)) \cap WhiteAt(Len(edits))
        /\ snap.del = Edited(0, Len(edits)) \ WhiteAt(Len(edits))
    BY DEF Changes
  <2>2. /\ loop'[l].todo = snap /\ loop'[l].at = "white" /\ loop'[l].res = loop[l].res
        /\ loop'[l].ver = Len(edits)
    BY <1>1, <1>8 DEF SyncInv, State
  <2>3. \A ip \in IP \ (snap.add \cup snap.del) : DealtFor(n, ip)
    BY <1>2, <2>1 DEF Edited, DealtFor
  <2>4. n <= Len(edits) /\ loop'[l].res.tenant = n
    BY <1>2, <2>2 DEF n
  <2>5. Underway(loop[l])'
    BY <1>1, <1>8, <2>1, <2>2, <2>3, <2>4 DEF Underway, WhiteAt, DealtFor
  <2> QED  BY <1>5, <1>6, <1>8, <2>2, <2>5
<1>9. CASE /\ loop' = [loop EXCEPT ![l].at = "white"]
           /\ lostEdits' = lostEdits \cup missed /\ NewestIs(missed, n)
  <2>1. /\ newest' \in [IP -> 0 .. Len(edits)] /\ \A ip \in IP : newest[ip] <= newest'[ip]
        /\ \A ip \in missed : n <= newest'[ip]
        /\ \A ip \in IP \ missed : newest'[ip] = newest[ip]
    BY <1>2, <1>3, <1>9, NewestGrows
  <2>2. Newer
    BY <1>1, <1>2, <2>1 DEF Newer
  <2>3. EntriesOK'
    <3> SUFFICES ASSUME NEW ip \in IP \ GivenUp'
                 PROVE  ip \in white' <=> ip \in WhiteAt(newest[ip])'
      BY DEF EntriesOK
    <3>1. ip \in IP \ GivenUp /\ newest'[ip] = newest[ip]
      BY <1>1, <1>9, <2>1 DEF GivenUp
    <3> QED  BY <1>1, <3>1 DEF EntriesOK, WhitelistOK, WhiteAt
  <2>4. /\ loop'[l].todo = loop[l].todo /\ loop'[l].at = "white" /\ loop'[l].res = loop[l].res
    BY <1>1, <1>9 DEF SyncInv, State
  <2>5. ASSUME NEW ip \in IP PROVE DealtFor(n, ip)'
    <3>1. CASE ip \in missed
      <4>1. n <= newest'[ip] /\ newest'[ip] \in Nat
        BY <1>2, <2>1, <3>1
      <4>2. \A e \in 1 .. n : e <= newest'[ip]
        BY <1>2, <4>1
      <4> QED  BY <1>1, <2>4, <4>2 DEF DealtFor, n
    <3>2. CASE ip \notin missed
      <4>1. DealtFor(n, ip) /\ newest'[ip] = newest[ip]
        BY <1>4, <2>1, <3>2
      <4> QED  BY <1>1, <2>4, <4>1 DEF DealtFor, n
    <3> QED  BY <3>1, <3>2
  <2>6. Underway(loop[l])'
    BY <1>2, <2>4, <2>5 DEF Underway, n
  <2> QED  BY <1>5, <2>2, <2>3, <2>4, <2>6
<1> QED  BY <1>7, <1>8, <1>9 DEF Tenant, missed, m, n

\* One ipset command: the address becomes what the answer says, or is given up.
LEMMA ApplyWhitelist ==
  ASSUME SyncInv, WhitelistOK, NEW l \in Loop, NEW ip \in IP, ApplyWhite(l, ip)
  PROVE  WhitelistOK'
<1> DEFINE todo == loop[l].todo
           ver == loop[l].ver
           n == loop[l].res.tenant
<1>1. /\ UNCHANGED <<edits, tenantSeq>> /\ loop[l].at = "white" /\ loop[l] \in State
      /\ Underway(loop[l]) /\ ip \in todo.add \cup todo.del
      /\ NewestIs({ip}, ver)
      /\ loop' = [loop EXCEPT ![l].todo = [add |-> todo.add \ {ip}, del |-> todo.del \ {ip}]]
      /\ \A k \in Loop \ {l} : loop'[k] = loop[k]
      /\ \/ /\ white' = IF ip \in todo.add THEN white \cup {ip} ELSE white \ {ip}
            /\ IF Outdated(ver, ip)
               THEN overtaken' = overtaken \cup {ip} /\ UNCHANGED lostEdits
               ELSE overtaken' = overtaken \ {ip} /\ lostEdits' = lostEdits \ {ip}
         \/ white' = white /\ overtaken' = overtaken /\ lostEdits' = lostEdits \cup {ip}
  BY DEF ApplyWhite, cloud, versions, SyncInv, WhitelistOK, TenantOK
<1>2. /\ Len(edits) \in Nat /\ newest \in [IP -> 0 .. Len(edits)]
      /\ ver \in 0 .. Len(edits) /\ n \in 0 .. Len(edits) /\ todo.add \cap todo.del = {}
  BY Ranges
<1>3. /\ loop'[l].at = "white" /\ loop'[l].res = loop[l].res /\ loop'[l].ver = ver
      /\ loop'[l].todo.add = todo.add \ {ip} /\ loop'[l].todo.del = todo.del \ {ip}
  BY <1>1 DEF SyncInv, State
<1>4. /\ ip \in todo.add => ip \in WhiteAt(ver)
      /\ ip \in todo.del => ip \notin WhiteAt(ver)
      /\ n <= ver
      /\ \A x \in IP \ (todo.add \cup todo.del) : DealtFor(n, x)
  BY <1>1 DEF Underway
<1> HIDE DEF ver, n
<1>5. /\ newest' \in [IP -> 0 .. Len(edits)] /\ \A x \in IP : newest[x] <= newest'[x]
      /\ ver <= newest'[ip] /\ newest'[ip] \in {ver, newest[ip]}
      /\ \A x \in IP \ {ip} : newest'[x] = newest[x]
  BY <1>1, <1>2 DEF NewestIs
<1>6. Newer
  BY <1>1, <1>2, <1>5 DEF Newer
<1>7. EntriesOK'
  <2> SUFFICES ASSUME NEW x \in IP \ GivenUp'
               PROVE  x \in white' <=> x \in WhiteAt(newest'[x])
    BY <1>1 DEF EntriesOK, WhiteAt
  <2>1. CASE x # ip
    <3>1. x \notin GivenUp /\ (x \in white' <=> x \in white)
      BY <1>1, <2>1 DEF GivenUp
    <3>2. newest'[x] = newest[x]
      BY <1>5, <2>1
    <3> QED  BY <3>1, <3>2 DEF EntriesOK, WhitelistOK
  <2>2. CASE x = ip
    <3>1. /\ white' = IF ip \in todo.add THEN white \cup {ip} ELSE white \ {ip}
          /\ ~Outdated(ver, ip)
      BY <1>1, <2>2 DEF GivenUp
    <3>2. ip \in white' <=> ip \in WhiteAt(ver)
      BY <1>1, <1>2, <1>4, <3>1
    <3>3. CASE newest'[ip] = ver
      BY <2>2, <3>2, <3>3
    <3>4. CASE newest'[ip] = newest[ip] /\ newest'[ip] # ver
      <4>1. ver < newest[ip]
        BY <1>2, <1>5, <3>4
      <4>2. ip \in WhiteAt(ver) <=> ip \in WhiteAt(newest[ip])
        BY <3>1, <4>1 DEF Outdated
      <4> QED  BY <2>2, <3>2, <3>4, <4>2
    <3> QED  BY <1>5, <3>3, <3>4
  <2> QED  BY <2>1, <2>2
<1>8. \A x \in IP : DealtFor(n, x) => DealtFor(n, x)'
  BY <1>2, <1>3, <1>6, Earlier DEF n
<1>9. DealtFor(n, ip)'
  <2>1. newest'[ip] \in Nat /\ n \in Nat /\ ver \in Nat
    BY <1>2, <1>5
  <2>2. \A e \in 1 .. n : e <= newest'[ip]
    BY <1>4, <1>5, <2>1
  <2> QED  BY <1>3, <2>2 DEF DealtFor, n
<1>10. Underway(loop[l])'
  <2>1. /\ \A x \in todo.add : x \in WhiteAt(ver)
        /\ \A x \in todo.del : x \notin WhiteAt(ver)
    BY <1>1 DEF Underway, ver
  <2>2. WhiteAt(ver)' = WhiteAt(ver)
    BY <1>1, <1>3 DEF WhiteAt, ver
  <2>3. \A x \in IP \ (loop'[l].todo.add \cup loop'[l].todo.del) : DealtFor(n, x)'
    BY <1>3, <1>4, <1>8, <1>9
  <2>4. loop'[l].res.tenant = n /\ loop'[l].ver = ver
    BY <1>3 DEF n
  <2>5. /\ \A x \in loop'[l].todo.add : x \in WhiteAt(ver)'
        /\ \A x \in loop'[l].todo.del : x \notin WhiteAt(ver)'
    BY <1>3, <2>1, <2>2
  <2> QED  BY <1>3, <1>4, <2>3, <2>4, <2>5 DEF Underway, n, ver
<1>11. TenantOK(loop[l])'
  BY <1>3, <1>10 DEF TenantOK
<1> QED  BY <1>1, <1>6, <1>7, <1>11, WhitelistMoves

\* The agent claims the answer's version when nothing is left to apply.
LEMMA WriteWhitelist ==
  ASSUME SyncInv, WhitelistOK, NEW l \in Loop, WriteVersions(l)
  PROVE  WhitelistOK'
<1>1. /\ UNCHANGED <<edits, white, lostEdits, newest, overtaken>> /\ loop[l].at = "white"
      /\ loop[l].todo.add = {} /\ loop[l].todo.del = {} /\ Underway(loop[l])
      /\ tenantSeq' = loop[l].res.tenant /\ loop'[l] = Waiting
      /\ \A k \in Loop \ {l} : loop'[k] = loop[k]
  BY DEF WriteVersions, cloud, lost, SyncInv, WhitelistOK, TenantOK
<1>2. Newer
  BY <1>1, Ranges DEF Newer
<1>3. EntriesOK'
  BY <1>1, <1>2, EntriesStay DEF WhitelistOK
<1>4. Dealt(tenantSeq)'
  BY <1>1 DEF Underway, Dealt, DealtFor
<1>5. TenantOK(loop[l])'
  BY <1>1 DEF TenantOK, Waiting
<1>6. \A k \in Loop : TenantOK(loop[k])'
  BY <1>1, <1>2, <1>5, LoopWaits DEF WhitelistOK
<1> QED  BY <1>3, <1>4, <1>6 DEF WhitelistOK

\* Every step keeps the whitelist on its way.
LEMMA WhitelistStep ==
  SyncInv /\ WhitelistOK /\ [SyncNext]_syncVars => WhitelistOK'
<1> SUFFICES ASSUME SyncInv, WhitelistOK, [SyncNext]_syncVars PROVE WhitelistOK'
  OBVIOUS
<1>1. CASE UNCHANGED syncVars
  <2>1. UNCHANGED <<edits, tenantSeq, white, lostEdits, newest, overtaken, loop>>
    BY <1>1 DEF syncVars, cloud, versions, lost
  <2>2. Newer
    BY <2>1, Ranges DEF Newer
  <2>3. EntriesOK'
    BY <2>1, <2>2, EntriesStay DEF WhitelistOK
  <2> QED  BY <2>1, <2>2, <2>3, WhitelistWaits
<1>2. ASSUME NEW l \in Loop, DoDiff(l) PROVE WhitelistOK'
  BY <1>2, QuietWhitelist, TenantWhitelist, ApplyWhitelist, WriteWhitelist DEF DoDiff
<1> QED  BY <1>1, <1>2, CloudWhitelist DEF SyncNext

\* However many loops fetch, apply and write over each other, the kernel's entry of an
\* address is that of the tenant version the agent claims or of a later one, but for the
\* addresses whose change was not fetched or failed, or that an older answer set after a
\* newer one.
THEOREM WhitelistFollows == SyncSpec => []WhitelistInSync
<1>1. SyncInit => WhitelistOK
  <2> SUFFICES ASSUME SyncInit PROVE WhitelistOK
    OBVIOUS
  <2>1. /\ white = {} /\ tenantSeq = 0 /\ \A l \in Loop : loop[l] = Waiting
        /\ \A ip \in IP : newest[ip] = 0
    BY DEF SyncInit
  <2>2. WhiteAt(0) = {}
    <3>1. \A ip \in IP : {i \in 1 .. 0 : edits[i] = ip} = {}
      OBVIOUS
    <3> QED  BY <3>1, FS_EmptySet DEF WhiteAt
  <2>3. EntriesOK
    BY <2>1, <2>2 DEF EntriesOK
  <2>4. Dealt(tenantSeq)
    BY <2>1 DEF Dealt, DealtFor
  <2> QED  BY <2>1, <2>3, <2>4 DEF WhitelistOK, TenantOK, Waiting
<1>2. SyncInv /\ WhitelistOK => WhitelistInSync
  <2> SUFFICES ASSUME SyncInv, WhitelistOK, NEW ip \in IP \ GivenUp
               PROVE  \E n \in tenantSeq .. Len(edits) :
                         ip \in white <=> ip \in WhiteAt(n)
    BY DEF WhitelistInSync
  <2>1. /\ Len(edits) \in Nat /\ tenantSeq \in 0 .. Len(edits)
        /\ newest[ip] \in 0 .. Len(edits)
    BY Ranges
  <2>2. /\ ip \in white <=> ip \in WhiteAt(newest[ip])
        /\ DealtFor(tenantSeq, ip)
    BY DEF WhitelistOK, EntriesOK, Dealt
  <2>3. CASE tenantSeq <= newest[ip]
    <3>1. newest[ip] \in tenantSeq .. Len(edits)
      BY <2>1, <2>3
    <3> QED  BY <2>2, <3>1
  <2>4. CASE newest[ip] < tenantSeq
    <3>1. \A e \in newest[ip] + 1 .. tenantSeq : edits[e] # ip
      BY <2>1, <2>2 DEF DealtFor
    <3>2. ip \in WhiteAt(newest[ip]) <=> ip \in WhiteAt(tenantSeq)
      BY <2>1, <2>4, <3>1, NotEdited
    <3>3. tenantSeq \in tenantSeq .. Len(edits)
      BY <2>1
    <3> QED  BY <2>2, <3>2, <3>3
  <2> QED  BY <2>1, <2>3, <2>4
<1> QED  BY <1>1, <1>2, InitSync, SyncStep, WhitelistStep, PTL DEF SyncSpec

-----------------------------------------------------------------------------
(* Decisions about an address. *)

\* A product of naturals grows with each factor.
LEMMA ProductGrows ==
  ASSUME NEW a \in Nat, NEW b \in Nat, NEW c \in Nat, NEW d \in Nat, a <= b, c <= d
  PROVE  a * c \in Nat /\ b * d \in Nat /\ a * c <= b * d
<1>1. PICK x \in Nat : b = a + x
  <2>1. b - a \in Nat /\ b = a + (b - a)
    OBVIOUS
  <2> QED  BY <2>1
<1>2. PICK y \in Nat : d = c + y
  <2>1. d - c \in Nat /\ d = c + (d - c)
    OBVIOUS
  <2> QED  BY <2>1
<1>3. b * d = a * c + a * y + x * c + x * y
  BY <1>1, <1>2
<1>4. a * c \in Nat /\ a * y \in Nat /\ x * c \in Nat /\ x * y \in Nat
  OBVIOUS
<1> QED  BY <1>3, <1>4

\* The cloud's part of the final score.
CloudPart(ts, w) == ts.score * Confidence(ts) * w.cloud

LocalPart(local, w) == AtMost(local.freq, 100) * w.local + AtMost(local.detector, 100) * w.detector

LEMMA Parts ==
  ASSUME NEW ts \in CloudScores, NEW local \in OwnScores, NEW w \in DecisionWeights
  PROVE  /\ Confidence(ts) \in {100, 90, 75, 60, 40, 70}
         /\ CloudPart(ts, w) \in Nat /\ LocalPart(local, w) \in Nat
         /\ Final(ts, local, w) = AtMost(CloudPart(ts, w) + 100 * LocalPart(local, w), 100000)
<1>1. ts.votes \in Nat /\ ts.score \in Nat /\ local.freq \in Nat /\ local.detector \in Nat
      /\ w.cloud \in Nat /\ w.local \in Nat /\ w.detector \in Nat
  BY DEF CloudScores, OwnScores, DecisionWeights
<1>2. Confidence(ts) \in {100, 90, 75, 60, 40, 70}
  BY <1>1 DEF Confidence, Multiplier, MinVotes
<1>3. CloudPart(ts, w) \in Nat
  <2>1. ts.score * Confidence(ts) \in Nat
    BY <1>1, <1>2
  <2> QED  BY <1>1, <2>1 DEF CloudPart
<1>4. LocalPart(local, w) \in Nat
  <2>1. AtMost(local.freq, 100) \in Nat /\ AtMost(local.detector, 100) \in Nat
    BY <1>1 DEF AtMost
  <2>2. /\ AtMost(local.freq, 100) * w.local \in Nat
        /\ AtMost(local.detector, 100) * w.detector \in Nat
    BY <1>1, <2>1
  <2> QED  BY <2>2 DEF LocalPart
<1> QED  BY <1>2, <1>3, <1>4 DEF Final, CloudPart, LocalPart

LEMMA MilderIsNoBlock ==
  ASSUME NEW ts, NEW local, NEW w,
         Final(ts, local, w) \in Nat, Final(ts, local, w) < 80000, ~IsConsensus(ts)
  PROVE  Decide(ts, local, w) # "block"
<1> DEFINE x == Final(ts, local, w)
<1>1. Decide(ts, local, w) = IF x >= 80000 THEN "block"
                             ELSE IF x >= 50000 THEN "alert" ELSE "ignore"
  BY DEF Decide, BlockThreshold, AlertThreshold
<1>2. x \in Nat /\ x < 80000
  OBVIOUS
<1> HIDE DEF x
<1> QED  BY <1>1, <1>2

\* One tenant's word has nobody blocked, whatever weights the cloud set (decision.go:151).
THEOREM LoneTenantsBlockNobody ==
  \A ts \in CloudScores, local \in OwnScores, w \in DecisionWeights :
    LoneTenantBlocksNobody(ts, local, w)
<1> SUFFICES ASSUME NEW ts \in CloudScores, NEW local \in OwnScores, NEW w \in DecisionWeights,
                    Accepted(w), ts.source = "global", ts.votes = 1,
                    local.freq <= 50, local.detector <= 50
             PROVE  Decide(ts, local, w) # "block"
  BY DEF LoneTenantBlocksNobody, Neutral
<1>1. ts.score \in 0 .. 100 /\ local.freq \in Nat /\ local.detector \in Nat
      /\ w.cloud \in Nat /\ w.local \in Nat /\ w.detector \in Nat
  BY DEF CloudScores, OwnScores, DecisionWeights
<1>2. Confidence(ts) = 40
  BY DEF Confidence, Multiplier, MinVotes
<1>3. CloudPart(ts, w) <= 4000 * w.cloud
  <2>1. ts.score * 40 \in Nat /\ ts.score * 40 <= 4000
    BY <1>1
  <2>2. (ts.score * 40) * w.cloud <= 4000 * w.cloud
    BY <1>1, <2>1, ProductGrows
  <2> QED  BY <1>2, <2>2 DEF CloudPart
<1>4. LocalPart(local, w) <= 50 * w.local + 50 * w.detector
  <2>1. AtMost(local.freq, 100) \in Nat /\ AtMost(local.freq, 100) <= 50
        /\ AtMost(local.detector, 100) \in Nat /\ AtMost(local.detector, 100) <= 50
    BY <1>1 DEF AtMost
  <2> DEFINE x == AtMost(local.freq, 100)
             y == AtMost(local.detector, 100)
  <2> HIDE DEF x, y
  <2>2. x * w.local \in Nat /\ x * w.local <= 50 * w.local
    BY <1>1, <2>1, ProductGrows DEF x
  <2>3. y * w.detector \in Nat /\ y * w.detector <= 50 * w.detector
    BY <1>1, <2>1, ProductGrows DEF y
  <2>4. LocalPart(local, w) = x * w.local + y * w.detector
    BY DEF LocalPart, x, y
  <2> QED  BY <1>1, <2>2, <2>3, <2>4
<1>5. Final(ts, local, w) \in Nat /\ Final(ts, local, w) < 80000
  <2>1. w.cloud + w.local + w.detector <= 15 /\ w.cloud >= 1 /\ w.local >= 1 /\ w.detector >= 1
    BY <1>1 DEF Accepted
  <2> DEFINE c == CloudPart(ts, w)
             l == LocalPart(local, w)
  <2>2. c \in Nat /\ l \in Nat /\ Final(ts, local, w) = AtMost(c + 100 * l, 100000)
    BY Parts
  <2> HIDE DEF c, l
  <2>3. c <= 4000 * w.cloud /\ l <= 50 * w.local + 50 * w.detector
    BY <1>3, <1>4 DEF c, l
  <2>4. c + 100 * l < 80000
    BY ONLY <1>1, <2>1, <2>2, <2>3
  <2> QED  BY <2>2, <2>4 DEF AtMost
<1>6. ~IsConsensus(ts)
  BY DEF IsConsensus, MinVotes
<1> QED  BY <1>5, <1>6, MilderIsNoBlock

\* The detector's own scores cannot make up for the votes.  The default of score_high is
\* 50, but a configuration may set any.
ScoreHighIsModest == LocalHigh \in 0 .. 66

\* With the default weights a block takes ten tenants, whatever the agent itself saw.
THEOREM BlocksTakeTenTenants ==
  ScoreHighIsModest => \A ts \in CloudScores, local \in OwnScores : TenTenantsToBlock(ts, local)
<1> SUFFICES ASSUME ScoreHighIsModest, NEW ts \in CloudScores, NEW local \in OwnScores,
                    local \in LocalScores, ts.source # "global" \/ ts.votes < 10
             PROVE  Decide(ts, local, DefaultWeights) # "block"
  BY DEF TenTenantsToBlock
<1> DEFINE w == DefaultWeights
<1>1. ts.score \in 0 .. 100 /\ ts.votes \in Nat /\ local.freq \in 0 .. 66 /\ local.detector \in Nat
  BY DEF CloudScores, LocalScores, ScoreHighIsModest
<1>2. w \in DecisionWeights /\ w.cloud = 4 /\ w.local = 3 /\ w.detector = 3
  BY DEF DecisionWeights, DefaultWeights
<1>3. Confidence(ts) \in {75, 60, 40, 70}
  BY <1>1 DEF Confidence, Multiplier, MinVotes
<1> HIDE DEF w
<1>4. CloudPart(ts, w) <= 30000
  BY <1>1, <1>2, <1>3 DEF CloudPart
<1>5. LocalPart(local, w) <= 498
  BY <1>1, <1>2 DEF LocalPart, AtMost
<1>6. Final(ts, local, w) \in Nat /\ Final(ts, local, w) < 80000
  <2> DEFINE c == CloudPart(ts, w)
             l == LocalPart(local, w)
  <2>2. c \in Nat /\ l \in Nat /\ Final(ts, local, w) = AtMost(c + 100 * l, 100000)
    BY <1>2, Parts
  <2> QED  BY <1>4, <1>5, <2>2 DEF AtMost
<1>7. ~IsConsensus(ts)
  BY <1>1 DEF IsConsensus, MinVotes
<1> QED  BY <1>6, <1>7, MilderIsNoBlock DEF w

\* A decision with a higher score and no less consensus is no less severe.
LEMMA HigherIsWorse ==
  ASSUME NEW ts, NEW local, NEW us, NEW other, NEW w,
         Final(ts, local, w) \in Nat, Final(us, other, w) \in Nat,
         Final(ts, local, w) <= Final(us, other, w), IsConsensus(ts) => IsConsensus(us)
  PROVE  Severity(Decide(ts, local, w)) <= Severity(Decide(us, other, w))
<1> DEFINE x == Final(ts, local, w)
           y == Final(us, other, w)
<1>1. x \in Nat /\ y \in Nat /\ x <= y
  OBVIOUS
<1>2. Decide(ts, local, w) = IF IsConsensus(ts) \/ x >= 80000 THEN "block"
                             ELSE IF x >= 50000 THEN "alert" ELSE "ignore"
  BY DEF Decide, BlockThreshold, AlertThreshold
<1>3. Decide(us, other, w) = IF IsConsensus(us) \/ y >= 80000 THEN "block"
                             ELSE IF y >= 50000 THEN "alert" ELSE "ignore"
  BY DEF Decide, BlockThreshold, AlertThreshold
<1> HIDE DEF x, y
<1> QED  BY <1>1, <1>2, <1>3 DEF Severity

\* More evidence is never judged less severely, whatever the weights.
THEOREM MoreIsNeverMilder ==
  \A ts \in CloudScores, local \in OwnScores, w \in DecisionWeights, more \in Nat :
    MoreIsWorse(ts, local, w, more)
<1> SUFFICES ASSUME NEW ts \in CloudScores, NEW local \in OwnScores, NEW w \in DecisionWeights,
                    NEW more \in Nat,
                    ts.source # "global" \/ ts.votes >= 3
             PROVE  LET us == [ts EXCEPT !.score = AtMost(@ + more, 100), !.votes = @ + more]
                        other == [freq |-> local.freq + more, detector |-> local.detector + more]
                    IN  /\ Severity(Decide(ts, local, w)) <= Severity(Decide(us, local, w))
                        /\ Severity(Decide(ts, local, w)) <= Severity(Decide(ts, other, w))
  BY DEF MoreIsWorse
<1> DEFINE us == [ts EXCEPT !.score = AtMost(@ + more, 100), !.votes = @ + more]
           other == [freq |-> local.freq + more, detector |-> local.detector + more]
<1>1. /\ ts.score \in 0 .. 100 /\ ts.votes \in Nat /\ local.freq \in Nat /\ local.detector \in Nat
      /\ w.cloud \in Nat /\ w.local \in Nat /\ w.detector \in Nat
  BY DEF CloudScores, OwnScores, DecisionWeights
<1>2. /\ us.source = ts.source /\ us.score = AtMost(ts.score + more, 100)
      /\ us.votes = ts.votes + more
  BY DEF CloudScores
<1>3. us \in CloudScores /\ other \in OwnScores
  <2>1. AtMost(ts.score + more, 100) \in 0 .. 100 /\ ts.votes + more \in Nat
    BY <1>1 DEF AtMost
  <2>2. ts = [source |-> ts.source, score |-> ts.score, votes |-> ts.votes]
        /\ ts.source \in {"global", "private"}
    BY DEF CloudScores
  <2>3. us = [source |-> ts.source, score |-> AtMost(ts.score + more, 100),
              votes |-> ts.votes + more]
    <3> DEFINE s == AtMost(ts.score + more, 100)
               v == ts.votes + more
    <3>1. us = [ts EXCEPT !.score = s, !.votes = v]
      OBVIOUS
    <3> HIDE DEF s, v, us
    <3>2. us = [source |-> ts.source, score |-> s, votes |-> v]
      BY ONLY <2>2, <3>1
    <3> QED  BY <3>2 DEF s, v
  <2>4. us \in CloudScores
    BY ONLY <2>1, <2>2, <2>3 DEF CloudScores
  <2>5. other \in OwnScores
    BY <1>1 DEF OwnScores
  <2> QED  BY <2>4, <2>5
<1>4. other.freq = local.freq + more /\ other.detector = local.detector + more
  OBVIOUS
<1> HIDE DEF us, other
<1>5. ts.score <= us.score /\ us.score \in 0 .. 100
  BY <1>1, <1>2 DEF AtMost
<1>6. Confidence(ts) <= Confidence(us)
  <2>1. ts.votes + more \in Nat /\ ts.votes + more >= ts.votes
    BY <1>1
  <2> DEFINE v == ts.votes
             u == ts.votes + more
  <2>2. CASE ts.source # "global"
    BY <1>2, <2>2 DEF Confidence
  <2>3. CASE ts.source = "global" /\ v >= 3
    <3>1. Confidence(ts) = Multiplier(v) /\ Confidence(us) = Multiplier(u)
      BY <1>1, <1>2, <2>1, <2>3 DEF Confidence
    <3>2. v \in Nat /\ u \in Nat /\ 3 <= v /\ v <= u
      BY <1>1, <2>1, <2>3
    <3> HIDE DEF u, v
    <3>3. Multiplier(v) <= Multiplier(u)
      BY <3>2 DEF Multiplier, MinVotes
    <3> QED  BY <3>1, <3>3
  <2> QED  BY <2>2, <2>3
<1>7. IsConsensus(ts) => IsConsensus(us)
  BY <1>1, <1>2, <1>5 DEF IsConsensus, MinVotes, MinScore
<1>8. CloudPart(ts, w) <= CloudPart(us, w)
  <2>1. Confidence(ts) \in Nat /\ Confidence(us) \in Nat
    BY <1>3, Parts
  <2> DEFINE x == ts.score * Confidence(ts)
             y == us.score * Confidence(us)
  <2>2. x \in Nat /\ y \in Nat /\ x <= y
    <3>1. ts.score \in Nat /\ us.score \in Nat
      BY <1>1, <1>5
    <3> QED  BY <1>5, <1>6, <2>1, <3>1, ProductGrows
  <2> HIDE DEF x, y
  <2>3. x * w.cloud <= y * w.cloud
    BY <1>1, <2>2, ProductGrows
  <2> QED  BY <2>3 DEF CloudPart, x, y
<1>9. LocalPart(local, w) <= LocalPart(other, w)
  <2> DEFINE x == AtMost(local.freq, 100)
             y == AtMost(other.freq, 100)
             u == AtMost(local.detector, 100)
             v == AtMost(other.detector, 100)
  <2>1. x \in Nat /\ y \in Nat /\ x <= y /\ u \in Nat /\ v \in Nat /\ u <= v
    BY <1>1, <1>4 DEF AtMost
  <2> HIDE DEF x, y, u, v
  <2>2. x * w.local \in Nat /\ y * w.local \in Nat /\ x * w.local <= y * w.local
    BY <1>1, <2>1, ProductGrows
  <2>3. u * w.detector \in Nat /\ v * w.detector \in Nat /\ u * w.detector <= v * w.detector
    BY <1>1, <2>1, ProductGrows
  <2>4. /\ LocalPart(local, w) = x * w.local + u * w.detector
        /\ LocalPart(other, w) = y * w.local + v * w.detector
    BY DEF LocalPart, x, y, u, v
  <2> QED  BY ONLY <2>2, <2>3, <2>4
<1>10. ASSUME NEW c \in Nat, NEW d \in Nat, c <= d
       PROVE  AtMost(c, 100000) \in Nat /\ AtMost(d, 100000) \in Nat
              /\ AtMost(c, 100000) <= AtMost(d, 100000)
  BY <1>10 DEF AtMost
<1>11. Final(ts, local, w) \in Nat /\ Final(us, local, w) \in Nat
       /\ Final(ts, local, w) <= Final(us, local, w)
  <2> DEFINE l == LocalPart(local, w)
             c == CloudPart(ts, w) + 100 * l
             d == CloudPart(us, w) + 100 * l
  <2>1. c \in Nat /\ d \in Nat /\ c <= d
    <3>1. l \in Nat /\ CloudPart(ts, w) \in Nat /\ CloudPart(us, w) \in Nat
      BY <1>3, Parts
    <3> HIDE DEF l
    <3> QED  BY <1>8, <3>1
  <2>2. Final(ts, local, w) = AtMost(c, 100000) /\ Final(us, local, w) = AtMost(d, 100000)
    BY <1>3, Parts
  <2> HIDE DEF c, d
  <2> QED  BY <1>10, <2>1, <2>2
<1>12. Final(ts, other, w) \in Nat /\ Final(ts, local, w) <= Final(ts, other, w)
  <2> DEFINE c == CloudPart(ts, w) + 100 * LocalPart(local, w)
             d == CloudPart(ts, w) + 100 * LocalPart(other, w)
  <2>1. c \in Nat /\ d \in Nat /\ c <= d
    <3>1. /\ CloudPart(ts, w) \in Nat /\ LocalPart(local, w) \in Nat
          /\ LocalPart(other, w) \in Nat
      BY <1>3, Parts
    <3> QED  BY <1>9, <3>1
  <2>2. Final(ts, local, w) = AtMost(c, 100000) /\ Final(ts, other, w) = AtMost(d, 100000)
    BY <1>3, Parts
  <2> HIDE DEF c, d
  <2> QED  BY <1>10, <2>1, <2>2
<1>13. /\ Severity(Decide(ts, local, w)) <= Severity(Decide(us, local, w))
       /\ Severity(Decide(ts, local, w)) <= Severity(Decide(ts, other, w))
  BY <1>7, <1>11, <1>12, HigherIsWorse
<1> QED  BY <1>13 DEF us, other

\* Every call is one of those that the code makes.
LEMMA EveryCall == CallSpec => [](call \in Inputs)
<1>1. CallInit => call \in Inputs
  BY DEF CallInit
<1>2. call \in Inputs /\ [CallNext]_call => (call \in Inputs)'
  BY DEF CallNext
<1> QED  BY <1>1, <1>2, PTL DEF CallSpec

LEMMA CalledVerdict == ScoreHighIsModest /\ call \in Inputs => VerdictsAreFair
<1> SUFFICES ASSUME ScoreHighIsModest, call \in Inputs PROVE VerdictsAreFair
  OBVIOUS
<1>1. IsCall(call)
  BY CallsAssumption
<1>2. call.f = "Decide" => /\ call.ts \in CloudScores /\ call.local \in OwnScores
                           /\ call.w \in DecisionWeights /\ call.more \in Nat
  BY <1>1 DEF IsCall
<1>3. LoneTenant
  BY <1>2, LoneTenantsBlockNobody DEF LoneTenant
<1>4. TenTenants
  BY <1>2, BlocksTakeTenTenants DEF TenTenants
<1>5. MoreIsSevere
  BY <1>2, MoreIsNeverMilder DEF MoreIsSevere
<1> QED  BY <1>3, <1>4, <1>5 DEF VerdictsAreFair

\* Decide, however it is called: the word of few tenants blocks nobody, and more evidence
\* is never judged less severely.
THEOREM EveryVerdictFair == ScoreHighIsModest /\ CallSpec => []VerdictsAreFair
<1> SUFFICES ASSUME ScoreHighIsModest PROVE CallSpec => []VerdictsAreFair
  OBVIOUS
<1>1. call \in Inputs => VerdictsAreFair
  BY CalledVerdict
<1> QED  BY <1>1, EveryCall, PTL
=============================================================================
