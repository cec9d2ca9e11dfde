--------------------------- MODULE PlatformProofs ---------------------------
(***************************************************************************)
(* Proofs about what the agent keeps in the system.  PidLock: the lock of  *)
(* an inode belongs to a living process, and agents run one at a time as   *)
(* long as the file stays.  Firewall, for any number of starts: the rules  *)
(* stand in their order while the agent runs, and go with it.              *)
(***************************************************************************)
EXTENDS PidLock, Firewall, FiniteSetTheorems, SequenceTheorems, WellFoundedInduction, TLAPS

LockInv == LockTypeOK /\ LockIsHeld

\* Nothing is locked at first.
LEMMA InitLock == LockInit => LockInv
<1> SUFFICES ASSUME LockInit PROVE LockInv
  OBVIOUS
<1> USE LockAssumption DEF LockAssumption, LockInit, Path, NoFile, Inode
<1>0. replaced \in BOOLEAN
  BY Zenon
<1>1. runDir \in BOOLEAN /\ inodes \in 0 .. MaxInode /\ file \in [Path -> NoFile .. inodes]
  OBVIOUS
<1>2. pid \in [Inode -> Process \cup {NoOne}] /\ flock \in [Inode -> Process \cup {NoOne}]
  OBVIOUS
<1>3. proc \in [Process -> [at : {"down", "resolved", "opened", "locked", "running",
                                  "unlocked"},
                            path : Path, inode : NoFile .. inodes]]
  BY DEF Down
<1>4. \A p \in Process : proc[p].at = "down"
  BY DEF Down
<1>5. \A i \in Inode, p \in Process : flock[i] # p
  OBVIOUS
<1> QED  BY <1>0, <1>1, <1>2, <1>3, <1>4, <1>5 DEF LockInv, LockTypeOK, LockIsHeld

States == [at : {"down", "resolved", "opened", "locked", "running", "unlocked"},
           path : Path, inode : NoFile .. inodes]

\* A step of p to s that leaves the files alone and the locks of the others.
StepTo(p, s) ==
  /\ proc' = [proc EXCEPT ![p] = s]
  /\ UNCHANGED <<runDir, file, inodes, replaced>>
  /\ pid' \in [Inode -> Process \cup {NoOne}] /\ flock' \in [Inode -> Process \cup {NoOne}]
  /\ s.at \in {"opened", "locked", "running"} => s.inode # NoFile
  /\ \A i \in Inode : flock'[i] = p <=> s.inode = i /\ s.at \in {"locked", "running"}
  /\ \A i \in Inode, q \in Process \ {p} : flock'[i] = q <=> flock[i] = q

\* Such a step keeps the invariant.
LEMMA ProcessStep ==
  ASSUME LockInv, NEW p \in Process, NEW s \in States, StepTo(p, s)
  PROVE  LockInv'
<1> USE DEF StepTo
<1>1. proc' \in [Process -> States]
  BY DEF LockInv, LockTypeOK, States
<1>2. proc'[p] = s /\ \A q \in Process \ {p} : proc'[q] = proc[q]
  BY DEF LockInv, LockTypeOK
<1>3. LockTypeOK'
  BY <1>1, <1>2 DEF LockInv, LockTypeOK, States, Inode
<1>4. LockIsHeld'
  BY <1>2 DEF LockInv, LockIsHeld, Inode
<1> QED  BY <1>3, <1>4 DEF LockInv

\* Acquire opens an inode before it locks it.
LEMMA AcquireLock ==
  ASSUME LockInv, NEW p \in Process, Acquire(p)
  PROVE  LockInv'
<1> USE LockAssumption DEF LockAssumption, LockInv, LockTypeOK, Path, NoFile
<1>0. proc[p] \in States /\ proc \in [Process -> States]
  BY DEF States
<1>1. CASE ResolvePidFile(p)
  <2> DEFINE s == [proc[p] EXCEPT !.at = "resolved", !.path = IF runDir THEN "run" ELSE "tmp"]
  <2>1. s \in States /\ s.at = "resolved" /\ proc[p].at = "down"
    BY <1>0, <1>1 DEF States, ResolvePidFile
  <2>2. proc' = [proc EXCEPT ![p] = s] /\ UNCHANGED <<runDir, file, inodes, pid, flock, replaced>>
    BY <1>1 DEF ResolvePidFile
  <2>3. StepTo(p, s)
    BY <2>1, <2>2 DEF StepTo, LockIsHeld
  <2> HIDE DEF s, LockInv
  <2> QED  BY <2>1, <2>3, ProcessStep
<1>2. CASE Open(p)
  <2> DEFINE path == proc[p].path
  <2> DEFINE s == [proc[p] EXCEPT !.at = "opened", !.inode = file'[path]]
  <2>1. file' \in [Path -> NoFile .. inodes'] /\ inodes' \in 0 .. MaxInode
    BY <1>2 DEF Open
  <2>2. file'[path] \in NoFile .. inodes' /\ file'[path] # NoFile /\ inodes <= inodes'
    BY <1>2 DEF Open
  <2>3. proc' = [proc EXCEPT ![p] = s] /\ proc[p].at = "resolved"
    BY <1>2 DEF Open
  <2>4. UNCHANGED <<runDir, pid, flock, replaced>>
    BY <1>2 DEF Open
  <2>5. /\ s \in [at : {"opened"}, path : Path, inode : NoFile .. inodes']
       /\ s.at = "opened" /\ s.inode # NoFile
    BY <1>0, <2>2 DEF States
  <2> HIDE DEF s, path
  <2>6. proc'[p] = s /\ \A q \in Process \ {p} : proc'[q] = proc[q]
    BY <2>3
  <2>7. States \subseteq States' /\ s \in States'
    BY <2>1, <2>2, <2>5 DEF States
  <2>8. proc' \in [Process -> States']
    BY <1>0, <2>3, <2>7
  <2>9. LockTypeOK'
    BY <2>1, <2>4, <2>5, <2>6, <2>8 DEF States
  <2>10. LockIsHeld'
    BY <2>3, <2>4, <2>5, <2>6 DEF LockIsHeld
  <2> QED  BY <2>9, <2>10
<1>3. CASE Flock(p) /\ flock[proc[p].inode] = NoOne
  <2> DEFINE s == [proc[p] EXCEPT !.at = "locked"]
  <2>1. s \in States /\ s.at = "locked" /\ s.inode = proc[p].inode /\ proc[p].at = "opened"
    BY <1>0, <1>3 DEF States, Flock
  <2>2. s.inode \in Inode
    BY <2>1 DEF States, Inode
  <2>3. proc' = [proc EXCEPT ![p] = s] /\ flock' = [flock EXCEPT ![s.inode] = p]
    BY <1>3, <2>1 DEF Flock
  <2>4. flock[s.inode] = NoOne /\ UNCHANGED <<runDir, file, inodes, pid, replaced>>
    BY <1>3, <2>1 DEF Flock
  <2>5. StepTo(p, s)
    BY <2>1, <2>2, <2>3, <2>4 DEF StepTo, LockIsHeld
  <2> HIDE DEF s, LockInv
  <2> QED  BY <2>1, <2>5, ProcessStep
<1>4. CASE Flock(p) /\ flock[proc[p].inode] # NoOne
  <2>1. Down \in States /\ Down.at = "down" /\ proc[p].at = "opened"
    BY <1>4 DEF States, Down, Flock
  <2>2. /\ proc' = [proc EXCEPT ![p] = Down]
       /\ UNCHANGED <<runDir, file, inodes, pid, flock, replaced>>
    BY <1>4 DEF Flock
  <2>3. StepTo(p, Down)
    BY <2>1, <2>2 DEF StepTo, LockIsHeld
  <2> HIDE DEF LockInv
  <2> QED  BY <1>0, <2>1, <2>3, ProcessStep
<1>5. CASE WritePid(p)
  <2> DEFINE s == [proc[p] EXCEPT !.at = "running"]
  <2>1. s \in States /\ s.at = "running" /\ s.inode = proc[p].inode /\ proc[p].at = "locked"
    BY <1>0, <1>5 DEF States, WritePid
  <2>2. proc' = [proc EXCEPT ![p] = s] /\ UNCHANGED <<runDir, file, inodes, flock, replaced>>
    BY <1>5 DEF WritePid
  <2>3. pid' \in [Inode -> Process \cup {NoOne}] /\ s.inode # NoFile
    BY <1>5, <2>1 DEF WritePid
  <2> HIDE DEF s
  <2>4. StepTo(p, s)
    BY <2>1, <2>2, <2>3 DEF StepTo, LockIsHeld
  <2> HIDE DEF LockInv
  <2> QED  BY <2>1, <2>4, ProcessStep
<1> QED  BY <1>1, <1>2, <1>3, <1>4, <1>5 DEF Acquire

\* A process gives up its lock when it releases or dies.
LEMMA EndLock ==
  ASSUME LockInv, NEW p \in Process, Release(p) \/ Kill(p)
  PROVE  LockInv'
<1> USE LockAssumption DEF LockAssumption, LockInv, LockTypeOK, Path, NoFile
<1>0. proc[p] \in States /\ Down \in States /\ Down.at = "down"
  BY DEF States, Down
<1>1. /\ Without(p) \in [Inode -> Process \cup {NoOne}]
      /\ \A i \in Inode : Without(p)[i] # p
      /\ \A i \in Inode, q \in Process \ {p} : Without(p)[i] = q <=> flock[i] = q
  BY DEF Without
<1>2. CASE Unlock(p)
  <2> DEFINE s == [proc[p] EXCEPT !.at = "unlocked"]
  <2>1. s \in States /\ s.at = "unlocked"
    BY <1>0 DEF States
  <2>2. proc' = [proc EXCEPT ![p] = s] /\ UNCHANGED <<runDir, file, inodes, pid, replaced>>
    BY <1>2 DEF Unlock
  <2>3. flock' = Without(p)
    BY <1>2 DEF Unlock
  <2>4. StepTo(p, s)
    BY <1>1, <2>1, <2>2, <2>3 DEF StepTo, LockIsHeld
  <2> HIDE DEF s, LockInv
  <2> QED  BY <2>1, <2>4, ProcessStep
<1>3. CASE Remove(p)
  <2>1. proc[p].at = "unlocked" /\ proc' = [proc EXCEPT ![p] = Down]
    BY <1>3 DEF Remove
  <2>2. /\ UNCHANGED <<runDir, inodes, pid, flock>> /\ replaced' = TRUE
       /\ file' \in [Path -> NoFile .. inodes]
    BY <1>3 DEF Remove
  <2>3. proc'[p] = Down /\ \A q \in Process \ {p} : proc'[q] = proc[q]
    BY <2>1
  <2>4. proc' \in [Process -> States]
    BY <1>0, <2>1 DEF States
  <2>5. LockTypeOK'
    BY <1>0, <2>2, <2>3, <2>4 DEF States, Inode
  <2>6. LockIsHeld'
    BY <1>0, <2>1, <2>2, <2>3 DEF LockIsHeld, Inode
  <2> QED  BY <2>5, <2>6
<1>4. CASE Kill(p)
  <2>1. proc' = [proc EXCEPT ![p] = Down] /\ flock' = Without(p)
    BY <1>4 DEF Kill
  <2>2. UNCHANGED <<runDir, file, inodes, pid, replaced>>
    BY <1>4 DEF Kill
  <2>3. StepTo(p, Down)
    BY <1>0, <1>1, <2>1, <2>2 DEF StepTo, LockIsHeld
  <2> HIDE DEF LockInv
  <2> QED  BY <1>0, <2>1, <2>3, ProcessStep
<1> QED  BY <1>2, <1>3, <1>4 DEF Release

\* No step breaks the invariant.
LEMMA LockStep == LockInv /\ [LockNext]_lockVars => LockInv'
<1> SUFFICES ASSUME LockInv, [LockNext]_lockVars PROVE LockInv'
  OBVIOUS
<1>1. CASE UNCHANGED lockVars
  BY <1>1 DEF lockVars, LockInv, LockTypeOK, LockIsHeld
<1>2. CASE Move
  BY <1>2 DEF Move, LockInv, LockTypeOK, LockIsHeld
<1>3. ASSUME NEW p \in Process, Acquire(p) PROVE LockInv'  BY <1>3, AcquireLock
<1>4. ASSUME NEW p \in Process, Release(p) \/ Kill(p) PROVE LockInv'  BY <1>4, EndLock
<1> QED  BY <1>1, <1>2, <1>3, <1>4 DEF LockNext

\* The variables keep their types, and no process that locks an inode has not
\* opened one.
THEOREM LockTypeCorrect == LockSpec => []LockTypeOK
<1>1. LockInv => LockTypeOK  BY DEF LockInv
<1> QED  BY <1>1, InitLock, LockStep, PTL DEF LockSpec

\* However the processes start, release and die, an inode is locked by p exactly
\* while p is past Flock: no dead process keeps the agent from starting.
THEOREM LockAlwaysHeld == LockSpec => []LockIsHeld
<1>1. LockInv => LockIsHeld  BY DEF LockInv
<1> QED  BY <1>1, InitLock, LockStep, PTL DEF LockSpec

-----------------------------------------------------------------------------
(* No Release has removed the file, and no directory has changed.           *)

AgentPath == IF runDir THEN "run" ELSE "tmp"

\* As long as it stays, every process uses the file of the one path.
OneFile ==
    ~replaced => \A p \in Process :
        /\ proc[p].at # "down" => proc[p].path = AgentPath
        /\ proc[p].at \in {"opened", "locked", "running"} => proc[p].inode = file[AgentPath]

OneFileInv == LockInv /\ OneFile

\* The one file stays when it has been opened.
LEMMA OneFileStep == OneFileInv /\ [LockNext]_lockVars => OneFileInv'
<1> SUFFICES ASSUME OneFileInv, [LockNext]_lockVars PROVE OneFileInv'
  OBVIOUS
<1>0. LockInv'  BY LockStep DEF OneFileInv
<1> USE DEF OneFileInv, LockInv, LockTypeOK, OneFile, AgentPath, Path, NoFile
<1>1. CASE UNCHANGED lockVars  BY <1>0, <1>1 DEF lockVars
<1>2. ASSUME NEW p \in Process, Acquire(p), ~replaced PROVE OneFile'
  <2>1. CASE ResolvePidFile(p)  BY <1>2, <2>1 DEF ResolvePidFile
  <2>2. CASE Open(p)
    <3>1. proc[p].path = AgentPath /\ AgentPath' = AgentPath  BY <1>2, <2>2 DEF Open
    <3>2. \A q \in Process : proc[q].at \in {"opened", "locked", "running"}
                                => file'[AgentPath] = file[AgentPath]
      BY <1>2, <2>2 DEF Open
    <3>3. proc' = [proc EXCEPT ![p].at = "opened", ![p].inode = file'[AgentPath]]
      BY <2>2, <3>1 DEF Open
    <3> QED  BY <1>2, <3>1, <3>2, <3>3
  <2>3. CASE Flock(p)  BY <1>2, <2>3 DEF Flock, Down
  <2>4. CASE WritePid(p)  BY <1>2, <2>4 DEF WritePid
  <2> QED  BY <1>2, <2>1, <2>2, <2>3, <2>4 DEF Acquire
<1>3. ASSUME NEW p \in Process, Acquire(p), replaced PROVE OneFile'
  <2>1. replaced' = replaced
    BY <1>3 DEF Acquire, ResolvePidFile, Open, Flock, WritePid
  <2> QED  BY <1>3, <2>1
<1>4. ASSUME NEW p \in Process, Unlock(p) PROVE OneFile'
  BY <1>4 DEF Unlock
<1>5. ASSUME NEW p \in Process, Kill(p) PROVE OneFile'
  BY <1>5 DEF Kill, Down
<1>6. ASSUME Move \/ \E p \in Process : Remove(p) PROVE OneFile'
  BY <1>6 DEF Move, Remove
<1> QED  BY <1>0, <1>1, <1>2, <1>3, <1>4, <1>5, <1>6 DEF LockNext, Release

\* Two running processes would hold the lock of one inode.
LEMMA OneFileSingle == OneFileInv => SingleWhileFileStays
<1> SUFFICES ASSUME OneFileInv, ~replaced PROVE Cardinality(Running) <= 1
  BY DEF SingleWhileFileStays
<1>1. ASSUME NEW p \in Running, NEW q \in Running PROVE p = q
  <2>1. p \in Process /\ q \in Process /\ proc[p].at = "running" /\ proc[q].at = "running"
    BY DEF Running
  <2>2. proc[p].inode = proc[q].inode /\ proc[p].inode \in Inode
    BY <2>1, LockAssumption
       DEF OneFileInv, LockInv, LockTypeOK, OneFile, Inode, NoFile, LockAssumption
  <2>3. flock[proc[p].inode] = p /\ flock[proc[p].inode] = q
    BY <2>1, <2>2 DEF OneFileInv, LockInv, LockIsHeld
  <2> QED  BY <2>3
<1>2. CASE Running = {}  BY <1>2, FS_EmptySet
<1>3. CASE Running # {}
  <2>1. PICK p \in Running : TRUE  BY <1>3
  <2>2. Running = {p}  BY <1>1, <2>1
  <2> QED  BY <2>2, FS_Singleton
<1> QED  BY <1>2, <1>3

\* As long as no Release has removed the file and /run/wardennet stays as it is,
\* no two agents run at once, however many are started and killed.
THEOREM OneAgent == LockSpec => []SingleWhileFileStays
<1>1. LockInit => OneFileInv
  BY InitLock DEF OneFileInv, OneFile, LockInit, Down
<1>2. OneFileInv => SingleWhileFileStays  BY OneFileSingle
<1> QED  BY <1>1, <1>2, OneFileStep, PTL DEF LockSpec

-----------------------------------------------------------------------------
(* The pid an operator finds.                                               *)

\* A process writes its pid under the lock, and no other one does while it runs.
PidIsWritten == \A p \in Running : pid[proc[p].inode] = p

PidInv == OneFileInv /\ PidIsWritten

\* Another process that writes its pid holds the lock of another inode.
LEMMA PidStep == PidInv /\ [LockNext]_lockVars => PidInv'
<1> SUFFICES ASSUME PidInv, [LockNext]_lockVars PROVE PidInv'
  OBVIOUS
<1>0. OneFileInv' /\ LockInv
  BY OneFileStep DEF PidInv, OneFileInv
<1> USE DEF PidInv, PidIsWritten, Running, LockInv, LockTypeOK
<1>1. CASE UNCHANGED lockVars
  BY <1>0, <1>1 DEF lockVars
<1>2. ASSUME NEW p \in Process, WritePid(p) PROVE PidIsWritten'
  <2>1. /\ proc[p].at = "locked" /\ pid' = [pid EXCEPT ![proc[p].inode] = p]
        /\ proc' = [proc EXCEPT ![p].at = "running"]
    BY <1>2 DEF WritePid
  <2>2. proc[p].inode \in Inode /\ flock[proc[p].inode] = p
    BY <1>0, <2>1, LockAssumption DEF LockIsHeld, LockAssumption, Inode, NoFile
  <2>3. /\ \A q \in Process : proc'[q].inode = proc[q].inode
        /\ \A q \in Process \ {p} : proc'[q].at = proc[q].at
    BY <1>0, <2>1
  <2>4. \A q \in Running \ {p} : proc[q].inode # proc[p].inode
    BY <1>0, <2>1, <2>2 DEF LockIsHeld
  <2>5. pid'[proc[p].inode] = p /\ \A i \in Inode \ {proc[p].inode} : pid'[i] = pid[i]
    BY <1>0, <2>1, <2>2
  <2>6. \A q \in Running : proc[q].inode \in Inode
    BY <1>0, LockAssumption DEF LockAssumption, Inode, NoFile
  <2> QED  BY <2>1, <2>3, <2>4, <2>5, <2>6
<1>3. ASSUME NEW p \in Process, UNCHANGED pid,
             ResolvePidFile(p) \/ Open(p) \/ Flock(p) \/ Release(p) \/ Kill(p)
      PROVE  PidIsWritten'
  <2>1. \A q \in Running' : q \in Running /\ proc'[q] = proc[q]
    BY <1>0, <1>3
       DEF ResolvePidFile, Open, Flock, Release, Unlock, Remove, Kill, Down
  <2> QED  BY <1>3, <2>1
<1>4. CASE Move
  BY <1>0, <1>4 DEF Move
<1>5. ASSUME NEW p \in Process,
             ResolvePidFile(p) \/ Open(p) \/ Flock(p) \/ Release(p) \/ Kill(p)
      PROVE  UNCHANGED pid
  BY <1>5 DEF ResolvePidFile, Open, Flock, Release, Unlock, Remove, Kill
<1> QED  BY <1>0, <1>1, <1>2, <1>3, <1>4, <1>5 DEF LockNext, Acquire

\* As long as no Release has removed the file and /run/wardennet stays as it is, the file
\* at the agent's path names the agent that runs.
THEOREM PidFileNamesAgent == LockSpec => []PidNamesAgent
<1>1. LockInit => PidInv
  <2> SUFFICES ASSUME LockInit PROVE PidInv
    OBVIOUS
  <2>1. OneFileInv
    BY InitLock DEF OneFileInv, OneFile, LockInit, Down
  <2>2. Running = {}
    BY DEF Running, LockInit, Down
  <2> QED  BY <2>1, <2>2 DEF PidInv, PidIsWritten
<1>2. PidInv => PidNamesAgent
  <2> SUFFICES ASSUME PidInv, ~replaced, NEW p \in Running
               PROVE  file[proc[p].path] # NoFile /\ pid[file[proc[p].path]] = p
    BY DEF PidNamesAgent
  <2>1. p \in Process /\ proc[p].at = "running" /\ proc[p].inode # NoFile
    BY DEF Running, PidInv, OneFileInv, LockInv, LockTypeOK
  <2>2. proc[p].path = AgentPath /\ proc[p].inode = file[AgentPath]
    BY <2>1 DEF PidInv, OneFileInv, OneFile
  <2> QED  BY <2>1, <2>2 DEF PidInv, PidIsWritten
<1> QED  BY <1>1, <1>2, PidStep, PTL DEF LockSpec

-----------------------------------------------------------------------------
Rule == {"accept", "drop", "other"}

SetupSteps == {"off", "ban", "insert ban", "accept", "number accept", "number drop",
               "delete accept", "insert accept", "up", "remove accept", "removed"}

FirewallTypeOK ==
    /\ chain \in Seq(Rule)
    /\ setup \in [step : SetupSteps, number : Nat]
    /\ inits \in Nat /\ calm \in BOOLEAN /\ repeated \in BOOLEAN

Has(c, r) == \E i \in 1..Len(c) : c[i] = r

Once(c, r) == \A i, j \in 1..Len(c) : c[i] = r /\ c[j] = r => i = j

IsFirst(c, r, n) ==
    n \in 1..Len(c) /\ c[n] = r /\ \A j \in 1..Len(c) : c[j] = r => n <= j

\* A rule r stands before every rule q.
Leads(c, r, q) == \E n \in 1..Len(c) : c[n] = r /\ \A j \in 1..Len(c) : c[j] = q => n < j

\* Unless a failure may have repeated them, each rule is there at most once: it is added
\* only where none is.  A shutdown takes one rule after the other.
RepeatInv ==
    ~repeated =>
        /\ Once(chain, "accept") /\ Once(chain, "drop")
        /\ setup.step = "insert ban" => ~Has(chain, "drop")
        /\ setup.step = "insert accept" => ~Has(chain, "accept")
        /\ setup.step \in {"remove accept", "removed"} /\ calm => ~Has(chain, "drop")
        /\ setup.step = "removed" /\ calm => ~Has(chain, "accept")

\* What the setup has found or put there is still there, as long as nothing else happens.
CalmInv ==
    calm =>
        /\ setup.step \in {"accept", "number accept", "number drop", "delete accept",
                           "insert accept", "up"} => Has(chain, "drop")
        /\ setup.step \in {"number accept", "number drop", "up"} => Has(chain, "accept")
        /\ setup.step = "number drop" => IsFirst(chain, "accept", setup.number)
        /\ setup.step = "up" => Leads(chain, "accept", "drop")

FirewallInv == FirewallTypeOK /\ RepeatInv /\ CalmInv

LEMMA LeastPlace ==
  ASSUME NEW S \in SUBSET Nat, S # {}
  PROVE  \E x \in S : \A y \in S : x <= y
<1>1. \E x \in S : \A y \in S : ~(<<y, x>> \in OpToRel(<, Nat))
  BY NatLessThanWellFounded, WFMin
<1>2. \A x, y \in Nat : x < y => <<x, y>> \in OpToRel(<, Nat)
  BY DEF OpToRel
<1>3. PICK x \in S : \A y \in S : ~(<<y, x>> \in OpToRel(<, Nat))
  BY <1>1
<1>4. \A y \in S : ~(y < x)
  BY <1>2, <1>3
<1>5. \A y \in S : x <= y
  BY <1>4
<1> QED  BY <1>5

\* The number of a rule is its first place in the chain.
LEMMA RuleNumberIsFirst ==
  ASSUME chain \in Seq(Rule), NEW r
  PROVE  /\ RuleNumber(r) \in Nat
         /\ Has(chain, r) <=> RuleNumber(r) # 0
         /\ RuleExists(r) <=> Has(chain, r)
         /\ Has(chain, r) => IsFirst(chain, r, RuleNumber(r))
<1>1. Places(r) \in SUBSET Nat /\ Len(chain) \in Nat
  BY DEF Places
<1>2. Has(chain, r) <=> Places(r) # {}
  BY DEF Has, Places
<1>3. CASE Places(r) = {}
  BY <1>2, <1>3 DEF RuleNumber, RuleExists
<1>4. CASE Places(r) # {}
  <2>1. \E i \in Places(r) : \A j \in Places(r) : i <= j
    BY ONLY <1>1, <1>4, LeastPlace
  <2>2. RuleNumber(r) \in Places(r) /\ \A j \in Places(r) : RuleNumber(r) <= j
    BY <1>4, <2>1 DEF RuleNumber, RuleExists
  <2>3. RuleNumber(r) \in 1..Len(chain) /\ chain[RuleNumber(r)] = r
    BY <2>2 DEF Places
  <2>4. \A j \in 1..Len(chain) : chain[j] = r => RuleNumber(r) <= j
    BY <2>2 DEF Places
  <2> QED  BY <1>1, <1>2, <1>4, <2>3, <2>4 DEF RuleExists, IsFirst
<1> QED  BY <1>3, <1>4

\* A rule put on top moves the others down.
LEMMA TopOfChain ==
  ASSUME NEW c \in Seq(Rule), NEW r \in Rule, NEW d, d = <<r>> \o c
  PROVE  /\ d \in Seq(Rule) /\ Len(c) \in Nat /\ Len(d) = Len(c) + 1 /\ d[1] = r
         /\ \A k \in 1..Len(c) : d[k + 1] = c[k]
         /\ \A k \in 1..Len(d) : k = 1 \/ (k - 1 \in 1..Len(c) /\ d[k] = c[k - 1])
         /\ Has(d, r) /\ \A q : q # r => (Has(d, q) <=> Has(c, q)) /\ (Once(c, q) => Once(d, q))
         /\ ~Has(c, r) => Once(d, r)
<1>1. d \in Seq(Rule) /\ Len(c) \in Nat /\ Len(d) = Len(c) + 1 /\ d[1] = r
  OBVIOUS
<1>2. \A k \in 1..Len(c) : d[k + 1] = c[k]
  OBVIOUS
<1>3. \A k \in 1..Len(d) : k = 1 \/ (k - 1 \in 1..Len(c) /\ d[k] = c[k - 1])
  <2> TAKE k \in 1..Len(d)
  <2>1. k = 1 \/ (k - 1 \in 1..Len(c) /\ (k - 1) + 1 = k)
    BY <1>1
  <2> QED  BY <1>2, <2>1
<1>4. Has(d, r)
  BY <1>1 DEF Has
<1>5. ASSUME NEW q, q # r PROVE (Has(d, q) <=> Has(c, q)) /\ (Once(c, q) => Once(d, q))
  <2>1. ASSUME NEW k \in 1..Len(d), d[k] = q PROVE k - 1 \in 1..Len(c) /\ c[k - 1] = q
    BY <1>1, <1>3, <1>5, <2>1
  <2>2. Has(d, q) => Has(c, q)
    BY <2>1 DEF Has
  <2>3. Has(c, q) => Has(d, q)
    <3> SUFFICES ASSUME NEW k \in 1..Len(c), c[k] = q PROVE Has(d, q)
      BY DEF Has
    <3>1. k + 1 \in 1..Len(d) /\ d[k + 1] = q
      BY <1>1, <1>2
    <3> QED  BY <3>1 DEF Has
  <2>4. Once(c, q) => Once(d, q)
    <3> SUFFICES ASSUME Once(c, q), NEW i \in 1..Len(d), NEW j \in 1..Len(d), d[i] = q, d[j] = q
                 PROVE  i = j
      BY DEF Once
    <3>1. i - 1 = j - 1
      BY <2>1 DEF Once
    <3> QED  BY <1>1, <3>1
  <2> QED  BY <2>2, <2>3, <2>4
<1>6. ~Has(c, r) => Once(d, r)
  BY <1>1, <1>3 DEF Once, Has
<1> QED  BY <1>1, <1>2, <1>3, <1>4, <1>5, <1>6

\* A rule taken out moves those behind it up.
LEMMA CutChain ==
  ASSUME NEW c \in Seq(Rule), NEW n \in 1..Len(c), NEW r, c[n] = r,
         NEW d, d = Deleted(c, n)
  PROVE  /\ d \in Seq(Rule)
         /\ \A q : Has(d, q) => Has(c, q)
         /\ \A q : q # r /\ Has(c, q) => Has(d, q)
         /\ \A q : Once(c, q) => Once(d, q)
         /\ Once(c, r) => ~Has(d, r)
<1> DEFINE P(k) == IF k < n THEN k ELSE k + 1
<1>1. Len(c) \in Nat /\ d \in Seq(Rule) /\ Len(d) = Len(c) - 1
      /\ \A k \in 1..Len(d) : d[k] = c[P(k)]
  <2> DEFINE a == SubSeq(c, 1, n - 1)
             b == SubSeq(c, n + 1, Len(c))
  <2>1. /\ Len(c) \in Nat /\ n \in Int /\ n >= 1 /\ n <= Len(c)
    OBVIOUS
  <2>2. /\ a \in Seq(Rule) /\ Len(a) = n - 1 /\ \A k \in 1..(n - 1) : a[k] = c[k]
    <3>1. 1 \in Int /\ n - 1 \in Int /\ \A i \in 1..(n - 1) : c[i] \in Rule
      BY <2>1
    <3> QED  BY <2>1, <3>1, SubSeqProperties
  <2>3. /\ b \in Seq(Rule) /\ Len(b) = Len(c) - n
        /\ \A k \in 1..(Len(c) - n) : b[k] = c[n + k]
    <3>1. n + 1 \in Int /\ Len(c) \in Int /\ \A i \in (n + 1)..Len(c) : c[i] \in Rule
      BY <2>1
    <3>2. /\ b \in Seq(Rule) /\ Len(b) = IF n + 1 <= Len(c) THEN Len(c) - (n + 1) + 1 ELSE 0
          /\ \A k \in 1..(Len(c) - (n + 1) + 1) : b[k] = c[(n + 1) + k - 1]
      BY <2>1, <3>1, SubSeqProperties
    <3> QED  BY <2>1, <3>2
  <2> HIDE DEF a, b
  <2>4. d = a \o b
    BY DEF a, b, Deleted
  <2>5. /\ d \in Seq(Rule) /\ Len(d) = Len(a) + Len(b)
        /\ \A k \in 1..(Len(a) + Len(b)) : d[k] = IF k <= Len(a) THEN a[k] ELSE b[k - Len(a)]
    BY ONLY <2>2, <2>3, <2>4, ConcatProperties
  <2>6. ASSUME NEW k \in 1..Len(d) PROVE d[k] = c[P(k)]
    <3>1. CASE k < n
      <4>1. k \in 1..(n - 1) /\ k \in 1..(Len(a) + Len(b)) /\ k <= Len(a)
        BY <2>1, <2>2, <2>3, <2>5, <3>1
      <4>2. d[k] = a[k]
        BY <2>5, <4>1
      <4> QED  BY <2>2, <3>1, <4>1, <4>2
    <3>2. CASE k >= n
      <4>1. k - (n - 1) \in 1..(Len(c) - n) /\ n + (k - (n - 1)) = k + 1
        BY <2>1, <2>2, <2>3, <2>5, <3>2
      <4>2. d[k] = b[k - (n - 1)]
        <5>1. k \in 1..(Len(a) + Len(b)) /\ ~(k <= Len(a)) /\ k - Len(a) = k - (n - 1)
          BY <2>1, <2>2, <2>5, <3>2
        <5> QED  BY <2>5, <5>1
      <4> QED  BY <2>3, <3>2, <4>1, <4>2
    <3> QED  BY <2>1, <2>5, <3>1, <3>2
  <2> QED  BY <2>1, <2>2, <2>3, <2>5, <2>6
<1>2. \A k \in 1..Len(d) : P(k) \in 1..Len(c) /\ P(k) # n /\ d[k] = c[P(k)]
  BY <1>1
<1>3. \A i, j \in 1..Len(d) : P(i) = P(j) => i = j
  BY <1>1
<1>4. \A k \in 1..Len(c) : k # n => \E j \in 1..Len(d) : d[j] = c[k]
  <2> TAKE k \in 1..Len(c)
  <2> HAVE k # n
  <2>1. CASE k < n
    <3>1. k \in 1..Len(d) /\ P(k) = k
      BY <1>1, <2>1
    <3> QED  BY <1>1, <3>1
  <2>2. CASE k > n
    <3>1. k - 1 \in 1..Len(d) /\ P(k - 1) = k
      BY <1>1, <2>2
    <3> QED  BY <1>1, <3>1
  <2> QED  BY <1>1, <2>1, <2>2
<1> HIDE DEF P
<1>5. \A q : Has(d, q) => Has(c, q)
  BY <1>2 DEF Has
<1>6. \A q : q # r /\ Has(c, q) => Has(d, q)
  BY <1>4 DEF Has
<1>7. ASSUME NEW q, Once(c, q) PROVE Once(d, q)
  <2> SUFFICES ASSUME NEW i \in 1..Len(d), NEW j \in 1..Len(d), d[i] = q, d[j] = q
               PROVE  i = j
    BY DEF Once
  <2>1. P(i) = P(j)
    BY <1>2, <1>7 DEF Once
  <2> QED  BY <1>3, <2>1
<1>8. Once(c, r) => ~Has(d, r)
  BY <1>2 DEF Once, Has
<1> QED  BY <1>1, <1>5, <1>6, <1>7, <1>8

Swapped(c, n) == [c EXCEPT ![n] = c[n + 1], ![n + 1] = c[n]]

\* Moving a rule neither adds one nor takes one.
LEMMA MovedChain ==
  ASSUME NEW c \in Seq(Rule), NEW n \in Nat \ {0}, n + 1 <= Len(c),
         NEW d, d = Swapped(c, n)
  PROVE  d \in Seq(Rule) /\ \A q : (Has(d, q) => Has(c, q)) /\ (Once(c, q) => Once(d, q))
<1> DEFINE Q(k) == IF k = n THEN n + 1 ELSE IF k = n + 1 THEN n ELSE k
<1>1. Len(c) \in Nat /\ n \in 1..Len(c) /\ n + 1 \in 1..Len(c)
  OBVIOUS
<1>2. /\ d \in Seq(Rule) /\ Len(d) = Len(c)
      /\ \A k \in 1..Len(c) : d[k] = c[Q(k)]
  BY <1>1 DEF Swapped
<1>3. /\ \A k \in 1..Len(c) : Q(k) \in 1..Len(c)
      /\ \A i, j \in 1..Len(c) : Q(i) = Q(j) => i = j
  BY <1>1
<1> HIDE DEF Q
<1>4. \A q : Has(d, q) => Has(c, q)
  BY <1>2, <1>3 DEF Has
<1>5. ASSUME NEW q, Once(c, q) PROVE Once(d, q)
  <2> SUFFICES ASSUME NEW i \in 1..Len(d), NEW j \in 1..Len(d), d[i] = q, d[j] = q
               PROVE  i = j
    BY DEF Once
  <2>1. Q(i) = Q(j)
    BY <1>2, <1>3, <1>5 DEF Once
  <2> QED  BY <1>2, <1>3, <2>1
<1> QED  BY <1>2, <1>4, <1>5

\* After a reload only the rules of others are there.
LEMMA ReloadedChain ==
  ASSUME chain \in Seq(Rule), ReloadFirewall
  PROVE  chain' \in Seq(Rule) /\ ~Has(chain', "accept") /\ ~Has(chain', "drop")
<1>1. Cardinality(Places("other")) \in Nat
  <2>1. IsFiniteSet(1..Len(chain))
    BY FS_Interval
  <2>2. IsFiniteSet(Places("other"))
    BY <2>1, FS_Subset DEF Places
  <2> QED  BY <2>2, FS_CardinalityType
<1> DEFINE n == Cardinality(Places("other"))
<1>2. n \in Nat /\ chain' = [i \in 1..n |-> "other"]
  BY <1>1 DEF ReloadFirewall
<1> HIDE DEF n
<1>3. chain' \in Seq(Rule) /\ Len(chain') = n /\ \A i \in 1..n : chain'[i] = "other"
  <2>1. "other" \in Rule
    BY DEF Rule
  <2> QED  BY <1>2, <2>1
<1> QED  BY <1>3 DEF Has

LEMMA DeletedRule ==
  ASSUME chain \in Seq(Rule), NEW r \in Rule, NEW ok \in BOOLEAN, DeleteRule(r, ok)
  PROVE  /\ chain' \in Seq(Rule)
         /\ \A q : (Has(chain', q) => Has(chain, q)) /\ (Once(chain, q) => Once(chain', q))
         /\ \A q : q # r /\ Has(chain, q) => Has(chain', q)
         /\ ok /\ Once(chain, r) => ~Has(chain', r)
<1> DEFINE n == RuleNumber(r)
<1>1. /\ RuleExists(r) <=> Has(chain, r)
      /\ Has(chain, r) => n \in 1..Len(chain) /\ chain[n] = r
  BY RuleNumberIsFirst DEF IsFirst
<1>2. CASE ok /\ RuleExists(r)
  <2>1. n \in 1..Len(chain) /\ chain[n] = r /\ chain' = Deleted(chain, n)
    BY <1>1, <1>2 DEF DeleteRule
  <2> HIDE DEF n
  <2> QED  BY <2>1, CutChain
<1>3. CASE ~(ok /\ RuleExists(r))
  <2>1. chain' = chain
    BY <1>3 DEF DeleteRule
  <2> QED  BY <1>1, <1>3, <2>1
<1> QED  BY <1>2, <1>3

\* The rule with the lower number stands before every rule of the other kind.
LEMMA LowerLeads ==
  ASSUME chain \in Seq(Rule), NEW r, NEW q, NEW n, IsFirst(chain, r, n), Has(chain, q),
         ~(n >= RuleNumber(q))
  PROVE  Leads(chain, r, q)
<1>1. /\ n \in 1..Len(chain) /\ chain[n] = r /\ Len(chain) \in Nat
      /\ RuleNumber(q) \in 1..Len(chain)
      /\ \A j \in 1..Len(chain) : chain[j] = q => RuleNumber(q) <= j
  BY RuleNumberIsFirst DEF IsFirst
<1>2. \A j \in 1..Len(chain) : chain[j] = q => n < j
  BY <1>1
<1> QED  BY <1>1, <1>2 DEF Leads

-----------------------------------------------------------------------------
LEMMA InitFirewall == FirewallInit => FirewallInv
<1> SUFFICES ASSUME FirewallInit PROVE FirewallInv
  OBVIOUS
<1>1. chain = <<"other">> /\ Len(chain) = 1 /\ chain[1] = "other" /\ setup.step = "off"
  BY DEF FirewallInit
<1>2. chain \in Seq(Rule)
  BY <1>1 DEF Rule
<1>3. Once(chain, "accept") /\ Once(chain, "drop")
  BY <1>1 DEF Once
<1> QED  BY <1>1, <1>2, <1>3
         DEF FirewallInit, FirewallInv, FirewallTypeOK, RepeatInv, CalmInv, SetupSteps

\* The changes of the chain: what each does to the rules of the agent.
LEMMA ChainStep ==
  ASSUME FirewallTypeOK, FirewallNext
  PROVE  chain' \in Seq(Rule)
<1>1. chain \in Seq(Rule) /\ "accept" \in Rule /\ "drop" \in Rule
  BY DEF FirewallTypeOK, Rule
<1>2. ASSUME NEW r \in Rule, NEW ok \in BOOLEAN, InsertOnTop(r, ok) PROVE chain' \in Seq(Rule)
  <2>1. chain' = chain \/ chain' = <<r>> \o chain
    BY <1>2 DEF InsertOnTop
  <2> QED  BY <1>1, <2>1, TopOfChain
<1>3. ASSUME NEW r \in Rule, NEW ok \in BOOLEAN, DeleteRule(r, ok) PROVE chain' \in Seq(Rule)
  BY <1>1, <1>3, DeletedRule
<1>4. ASSUME NEW ok \in BOOLEAN, InsertBan(ok) \/ InsertAccept(ok) PROVE chain' \in Seq(Rule)
  BY <1>1, <1>2, <1>4 DEF InsertBan, InsertAccept
<1>5. ASSUME NEW ok \in BOOLEAN, DeleteAccept(ok) \/ RemoveBan(ok) \/ RemoveAccept(ok)
      PROVE  chain' \in Seq(Rule)
  BY <1>1, <1>3, <1>5 DEF DeleteAccept, RemoveBan, RemoveAccept
<1>6. CASE ReloadFirewall
  BY <1>1, <1>6, ReloadedChain
<1>7. ASSUME NEW i \in 1..MaxRules, MoveRule(i) PROVE chain' \in Seq(Rule)
  <2>1. /\ i \in Nat \ {0} /\ i + 1 <= Len(chain)
        /\ chain' = Swapped(chain, i)
    BY <1>7, FirewallAssumption DEF MoveRule, Swapped
  <2> QED  BY <1>1, <2>1, MovedChain
<1>8. CASE UNCHANGED chain
  BY <1>1, <1>8
<1> QED  BY <1>4, <1>5, <1>6, <1>7, <1>8
         DEF FirewallNext, StartInit, ListForBan, ListForAccept, List, NumberAccept,
             NumberDrop, EndAgent

LEMMA GoesTo ==
  ASSUME FirewallTypeOK, NEW f \in SetupSteps, NEW t \in SetupSteps, Goes(f, t)
  PROVE  /\ setup' \in [step : SetupSteps, number : Nat]
         /\ setup.step = f /\ setup'.step = t /\ setup'.number = setup.number
BY DEF FirewallTypeOK, Goes

LEMMA FirewallTypeStep ==
  ASSUME FirewallTypeOK, FirewallNext
  PROVE  FirewallTypeOK'
<1>1. chain' \in Seq(Rule)
  BY ChainStep
<1>2. setup' \in [step : SetupSteps, number : Nat]
  <2>1. CASE StartInit
    BY <2>1, GoesTo DEF StartInit, SetupSteps
  <2>2. ASSUME NEW ok \in BOOLEAN,
               ListForBan(ok) \/ ListForAccept(ok) \/ NumberDrop(ok) \/ InsertBan(ok)
               \/ DeleteAccept(ok) \/ InsertAccept(ok) \/ RemoveBan(ok) \/ RemoveAccept(ok)
        PROVE  setup' \in [step : SetupSteps, number : Nat]
    <3>1. \E f, t \in SetupSteps : Goes(f, t)
      BY <2>2 DEF ListForBan, ListForAccept, List, NumberDrop, InsertBan, DeleteAccept,
                  InsertAccept, RemoveBan, RemoveAccept, SetupSteps
    <3> QED  BY <3>1, GoesTo
  <2>3. ASSUME NEW ok \in BOOLEAN, NumberAccept(ok)
        PROVE  setup' \in [step : SetupSteps, number : Nat]
    <3>1. RuleNumber("accept") \in Nat
      BY RuleNumberIsFirst DEF FirewallTypeOK
    <3> DEFINE n == IF ok THEN RuleNumber("accept") ELSE 0
    <3>2. setup' = [step |-> "number drop", number |-> n] /\ n \in Nat
      BY <2>3, <3>1 DEF NumberAccept
    <3> HIDE DEF n
    <3> QED  BY <3>2 DEF SetupSteps
  <2>4. CASE EndAgent
    BY <2>4 DEF EndAgent, SetupSteps
  <2>5. CASE UNCHANGED setup
    BY <2>5 DEF FirewallTypeOK
  <2> QED  BY <2>1, <2>2, <2>3, <2>4, <2>5 DEF FirewallNext, ReloadFirewall, MoveRule
<1>3. inits' \in Nat /\ calm' \in BOOLEAN /\ repeated' \in BOOLEAN
  <2> DEFINE T == inits' \in Nat /\ calm' \in BOOLEAN /\ repeated' \in BOOLEAN
  <2>1. inits \in Nat /\ calm \in BOOLEAN /\ repeated \in BOOLEAN
    BY DEF FirewallTypeOK
  <2>2. ASSUME NEW ok \in BOOLEAN,
               ListForBan(ok) \/ ListForAccept(ok) \/ NumberAccept(ok) \/ NumberDrop(ok)
        PROVE  T
    <3>1. /\ inits' = inits /\ calm' = (calm /\ ok)
          /\ repeated' = repeated \/ repeated' = (repeated \/ ~ok)
      BY <2>2 DEF ListForBan, ListForAccept, List, NumberAccept, NumberDrop
    <3> QED  BY <2>1, <3>1
  <2>3. ASSUME NEW ok \in BOOLEAN,
               InsertBan(ok) \/ InsertAccept(ok) \/ DeleteAccept(ok) \/ RemoveBan(ok)
               \/ RemoveAccept(ok)
        PROVE  T
    <3>1. /\ inits' = inits /\ (calm' = (calm /\ ok) \/ calm' = ok)
          /\ repeated' = repeated \/ repeated' = (repeated \/ ~ok)
      BY <2>3 DEF InsertBan, InsertAccept, InsertOnTop, DeleteAccept, RemoveBan, RemoveAccept
    <3> QED  BY <2>1, <3>1
  <2>4. CASE StartInit
    <3>1. inits' = inits + 1 /\ calm' = TRUE /\ repeated' = repeated
      BY <2>4 DEF StartInit
    <3> QED  BY <2>1, <3>1
  <2>5. CASE EndAgent \/ ReloadFirewall \/ \E i \in 1..MaxRules : MoveRule(i)
    <3>1. /\ inits' = inits /\ (calm' = calm \/ calm' = FALSE)
          /\ repeated' = repeated \/ repeated' = FALSE
      BY <2>5 DEF EndAgent, ReloadFirewall, MoveRule
    <3> QED  BY <2>1, <3>1
  <2> QED  BY <2>2, <2>3, <2>4, <2>5 DEF FirewallNext
<1> QED  BY <1>1, <1>2, <1>3 DEF FirewallTypeOK

LEMMA OnceOnTop ==
  ASSUME NEW c \in Seq(Rule), NEW r \in {"accept", "drop"}, ~Has(c, r),
         Once(c, "accept"), Once(c, "drop")
  PROVE  Once(<<r>> \o c, "accept") /\ Once(<<r>> \o c, "drop")
<1> DEFINE d == <<r>> \o c
<1>1. r \in Rule /\ d = <<r>> \o c
  BY DEF Rule
<1> HIDE DEF d
<1>2. /\ \A q : q # r => (Once(c, q) => Once(d, q))
      /\ Once(d, r)
  BY <1>1, TopOfChain
<1>3. Once(d, "accept") /\ Once(d, "drop")
  BY <1>2
<1> QED  BY <1>3 DEF d

LEMMA AcceptOnTop ==
  ASSUME NEW c \in Seq(Rule), Has(c, "drop")
  PROVE  /\ <<"accept">> \o c \in Seq(Rule) /\ (<<"accept">> \o c)[1] = "accept"
         /\ Has(<<"accept">> \o c, "accept") /\ Has(<<"accept">> \o c, "drop")
<1> DEFINE d == <<"accept">> \o c
<1>1. "accept" \in Rule /\ "drop" # "accept" /\ d = <<"accept">> \o c
  BY DEF Rule
<1> HIDE DEF d
<1>2. d \in Seq(Rule) /\ d[1] = "accept"
  BY <1>1, TopOfChain
<1>3. Has(d, "accept")
  BY <1>1, TopOfChain
<1>4. Has(d, "drop")
  BY <1>1, TopOfChain
<1> QED  BY <1>2, <1>3, <1>4 DEF d

\* A rule is added only where none is, or a failure is remembered.
LEMMA RepeatStep ==
  ASSUME FirewallTypeOK, RepeatInv, FirewallNext
  PROVE  RepeatInv'
<1> SUFFICES ASSUME ~repeated'
             PROVE  /\ Once(chain', "accept") /\ Once(chain', "drop")
                    /\ setup'.step = "insert ban" => ~Has(chain', "drop")
                    /\ setup'.step = "insert accept" => ~Has(chain', "accept")
                    /\ setup'.step \in {"remove accept", "removed"} /\ calm'
                          => ~Has(chain', "drop")
                    /\ setup'.step = "removed" /\ calm' => ~Has(chain', "accept")
  BY DEF RepeatInv
<1>1. /\ chain \in Seq(Rule) /\ "accept" \in Rule /\ "drop" \in Rule
      /\ calm \in BOOLEAN /\ repeated \in BOOLEAN
  BY DEF FirewallTypeOK, Rule
<1>2. CASE ReloadFirewall
  <2>1. ~Has(chain', "accept") /\ ~Has(chain', "drop")
    BY <1>1, <1>2, ReloadedChain
  <2> QED  BY <2>1 DEF Has, Once
<1>3. ~ReloadFirewall =>
        /\ ~repeated
        /\ Once(chain, "accept") /\ Once(chain, "drop")
        /\ setup.step = "insert ban" => ~Has(chain, "drop")
        /\ setup.step = "insert accept" => ~Has(chain, "accept")
        /\ setup.step \in {"remove accept", "removed"} /\ calm => ~Has(chain, "drop")
        /\ setup.step = "removed" /\ calm => ~Has(chain, "accept")
  <2>1. ~ReloadFirewall => ~repeated
    BY <1>1 DEF FirewallNext, StartInit, ListForBan, ListForAccept, List, InsertBan,
         InsertAccept, InsertOnTop, NumberAccept, NumberDrop, DeleteAccept, RemoveBan,
         RemoveAccept, EndAgent, MoveRule
  <2> QED  BY <2>1 DEF RepeatInv
<1> HIDE DEF RepeatInv
<1>4. CASE StartInit \/ EndAgent
  <2>1. chain' = chain /\ setup'.step \in {"off", "ban"} /\ ~ReloadFirewall
    <3>1. StartInit => setup'.step = "ban" /\ setup.step = "off"
      BY GoesTo DEF StartInit, SetupSteps
    <3>2. EndAgent => setup'.step = "off" /\ setup.step # "off"
      BY DEF EndAgent
    <3> QED  BY <1>4, <3>1, <3>2 DEF StartInit, EndAgent, ReloadFirewall
  <2> QED  BY <1>3, <2>1
<1>5. ASSUME NEW ok \in BOOLEAN, ListForBan(ok) PROVE RepeatInv'
  <2>1. /\ chain' = chain /\ ok /\ ~ReloadFirewall
        /\ setup'.step = IF RuleExists("drop") THEN "accept" ELSE "insert ban"
    <3>1. /\ Goes("ban", IF ok /\ RuleExists("drop") THEN "accept" ELSE "insert ban")
          /\ chain' = chain /\ repeated' = (repeated \/ ~ok)
      BY <1>5 DEF ListForBan, List
    <3>2. ok
      BY <3>1
    <3>3. Goes("ban", IF RuleExists("drop") THEN "accept" ELSE "insert ban")
      BY <3>1, <3>2
    <3>4. /\ setup.step = "ban"
          /\ setup'.step = IF RuleExists("drop") THEN "accept" ELSE "insert ban"
      BY <3>3, GoesTo DEF SetupSteps
    <3> QED  BY <3>1, <3>2, <3>4 DEF ReloadFirewall
  <2>2. setup'.step = "insert ban" => ~Has(chain', "drop")
    BY <1>1, <2>1, RuleNumberIsFirst
  <2> QED  BY <1>3, <2>1, <2>2 DEF RepeatInv
<1>6. ASSUME NEW ok \in BOOLEAN, ListForAccept(ok) PROVE RepeatInv'
  <2>1. /\ chain' = chain /\ ok /\ ~ReloadFirewall
        /\ setup'.step = IF RuleExists("accept") THEN "number accept" ELSE "insert accept"
    <3>1. /\ Goes("accept", IF ok /\ RuleExists("accept") THEN "number accept"
                            ELSE "insert accept")
          /\ chain' = chain /\ repeated' = (repeated \/ ~ok)
      BY <1>6 DEF ListForAccept, List
    <3>2. ok
      BY <3>1
    <3>3. Goes("accept", IF RuleExists("accept") THEN "number accept" ELSE "insert accept")
      BY <3>1, <3>2
    <3>4. /\ setup.step = "accept"
          /\ setup'.step = IF RuleExists("accept") THEN "number accept" ELSE "insert accept"
      BY <3>3, GoesTo DEF SetupSteps
    <3> QED  BY <3>1, <3>2, <3>4 DEF ReloadFirewall
  <2>2. setup'.step = "insert accept" => ~Has(chain', "accept")
    BY <1>1, <2>1, RuleNumberIsFirst
  <2> QED  BY <1>3, <2>1, <2>2 DEF RepeatInv
<1>7. ASSUME NEW ok \in BOOLEAN, InsertBan(ok) PROVE RepeatInv'
  <2>1. setup.step = "insert ban" /\ setup'.step = "accept"
        /\ (chain' = chain \/ chain' = <<"drop">> \o chain)
    BY <1>7, GoesTo DEF InsertBan, InsertOnTop, SetupSteps
  <2>2. ~ReloadFirewall
    BY <2>1 DEF ReloadFirewall
  <2>3. Once(chain', "accept") /\ Once(chain', "drop")
    <3>1. Once(chain, "accept") /\ Once(chain, "drop") /\ ~Has(chain, "drop")
      BY <1>3, <2>1, <2>2
    <3> QED  BY <1>1, <2>1, <3>1, OnceOnTop
  <2> QED  BY <2>1, <2>3 DEF RepeatInv
<1>8. ASSUME NEW ok \in BOOLEAN, InsertAccept(ok) PROVE RepeatInv'
  <2>1. setup.step = "insert accept" /\ setup'.step = "up"
        /\ (chain' = chain \/ chain' = <<"accept">> \o chain)
    BY <1>8, GoesTo DEF InsertAccept, InsertOnTop, SetupSteps
  <2>2. ~ReloadFirewall
    BY <2>1 DEF ReloadFirewall
  <2>3. Once(chain', "accept") /\ Once(chain', "drop")
    <3>1. Once(chain, "accept") /\ Once(chain, "drop") /\ ~Has(chain, "accept")
      BY <1>3, <2>1, <2>2
    <3> QED  BY <1>1, <2>1, <3>1, OnceOnTop
  <2> QED  BY <2>1, <2>3 DEF RepeatInv
<1>9. ASSUME NEW ok \in BOOLEAN, NumberAccept(ok) \/ NumberDrop(ok) PROVE RepeatInv'
  <2>1. /\ chain' = chain /\ setup'.step \in {"number drop", "delete accept", "up"}
        /\ setup.step \in {"number accept", "number drop"}
    <3>1. CASE NumberAccept(ok)
      BY <3>1 DEF NumberAccept
    <3>2. CASE NumberDrop(ok)
      <4>1. Goes("number drop", "delete accept") \/ Goes("number drop", "up")
        BY <3>2 DEF NumberDrop
      <4>2. setup.step = "number drop" /\ setup'.step \in {"delete accept", "up"}
        BY <4>1, GoesTo DEF SetupSteps
      <4> QED  BY <3>2, <4>2 DEF NumberDrop
    <3> QED  BY <1>9, <3>1, <3>2
  <2>2. ~ReloadFirewall
    <3>1. ASSUME NumberAccept(ok)
          PROVE  setup.step = "number accept" /\ setup'.step = "number drop"
      BY <3>1 DEF NumberAccept
    <3>2. NumberDrop(ok) => setup.step = "number drop" /\ setup'.step # "number drop"
      <4>1. NumberDrop(ok) => Goes("number drop", "delete accept") \/ Goes("number drop", "up")
        BY DEF NumberDrop
      <4> QED  BY <4>1, GoesTo DEF SetupSteps
    <3> QED  BY <1>9, <3>1, <3>2 DEF ReloadFirewall
  <2> QED  BY <1>3, <2>1, <2>2 DEF RepeatInv
<1>10. ASSUME NEW ok \in BOOLEAN, DeleteAccept(ok) PROVE RepeatInv'
  <2>1. /\ setup.step = "delete accept" /\ setup'.step = "insert accept"
        /\ DeleteRule("accept", ok) /\ ok
    BY <1>10, GoesTo DEF DeleteAccept, SetupSteps
  <2>2. ~ReloadFirewall
    BY <2>1 DEF ReloadFirewall
  <2> QED  BY <1>1, <1>3, <2>1, <2>2, DeletedRule DEF RepeatInv
<1>11. ASSUME NEW ok \in BOOLEAN, RemoveBan(ok) PROVE RepeatInv'
  <2>1. /\ setup.step = "up" /\ setup'.step = "remove accept"
        /\ DeleteRule("drop", ok) /\ calm' = ok
    BY <1>11, GoesTo DEF RemoveBan, SetupSteps
  <2>2. ~ReloadFirewall
    BY <2>1 DEF ReloadFirewall
  <2> QED  BY <1>1, <1>3, <2>1, <2>2, DeletedRule DEF RepeatInv
<1>12. ASSUME NEW ok \in BOOLEAN, RemoveAccept(ok) PROVE RepeatInv'
  <2>1. /\ setup.step = "remove accept" /\ setup'.step = "removed"
        /\ DeleteRule("accept", ok) /\ calm' = (calm /\ ok)
    BY <1>12, GoesTo DEF RemoveAccept, SetupSteps
  <2>2. ~ReloadFirewall
    BY <2>1 DEF ReloadFirewall
  <2> QED  BY <1>1, <1>3, <2>1, <2>2, DeletedRule DEF RepeatInv
<1>13. ASSUME NEW i \in 1..MaxRules, MoveRule(i), ~ReloadFirewall PROVE RepeatInv'
  <2>1. /\ i \in Nat \ {0} /\ i + 1 <= Len(chain) /\ setup' = setup /\ ~calm'
        /\ chain' = Swapped(chain, i)
    BY <1>13, FirewallAssumption DEF MoveRule, Swapped
  <2>2. \A q : (Has(chain', q) => Has(chain, q)) /\ (Once(chain, q) => Once(chain', q))
    BY ONLY <1>1, <2>1, MovedChain
  <2> QED  BY <1>3, <1>13, <2>1, <2>2 DEF RepeatInv
<1> QED
  <2>1. CASE RepeatInv'
    BY <2>1 DEF RepeatInv
  <2> QED  BY <1>2, <1>4, <1>5, <1>6, <1>7, <1>8, <1>9, <1>10, <1>11, <1>12, <1>13, <2>1
           DEF FirewallNext

\* As long as nothing fails and no other program comes, each step finds what the ones
\* before it made.
LEMMA CalmStep ==
  ASSUME FirewallTypeOK, CalmInv, FirewallNext
  PROVE  CalmInv'
<1> SUFFICES ASSUME calm' PROVE CalmInv'
  BY DEF CalmInv
<1>1. /\ chain \in Seq(Rule) /\ "accept" \in Rule /\ "drop" \in Rule /\ calm \in BOOLEAN
  BY DEF FirewallTypeOK, Rule
<1>2. ~ReloadFirewall /\ \A i \in 1..MaxRules : ~MoveRule(i)
  BY DEF ReloadFirewall, MoveRule
<1>3. CASE StartInit
  <2>1. setup'.step = "ban"
    BY <1>3, GoesTo DEF StartInit, SetupSteps
  <2> QED  BY <2>1 DEF CalmInv
<1>4. CASE EndAgent
  <2>1. setup'.step = "off"
    BY <1>4 DEF EndAgent
  <2> QED  BY <2>1 DEF CalmInv
<1>5. ASSUME NEW ok \in BOOLEAN, ListForBan(ok) PROVE CalmInv'
  <2>1. Goes("ban", IF ok /\ RuleExists("drop") THEN "accept" ELSE "insert ban") /\ chain' = chain
    BY <1>5 DEF ListForBan, List
  <2>2. setup'.step = "insert ban" \/ (setup'.step = "accept" /\ RuleExists("drop"))
    BY <2>1, GoesTo DEF SetupSteps
  <2>3. RuleExists("drop") => Has(chain', "drop")
    BY <1>1, <2>1, RuleNumberIsFirst
  <2> QED  BY <2>2, <2>3 DEF CalmInv
<1>6. ASSUME NEW ok \in BOOLEAN, InsertBan(ok) PROVE CalmInv'
  <2>1. setup'.step = "accept" /\ chain' = <<"drop">> \o chain
    BY <1>6, GoesTo DEF InsertBan, InsertOnTop, SetupSteps
  <2>2. Has(chain', "drop")
    BY <1>1, <2>1, TopOfChain
  <2> QED  BY <2>1, <2>2 DEF CalmInv
<1>7. ASSUME NEW ok \in BOOLEAN, ListForAccept(ok) PROVE CalmInv'
  <2>1. /\ Goes("accept", IF ok /\ RuleExists("accept") THEN "number accept"
                          ELSE "insert accept")
        /\ chain' = chain /\ calm
    BY <1>7 DEF ListForAccept, List
  <2>2. /\ setup.step = "accept"
        /\ setup'.step = "insert accept" \/ (setup'.step = "number accept" /\ RuleExists("accept"))
    BY <2>1, GoesTo DEF SetupSteps
  <2>3. RuleExists("accept") => Has(chain', "accept")
    BY <1>1, <2>1, RuleNumberIsFirst
  <2> QED  BY <2>1, <2>2, <2>3 DEF CalmInv
<1>8. ASSUME NEW ok \in BOOLEAN, NumberAccept(ok) PROVE CalmInv'
  <2>1. /\ setup.step = "number accept" /\ calm /\ ok /\ chain' = chain
        /\ setup'.step = "number drop" /\ setup'.number = RuleNumber("accept")
    BY <1>8 DEF NumberAccept
  <2>2. Has(chain, "accept") /\ Has(chain, "drop")
    BY <2>1 DEF CalmInv
  <2>3. IsFirst(chain', "accept", setup'.number)
    BY <1>1, <2>1, <2>2, RuleNumberIsFirst
  <2> QED  BY <2>1, <2>2, <2>3 DEF CalmInv
<1>9. ASSUME NEW ok \in BOOLEAN, NumberDrop(ok) PROVE CalmInv'
  <2>1. /\ Goes("number drop", IF IsBehind(setup.number, RuleNumber("drop"))
                              THEN "delete accept" ELSE "up")
        /\ calm /\ chain' = chain
    BY <1>9 DEF NumberDrop
  <2>2. /\ setup.step = "number drop"
        /\ setup'.step = IF IsBehind(setup.number, RuleNumber("drop"))
                         THEN "delete accept" ELSE "up"
    BY <2>1, GoesTo DEF SetupSteps
  <2>3. /\ Has(chain, "accept") /\ Has(chain, "drop") /\ IsFirst(chain, "accept", setup.number)
    BY <2>1, <2>2 DEF CalmInv
  <2>4. setup'.step = "up" => Leads(chain, "accept", "drop")
    <3>1. RuleNumber("drop") \in Nat /\ RuleNumber("drop") > 0 /\ setup.number > 0
      BY <1>1, <2>3, RuleNumberIsFirst DEF IsFirst
    <3>2. setup'.step = "up" => ~(setup.number >= RuleNumber("drop"))
      BY <2>2, <3>1 DEF IsBehind
    <3> QED  BY <1>1, <2>3, <3>2, LowerLeads
  <2> QED  BY <2>1, <2>2, <2>3, <2>4 DEF CalmInv
<1>10. ASSUME NEW ok \in BOOLEAN, DeleteAccept(ok) PROVE CalmInv'
  <2>1. /\ setup.step = "delete accept" /\ setup'.step = "insert accept"
        /\ DeleteRule("accept", ok) /\ calm
    BY <1>10, GoesTo DEF DeleteAccept, SetupSteps
  <2>2. Has(chain, "drop")
    BY <2>1 DEF CalmInv
  <2>3. Has(chain', "drop")
    BY <1>1, <2>1, <2>2, DeletedRule
  <2> QED  BY <2>1, <2>3 DEF CalmInv
<1>11. ASSUME NEW ok \in BOOLEAN, InsertAccept(ok) PROVE CalmInv'
  <2>1. /\ setup.step = "insert accept" /\ setup'.step = "up" /\ calm
        /\ chain' = <<"accept">> \o chain
    BY <1>11, GoesTo DEF InsertAccept, InsertOnTop, SetupSteps
  <2>2. Has(chain, "drop")
    BY <2>1 DEF CalmInv
  <2>3. /\ Has(chain', "drop") /\ Has(chain', "accept") /\ chain'[1] = "accept"
        /\ chain' \in Seq(Rule)
    BY <1>1, <2>1, <2>2, AcceptOnTop
  <2>4. Leads(chain', "accept", "drop")
    <3>1. Len(chain') \in Nat /\ 1 \in 1..Len(chain')
      BY <2>3 DEF Has
    <3>2. \A j \in 1..Len(chain') : chain'[j] = "drop" => 1 < j
      BY <2>3
    <3> QED  BY <2>3, <3>1, <3>2 DEF Leads
  <2> QED  BY <2>1, <2>3, <2>4 DEF CalmInv
<1>12. ASSUME NEW ok \in BOOLEAN, RemoveBan(ok) \/ RemoveAccept(ok) PROVE CalmInv'
  <2>1. setup'.step \in {"remove accept", "removed"}
    BY <1>12, GoesTo DEF RemoveBan, RemoveAccept, SetupSteps
  <2> QED  BY <2>1 DEF CalmInv
<1> QED  BY <1>2, <1>3, <1>4, <1>5, <1>6, <1>7, <1>8, <1>9, <1>10, <1>11, <1>12
         DEF FirewallNext

\* The invariant says what RulesInOrder says.
LEMMA FirewallInvOrder == FirewallInv => RulesInOrder
<1> SUFFICES ASSUME FirewallInv PROVE RulesInOrder
  OBVIOUS
<1>1. chain \in Seq(Rule) /\ RepeatInv /\ CalmInv
  BY DEF FirewallInv, FirewallTypeOK
<1>2. RulesGo
  <2>1. /\ RuleExists("accept") <=> Has(chain, "accept")
        /\ RuleExists("drop") <=> Has(chain, "drop")
    BY <1>1, RuleNumberIsFirst
  <2> QED  BY <1>1, <2>1 DEF RulesGo, RepeatInv
<1>3. ASSUME setup.step = "up", calm
      PROVE  /\ RuleExists("accept") /\ RuleExists("drop")
             /\ RuleNumber("accept") < RuleNumber("drop")
  <2>1. Has(chain, "accept") /\ Has(chain, "drop") /\ Leads(chain, "accept", "drop")
    BY <1>1, <1>3 DEF CalmInv
  <2>2. /\ RuleExists("accept") /\ RuleExists("drop")
        /\ IsFirst(chain, "accept", RuleNumber("accept"))
        /\ IsFirst(chain, "drop", RuleNumber("drop"))
    BY <1>1, <2>1, RuleNumberIsFirst
  <2>3. PICK n \in 1..Len(chain) : /\ chain[n] = "accept"
                                   /\ \A j \in 1..Len(chain) : chain[j] = "drop" => n < j
    BY <2>1 DEF Leads
  <2>4. RuleNumber("accept") <= n /\ n < RuleNumber("drop")
    BY <2>2, <2>3 DEF IsFirst
  <2>5. RuleNumber("accept") \in Nat /\ RuleNumber("drop") \in Nat /\ n \in Nat
    BY <1>1, RuleNumberIsFirst
  <2> QED  BY <2>2, <2>4, <2>5
<1> QED  BY <1>2, <1>3 DEF RulesInOrder, WhitelistMatchesFirst

\* Whatever the agent finds in the chain, and however its commands fail, it is killed and
\* others change the chain: after a start in which nothing failed and nobody came the
\* whitelist is matched before the blacklist, and after a shutdown none of the agent's
\* rules is left that a failure had not put there twice (EnsureWhitelistAcceptRule,
\* RemoveBanRule).
THEOREM WhitelistBeforeBlacklist == FirewallSpec => []RulesInOrder
<1>1. FirewallInv /\ [FirewallNext]_firewallVars => FirewallInv'
  <2> SUFFICES ASSUME FirewallInv, [FirewallNext]_firewallVars PROVE FirewallInv'
    OBVIOUS
  <2>1. CASE FirewallNext
    BY <2>1, FirewallTypeStep, RepeatStep, CalmStep DEF FirewallInv
  <2>2. CASE UNCHANGED firewallVars
    BY <2>2 DEF FirewallInv, FirewallTypeOK, RepeatInv, CalmInv, firewallVars
  <2> QED  BY <2>1, <2>2
<1> QED  BY <1>1, InitFirewall, FirewallInvOrder, PTL DEF FirewallSpec
=============================================================================
