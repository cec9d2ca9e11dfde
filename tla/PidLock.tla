------------------------------- MODULE PidLock ------------------------------
(***************************************************************************)
(* The single-instance lock (agent/internal/pidlock): Acquire and Release  *)
(* of processes that main.go starts and ends at any time, one step per     *)
(* system call.  flock belongs to the open file, so it locks an inode; the *)
(* path names one inode after another, because Release removes the file.   *)
(***************************************************************************)
EXTENDS Integers, FiniteSets

CONSTANTS
    Process,
    MaxInode,   \* bound: how often the file may be created
    MayRelease, \* may a process end by Release, or is it always killed?
    MayMove     \* may /run/wardennet become writable, or stop being so?

NoOne == "no one"

ASSUME LockAssumption ==
    /\ MaxInode \in Nat /\ {MayRelease, MayMove} \subseteq BOOLEAN
    /\ NoOne \notin Process

Path == {"run", "tmp"}   \* defaultPidFile, and the file in fallbackDir
NoFile == 0

VARIABLES
    runDir,  \* is the directory of defaultPidFile writable?
    file,    \* the inode each path names, or NoFile
    inodes,  \* how many inodes there have been
    pid,     \* what each inode contains: a process, or nothing
    flock,   \* the process that holds the lock of each inode, or none
    proc,    \* each process: how far it is, its path and its open inode
    replaced \* history: has the file been removed, or the directory changed?

lockVars == <<runDir, file, inodes, pid, flock, proc, replaced>>

Inode == 1 .. MaxInode
Down == [at |-> "down", path |-> "run", inode |-> NoFile]

LockInit ==
    /\ runDir \in BOOLEAN
    /\ file = [path \in Path |-> NoFile]
    /\ inodes = 0
    /\ pid = [i \in Inode |-> NoOne]
    /\ flock = [i \in Inode |-> NoOne]
    /\ proc = [p \in Process |-> Down]
    /\ replaced = FALSE

-----------------------------------------------------------------------------
(* Acquire. *)

ResolvePidFile(p) ==
    /\ proc[p].at = "down"
    /\ proc' = [proc EXCEPT ![p].at = "resolved",
                            ![p].path = IF runDir THEN "run" ELSE "tmp"]
    /\ UNCHANGED <<runDir, file, inodes, pid, flock, replaced>>

\* O_CREATE: the file may have to be made.
Open(p) ==
    LET path == proc[p].path
    IN  /\ proc[p].at = "resolved"
        /\ \/ file[path] # NoFile /\ UNCHANGED <<file, inodes>>
           \/ /\ file[path] = NoFile /\ inodes < MaxInode
              /\ inodes' = inodes + 1
              /\ file' = [file EXCEPT ![path] = inodes + 1]
        /\ proc' = [proc EXCEPT ![p].at = "opened", ![p].inode = file'[path]]
        /\ UNCHANGED <<runDir, pid, flock, replaced>>

\* Mutant: the result of Flock is not looked at.
FlockUnchecked(p) ==
    LET i == proc[p].inode
    IN  /\ proc[p].at = "opened"
        /\ flock' = IF flock[i] = NoOne THEN [flock EXCEPT ![i] = p] ELSE flock
        /\ proc' = [proc EXCEPT ![p].at = "locked"]
        /\ UNCHANGED <<runDir, file, inodes, pid, replaced>>

\* LOCK_EX | LOCK_NB: the process ends if another one has the lock.
Flock(p) ==
    LET i == proc[p].inode
    IN  /\ proc[p].at = "opened"
        /\ IF flock[i] = NoOne
           THEN flock' = [flock EXCEPT ![i] = p] /\ proc' = [proc EXCEPT ![p].at = "locked"]
           ELSE proc' = [proc EXCEPT ![p] = Down] /\ UNCHANGED flock
        /\ UNCHANGED <<runDir, file, inodes, pid, replaced>>

\* Mutant: a pid that is already there is kept.
WritePidOnce(p) ==
    /\ proc[p].at = "locked"
    /\ pid' = IF pid[proc[p].inode] = NoOne THEN [pid EXCEPT ![proc[p].inode] = p] ELSE pid
    /\ proc' = [proc EXCEPT ![p].at = "running"]
    /\ UNCHANGED <<runDir, file, inodes, flock, replaced>>

\* Truncate and write; Acquire returns.
WritePid(p) ==
    /\ proc[p].at = "locked"
    /\ pid' = [pid EXCEPT ![proc[p].inode] = p]
    /\ proc' = [proc EXCEPT ![p].at = "running"]
    /\ UNCHANGED <<runDir, file, inodes, flock, replaced>>

-----------------------------------------------------------------------------
(* Release, and the end of a process. *)

Without(p) == [i \in Inode |-> IF flock[i] = p THEN NoOne ELSE flock[i]]

\* Mutant: Release only removes the file.
UnlockNothing(p) ==
    /\ MayRelease
    /\ proc[p].at = "running"
    /\ proc' = [proc EXCEPT ![p].at = "unlocked"]
    /\ UNCHANGED <<runDir, file, inodes, pid, flock, replaced>>

\* Release unlocks and closes the file first ...
Unlock(p) ==
    /\ MayRelease
    /\ proc[p].at = "running"
    /\ flock' = Without(p)
    /\ proc' = [proc EXCEPT ![p].at = "unlocked"]
    /\ UNCHANGED <<runDir, file, inodes, pid, replaced>>

\* ... and then removes whatever the path names.
Remove(p) ==
    /\ proc[p].at = "unlocked"
    /\ file' = [file EXCEPT ![proc[p].path] = NoFile]
    /\ proc' = [proc EXCEPT ![p] = Down]
    /\ replaced' = TRUE
    /\ UNCHANGED <<runDir, inodes, pid, flock>>

\* kill -9: the kernel releases the lock, and the file stays.
Kill(p) ==
    /\ proc[p].at # "down"
    /\ flock' = Without(p)
    /\ proc' = [proc EXCEPT ![p] = Down]
    /\ UNCHANGED <<runDir, file, inodes, pid, replaced>>

\* The directory of defaultPidFile is created, or loses its permissions.
Move ==
    /\ MayMove
    /\ runDir' = ~runDir
    /\ replaced' = TRUE
    /\ UNCHANGED <<file, inodes, pid, flock, proc>>

Acquire(p) == ResolvePidFile(p) \/ Open(p) \/ Flock(p) \/ WritePid(p)
Release(p) == Unlock(p) \/ Remove(p)

LockNext == Move \/ \E p \in Process : Acquire(p) \/ Release(p) \/ Kill(p)

LockSpec == LockInit /\ [][LockNext]_lockVars

-----------------------------------------------------------------------------
(* Properties. *)

LockTypeOK ==
    /\ runDir \in BOOLEAN
    /\ file \in [Path -> NoFile .. inodes]
    /\ inodes \in 0 .. MaxInode
    /\ replaced \in BOOLEAN
    /\ pid \in [Inode -> Process \cup {NoOne}]
    /\ flock \in [Inode -> Process \cup {NoOne}]
    /\ proc \in [Process -> [at : {"down", "resolved", "opened", "locked", "running",
                                   "unlocked"},
                             path : Path, inode : NoFile .. inodes]]
    /\ \A p \in Process : proc[p].at \in {"opened", "locked", "running"}
                              => proc[p].inode # NoFile

\* Whatever name the file has, and however the processes end, an inode is locked
\* by p exactly while p is past Flock with that inode open: no dead process keeps
\* the agent from starting (the crash that the comment of Acquire speaks of).
LockIsHeld ==
    \A i \in Inode, p \in Process :
        flock[i] = p <=> proc[p].inode = i /\ proc[p].at \in {"locked", "running"}

Running == {p \in Process : proc[p].at = "running"}

\* No two agents run at once (the lock of main.go, before any side effect).
SingleInstance == Cardinality(Running) <= 1

\* As long as no Release has removed the file and no directory has changed, no
\* two agents run at once, in whatever order they start, fail and are killed.
SingleWhileFileStays == ~replaced => Cardinality(Running) <= 1

\* As long as the file stays, the one an operator finds at the agent's path names
\* the agent that runs (design point 3 of pidlock.go).
PidNamesAgent ==
    ~replaced => \A p \in Running :
                     file[proc[p].path] # NoFile /\ pid[file[proc[p].path]] = p
=============================================================================
