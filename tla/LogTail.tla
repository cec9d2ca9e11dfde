------------------------------ MODULE LogTail ------------------------------
(***************************************************************************)
(* The tail of one log file (logparser/tail.go) and the file it follows.   *)
(* The server appends lines, its log is rotated (renamed, and reopened     *)
(* later) or truncated in place; the tail polls, reads the new lines into  *)
(* a bounded channel and notes how far it came; the process is cancelled,  *)
(* killed and started again.  A file is a sequence of cells: a line has    *)
(* two, of which the second ends it, so that a half line can be read.      *)
(***************************************************************************)
EXTENDS Integers, Sequences, FiniteSets

CONSTANTS MaxLines,        \* bound on the lines written
          MaxFiles,        \* bound on the files the log is reopened as
          QueueSize,       \* capacity of the channel of events
          MaxStarts        \* bound on the starts of the process

ASSUME TailAssumption ==
    /\ MaxLines \in Nat /\ MaxFiles \in Nat \ {0} /\ QueueSize \in Nat \ {0}
    /\ MaxStarts \in Nat

VARIABLES path,            \* the inode at the path, or 0
          writer,          \* the inode the server writes to
          content,         \* inode -> cells
          line,            \* the last line begun: its number, and whether it ended
          tail,            \* the Tail: see Stopped
          saved,           \* the state file: inode and offset
          queue,           \* the channel of events
          fate,            \* line -> how often it was sent and dropped; whether it was
                           \* cut, and whether it was read astray
          passedBy,        \* lines that a change of the file made the tail pass by
          starts,          \* starts of the process
          marks            \* what befell the log and the tail: "truncated", "killed"

tailVars == <<path, writer, content, line, tail, saved, queue, fate, passedBy, starts, marks>>

Stopped == [step |-> "down", inode |-> 0, offset |-> 0, fd |-> 0, cancelled |-> FALSE,
            stat |-> [inode |-> 0, size |-> 0], rotated |-> FALSE]

Up == tail.step # "down"

Size(i) == Len(content[i])

\* The cells of the next complete line of the open file.
LineEnds == {k \in (tail.offset + 1)..Size(tail.fd) : content[tail.fd][k].ends}

NextEnd == CHOOSE k \in LineEnds : \A j \in LineEnds : k <= j

\* The number of that line, or 0 if the offset lies within a line: such a rest has
\* no known format.
NextLine ==
    LET first == content[tail.fd][tail.offset + 1]
    IN  IF NextEnd = tail.offset + 2 /\ first.line = content[tail.fd][NextEnd].line
        THEN first.line ELSE 0

Untold == [sent |-> 0, dropped |-> 0, cut |-> FALSE, astray |-> FALSE]
-----------------------------------------------------------------------------
TailInit ==
    /\ path = 1 /\ writer = 1
    /\ content = [i \in 1..MaxFiles |-> <<>>]
    /\ line = [n |-> 0, ended |-> TRUE]
    /\ tail = Stopped
    /\ saved = [inode |-> 0, offset |-> 0]
    /\ queue = <<>>
    /\ fate = [n \in 1..MaxLines |-> Untold]
    /\ passedBy = {} /\ starts = 0 /\ marks = {}

\* The server writes a line, a half of one, or the rest.
AppendLine(ended) ==
    /\ line' = [n |-> IF line.ended THEN line.n + 1 ELSE line.n, ended |-> ended]
    /\ line.ended => line.n < MaxLines
    /\ ~line.ended => ended
    /\ content' = [content EXCEPT ![writer] =
          @ \o (IF line.ended THEN <<[line |-> line'.n, ends |-> FALSE]>> ELSE <<>>)
            \o (IF ended THEN <<[line |-> line'.n, ends |-> TRUE]>> ELSE <<>>)]
    /\ UNCHANGED <<path, writer, tail, saved, queue, fate, passedBy, starts, marks>>

\* Rotation: the file is renamed; the server goes on writing to it until it reopens.
Rename ==
    /\ path # 0 /\ path = writer /\ path < MaxFiles
    /\ path' = 0
    /\ UNCHANGED <<writer, content, line, tail, saved, queue, fate, passedBy, starts, marks>>

Reopen ==
    /\ path = 0 /\ line.ended
    /\ path' = writer + 1 /\ writer' = writer + 1
    /\ UNCHANGED <<content, line, tail, saved, queue, fate, passedBy, starts, marks>>

\* copytruncate.
Truncate ==
    /\ path # 0 /\ path = writer /\ line.ended /\ content[path] # <<>>
    /\ "truncated" \notin marks
    /\ content' = [content EXCEPT ![path] = <<>>]
    /\ marks' = marks \cup {"truncated"}
    /\ UNCHANGED <<path, writer, line, tail, saved, queue, fate, passedBy, starts>>

\* Run loads the state file.
StartTail ==
    /\ ~Up /\ starts < MaxStarts
    /\ tail' = [Stopped EXCEPT !.step = "idle", !.inode = saved.inode, !.offset = saved.offset]
    /\ starts' = starts + 1
    /\ UNCHANGED <<path, writer, content, line, saved, queue, fate, passedBy, marks>>

\* pollOnce: the file is looked at before the lock is taken.
Stat ==
    /\ tail.step = "idle" /\ ~tail.cancelled /\ path # 0
    /\ tail' = [tail EXCEPT !.step = "poll", !.stat = [inode |-> path, size |-> Size(path)]]
    /\ UNCHANGED <<path, writer, content, line, saved, queue, fate, passedBy, starts, marks>>

\* readNewLocked begins, if the file looked longer than what was read of it.
Reading(t) == [t EXCEPT !.step = IF t.stat.size <= t.offset THEN "idle" ELSE "read"]

\* A rotation is seen by the inode; where there is none, by the size, as on Windows.
Rewound(t) == [t EXCEPT !.inode = 0, !.offset = 0, !.rotated = TRUE]

\* Mutant: a rotation is seen by the size alone.
IsRotatedBySize == tail.stat.size < tail.offset

IsRotated == tail.inode > 0 /\ tail.stat.inode # tail.inode

\* openAndReadLocked: what is at the path now, noted as the inode that was looked at.
Opened(t) == Reading([t EXCEPT !.fd = path, !.inode = t.stat.inode,
                               !.offset = IF @ > t.stat.size THEN 0 ELSE @])

\* What the tail passes by as it opens file p in the place of the one it noted: the rest
\* of that file, the files between, and what lies before the offset in p.
IsPassedBy(i, k, p, offset) ==
    \/ i < p /\ (i > tail.inode \/ (i = tail.inode /\ k > tail.offset))
    \/ i = p /\ i # tail.inode /\ k <= offset

LinesPassedBy(p, offset) ==
    {n \in 1..MaxLines : \E i \in 1..p : \E k \in 1..Size(i) :
                            content[i][k].line = n /\ IsPassedBy(i, k, p, offset)}

OpenAndRead(t) ==
    IF path = 0 THEN tail' = [t EXCEPT !.step = "idle", !.fd = 0] /\ UNCHANGED passedBy
    ELSE /\ tail' = Opened(t)
         /\ passedBy' = passedBy \cup LinesPassedBy(path, Opened(t).offset)

\* pollOnce under the lock.
Poll ==
    /\ tail.step = "poll"
    /\ IF tail.fd = 0 THEN OpenAndRead(tail)
       ELSE IF IsRotated THEN OpenAndRead(Rewound(tail))
            ELSE tail' = Reading(tail) /\ UNCHANGED passedBy
    /\ UNCHANGED <<path, writer, content, line, saved, queue, fate, starts, marks>>

Advanced == [tail EXCEPT !.offset = NextEnd, !.inode = tail.stat.inode]

\* Mutant: a dropped line is not counted.
ToldSilently(n, full) == IF full THEN fate ELSE [fate EXCEPT ![n].sent = @ + 1]

Told(n, full) ==
    [fate EXCEPT ![n].dropped = IF full THEN @ + 1 ELSE @, ![n].sent = IF full THEN @ ELSE @ + 1,
                 ![n].astray = @ \/ tail.fd # tail.inode]

\* readNewLocked takes one line: the offset moves on whatever becomes of it.
ReadLine ==
    /\ tail.step = "read" /\ ~tail.cancelled /\ LineEnds # {}
    /\ tail' = Advanced
    /\ LET full == Len(queue) = QueueSize
       IN  IF NextLine = 0 THEN UNCHANGED <<queue, fate>>
           ELSE /\ queue' = IF full THEN queue ELSE Append(queue, NextLine)
                /\ fate' = Told(NextLine, full)
    /\ UNCHANGED <<path, writer, content, line, saved, passedBy, starts, marks>>

\* sendEvent meets the cancellation, which may win over a channel with room.
CutLine ==
    /\ tail.step = "read" /\ ~tail.cancelled /\ LineEnds # {}
    /\ tail' = [Advanced EXCEPT !.cancelled = TRUE]
    /\ fate' = IF NextLine = 0 THEN fate ELSE [fate EXCEPT ![NextLine].cut = TRUE]
    /\ UNCHANGED <<path, writer, content, line, saved, queue, passedBy, starts, marks>>

\* The end of the file, or of a half line: the state is saved after a rotation, or
\* when ten seconds have passed.
EndRead(persist) ==
    /\ tail.step = "read"
    /\ IF tail.cancelled THEN ~persist ELSE LineEnds = {} /\ (tail.rotated => persist)
    /\ saved' = IF persist THEN [inode |-> tail.inode, offset |-> tail.offset] ELSE saved
    /\ tail' = [tail EXCEPT !.step = "idle", !.rotated = @ /\ ~persist]
    /\ UNCHANGED <<path, writer, content, line, queue, fate, passedBy, starts, marks>>

CancelTail ==
    /\ Up /\ ~tail.cancelled
    /\ tail' = [tail EXCEPT !.cancelled = TRUE]
    /\ UNCHANGED <<path, writer, content, line, saved, queue, fate, passedBy, starts, marks>>

\* Run ends and saves; what is in the channel ends with the process.
ExitTail ==
    /\ tail.step = "idle" /\ tail.cancelled
    /\ saved' = [inode |-> tail.inode, offset |-> tail.offset]
    /\ tail' = Stopped /\ queue' = <<>>
    /\ UNCHANGED <<path, writer, content, line, fate, passedBy, starts, marks>>

\* The process ends at once: killed, or main did not wait for Run.
KillTail ==
    /\ Up
    /\ tail' = Stopped /\ queue' = <<>>
    /\ marks' = marks \cup {"killed"}
    /\ UNCHANGED <<path, writer, content, line, saved, fate, passedBy, starts>>

\* The event loop takes an event.
TakeEvent ==
    /\ queue # <<>>
    /\ queue' = Tail(queue)
    /\ UNCHANGED <<path, writer, content, line, tail, saved, fate, passedBy, starts, marks>>

TailNext ==
    \/ \E ended \in BOOLEAN : AppendLine(ended)
    \/ Rename \/ Reopen \/ Truncate
    \/ StartTail \/ Stat \/ Poll \/ ReadLine \/ CutLine
    \/ \E persist \in BOOLEAN : EndRead(persist)
    \/ CancelTail \/ ExitTail \/ KillTail
    \/ TakeEvent

\* The poll ticker and the scheduler run the tail as long as the process lives.
TailFairness ==
    /\ WF_tailVars(Stat) /\ WF_tailVars(Poll) /\ WF_tailVars(ReadLine)
    /\ WF_tailVars(\E persist \in BOOLEAN : EndRead(persist))
    /\ WF_tailVars(ExitTail)

TailSpec == TailInit /\ [][TailNext]_tailVars /\ TailFairness
-----------------------------------------------------------------------------
\* The lines that lie, complete, within the first n cells of file i.
LinesOf(i, n) ==
    {content[i][k].line : k \in {j \in 2..n : content[i][j].ends
                                              /\ content[i][j - 1].line = content[i][j].line}}

IsTold(n) == fate[n].sent > 0 \/ fate[n].dropped > 0 \/ fate[n].cut

IsExcused(n) == IsTold(n) \/ n \in passedBy

\* Unless the log was truncated in place, every line that ended in a file the tail left,
\* or before the offset in the one it reads, was sent, counted as dropped, cut by the
\* cancellation, or passed by as the tail opened another file: the rest of a file that
\* was rotated away, a file that came and went between two looks, and what lies before
\* an offset that was saved of another file (a rotation while the process was down).
\* This holds across restarts.
NoLineSkipped ==
    "truncated" \notin marks /\ tail.fd # 0 =>
        /\ \A i \in 1..(tail.fd - 1) : \A n \in LinesOf(i, Size(i)) : IsExcused(n)
        /\ tail.fd = tail.inode => \A n \in LinesOf(tail.fd, tail.offset) : IsExcused(n)

\* What the last look found in the open file has been read when the tail rests: so a
\* rotation costs no line that was there at the look before it.
LooksAreRead ==
    "truncated" \notin marks /\ tail.step = "idle" /\ ~tail.cancelled /\ tail.fd # 0
    /\ tail.fd = tail.stat.inode
    => LinesOf(tail.fd, tail.stat.size) \subseteq LinesOf(tail.fd, tail.offset)

\* No line is told of twice across rotations and orderly restarts, unless the file
\* was replaced between the look at the path and its opening when it was first read.
ToldOnce ==
    marks \cap {"truncated", "killed"} = {} =>
        \A n \in 1..MaxLines : fate[n].sent + fate[n].dropped <= 1 \/ fate[n].astray

\* Every line of a log that stays at its path is told of in the end, if the process
\* lives and its offset is not of another file.
LinesArrive ==
    \A n \in 1..MaxLines :
        <>[](/\ Up /\ path # 0 /\ n \in LinesOf(path, Size(path))
             /\ n \notin passedBy /\ "truncated" \notin marks)
        => <>IsTold(n)

\* Whatever rotation, a full channel, cancellation and restarts do, the tail passes over
\* lines in the listed cases only, a rotation costs no line that was seen, and no line is
\* told of twice outside the listed cases.
LinesOnce == NoLineSkipped /\ LooksAreRead /\ ToldOnce

=============================================================================
