------------------------------- MODULE Paths -------------------------------
(***************************************************************************)
(* Request paths (detector/decode.go, detector/window.go).  A path as it   *)
(* stands in the log is a sequence of tokens: a separator "/" or "\", the  *)
(* dots "." and "..", the "?" of a query, a "%" that begins no escape, or  *)
(* a name.  Each token may be written in encodings, outermost first;       *)
(* letters are lower case.                                                 *)
(***************************************************************************)
EXTENDS Integers, Sequences, FiniteSetsExt, SequencesExt

CONSTANTS SkipPaths,       \* detector.skip_paths: sequences of tokens, abs if they begin with "/"
          HoneypotPaths,   \* detector.honeypot_paths
          SensitivePaths,  \* keywords: sequences of names, one name or several
          DangerousNames,  \* what stands for the dangerous patterns
          VariableNames    \* the names that look like identifiers (isVariablePathSeg)

Separators == {"/", "\\"}

Plain(t) == t.enc = <<>>

IsSep(t) == t.t \in Separators /\ Plain(t)
-----------------------------------------------------------------------------
Strip(enc, kind) == IF enc # <<>> /\ Head(enc) = kind THEN Tail(enc) ELSE enc

Undo(p, kind) == [i \in DOMAIN p |-> [p[i] EXCEPT !.enc = Strip(@, kind)]]

\* PathUnescape and QueryUnescape: one percent sign that begins no escape is an
\* error, and the whole path stays as it is.
IsMalformedEscape(p) == \E i \in DOMAIN p : p[i].t = "%" /\ Plain(p[i])

Unescape(p) == IF IsMalformedEscape(p) THEN p ELSE Undo(p, "url")

\* decodeOnce: percent escapes twice, then the others.
DecodeOnce(p) == Undo(Undo(Undo(Unescape(Unescape(p)), "unicode"), "hex"), "html")

\* Mutant: a single round, which leaves nested encodings.
DecodePathOnce(p) == DecodeOnce(p)

\* decodePath: three rounds; to stop early when nothing changes makes no difference.
DecodePath(p) == DecodeOnce(DecodeOnce(DecodeOnce(p)))

\* containsTraversalPattern: dots between separators, or "%2e%2e" anywhere.
TraversalPattern(p) ==
    \E i \in DOMAIN p :
        /\ p[i].t = ".."
        /\ \/ /\ Plain(p[i])
              /\ i = 1 \/ IsSep(p[i - 1])
              /\ i = Len(p) \/ IsSep(p[i + 1])
           \/ p[i].enc = <<"url">>

\* containsPathTraversalIndicator: also between up to three times three rounds.
TraversalIndicator(p) ==
    \/ TraversalPattern(p)
    \/ TraversalPattern(DecodePath(p))
    \/ TraversalPattern(DecodePath(DecodePath(p)))
    \/ TraversalPattern(DecodePath(DecodePath(DecodePath(p))))

\* What lies between separators: sequences of tokens, as a token that is still
\* encoded may stand beside others.
Segments(p) ==
    FoldLeft(LAMBDA segs, t : IF IsSep(t) THEN Append(segs, <<>>)
                              ELSE [segs EXCEPT ![Len(segs)] = Append(@, t)],
             <<<<>>>>, p)

IsDots(seg, d) == Len(seg) = 1 /\ Plain(seg[1]) /\ seg[1].t = d

\* path.Clean of an absolute path: the external library resolves the dots and
\* drops empty segments.
Clean(p) ==
    FoldLeft(LAMBDA out, seg : IF seg = <<>> \/ IsDots(seg, ".") THEN out
                               ELSE IF ~IsDots(seg, "..") THEN Append(out, seg)
                               ELSE IF out = <<>> THEN out ELSE Front(out),
             <<>>, Segments(p))

\* A cleaned path keeps its last slash; "/" alone ends with one.
Cleaned(p) ==
    [segs |-> Clean(p), slash |-> IsSep(Last(p)) \/ Clean(p) = <<>>]

\* The query is cut off before the path is decoded.
WithoutQuery(p) ==
    LET marks == {i \in DOMAIN p : p[i].t = "?" /\ Plain(p[i])}
    IN  IF marks = {} THEN p ELSE SubSeq(p, 1, Min(marks) - 1)

\* normalizeRequestPath.
Normalize(p) ==
    IF WithoutQuery(p) = <<>> THEN [segs |-> <<>>, slash |-> FALSE]
    ELSE Cleaned(DecodePath(WithoutQuery(p)))

\* The cleaned path written again, as Process puts it into the event.
Written(c) ==
    LET slash == <<[t |-> "/", enc |-> <<>>]>>
    IN  FoldLeft(LAMBDA out, seg : out \o slash \o seg, <<>>, c.segs)
            \o IF c.slash THEN slash ELSE <<>>
-----------------------------------------------------------------------------
\* sanitizeSkipPaths: a list may only hold absolute paths without dots.
Sanitize(list) ==
    {Cleaned(p) : p \in {q \in list : q # <<>> /\ IsSep(q[1]) /\ \A i \in DOMAIN q : q[i].t # ".."}}

\* An entry that ends with a slash stands for everything below it.
Listed(list, c) ==
    \E e \in Sanitize(list) :
        IF e.slash THEN IsPrefix(e.segs, c.segs) /\ (Len(c.segs) > Len(e.segs) \/ c.slash)
        ELSE c = e

ShouldSkipPath(p) == Listed(SkipPaths, Normalize(p))

IsHoneypotPath(p) == Listed(HoneypotPaths, Normalize(p))

\* hitSensitivePath: a keyword of one name must be a whole segment.
HitSensitivePath(c) ==
    \E kw \in SensitivePaths : \E i \in 0..(Len(c.segs) - Len(kw)) :
        \A j \in DOMAIN kw : c.segs[i + j] = <<[t |-> kw[j], enc |-> <<>>]>>

\* hitDangerousPattern: patterns are looked for in the decoded path.
HitDangerousPattern(p) == \E i \in DOMAIN p : p[i].t \in DangerousNames /\ Plain(DecodePath(p)[i])

\* normalize404Path: identifiers are all alike, and four segments tell paths apart.
Base404(c) ==
    LET first == SubSeq(c.segs, 1, IF Len(c.segs) < 4 THEN Len(c.segs) ELSE 4)
    IN  [i \in DOMAIN first |->
            IF Len(first[i]) = 1 /\ first[i][1].t \in VariableNames
            THEN <<[t |-> "{id}", enc |-> <<>>]>> ELSE first[i]]
-----------------------------------------------------------------------------
\* Up to three levels of encoding are undone in any order of their kinds; an
\* encoded "?" would become a query when the path is normalised again.  A single
\* percent sign that begins no escape keeps every other percent escape of the path
\* from being undone: nothing is promised of such a path.
Readable(p) ==
    \A i \in DOMAIN p : /\ Len(p[i].enc) <= 3 /\ p[i].t # "%"
                        /\ p[i].t = "?" => Plain(p[i])

Spelled(p) == [i \in DOMAIN p |-> [p[i] EXCEPT !.enc = <<>>]]

\* A path is skipped or is a honeypot whichever way it is spelled: dots, slashes
\* and names in up to three levels of encodings decide as their plain form does, if
\* every percent sign begins an escape.
SpellingIsIrrelevant(p) ==
    Readable(p) => /\ ShouldSkipPath(p) = ShouldSkipPath(Spelled(p))
                   /\ IsHoneypotPath(p) = IsHoneypotPath(Spelled(p))

\* Process stores the normalised path and the lists normalise it again: that
\* changes no answer, if every percent sign begins an escape.
NormalizeTwice(p) ==
    Readable(p) => Normalize(Written(Normalize(p))) = Normalize(p)

\* The dots that a normalised path no longer has were noticed: a path of which
\* some segment climbs, spelled in whatever way without a percent sign that begins no
\* escape, is marked as an attempt.
TraversalIsSeen(p) ==
    Readable(p) /\ (\E i \in DOMAIN Segments(Spelled(p)) : IsDots(Segments(Spelled(p))[i], ".."))
        => TraversalIndicator(p)
=============================================================================
