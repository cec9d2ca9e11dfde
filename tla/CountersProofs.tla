--------------------------- MODULE CountersProofs ---------------------------
(***************************************************************************)
(* Proofs about what the detector counts and learns over time, for any     *)
(* number of addresses, windows and requests: the identifiers an address   *)
(* asks for (ResourceBaseline), the ports it is seen at (PortScan) and     *)
(* what is usual (Baseline).                                               *)
(***************************************************************************)
EXTENDS ResourceBaseline, PortScan, Baseline, FiniteSetTheorems, SequenceTheorems,
        WellFoundedInduction, TLAPS

\* The image of a finite set is finite.
LEMMA ImageFinite ==
    ASSUME NEW S, IsFiniteSet(S), NEW f, DOMAIN f = S
    PROVE  IsFiniteSet({f[x] : x \in S})
PROOF
<1> DEFINE T == {f[x] : x \in S}
<1>1. [x \in S |-> f[x]] \in Surjection(S, T)
  BY DEF Surjection
<1> QED BY <1>1, FS_Surjection
-----------------------------------------------------------------------------
(* The identifiers of an address: ResourceSpec => []WalksAreCounted. *)

\* Check d was of address a and of a path that pattern p matches.
Asks(d, a, p) == d.ip = a /\ Matches[d.path][p] # NoId

\* No earlier check of cs asked for the identifier within the window of d.
IsFirst(cs, d, p) ==
    \A e \in cs : e.ip = d.ip /\ e.n < d.n /\ Matches[e.path][p] = Matches[d.path][p]
                     => e.sec <= d.sec - WindowSecs[p]

\* The checks that the window of a and p should hold an identifier for.
LiveFirst(cs, a, p, sec) ==
    {d \in cs : Asks(d, a, p) /\ d.sec > sec - WindowSecs[p] /\ IsFirst(cs, d, p)}

\* The identifiers f of a window hold that of check d.
Holds(f, d, p) == Matches[d.path][p] \in DOMAIN f /\ f[Matches[d.path][p]] = d.sec

Lost(cs, f, a, p, sec) == {d \in LiveFirst(cs, a, p, sec) : ~Holds(f, d, p)}

\* The window of a and p, f its identifiers: an identifier comes from a check; the
\* identifier of one check at most is lost, and while it is, a window that was made since
\* holds one that is not older, so that it is not emptied while the lost one counts.
KeepsAll(cs, f, made, a, p, sec) ==
    /\ IsFiniteSet(DOMAIN f)
    /\ ~made => DOMAIN f = {}
    /\ \A x \in DOMAIN f :
          \E d \in cs : Asks(d, a, p) /\ Matches[d.path][p] = x /\ d.sec = f[x]
    /\ made => \A d \in Lost(cs, f, a, p, sec) : \E x \in DOMAIN f : f[x] >= d.sec
    /\ \A d, e \in Lost(cs, f, a, p, sec) : d = e

\* The checks of the past.
Past(cs, sec) ==
    /\ sec \in Nat
    /\ \A d \in cs : d.n \in Nat /\ d.sec \in Nat /\ d.sec <= sec

\* Time only takes checks out of the windows.
LEMMA KeepsLater ==
    ASSUME NEW cs, NEW f, NEW made, NEW a, NEW p \in Patterns, NEW sec, NEW later \in Nat,
           Past(cs, sec), sec <= later, WindowSecs[p] \in Nat,
           KeepsAll(cs, f, made, a, p, sec)
    PROVE  KeepsAll(cs, f, made, a, p, later)
PROOF
<1>1. LiveFirst(cs, a, p, later) \subseteq LiveFirst(cs, a, p, sec)
  BY DEF LiveFirst, Past
<1>2. Lost(cs, f, a, p, later) \subseteq Lost(cs, f, a, p, sec)
  BY <1>1 DEF Lost
<1> QED BY <1>2 DEF KeepsAll

\* What pruning drops counts no more.
LEMMA KeepsPruned ==
    ASSUME NEW cs, NEW f, NEW made, NEW a, NEW p \in Patterns, NEW sec, NEW g,
           Past(cs, sec), WindowSecs[p] \in Nat,
           KeepsAll(cs, f, made, a, p, sec),
           g = Live(f, WindowSecs[p], sec)
    PROVE  KeepsAll(cs, g, made, a, p, sec)
PROOF
<1>1. DOMAIN g = {i \in DOMAIN f : f[i] > sec - WindowSecs[p]}
  BY DEF Live
<1>2. \A i \in DOMAIN g : g[i] = f[i]
  BY DEF Live
<1>3. Lost(cs, g, a, p, sec) \subseteq Lost(cs, f, a, p, sec)
  <2> SUFFICES ASSUME NEW d \in LiveFirst(cs, a, p, sec), Holds(f, d, p) PROVE Holds(g, d, p)
    BY DEF Lost
  <2>1. d.sec > sec - WindowSecs[p]
    BY DEF LiveFirst
  <2> QED BY <2>1, <1>1, <1>2 DEF Holds
<1>4. IsFiniteSet(DOMAIN g)
  BY <1>1, FS_Subset DEF KeepsAll
<1>5. ASSUME made, NEW d \in Lost(cs, g, a, p, sec)
      PROVE  \E x \in DOMAIN g : g[x] >= d.sec
  <2>1. PICK x \in DOMAIN f : f[x] >= d.sec
    BY <1>3, <1>5 DEF KeepsAll
  <2>2. d.sec > sec - WindowSecs[p] /\ d.sec \in Nat /\ sec \in Nat
    BY <1>5 DEF Lost, LiveFirst, Past
  <2>3. f[x] \in Nat
    BY DEF KeepsAll, Past
  <2>4. x \in DOMAIN g
    BY <2>1, <2>2, <2>3, <1>1
  <2> QED BY <2>1, <2>4, <1>2
<1> QED BY <1>1, <1>2, <1>3, <1>4, <1>5 DEF KeepsAll

\* A check of another address, or of a path that the pattern does not match.
LEMMA FirstStays ==
    ASSUME NEW cs, NEW d, NEW x \in cs, NEW p, d.n \in Nat,
           \A e \in cs : e.n \in Nat /\ e.n < d.n
    PROVE  IsFirst(cs \cup {d}, x, p) <=> IsFirst(cs, x, p)
PROOF
<1>1. ~(d.n < x.n)
  OBVIOUS
<1> QED BY <1>1 DEF IsFirst

LEMMA KeepsOthers ==
    ASSUME NEW cs, NEW f, NEW made, NEW a, NEW p \in Patterns, NEW sec, NEW d,
           d.n \in Nat, \A e \in cs : e.n \in Nat /\ e.n < d.n,
           ~Asks(d, a, p),
           KeepsAll(cs, f, made, a, p, sec)
    PROVE  KeepsAll(cs \cup {d}, f, made, a, p, sec)
PROOF
<1>1. \A x \in cs : IsFirst(cs \cup {d}, x, p) <=> IsFirst(cs, x, p)
  BY FirstStays
<1>2. LiveFirst(cs \cup {d}, a, p, sec) = LiveFirst(cs, a, p, sec)
  BY <1>1 DEF LiveFirst
<1>3. Lost(cs \cup {d}, f, a, p, sec) = Lost(cs, f, a, p, sec)
  BY <1>2 DEF Lost
<1> QED BY <1>3 DEF KeepsAll

\* The window counts the check.
LEMMA KeepsCounted ==
    ASSUME NEW cs, NEW f, NEW made, NEW a, NEW p \in Patterns, NEW sec, NEW d, NEW g,
           Past(cs, sec), WindowSecs[p] \in Nat,
           d.n \in Nat, \A e \in cs : e.n < d.n,
           Asks(d, a, p), d.sec = sec,
           KeepsAll(cs, f, made, a, p, sec),
           g = Added(Live(f, WindowSecs[p], sec), Matches[d.path][p], sec)
    PROVE  /\ KeepsAll(cs \cup {d}, g, TRUE, a, p, sec)
           /\ \A e \in Lost(cs \cup {d}, g, a, p, sec) : e \in Lost(cs, f, a, p, sec)
PROOF
<1> DEFINE w == WindowSecs[p]
           x == Matches[d.path][p]
<1>1. /\ \A i : i \in DOMAIN g <=> i = x \/ (i \in DOMAIN f /\ f[i] > sec - w)
      /\ \A i \in DOMAIN f : f[i] > sec - w => g[i] = f[i]
      /\ ~(x \in DOMAIN f /\ f[x] > sec - w) => g[x] = sec
      /\ IsFiniteSet(DOMAIN g)
  <2> DEFINE l == Live(f, w, sec)
             D == DOMAIN l
  <2>1. D = {i \in DOMAIN f : f[i] > sec - w} /\ \A i \in D : l[i] = f[i]
    BY DEF Live
  <2>2. DOMAIN g = D \cup {x} /\ \A i \in DOMAIN g : g[i] = IF i \in D THEN l[i] ELSE sec
    BY DEF Added
  <2>3. IsFiniteSet(D)
    BY <2>1, FS_Subset DEF KeepsAll
  <2> HIDE DEF l, D
  <2>4. IsFiniteSet(D \cup {x})
    BY <2>3, FS_AddElement
  <2> QED BY <2>1, <2>2, <2>4
<1>2. \A y \in cs : IsFirst(cs \cup {d}, y, p) <=> IsFirst(cs, y, p)
  BY FirstStays DEF Past
<1>3. \A i \in DOMAIN f : f[i] \in Nat
  BY DEF KeepsAll, Past
<1>4. ASSUME NEW e \in Lost(cs \cup {d}, g, a, p, sec) PROVE e \in Lost(cs, f, a, p, sec)
  <2>1. e \in cs \cup {d} /\ Asks(e, a, p) /\ e.sec > sec - w /\ IsFirst(cs \cup {d}, e, p)
        /\ ~Holds(g, e, p)
    BY <1>4 DEF Lost, LiveFirst
  <2>2. e \in cs
    <3> SUFFICES ASSUME e = d PROVE FALSE
      BY <2>1
    <3>1. g[x] # sec /\ x \in DOMAIN f /\ f[x] > sec - w
      BY <2>1, <1>1 DEF Holds
    <3>2. PICK y \in cs : Asks(y, a, p) /\ Matches[y.path][p] = x /\ y.sec = f[x]
      BY <3>1 DEF KeepsAll
    <3>3. y.n < d.n /\ y.ip = d.ip /\ y \in cs \cup {d}
      BY <3>2 DEF Asks
    <3>4. y.sec <= d.sec - w
      BY <3>2, <3>3, <2>1 DEF IsFirst
    <3> QED BY <3>1, <3>2, <3>4 DEF Past
  <2>3. e \in LiveFirst(cs, a, p, sec)
    BY <2>1, <2>2, <1>2 DEF LiveFirst
  <2>4. ~Holds(f, e, p)
    BY <2>1, <1>1 DEF Holds
  <2> QED BY <2>3, <2>4 DEF Lost
<1>5. ASSUME NEW i \in DOMAIN g
      PROVE  \E y \in cs \cup {d} : Asks(y, a, p) /\ Matches[y.path][p] = i /\ y.sec = g[i]
  <2>1. CASE i \in DOMAIN f /\ f[i] > sec - w
    BY <2>1, <1>1 DEF KeepsAll
  <2>2. CASE ~(i \in DOMAIN f /\ f[i] > sec - w)
    BY <2>2, <1>1
  <2> QED BY <2>1, <2>2
<1>6. ASSUME NEW e \in Lost(cs \cup {d}, g, a, p, sec) PROVE \E i \in DOMAIN g : g[i] >= e.sec
  <2>1. e \in Lost(cs, f, a, p, sec)
    BY <1>4, <1>6
  <2>2. e.sec > sec - w /\ e.sec \in Nat /\ sec \in Nat /\ e.sec <= sec
    BY <2>1 DEF Lost, LiveFirst, Past
  <2>3. CASE x \in DOMAIN f /\ f[x] > sec - w
    <3>1. made
      BY <2>3 DEF KeepsAll
    <3>2. PICK i \in DOMAIN f : f[i] >= e.sec
      BY <3>1, <2>1 DEF KeepsAll
    <3>3. f[i] > sec - w
      BY <3>2, <2>2, <1>3
    <3> QED BY <3>2, <3>3, <1>1
  <2>4. CASE ~(x \in DOMAIN f /\ f[x] > sec - w)
    <3>1. x \in DOMAIN g /\ g[x] >= e.sec
      BY <2>4, <2>2, <1>1
    <3> QED BY <3>1
  <2> QED BY <2>3, <2>4
<1>7. \A e, h \in Lost(cs \cup {d}, g, a, p, sec) : e = h
  BY <1>4 DEF KeepsAll
<1>8. KeepsAll(cs \cup {d}, g, TRUE, a, p, sec)
  BY <1>1, <1>5, <1>6, <1>7 DEF KeepsAll
<1> QED BY <1>4, <1>8

\* Nothing counts any more in a window that is empty and was made.
LEMMA NothingLive ==
    ASSUME NEW cs, NEW f, NEW a, NEW p \in Patterns, NEW sec,
           Past(cs, sec), WindowSecs[p] \in Nat,
           KeepsAll(cs, f, TRUE, a, p, sec),
           DOMAIN Live(f, WindowSecs[p], sec) = {}
    PROVE  LiveFirst(cs, a, p, sec) = {}
PROOF
<1>1. \A i \in DOMAIN f : ~(f[i] > sec - WindowSecs[p])
  BY DEF Live
<1>2. \A i \in DOMAIN f : f[i] \in Nat
  BY DEF KeepsAll, Past
<1> SUFFICES ASSUME NEW d \in LiveFirst(cs, a, p, sec) PROVE FALSE
  OBVIOUS
<1>3. d.sec > sec - WindowSecs[p] /\ d.sec \in Nat /\ sec \in Nat
  BY DEF LiveFirst, Past
<1>4. d \in Lost(cs, f, a, p, sec)
  BY <1>1, <1>3 DEF Lost, Holds
<1>5. PICK i \in DOMAIN f : f[i] >= d.sec
  BY <1>4 DEF KeepsAll
<1> QED BY <1>1, <1>2, <1>3, <1>5

LEMMA KeepsNone ==
    ASSUME NEW cs, NEW f, NEW a, NEW p \in Patterns, NEW sec, NEW made,
           LiveFirst(cs, a, p, sec) = {}, DOMAIN f = {}
    PROVE  KeepsAll(cs, f, made, a, p, sec)
PROOF
<1>1. Lost(cs, f, a, p, sec) = {}
  BY DEF Lost
<1> QED BY <1>1, FS_EmptySet DEF KeepsAll

\* The check whose window was evicted under it is the only one that is lost.
LEMMA KeepsEvicted ==
    ASSUME NEW cs, NEW f, NEW a, NEW p \in Patterns, NEW sec, NEW d,
           d.n \in Nat, \A e \in cs : e.n \in Nat /\ e.n < d.n,
           LiveFirst(cs, a, p, sec) = {}, DOMAIN f = {}
    PROVE  KeepsAll(cs \cup {d}, f, FALSE, a, p, sec)
PROOF
<1>1. \A x \in cs : IsFirst(cs \cup {d}, x, p) <=> IsFirst(cs, x, p)
  BY FirstStays
<1>2. LiveFirst(cs \cup {d}, a, p, sec) \subseteq {d}
  BY <1>1 DEF LiveFirst
<1>3. Lost(cs \cup {d}, f, a, p, sec) \subseteq {d}
  BY <1>2 DEF Lost
<1> QED BY <1>3, FS_EmptySet DEF KeepsAll

\* What the run checks of one check c.
Walk(cs, c, p) ==
    {d \in cs : /\ d.ip = c.ip /\ d.n <= c.n /\ Matches[d.path][p] # NoId
                /\ d.sec > c.sec - WindowSecs[p]}

AllIds(cs, c, p) == {Matches[d.path][p] : d \in Walk(cs, c, p)}

NewIds(cs, c, p) == {Matches[d.path][p] : d \in {x \in Walk(cs, c, p) : IsFirst(cs, x, p)}}

Counted(cs, c, p) ==
    /\ p \in c.over => Cardinality(AllIds(cs, c, p)) > MaxIDs[p]
    /\ Matches[c.path][p] # NoId /\ Cardinality(NewIds(cs, c, p)) > MaxIDs[p] + 1 => p \in c.over

\* Later checks change nothing of it.
LEMMA CountedStays ==
    ASSUME NEW cs, NEW d, NEW c \in cs, NEW p,
           d.n \in Nat, \A e \in cs : e.n \in Nat /\ e.n < d.n,
           Counted(cs, c, p)
    PROVE  Counted(cs \cup {d}, c, p)
PROOF
<1>1. Walk(cs \cup {d}, c, p) = Walk(cs, c, p)
  BY DEF Walk
<1>2. \A x \in cs : IsFirst(cs \cup {d}, x, p) <=> IsFirst(cs, x, p)
  BY FirstStays
<1>3. {x \in Walk(cs, c, p) : IsFirst(cs \cup {d}, x, p)}
         = {x \in Walk(cs, c, p) : IsFirst(cs, x, p)}
  BY <1>2 DEF Walk
<1> QED BY <1>1, <1>3 DEF Counted, AllIds, NewIds

\* A window whose identifiers all come from checks, with at most one lost, is enough.
LEMMA CountedByWindow ==
    ASSUME NEW cs, NEW c \in cs, NEW p \in Patterns, NEW f, NEW made, NEW a, NEW sec,
           Past(cs, sec), IsFiniteSet(cs), WindowSecs[p] \in Nat, MaxIDs[p] \in Nat,
           \A d \in cs : d.n <= c.n,
           KeepsAll(cs, f, made, a, p, sec), c.ip = a, c.sec = sec,
           \A i \in DOMAIN f : f[i] > sec - WindowSecs[p],
           p \in c.over <=> Cardinality(DOMAIN f) > MaxIDs[p]
    PROVE  Counted(cs, c, p)
PROOF
<1> DEFINE w == WindowSecs[p]
<1>1. DOMAIN f \subseteq AllIds(cs, c, p)
  <2> SUFFICES ASSUME NEW i \in DOMAIN f PROVE i \in AllIds(cs, c, p)
    OBVIOUS
  <2>1. PICK d \in cs : Asks(d, a, p) /\ Matches[d.path][p] = i /\ d.sec = f[i]
    BY DEF KeepsAll
  <2>2. d \in Walk(cs, c, p)
    BY <2>1 DEF Walk, Asks
  <2> QED BY <2>1, <2>2 DEF AllIds
<1>2. IsFiniteSet(Walk(cs, c, p))
  BY FS_Subset DEF Walk
<1>3. IsFiniteSet(AllIds(cs, c, p)) /\ IsFiniteSet(NewIds(cs, c, p))
  <2> DEFINE id == [d \in Walk(cs, c, p) |-> Matches[d.path][p]]
  <2>2. IsFiniteSet(AllIds(cs, c, p))
    <3>1. AllIds(cs, c, p) = {id[d] : d \in Walk(cs, c, p)}
      BY DEF AllIds
    <3>2. DOMAIN id = Walk(cs, c, p)
      OBVIOUS
    <3> HIDE DEF id
    <3> QED BY ONLY <1>2, <3>1, <3>2, ImageFinite
  <2>3. IsFiniteSet(NewIds(cs, c, p))
    <3>1. NewIds(cs, c, p) \subseteq {id[d] : d \in Walk(cs, c, p)}
      BY DEF NewIds
    <3>2. DOMAIN id = Walk(cs, c, p)
      OBVIOUS
    <3> HIDE DEF id
    <3>3. IsFiniteSet({id[d] : d \in Walk(cs, c, p)})
      BY ONLY <1>2, <3>2, ImageFinite
    <3> QED BY <3>1, <3>3, FS_Subset
  <2> QED BY <2>2, <2>3
<1>4. IsFiniteSet(DOMAIN f) /\ Cardinality(DOMAIN f) \in Nat
  BY FS_CardinalityType DEF KeepsAll
<1>5. /\ Cardinality(DOMAIN f) <= Cardinality(AllIds(cs, c, p))
      /\ Cardinality(AllIds(cs, c, p)) \in Nat
  BY <1>1, <1>3, FS_Subset, FS_CardinalityType
<1>6. \E i : NewIds(cs, c, p) \subseteq DOMAIN f \cup {i}
  <2>1. CASE Lost(cs, f, a, p, sec) = {}
    <3>1. NewIds(cs, c, p) \subseteq DOMAIN f
      <4> SUFFICES ASSUME NEW d \in Walk(cs, c, p), IsFirst(cs, d, p)
                   PROVE  Matches[d.path][p] \in DOMAIN f
        BY DEF NewIds
      <4>1. d \in LiveFirst(cs, a, p, sec)
        BY DEF Walk, LiveFirst, Asks
      <4> QED BY <2>1, <4>1 DEF Lost, Holds
    <3> QED BY <3>1
  <2>2. CASE Lost(cs, f, a, p, sec) # {}
    <3>1. PICK l : l \in Lost(cs, f, a, p, sec)
      BY <2>2
    <3>2. NewIds(cs, c, p) \subseteq DOMAIN f \cup {Matches[l.path][p]}
      <4> SUFFICES ASSUME NEW d \in Walk(cs, c, p), IsFirst(cs, d, p)
                   PROVE  Matches[d.path][p] \in DOMAIN f \cup {Matches[l.path][p]}
        BY DEF NewIds
      <4>1. d \in LiveFirst(cs, a, p, sec)
        BY DEF Walk, LiveFirst, Asks
      <4>2. CASE d \in Lost(cs, f, a, p, sec)
        BY <4>2, <3>1 DEF KeepsAll
      <4>3. CASE d \notin Lost(cs, f, a, p, sec)
        BY <4>3, <4>1 DEF Lost, Holds
      <4> QED BY <4>2, <4>3
    <3> QED BY <3>2
  <2> QED BY <2>1, <2>2
<1>7. Cardinality(NewIds(cs, c, p)) <= Cardinality(DOMAIN f) + 1
  <2>1. PICK i : NewIds(cs, c, p) \subseteq DOMAIN f \cup {i}
    BY <1>6
  <2>2. /\ IsFiniteSet(DOMAIN f \cup {i})
        /\ Cardinality(DOMAIN f \cup {i}) <= Cardinality(DOMAIN f) + 1
    <3> DEFINE D == DOMAIN f
    <3>1. IsFiniteSet(D) /\ Cardinality(D) \in Nat
      BY <1>4
    <3> HIDE DEF D
    <3>2. /\ IsFiniteSet(D \cup {i})
          /\ Cardinality(D \cup {i}) = IF i \in D THEN Cardinality(D) ELSE Cardinality(D) + 1
      BY <3>1, FS_AddElement
    <3> QED BY <3>1, <3>2 DEF D
  <2>3. Cardinality(DOMAIN f \cup {i}) \in Nat /\ Cardinality(NewIds(cs, c, p)) \in Nat
    BY <2>2, <1>3, FS_CardinalityType
  <2>4. Cardinality(NewIds(cs, c, p)) <= Cardinality(DOMAIN f \cup {i})
    BY <2>1, <2>2, FS_Subset
  <2> QED BY <2>2, <2>3, <2>4, <1>4
<1>8. Cardinality(NewIds(cs, c, p)) \in Nat
  BY <1>3, FS_CardinalityType
<1> QED BY <1>4, <1>5, <1>7, <1>8 DEF Counted

\* The check of an address whose window was emptied under it counts itself alone.
LEMMA CountedAlone ==
    ASSUME NEW cs, NEW c, NEW p \in Patterns, NEW a, NEW sec,
           Past(cs, sec), WindowSecs[p] \in Nat, MaxIDs[p] \in Nat \ {0},
           c.n \in Nat, \A e \in cs : e.n < c.n, c.ip = a, c.sec = sec,
           LiveFirst(cs, a, p, sec) = {}, p \notin c.over
    PROVE  Counted(cs \cup {c}, c, p)
PROOF
<1>1. \A x \in cs : IsFirst(cs \cup {c}, x, p) <=> IsFirst(cs, x, p)
  BY FirstStays DEF Past
<1>2. NewIds(cs \cup {c}, c, p) \subseteq {Matches[c.path][p]}
  <2> SUFFICES ASSUME NEW d \in Walk(cs \cup {c}, c, p), IsFirst(cs \cup {c}, d, p)
               PROVE  d = c
    BY DEF NewIds
  <2>1. CASE d \in cs
    <3>1. d \in LiveFirst(cs, a, p, sec)
      BY <2>1, <1>1 DEF Walk, LiveFirst, Asks
    <3> QED BY <3>1
  <2> QED BY <2>1 DEF Walk
<1>3. IsFiniteSet({Matches[c.path][p]}) /\ Cardinality({Matches[c.path][p]}) = 1
  BY FS_Singleton
<1>4. /\ Cardinality(NewIds(cs \cup {c}, c, p)) <= Cardinality({Matches[c.path][p]})
      /\ Cardinality(NewIds(cs \cup {c}, c, p)) \in Nat
  BY <1>2, <1>3, FS_Subset, FS_CardinalityType
<1> QED BY <1>3, <1>4 DEF Counted

Ids(ws, a, p) == IF a \in DOMAIN ws THEN ws[a][p].ids ELSE <<>>

IsMade(ws, a, p) == a \in DOMAIN ws /\ ws[a][p].made

ResourceType ==
    /\ IsFiniteSet(asked) /\ Past(asked, second)
    /\ \A d \in asked : d.n < Cardinality(asked) /\ d.over \subseteq Patterns
    /\ DOMAIN windows \subseteq Callers
    /\ \A a \in DOMAIN windows, p \in Patterns :
          /\ windows[a][p] = [made |-> windows[a][p].made, ids |-> windows[a][p].ids]
          /\ windows[a][p].made \in BOOLEAN

\* The request under way: its window is there unless it was evicted, and then it was empty.
CheckInv ==
    \/ check = NoCheck
    \/ /\ check \in [step : {"count"}, ip : Callers, path : DOMAIN Matches, sec : {second},
                     exists : BOOLEAN, evicted : BOOLEAN]
       /\ check.exists /\ ~check.evicted <=> check.ip \in DOMAIN windows
       /\ check.evicted => \A p \in Patterns : LiveFirst(asked, check.ip, p, second) = {}

WindowsInv ==
    \A a \in Callers, p \in Patterns :
        KeepsAll(asked, Ids(windows, a, p), IsMade(windows, a, p), a, p, second)

AllCounted == \A c \in asked, p \in Patterns : Counted(asked, c, p)

ResourceInv == ResourceType /\ CheckInv /\ WindowsInv /\ AllCounted

LEMMA ResourceInitInv == ResourceInit => ResourceInv
PROOF
<1> SUFFICES ASSUME ResourceInit PROVE ResourceInv
  OBVIOUS
<1>1. ResourceType
  BY FS_EmptySet DEF ResourceInit, ResourceType, Past
<1>2. CheckInv /\ AllCounted
  BY DEF ResourceInit, CheckInv, AllCounted
<1>3. WindowsInv
  <2> SUFFICES ASSUME NEW a \in Callers, NEW p \in Patterns
               PROVE  KeepsAll({}, <<>>, FALSE, a, p, second)
    <3>1. asked = {} /\ DOMAIN windows = {}
      BY DEF ResourceInit
    <3>2. \A a \in Callers, p \in Patterns :
             Ids(windows, a, p) = <<>> /\ IsMade(windows, a, p) = FALSE
      BY <3>1 DEF Ids, IsMade
    <3> QED BY <3>1, <3>2 DEF WindowsInv
  <2>1. LiveFirst({}, a, p, second) = {} /\ DOMAIN <<>> = {}
    BY DEF LiveFirst
  <2> QED BY <2>1, KeepsNone
<1> QED BY <1>1, <1>2, <1>3 DEF ResourceInv

LEMMA LookUpInv ==
    ASSUME ResourceInv, NEW a \in Callers, NEW path \in DOMAIN Matches, LookUp(a, path)
    PROVE  ResourceInv'
PROOF
<1>1. UNCHANGED <<windows, second, asked>>
  BY DEF LookUp
<1>2. ResourceType' /\ WindowsInv' /\ AllCounted'
  BY <1>1 DEF ResourceInv, ResourceType, WindowsInv, AllCounted
<1>3. CheckInv'
  <2> DEFINE there == a \in DOMAIN windows
  <2>1. there \in BOOLEAN
    OBVIOUS
  <2>2. check' = [step |-> "count", ip |-> a, path |-> path, sec |-> second,
                  exists |-> there, evicted |-> FALSE]
    BY DEF LookUp
  <2>3. there <=> a \in DOMAIN windows'
    BY <1>1
  <2> HIDE DEF there
  <2>4. /\ check' \in [step : {"count"}, ip : Callers, path : DOMAIN Matches, sec : {second'},
                       exists : BOOLEAN, evicted : BOOLEAN]
        /\ check'.ip = a /\ check'.exists = there /\ check'.evicted = FALSE
    BY <1>1, <2>1, <2>2
  <2> QED BY <2>3, <2>4 DEF CheckInv
<1> QED BY <1>2, <1>3 DEF ResourceInv

LEMMA PassSecondInv ==
    ASSUME ResourceInv, PassSecond
    PROVE  ResourceInv'
PROOF
<1>1. UNCHANGED <<windows, check, asked>> /\ check = NoCheck /\ second' = second + 1
  BY DEF PassSecond
<1>2. ResourceType' /\ AllCounted' /\ CheckInv'
  BY <1>1 DEF ResourceInv, ResourceType, AllCounted, CheckInv, Past
<1>3. WindowsInv'
  <2> SUFFICES ASSUME NEW a \in Callers, NEW p \in Patterns
               PROVE  KeepsAll(asked, Ids(windows, a, p), IsMade(windows, a, p), a, p, second + 1)
    BY <1>1 DEF WindowsInv
  <2>1. KeepsAll(asked, Ids(windows, a, p), IsMade(windows, a, p), a, p, second)
    BY DEF ResourceInv, WindowsInv
  <2>2. Past(asked, second) /\ second + 1 \in Nat /\ second <= second + 1
    BY DEF ResourceInv, ResourceType, Past
  <2>3. WindowSecs[p] \in Nat
    BY ResourceAssumption
  <2> QED BY ONLY <2>1, <2>2, <2>3, KeepsLater, p \in Patterns
<1> QED BY <1>2, <1>3 DEF ResourceInv

LEMMA EvictInv ==
    ASSUME ResourceInv, EvictWindows
    PROVE  ResourceInv'
PROOF
<1> DEFINE pruned == [a \in DOMAIN windows |->
                        [p \in Patterns |->
                          [windows[a][p] EXCEPT !.ids = Live(@, WindowSecs[p], second)]]]
           gone == IdleCallers(pruned)
<1>a. UNCHANGED <<second, asked>>
  BY DEF EvictWindows
<1>b. AllCounted'
  BY <1>a DEF ResourceInv, AllCounted
<1>1. CASE \E a \in DOMAIN windows, p \in Patterns : ~windows[a][p].made
  <2>1. UNCHANGED <<windows, check>>
    BY <1>1 DEF EvictWindows
  <2> QED BY <2>1, <1>a, <1>b DEF ResourceInv, ResourceType, CheckInv, WindowsInv
<1>2. CASE ~ \E a \in DOMAIN windows, p \in Patterns : ~windows[a][p].made
  <2>1. /\ windows' = [a \in DOMAIN windows \ gone |-> pruned[a]]
        /\ check' = IF check.step = "count" /\ check.exists /\ check.ip \in gone
                    THEN [check EXCEPT !.evicted = TRUE] ELSE check
    BY <1>2 DEF EvictWindows
  <2>2. ASSUME NEW a \in DOMAIN windows, NEW p \in Patterns
        PROVE  /\ pruned[a][p].made = windows[a][p].made
               /\ pruned[a][p].ids = Live(windows[a][p].ids, WindowSecs[p], second)
               /\ pruned[a][p] = [made |-> pruned[a][p].made, ids |-> pruned[a][p].ids]
    <3> DEFINE v == windows[a][p]
               q == pruned[a][p]
               l == Live(v.ids, WindowSecs[p], second)
    <3>1. q = [v EXCEPT !.ids = l]
      OBVIOUS
    <3>2. v = [made |-> v.made, ids |-> v.ids]
      BY DEF ResourceInv, ResourceType
    <3> HIDE DEF v, q, l
    <3>3. q = [made |-> v.made, ids |-> l]
      BY <3>1, <3>2
    <3>4. q.made = v.made /\ q.ids = l /\ q = [made |-> q.made, ids |-> q.ids]
      BY <3>3
    <3> QED BY <3>4 DEF v, q, l
  <2>3. ASSUME NEW a \in gone, NEW p \in Patterns
        PROVE  /\ a \in DOMAIN windows
               /\ DOMAIN Live(windows[a][p].ids, WindowSecs[p], second) = {}
               /\ LiveFirst(asked, a, p, second) = {}
    <3>1. a \in DOMAIN windows /\ pruned[a][p].ids = <<>>
      BY <2>3 DEF IdleCallers
    <3>a. pruned[a][p].ids = Live(windows[a][p].ids, WindowSecs[p], second)
      BY <3>1, <2>2
    <3>2. DOMAIN Live(windows[a][p].ids, WindowSecs[p], second) = {}
      <4>1. Live(windows[a][p].ids, WindowSecs[p], second) = <<>> /\ DOMAIN <<>> = {}
        BY <3>1, <3>a
      <4> QED BY <4>1
    <3>3. KeepsAll(asked, windows[a][p].ids, TRUE, a, p, second)
      BY <1>2, <3>1 DEF ResourceInv, ResourceType, WindowsInv, Ids, IsMade
    <3>4. WindowSecs[p] \in Nat /\ Past(asked, second)
      BY ResourceAssumption DEF ResourceInv, ResourceType
    <3>5. LiveFirst(asked, a, p, second) = {}
      BY ONLY <3>2, <3>3, <3>4, NothingLive, p \in Patterns
    <3> QED BY <3>1, <3>2, <3>5
  <2> HIDE DEF pruned, gone
  <2>4. ResourceType'
    <3>1. DOMAIN windows' \subseteq Callers /\ DOMAIN windows' \subseteq DOMAIN windows
      BY <2>1 DEF ResourceInv, ResourceType
    <3>2. ASSUME NEW a \in DOMAIN windows', NEW p \in Patterns
          PROVE  /\ windows'[a][p] = [made |-> windows'[a][p].made, ids |-> windows'[a][p].ids]
                 /\ windows'[a][p].made \in BOOLEAN
      <4>1. a \in DOMAIN windows /\ windows'[a] = pruned[a]
        BY <2>1
      <4>2. windows[a][p].made \in BOOLEAN
        BY <4>1 DEF ResourceInv, ResourceType
      <4> QED BY <4>1, <4>2, <2>2
    <3> QED BY <3>1, <3>2, <1>a DEF ResourceInv, ResourceType
  <2>5. CheckInv'
    <3>1. CASE check.step = "count" /\ check.exists /\ check.ip \in gone
      <4>1. check' = [check EXCEPT !.evicted = TRUE]
        BY <3>1, <2>1
      <4>2. check # NoCheck
        BY <3>1 DEF NoCheck
      <4>3. /\ check' \in [step : {"count"}, ip : Callers, path : DOMAIN Matches, sec : {second},
                           exists : BOOLEAN, evicted : BOOLEAN]
            /\ check'.evicted /\ check'.ip = check.ip
        BY <4>1, <4>2 DEF ResourceInv, CheckInv
      <4>4. check.ip \notin DOMAIN windows'
        BY <2>1, <3>1
      <4>5. \A p \in Patterns : LiveFirst(asked, check.ip, p, second) = {}
        BY <2>3, <3>1
      <4> QED BY <4>3, <4>4, <4>5, <1>a DEF CheckInv
    <3>2. CASE ~(check.step = "count" /\ check.exists /\ check.ip \in gone)
      <4>1. check' = check
        BY <3>2, <2>1
      <4>2. CASE check = NoCheck
        BY <4>1, <4>2 DEF CheckInv
      <4>3. CASE check # NoCheck
        <5>1. check.step = "count"
          BY <4>3 DEF ResourceInv, CheckInv
        <5>2. check.ip \in DOMAIN windows' <=> check.ip \in DOMAIN windows
          BY <5>1, <3>2, <2>1, <4>3 DEF ResourceInv, CheckInv
        <5> QED BY <4>1, <4>3, <5>2, <1>a DEF ResourceInv, CheckInv
      <4> QED BY <4>2, <4>3
    <3> QED BY <3>1, <3>2
  <2>6. WindowsInv'
    <3> SUFFICES ASSUME NEW a \in Callers, NEW p \in Patterns
                 PROVE  KeepsAll(asked, Ids(windows', a, p), IsMade(windows', a, p), a, p, second)
      BY <1>a DEF WindowsInv
    <3>a. KeepsAll(asked, Ids(windows, a, p), IsMade(windows, a, p), a, p, second)
      BY DEF ResourceInv, WindowsInv
    <3>b. WindowSecs[p] \in Nat /\ Past(asked, second)
      BY ResourceAssumption DEF ResourceInv, ResourceType
    <3>1. CASE a \notin DOMAIN windows
      <4>1. /\ Ids(windows', a, p) = Ids(windows, a, p)
            /\ IsMade(windows', a, p) = IsMade(windows, a, p)
        BY <3>1, <2>1 DEF Ids, IsMade
      <4> QED BY <4>1, <3>a
    <3>2. CASE a \in gone
      <4>1. Ids(windows', a, p) = <<>> /\ DOMAIN <<>> = {}
        BY <3>2, <2>1 DEF Ids
      <4>2. LiveFirst(asked, a, p, second) = {}
        BY <3>2, <2>3
      <4> QED BY <4>1, <4>2, KeepsNone
    <3>3. CASE a \in DOMAIN windows \ gone
      <4>1. /\ Ids(windows', a, p) = Live(Ids(windows, a, p), WindowSecs[p], second)
            /\ IsMade(windows', a, p) = IsMade(windows, a, p)
        BY <3>3, <2>1, <2>2 DEF Ids, IsMade
      <4>2. KeepsAll(asked, Ids(windows', a, p), IsMade(windows, a, p), a, p, second)
        BY ONLY <4>1, <3>a, <3>b, KeepsPruned, p \in Patterns
      <4> QED BY <4>1, <4>2
    <3> QED BY <3>1, <3>2, <3>3
  <2> QED BY <2>4, <2>5, <2>6, <1>b DEF ResourceInv
<1> QED BY <1>1, <1>2

LEMMA CountInv ==
    ASSUME ResourceInv, Count
    PROVE  ResourceInv'
PROOF
<1> DEFINE a == check.ip
           path == check.path
           old == IF check.exists /\ ~check.evicted THEN windows[a]
                  ELSE [p \in Patterns |-> NoWindow]
           new == Noted(old, path, check.sec)
           d == [ip |-> a, path |-> path, sec |-> check.sec, n |-> Cardinality(asked),
                 over |-> Exceeds(new, path)]
<1>1. /\ check.step = "count"
      /\ windows' = IF check.evicted THEN windows
                    ELSE [b \in DOMAIN windows \cup {a} |-> IF b = a THEN new ELSE windows[b]]
      /\ asked' = asked \cup {d} /\ check' = NoCheck /\ second' = second
  BY DEF Count
<1>2. /\ a \in Callers /\ path \in DOMAIN Matches /\ check.sec = second
      /\ check.exists \in BOOLEAN /\ check.evicted \in BOOLEAN
      /\ check.exists /\ ~check.evicted <=> a \in DOMAIN windows
      /\ check.evicted => \A p \in Patterns : LiveFirst(asked, a, p, second) = {}
  BY <1>1 DEF ResourceInv, CheckInv, NoCheck
<1>3. /\ IsFiniteSet(asked) /\ Past(asked, second) /\ Cardinality(asked) \in Nat
      /\ \A c \in asked : c.n \in Nat /\ c.n < Cardinality(asked) /\ c.over \subseteq Patterns
  BY FS_CardinalityType DEF ResourceInv, ResourceType, Past
<1>4. \A p \in Patterns : WindowSecs[p] \in Nat /\ MaxIDs[p] \in Nat \ {0}
  BY ResourceAssumption
<1>5. /\ d.ip = a /\ d.path = path /\ d.sec = second /\ d.n = Cardinality(asked)
      /\ \A p \in Patterns : p \in d.over <=>
            Matches[path][p] # NoId /\ Cardinality(DOMAIN new[p].ids) > MaxIDs[p]
      /\ d.over \subseteq Patterns
  BY <1>2 DEF Exceeds
\* The windows that were found, and those the request makes of them.
<1>6. ASSUME NEW p \in Patterns
      PROVE  /\ old[p].ids = Ids(windows, a, p)
             /\ old[p].made = IsMade(windows, a, p)
             /\ old[p] = [made |-> old[p].made, ids |-> old[p].ids]
  <2>1. CASE a \in DOMAIN windows
    <3>1. old[p] = windows[a][p]
      BY <2>1, <1>2
    <3>2. /\ windows[a][p] = [made |-> windows[a][p].made, ids |-> windows[a][p].ids]
          /\ windows[a][p].made \in BOOLEAN
      BY <2>1 DEF ResourceInv, ResourceType
    <3>3. Ids(windows, a, p) = windows[a][p].ids /\ IsMade(windows, a, p) = windows[a][p].made
      BY <2>1, <3>2 DEF Ids, IsMade
    <3> HIDE DEF old, a
    <3> QED BY ONLY <3>1, <3>2, <3>3
  <2>2. CASE a \notin DOMAIN windows
    <3>1. old[p] = NoWindow
      BY <2>2, <1>2
    <3>2. Ids(windows, a, p) = <<>> /\ IsMade(windows, a, p) = FALSE
      BY <2>2 DEF Ids, IsMade
    <3>3. /\ NoWindow.made = FALSE /\ NoWindow.ids = <<>>
          /\ NoWindow = [made |-> NoWindow.made, ids |-> NoWindow.ids]
      BY DEF NoWindow
    <3> HIDE DEF old, a
    <3> QED BY ONLY <3>1, <3>2, <3>3
  <2> QED BY <2>1, <2>2
<1> HIDE DEF old
<1>7. ASSUME NEW p \in Patterns, Matches[path][p] # NoId
      PROVE  /\ new[p].made = TRUE
             /\ new[p].ids = Added(Live(old[p].ids, WindowSecs[p], second),
                                   Matches[path][p], second)
             /\ new[p] = [made |-> new[p].made, ids |-> new[p].ids]
  BY <1>2, <1>7 DEF Noted
<1>8. ASSUME NEW p \in Patterns, Matches[path][p] = NoId
      PROVE  new[p] = old[p]
  BY <1>8 DEF Noted
<1> HIDE DEF new
<1>9. \A p \in Patterns : KeepsAll(asked, old[p].ids, old[p].made, a, p, second)
  BY <1>2, <1>6 DEF ResourceInv, WindowsInv
<1> HIDE DEF d, a, path
<1>10. IsFiniteSet(asked') /\ Past(asked', second) /\ d \in asked'
  <2>1. IsFiniteSet(asked \cup {d})
    BY <1>3, FS_AddElement
  <2> QED BY <2>1, <1>1, <1>3, <1>5 DEF Past
<1>11. ResourceType'
  <2>1. Cardinality(asked') = Cardinality(asked) + 1
    <3>1. d \notin asked
      BY <1>3, <1>5
    <3> QED BY <3>1, <1>1, <1>3, FS_AddElement
  <2>2. \A c \in asked' : c.n < Cardinality(asked') /\ c.over \subseteq Patterns
    <3>1. \A c \in asked : c.n < Cardinality(asked) + 1
      BY <1>3
    <3>2. Cardinality(asked) < Cardinality(asked) + 1
      BY <1>3
    <3> QED BY <3>1, <3>2, <2>1, <1>1, <1>3, <1>5
  <2>3. DOMAIN windows' \subseteq Callers
    BY <1>1, <1>2 DEF ResourceInv, ResourceType
  <2>4. ASSUME NEW b \in DOMAIN windows', NEW p \in Patterns
        PROVE  /\ windows'[b][p] = [made |-> windows'[b][p].made, ids |-> windows'[b][p].ids]
               /\ windows'[b][p].made \in BOOLEAN
    <3>1. CASE check.evicted \/ b # a
      <4>1. b \in DOMAIN windows /\ windows'[b] = windows[b]
        BY <3>1, <1>1
      <4> QED BY <4>1 DEF ResourceInv, ResourceType
    <3>2. CASE ~check.evicted /\ b = a
      <4>1. windows'[b] = new
        BY <3>2, <1>1
      <4>2. new[p].made \in BOOLEAN
        BY <1>6, <1>7, <1>8 DEF IsMade
      <4> QED BY <4>1, <4>2, <1>6, <1>7, <1>8
    <3> QED BY <3>1, <3>2
  <2> QED BY <1>1, <1>10, <2>2, <2>3, <2>4 DEF ResourceType
<1>12. CheckInv'
  BY <1>1 DEF CheckInv
\* The windows of others.
<1>13. ASSUME NEW b \in Callers, NEW p \in Patterns, ~Asks(d, b, p)
       PROVE  /\ KeepsAll(asked', Ids(windows, b, p), IsMade(windows, b, p), b, p, second)
  <2>1. KeepsAll(asked, Ids(windows, b, p), IsMade(windows, b, p), b, p, second)
    BY DEF ResourceInv, WindowsInv
  <2>2. d.n \in Nat /\ \A e \in asked : e.n \in Nat /\ e.n < d.n
    BY <1>3, <1>5
  <2>3. KeepsAll(asked \cup {d}, Ids(windows, b, p), IsMade(windows, b, p), b, p, second)
    BY ONLY <2>1, <2>2, <1>13, KeepsOthers, p \in Patterns
  <2> QED BY <2>3, <1>1
<1>14. CASE check.evicted
  <2>1. windows' = windows /\ a \notin DOMAIN windows
    BY <1>14, <1>1, <1>2
  <2>2. ASSUME NEW p \in Patterns
        PROVE  Ids(windows, a, p) = <<>> /\ IsMade(windows, a, p) = FALSE
    BY <2>1 DEF Ids, IsMade
  <2>3. ASSUME NEW p \in Patterns
        PROVE  KeepsAll(asked', Ids(windows, a, p), IsMade(windows, a, p), a, p, second)
    <3>1. d.n \in Nat /\ \A e \in asked : e.n \in Nat /\ e.n < d.n
      BY <1>3, <1>5
    <3>2. LiveFirst(asked, a, p, second) = {} /\ DOMAIN <<>> = {}
      BY <1>14, <1>2
    <3>3. KeepsAll(asked \cup {d}, <<>>, FALSE, a, p, second)
      BY ONLY <3>1, <3>2, KeepsEvicted, p \in Patterns
    <3> QED BY <3>3, <2>2, <1>1
  <2>4. WindowsInv'
    <3> SUFFICES ASSUME NEW b \in Callers, NEW p \in Patterns
                 PROVE  KeepsAll(asked', Ids(windows, b, p), IsMade(windows, b, p), b, p, second)
      BY <2>1, <1>1 DEF WindowsInv
    <3>1. CASE b = a
      BY <3>1, <2>3
    <3>2. CASE b # a
      BY <3>2, <1>13, <1>5 DEF Asks
    <3> QED BY <3>1, <3>2
  <2>5. ASSUME NEW p \in Patterns
        PROVE  Counted(asked', d, p)
    <3>1. d.n \in Nat /\ \A e \in asked : e.n < d.n
      BY <1>3, <1>5
    <3>2. LiveFirst(asked, a, p, second) = {}
      BY <1>14, <1>2
    <3>3. p \notin d.over
      <4> SUFFICES ASSUME Matches[path][p] # NoId
                   PROVE  ~(Cardinality(DOMAIN new[p].ids) > MaxIDs[p])
        BY <1>5
      <4>1. old[p].ids = <<>>
        BY <1>6, <2>2
      <4>2. DOMAIN new[p].ids = {Matches[path][p]}
        <5>1. DOMAIN Live(<<>>, WindowSecs[p], second) = {}
          BY DEF Live
        <5>2. new[p].ids = Added(Live(<<>>, WindowSecs[p], second), Matches[path][p], second)
          BY <4>1, <1>7
        <5> QED BY <5>1, <5>2 DEF Added
      <4>3. Cardinality({Matches[path][p]}) = 1
        BY FS_Singleton
      <4> QED BY <4>2, <4>3, <1>4
    <3>4. Counted(asked \cup {d}, d, p)
      BY ONLY <1>3, <1>4, <1>5, <3>1, <3>2, <3>3, CountedAlone, p \in Patterns
    <3> QED BY <3>4, <1>1
  <2>6. ASSUME NEW c \in asked, NEW p \in Patterns
        PROVE  Counted(asked', c, p)
    <3>1. Counted(asked, c, p)
      BY DEF ResourceInv, AllCounted
    <3>2. d.n \in Nat /\ \A e \in asked : e.n \in Nat /\ e.n < d.n
      BY <1>3, <1>5
    <3>3. Counted(asked \cup {d}, c, p)
      BY ONLY <3>1, <3>2, CountedStays, c \in asked
    <3> QED BY <3>3, <1>1
  <2>7. AllCounted'
    BY <2>5, <2>6, <1>1 DEF AllCounted
  <2> QED BY <1>11, <1>12, <2>4, <2>7 DEF ResourceInv
<1>15. CASE ~check.evicted
  <2>1. windows' = [b \in DOMAIN windows \cup {a} |-> IF b = a THEN new ELSE windows[b]]
    BY <1>15, <1>1
  <2>2. ASSUME NEW p \in Patterns
        PROVE  /\ Ids(windows', a, p) = new[p].ids
               /\ IsMade(windows', a, p) = new[p].made
    <3>1. a \in DOMAIN windows' /\ windows'[a] = new
      BY <2>1
    <3>2. new[p].made \in BOOLEAN
      BY <1>6, <1>7, <1>8 DEF IsMade
    <3> QED BY <3>1, <3>2 DEF Ids, IsMade
  <2>3. d.n \in Nat /\ \A e \in asked : e.n \in Nat /\ e.n < d.n
    BY <1>3, <1>5
  <2>4. ASSUME NEW p \in Patterns, Matches[path][p] # NoId
        PROVE  KeepsAll(asked', new[p].ids, TRUE, a, p, second)
    <3> DEFINE f == old[p].ids
               g == new[p].ids
               made == old[p].made
    <3>1. g = Added(Live(f, WindowSecs[p], second), Matches[d.path][p], second)
      BY <1>7, <1>5, <2>4
    <3>2. KeepsAll(asked, f, made, a, p, second)
      BY <1>9
    <3>3. Asks(d, a, p) /\ d.sec = second
      BY <1>5, <2>4 DEF Asks
    <3>4. Past(asked, second) /\ WindowSecs[p] \in Nat /\ d.n \in Nat /\ \A e \in asked : e.n < d.n
      BY <1>3, <1>4, <2>3
    <3> HIDE DEF f, g, made
    <3>5. KeepsAll(asked \cup {d}, g, TRUE, a, p, second)
      BY ONLY <3>1, <3>2, <3>3, <3>4, KeepsCounted, p \in Patterns
    <3> QED BY <3>5, <1>1 DEF g
  <2>5. ASSUME NEW b \in Callers, NEW p \in Patterns, b # a
        PROVE  /\ Ids(windows', b, p) = Ids(windows, b, p)
               /\ IsMade(windows', b, p) = IsMade(windows, b, p)
    BY <2>1, <2>5 DEF Ids, IsMade
  <2>6. WindowsInv'
    <3> SUFFICES ASSUME NEW b \in Callers, NEW p \in Patterns
                 PROVE  KeepsAll(asked', Ids(windows', b, p), IsMade(windows', b, p), b, p, second)
      BY <1>1 DEF WindowsInv
    <3>1. CASE b # a
      <4>1. ~Asks(d, b, p)
        BY <3>1, <1>5 DEF Asks
      <4> QED BY <4>1, <3>1, <1>13, <2>5
    <3>2. CASE b = a /\ Matches[path][p] = NoId
      <4>1. ~Asks(d, b, p)
        BY <3>2, <1>5 DEF Asks
      <4>2. /\ Ids(windows', b, p) = Ids(windows, b, p)
            /\ IsMade(windows', b, p) = IsMade(windows, b, p)
        BY <3>2, <1>6, <1>8, <2>2
      <4> QED BY <4>1, <4>2, <1>13
    <3>3. CASE b = a /\ Matches[path][p] # NoId
      BY <3>3, <2>2, <2>4, <1>7
    <3> QED BY <3>1, <3>2, <3>3
  <2>7. ASSUME NEW p \in Patterns
        PROVE  Counted(asked', d, p)
    <3>1. CASE Matches[path][p] # NoId
      <4> DEFINE f == new[p].ids
      <4>1. KeepsAll(asked', f, TRUE, a, p, second)
        BY <2>4, <3>1
      <4>2. p \in d.over <=> Cardinality(DOMAIN f) > MaxIDs[p]
        BY <1>5, <3>1
      <4>3. \A i \in DOMAIN f : f[i] > second - WindowSecs[p]
        <5>1. f = Added(Live(old[p].ids, WindowSecs[p], second), Matches[path][p], second)
          BY <1>7, <3>1
        <5>2. second > second - WindowSecs[p]
          BY <1>3, ResourceAssumption DEF Past
        <5> HIDE DEF f
        <5> QED BY <5>1, <5>2 DEF Added, Live
      <4>4. \A c \in asked' : c.n <= d.n
        BY <1>1, <2>3
      <4>5. IsFiniteSet(asked') /\ Past(asked', second) /\ d \in asked'
        BY <1>10
      <4>6. d.ip = a /\ d.sec = second /\ WindowSecs[p] \in Nat /\ MaxIDs[p] \in Nat
        BY <1>4, <1>5
      <4> HIDE DEF f
      <4> QED BY ONLY <4>1, <4>2, <4>3, <4>4, <4>5, <4>6, CountedByWindow, p \in Patterns
    <3>2. CASE Matches[path][p] = NoId
      <4>1. p \notin d.over /\ Matches[d.path][p] = NoId
        BY <1>5, <3>2
      <4> QED BY <4>1 DEF Counted
    <3> QED BY <3>1, <3>2
  <2>8. ASSUME NEW c \in asked, NEW p \in Patterns
        PROVE  Counted(asked', c, p)
    <3>1. Counted(asked, c, p)
      BY DEF ResourceInv, AllCounted
    <3>2. Counted(asked \cup {d}, c, p)
      BY ONLY <3>1, <2>3, CountedStays, c \in asked
    <3> QED BY <3>2, <1>1
  <2>9. AllCounted'
    BY <2>7, <2>8, <1>1 DEF AllCounted
  <2> QED BY <1>11, <1>12, <2>6, <2>9 DEF ResourceInv
<1> QED BY <1>14, <1>15

LEMMA InvCounts == ResourceInv => WalksAreCounted
PROOF
<1> SUFFICES ASSUME ResourceInv PROVE WalksAreCounted
  OBVIOUS
<1>1. OnlyWalkersScore
  <2> SUFFICES ASSUME NEW c \in asked, NEW p \in c.over
               PROVE  Cardinality(IdsOf(Within(c, p), p)) > MaxIDs[p]
    BY DEF OnlyWalkersScore
  <2>1. p \in Patterns /\ Counted(asked, c, p)
    BY DEF ResourceInv, ResourceType, AllCounted
  <2>2. IdsOf(Within(c, p), p) = AllIds(asked, c, p)
    BY DEF IdsOf, Within, AllIds, Walk
  <2> QED BY <2>1, <2>2 DEF Counted
<1>2. AtMostOneMissed
  <2> SUFFICES ASSUME NEW c \in asked, NEW p \in Patterns,
                      Matches[c.path][p] # NoId, Cardinality(Anew(c, p)) > MaxIDs[p] + 1
               PROVE  p \in c.over
    BY DEF AtMostOneMissed
  <2>1. Anew(c, p) = NewIds(asked, c, p)
    BY DEF Anew, IdsOf, Within, NewIds, Walk, IsFirst
  <2> QED BY <2>1 DEF ResourceInv, AllCounted, Counted
<1> QED BY <1>1, <1>2 DEF WalksAreCounted

\* Whatever the order of requests and evictions, an address is held to walk through
\* identifiers only if it does, and one that does is found, all but for one identifier.
THEOREM WalkersAreCounted == ResourceSpec => []WalksAreCounted
PROOF
<1>1. ResourceInit => ResourceInv
  BY ResourceInitInv
<1>2. ResourceInv /\ [ResourceNext]_resourceVars => ResourceInv'
  <2> SUFFICES ASSUME ResourceInv, [ResourceNext]_resourceVars PROVE ResourceInv'
    OBVIOUS
  <2>1. ASSUME NEW a \in Callers, NEW path \in DOMAIN Matches, LookUp(a, path)
        PROVE  ResourceInv'
    BY <2>1, LookUpInv
  <2>2. CASE Count
    BY <2>2, CountInv
  <2>3. CASE EvictWindows
    BY <2>3, EvictInv
  <2>4. CASE PassSecond
    BY <2>4, PassSecondInv
  <2>5. CASE UNCHANGED resourceVars
    BY <2>5 DEF resourceVars, ResourceInv, ResourceType, CheckInv, WindowsInv, AllCounted
  <2> QED BY <2>1, <2>2, <2>3, <2>4, <2>5 DEF ResourceNext
<1>3. ResourceInv => WalksAreCounted
  BY InvCounts
<1> QED BY <1>1, <1>2, <1>3, PTL DEF ResourceSpec
-----------------------------------------------------------------------------
(* The port scan detector: PortSpec => []ScannersAreTold. *)

Hits == [sec : Nat, ip : Scanners, port : Ports]

Sources == [step : {"open", "scan", "sleep", "done"}, pos : Nat]

Consumers ==
    [step : {"wait", "done"}] \cup [step : {"record"}, hit : Hits, live : BOOLEAN]
        \cup [step : {"judge"}, hit : Hits] \cup [step : {"judged"}, ip : Scanners]

PortType ==
    /\ portClock \in Nat
    /\ hitLog \in Seq([ip : Scanners, port : Ports])
    /\ source \in Sources \cup [step : {"send"}, pos : DOMAIN hitLog, sec : Nat]
    /\ consumer \in Consumers
    /\ events \in Seq(Hits)
    /\ DOMAIN tracker \subseteq Scanners
    /\ judged \in [Scanners -> [hits : Seq(Hits), reports : Seq(Nat)]]

\* The hits are recorded in the order in which they were read.
PortOrder ==
    /\ \A j, l \in DOMAIN events : j <= l => events[j].sec <= events[l].sec
    /\ \A j \in DOMAIN events : /\ events[j].sec <= portClock
                                /\ source.step = "send" => events[j].sec <= source.sec
                                /\ consumer.step = "record" => consumer.hit.sec <= events[j].sec
    /\ source.step = "send" => source.sec <= portClock
    /\ consumer.step = "record" => consumer.hit.sec <= portClock
    /\ consumer.step = "record" /\ source.step = "send" => consumer.hit.sec <= source.sec

\* What was recorded of an address is older than what is under way.
HitsOrder ==
    \A a \in Scanners : \A k \in DOMAIN judged[a].hits :
        /\ judged[a].hits[k].sec <= portClock
        /\ source.step = "send" => judged[a].hits[k].sec <= source.sec
        /\ \A j \in DOMAIN events : judged[a].hits[k].sec <= events[j].sec
        /\ consumer.step = "record" => judged[a].hits[k].sec <= consumer.hit.sec

\* Hit h is in the bucket of its second in window i of entry e.
InBucket(e, i, h) ==
    /\ e.window[i][h.sec % PortSizes[i]].second = h.sec
    /\ h.port \in e.window[i][h.sec % PortSizes[i]].ports

Missed(e, i, hs, sec) ==
    {k \in DOMAIN hs : hs[k].sec > sec - PortSizes[i] /\ ~InBucket(e, i, hs[k])}

\* The entry of an address of which the hits hs were received: it holds nothing else, and
\* of what lies in a window it misses one hit at most.
EntryOk(e, hs, sec) ==
    /\ \A i \in 1..3 : DOMAIN e.window[i] = 0..(PortSizes[i] - 1)
    /\ e.last \in Nat /\ \A k \in DOMAIN hs : hs[k].sec <= e.last
    /\ \A i \in 1..3 : \A s \in DOMAIN e.window[i] : \A p \in e.window[i][s].ports :
          \E k \in DOMAIN hs : hs[k].sec = e.window[i][s].second /\ hs[k].port = p
    /\ \A i \in 1..3 : \A k, l \in Missed(e, i, hs, sec) : k = l

\* Of an address without an entry, all hits but the last left the windows.
NoEntryOk(hs, sec) ==
    \A k \in DOMAIN hs : k < Len(hs) => hs[k].sec <= sec - IdlePorts

AllOld(hs, sec) == \A k \in DOMAIN hs : hs[k].sec <= sec - IdlePorts

Entries ==
    \A a \in Scanners :
       /\ a \in DOMAIN tracker => EntryOk(tracker[a], judged[a].hits, portClock)
       /\ a \notin DOMAIN tracker =>
             /\ NoEntryOk(judged[a].hits, portClock)
             /\ consumer.step = "record" /\ consumer.hit.ip = a => AllOld(judged[a].hits, portClock)

EntriesAreLive == consumer.step = "record" => (consumer.live <=> consumer.hit.ip \in DOMAIN tracker)

\* An address is evicted when nothing of it is in any window any more.  The code evicts
\* after 300 seconds, and its own windows are shorter, but those of a configuration may be
\* longer.
WindowsEndFirst == \A i \in 1..3 : PortSizes[i] <= IdlePorts

\* The ports of window i, by the hits.
PortsOf(hs, i, sec) ==
    {hs[k].port : k \in {j \in DOMAIN hs : hs[j].sec > sec - PortSizes[i]}}

Told(hs, reports, isFired, sec) ==
    /\ Len(reports) = IF isFired THEN 1 ELSE 0
    /\ reports # <<>> => reports[1] <= sec
    /\ reports # <<>> /\ reports[1] = sec
          => \E i \in 1..3 : Cardinality(PortsOf(hs, i, sec)) > MaxPorts[i]

Reports == \A a \in Scanners : Told(judged[a].hits, judged[a].reports, a \in fired, portClock)

\* ScannersAreReported of what the code remembers.
BreachesFired ==
    \A a \in Scanners :
        consumer.step = "judged" /\ consumer.ip = a
        /\ (\E i \in 1..3 : Cardinality(Touched(a, i, portClock)) > MaxPorts[i] + 1)
        => a \in fired

PortInv ==
    /\ PortType /\ PortOrder /\ HitsOrder /\ Entries /\ EntriesAreLive /\ Reports
    /\ BreachesFired

-----------------------------------------------------------------------------
LEMMA Sizes ==
    /\ \A i \in 1..3 : PortSizes[i] \in Nat \ {0}
    /\ \A i \in 1..3 : MaxPorts[i] \in Nat
    /\ IdlePorts \in Nat
PROOF
<1>1. /\ PortSizes \in Seq(Nat \ {0}) /\ Len(PortSizes) = 3
      /\ MaxPorts \in Seq(Nat) /\ Len(MaxPorts) = 3
  BY PortScanAssumption
<1>2. \A i \in 1..3 : PortSizes[i] \in Nat \ {0}
  BY <1>1, ElementOfSeq
<1>3. \A i \in 1..3 : MaxPorts[i] \in Nat
  BY <1>1, ElementOfSeq
<1> QED BY <1>2, <1>3, PortScanAssumption

\* Two seconds of a window share a bucket only if they are the same.
LEMMA SameSecond ==
    ASSUME NEW n \in Nat \ {0}, NEW x \in Nat, NEW y \in Nat, x <= y, y < x + n, x % n = y % n
    PROVE  x = y
PROOF
<1> DEFINE a == x \div n
           b == y \div n
<1>1. x = n * a + (x % n) /\ y = n * b + (y % n)
  <2>1. \A z \in Nat : z = n * (z \div n) + (z % n)
    OBVIOUS
  <2> QED BY <2>1
<1>2. a \in Int /\ b \in Int /\ x % n \in Int
  OBVIOUS
<1> HIDE DEF a, b
<1>3. y - x = n * (b - a)
  BY <1>1, <1>2
<1>4. \A d \in Int : 0 <= n * d /\ n * d < n => d = 0
  OBVIOUS
<1>5. b - a = 0
  BY <1>2, <1>3, <1>4
<1> QED BY <1>3, <1>5

LEMMA BucketOf == \A n \in Nat \ {0}, x \in Nat : x % n \in 0..(n - 1)
PROOF OBVIOUS

LEMMA HitTypes ==
    ASSUME NEW hs \in Seq(Hits)
    PROVE  \A k \in DOMAIN hs : hs[k] \in Hits /\ hs[k].sec \in Nat
PROOF
<1>1. \A k \in 1..Len(hs) : hs[k] \in Hits
  BY ElementOfSeq
<1>2. DOMAIN hs = 1..Len(hs)
  OBVIOUS
<1> QED BY <1>1, <1>2 DEF Hits

LEMMA EntryLater ==
    ASSUME NEW e, NEW hs, NEW sec \in Nat, EntryOk(e, hs, sec),
           \A k \in DOMAIN hs : hs[k].sec \in Nat
    PROVE  EntryOk(e, hs, sec + 1)
PROOF
<1>1. \A i \in 1..3 : Missed(e, i, hs, sec + 1) \subseteq Missed(e, i, hs, sec)
  BY Sizes DEF Missed
<1> QED BY <1>1 DEF EntryOk

LEMMA HitsLater ==
    ASSUME NEW hs, NEW sec \in Nat, \A k \in DOMAIN hs : hs[k].sec \in Nat
    PROVE  /\ NoEntryOk(hs, sec) => NoEntryOk(hs, sec + 1)
           /\ AllOld(hs, sec) => AllOld(hs, sec + 1)
           /\ \A i \in 1..3 : PortsOf(hs, i, sec + 1) \subseteq PortsOf(hs, i, sec)
PROOF
<1>1. ASSUME NEW k \in DOMAIN hs, hs[k].sec <= sec - IdlePorts
      PROVE  hs[k].sec <= sec + 1 - IdlePorts
  <2> DEFINE x == hs[k].sec
  <2>1. x \in Nat /\ x <= sec - IdlePorts
    BY <1>1
  <2> HIDE DEF x
  <2>2. x <= sec + 1 - IdlePorts
    BY <2>1, Sizes
  <2> QED BY <2>2 DEF x
<1>2. ASSUME NEW i \in 1..3, NEW k \in DOMAIN hs, hs[k].sec > sec + 1 - PortSizes[i]
      PROVE  hs[k].sec > sec - PortSizes[i]
  <2> DEFINE x == hs[k].sec
             n == PortSizes[i]
  <2>1. x \in Nat /\ x > sec + 1 - n /\ n \in Nat
    BY <1>2, Sizes
  <2> HIDE DEF x, n
  <2>2. x > sec - n
    BY <2>1
  <2> QED BY <2>2 DEF x, n
<1>3. NoEntryOk(hs, sec) => NoEntryOk(hs, sec + 1)
  BY <1>1, Sizes DEF NoEntryOk
<1>4. AllOld(hs, sec) => AllOld(hs, sec + 1)
  BY <1>1, Sizes DEF AllOld
<1>5. \A i \in 1..3 : PortsOf(hs, i, sec + 1) \subseteq PortsOf(hs, i, sec)
  BY <1>2, Sizes DEF PortsOf
<1> QED BY <1>3, <1>4, <1>5

LEMMA EntryMade ==
    ASSUME WindowsEndFirst, NEW hs, NEW sec \in Nat, NEW now \in Nat,
           NoEntryOk(hs, now), NEW n \in Nat,
           DOMAIN hs = 1..n, Len(hs) = n,
           \A k \in DOMAIN hs : hs[k].sec \in Nat /\ hs[k].sec <= sec,
           NEW e, e = [last |-> sec, window |-> NoPorts]
    PROVE  EntryOk(e, hs, now)
PROOF
<1>1. e.last = sec /\ \A i \in 1..3 : DOMAIN e.window[i] = 0..(PortSizes[i] - 1)
  BY DEF NoPorts
<1>2. \A i \in 1..3 : \A s \in DOMAIN e.window[i] : e.window[i][s].ports = {}
  BY DEF NoPorts
<1>3. ASSUME NEW i \in 1..3, NEW k \in Missed(e, i, hs, now) PROVE k = n
  <2>1. k \in 1..n /\ hs[k].sec > now - PortSizes[i] /\ hs[k].sec \in Nat
    BY <1>3 DEF Missed
  <2>a. PortSizes[i] \in Nat /\ IdlePorts \in Nat /\ PortSizes[i] <= IdlePorts
    BY Sizes DEF WindowsEndFirst
  <2>2. ~(hs[k].sec <= now - IdlePorts)
    BY ONLY <2>1, <2>a, now \in Nat
  <2> QED BY <2>1, <2>2 DEF NoEntryOk
<1> QED BY <1>1, <1>2, <1>3 DEF EntryOk

\* The entry after a hit.
Recorded(e, h) ==
    [last |-> h.sec,
     window |-> [i \in 1..3 |->
         [e.window[i] EXCEPT ![h.sec % PortSizes[i]] = PortRecord(@, h.sec, h.port)]]]

LEMMA EntryRecorded ==
    ASSUME NEW e, NEW hs \in Seq(Hits), NEW now \in Nat, EntryOk(e, hs, now),
           NEW h \in Hits, h.sec <= now, \A k \in DOMAIN hs : hs[k].sec <= h.sec,
           NEW gs, gs = Append(hs, h), NEW f, f = Recorded(e, h)
    PROVE  EntryOk(f, gs, now)
PROOF
<1>1. /\ DOMAIN gs = 1..(Len(hs) + 1) /\ gs[Len(hs) + 1] = h /\ Len(hs) \in Nat
      /\ DOMAIN hs = 1..Len(hs) /\ \A k \in DOMAIN hs : gs[k] = hs[k] /\ k \in DOMAIN gs
  OBVIOUS
<1>2. h.sec \in Nat /\ \A k \in DOMAIN hs : hs[k].sec \in Nat
  BY HitTypes DEF Hits
<1>3. ASSUME NEW i \in 1..3
      PROVE  /\ DOMAIN f.window[i] = 0..(PortSizes[i] - 1)
             /\ \A s \in 0..(PortSizes[i] - 1) : f.window[i][s] =
                   IF s = h.sec % PortSizes[i] THEN PortRecord(e.window[i][s], h.sec, h.port)
                   ELSE e.window[i][s]
             /\ h.sec % PortSizes[i] \in 0..(PortSizes[i] - 1)
  <2> DEFINE v == f.window[i]
             w == e.window[i]
             t == h.sec % PortSizes[i]
  <2>1. v = [w EXCEPT ![t] = PortRecord(w[t], h.sec, h.port)]
    BY DEF Recorded
  <2>2. DOMAIN w = 0..(PortSizes[i] - 1)
    BY DEF EntryOk
  <2>3. t \in 0..(PortSizes[i] - 1)
    BY <1>2, Sizes, BucketOf
  <2> HIDE DEF v, w, t
  <2>4. /\ DOMAIN v = 0..(PortSizes[i] - 1)
        /\ \A s \in 0..(PortSizes[i] - 1) : v[s] =
                   IF s = t THEN PortRecord(w[s], h.sec, h.port) ELSE w[s]
    BY <2>1, <2>2, <2>3
  <2> QED BY <2>3, <2>4 DEF v, w, t
<1>4. f.last \in Nat /\ \A k \in DOMAIN gs : gs[k].sec <= f.last
  <2>1. f.last = h.sec
    BY DEF Recorded
  <2> QED BY <1>1, <1>2, <2>1
<1>5. ASSUME NEW i \in 1..3, NEW s \in DOMAIN f.window[i], NEW p \in f.window[i][s].ports
      PROVE  \E k \in DOMAIN gs : gs[k].sec = f.window[i][s].second /\ gs[k].port = p
  <2>1. s \in 0..(PortSizes[i] - 1) /\ s \in DOMAIN e.window[i]
    BY <1>3 DEF EntryOk
  <2>2. ASSUME p \in e.window[i][s].ports
        PROVE  \E k \in DOMAIN gs : gs[k].sec = e.window[i][s].second /\ gs[k].port = p
    BY <1>1, <2>1, <2>2 DEF EntryOk
  <2>3. CASE s = h.sec % PortSizes[i]
    <3>1. f.window[i][s] = PortRecord(e.window[i][s], h.sec, h.port)
      BY <1>3, <2>1, <2>3
    <3>2. f.window[i][s].second = h.sec
      BY <3>1 DEF PortRecord
    <3>3. p = h.port \/ (p \in e.window[i][s].ports /\ e.window[i][s].second = h.sec)
      BY <3>1 DEF PortRecord
    <3> QED BY <1>1, <2>2, <3>2, <3>3
  <2>4. CASE s # h.sec % PortSizes[i]
    <3>1. f.window[i][s] = e.window[i][s]
      BY <1>3, <2>1, <2>4
    <3> QED BY <2>2, <3>1
  <2> QED BY <2>3, <2>4
<1>6. ASSUME NEW i \in 1..3, NEW k \in Missed(f, i, gs, now)
      PROVE  k \in Missed(e, i, hs, now)
  <2> DEFINE n == PortSizes[i]
             t == h.sec % n
  <2>1. k \in DOMAIN gs /\ gs[k].sec > now - n /\ ~InBucket(f, i, gs[k])
    BY <1>6 DEF Missed
  <2>2. f.window[i][t] = PortRecord(e.window[i][t], h.sec, h.port)
    BY <1>3
  <2>3. f.window[i][t].second = h.sec /\ h.port \in f.window[i][t].ports
        /\ (e.window[i][t].second = h.sec => e.window[i][t].ports \subseteq f.window[i][t].ports)
    <3> DEFINE b == f.window[i][t]
               c == e.window[i][t]
    <3>1. b = PortRecord(c, h.sec, h.port)
      BY <2>2
    <3> HIDE DEF b, c
    <3>2. /\ b.second = h.sec /\ h.port \in b.ports
          /\ c.second = h.sec => c.ports \subseteq b.ports
      BY <3>1 DEF PortRecord
    <3> QED BY <3>2 DEF b, c
  <2>4. k \in DOMAIN hs
    <3>1. InBucket(f, i, h)
      BY <2>3 DEF InBucket
    <3> QED BY <2>1, <3>1, <1>1
  <2>5. gs[k] = hs[k] /\ hs[k].sec \in Nat /\ hs[k].sec <= h.sec
    BY <2>4, <1>1, <1>2
  <2>6. ~InBucket(e, i, hs[k])
    <3> SUFFICES ASSUME InBucket(e, i, hs[k]) PROVE InBucket(f, i, hs[k])
      BY <2>1, <2>5
    <3>1. CASE hs[k].sec % n = t
      <4>1. n \in Nat \ {0} /\ hs[k].sec <= h.sec /\ h.sec < hs[k].sec + n
        <5>1. n \in Nat \ {0} /\ hs[k].sec > now - n
          BY <2>1, <2>5, Sizes
        <5> HIDE DEF n
        <5> QED BY <5>1, <2>5, <1>2
      <4>2. hs[k].sec = h.sec
        <5> DEFINE y == hs[k].sec
                   x == h.sec
        <5>1. y \in Nat /\ x \in Nat /\ y <= x /\ x < y + n /\ y % n = x % n /\ n \in Nat \ {0}
          BY <4>1, <2>5, <1>2, <3>1
        <5> HIDE DEF x, y, n
        <5>2. y = x
          BY ONLY <5>1, SameSecond
        <5> QED BY <5>2 DEF x, y
      <4> QED BY <4>2, <2>3 DEF InBucket
    <3>2. CASE hs[k].sec % n # t
      <4>1. hs[k].sec % n \in 0..(n - 1)
        BY <2>5, Sizes, BucketOf
      <4>2. f.window[i][hs[k].sec % n] = e.window[i][hs[k].sec % n]
        BY <4>1, <3>2, <1>3
      <4> QED BY <4>2 DEF InBucket
    <3> QED BY <3>1, <3>2
  <2> QED BY <2>1, <2>4, <2>5, <2>6 DEF Missed
<1>7. \A i \in 1..3 : \A k, l \in Missed(f, i, gs, now) : k = l
  BY <1>6 DEF EntryOk
<1>8. \A i \in 1..3 : DOMAIN f.window[i] = 0..(PortSizes[i] - 1)
  BY <1>3
<1> QED BY <1>4, <1>5, <1>7, <1>8 DEF EntryOk

\* The count of a window is that of the hits, or one less.
LEMMA PortsFinite ==
    ASSUME NEW hs \in Seq(Hits), NEW i, NEW sec
    PROVE  IsFiniteSet(PortsOf(hs, i, sec)) /\ Cardinality(PortsOf(hs, i, sec)) \in Nat
PROOF
<1> DEFINE S == {j \in DOMAIN hs : hs[j].sec > sec - PortSizes[i]}
           port == [k \in S |-> hs[k].port]
<1>1. IsFiniteSet(S)
  <2>1. IsFiniteSet(1..Len(hs))
    BY FS_Interval
  <2> QED BY <2>1, FS_Subset
<1>2. PortsOf(hs, i, sec) = {port[k] : k \in S} /\ DOMAIN port = S
  BY DEF PortsOf
<1> HIDE DEF S, port
<1>3. IsFiniteSet({port[k] : k \in S})
  BY ONLY <1>1, <1>2, ImageFinite
<1> QED BY <1>2, <1>3, FS_CardinalityType

\* Without an entry only the last hit may lie in a window.
LEMMA LastAlone ==
    ASSUME WindowsEndFirst, NEW hs \in Seq(Hits), NEW sec \in Nat,
           NoEntryOk(hs, sec), NEW i \in 1..3
    PROVE  Cardinality(PortsOf(hs, i, sec)) <= 1
PROOF
<1> DEFINE n == Len(hs)
           P == PortsOf(hs, i, sec)
<1>1. \A k \in DOMAIN hs : hs[k].sec \in Nat
  BY HitTypes
<1>2. n \in Nat /\ DOMAIN hs = 1..n
  OBVIOUS
<1>3. ASSUME NEW k \in DOMAIN hs, hs[k].sec > sec - PortSizes[i] PROVE k = n
  <2>a. /\ PortSizes[i] \in Nat /\ IdlePorts \in Nat /\ PortSizes[i] <= IdlePorts
        /\ hs[k].sec \in Nat /\ hs[k].sec > sec - PortSizes[i]
    BY <1>1, <1>3, Sizes DEF WindowsEndFirst
  <2>1. ~(hs[k].sec <= sec - IdlePorts)
    BY ONLY <2>a, sec \in Nat
  <2> QED BY <2>1, <1>2 DEF NoEntryOk
<1>4. P \subseteq {hs[n].port}
  BY <1>3 DEF PortsOf
<1>5. IsFiniteSet({hs[n].port}) /\ Cardinality({hs[n].port}) = 1
  BY FS_Singleton
<1> HIDE DEF P
<1>6. Cardinality(P) <= Cardinality({hs[n].port})
  BY <1>4, <1>5, FS_Subset
<1> QED BY <1>5, <1>6 DEF P

LEMMA CountOk ==
    ASSUME NEW e, NEW hs \in Seq(Hits), NEW sec \in Nat, EntryOk(e, hs, sec), NEW i \in 1..3
    PROVE  /\ PortCount(e, i, sec) \in Nat
           /\ PortCount(e, i, sec) <= Cardinality(PortsOf(hs, i, sec))
           /\ Cardinality(PortsOf(hs, i, sec)) <= PortCount(e, i, sec) + 1
PROOF
<1> DEFINE T == {t \in DOMAIN e.window[i] : e.window[i][t].second > sec - PortSizes[i]}
           B == {e.window[i][s] : s \in T}
           U == UNION {b.ports : b \in B}
           P == PortsOf(hs, i, sec)
<1>1. PortCount(e, i, sec) = Cardinality(U)
  BY DEF PortCount
<1>2. \A p \in U : \E s \in T : p \in e.window[i][s].ports
  OBVIOUS
<1>3. \A s \in T : \A p \in e.window[i][s].ports : p \in U
  OBVIOUS
<1>4. U \subseteq P
  <2> SUFFICES ASSUME NEW p \in U PROVE p \in P
    OBVIOUS
  <2>1. PICK s \in T : p \in e.window[i][s].ports
    BY <1>2
  <2>2. PICK k \in DOMAIN hs : hs[k].sec = e.window[i][s].second /\ hs[k].port = p
    BY <2>1 DEF EntryOk
  <2> QED BY <2>2 DEF PortsOf
<1>5. ASSUME NEW k \in DOMAIN hs, hs[k].sec > sec - PortSizes[i], InBucket(e, i, hs[k])
      PROVE  hs[k].port \in U
  <2>1. hs[k].sec \in Nat
    BY HitTypes
  <2>2. hs[k].sec % PortSizes[i] \in DOMAIN e.window[i]
    <3>1. hs[k].sec % PortSizes[i] \in 0..(PortSizes[i] - 1)
      BY <2>1, Sizes, BucketOf
    <3> QED BY <3>1 DEF EntryOk
  <2>3. hs[k].sec % PortSizes[i] \in T
    BY <2>2, <1>5 DEF InBucket
  <2> QED BY <2>3, <1>3, <1>5 DEF InBucket
<1>6. \E q : P \subseteq U \cup {q}
  <2>1. CASE Missed(e, i, hs, sec) = {}
    BY <2>1, <1>5 DEF Missed, PortsOf
  <2>2. CASE Missed(e, i, hs, sec) # {}
    <3>1. PICK l : l \in Missed(e, i, hs, sec)
      BY <2>2
    <3>2. \A k \in Missed(e, i, hs, sec) : k = l
      BY <3>1 DEF EntryOk
    <3>3. P \subseteq U \cup {hs[l].port}
      BY <3>2, <1>5 DEF Missed, PortsOf
    <3> QED BY <3>3
  <2> QED BY <2>1, <2>2
<1>7. IsFiniteSet(P) /\ Cardinality(P) \in Nat
  BY PortsFinite
<1> HIDE DEF U, P
<1>8. IsFiniteSet(U) /\ Cardinality(U) \in Nat /\ Cardinality(U) <= Cardinality(P)
  BY <1>4, <1>7, FS_Subset, FS_CardinalityType
<1>9. PICK q : P \subseteq U \cup {q}
  BY <1>6
<1>10. /\ IsFiniteSet(U \cup {q})
       /\ Cardinality(U \cup {q}) = IF q \in U THEN Cardinality(U) ELSE Cardinality(U) + 1
  BY <1>8, FS_AddElement
<1>11. Cardinality(P) <= Cardinality(U \cup {q})
  BY <1>9, <1>10, FS_Subset
<1> QED BY <1>1, <1>7, <1>8, <1>10, <1>11 DEF P

-----------------------------------------------------------------------------
LEMMA PortInitInv == PortInit => PortInv
PROOF
<1> SUFFICES ASSUME PortInit PROVE PortInv
  OBVIOUS
<1>1. /\ hitLog = <<>> /\ events = <<>> /\ tracker = <<>> /\ fired = {} /\ portClock = 1
      /\ source = [step |-> "open", pos |-> 0] /\ consumer = [step |-> "wait"]
      /\ judged = [a \in Scanners |-> [hits |-> <<>>, reports |-> <<>>]]
  BY DEF PortInit, Sleeping
<1>2. \A a \in Scanners : judged[a].hits = <<>> /\ judged[a].reports = <<>>
  BY <1>1
<1>3. PortType
  BY <1>1 DEF PortType, Sources, Consumers
<1>4. PortOrder /\ HitsOrder
  BY <1>1, <1>2 DEF PortOrder, HitsOrder
<1>5. Entries /\ EntriesAreLive
  BY <1>1, <1>2 DEF Entries, EntriesAreLive, NoEntryOk
<1>6. Reports
  BY <1>1, <1>2 DEF Reports, Told
<1>7. BreachesFired
  BY <1>1 DEF BreachesFired
<1> QED BY <1>3, <1>4, <1>5, <1>6, <1>7 DEF PortInv

LEMMA ReportedStay ==
    ASSUME BreachesFired, UNCHANGED <<judged, fired, portClock>>,
           consumer'.step = "judged" => consumer' = consumer
    PROVE  BreachesFired'
PROOF
<1> SUFFICES ASSUME NEW a \in Scanners, consumer'.step = "judged", consumer'.ip = a,
                    NEW i \in 1..3, Cardinality(Touched(a, i, portClock)') > MaxPorts[i] + 1
             PROVE  a \in fired'
  BY DEF BreachesFired
<1>1. consumer' = consumer
  OBVIOUS
<1>2. Touched(a, i, portClock)' = Touched(a, i, portClock)
  BY DEF Touched
<1>3. a \in fired
  BY <1>1, <1>2 DEF BreachesFired
<1> QED BY <1>3

\* A step of the source, or one of the consumer that records and judges nothing.
LEMMA NothingRecorded ==
    ASSUME PortInv, UNCHANGED <<judged, tracker, fired, portClock>>,
           consumer' = consumer \/ consumer'.step \notin {"record", "judged"}
    PROVE  Entries' /\ EntriesAreLive' /\ Reports' /\ BreachesFired'
PROOF
<1>1. Entries'
  BY DEF PortInv, Entries
<1>2. EntriesAreLive'
  BY DEF PortInv, EntriesAreLive
<1>3. Reports'
  BY DEF PortInv, Reports
<1>4. BreachesFired'
  BY ReportedStay DEF PortInv
<1> QED BY <1>1, <1>2, <1>3, <1>4

LEMMA LogHitInv ==
    ASSUME PortInv, NEW a \in Scanners, NEW port \in Ports, LogHit(a, port)
    PROVE  PortInv'
PROOF
<1>1. /\ hitLog' = Append(hitLog, [ip |-> a, port |-> port])
      /\ UNCHANGED <<source, events, consumer, tracker, fired, portClock, judged>>
  BY DEF LogHit
<1>2. hitLog' \in Seq([ip : Scanners, port : Ports]) /\ DOMAIN hitLog \subseteq DOMAIN hitLog'
  BY <1>1 DEF PortInv, PortType
<1>3. PortType'
  BY <1>1, <1>2 DEF PortInv, PortType
<1>4. PortOrder' /\ HitsOrder'
  BY <1>1 DEF PortInv, PortOrder, HitsOrder
<1>5. Entries' /\ EntriesAreLive' /\ Reports' /\ BreachesFired'
  BY <1>1, NothingRecorded
<1> QED BY <1>3, <1>4, <1>5 DEF PortInv

\* The source opens the log, reads a line, sleeps, wakes up or ends.
LEMMA ScanInv ==
    ASSUME PortInv, OpenLog \/ ScanLog \/ WakeUp \/ SourceEnds
    PROVE  PortInv'
PROOF
<1>1. UNCHANGED <<hitLog, events, consumer, tracker, fired, portClock, judged>>
  BY DEF OpenLog, ScanLog, WakeUp, SourceEnds
<1>2. \/ source' \in Sources /\ source'.step # "send"
      \/ /\ source' \in [step : {"send"}, pos : DOMAIN hitLog, sec : Nat]
         /\ source'.sec = portClock
  <2>1. CASE OpenLog
    BY <2>1 DEF OpenLog, Sources, PortInv, PortType
  <2>2. CASE ScanLog
    <3>1. source.step = "scan" /\ source \in Sources
      BY <2>2 DEF ScanLog, PortInv, PortType
    <3>2. CASE source.pos < Len(hitLog)
      <4>1. source' = [step |-> "send", pos |-> source.pos + 1, sec |-> portClock]
        BY <2>2, <3>2 DEF ScanLog
      <4>2. source.pos + 1 \in DOMAIN hitLog /\ portClock \in Nat
        BY <3>1, <3>2 DEF Sources, PortInv, PortType
      <4> QED BY <4>1, <4>2
    <3>3. CASE ~(source.pos < Len(hitLog))
      BY <2>2, <3>1, <3>3 DEF ScanLog, Sources
    <3> QED BY <3>2, <3>3
  <2>3. CASE WakeUp
    BY <2>3 DEF WakeUp, Sleeping, Sources
  <2>4. CASE SourceEnds
    BY <2>4 DEF SourceEnds, Sources, PortInv, PortType
  <2> QED BY <2>1, <2>2, <2>3, <2>4
<1>3. PortType'
  BY <1>1, <1>2 DEF PortInv, PortType
<1>4. PortOrder' /\ HitsOrder'
  <2>1. \A j \in DOMAIN events : events[j].sec <= portClock
    BY DEF PortInv, PortOrder
  <2>2. portClock \in Nat
    BY DEF PortInv, PortType
  <2>3. PortOrder'
    BY <1>1, <1>2, <2>1, <2>2 DEF PortInv, PortOrder
  <2>4. HitsOrder'
    BY <1>1, <1>2, <2>2 DEF PortInv, HitsOrder
  <2> QED BY <2>3, <2>4
<1>5. Entries' /\ EntriesAreLive' /\ Reports' /\ BreachesFired'
  BY <1>1, NothingRecorded
<1> QED BY <1>3, <1>4, <1>5 DEF PortInv

LEMMA SendHitInv ==
    ASSUME PortInv, SendHit
    PROVE  PortInv'
PROOF
<1> DEFINE h == [sec |-> source.sec, ip |-> hitLog[source.pos].ip, port |-> hitLog[source.pos].port]
           n == Len(events)
<1>1. /\ source.step = "send" /\ events' = Append(events, h)
      /\ source' = [step |-> "scan", pos |-> source.pos]
      /\ UNCHANGED <<hitLog, consumer, tracker, fired, portClock, judged>>
  BY DEF SendHit
<1>2. source \in [step : {"send"}, pos : DOMAIN hitLog, sec : Nat]
  BY <1>1 DEF PortInv, PortType, Sources
<1>3. hitLog[source.pos] \in [ip : Scanners, port : Ports]
  <2>1. hitLog \in Seq([ip : Scanners, port : Ports]) /\ source.pos \in 1..Len(hitLog)
    BY <1>2 DEF PortInv, PortType
  <2> QED BY ONLY <2>1, ElementOfSeq
<1>4. h \in Hits /\ h.sec = source.sec
  BY <1>2, <1>3 DEF Hits
<1>5. /\ events' \in Seq(Hits) /\ n \in Nat /\ DOMAIN events = 1..n /\ DOMAIN events' = 1..(n + 1)
      /\ events'[n + 1] = h /\ \A j \in 1..n : events'[j] = events[j]
  <2>1. events \in Seq(Hits)
    BY DEF PortInv, PortType
  <2> HIDE DEF h
  <2> QED BY <2>1, <1>1, <1>4
<1> HIDE DEF h, n
<1>6. PortType'
  BY <1>1, <1>2, <1>5 DEF PortInv, PortType, Sources
<1>7. \A j \in 1..n : events[j].sec <= source.sec /\ events[j].sec <= portClock
  BY <1>1, <1>5 DEF PortInv, PortOrder
<1>8. source.sec <= portClock /\ source.sec \in Nat /\ source'.step # "send"
  BY <1>1, <1>2 DEF PortInv, PortOrder
<1>9. PortOrder'
  <2>1. ASSUME NEW j \in DOMAIN events', NEW l \in DOMAIN events', j <= l
        PROVE  events'[j].sec <= events'[l].sec
    <3>1. CASE l \in 1..n
      BY <2>1, <3>1, <1>5 DEF PortInv, PortOrder
    <3>2. CASE l = n + 1
      BY <2>1, <3>2, <1>4, <1>5, <1>7, <1>8
    <3> QED BY <3>1, <3>2, <1>5
  <2>2. ASSUME NEW j \in DOMAIN events'
        PROVE  /\ events'[j].sec <= portClock
               /\ consumer.step = "record" => consumer.hit.sec <= events'[j].sec
    <3>1. CASE j \in 1..n
      BY <3>1, <1>5 DEF PortInv, PortOrder
    <3>2. CASE j = n + 1
      BY <3>2, <1>1, <1>4, <1>5, <1>8 DEF PortInv, PortOrder
    <3> QED BY <3>1, <3>2, <1>5
  <2> QED BY <2>1, <2>2, <1>1, <1>8 DEF PortInv, PortOrder
<1>10. HitsOrder'
  <2> SUFFICES ASSUME NEW a \in Scanners, NEW k \in DOMAIN judged[a].hits
               PROVE  /\ judged[a].hits[k].sec <= portClock
                      /\ \A j \in DOMAIN events' : judged[a].hits[k].sec <= events'[j].sec
                      /\ consumer.step = "record" => judged[a].hits[k].sec <= consumer.hit.sec
    BY <1>1, <1>8 DEF HitsOrder
  <2>1. judged[a].hits[k].sec <= h.sec
    BY <1>1, <1>4 DEF PortInv, HitsOrder
  <2> QED BY <2>1, <1>5 DEF PortInv, HitsOrder
<1>11. Entries' /\ EntriesAreLive' /\ Reports' /\ BreachesFired'
  BY <1>1, NothingRecorded
<1> QED BY <1>6, <1>9, <1>10, <1>11 DEF PortInv

\* The consumer goes on to the next hit or ends, and Close goes on.
LEMMA IdleInv ==
    ASSUME PortInv, NextHit \/ ConsumerEnds \/ ClosePorts
    PROVE  PortInv'
PROOF
<1>1. /\ UNCHANGED <<hitLog, source, events, tracker, fired, portClock, judged>>
      /\ consumer' = consumer \/ consumer' = [step |-> "wait"] \/ consumer' = [step |-> "done"]
  BY DEF NextHit, ConsumerEnds, ClosePorts
<1>2. \/ consumer' = consumer
      \/ consumer' \in Consumers /\ consumer'.step \notin {"record", "judged"}
  BY <1>1 DEF Consumers
<1>3. PortType'
  BY <1>1, <1>2 DEF PortInv, PortType
<1>4. PortOrder' /\ HitsOrder'
  BY <1>1, <1>2 DEF PortInv, PortOrder, HitsOrder
<1>5. Entries' /\ EntriesAreLive' /\ Reports' /\ BreachesFired'
  BY <1>1, <1>2, NothingRecorded
<1> QED BY <1>3, <1>4, <1>5 DEF PortInv

LEMMA PortSecondInv ==
    ASSUME PortInv, PortSecond
    PROVE  PortInv'
PROOF
<1>1. /\ UNCHANGED <<hitLog, source, events, consumer, tracker, fired, judged>>
      /\ portClock' = portClock + 1 /\ portClock \in Nat
  BY DEF PortSecond, PortInv, PortType
<1>2. PortType'
  BY <1>1 DEF PortInv, PortType
<1>3. ASSUME NEW a \in Scanners
      PROVE  /\ judged[a].hits \in Seq(Hits)
             /\ \A k \in DOMAIN judged[a].hits : judged[a].hits[k].sec \in Nat
  <2>1. judged[a].hits \in Seq(Hits)
    BY DEF PortInv, PortType
  <2> QED BY ONLY <2>1, HitTypes
<1>4. /\ \A j \in DOMAIN events : events[j].sec \in Nat
      /\ source.step = "send" => source.sec \in Nat
      /\ consumer.step = "record" => consumer.hit.sec \in Nat
  <2>1. \A j \in DOMAIN events : events[j].sec \in Nat
    <3>1. events \in Seq(Hits)
      BY DEF PortInv, PortType
    <3> QED BY ONLY <3>1, HitTypes
  <2> QED BY <2>1 DEF PortInv, PortType, Sources, Consumers, Hits
<1>5. PortOrder'
  BY <1>1, <1>4 DEF PortInv, PortOrder
<1>6. HitsOrder'
  BY <1>1, <1>3 DEF PortInv, HitsOrder
<1>7. Entries'
  <2> SUFFICES ASSUME NEW a \in Scanners
               PROVE  /\ a \in DOMAIN tracker => EntryOk(tracker[a], judged[a].hits, portClock + 1)
                      /\ a \notin DOMAIN tracker =>
                            /\ NoEntryOk(judged[a].hits, portClock + 1)
                            /\ consumer.step = "record" /\ consumer.hit.ip = a =>
                                  AllOld(judged[a].hits, portClock + 1)
    BY <1>1 DEF Entries
  <2>1. CASE a \in DOMAIN tracker
    <3>1. EntryOk(tracker[a], judged[a].hits, portClock)
      BY <2>1 DEF PortInv, Entries
    <3>2. EntryOk(tracker[a], judged[a].hits, portClock + 1)
      BY <3>1, <1>1, <1>3, EntryLater
    <3> QED BY <3>2, <2>1
  <2>2. CASE a \notin DOMAIN tracker
    <3> DEFINE hs == judged[a].hits
    <3>1. portClock \in Nat /\ \A k \in DOMAIN hs : hs[k].sec \in Nat
      BY <1>1, <1>3
    <3>2. /\ NoEntryOk(hs, portClock)
          /\ consumer.step = "record" /\ consumer.hit.ip = a => AllOld(hs, portClock)
      BY <2>2 DEF PortInv, Entries
    <3> HIDE DEF hs
    <3>3. /\ NoEntryOk(hs, portClock) => NoEntryOk(hs, portClock + 1)
          /\ AllOld(hs, portClock) => AllOld(hs, portClock + 1)
      BY ONLY <3>1, HitsLater
    <3> QED BY <2>2, <3>2, <3>3 DEF hs
  <2> QED BY <2>1, <2>2
<1>8. EntriesAreLive'
  BY <1>1 DEF PortInv, EntriesAreLive
<1>9. ASSUME NEW a \in Scanners, NEW i \in 1..3
      PROVE  /\ PortsOf(judged[a].hits, i, portClock + 1)
                   \subseteq PortsOf(judged[a].hits, i, portClock)
             /\ Cardinality(PortsOf(judged[a].hits, i, portClock + 1))
                   <= Cardinality(PortsOf(judged[a].hits, i, portClock))
             /\ Cardinality(PortsOf(judged[a].hits, i, portClock + 1)) \in Nat
             /\ Cardinality(PortsOf(judged[a].hits, i, portClock)) \in Nat
  <2>1. PortsOf(judged[a].hits, i, portClock + 1) \subseteq PortsOf(judged[a].hits, i, portClock)
    <3> DEFINE hs == judged[a].hits
    <3>1. portClock \in Nat /\ \A k \in DOMAIN hs : hs[k].sec \in Nat
      BY <1>1, <1>3
    <3> HIDE DEF hs
    <3>2. PortsOf(hs, i, portClock + 1) \subseteq PortsOf(hs, i, portClock)
      BY ONLY <3>1, HitsLater, i \in 1..3
    <3> QED BY <3>2 DEF hs
  <2>2. IsFiniteSet(PortsOf(judged[a].hits, i, portClock))
    BY <1>3, PortsFinite
  <2> QED BY <2>1, <2>2, FS_Subset, FS_CardinalityType
<1>10. Reports'
  <2> SUFFICES ASSUME NEW a \in Scanners
               PROVE  Told(judged[a].hits, judged[a].reports, a \in fired, portClock + 1)
    BY <1>1 DEF Reports
  <2>1. Told(judged[a].hits, judged[a].reports, a \in fired, portClock)
    BY DEF PortInv, Reports
  <2>2. judged[a].reports \in Seq(Nat)
    BY DEF PortInv, PortType
  <2>3. judged[a].reports # <<>> => judged[a].reports[1] \in Nat
    BY <2>2
  <2>4. judged[a].reports # <<>> =>
           judged[a].reports[1] <= portClock + 1 /\ judged[a].reports[1] # portClock + 1
    BY <1>1, <2>1, <2>3 DEF Told
  <2> QED BY <2>1, <2>4 DEF Told
<1>11. BreachesFired'
  <2> SUFFICES ASSUME NEW a \in Scanners, consumer.step = "judged", consumer.ip = a, NEW i \in 1..3,
                      Cardinality(PortsOf(judged[a].hits, i, portClock + 1)) > MaxPorts[i] + 1
               PROVE  a \in fired
    BY <1>1 DEF BreachesFired, Touched, PortsOf
  <2>1. Cardinality(PortsOf(judged[a].hits, i, portClock)) > MaxPorts[i] + 1
    BY <1>9, Sizes
  <2> QED BY <2>1 DEF PortInv, BreachesFired, Touched, PortsOf
<1> QED BY <1>2, <1>5, <1>6, <1>7, <1>8, <1>10, <1>11 DEF PortInv

LEMMA ReceiveHitInv ==
    ASSUME WindowsEndFirst, PortInv, ReceiveHit
    PROVE  PortInv'
PROOF
<1> DEFINE h == Head(events)
           n == Len(events)
           made == [last |-> h.sec, window |-> NoPorts]
<1>1. /\ consumer.step = "wait" /\ events # <<>> /\ events' = Tail(events)
      /\ consumer' = [step |-> "record", hit |-> h, live |-> TRUE]
      /\ UNCHANGED <<hitLog, source, fired, portClock, judged>>
      /\ tracker' = IF h.ip \in DOMAIN tracker THEN tracker
                    ELSE [a \in DOMAIN tracker \cup {h.ip} |->
                             IF a = h.ip THEN made ELSE tracker[a]]
  BY DEF ReceiveHit
<1>2. events \in Seq(Hits) /\ portClock \in Nat
  BY DEF PortInv, PortType
<1>3. /\ n \in Nat \ {0} /\ DOMAIN events = 1..n /\ h = events[1] /\ events' \in Seq(Hits)
      /\ DOMAIN events' = 1..(n - 1) /\ \A j \in 1..(n - 1) : events'[j] = events[j + 1]
  <2>1. events # <<>> /\ events' = Tail(events)
    BY <1>1
  <2> QED BY ONLY <2>1, <1>2
<1>4. h \in Hits
  BY <1>3, <1>2, HitTypes
<1>5. h.ip \in Scanners /\ h.sec \in Nat
  BY <1>4 DEF Hits
<1> HIDE DEF h, n
<1>6. DOMAIN tracker' = DOMAIN tracker \cup {h.ip}
  BY <1>1
<1>7. PortType'
  BY <1>1, <1>3, <1>4, <1>5, <1>6 DEF PortInv, PortType, Consumers
<1>8. consumer'.step = "record" /\ consumer'.hit = h /\ consumer'.live = TRUE
  BY <1>1
<1>9. PortOrder'
  <2>1. \A j \in 1..n : h.sec <= events[j].sec /\ events[j].sec <= portClock
    <3>1. 1 \in 1..n /\ \A j \in 1..n : 1 <= j
      BY <1>3
    <3>2. /\ \A j, l \in DOMAIN events : j <= l => events[j].sec <= events[l].sec
          /\ \A j \in DOMAIN events : events[j].sec <= portClock
      BY DEF PortInv, PortOrder
    <3> QED BY <1>3, <3>1, <3>2
  <2>2. \A j \in DOMAIN events' : h.sec <= events'[j].sec /\ events'[j].sec <= portClock
                                  /\ (source.step = "send" => events'[j].sec <= source.sec)
    BY <1>3, <2>1 DEF PortInv, PortOrder
  <2>3. ASSUME NEW j \in DOMAIN events', NEW l \in DOMAIN events', j <= l
        PROVE  events'[j].sec <= events'[l].sec
    <3>1. /\ events'[j] = events[j + 1] /\ events'[l] = events[l + 1]
          /\ j + 1 \in DOMAIN events /\ l + 1 \in DOMAIN events /\ j + 1 <= l + 1
      BY <1>3, <2>3
    <3> QED BY <3>1 DEF PortInv, PortOrder
  <2>4. h.sec <= portClock /\ (source.step = "send" => h.sec <= source.sec)
    BY <1>3, <2>1 DEF PortInv, PortOrder
  <2> QED BY <1>1, <1>8, <2>2, <2>3, <2>4 DEF PortInv, PortOrder
<1>10. HitsOrder'
  <2> SUFFICES ASSUME NEW a \in Scanners, NEW k \in DOMAIN judged[a].hits
               PROVE  /\ \A j \in DOMAIN events' : judged[a].hits[k].sec <= events'[j].sec
                      /\ judged[a].hits[k].sec <= h.sec
    BY <1>1, <1>8 DEF PortInv, HitsOrder
  <2>1. \A j \in 1..n : judged[a].hits[k].sec <= events[j].sec
    BY <1>3 DEF PortInv, HitsOrder
  <2> QED BY <2>1, <1>3
<1>11. Entries'
  <2> SUFFICES ASSUME NEW a \in Scanners
               PROVE  /\ a \in DOMAIN tracker' => EntryOk(tracker'[a], judged[a].hits, portClock)
                      /\ a \notin DOMAIN tracker' =>
                            a # h.ip /\ NoEntryOk(judged[a].hits, portClock)
    BY <1>1, <1>8 DEF Entries
  <2>1. CASE a \in DOMAIN tracker
    <3>1. tracker'[a] = tracker[a]
      BY <1>1, <2>1
    <3> QED BY <3>1, <2>1, <1>6 DEF PortInv, Entries
  <2>2. CASE a \notin DOMAIN tracker /\ a = h.ip
    <3> DEFINE hs == judged[a].hits
               s == h.sec
               e == [last |-> s, window |-> NoPorts]
               m == Len(hs)
    <3>1. tracker'[a] = e
      BY <1>1, <2>2
    <3>2. hs \in Seq(Hits) /\ NoEntryOk(hs, portClock)
      BY <2>2 DEF PortInv, PortType, Entries
    <3>3. \A k \in DOMAIN hs : hs[k].sec <= s
      BY <1>3 DEF PortInv, HitsOrder
    <3> HIDE DEF hs
    <3>4. m \in Nat /\ DOMAIN hs = 1..m /\ Len(hs) = m /\ \A k \in DOMAIN hs : hs[k].sec \in Nat
      BY <3>2, HitTypes
    <3>5. s \in Nat /\ portClock \in Nat
      BY <1>2, <1>5
    <3>6. e = [last |-> s, window |-> NoPorts]
      OBVIOUS
    <3> HIDE DEF m, s, e
    <3>7. EntryOk(e, hs, portClock)
      BY ONLY <3>2, <3>3, <3>4, <3>5, <3>6, WindowsEndFirst, EntryMade
    <3> QED BY <3>1, <3>7, <2>2, <1>6 DEF hs
  <2>3. CASE a \notin DOMAIN tracker /\ a # h.ip
    BY <2>3, <1>6 DEF PortInv, Entries
  <2> QED BY <2>1, <2>2, <2>3
<1>12. EntriesAreLive'
  BY <1>6, <1>8 DEF EntriesAreLive
<1>13. Reports'
  BY <1>1 DEF PortInv, Reports
<1>14. BreachesFired'
  BY <1>8 DEF BreachesFired
<1> QED BY <1>7, <1>9, <1>10, <1>11, <1>12, <1>13, <1>14 DEF PortInv

LEMMA EvictPortsInv ==
    ASSUME PortInv, EvictPorts
    PROVE  PortInv'
PROOF
<1>1. /\ tracker' = [a \in DOMAIN tracker \ Quiet |-> tracker[a]]
      /\ consumer' = IF consumer.step = "record" /\ consumer.hit.ip \in Quiet
                     THEN [consumer EXCEPT !.live = FALSE] ELSE consumer
      /\ UNCHANGED <<hitLog, source, events, fired, portClock, judged>>
  BY DEF EvictPorts
<1>2. /\ consumer'.step = consumer.step /\ consumer' \in Consumers
      /\ consumer.step = "record" =>
            /\ consumer'.hit = consumer.hit
            /\ consumer'.live = IF consumer.hit.ip \in Quiet THEN FALSE ELSE consumer.live
      /\ consumer.step = "judged" => consumer' = consumer
  <2>1. CASE consumer.step = "record"
    <3>1. consumer \in [step : {"record"}, hit : Hits, live : BOOLEAN]
      BY <2>1 DEF PortInv, PortType, Consumers
    <3>2. consumer' = [consumer EXCEPT !.live = IF consumer.hit.ip \in Quiet THEN FALSE
                                                 ELSE consumer.live]
      BY <1>1, <2>1, <3>1
    <3>3. /\ consumer'.step = consumer.step /\ consumer'.hit = consumer.hit
          /\ consumer'.live = IF consumer.hit.ip \in Quiet THEN FALSE ELSE consumer.live
          /\ consumer' \in [step : {"record"}, hit : Hits, live : BOOLEAN]
      BY <3>1, <3>2
    <3> QED BY <2>1, <3>3 DEF Consumers
  <2>2. CASE consumer.step # "record"
    BY <1>1, <2>2 DEF PortInv, PortType
  <2> QED BY <2>1, <2>2
<1>3. DOMAIN tracker' = DOMAIN tracker \ Quiet /\ Quiet \subseteq DOMAIN tracker
      /\ \A a \in DOMAIN tracker' : tracker'[a] = tracker[a]
  BY <1>1 DEF Quiet
<1>4. PortType'
  BY <1>1, <1>2, <1>3 DEF PortInv, PortType
<1>5. PortOrder' /\ HitsOrder'
  BY <1>1, <1>2 DEF PortInv, PortOrder, HitsOrder
<1>6. ASSUME NEW a \in Quiet
      PROVE  AllOld(judged[a].hits, portClock) /\ NoEntryOk(judged[a].hits, portClock)
  <2>1. tracker[a].last <= portClock - IdlePorts
    BY <1>6 DEF Quiet
  <2>2. \A k \in DOMAIN judged[a].hits : judged[a].hits[k].sec <= tracker[a].last
    BY <1>3, <1>6 DEF PortInv, PortType, Entries, EntryOk
  <2>3. /\ tracker[a].last \in Nat /\ portClock \in Nat /\ IdlePorts \in Nat
        /\ \A k \in DOMAIN judged[a].hits : judged[a].hits[k].sec \in Nat
    <3>1. judged[a].hits \in Seq(Hits)
      BY <1>3, <1>6 DEF PortInv, PortType
    <3>2. \A k \in DOMAIN judged[a].hits : judged[a].hits[k].sec \in Nat
      BY ONLY <3>1, HitTypes
    <3> QED BY <1>3, <1>6, <3>2, Sizes DEF PortInv, PortType, Entries, EntryOk
  <2>4. \A k \in DOMAIN judged[a].hits : judged[a].hits[k].sec <= portClock - IdlePorts
    BY <2>1, <2>2, <2>3
  <2> QED BY <2>4 DEF AllOld, NoEntryOk
<1>7. Entries'
  BY <1>1, <1>2, <1>3, <1>6 DEF PortInv, Entries
<1>8. EntriesAreLive'
  BY <1>2, <1>3 DEF PortInv, EntriesAreLive
<1>9. Reports'
  BY <1>1 DEF PortInv, Reports
<1>10. BreachesFired'
  <2>1. consumer'.step = "judged" => consumer' = consumer
    BY <1>2
  <2>2. BreachesFired /\ UNCHANGED <<fired, portClock, judged>>
    BY <1>1 DEF PortInv
  <2> QED BY <2>1, <2>2, ReportedStay
<1> QED BY <1>4, <1>5, <1>7, <1>8, <1>9, <1>10 DEF PortInv

LEMMA RecordHitInv ==
    ASSUME PortInv, RecordHit
    PROVE  PortInv'
PROOF
<1> DEFINE h == consumer.hit
           a == h.ip
           hs == judged[a].hits
           gs == Append(hs, h)
<1>1. /\ consumer.step = "record"
      /\ tracker' = IF ~consumer.live THEN tracker
                    ELSE [tracker EXCEPT ![a] = Recorded(tracker[a], h)]
      /\ judged' = [judged EXCEPT ![a].hits = Append(@, h)]
      /\ consumer' = [step |-> "judge", hit |-> h]
      /\ UNCHANGED <<hitLog, source, events, fired, portClock>>
  BY DEF RecordHit, Recorded
<1>2. consumer \in [step : {"record"}, hit : Hits, live : BOOLEAN] /\ portClock \in Nat
  BY <1>1 DEF PortInv, PortType, Consumers
<1>3. h \in Hits /\ a \in Scanners /\ h.sec \in Nat
  BY <1>2 DEF Hits
<1>4. consumer.live <=> a \in DOMAIN tracker
  BY <1>1 DEF PortInv, EntriesAreLive
<1>5. judged \in [Scanners -> [hits : Seq(Hits), reports : Seq(Nat)]]
  BY DEF PortInv, PortType
<1>6. hs \in Seq(Hits) /\ gs \in Seq(Hits)
  <2>1. hs \in Seq(Hits)
    BY <1>3, <1>5
  <2> QED BY <2>1, <1>3
<1>7. /\ judged' \in [Scanners -> [hits : Seq(Hits), reports : Seq(Nat)]]
      /\ judged'[a].hits = gs
      /\ \A b \in Scanners : judged'[b].reports = judged[b].reports
      /\ \A b \in Scanners \ {a} : judged'[b] = judged[b]
  <2>1. judged' = [judged EXCEPT ![a].hits = gs]
    BY <1>1, <1>3, <1>5
  <2> HIDE DEF a, gs
  <2> QED BY <2>1, <1>3, <1>5, <1>6
<1>8. consumer'.step = "judge" /\ consumer' \in Consumers
  BY <1>1, <1>3 DEF Consumers
<1>9. /\ h.sec <= portClock
      /\ source.step = "send" => h.sec <= source.sec
      /\ \A j \in DOMAIN events : h.sec <= events[j].sec
      /\ \A k \in DOMAIN hs : hs[k].sec <= h.sec
  BY <1>1, <1>3 DEF PortInv, PortOrder, HitsOrder
<1> HIDE DEF h, a, hs, gs
<1>10. /\ DOMAIN gs = 1..(Len(hs) + 1) /\ gs[Len(hs) + 1] = h /\ Len(hs) \in Nat
       /\ DOMAIN hs = 1..Len(hs) /\ Len(gs) = Len(hs) + 1 /\ \A k \in DOMAIN hs : gs[k] = hs[k]
  BY <1>3, <1>6 DEF gs
<1>11. PortType'
  <2>1. DOMAIN tracker' = DOMAIN tracker
    BY <1>1
  <2> QED BY <1>1, <1>7, <1>8, <2>1 DEF PortInv, PortType
<1>12. PortOrder'
  BY <1>1, <1>8 DEF PortInv, PortOrder
<1>13. HitsOrder'
  <2> SUFFICES ASSUME NEW b \in Scanners, NEW k \in DOMAIN judged'[b].hits
               PROVE  /\ judged'[b].hits[k].sec <= portClock
                      /\ source.step = "send" => judged'[b].hits[k].sec <= source.sec
                      /\ \A j \in DOMAIN events : judged'[b].hits[k].sec <= events[j].sec
    BY <1>1, <1>8 DEF HitsOrder
  <2>1. CASE b # a
    BY <2>1, <1>7 DEF PortInv, HitsOrder
  <2>2. CASE b = a /\ k \in DOMAIN hs
    BY <2>2, <1>7, <1>10 DEF PortInv, HitsOrder, hs
  <2>3. CASE b = a /\ k = Len(hs) + 1
    BY <2>3, <1>7, <1>9, <1>10
  <2> QED BY <2>1, <2>2, <2>3, <1>7, <1>10
<1>14. Entries'
  <2> SUFFICES ASSUME NEW b \in Scanners
               PROVE  /\ b \in DOMAIN tracker' => EntryOk(tracker'[b], judged'[b].hits, portClock)
                      /\ b \notin DOMAIN tracker' => NoEntryOk(judged'[b].hits, portClock)
    BY <1>1, <1>8 DEF Entries
  <2>1. CASE b # a
    <3>1. (b \in DOMAIN tracker' <=> b \in DOMAIN tracker)
          /\ (b \in DOMAIN tracker => tracker'[b] = tracker[b]) /\ judged'[b] = judged[b]
      BY <2>1, <1>1, <1>7
    <3> QED BY <3>1 DEF PortInv, Entries
  <2>2. CASE b = a /\ a \in DOMAIN tracker
    <3>1. tracker'[a] = Recorded(tracker[a], h)
      BY <2>2, <1>1, <1>4
    <3> DEFINE e == tracker[a]
               f == tracker'[a]
    <3>2. EntryOk(e, hs, portClock)
      BY <2>2 DEF PortInv, Entries, hs
    <3>3. f = Recorded(e, h) /\ gs = Append(hs, h)
      BY <3>1 DEF gs
    <3> HIDE DEF e, f
    <3>4. EntryOk(f, gs, portClock)
      BY ONLY <1>2, <1>3, <1>6, <1>9, <3>2, <3>3, EntryRecorded
    <3> QED BY <2>2, <1>1, <1>7, <3>4 DEF f
  <2>3. CASE b = a /\ a \notin DOMAIN tracker
    <3>1. AllOld(hs, portClock)
      BY <2>3, <1>1, <1>3 DEF PortInv, Entries, hs, a, h
    <3>2. NoEntryOk(gs, portClock)
      BY <3>1, <1>10 DEF AllOld, NoEntryOk
    <3> QED BY <2>3, <1>1, <1>7, <3>2
  <2> QED BY <2>1, <2>2, <2>3
<1>15. EntriesAreLive'
  BY <1>8 DEF EntriesAreLive
<1>16. Reports'
  <2> SUFFICES ASSUME NEW b \in Scanners
               PROVE  Told(judged'[b].hits, judged[b].reports, b \in fired, portClock)
    BY <1>1, <1>7 DEF Reports
  <2>1. Told(judged[b].hits, judged[b].reports, b \in fired, portClock)
    BY DEF PortInv, Reports
  <2>2. CASE b # a
    BY <2>1, <2>2, <1>7
  <2>3. CASE b = a
    <3>1. \A i \in 1..3 : PortsOf(hs, i, portClock) \subseteq PortsOf(gs, i, portClock)
      BY <1>10 DEF PortsOf
    <3>2. \A i \in 1..3 : /\ IsFiniteSet(PortsOf(gs, i, portClock))
                          /\ Cardinality(PortsOf(gs, i, portClock)) \in Nat
                          /\ Cardinality(PortsOf(hs, i, portClock)) \in Nat
      BY <1>6, PortsFinite
    <3>3. \A i \in 1..3 :
             Cardinality(PortsOf(hs, i, portClock)) <= Cardinality(PortsOf(gs, i, portClock))
      BY <3>1, <3>2, FS_Subset
    <3>4. \A i \in 1..3 : Cardinality(PortsOf(hs, i, portClock)) > MaxPorts[i]
                             => Cardinality(PortsOf(gs, i, portClock)) > MaxPorts[i]
      BY <3>2, <3>3, Sizes
    <3>5. Told(hs, judged[a].reports, a \in fired, portClock)
      BY <2>1, <2>3 DEF hs
    <3>6. Told(gs, judged[a].reports, a \in fired, portClock)
      BY <3>4, <3>5 DEF Told
    <3> QED BY <3>6, <2>3, <1>7
  <2> QED BY <2>2, <2>3
<1>17. BreachesFired'
  BY <1>8 DEF BreachesFired
<1> QED BY <1>11, <1>12, <1>13, <1>14, <1>15, <1>16, <1>17 DEF PortInv

LEMMA JudgeHitInv ==
    ASSUME WindowsEndFirst, PortInv, JudgeHit
    PROVE  PortInv'
PROOF
<1> DEFINE a == consumer.hit.ip
           hs == judged[a].hits
           over == /\ a \in DOMAIN tracker
                   /\ \E i \in 1..3 : PortCount(tracker[a], i, portClock) > MaxPorts[i]
<1>1. /\ consumer.step = "judge"
      /\ fired' = IF over THEN fired \cup {a} ELSE fired
      /\ judged' = IF over /\ a \notin fired
                   THEN [judged EXCEPT ![a].reports = Append(@, portClock)] ELSE judged
      /\ consumer' = [step |-> "judged", ip |-> a]
      /\ UNCHANGED <<hitLog, source, events, tracker, portClock>>
  BY DEF JudgeHit
<1>2. consumer \in [step : {"judge"}, hit : Hits] /\ portClock \in Nat
  BY <1>1 DEF PortInv, PortType, Consumers
<1>3. a \in Scanners
  BY <1>2 DEF Hits
<1>4. judged \in [Scanners -> [hits : Seq(Hits), reports : Seq(Nat)]]
  BY DEF PortInv, PortType
<1>5. hs \in Seq(Hits) /\ judged[a].reports \in Seq(Nat)
  BY <1>3, <1>4
<1>6. consumer'.step = "judged" /\ consumer'.ip = a /\ consumer' \in Consumers
  BY <1>1, <1>3 DEF Consumers
\* The count is that of the hits, or one less.
<1>7. \A i \in 1..3 : Cardinality(PortsOf(hs, i, portClock)) \in Nat
  BY <1>5, PortsFinite
<1>8. over => \E i \in 1..3 : Cardinality(PortsOf(hs, i, portClock)) > MaxPorts[i]
  <2> SUFFICES ASSUME a \in DOMAIN tracker, NEW i \in 1..3,
                      PortCount(tracker[a], i, portClock) > MaxPorts[i]
               PROVE  Cardinality(PortsOf(hs, i, portClock)) > MaxPorts[i]
    OBVIOUS
  <2>1. EntryOk(tracker[a], hs, portClock)
    BY <1>3 DEF PortInv, Entries
  <2>2. /\ PortCount(tracker[a], i, portClock) \in Nat
        /\ PortCount(tracker[a], i, portClock) <= Cardinality(PortsOf(hs, i, portClock))
    BY <2>1, <1>2, <1>5, CountOk
  <2> QED BY <2>2, <1>7, Sizes
<1>9. ASSUME NEW i \in 1..3, Cardinality(PortsOf(hs, i, portClock)) > MaxPorts[i] + 1 PROVE over
  <2>1. CASE a \in DOMAIN tracker
    <3>1. EntryOk(tracker[a], hs, portClock)
      BY <2>1, <1>3 DEF PortInv, Entries
    <3>2. /\ PortCount(tracker[a], i, portClock) \in Nat
          /\ Cardinality(PortsOf(hs, i, portClock)) <= PortCount(tracker[a], i, portClock) + 1
      BY <3>1, <1>2, <1>5, CountOk
    <3>3. PortCount(tracker[a], i, portClock) > MaxPorts[i]
      BY <3>2, <1>7, <1>9, Sizes
    <3> QED BY <2>1, <3>3
  <2>2. CASE a \notin DOMAIN tracker
    <3>1. NoEntryOk(hs, portClock)
      BY <2>2, <1>3 DEF PortInv, Entries
    <3>2. Cardinality(PortsOf(hs, i, portClock)) <= 1
      BY <3>1, <1>2, <1>5, LastAlone
    <3> QED BY <3>2, <1>7, <1>9, Sizes
  <2> QED BY <2>1, <2>2
<1> HIDE DEF a, hs, over
<1>10. /\ judged' \in [Scanners -> [hits : Seq(Hits), reports : Seq(Nat)]]
       /\ \A b \in Scanners : judged'[b].hits = judged[b].hits
       /\ \A b \in Scanners : (b # a \/ ~over \/ a \in fired) =>
             judged'[b].reports = judged[b].reports
       /\ over /\ a \notin fired => judged'[a].reports = Append(judged[a].reports, portClock)
  <2>1. CASE over /\ a \notin fired
    <3> DEFINE rs == Append(judged[a].reports, portClock)
    <3>1. rs \in Seq(Nat)
      BY <1>2, <1>5
    <3>2. judged' = [judged EXCEPT ![a].reports = rs]
      BY <1>1, <1>3, <1>4, <2>1
    <3> HIDE DEF rs
    <3>3. /\ judged' \in [Scanners -> [hits : Seq(Hits), reports : Seq(Nat)]]
          /\ \A b \in Scanners : judged'[b].hits = judged[b].hits
          /\ \A b \in Scanners : b # a => judged'[b].reports = judged[b].reports
          /\ judged'[a].reports = rs
      BY <1>3, <1>4, <3>1, <3>2
    <3> QED BY <2>1, <3>3 DEF rs
  <2>2. CASE ~(over /\ a \notin fired)
    BY <2>2, <1>1, <1>4
  <2> QED BY <2>1, <2>2
<1>11. PortType'
  BY <1>1, <1>6, <1>10 DEF PortInv, PortType
<1>12. PortOrder' /\ HitsOrder'
  BY <1>1, <1>6, <1>10 DEF PortInv, PortOrder, HitsOrder
<1>13. Entries' /\ EntriesAreLive'
  BY <1>1, <1>6, <1>10 DEF PortInv, Entries, EntriesAreLive
<1>14. Reports'
  <2> SUFFICES ASSUME NEW b \in Scanners
               PROVE  Told(judged[b].hits, judged'[b].reports, b \in fired', portClock)
    BY <1>1, <1>10 DEF Reports
  <2>1. Told(judged[b].hits, judged[b].reports, b \in fired, portClock)
    BY DEF PortInv, Reports
  <2>2. CASE b # a \/ ~over \/ a \in fired
    <3>1. judged'[b].reports = judged[b].reports /\ (b \in fired' <=> b \in fired)
      BY <2>2, <1>1, <1>10
    <3>2. (b \in fired') = (b \in fired)
      BY <3>1
    <3> QED BY <2>1, <3>1, <3>2
  <2>3. CASE b = a /\ over /\ a \notin fired
    <3> DEFINE rs == judged[a].reports
    <3>1. rs \in Seq(Nat) /\ Len(rs) = 0
      BY <1>5, <2>1, <2>3 DEF Told
    <3>2. judged'[a].reports = Append(rs, portClock) /\ a \in fired'
      BY <2>3, <1>1, <1>10
    <3> HIDE DEF rs
    <3>3. Len(Append(rs, portClock)) = 1 /\ Append(rs, portClock)[1] = portClock
      BY <3>1, <1>2
    <3>4. \E i \in 1..3 : Cardinality(PortsOf(judged[b].hits, i, portClock)) > MaxPorts[i]
      BY <2>3, <1>8 DEF hs
    <3> QED BY <2>3, <3>2, <3>3, <3>4, <1>2 DEF Told
  <2> QED BY <2>2, <2>3
<1>15. BreachesFired'
  <2>1. ASSUME NEW b \in Scanners, b = a, NEW i \in 1..3,
               Cardinality(PortsOf(judged'[b].hits, i, portClock)) > MaxPorts[i] + 1
        PROVE  b \in fired'
    <3>1. judged'[b].hits = hs
      BY <2>1, <1>10 DEF hs
    <3> QED BY <2>1, <3>1, <1>1, <1>9
  <2> QED BY <2>1, <1>1, <1>6 DEF BreachesFired, Touched, PortsOf
<1> QED BY <1>11, <1>12, <1>13, <1>14, <1>15 DEF PortInv

LEMMA PortInvHolds == PortInv => ScannersAreTold
PROOF
<1> SUFFICES ASSUME PortInv PROVE ReportedAreScanners /\ ScannersAreReported
  BY DEF ScannersAreTold
<1>1. \A a \in Scanners : Told(judged[a].hits, judged[a].reports, a \in fired, portClock)
  BY DEF PortInv, Reports
<1>2. \A a \in Scanners, i \in 1..3 :
         Touched(a, i, portClock) = PortsOf(judged[a].hits, i, portClock)
  BY DEF Touched, PortsOf
<1>3. \A a \in Scanners : judged[a].reports \in Seq(Nat)
  BY DEF PortInv, PortType
\* A report is the only one, so the latest is the first.
<1>4. \A a \in Scanners : judged[a].reports # <<>> => Len(judged[a].reports) = 1
  <2> SUFFICES ASSUME NEW a \in Scanners, judged[a].reports # <<>>
               PROVE  Len(judged[a].reports) = 1
    OBVIOUS
  <2>1. Len(judged[a].reports) = IF a \in fired THEN 1 ELSE 0
    BY <1>1 DEF Told
  <2>2. Len(judged[a].reports) # 0
    BY <1>3
  <2> QED BY <2>1, <2>2
<1>5. ReportedAreScanners
  BY <1>1, <1>2, <1>4 DEF ReportedAreScanners, LatestReport, Told
<1>6. \A a \in Scanners : a \in fired => judged[a].reports # <<>>
  BY <1>1 DEF Told
<1>7. ScannersAreReported
  BY <1>6 DEF PortInv, BreachesFired, ScannersAreReported
<1> QED BY <1>5, <1>7

\* Whatever the source, the consumer, the eviction and Close do, an address is reported
\* only for ports it touched, and one that touched two more than allowed within a window
\* has been reported when the hit is judged.
THEOREM ScannersReported == WindowsEndFirst => (PortSpec => []ScannersAreTold)
PROOF
<1> SUFFICES ASSUME WindowsEndFirst PROVE PortSpec => []ScannersAreTold
  OBVIOUS
<1>1. PortInit => PortInv
  BY PortInitInv
<1>2. PortInv /\ [PortNext]_portVars => PortInv'
  <2> SUFFICES ASSUME PortInv, [PortNext]_portVars PROVE PortInv'
    OBVIOUS
  <2>1. ASSUME NEW a \in Scanners, NEW port \in Ports, LogHit(a, port) PROVE PortInv'
    BY <2>1, LogHitInv
  <2>2. CASE OpenLog \/ ScanLog \/ WakeUp \/ SourceEnds
    BY <2>2, ScanInv
  <2>3. CASE SendHit
    BY <2>3, SendHitInv
  <2>4. CASE ReceiveHit
    BY <2>4, ReceiveHitInv
  <2>5. CASE RecordHit
    BY <2>5, RecordHitInv
  <2>6. CASE JudgeHit
    BY <2>6, JudgeHitInv
  <2>7. CASE NextHit \/ ConsumerEnds \/ ClosePorts
    BY <2>7, IdleInv
  <2>8. CASE EvictPorts
    BY <2>8, EvictPortsInv
  <2>9. CASE PortSecond
    BY <2>9, PortSecondInv
  <2>10. CASE UNCHANGED portVars
    <3>1. UNCHANGED <<hitLog, source, events, consumer, tracker, fired, portClock, judged>>
      BY <2>10 DEF portVars
    <3>2. PortType' /\ PortOrder' /\ HitsOrder'
      BY <3>1 DEF PortInv, PortType, PortOrder, HitsOrder
    <3> QED BY <3>1, <3>2, NothingRecorded DEF PortInv
  <2> QED BY <2>1, <2>2, <2>3, <2>4, <2>5, <2>6, <2>7, <2>8, <2>9, <2>10 DEF PortNext
<1>3. PortInv => ScannersAreTold
  BY PortInvHolds
<1> QED BY <1>1, <1>2, <1>3, PTL DEF PortSpec
-----------------------------------------------------------------------------
(* The order statistics of the baseline. *)

\* A finite number of samples, and those below or up to a value.
Sample(f) == IsFiniteSet(DOMAIN f) /\ \A i \in DOMAIN f : f[i] \in Nat

Below(f, v) == {i \in DOMAIN f : f[i] < v}

NotAbove(f, v) == {i \in DOMAIN f : f[i] <= v}

LEMMA Counts ==
    ASSUME NEW f, Sample(f), NEW S \in SUBSET DOMAIN f
    PROVE  IsFiniteSet(S) /\ Cardinality(S) \in Nat /\ Cardinality(S) <= Size(f)
PROOF
<1>1. IsFiniteSet(DOMAIN f)
  BY DEF Sample
<1>2. IsFiniteSet(S) /\ Cardinality(S) <= Cardinality(DOMAIN f)
  BY <1>1, FS_Subset
<1> QED BY <1>2, FS_CardinalityType DEF Size

LEMMA SizeType == \A f : Sample(f) => Size(f) \in Nat /\ (Size(f) = 0 <=> DOMAIN f = {})
PROOF BY FS_CardinalityType, FS_EmptySet DEF Sample, Size

\* The samples are bounded.
LEMMA Bounded ==
    ASSUME NEW f, Sample(f)
    PROVE  \E b \in Nat : \A i \in DOMAIN f : f[i] <= b
PROOF
<1> DEFINE Bounds(T, b) == \A i \in T : f[i] <= b
           Loose == {k \in Nat : \E T \in SUBSET DOMAIN f :
                        Cardinality(T) = k /\ \A b \in Nat : ~Bounds(T, b)}
<1>1. Loose = {}
  <2> SUFFICES ASSUME Loose # {} PROVE FALSE
    OBVIOUS
  <2>1. \A x, y \in Nat : x < y => <<x, y>> \in OpToRel(<, Nat)
    BY DEF OpToRel
  <2>2. \E k \in Loose : \A j \in Loose : ~(<<j, k>> \in OpToRel(<, Nat))
    BY NatLessThanWellFounded, WFMin
  <2>3. PICK k \in Loose : \A j \in Loose : ~(j < k)
    BY <2>1, <2>2
  <2>4. PICK T \in SUBSET DOMAIN f : Cardinality(T) = k /\ \A b \in Nat : ~Bounds(T, b)
    BY <2>3
  <2>5. T # {}
    <3>1. T = {} => Bounds(T, 0)
      OBVIOUS
    <3> QED BY <2>4, <3>1
  <2>6. PICK x \in T : TRUE
    BY <2>5
  <2>7. IsFiniteSet(T) /\ k \in Nat
    BY <2>4, Counts
  <2>8. Cardinality(T \ {x}) = k - 1
    BY <2>4, <2>6, <2>7, FS_RemoveElement
  <2>9. k - 1 \in Nat
    BY <2>4, <2>5, <2>7, FS_EmptySet
  <2>10. k - 1 \notin Loose
    BY <2>3, <2>7, <2>9
  <2>11. PICK b \in Nat : Bounds(T \ {x}, b)
    BY <2>8, <2>9, <2>10
  <2>12. f[x] \in Nat /\ \A i \in T : f[i] \in Nat
    BY <2>6 DEF Sample
  <2>13. Bounds(T, b + f[x])
    BY <2>11, <2>12
  <2>14. b + f[x] \in Nat
    BY <2>12
  <2> QED BY <2>4, <2>13, <2>14
<1>2. Size(f) \in Nat /\ Size(f) \notin Loose
  BY <1>1, SizeType
<1>3. \E b \in Nat : Bounds(DOMAIN f, b)
  <2> HIDE DEF Bounds
  <2> QED BY <1>2 DEF Size
<1> QED BY <1>3

\* The n-th smallest sample exists: fewer than n samples lie below it, at least n up to it.
LEMMA NthIs ==
    ASSUME NEW f, Sample(f), NEW n \in Nat \ {0}, n <= Size(f)
    PROVE  /\ Nth(f, n) \in Range(f) /\ Nth(f, n) \in Nat
           /\ Cardinality(Below(f, Nth(f, n))) < n
           /\ n <= Cardinality(NotAbove(f, Nth(f, n)))
PROOF
<1> DEFINE Reached == {v \in Nat : n <= Cardinality(NotAbove(f, v))}
<1>1. Reached # {}
  <2>1. PICK b \in Nat : \A i \in DOMAIN f : f[i] <= b
    BY Bounded
  <2>2. NotAbove(f, b) = DOMAIN f
    BY <2>1 DEF NotAbove
  <2> QED BY <2>1, <2>2 DEF Size
<1>2. PICK v \in Reached : \A w \in Reached : ~(w < v)
  <2>1. Reached \subseteq Nat
    OBVIOUS
  <2> HIDE DEF Reached
  <2>2. \A x, y \in Nat : x < y => <<x, y>> \in OpToRel(<, Nat)
    BY DEF OpToRel
  <2>3. \E x \in Reached : \A y \in Reached : ~(<<y, x>> \in OpToRel(<, Nat))
    BY <1>1, <2>1, NatLessThanWellFounded, WFMin
  <2> QED BY <2>1, <2>2, <2>3
<1>3. v \in Nat /\ n <= Cardinality(NotAbove(f, v))
  BY <1>2
<1>4. Cardinality(Below(f, v)) < n
  <2>1. CASE v = 0
    <3>1. Below(f, v) = {}
      BY <2>1 DEF Below, Sample
    <3> QED BY <3>1, FS_EmptySet
  <2>2. CASE v # 0
    <3>1. v - 1 \in Nat /\ v - 1 \notin Reached
      BY <1>2, <1>3, <2>2
    <3>2. Below(f, v) = NotAbove(f, v - 1)
      BY <1>3, <2>2 DEF Below, NotAbove, Sample
    <3>3. NotAbove(f, v - 1) \subseteq DOMAIN f
      BY DEF NotAbove
    <3>4. Cardinality(NotAbove(f, v - 1)) \in Nat
      BY <3>3, Counts
    <3> QED BY <3>1, <3>2, <3>4
  <2> QED BY <2>1, <2>2
<1>5. v \in Range(f)
  <2> SUFFICES ASSUME v \notin Range(f) PROVE FALSE
    OBVIOUS
  <2>1. NotAbove(f, v) = Below(f, v)
    BY <1>3 DEF NotAbove, Below, Range, Sample
  <2>2. Below(f, v) \subseteq DOMAIN f
    BY DEF Below
  <2>3. Cardinality(Below(f, v)) \in Nat
    BY <2>2, Counts
  <2> QED BY <1>3, <1>4, <2>1, <2>3
<1>6. /\ Nth(f, n) \in Range(f)
      /\ Cardinality(Below(f, Nth(f, n))) < n
      /\ n <= Cardinality(NotAbove(f, Nth(f, n)))
  BY <1>3, <1>4, <1>5 DEF Nth, Below, NotAbove
<1>7. Nth(f, n) \in Nat
  BY <1>6 DEF Range, Sample
<1> QED BY <1>6, <1>7

\* ... and when at least n samples lie up to a value, so does the n-th.
LEMMA NthIsUpTo ==
    ASSUME NEW f, Sample(f), NEW n \in Nat \ {0}, NEW v \in Nat,
           n <= Cardinality(NotAbove(f, v))
    PROVE  Nth(f, n) \in Nat /\ Nth(f, n) <= v
PROOF
<1>1. NotAbove(f, v) \subseteq DOMAIN f
  BY DEF NotAbove
<1>2. Cardinality(NotAbove(f, v)) \in Nat /\ Cardinality(NotAbove(f, v)) <= Size(f)
  BY <1>1, Counts
<1>3. n <= Size(f)
  BY <1>2, SizeType
<1>4. Nth(f, n) \in Nat /\ Cardinality(Below(f, Nth(f, n))) < n
  BY <1>3, NthIs
<1> SUFFICES ASSUME ~(Nth(f, n) <= v) PROVE FALSE
  BY <1>4
<1>5. NotAbove(f, v) \subseteq Below(f, Nth(f, n))
  BY <1>4 DEF NotAbove, Below, Sample
<1>6. Below(f, Nth(f, n)) \subseteq DOMAIN f
  BY DEF Below
<1>7. IsFiniteSet(Below(f, Nth(f, n))) /\ Cardinality(Below(f, Nth(f, n))) \in Nat
  BY <1>6, Counts
<1>8. Cardinality(NotAbove(f, v)) <= Cardinality(Below(f, Nth(f, n)))
  BY <1>5, <1>7, FS_Subset
<1> QED BY <1>2, <1>4, <1>7, <1>8

Pct == [p50 : Nat, p95 : Nat, p99 : Nat, n : Nat]

Positions == \A k \in Nat \ {0} :
    /\ k \div 2 + 1 \in Nat \ {0} /\ k \div 2 + 1 <= k
    /\ (95 * k) \div 100 + 1 \in Nat \ {0} /\ (95 * k) \div 100 + 1 <= k
    /\ (99 * k) \div 100 + 1 \in Nat \ {0} /\ (99 * k) \div 100 + 1 <= k

LEMMA PositionsLieWithin == Positions
PROOF BY DEF Positions

LEMMA PercentilesAre ==
    ASSUME NEW f, Sample(f)
    PROVE  /\ Percentiles(f) \in Pct /\ Percentiles(f).n = Size(f)
           /\ DOMAIN f = {} => Percentiles(f) = NoPercentile
           /\ DOMAIN f # {} => Percentiles(f).p95 \in Range(f)
PROOF
<1>1. Size(f) \in Nat /\ (Size(f) = 0 <=> DOMAIN f = {})
  BY SizeType
<1>2. CASE DOMAIN f = {}
  BY <1>1, <1>2 DEF Percentiles, NoPercentile, Pct
<1>3. CASE DOMAIN f # {}
  <2>1. Size(f) \in Nat \ {0}
    BY <1>1, <1>3
  <2>2. Median(f) \in Nat
    BY <2>1, PositionsLieWithin, NthIs DEF Positions, Median
  <2>3. /\ Nth(f, (95 * Size(f)) \div 100 + 1) \in Range(f)
        /\ Nth(f, (95 * Size(f)) \div 100 + 1) \in Nat
    BY <2>1, PositionsLieWithin, NthIs DEF Positions
  <2>4. Nth(f, (99 * Size(f)) \div 100 + 1) \in Nat
    BY <2>1, PositionsLieWithin, NthIs DEF Positions
  <2>5. Percentiles(f) = [p50 |-> Median(f), p95 |-> Nth(f, (95 * Size(f)) \div 100 + 1),
                          p99 |-> Nth(f, (99 * Size(f)) \div 100 + 1), n |-> Size(f)]
    BY <1>3 DEF Percentiles
  <2> QED BY <1>3, <2>1, <2>2, <2>3, <2>4, <2>5 DEF Pct
<1> QED BY <1>2, <1>3

\* Some of the samples f.
PartOf(g, f) == DOMAIN g \subseteq DOMAIN f /\ \A i \in DOMAIN g : g[i] = f[i]

LEMMA PartIsSample == \A f, g : Sample(f) /\ PartOf(g, f) => Sample(g)
PROOF BY FS_Subset DEF Sample, PartOf

LEMMA SomeAreUpTo ==
    ASSUME NEW f, NEW high
    PROVE  /\ PartOf(UpTo(f, high), f)
           /\ DOMAIN UpTo(f, high) = NotAbove(f, high)
PROOF BY DEF PartOf, UpTo, Restrict, NotAbove

LEMMA SomeAreTrimmed == \A f : PartOf(TrimExtremes(f), f)
PROOF
<1>1. \A f : PartOf(f, f)
  BY DEF PartOf
<1> QED BY <1>1, SomeAreUpTo DEF TrimExtremes

LEMMA SomeAreKept == \A f : PartOf(RemoveOutliers(f), f)
PROOF
<1>1. \A f : PartOf(f, f)
  BY DEF PartOf
<1> QED BY <1>1, SomeAreUpTo DEF RemoveOutliers

LEMMA PartOfPart == \A f, g, h : PartOf(h, g) /\ PartOf(g, f) => PartOf(h, f)
PROOF BY DEF PartOf
-----------------------------------------------------------------------------
\* What the floors and the decay make of percentiles.
LEMMA MinQpsIs ==
    ASSUME NEW q \in Pct
    PROVE  /\ MinQps(q) \in Nat /\ MinQps(q) >= 500
           /\ q.p95 >= 500 /\ q.n # 0 => MinQps(q) <= q.p95
           /\ \A m \in Nat : q.p95 <= m /\ 1000 <= m => MinQps(q) <= m
PROOF
<1>1. q.p95 \in Nat /\ q.n \in Nat
  BY DEF Pct
<1> QED BY <1>1 DEF MinQps, Clamp

LEMMA FloorQpsIs ==
    ASSUME NEW q \in Pct, NEW min \in Nat
    PROVE  /\ FloorQps(q, min) \in Pct /\ FloorQps(q, min).p95 >= min
           /\ FloorQps(q, min).n = q.n
           /\ \A m \in Nat : q.p95 <= m /\ min <= m => FloorQps(q, min).p95 <= m
PROOF
<1>1. q.p50 \in Nat /\ q.p95 \in Nat /\ q.p99 \in Nat /\ q.n \in Nat
  BY DEF Pct
<1>2. CASE q.p95 >= min
  BY <1>1, <1>2 DEF FloorQps
<1>3. CASE ~(q.p95 >= min)
  <2>1. AtLeast(q.p99, 2 * min) \in Nat /\ AtLeast(q.p50, (min * 3) \div 10) \in Nat
    BY <1>1 DEF AtLeast
  <2>2. FloorQps(q, min) = [p50 |-> AtLeast(q.p50, (min * 3) \div 10), p95 |-> min,
                            p99 |-> AtLeast(q.p99, 2 * min), n |-> q.n]
    BY <1>1, <1>3 DEF FloorQps, Pct
  <2> QED BY <1>1, <2>1, <2>2 DEF Pct
<1> QED BY <1>2, <1>3

\* The floors of the rates.
Floored(p) == p.n > 0 => p.p95 >= 10 /\ p.p99 >= 30 /\ p.p50 >= 3

LEMMA FloorRateIs ==
    ASSUME NEW p \in Pct
    PROVE  /\ FloorRate(p) \in Pct /\ Floored(FloorRate(p))
           /\ Floored(p) => FloorRate(p) = p
PROOF
<1>1. p.p50 \in Nat /\ p.p95 \in Nat /\ p.p99 \in Nat /\ p.n \in Nat
  BY DEF Pct
<1>2. p = [p50 |-> p.p50, p95 |-> p.p95, p99 |-> p.p99, n |-> p.n]
  BY DEF Pct
<1>3. CASE p.n = 0
  BY <1>1, <1>3 DEF FloorRate, Floored
<1>4. CASE p.n # 0
  <2>1. FloorRate(p) = [p50 |-> AtLeast(p.p50, 3), p95 |-> AtLeast(p.p95, 10),
                        p99 |-> AtLeast(p.p99, 30), n |-> p.n]
    BY <1>4 DEF FloorRate, Pct
  <2>2. \A v, low \in Nat : /\ AtLeast(v, low) \in Nat /\ AtLeast(v, low) >= low
                            /\ v >= low => AtLeast(v, low) = v
    BY DEF AtLeast
  <2>3. FloorRate(p) \in Pct
    BY <1>1, <2>1, <2>2 DEF Pct
  <2>4. Floored(FloorRate(p))
    <3>1. /\ FloorRate(p).p95 = AtLeast(p.p95, 10) /\ FloorRate(p).p99 = AtLeast(p.p99, 30)
          /\ FloorRate(p).p50 = AtLeast(p.p50, 3)
      BY <2>1
    <3>2. AtLeast(p.p95, 10) >= 10 /\ AtLeast(p.p99, 30) >= 30 /\ AtLeast(p.p50, 3) >= 3
      BY <1>1, <2>2
    <3> QED BY <3>1, <3>2 DEF Floored
  <2>5. ASSUME Floored(p) PROVE FloorRate(p) = p
    <3>1. p.p95 >= 10 /\ p.p99 >= 30 /\ p.p50 >= 3
      BY <1>1, <1>4, <2>5 DEF Floored
    <3>2. AtLeast(p.p95, 10) = p.p95 /\ AtLeast(p.p99, 30) = p.p99 /\ AtLeast(p.p50, 3) = p.p50
      BY <1>1, <2>2, <3>1
    <3> QED BY <1>2, <2>1, <3>2
  <2> QED BY <2>3, <2>4, <2>5
<1> QED BY <1>3, <1>4

LEMMA DecayIs ==
    ASSUME NEW old \in Pct, NEW curr \in Pct, NEW decay \in 0..10
    PROVE  /\ DecayPercentile(old, curr, decay) \in Pct
           /\ curr.n = 0 => DecayPercentile(old, curr, decay) = old
           /\ \A m \in Nat : old.p95 <= m /\ curr.p95 <= m
                 => DecayPercentile(old, curr, decay).p95 <= m
PROOF
<1> DEFINE Mix(x, y) == (x * decay + y * (10 - decay)) \div 10
<1>1. \A x, y \in Nat : Mix(x, y) \in Nat
  <2> SUFFICES ASSUME NEW x \in Nat, NEW y \in Nat PROVE Mix(x, y) \in Nat
    OBVIOUS
  <2>1. x * decay \in Nat /\ y * (10 - decay) \in Nat
    OBVIOUS
  <2> QED BY <2>1
<1>2. ASSUME NEW m \in Nat, NEW x \in Nat, NEW y \in Nat, x <= m, y <= m
      PROVE  Mix(x, y) <= m
  <2>1. x * decay <= m * decay /\ y * (10 - decay) <= m * (10 - decay)
    BY <1>2
  <2>2. m * decay + m * (10 - decay) = 10 * m
    OBVIOUS
  <2>3. /\ x * decay \in Nat /\ y * (10 - decay) \in Nat
        /\ m * decay \in Nat /\ m * (10 - decay) \in Nat
    OBVIOUS
  <2> DEFINE a == x * decay
             b == y * (10 - decay)
             c == m * decay
             d == m * (10 - decay)
  <2> HIDE DEF a, b, c, d
  <2>4. a \in Nat /\ b \in Nat /\ c \in Nat /\ d \in Nat /\ a <= c /\ b <= d /\ c + d = 10 * m
    BY <2>1, <2>2, <2>3 DEF a, b, c, d
  <2>5. (a + b) \div 10 <= m
    BY <2>4
  <2> QED BY <2>5 DEF a, b
<1> HIDE DEF Mix
<1>3. /\ old.p50 \in Nat /\ old.p95 \in Nat /\ old.p99 \in Nat
      /\ curr.p50 \in Nat /\ curr.p95 \in Nat /\ curr.p99 \in Nat /\ curr.n \in Nat
  BY DEF Pct
<1>4. CASE curr.n = 0
  BY <1>4 DEF DecayPercentile
<1>5. CASE curr.n # 0
  <2>1. DecayPercentile(old, curr, decay) =
           [p50 |-> Mix(old.p50, curr.p50), p95 |-> Mix(old.p95, curr.p95),
            p99 |-> Mix(old.p99, curr.p99), n |-> curr.n]
    BY <1>5 DEF DecayPercentile, Mix
  <2>2. Mix(old.p50, curr.p50) \in Nat /\ Mix(old.p95, curr.p95) \in Nat
        /\ Mix(old.p99, curr.p99) \in Nat
    BY <1>1, <1>3
  <2>3. DecayPercentile(old, curr, decay) \in Pct
    BY <1>3, <2>1, <2>2 DEF Pct
  <2>4. ASSUME NEW m \in Nat, old.p95 <= m, curr.p95 <= m
        PROVE  DecayPercentile(old, curr, decay).p95 <= m
    <3>1. Mix(old.p95, curr.p95) <= m
      BY <1>2, <1>3, <2>4
    <3> QED BY <2>1, <3>1
  <2> QED BY <1>5, <2>3, <2>4
<1> QED BY <1>4, <1>5

LEMMA Raised ==
    ASSUME NEW q \in Pct, NEW low \in Nat
    PROVE  /\ [q EXCEPT !.p95 = AtLeast(@, low)] \in Pct
           /\ [q EXCEPT !.p95 = AtLeast(@, low)].p95 >= low
           /\ low <= q.p95 => [q EXCEPT !.p95 = AtLeast(@, low)] = q
           /\ \A m \in Nat : q.p95 <= m /\ low <= m => [q EXCEPT !.p95 = AtLeast(@, low)].p95 <= m
PROOF
<1>1. q.p50 \in Nat /\ q.p95 \in Nat /\ q.p99 \in Nat /\ q.n \in Nat
  BY DEF Pct
<1>2. [q EXCEPT !.p95 = AtLeast(@, low)] =
         [p50 |-> q.p50, p95 |-> AtLeast(q.p95, low), p99 |-> q.p99, n |-> q.n]
  BY DEF Pct
<1>3. q = [p50 |-> q.p50, p95 |-> q.p95, p99 |-> q.p99, n |-> q.n]
  BY DEF Pct
<1>4. /\ AtLeast(q.p95, low) \in Nat /\ AtLeast(q.p95, low) >= low
      /\ low <= q.p95 => AtLeast(q.p95, low) = q.p95
      /\ \A m \in Nat : q.p95 <= m /\ low <= m => AtLeast(q.p95, low) <= m
  BY <1>1 DEF AtLeast
<1> QED BY <1>1, <1>2, <1>3, <1>4 DEF Pct

\* The samples of a round.
LEMMA SamplesAre ==
    ASSUME NEW cs \in CounterSets
    PROVE  Sample(QpsOf(cs)) /\ Sample(RateOf(cs))
PROOF
<1>1. IsFiniteSet(DOMAIN cs) /\ \A a \in DOMAIN cs : cs[a].total \in Nat /\ cs[a].n4xx \in Nat
  BY BaselineAssumption
<1>2. IsFiniteSet(Usable(cs))
  BY <1>1, FS_Subset DEF Usable
<1>3. \A x \in Nat, y \in Nat \ {0} : x \div y \in Nat
  OBVIOUS
<1>4. \A a \in Usable(cs) : cs[a].total \in Nat /\ cs[a].n4xx \in Nat /\ cs[a].total >= 5
  BY <1>1 DEF Usable
<1>5. \A a \in Usable(cs) : cs[a].total * 1000 \in Nat /\ cs[a].n4xx * 10000 \in Nat
  BY <1>4
<1>6. \A a \in Usable(cs) : QpsOf(cs)[a] \in Nat
  BY <1>3, <1>5, BaselineAssumption DEF QpsOf
<1>7. \A a \in Usable(cs) : RateOf(cs)[a] \in Nat
  BY <1>3, <1>4, <1>5 DEF RateOf
<1> QED BY <1>2, <1>6, <1>7 DEF Sample, QpsOf, RateOf
-----------------------------------------------------------------------------
(* The floors: BaseSpec => []BaselineFloor. *)

\* What was learnt or preloaded has its floors: that of the speed at once, those of the
\* rates with the first round.
BaseInv ==
    /\ dims \in [qps : Pct, rate : Pct]
    /\ updates \in Nat
    /\ dims.qps.p95 >= 500 \/ (sampleCount = 0 /\ updates = 0)
    /\ updates > 0 => Floored(dims.rate)

LEMMA BaseInitInv == BaseInit => BaseInv
PROOF BY DEF BaseInit, BaseInv, NoPercentile, Pct

\* The samples that a round learns from.
QpsSamples(cs) == TrimExtremes(RemoveOutliers(QpsOf(cs)))

RateSamples(cs) == TrimExtremes(RemoveOutliers(RateOf(cs)))

LEMMA RoundSamples ==
    ASSUME NEW cs \in CounterSets
    PROVE  /\ Sample(QpsSamples(cs)) /\ PartOf(QpsSamples(cs), QpsOf(cs))
           /\ Sample(RateSamples(cs)) /\ PartOf(RateSamples(cs), RateOf(cs))
PROOF BY SamplesAre, SomeAreKept, SomeAreTrimmed, PartOfPart, PartIsSample
      DEF QpsSamples, RateSamples

\* What a round alone would make of the percentiles.
Learnt(cs) == [qps  |-> FloorQps(Percentiles(QpsSamples(cs)), MinQps(dims.qps)),
               rate |-> FloorRate(Percentiles(RateSamples(cs)))]

Decay == IF age < 30 THEN 5 ELSE 8

Mixed(cs) == DecayPercentile(dims.qps, Learnt(cs).qps, Decay)

LEMMA UpdateIs ==
    ASSUME NEW cs, Update(cs)
    PROVE  /\ dims' = IF dims.qps.n = 0 THEN Learnt(cs)
                      ELSE [qps  |-> [Mixed(cs) EXCEPT !.p95 = AtLeast(@, MinQps(Mixed(cs)))],
                            rate |-> FloorRate(DecayPercentile(dims.rate, Learnt(cs).rate, Decay))]
           /\ updates' = updates + 1
PROOF BY DEF Update, Learnt, Mixed, Decay, QpsSamples, RateSamples

LEMMA LearntIs ==
    ASSUME BaseInv, NEW cs \in CounterSets
    PROVE  /\ Learnt(cs) \in [qps : Pct, rate : Pct]
           /\ Learnt(cs).qps.p95 >= 500 /\ Floored(Learnt(cs).rate)
           /\ Mixed(cs) \in Pct
PROOF
<1>1. dims.qps \in Pct
  BY DEF BaseInv
<1>2. MinQps(dims.qps) \in Nat /\ MinQps(dims.qps) >= 500
  BY <1>1, MinQpsIs
<1>3. Percentiles(QpsSamples(cs)) \in Pct /\ Percentiles(RateSamples(cs)) \in Pct
  BY RoundSamples, PercentilesAre
<1>4. /\ FloorQps(Percentiles(QpsSamples(cs)), MinQps(dims.qps)) \in Pct
      /\ FloorQps(Percentiles(QpsSamples(cs)), MinQps(dims.qps)).p95 >= MinQps(dims.qps)
  BY <1>2, <1>3, FloorQpsIs
<1>5. /\ FloorRate(Percentiles(RateSamples(cs))) \in Pct
      /\ Floored(FloorRate(Percentiles(RateSamples(cs))))
  BY <1>3, FloorRateIs
<1>6. /\ Learnt(cs) \in [qps : Pct, rate : Pct]
      /\ Learnt(cs).qps = FloorQps(Percentiles(QpsSamples(cs)), MinQps(dims.qps))
      /\ Floored(Learnt(cs).rate)
  BY <1>4, <1>5 DEF Learnt
<1>7. Learnt(cs).qps.p95 >= 500
  <2>1. Learnt(cs).qps.p95 \in Nat
    BY <1>6 DEF Pct
  <2> QED BY <1>2, <1>4, <1>6, <2>1
<1>8. Decay \in 0..10
  BY DEF Decay
<1>9. Mixed(cs) \in Pct
  BY <1>1, <1>6, <1>8, DecayIs DEF Mixed
<1> QED BY <1>6, <1>7, <1>9

LEMMA UpdateInv ==
    ASSUME BaseInv, NEW cs \in CounterSets, Update(cs)
    PROVE  BaseInv'
PROOF
<1>1. dims.qps \in Pct /\ dims.rate \in Pct /\ updates \in Nat
  BY DEF BaseInv
<1>2. updates' \in Nat
  BY <1>1, UpdateIs
<1>3. CASE dims.qps.n = 0
  <2>1. dims' = Learnt(cs)
    BY <1>3, UpdateIs
  <2> QED BY <1>2, <2>1, LearntIs DEF BaseInv
<1>4. CASE dims.qps.n # 0
  <2> DEFINE q == [Mixed(cs) EXCEPT !.p95 = AtLeast(@, MinQps(Mixed(cs)))]
             r == FloorRate(DecayPercentile(dims.rate, Learnt(cs).rate, Decay))
  <2>1. dims' = [qps |-> q, rate |-> r]
    BY <1>4, UpdateIs
  <2>2. q \in Pct /\ q.p95 >= 500
    <3>1. MinQps(Mixed(cs)) \in Nat /\ MinQps(Mixed(cs)) >= 500
      BY LearntIs, MinQpsIs
    <3>2. q \in Pct /\ q.p95 >= MinQps(Mixed(cs))
      BY <3>1, LearntIs, Raised
    <3>3. q.p95 \in Nat
      BY <3>2 DEF Pct
    <3> HIDE DEF q
    <3> QED BY <3>1, <3>2, <3>3
  <2>3. r \in Pct /\ Floored(r)
    <3>1. Decay \in 0..10 /\ Learnt(cs).rate \in Pct
      BY LearntIs DEF Decay
    <3>2. DecayPercentile(dims.rate, Learnt(cs).rate, Decay) \in Pct
      BY <1>1, <3>1, DecayIs
    <3> QED BY <3>2, FloorRateIs
  <2> HIDE DEF q, r
  <2> QED BY <1>2, <2>1, <2>2, <2>3 DEF BaseInv
<1> QED BY <1>3, <1>4

\* The samples of a preload.
LEMMA PreloadSamples ==
    ASSUME NEW log \in Logs, NEW m
    PROVE  /\ Sample([i \in Healthy(log, m) |-> (log[i].total * 1000) \div 300])
           /\ Sample([i \in Healthy(log, m) |-> IF log[i].total > 0
                        THEN (log[i].n4xx * 10000) \div log[i].total ELSE 0])
PROOF
<1>1. IsFiniteSet(DOMAIN log) /\ \A a \in DOMAIN log : log[a].total \in Nat /\ log[a].n4xx \in Nat
  BY BaselineAssumption
<1>2. Healthy(log, m) \subseteq DOMAIN log
  BY DEF Healthy, Recent
<1>3. IsFiniteSet(Healthy(log, m))
  BY <1>1, <1>2, FS_Subset
<1>4. \A x \in Nat, y \in Nat \ {0} : x \div y \in Nat
  OBVIOUS
<1>5. \A i \in Healthy(log, m) : log[i].total \in Nat /\ log[i].n4xx \in Nat
  BY <1>1, <1>2
<1>6. \A i \in Healthy(log, m) : log[i].total * 1000 \in Nat /\ log[i].n4xx * 10000 \in Nat
  BY <1>5
<1>7. \A i \in Healthy(log, m) : (log[i].total * 1000) \div 300 \in Nat
  BY <1>4, <1>6
<1>8. \A i \in Healthy(log, m) : (IF log[i].total > 0
        THEN (log[i].n4xx * 10000) \div log[i].total ELSE 0) \in Nat
  BY <1>4, <1>5, <1>6
<1> QED BY <1>3, <1>7, <1>8 DEF Sample

LEMMA PreloadInv ==
    ASSUME BaseInv, NEW log \in Logs, Preload(log)
    PROVE  BaseInv'
PROOF
<1> DEFINE bs   == Healthy(log, ActualWindow(log))
           all  == [i \in bs |-> (log[i].total * 1000) \div 300]
           qps  == Percentiles(RemoveOutliers(TrimExtremes(all)))
           err  == [i \in bs |-> IF log[i].total > 0
                       THEN (log[i].n4xx * 10000) \div log[i].total ELSE 0]
           rate == Percentiles(TrimExtremes(err))
           min  == MinQps(qps)
           high == [qps EXCEPT !.p95 = min, !.p99 = 2 * min, !.p50 = (min * 3) \div 10]
<1>1. Sample(all) /\ Sample(err)
  BY PreloadSamples
<1>2. /\ updates = 0 /\ updates' = updates
      /\ dims' = [qps |-> IF qps.p95 >= min THEN qps ELSE high, rate |-> rate]
  BY DEF Preload
<1> HIDE DEF all, err
<1>3. qps \in Pct /\ rate \in Pct
  BY <1>1, SomeAreTrimmed, SomeAreKept, PartIsSample, PercentilesAre
<1> HIDE DEF qps, rate
<1>4. min \in Nat /\ min >= 500
  BY <1>3, MinQpsIs
<1> HIDE DEF min
<1>5. high \in Pct /\ high.p95 = min
  <2>1. 2 * min \in Nat /\ (min * 3) \div 10 \in Nat
    BY <1>4
  <2> QED BY <1>3, <1>4, <2>1 DEF Pct
<1> HIDE DEF high
<1>6. qps.p95 \in Nat /\ (qps.p95 >= min => qps.p95 >= 500)
  <2>1. qps.p95 \in Nat
    BY <1>3 DEF Pct
  <2> QED BY <1>4, <2>1
<1>7. dims' \in [qps : Pct, rate : Pct] /\ dims'.qps.p95 >= 500
  <2>1. CASE qps.p95 >= min
    BY <1>2, <1>3, <1>6, <2>1
  <2>2. CASE ~(qps.p95 >= min)
    BY <1>2, <1>3, <1>4, <1>5, <2>2
  <2> QED BY <2>1, <2>2
<1> QED BY <1>2, <1>7 DEF BaseInv

LEMMA BaseStep == BaseInv /\ [BaseNext]_baseVars => BaseInv'
PROOF
<1> SUFFICES ASSUME BaseInv, [BaseNext]_baseVars PROVE BaseInv'
  OBVIOUS
<1>1. ASSUME NEW cs \in CounterSets, Update(cs) PROVE BaseInv'
  BY <1>1, UpdateInv
<1>2. ASSUME NEW log \in Logs, Preload(log) PROVE BaseInv'
  BY <1>2, PreloadInv
<1>3. CASE Age
  BY <1>3 DEF Age, BaseInv
<1>4. CASE UNCHANGED baseVars
  BY <1>4 DEF baseVars, BaseInv
<1> QED BY <1>1, <1>2, <1>3, <1>4 DEF BaseNext

LEMMA ThresholdsGrow ==
    ASSUME NEW q \in Pct, NEW conf
    PROVE  LET t == Thresholds(q, conf) IN 100 < t[1] /\ t[1] <= t[2] /\ t[2] <= t[3]
PROOF
<1>1. CASE conf < 50 \/ q.n = 0 \/ q.p50 <= 0
  BY <1>1 DEF Thresholds
<1>2. CASE ~(conf < 50 \/ q.n = 0 \/ q.p50 <= 0)
  <2> DEFINE r == Clamp((q.p95 * 100) \div AtLeast(q.p50, 500), 101, 1000)
  <2>1. r \in 101..1000
    <3>1. q.p95 \in Nat /\ q.p50 \in Nat
      BY DEF Pct
    <3>2. q.p95 * 100 \in Nat /\ AtLeast(q.p50, 500) \in Nat \ {0}
      BY <3>1 DEF AtLeast
    <3>3. \A x \in Nat, y \in Nat \ {0} : x \div y \in Nat
      OBVIOUS
    <3>4. (q.p95 * 100) \div AtLeast(q.p50, 500) \in Nat
      BY <3>2, <3>3
    <3> QED BY <3>4 DEF Clamp
  <2> HIDE DEF r
  <2> DEFINE a == Clamp((r * 12) \div 10, 150, 1500)
             b == Clamp((r * 15) \div 10, 200, 1500)
             c == Clamp((r * 25) \div 10, 300, 1500)
  <2>2. a \in Nat /\ b \in Nat /\ c \in Nat /\ 100 < a /\ a <= b /\ b <= c
    BY <2>1 DEF Clamp
  <2>3. Thresholds(q, conf) = <<a, b, c>>
    BY <1>2 DEF Thresholds, r
  <2> HIDE DEF a, b, c
  <2> QED BY <2>2, <2>3
<1> QED BY <1>1, <1>2

LEMMA GuardIsLow ==
    ASSUME NEW q \in Pct
    PROVE  /\ q.p95 >= 500 => GuardQps(q) < q.p95
           /\ q.p95 < 50000000 => GuardQps(q) < 1000000
PROOF
<1>1. q.p95 \in Nat /\ q.n \in Nat
  BY DEF Pct
<1> QED BY <1>1 DEF GuardQps, AtLeast

LEMMA BaseInvFloor == BaseInv => BaselineFloor
PROOF
<1> SUFFICES ASSUME BaseInv PROVE BaselineFloor
  OBVIOUS
<1>1. dims.qps \in Pct /\ dims.rate \in Pct /\ dims.qps.p95 \in Nat
  BY DEF BaseInv, Pct
<1>2. IsReady => dims.qps.p95 >= 500
  BY DEF BaseInv, IsReady
<1>3. /\ IsReady => GetDims = dims
      /\ ~IsReady => GetDims.qps.p95 = 1000000 /\ GetDims.rate.p95 = 10000
  BY DEF GetDims, DefaultDims
<1>4. GetDims.qps.p95 >= 500
  BY <1>2, <1>3
<1>5. IsReady \/ dims.qps.p95 < 50000000 => GuardQps(dims.qps) < GetDims.qps.p95
  BY <1>1, <1>2, <1>3, GuardIsLow
<1>6. updates > 0 /\ dims.rate.n > 0 => GetDims.rate.p95 >= 10
  BY <1>3 DEF BaseInv, Floored
<1> QED BY <1>1, <1>4, <1>5, <1>6, ThresholdsGrow DEF BaselineFloor

LEMMA BaseInvHolds == BaseSpec => []BaseInv
PROOF BY BaseInitInv, BaseStep, PTL DEF BaseSpec

\* The usual speed the scorer divides by is at least half a request per second, the speed
\* below which it ignores an address is lower than that, the thresholds of a deviation are
\* in order and, after a round, so is the floor of the rates: for any samples, logs and
\* window.
THEOREM BaselineHasFloor == BaseSpec => []BaselineFloor
PROOF BY BaseInvHolds, BaseInvFloor, PTL
-----------------------------------------------------------------------------
(* What the baseline follows: BaseSpec => BaselineIsRobust. *)

\* Without samples a round keeps what there is, and the floors already hold of it.
LEMMA QuietKeeps ==
    ASSUME BaseInv, NEW cs \in CounterSets, Update(cs), Usable(cs) = {},
           updates > 0, dims.qps.n > 0
    PROVE  dims' = dims
PROOF
<1>1. dims.qps \in Pct /\ dims.rate \in Pct /\ dims = [qps |-> dims.qps, rate |-> dims.rate]
  BY DEF BaseInv
<1>2. dims.qps.n \in Nat /\ updates \in Nat
  BY <1>1 DEF Pct, BaseInv
<1>3. dims.qps.p95 >= 500 /\ Floored(dims.rate)
  BY <1>2 DEF BaseInv
<1>4. Percentiles(QpsSamples(cs)) = NoPercentile /\ Percentiles(RateSamples(cs)) = NoPercentile
  <2>1. DOMAIN QpsOf(cs) = {} /\ DOMAIN RateOf(cs) = {}
    BY DEF QpsOf, RateOf
  <2>2. DOMAIN QpsSamples(cs) = {} /\ DOMAIN RateSamples(cs) = {}
    BY <2>1, RoundSamples DEF PartOf
  <2> QED BY <2>2 DEF Percentiles
<1>5. NoPercentile \in Pct /\ NoPercentile.n = 0
  BY DEF NoPercentile, Pct
<1>6. Learnt(cs).qps \in Pct /\ Learnt(cs).rate \in Pct
  BY LearntIs
<1>7. Learnt(cs).qps.n = 0 /\ Learnt(cs).rate.n = 0
  <2>1. FloorQps(NoPercentile, MinQps(dims.qps)).n = 0
    BY <1>1, <1>5, MinQpsIs, FloorQpsIs
  <2>2. FloorRate(NoPercentile).n = 0
    BY <1>5 DEF FloorRate
  <2> QED BY <1>4, <2>1, <2>2 DEF Learnt
<1>8. Decay \in 0..10
  BY DEF Decay
<1>9. Mixed(cs) = dims.qps /\ DecayPercentile(dims.rate, Learnt(cs).rate, Decay) = dims.rate
  BY <1>1, <1>6, <1>7, <1>8, DecayIs DEF Mixed
<1>10. MinQps(dims.qps) \in Nat /\ MinQps(dims.qps) <= dims.qps.p95
  BY <1>1, <1>2, <1>3, MinQpsIs
<1>11. [Mixed(cs) EXCEPT !.p95 = AtLeast(@, MinQps(Mixed(cs)))] = dims.qps
  BY <1>1, <1>9, <1>10, Raised
<1>12. FloorRate(DecayPercentile(dims.rate, Learnt(cs).rate, Decay)) = dims.rate
  BY <1>1, <1>3, <1>9, FloorRateIs
<1> QED BY <1>1, <1>2, <1>11, <1>12, UpdateIs

\* The samples f up to most, and those above.
Rest(f, most) == {a \in DOMAIN f : f[a] <= most}

\* The samples above most are far above and fewer, and no value is that of more than half
\* of the rest.
Spiked(f, most) ==
    LET slow == Rest(f, most)
        fast == DOMAIN f \ slow
    IN  /\ \A a \in fast : f[a] > 10 * most
        /\ Cardinality(slow) >= 5 /\ Cardinality(fast) < Cardinality(slow)
        /\ \A a \in slow : 2 * Cardinality({b \in slow : f[b] = f[a]}) <= Cardinality(slow)

\* The rest holds the middle of all.
LEMMA RestIsMost ==
    ASSUME NEW f, Sample(f), NEW most \in Nat, Spiked(f, most)
    PROVE  /\ Cardinality(Rest(f, most)) \in Nat /\ Size(f) \in Nat /\ Size(f) >= 5
           /\ Size(f) \div 2 + 1 <= Cardinality(Rest(f, most))
           /\ Size(f) \div 2 + 1 \in Nat \ {0} /\ Size(f) \div 2 + 1 <= Size(f)
           /\ Cardinality(Rest(f, most)) <= Size(f)
PROOF
<1> DEFINE s == Cardinality(Rest(f, most))
           t == Cardinality(DOMAIN f \ Rest(f, most))
<1>1. Rest(f, most) \subseteq DOMAIN f /\ DOMAIN f \ Rest(f, most) \subseteq DOMAIN f
  BY DEF Rest
<1>2. s \in Nat /\ t \in Nat /\ s <= Size(f) /\ Size(f) \in Nat
  BY <1>1, Counts, SizeType
<1>3. t = Size(f) - s
  <2>1. Rest(f, most) = DOMAIN f \cap Rest(f, most)
    BY <1>1
  <2> QED BY <2>1, FS_Difference DEF Sample, Size
<1>4. s >= 5 /\ t < s
  BY DEF Spiked
<1> HIDE DEF s, t
<1> DEFINE n == Size(f)
<1> HIDE DEF n
<1>5. n \in Nat /\ s \in Nat /\ s >= 5 /\ s <= n /\ n - s < s
  BY <1>2, <1>3, <1>4 DEF n
<1>6. n >= 5 /\ n \div 2 + 1 <= s /\ n \div 2 + 1 \in Nat \ {0} /\ n \div 2 + 1 <= n
  BY ONLY <1>5
<1> QED BY <1>2, <1>6 DEF s, n

LEMMA SpikesRemoved ==
    ASSUME NEW f, Sample(f), NEW most \in Nat, Spiked(f, most)
    PROVE  \A i \in DOMAIN RemoveOutliers(f) : f[i] <= most
PROOF
<1> DEFINE m == Median(f)
           d == Apartness(f, m)
           mad == Median(d)
           mid == Size(f) \div 2 + 1
<1>1. /\ mid \in Nat \ {0} /\ mid <= Cardinality(Rest(f, most))
      /\ Cardinality(Rest(f, most)) \in Nat /\ Cardinality(Rest(f, most)) <= Size(f)
      /\ Size(f) \in Nat /\ Size(f) >= 5 /\ mid <= Size(f)
  BY RestIsMost
<1>2. Rest(f, most) = NotAbove(f, most)
  BY DEF Rest, NotAbove
<1>3. m \in Nat /\ m <= most
  BY <1>1, <1>2, NthIsUpTo DEF Median
<1> HIDE DEF m
<1>4. Sample(d) /\ DOMAIN d = DOMAIN f /\ Size(d) = Size(f)
  BY <1>3 DEF Sample, Apartness, Size
<1>5. \A i \in DOMAIN f : d[i] = (IF f[i] < m THEN m - f[i] ELSE f[i] - m)
  BY DEF Apartness
<1> HIDE DEF d
<1>6. mad \in Nat /\ mad <= most
  <2>1. Rest(f, most) \subseteq NotAbove(d, most)
    BY <1>3, <1>4, <1>5 DEF Rest, NotAbove, Sample
  <2>2. NotAbove(d, most) \subseteq DOMAIN d
    BY DEF NotAbove
  <2>3. IsFiniteSet(NotAbove(d, most)) /\ Cardinality(NotAbove(d, most)) \in Nat
    BY <1>4, <2>2, Counts
  <2>4. Cardinality(Rest(f, most)) <= Cardinality(NotAbove(d, most))
    BY <2>1, <2>3, FS_Subset
  <2>5. mid <= Cardinality(NotAbove(d, most))
    BY <1>1, <2>3, <2>4
  <2> QED BY <1>1, <1>4, <2>5, NthIsUpTo DEF Median
<1>7. mad > 0
  <2> SUFFICES ASSUME mad = 0 PROVE FALSE
    BY <1>6
  <2>1. mid <= Cardinality(NotAbove(d, 0))
    <3>1. Nth(d, mid) = 0
      BY <1>4 DEF Median
    <3> QED BY <1>1, <1>4, <3>1, NthIs
  <2>2. NotAbove(d, 0) # {}
    BY <1>1, <2>1, FS_EmptySet
  <2>3. PICK a \in NotAbove(d, 0) : TRUE
    BY <2>2
  <2>4. \A b \in NotAbove(d, 0) : b \in Rest(f, most) /\ f[b] = m
    BY <1>3, <1>4, <1>5 DEF NotAbove, Rest, Sample
  <2> DEFINE same == {b \in Rest(f, most) : f[b] = f[a]}
  <2>5. 2 * Cardinality(same) <= Cardinality(Rest(f, most))
    BY <2>3, <2>4 DEF Spiked
  <2>6. NotAbove(d, 0) \subseteq same /\ same \subseteq DOMAIN f
    BY <2>3, <2>4 DEF Rest
  <2> HIDE DEF same
  <2>7. IsFiniteSet(same) /\ Cardinality(same) \in Nat
    BY <2>6, Counts
  <2>8. Cardinality(NotAbove(d, 0)) <= Cardinality(same) /\ Cardinality(NotAbove(d, 0)) \in Nat
    BY <2>6, <2>7, FS_Subset, FS_CardinalityType
  <2> DEFINE n == Size(f)
             s == Cardinality(Rest(f, most))
             x == Cardinality(same)
             w == Cardinality(NotAbove(d, 0))
  <2>9. n \in Nat /\ s \in Nat /\ x \in Nat /\ w \in Nat /\ n \div 2 + 1 <= w /\ w <= x
        /\ 2 * x <= s /\ s <= n
    BY <1>1, <2>1, <2>5, <2>7, <2>8
  <2> HIDE DEF n, s, x, w
  <2> QED BY ONLY <2>9
<1> HIDE DEF mad, mid
<1>8. RemoveOutliers(f) = UpTo(f, m + 5 * mad)
  BY <1>1, <1>6, <1>7 DEF RemoveOutliers, mad, d, m
<1> SUFFICES ASSUME NEW i \in DOMAIN RemoveOutliers(f), ~(f[i] <= most) PROVE FALSE
  BY DEF Sample
<1>9. i \in DOMAIN f /\ f[i] <= m + 5 * mad
  BY <1>8, SomeAreUpTo DEF NotAbove
<1>10. f[i] > 10 * most /\ f[i] \in Nat
  BY <1>9 DEF Spiked, Rest, Sample
<1> DEFINE v == f[i]
<1>11. v \in Nat /\ v > 10 * most /\ v <= m + 5 * mad
  BY <1>9, <1>10
<1> HIDE DEF v
<1> QED BY ONLY <1>3, <1>6, <1>7, <1>11, most \in Nat

LEMMA SpikesForgottenByRound ==
    ASSUME BaseInv, NEW cs \in CounterSets, NEW most \in Nat, NEW bound \in Nat,
           Spiked(QpsOf(cs), most), Update(cs),
           dims.qps.p95 <= bound, most <= bound, 1000 <= bound
    PROVE  dims'.qps.p95 <= bound
PROOF
<1>1. dims.qps \in Pct
  BY DEF BaseInv
<1>2. Sample(QpsOf(cs)) /\ Sample(QpsSamples(cs))
  BY SamplesAre, RoundSamples
<1>3. \A i \in DOMAIN QpsSamples(cs) : QpsSamples(cs)[i] \in Nat /\ QpsSamples(cs)[i] <= most
  <2> DEFINE f == QpsOf(cs)
             g == RemoveOutliers(f)
             h == QpsSamples(cs)
  <2>1. PartOf(h, g) /\ PartOf(g, f) /\ h = TrimExtremes(g)
    BY SomeAreTrimmed, SomeAreKept DEF QpsSamples
  <2>2. \A i \in DOMAIN g : f[i] <= most
    BY <1>2, SpikesRemoved
  <2>3. \A i \in DOMAIN h : h[i] \in Nat
    BY <1>2 DEF Sample
  <2> HIDE DEF f, g, h
  <2>4. \A i \in DOMAIN h : i \in DOMAIN g /\ h[i] = f[i]
    BY <2>1 DEF PartOf
  <2> QED BY <2>2, <2>3, <2>4 DEF h
<1>4. Percentiles(QpsSamples(cs)) \in Pct /\ Percentiles(QpsSamples(cs)).p95 <= bound
  <2>1. Percentiles(QpsSamples(cs)) \in Pct
    BY <1>2, PercentilesAre
  <2>2. CASE DOMAIN QpsSamples(cs) = {}
    BY <2>1, <2>2, <1>2, PercentilesAre DEF NoPercentile
  <2>3. CASE DOMAIN QpsSamples(cs) # {}
    <3>1. Percentiles(QpsSamples(cs)).p95 \in Range(QpsSamples(cs))
      BY <1>2, <2>3, PercentilesAre
    <3>2. Percentiles(QpsSamples(cs)).p95 \in Nat /\ Percentiles(QpsSamples(cs)).p95 <= most
      BY <1>3, <3>1 DEF Range
    <3> QED BY <2>1, <3>2
  <2> QED BY <2>2, <2>3
<1>5. /\ MinQps(dims.qps) \in Nat /\ MinQps(dims.qps) <= bound
  BY <1>1, MinQpsIs
<1>6. Learnt(cs).qps \in Pct /\ Learnt(cs).qps.p95 <= bound
  <2> DEFINE p == Percentiles(QpsSamples(cs))
             low == MinQps(dims.qps)
  <2>1. Learnt(cs).qps = FloorQps(p, low)
    BY DEF Learnt
  <2>2. p \in Pct /\ p.p95 <= bound /\ low \in Nat /\ low <= bound
    BY <1>4, <1>5
  <2> HIDE DEF p, low
  <2>3. FloorQps(p, low) \in Pct /\ FloorQps(p, low).p95 <= bound
    BY <2>2, FloorQpsIs
  <2> QED BY <2>1, <2>3
<1>7. Mixed(cs) \in Pct /\ Mixed(cs).p95 <= bound
  <2>1. Decay \in 0..10
    BY DEF Decay
  <2> DEFINE old == dims.qps
             curr == Learnt(cs).qps
  <2>2. old \in Pct /\ old.p95 <= bound /\ curr \in Pct /\ curr.p95 <= bound
    BY <1>1, <1>6
  <2> HIDE DEF old, curr
  <2>3. /\ DecayPercentile(old, curr, Decay) \in Pct
        /\ DecayPercentile(old, curr, Decay).p95 <= bound
    BY <2>1, <2>2, DecayIs
  <2> QED BY <2>3 DEF Mixed, old, curr
<1>8. MinQps(Mixed(cs)) \in Nat /\ MinQps(Mixed(cs)) <= bound
  BY <1>7, MinQpsIs
<1>9. [Mixed(cs) EXCEPT !.p95 = AtLeast(@, MinQps(Mixed(cs)))].p95 <= bound
  BY <1>7, <1>8, Raised
<1>10. dims'.qps = Learnt(cs).qps
       \/ dims'.qps = [Mixed(cs) EXCEPT !.p95 = AtLeast(@, MinQps(Mixed(cs)))]
  BY UpdateIs
<1> QED BY <1>6, <1>9, <1>10

\* What one round has to do with silence and with spikes.
QuietStep ==
    updates' > updates => \A cs \in CounterSets :
        Update(cs) /\ Usable(cs) = {} /\ updates > 0 /\ dims.qps.n > 0 => dims' = dims

SpikeStep ==
    updates' > updates => \A cs \in CounterSets : \A most \in Range(QpsOf(cs)) :
        LET qps  == QpsOf(cs)
            slow == {a \in DOMAIN qps : qps[a] <= most}
            fast == DOMAIN qps \ slow
        IN  /\ \A a \in fast : qps[a] > 10 * most
            /\ Cardinality(slow) >= 5 /\ Cardinality(fast) < Cardinality(slow)
            /\ \A a \in slow :
                  2 * Cardinality({b \in slow : qps[b] = qps[a]}) <= Cardinality(slow)
            /\ Update(cs)
            => dims'.qps.p95 <= AtLeast(AtLeast(dims.qps.p95, most), 1000)

LEMMA SpikesForgottenAtOnce ==
    ASSUME BaseInv
    PROVE  SpikeStep
PROOF
<1>1. ASSUME NEW cs \in CounterSets, NEW most \in Range(QpsOf(cs)),
             Spiked(QpsOf(cs), most), Update(cs)
      PROVE  dims'.qps.p95 <= AtLeast(AtLeast(dims.qps.p95, most), 1000)
  <2> DEFINE bound == AtLeast(AtLeast(dims.qps.p95, most), 1000)
  <2>1. most \in Nat
    BY SamplesAre DEF Sample, Range
  <2>2. dims.qps.p95 \in Nat
    BY DEF BaseInv, Pct
  <2>3. bound \in Nat /\ dims.qps.p95 <= bound /\ most <= bound /\ 1000 <= bound
    BY <2>1, <2>2 DEF AtLeast
  <2> HIDE DEF bound
  <2>4. dims'.qps.p95 <= bound
    BY <1>1, <2>1, <2>3, SpikesForgottenByRound
  <2> QED BY <2>4 DEF bound
<1> QED BY <1>1 DEF SpikeStep, Spiked, Rest

LEMMA RobustSteps == BaseInv => QuietStep /\ SpikeStep
PROOF BY QuietKeeps, SpikesForgottenAtOnce DEF QuietStep

\* A round without usable samples changes nothing, and addresses ten times as fast as the
\* others and fewer than them do not raise the usual speed: for any samples and window.
THEOREM BaselineKeepsItsHead == BaseSpec => BaselineIsRobust
PROOF
<1>1. BaseInv => QuietStep /\ SpikeStep
  BY RobustSteps
<1>2. BaseSpec => [][QuietStep]_baseVars
  BY <1>1, BaseInvHolds, PTL
<1>3. BaseSpec => [][SpikeStep]_baseVars
  BY <1>1, BaseInvHolds, PTL
<1>4. [][QuietStep]_baseVars <=> QuietKeepsBaseline
  BY DEF QuietStep, QuietKeepsBaseline
<1>5. [][SpikeStep]_baseVars <=> SpikesForgotten
  BY DEF SpikeStep, SpikesForgotten
<1> QED BY <1>2, <1>3, <1>4, <1>5, PTL DEF BaselineIsRobust

=============================================================================
