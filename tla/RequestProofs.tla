---------------------------- MODULE RequestProofs ----------------------------
(***************************************************************************)
(* Proofs about what the detector reads of any request, and of any run of  *)
(* requests of one address.  Paths: a path reads the same however it is    *)
(* encoded, and a segment that climbs is seen.  Requests: what fits of a   *)
(* body is searched.  Consistency: the ring of an address keeps its latest *)
(* requests, and neither walls nor scans pass for a user.                  *)
(***************************************************************************)
EXTENDS Calls, FiniteSetTheorems, SequenceTheorems,
        WellFoundedInduction, TLAPS

-----------------------------------------------------------------------------
(* The least of some naturals, and the images of a finite set. *)

\* A set of naturals that is not empty has a least element.
LEMMA LeastOf ==
    ASSUME NEW S \in SUBSET Nat, S # {}
    PROVE  \E x \in S : \A y \in S : x <= y
PROOF
<1>1. \E x \in S : \A y \in S : ~(<<y, x>> \in OpToRel(<, Nat))
  BY NatLessThanWellFounded, WFMin
<1>2. \A x, y \in Nat : x < y => <<x, y>> \in OpToRel(<, Nat)
  BY DEF OpToRel
<1>3. PICK x \in S : \A y \in S : ~(<<y, x>> \in OpToRel(<, Nat))
  BY <1>1
<1>4. \A y \in S : ~(y < x)
  BY <1>2, <1>3
<1>5. \A y \in S : x <= y
  BY <1>4
<1> QED BY <1>5

\* The image of a finite set is finite.
LEMMA ImageFinite ==
    ASSUME NEW S, IsFiniteSet(S), NEW f, DOMAIN f = S
    PROVE  IsFiniteSet({f[x] : x \in S})
PROOF
<1> DEFINE Im == {f[x] : x \in S}
<1>1. [x \in S |-> f[x]] \in Surjection(S, Im)
  BY DEF Surjection
<1> QED BY <1>1, FS_Surjection

-----------------------------------------------------------------------------
(* The value of a fold over a sequence, one record after the other. *)

\* The greatest of some positions is one of them.
LEMMA MaxIs ==
    ASSUME NEW n \in Nat, NEW t \in SUBSET (1..n), t # {}
    PROVE  Max(t) \in t /\ \A y \in t : Max(t) >= y
PROOF
<1> DEFINE D == {n - x : x \in t}
<1>0. \A x \in t : x \in 1..n /\ n - x \in Nat
  <2> TAKE x \in t
  <2>1. x \in 1..n
    OBVIOUS
  <2> QED BY <2>1
<1>1. D \in SUBSET Nat /\ D # {}
  BY <1>0
<1> HIDE DEF D
<1>2. PICK d \in D : \A e \in D : d <= e
  BY <1>1, LeastOf
<1>3. PICK x \in t : d = n - x
  BY <1>2 DEF D
<1>4. \A y \in t : x >= y
  <2> TAKE y \in t
  <2>1. n - y \in D
    BY DEF D
  <2>2. n - x <= n - y
    BY <1>2, <1>3, <2>1
  <2>3. x \in Int /\ y \in Int
    OBVIOUS
  <2> QED BY <2>2, <2>3
<1> QED BY <1>4 DEF Max

\* it is the fold with the step st over the subsets D of the positions of s.
IsFold(it, st, base, s, D) ==
    \A t \in D : it[t] = IF t = {} THEN base ELSE st[<<it[t \ {Max(t)}], s[Max(t)]>>]

\* What is left without it lies among fewer positions.
LEMMA WithoutMax ==
    ASSUME NEW n \in Nat, NEW t \in SUBSET (1..n), t # {}
    PROVE  /\ n # 0 /\ Max(t) \in 1..n
           /\ t \ {Max(t)} \in SUBSET (1..(n - 1))
PROOF
<1>1. Max(t) \in t /\ \A y \in t : Max(t) >= y
  BY MaxIs
<1>2. Max(t) \in 1..n
  BY <1>1
<1>3. n # 0
  BY <1>2
<1>4. \A y \in t \ {Max(t)} : y \in 1..(n - 1)
  <2> TAKE y \in t \ {Max(t)}
  <2> DEFINE m == Max(t)
  <2>1. y \in 1..n /\ m \in 1..n /\ y # m /\ m >= y
    BY <1>1, <1>2
  <2> HIDE DEF m
  <2> QED BY <2>1
<1> QED BY <1>2, <1>3, <1>4

\* A fold has a value for the subsets of the first n positions, whatever n is.
LEMMA FoldsExist ==
    ASSUME NEW V, NEW R, NEW st \in [V \X R -> V], NEW base \in V, NEW s \in Seq(R)
    PROVE  \A n \in 0..Len(s) : \E it \in [SUBSET (1..n) -> V] :
                                    IsFold(it, st, base, s, SUBSET (1..n))
PROOF
<1> DEFINE Ok(n) == \E it \in [SUBSET (1..n) -> V] : IsFold(it, st, base, s, SUBSET (1..n))
           Bad == {n \in 0..Len(s) : ~ Ok(n)}
<1> SUFFICES ASSUME Bad # {} PROVE FALSE
  OBVIOUS
<1>0. Len(s) \in Nat /\ \A x \in 1..Len(s) : s[x] \in R
  OBVIOUS
<1>1. PICK n \in Bad : \A m \in Bad : n <= m
  <2>1. Bad \in SUBSET Nat
    BY <1>0
  <2> HIDE DEF Bad
  <2> QED BY <2>1, LeastOf
<1>2. n \in 0..Len(s) /\ n \in Nat /\ ~ Ok(n)
  <2>1. n \in 0..Len(s) /\ ~ Ok(n)
    BY <1>1
  <2> HIDE DEF Ok
  <2>2. n \in Nat
    BY <2>1, <1>0
  <2> QED BY <2>1, <2>2
<1>3. CASE n = 0
  <2> DEFINE jt == [t \in SUBSET (1..0) |-> base]
  <2>1. \A t \in SUBSET (1..0) : t = {}
    OBVIOUS
  <2>2. jt \in [SUBSET (1..0) -> V] /\ IsFold(jt, st, base, s, SUBSET (1..0))
    BY <2>1 DEF IsFold
  <2> QED BY <1>2, <1>3, <2>2
<1>4. CASE n # 0
  <2>1. n - 1 \in 0..Len(s) /\ n - 1 \in Nat /\ n - 1 \notin Bad
    <3>1. n - 1 \in 0..Len(s) /\ n - 1 \in Nat
      BY <1>0, <1>2, <1>4
    <3>2. n - 1 \in Bad => n <= n - 1
      BY <1>1
    <3> HIDE DEF Bad
    <3> QED BY <1>2, <3>1, <3>2
  <2>2. PICK it \in [SUBSET (1..(n - 1)) -> V] : IsFold(it, st, base, s, SUBSET (1..(n - 1)))
    BY <2>1
  <2> DEFINE D == SUBSET (1..n)
             E == SUBSET (1..(n - 1))
             N(t) == IF t = {} THEN base ELSE st[<<it[t \ {Max(t)}], s[Max(t)]>>]
             jt == [t \in D |-> N(t)]
  <2>3. \A t \in E : it[t] = N(t)
    BY <2>2 DEF IsFold
  <2>4. E \subseteq D
    BY <1>2
  <2>5. \A t \in D : t # {} => t \ {Max(t)} \in E /\ s[Max(t)] \in R
    <3> TAKE t \in D
    <3> HAVE t # {}
    <3>1. Max(t) \in 1..n /\ t \ {Max(t)} \in E
      BY <1>2, WithoutMax
    <3>2. Max(t) \in 1..Len(s)
      BY <3>1, <1>0, <1>2
    <3> QED BY <3>1, <3>2, <1>0
  <2>6. \A t \in D : N(t) \in V
    <3> TAKE t \in D
    <3>1. CASE t = {}
      BY <3>1
    <3>2. CASE t # {}
      <4>1. it[t \ {Max(t)}] \in V /\ s[Max(t)] \in R
        BY <2>2, <2>5, <3>2
      <4> QED BY <3>2, <4>1
    <3> QED BY <3>1, <3>2
  <2>7. jt \in [D -> V]
    BY <2>6
  <2> HIDE DEF D, E
  <2>8. \A t \in E : jt[t] = it[t]
    BY <2>3, <2>4
  <2>9. \A t \in D : jt[t] = IF t = {} THEN base ELSE st[<<jt[t \ {Max(t)}], s[Max(t)]>>]
    BY <2>5, <2>8
  <2> HIDE DEF jt
  <2>10. IsFold(jt, st, base, s, SUBSET (1..n))
    BY <2>9 DEF IsFold, D
  <2> QED BY <2>7, <2>10, <1>2 DEF D
<1> QED BY <1>3, <1>4

\* The prefixes of the positions.
LEMMA PrefixMax ==
    ASSUME NEW k \in Nat, k >= 1
    PROVE  /\ 1..k # {} /\ Max(1..k) = k /\ (1..k) \ {k} = 1..(k - 1)
PROOF
<1>1. 1..k # {} /\ k \in 1..k
  OBVIOUS
<1>2. Max(1..k) \in 1..k /\ Max(1..k) >= k
  BY <1>1, MaxIs
<1> QED BY <1>1, <1>2

\* So a fold over s has a value for all positions of s.
FoldsTo(it, st, base, s, V, R) ==
    /\ it \in [SUBSET DOMAIN s -> V]
    /\ \A t \in SUBSET DOMAIN s :
          /\ it[t] = IF t = {} THEN base ELSE st[<<it[t \ {Max(t)}], s[Max(t)]>>]
          /\ t # {} => <<it[t \ {Max(t)}], s[Max(t)]>> \in V \X R

LEMMA FoldValues ==
    ASSUME NEW V, NEW R, NEW st \in [V \X R -> V], NEW base \in V, NEW s \in Seq(R)
    PROVE  \E it : FoldsTo(it, st, base, s, V, R)
PROOF
<1>1. Len(s) \in Nat /\ Len(s) \in 0..Len(s) /\ DOMAIN s = 1..Len(s)
  BY LenProperties
<1>2. PICK it \in [SUBSET (1..Len(s)) -> V] : IsFold(it, st, base, s, SUBSET (1..Len(s)))
  BY <1>1, FoldsExist
<1>3. ASSUME NEW t \in SUBSET DOMAIN s, t # {}
      PROVE  <<it[t \ {Max(t)}], s[Max(t)]>> \in V \X R
  <2>1. Max(t) \in 1..Len(s)
    BY <1>1, <1>3, WithoutMax
  <2>2. s[Max(t)] \in R
    BY <2>1, <1>1
  <2>3. it[t \ {Max(t)}] \in V
    BY <1>1
  <2> QED BY <2>2, <2>3
<1>4. \A t \in SUBSET DOMAIN s :
         it[t] = IF t = {} THEN base ELSE st[<<it[t \ {Max(t)}], s[Max(t)]>>]
  BY <1>1, <1>2 DEF IsFold
<1> QED BY <1>1, <1>2, <1>3, <1>4 DEF FoldsTo

\* The first positions of a sequence.
LEMMA PrefixesOf ==
    ASSUME NEW R, NEW s \in Seq(R)
    PROVE  /\ Len(s) \in Nat /\ 1..Len(s) = DOMAIN s /\ 1..0 = {}
           /\ \A k \in 1..Len(s) :
                 /\ s[k] \in R /\ k - 1 \in 0..Len(s)
                 /\ 1..k \in SUBSET DOMAIN s /\ 1..k # {} /\ Max(1..k) = k
                 /\ (1..k) \ {Max(1..k)} = 1..(k - 1)
PROOF
<1>1. Len(s) \in Nat /\ 1..Len(s) = DOMAIN s /\ \A k \in 1..Len(s) : s[k] \in R
  OBVIOUS
<1>2. ASSUME NEW k \in 1..Len(s)
      PROVE  /\ k - 1 \in 0..Len(s) /\ 1..k \in SUBSET DOMAIN s
             /\ 1..k # {} /\ Max(1..k) = k /\ (1..k) \ {Max(1..k)} = 1..(k - 1)
  <2>1. k \in Nat /\ k >= 1 /\ k <= Len(s)
    BY <1>1
  <2>2. k - 1 \in 0..Len(s) /\ 1..k \in SUBSET (1..Len(s))
    BY <1>1, <2>1
  <2> QED BY <1>1, <2>1, <2>2, PrefixMax
<1>3. 1..0 = {}
  OBVIOUS
<1> QED BY <1>1, <1>2, <1>3

\* The record at the greatest of some positions.
LEMMA PlaceOf ==
    ASSUME NEW R, NEW s \in Seq(R), NEW t \in SUBSET DOMAIN s, t # {}
    PROVE  s[Max(t)] \in R
PROOF
<1>1. Len(s) \in Nat /\ DOMAIN s = 1..Len(s)
  BY LenProperties
<1>2. Max(t) \in DOMAIN s
  BY <1>1, WithoutMax
<1> QED BY <1>1, <1>2

\* p takes a step st from each set of positions in V.
StepsTo(p, st, base, s, V) ==
    \A t \in SUBSET DOMAIN s :
        IF t = {} THEN p[t] = base
        ELSE p[t \ {Max(t)}] \in V => p[t] = st[<<p[t \ {Max(t)}], s[Max(t)]>>]

\* The step, the first value and the records of a fold.
IsStep(st, base, s, V, R) == st \in [V \X R -> V] /\ base \in V /\ s \in Seq(R)

\* g goes through the values of the fold, one record after the other.
Runs(g, st, base, s, V) ==
    /\ g[0] = base /\ \A k \in 0..Len(s) : g[k] \in V
    /\ \A k \in 1..Len(s) : g[k] = st[<<g[k - 1], s[k]>>]

\* The value for all positions is the last that g goes through.
Reaches(p, st, base, s, V) == \E g : Runs(g, st, base, s, V) /\ p[DOMAIN s] = g[Len(s)]

\* So the values for the first positions come one from the other.
LEMMA FoldRuns ==
    ASSUME NEW V, NEW R, NEW st, NEW base, NEW s, IsStep(st, base, s, V, R),
           NEW p, StepsTo(p, st, base, s, V)
    PROVE  Reaches(p, st, base, s, V)
PROOF
<1> DEFINE n == Len(s)
           g == [k \in 0..n |-> p[1..k]]
<1>1. /\ n \in Nat /\ 1..n = DOMAIN s /\ 1..0 = {}
      /\ \A k \in 1..n : /\ s[k] \in R /\ k - 1 \in 0..n
                         /\ 1..k \in SUBSET DOMAIN s /\ 1..k # {} /\ Max(1..k) = k
                         /\ (1..k) \ {Max(1..k)} = 1..(k - 1)
  BY PrefixesOf DEF IsStep
<1>2. p[{}] = base /\ \A k \in 1..n : p[1..(k - 1)] \in V => p[1..k] = st[<<p[1..(k - 1)], s[k]>>]
  BY <1>1 DEF StepsTo
<1> HIDE DEF n
<1>3. \A k \in 0..n : g[k] = p[1..k]
  OBVIOUS
<1>4. g[0] = base /\ g[n] = p[DOMAIN s]
  <2>1. 0 \in 0..n /\ n \in 0..n
    BY <1>1
  <2> QED BY <1>1, <1>2, <1>3, <2>1
<1>5. \A k \in 1..n : g[k - 1] \in V => g[k] = st[<<g[k - 1], s[k]>>]
  <2> TAKE k \in 1..n
  <2>1. k \in 0..n /\ k - 1 \in 0..n
    BY <1>1
  <2> QED BY <1>2, <1>3, <2>1
<1> HIDE DEF g
<1> DEFINE Bad == {k \in 0..n : g[k] \notin V}
<1>a. base \in V /\ st \in [V \X R -> V]
  BY DEF IsStep
<1>6. Bad = {}
  <2> SUFFICES ASSUME Bad # {} PROVE FALSE
    OBVIOUS
  <2>1. Bad \in SUBSET Nat
    BY <1>1
  <2>2. PICK k \in Bad : \A j \in Bad : k <= j
    <3> HIDE DEF Bad
    <3> QED BY <2>1, LeastOf
  <2>3. k \in 0..n /\ g[k] \notin V /\ k # 0
    BY <1>a, <1>4, <2>2
  <2>4. k \in 1..n /\ k - 1 \in 0..n /\ ~(k <= k - 1)
    BY <1>1, <2>3
  <2>5. g[k - 1] \in V /\ s[k] \in R
    BY <1>1, <2>2, <2>4
  <2>6. g[k] = st[<<g[k - 1], s[k]>>]
    BY <1>5, <2>4, <2>5
  <2> QED BY <1>a, <2>3, <2>5, <2>6
<1>7. \A k \in 1..n : k - 1 \in 0..n
  BY <1>1
<1>8. Runs(g, st, base, s, V)
  BY <1>4, <1>5, <1>6, <1>7 DEF Runs, n
<1> QED BY <1>4, <1>8 DEF n, Reaches

-----------------------------------------------------------------------------
(* Paths: what is read of a path. *)

\* What one round of decoding leaves of the encodings.
Undone(e) == Strip(Strip(Strip(Strip(Strip(e, "url"), "url"), "unicode"), "hex"), "html")

\* Strip undoes one encoding or none.
LEMMA StripIs ==
    ASSUME NEW e \in Seq(Encodings), NEW kind
    PROVE  /\ Strip(e, kind) \in Seq(Encodings)
           /\ Strip(e, kind) = e \/ Len(Strip(e, kind)) = Len(e) - 1
           /\ e # <<>> /\ Head(e) = kind => Len(Strip(e, kind)) = Len(e) - 1
           /\ e = <<>> => Strip(e, kind) = <<>>
PROOF
<1>1. e # <<>> => /\ Tail(e) \in Seq(Encodings) /\ Len(Tail(e)) = Len(e) - 1
  BY HeadTailProperties
<1> QED BY <1>1 DEF Strip

\* What is left is no longer, and as long only if it is the same.
LEMMA StripLess ==
    ASSUME NEW e \in Seq(Encodings), NEW kind
    PROVE  /\ Strip(e, kind) \in Seq(Encodings) /\ Len(Strip(e, kind)) \in Nat
           /\ Len(Strip(e, kind)) <= Len(e)
           /\ Len(Strip(e, kind)) = Len(e) => Strip(e, kind) = e
PROOF
<1>1. Strip(e, kind) \in Seq(Encodings)
  BY StripIs
<1>2. Len(Strip(e, kind)) \in Nat /\ Len(e) \in Nat
  BY <1>1
<1>3. Strip(e, kind) = e \/ Len(Strip(e, kind)) = Len(e) - 1
  BY StripIs
<1> QED BY <1>1, <1>2, <1>3

\* A round undoes one encoding at least.
LEMMA UndoneIs ==
    ASSUME NEW e \in Seq(Encodings)
    PROVE  /\ Undone(e) \in Seq(Encodings) /\ Len(Undone(e)) <= Len(e)
           /\ Len(Undone(e)) = Len(e) => e = <<>>
PROOF
<1> DEFINE a == Strip(e, "url")
           b == Strip(a, "url")
           c == Strip(b, "unicode")
           d == Strip(c, "hex")
           f == Strip(d, "html")
<1>1. Undone(e) = f
  BY DEF Undone
<1>2. /\ a \in Seq(Encodings) /\ Len(a) \in Nat /\ Len(a) <= Len(e)
      /\ Len(a) = Len(e) => a = e
  BY StripLess
<1>3. /\ b \in Seq(Encodings) /\ Len(b) \in Nat /\ Len(b) <= Len(a)
      /\ Len(b) = Len(a) => b = a
  <2> HIDE DEF a
  <2> QED BY <1>2, StripLess
<1>4. /\ c \in Seq(Encodings) /\ Len(c) \in Nat /\ Len(c) <= Len(b)
      /\ Len(c) = Len(b) => c = b
  <2> HIDE DEF b
  <2> QED BY <1>3, StripLess
<1>5. /\ d \in Seq(Encodings) /\ Len(d) \in Nat /\ Len(d) <= Len(c)
      /\ Len(d) = Len(c) => d = c
  <2> HIDE DEF c
  <2> QED BY <1>4, StripLess
<1>6. /\ f \in Seq(Encodings) /\ Len(f) \in Nat /\ Len(f) <= Len(d)
      /\ Len(f) = Len(d) => f = d
  <2> HIDE DEF d
  <2> QED BY <1>5, StripLess
<1>7. ASSUME Len(f) = Len(e), e # <<>> PROVE FALSE
  <2>0. Len(e) \in Nat
    OBVIOUS
  <2>1. /\ Len(a) = Len(e) /\ Len(b) = Len(a) /\ Len(c) = Len(b)
        /\ Len(d) = Len(c) /\ Len(f) = Len(d)
    <3> HIDE DEF a, b, c, d, f
    <3> QED BY <1>2, <1>3, <1>4, <1>5, <1>6, <1>7, <2>0
  <2>2. a = e /\ b = e /\ c = e /\ d = e /\ f = e
    <3> HIDE DEF a, b, c, d, f
    <3> QED BY <1>2, <1>3, <1>4, <1>5, <1>6, <2>1
  <2>3. /\ Strip(e, "url") = e /\ Strip(e, "unicode") = e
        /\ Strip(e, "hex") = e /\ Strip(e, "html") = e
    BY <2>2
  <2>4. Head(e) \in Encodings
    BY <1>7, HeadTailProperties
  <2>5. PICK k \in {"url", "unicode", "hex", "html"} : Head(e) = k
    BY <2>4 DEF Encodings
  <2>6. Strip(e, k) = e
    BY <2>3
  <2>7. Len(Strip(e, k)) = Len(e) - 1
    BY <1>7, <2>5, StripIs
  <2> QED BY <2>0, <2>6, <2>7
<1>8. Len(f) <= Len(e)
  <2>0. Len(e) \in Nat
    OBVIOUS
  <2> HIDE DEF a, b, c, d, f
  <2> QED BY <1>2, <1>3, <1>4, <1>5, <1>6, <2>0
<1> HIDE DEF f
<1> QED BY <1>1, <1>6, <1>7, <1>8

\* Tokens all the way, and what a stage of a round makes of them.
AllTokens(p) == \A i \in DOMAIN p : IsToken(p[i])

Stage(q, p, kind) ==
    /\ DOMAIN q = DOMAIN p
    /\ \A i \in DOMAIN p : q[i] = [t |-> p[i].t, enc |-> Strip(p[i].enc, kind)]

\* A stage undoes one kind of encoding of each token.
LEMMA UndoIs ==
    ASSUME NEW p, AllTokens(p), NEW kind
    PROVE  AllTokens(Undo(p, kind)) /\ Stage(Undo(p, kind), p, kind)
PROOF
<1> DEFINE q == Undo(p, kind)
<1>1. DOMAIN q = DOMAIN p
  BY DEF Undo
<1>2. ASSUME NEW i \in DOMAIN p
      PROVE  q[i] = [t |-> p[i].t, enc |-> Strip(p[i].enc, kind)] /\ IsToken(q[i])
  <2>1. p[i] = [t |-> p[i].t, enc |-> p[i].enc] /\ p[i].enc \in Seq(Encodings)
    BY DEF AllTokens, IsToken
  <2>2. q[i] = [t |-> p[i].t, enc |-> Strip(p[i].enc, kind)]
    <3> DEFINE x == Strip(p[i].enc, kind)
    <3>1. q[i] = [p[i] EXCEPT !.enc = x]
      BY DEF Undo
    <3> HIDE DEF q, x
    <3>2. [p[i] EXCEPT !.enc = x] = [t |-> p[i].t, enc |-> x]
      BY <2>1
    <3> QED BY <3>1, <3>2 DEF x
  <2>3. Strip(p[i].enc, kind) \in Seq(Encodings)
    BY <2>1, StripIs
  <2> HIDE DEF q
  <2> QED BY <2>2, <2>3 DEF IsToken
<1> HIDE DEF q
<1>3. AllTokens(q) /\ Stage(q, p, kind)
  BY <1>1, <1>2 DEF AllTokens, Stage
<1> QED BY <1>3 DEF q

\* No percent sign of the path begins no escape.
EscapesOnly(p) == \A i \in DOMAIN p : p[i].t # "%"

\* A round over a path is then a round over each of its tokens.
LEMMA DecodedOnce ==
    ASSUME NEW p, \A i \in DOMAIN p : IsToken(p[i]), EscapesOnly(p)
    PROVE  /\ DOMAIN DecodeOnce(p) = DOMAIN p
           /\ \A i \in DOMAIN p : DecodeOnce(p)[i] = [t |-> p[i].t, enc |-> Undone(p[i].enc)]
           /\ \A i \in DOMAIN p : IsToken(DecodeOnce(p)[i])
           /\ EscapesOnly(DecodeOnce(p))
PROOF
<1> DEFINE a == Undo(p, "url")
           b == Undo(a, "url")
           c == Undo(b, "unicode")
           d == Undo(c, "hex")
           f == Undo(d, "html")
<1>0. AllTokens(p)
  BY DEF AllTokens
<1>1. AllTokens(a) /\ Stage(a, p, "url")
  BY <1>0, UndoIs
<1>2. Unescape(p) = a
  BY DEF Unescape, IsMalformedEscape, EscapesOnly
<1>3. Unescape(a) = b
  <2>1. \A i \in DOMAIN a : a[i].t # "%"
    <3> HIDE DEF a
    <3>1. DOMAIN a = DOMAIN p
      BY <1>1 DEF Stage
    <3>2. \A i \in DOMAIN p : a[i].t = p[i].t
      BY <1>1 DEF Stage
    <3> QED BY <3>1, <3>2 DEF EscapesOnly
  <2> QED BY <2>1 DEF Unescape, IsMalformedEscape
<1>4. DecodeOnce(p) = f
  BY <1>2, <1>3 DEF DecodeOnce
<1> HIDE DEF a
<1>5. AllTokens(b) /\ Stage(b, a, "url")
  BY <1>1, UndoIs
<1> HIDE DEF b
<1>6. AllTokens(c) /\ Stage(c, b, "unicode")
  BY <1>5, UndoIs
<1> HIDE DEF c
<1>7. AllTokens(d) /\ Stage(d, c, "hex")
  BY <1>6, UndoIs
<1> HIDE DEF d
<1>8. AllTokens(f) /\ Stage(f, d, "html")
  BY <1>7, UndoIs
<1> HIDE DEF f
<1>9. DOMAIN f = DOMAIN p
  BY <1>1, <1>5, <1>6, <1>7, <1>8 DEF Stage
<1>10. ASSUME NEW i \in DOMAIN p
       PROVE  f[i] = [t |-> p[i].t, enc |-> Undone(p[i].enc)] /\ f[i].t = p[i].t
  <2>1. a[i].t = p[i].t /\ a[i].enc = Strip(p[i].enc, "url")
    BY <1>1 DEF Stage
  <2>2. b[i].t = a[i].t /\ b[i].enc = Strip(a[i].enc, "url")
    BY <1>1, <1>5 DEF Stage
  <2>3. c[i].t = b[i].t /\ c[i].enc = Strip(b[i].enc, "unicode")
    BY <1>1, <1>5, <1>6 DEF Stage
  <2>4. d[i].t = c[i].t /\ d[i].enc = Strip(c[i].enc, "hex")
    BY <1>1, <1>5, <1>6, <1>7 DEF Stage
  <2>5. f[i] = [t |-> d[i].t, enc |-> Strip(d[i].enc, "html")]
    BY <1>1, <1>5, <1>6, <1>7, <1>8 DEF Stage
  <2>6. f[i] = [t |-> p[i].t, enc |-> Undone(p[i].enc)]
    BY <2>1, <2>2, <2>3, <2>4, <2>5 DEF Undone
  <2> QED BY <2>6
<1>11. EscapesOnly(f)
  BY <1>9, <1>10 DEF EscapesOnly
<1>12. \A i \in DOMAIN p : IsToken(f[i])
  BY <1>8, <1>9 DEF AllTokens
<1> QED BY <1>4, <1>9, <1>10, <1>11, <1>12

\* Three rounds undo three encodings.
LEMMA DecodedIs ==
    ASSUME NEW p, \A i \in DOMAIN p : IsToken(p[i]) /\ Len(p[i].enc) <= 3, EscapesOnly(p)
    PROVE  DecodePath(p) = Spelled(p)
PROOF
<1> DEFINE q == DecodeOnce(p)
           r == DecodeOnce(q)
           s == DecodeOnce(r)
<1>1. /\ DOMAIN q = DOMAIN p /\ \A i \in DOMAIN p : IsToken(q[i])
      /\ EscapesOnly(q)
      /\ \A i \in DOMAIN p : q[i] = [t |-> p[i].t, enc |-> Undone(p[i].enc)]
  BY DecodedOnce
<1> HIDE DEF q
<1>2. /\ DOMAIN r = DOMAIN p /\ \A i \in DOMAIN p : IsToken(r[i])
      /\ EscapesOnly(r)
      /\ \A i \in DOMAIN p : r[i] = [t |-> q[i].t, enc |-> Undone(q[i].enc)]
  BY <1>1, DecodedOnce
<1> HIDE DEF r
<1>3. /\ DOMAIN s = DOMAIN p
      /\ \A i \in DOMAIN p : s[i] = [t |-> r[i].t, enc |-> Undone(r[i].enc)]
  BY <1>1, <1>2, DecodedOnce
<1>4. DecodePath(p) = s
  BY DEF DecodePath, q, r
<1>5. ASSUME NEW i \in DOMAIN p PROVE s[i] = [t |-> p[i].t, enc |-> <<>>]
  <2> DEFINE d == p[i].enc
             e == Undone(d)
             f == Undone(e)
             h == Undone(f)
  <2>1. s[i] = [t |-> p[i].t, enc |-> h]
    <3>1. q[i].t = p[i].t /\ q[i].enc = e
      BY <1>1
    <3>2. r[i].t = q[i].t /\ r[i].enc = Undone(q[i].enc)
      BY <1>2
    <3> QED BY <1>3, <3>1, <3>2
  <2>2. d \in Seq(Encodings) /\ Len(d) <= 3
    BY DEF IsToken
  <2> HIDE DEF d
  <2>3. e \in Seq(Encodings) /\ Len(e) <= Len(d) /\ (Len(e) = Len(d) => d = <<>>)
    BY <2>2, UndoneIs
  <2> HIDE DEF e
  <2>4. f \in Seq(Encodings) /\ Len(f) <= Len(e) /\ (Len(f) = Len(e) => e = <<>>)
    BY <2>3, UndoneIs
  <2> HIDE DEF f
  <2>5. h \in Seq(Encodings) /\ Len(h) <= Len(f) /\ (Len(h) = Len(f) => f = <<>>)
    BY <2>4, UndoneIs
  <2> HIDE DEF h
  <2>6. Len(d) \in Nat /\ Len(e) \in Nat /\ Len(f) \in Nat /\ Len(h) \in Nat
    BY <2>2, <2>3, <2>4, <2>5
  <2>7. (d = <<>> => Len(d) = 0) /\ (e = <<>> => Len(e) = 0) /\ (f = <<>> => Len(f) = 0)
    OBVIOUS
  <2>8. Len(h) = 0
    BY <2>2, <2>3, <2>4, <2>5, <2>6, <2>7
  <2>9. h = <<>>
    BY <2>5, <2>8, EmptySeq
  <2> QED BY <2>1, <2>9
<1>6. Spelled(p) = [i \in DOMAIN p |-> [t |-> p[i].t, enc |-> <<>>]]
  <2>1. \A i \in DOMAIN p : [p[i] EXCEPT !.enc = <<>>] = [t |-> p[i].t, enc |-> <<>>]
    BY DEF IsToken
  <2> QED BY <2>1 DEF Spelled
<1>7. s = [i \in DOMAIN s |-> s[i]]
  BY DEF s, DecodeOnce, Undo
<1> HIDE DEF s
<1> QED BY <1>3, <1>4, <1>5, <1>6, <1>7

\* A path is a sequence of tokens.
IsPath(p) == \E Toks : p \in Seq(Toks) /\ \A t \in Toks : IsToken(t)

\* The positions of a path and their tokens.
LEMMA PathIs ==
    ASSUME NEW p, IsPath(p)
    PROVE  /\ Len(p) \in Nat /\ DOMAIN p = 1..Len(p) /\ \A i \in DOMAIN p : IsToken(p[i])
           /\ p = [i \in 1..Len(p) |-> p[i]]
PROOF
<1>1. PICK Toks : p \in Seq(Toks) /\ \A t \in Toks : IsToken(t)
  BY DEF IsPath
<1> QED BY <1>1

\* The plain form of a path has its texts.
LEMMA SpelledIs ==
    ASSUME NEW p, IsPath(p)
    PROVE  /\ Spelled(p) = [i \in 1..Len(p) |-> [t |-> p[i].t, enc |-> <<>>]]
           /\ IsPath(Spelled(p)) /\ Len(Spelled(p)) = Len(p)
           /\ Spelled(Spelled(p)) = Spelled(p)
PROOF
<1> DEFINE q == [i \in 1..Len(p) |-> [t |-> p[i].t, enc |-> <<>>]]
<1>1. /\ Len(p) \in Nat /\ DOMAIN p = 1..Len(p) /\ \A i \in DOMAIN p : IsToken(p[i])
  BY PathIs
<1>2. Spelled(p) = q
  <2>1. \A i \in DOMAIN p : [p[i] EXCEPT !.enc = <<>>] = [t |-> p[i].t, enc |-> <<>>]
    BY <1>1 DEF IsToken
  <2> QED BY <1>1, <2>1 DEF Spelled
<1>3. q \in Seq({q[i] : i \in 1..Len(p)}) /\ Len(q) = Len(p) /\ DOMAIN q = 1..Len(p)
  BY <1>1
<1>4. \A t \in {q[i] : i \in 1..Len(p)} : IsToken(t)
  <2> TAKE t \in {q[i] : i \in 1..Len(p)}
  <2>1. PICK i \in 1..Len(p) : t = q[i]
    OBVIOUS
  <2>2. t = [t |-> p[i].t, enc |-> <<>>]
    BY <2>1
  <2> QED BY <2>2 DEF IsToken
<1>5. IsPath(q)
  BY <1>3, <1>4 DEF IsPath
<1>6. Spelled(q) = q
  BY <1>3 DEF Spelled
<1> QED BY <1>2, <1>3, <1>5, <1>6

\* What stands before the query is a part of the path.
SameQuery(p, q) ==
    /\ IsPath(q) /\ Len(q) = Len(p)
    /\ \A i \in 1..Len(p) : q[i].t = p[i].t
    /\ \A i \in 1..Len(p) : q[i].t = "?" => (Plain(q[i]) <=> Plain(p[i]))

\* The first m tokens of p are what WithoutQuery leaves, as of every path with the
\* same query marks.
CutAt(p, m) ==
    /\ WithoutQuery(p) = [i \in 1..m |-> p[i]]
    /\ IsPath(WithoutQuery(p)) /\ Len(WithoutQuery(p)) = m
    /\ \A i \in 1..m : ~(p[i].t = "?" /\ Plain(p[i]))
    /\ \A q : SameQuery(p, q) => WithoutQuery(q) = [i \in 1..m |-> q[i]]

\* The query begins at the same token however the path is spelled.
LEMMA BeforeQuery ==
    ASSUME NEW p, IsPath(p)
    PROVE  \E m \in 0..Len(p) : CutAt(p, m)
PROOF
<1> DEFINE Marks(q) == {i \in DOMAIN q : q[i].t = "?" /\ Plain(q[i])}
           n == Len(p)
           m == IF Marks(p) = {} THEN n ELSE Min(Marks(p)) - 1
<1>1. n \in Nat /\ DOMAIN p = 1..n
  BY PathIs
<1>2. m \in 0..n /\ (Marks(p) # {} => m = Min(Marks(p)) - 1) /\ (Marks(p) = {} => m = n)
  <2>1. CASE Marks(p) = {}
    BY <1>1, <2>1
  <2>2. CASE Marks(p) # {}
    <3>1. Marks(p) \in SUBSET Nat
      BY <1>1
    <3>2. Marks(p) \subseteq 1..n
      BY <1>1
    <3> HIDE DEF Marks, n
    <3>3. PICK x \in Marks(p) : \A y \in Marks(p) : x <= y
      BY <2>2, <3>1, LeastOf
    <3>4. Min(Marks(p)) \in Marks(p)
      BY <3>3 DEF Min
    <3>5. Min(Marks(p)) \in 1..n
      BY <3>2, <3>4
    <3> QED BY <1>1, <2>2, <3>5
  <2> QED BY <2>1, <2>2
<1>3. ASSUME NEW q, IsPath(q), Len(q) = n, Marks(q) = Marks(p)
      PROVE  WithoutQuery(q) = [i \in 1..m |-> q[i]]
  <2>1. q = [i \in 1..n |-> q[i]]
    BY <1>3, PathIs
  <2>2. WithoutQuery(q) = IF Marks(q) = {} THEN q ELSE SubSeq(q, 1, Min(Marks(q)) - 1)
    BY DEF WithoutQuery
  <2> HIDE DEF m, n, Marks
  <2>3. CASE Marks(p) = {}
    BY <1>2, <1>3, <2>1, <2>2, <2>3
  <2>4. CASE Marks(p) # {}
    <3>1. WithoutQuery(q) = SubSeq(q, 1, m)
      BY <1>2, <1>3, <2>2, <2>4
    <3>2. SubSeq(q, 1, m) = [i \in 1..m |-> q[i]]
      <4>1. m \in Nat /\ \A i \in 1..m : i \in DOMAIN q
        BY <1>1, <1>2, <1>3, PathIs
      <4>2. SubSeq(q, 1, m) = [i \in 1..(1 + m - 1) |-> q[i + 1 - 1]]
        BY <1>2
      <4> QED BY <4>1, <4>2
    <3> QED BY <3>1, <3>2
  <2> QED BY <2>3, <2>4
<1>4. IsPath([i \in 1..m |-> p[i]]) /\ Len([i \in 1..m |-> p[i]]) = m
  <2> DEFINE w == [i \in 1..m |-> p[i]]
  <2>1. PICK Toks : p \in Seq(Toks) /\ \A t \in Toks : IsToken(t)
    BY DEF IsPath
  <2>a. \A i \in 1..n : p[i] \in Toks
    BY <2>1
  <2> HIDE DEF m, n
  <2>b. \A i \in 1..m : i \in 1..n
    BY <1>1, <1>2
  <2>2. \A i \in 1..m : p[i] \in Toks
    BY <2>a, <2>b
  <2>3. m \in Nat
    BY <1>1, <1>2
  <2>4. w \in Seq(Toks) /\ Len(w) = m
    BY <2>2, <2>3
  <2> QED BY <2>1, <2>4 DEF IsPath
<1>5. ASSUME NEW q, IsPath(q), Len(q) = n, \A i \in 1..n : q[i].t = p[i].t,
             \A i \in 1..n : q[i].t = "?" => (Plain(q[i]) <=> Plain(p[i]))
      PROVE  Marks(q) = Marks(p)
  <2>1. DOMAIN q = 1..n
    BY <1>5, PathIs
  <2> HIDE DEF n
  <2> QED BY <1>1, <1>5, <2>1
<1>9. \A i \in 1..m : ~(p[i].t = "?" /\ Plain(p[i]))
  <2> SUFFICES ASSUME NEW i \in 1..m, i \in Marks(p) PROVE FALSE
    <3>1. 1..m \subseteq 1..n
      <4> HIDE DEF m, n
      <4> QED BY <1>1, <1>2
    <3> HIDE DEF m, n
    <3> QED BY <1>1, <3>1
  <2>1. Marks(p) \in SUBSET Nat
    BY <1>1
  <2> HIDE DEF Marks, n, m
  <2>2. PICK x \in Marks(p) : \A y \in Marks(p) : x <= y
    BY <2>1, LeastOf
  <2>3. Min(Marks(p)) <= i /\ Min(Marks(p)) \in Nat
    BY <2>1, <2>2 DEF Min
  <2>4. m = Min(Marks(p)) - 1
    BY <1>2
  <2> QED BY <1>1, <1>2, <2>3, <2>4
<1> HIDE DEF Marks, m
<1>6. IsPath(p) /\ WithoutQuery(p) = [i \in 1..m |-> p[i]]
  BY <1>3
<1>7. \A q : SameQuery(p, q) => WithoutQuery(q) = [i \in 1..m |-> q[i]]
  BY <1>3, <1>5 DEF SameQuery
<1>8. CutAt(p, m)
  BY <1>4, <1>6, <1>7, <1>9 DEF CutAt
<1> HIDE DEF n
<1> QED BY <1>2, <1>8 DEF n

\* Three rounds make a readable path plain.
LEMMA ReadableDecoded ==
    ASSUME NEW p, IsPath(p), Readable(p)
    PROVE  /\ DecodePath(p) = Spelled(p)
           /\ DecodePath(WithoutQuery(p)) = Spelled(WithoutQuery(p))
           /\ WithoutQuery(Spelled(p)) = Spelled(WithoutQuery(p))
PROOF
<1> DEFINE w == WithoutQuery(p)
           q == Spelled(p)
<1>a. PICK m \in 0..Len(p) : CutAt(p, m)
  BY BeforeQuery
<1>1. /\ w = [i \in 1..m |-> p[i]] /\ IsPath(w) /\ Len(w) = m
      /\ \A r : SameQuery(p, r) => WithoutQuery(r) = [i \in 1..m |-> r[i]]
  BY <1>a DEF CutAt
<1>2. /\ Len(p) \in Nat /\ DOMAIN p = 1..Len(p) /\ \A i \in DOMAIN p : IsToken(p[i])
  BY PathIs
<1>3. /\ q = [i \in 1..Len(p) |-> [t |-> p[i].t, enc |-> <<>>]]
      /\ IsPath(q) /\ Len(q) = Len(p)
  BY SpelledIs
<1> HIDE DEF w, q
<1>4. \A i \in 1..Len(p) : /\ Len(p[i].enc) <= 3 /\ p[i].t # "%"
                           /\ p[i].t = "?" => Plain(p[i])
  BY <1>2 DEF Readable
<1>5. DecodePath(p) = q
  <2>1. EscapesOnly(p)
    BY <1>2, <1>4 DEF EscapesOnly
  <2> QED BY <1>2, <1>4, <2>1, DecodedIs DEF q
<1>6. DecodePath(w) = Spelled(w)
  <2>1. DOMAIN w = 1..m /\ \A i \in 1..m : i \in 1..Len(p) /\ w[i] = p[i]
    BY <1>1, <1>2
  <2>2. EscapesOnly(w)
    BY <1>4, <2>1 DEF EscapesOnly
  <2> QED BY <1>2, <1>4, <2>1, <2>2, DecodedIs
<1>7. \A i \in 1..Len(p) : /\ q[i].t = p[i].t
                           /\ q[i].t = "?" => (Plain(q[i]) <=> Plain(p[i]))
  BY <1>3, <1>4 DEF Plain
<1>8. WithoutQuery(q) = [i \in 1..m |-> q[i]]
  BY <1>1, <1>3, <1>7 DEF SameQuery
<1>9. Spelled(w) = [i \in 1..m |-> [t |-> w[i].t, enc |-> <<>>]]
  BY <1>1, SpelledIs
<1>10. \A i \in 1..m : w[i] = p[i] /\ q[i] = [t |-> p[i].t, enc |-> <<>>]
  BY <1>1, <1>2, <1>3
<1>11. WithoutQuery(q) = Spelled(w)
  BY <1>8, <1>9, <1>10
<1> QED BY <1>5, <1>6, <1>11 DEF w, q

\* So a path is normalised as its plain form is.
LEMMA SpelledNormalize ==
    ASSUME NEW p, IsPath(p), Readable(p)
    PROVE  Normalize(Spelled(p)) = Normalize(p)
PROOF
<1> DEFINE w == WithoutQuery(p)
<1>a. EscapesOnly(w)
  <2>1. PICK m \in 0..Len(p) : CutAt(p, m)
    BY BeforeQuery
  <2>2. w = [i \in 1..m |-> p[i]]
    BY <2>1 DEF CutAt
  <2>3. Len(p) \in Nat /\ DOMAIN p = 1..Len(p)
    BY PathIs
  <2>4. \A i \in 1..m : p[i].t # "%"
    BY <2>3 DEF Readable
  <2> QED BY <2>2, <2>4 DEF EscapesOnly
<1>1. /\ DecodePath(w) = Spelled(w) /\ WithoutQuery(Spelled(p)) = Spelled(w)
  BY ReadableDecoded
<1>2. IsPath(w)
  BY BeforeQuery DEF CutAt
<1> HIDE DEF w
<1>3. /\ Spelled(w) = [i \in 1..Len(w) |-> [t |-> w[i].t, enc |-> <<>>]]
      /\ IsPath(Spelled(w)) /\ Len(Spelled(w)) = Len(w)
      /\ Spelled(Spelled(w)) = Spelled(w)
  BY <1>2, SpelledIs
<1>4. /\ Len(w) \in Nat
      /\ w = [i \in 1..Len(w) |-> w[i]]
  BY <1>2, PathIs
<1>5. DecodePath(Spelled(w)) = Spelled(w)
  <2> DEFINE v == Spelled(w)
  <2>1. DOMAIN v = 1..Len(w) /\ \A i \in DOMAIN v : v[i].enc = <<>>
    BY <1>3
  <2>2. \A i \in DOMAIN v : IsToken(v[i]) /\ Len(v[i].enc) <= 3
    BY <1>3, <2>1, PathIs
  <2>a. EscapesOnly(v)
    <3>1. \A i \in 1..Len(w) : w[i].t # "%" /\ v[i].t = w[i].t
      BY <1>3, <1>4, <1>a DEF EscapesOnly
    <3> QED BY <2>1, <3>1 DEF EscapesOnly
  <2> HIDE DEF v
  <2>3. DecodePath(v) = Spelled(v)
    BY <2>2, <2>a, DecodedIs
  <2> QED BY <1>3, <2>3 DEF v
<1>6. Spelled(w) = <<>> <=> w = <<>>
  <2>1. Spelled(w) = <<>> <=> Len(w) = 0
    BY <1>3, <1>4
  <2>2. w = <<>> <=> Len(w) = 0
    BY <1>4
  <2> QED BY <2>1, <2>2
<1> QED BY <1>1, <1>5, <1>6 DEF Normalize, w

\* The lists of paths judge every spelling of a path as its plain form, if every percent
\* sign of it begins an escape.
THEOREM SpellingsAreAlike ==
    ASSUME NEW p, IsPath(p)
    PROVE  SpellingIsIrrelevant(p)
PROOF
  BY SpelledNormalize DEF SpellingIsIrrelevant, ShouldSkipPath, IsHoneypotPath

-----------------------------------------------------------------------------
(* Paths: a path and its segments. *)

\* Segments of tokens.
WithToken(segs, t) == IF IsSep(t) THEN Append(segs, <<>>)
                      ELSE [segs EXCEPT ![Len(segs)] = Append(@, t)]

\* A token is a separator or a name.
Splits(t, Names) == IsSep(t) \/ t \in Names

\* Segments q are those of segs with a token: one more segment or a longer last one.
Grows(q, segs, t) ==
    LET n == Len(segs) IN
    /\ IsSep(t) => Len(q) = n + 1 /\ q[n + 1] = <<>> /\ \A j \in 1..n : q[j] = segs[j]
    /\ ~IsSep(t) => /\ Len(q) = n /\ q[n] = Append(segs[n], t)
                    /\ \A j \in 1..(n - 1) : q[j] = segs[j]

LEMMA WithTokenIs ==
    ASSUME NEW Toks, NEW segs \in Seq(Seq(Toks)), Len(segs) > 0, NEW t, Splits(t, Toks)
    PROVE  /\ WithToken(segs, t) \in Seq(Seq(Toks)) /\ Len(WithToken(segs, t)) > 0
           /\ Grows(WithToken(segs, t), segs, t)
PROOF
<1> DEFINE n == Len(segs)
           q == WithToken(segs, t)
<1>1. n \in Nat /\ n > 0 /\ n \in 1..n /\ DOMAIN segs = 1..n
  OBVIOUS
<1>2. CASE IsSep(t)
  <2>1. q = Append(segs, <<>>) /\ <<>> \in Seq(Toks)
    BY <1>2 DEF WithToken
  <2>2. /\ q \in Seq(Seq(Toks)) /\ Len(q) = n + 1 /\ q[n + 1] = <<>>
        /\ \A j \in 1..n : q[j] = segs[j]
    BY <2>1, AppendProperties
  <2> HIDE DEF q
  <2> QED BY <1>1, <1>2, <2>2 DEF q, Grows
<1>3. CASE ~IsSep(t)
  <2> DEFINE l == Append(segs[n], t)
  <2>1. q = [segs EXCEPT ![n] = l]
    BY <1>3 DEF WithToken
  <2>2. segs[n] \in Seq(Toks)
    BY <1>1
  <2>3. l \in Seq(Toks)
    BY <1>3, <2>2 DEF Splits
  <2> HIDE DEF l, q
  <2>4. q \in Seq(Seq(Toks)) /\ Len(q) = n
    BY <1>1, <2>1, <2>3
  <2>5. q[n] = l /\ \A j \in 1..(n - 1) : q[j] = segs[j]
    <3> HIDE DEF n
    <3>1. \A j \in 1..(n - 1) : j \in 1..n /\ j # n
      BY <1>1
    <3> QED BY <1>1, <2>1, <3>1
  <2> QED BY <1>1, <1>3, <2>4, <2>5 DEF l, q, Grows
<1> QED BY <1>2, <1>3

\* The segments after each token.
LEMMA SegmentSteps ==
    ASSUME NEW Toks, NEW w \in Seq(Toks), NEW Names, \A t \in Toks : Splits(t, Names)
    PROVE  \E g : /\ g[0] = <<<<>>>>
                  /\ \A k \in 1..Len(w) : g[k] = WithToken(g[k - 1], w[k])
                  /\ Segments(w) = g[Len(w)]
                  /\ \A k \in 0..Len(w) : g[k] \in {x \in Seq(Seq(Names)) : Len(x) > 0}
PROOF
<1> DEFINE V == {x \in Seq(Seq(Names)) : Len(x) > 0}
           st == [x \in V \X Toks |-> WithToken(x[1], x[2])]
           IsIt(it) == it = [t \in SUBSET DOMAIN w |->
                                IF t = {} THEN <<<<>>>> ELSE WithToken(it[t \ {Max(t)}], w[Max(t)])]
           p == CHOOSE it : IsIt(it)
<1>1. Segments(w) = p[DOMAIN w]
  BY DEF Segments, WithToken, FoldLeft, MapThenFoldSet
<1>2. st \in [V \X Toks -> V] /\ <<<<>>>> \in V
  BY WithTokenIs
<1>3. \A v \in V, x \in Toks : st[<<v, x>>] = WithToken(v, x)
  OBVIOUS
<1> HIDE DEF V, st
<1>4. \E it : FoldsTo(it, st, <<<<>>>>, w, V, Toks)
  BY <1>2, FoldValues
<1>5. \A it : FoldsTo(it, st, <<<<>>>>, w, V, Toks) => IsIt(it)
  BY <1>3 DEF FoldsTo
<1>6. IsIt(p)
  BY <1>4, <1>5
<1> HIDE DEF p
<1>7. StepsTo(p, st, <<<<>>>>, w, V)
  <2> SUFFICES ASSUME NEW t \in SUBSET DOMAIN w, t # {} => p[t \ {Max(t)}] \in V
               PROVE  p[t] = IF t = {} THEN <<<<>>>> ELSE st[<<p[t \ {Max(t)}], w[Max(t)]>>]
    BY DEF StepsTo
  <2>1. t # {} => w[Max(t)] \in Toks
    BY PlaceOf
  <2> QED BY <1>3, <1>6, <2>1
<1>a. Reaches(p, st, <<<<>>>>, w, V)
  <2>1. IsStep(st, <<<<>>>>, w, V, Toks)
    BY <1>2 DEF IsStep
  <2> QED BY <1>7, <2>1, FoldRuns
<1>8. PICK g : Runs(g, st, <<<<>>>>, w, V) /\ p[DOMAIN w] = g[Len(w)]
  BY <1>a DEF Reaches
<1>9. \A k \in 1..Len(w) : w[k] \in Toks /\ k - 1 \in 0..Len(w)
  BY PrefixesOf
<1>10. \A k \in 1..Len(w) : g[k] = WithToken(g[k - 1], w[k])
  BY <1>3, <1>8, <1>9 DEF Runs
<1> QED BY <1>1, <1>8, <1>10 DEF Runs, V

\* A segment of one token stands between separators, at the beginning or at the end.
Alone(p, i) == i = 1 \/ IsSep(p[i - 1])

\* The segments of the first k tokens: one of a single token stands alone.
OneToken(p, k, segs) ==
    /\ segs[Len(segs)] = <<>> => k = 0 \/ IsSep(p[k])
    /\ Len(segs[Len(segs)]) = 1 => k >= 1 /\ p[k] = segs[Len(segs)][1] /\ Alone(p, k)
    /\ \A j \in 1..(Len(segs) - 1) :
          Len(segs[j]) = 1 =>
              \E i \in 1..(k - 1) : p[i] = segs[j][1] /\ Alone(p, i) /\ IsSep(p[i + 1])

\* The next token keeps it so.
LEMMA OneTokenStays ==
    ASSUME NEW Toks, NEW p \in Seq(Toks), NEW k \in 1..Len(p),
           NEW segs \in Seq(Seq(Toks)), Len(segs) > 0, OneToken(p, k - 1, segs)
    PROVE  OneToken(p, k, WithToken(segs, p[k]))
PROOF
<1> DEFINE n == Len(segs)
           t == p[k]
           q == WithToken(segs, t)
<1>1. k \in Nat /\ k >= 1 /\ k <= Len(p) /\ t \in Toks /\ n \in Nat /\ n > 0 /\ n \in 1..n
  BY LenProperties
<1>2. /\ q \in Seq(Seq(Toks)) /\ Len(q) > 0
      /\ IsSep(t) => Len(q) = n + 1 /\ q[n + 1] = <<>> /\ \A j \in 1..n : q[j] = segs[j]
      /\ ~IsSep(t) => /\ Len(q) = n /\ q[n] = Append(segs[n], t)
                      /\ \A j \in 1..(n - 1) : q[j] = segs[j]
  <2>1. Splits(t, Toks)
    BY <1>1 DEF Splits
  <2>2. segs \in Seq(Seq(Toks)) /\ Len(segs) > 0
    OBVIOUS
  <2>3. q \in Seq(Seq(Toks)) /\ Len(q) > 0 /\ Grows(q, segs, t)
    <3> HIDE DEF t
    <3> QED BY ONLY <2>1, <2>2, WithTokenIs
  <2> HIDE DEF q, t
  <2> QED BY <2>3 DEF Grows
<1>3. \A j \in 1..n : segs[j] \in Seq(Toks)
  OBVIOUS
<1>4. /\ segs[n] = <<>> => k - 1 = 0 \/ IsSep(p[k - 1])
      /\ Len(segs[n]) = 1 => k - 1 >= 1 /\ p[k - 1] = segs[n][1] /\ Alone(p, k - 1)
      /\ \A j \in 1..(n - 1) :
            Len(segs[j]) = 1 =>
              \E i \in 1..(k - 1 - 1) : p[i] = segs[j][1] /\ Alone(p, i) /\ IsSep(p[i + 1])
  BY DEF OneToken
<1> HIDE DEF n, q
<1>5. ASSUME NEW j \in 1..(n - 1), Len(segs[j]) = 1
      PROVE  \E i \in 1..(k - 1) : p[i] = segs[j][1] /\ Alone(p, i) /\ IsSep(p[i + 1])
  <2>1. PICK i \in 1..(k - 1 - 1) : p[i] = segs[j][1] /\ Alone(p, i) /\ IsSep(p[i + 1])
    BY <1>4, <1>5
  <2>2. i \in 1..(k - 1)
    BY <1>1
  <2> QED BY <2>1, <2>2
<1>6. CASE IsSep(t)
  <2>1. Len(q) = n + 1 /\ q[n + 1] = <<>> /\ \A j \in 1..n : q[j] = segs[j]
    BY <1>2, <1>6
  <2>2. Len(q[n + 1]) = 0
    BY <2>1
  <2>3. ASSUME NEW j \in 1..n, Len(q[j]) = 1
        PROVE  \E i \in 1..(k - 1) : p[i] = q[j][1] /\ Alone(p, i) /\ IsSep(p[i + 1])
    <3>1. q[j] = segs[j]
      BY <2>1
    <3>2. CASE j = n
      <4>1. k - 1 >= 1 /\ p[k - 1] = segs[n][1] /\ Alone(p, k - 1)
        BY <1>4, <2>3, <3>1, <3>2
      <4>2. k - 1 \in 1..(k - 1) /\ (k - 1) + 1 = k
        BY <1>1, <4>1
      <4> QED BY <1>6, <3>1, <3>2, <4>1, <4>2
    <3>3. CASE j # n
      <4>1. j \in 1..(n - 1)
        BY <1>1, <3>3
      <4> QED BY <1>5, <2>3, <3>1, <4>1
    <3> QED BY <3>2, <3>3
  <2>4. (n + 1) - 1 = n
    BY <1>1
  <2> QED BY <1>6, <2>1, <2>2, <2>3, <2>4 DEF OneToken, q
<1>7. CASE ~IsSep(t)
  <2>1. Len(q) = n /\ q[n] = Append(segs[n], t) /\ \A j \in 1..(n - 1) : q[j] = segs[j]
    BY <1>2, <1>7
  <2>2. segs[n] \in Seq(Toks)
    BY <1>1, <1>3
  <2>3. Len(q[n]) = Len(segs[n]) + 1 /\ q[n] # <<>> /\ q[n][Len(segs[n]) + 1] = t
    <3> DEFINE s == segs[n]
    <3> HIDE DEF s
    <3>1. s \in Seq(Toks) /\ t \in Toks /\ q[n] = Append(s, t)
      BY <1>1, <2>1, <2>2 DEF s
    <3>2. Append(s, t) \in Seq(Toks) /\ Len(Append(s, t)) = Len(s) + 1 /\ Len(s) \in Nat
      BY <3>1, AppendProperties
    <3>3. Append(s, t)[Len(s) + 1] = t
      BY <3>1, AppendProperties
    <3>4. Append(s, t) # <<>>
      <4>1. Len(<<>>) = 0 /\ Len(Append(s, t)) # 0
        BY <3>2
      <4> QED BY <4>1
    <3> QED BY <3>1, <3>2, <3>3, <3>4 DEF s
  <2>4. ASSUME Len(q[n]) = 1 PROVE k >= 1 /\ p[k] = q[n][1] /\ Alone(p, k)
    <3>1. Len(segs[n]) = 0
      BY <2>2, <2>3, <2>4
    <3>2. segs[n] = <<>>
      BY <2>2, <3>1
    <3>3. k = 1 \/ IsSep(p[k - 1])
      BY <1>1, <1>4, <3>2
    <3>4. q[n][1] = t
      BY <2>3, <3>1
    <3> QED BY <1>1, <3>3, <3>4 DEF Alone
  <2>5. \A j \in 1..(n - 1) : Len(q[j]) = 1 =>
            \E i \in 1..(k - 1) : p[i] = q[j][1] /\ Alone(p, i) /\ IsSep(p[i + 1])
    BY <1>5, <2>1
  <2> QED BY <2>1, <2>3, <2>4, <2>5 DEF OneToken, q
<1> QED BY <1>6, <1>7

\* Of the whole path: a segment of a single token stands alone.
LEMMA SegmentsAre ==
    ASSUME NEW Toks, NEW p \in Seq(Toks)
    PROVE  /\ Segments(p) \in Seq(Seq(Toks)) /\ Len(Segments(p)) > 0
           /\ OneToken(p, Len(p), Segments(p))
PROOF
<1> DEFINE n == Len(p)
<1>1. n \in Nat
  BY LenProperties
<1>2. PICK g : /\ g[0] = <<<<>>>>
               /\ \A k \in 1..n : g[k] = WithToken(g[k - 1], p[k])
               /\ Segments(p) = g[n]
               /\ \A k \in 0..n : g[k] \in {x \in Seq(Seq(Toks)) : Len(x) > 0}
  <2>1. \A t \in Toks : Splits(t, Toks)
    BY DEF Splits
  <2> QED BY <2>1, SegmentSteps
<1>3. \A k \in 0..n : g[k] \in Seq(Seq(Toks)) /\ Len(g[k]) > 0
  BY <1>2
<1> DEFINE Bad == {k \in 0..n : ~OneToken(p, k, g[k])}
<1> HIDE DEF n
<1>4. Bad = {}
  <2> SUFFICES ASSUME Bad # {} PROVE FALSE
    OBVIOUS
  <2>1. Bad \in SUBSET Nat
    BY <1>1
  <2>2. PICK k \in Bad : \A j \in Bad : k <= j
    <3> HIDE DEF Bad
    <3> QED BY <2>1, LeastOf
  <2>3. k \in 0..n /\ ~OneToken(p, k, g[k])
    BY <2>2
  <2>4. OneToken(p, 0, g[0])
    <3>1. Len(g[0]) = 1 /\ g[0][1] = <<>> /\ Len(g[0][1]) = 0
      BY <1>2
    <3> QED BY <3>1 DEF OneToken
  <2>5. k \in 1..n /\ k - 1 \in 0..n /\ ~(k <= k - 1)
    BY <1>1, <2>3, <2>4
  <2>6. OneToken(p, k - 1, g[k - 1])
    BY <2>2, <2>5
  <2>7. k \in 1..Len(p) /\ g[k] = WithToken(g[k - 1], p[k])
    BY <1>2, <2>5 DEF n
  <2> QED BY <1>3, <2>3, <2>5, <2>6, <2>7, OneTokenStays
<1>5. n \in 0..n
  BY <1>1
<1> QED BY <1>2, <1>3, <1>4, <1>5 DEF n

\* A path that climbs is noticed, however it is spelled, if every percent sign of it begins
\* an escape.
THEOREM ClimbsAreSeen ==
    ASSUME NEW p, IsPath(p)
    PROVE  TraversalIsSeen(p)
PROOF
<1> DEFINE q == Spelled(p)
           segs == Segments(q)
<1> SUFFICES ASSUME Readable(p), NEW j \in DOMAIN segs, IsDots(segs[j], "..")
             PROVE  TraversalIndicator(p)
  BY DEF TraversalIsSeen
<1>1. DecodePath(p) = q
  BY ReadableDecoded
<1>2. /\ q = [i \in 1..Len(p) |-> [t |-> p[i].t, enc |-> <<>>]]
      /\ IsPath(q) /\ Len(q) = Len(p)
  BY SpelledIs
<1>3. Len(p) \in Nat
  BY PathIs
<1> HIDE DEF q
<1>4. PICK Toks : q \in Seq(Toks)
  BY <1>2 DEF IsPath
<1>5. segs \in Seq(Seq(Toks)) /\ Len(segs) > 0 /\ OneToken(q, Len(q), segs)
  BY <1>4, SegmentsAre
<1>6. Len(segs[j]) = 1 /\ Plain(segs[j][1]) /\ segs[j][1].t = ".."
  BY DEF IsDots
<1> HIDE DEF segs
<1>7. \E i \in 1..Len(q) : /\ q[i] = segs[j][1] /\ Alone(q, i)
                           /\ i = Len(q) \/ IsSep(q[i + 1])
  <2>1. CASE j = Len(segs)
    <3>1. Len(q) >= 1 /\ q[Len(q)] = segs[j][1] /\ Alone(q, Len(q))
      BY <1>5, <1>6, <2>1 DEF OneToken
    <3>2. Len(q) \in 1..Len(q)
      BY <1>2, <1>3, <3>1
    <3> QED BY <3>1, <3>2
  <2>2. CASE j # Len(segs)
    <3>1. j \in 1..(Len(segs) - 1)
      BY <1>5, <2>2
    <3>2. PICK i \in 1..(Len(q) - 1) : q[i] = segs[j][1] /\ Alone(q, i) /\ IsSep(q[i + 1])
      BY <1>5, <1>6, <3>1 DEF OneToken
    <3>3. i \in 1..Len(q)
      BY <1>2, <1>3
    <3> QED BY <3>2, <3>3
  <2> QED BY <2>1, <2>2
<1>8. TraversalPattern(q)
  <2>1. DOMAIN q = 1..Len(q)
    BY <1>2, PathIs
  <2> QED BY <1>6, <1>7, <2>1 DEF TraversalPattern, Alone
<1> QED BY <1>1, <1>8 DEF TraversalIndicator

\* The slash that Written puts before each segment.
Slash == [t |-> "/", enc |-> <<>>]

\* A name behind a slash is one more segment.
LEMMA OneMoreSegment ==
    ASSUME NEW Toks, Slash \in Toks, NEW w \in Seq(Toks), NEW seg \in Seq(Toks),
           \A i \in 1..Len(seg) : ~IsSep(seg[i])
    PROVE  Segments((w \o <<Slash>>) \o seg) = Append(Segments(w), seg)
PROOF
<1> DEFINE v == w \o <<Slash>>
           u == v \o seg
           n == Len(w)
           m == Len(seg)
<1>1. n \in Nat /\ m \in Nat /\ Len(<<Slash>>) = 1 /\ <<Slash>> \in Seq(Toks)
  OBVIOUS
<1>2. /\ v \in Seq(Toks) /\ Len(v) = n + 1
      /\ \A i \in 1..(n + 1) : v[i] = IF i <= n THEN w[i] ELSE <<Slash>>[i - n]
  BY <1>1, ConcatProperties
<1> HIDE DEF v
<1>3. /\ u \in Seq(Toks) /\ Len(u) = n + 1 + m
      /\ \A i \in 1..(n + 1 + m) : u[i] = IF i <= n + 1 THEN v[i] ELSE seg[i - (n + 1)]
  <2>1. seg \in Seq(Toks)
    OBVIOUS
  <2>2. /\ v \o seg \in Seq(Toks) /\ Len(v \o seg) = Len(v) + Len(seg)
        /\ \A i \in 1..(Len(v) + Len(seg)) :
              (v \o seg)[i] = IF i <= Len(v) THEN v[i] ELSE seg[i - Len(v)]
    <3>1. v \in Seq(Toks)
      BY <1>2
    <3> QED BY ONLY <2>1, <3>1, ConcatProperties
  <2>3. Len(v) + Len(seg) = n + 1 + m
    BY <1>2
  <2> HIDE DEF n, m
  <2> QED BY <1>2, <2>2, <2>3
<1> HIDE DEF u, n, m
<1>4. u[n + 1] = Slash
  <2>1. n + 1 \in 1..(n + 1) /\ n + 1 \in 1..(n + 1 + m) /\ ~(n + 1 <= n) /\ (n + 1) - n = 1
    BY <1>1
  <2>2. v[n + 1] = <<Slash>>[1]
    BY <1>2, <2>1
  <2> QED BY <1>3, <2>1, <2>2
<1>5. \A i \in 1..n : u[i] = w[i]
  <2> TAKE i \in 1..n
  <2>1. i \in 1..(n + 1) /\ i \in 1..(n + 1 + m) /\ i <= n /\ i <= n + 1
    BY <1>1
  <2> QED BY <1>2, <1>3, <2>1
<1>6. \A i \in 1..m : u[n + 1 + i] = seg[i]
  <2> TAKE i \in 1..m
  <2>1. /\ n + 1 + i \in 1..(n + 1 + m) /\ ~(n + 1 + i <= n + 1)
        /\ (n + 1 + i) - (n + 1) = i
    BY <1>1
  <2> QED BY <1>3, <2>1
<1>7. \A t \in Toks : Splits(t, Toks)
  BY DEF Splits
<1>8. PICK h : /\ h[0] = <<<<>>>>
               /\ \A k \in 1..Len(w) : h[k] = WithToken(h[k - 1], w[k])
               /\ Segments(w) = h[Len(w)]
               /\ \A k \in 0..Len(w) : h[k] \in {x \in Seq(Seq(Toks)) : Len(x) > 0}
  BY <1>7, SegmentSteps
<1>9. PICK g : /\ g[0] = <<<<>>>>
               /\ \A k \in 1..Len(u) : g[k] = WithToken(g[k - 1], u[k])
               /\ Segments(u) = g[Len(u)]
               /\ \A k \in 0..Len(u) : g[k] \in {x \in Seq(Seq(Toks)) : Len(x) > 0}
  BY <1>3, <1>7, SegmentSteps
<1> DEFINE s == Segments(w)
<1>10. s \in Seq(Seq(Toks)) /\ Len(s) > 0
  <2>1. Len(w) \in 0..Len(w)
    BY <1>1 DEF n
  <2> QED BY <1>8, <2>1
<1>11. \A k \in 0..n : g[k] = h[k]
  <2> DEFINE Bad == {k \in 0..n : g[k] # h[k]}
  <2> SUFFICES ASSUME Bad # {} PROVE FALSE
    OBVIOUS
  <2>1. Bad \in SUBSET Nat
    BY <1>1
  <2>2. PICK k \in Bad : \A j \in Bad : k <= j
    <3> HIDE DEF Bad
    <3> QED BY <2>1, LeastOf
  <2>3. k \in 0..n /\ g[k] # h[k] /\ k # 0
    BY <1>8, <1>9, <2>2
  <2>4. k \in 1..n /\ k - 1 \in 0..n /\ ~(k <= k - 1) /\ k \in 1..(n + 1 + m)
    BY <1>1, <2>3
  <2>5. g[k - 1] = h[k - 1]
    BY <2>2, <2>4
  <2>6. h[k] = WithToken(h[k - 1], w[k]) /\ g[k] = WithToken(g[k - 1], u[k]) /\ u[k] = w[k]
    BY <1>3, <1>5, <1>8, <1>9, <2>4 DEF n
  <2> QED BY <2>3, <2>5, <2>6
<1> HIDE DEF s
<1>12. g[n] = s
  <2>1. n \in 0..n
    BY <1>1
  <2> QED BY <1>8, <1>11, <2>1 DEF n, s
<1>13. g[n + 1] = Append(s, <<>>)
  <2>1. n + 1 \in 1..(n + 1 + m) /\ (n + 1) - 1 = n
    BY <1>1
  <2>2. g[n + 1] = WithToken(s, Slash)
    BY <1>3, <1>4, <1>9, <1>12, <2>1
  <2>3. IsSep(Slash)
    BY DEF IsSep, Separators, Plain, Slash
  <2> QED BY <2>2, <2>3 DEF WithToken
<1> DEFINE Part(k) == [i \in 1..k |-> seg[i]]
           Bad == {k \in 0..m : g[n + 1 + k] # Append(s, Part(k))}
<1>14. \A i \in 1..m : seg[i] \in Toks
  BY DEF m
<1>15. Bad = {}
  <2> SUFFICES ASSUME Bad # {} PROVE FALSE
    OBVIOUS
  <2>1. Bad \in SUBSET Nat
    BY <1>1
  <2>2. PICK k \in Bad : \A j \in Bad : k <= j
    <3> HIDE DEF Bad
    <3> QED BY <2>1, LeastOf
  <2>3. k \in 0..m /\ g[n + 1 + k] # Append(s, Part(k))
    BY <2>2
  <2>4. k # 0
    <3>1. Part(0) = <<>>
      OBVIOUS
    <3>2. n + 1 + 0 = n + 1
      BY <1>1
    <3> HIDE DEF Part
    <3> QED BY <1>13, <2>3, <3>1, <3>2
  <2>5. /\ k \in 1..m /\ k - 1 \in 0..m /\ ~(k <= k - 1) /\ n + 1 + k \in 1..(n + 1 + m)
        /\ (n + 1 + k) - 1 = n + 1 + (k - 1) /\ k - 1 \in Nat /\ (k - 1) + 1 = k
    BY <1>1, <2>3, <2>4
  <2>6. g[n + 1 + (k - 1)] = Append(s, Part(k - 1))
    <3> HIDE DEF Part
    <3> QED BY <2>2, <2>5
  <2>7. g[n + 1 + k] = WithToken(Append(s, Part(k - 1)), seg[k])
    <3> HIDE DEF Part
    <3>1. g[n + 1 + k] = WithToken(g[(n + 1 + k) - 1], u[n + 1 + k])
      BY <1>3, <1>9, <2>5
    <3> QED BY <1>6, <2>5, <2>6, <3>1
  <2>8. Part(k - 1) \in Seq(Toks) /\ Part(k) \in Seq(Toks)
    <3>1. /\ \A i \in 1..(k - 1) : seg[i] \in Toks
          /\ \A i \in 1..k : seg[i] \in Toks
          /\ k \in Nat
      BY <1>1, <1>14, <2>5
    <3> QED BY <2>5, <3>1
  <2>9. Append(Part(k - 1), seg[k]) = Part(k)
    <3> DEFINE c == Append(Part(k - 1), seg[k])
    <3>1. Len(Part(k - 1)) = k - 1 /\ Len(Part(k)) = k
      BY <2>5
    <3>2. /\ \A i \in 1..(k - 1) : Part(k - 1)[i] = seg[i]
          /\ \A i \in 1..k : Part(k)[i] = seg[i]
      OBVIOUS
    <3> HIDE DEF Part
    <3>3. seg[k] \in Toks
      BY <1>14, <2>5
    <3>4. /\ c \in Seq(Toks) /\ Len(c) = k /\ c[k] = seg[k]
          /\ \A i \in 1..(k - 1) : c[i] = Part(k - 1)[i]
      BY <2>5, <2>8, <3>1, <3>3, AppendProperties
    <3> HIDE DEF c
    <3>5. \A i \in 1..k : c[i] = Part(k)[i]
      <4> TAKE i \in 1..k
      <4>1. i = k \/ i \in 1..(k - 1)
        BY <2>5
      <4> QED BY <3>2, <3>4, <4>1
    <3>6. c = Part(k)
      BY <2>8, <3>1, <3>4, <3>5, SeqEqual
    <3> QED BY <3>6 DEF c
  <2> DEFINE a == Part(k - 1)
             b == Part(k)
             q == Append(s, a)
             l == Len(s)
  <2> HIDE DEF Part
  <2>10. /\ l \in Nat /\ q \in Seq(Seq(Toks)) /\ Len(q) = l + 1 /\ q[l + 1] = a
         /\ \A j \in 1..l : q[j] = s[j]
    BY <1>10, <2>8, AppendProperties
  <2>11. /\ Append(s, b) \in Seq(Seq(Toks)) /\ Len(Append(s, b)) = l + 1
         /\ Append(s, b)[l + 1] = b /\ \A j \in 1..l : Append(s, b)[j] = s[j]
    BY <1>10, <2>8, AppendProperties
  <2> HIDE DEF a, b, q, l
  <2>12. Splits(seg[k], Toks) /\ ~IsSep(seg[k]) /\ Len(q) > 0
    BY <1>14, <2>5, <2>10 DEF m, Splits
  <2> DEFINE r == WithToken(q, seg[k])
  <2>13. /\ r \in Seq(Seq(Toks)) /\ Len(r) = Len(q)
         /\ r[Len(q)] = Append(q[Len(q)], seg[k])
         /\ \A j \in 1..(Len(q) - 1) : r[j] = q[j]
    <3> DEFINE t == seg[k]
    <3>1. q \in Seq(Seq(Toks)) /\ Len(q) > 0 /\ Splits(t, Toks) /\ ~IsSep(t)
      BY <2>10, <2>12
    <3> HIDE DEF t
    <3>2. r \in Seq(Seq(Toks)) /\ Grows(r, q, t)
      BY ONLY <3>1, WithTokenIs DEF t
    <3> HIDE DEF r
    <3>3. /\ Len(r) = Len(q) /\ r[Len(q)] = Append(q[Len(q)], t)
          /\ \A j \in 1..(Len(q) - 1) : r[j] = q[j]
      BY ONLY <3>1, <3>2 DEF Grows
    <3> QED BY <3>2, <3>3 DEF t
  <2> HIDE DEF r
  <2>14. Len(r) = l + 1 /\ r[l + 1] = b /\ \A j \in 1..l : r[j] = s[j]
    <3>1. Len(q) - 1 = l
      BY <2>10
    <3>2. Append(a, seg[k]) = b
      BY <2>9 DEF a, b
    <3> QED BY <2>10, <2>13, <3>1, <3>2
  <2>15. r = Append(s, b)
    <3>1. \A j \in 1..(l + 1) : r[j] = Append(s, b)[j]
      <4> TAKE j \in 1..(l + 1)
      <4>1. j = l + 1 \/ j \in 1..l
        BY <2>10
      <4> QED BY <2>11, <2>14, <4>1
    <3>2. Len(r) = Len(Append(s, b))
      BY <2>11, <2>14
    <3>3. \A j \in 1..Len(r) : r[j] = Append(s, b)[j]
      BY <2>14, <3>1
    <3> QED BY <2>11, <2>13, <3>2, <3>3, SeqEqual
  <2> QED BY <2>3, <2>7, <2>15 DEF a, b, q, r
<1>16. g[n + 1 + m] = Append(s, Part(m))
  <2>1. m \in 0..m
    BY <1>1
  <2> HIDE DEF Part
  <2> QED BY <1>15, <2>1
<1>17. Part(m) = seg
  BY <1>1 DEF m
<1> HIDE DEF Part
<1> QED BY <1>3, <1>9, <1>16, <1>17 DEF u, v, s

-----------------------------------------------------------------------------
(* A path written again. *)

\* Cleaning, one segment after the other.
Kept(out, seg) == IF seg = <<>> \/ IsDots(seg, ".") THEN out
                  ELSE IF ~IsDots(seg, "..") THEN Append(out, seg)
                  ELSE IF out = <<>> THEN out ELSE Front(out)

\* What Clean leaves of segments of names.
Plains(Names) == {s \in Seq(Names) : s # <<>> /\ ~IsDots(s, ".") /\ ~IsDots(s, "..")}

LEMMA KeptIs ==
    ASSUME NEW Names, NEW out \in Seq(Plains(Names)), NEW seg \in Seq(Names)
    PROVE  Kept(out, seg) \in Seq(Plains(Names))
PROOF
<1> DEFINE S == Plains(Names)
<1>1. seg # <<>> /\ ~IsDots(seg, ".") /\ ~IsDots(seg, "..") => seg \in S
  BY DEF Plains
<1> HIDE DEF S
<1>2. out \in Seq(S)
  BY DEF S
<1>3. out # <<>> => Front(out) \in Seq(S)
  <2>1. Len(out) \in Nat /\ \A i \in 1..(Len(out) - 1) : out[i] \in S
    BY <1>2
  <2>2. SubSeq(out, 1, Len(out) - 1) \in Seq(S)
    BY <2>1, SubSeqProperties
  <2> QED BY <2>2 DEF Front
<1>4. seg \in S => Append(out, seg) \in Seq(S)
  BY <1>2, AppendProperties
<1> QED BY <1>1, <1>2, <1>3, <1>4 DEF Kept, S

\* The segments that cleaning leaves of segs.
CleanOf(segs) == FoldLeft(LAMBDA out, seg : IF seg = <<>> \/ IsDots(seg, ".") THEN out
                                            ELSE IF ~IsDots(seg, "..") THEN Append(out, seg)
                                            ELSE IF out = <<>> THEN out ELSE Front(out),
                          <<>>, segs)

\* What is left after each segment.
LEMMA CleanSteps ==
    ASSUME NEW Names, NEW segs \in Seq(Seq(Names))
    PROVE  \E g : /\ g[0] = <<>>
                  /\ \A k \in 1..Len(segs) : g[k] = Kept(g[k - 1], segs[k])
                  /\ CleanOf(segs) = g[Len(segs)]
                  /\ \A k \in 0..Len(segs) : g[k] \in Seq(Plains(Names))
PROOF
<1> DEFINE V == Seq(Plains(Names))
           st == [x \in V \X Seq(Names) |-> Kept(x[1], x[2])]
           IsIt(it) == it = [t \in SUBSET DOMAIN segs |->
                                IF t = {} THEN <<>> ELSE Kept(it[t \ {Max(t)}], segs[Max(t)])]
           p == CHOOSE it : IsIt(it)
<1>1. CleanOf(segs) = p[DOMAIN segs]
  BY DEF CleanOf, Kept, FoldLeft, MapThenFoldSet
<1>2. st \in [V \X Seq(Names) -> V] /\ <<>> \in V
  BY KeptIs
<1>3. \A v \in V, x \in Seq(Names) : st[<<v, x>>] = Kept(v, x)
  OBVIOUS
<1> HIDE DEF V, st
<1>4. \E it : FoldsTo(it, st, <<>>, segs, V, Seq(Names))
  BY <1>2, FoldValues
<1>5. \A it : FoldsTo(it, st, <<>>, segs, V, Seq(Names)) => IsIt(it)
  BY <1>3 DEF FoldsTo
<1>6. IsIt(p)
  BY <1>4, <1>5
<1> HIDE DEF p
<1>7. StepsTo(p, st, <<>>, segs, V)
  <2> SUFFICES ASSUME NEW t \in SUBSET DOMAIN segs, t # {} => p[t \ {Max(t)}] \in V
               PROVE  p[t] = IF t = {} THEN <<>> ELSE st[<<p[t \ {Max(t)}], segs[Max(t)]>>]
    BY DEF StepsTo
  <2>1. t # {} => segs[Max(t)] \in Seq(Names)
    BY PlaceOf
  <2> QED BY <1>3, <1>6, <2>1
<1>a. Reaches(p, st, <<>>, segs, V)
  <2>1. IsStep(st, <<>>, segs, V, Seq(Names))
    BY <1>2 DEF IsStep
  <2> QED BY <1>7, <2>1, FoldRuns
<1>8. PICK g : Runs(g, st, <<>>, segs, V) /\ p[DOMAIN segs] = g[Len(segs)]
  BY <1>a DEF Reaches
<1>9. \A k \in 1..Len(segs) : segs[k] \in Seq(Names) /\ k - 1 \in 0..Len(segs)
  BY PrefixesOf
<1>10. \A k \in 1..Len(segs) : g[k] = Kept(g[k - 1], segs[k])
  BY <1>3, <1>8, <1>9 DEF Runs
<1> QED BY <1>1, <1>8, <1>10 DEF Runs, V

\* The segments as they are written, one behind the other.
WrittenSegs(segs) == FoldLeft(LAMBDA out, seg : out \o <<Slash>> \o seg, <<>>, segs)

\* A segment behind what is written.
Behind(out, seg) == (out \o <<Slash>>) \o seg

LEMMA BehindIs ==
    ASSUME NEW Toks, Slash \in Toks, NEW out \in Seq(Toks), NEW seg \in Seq(Toks)
    PROVE  /\ Behind(out, seg) \in Seq(Toks) /\ Len(Behind(out, seg)) = Len(out) + 1 + Len(seg)
           /\ seg # <<>> => Behind(out, seg)[Len(Behind(out, seg))] = seg[Len(seg)]
PROOF
<1> DEFINE v == out \o <<Slash>>
           n == Len(out)
           m == Len(seg)
<1>1. n \in Nat /\ m \in Nat /\ Len(<<Slash>>) = 1 /\ <<Slash>> \in Seq(Toks)
  OBVIOUS
<1>2. v \in Seq(Toks) /\ Len(v) = n + 1
  BY <1>1, ConcatProperties
<1> HIDE DEF v
<1>3. /\ v \o seg \in Seq(Toks) /\ Len(v \o seg) = Len(v) + Len(seg)
      /\ \A i \in 1..(Len(v) + Len(seg)) :
            (v \o seg)[i] = IF i <= Len(v) THEN v[i] ELSE seg[i - Len(v)]
  BY <1>2, ConcatProperties
<1>4. Behind(out, seg) = v \o seg
  BY DEF Behind, v
<1>5. ASSUME seg # <<>> PROVE (v \o seg)[n + 1 + m] = seg[m]
  <2>1. m # 0
    BY <1>5
  <2> HIDE DEF n, m
  <2>2. /\ n + 1 + m \in 1..((n + 1) + m) /\ ~(n + 1 + m <= n + 1)
        /\ (n + 1 + m) - (n + 1) = m
    BY <1>1, <2>1
  <2>3. Len(v) + Len(seg) = (n + 1) + m
    BY <1>2 DEF m
  <2> QED BY <1>2, <1>3, <2>2, <2>3
<1>6. Len(v \o seg) = n + 1 + m
  BY <1>2, <1>3
<1> QED BY <1>3, <1>4, <1>5, <1>6

\* What is written after each segment.
LEMMA WrittenSteps ==
    ASSUME NEW Toks, Slash \in Toks, NEW segs \in Seq(Seq(Toks))
    PROVE  \E g : /\ g[0] = <<>>
                  /\ \A k \in 1..Len(segs) : g[k] = Behind(g[k - 1], segs[k])
                  /\ WrittenSegs(segs) = g[Len(segs)]
                  /\ \A k \in 0..Len(segs) : g[k] \in Seq(Toks)
PROOF
<1> DEFINE V == Seq(Toks)
           st == [x \in V \X Seq(Toks) |-> Behind(x[1], x[2])]
           IsIt(it) == it = [t \in SUBSET DOMAIN segs |->
                                IF t = {} THEN <<>> ELSE Behind(it[t \ {Max(t)}], segs[Max(t)])]
           p == CHOOSE it : IsIt(it)
<1>1. WrittenSegs(segs) = p[DOMAIN segs]
  BY DEF WrittenSegs, Behind, FoldLeft, MapThenFoldSet
<1>2. st \in [V \X Seq(Toks) -> V] /\ <<>> \in V
  BY BehindIs
<1>3. \A v \in V, x \in Seq(Toks) : st[<<v, x>>] = Behind(v, x)
  OBVIOUS
<1> HIDE DEF V, st
<1>4. \E it : FoldsTo(it, st, <<>>, segs, V, Seq(Toks))
  BY <1>2, FoldValues
<1>5. \A it : FoldsTo(it, st, <<>>, segs, V, Seq(Toks)) => IsIt(it)
  BY <1>3 DEF FoldsTo
<1>6. IsIt(p)
  BY <1>4, <1>5
<1> HIDE DEF p
<1>7. StepsTo(p, st, <<>>, segs, V)
  <2> SUFFICES ASSUME NEW t \in SUBSET DOMAIN segs, t # {} => p[t \ {Max(t)}] \in V
               PROVE  p[t] = IF t = {} THEN <<>> ELSE st[<<p[t \ {Max(t)}], segs[Max(t)]>>]
    BY DEF StepsTo
  <2>1. t # {} => segs[Max(t)] \in Seq(Toks)
    BY PlaceOf
  <2> QED BY <1>3, <1>6, <2>1
<1>a. Reaches(p, st, <<>>, segs, V)
  <2>1. IsStep(st, <<>>, segs, V, Seq(Toks))
    BY <1>2 DEF IsStep
  <2> QED BY <1>7, <2>1, FoldRuns
<1>8. PICK g : Runs(g, st, <<>>, segs, V) /\ p[DOMAIN segs] = g[Len(segs)]
  BY <1>a DEF Reaches
<1>9. \A k \in 1..Len(segs) : segs[k] \in Seq(Toks) /\ k - 1 \in 0..Len(segs)
  BY PrefixesOf
<1>10. \A k \in 1..Len(segs) : g[k] = Behind(g[k - 1], segs[k])
  BY <1>3, <1>8, <1>9 DEF Runs
<1> QED BY <1>1, <1>8, <1>10 DEF Runs, V

\* The segments of what is written are those that were written, behind an empty one.
FromSegs(s, segs, k) == Len(s) = k + 1 /\ s[1] = <<>> /\ \A j \in 1..k : s[j + 1] = segs[j]

\* What is written is split into the segments it was written from.
LEMMA WrittenIs ==
    ASSUME NEW Toks, Slash \in Toks, NEW Names \in SUBSET Toks, \A t \in Names : ~IsSep(t),
           NEW segs \in Seq(Plains(Names))
    PROVE  /\ WrittenSegs(segs) \in Seq(Toks)
           /\ FromSegs(Segments(WrittenSegs(segs)), segs, Len(segs))
           /\ Segments(WrittenSegs(segs)) \in Seq(Seq(Toks))
           /\ segs = <<>> => WrittenSegs(segs) = <<>>
           /\ segs # <<>> => /\ WrittenSegs(segs) # <<>>
                             /\ WrittenSegs(segs)[Len(WrittenSegs(segs))] \in Names
PROOF
<1> DEFINE n == Len(segs)
<1>1. n \in Nat
  BY LenProperties
<1>2. \A k \in 1..n : segs[k] \in Seq(Names) /\ segs[k] # <<>>
  BY DEF Plains
<1>3. segs \in Seq(Seq(Toks)) /\ \A k \in 1..n : segs[k] \in Seq(Toks)
  <2>1. Seq(Names) \subseteq Seq(Toks)
    OBVIOUS
  <2>2. \A k \in 1..n : segs[k] \in Seq(Toks)
    BY <1>2, <2>1
  <2> QED BY <2>2
<1>4. PICK g : /\ g[0] = <<>>
               /\ \A k \in 1..n : g[k] = Behind(g[k - 1], segs[k])
               /\ WrittenSegs(segs) = g[n]
               /\ \A k \in 0..n : g[k] \in Seq(Toks)
  BY <1>3, WrittenSteps
<1>5. \A k \in 1..n : \A i \in 1..Len(segs[k]) : segs[k][i] \in Names /\ ~IsSep(segs[k][i])
  BY <1>2
<1> HIDE DEF n
<1> DEFINE S(k) == Segments(g[k])
           Bad == {k \in 0..n : ~FromSegs(S(k), segs, k)}
<1>6. \A k \in 0..n : S(k) \in Seq(Seq(Toks))
  BY <1>4, SegmentsAre
<1>7. Bad = {}
  <2> SUFFICES ASSUME Bad # {} PROVE FALSE
    OBVIOUS
  <2>1. Bad \in SUBSET Nat
    BY <1>1
  <2>2. PICK k \in Bad : \A j \in Bad : k <= j
    <3> HIDE DEF Bad
    <3> QED BY <2>1, LeastOf
  <2>3. k \in 0..n /\ ~FromSegs(S(k), segs, k)
    BY <2>2
  <2>4. FromSegs(S(0), segs, 0)
    <3>1. <<>> \in Seq(Toks) /\ Len(<<>>) = 0
      OBVIOUS
    <3>2. \A t \in Toks : Splits(t, Toks)
      BY DEF Splits
    <3>3. PICK h : /\ h[0] = <<<<>>>>
                   /\ \A i \in 1..Len(<<>>) : h[i] = WithToken(h[i - 1], <<>>[i])
                   /\ Segments(<<>>) = h[Len(<<>>)]
                   /\ \A i \in 0..Len(<<>>) : h[i] \in {x \in Seq(Seq(Toks)) : Len(x) > 0}
      BY <3>1, <3>2, SegmentSteps
    <3>4. S(0) = <<<<>>>>
      BY <1>4, <3>1, <3>3
    <3>5. Len(S(0)) = 1 /\ S(0)[1] = <<>>
      BY <3>4
    <3> HIDE DEF S
    <3> QED BY <3>5 DEF FromSegs
  <2>5. k \in 1..n /\ k - 1 \in 0..n /\ ~(k <= k - 1)
    <3> HIDE DEF S
    <3>1. k # 0
      BY <2>3, <2>4
    <3> QED BY <1>1, <2>3, <3>1
  <2>6. FromSegs(S(k - 1), segs, k - 1)
    <3> HIDE DEF S
    <3> QED BY <2>2, <2>5
  <2>7. S(k) = Append(S(k - 1), segs[k])
    <3>1. g[k] = (g[k - 1] \o <<Slash>>) \o segs[k] /\ g[k - 1] \in Seq(Toks)
      BY <1>4, <2>5 DEF Behind
    <3>2. segs[k] \in Seq(Toks) /\ \A i \in 1..Len(segs[k]) : ~IsSep(segs[k][i])
      BY <1>3, <1>5, <2>5
    <3> QED BY <3>1, <3>2, OneMoreSegment
  <2> DEFINE a == S(k - 1)
             b == Append(a, segs[k])
  <2>8. a \in Seq(Seq(Toks)) /\ segs[k] \in Seq(Toks)
    BY <1>3, <1>6, <2>5
  <2>9. Len(a) = k - 1 + 1 /\ a[1] = <<>> /\ \A j \in 1..(k - 1) : a[j + 1] = segs[j]
    BY <2>6 DEF FromSegs
  <2> HIDE DEF a
  <2>10. Len(b) = Len(a) + 1 /\ b[Len(a) + 1] = segs[k] /\ \A j \in 1..Len(a) : b[j] = a[j]
    BY <2>8, AppendProperties
  <2> HIDE DEF b
  <2>11. k - 1 + 1 = k /\ 1 \in 1..k /\ Len(a) = k
    BY <1>1, <2>5, <2>9
  <2>12. \A j \in 1..k : b[j + 1] = segs[j]
    <3> TAKE j \in 1..k
    <3>1. CASE j = k
      BY <2>10, <2>11, <3>1
    <3>2. CASE j # k
      <4>1. j \in 1..(k - 1) /\ j + 1 \in 1..k
        BY <2>5, <3>2
      <4> QED BY <2>9, <2>10, <2>11, <4>1
    <3> QED BY <3>1, <3>2
  <2>13. FromSegs(b, segs, k)
    BY <2>9, <2>10, <2>11, <2>12 DEF FromSegs
  <2> HIDE DEF S
  <2> QED BY <2>3, <2>7, <2>13 DEF a, b
<1> HIDE DEF Bad
<1>8. n \in 0..n
  BY <1>1
<1>9. FromSegs(S(n), segs, n)
  <2> HIDE DEF S
  <2> QED BY <1>7, <1>8 DEF Bad
<1>10. segs = <<>> => n = 0
  BY DEF n
<1>11. ASSUME segs # <<>> PROVE g[n] # <<>> /\ g[n][Len(g[n])] \in Names
  <2>1. n # 0
    BY <1>11 DEF n
  <2>2. n \in 1..n /\ n - 1 \in 0..n
    BY <1>1, <2>1
  <2> DEFINE x == segs[n]
  <2>3. x \in Seq(Toks) /\ x # <<>> /\ x \in Seq(Names)
    BY <1>2, <1>3, <2>2
  <2>4. Len(x) \in 1..Len(x) /\ x[Len(x)] \in Names
    BY <2>3
  <2> HIDE DEF x
  <2>5. g[n] = Behind(g[n - 1], x) /\ g[n - 1] \in Seq(Toks)
    BY <1>4, <2>2 DEF x
  <2>6. /\ g[n] \in Seq(Toks) /\ Len(g[n]) = Len(g[n - 1]) + 1 + Len(x)
        /\ g[n][Len(g[n])] = x[Len(x)]
    BY <2>3, <2>5, BehindIs
  <2>7. Len(g[n]) # 0
    BY <2>3, <2>5, <2>6
  <2> QED BY <2>4, <2>6, <2>7
<1> QED BY <1>4, <1>6, <1>8, <1>9, <1>10, <1>11 DEF n

\* Segments of names are cleaned to themselves, with or without a last slash.
LEMMA CleanedAgain ==
    ASSUME NEW Names, NEW segs \in Seq(Plains(Names)), NEW s \in Seq(Seq(Names)),
           NEW l \in {0, 1}, Len(s) = Len(segs) + 1 + l,
           s[1] = <<>>, \A j \in 1..Len(segs) : s[j + 1] = segs[j],
           l = 1 => s[Len(s)] = <<>>
    PROVE  CleanOf(s) = segs
PROOF
<1> DEFINE n == Len(segs)
<1>1. n \in Nat /\ \A j \in 1..n : segs[j] \in Plains(Names)
  OBVIOUS
<1>2. PICK g : /\ g[0] = <<>>
               /\ \A k \in 1..Len(s) : g[k] = Kept(g[k - 1], s[k])
               /\ CleanOf(s) = g[Len(s)]
               /\ \A k \in 0..Len(s) : g[k] \in Seq(Plains(Names))
  BY CleanSteps
<1>a. Len(s) = n + 1 + l /\ (l = 0 \/ l = 1)
  OBVIOUS
<1> HIDE DEF n
<1>3. g[1] = <<>>
  <2>1. 1 \in 1..Len(s) /\ 1 - 1 = 0
    BY <1>1 DEF n
  <2>2. g[1] = Kept(<<>>, <<>>)
    BY <1>2, <2>1
  <2> QED BY <2>2 DEF Kept
<1> DEFINE Ok(k) == Len(g[k + 1]) = k /\ \A j \in 1..k : g[k + 1][j] = segs[j]
           Bad == {k \in 0..n : ~Ok(k)}
<1>4. Bad = {}
  <2> SUFFICES ASSUME Bad # {} PROVE FALSE
    OBVIOUS
  <2>1. Bad \in SUBSET Nat
    BY <1>1
  <2>2. PICK k \in Bad : \A j \in Bad : k <= j
    <3> HIDE DEF Bad
    <3> QED BY <2>1, LeastOf
  <2>3. k \in 0..n /\ ~Ok(k)
    BY <2>2
  <2>4. Ok(0)
    <3>1. g[0 + 1] = <<>> /\ Len(<<>>) = 0
      BY <1>3
    <3> QED BY <3>1
  <2> HIDE DEF Ok
  <2>5. k \in 1..n /\ k - 1 \in 0..n /\ ~(k <= k - 1) /\ (k - 1) + 1 = k
    <3>1. k # 0
      BY <2>3, <2>4
    <3> QED BY <1>1, <2>3, <3>1
  <2>6. Ok(k - 1)
    BY <2>2, <2>5
  <2>7. Len(g[k]) = k - 1 /\ \A j \in 1..(k - 1) : g[k][j] = segs[j]
    BY <2>5, <2>6 DEF Ok
  <2>8. k \in 0..Len(s) /\ k + 1 \in 1..Len(s) /\ (k + 1) - 1 = k
    <3>1. k \in Nat /\ k >= 1 /\ k <= n
      BY <1>1, <2>5
    <3>2. Len(s) \in Nat /\ Len(s) >= n + 1
      BY <1>a, <1>1
    <3>3. n \in Nat
      BY <1>1
    <3> QED BY ONLY <3>1, <3>2, <3>3
  <2>9. g[k + 1] = Append(g[k], segs[k])
    <3>1. g[k + 1] = Kept(g[k], s[k + 1]) /\ s[k + 1] = segs[k]
      BY <1>2, <2>5, <2>8 DEF n
    <3>2. segs[k] # <<>> /\ ~IsDots(segs[k], ".") /\ ~IsDots(segs[k], "..")
      BY <1>1, <2>5 DEF Plains
    <3> QED BY <3>1, <3>2 DEF Kept
  <2>10. g[k] \in Seq(Plains(Names)) /\ segs[k] \in Plains(Names)
    BY <1>1, <1>2, <2>5, <2>8
  <2>11. /\ Len(g[k + 1]) = (k - 1) + 1 /\ g[k + 1][(k - 1) + 1] = segs[k]
         /\ \A j \in 1..(k - 1) : g[k + 1][j] = g[k][j]
    <3> DEFINE x == g[k]
               y == segs[k]
    <3>1. x \in Seq(Plains(Names)) /\ y \in Plains(Names) /\ Len(x) = k - 1
      BY <2>7, <2>10
    <3> HIDE DEF x, y
    <3>2. /\ Len(Append(x, y)) = Len(x) + 1 /\ Append(x, y)[Len(x) + 1] = y
          /\ \A j \in 1..Len(x) : Append(x, y)[j] = x[j]
      BY <3>1, AppendProperties
    <3>3. g[k + 1] = Append(x, y)
      BY <2>9 DEF x, y
    <3>4. /\ Len(g[k + 1]) = (k - 1) + 1 /\ g[k + 1][(k - 1) + 1] = y
          /\ \A j \in 1..(k - 1) : g[k + 1][j] = x[j]
      BY <3>1, <3>2, <3>3
    <3> QED BY <3>4 DEF x, y
  <2>12. \A j \in 1..k : j = k \/ j \in 1..(k - 1)
    BY <2>5
  <2>13. \A j \in 1..k : g[k + 1][j] = segs[j]
    BY <2>5, <2>7, <2>11, <2>12
  <2> QED BY <2>3, <2>5, <2>11, <2>13 DEF Ok
<1>5. n \in 0..n /\ n + 1 \in 0..Len(s)
  BY <1>1 DEF n
<1>6. Ok(n)
  <2> HIDE DEF Ok
  <2> QED BY <1>4, <1>5
<1>7. g[n + 1] = segs
  <2>1. g[n + 1] \in Seq(Plains(Names)) /\ Len(g[n + 1]) = Len(segs)
    BY <1>2, <1>5, <1>6 DEF n
  <2>2. \A j \in 1..Len(g[n + 1]) : g[n + 1][j] = segs[j]
    BY <1>6
  <2> QED BY <2>1, <2>2, SeqEqual
<1>8. CASE l = 0
  <2>1. Len(s) = n + 1
    BY <1>1, <1>8 DEF n
  <2> QED BY <1>2, <1>7, <2>1
<1>9. CASE l = 1
  <2>1. Len(s) = n + 2 /\ n + 2 \in 1..Len(s) /\ (n + 2) - 1 = n + 1 /\ s[n + 2] = <<>>
    BY <1>1, <1>9 DEF n
  <2>2. g[n + 2] = Kept(g[n + 1], <<>>)
    BY <1>2, <2>1
  <2> QED BY <1>2, <1>7, <2>1, <2>2 DEF Kept
<1> QED BY <1>8, <1>9

\* Cleaning a path leaves segments of its names, none of them dots.
LEMMA CleansToPlains ==
    ASSUME NEW Toks, NEW w \in Seq(Toks), NEW Names, \A t \in Toks : Splits(t, Names)
    PROVE  /\ Segments(w) \in Seq(Seq(Names))
           /\ Clean(w) = CleanOf(Segments(w)) /\ Clean(w) \in Seq(Plains(Names))
PROOF
<1>1. PICK g : /\ g[0] = <<<<>>>>
               /\ \A k \in 1..Len(w) : g[k] = WithToken(g[k - 1], w[k])
               /\ Segments(w) = g[Len(w)]
               /\ \A k \in 0..Len(w) : g[k] \in {x \in Seq(Seq(Names)) : Len(x) > 0}
  BY SegmentSteps
<1> DEFINE s == Segments(w)
<1>2. Len(w) \in 0..Len(w)
  BY LenProperties
<1>3. s \in Seq(Seq(Names))
  BY <1>1, <1>2
<1>4. Clean(w) = CleanOf(s)
  BY DEF Clean, CleanOf
<1> HIDE DEF s
<1>5. PICK h : /\ h[0] = <<>>
               /\ \A k \in 1..Len(s) : h[k] = Kept(h[k - 1], s[k])
               /\ CleanOf(s) = h[Len(s)]
               /\ \A k \in 0..Len(s) : h[k] \in Seq(Plains(Names))
  BY <1>3, CleanSteps
<1>6. Len(s) \in 0..Len(s)
  BY <1>3, LenProperties
<1>7. CleanOf(s) \in Seq(Plains(Names))
  BY <1>5, <1>6
<1> QED BY <1>3, <1>4, <1>7 DEF s

\* Tokens that are written as they are and end no path.
IsLetter(t) == t = [t |-> t.t, enc |-> <<>>] /\ t.t \notin {"?", "%"}

\* A path of such tokens is neither cut nor decoded.
LEMMA LettersStay ==
    ASSUME NEW Toks, \A t \in Toks : IsLetter(t), NEW q \in Seq(Toks)
    PROVE  WithoutQuery(q) = q /\ DecodePath(q) = q
PROOF
<1>1. Len(q) \in Nat /\ DOMAIN q = 1..Len(q) /\ q = [i \in 1..Len(q) |-> q[i]]
  OBVIOUS
<1>2. \A i \in 1..Len(q) : q[i] = [t |-> q[i].t, enc |-> <<>>] /\ q[i].t \notin {"?", "%"}
  BY DEF IsLetter
<1>3. WithoutQuery(q) = q
  BY <1>1, <1>2 DEF WithoutQuery
<1>4. IsPath(q)
  <2>1. \A t \in Toks : IsToken(t)
    <3> TAKE t \in Toks
    <3>1. t = [t |-> t.t, enc |-> <<>>]
      BY DEF IsLetter
    <3>2. t.enc = <<>>
      BY <3>1
    <3> QED BY <3>1, <3>2 DEF IsToken
  <2> QED BY <2>1 DEF IsPath
<1>5. Spelled(q) = q
  <2>1. Spelled(q) = [i \in 1..Len(q) |-> [t |-> q[i].t, enc |-> <<>>]]
    BY <1>4, SpelledIs
  <2>2. \A i \in 1..Len(q) : [t |-> q[i].t, enc |-> <<>>] = q[i]
    BY <1>2
  <2> QED BY <1>1, <2>1, <2>2
<1>6. \A i \in 1..Len(q) : IsToken(q[i]) /\ Len(q[i].enc) <= 3
  <2> TAKE i \in 1..Len(q)
  <2>1. IsToken(q[i])
    BY <1>1, <1>4, PathIs
  <2>2. Len(q[i].enc) = 0
    <3> DEFINE t == q[i]
    <3>0. t = [t |-> t.t, enc |-> <<>>]
      BY <1>2
    <3> HIDE DEF t
    <3>1. t.enc = <<>>
      BY <3>0
    <3> USE DEF t
    <3> QED BY <3>1
  <2> QED BY <2>1, <2>2
<1>7. DecodePath(q) = q
  <2>1. EscapesOnly(q)
    BY <1>1, <1>2 DEF EscapesOnly
  <2> QED BY <1>1, <1>5, <1>6, <2>1, DecodedIs
<1> QED BY <1>3, <1>7

\* Cleaned, written and cleaned again.
LEMMA WrittenIsCleaned ==
    ASSUME NEW Toks, Slash \in Toks, \A t \in Toks : IsLetter(t),
           NEW segs \in Seq(Plains({t \in Toks : ~IsSep(t)})), NEW slash \in BOOLEAN,
           segs = <<>> => slash
    PROVE  Normalize(Written([segs |-> segs, slash |-> slash])) = [segs |-> segs, slash |-> slash]
PROOF
<1> DEFINE Names == {t \in Toks : ~IsSep(t)}
           a == WrittenSegs(segs)
           q == Written([segs |-> segs, slash |-> slash])
<1>1. Names \in SUBSET Toks /\ (\A t \in Names : ~IsSep(t)) /\ \A t \in Toks : Splits(t, Names)
  BY DEF Splits
<1>2. segs \in Seq(Plains(Names))
  OBVIOUS
<1> HIDE DEF Names
<1>3. /\ a \in Seq(Toks) /\ FromSegs(Segments(a), segs, Len(segs))
      /\ Segments(a) \in Seq(Seq(Toks))
      /\ segs = <<>> => a = <<>>
      /\ segs # <<>> => a # <<>> /\ a[Len(a)] \in Names
  BY <1>1, <1>2, WrittenIs
<1>4. q = a \o IF slash THEN <<Slash>> ELSE <<>>
  BY DEF Written, WrittenSegs, Slash
<1>5. IsSep(Slash)
  BY DEF IsSep, Separators, Plain, Slash
<1> HIDE DEF a, q
<1>6. <<Slash>> \in Seq(Toks) /\ <<>> \in Seq(Toks) /\ Len(<<Slash>>) = 1
  OBVIOUS
<1>7. Len(segs) \in Nat /\ Len(a) \in Nat
  BY <1>3
<1>8. /\ q \in Seq(Toks) /\ q # <<>> /\ (IsSep(Last(q)) <=> slash)
      /\ \E l \in {0, 1} : /\ Len(Segments(q)) = Len(segs) + 1 + l
                           /\ Segments(q)[1] = <<>>
                           /\ \A j \in 1..Len(segs) : Segments(q)[j + 1] = segs[j]
                           /\ l = 1 => Segments(q)[Len(Segments(q))] = <<>>
  <2>1. CASE slash
    <3>1. q = a \o <<Slash>>
      BY <1>4, <2>1
    <3>2. /\ a \o <<Slash>> \in Seq(Toks) /\ Len(a \o <<Slash>>) = Len(a) + Len(<<Slash>>)
          /\ \A i \in 1..(Len(a) + Len(<<Slash>>)) : (a \o <<Slash>>)[i] =
                IF i <= Len(a) THEN a[i] ELSE <<Slash>>[i - Len(a)]
      BY <1>3, <1>6, ConcatProperties
    <3>3. q \in Seq(Toks) /\ Len(q) = Len(a) + 1
      BY <1>6, <3>1, <3>2
    <3>4. q[Len(a) + 1] = Slash
      <4>1. Len(a) + 1 \in 1..(Len(a) + 1) /\ ~(Len(a) + 1 <= Len(a)) /\ Len(a) + 1 - Len(a) = 1
        BY <1>7
      <4> QED BY <1>6, <3>1, <3>2, <4>1
    <3>5. q # <<>> /\ IsSep(Last(q))
      <4>1. Len(q) # 0
        BY <1>7, <3>3
      <4> QED BY <1>5, <3>3, <3>4, <4>1 DEF Last
    <3>6. (a \o <<Slash>>) \o <<>> = q
      BY <3>1, <3>3, ConcatEmptySeq
    <3>7. Segments(q) = Append(Segments(a), <<>>)
      <4>1. \A i \in 1..Len(<<>>) : ~IsSep(<<>>[i])
        OBVIOUS
      <4>2. Segments((a \o <<Slash>>) \o <<>>) = Append(Segments(a), <<>>)
        BY <1>3, <1>6, <4>1, OneMoreSegment
      <4> QED BY <3>6, <4>2
    <3> DEFINE s == Segments(a)
               n == Len(segs)
    <3>8. s \in Seq(Seq(Toks)) /\ Len(s) = n + 1 /\ s[1] = <<>>
          /\ \A j \in 1..n : s[j + 1] = segs[j]
      BY <1>3 DEF FromSegs
    <3> HIDE DEF s, n
    <3>9. /\ Len(Append(s, <<>>)) = Len(s) + 1 /\ Append(s, <<>>)[Len(s) + 1] = <<>>
          /\ \A j \in 1..Len(s) : Append(s, <<>>)[j] = s[j]
      BY <1>6, <3>8, AppendProperties
    <3>10. n \in Nat /\ 1 \in 1..(n + 1) /\ \A j \in 1..n : j + 1 \in 1..(n + 1)
      BY <1>7 DEF n
    <3>11. /\ Len(Segments(q)) = n + 1 + 1 /\ Segments(q)[1] = <<>>
           /\ \A j \in 1..n : Segments(q)[j + 1] = segs[j]
           /\ Segments(q)[n + 1 + 1] = <<>>
      BY <3>7, <3>8, <3>9, <3>10 DEF s
    <3> QED BY <2>1, <3>3, <3>5, <3>11 DEF n
  <2>2. CASE ~slash
    <3>1. q = a
      <4>1. q = a \o <<>>
        BY <1>4, <2>2
      <4> QED BY <1>3, <4>1, ConcatEmptySeq
    <3>2. a # <<>> /\ a[Len(a)] \in Names
      BY <1>3, <2>2
    <3>3. ~IsSep(Last(q))
      BY <1>1, <3>1, <3>2 DEF Last
    <3>4. /\ Len(Segments(q)) = Len(segs) + 1 + 0 /\ Segments(q)[1] = <<>>
          /\ \A j \in 1..Len(segs) : Segments(q)[j + 1] = segs[j]
      BY <1>3, <1>7, <3>1 DEF FromSegs
    <3> QED BY <1>3, <2>2, <3>1, <3>2, <3>3, <3>4
  <2> QED BY <2>1, <2>2
<1>9. Segments(q) \in Seq(Seq(Names)) /\ Clean(q) = CleanOf(Segments(q))
  BY <1>1, <1>8, CleansToPlains
<1>10. Clean(q) = segs
  <2>1. PICK l \in {0, 1} : /\ Len(Segments(q)) = Len(segs) + 1 + l
                            /\ Segments(q)[1] = <<>>
                            /\ \A j \in 1..Len(segs) : Segments(q)[j + 1] = segs[j]
                            /\ l = 1 => Segments(q)[Len(Segments(q))] = <<>>
    BY <1>8
  <2> DEFINE s == Segments(q)
  <2>2. s \in Seq(Seq(Names))
    BY <1>9
  <2>3. /\ Len(s) = Len(segs) + 1 + l /\ s[1] = <<>>
        /\ \A j \in 1..Len(segs) : s[j + 1] = segs[j]
        /\ l = 1 => s[Len(s)] = <<>>
    BY <2>1
  <2>4. Clean(q) = CleanOf(s)
    BY <1>9
  <2> HIDE DEF s
  <2>5. CleanOf(s) = segs
    BY <1>2, <2>2, <2>3, CleanedAgain
  <2> QED BY <2>4, <2>5
<1>11. WithoutQuery(q) = q /\ DecodePath(q) = q
  BY <1>8, LettersStay
<1>12. Normalize(q) = [segs |-> segs, slash |-> IsSep(Last(q)) \/ segs = <<>>]
  BY <1>8, <1>10, <1>11 DEF Normalize, Cleaned
<1>13. (IsSep(Last(q)) \/ segs = <<>>) = slash
  BY <1>8
<1> QED BY <1>12, <1>13 DEF q

\* Normalising a path twice is normalising it once, if every percent sign of it begins an
\* escape.
THEOREM TwiceIsOnce ==
    ASSUME NEW p, IsPath(p)
    PROVE  NormalizeTwice(p)
PROOF
<1> SUFFICES ASSUME Readable(p) PROVE Normalize(Written(Normalize(p))) = Normalize(p)
  BY DEF NormalizeTwice
<1> DEFINE w == WithoutQuery(p)
           d == Spelled(w)
           Toks == {d[i] : i \in 1..Len(d)} \cup {Slash}
           Names == {t \in Toks : ~IsSep(t)}
<1>1. PICK m \in 0..Len(p) : CutAt(p, m)
  BY BeforeQuery
<1>2. /\ w = [i \in 1..m |-> p[i]] /\ IsPath(w) /\ Len(w) = m
      /\ \A i \in 1..m : ~(p[i].t = "?" /\ Plain(p[i]))
  BY <1>1 DEF CutAt
<1>3. DecodePath(w) = d
  BY ReadableDecoded
<1>4. Len(p) \in Nat /\ DOMAIN p = 1..Len(p)
  BY PathIs
<1> HIDE DEF w
<1>5. d = [i \in 1..m |-> [t |-> w[i].t, enc |-> <<>>]] /\ IsPath(d) /\ Len(d) = m
  BY <1>2, SpelledIs
<1> HIDE DEF d
<1>6. \A i \in 1..m : IsLetter(d[i])
  <2> TAKE i \in 1..m
  <2>1. w[i] = p[i] /\ i \in DOMAIN p
    BY <1>2, <1>4
  <2>2. p[i].t \notin {"?", "%"}
    BY <1>2, <2>1 DEF Readable
  <2>3. d[i] = [t |-> p[i].t, enc |-> <<>>]
    BY <1>5, <2>1
  <2> QED BY <2>2, <2>3 DEF IsLetter
<1>7. d \in Seq(Toks)
  <2>1. d = [i \in 1..Len(d) |-> d[i]] /\ Len(d) \in Nat
    BY <1>5, PathIs
  <2>2. \A i \in 1..Len(d) : d[i] \in Toks
    OBVIOUS
  <2> QED BY <2>1, <2>2
<1>8. (\A t \in Toks : IsLetter(t)) /\ Slash \in Toks
  <2>1. IsLetter(Slash)
    BY DEF IsLetter, Slash
  <2>2. \A t \in {d[i] : i \in 1..Len(d)} : IsLetter(t)
    BY <1>5, <1>6
  <2> QED BY <2>1, <2>2
<1> HIDE DEF Toks
<1>9. \A t \in Toks : Splits(t, Names)
  BY DEF Splits
<1>10. Clean(d) \in Seq(Plains(Names))
  <2> HIDE DEF Names
  <2> QED BY <1>7, <1>9, CleansToPlains
<1>11. CASE w = <<>>
  <2> DEFINE c == [segs |-> <<>>, slash |-> FALSE]
  <2>1. Normalize(p) = c
    BY <1>11 DEF Normalize, w
  <2>2. Written(c) = <<>>
    <3>1. Written(c) = WrittenSegs(<<>>) \o <<>>
      BY DEF Written, WrittenSegs, Slash
    <3>2. <<>> \in Seq(Plains(Names)) /\ <<>> \in Seq(Toks)
      OBVIOUS
    <3>3. Names \in SUBSET Toks /\ \A t \in Names : ~IsSep(t)
      OBVIOUS
    <3> HIDE DEF Names
    <3>4. WrittenSegs(<<>>) = <<>>
      BY <1>8, <3>2, <3>3, WrittenIs
    <3> QED BY <3>1, <3>4
  <2>3. WithoutQuery(<<>>) = <<>>
    BY DEF WithoutQuery
  <2>4. Normalize(<<>>) = c
    BY <2>3 DEF Normalize
  <2> HIDE DEF c
  <2> QED BY <2>1, <2>2, <2>4
<1>12. CASE w # <<>>
  <2> DEFINE segs == Clean(d)
             slash == IsSep(Last(d)) \/ Clean(d) = <<>>
  <2>1. Normalize(p) = [segs |-> segs, slash |-> slash]
    BY <1>3, <1>12 DEF Normalize, Cleaned, w
  <2>2. slash \in BOOLEAN /\ (segs = <<>> => slash)
    OBVIOUS
  <2>3. segs \in Seq(Plains({t \in Toks : ~IsSep(t)}))
    BY <1>10
  <2> HIDE DEF segs, slash, Names
  <2>4. Normalize(Written([segs |-> segs, slash |-> slash])) = [segs |-> segs, slash |-> slash]
    BY <1>8, <2>2, <2>3, WrittenIsCleaned
  <2> QED BY <2>1, <2>4
<1> QED BY <1>11, <1>12

-----------------------------------------------------------------------------
(* Requests: what is searched of a body. *)

\* The patterns found in a text.
Hits(t) == Cardinality(Matched(t))

\* The hits after each text.
LEMMA HitsAfter ==
    ASSUME NEW Texts, NEW texts \in Seq(Texts), \A t \in Texts : Hits(t) \in Nat
    PROVE  \E g : /\ g[0] = 0
                  /\ \A k \in 1..Len(texts) : g[k] = g[k - 1] + Hits(texts[k])
                  /\ TextHits(texts) = g[Len(texts)]
                  /\ \A k \in 0..Len(texts) : g[k] \in Nat
PROOF
<1> DEFINE V == Nat
           st == [x \in V \X Texts |-> x[1] + Hits(x[2])]
           IsIt(it) == it = [t \in SUBSET DOMAIN texts |->
                                IF t = {} THEN 0 ELSE it[t \ {Max(t)}] + Hits(texts[Max(t)])]
           p == CHOOSE it : IsIt(it)
<1>1. TextHits(texts) = p[DOMAIN texts]
  BY DEF TextHits, Hits, FoldLeft, MapThenFoldSet
<1>2. st \in [V \X Texts -> V] /\ 0 \in V
  OBVIOUS
<1>3. \A v \in V, x \in Texts : st[<<v, x>>] = v + Hits(x)
  OBVIOUS
<1> HIDE DEF V, st
<1>4. \E it : FoldsTo(it, st, 0, texts, V, Texts)
  BY <1>2, FoldValues
<1>5. \A it : FoldsTo(it, st, 0, texts, V, Texts) => IsIt(it)
  BY <1>3 DEF FoldsTo
<1>6. IsIt(p)
  BY <1>4, <1>5
<1> HIDE DEF p
<1>7. StepsTo(p, st, 0, texts, V)
  <2> SUFFICES ASSUME NEW t \in SUBSET DOMAIN texts, t # {} => p[t \ {Max(t)}] \in V
               PROVE  p[t] = IF t = {} THEN 0 ELSE st[<<p[t \ {Max(t)}], texts[Max(t)]>>]
    BY DEF StepsTo
  <2>1. t # {} => texts[Max(t)] \in Texts
    BY PlaceOf
  <2> QED BY <1>3, <1>6, <2>1
<1>a. Reaches(p, st, 0, texts, V)
  <2>1. IsStep(st, 0, texts, V, Texts)
    BY <1>2 DEF IsStep
  <2> QED BY <1>7, <2>1, FoldRuns
<1>8. PICK g : Runs(g, st, 0, texts, V) /\ p[DOMAIN texts] = g[Len(texts)]
  BY <1>a DEF Reaches
<1>9. \A k \in 1..Len(texts) : texts[k] \in Texts /\ k - 1 \in 0..Len(texts)
  BY PrefixesOf
<1>10. \A k \in 1..Len(texts) : g[k] = g[k - 1] + Hits(texts[k])
  BY <1>3, <1>8, <1>9 DEF Runs
<1> QED BY <1>1, <1>8, <1>10 DEF Runs, V

\* A pattern under one encoding at most is in the text.
Some(t) == \E w \in t : w.enc <= 1

\* Such a pattern makes a hit.
LEMMA HitsAre ==
    ASSUME NEW t, IsText(t)
    PROVE  /\ IsFiniteSet(Matched(t)) /\ Hits(t) \in Nat
           /\ Some(t) => Matched(t) # {} /\ Hits(t) >= 1
PROOF
<1> DEFINE S == {v \in t : v.enc <= 1}
<1>1. IsFiniteSet(S)
  BY FS_Subset DEF IsText
<1>2. Matched(t) = {w.pattern : w \in S}
  BY DEF Matched
<1> HIDE DEF S
<1>3. IsFiniteSet(Matched(t))
  <2>1. [w \in S |-> w.pattern] \in Surjection(S, Matched(t))
    BY <1>2 DEF Surjection
  <2> QED BY <1>1, <2>1, FS_Surjection
<1>4. Hits(t) \in Nat
  BY <1>3, FS_CardinalityType DEF Hits
<1>5. ASSUME Some(t) PROVE Matched(t) # {} /\ Hits(t) >= 1
  <2>1. Matched(t) # {}
    BY <1>2, <1>5 DEF Some, S
  <2>2. Hits(t) # 0
    BY <1>3, <2>1, FS_EmptySet DEF Hits
  <2> QED BY <1>4, <2>1, <2>2
<1> QED BY <1>3, <1>4, <1>5

\* A text with a pattern makes a hit, with what is before and after it, ...
LEMMA TextsAreSearched ==
    ASSUME NEW Texts, NEW texts \in Seq(Texts), \A t \in Texts : IsText(t),
           NEW i \in DOMAIN texts, Some(texts[i])
    PROVE  TextHits(texts) \in Nat /\ TextHits(texts) >= 1
PROOF
<1> DEFINE n == Len(texts)
<1>1. n \in Nat /\ i \in 1..n /\ \A k \in 1..n : texts[k] \in Texts
  OBVIOUS
<1>2. \A t \in Texts : Hits(t) \in Nat
  BY HitsAre
<1>3. PICK g : /\ g[0] = 0
               /\ \A k \in 1..n : g[k] = g[k - 1] + Hits(texts[k])
               /\ TextHits(texts) = g[n]
  BY <1>2, HitsAfter
<1> HIDE DEF n
<1> DEFINE Ok(k) == g[k] \in Nat /\ (k >= i => g[k] >= 1)
           Bad == {k \in 0..n : ~Ok(k)}
<1>4. Bad = {}
  <2> SUFFICES ASSUME Bad # {} PROVE FALSE
    OBVIOUS
  <2>1. Bad \in SUBSET Nat
    BY <1>1
  <2>2. PICK k \in Bad : \A j \in Bad : k <= j
    <3> HIDE DEF Bad
    <3> QED BY <2>1, LeastOf
  <2>3. k \in 0..n /\ ~Ok(k)
    BY <2>2
  <2>4. Ok(0)
    BY <1>1, <1>3
  <2> HIDE DEF Ok
  <2>5. k \in 1..n /\ k - 1 \in 0..n /\ ~(k <= k - 1)
    BY <1>1, <2>3, <2>4
  <2>6. g[k - 1] \in Nat /\ (k - 1 >= i => g[k - 1] >= 1)
    BY <2>2, <2>5 DEF Ok
  <2>7. g[k] = g[k - 1] + Hits(texts[k]) /\ Hits(texts[k]) \in Nat
    BY <1>1, <1>2, <1>3, <2>5
  <2>8. k = i => Hits(texts[k]) >= 1
    BY <1>1, HitsAre
  <2>9. g[k] \in Nat /\ (k >= i => g[k] >= 1)
    <3>1. k \in Nat /\ i \in Nat
      BY <1>1, <2>5
    <3> QED BY <2>6, <2>7, <2>8, <3>1
  <2> QED BY <2>3, <2>9 DEF Ok
<1>5. Ok(n)
  <2>1. n \in 0..n
    BY <1>1
  <2> QED BY <1>4, <2>1
<1> QED BY <1>1, <1>3, <1>5

\* The name and the value of a field are texts, and so are both together.
LEMMA WholeIs ==
    ASSUME NEW x, IsField(x)
    PROVE  IsText(Whole(x)) /\ (Some(x.value) => Some(Whole(x)))
PROOF
<1>1. IsFiniteSet(Whole(x))
  BY FS_Union DEF IsField, IsText, Whole
<1>2. IsText(Whole(x))
  BY <1>1 DEF IsField, IsText, Whole
<1>3. Some(x.value) => Some(Whole(x))
  BY DEF Some, Whole
<1> QED BY <1>2, <1>3

\* ... and so does the whole if it is not parsed.
LEMMA RawIsSearched ==
    ASSUME NEW Fields, NEW fields \in Seq(Fields), \A x \in Fields : IsField(x)
    PROVE  /\ RawHits(fields) \in Nat
           /\ \A i \in DOMAIN fields : Some(Whole(fields[i])) => RawHits(fields) >= 1
PROOF
<1> DEFINE D == DOMAIN fields
           F == {Matched(Whole(fields[i])) : i \in D}
           U == UNION F
<1>1. IsFiniteSet(D)
  <2>1. D = 1..Len(fields) /\ Len(fields) \in Nat
    OBVIOUS
  <2> QED BY <2>1, FS_Interval
<1>2. \A i \in D : IsText(Whole(fields[i]))
  BY WholeIs
<1> HIDE DEF D
<1>3. IsFiniteSet(F)
  <2>1. [i \in D |-> Matched(Whole(fields[i]))] \in Surjection(D, F)
    BY DEF Surjection
  <2> QED BY <1>1, <2>1, FS_Surjection
<1>4. \A S \in F : IsFiniteSet(S)
  BY <1>2, HitsAre
<1>5. IsFiniteSet(U)
  BY <1>3, <1>4, FS_UNION
<1>6. RawHits(fields) = Cardinality(U) /\ Cardinality(U) \in Nat
  BY <1>5, FS_CardinalityType DEF RawHits, D
<1>7. ASSUME NEW i \in D, Some(Whole(fields[i])) PROVE Cardinality(U) >= 1
  <2>1. Matched(Whole(fields[i])) # {}
    BY <1>2, <1>7, HitsAre
  <2>2. U # {}
    BY <2>1
  <2>3. Cardinality(U) # 0
    BY <1>5, <2>2, FS_EmptySet
  <2> QED BY <1>6, <2>3
<1> HIDE DEF U
<1> QED BY <1>6, <1>7 DEF D

\* It is still there when the text is unescaped.
LEMMA UnescapedIs ==
    ASSUME NEW t, IsText(t)
    PROVE  IsText(Unescaped(t)) /\ (Some(t) => Some(Unescaped(t)))
PROOF
<1> DEFINE E(v) == [v EXCEPT !.enc = IF @ = 0 THEN 0 ELSE @ - 1]
           U == {E(v) : v \in t}
<1>1. Unescaped(t) = U
  BY DEF Unescaped
<1>2. ASSUME NEW v \in t
      PROVE  /\ E(v) = [pattern |-> v.pattern, enc |-> IF v.enc = 0 THEN 0 ELSE v.enc - 1]
             /\ v.enc \in Nat
  BY DEF IsText
<1>3. \A v \in t : /\ E(v) = [pattern |-> E(v).pattern, enc |-> E(v).enc]
                   /\ E(v).enc \in Nat /\ (v.enc <= 1 => E(v).enc <= 1)
  <2> TAKE v \in t
  <2> DEFINE e == IF v.enc = 0 THEN 0 ELSE v.enc - 1
  <2>1. e \in Nat /\ (v.enc <= 1 => e <= 1)
    <3>1. \A k \in Nat : (IF k = 0 THEN 0 ELSE k - 1) \in Nat
                         /\ (k <= 1 => (IF k = 0 THEN 0 ELSE k - 1) <= 1)
      OBVIOUS
    <3>2. v.enc \in Nat
      BY <1>2
    <3> QED BY <3>1, <3>2
  <2> HIDE DEF e
  <2>2. E(v) = [pattern |-> v.pattern, enc |-> e]
    BY <1>2 DEF e
  <2> HIDE DEF E
  <2> QED BY <2>1, <2>2
<1> HIDE DEF E
<1>4. IsFiniteSet(U)
  <2>1. [v \in t |-> E(v)] \in Surjection(t, U)
    BY DEF Surjection
  <2> QED BY <2>1, FS_Surjection DEF IsText
<1>5. IsText(U)
  BY <1>3, <1>4 DEF IsText
<1>6. Some(t) => Some(U)
  BY <1>3 DEF Some
<1> QED BY <1>1, <1>5, <1>6

\* What fits of a body is the first of its fields.
LEMMA FitsIs ==
    ASSUME MaxTexts \in Nat, NEW Fields, NEW body, body.fields \in Seq(Fields)
    PROVE  \E m \in 0..Len(body.fields) :
              /\ Fits(body) \in Seq(Fields) /\ Len(Fits(body)) = m /\ DOMAIN Fits(body) = 1..m
              /\ \A i \in 1..m : i \in DOMAIN body.fields /\ Fits(body)[i] = body.fields[i]
              /\ Parses(body) => m = Len(body.fields)
PROOF
<1> DEFINE s == body.fields
           n == Len(s)
           m == IF n < MaxTexts THEN n ELSE MaxTexts
           f == Fits(body)
<1>1. n \in Nat /\ DOMAIN s = 1..n /\ \A i \in 1..n : s[i] \in Fields
  OBVIOUS
<1>2. f = SubSeq(s, 1, m)
  BY DEF Fits
<1> HIDE DEF s, n, f
<1>3. m \in 0..n /\ m \in Nat /\ (n <= MaxTexts => m = n)
  BY <1>1
<1> HIDE DEF m
<1>4. \A i \in 1..m : i \in 1..n /\ 1 + i - 1 = i
  BY <1>1, <1>3
<1>5. /\ f \in Seq(Fields) /\ Len(f) = IF 1 <= m THEN m - 1 + 1 ELSE 0
      /\ \A i \in 1..(m - 1 + 1) : f[i] = s[1 + i - 1]
  <2>1. \A i \in 1..m : s[i] \in Fields
    BY <1>1, <1>4
  <2>2. 1 \in Int /\ m \in Int
    BY <1>3
  <2>3. /\ SubSeq(s, 1, m) \in Seq(Fields) /\ Len(SubSeq(s, 1, m)) = IF 1 <= m THEN m - 1 + 1 ELSE 0
        /\ \A i \in 1..(m - 1 + 1) : SubSeq(s, 1, m)[i] = s[1 + i - 1]
    BY <2>1, <2>2, SubSeqProperties
  <2> QED BY <1>2, <2>3
<1>6. m - 1 + 1 = m /\ (~(1 <= m) => m = 0)
  BY <1>3
<1>7. f \in Seq(Fields) /\ Len(f) = m /\ \A i \in 1..m : f[i] = s[i]
  BY <1>4, <1>5, <1>6
<1>8. DOMAIN f = 1..m
  BY <1>7
<1>9. Parses(body) => m = n
  BY <1>3 DEF Parses, n, s
<1> QED BY <1>1, <1>3, <1>4, <1>7, <1>8, <1>9 DEF s, n, f

\* Every value that fits of a body is searched, whatever the body's type and whether it
\* parses or not, and every name of what is not taken apart.
THEOREM BodiesAreSearched ==
    ASSUME MaxTexts \in Nat, NEW Fields, \A x \in Fields : IsField(x),
           NEW body, body.fields \in Seq(Fields)
    PROVE  WhatFitsIsScanned(body)
PROOF
<1> SUFFICES ASSUME body.type \in {"json", "xml", "form", "multipart"},
                    NEW i \in DOMAIN Fits(body),
                    \E w \in Searched(body, body.fields[i]) : w.enc <= 1
             PROVE  ScanBody(body) >= 1
  BY DEF WhatFitsIsScanned
<1> DEFINE f == Fits(body)
           s == body.fields
<1>1. PICK m \in 0..Len(s) :
         /\ f \in Seq(Fields) /\ Len(f) = m /\ DOMAIN f = 1..m
         /\ \A k \in 1..m : k \in DOMAIN s /\ f[k] = s[k]
         /\ Parses(body) => m = Len(s)
  BY FitsIs
<1>s. s \in Seq(Fields)
  OBVIOUS
<1>2. Some(Searched(body, s[i])) /\ i \in 1..m
  BY <1>1 DEF Some
<1>3. Searched(body, s[i]) = IF ReadByField(body) THEN s[i].value ELSE Whole(s[i])
  BY DEF Searched
<1> HIDE DEF f, s
<1>4. i \in DOMAIN f /\ i \in DOMAIN s /\ f[i] = s[i] /\ IsField(s[i])
  BY <1>1, <1>2, <1>s
<1>5. Some(Whole(f[i]))
  BY <1>2, <1>3, <1>4, WholeIs
<1>6. RawHits(f) \in Nat /\ RawHits(f) >= 1
  BY <1>1, <1>4, <1>5, RawIsSearched
<1>7. CASE body.type = "json"
  <2> DEFINE V == {x.value : x \in Fields}
             v == [k \in DOMAIN s |-> s[k].value]
  <2>1. ScanBody(body) = IF Parses(body) THEN TextHits(v) ELSE RawHits(f)
    BY <1>7 DEF ScanBody, f, s
  <2>2. CASE ~Parses(body)
    BY <1>6, <2>1, <2>2
  <2>3. CASE Parses(body)
    <3>1. \A t \in V : IsText(t)
      BY DEF IsField
    <3>2. v \in Seq(V) /\ DOMAIN v = DOMAIN s
      BY <1>s
    <3>3. v[i] = s[i].value
      BY <1>4
    <3>4. Some(v[i])
      BY <1>2, <1>3, <1>7, <2>3, <3>3 DEF ReadByField
    <3> HIDE DEF V, v
    <3>5. TextHits(v) >= 1
      BY <1>4, <3>1, <3>2, <3>4, TextsAreSearched
    <3> QED BY <2>1, <2>3, <3>5
  <2> QED BY <2>2, <2>3
<1>8. CASE body.type = "xml"
  <2>1. ScanBody(body) = RawHits(f) + IF body.doctype THEN 1 ELSE 0
    BY <1>8 DEF ScanBody, f
  <2> QED BY <1>6, <2>1
<1>9. CASE body.type \in {"form", "multipart"}
  <2> DEFINE U == {Unescaped(x.value) : x \in Fields}
             u == [k \in DOMAIN f |-> Unescaped(s[k].value)]
  <2>1. ScanBody(body) = IF body.wellFormed THEN TextHits(u) ELSE RawHits(f)
    BY <1>9 DEF ScanBody, f, s
  <2>2. CASE ~body.wellFormed
    BY <1>6, <2>1, <2>2
  <2>3. CASE body.wellFormed
    <3>1. \A t \in U : IsText(t)
      BY UnescapedIs DEF IsField
    <3>2. \A k \in 1..m : Unescaped(s[k].value) \in U
      BY <1>1, <1>s
    <3>3. u \in Seq(U) /\ DOMAIN u = DOMAIN f
      BY <1>1, <3>2
    <3>4. Some(s[i].value)
      BY <1>2, <1>3, <1>9, <2>3 DEF ReadByField
    <3>5. u[i] = Unescaped(s[i].value)
      BY <1>4
    <3>6. Some(u[i])
      BY <1>4, <3>4, <3>5, UnescapedIs DEF IsField
    <3> HIDE DEF U, u
    <3>7. TextHits(u) >= 1
      BY <1>4, <3>1, <3>3, <3>6, TextsAreSearched
    <3> QED BY <2>1, <2>3, <3>7
  <2> QED BY <2>2, <2>3
<1> QED BY <1>7, <1>8, <1>9

-----------------------------------------------------------------------------
(* Consistency: the ring of the latest requests. *)

\* The record of a place of the ring that was never written.
Blank == [path |-> "", method |-> "GET", status |-> 0]

\* Rings of n records in R.
Rings(n, R) == [buf : [1..n -> R], head : 1..n, full : BOOLEAN]

\* A ring with another record is a ring.
LEMMA AppendIsRing ==
    ASSUME NEW n \in Nat \ {0}, NEW R, NEW r \in Rings(n, R), NEW x \in R
    PROVE  AppendRecord(r, x) \in Rings(n, R)
PROOF
<1>1. r.buf \in [1..n -> R] /\ r.head \in 1..n /\ r.full \in BOOLEAN
  BY DEF Rings
<1>2. r.buf \in Seq(R) /\ Len(r.buf) = n
  BY <1>1
<1>3. [r.buf EXCEPT ![r.head] = x] \in [1..n -> R]
  BY <1>1
<1>4. (r.head % n) + 1 \in 1..n
  BY <1>1
<1>5. (r.full \/ r.head = Len(r.buf)) \in BOOLEAN
  OBVIOUS
<1> QED BY <1>2, <1>3, <1>4, <1>5 DEF AppendRecord, Rings

\* The ring after some records.
RingOf(new, recs) == FoldLeft(AppendRecord, new, recs)

\* The rings after each record.
LEMMA RingSteps ==
    ASSUME NEW n \in Nat \ {0}, NEW R, NEW new \in Rings(n, R), NEW recs \in Seq(R)
    PROVE  \E g : /\ g[0] = new
                  /\ \A k \in 1..Len(recs) : g[k] = AppendRecord(g[k - 1], recs[k])
                  /\ RingOf(new, recs) = g[Len(recs)]
                  /\ \A k \in 0..Len(recs) : g[k] \in Rings(n, R)
PROOF
<1> DEFINE V == Rings(n, R)
           st == [x \in V \X R |-> AppendRecord(x[1], x[2])]
           IsIt(it) == it = [t \in SUBSET DOMAIN recs |-> IF t = {} THEN new
                                    ELSE AppendRecord(it[t \ {Max(t)}], recs[Max(t)])]
           p == CHOOSE it : IsIt(it)
<1>1. RingOf(new, recs) = p[DOMAIN recs]
  BY DEF RingOf, FoldLeft, MapThenFoldSet
<1>2. st \in [V \X R -> V] /\ new \in V
  BY AppendIsRing
<1>3. \A v \in V, x \in R : st[<<v, x>>] = AppendRecord(v, x)
  OBVIOUS
<1> HIDE DEF V, st
<1>4. \E it : FoldsTo(it, st, new, recs, V, R)
  BY <1>2, FoldValues
<1>5. \A it : FoldsTo(it, st, new, recs, V, R) => IsIt(it)
  BY <1>3 DEF FoldsTo
<1>6. IsIt(p)
  BY <1>4, <1>5
<1> HIDE DEF p
<1>7. StepsTo(p, st, new, recs, V)
  <2> SUFFICES ASSUME NEW t \in SUBSET DOMAIN recs, t # {} => p[t \ {Max(t)}] \in V
               PROVE  p[t] = IF t = {} THEN new ELSE st[<<p[t \ {Max(t)}], recs[Max(t)]>>]
    BY DEF StepsTo
  <2>1. t # {} => recs[Max(t)] \in R
    BY PlaceOf
  <2> QED BY <1>3, <1>6, <2>1
<1>a. Reaches(p, st, new, recs, V)
  <2>1. IsStep(st, new, recs, V, R)
    BY <1>2 DEF IsStep
  <2> QED BY <1>7, <2>1, FoldRuns
<1>8. PICK g : Runs(g, st, new, recs, V) /\ p[DOMAIN recs] = g[Len(recs)]
  BY <1>a DEF Reaches
<1>9. \A k \in 1..Len(recs) : recs[k] \in R /\ k - 1 \in 0..Len(recs)
  BY PrefixesOf
<1>10. \A k \in 1..Len(recs) : g[k] = AppendRecord(g[k - 1], recs[k])
  BY <1>3, <1>8, <1>9 DEF Runs
<1> QED BY <1>1, <1>8, <1>10 DEF Runs, V

\* After k records the ring holds the latest n, from the head on if it is full.
Held(r, n, recs, k) ==
    /\ r.full <=> k >= n
    /\ ~r.full => r.head = k + 1 /\ \A j \in 1..k : r.buf[j] = recs[j]
    /\ r.full => /\ \A j \in 1..(n - r.head + 1) : r.buf[r.head + j - 1] = recs[k - n + j]
                 /\ \A j \in 1..(r.head - 1) : r.buf[j] = recs[k - (r.head - 1) + j]

\* The head wraps around.
LEMMA RingHead ==
    ASSUME NEW n \in Nat \ {0}, NEW h \in 1..n
    PROVE  (h % n) + 1 = IF h = n THEN 1 ELSE h + 1
PROOF
<1>1. CASE h = n
  <2>1. n % n = 0
    OBVIOUS
  <2> QED BY <1>1, <2>1
<1>2. CASE h # n
  <2>1. h \in Nat /\ h < n
    BY <1>2
  <2>2. h % n = h
    BY <2>1
  <2> QED BY <1>2, <2>1, <2>2
<1> QED BY <1>1, <1>2

\* The next record keeps it so.
LEMMA StaysHeld ==
    ASSUME NEW n \in Nat \ {0}, NEW R, NEW recs \in Seq(R), NEW k \in 1..Len(recs),
           NEW r \in Rings(n, R), Held(r, n, recs, k - 1)
    PROVE  Held(AppendRecord(r, recs[k]), n, recs, k)
PROOF
<1> DEFINE s == AppendRecord(r, recs[k])
           h == r.head
           m == s.head
<1>1. r.buf \in [1..n -> R] /\ h \in 1..n /\ r.full \in BOOLEAN
  BY DEF Rings
<1>2. Len(r.buf) = n
  BY <1>1
<1>3. /\ s.buf = [r.buf EXCEPT ![h] = recs[k]] /\ m = (h % n) + 1
      /\ s.full = (r.full \/ h = n)
  BY <1>2 DEF AppendRecord
<1>4. m = IF h = n THEN 1 ELSE h + 1
  <2> HIDE DEF h, m
  <2> QED BY <1>1, <1>3, RingHead
<1>5. \A i \in 1..n : s.buf[i] = IF i = h THEN recs[k] ELSE r.buf[i]
  BY <1>1, <1>3
<1>6. k \in Nat /\ k >= 1 /\ k <= Len(recs)
  BY LenProperties
<1>7. /\ r.full <=> k - 1 >= n
      /\ ~r.full => h = k /\ \A j \in 1..(k - 1) : r.buf[j] = recs[j]
      /\ r.full => /\ \A j \in 1..(n - h + 1) : r.buf[h + j - 1] = recs[k - 1 - n + j]
                   /\ \A j \in 1..(h - 1) : r.buf[j] = recs[k - 1 - (h - 1) + j]
  <2>1. k - 1 + 1 = k
    BY <1>6
  <2> QED BY <2>1 DEF Held
<1> HIDE DEF s, h, m
<1>8. s.full <=> k >= n
  <2>1. s.full <=> r.full \/ h = n
    BY <1>1, <1>3
  <2>2. (k - 1 >= n => k >= n) /\ (k = n => k >= n) /\ (k >= n /\ ~(k - 1 >= n) => k = n)
    BY <1>6
  <2>3. CASE r.full
    <3>1. k >= n
      BY <2>3, <2>2, <1>7
    <3> QED BY <3>1, <2>1, <2>3
  <2>4. CASE ~r.full
    <3>1. h = k /\ ~(k - 1 >= n)
      BY <2>4, <1>7
    <3>2. h = n <=> k >= n
      BY <3>1, <2>2
    <3> QED BY <3>2, <2>1, <2>4
  <2> QED BY <2>3, <2>4
<1>9. ASSUME ~s.full PROVE m = k + 1 /\ \A j \in 1..k : s.buf[j] = recs[j]
  <2>1. ~r.full /\ h # n /\ h = k /\ m = k + 1
    BY <1>9, <1>3, <1>4, <1>7
  <2>2. ASSUME NEW j \in 1..k PROVE s.buf[j] = recs[j]
    <3>1. j \in 1..n
      BY <2>1, <1>1, <1>6
    <3>2. CASE j = k
      BY <3>1, <3>2, <1>5, <2>1
    <3>3. CASE j # k
      <4>1. j \in 1..(k - 1)
        BY <3>3, <1>6
      <4> QED BY <4>1, <3>1, <3>3, <1>5, <1>7, <2>1
    <3> QED BY <3>2, <3>3
  <2> QED BY <2>1, <2>2
<1>10. ASSUME s.full, NEW j \in 1..(n - m + 1) PROVE s.buf[m + j - 1] = recs[k - n + j]
  <2>1. m \in 1..n /\ j \in Nat /\ j >= 1 /\ j <= n - m + 1
    BY <1>1, <1>4
  <2>2. m + j - 1 \in 1..n
    BY <2>1
  <2>3. CASE ~r.full
    <3>1. h = n /\ h = k /\ m = 1
      BY <1>10, <1>3, <1>4, <1>7, <2>3
    <3>2. m + j - 1 = j /\ k - n + j = j /\ j \in 1..n
      BY <3>1, <2>1, <1>6
    <3>3. CASE j = k
      BY <3>1, <3>2, <3>3, <1>5
    <3>4. CASE j # k
      <4>1. j \in 1..(k - 1)
        BY <3>4, <3>1, <3>2, <1>6
      <4> QED BY <4>1, <3>1, <3>2, <3>4, <1>5, <1>7, <2>3
    <3> QED BY <3>2, <3>3, <3>4
  <2>4. CASE r.full /\ h = n
    <3>1. m = 1 /\ m + j - 1 = j /\ j \in 1..n
      BY <2>4, <1>4, <2>1
    <3>2. CASE j = n
      <4>1. k - n + j = k
        BY <3>2, <1>6
      <4> QED BY <4>1, <3>1, <3>2, <1>5, <2>4
    <3>3. CASE j # n
      <4>1. j \in 1..(h - 1) /\ k - 1 - (h - 1) + j = k - n + j
        BY <3>1, <3>3, <2>4, <1>6
      <4>2. r.buf[j] = recs[k - 1 - (h - 1) + j]
        BY <4>1, <1>7, <2>4
      <4> QED BY <4>1, <4>2, <3>1, <3>3, <1>5, <2>4
    <3> QED BY <3>2, <3>3
  <2>5. CASE r.full /\ h # n
    <3>1. m = h + 1
      BY <2>5, <1>4
    <3>2. /\ j + 1 \in 1..(n - h + 1) /\ h + (j + 1) - 1 = m + j - 1 /\ m + j - 1 # h
          /\ k - 1 - n + (j + 1) = k - n + j
      <4>1. h \in Nat /\ n \in Nat
        BY <1>1
      <4> QED BY <4>1, <3>1, <2>1, <1>6
    <3>3. r.buf[h + (j + 1) - 1] = recs[k - 1 - n + (j + 1)]
      BY <3>2, <1>7, <2>5
    <3> QED BY <3>2, <3>3, <2>2, <1>5
  <2> QED BY <2>3, <2>4, <2>5, <1>1
<1>11. ASSUME s.full, NEW j \in 1..(m - 1) PROVE s.buf[j] = recs[k - (m - 1) + j]
  <2>1. h # n /\ m = h + 1 /\ j \in 1..h /\ j \in 1..n
    BY <1>1, <1>4
  <2>2. r.full
    BY <1>11, <2>1, <1>3
  <2>3. CASE j = h
    <3>1. k - (m - 1) + j = k
      BY <2>1, <2>3, <1>6, <1>1
    <3> QED BY <3>1, <2>1, <2>3, <1>5
  <2>4. CASE j # h
    <3>1. j \in 1..(h - 1) /\ k - 1 - (h - 1) + j = k - (m - 1) + j
      BY <2>1, <2>4, <1>1, <1>6
    <3>2. r.buf[j] = recs[k - 1 - (h - 1) + j]
      BY <3>1, <2>2, <1>7
    <3> QED BY <3>1, <3>2, <2>1, <2>4, <1>5
  <2> QED BY <2>3, <2>4
<1>12. Held(s, n, recs, k)
  BY <1>8, <1>9, <1>10, <1>11 DEF Held, m
<1> QED BY <1>12 DEF s

\* What is read from the ring.
LEMMA ReadsHeld ==
    ASSUME NEW n \in Nat \ {0}, NEW R, NEW recs \in Seq(R),
           NEW r \in Rings(n, R), Held(r, n, recs, Len(recs))
    PROVE  AllRecords(r) = SubSeq(recs, IF Len(recs) > n THEN Len(recs) - n + 1 ELSE 1, Len(recs))
PROOF
<1> DEFINE k == Len(recs)
           h == r.head
           from == IF k > n THEN k - n + 1 ELSE 1
           latest == SubSeq(recs, from, k)
           newest == SubSeq(r.buf, 1, h - 1)
           oldest == SubSeq(r.buf, h, n)
<1>1. r.buf \in [1..n -> R] /\ h \in 1..n /\ r.full \in BOOLEAN /\ Len(r.buf) = n
  BY DEF Rings
<1>2. k \in Nat /\ \A i \in 1..k : recs[i] \in R
  OBVIOUS
<1>3. /\ r.full <=> k >= n
      /\ ~r.full => h = k + 1 /\ \A j \in 1..k : r.buf[j] = recs[j]
      /\ r.full => /\ \A j \in 1..(n - h + 1) : r.buf[h + j - 1] = recs[k - n + j]
                   /\ \A j \in 1..(h - 1) : r.buf[j] = recs[k - (h - 1) + j]
  BY DEF Held
<1>4. AllRecords(r) = IF r.full THEN oldest \o newest ELSE newest
  BY <1>1 DEF AllRecords
<1> HIDE DEF k, h
<1>5. /\ newest \in Seq(R) /\ Len(newest) = h - 1
      /\ \A i \in 1..(h - 1) : newest[i] = r.buf[i]
  <2>1. \A i \in 1..(h - 1) : r.buf[i] \in R /\ 1 + i - 1 = i
    BY <1>1
  <2>2. /\ newest \in Seq(R) /\ Len(newest) = IF 1 <= h - 1 THEN (h - 1) - 1 + 1 ELSE 0
        /\ \A i \in 1..((h - 1) - 1 + 1) : newest[i] = r.buf[1 + i - 1]
    BY <1>1, <2>1, SubSeqProperties
  <2>3. (h - 1) - 1 + 1 = h - 1 /\ (~(1 <= h - 1) => h - 1 = 0)
    BY <1>1
  <2> HIDE DEF newest
  <2> QED BY <2>1, <2>2, <2>3
<1>6. /\ oldest \in Seq(R) /\ Len(oldest) = n - h + 1
      /\ \A i \in 1..(n - h + 1) : oldest[i] = r.buf[h + i - 1]
  <2>1. \A i \in h..n : r.buf[i] \in R
    BY <1>1
  <2>2. h <= n /\ h \in Int /\ n \in Int
    BY <1>1
  <2> QED BY <2>1, <2>2, SubSeqProperties
<1>7. /\ from \in Nat /\ from >= 1 /\ from <= k + 1
      /\ (r.full => from = k - n + 1) /\ (~r.full => from = 1)
  BY <1>2, <1>3
<1>8. /\ latest \in Seq(R) /\ Len(latest) = k - from + 1
      /\ \A i \in 1..(k - from + 1) : latest[i] = recs[from + i - 1]
  <2> HIDE DEF from
  <2>1. \A i \in from..k : recs[i] \in R
    BY <1>2, <1>7
  <2>2. /\ latest \in Seq(R) /\ Len(latest) = IF from <= k THEN k - from + 1 ELSE 0
        /\ \A i \in 1..(k - from + 1) : latest[i] = recs[from + i - 1]
    BY <1>2, <1>7, <2>1, SubSeqProperties
  <2>3. (IF from <= k THEN k - from + 1 ELSE 0) = k - from + 1
    BY <1>2, <1>7
  <2> HIDE DEF latest
  <2> QED BY <2>2, <2>3
<1> HIDE DEF newest, oldest, from, latest
<1>9. CASE ~r.full
  <2>1. Len(newest) = Len(latest)
    BY <1>2, <1>3, <1>5, <1>7, <1>8, <1>9
  <2>2. ASSUME NEW i \in 1..Len(newest) PROVE newest[i] = latest[i]
    <3>1. i \in 1..k /\ i \in 1..(h - 1) /\ i \in 1..(k - from + 1) /\ from + i - 1 = i
      BY <1>2, <1>3, <1>5, <1>7, <1>9
    <3> QED BY <3>1, <1>3, <1>5, <1>8, <1>9
  <2>3. newest = latest
    BY <2>1, <2>2, <1>5, <1>8, SeqEqual
  <2> QED BY <2>3, <1>4, <1>9 DEF latest, from, k
<1>10. CASE r.full
  <2> DEFINE both == oldest \o newest
  <2>1. /\ both \in Seq(R) /\ Len(both) = Len(oldest) + Len(newest)
        /\ \A i \in 1..(Len(oldest) + Len(newest)) :
              both[i] = IF i <= Len(oldest) THEN oldest[i] ELSE newest[i - Len(oldest)]
    BY <1>5, <1>6, ConcatProperties
  <2> HIDE DEF both
  <2>2. Len(oldest) + Len(newest) = n /\ Len(latest) = n
    BY <1>1, <1>2, <1>5, <1>6, <1>7, <1>8, <1>10
  <2>3. ASSUME NEW i \in 1..n PROVE both[i] = latest[i]
    <3>1. i \in Nat /\ i >= 1 /\ i <= n
      OBVIOUS
    <3>2. latest[i] = recs[k - n + i]
      <4>1. i \in 1..(k - from + 1) /\ from + i - 1 = k - n + i
        BY <3>1, <1>2, <1>7, <1>10
      <4> QED BY <4>1, <1>8
    <3>3. CASE i <= n - h + 1
      <4>1. i \in 1..(n - h + 1)
        BY <3>1, <3>3, <1>1
      <4>2. both[i] = oldest[i]
        BY <2>1, <2>2, <1>6, <3>3
      <4>3. r.buf[h + i - 1] = recs[k - n + i]
        BY <4>1, <1>3, <1>10
      <4> QED BY <4>1, <4>2, <4>3, <1>6, <3>2
    <3>4. CASE ~(i <= n - h + 1)
      <4> DEFINE j == i - (n - h + 1)
      <4>1. j \in 1..(h - 1) /\ k - (h - 1) + j = k - n + i
        BY <3>1, <3>4, <1>1, <1>2
      <4>2. both[i] = newest[j]
        BY <2>1, <2>2, <1>6, <3>4
      <4> HIDE DEF j
      <4>3. newest[j] = r.buf[j] /\ r.buf[j] = recs[k - (h - 1) + j]
        BY <4>1, <1>3, <1>5, <1>10
      <4> QED BY <4>1, <4>2, <4>3, <3>2
    <3> QED BY <3>3, <3>4
  <2>4. both = latest
    BY <2>1, <2>2, <2>3, <1>8, SeqEqual
  <2> QED BY <2>4, <1>4, <1>10 DEF both, latest, from, k
<1> QED BY <1>1, <1>9, <1>10

\* The ring of an address yields its latest requests, as many as fit, in their order.
THEOREM RingsKeepLatest ==
    ASSUME NEW capacity \in Nat \ {0}, NEW R, NEW recs \in Seq(R)
    PROVE  RingKeepsLatest(capacity, recs)
PROOF
<1> DEFINE S == R \cup {Blank}
           new == NewRing(capacity)
           k == Len(recs)
<1>1. recs \in Seq(S) /\ k \in Nat
  OBVIOUS
<1>2. new = [buf |-> [i \in 1..capacity |-> Blank], head |-> 1, full |-> FALSE]
  <2>1. (IF capacity <= 0 THEN DefaultThresholds.ringCapacity ELSE capacity) = capacity
    OBVIOUS
  <2> QED BY <2>1 DEF NewRing, Blank
<1>3. new \in Rings(capacity, S)
  BY <1>2 DEF Rings
<1>4. Held(new, capacity, recs, 0)
  BY <1>2 DEF Held
<1> HIDE DEF new, S, k
<1>5. PICK g : /\ g[0] = new
               /\ \A i \in 1..k : g[i] = AppendRecord(g[i - 1], recs[i])
               /\ RingOf(new, recs) = g[k]
  BY <1>1, <1>3, RingSteps DEF k
<1> DEFINE Ok(i) == g[i] \in Rings(capacity, S) /\ Held(g[i], capacity, recs, i)
           Bad == {i \in 0..k : ~Ok(i)}
<1>6. Bad = {}
  <2> SUFFICES ASSUME Bad # {} PROVE FALSE
    OBVIOUS
  <2>1. Bad \in SUBSET Nat
    BY <1>1
  <2>2. PICK i \in Bad : \A j \in Bad : i <= j
    <3> HIDE DEF Bad
    <3> QED BY <2>1, LeastOf
  <2>3. i \in 0..k /\ ~Ok(i)
    BY <2>2
  <2>4. Ok(0)
    BY <1>3, <1>4, <1>5
  <2> HIDE DEF Ok
  <2>5. i \in 1..k /\ i - 1 \in 0..k /\ ~(i <= i - 1)
    BY <1>1, <2>3, <2>4
  <2>6. Ok(i - 1)
    BY <2>2, <2>5
  <2>7. i \in 1..Len(recs) /\ recs[i] \in S /\ g[i] = AppendRecord(g[i - 1], recs[i])
    BY <1>1, <1>5, <2>5 DEF k
  <2>8. g[i - 1] \in Rings(capacity, S) /\ Held(g[i - 1], capacity, recs, i - 1)
    BY <2>6 DEF Ok
  <2>9. Ok(i)
    BY <1>1, <2>7, <2>8, AppendIsRing, StaysHeld DEF Ok
  <2> QED BY <2>3, <2>9
<1>7. g[k] \in Rings(capacity, S) /\ Held(g[k], capacity, recs, k)
  <2>1. k \in 0..k
    BY <1>1
  <2> QED BY <2>1, <1>6
<1>8. Max({1, k - capacity + 1}) = IF k > capacity THEN k - capacity + 1 ELSE 1
  BY <1>1 DEF Max
<1>9. AllRecords(g[k]) = SubSeq(recs, IF k > capacity THEN k - capacity + 1 ELSE 1, k)
  BY <1>1, <1>7, ReadsHeld DEF k
<1> QED BY <1>5, <1>8, <1>9 DEF RingKeepsLatest, RingOf, new, k

-----------------------------------------------------------------------------
(* Consistency: the paths that are asked for most. *)

\* The most requested of the paths that are not among those before.
WithNext(recs, before) ==
    LET count == [p \in PathsOf(recs) |-> CountOf(recs, p)]
        most(ps) == {p \in ps : \A q \in ps : count[p] >= count[q]}
        rest == DOMAIN count \ before
    IN  before \cup IF rest = {} THEN {} ELSE {CHOOSE p \in most(rest) : TRUE}

\* Five times the next: TopK(recs, 5).
LEMMA TopFiveIs ==
    ASSUME NEW recs
    PROVE  TopK(recs, 5) =
              WithNext(recs, WithNext(recs, WithNext(recs, WithNext(recs, WithNext(recs, {})))))
PROOF
<1> DEFINE count == [p \in PathsOf(recs) |-> CountOf(recs, p)]
           most(ps) == {p \in ps : \A q \in ps : count[p] >= count[q]}
           N(before) == before \cup IF DOMAIN count \ before = {} THEN {}
                                    ELSE {CHOOSE p \in most(DOMAIN count \ before) : TRUE}
           t == [n \in 0..5 |-> IF n = 0 THEN {} ELSE IF n = 1 THEN N({})
                   ELSE IF n = 2 THEN N(N({})) ELSE IF n = 3 THEN N(N(N({})))
                   ELSE IF n = 4 THEN N(N(N(N({})))) ELSE N(N(N(N(N({}))))) ]
           top == CHOOSE f : f = [n \in 0..5 |-> IF n = 0 THEN {} ELSE N(f[n - 1])]
<1>1. \A before : N(before) = WithNext(recs, before)
  BY DEF WithNext
<1>2. TopK(recs, 5) = top[5]
  BY DEF TopK
<1> HIDE DEF N
<1>3. t = [n \in 0..5 |-> IF n = 0 THEN {} ELSE N(t[n - 1])]
  <2>1. \A n \in 0..5 : t[n] = IF n = 0 THEN {} ELSE N(t[n - 1])
    OBVIOUS
  <2> HIDE DEF t
  <2>2. t = [n \in 0..5 |-> t[n]]
    BY DEF t
  <2> QED BY <2>1, <2>2
<1> HIDE DEF t
<1>4. top = [n \in 0..5 |-> IF n = 0 THEN {} ELSE N(top[n - 1])]
  BY <1>3
<1> HIDE DEF top
<1>5. top[0] = {} /\ top[1] = N(top[0]) /\ top[2] = N(top[1]) /\ top[3] = N(top[2])
      /\ top[4] = N(top[3]) /\ top[5] = N(top[4])
  <2>1. \A n \in 0..5 : top[n] = IF n = 0 THEN {} ELSE N(top[n - 1])
    BY <1>4
  <2> QED BY <2>1
<1> QED BY <1>1, <1>2, <1>5

\* The records of an address are finitely many.
LEMMA RecordsAre ==
    ASSUME NEW R, NEW recs \in Seq(R)
    PROVE  /\ Len(recs) \in Nat /\ DOMAIN recs = 1..Len(recs)
           /\ IsFiniteSet(DOMAIN recs) /\ Cardinality(DOMAIN recs) = Len(recs)
           /\ IsFiniteSet(PathsOf(recs))
           /\ \A S \in SUBSET DOMAIN recs :
                 IsFiniteSet(S) /\ Cardinality(S) \in Nat /\ Cardinality(S) <= Len(recs)
PROOF
<1>1. Len(recs) \in Nat /\ DOMAIN recs = 1..Len(recs)
  OBVIOUS
<1>2. IsFiniteSet(DOMAIN recs) /\ Cardinality(DOMAIN recs) = Len(recs)
  BY <1>1, FS_Interval
<1>3. IsFiniteSet(PathsOf(recs))
  <2> DEFINE f == [i \in DOMAIN recs |-> recs[i].path]
  <2>1. PathsOf(recs) = {f[i] : i \in DOMAIN recs}
    BY DEF PathsOf
  <2>2. DOMAIN f = DOMAIN recs
    OBVIOUS
  <2> HIDE DEF f
  <2> QED BY <1>2, <2>1, <2>2, ImageFinite
<1>4. \A S \in SUBSET DOMAIN recs :
         IsFiniteSet(S) /\ Cardinality(S) \in Nat /\ Cardinality(S) <= Len(recs)
  BY <1>2, FS_Subset, FS_CardinalityType
<1> QED BY <1>1, <1>2, <1>3, <1>4

\* How often a path is requested.
LEMMA CountOfIs ==
    ASSUME NEW R, NEW recs \in Seq(R), NEW p
    PROVE  /\ CountOf(recs, p) = Cardinality({i \in DOMAIN recs : recs[i].path = p})
           /\ CountOf(recs, p) \in Nat /\ CountOf(recs, p) <= Len(recs)
PROOF
<1>1. CountOf(recs, p) = Cardinality({i \in DOMAIN recs : recs[i].path = p})
  BY DEF CountOf, CountBy
<1> QED BY <1>1, RecordsAre

\* One of some paths is requested most.
LEMMA MostRequested ==
    ASSUME NEW R, NEW recs \in Seq(R), NEW ps, ps # {}
    PROVE  \E p \in ps : \A q \in ps : CountOf(recs, p) >= CountOf(recs, q)
PROOF
<1> DEFINE left(p) == Len(recs) - CountOf(recs, p)
           Lefts == {left(p) : p \in ps}
<1>1. \A p \in ps : left(p) \in Nat
  <2> SUFFICES ASSUME NEW p \in ps PROVE Len(recs) - CountOf(recs, p) \in Nat
    OBVIOUS
  <2>1. Len(recs) \in Nat
    OBVIOUS
  <2>2. CountOf(recs, p) \in Nat /\ CountOf(recs, p) <= Len(recs)
    BY CountOfIs
  <2> QED BY <2>1, <2>2
<1>2. Lefts \subseteq Nat /\ Lefts # {}
  BY <1>1
<1> HIDE DEF Lefts
<1>3. \A x, y \in Nat : x < y => <<x, y>> \in OpToRel(<, Nat)
  BY DEF OpToRel
<1>4. \E x \in Lefts : \A y \in Lefts : ~(<<y, x>> \in OpToRel(<, Nat))
  BY <1>2, NatLessThanWellFounded, WFMin
<1>5. PICK x \in Lefts : \A y \in Lefts : ~(y < x)
  BY <1>2, <1>3, <1>4
<1>6. PICK p \in ps : x = left(p)
  BY DEF Lefts
<1>7. \A q \in ps : ~(left(q) < left(p))
  BY <1>5, <1>6 DEF Lefts
<1>8. \A q \in ps : CountOf(recs, q) \in Nat
  BY CountOfIs
<1>9. Len(recs) \in Nat
  BY RecordsAre
<1> QED BY <1>7, <1>8, <1>9

\* The next path, if any is left, is a most requested one of the rest.
LEMMA NextIs ==
    ASSUME NEW R, NEW recs \in Seq(R), NEW before \in SUBSET PathsOf(recs)
    PROVE  /\ WithNext(recs, before) \in SUBSET PathsOf(recs)
           /\ Cardinality(before) \in Nat /\ Cardinality(WithNext(recs, before)) \in Nat
           /\ Cardinality(WithNext(recs, before)) <= Cardinality(before) + 1
           /\ before \subseteq WithNext(recs, before)
           /\ PathsOf(recs) \ before # {} =>
                 \E p \in WithNext(recs, before) : \A q \in PathsOf(recs) \ before :
                    CountOf(recs, p) >= CountOf(recs, q)
PROOF
<1> DEFINE rest == PathsOf(recs) \ before
           best == {p \in rest : \A q \in rest : CountOf(recs, p) >= CountOf(recs, q)}
           next == CHOOSE p \in best : TRUE
<1>1. IsFiniteSet(before) /\ Cardinality(before) \in Nat
  BY RecordsAre, FS_Subset, FS_CardinalityType
<1>2. CASE rest = {}
  <2>1. WithNext(recs, before) = before
    BY <1>2 DEF WithNext
  <2> QED BY <1>1, <1>2, <2>1
<1>3. CASE rest # {}
  <2>1. best # {}
    BY <1>3, MostRequested
  <2>2. next \in best
    BY <2>1
  <2>3. WithNext(recs, before) = before \cup {next}
    <3> DEFINE count == [p \in PathsOf(recs) |-> CountOf(recs, p)]
               most(ps) == {p \in ps : \A q \in ps : count[p] >= count[q]}
    <3>1. DOMAIN count \ before = rest
      OBVIOUS
    <3>2. most(rest) = best
      OBVIOUS
    <3>3. WithNext(recs, before) = before \cup IF DOMAIN count \ before = {} THEN {}
                                     ELSE {CHOOSE p \in most(DOMAIN count \ before) : TRUE}
      BY DEF WithNext
    <3> HIDE DEF count, most, best, rest
    <3> QED BY <1>3, <3>1, <3>2, <3>3
  <2> HIDE DEF next
  <2>4. /\ Cardinality(before \cup {next}) \in Nat
        /\ Cardinality(before \cup {next}) <= Cardinality(before) + 1
    <3>1. /\ IsFiniteSet(before \cup {next})
          /\ Cardinality(before \cup {next}) =
                IF next \in before THEN Cardinality(before) ELSE Cardinality(before) + 1
      BY <1>1, FS_AddElement
    <3> QED BY <1>1, <3>1
  <2> QED BY <1>1, <2>2, <2>3, <2>4
<1> QED BY <1>2, <1>3

\* The five are paths of the records, and the most requested path is one of them.
LEMMA TopFive ==
    ASSUME NEW R, NEW recs \in Seq(R)
    PROVE  /\ TopK(recs, 5) \in SUBSET PathsOf(recs)
           /\ Cardinality(TopK(recs, 5)) \in Nat /\ Cardinality(TopK(recs, 5)) <= 5
           /\ PathsOf(recs) # {} =>
                 \E p \in TopK(recs, 5) : \A q \in PathsOf(recs) :
                    CountOf(recs, p) >= CountOf(recs, q)
PROOF
<1> DEFINE a == WithNext(recs, {})
           b == WithNext(recs, a)
           c == WithNext(recs, b)
           d == WithNext(recs, c)
           e == WithNext(recs, d)
<1>1. Cardinality({}) = 0 /\ {} \in SUBSET PathsOf(recs)
  BY FS_EmptySet
<1>2. /\ a \in SUBSET PathsOf(recs) /\ Cardinality(a) \in Nat /\ Cardinality(a) <= 1
      /\ PathsOf(recs) # {} =>
            \E p \in a : \A q \in PathsOf(recs) : CountOf(recs, p) >= CountOf(recs, q)
  <2>1. PathsOf(recs) \ {} = PathsOf(recs)
    OBVIOUS
  <2>2. /\ a \in SUBSET PathsOf(recs) /\ Cardinality(a) \in Nat
        /\ Cardinality(a) <= Cardinality({}) + 1
    BY <1>1, NextIs
  <2>3. PathsOf(recs) \ {} # {} =>
            \E p \in a : \A q \in PathsOf(recs) \ {} : CountOf(recs, p) >= CountOf(recs, q)
    BY <1>1, NextIs
  <2> QED BY <1>1, <2>1, <2>2, <2>3
<1> HIDE DEF a
<1>3. /\ b \in SUBSET PathsOf(recs) /\ Cardinality(b) \in Nat /\ a \subseteq b
      /\ Cardinality(b) <= Cardinality(a) + 1
  BY <1>2, NextIs
<1> HIDE DEF b
<1>4. /\ c \in SUBSET PathsOf(recs) /\ Cardinality(c) \in Nat /\ b \subseteq c
      /\ Cardinality(c) <= Cardinality(b) + 1
  BY <1>3, NextIs
<1> HIDE DEF c
<1>5. /\ d \in SUBSET PathsOf(recs) /\ Cardinality(d) \in Nat /\ c \subseteq d
      /\ Cardinality(d) <= Cardinality(c) + 1
  BY <1>4, NextIs
<1> HIDE DEF d
<1>6. /\ e \in SUBSET PathsOf(recs) /\ Cardinality(e) \in Nat /\ d \subseteq e
      /\ Cardinality(e) <= Cardinality(d) + 1
  BY <1>5, NextIs
<1> HIDE DEF e
<1>7. TopK(recs, 5) = e
  BY TopFiveIs DEF a, b, c, d, e
<1>8. Cardinality(e) <= 5
  BY <1>2, <1>3, <1>4, <1>5, <1>6
<1>9. a \subseteq e
  BY <1>3, <1>4, <1>5, <1>6
<1> QED BY <1>2, <1>6, <1>7, <1>8, <1>9
-----------------------------------------------------------------------------
(* Who is not taken for a user, for any requests. *)

\* All the points that may speak for an address.
Weights5 == T.weightPrefix + T.weightNovelty + T.weightPathConc + T.weightErrors + T.weightMethod

\* What the code needs of the thresholds.  A configuration may set others.
ThresholdsAreCounts ==
    /\ T.weightPrefix \in Nat /\ T.weightNovelty \in Nat /\ T.weightPathConc \in Nat
    /\ T.weightErrors \in Nat /\ T.weightMethod \in Nat
    /\ T.alwaysErrorPenalty \in Nat /\ T.singlePathErrorBonus \in Nat
    /\ T.novelPenalty \in Nat /\ T.scoreThreshold \in Nat

\* The penalty for errors outweighs all that may speak for an address, ...
WallsWeigh ==
    /\ ThresholdsAreCounts
    /\ T.alwaysErrorDynamicMin \in Nat /\ T.alwaysErrorDynamicMin <= 5
    /\ Weights5 < T.scoreThreshold + T.alwaysErrorPenalty

\* ... that for novelty all but the convergence, and twenty requests tell what is new.
ScansWeigh ==
    /\ ThresholdsAreCounts
    /\ T.minSamples \in Nat /\ T.minSamples >= 20
    /\ T.noveltyEarly30Min \in Nat /\ T.noveltyEarly30Min > 33333
    /\ T.novelEarlyMax \in Nat /\ T.novelEarlyMax > 33333
    /\ T.novelLateMin \in Nat /\ T.novelLateMin < 100000
    /\ T.novelCoverMax \in Nat /\ T.novelCoverMax > 25000
    /\ Weights5 < T.scoreThreshold + T.novelPenalty + T.weightNovelty

\* The default thresholds do what the theorems below need of them.
LEMMA DefaultsWeigh == DOMAIN UserThresholds = {} => WallsWeigh /\ ScansWeigh
PROOF
<1> SUFFICES ASSUME DOMAIN UserThresholds = {} PROVE WallsWeigh /\ ScansWeigh
  OBVIOUS
<1>1. T = DefaultThresholds
  <2>1. T = [k \in DOMAIN DefaultThresholds |-> DefaultThresholds[k]]
    BY DEF T, Merge
  <2> QED BY <2>1 DEF DefaultThresholds
<1> QED BY <1>1 DEF DefaultThresholds, WallsWeigh, ScansWeigh, ThresholdsAreCounts, Weights5

\* The points of a sign.
Points(b, n) == IF b THEN n ELSE 0

\* The score is a sum of points.
LEMMA ScoreIs ==
    ASSUME NEW recs
    PROVE  ConsistencyScore(recs) =
        Points(PrefixCoherent(recs), T.weightPrefix)
        + Points(NoveltyConverged(recs), T.weightNovelty)
        + Points(Top5Cover(recs) >= T.pathConcentrated, T.weightPathConc)
        + Points(ErrorsStable(recs), T.weightErrors) + Points(MethodNatural(recs), T.weightMethod)
        - Points(AlwaysSameError(recs), T.alwaysErrorPenalty)
        - Points(AlwaysSameError(recs) /\ Cardinality(PathsOf(recs)) < 3, T.singlePathErrorBonus)
        - Points(HighlyNovel(recs), T.novelPenalty)
PROOF BY DEF ConsistencyScore, Points

LEMMA PointsAre == \A b : \A n \in Nat : Points(b, n) \in Nat /\ Points(b, n) <= n
PROOF BY DEF Points

\* The penalty for errors keeps the score below its threshold, ...
LEMMA WalledScore ==
    ASSUME WallsWeigh, NEW recs, AlwaysSameError(recs)
    PROVE  ~(ConsistencyScore(recs) >= T.scoreThreshold)
PROOF
<1> DEFINE a == Points(PrefixCoherent(recs), T.weightPrefix)
           b == Points(NoveltyConverged(recs), T.weightNovelty)
           c == Points(Top5Cover(recs) >= T.pathConcentrated, T.weightPathConc)
           d == Points(ErrorsStable(recs), T.weightErrors)
           e == Points(MethodNatural(recs), T.weightMethod)
           f == Points(AlwaysSameError(recs), T.alwaysErrorPenalty)
           g == Points(AlwaysSameError(recs) /\ Cardinality(PathsOf(recs)) < 3,
                       T.singlePathErrorBonus)
           h == Points(HighlyNovel(recs), T.novelPenalty)
<1>1. ConsistencyScore(recs) = a + b + c + d + e - f - g - h
  BY ScoreIs
<1>2. /\ T.weightPrefix \in Nat /\ T.weightNovelty \in Nat /\ T.weightPathConc \in Nat
      /\ T.weightErrors \in Nat /\ T.weightMethod \in Nat
      /\ T.alwaysErrorPenalty \in Nat /\ T.singlePathErrorBonus \in Nat
      /\ T.novelPenalty \in Nat /\ T.scoreThreshold \in Nat
  BY DEF WallsWeigh, ThresholdsAreCounts
<1>3. /\ a \in Nat /\ a <= T.weightPrefix /\ b \in Nat /\ b <= T.weightNovelty
      /\ c \in Nat /\ c <= T.weightPathConc /\ d \in Nat /\ d <= T.weightErrors
      /\ e \in Nat /\ e <= T.weightMethod /\ g \in Nat /\ h \in Nat
  BY <1>2, PointsAre
<1>4. f = T.alwaysErrorPenalty
  BY DEF Points
<1>5. T.weightPrefix + T.weightNovelty + T.weightPathConc + T.weightErrors + T.weightMethod
         < T.scoreThreshold + T.alwaysErrorPenalty
  BY DEF WallsWeigh, Weights5
<1> HIDE DEF a, b, c, d, e, f, g, h
<1> QED BY <1>1, <1>2, <1>3, <1>4, <1>5

\* ... and so does that for novelty.
LEMMA NovelScore ==
    ASSUME ScansWeigh, NEW recs, HighlyNovel(recs), ~NoveltyConverged(recs)
    PROVE  ~(ConsistencyScore(recs) >= T.scoreThreshold)
PROOF
<1> DEFINE a == Points(PrefixCoherent(recs), T.weightPrefix)
           b == Points(NoveltyConverged(recs), T.weightNovelty)
           c == Points(Top5Cover(recs) >= T.pathConcentrated, T.weightPathConc)
           d == Points(ErrorsStable(recs), T.weightErrors)
           e == Points(MethodNatural(recs), T.weightMethod)
           f == Points(AlwaysSameError(recs), T.alwaysErrorPenalty)
           g == Points(AlwaysSameError(recs) /\ Cardinality(PathsOf(recs)) < 3,
                       T.singlePathErrorBonus)
           h == Points(HighlyNovel(recs), T.novelPenalty)
<1>1. ConsistencyScore(recs) = a + b + c + d + e - f - g - h
  BY ScoreIs
<1>2. /\ T.weightPrefix \in Nat /\ T.weightNovelty \in Nat /\ T.weightPathConc \in Nat
      /\ T.weightErrors \in Nat /\ T.weightMethod \in Nat
      /\ T.alwaysErrorPenalty \in Nat /\ T.singlePathErrorBonus \in Nat
      /\ T.novelPenalty \in Nat /\ T.scoreThreshold \in Nat
  BY DEF ScansWeigh, ThresholdsAreCounts
<1>3. /\ a \in Nat /\ a <= T.weightPrefix /\ c \in Nat /\ c <= T.weightPathConc
      /\ d \in Nat /\ d <= T.weightErrors /\ e \in Nat /\ e <= T.weightMethod
      /\ f \in Nat /\ g \in Nat
  BY <1>2, PointsAre
<1>4. b = 0 /\ h = T.novelPenalty
  BY DEF Points
<1>5. T.weightPrefix + T.weightNovelty + T.weightPathConc + T.weightErrors + T.weightMethod
         < T.scoreThreshold + T.novelPenalty + T.weightNovelty
  BY DEF ScansWeigh, Weights5
<1> HIDE DEF a, b, c, d, e, f, g, h
<1> QED BY <1>1, <1>2, <1>3, <1>4, <1>5

\* Whoever only gets errors from pages, one of them time and again, is not taken for a user.
THEOREM WallsAreNotUsers ==
    ASSUME WallsWeigh, NEW R, NEW recs \in Seq(R)
    PROVE  WallIsNotBenign(recs)
PROOF
<1> SUFFICES ASSUME \A i \in DOMAIN recs : recs[i].status >= 400 /\ recs[i].path.kind = "dynamic",
                    NEW q \in PathsOf(recs), CountOf(recs, q) >= 5
             PROVE  ~IsBenign(recs)
  BY DEF WallIsNotBenign
<1>1. PICK p \in TopK(recs, 5) : CountOf(recs, p) >= CountOf(recs, q)
  BY TopFive
<1>2. p \in PathsOf(recs)
  BY TopFive
<1>3. p.kind = "dynamic"
  BY <1>2 DEF PathsOf
<1>4. CountOf(recs, p) >= T.alwaysErrorDynamicMin
  <2>1. CountOf(recs, p) \in Nat /\ CountOf(recs, q) \in Nat
    BY CountOfIs
  <2> QED BY <1>1, <2>1 DEF WallsWeigh
<1>5. AlwaysSameError(recs)
  BY <1>1, <1>3, <1>4 DEF AlwaysSameError
<1> QED BY <1>5, WalledScore DEF IsBenign

\* A share stays below its bound.
LEMMA ShareIsSmall ==
    ASSUME NEW n \in Nat, NEW of \in Nat \ {0}, NEW m \in Nat, 100000 * n < (m + 1) * of
    PROVE  PartOf(n, of) \in Nat /\ PartOf(n, of) <= m
PROOF
<1> DEFINE q == (100000 * n) \div of
           x == 100000 * n
<1>1. x \in Nat
  OBVIOUS
<1> HIDE DEF x
<1>2. x \div of \in Nat /\ of * (x \div of) <= x
  BY <1>1
<1>3. x < (m + 1) * of
  BY DEF x
<1>4. x \div of <= m
  <2> DEFINE z == x \div of
  <2>1. z \in Nat /\ of * z <= x
    BY <1>2
  <2> HIDE DEF z
  <2>2. of * z < (m + 1) * of
    BY <1>1, <1>3, <2>1
  <2>3. z < m + 1
    BY <2>1, <2>2
  <2> QED BY <2>1, <2>3 DEF z
<1> QED BY <1>2, <1>4 DEF PartOf, x

LEMMA ShareOfAll ==
    ASSUME NEW n \in Nat \ {0}
    PROVE  PartOf(n, n) = 100000
PROOF BY DEF PartOf

\* No path is asked for twice: each record has its own.
LEMMA EachHasItsOwn ==
    ASSUME NEW R, NEW recs \in Seq(R), Cardinality(PathsOf(recs)) = Len(recs)
    PROVE  \A i, j \in DOMAIN recs : recs[i].path = recs[j].path => i = j
PROOF
<1> DEFINE f == [i \in DOMAIN recs |-> recs[i].path]
<1>1. f \in Surjection(DOMAIN recs, PathsOf(recs))
  BY DEF Surjection, PathsOf
<1>2. Cardinality(PathsOf(recs)) = Cardinality(DOMAIN recs) /\ IsFiniteSet(DOMAIN recs)
  BY RecordsAre
<1> HIDE DEF f
<1>3. f \in Injection(DOMAIN recs, PathsOf(recs))
  BY <1>1, <1>2, FS_Surjection
<1>4. \A i, j \in DOMAIN recs : f[i] = f[j] => i = j
  BY <1>3 DEF Injection, IsInjective
<1> QED BY <1>4 DEF f

\* A third of three records or more is not empty.
LEMMA ThirdIs ==
    ASSUME NEW R, NEW recs \in Seq(R), Len(recs) >= 3
    PROVE  /\ Third(recs) \in Nat /\ Third(recs) >= 1 /\ 3 * Third(recs) <= Len(recs)
PROOF
<1> DEFINE t == Len(recs) \div 3
<1>1. t \in Nat /\ t >= 1 /\ 3 * t <= Len(recs)
  OBVIOUS
<1> HIDE DEF t
<1>2. Max({1, t}) = t
  <2>1. t \in {1, t} /\ \A y \in {1, t} : t >= y
    BY <1>1
  <2>2. \A x \in {1, t} : (\A y \in {1, t} : x >= y) => x = t
    BY <1>1
  <2> QED BY <2>1, <2>2 DEF Max
<1> QED BY <1>1, <1>2 DEF Third, t

\* The early third asks for no more paths than it has requests.
LEMMA EarlyIs ==
    ASSUME NEW R, NEW recs \in Seq(R), Len(recs) >= 3
    PROVE  /\ Early(recs) = {recs[i].path : i \in 1..Third(recs)}
           /\ Cardinality(Early(recs)) \in Nat /\ Cardinality(Early(recs)) <= Third(recs)
PROOF
<1> DEFINE t == Third(recs)
           s == SubSeq(recs, 1, t)
<1>1. t \in Nat /\ t >= 1 /\ t <= Len(recs) /\ Len(recs) \in Nat
  BY ThirdIs
<1> HIDE DEF t
<1>2. DOMAIN s = 1..t /\ \A i \in 1..t : s[i] = recs[i]
  BY <1>1
<1>3. Early(recs) = {recs[i].path : i \in 1..t}
  BY <1>2 DEF Early, PathsOf, t
<1>4. IsFiniteSet(1..t) /\ Cardinality(1..t) = t
  BY <1>1, FS_Interval
<1> DEFINE f == [i \in 1..t |-> recs[i].path]
<1>5. f \in Surjection(1..t, Early(recs))
  BY <1>3 DEF Surjection
<1> HIDE DEF f
<1>6. Cardinality(Early(recs)) <= t /\ IsFiniteSet(Early(recs))
  BY <1>4, <1>5, FS_Surjection
<1>7. Cardinality(Early(recs)) \in Nat
  BY <1>6, FS_CardinalityType
<1> QED BY <1>3, <1>6, <1>7 DEF t

\* Whoever never asks for a path twice is not taken for a user.
THEOREM ScansAreNotUsers ==
    ASSUME ScansWeigh, NEW R, NEW recs \in Seq(R)
    PROVE  ScanIsNotBenign(recs)
PROOF
<1> SUFFICES ASSUME Cardinality(PathsOf(recs)) = Len(recs), IsBenign(recs) PROVE FALSE
  BY DEF ScanIsNotBenign
<1> DEFINE n == Len(recs)
           t == Third(recs)
<1>1. n \in Nat /\ n >= 20
  <2>1. n \in Nat
    OBVIOUS
  <2> QED BY <2>1 DEF IsBenign, HasSamples, ScansWeigh
<1>2. t \in Nat /\ t >= 1 /\ 3 * t <= n
  BY <1>1, ThirdIs
<1>3. \A i, j \in 1..n : recs[i].path = recs[j].path => i = j
  BY EachHasItsOwn, RecordsAre
<1> HIDE DEF t, n
<1>4. NoveltyEarly(recs) \in Nat /\ NoveltyEarly(recs) <= 33333
  <2> DEFINE e == Cardinality(Early(recs))
  <2>1. e \in Nat /\ e <= t
    BY <1>1, EarlyIs DEF n, t
  <2> HIDE DEF e
  <2>2. 100000 * e < 33334 * n
    BY <1>1, <1>2, <2>1
  <2>3. PartOf(e, n) \in Nat /\ PartOf(e, n) <= 33333
    BY <1>1, <2>1, <2>2, ShareIsSmall
  <2> QED BY <2>3 DEF NoveltyEarly, e, n
<1>5. LateNovelty(recs) = 100000
  <2> DEFINE late == SubSeq(recs, n - t + 1, n)
             new  == {j \in DOMAIN late : late[j].path \notin Early(recs)}
  <2>1. DOMAIN late = 1..t /\ \A j \in 1..t : late[j] = recs[n - t + j]
    BY <1>1, <1>2 DEF n
  <2>2. \A j \in 1..t : late[j].path \notin Early(recs)
    <3>0. Early(recs) = {recs[i].path : i \in 1..t}
      BY <1>1, EarlyIs DEF n, t
    <3> HIDE DEF late
    <3> SUFFICES ASSUME NEW j \in 1..t, NEW i \in 1..t, recs[n - t + j].path = recs[i].path
                 PROVE  FALSE
      BY <2>1, <3>0
    <3>1. n - t + j \in 1..n /\ i \in 1..n /\ n - t + j # i
      BY <1>1, <1>2
    <3> QED BY <1>3, <3>1
  <2>3. new = 1..t
    BY <2>1, <2>2
  <2>4. Cardinality(new) = t
    <3>1. Cardinality(1..t) = IF 1 > t THEN 0 ELSE t - 1 + 1
      BY <1>2, FS_Interval
    <3> HIDE DEF new
    <3> QED BY <1>2, <2>3, <3>1
  <2>5. LateNovelty(recs) = PartOf(Cardinality(new), t)
    BY DEF LateNovelty, CountBy, t, n
  <2> HIDE DEF new
  <2>6. PartOf(t, t) = 100000
    BY <1>2, ShareOfAll
  <2> QED BY <2>4, <2>5, <2>6
<1>6. Top5Cover(recs) \in Nat /\ Top5Cover(recs) <= 25000
  <2> DEFINE mine == {i \in DOMAIN recs : recs[i].path \in TopK(recs, 5)}
             f == [i \in mine |-> recs[i].path]
             c == Cardinality(mine)
  <2>1. f \in Injection(mine, TopK(recs, 5))
    BY EachHasItsOwn DEF Injection, IsInjective
  <2>2. IsFiniteSet(TopK(recs, 5)) /\ Cardinality(TopK(recs, 5)) <= 5
    BY TopFive, RecordsAre, FS_Subset
  <2>3. mine \in SUBSET DOMAIN recs
    OBVIOUS
  <2>4. Cardinality(TopK(recs, 5)) \in Nat
    BY TopFive
  <2> HIDE DEF f, mine
  <2>5. c <= Cardinality(TopK(recs, 5))
    BY <2>1, <2>2, FS_Injection
  <2>6. c \in Nat
    BY <2>3, RecordsAre
  <2> HIDE DEF c
  <2>7. c <= 5
    BY <2>2, <2>4, <2>5, <2>6
  <2>8. 100000 * c < 25001 * n
    BY <1>1, <2>6, <2>7
  <2>9. PartOf(c, n) \in Nat /\ PartOf(c, n) <= 25000
    BY <1>1, <2>6, <2>8, ShareIsSmall
  <2>10. Top5Cover(recs) = PartOf(c, n)
    BY DEF Top5Cover, CountBy, mine, c, n
  <2> QED BY <2>9, <2>10
<1>7. HighlyNovel(recs)
  BY <1>4, <1>5, <1>6 DEF HighlyNovel, ScansWeigh
<1>8. ~NoveltyConverged(recs)
  BY <1>4 DEF NoveltyConverged, ScansWeigh
<1> QED BY <1>7, <1>8, NovelScore DEF IsBenign

-----------------------------------------------------------------------------
(* What is read of requests, as the detector asks for it. *)

\* Every call is one of those that the code makes.
LEMMA EveryCall == CallSpec => [](call \in Inputs)
PROOF
<1>1. CallInit => call \in Inputs
  BY DEF CallInit
<1>2. call \in Inputs /\ [CallNext]_call => (call \in Inputs)'
  BY DEF CallNext
<1> QED BY <1>1, <1>2, PTL DEF CallSpec

LEMMA CalledUsers == WallsWeigh /\ ScansWeigh /\ call \in Inputs => UsersAreTold
PROOF
<1> SUFFICES ASSUME WallsWeigh, ScansWeigh, call \in Inputs PROVE UsersAreTold
  OBVIOUS
<1> DEFINE recs == call.recs
           R == {recs[i] : i \in DOMAIN recs}
<1>1. /\ call.f = "Consistency" => recs \in Seq(R)
      /\ call.f = "Ring" => call.capacity \in Nat \ {0} /\ recs \in Seq(R)
  BY CallsAssumption DEF IsCall, IsList
<1> HIDE DEF recs, R
<1>2. RingRecords
  BY <1>1, RingsKeepLatest DEF RingRecords, recs
<1>3. WallScores
  BY <1>1, WallsAreNotUsers DEF WallScores, recs
<1>4. ScanScores
  BY <1>1, ScansAreNotUsers DEF ScanScores, recs
<1> QED BY <1>2, <1>3, <1>4 DEF UsersAreTold

LEMMA CalledReads == MaxTexts \in Nat /\ call \in Inputs => RequestsAreRead
PROOF
<1> SUFFICES ASSUME MaxTexts \in Nat, call \in Inputs PROVE RequestsAreRead
  OBVIOUS
<1> DEFINE p == call.path
           Toks == {p[i] : i \in DOMAIN p}
           b == call.body
           Fields == {b.fields[i] : i \in DOMAIN b.fields}
<1>1. call.f = "Path" => p \in Seq(Toks) /\ \A i \in DOMAIN p : IsToken(p[i])
  BY CallsAssumption DEF IsCall, IsList
<1>2. call.f = "Body" => /\ b.fields \in Seq(Fields)
                         /\ \A i \in DOMAIN b.fields : IsField(b.fields[i])
  BY CallsAssumption DEF IsCall, IsList
<1>3. call.f = "Path" => \A t \in Toks : IsToken(t)
  BY <1>1
<1>4. call.f = "Body" => \A x \in Fields : IsField(x)
  BY <1>2
<1> HIDE DEF p, Toks, b, Fields
<1>5. call.f = "Path" => IsPath(p)
  BY <1>1, <1>3 DEF IsPath
<1>6. PathSpelling
  BY <1>5, SpellingsAreAlike DEF PathSpelling, p
<1>7. PathTwice
  BY <1>5, TwiceIsOnce DEF PathTwice, p
<1>8. PathClimbs
  BY <1>5, ClimbsAreSeen DEF PathClimbs, p
<1>9. BodyHits
  BY <1>2, <1>4, BodiesAreSearched DEF BodyHits, b
<1> QED BY <1>6, <1>7, <1>8, <1>9 DEF RequestsAreRead

\* ComputeConsistency, however it is called: the signs of a user are those of the latest
\* requests, and neither somebody who only gets errors nor one who never comes back shows
\* enough of them.
THEOREM EveryUserTold == WallsWeigh /\ ScansWeigh /\ CallSpec => []UsersAreTold
PROOF
<1> SUFFICES ASSUME WallsWeigh, ScansWeigh PROVE CallSpec => []UsersAreTold
  OBVIOUS
<1>1. call \in Inputs => UsersAreTold
  BY CalledUsers
<1> QED BY <1>1, EveryCall, PTL

\* normalizePath and ScanBody, however they are called: no spelling of a path without a
\* malformed escape hides what its plain form shows the lists, and no value of a body a
\* pattern.
THEOREM EveryRequestRead == MaxTexts \in Nat /\ CallSpec => []RequestsAreRead
PROOF
<1> SUFFICES ASSUME MaxTexts \in Nat PROVE CallSpec => []RequestsAreRead
  OBVIOUS
<1>1. call \in Inputs => RequestsAreRead
  BY CalledReads
<1> QED BY <1>1, EveryCall, PTL
=============================================================================
