---------------------------- MODULE WindowProofs ----------------------------
(***************************************************************************)
(* Proofs about the totals that the detector keeps and drops over time,    *)
(* for any addresses, requests and sizes.  Window: what the windows count  *)
(* of an address is what its lines amount to, and eviction forgets nothing *)
(* of it.  Stats: what is reported adds up.                                *)
(***************************************************************************)
EXTENDS Window, Stats, FiniteSetTheorems, SequenceTheorems, WellFoundedInduction, TLAPS

-----------------------------------------------------------------------------
(* The sum of a function over a finite set, one element after the other. *)

\* A set of naturals that is not empty has a least element.
LEMMA LeastOf ==
    ASSUME NEW S \in SUBSET Nat, S # {}
    PROVE  \E x \in S : \A y \in S : x <= y
PROOF
<1>1. \E x \in S : \A y \in S : ~(<<y, x>> \in OpToRel(<, Nat))
  BY NatLessThanWellFounded, WFMin
<1>2. \A x, y \in Nat : x < y => <<x, y>> \in OpToRel(<, Nat)
  BY DEF OpToRel
<1>3. PICK x \in S : \A y \in S : ~(<<y, x>> \in OpToRel(<, Nat))
  BY <1>1
<1>4. \A y \in S : ~(y < x)
  BY <1>2, <1>3
<1>5. \A y \in S : x <= y
  BY <1>4
<1> QED BY <1>5

\* Among the subsets of a finite set that fail, one is smallest.
LEMMA Smallest ==
    ASSUME NEW S, IsFiniteSet(S), NEW B \in SUBSET (SUBSET S), B # {}
    PROVE  \E s \in B : /\ IsFiniteSet(s) /\ Cardinality(s) \in Nat
                        /\ \A x \in s : /\ Cardinality(s \ {x}) < Cardinality(s)
                                        /\ s \ {x} \notin B
                        /\ \A t \in B : Cardinality(s) <= Cardinality(t)
PROOF
<1> DEFINE N == {Cardinality(s) : s \in B}
<1>1. \A s \in SUBSET S : IsFiniteSet(s) /\ Cardinality(s) \in Nat
  BY FS_Subset, FS_CardinalityType
<1>2. N \in SUBSET Nat /\ N # {}
  BY <1>1
<1> HIDE DEF N
<1>3. PICK n \in N : \A m \in N : n <= m
  BY <1>2, LeastOf
<1>4. PICK s \in B : n = Cardinality(s)
  BY DEF N
<1>5. \A t \in B : Cardinality(s) <= Cardinality(t)
  BY <1>3, <1>4 DEF N
<1>6. ASSUME NEW x \in s
      PROVE  Cardinality(s \ {x}) < Cardinality(s) /\ s \ {x} \notin B
  <2>1. Cardinality(s \ {x}) = Cardinality(s) - 1
    BY <1>1, FS_RemoveElement
  <2>2. Cardinality(s) \in Nat /\ Cardinality(s \ {x}) \in Nat
    BY <1>1
  <2> QED BY <1>5, <2>1, <2>2
<1> QED BY <1>1, <1>5, <1>6

\* The sum of a function over a set, as the recursive function that SumFunctionOnSet stands
\* for: over the subsets of the set, one element after the other.
First(s) == CHOOSE x \in s : TRUE

IsPartialSum(it, f, D) ==
    it = [s \in D |-> IF s = {} THEN 0 ELSE f[First(s)] + it[s \ {First(s)}]]

PartialSum(f, S) == CHOOSE it : IsPartialSum(it, f, SUBSET S)

Total(f, S) == SumFunctionOnSet(f, S)

Smaller(S, n) == {s \in SUBSET S : Cardinality(s) <= n}

LEMMA FirstIn == \A s : s # {} => First(s) \in s
PROOF BY DEF First

LEMMA WithoutFirst ==
    ASSUME NEW S, IsFiniteSet(S), NEW s \in SUBSET S, s # {}
    PROVE  /\ First(s) \in S /\ s \ {First(s)} \in SUBSET S
           /\ Cardinality(s) \in Nat /\ Cardinality(s \ {First(s)}) = Cardinality(s) - 1
           /\ Cardinality(s) > 0
PROOF
<1>1. First(s) \in s
  BY FirstIn
<1>2. IsFiniteSet(s)
  BY FS_Subset
<1>3. Cardinality(s) \in Nat /\ Cardinality(s) # 0
  BY <1>2, FS_CardinalityType, FS_EmptySet
<1>4. Cardinality(s \ {First(s)}) = Cardinality(s) - 1
  BY <1>1, <1>2, FS_RemoveElement
<1> QED BY <1>1, <1>3, <1>4

\* There is such a function over the subsets of n elements at most, ...
LEMMA PartialSumsExist ==
    ASSUME NEW f, NEW S, IsFiniteSet(S)
    PROVE  \A n \in Nat : \E it : IsPartialSum(it, f, Smaller(S, n))
PROOF
<1> DEFINE Bad == {n \in Nat : ~ \E it : IsPartialSum(it, f, Smaller(S, n))}
<1> SUFFICES ASSUME Bad # {} PROVE FALSE
  OBVIOUS
<1>1. PICK n \in Bad : \A m \in Bad : n <= m
  <2>1. Bad \in SUBSET Nat
    OBVIOUS
  <2> HIDE DEF Bad
  <2> QED BY <2>1, LeastOf
<1>2. n \in Nat /\ \A it : ~ IsPartialSum(it, f, Smaller(S, n))
  BY <1>1
<1>3. CASE n = 0
  <2>1. \A s \in Smaller(S, 0) : s = {}
    <3> SUFFICES ASSUME NEW s \in SUBSET S, Cardinality(s) <= 0, s # {} PROVE FALSE
      BY DEF Smaller
    <3>1. Cardinality(s) \in Nat /\ Cardinality(s) > 0
      BY WithoutFirst
    <3> QED BY <3>1
  <2>2. IsPartialSum([s \in Smaller(S, 0) |-> 0], f, Smaller(S, 0))
    BY <2>1 DEF IsPartialSum
  <2> QED BY <1>2, <1>3, <2>2
<1>4. CASE n # 0
  <2>1. n - 1 \in Nat /\ n - 1 \notin Bad
    BY <1>1, <1>2, <1>4
  <2>2. PICK it : IsPartialSum(it, f, Smaller(S, n - 1))
    BY <2>1
  <2> DEFINE D == Smaller(S, n)
             E == Smaller(S, n - 1)
             V(s) == IF s = {} THEN 0 ELSE f[First(s)] + it[s \ {First(s)}]
             jt == [s \in D |-> V(s)]
  <2>3. \A s \in E : it[s] = V(s)
    BY <2>2 DEF IsPartialSum
  <2>4. E \subseteq D
    <3> SUFFICES ASSUME NEW s \in SUBSET S, Cardinality(s) <= n - 1 PROVE Cardinality(s) <= n
      BY DEF Smaller
    <3>1. IsFiniteSet(s)
      BY FS_Subset
    <3>2. Cardinality(s) \in Nat
      BY <3>1, FS_CardinalityType
    <3> QED BY <3>2, <1>2
  <2>5. \A s \in D : s # {} => s \ {First(s)} \in E
    <3> SUFFICES ASSUME NEW s \in SUBSET S, Cardinality(s) <= n, s # {}
                 PROVE  s \ {First(s)} \in SUBSET S /\ Cardinality(s \ {First(s)}) <= n - 1
      BY DEF Smaller
    <3>1. /\ s \ {First(s)} \in SUBSET S
          /\ Cardinality(s) \in Nat /\ Cardinality(s \ {First(s)}) = Cardinality(s) - 1
      BY WithoutFirst
    <3> QED BY <3>1, <1>2
  <2> HIDE DEF D, E
  <2>6. \A s \in E : jt[s] = it[s]
    BY <2>3, <2>4
  <2>7. \A s \in D : jt[s] = IF s = {} THEN 0 ELSE f[First(s)] + jt[s \ {First(s)}]
    BY <2>5, <2>6
  <2>8. jt = [s \in D |-> IF s = {} THEN 0 ELSE f[First(s)] + jt[s \ {First(s)}]]
    BY <2>7
  <2> HIDE DEF jt
  <2> QED BY <2>8, <1>2 DEF IsPartialSum, D
<1> QED BY <1>3, <1>4

\* ... and so one over all subsets.
LEMMA PartialSumIs ==
    ASSUME NEW f, NEW S, IsFiniteSet(S)
    PROVE  \A s \in SUBSET S :
              PartialSum(f, S)[s] = IF s = {} THEN 0
                                    ELSE f[First(s)] + PartialSum(f, S)[s \ {First(s)}]
PROOF
<1> DEFINE n == Cardinality(S)
           p == PartialSum(f, S)
<1>1. n \in Nat
  BY FS_CardinalityType
<1>2. Smaller(S, n) = SUBSET S
  BY FS_Subset DEF Smaller
<1>3. PICK it : IsPartialSum(it, f, SUBSET S)
  <2>1. \A m \in Nat : \E it : IsPartialSum(it, f, Smaller(S, m))
    BY PartialSumsExist
  <2> HIDE DEF n
  <2>2. \E it : IsPartialSum(it, f, Smaller(S, n))
    BY <1>1, <2>1
  <2> QED BY <1>2, <2>2
<1>4. IsPartialSum(p, f, SUBSET S)
  BY <1>3 DEF PartialSum
<1> HIDE DEF p
<1>5. \A s \in SUBSET S : p[s] = IF s = {} THEN 0 ELSE f[First(s)] + p[s \ {First(s)}]
  BY <1>4 DEF IsPartialSum
<1> QED BY <1>5 DEF p

LEMMA TotalIsPartialSum ==
    ASSUME NEW f, NEW S PROVE Total(f, S) = PartialSum(f, S)[S]
PROOF
  BY DEF Total, SumFunctionOnSet, FoldFunctionOnSet, MapThenFoldSet, PartialSum,
         IsPartialSum, First

\* It does not matter in which set, nor what the function is elsewhere.
LEMMA PartialSumsAgree ==
    ASSUME NEW f, NEW g, NEW S, NEW T, IsFiniteSet(S), IsFiniteSet(T),
           NEW R, R \subseteq S, R \subseteq T, \A x \in R : f[x] = g[x]
    PROVE  PartialSum(f, S)[R] = PartialSum(g, T)[R]
PROOF
<1> DEFINE p == PartialSum(f, S)
           q == PartialSum(g, T)
           Bad == {s \in SUBSET R : p[s] # q[s]}
<1>a. \A s \in SUBSET S : p[s] = IF s = {} THEN 0 ELSE f[First(s)] + p[s \ {First(s)}]
  BY PartialSumIs
<1>b. \A s \in SUBSET T : q[s] = IF s = {} THEN 0 ELSE g[First(s)] + q[s \ {First(s)}]
  BY PartialSumIs
<1> HIDE DEF p, q
<1>1. \A s \in SUBSET R : p[s] = IF s = {} THEN 0 ELSE f[First(s)] + p[s \ {First(s)}]
  BY <1>a
<1>2. \A s \in SUBSET R : q[s] = IF s = {} THEN 0 ELSE g[First(s)] + q[s \ {First(s)}]
  BY <1>b
<1>3. Bad = {}
  <2> SUFFICES ASSUME Bad # {} PROVE FALSE
    OBVIOUS
  <2>1. Bad \in SUBSET (SUBSET R) /\ IsFiniteSet(R)
    BY FS_Subset
  <2> HIDE DEF Bad
  <2>2. PICK s \in Bad : \A x \in s : s \ {x} \notin Bad
    BY <2>1, Smallest
  <2>3. s \in SUBSET R /\ p[s] # q[s]
    BY DEF Bad
  <2>4. s # {}
    BY <2>3, <1>1, <1>2
  <2>5. First(s) \in s /\ First(s) \in R
    BY <2>3, <2>4, FirstIn
  <2>6. s \ {First(s)} \in SUBSET R
    BY <2>3
  <2>7. p[s \ {First(s)}] = q[s \ {First(s)}]
    BY <2>2, <2>5, <2>6 DEF Bad
  <2> QED BY <1>1, <1>2, <2>3, <2>4, <2>5, <2>7
<1> QED BY <1>3 DEF p, q

LEMMA TotalAgrees ==
    ASSUME NEW f, NEW g, NEW S, IsFiniteSet(S), \A x \in S : f[x] = g[x]
    PROVE  Total(f, S) = Total(g, S)
PROOF
  BY PartialSumsAgree, TotalIsPartialSum

LEMMA TotalOfNone ==
    ASSUME NEW f PROVE Total(f, {}) = 0
PROOF
<1>1. IsFiniteSet({})
  BY FS_EmptySet
<1> QED BY <1>1, PartialSumIs, TotalIsPartialSum

LEMMA TotalStep ==
    ASSUME NEW f, NEW S, IsFiniteSet(S), S # {}
    PROVE  Total(f, S) = f[First(S)] + Total(f, S \ {First(S)})
PROOF
<1> DEFINE R == S \ {First(S)}
<1>1. IsFiniteSet(R) /\ R \subseteq S
  BY FS_Subset
<1>2. PartialSum(f, S)[S] = f[First(S)] + PartialSum(f, S)[R]
  BY PartialSumIs
<1> HIDE DEF R
<1>3. PartialSum(f, S)[R] = PartialSum(f, R)[R]
  BY <1>1, PartialSumsAgree
<1> QED BY <1>2, <1>3, TotalIsPartialSum DEF R

\* The sum of naturals is one.
LEMMA TotalType ==
    ASSUME NEW f, NEW S, IsFiniteSet(S), \A x \in S : f[x] \in Nat
    PROVE  Total(f, S) \in Nat
PROOF
<1> DEFINE Bad == {s \in SUBSET S : Total(f, s) \notin Nat}
<1>1. Bad = {}
  <2> SUFFICES ASSUME Bad # {} PROVE FALSE
    OBVIOUS
  <2>1. Bad \in SUBSET (SUBSET S)
    OBVIOUS
  <2> HIDE DEF Bad
  <2>2. PICK s \in Bad : IsFiniteSet(s) /\ \A x \in s : s \ {x} \notin Bad
    BY <2>1, Smallest
  <2>3. s \in SUBSET S /\ Total(f, s) \notin Nat
    BY DEF Bad
  <2>4. s # {}
    BY <2>3, TotalOfNone
  <2>5. First(s) \in s /\ First(s) \in S
    BY <2>3, <2>4, FirstIn
  <2>6. Total(f, s \ {First(s)}) \in Nat
    BY <2>2, <2>3, <2>5 DEF Bad
  <2> QED BY <2>2, <2>3, <2>4, <2>5, <2>6, TotalStep
<1> QED BY <1>1

\* One more element adds its value.
LEMMA TotalInsert ==
    ASSUME NEW f, NEW S, IsFiniteSet(S), \A x \in S : f[x] \in Nat,
           NEW x, x \notin S, f[x] \in Nat
    PROVE  Total(f, S \cup {x}) = Total(f, S) + f[x]
PROOF
<1> DEFINE U == S \cup {x}
           Adds(s, y) == Total(f, s \cup {y}) = Total(f, s) + f[y]
           Bad == {s \in SUBSET U : \E y \in U \ s : ~Adds(s, y)}
<1>1. IsFiniteSet(U) /\ \A y \in U : f[y] \in Nat
  BY FS_AddElement
<1>2. \A s \in SUBSET U : IsFiniteSet(s) /\ Total(f, s) \in Nat
  <2> SUFFICES ASSUME NEW s \in SUBSET U PROVE IsFiniteSet(s) /\ Total(f, s) \in Nat
    OBVIOUS
  <2>1. IsFiniteSet(s)
    BY <1>1, FS_Subset
  <2>2. \A y \in s : f[y] \in Nat
    BY <1>1
  <2> QED BY <2>1, <2>2, TotalType
<1>3. Bad = {}
  <2> SUFFICES ASSUME Bad # {} PROVE FALSE
    OBVIOUS
  <2>1. Bad \in SUBSET (SUBSET U)
    OBVIOUS
  <2> HIDE DEF Bad
  <2>2. PICK s \in Bad : \A z \in s : s \ {z} \notin Bad
    BY <1>1, <2>1, Smallest
  <2>3. PICK y \in U \ s : s \in SUBSET U /\ ~Adds(s, y)
    BY DEF Bad
  <2> DEFINE V == s \cup {y}
             z == First(V)
  <2>4. V \in SUBSET U /\ V # {} /\ IsFiniteSet(V)
    BY <1>2, <2>3
  <2>5. z \in V /\ Total(f, V) = f[z] + Total(f, V \ {z})
    BY <2>4, FirstIn, TotalStep
  <2>6. f[y] \in Nat /\ Total(f, s) \in Nat
    BY <1>1, <1>2, <2>3
  <2> HIDE DEF z
  <2>7. CASE z = y
    <3>1. V \ {z} = s
      BY <2>3, <2>7
    <3>2. Total(f, V) = f[y] + Total(f, s)
      BY <2>5, <2>7, <3>1
    <3> QED BY <2>3, <2>6, <3>2
  <2>8. CASE z # y
    <3> DEFINE r == s \ {z}
    <3>1. z \in s /\ z \in U
      BY <2>3, <2>5, <2>8
    <3>2. r \in SUBSET U /\ r \notin Bad
      BY <2>2, <2>3, <3>1
    <3>3. y \in U \ r /\ z \in U \ r
      BY <2>3, <3>1
    <3>4. Adds(r, y) /\ Adds(r, z)
      BY <3>2, <3>3 DEF Bad
    <3>5. r \cup {y} = V \ {z} /\ r \cup {z} = s
      BY <2>3, <2>8, <3>1
    <3>6. Total(f, V) = f[z] + Total(f, r \cup {y})
      BY <2>5, <3>5
    <3>7. Total(f, r \cup {y}) = Total(f, r) + f[y] /\ Total(f, s) = Total(f, r) + f[z]
      BY <3>4, <3>5
    <3>8. f[z] \in Nat /\ Total(f, r) \in Nat
      BY <1>1, <1>2, <3>1, <3>2
    <3> HIDE DEF r, V
    <3>9. Total(f, V) = Total(f, s) + f[y]
      BY <2>6, <3>6, <3>7, <3>8
    <3> QED BY <2>3, <3>9 DEF V
  <2> QED BY <2>7, <2>8
<1>4. S \in SUBSET U /\ x \in U \ S
  OBVIOUS
<1> QED BY <1>3, <1>4

\* The sum over two sets is the sum of theirs.
LEMMA TotalUnion ==
    ASSUME NEW f, NEW S, IsFiniteSet(S), NEW T, IsFiniteSet(T), S \cap T = {},
           \A x \in S \cup T : f[x] \in Nat
    PROVE  Total(f, S \cup T) = Total(f, S) + Total(f, T)
PROOF
<1> DEFINE Bad == {s \in SUBSET T : Total(f, S \cup s) # Total(f, S) + Total(f, s)}
<1>1. Total(f, S) \in Nat
  BY TotalType
<1>2. Bad = {}
  <2> SUFFICES ASSUME Bad # {} PROVE FALSE
    OBVIOUS
  <2>1. Bad \in SUBSET (SUBSET T)
    OBVIOUS
  <2> HIDE DEF Bad
  <2>2. PICK s \in Bad : \A z \in s : s \ {z} \notin Bad
    BY <2>1, Smallest
  <2>3. s \in SUBSET T /\ Total(f, S \cup s) # Total(f, S) + Total(f, s)
    BY DEF Bad
  <2>4. CASE s = {}
    <3>1. S \cup s = S /\ Total(f, s) = 0
      BY <2>4, TotalOfNone
    <3> QED BY <1>1, <2>3, <3>1
  <2>5. CASE s # {}
    <3>1. PICK z : z \in s
      BY <2>5
    <3> DEFINE r == s \ {z}
               Q == S \cup r
    <3>2. r \in SUBSET T /\ r \notin Bad /\ z \in T
      BY <2>2, <2>3, <3>1
    <3>3. Total(f, Q) = Total(f, S) + Total(f, r)
      BY <3>2 DEF Bad
    <3>4. IsFiniteSet(r) /\ IsFiniteSet(Q)
      BY <3>2, FS_Subset, FS_Union
    <3>5. z \notin r /\ z \notin Q /\ f[z] \in Nat
      BY <3>2
    <3>6. r \cup {z} = s /\ Q \cup {z} = S \cup s
      BY <3>1
    <3>7. (\A x \in r : f[x] \in Nat) /\ (\A x \in Q : f[x] \in Nat)
      BY <3>2
    <3> HIDE DEF r, Q
    <3>8. Total(f, r \cup {z}) = Total(f, r) + f[z]
      BY <3>4, <3>5, <3>7, TotalInsert
    <3>9. Total(f, Q \cup {z}) = Total(f, Q) + f[z]
      BY <3>4, <3>5, <3>7, TotalInsert
    <3>10. Total(f, r) \in Nat
      BY <3>4, <3>7, TotalType
    <3> DEFINE u == Total(f, S)
               v == Total(f, r)
               w == f[z]
    <3>11. Total(f, S \cup s) = (u + v) + w /\ Total(f, s) = v + w
      BY <3>3, <3>6, <3>8, <3>9
    <3>12. u \in Nat /\ v \in Nat /\ w \in Nat
      BY <1>1, <3>5, <3>10
    <3> HIDE DEF u, v, w
    <3>13. (u + v) + w = u + (v + w)
      BY <3>12
    <3>14. Total(f, S \cup s) = u + Total(f, s)
      BY <3>11, <3>13
    <3> QED BY <2>3, <3>14 DEF u
  <2> QED BY <2>4, <2>5
<1> QED BY <1>2

\* A part has no greater sum.
LEMMA TotalOfPart ==
    ASSUME NEW f, NEW T, IsFiniteSet(T), NEW S \in SUBSET T, \A x \in T : f[x] \in Nat
    PROVE  Total(f, S) \in Nat /\ Total(f, T) \in Nat /\ Total(f, S) <= Total(f, T)
PROOF
<1> DEFINE R == T \ S
<1>1. IsFiniteSet(S) /\ IsFiniteSet(R) /\ S \cap R = {} /\ S \cup R = T
  BY FS_Subset
<1>2. (\A x \in S : f[x] \in Nat) /\ (\A x \in R : f[x] \in Nat)
  OBVIOUS
<1> HIDE DEF R
<1>3. Total(f, S) \in Nat /\ Total(f, R) \in Nat /\ Total(f, T) \in Nat
  BY <1>1, <1>2, TotalType
<1>4. Total(f, S \cup R) = Total(f, S) + Total(f, R)
  BY <1>1, TotalUnion
<1> QED BY <1>1, <1>3, <1>4

\* Zeros add up to zero, and ones to their number.
LEMMA TotalOfEqual ==
    ASSUME NEW f, NEW S, IsFiniteSet(S), NEW c \in {0, 1}, \A x \in S : f[x] = c
    PROVE  Total(f, S) = IF c = 0 THEN 0 ELSE Cardinality(S)
PROOF
<1> DEFINE Value(s) == IF c = 0 THEN 0 ELSE Cardinality(s)
           Bad == {s \in SUBSET S : Total(f, s) # Value(s)}
<1>1. Bad = {}
  <2> SUFFICES ASSUME Bad # {} PROVE FALSE
    OBVIOUS
  <2>1. Bad \in SUBSET (SUBSET S)
    OBVIOUS
  <2> HIDE DEF Bad
  <2>2. PICK s \in Bad : IsFiniteSet(s) /\ Cardinality(s) \in Nat /\ \A z \in s : s \ {z} \notin Bad
    BY <2>1, Smallest
  <2>3. s \in SUBSET S /\ Total(f, s) # Value(s)
    BY DEF Bad
  <2>4. s # {}
    BY <2>3, TotalOfNone, FS_EmptySet
  <2> DEFINE z == First(s)
             r == s \ {z}
  <2>5. z \in s /\ f[z] = c
    BY <2>3, <2>4, FirstIn
  <2>6. Total(f, r) = Value(r)
    BY <2>2, <2>3, <2>5 DEF Bad
  <2>7. Cardinality(r) = Cardinality(s) - 1
    BY <2>2, <2>5, FS_RemoveElement
  <2>8. Total(f, s) = f[z] + Total(f, r)
    BY <2>2, <2>4, TotalStep
  <2> QED BY <2>2, <2>3, <2>5, <2>6, <2>7, <2>8
<1> QED BY <1>1

\* The sum of zeros and ones is the number of the ones.
LEMMA TotalOfOnes ==
    ASSUME NEW f, NEW S, IsFiniteSet(S), \A x \in S : f[x] \in {0, 1}
    PROVE  Total(f, S) = Cardinality({x \in S : f[x] = 1})
PROOF
<1> DEFINE One == {x \in S : f[x] = 1}
           None == {x \in S : f[x] = 0}
<1>1. /\ IsFiniteSet(One) /\ IsFiniteSet(None) /\ One \cup None = S /\ One \cap None = {}
      /\ (\A x \in One : f[x] = 1) /\ (\A x \in None : f[x] = 0)
  BY FS_Subset
<1>2. \A x \in S : f[x] \in Nat
  OBVIOUS
<1> HIDE DEF One, None
<1>3. Total(f, One \cup None) = Total(f, One) + Total(f, None)
  BY <1>1, <1>2, TotalUnion
<1>4. Total(f, One) = Cardinality(One)
  BY <1>1, TotalOfEqual
<1>5. Total(f, None) = 0
  BY <1>1, TotalOfEqual
<1>6. Cardinality(One) \in Nat
  BY <1>1, FS_CardinalityType
<1>7. Total(f, S) = Cardinality(One)
  <2> DEFINE t == Total(f, S)
             c == Cardinality(One)
  <2>1. t = c + 0 /\ c \in Nat
    BY <1>1, <1>3, <1>4, <1>5, <1>6
  <2> HIDE DEF t, c
  <2>2. t = c
    BY <2>1
  <2> QED BY <2>2 DEF t, c
<1> QED BY <1>7 DEF One

\* Sums over sets that have nothing in common add up to the sum over all of them.
LEMMA TotalOfFamily ==
    ASSUME NEW f, NEW S, IsFiniteSet(S), \A x \in S : f[x] \in Nat,
           NEW P, IsFiniteSet(P), NEW h \in [P -> SUBSET S],
           \A p, q \in P : p # q => h[p] \cap h[q] = {},
           NEW g, \A p \in P : g[p] = Total(f, h[p])
    PROVE  Total(g, P) = Total(f, UNION {h[p] : p \in P})
PROOF
<1> DEFINE All(s) == UNION {h[p] : p \in s}
           Bad == {s \in SUBSET P : Total(g, s) # Total(f, All(s))}
<1>1. \A p \in P : g[p] \in Nat
  <2> SUFFICES ASSUME NEW p \in P PROVE g[p] \in Nat
    OBVIOUS
  <2>1. IsFiniteSet(h[p]) /\ h[p] \in SUBSET S
    BY FS_Subset
  <2>2. Total(f, h[p]) \in Nat
    BY <2>1, TotalType
  <2> QED BY <2>2
<1>2. Bad = {}
  <2> SUFFICES ASSUME Bad # {} PROVE FALSE
    OBVIOUS
  <2>1. Bad \in SUBSET (SUBSET P)
    OBVIOUS
  <2> HIDE DEF Bad
  <2>2. PICK s \in Bad : IsFiniteSet(s) /\ \A z \in s : s \ {z} \notin Bad
    BY <2>1, Smallest
  <2>3. s \in SUBSET P /\ Total(g, s) # Total(f, All(s))
    BY DEF Bad
  <2>4. s # {}
    <3> SUFFICES ASSUME s = {} PROVE FALSE
      OBVIOUS
    <3>1. All(s) = {}
      OBVIOUS
    <3> QED BY <2>3, <3>1, TotalOfNone
  <2> DEFINE z == First(s)
             r == s \ {z}
             A == All(r)
  <2>5. z \in s /\ z \in P /\ r \in SUBSET P
    BY <2>3, <2>4, FirstIn
  <2>6. Total(g, r) = Total(f, A)
    BY <2>2, <2>3, <2>5 DEF Bad
  <2>7. Total(g, s) = g[z] + Total(g, r)
    BY <2>2, <2>4, TotalStep
  <2>8. h[z] \in SUBSET S /\ A \in SUBSET S
    BY <2>5
  <2>9. h[z] \cap A = {}
    <3> SUFFICES ASSUME NEW x \in h[z], NEW p \in r, x \in h[p] PROVE FALSE
      OBVIOUS
    <3>1. p \in P /\ p # z
      BY <2>5
    <3> QED BY <2>5, <3>1
  <2>10. All(s) = h[z] \cup A
    BY <2>5
  <2> HIDE DEF A, All, r, z
  <2>11. IsFiniteSet(h[z]) /\ IsFiniteSet(A)
    BY <2>8, FS_Subset
  <2>12. \A x \in h[z] \cup A : f[x] \in Nat
    BY <2>8
  <2>13. Total(f, h[z] \cup A) = Total(f, h[z]) + Total(f, A)
    BY <2>9, <2>11, <2>12, TotalUnion
  <2> QED BY <2>3, <2>5, <2>6, <2>7, <2>10, <2>13
<1>3. P \in SUBSET P
  OBVIOUS
<1> HIDE DEF Bad
<1>4. ~(Total(g, P) # Total(f, All(P)))
  BY <1>2, <1>3 DEF Bad
<1> QED BY <1>4

LEMMA SumIs == \A f : SumFunction(f) = Total(f, DOMAIN f)
PROOF BY DEF SumFunction, Total

\* The sum grows with a value of the function.
LEMMA SumGrows ==
    ASSUME NEW S, IsFiniteSet(S), NEW f \in [S -> Nat], NEW a \in S,
           NEW g, g = [f EXCEPT ![a] = f[a] + 1]
    PROVE  /\ SumFunction(f) \in Nat
           /\ SumFunction(g) = SumFunction(f) + 1
PROOF
<1> DEFINE R == S \ {a}
<1>1. /\ DOMAIN f = S /\ DOMAIN g = S /\ S = R \cup {a} /\ a \notin R
      /\ f[a] \in Nat /\ g[a] = f[a] + 1
      /\ \A x \in R : f[x] \in Nat /\ g[x] = f[x]
  OBVIOUS
<1>2. IsFiniteSet(R)
  BY FS_Subset
<1> HIDE DEF R
<1>3. Total(f, R \cup {a}) = Total(f, R) + f[a]
  BY <1>1, <1>2, TotalInsert
<1>4. Total(g, R \cup {a}) = Total(g, R) + g[a]
  <2>1. g[a] \in Nat /\ \A x \in R : g[x] \in Nat
    BY <1>1
  <2> QED BY <1>1, <1>2, <2>1, TotalInsert
<1>5. Total(g, R) = Total(f, R) /\ Total(f, R) \in Nat
  BY <1>1, <1>2, TotalAgrees, TotalType
<1>6. Total(f, S) \in Nat /\ Total(g, S) = Total(f, S) + 1
  BY <1>1, <1>3, <1>4, <1>5
<1> QED BY <1>1, <1>6, SumIs

LEMMA SumOfZeros ==
    ASSUME NEW S, IsFiniteSet(S), NEW f, f = [a \in S |-> 0]
    PROVE  SumFunction(f) = 0
PROOF
<1>1. DOMAIN f = S /\ \A a \in S : f[a] = 0
  OBVIOUS
<1>2. Total(f, S) = 0
  BY <1>1, TotalOfEqual
<1> QED BY <1>1, <1>2, SumIs
-----------------------------------------------------------------------------
(* The windows: WindowSpec => []WindowCounts, and EvictForgetsNothing. *)

\* Two seconds of a window share a bucket only if they are the same.
LEMMA SameSecond ==
    ASSUME NEW n \in Nat \ {0}, NEW x \in Nat, NEW y \in Nat, x <= y, y < x + n, x % n = y % n
    PROVE  x = y
PROOF
<1> DEFINE a == x \div n
           b == y \div n
<1>1. x = n * a + (x % n) /\ y = n * b + (y % n)
  <2>1. \A z \in Nat : z = n * (z \div n) + (z % n)
    OBVIOUS
  <2> QED BY <2>1
<1>2. a \in Int /\ b \in Int /\ x % n \in Int
  OBVIOUS
<1> HIDE DEF a, b
<1>3. y - x = n * (b - a)
  BY <1>1, <1>2
<1>4. \A d \in Int : 0 <= n * d /\ n * d < n => d = 0
  OBVIOUS
<1>5. b - a = 0
  BY <1>2, <1>3, <1>4
<1> QED BY <1>3, <1>5

LEMMA BucketOf == \A n \in Nat \ {0}, x \in Nat : x % n \in 0..(n - 1)
PROOF OBVIOUS

Line == [sec : Nat, ev : Events]

\* The requests that the bucket at place p of a window of n seconds holds: no request of
\* another second has taken the place since.
Held(w, n, p) ==
    {j \in DOMAIN w : /\ w[j].sec % n = p
                      /\ \A l \in DOMAIN w : j <= l /\ w[l].sec % n = p => w[l].sec = w[j].sec}

CountIn(w, k) == [j \in DOMAIN w |-> Class[w[j].ev][k]]

OfSecond(w, n, p, s) == \A j \in Held(w, n, p) : w[j].sec = s

BucketOk(b, w, n, p) ==
    /\ b.second \in Nat /\ OfSecond(w, n, p, b.second)
    /\ \A k \in Kinds \ {"traversal"} : b.n[k] = Total(CountIn(w, k), Held(w, n, p))
    /\ b.n["traversal"] = 0

Ordered(w) == \A j, l \in DOMAIN w : j < l => w[j].sec <= w[l].sec

\* While lines are in order, the roots are those of the requests, with the second of the
\* last, but for those that left the widest window.
RootsOk(f, w, k, sec) ==
    /\ IsFiniteSet(DOMAIN f)
    /\ Ordered(w) =>
          /\ \A b \in DOMAIN f : \E j \in DOMAIN w :
                Class[w[j].ev][k] = 1 /\ Root[w[j].ev] = b /\ w[j].sec = f[b]
          /\ \A j \in DOMAIN w : Class[w[j].ev][k] = 1 =>
                \/ Root[w[j].ev] \in DOMAIN f /\ f[Root[w[j].ev]] >= w[j].sec
                \/ w[j].sec <= sec - Widest

BucketsOk(e, w) ==
    \A i \in 1..3 :
       /\ DOMAIN e.buckets[i] = 0..(Sizes[i] - 1)
       /\ \A p \in 0..(Sizes[i] - 1) : BucketOk(e.buckets[i][p], w, Sizes[i], p)

\* The entry e is what the requests w amount to.
Amounts(e, w, sec) ==
    /\ e = [last |-> e.last, seen |-> e.seen, bases404 |-> e.bases404, bases4xx |-> e.bases4xx,
            buckets |-> e.buckets]
    /\ e.last \in Nat
    /\ w # <<>> => e.last = w[Len(w)].sec
    /\ BucketsOk(e, w)
    /\ RootsOk(e.bases404, w, "n404", sec) /\ RootsOk(e.bases4xx, w, "n4xx", sec)

LEMMA SizeTypes ==
    /\ \A i \in 1..3 : Sizes[i] \in Nat \ {0}
    /\ Widest \in Nat \ {0}
PROOF BY WindowSizes DEF WindowSizes, Widest

LEMMA ClassTypes ==
    \A ev \in Events, k \in Kinds : Class[ev][k] \in Nat
PROOF BY ClassAssumption DEF ClassAssumption

LEMMA LineTypes ==
    ASSUME NEW w \in Seq(Line)
    PROVE  /\ DOMAIN w = 1..Len(w) /\ Len(w) \in Nat /\ IsFiniteSet(DOMAIN w)
           /\ \A j \in DOMAIN w : w[j].sec \in Nat /\ w[j].ev \in Events
           /\ \A k \in Kinds, j \in DOMAIN w : CountIn(w, k)[j] \in Nat
PROOF
<1>1. DOMAIN w = 1..Len(w) /\ Len(w) \in Nat
  OBVIOUS
<1>2. \A j \in DOMAIN w : w[j] \in Line
  OBVIOUS
<1>3. \A j \in DOMAIN w : w[j].sec \in Nat /\ w[j].ev \in Events
  BY <1>2 DEF Line
<1>4. IsFiniteSet(1..Len(w))
  BY <1>1, FS_Interval
<1>5. \A k \in Kinds, j \in DOMAIN w : CountIn(w, k)[j] \in Nat
  BY <1>3, ClassTypes DEF CountIn
<1> QED BY <1>1, <1>3, <1>4, <1>5

\* A new entry has nothing, ...
LEMMA NewEntryAmounts ==
    ASSUME NEW sec \in Nat, NEW now \in Nat
    PROVE  Amounts(NewEntry(sec), <<>>, now)
PROOF
<1> DEFINE e == NewEntry(sec)
<1>1. e.last = sec /\ e.bases404 = <<>> /\ e.bases4xx = <<>>
  BY DEF NewEntry
<1>2. \A n, p : Held(<<>>, n, p) = {}
  BY DEF Held
<1>3. ASSUME NEW i \in 1..3
      PROVE  /\ DOMAIN e.buckets[i] = 0..(Sizes[i] - 1)
             /\ \A p \in 0..(Sizes[i] - 1) : BucketOk(e.buckets[i][p], <<>>, Sizes[i], p)
  <2>1. e.buckets[i] = [p \in 0..(Sizes[i] - 1) |-> [second |-> 0, n |-> NoCounts]]
    BY DEF NewEntry
  <2> HIDE DEF e
  <2> SUFFICES ASSUME NEW p \in 0..(Sizes[i] - 1)
               PROVE  BucketOk(e.buckets[i][p], <<>>, Sizes[i], p)
    BY <2>1
  <2> DEFINE b == e.buckets[i][p]
  <2>2. b.second = 0 /\ b.n = NoCounts
    BY <2>1
  <2>3. \A k \in Kinds : b.n[k] = 0
    BY <2>2 DEF NoCounts
  <2> DEFINE H == Held(<<>>, Sizes[i], p)
  <2>a. H = {}
    BY <1>2
  <2> HIDE DEF H
  <2>4. \A k \in Kinds : Total(CountIn(<<>>, k), H) = 0
    BY <2>a, TotalOfNone
  <2>5. "traversal" \in Kinds
    BY DEF Kinds
  <2> HIDE DEF b
  <2>6. BucketOk(b, <<>>, Sizes[i], p)
    <3>1. b.second \in Nat /\ OfSecond(<<>>, Sizes[i], p, b.second)
      BY <2>2, <2>a DEF OfSecond, H
    <3>2. \A k \in Kinds \ {"traversal"} : b.n[k] = Total(CountIn(<<>>, k), H)
      BY <2>3, <2>4
    <3>3. b.n["traversal"] = 0
      BY <2>3, <2>5
    <3> QED BY <3>1, <3>2, <3>3 DEF BucketOk, H
  <2> QED BY <2>6 DEF b
<1>4. \A k : RootsOk(<<>>, <<>>, k, now)
  <2>1. DOMAIN <<>> = {}
    OBVIOUS
  <2>2. IsFiniteSet({})
    BY FS_EmptySet
  <2> QED BY <2>1, <2>2 DEF RootsOk
<1> HIDE DEF e
<1>5. BucketsOk(e, <<>>)
  BY <1>3 DEF BucketsOk
<1>6. e = [last |-> e.last, seen |-> e.seen, bases404 |-> e.bases404, bases4xx |-> e.bases4xx,
           buckets |-> e.buckets]
  BY DEF e, NewEntry
<1> QED BY <1>1, <1>4, <1>5, <1>6 DEF Amounts, e

\* ... and it does not matter when the anchor moves.
LEMMA AmountsLater ==
    ASSUME NEW e, NEW w \in Seq(Line), NEW sec \in Nat, NEW later \in Nat, sec <= later,
           Amounts(e, w, sec)
    PROVE  Amounts(e, w, later)
PROOF
<1>1. ASSUME NEW f, NEW k, RootsOk(f, w, k, sec) PROVE RootsOk(f, w, k, later)
  <2>1. \A j \in DOMAIN w : w[j].sec <= sec - Widest => w[j].sec <= later - Widest
    BY LineTypes, SizeTypes
  <2> QED BY <1>1, <2>1 DEF RootsOk
<1> QED BY <1>1 DEF Amounts

\* A request is added to the bucket of its second, or takes it for its own.
LEMMA HeldAfter ==
    ASSUME NEW w \in Seq(Line), NEW r \in Line, NEW n, NEW p
    PROVE  /\ r.sec % n # p => Held(Append(w, r), n, p) = Held(w, n, p)
           /\ r.sec % n = p /\ OfSecond(w, n, p, r.sec) =>
                 Held(Append(w, r), n, p) = Held(w, n, p) \cup {Len(w) + 1}
           /\ \A s : r.sec % n = p /\ s # r.sec /\ OfSecond(w, n, p, s) =>
                 Held(Append(w, r), n, p) = {Len(w) + 1}
PROOF
<1> DEFINE v == Append(w, r)
           m == Len(w) + 1
<1>1. /\ Len(w) \in Nat /\ DOMAIN w = 1..Len(w) /\ DOMAIN v = 1..m /\ v[m] = r
      /\ \A j \in DOMAIN w : v[j] = w[j]
  OBVIOUS
<1>2. DOMAIN v = DOMAIN w \cup {m} /\ m \notin DOMAIN w /\ \A j \in DOMAIN v : j <= m
  BY <1>1
<1>3. \A j \in DOMAIN w : j <= m /\ ~(m <= j)
  BY <1>1
<1> HIDE DEF v, m
<1>4. \A j \in DOMAIN w : j \in Held(v, n, p) <=>
          j \in Held(w, n, p) /\ (r.sec % n = p => r.sec = w[j].sec)
  BY <1>1, <1>2, <1>3 DEF Held
<1>5. m \in Held(v, n, p) <=> r.sec % n = p
  BY <1>1, <1>2, <1>3 DEF Held
<1>6. Held(v, n, p) \subseteq DOMAIN v /\ Held(w, n, p) \subseteq DOMAIN w
  BY DEF Held
<1>7. r.sec % n # p => Held(v, n, p) = Held(w, n, p)
  BY <1>2, <1>4, <1>5, <1>6
<1>8. ASSUME r.sec % n = p, OfSecond(w, n, p, r.sec)
      PROVE  Held(v, n, p) = Held(w, n, p) \cup {m}
  BY <1>2, <1>4, <1>5, <1>6, <1>8 DEF OfSecond
<1>9. ASSUME r.sec % n = p, NEW s, s # r.sec, OfSecond(w, n, p, s)
      PROVE  Held(v, n, p) = {m}
  BY <1>2, <1>4, <1>5, <1>6, <1>9 DEF OfSecond
<1> QED BY <1>7, <1>8, <1>9 DEF v, m

LEMMA HeldByOthers ==
    ASSUME NEW w \in Seq(Line), NEW r \in Line, NEW n, NEW s, s # r.sec,
           OfSecond(w, n, r.sec % n, s)
    PROVE  Held(Append(w, r), n, r.sec % n) = {Len(w) + 1}
PROOF
<1> DEFINE p == r.sec % n
<1>1. OfSecond(w, n, p, s) /\ r.sec % n = p
  OBVIOUS
<1> HIDE DEF p
<1>2. Held(Append(w, r), n, p) = {Len(w) + 1}
  BY <1>1, HeldAfter
<1> QED BY <1>2 DEF p

LEMMA HeldBySame ==
    ASSUME NEW w \in Seq(Line), NEW r \in Line, NEW n, OfSecond(w, n, r.sec % n, r.sec)
    PROVE  Held(Append(w, r), n, r.sec % n) = Held(w, n, r.sec % n) \cup {Len(w) + 1}
PROOF
<1> DEFINE p == r.sec % n
<1>1. OfSecond(w, n, p, r.sec) /\ r.sec % n = p
  OBVIOUS
<1> HIDE DEF p
<1>2. Held(Append(w, r), n, p) = Held(w, n, p) \cup {Len(w) + 1}
  BY <1>1, HeldAfter
<1> QED BY <1>2 DEF p

LEMMA HeldIsFinite ==
    ASSUME NEW w \in Seq(Line), NEW n, NEW p
    PROVE  Held(w, n, p) \subseteq DOMAIN w /\ IsFiniteSet(Held(w, n, p))
PROOF
<1>1. Held(w, n, p) \subseteq DOMAIN w
  BY DEF Held
<1> QED BY <1>1, LineTypes, FS_Subset

LEMMA BucketAfter ==
    ASSUME NEW w \in Seq(Line), NEW r \in Line, NEW n \in Nat \ {0}, NEW b,
           BucketOk(b, w, n, r.sec % n)
    PROVE  BucketOk(BucketRecord(b, r.sec, Class[r.ev]), Append(w, r), n, r.sec % n)
PROOF
<1> DEFINE p == r.sec % n
           v == Append(w, r)
           m == Len(w) + 1
           counts == Class[r.ev]
           d == BucketRecord(b, r.sec, counts)
           K == IF b.second = r.sec THEN Held(w, n, p) ELSE {}
<1>1. r.sec \in Nat /\ r.ev \in Events
  BY DEF Line
<1>2. Held(v, n, p) = K \cup {m}
  <2>1. OfSecond(w, n, r.sec % n, b.second)
    BY DEF BucketOk
  <2>2. CASE b.second = r.sec
    BY <2>1, <2>2, HeldBySame
  <2>3. CASE b.second # r.sec
    BY <2>1, <2>3, HeldByOthers
  <2> QED BY <2>2, <2>3
<1>3. /\ Len(w) \in Nat /\ DOMAIN w = 1..Len(w) /\ DOMAIN v = 1..m /\ v[m] = r
      /\ \A j \in DOMAIN w : v[j] = w[j]
  OBVIOUS
<1>4. v \in Seq(Line)
  OBVIOUS
<1>5. K \subseteq DOMAIN w /\ IsFiniteSet(K) /\ m \notin K
  <2>1. m \notin DOMAIN w
    BY <1>3
  <2> QED BY <2>1, HeldIsFinite, FS_EmptySet
<1>6. d.second = r.sec
  BY DEF BucketRecord
<1>7. \A k \in Kinds : d.n[k] = (IF b.second = r.sec THEN b.n[k] ELSE 0)
                               + (IF k = "traversal" THEN 0 ELSE counts[k])
  BY DEF BucketRecord
<1>8. "traversal" \in Kinds
  BY DEF Kinds
<1> HIDE DEF p, v, m, d, K
<1>9. OfSecond(v, n, p, d.second)
  <2>1. \A j \in K : w[j].sec = r.sec
    BY DEF K, BucketOk, p, OfSecond
  <2> QED BY <1>2, <1>3, <1>5, <1>6, <2>1 DEF OfSecond
<1>10. d.n["traversal"] = 0
  <2>1. b.n["traversal"] = 0
    BY DEF BucketOk
  <2> QED BY <1>7, <1>8, <2>1
<1>11. ASSUME NEW k \in Kinds, k # "traversal"
       PROVE  d.n[k] = Total(CountIn(v, k), Held(v, n, p))
  <2> DEFINE f == CountIn(w, k)
             g == CountIn(v, k)
             c == counts[k]
  <2>1. g[m] = c /\ \A j \in K : g[j] = f[j]
    <3>1. m \in DOMAIN v /\ K \subseteq DOMAIN v /\ K \subseteq DOMAIN w
      BY <1>3, <1>5 DEF m
    <3>2. \A j \in DOMAIN v : g[j] = Class[v[j].ev][k]
      BY DEF CountIn
    <3>3. \A j \in DOMAIN w : f[j] = Class[w[j].ev][k]
      BY DEF CountIn
    <3> QED BY <1>3, <3>1, <3>2, <3>3
  <2>2. c \in Nat /\ \A j \in K : f[j] \in Nat
    BY <1>1, <1>5, ClassTypes, LineTypes
  <2>3. d.n[k] = (IF b.second = r.sec THEN b.n[k] ELSE 0) + c
    BY <1>7, <1>11
  <2> HIDE DEF f, g, c
  <2>4. Total(g, K \cup {m}) = Total(g, K) + g[m]
    BY <1>5, <2>1, <2>2, TotalInsert
  <2>5. Total(g, K) = Total(f, K)
    BY <1>5, <2>1, TotalAgrees
  <2>6. Total(f, K) = IF b.second = r.sec THEN b.n[k] ELSE 0
    <3>1. CASE b.second = r.sec
      BY <1>11, <3>1 DEF K, BucketOk, f, p
    <3>2. CASE b.second # r.sec
      BY <3>2, TotalOfNone DEF K
    <3> QED BY <3>1, <3>2
  <2> QED BY <1>2, <2>1, <2>3, <2>4, <2>5, <2>6 DEF g
<1>12. BucketOk(d, v, n, p)
  BY <1>1, <1>6, <1>9, <1>10, <1>11 DEF BucketOk
<1> QED BY <1>12 DEF d, v, p

LEMMA BucketStays ==
    ASSUME NEW w \in Seq(Line), NEW r \in Line, NEW n \in Nat \ {0}, NEW b, NEW p,
           r.sec % n # p, BucketOk(b, w, n, p)
    PROVE  BucketOk(b, Append(w, r), n, p)
PROOF
<1> DEFINE v == Append(w, r)
           H == Held(w, n, p)
<1>1. Held(v, n, p) = H
  BY HeldAfter
<1>2. DOMAIN w \subseteq DOMAIN v /\ \A j \in DOMAIN w : v[j] = w[j]
  OBVIOUS
<1>3. H \subseteq DOMAIN w /\ IsFiniteSet(H)
  BY HeldIsFinite
<1> HIDE DEF v, H
<1>4. ASSUME NEW k \in Kinds \ {"traversal"} PROVE b.n[k] = Total(CountIn(v, k), H)
  <2>1. \A j \in H : CountIn(v, k)[j] = CountIn(w, k)[j]
    BY <1>2, <1>3 DEF CountIn
  <2>2. Total(CountIn(v, k), H) = Total(CountIn(w, k), H)
    BY <1>3, <2>1, TotalAgrees
  <2>3. b.n[k] = Total(CountIn(w, k), H)
    BY DEF BucketOk, H
  <2> QED BY <2>2, <2>3
<1>5. OfSecond(v, n, p, b.second)
  BY <1>1, <1>2, <1>3 DEF BucketOk, H, OfSecond
<1>6. BucketOk(b, v, n, p)
  BY <1>1, <1>4, <1>5 DEF BucketOk
<1> QED BY <1>6 DEF v

\* The buckets of an entry after a request.
LEMMA BucketsAfter ==
    ASSUME NEW w \in Seq(Line), NEW r \in Line, NEW e, BucketsOk(e, w)
    PROVE  BucketsOk(EntryAfter(e, r.ev, r.sec), Append(w, r))
PROOF
<1> DEFINE d == EntryAfter(e, r.ev, r.sec)
           v == Append(w, r)
<1>1. r.sec \in Nat
  BY DEF Line
<1>2. ASSUME NEW i \in 1..3
      PROVE  /\ DOMAIN d.buckets[i] = 0..(Sizes[i] - 1)
             /\ \A p \in 0..(Sizes[i] - 1) : BucketOk(d.buckets[i][p], v, Sizes[i], p)
  <2> DEFINE n == Sizes[i]
             q == r.sec % n
             old == e.buckets[i]
             new == d.buckets[i]
  <2>1. n \in Nat \ {0} /\ q \in 0..(n - 1)
    BY <1>1, SizeTypes, BucketOf
  <2>2. new = [old EXCEPT ![q] = BucketRecord(old[q], r.sec, Class[r.ev])]
    BY DEF EntryAfter
  <2>3. DOMAIN old = 0..(n - 1) /\ \A p \in 0..(n - 1) : BucketOk(old[p], w, n, p)
    BY DEF BucketsOk
  <2> HIDE DEF n, old, new
  <2>4. DOMAIN new = 0..(n - 1)
    BY <2>2, <2>3
  <2>5. ASSUME NEW p \in 0..(n - 1) PROVE BucketOk(new[p], v, n, p)
    <3>1. CASE p = q
      <4>1. new[q] = BucketRecord(old[q], r.sec, Class[r.ev])
        BY <2>1, <2>2, <2>3
      <4>2. BucketOk(old[q], w, n, q)
        BY <2>1, <2>3
      <4>3. BucketOk(BucketRecord(old[q], r.sec, Class[r.ev]), v, n, q)
        BY <2>1, <4>2, BucketAfter
      <4> QED BY <3>1, <4>1, <4>3
    <3>2. CASE p # q
      <4>1. new[p] = old[p] /\ BucketOk(old[p], w, n, p)
        BY <2>2, <2>3, <3>2
      <4>2. BucketOk(old[p], v, n, p)
        BY <2>1, <3>2, <4>1, BucketStays
      <4> QED BY <4>1, <4>2
    <3> QED BY <3>1, <3>2
  <2> QED BY <2>4, <2>5 DEF n, new
<1> HIDE DEF d, v
<1>3. BucketsOk(d, v)
  BY <1>2 DEF BucketsOk
<1> QED BY <1>3 DEF d, v

\* The roots after a request.
LEMMA RootsAfter ==
    ASSUME NEW w \in Seq(Line), NEW r \in Line, NEW f, NEW k \in Kinds, NEW sec \in Nat,
           RootsOk(f, w, k, sec)
    PROVE  RootsOk(IF Class[r.ev][k] = 1 THEN Stamped(f, Root[r.ev], r.sec) ELSE f,
                   Append(w, r), k, sec)
PROOF
<1> DEFINE v == Append(w, r)
           m == Len(w) + 1
           root == Root[r.ev]
           stamped == Stamped(f, root, r.sec)
           g == IF Class[r.ev][k] = 1 THEN stamped ELSE f
<1>1. r.sec \in Nat /\ r.ev \in Events
  BY DEF Line
<1>2. /\ Len(w) \in Nat /\ DOMAIN w = 1..Len(w) /\ DOMAIN v = 1..m /\ v[m] = r
      /\ \A j \in DOMAIN w : v[j] = w[j]
  OBVIOUS
<1>3. DOMAIN v = DOMAIN w \cup {m} /\ m \in DOMAIN v /\ \A j \in DOMAIN w : j < m
  BY <1>2
<1>4. /\ DOMAIN stamped = DOMAIN f \cup {root} /\ stamped[root] = r.sec
      /\ \A b \in DOMAIN f \ {root} : stamped[b] = f[b]
  BY DEF Stamped
<1>5. \A j \in DOMAIN w : w[j].sec \in Nat
  BY LineTypes
<1> HIDE DEF v, m, root, stamped, g
<1>6. IsFiniteSet(DOMAIN g)
  <2>1. IsFiniteSet(DOMAIN f)
    BY DEF RootsOk
  <2>2. IsFiniteSet(DOMAIN f \cup {root})
    BY <2>1, FS_AddElement
  <2> QED BY <1>4, <2>1, <2>2 DEF g
<1>7. ASSUME Ordered(v)
      PROVE  /\ \A b \in DOMAIN g : \E j \in DOMAIN v :
                    Class[v[j].ev][k] = 1 /\ Root[v[j].ev] = b /\ v[j].sec = g[b]
             /\ \A j \in DOMAIN v : Class[v[j].ev][k] = 1 =>
                    \/ Root[v[j].ev] \in DOMAIN g /\ g[Root[v[j].ev]] >= v[j].sec
                    \/ v[j].sec <= sec - Widest
  <2>1. Ordered(w)
    BY <1>2, <1>3, <1>7 DEF Ordered
  <2>2. \A j \in DOMAIN w : w[j].sec <= r.sec
    BY <1>2, <1>3, <1>7 DEF Ordered
  <2>3. \A b \in DOMAIN f : \E j \in DOMAIN w :
           Class[w[j].ev][k] = 1 /\ Root[w[j].ev] = b /\ w[j].sec = f[b]
    BY <2>1 DEF RootsOk
  <2>4. \A j \in DOMAIN w : Class[w[j].ev][k] = 1 =>
           \/ Root[w[j].ev] \in DOMAIN f /\ f[Root[w[j].ev]] >= w[j].sec
           \/ w[j].sec <= sec - Widest
    BY <2>1 DEF RootsOk
  <2>5. CASE Class[r.ev][k] = 1
    <3>1. g = stamped
      BY <2>5 DEF g
    <3>2. ASSUME NEW b \in DOMAIN g
          PROVE  \E j \in DOMAIN v :
                    Class[v[j].ev][k] = 1 /\ Root[v[j].ev] = b /\ v[j].sec = g[b]
      <4>1. CASE b = root
        BY <1>2, <1>3, <1>4, <2>5, <3>1, <4>1 DEF root
      <4>2. CASE b # root
        <5>1. PICK j \in DOMAIN w :
                 Class[w[j].ev][k] = 1 /\ Root[w[j].ev] = b /\ w[j].sec = f[b]
          BY <1>4, <2>3, <3>1, <3>2, <4>2
        <5> QED BY <1>2, <1>3, <1>4, <3>1, <3>2, <4>2, <5>1
      <4> QED BY <4>1, <4>2
    <3>3. ASSUME NEW j \in DOMAIN v, Class[v[j].ev][k] = 1
          PROVE  \/ Root[v[j].ev] \in DOMAIN g /\ g[Root[v[j].ev]] >= v[j].sec
                 \/ v[j].sec <= sec - Widest
      <4>1. CASE j = m
        BY <1>1, <1>2, <1>4, <3>1, <4>1 DEF root
      <4>2. CASE j # m
        <5>1. j \in DOMAIN w /\ v[j] = w[j]
          BY <1>2, <1>3, <4>2
        <5>2. CASE Root[w[j].ev] = root
          BY <1>1, <1>4, <1>5, <2>2, <3>1, <5>1, <5>2
        <5>3. CASE Root[w[j].ev] # root
          BY <1>4, <2>4, <3>1, <3>3, <5>1, <5>3
        <5> QED BY <5>2, <5>3
      <4> QED BY <4>1, <4>2
    <3> QED BY <3>2, <3>3
  <2>6. CASE Class[r.ev][k] # 1
    <3>1. g = f
      BY <2>6 DEF g
    <3>2. ASSUME NEW b \in DOMAIN f
          PROVE  \E j \in DOMAIN v :
                    Class[v[j].ev][k] = 1 /\ Root[v[j].ev] = b /\ v[j].sec = f[b]
      <4>1. PICK j \in DOMAIN w :
               Class[w[j].ev][k] = 1 /\ Root[w[j].ev] = b /\ w[j].sec = f[b]
        BY <2>3
      <4> QED BY <1>2, <1>3, <4>1
    <3>3. ASSUME NEW j \in DOMAIN v, Class[v[j].ev][k] = 1
          PROVE  \/ Root[v[j].ev] \in DOMAIN f /\ f[Root[v[j].ev]] >= v[j].sec
                 \/ v[j].sec <= sec - Widest
      <4>1. j \in DOMAIN w /\ v[j] = w[j]
        BY <1>2, <1>3, <2>6, <3>3
      <4> QED BY <2>4, <3>3, <4>1
    <3> QED BY <3>1, <3>2, <3>3
  <2> QED BY <2>5, <2>6
<1>8. RootsOk(g, v, k, sec)
  BY <1>6, <1>7 DEF RootsOk
<1> QED BY <1>8 DEF g, v, stamped, root

LEMMA AmountsAfter ==
    ASSUME NEW w \in Seq(Line), NEW r \in Line, NEW e, NEW sec \in Nat, Amounts(e, w, sec)
    PROVE  Amounts(EntryAfter(e, r.ev, r.sec), Append(w, r), sec)
PROOF
<1> DEFINE d == EntryAfter(e, r.ev, r.sec)
           v == Append(w, r)
<1>1. d.last = r.sec /\ r.sec \in Nat
  BY DEF EntryAfter, Line
<1>2. v[Len(v)] = r
  OBVIOUS
<1>3. BucketsOk(e, w) /\ RootsOk(e.bases404, w, "n404", sec) /\ RootsOk(e.bases4xx, w, "n4xx", sec)
  BY DEF Amounts
<1>4. "n404" \in Kinds /\ "n4xx" \in Kinds
  BY DEF Kinds
<1>5. BucketsOk(d, v)
  BY <1>3, BucketsAfter
<1>6. RootsOk(d.bases404, v, "n404", sec)
  <2>1. d.bases404 = IF Class[r.ev]["n404"] = 1 THEN Stamped(e.bases404, Root[r.ev], r.sec)
                     ELSE e.bases404
    BY DEF EntryAfter
  <2> QED BY <1>3, <1>4, <2>1, RootsAfter
<1>7. RootsOk(d.bases4xx, v, "n4xx", sec)
  <2>1. d.bases4xx = IF Class[r.ev]["n4xx"] = 1 THEN Stamped(e.bases4xx, Root[r.ev], r.sec)
                     ELSE e.bases4xx
    BY DEF EntryAfter
  <2> QED BY <1>3, <1>4, <2>1, RootsAfter
<1>9. d = [last |-> d.last, seen |-> d.seen, bases404 |-> d.bases404, bases4xx |-> d.bases4xx,
           buckets |-> d.buckets]
  BY DEF EntryAfter
<1> HIDE DEF d, v
<1>8. Amounts(d, v, sec)
  BY <1>1, <1>2, <1>5, <1>6, <1>7, <1>9 DEF Amounts
<1> QED BY <1>8 DEF d, v

\* Reading the counts forgets the roots that left the widest window.
LEMMA RootsFresh ==
    ASSUME NEW w \in Seq(Line), NEW f, NEW k, NEW sec \in Nat, RootsOk(f, w, k, sec)
    PROVE  RootsOk(Fresh(f, sec - Widest), w, k, sec)
PROOF
<1> DEFINE g == Fresh(f, sec - Widest)
<1>1. DOMAIN g \subseteq DOMAIN f /\ \A b \in DOMAIN g : g[b] = f[b]
  BY DEF Fresh
<1>2. \A b \in DOMAIN f : b \in DOMAIN g \/ ~(f[b] > sec - Widest)
  BY DEF Fresh
<1>3. sec - Widest \in Int /\ \A j \in DOMAIN w : w[j].sec \in Nat
  BY SizeTypes, LineTypes
<1> HIDE DEF g
<1>4. IsFiniteSet(DOMAIN g)
  BY <1>1, FS_Subset DEF RootsOk
<1>5. ASSUME Ordered(w)
      PROVE  /\ \A b \in DOMAIN g : \E j \in DOMAIN w :
                    Class[w[j].ev][k] = 1 /\ Root[w[j].ev] = b /\ w[j].sec = g[b]
             /\ \A j \in DOMAIN w : Class[w[j].ev][k] = 1 =>
                    \/ Root[w[j].ev] \in DOMAIN g /\ g[Root[w[j].ev]] >= w[j].sec
                    \/ w[j].sec <= sec - Widest
  <2>1. \A b \in DOMAIN f : f[b] \in Nat
    BY <1>3, <1>5 DEF RootsOk
  <2> SUFFICES ASSUME NEW j \in DOMAIN w, Class[w[j].ev][k] = 1
               PROVE  \/ Root[w[j].ev] \in DOMAIN g /\ g[Root[w[j].ev]] >= w[j].sec
                      \/ w[j].sec <= sec - Widest
    BY <1>1, <1>5 DEF RootsOk
  <2> DEFINE b == Root[w[j].ev]
  <2>2. CASE b \in DOMAIN f /\ f[b] >= w[j].sec
    <3>1. CASE b \in DOMAIN g
      BY <1>1, <2>2, <3>1
    <3>2. CASE ~(f[b] > sec - Widest)
      <4>1. f[b] \in Nat /\ w[j].sec \in Nat
        BY <1>3, <2>1, <2>2
      <4>2. w[j].sec <= sec - Widest
        BY <1>3, <2>2, <3>2, <4>1
      <4> QED BY <4>2
    <3> QED BY <1>2, <2>2, <3>1, <3>2
  <2>3. CASE w[j].sec <= sec - Widest
    BY <2>3
  <2> QED BY <1>5, <2>2, <2>3 DEF RootsOk
<1>6. RootsOk(g, w, k, sec)
  BY <1>4, <1>5 DEF RootsOk
<1> QED BY <1>6 DEF g

\* The requests that lie in a window of n seconds, and those its live buckets hold.
Within(w, n, sec) == {j \in DOMAIN w : w[j].sec > sec - n}

CountedBy(e, w, i, sec) ==
    UNION {Held(w, Sizes[i], p) : p \in LiveBuckets(e.buckets[i], sec - Sizes[i])}

RootsIn(w, k, n, sec) == {Root[w[j].ev] : j \in {l \in Within(w, n, sec) : CountIn(w, k)[l] = 1}}

LEMMA LiveAreBuckets ==
    ASSUME NEW w, NEW e, BucketsOk(e, w), NEW i \in 1..3, NEW sec
    PROVE  /\ LiveBuckets(e.buckets[i], sec - Sizes[i]) \subseteq 0..(Sizes[i] - 1)
           /\ IsFiniteSet(LiveBuckets(e.buckets[i], sec - Sizes[i]))
PROOF
<1> DEFINE n == Sizes[i]
           L == LiveBuckets(e.buckets[i], sec - n)
<1>1. DOMAIN e.buckets[i] = 0..(n - 1)
  BY DEF BucketsOk
<1>2. L \subseteq 0..(n - 1)
  BY <1>1 DEF LiveBuckets
<1>3. n \in Int
  BY SizeTypes
<1> HIDE DEF L, n
<1>5. IsFiniteSet(0..(n - 1))
  BY <1>3, FS_Interval
<1>4. IsFiniteSet(L)
  BY <1>2, <1>5, FS_Subset
<1> QED BY <1>2, <1>4 DEF L, n

\* The sum over the live buckets is that over the requests they hold, ...
LEMMA SumIsTotal ==
    ASSUME NEW w \in Seq(Line), NEW e, BucketsOk(e, w), NEW i \in 1..3, NEW sec,
           NEW k \in Kinds \ {"traversal"}
    PROVE  Sum(e, i, sec, k) = Total(CountIn(w, k), CountedBy(e, w, i, sec))
PROOF
<1> DEFINE n == Sizes[i]
           B == e.buckets[i]
           L == LiveBuckets(B, sec - n)
           D == DOMAIN w
           f == CountIn(w, k)
           g == [p \in DOMAIN B |-> B[p].n[k]]
           h == [p \in L |-> Held(w, n, p)]
<1>1. DOMAIN B = 0..(n - 1) /\ \A p \in 0..(n - 1) : BucketOk(B[p], w, n, p)
  BY DEF BucketsOk
<1>2. L \subseteq 0..(n - 1) /\ IsFiniteSet(L)
  BY LiveAreBuckets
<1>3. Sum(e, i, sec, k) = Total(g, L)
  BY DEF Sum, Total
<1>4. \A p \in L : g[p] = Total(f, h[p])
  BY <1>1, <1>2 DEF BucketOk
<1>5. h \in [L -> SUBSET D]
  BY HeldIsFinite
<1>6. \A p, q \in L : p # q => h[p] \cap h[q] = {}
  BY DEF Held
<1>7. IsFiniteSet(D) /\ \A j \in D : f[j] \in Nat
  BY LineTypes
<1>8. CountedBy(e, w, i, sec) = UNION {h[p] : p \in L}
  BY DEF CountedBy
<1> HIDE DEF L, D, f, g, h
<1>9. Total(g, L) = Total(f, UNION {h[p] : p \in L})
  BY <1>2, <1>4, <1>5, <1>6, <1>7, TotalOfFamily
<1> QED BY <1>3, <1>8, <1>9 DEF f

\* ... that over traversals is none.
LEMMA SumOfTraversals ==
    ASSUME NEW w \in Seq(Line), NEW e, BucketsOk(e, w), NEW i \in 1..3, NEW sec
    PROVE  Sum(e, i, sec, "traversal") = 0
PROOF
<1> DEFINE n == Sizes[i]
           B == e.buckets[i]
           L == LiveBuckets(B, sec - n)
           g == [p \in DOMAIN B |-> B[p].n["traversal"]]
<1>1. DOMAIN B = 0..(n - 1) /\ \A p \in 0..(n - 1) : BucketOk(B[p], w, n, p)
  BY DEF BucketsOk
<1>2. L \subseteq 0..(n - 1) /\ IsFiniteSet(L)
  BY LiveAreBuckets
<1>3. \A p \in L : g[p] = 0
  BY <1>1, <1>2 DEF BucketOk
<1>4. Sum(e, i, sec, "traversal") = Total(g, L)
  BY DEF Sum, Total
<1> HIDE DEF L, g
<1>5. Total(g, L) = 0
  BY <1>2, <1>3, TotalOfEqual
<1> QED BY <1>4, <1>5

\* What live buckets hold lies in the window, ...
LEMMA CountedLiesWithin ==
    ASSUME NEW w \in Seq(Line), NEW e, BucketsOk(e, w), NEW i \in 1..3, NEW sec
    PROVE  CountedBy(e, w, i, sec) \subseteq Within(w, Sizes[i], sec)
PROOF
<1> DEFINE n == Sizes[i]
           L == LiveBuckets(e.buckets[i], sec - n)
<1>1. \A p \in 0..(n - 1) : BucketOk(e.buckets[i][p], w, n, p)
  BY DEF BucketsOk
<1>2. L \subseteq 0..(n - 1) /\ \A p \in L : e.buckets[i][p].second > sec - n
  BY LiveAreBuckets DEF LiveBuckets
<1> SUFFICES ASSUME NEW p \in L, NEW j \in Held(w, n, p) PROVE j \in Within(w, n, sec)
  BY DEF CountedBy
<1>3. OfSecond(w, n, p, e.buckets[i][p].second)
  BY <1>1, <1>2 DEF BucketOk
<1>4. w[j].sec > sec - n /\ j \in DOMAIN w
  BY <1>2, <1>3 DEF OfSecond, Held
<1> QED BY <1>4 DEF Within

\* ... and while lines are in order, all that lies in the window is held by one.
LEMMA WithinIsCounted ==
    ASSUME NEW w \in Seq(Line), NEW e, BucketsOk(e, w), NEW i \in 1..3, NEW sec \in Nat,
           Ordered(w), \A j \in DOMAIN w : w[j].sec <= sec
    PROVE  CountedBy(e, w, i, sec) = Within(w, Sizes[i], sec)
PROOF
<1> DEFINE n == Sizes[i]
           L == LiveBuckets(e.buckets[i], sec - n)
<1>1. n \in Nat \ {0} /\ DOMAIN w = 1..Len(w) /\ Len(w) \in Nat
      /\ \A j \in DOMAIN w : w[j].sec \in Nat
  BY SizeTypes, LineTypes
<1>2. /\ DOMAIN e.buckets[i] = 0..(n - 1)
      /\ \A p \in 0..(n - 1) : BucketOk(e.buckets[i][p], w, n, p)
  BY DEF BucketsOk
<1>3. ASSUME NEW j \in Within(w, n, sec)
      PROVE  \E p \in L : j \in Held(w, n, p)
  <2> DEFINE x == w[j].sec
             p == x % n
  <2>1. j \in DOMAIN w /\ x \in Nat /\ x > sec - n
    BY <1>1 DEF Within
  <2>2. p \in 0..(n - 1)
    BY <1>1, <2>1, BucketOf
  <2>3. ASSUME NEW l \in DOMAIN w, j <= l, w[l].sec % n = p PROVE w[l].sec = x
    <3> DEFINE y == w[l].sec
    <3>1. y \in Nat /\ x <= y /\ y <= sec
      <4>1. CASE j = l
        BY <1>1, <4>1
      <4>2. CASE j # l
        <5>1. j < l
          BY <1>1, <2>1, <2>3, <4>2
        <5> QED BY <1>1, <2>1, <5>1 DEF Ordered
      <4> QED BY <4>1, <4>2
    <3>2. x % n = y % n
      BY <2>3
    <3> HIDE DEF x, y, p, n
    <3>3. y < x + n
      BY ONLY <1>1, <2>1, <3>1, sec \in Nat
    <3>4. x = y
      BY ONLY <1>1, <2>1, <3>1, <3>2, <3>3, SameSecond
    <3> QED BY <3>4 DEF y
  <2>4. j \in Held(w, n, p)
    BY <2>1, <2>3 DEF Held
  <2>5. e.buckets[i][p].second = x
    BY <1>2, <2>2, <2>4 DEF BucketOk, OfSecond
  <2>6. p \in L
    BY <1>2, <2>1, <2>2, <2>5 DEF LiveBuckets
  <2> QED BY <2>4, <2>6
<1>4. Within(w, n, sec) \subseteq CountedBy(e, w, i, sec)
  BY <1>3 DEF CountedBy
<1> QED BY <1>4, CountedLiesWithin

LEMMA WithinIsFinite ==
    ASSUME NEW w \in Seq(Line), NEW n, NEW sec
    PROVE  /\ IsFiniteSet(Within(w, n, sec)) /\ Within(w, n, sec) \subseteq DOMAIN w
           /\ \A k \in Kinds, j \in Within(w, n, sec) : CountIn(w, k)[j] \in Nat
PROOF
<1>1. Within(w, n, sec) \subseteq DOMAIN w
  BY DEF Within
<1> QED BY <1>1, LineTypes, FS_Subset

LEMMA MinOfTwo ==
    ASSUME NEW x \in Nat, NEW y \in Nat
    PROVE  Min({x, y}) = IF x <= y THEN x ELSE y
PROOF
<1> DEFINE m == IF x <= y THEN x ELSE y
<1>1. m \in {x, y} /\ \A z \in {x, y} : m <= z
  OBVIOUS
<1>2. \A u \in {x, y} : (\A z \in {x, y} : u <= z) => u = m
  OBVIOUS
<1> HIDE DEF m
<1>3. Min({x, y}) = m
  BY <1>1, <1>2 DEF Min
<1> QED BY <1>3 DEF m

LEMMA OneOrNone ==
    \A ev \in Events : Class[ev]["n404"] \in {0, 1} /\ Class[ev]["n4xx"] \in {0, 1}
PROOF
<1> SUFFICES ASSUME NEW ev \in Events
             PROVE  Class[ev]["n404"] \in {0, 1} /\ Class[ev]["n4xx"] \in {0, 1}
  OBVIOUS
<1>1. Class[ev] = Classify(ev)
  BY DEF Class
<1>2. Classify(ev)["n404"] \in {0, 1}
  BY DEF Classify
<1>3. Classify(ev)["n4xx"] \in {0, 1}
  BY DEF Classify
<1> QED BY <1>1, <1>2, <1>3

\* There are no more roots than requests.
LEMMA RootsAreRequests ==
    ASSUME NEW w \in Seq(Line), NEW n, NEW sec, NEW k \in {"n404", "n4xx"}
    PROVE  /\ IsFiniteSet(RootsIn(w, k, n, sec))
           /\ Cardinality(RootsIn(w, k, n, sec)) \in Nat
           /\ Cardinality(RootsIn(w, k, n, sec)) <= Total(CountIn(w, k), Within(w, n, sec))
PROOF
<1> DEFINE W == Within(w, n, sec)
           f == CountIn(w, k)
           J == {j \in W : f[j] = 1}
           R == {Root[w[j].ev] : j \in J}
           s == [j \in J |-> Root[w[j].ev]]
<1>1. IsFiniteSet(W) /\ W \subseteq DOMAIN w
  BY WithinIsFinite
<1>2. \A j \in W : f[j] \in {0, 1}
  BY <1>1, OneOrNone, LineTypes DEF CountIn
<1>3. s \in Surjection(J, R)
  BY DEF Surjection
<1>4. R = RootsIn(w, k, n, sec)
  BY DEF RootsIn
<1> HIDE DEF W, f, R, s
<1>5. Total(f, W) = Cardinality(J)
  BY <1>1, <1>2, TotalOfOnes
<1>6. IsFiniteSet(J)
  BY <1>1, FS_Subset
<1> HIDE DEF J
<1>7. IsFiniteSet(R) /\ Cardinality(R) <= Cardinality(J) /\ Cardinality(R) \in Nat
  BY <1>3, <1>6, FS_Surjection, FS_CardinalityType
<1> QED BY <1>4, <1>5, <1>7 DEF f, W

\* While lines are in order, the roots counted are those of the requests in the window.
LEMMA RootsCounted ==
    ASSUME NEW w \in Seq(Line), NEW f, NEW k \in Kinds, NEW sec \in Nat, NEW n \in Nat,
           n <= Widest, RootsOk(f, w, k, sec), Ordered(w)
    PROVE  Bases(f, sec - n) = Cardinality(RootsIn(w, k, n, sec))
PROOF
<1> DEFINE since == sec - n
           B == {b \in DOMAIN f : f[b] > since}
           J == {l \in Within(w, n, sec) : CountIn(w, k)[l] = 1}
<1>1. Widest \in Nat /\ \A j \in DOMAIN w : w[j].sec \in Nat
  BY SizeTypes, LineTypes
<1>2. J = {j \in DOMAIN w : w[j].sec > since /\ Class[w[j].ev][k] = 1}
  BY DEF Within, CountIn
<1>3. /\ \A b \in DOMAIN f : \E j \in DOMAIN w :
            Class[w[j].ev][k] = 1 /\ Root[w[j].ev] = b /\ w[j].sec = f[b]
      /\ \A j \in DOMAIN w : Class[w[j].ev][k] = 1 =>
            \/ Root[w[j].ev] \in DOMAIN f /\ f[Root[w[j].ev]] >= w[j].sec
            \/ w[j].sec <= sec - Widest
  BY DEF RootsOk
<1>4. ASSUME NEW b \in B PROVE \E j \in J : Root[w[j].ev] = b
  BY <1>2, <1>3, <1>4
<1>5. ASSUME NEW j \in J PROVE Root[w[j].ev] \in B
  <2> DEFINE b == Root[w[j].ev]
             x == w[j].sec
  <2>1. j \in DOMAIN w /\ x > since /\ x \in Nat /\ Class[w[j].ev][k] = 1
    BY <1>1, <1>2, <1>5
  <2>2. ~(x <= sec - Widest)
    BY ONLY <1>1, <2>1, n \in Nat, n <= Widest, sec \in Nat DEF since
  <2>3. b \in DOMAIN f /\ f[b] >= x
    BY <1>3, <2>1, <2>2
  <2>4. f[b] \in Nat
    BY <1>1, <1>3, <2>3
  <2> HIDE DEF b, x
  <2>5. since \in Int
    BY ONLY n \in Nat, sec \in Nat DEF since
  <2> HIDE DEF since
  <2>6. f[b] > since
    BY ONLY <2>1, <2>3, <2>4, <2>5
  <2> QED BY <2>3, <2>6 DEF b
<1>6. B = {Root[w[j].ev] : j \in J}
  BY <1>4, <1>5
<1>7. B = RootsIn(w, k, n, sec)
  BY <1>6 DEF RootsIn
<1> QED BY <1>7 DEF Bases

LEMMA BasesType ==
    ASSUME NEW f, IsFiniteSet(DOMAIN f), NEW since
    PROVE  Bases(f, since) \in Nat
PROOF
<1> DEFINE D == DOMAIN f
           B == {b \in D : f[b] > since}
<1>1. B \subseteq D
  OBVIOUS
<1>2. Bases(f, since) = Cardinality(B)
  BY DEF Bases
<1> HIDE DEF B
<1>3. IsFiniteSet(B)
  BY <1>1, FS_Subset
<1> QED BY <1>2, <1>3, FS_CardinalityType

LEMMA CountersAre ==
    ASSUME NEW e, NEW i \in 1..3, NEW sec \in Nat
    PROVE  /\ Counters(e, i, sec)["distinct4xx"]
                = Min({Sum(e, i, sec, "n4xx"), Bases(e.bases4xx, sec - Sizes[i])})
           /\ DOMAIN e.bases404 # {} =>
                 Counters(e, i, sec)["n404"]
                   = Min({Sum(e, i, sec, "n404"), Bases(e.bases404, sec - Sizes[i])})
           /\ DOMAIN e.bases404 = {} => Counters(e, i, sec)["n404"] = Sum(e, i, sec, "n404")
           /\ \A k \in Kinds \ {"n404"} : Counters(e, i, sec)[k] = Sum(e, i, sec, k)
PROOF
<1> DEFINE c == Counters(e, i, sec)
           since == sec - Sizes[i]
           value(k) == CASE k = "distinct4xx" ->
                               Min({Sum(e, i, sec, "n4xx"), Bases(e.bases4xx, since)})
                         [] k = "n404" /\ DOMAIN e.bases404 # {} ->
                               Min({Sum(e, i, sec, k), Bases(e.bases404, since)})
                         [] OTHER -> Sum(e, i, sec, k)
<1>1. \A k \in Kinds \cup {"distinct4xx"} : c[k] = value(k)
  BY DEF Counters
<1>2. "n404" \in Kinds /\ "distinct4xx" \notin Kinds
  BY DEF Kinds
<1>3. c["distinct4xx"] = value("distinct4xx") /\ c["n404"] = value("n404")
  BY <1>1, <1>2
<1>4. value("distinct4xx") = Min({Sum(e, i, sec, "n4xx"), Bases(e.bases4xx, since)})
  OBVIOUS
<1>5. value("n404") = IF DOMAIN e.bases404 # {}
                      THEN Min({Sum(e, i, sec, "n404"), Bases(e.bases404, since)})
                      ELSE Sum(e, i, sec, "n404")
  OBVIOUS
<1>6. \A k \in Kinds \ {"n404"} : value(k) = Sum(e, i, sec, k)
  BY <1>2
<1> HIDE DEF c, value
<1>7. /\ c["distinct4xx"] = Min({Sum(e, i, sec, "n4xx"), Bases(e.bases4xx, since)})
      /\ c["n404"] = IF DOMAIN e.bases404 # {}
                     THEN Min({Sum(e, i, sec, "n404"), Bases(e.bases404, since)})
                     ELSE Sum(e, i, sec, "n404")
      /\ \A k \in Kinds \ {"n404"} : c[k] = Sum(e, i, sec, k)
  BY <1>1, <1>3, <1>4, <1>5, <1>6
<1> QED BY <1>7 DEF c

\* A sum never exceeds what lies in the window.
LEMMA SumsAreModest ==
    ASSUME NEW w \in Seq(Line), NEW e, BucketsOk(e, w), NEW i \in 1..3, NEW sec \in Nat,
           NEW k \in Kinds
    PROVE  /\ Sum(e, i, sec, k) \in Nat
           /\ Total(CountIn(w, k), Within(w, Sizes[i], sec)) \in Nat
           /\ Sum(e, i, sec, k) <= Total(CountIn(w, k), Within(w, Sizes[i], sec))
PROOF
<1> DEFINE W == Within(w, Sizes[i], sec)
           C == CountedBy(e, w, i, sec)
           f == CountIn(w, k)
<1>1. IsFiniteSet(W) /\ \A j \in W : f[j] \in Nat
  BY WithinIsFinite
<1>2. C \subseteq W
  BY CountedLiesWithin
<1>3. k # "traversal" => Sum(e, i, sec, k) = Total(f, C)
  BY SumIsTotal
<1>4. k = "traversal" => Sum(e, i, sec, k) = 0
  BY SumOfTraversals
<1> HIDE DEF W, C, f
<1>5. Total(f, C) \in Nat /\ Total(f, W) \in Nat /\ Total(f, C) <= Total(f, W)
  BY <1>1, <1>2, TotalOfPart
<1>6. Sum(e, i, sec, k) \in Nat /\ Total(f, W) \in Nat /\ Sum(e, i, sec, k) <= Total(f, W)
  BY <1>3, <1>4, <1>5
<1> QED BY <1>6 DEF W, f

LEMMA CountsAreModest ==
    ASSUME NEW w \in Seq(Line), NEW e, NEW i \in 1..3, NEW sec \in Nat, Amounts(e, w, sec),
           NEW k \in Kinds
    PROVE  Counters(e, i, sec)[k] <= Total(CountIn(w, k), Within(w, Sizes[i], sec))
PROOF
<1> DEFINE x == Sum(e, i, sec, k)
           t == Total(CountIn(w, k), Within(w, Sizes[i], sec))
           y == Bases(e.bases404, sec - Sizes[i])
           c == Counters(e, i, sec)[k]
<1>1. x \in Nat /\ t \in Nat /\ x <= t
  BY SumsAreModest DEF Amounts
<1>2. y \in Nat
  BY BasesType DEF Amounts, RootsOk
<1>3. c = x \/ c = Min({x, y})
  <2>1. CASE k = "n404"
    <3>1. c = Counters(e, i, sec)["n404"] /\ x = Sum(e, i, sec, "n404")
      BY <2>1
    <3> HIDE DEF c, x
    <3>2. DOMAIN e.bases404 # {} => c = Min({x, y})
      BY <3>1, CountersAre
    <3>3. DOMAIN e.bases404 = {} => c = x
      BY <3>1, CountersAre
    <3> QED BY <3>2, <3>3
  <2>2. CASE k # "n404"
    <3>1. k \in Kinds \ {"n404"}
      BY <2>2
    <3>2. Counters(e, i, sec)[k] = Sum(e, i, sec, k)
      BY <3>1, CountersAre
    <3> QED BY <3>2
  <2> QED BY <2>1, <2>2
<1> HIDE DEF x, t, y, c
<1>4. c <= t
  BY <1>1, <1>2, <1>3, MinOfTwo
<1> QED BY <1>4 DEF c, t

Until(w, sec) == \A j \in DOMAIN w : w[j].sec <= sec

\* While lines are in order, a sum is all that lies in the window, ...
LEMMA SumsInOrder ==
    ASSUME NEW w \in Seq(Line), NEW e, NEW i \in 1..3, NEW sec \in Nat, BucketsOk(e, w),
           Ordered(w), Until(w, sec), NEW k \in Kinds \ {"traversal"}
    PROVE  Sum(e, i, sec, k) = Total(CountIn(w, k), Within(w, Sizes[i], sec))
PROOF
<1>1. CountedBy(e, w, i, sec) = Within(w, Sizes[i], sec)
  BY WithinIsCounted DEF Until
<1>2. Sum(e, i, sec, k) = Total(CountIn(w, k), CountedBy(e, w, i, sec))
  BY SumIsTotal
<1> QED BY <1>1, <1>2

\* ... and the lesser of a sum and the roots is that of the roots.
LEMMA RootsInOrder ==
    ASSUME NEW w \in Seq(Line), NEW e, NEW i \in 1..3, NEW sec \in Nat, BucketsOk(e, w),
           Ordered(w), Until(w, sec), Sizes[i] <= Widest,
           NEW k \in {"n404", "n4xx"}, NEW f, RootsOk(f, w, k, sec)
    PROVE  /\ Min({Sum(e, i, sec, k), Bases(f, sec - Sizes[i])})
                = Cardinality(RootsIn(w, k, Sizes[i], sec))
           /\ DOMAIN f = {} => Sum(e, i, sec, k) = Cardinality(RootsIn(w, k, Sizes[i], sec))
PROOF
<1> DEFINE n == Sizes[i]
           x == Sum(e, i, sec, k)
           y == Bases(f, sec - n)
           R == RootsIn(w, k, n, sec)
           W == Within(w, n, sec)
           g == CountIn(w, k)
           c == Cardinality(R)
<1>1. k \in Kinds \ {"traversal"} /\ n \in Nat
  BY SizeTypes DEF Kinds
<1>2. x = Total(g, W)
  BY <1>1, SumsInOrder
<1>3. c \in Nat /\ c <= Total(g, W) /\ x \in Nat
  BY <1>1, RootsAreRequests, SumsAreModest
<1>4. y = c
  BY <1>1, RootsCounted
<1>5. ASSUME DOMAIN f = {} PROVE x = 0 /\ c = 0
  <2>1. y = 0
    <3>1. {b \in DOMAIN f : f[b] > sec - n} = {}
      BY <1>5
    <3> QED BY <3>1, FS_EmptySet DEF Bases
  <2>2. \A j \in W : g[j] = 0
    <3> SUFFICES ASSUME NEW j \in W PROVE g[j] = 0
      OBVIOUS
    <3>1. j \in DOMAIN w /\ w[j].sec > sec - n /\ w[j].sec \in Nat /\ w[j].ev \in Events
      BY LineTypes DEF Within
    <3>2. ~(w[j].sec <= sec - Widest)
      <4> DEFINE z == w[j].sec
      <4>1. z \in Nat /\ z > sec - n /\ Widest \in Nat /\ n <= Widest /\ n \in Nat
        BY <1>1, <3>1, SizeTypes
      <4> HIDE DEF z, n
      <4>2. ~(z <= sec - Widest)
        BY ONLY <4>1, sec \in Nat
      <4> QED BY <4>2 DEF z
    <3>3. Class[w[j].ev][k] # 1
      BY <1>5, <3>1, <3>2 DEF RootsOk
    <3> QED BY <3>1, <3>3, OneOrNone DEF CountIn
  <2>3. IsFiniteSet(W)
    BY WithinIsFinite
  <2> HIDE DEF x, y, R, W, g, c
  <2>4. Total(g, W) = 0
    BY <2>2, <2>3, TotalOfEqual
  <2> QED BY <1>2, <1>4, <2>1, <2>4
<1> HIDE DEF x, y, c, W, g
<1>6. Min({x, y}) = c
  BY <1>2, <1>3, <1>4, MinOfTwo
<1>7. DOMAIN f = {} => x = c
  BY <1>5
<1> QED BY <1>6, <1>7 DEF x, y, c

LEMMA CountsInOrderAre ==
    ASSUME NEW w \in Seq(Line), NEW e, NEW i \in 1..3, NEW sec \in Nat, Amounts(e, w, sec),
           Ordered(w), Until(w, sec), Sizes[i] <= Widest
    PROVE  /\ \A k \in Kinds \ {"n404", "traversal"} :
                 Counters(e, i, sec)[k] = Total(CountIn(w, k), Within(w, Sizes[i], sec))
           /\ Counters(e, i, sec)["n404"] = Cardinality(RootsIn(w, "n404", Sizes[i], sec))
           /\ Counters(e, i, sec)["distinct4xx"] = Cardinality(RootsIn(w, "n4xx", Sizes[i], sec))
PROOF
<1>1. BucketsOk(e, w) /\ RootsOk(e.bases404, w, "n404", sec) /\ RootsOk(e.bases4xx, w, "n4xx", sec)
  BY DEF Amounts
<1>2. ASSUME NEW k \in Kinds \ {"n404", "traversal"}
      PROVE  Counters(e, i, sec)[k] = Total(CountIn(w, k), Within(w, Sizes[i], sec))
  <2>1. Counters(e, i, sec)[k] = Sum(e, i, sec, k)
    BY CountersAre
  <2>2. Sum(e, i, sec, k) = Total(CountIn(w, k), Within(w, Sizes[i], sec))
    BY <1>1, SumsInOrder
  <2> QED BY <2>1, <2>2
<1>3. Counters(e, i, sec)["n404"] = Cardinality(RootsIn(w, "n404", Sizes[i], sec))
  <2> DEFINE c == Cardinality(RootsIn(w, "n404", Sizes[i], sec))
             f == e.bases404
             y == Bases(f, sec - Sizes[i])
             x == Sum(e, i, sec, "n404")
  <2>1. RootsOk(f, w, "n404", sec)
    BY <1>1
  <2>2. (DOMAIN f # {} => Counters(e, i, sec)["n404"] = Min({x, y}))
        /\ (DOMAIN f = {} => Counters(e, i, sec)["n404"] = x)
    BY CountersAre
  <2> HIDE DEF f
  <2>3. Min({x, y}) = c /\ (DOMAIN f = {} => x = c)
    BY <1>1, <2>1, RootsInOrder
  <2> QED BY <2>2, <2>3
<1>4. Counters(e, i, sec)["distinct4xx"] = Cardinality(RootsIn(w, "n4xx", Sizes[i], sec))
  <2> DEFINE c == Cardinality(RootsIn(w, "n4xx", Sizes[i], sec))
             f == e.bases4xx
             y == Bases(f, sec - Sizes[i])
             x == Sum(e, i, sec, "n4xx")
  <2>1. RootsOk(f, w, "n4xx", sec)
    BY <1>1
  <2>2. Counters(e, i, sec)["distinct4xx"] = Min({x, y})
    BY CountersAre
  <2> HIDE DEF f
  <2>3. Min({x, y}) = c
    BY <1>1, <2>1, RootsInOrder
  <2> QED BY <2>2, <2>3
<1> QED BY <1>2, <1>3, <1>4

LEMMA AmountsRead ==
    ASSUME NEW w \in Seq(Line), NEW e, NEW sec \in Nat, Amounts(e, w, sec)
    PROVE  Amounts([e EXCEPT !.bases404 = Fresh(@, sec - Widest),
                             !.bases4xx = Fresh(@, sec - Widest)], w, sec)
PROOF
<1> DEFINE f == Fresh(e.bases404, sec - Widest)
           g == Fresh(e.bases4xx, sec - Widest)
           d == [e EXCEPT !.bases404 = Fresh(@, sec - Widest),
                          !.bases4xx = Fresh(@, sec - Widest)]
<1>1. RootsOk(f, w, "n404", sec) /\ RootsOk(g, w, "n4xx", sec)
  BY RootsFresh DEF Amounts
<1>2. d = [e EXCEPT !.bases404 = f, !.bases4xx = g]
  OBVIOUS
<1>3. e = [last |-> e.last, seen |-> e.seen, bases404 |-> e.bases404, bases4xx |-> e.bases4xx,
           buckets |-> e.buckets]
  BY DEF Amounts
<1> HIDE DEF f, g, d
<1>4. d = [last |-> e.last, seen |-> e.seen, bases404 |-> f, bases4xx |-> g,
           buckets |-> e.buckets]
  BY <1>2, <1>3
<1>5. /\ d = [last |-> d.last, seen |-> d.seen, bases404 |-> d.bases404, bases4xx |-> d.bases4xx,
              buckets |-> d.buckets]
      /\ d.last = e.last /\ d.bases404 = f /\ d.bases4xx = g /\ d.buckets = e.buckets
  BY <1>4
<1>6. BucketsOk(d, w)
  BY <1>5 DEF Amounts, BucketsOk
<1>7. d.last \in Nat /\ (w # <<>> => d.last = w[Len(w)].sec)
  BY <1>5 DEF Amounts
<1>8. Amounts(d, w, sec)
  BY <1>1, <1>5, <1>6, <1>7 DEF Amounts
<1> QED BY <1>8 DEF d
-----------------------------------------------------------------------------
\* The request being recorded.
RecordingOk ==
    \/ recording = NoRequest
    \/ /\ recording \in [step : {"entry", "write", "count"}, ip : Addresses, ev : Events,
                         sec : Nat, live : BOOLEAN]
       /\ recording.sec <= lastEventSec
       /\ (recording.step = "write" /\ recording.live) => recording.ip \in DOMAIN ips

EntryOf(a) ==
    IF a \in DOMAIN ips THEN Amounts(ips[a], written[a], lastEventSec) ELSE written[a] = <<>>

\* Each entry is what was written to it amounts to.
WindowInv ==
    /\ lastEventSec \in Nat /\ clock \in Nat
    /\ written \in [Addresses -> Seq(Line)]
    /\ \A a \in Addresses : Until(written[a], lastEventSec)
    /\ DOMAIN ips \subseteq Addresses
    /\ \A a \in Addresses : EntryOf(a)
    /\ RecordingOk

LEMMA WindowStarts == WindowInit => WindowInv
PROOF
<1> SUFFICES ASSUME WindowInit PROVE WindowInv
  OBVIOUS
<1>1. ips = <<>> /\ lastEventSec = 0 /\ recording = NoRequest /\ clock = 1
      /\ written = [a \in Addresses |-> <<>>]
  BY DEF WindowInit
<1>2. DOMAIN ips = {}
  BY <1>1
<1>3. written \in [Addresses -> Seq(Line)] /\ \A a \in Addresses : written[a] = <<>>
  BY <1>1
<1>4. Until(<<>>, lastEventSec)
  BY DEF Until
<1> QED BY <1>1, <1>2, <1>3, <1>4 DEF WindowInv, RecordingOk, EntryOf

LEMMA RequestFields ==
    ASSUME WindowInv, recording.step # "none"
    PROVE  /\ recording.step \in {"entry", "write", "count"} /\ recording.ip \in Addresses
           /\ recording.ev \in Events /\ recording.sec \in Nat /\ recording.live \in BOOLEAN
           /\ recording.sec <= lastEventSec
           /\ recording = [step |-> recording.step, ip |-> recording.ip, ev |-> recording.ev,
                           sec |-> recording.sec, live |-> recording.live]
PROOF BY DEF WindowInv, RecordingOk, NoRequest

LEMMA AnchorStep ==
    ASSUME WindowInv, NEW a \in Addresses, NEW ev \in Events, NEW sec \in 1..clock,
           Anchor(a, ev, sec)
    PROVE  WindowInv'
PROOF
<1>1. sec \in Nat /\ lastEventSec \in Nat /\ lastEventSec' \in Nat /\ lastEventSec <= lastEventSec'
      /\ sec <= lastEventSec'
  BY DEF Anchor, WindowInv
<1>2. ips' = ips /\ clock' = clock /\ written' = written
  BY DEF Anchor
<1>3. recording' = [step |-> "entry", ip |-> a, ev |-> ev, sec |-> sec, live |-> FALSE]
  BY DEF Anchor
<1>4. RecordingOk'
  BY <1>1, <1>3 DEF RecordingOk
<1>5. ASSUME NEW b \in Addresses PROVE Until(written[b], lastEventSec)' /\ EntryOf(b)'
  <2> DEFINE w == written[b]
  <2>1. w \in Seq(Line) /\ Until(w, lastEventSec) /\ EntryOf(b)
    BY DEF WindowInv
  <2>2. Until(w, lastEventSec')
    <3>1. \A j \in DOMAIN w : w[j].sec \in Nat
      BY <2>1, LineTypes
    <3> HIDE DEF w
    <3> QED BY <1>1, <2>1, <3>1 DEF Until
  <2>3. EntryOf(b)'
    <3>1. CASE b \in DOMAIN ips
      <4>1. Amounts(ips[b], w, lastEventSec)
        BY <2>1, <3>1 DEF EntryOf
      <4>2. Amounts(ips[b], w, lastEventSec')
        BY <1>1, <2>1, <4>1, AmountsLater
      <4> QED BY <1>2, <3>1, <4>2 DEF EntryOf
    <3>2. CASE b \notin DOMAIN ips
      BY <1>2, <2>1, <3>2 DEF EntryOf
    <3> QED BY <3>1, <3>2
  <2> QED BY <1>2, <2>2, <2>3
<1> QED BY <1>1, <1>2, <1>4, <1>5 DEF WindowInv

LEMMA FindEntryStep ==
    ASSUME WindowInv, FindEntry
    PROVE  WindowInv'
PROOF
<1> DEFINE a == recording.ip
           r == recording.sec
<1>1. a \in Addresses /\ r \in Nat
  BY RequestFields DEF FindEntry
<1>2. lastEventSec' = lastEventSec /\ clock' = clock /\ written' = written
  BY DEF FindEntry
<1>3. /\ DOMAIN ips' = DOMAIN ips \cup {a}
      /\ \A b \in DOMAIN ips : ips'[b] = ips[b]
      /\ a \notin DOMAIN ips => ips'[a] = NewEntry(r)
  BY DEF FindEntry
<1>4. RecordingOk'
  <2>1. recording' = [step |-> "write", ip |-> recording.ip, ev |-> recording.ev,
                      sec |-> recording.sec, live |-> TRUE]
    BY RequestFields DEF FindEntry
  <2> QED BY <1>2, <1>3, <2>1, RequestFields DEF FindEntry, RecordingOk
<1>5. ASSUME NEW b \in Addresses PROVE EntryOf(b)'
  <2>1. EntryOf(b) /\ lastEventSec \in Nat
    BY DEF WindowInv
  <2>2. CASE b \in DOMAIN ips
    BY <1>2, <1>3, <2>1, <2>2 DEF EntryOf
  <2>3. CASE b \notin DOMAIN ips /\ b = a
    <3>1. written[b] = <<>>
      BY <2>1, <2>3 DEF EntryOf
    <3>2. Amounts(NewEntry(r), <<>>, lastEventSec)
      BY <1>1, <2>1, NewEntryAmounts
    <3> QED BY <1>2, <1>3, <2>3, <3>1, <3>2 DEF EntryOf
  <2>4. CASE b \notin DOMAIN ips /\ b # a
    BY <1>2, <1>3, <2>1, <2>4 DEF EntryOf
  <2> QED BY <2>2, <2>3, <2>4
<1> QED BY <1>1, <1>2, <1>3, <1>4, <1>5 DEF WindowInv

LEMMA WriteStep ==
    ASSUME WindowInv, Write
    PROVE  WindowInv'
PROOF
<1> DEFINE a == recording.ip
           r == [sec |-> recording.sec, ev |-> recording.ev]
           e == EntryAfter(ips[a], r.ev, r.sec)
<1>1. /\ a \in Addresses /\ r \in Line /\ r.sec <= lastEventSec
      /\ r.sec = recording.sec /\ r.ev = recording.ev
  BY RequestFields DEF Write, Line
<1>2. lastEventSec' = lastEventSec /\ clock' = clock
  BY DEF Write
<1>3. RecordingOk'
  <2>1. recording' = [step |-> "count", ip |-> recording.ip, ev |-> recording.ev,
                      sec |-> recording.sec, live |-> recording.live]
    BY RequestFields DEF Write
  <2> QED BY <1>2, <2>1, RequestFields DEF Write, RecordingOk
<1>4. CASE ~recording.live
  <2>1. ips' = ips /\ written' = written
    BY <1>4 DEF Write
  <2> QED BY <1>2, <1>3, <2>1 DEF WindowInv, EntryOf
<1>5. CASE recording.live
  <2>1. a \in DOMAIN ips
    BY <1>5, RequestFields DEF WindowInv, RecordingOk, Write, NoRequest
  <2>2. ips' = [ips EXCEPT ![a] = e] /\ written' = [written EXCEPT ![a] = Append(@, r)]
    BY <1>1, <1>5 DEF Write
  <2>3. written \in [Addresses -> Seq(Line)] /\ written[a] \in Seq(Line) /\ lastEventSec \in Nat
    BY <1>1 DEF WindowInv
  <2> DEFINE w == written[a]
             v == Append(w, r)
  <2>4. Until(w, lastEventSec) /\ Amounts(ips[a], w, lastEventSec)
    BY <1>1, <2>1 DEF WindowInv, EntryOf
  <2>5. /\ DOMAIN ips' = DOMAIN ips /\ ips'[a] = e
        /\ \A b \in DOMAIN ips \ {a} : ips'[b] = ips[b]
    BY <2>1, <2>2
  <2>6. written' \in [Addresses -> Seq(Line)] /\ written'[a] = v
        /\ \A b \in Addresses \ {a} : written'[b] = written[b]
    BY <1>1, <2>2, <2>3
  <2> HIDE DEF a, r, w, e
  <2>7. Amounts(e, v, lastEventSec)
    BY <1>1, <2>3, <2>4, AmountsAfter DEF e, w
  <2>8. Until(v, lastEventSec)
    <3>1. /\ Len(w) \in Nat /\ DOMAIN w = 1..Len(w) /\ DOMAIN v = 1..(Len(w) + 1)
          /\ v[Len(w) + 1] = r /\ \A j \in DOMAIN w : v[j] = w[j]
      BY <1>1, <2>3 DEF w
    <3> HIDE DEF v
    <3>2. \A j \in DOMAIN v : j = Len(w) + 1 \/ j \in DOMAIN w
      BY <3>1
    <3> QED BY <1>1, <2>4, <3>1, <3>2 DEF Until
  <2> HIDE DEF v
  <2>9. ASSUME NEW b \in Addresses PROVE Until(written[b], lastEventSec)' /\ EntryOf(b)'
    <3>1. CASE b = a
      BY <1>2, <2>1, <2>5, <2>6, <2>7, <2>8, <3>1 DEF EntryOf
    <3>2. CASE b # a
      BY <1>2, <2>5, <2>6, <3>2 DEF EntryOf, WindowInv
    <3> QED BY <3>1, <3>2
  <2> QED BY <1>2, <1>3, <2>5, <2>6, <2>9 DEF WindowInv
<1> QED BY <1>4, <1>5, RequestFields DEF Write

LEMMA ReadCountersStep ==
    ASSUME WindowInv, ReadCounters
    PROVE  WindowInv'
PROOF
<1> DEFINE a == recording.ip
           since == lastEventSec - Widest
           e == [ips[a] EXCEPT !.bases404 = Fresh(@, since), !.bases4xx = Fresh(@, since)]
<1>1. a \in Addresses
  BY RequestFields DEF ReadCounters
<1>2. lastEventSec' = lastEventSec /\ clock' = clock /\ written' = written
      /\ recording' = NoRequest
  BY DEF ReadCounters
<1>3. CASE a \notin DOMAIN ips
  <2>1. ips' = ips
    BY <1>3 DEF ReadCounters
  <2> QED BY <1>2, <2>1 DEF WindowInv, EntryOf, RecordingOk
<1>4. CASE a \in DOMAIN ips
  <2>1. ips' = [ips EXCEPT ![a] = e]
    BY <1>4 DEF ReadCounters
  <2>2. /\ DOMAIN ips' = DOMAIN ips /\ ips'[a] = e
        /\ \A b \in DOMAIN ips \ {a} : ips'[b] = ips[b]
    BY <1>4, <2>1
  <2>3. written[a] \in Seq(Line) /\ lastEventSec \in Nat
        /\ Amounts(ips[a], written[a], lastEventSec)
    BY <1>1, <1>4 DEF WindowInv, EntryOf
  <2>4. Amounts(e, written[a], lastEventSec)
    BY <2>3, AmountsRead
  <2> HIDE DEF a, e
  <2>5. ASSUME NEW b \in Addresses PROVE EntryOf(b)'
    <3>1. CASE b = a
      BY <1>2, <1>4, <2>2, <2>4, <3>1 DEF EntryOf
    <3>2. CASE b # a
      BY <1>2, <2>2, <3>2 DEF EntryOf, WindowInv
    <3> QED BY <3>1, <3>2
  <2> QED BY <1>2, <2>2, <2>5 DEF WindowInv, RecordingOk
<1> QED BY <1>3, <1>4

LEMMA EvictStep ==
    ASSUME WindowInv, Evict
    PROVE  WindowInv'
PROOF
<1> DEFINE I == Idlers
<1>1. lastEventSec' = lastEventSec /\ clock' = clock
  BY DEF Evict
<1>2. DOMAIN ips' = DOMAIN ips \ I /\ \A b \in DOMAIN ips \ I : ips'[b] = ips[b]
  BY DEF Evict
<1>3. \A b \in Addresses : written'[b] = IF b \in I THEN <<>> ELSE written[b]
  BY DEF Evict
<1>4. written' \in [Addresses -> Seq(Line)]
  BY DEF Evict, WindowInv
<1>5. I \subseteq DOMAIN ips
  BY DEF Idlers
<1>6. RecordingOk'
  <2>1. CASE recording.step = "write" /\ recording.ip \in I
    <3>1. recording' = [step |-> "write", ip |-> recording.ip, ev |-> recording.ev,
                        sec |-> recording.sec, live |-> FALSE]
      BY <2>1, RequestFields DEF Evict
    <3> QED BY <1>1, <2>1, <3>1, RequestFields DEF RecordingOk
  <2>2. CASE ~(recording.step = "write" /\ recording.ip \in I)
    <3>1. recording' = recording
      BY <2>2 DEF Evict
    <3> HIDE DEF I
    <3> QED BY <1>1, <1>2, <2>2, <3>1 DEF RecordingOk, WindowInv
  <2> QED BY <2>1, <2>2
<1> HIDE DEF I
<1>7. ASSUME NEW b \in Addresses PROVE Until(written[b], lastEventSec)' /\ EntryOf(b)'
  <2>1. CASE b \in I
    <3>1. Until(<<>>, lastEventSec)
      BY DEF Until
    <3> QED BY <1>1, <1>2, <1>3, <2>1, <3>1 DEF EntryOf
  <2>2. CASE b \notin I
    BY <1>1, <1>2, <1>3, <2>2 DEF EntryOf, WindowInv
  <2> QED BY <2>1, <2>2
<1> QED BY <1>1, <1>2, <1>4, <1>6, <1>7 DEF WindowInv

LEMMA WindowSteps == WindowInv /\ [WindowNext]_windowVars => WindowInv'
PROOF
<1> SUFFICES ASSUME WindowInv, [WindowNext]_windowVars PROVE WindowInv'
  OBVIOUS
<1>1. ASSUME NEW a \in Addresses, NEW ev \in Events, NEW sec \in 1..clock, Anchor(a, ev, sec)
      PROVE  WindowInv'
  BY <1>1, AnchorStep
<1>2. CASE FindEntry
  BY <1>2, FindEntryStep
<1>3. CASE Write
  BY <1>3, WriteStep
<1>4. CASE ReadCounters
  BY <1>4, ReadCountersStep
<1>5. CASE Evict
  BY <1>5, EvictStep
<1>6. CASE Second
  <2>1. UNCHANGED <<ips, lastEventSec, recording, written>> /\ clock' = clock + 1
    BY <1>6 DEF Second
  <2> QED BY <2>1 DEF WindowInv, RecordingOk, EntryOf
<1>7. CASE UNCHANGED windowVars
  BY <1>7 DEF windowVars, WindowInv, RecordingOk, EntryOf
<1> QED BY <1>1, <1>2, <1>3, <1>4, <1>5, <1>6, <1>7 DEF WindowNext

LEMMA WindowInvHolds == WindowSpec => []WindowInv
PROOF BY WindowStarts, WindowSteps, PTL DEF WindowSpec
-----------------------------------------------------------------------------
LEMMA ExpectedIs ==
    ASSUME NEW a, NEW i \in 1..3, NEW k
    PROVE  /\ Expected(a, i, k) = Total(CountIn(written[a], k),
                                        Within(written[a], Sizes[i], lastEventSec))
           /\ (\A l \in DOMAIN written[a] : CountIn(written[a], k)[l] = Class[written[a][l].ev][k])
              => ExpectedRoots(a, i, k)
                    = Cardinality(RootsIn(written[a], k, Sizes[i], lastEventSec))
PROOF
<1>1. Within(written[a], Sizes[i], lastEventSec) = InWindow(a, i)
  BY DEF Within, InWindow
<1>2. Expected(a, i, k) = Total(CountIn(written[a], k), InWindow(a, i))
  BY DEF Expected, Total, CountIn
<1>3. InWindow(a, i) \subseteq DOMAIN written[a]
  BY DEF InWindow
<1>4. ASSUME \A l \in DOMAIN written[a] :
                CountIn(written[a], k)[l] = Class[written[a][l].ev][k]
      PROVE  {l \in InWindow(a, i) : Class[written[a][l].ev][k] = 1}
                = {l \in InWindow(a, i) : CountIn(written[a], k)[l] = 1}
  BY <1>3, <1>4
<1>5. ASSUME \A l \in DOMAIN written[a] :
                CountIn(written[a], k)[l] = Class[written[a][l].ev][k]
      PROVE  ExpectedRoots(a, i, k)
                = Cardinality(RootsIn(written[a], k, Sizes[i], lastEventSec))
  BY <1>1, <1>4, <1>5 DEF ExpectedRoots, RootsIn
<1> QED BY <1>1, <1>2, <1>5

\* No request counts twice, nor after it left the window, in whatever order the lines
\* of several logs arrive (SlidingWindow.Record, ipWindow.sum).
THEOREM NothingCountsTwice == WindowSpec => []NeverOvercounts
PROOF
<1>1. WindowInv => NeverOvercounts
  <2> SUFFICES ASSUME WindowInv, NEW a \in DOMAIN ips, NEW i \in 1..3, NEW k \in Occurring
               PROVE  Counters(ips[a], i, lastEventSec)[k] <= Expected(a, i, k)
    BY DEF NeverOvercounts
  <2>1. a \in Addresses /\ written[a] \in Seq(Line) /\ lastEventSec \in Nat
        /\ Amounts(ips[a], written[a], lastEventSec)
    BY DEF WindowInv, EntryOf
  <2>2. k \in Kinds
    BY DEF Occurring
  <2> DEFINE w == written[a]
             e == ips[a]
  <2>3. Expected(a, i, k) = Total(CountIn(w, k), Within(w, Sizes[i], lastEventSec))
    BY ExpectedIs
  <2> HIDE DEF w, e
  <2>4. Counters(e, i, lastEventSec)[k]
           <= Total(CountIn(w, k), Within(w, Sizes[i], lastEventSec))
    BY <2>1, <2>2, CountsAreModest DEF w, e
  <2> QED BY <2>3, <2>4 DEF e
<1> QED BY <1>1, WindowInvHolds, PTL

\* The sizes of the windows are given in ascending order.
WindowsAscend == Sizes[1] <= Sizes[2] /\ Sizes[2] <= Sizes[3]

\* While the lines of an address arrive in their order, every window counts each of
\* them and each root of a 4xx, whatever other addresses do to the anchor, the eviction
\* does to the entry and the readers do to the roots; and never more in any order.
THEOREM LinesInOrderCount == WindowsAscend => (WindowSpec => []WindowCounts)
PROOF
<1> SUFFICES ASSUME WindowsAscend PROVE WindowSpec => []WindowCounts
  OBVIOUS
<1>1. WindowInv => CountsInOrder
  <2> SUFFICES ASSUME WindowInv, NEW a \in DOMAIN ips, NEW i \in 1..3, InOrder(a)
               PROVE  LET c == Counters(ips[a], i, lastEventSec)
                      IN  /\ \A k \in Occurring \ {"n404", "traversal"} : c[k] = Expected(a, i, k)
                          /\ c.n404 = ExpectedRoots(a, i, "n404")
                          /\ c.distinct4xx = ExpectedRoots(a, i, "n4xx")
    BY DEF CountsInOrder
  <2> DEFINE w == written[a]
             e == ips[a]
             sec == lastEventSec
  <2>1. w \in Seq(Line) /\ sec \in Nat /\ Amounts(e, w, sec) /\ Until(w, sec)
    BY DEF WindowInv, EntryOf
  <2>2. Ordered(w)
    BY DEF InOrder, Ordered
  <2>3. Sizes[i] <= Widest
    BY SizeTypes DEF WindowsAscend, Widest
  <2>4. \A k \in Kinds : Expected(a, i, k) = Total(CountIn(w, k), Within(w, Sizes[i], sec))
    BY ExpectedIs
  <2>5. \A k \in Kinds : ExpectedRoots(a, i, k) = Cardinality(RootsIn(w, k, Sizes[i], sec))
    <3>1. \A k \in Kinds : \A l \in DOMAIN w : CountIn(w, k)[l] = Class[w[l].ev][k]
      BY DEF CountIn
    <3> QED BY <3>1, ExpectedIs
  <2>6. "n404" \in Kinds /\ "n4xx" \in Kinds /\ Occurring \subseteq Kinds
    BY DEF Kinds, Occurring
  <2> HIDE DEF w, e, sec
  <2> DEFINE c == Counters(e, i, sec)
  <2>7. /\ \A k \in Kinds \ {"n404", "traversal"} :
              c[k] = Total(CountIn(w, k), Within(w, Sizes[i], sec))
        /\ c["n404"] = Cardinality(RootsIn(w, "n404", Sizes[i], sec))
        /\ c["distinct4xx"] = Cardinality(RootsIn(w, "n4xx", Sizes[i], sec))
    BY <2>1, <2>2, <2>3, CountsInOrderAre
  <2> HIDE DEF c
  <2>8. \A k \in Occurring \ {"n404", "traversal"} : c[k] = Expected(a, i, k)
    BY <2>4, <2>6, <2>7
  <2>9. c["n404"] = ExpectedRoots(a, i, "n404") /\ c["distinct4xx"] = ExpectedRoots(a, i, "n4xx")
    BY <2>5, <2>6, <2>7
  <2> QED BY <2>8, <2>9 DEF c, e, sec
<1> QED BY <1>1, WindowInvHolds, NothingCountsTwice, PTL DEF WindowCounts

\* An entry outlives the widest window.
IdleIsLonger == Idle \in Nat /\ Widest <= Idle

\* Eviction forgets nothing that a window would still count by the clock, if the lines
\* of the address arrived in order (Evict, against the time of the last line).
THEOREM EvictionForgetsNothing == IdleIsLonger => (WindowSpec => EvictForgetsNothing)
PROOF
<1> SUFFICES ASSUME IdleIsLonger PROVE WindowSpec => EvictForgetsNothing
  OBVIOUS
<1>1. ASSUME WindowInv, [WindowNext]_windowVars, NEW a \in DOMAIN ips \ DOMAIN ips', InOrder(a),
             NEW j \in DOMAIN written[a]
      PROVE  written[a][j].sec <= clock - Widest
  <2> DEFINE w == written[a]
  <2>1. a \in Idlers
    <3>1. CASE \E b \in Addresses, ev \in Events, sec \in 1..clock : Anchor(b, ev, sec)
      BY <1>1, <3>1 DEF Anchor
    <3>2. CASE FindEntry
      BY <1>1, <3>2 DEF FindEntry
    <3>3. CASE Write
      BY <1>1, <3>3 DEF Write
    <3>4. CASE ReadCounters
      BY <1>1, <3>4 DEF ReadCounters
    <3>5. CASE Evict
      BY <1>1, <3>5 DEF Evict
    <3>6. CASE Second \/ UNCHANGED windowVars
      BY <1>1, <3>6 DEF Second, windowVars
    <3> QED BY <1>1, <3>1, <3>2, <3>3, <3>4, <3>5, <3>6 DEF WindowNext
  <2>2. w \in Seq(Line) /\ clock \in Nat /\ Amounts(ips[a], w, lastEventSec) /\ Ordered(w)
        /\ j \in DOMAIN w
    BY <1>1 DEF WindowInv, EntryOf, InOrder, Ordered
  <2>3. ips[a].last <= clock - Idle
    BY <2>1 DEF Idlers
  <2> HIDE DEF w
  <2>4. DOMAIN w = 1..Len(w) /\ Len(w) \in Nat /\ \A l \in DOMAIN w : w[l].sec \in Nat
    BY <2>2, LineTypes
  <2>5. ips[a].last = w[Len(w)].sec /\ w[j].sec <= w[Len(w)].sec
    <3>1. Len(w) \in DOMAIN w /\ w # <<>> /\ (j = Len(w) \/ j < Len(w))
      BY <2>2, <2>4
    <3> QED BY <2>2, <2>4, <3>1 DEF Amounts, Ordered
  <2> DEFINE x == w[j].sec
             y == w[Len(w)].sec
  <2>6. x \in Nat /\ y \in Nat /\ x <= y /\ y <= clock - Idle
    BY <2>2, <2>3, <2>4, <2>5
  <2> HIDE DEF x, y
  <2>7. Idle \in Nat /\ Widest \in Nat /\ Widest <= Idle
    BY SizeTypes DEF IdleIsLonger
  <2>8. x <= clock - Widest
    BY ONLY <2>2, <2>6, <2>7
  <2> QED BY <2>8 DEF x, w
<1>2. WindowInv /\ [WindowNext]_windowVars =>
         [\A a \in DOMAIN ips \ DOMAIN ips' :
             InOrder(a) =>
                 \A j \in DOMAIN written[a] : written[a][j].sec <= clock - Widest]_windowVars
  BY <1>1
<1> QED BY <1>2, WindowInvHolds, PTL DEF WindowSpec, EvictForgetsNothing
-----------------------------------------------------------------------------
(* The statistics: StatsSpec => []StatsAreTrue. *)

\* An event that the loop has counted and will record.
Logged == [ip : StatAddresses, risk : Risks \ {"below"}]

Windows ==
    [processed : Nat, total : Nat, high : Nat, medium : Nat, low : Nat,
     ips : SUBSET StatAddresses, blocks : [StatAddresses -> Nat]]

StatsType ==
    /\ window \in Windows
    /\ ring \in [events : Seq(Nat), idx : 0..(RecentCap - 1), counter : Nat]
    /\ logging = <<>> \/ \E ev \in Logged : logging = <<ev>>
    /\ reporting = <<>> \/ \E w \in Windows : reporting = <<w>>
    /\ told \in Nat /\ unseen \in Int /\ handled \in Nat
    /\ records \in Seq(Nat)

\* Where the entry lies that is i back from the newest.
Place(idx, i) == (idx - 1 - i + RecentCap) % RecentCap

RingOk(es, idx, rs) ==
    /\ Len(es) <= RecentCap
    /\ Len(es) < RecentCap => idx = 0 /\ es = rs
    /\ Len(es) = RecentCap =>
          /\ Len(rs) >= RecentCap
          /\ \A i \in 0..(RecentCap - 1) : es[Place(idx, i) + 1] = rs[Len(rs) - i]

StatsInv ==
    StatsType /\ CountersAgree /\ ToldByOneReport /\ RingOk(ring.events, ring.idx, records)

LEMMA Wraps ==
    ASSUME NEW c \in Nat \ {0}, NEW x \in 0..(c - 1)
    PROVE  x % c = x /\ (x + c) % c = x
PROOF OBVIOUS

LEMMA PlaceIs ==
    ASSUME NEW idx \in 0..(RecentCap - 1), NEW i \in 0..(RecentCap - 1)
    PROVE  Place(idx, i) = IF i < idx THEN idx - 1 - i ELSE idx - 1 - i + RecentCap
PROOF
<1>1. RecentCap \in Nat \ {0}
  BY StatsAssumption
<1>2. CASE i < idx
  <2> DEFINE x == idx - 1 - i
  <2>1. x \in 0..(RecentCap - 1)
    BY <1>1, <1>2
  <2> HIDE DEF x
  <2>2. (x + RecentCap) % RecentCap = x
    BY <1>1, <2>1, Wraps
  <2> QED BY <1>2, <2>2 DEF Place, x
<1>3. CASE ~(i < idx)
  <2> DEFINE x == idx - 1 - i + RecentCap
  <2>1. x \in 0..(RecentCap - 1)
    BY <1>1, <1>3
  <2> HIDE DEF x
  <2>2. x % RecentCap = x
    BY <1>1, <2>1, Wraps
  <2> QED BY <1>3, <2>2 DEF Place, x
<1> QED BY <1>2, <1>3

NextPlace(d) == IF d = RecentCap - 1 THEN 0 ELSE d + 1

\* The entry that was i back is i + 1 back, once the ring has moved on by one.
LEMMA PlaceMovesOn ==
    ASSUME NEW d \in 0..(RecentCap - 1), NEW e \in 0..(RecentCap - 1), e = NextPlace(d)
    PROVE  /\ Place(e, 0) = d
           /\ \A i \in 1..(RecentCap - 1) :
                 /\ i - 1 \in 0..(RecentCap - 1)
                 /\ Place(e, i) = Place(d, i - 1)
                 /\ Place(d, i - 1) \in 0..(RecentCap - 1)
                 /\ Place(d, i - 1) # d
PROOF
<1>1. RecentCap \in Nat \ {0} /\ e = IF d = RecentCap - 1 THEN 0 ELSE d + 1
  BY StatsAssumption DEF NextPlace
<1>2. Place(e, 0) = IF 0 < e THEN e - 1 - 0 ELSE e - 1 - 0 + RecentCap
  BY <1>1, PlaceIs
<1>3. Place(e, 0) = d
  BY <1>1, <1>2
<1>4. ASSUME NEW i \in 1..(RecentCap - 1)
      PROVE  /\ i - 1 \in 0..(RecentCap - 1)
             /\ Place(e, i) = Place(d, i - 1)
             /\ Place(d, i - 1) \in 0..(RecentCap - 1)
             /\ Place(d, i - 1) # d
  <2> DEFINE j == i - 1
  <2>1. i \in 0..(RecentCap - 1) /\ j \in 0..(RecentCap - 1) /\ i = j + 1
    BY <1>1
  <2> HIDE DEF j
  <2>2. Place(e, i) = IF i < e THEN e - 1 - i ELSE e - 1 - i + RecentCap
    BY <2>1, PlaceIs
  <2>3. Place(d, j) = IF j < d THEN d - 1 - j ELSE d - 1 - j + RecentCap
    BY <2>1, PlaceIs
  <2>4. CASE d = RecentCap - 1
    BY <1>1, <2>1, <2>2, <2>3, <2>4 DEF j
  <2>5. CASE d # RecentCap - 1
    BY <1>1, <2>1, <2>2, <2>3, <2>5 DEF j
  <2> QED BY <2>4, <2>5
<1> QED BY <1>3, <1>4

\* The ring after a sampled event.
LEMMA RingAdds ==
    ASSUME NEW r \in [events : Seq(Nat), idx : 0..(RecentCap - 1), counter : Nat],
           NEW rs \in Seq(Nat), NEW n \in Nat, RingOk(r.events, r.idx, rs),
           NEW q, q = AddRecent(r, n)
    PROVE  /\ q \in [events : Seq(Nat), idx : 0..(RecentCap - 1), counter : Nat]
           /\ q.counter = r.counter
           /\ RingOk(q.events, q.idx, Append(rs, n))
PROOF
<1> DEFINE c == RecentCap
           m == Len(rs)
           ts == Append(rs, n)
           es == r.events
           fs == q.events
<1>1. c \in Nat \ {0} /\ es \in Seq(Nat) /\ r.idx \in 0..(c - 1)
  BY StatsAssumption
<1>2. /\ m \in Nat /\ Len(ts) = m + 1 /\ ts[m + 1] = n /\ \A k \in 1..m : ts[k] = rs[k]
      /\ ts \in Seq(Nat)
  OBVIOUS
<1>3. CASE Len(es) < c
  <2>1. q = [r EXCEPT !.events = Append(es, n)]
    BY <1>3 DEF AddRecent
  <2>2. q \in [events : Seq(Nat), idx : 0..(RecentCap - 1), counter : Nat]
        /\ q.counter = r.counter /\ fs = Append(es, n) /\ q.idx = r.idx
    <3>1. Append(es, n) \in Seq(Nat)
      BY <1>1
    <3>2. r = [events |-> es, idx |-> r.idx, counter |-> r.counter]
      OBVIOUS
    <3>3. /\ fs = Append(es, n) /\ q.idx = r.idx /\ q.counter = r.counter
          /\ q = [events |-> fs, idx |-> r.idx, counter |-> r.counter]
      BY <2>1, <3>2
    <3>4. r.counter \in Nat
      OBVIOUS
    <3> HIDE DEF es, fs
    <3> QED BY <1>1, <3>1, <3>3, <3>4
  <2>3. r.idx = 0 /\ es = rs
    BY <1>3 DEF RingOk
  <2>4. fs = ts /\ q.idx = 0 /\ m < c
    BY <2>2, <2>3, <1>3
  <2> HIDE DEF ts, fs
  <2>5. ASSUME m + 1 = c, NEW i \in 0..(c - 1) PROVE fs[Place(0, i) + 1] = ts[Len(ts) - i]
    <3>1. Place(0, i) = 0 - 1 - i + c
      BY <1>1, PlaceIs
    <3> QED BY <1>1, <1>2, <2>4, <2>5, <3>1
  <2>6. RingOk(fs, q.idx, ts)
    BY <1>1, <1>2, <2>4, <2>5 DEF RingOk
  <2> QED BY <2>2, <2>6 DEF fs, ts
<1>4. CASE ~(Len(es) < c)
  <2>1. Len(es) = c /\ m >= c /\ \A i \in 0..(c - 1) : es[Place(r.idx, i) + 1] = rs[m - i]
    BY <1>1, <1>4 DEF RingOk
  <2> DEFINE d == r.idx
             e == (d + 1) % c
  <2>2. q = [r EXCEPT !.events[d + 1] = n, !.idx = e]
    BY <1>4 DEF AddRecent
  <2>3. e \in 0..(c - 1) /\ e = IF d = c - 1 THEN 0 ELSE d + 1
    <3>1. CASE d = c - 1
      <4>1. 0 \in 0..(c - 1) /\ d + 1 = 0 + c
        BY <1>1, <3>1
      <4> QED BY <1>1, <3>1, <4>1, Wraps
    <3>2. CASE d # c - 1
      <4>a. d \in 0..(c - 1)
        BY <1>1
      <4> HIDE DEF d
      <4>1. d + 1 \in 0..(c - 1)
        BY <1>1, <3>2, <4>a
      <4> QED BY <1>1, <3>2, <4>1, Wraps
    <3> QED BY <3>1, <3>2
  <2> HIDE DEF e
  <2>4. /\ q.counter = r.counter /\ q.idx = e /\ fs = [es EXCEPT ![d + 1] = n]
        /\ q = [events |-> fs, idx |-> e, counter |-> r.counter]
    BY <2>2
  <2>5. /\ fs \in Seq(Nat) /\ Len(fs) = c /\ fs[d + 1] = n
        /\ \A k \in 1..c : k # d + 1 => fs[k] = es[k]
    <3>1. es \in Seq(Nat) /\ Len(es) = c /\ c \in Nat /\ d \in 0..(c - 1)
      BY <1>1, <2>1
    <3>2. fs = [es EXCEPT ![d + 1] = n]
      BY <2>4
    <3>3. d + 1 \in 1..c
      <4> HIDE DEF d, c
      <4> QED BY ONLY <3>1
    <3> HIDE DEF es, fs, d, c
    <3> QED BY <3>1, <3>2, <3>3
  <2>6. q \in [events : Seq(Nat), idx : 0..(RecentCap - 1), counter : Nat]
    BY <2>3, <2>4, <2>5
  <2>7. ASSUME NEW i \in 0..(c - 1) PROVE fs[Place(e, i) + 1] = ts[m + 1 - i]
    <3> HIDE DEF d, fs, es, ts
    <3>1. d \in 0..(c - 1)
      BY <1>1 DEF d
    <3>2. CASE i = 0
      <4>1. Place(e, i) = d
        <5>1. d \in 0..(RecentCap - 1) /\ e \in 0..(RecentCap - 1) /\ e = NextPlace(d)
          BY <2>3, <3>1 DEF NextPlace
        <5> QED BY <5>1, <3>2, PlaceMovesOn
      <4> QED BY <4>1, <3>2, <2>5, <1>2
    <3>3. CASE i # 0
      <4>1. i \in 1..(c - 1)
        BY <1>1, <3>3
      <4> DEFINE j == i - 1
                 p == Place(d, j)
      <4>c. d \in 0..(RecentCap - 1) /\ e \in 0..(RecentCap - 1) /\ e = NextPlace(d)
        BY <2>3, <3>1 DEF NextPlace
      <4>a. \A k \in 1..(RecentCap - 1) :
               /\ k - 1 \in 0..(RecentCap - 1)
               /\ Place(e, k) = Place(d, k - 1)
               /\ Place(d, k - 1) \in 0..(RecentCap - 1)
               /\ Place(d, k - 1) # d
        BY ONLY <4>c, PlaceMovesOn
      <4>2. j \in 0..(c - 1) /\ Place(e, i) = p /\ p \in 0..(c - 1) /\ p # d
        BY ONLY <4>a, <4>1
      <4>3. es[p + 1] = rs[m - j]
        BY <2>1, <4>2 DEF d
      <4>4. m + 1 - i = m - j
        BY <1>2, <4>1
      <4> HIDE DEF j, p
      <4>b. c \in Nat /\ m \in Nat /\ m >= c
        BY <1>1, <1>2, <2>1
      <4> HIDE DEF c, m
      <4>5. m - j \in 1..m /\ p + 1 \in 1..c /\ p + 1 # d + 1
        BY ONLY <3>1, <4>b, <4>2
      <4>6. fs[p + 1] = es[p + 1]
        BY <2>5, <4>5
      <4>7. ts[m - j] = rs[m - j]
        BY <1>2, <4>5
      <4> QED BY <4>2, <4>3, <4>4, <4>6, <4>7
    <3> QED BY <3>2, <3>3
  <2>8. RingOk(fs, e, ts)
    <3> HIDE DEF fs, ts
    <3> QED BY <1>1, <1>2, <2>1, <2>5, <2>7 DEF RingOk
  <2> QED BY <2>4, <2>6, <2>8
<1> QED BY <1>3, <1>4

\* The window after an event is recorded.
LEMMA RecordedKeepsType ==
    ASSUME NEW w \in Windows, NEW ev \in Logged, NEW v, v = RecordedIn(w, ev)
    PROVE  v \in Windows /\ v.processed = w.processed
PROOF
<1> DEFINE B == [w.blocks EXCEPT ![ev.ip] = w.blocks[ev.ip] + 1]
<1>1. /\ ev.ip \in StatAddresses /\ ev.risk \in {"medium", "high", "blocked"}
      /\ w.processed \in Nat /\ w.total \in Nat /\ w.high \in Nat /\ w.medium \in Nat
      /\ w.low \in Nat /\ w.ips \in SUBSET StatAddresses
      /\ w.blocks \in [StatAddresses -> Nat]
  BY DEF Windows, Logged, Risks
<1>2. B \in [StatAddresses -> Nat]
  BY <1>1
<1>3. /\ v.processed = w.processed /\ v.total = w.total + 1
      /\ v.ips = w.ips \cup {ev.ip}
      /\ v.high = IF ev.risk \in {"high", "blocked"} THEN w.high + 1 ELSE w.high
      /\ v.medium = IF ev.risk = "medium" THEN w.medium + 1 ELSE w.medium
      /\ v.low = IF ev.risk = "low" THEN w.low + 1 ELSE w.low
  BY DEF RecordedIn, Windows
<1>4. v.blocks = [w.blocks EXCEPT ![ev.ip] = IF ev.risk = "blocked" THEN w.blocks[ev.ip] + 1
                                              ELSE w.blocks[ev.ip]]
  BY DEF RecordedIn, Windows
<1>5. v.blocks = IF ev.risk = "blocked" THEN B ELSE w.blocks
  BY <1>1, <1>4
<1>6. v = [processed |-> v.processed, total |-> v.total, high |-> v.high, medium |-> v.medium,
           low |-> v.low, ips |-> v.ips, blocks |-> v.blocks]
  BY DEF RecordedIn, Windows
<1>7. v.blocks \in [StatAddresses -> Nat]
  BY <1>1, <1>2, <1>5
<1>8. /\ v.processed \in Nat /\ v.total \in Nat /\ v.high \in Nat /\ v.medium \in Nat
      /\ v.low \in Nat /\ v.ips \in SUBSET StatAddresses
  BY <1>1, <1>3
<1>9. v \in Windows
  BY ONLY <1>6, <1>7, <1>8 DEF Windows
<1> QED BY <1>3, <1>9

LEMMA RecordedIs ==
    ASSUME NEW w \in Windows, NEW ev \in Logged, NEW v, v = RecordedIn(w, ev)
    PROVE  /\ v.total = w.total + 1 /\ v.ips = w.ips \cup {ev.ip} /\ v.low = w.low
           /\ v.high = IF ev.risk = "medium" THEN w.high ELSE w.high + 1
           /\ v.medium = IF ev.risk = "medium" THEN w.medium + 1 ELSE w.medium
           /\ v.blocks = IF ev.risk = "blocked"
                         THEN [w.blocks EXCEPT ![ev.ip] = w.blocks[ev.ip] + 1] ELSE w.blocks
PROOF
<1>1. /\ ev.ip \in StatAddresses /\ ev.risk \in {"medium", "high", "blocked"}
      /\ w.high \in Nat /\ w.low \in Nat /\ w.blocks \in [StatAddresses -> Nat]
  BY DEF Windows, Logged, Risks
<1>2. /\ v.total = w.total + 1 /\ v.ips = w.ips \cup {ev.ip}
      /\ v.high = IF ev.risk \in {"high", "blocked"} THEN w.high + 1 ELSE w.high
      /\ v.medium = IF ev.risk = "medium" THEN w.medium + 1 ELSE w.medium
      /\ v.low = IF ev.risk = "low" THEN w.low + 1 ELSE w.low
  BY DEF RecordedIn, Windows
<1>3. v.blocks = [w.blocks EXCEPT ![ev.ip] = IF ev.risk = "blocked" THEN w.blocks[ev.ip] + 1
                                              ELSE w.blocks[ev.ip]]
  BY DEF RecordedIn, Windows
<1>4. v.blocks = IF ev.risk = "blocked"
                 THEN [w.blocks EXCEPT ![ev.ip] = w.blocks[ev.ip] + 1] ELSE w.blocks
  BY <1>1, <1>3
<1>5. v.low = w.low /\ v.high = IF ev.risk = "medium" THEN w.high ELSE w.high + 1
  BY <1>1, <1>2
<1> QED BY <1>2, <1>4, <1>5

CountersOf(w, k) ==
    /\ w.total = w.high + w.medium + w.low
    /\ SumFunction(w.blocks) \in Nat /\ SumFunction(w.blocks) <= w.high
    /\ Cardinality(w.ips) \in Nat /\ Cardinality(w.ips) <= w.total
    /\ w.total + k <= w.processed + 1

LEMMA CountersAreNat ==
    ASSUME NEW w \in Windows
    PROVE  SumFunction(w.blocks) \in Nat /\ Cardinality(w.ips) \in Nat /\ IsFiniteSet(w.ips)
PROOF
<1>1. IsFiniteSet(StatAddresses)
  BY StatsAssumption
<1>2. w.ips \in SUBSET StatAddresses /\ w.blocks \in [StatAddresses -> Nat]
  BY DEF Windows
<1>3. IsFiniteSet(w.ips) /\ Cardinality(w.ips) \in Nat
  BY <1>1, <1>2, FS_Subset, FS_CardinalityType
<1>4. SumFunction(w.blocks) \in Nat
  <2> DEFINE f == w.blocks
  <2>1. f \in [StatAddresses -> Nat]
    BY <1>2
  <2> HIDE DEF f
  <2>2. CASE StatAddresses = {}
    <3>1. f = [a \in StatAddresses |-> 0]
      BY <2>1, <2>2
    <3>2. SumFunction(f) = 0
      BY <1>1, <3>1, SumOfZeros
    <3> QED BY <3>2 DEF f
  <2>3. CASE StatAddresses # {}
    <3>1. PICK a \in StatAddresses : TRUE
      BY <2>3
    <3> DEFINE g == [f EXCEPT ![a] = f[a] + 1]
    <3>2. SumFunction(f) \in Nat
      BY <1>1, <2>1, <3>1, SumGrows
    <3> QED BY <3>2 DEF f
  <2> QED BY <2>2, <2>3
<1> QED BY <1>3, <1>4

LEMMA CountersRecorded ==
    ASSUME NEW w \in Windows, NEW ev \in Logged, NEW v, v = RecordedIn(w, ev),
           CountersOf(w, 1)
    PROVE  CountersOf(v, 0)
PROOF
<1>0. v \in Windows /\ v.processed = w.processed
  BY RecordedKeepsType
<1>1. /\ v.total = w.total + 1
      /\ v.ips = w.ips \cup {ev.ip}
      /\ v.low = w.low
      /\ v.high = IF ev.risk = "medium" THEN w.high ELSE w.high + 1
      /\ v.medium = IF ev.risk = "medium" THEN w.medium + 1 ELSE w.medium
      /\ v.blocks = IF ev.risk = "blocked"
                    THEN [w.blocks EXCEPT ![ev.ip] = w.blocks[ev.ip] + 1] ELSE w.blocks
  BY RecordedIs
<1>2. /\ w.processed \in Nat /\ w.total \in Nat /\ w.high \in Nat /\ w.medium \in Nat
      /\ w.low \in Nat /\ w.ips \in SUBSET StatAddresses
      /\ w.blocks \in [StatAddresses -> Nat] /\ ev.ip \in StatAddresses
      /\ ev.risk \in {"medium", "high", "blocked"}
  BY DEF Windows, Logged, Risks
<1>3. /\ SumFunction(w.blocks) \in Nat /\ SumFunction(v.blocks) \in Nat
      /\ Cardinality(w.ips) \in Nat /\ Cardinality(v.ips) \in Nat /\ IsFiniteSet(w.ips)
  BY <1>0, CountersAreNat
<1>4. SumFunction(v.blocks) <= v.high
  <2>0. SumFunction(w.blocks) <= w.high
    BY DEF CountersOf
  <2>1. CASE ev.risk = "blocked"
    <3> DEFINE f == w.blocks
               g == v.blocks
               a == ev.ip
    <3>1. /\ f \in [StatAddresses -> Nat] /\ a \in StatAddresses
          /\ g = [f EXCEPT ![a] = f[a] + 1]
      BY <1>1, <1>2, <2>1
    <3>2. v.high = w.high + 1
      BY <1>1, <2>1
    <3> HIDE DEF f, g, a
    <3>3. SumFunction(g) = SumFunction(f) + 1
      BY ONLY <3>1, StatsAssumption, SumGrows
    <3> QED BY <1>2, <1>3, <2>0, <3>2, <3>3 DEF f, g
  <2>2. CASE ev.risk # "blocked"
    <3>1. v.blocks = w.blocks
      BY <1>1, <2>2
    <3> QED BY <1>1, <1>2, <1>3, <2>0, <3>1
  <2> QED BY <2>1, <2>2
<1>5. Cardinality(v.ips) <= v.total
  <2>1. Cardinality(w.ips \cup {ev.ip}) =
            IF ev.ip \in w.ips THEN Cardinality(w.ips) ELSE Cardinality(w.ips) + 1
    BY <1>3, FS_AddElement
  <2>2. Cardinality(w.ips) <= w.total
    BY DEF CountersOf
  <2> QED BY <1>1, <1>2, <1>3, <2>1, <2>2
<1>6. v.total = v.high + v.medium + v.low /\ v.total + 0 <= v.processed + 1
  <2>1. w.total = w.high + w.medium + w.low /\ w.total + 1 <= w.processed + 1
    BY DEF CountersOf
  <2>2. CASE ev.risk = "medium"
    BY <1>0, <1>1, <1>2, <2>1, <2>2
  <2>3. CASE ev.risk # "medium"
    BY <1>0, <1>1, <1>2, <2>1, <2>3
  <2> QED BY <2>2, <2>3
<1> QED BY <1>3, <1>4, <1>5, <1>6 DEF CountersOf

LEMMA EmptyAgrees ==
    ASSUME NEW k \in {0, 1}
    PROVE  CountersOf(EmptyWindow, k)
PROOF
<1>1. IsFiniteSet(StatAddresses)
  BY StatsAssumption
<1>2. SumFunction([a \in StatAddresses |-> 0]) = 0
  BY <1>1, SumOfZeros
<1>3. Cardinality({}) = 0
  BY FS_EmptySet
<1> QED BY <1>2, <1>3 DEF CountersOf, EmptyWindow

LEMMA StatsInitially == StatsInit => StatsInv
PROOF
<1> SUFFICES ASSUME StatsInit PROVE StatsInv
  OBVIOUS
<1>1. RecentCap \in Nat \ {0} /\ IsFiniteSet(StatAddresses)
  BY StatsAssumption
<1>2. window = EmptyWindow /\ logging = <<>> /\ reporting = <<>> /\ records = <<>>
  BY DEF StatsInit
<1>3. EmptyWindow \in Windows
  BY DEF EmptyWindow, Windows
<1>4. StatsType
  <2>1. /\ ring = [events |-> <<>>, idx |-> 0, counter |-> 0]
        /\ told \in Nat /\ unseen \in Int /\ handled \in Nat
    BY DEF StatsInit
  <2>2. 0 \in 0..(RecentCap - 1) /\ <<>> \in Seq(Nat)
    BY <1>1
  <2>3. ring \in [events : Seq(Nat), idx : 0..(RecentCap - 1), counter : Nat]
    BY <2>1, <2>2
  <2> QED BY <1>2, <1>3, <2>1, <2>2, <2>3 DEF StatsType
<1>5. CountersAgree
  <2>1. CountersOf(window, 0)
    BY <1>2, <1>3, EmptyAgrees
  <2> QED BY <1>2, <2>1 DEF CountersAgree, CountersOf
<1>6. ToldByOneReport
  BY DEF StatsInit, EmptyWindow, ToldByOneReport
<1>7. RingOk(ring.events, ring.idx, records)
  BY <1>1 DEF StatsInit, RingOk
<1> QED BY <1>4, <1>5, <1>6, <1>7 DEF StatsInv

LEMMA StatsStep == StatsInv /\ [StatsNext]_statsVars => StatsInv'
PROOF
<1> SUFFICES ASSUME StatsInv, [StatsNext]_statsVars PROVE StatsInv'
  OBVIOUS
<1> USE DEF StatsInv
<1>0. /\ window \in Windows /\ window.processed \in Nat
      /\ ring \in [events : Seq(Nat), idx : 0..(RecentCap - 1), counter : Nat]
      /\ told \in Nat /\ unseen \in Int /\ handled \in Nat /\ records \in Seq(Nat)
      /\ (logging = <<>> \/ \E ev \in Logged : logging = <<ev>>)
      /\ (reporting = <<>> \/ \E w \in Windows : reporting = <<w>>)
  BY DEF StatsType, Windows
<1>1. CountersOf(window, Len(logging))
  BY <1>0, CountersAreNat DEF CountersAgree, CountersOf
<1>2. ASSUME CountersOf(window', Len(logging')) PROVE CountersAgree'
  BY <1>2 DEF CountersOf, CountersAgree
<1>3. ASSUME NEW a \in StatAddresses, NEW risk \in Risks, IncrementProcessed(a, risk)
      PROVE  StatsInv'
  <2>1. /\ logging = <<>> /\ handled' = handled + 1
        /\ window' = [window EXCEPT !.processed = window.processed + 1]
        /\ logging' = (IF risk = "below" THEN <<>> ELSE <<[ip |-> a, risk |-> risk]>>)
        /\ UNCHANGED <<ring, reporting, told, unseen, records>>
    BY <1>3 DEF IncrementProcessed
  <2>2. /\ window' \in Windows /\ window'.processed = window.processed + 1
        /\ window'.total = window.total /\ window'.high = window.high
        /\ window'.medium = window.medium /\ window'.low = window.low
        /\ window'.ips = window.ips /\ window'.blocks = window.blocks
        /\ window.total \in Nat
    <3>1. window = [processed |-> window.processed, total |-> window.total,
                    high |-> window.high, medium |-> window.medium, low |-> window.low,
                    ips |-> window.ips, blocks |-> window.blocks]
      BY <1>0 DEF Windows
    <3>2. window.processed + 1 \in Nat
      BY <1>0
    <3> QED BY <1>0, <2>1, <3>1, <3>2 DEF Windows
  <2>3. Len(logging) = 0 /\ Len(logging') \in {0, 1}
    BY <2>1
  <2>4. logging' = <<>> \/ \E ev \in Logged : logging' = <<ev>>
    BY <2>1 DEF Logged
  <2>5. CountersOf(window', Len(logging'))
    <3>1. CountersOf(window, 0)
      BY <1>1, <2>3
    <3> DEFINE k == Len(logging')
               v == window'
    <3>2. /\ k \in {0, 1} /\ window.processed \in Nat /\ window.total \in Nat
          /\ v.processed = window.processed + 1 /\ v.total = window.total
          /\ v.high = window.high /\ v.medium = window.medium /\ v.low = window.low
          /\ v.ips = window.ips /\ v.blocks = window.blocks
      BY <1>0, <2>2, <2>3
    <3> HIDE DEF k, v
    <3>3. v.total + k <= v.processed + 1
      <4>1. window.total <= window.processed + 1
        BY <3>1, <3>2 DEF CountersOf
      <4> QED BY <3>2, <4>1
    <3>4. CountersOf(v, k)
      BY <3>1, <3>2, <3>3 DEF CountersOf
    <3> QED BY <3>4 DEF k, v
  <2>6. StatsType'
    BY <1>0, <2>1, <2>2, <2>4 DEF StatsType
  <2>7. ToldByOneReport'
    <3>1. CASE reporting = <<>>
      <4>1. told + unseen + window.processed - 0 = handled
        BY <3>1 DEF ToldByOneReport
      <4>2. told' + unseen' + window'.processed - 0 = handled'
        BY <1>0, <2>1, <2>2, <4>1
      <4> QED BY <2>1, <3>1, <4>2 DEF ToldByOneReport
    <3>2. CASE reporting # <<>>
      <4>1. reporting[1].processed \in Nat
        BY <1>0, <3>2 DEF Windows
      <4>2. told + unseen + window.processed - reporting[1].processed = handled
        BY <3>2 DEF ToldByOneReport
      <4>a. /\ told \in Nat /\ unseen \in Int /\ handled \in Nat /\ window.processed \in Nat
            /\ told' = told /\ unseen' = unseen /\ handled' = handled + 1
            /\ window'.processed = window.processed + 1
        BY <1>0, <2>1, <2>2
      <4> DEFINE r == reporting[1].processed
      <4>b. r \in Nat /\ told + unseen + window.processed - r = handled
        BY <4>1, <4>2
      <4> HIDE DEF r
      <4>c. told' + unseen' + window'.processed - r = handled'
        BY ONLY <4>a, <4>b
      <4>3. told' + unseen' + window'.processed - reporting[1].processed = handled'
        BY <4>c DEF r
      <4> QED BY <2>1, <3>2, <4>3 DEF ToldByOneReport
    <3> QED BY <3>1, <3>2
  <2>8. RingOk(ring'.events, ring'.idx, records')
    BY <2>1
  <2> QED BY <1>2, <2>5, <2>6, <2>7, <2>8
<1>4. ASSUME Record PROVE StatsInv'
  <2>1. PICK ev \in Logged : logging = <<ev>>
    BY <1>0, <1>4 DEF Record
  <2>2. /\ window' = RecordedIn(window, ev) /\ logging' = <<>>
        /\ ring' = [IF IsSampled THEN AddRecent(ring, ring.counter) ELSE ring
                    EXCEPT !.counter = @ + 1]
        /\ records' = (IF IsSampled THEN Append(records, ring.counter) ELSE records)
        /\ UNCHANGED <<reporting, told, unseen, handled>>
    BY <1>4, <2>1 DEF Record
  <2>3. window' \in Windows /\ window'.processed = window.processed
    <3>1. window \in Windows /\ ev \in Logged
      BY <1>0, <2>1
    <3> DEFINE v == RecordedIn(window, ev)
    <3>2. v = RecordedIn(window, ev)
      OBVIOUS
    <3> HIDE DEF v
    <3>3. v \in Windows /\ v.processed = window.processed
      BY ONLY <3>1, <3>2, RecordedKeepsType
    <3> QED BY <2>2, <3>3 DEF v
  <2>4. CountersOf(window', Len(logging'))
    <3>1. CountersOf(window, 1)
      BY <1>1, <2>1
    <3>2. CountersOf(RecordedIn(window, ev), 0)
      BY <1>0, <2>1, <3>1, CountersRecorded
    <3> QED BY <2>2, <3>2
  <2>5. /\ ring' \in [events : Seq(Nat), idx : 0..(RecentCap - 1), counter : Nat]
        /\ records' \in Seq(Nat)
        /\ RingOk(ring'.events, ring'.idx, records')
    <3> DEFINE R == [events : Seq(Nat), idx : 0..(RecentCap - 1), counter : Nat]
               q == IF IsSampled THEN AddRecent(ring, ring.counter) ELSE ring
    <3>1. ring.counter \in Nat
      BY <1>0
    <3>2. q \in R /\ q.counter = ring.counter /\ RingOk(q.events, q.idx, records')
          /\ records' \in Seq(Nat)
      <4>1. CASE IsSampled
        <5>1. RingOk(ring.events, ring.idx, records)
          OBVIOUS
        <5>2. /\ AddRecent(ring, ring.counter) \in R
              /\ AddRecent(ring, ring.counter).counter = ring.counter
              /\ RingOk(AddRecent(ring, ring.counter).events,
                         AddRecent(ring, ring.counter).idx, Append(records, ring.counter))
          BY ONLY <1>0, <3>1, <5>1, RingAdds
        <5>3. records' = Append(records, ring.counter) /\ records' \in Seq(Nat)
          BY <1>0, <2>2, <3>1, <4>1
        <5> QED BY <4>1, <5>2, <5>3
      <4>2. CASE ~IsSampled
        BY <1>0, <2>2, <4>2
      <4> QED BY <4>1, <4>2
    <3>3. ring' = [q EXCEPT !.counter = @ + 1]
      BY <2>2
    <3> HIDE DEF q
    <3>4. q = [events |-> q.events, idx |-> q.idx, counter |-> q.counter]
      BY <3>2
    <3>5. /\ ring'.events = q.events /\ ring'.idx = q.idx
          /\ ring' = [events |-> q.events, idx |-> q.idx, counter |-> ring.counter + 1]
      BY <3>2, <3>3, <3>4
    <3>6. ring' \in R
      BY <3>1, <3>2, <3>5
    <3> QED BY <3>2, <3>5, <3>6
  <2>6. StatsType'
    BY <1>0, <2>2, <2>3, <2>5 DEF StatsType
  <2>7. ToldByOneReport'
    BY <2>2, <2>3 DEF ToldByOneReport
  <2> QED BY <1>2, <2>4, <2>5, <2>6, <2>7
<1>5. ASSUME GenerateReport PROVE StatsInv'
  <2>1. /\ reporting = <<>> /\ reporting' = <<window>> /\ told' = told + window.processed
        /\ UNCHANGED <<window, ring, logging, unseen, handled, records>>
    BY <1>5 DEF GenerateReport
  <2>2. StatsType'
    BY <1>0, <2>1 DEF StatsType
  <2>3. ToldByOneReport'
    <3>1. told + unseen + window.processed - 0 = handled
      BY <2>1 DEF ToldByOneReport
    <3>2. told' + unseen' + window'.processed - window.processed = handled'
      BY <1>0, <2>1, <3>1
    <3>3. reporting' # <<>> /\ reporting'[1] = window
      BY <2>1
    <3> QED BY <3>2, <3>3 DEF ToldByOneReport
  <2>4. CountersOf(window', Len(logging'))
    BY <1>1, <2>1
  <2>5. RingOk(ring'.events, ring'.idx, records')
    BY <2>1
  <2> QED BY <1>2, <2>2, <2>3, <2>4, <2>5
<1>6. ASSUME Reset PROVE StatsInv'
  <2>1. PICK w \in Windows : reporting = <<w>>
    BY <1>0, <1>6 DEF Reset
  <2>2. /\ unseen' = unseen + window.processed - w.processed /\ window' = EmptyWindow
        /\ reporting' = <<>> /\ UNCHANGED <<ring, logging, told, handled, records>>
    BY <1>6, <2>1 DEF Reset, ResetWindow
  <2>3. w.processed \in Nat
    BY <2>1 DEF Windows
  <2>4. EmptyWindow \in Windows /\ EmptyWindow.processed = 0
    BY DEF EmptyWindow, Windows
  <2>5. StatsType'
    <3>1. unseen' \in Int
      BY <1>0, <2>2, <2>3
    <3> QED BY <1>0, <2>2, <2>4, <3>1 DEF StatsType
  <2>6. ToldByOneReport'
    <3>1. told + unseen + window.processed - w.processed = handled
      BY <2>1 DEF ToldByOneReport
    <3>2. told' + unseen' + window'.processed - 0 = handled'
      BY <1>0, <2>2, <2>3, <2>4, <3>1
    <3> QED BY <2>2, <3>2 DEF ToldByOneReport
  <2>7. CountersOf(window', Len(logging'))
    <3>1. Len(logging) \in {0, 1}
      BY <1>0
    <3> QED BY <2>2, <3>1, EmptyAgrees
  <2>8. RingOk(ring'.events, ring'.idx, records')
    BY <2>2
  <2> QED BY <1>2, <2>5, <2>6, <2>7, <2>8
<1>7. CASE UNCHANGED statsVars
  BY <1>7 DEF statsVars, StatsType, CountersAgree, ToldByOneReport
<1> QED BY <1>3, <1>4, <1>5, <1>6, <1>7 DEF StatsNext

\* The counters add up, reports tell of every event once, and the ring is told right.
THEOREM ReportsAreTrue == StatsSpec => []StatsAreTrue
PROOF
<1>1. StatsInit => StatsInv
  BY StatsInitially
<1>2. StatsInv /\ [StatsNext]_statsVars => StatsInv'
  BY StatsStep
<1>3. StatsInv => StatsAreTrue
  <2> SUFFICES ASSUME StatsInv PROVE StatsAreTrue
    OBVIOUS
  <2>1. RecentAreNewest
    <3> SUFFICES ASSUME Len(ring.events) = RecentCap, NEW i \in 0..(RecentCap - 1)
                 PROVE  RecentEvent(i) = records[Len(records) - i] + 1
      BY DEF RecentAreNewest
    <3>1. RecentCap \in Nat \ {0} /\ ring.idx \in 0..(RecentCap - 1)
      BY StatsAssumption DEF StatsInv, StatsType
    <3>2. ring.events[Place(ring.idx, i) + 1] = records[Len(records) - i]
      BY DEF StatsInv, RingOk
    <3>3. Place(ring.idx, i) < RecentCap
      <4> DEFINE d == ring.idx
      <4>1. d \in 0..(RecentCap - 1)
        BY <3>1
      <4> HIDE DEF d
      <4>2. Place(d, i) = IF i < d THEN d - 1 - i ELSE d - 1 - i + RecentCap
        BY <4>1, PlaceIs
      <4>3. Place(d, i) < RecentCap
        BY <3>1, <4>1, <4>2
      <4> QED BY <4>3 DEF d
    <3>4. RecentEvent(i) = ring.events[Place(ring.idx, i) + 1] + 1
      BY <3>3 DEF RecentEvent, Place
    <3> QED BY <3>2, <3>4
  <2> QED BY <2>1 DEF StatsInv, StatsAreTrue
<1> QED BY <1>1, <1>2, <1>3, PTL DEF StatsSpec
=============================================================================
