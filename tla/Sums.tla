-------------------------------- MODULE Sums --------------------------------
(***************************************************************************)
(* Sums of natural numbers over a finite set.  MapThenSumSet defines them  *)
(* by a function on the subsets that takes one element away at a time: it  *)
(* is shown to exist, and with it what the order of the elements has no    *)
(* part in.  The induction theorems of the library take the formula to be  *)
(* proved as an operator; here a smallest set for which it fails is ruled  *)
(* out instead.                                                            *)
(***************************************************************************)
EXTENDS Naturals, FiniteSetsExt, FiniteSetTheorems, WellFoundedInduction, TLAPS

First(s) == CHOOSE x \in s : TRUE

Adds(it, h, D) ==
    it = [s \in D |-> IF s = {} THEN 0 ELSE h[First(s)] + it[s \ {First(s)}]]

SumOver(h, S) == (CHOOSE it : Adds(it, h, SUBSET S))[S]

LEMMA SmallestNumber ==
    ASSUME NEW Bad, Bad \subseteq Nat, Bad # {}
    PROVE  \E n \in Bad : \A m \in Bad : n <= m
<1>1. PICK n \in Bad : \A m \in Bad : ~(<<m, n>> \in OpToRel(<, Nat))
  BY NatLessThanWellFounded, WFMin
<1>2. \A m \in Bad : ~(m < n)
  BY <1>1 DEF OpToRel
<1>3. \A m \in Bad : n <= m
  BY <1>2
<1> QED  BY <1>3

LEMMA SmallestSet ==
    ASSUME NEW U, IsFiniteSet(U), NEW Bad, Bad \subseteq SUBSET U, Bad # {}
    PROVE  \E s \in Bad : \A t \in Bad : t \subseteq s => t = s
<1> DEFINE R == StrictSubsetOrdering(U)
<1>1. IsWellFoundedOn(R, SUBSET U)
  BY FS_StrictSubsetOrderingWellFounded, FS_FiniteSubsetsOfFinite
<1>2. PICK s \in Bad : \A t \in Bad : <<t, s>> \notin R
  <2> HIDE DEF R
  <2> QED  BY <1>1, WFMin
<1>3. \A t \in Bad : t \subseteq s => t = s
  BY <1>2 DEF StrictSubsetOrdering
<1> QED  BY <1>3

(* The largest of some numbers is the one that is no smaller than any.     *)
LEMMA MaxIs ==
    ASSUME NEW S, NEW n \in S, S \subseteq Nat, \A m \in S : m <= n
    PROVE  Max(S) = n
<1>1. \A m \in S : n >= m
  OBVIOUS
<1>2. \A m \in S : (\A k \in S : m >= k) => m = n
  OBVIOUS
<1> QED  BY <1>1, <1>2 DEF Max

(* A finite set of numbers has a largest one.                              *)
LEMMA MaxExists ==
    ASSUME NEW S, IsFiniteSet(S), S # {}
    PROVE  S \subseteq Nat => \E n \in S : \A m \in S : m <= n
<1> DEFINE Bad == {s \in SUBSET S : \E n \in S : s = {m \in S : m > n}}
<1>1. Bad \subseteq SUBSET S /\ Bad # {}
  OBVIOUS
<1>2. PICK s \in Bad : \A t \in Bad : t \subseteq s => t = s
  <2> HIDE DEF Bad
  <2> QED  BY <1>1, SmallestSet
<1>3. PICK n \in S : s = {m \in S : m > n}
  OBVIOUS
<1>4. ASSUME S \subseteq Nat, NEW m \in S, m > n
      PROVE  FALSE
  <2> DEFINE t == {k \in S : k > m}
  <2>1. \A k \in S : k > m => k > n
    BY <1>4
  <2>2. \A k \in t : k \in s
    BY <1>3, <2>1
  <2>3. m \in s /\ m \notin t
    BY <1>3, <1>4
  <2>4. t \in Bad
    OBVIOUS
  <2> HIDE DEF t, Bad
  <2> QED  BY <1>2, <2>2, <2>3, <2>4
<1>5. S \subseteq Nat => \A m \in S : m <= n
  BY <1>4
<1> QED  BY <1>5

LEMMA FirstIsIn ==
    ASSUME NEW s, s # {}
    PROVE  /\ First(s) \in s /\ s = (s \ {First(s)}) \cup {First(s)}
           /\ First(s) \notin s \ {First(s)}
  BY DEF First

(* If there is one for each of the smaller subsets ...                     *)
LEMMA OneMore ==
    ASSUME NEW U, NEW h, NEW D, D \subseteq SUBSET U, NEW E, D \subseteq E,
           \A s \in E : s # {} => s \ {First(s)} \in D, {} \in D,
           NEW f, Adds(f, h, D)
    PROVE  \E it : Adds(it, h, E)
<1> DEFINE g == [s \in E |-> IF s = {} THEN 0 ELSE h[First(s)] + f[s \ {First(s)}]]
<1>1. \A s \in D : g[s] = f[s]
  <2>1. \A s \in D : f[s] = IF s = {} THEN 0 ELSE h[First(s)] + f[s \ {First(s)}]
    BY DEF Adds
  <2> QED  BY <2>1
<1>2. \A s \in E : s # {} => g[s \ {First(s)}] = f[s \ {First(s)}]
  BY <1>1
<1>3. Adds(g, h, E)
  BY <1>2 DEF Adds
<1> QED  BY <1>3

(* ... there is one for all.                                               *)
Upto(S, n) == {s \in SUBSET S : Cardinality(s) <= n}

LEMMA SumExists ==
    ASSUME NEW S, IsFiniteSet(S), NEW h
    PROVE  \E it : Adds(it, h, SUBSET S)
<1> DEFINE Bad == {n \in Nat : ~\E it : Adds(it, h, Upto(S, n))}
<1>0. \A s \in SUBSET S : IsFiniteSet(s) /\ Cardinality(s) \in Nat
  BY FS_Subset, FS_CardinalityType
<1>1. Bad = {}
  <2> SUFFICES ASSUME Bad # {}
               PROVE  FALSE
    OBVIOUS
  <2>1. PICK n \in Bad : \A m \in Bad : n <= m
    <3>1. Bad \subseteq Nat
      OBVIOUS
    <3> HIDE DEF Bad
    <3> QED  BY <3>1, SmallestNumber
  <2>2. \A m \in Bad : ~(m < n)
    BY <2>1
  <2>3. CASE n = 0
    <3>1. Upto(S, 0) = {{}}
      BY <1>0, FS_EmptySet DEF Upto
    <3>2. Adds([s \in {{}} |-> 0], h, {{}})
      BY DEF Adds
    <3> QED  BY <2>3, <3>1, <3>2
  <2>4. CASE n # 0
    <3>1. PICK m \in Nat : n = m + 1
      <4>1. n - 1 \in Nat /\ n = (n - 1) + 1
        BY <2>4
      <4> QED  BY <4>1
    <3>2. m \notin Bad
      BY <2>2, <3>1
    <3>3. PICK f : Adds(f, h, Upto(S, m))
      BY <3>2
    <3>4. Upto(S, m) \subseteq Upto(S, n) /\ {} \in Upto(S, m)
      BY <1>0, <3>1, FS_EmptySet DEF Upto
    <3>5. ASSUME NEW s \in Upto(S, n), s # {}
          PROVE  s \ {First(s)} \in Upto(S, m)
      <4>1. s \in SUBSET S /\ IsFiniteSet(s) /\ Cardinality(s) <= n
        BY <1>0 DEF Upto
      <4>2. Cardinality(s \ {First(s)}) = Cardinality(s) - 1
        BY <3>5, <4>1, FirstIsIn, FS_RemoveElement
      <4> QED  BY <1>0, <3>1, <4>1, <4>2 DEF Upto
    <3>6. Upto(S, m) \subseteq SUBSET S
      BY DEF Upto
    <3>7. \E it : Adds(it, h, Upto(S, n))
      <4> HIDE DEF Bad
      <4> QED  BY <3>3, <3>4, <3>5, <3>6, OneMore
    <3> QED  BY <3>7
  <2> QED  BY <2>3, <2>4
<1>2. PICK n \in Nat : n = Cardinality(S)
  BY FS_CardinalityType
<1>3. Upto(S, n) = SUBSET S
  BY <1>0, <1>2, FS_Subset DEF Upto
<1>4. \E it : Adds(it, h, Upto(S, n))
  BY <1>1
<1> QED  BY <1>3, <1>4

LEMMA SumUnique ==
    ASSUME NEW S, IsFiniteSet(S), NEW h, NEW f, Adds(f, h, SUBSET S),
           NEW g, Adds(g, h, SUBSET S)
    PROVE  f[S] = g[S]
<1> DEFINE Bad == {s \in SUBSET S : f[s] # g[s]}
<1>1. \A s \in SUBSET S :
         /\ f[s] = IF s = {} THEN 0 ELSE h[First(s)] + f[s \ {First(s)}]
         /\ g[s] = IF s = {} THEN 0 ELSE h[First(s)] + g[s \ {First(s)}]
  BY DEF Adds
<1>2. Bad = {}
  <2> SUFFICES ASSUME Bad # {}
               PROVE  FALSE
    OBVIOUS
  <2>1. PICK s \in Bad : \A t \in Bad : t \subseteq s => t = s
    <3>1. Bad \subseteq SUBSET S
      OBVIOUS
    <3> HIDE DEF Bad
    <3> QED  BY <3>1, SmallestSet
  <2>2. s # {}
    BY <1>1
  <2>3. s \ {First(s)} \notin Bad
    BY <2>1, <2>2, FirstIsIn
  <2> QED  BY <1>1, <2>2, <2>3
<1> QED  BY <1>2

(* What a sum is: 0, or one element and the sum of the others.             *)
LEMMA SumFirst ==
    ASSUME NEW S, IsFiniteSet(S), NEW h
    PROVE  SumOver(h, S) = IF S = {} THEN 0 ELSE h[First(S)] + SumOver(h, S \ {First(S)})
<1> DEFINE it == CHOOSE f : Adds(f, h, SUBSET S)
<1>1. Adds(it, h, SUBSET S)
  BY SumExists
<1> HIDE DEF it
<1>2. it[S] = IF S = {} THEN 0 ELSE h[First(S)] + it[S \ {First(S)}]
  BY <1>1 DEF Adds
<1>3. ASSUME S # {}
      PROVE  it[S \ {First(S)}] = SumOver(h, S \ {First(S)})
  <2> DEFINE T == S \ {First(S)}
             g == [s \in SUBSET T |-> it[s]]
             f == CHOOSE f : Adds(f, h, SUBSET T)
  <2>1. IsFiniteSet(T) /\ T \subseteq S
    BY FS_Subset
  <2> HIDE DEF T
  <2>2. Adds(f, h, SUBSET T)
    BY <2>1, SumExists
  <2>3. Adds(g, h, SUBSET T)
    <3>1. \A s \in SUBSET T :
             it[s] = IF s = {} THEN 0 ELSE h[First(s)] + it[s \ {First(s)}]
      BY <1>1, <2>1 DEF Adds
    <3>2. \A s \in SUBSET T : s # {} => g[s \ {First(s)}] = it[s \ {First(s)}]
      OBVIOUS
    <3> QED  BY <3>1, <3>2 DEF Adds
  <2>4. g[T] = f[T]
    <3> HIDE DEF f, g
    <3> QED  BY <2>1, <2>2, <2>3, SumUnique
  <2> QED  BY <2>4 DEF SumOver, T
<1> QED  BY <1>2, <1>3 DEF SumOver, it

-----------------------------------------------------------------------------
(* What follows for sums of natural numbers.                               *)

LEMMA SumIsNat ==
    ASSUME NEW S, IsFiniteSet(S), NEW h, \A x \in S : h[x] \in Nat
    PROVE  SumOver(h, S) \in Nat
<1> DEFINE Bad == {s \in SUBSET S : SumOver(h, s) \notin Nat}
<1>1. Bad = {}
  <2> SUFFICES ASSUME Bad # {}
               PROVE  FALSE
    OBVIOUS
  <2>1. PICK s \in Bad : \A t \in Bad : t \subseteq s => t = s
    <3>1. Bad \subseteq SUBSET S
      OBVIOUS
    <3> HIDE DEF Bad
    <3> QED  BY <3>1, SmallestSet
  <2>2. IsFiniteSet(s)
    BY FS_Subset
  <2>3. SumOver(h, s) = IF s = {} THEN 0 ELSE h[First(s)] + SumOver(h, s \ {First(s)})
    BY <2>2, SumFirst
  <2>4. CASE s # {}
    <3>1. First(s) \in s /\ s \ {First(s)} \notin Bad
      BY <2>1, <2>4, FirstIsIn
    <3> QED  BY <2>3, <2>4, <3>1
  <2> QED  BY <2>3, <2>4
<1> QED  BY <1>1

(* An element more adds itself to the sum.                                 *)
LEMMA SumAdds ==
    ASSUME NEW S, IsFiniteSet(S), NEW x, x \notin S, NEW h, \A y \in S \cup {x} : h[y] \in Nat
    PROVE  SumOver(h, S \cup {x}) = SumOver(h, S) + h[x]
<1> DEFINE Bad == {s \in SUBSET (S \cup {x}) :
                     \E y \in (S \cup {x}) \ s :
                        SumOver(h, s \cup {y}) # SumOver(h, s) + h[y]}
<1>1. IsFiniteSet(S \cup {x})
  BY FS_AddElement
<1>2. Bad = {}
  <2> SUFFICES ASSUME Bad # {}
               PROVE  FALSE
    OBVIOUS
  <2>1. PICK s \in Bad : \A t \in Bad : t \subseteq s => t = s
    <3>1. Bad \subseteq SUBSET (S \cup {x})
      OBVIOUS
    <3> HIDE DEF Bad
    <3> QED  BY <1>1, <3>1, SmallestSet
  <2>2. PICK y \in (S \cup {x}) \ s : SumOver(h, s \cup {y}) # SumOver(h, s) + h[y]
    OBVIOUS
  <2>3. /\ s \subseteq S \cup {x} /\ IsFiniteSet(s) /\ IsFiniteSet(s \cup {y})
        /\ s \cup {y} \subseteq S \cup {x} /\ s \cup {y} # {}
    BY <1>1, FS_Subset, FS_AddElement
  <2> DEFINE z == First(s \cup {y})
             r == s \ {z}
  <2>4. z \in s \cup {y} /\ SumOver(h, s \cup {y}) = h[z] + SumOver(h, (s \cup {y}) \ {z})
    BY <2>3, SumFirst, FirstIsIn
  <2> HIDE DEF z
  <2>5. \A t \in SUBSET (S \cup {x}) : SumOver(h, t) \in Nat
    BY <1>1, FS_Subset, SumIsNat
  <2>6. CASE z = y
    <3>1. (s \cup {y}) \ {z} = s
      BY <2>6
    <3>2. SumOver(h, s \cup {y}) = h[y] + SumOver(h, s)
      BY <2>4, <2>6, <3>1
    <3>3. h[y] \in Nat /\ SumOver(h, s) \in Nat
      BY <2>3, <2>5
    <3> QED  BY <2>2, <3>2, <3>3
  <2>7. CASE z # y
    <3>1. z \in s /\ y \notin s
      BY <2>4, <2>7
    <3>2. /\ r \subseteq s /\ r # s /\ r \cup {z} = s /\ (s \cup {y}) \ {z} = r \cup {y}
          /\ z \in (S \cup {x}) \ r /\ y \in (S \cup {x}) \ r
      BY <2>3, <2>7, <3>1
    <3>3. r \notin Bad /\ r \in SUBSET (S \cup {x})
      BY <2>1, <2>3, <3>2
    <3>4. /\ SumOver(h, r \cup {z}) = SumOver(h, r) + h[z]
          /\ SumOver(h, r \cup {y}) = SumOver(h, r) + h[y]
      BY <3>2, <3>3
    <3>5. h[z] \in Nat /\ h[y] \in Nat /\ SumOver(h, r) \in Nat
      BY <2>5, <3>2, <3>3
    <3> HIDE DEF r
    <3> QED  BY <2>2, <2>4, <3>2, <3>4, <3>5
  <2> QED  BY <2>6, <2>7
<1>3. S \notin Bad
  BY <1>2
<1> QED  BY <1>3

LEMMA SumEmpty ==
    ASSUME NEW h
    PROVE  SumOver(h, {}) = 0
  BY SumFirst, FS_EmptySet

(* Only the numbers count.                                                 *)
LEMMA SumSame ==
    ASSUME NEW S, NEW h, NEW g, \A x \in S : h[x] = g[x]
    PROVE  SumOver(h, S) = SumOver(g, S)
<1>1. \A it : Adds(it, h, SUBSET S) <=> Adds(it, g, SUBSET S)
  <2>1. \A s \in SUBSET S : s # {} => First(s) \in S
    BY FirstIsIn
  <2> QED  BY <2>1 DEF Adds
<1>2. (CHOOSE it : Adds(it, h, SUBSET S)) = (CHOOSE it : Adds(it, g, SUBSET S))
  BY <1>1, Zenon
<1> QED  BY <1>2 DEF SumOver

(* More elements do not make it smaller.                                   *)
LEMMA SumGrows ==
    ASSUME NEW T, IsFiniteSet(T), NEW S, S \subseteq T, NEW h, \A x \in T : h[x] \in Nat
    PROVE  SumOver(h, S) <= SumOver(h, T)
<1> DEFINE Bad == {s \in SUBSET T : S \subseteq s /\ ~(SumOver(h, S) <= SumOver(h, s))}
<1>1. \A s \in SUBSET T : IsFiniteSet(s) /\ SumOver(h, s) \in Nat
  BY FS_Subset, SumIsNat
<1>2. Bad = {}
  <2> SUFFICES ASSUME Bad # {}
               PROVE  FALSE
    OBVIOUS
  <2>1. PICK s \in Bad : \A t \in Bad : t \subseteq s => t = s
    <3>1. Bad \subseteq SUBSET T
      OBVIOUS
    <3> HIDE DEF Bad
    <3> QED  BY <3>1, SmallestSet
  <2>2. S # s
    BY <1>1
  <2>3. PICK x \in s : x \notin S
    BY <2>2
  <2> DEFINE t == s \ {x}
  <2>4. t \in SUBSET T /\ t \notin Bad /\ S \subseteq t /\ s = t \cup {x} /\ x \notin t
    BY <2>1, <2>3
  <2> HIDE DEF t
  <2>5. SumOver(h, s) = SumOver(h, t) + h[x]
    BY <1>1, <2>4, SumAdds
  <2> QED  BY <1>1, <2>4, <2>5
<1> QED  BY <1>2
=============================================================================
