---------------------------- MODULE SumTheorems -----------------------------
(***************************************************************************)
(* Facts about SumFunctionOnSet of the community modules and Cardinality,  *)
(* for finite sets of any size, that proofs about counts of threads need.  *)
(***************************************************************************)
EXTENDS Integers, FiniteSets, Functions, FiniteSetTheorems, TLAPS

(* The element a sum takes next.                                           *)
One(s) == CHOOSE x \in s : TRUE

(* g has the sums of f over all sets of elements of S, taken one by one.   *)
Sums(f, S, g) == g = [s \in SUBSET S |-> IF s = {} THEN 0
                                         ELSE f[One(s)] + g[s \ {One(s)}]]

(* It is one of them.                                                      *)
LEMMA OneOf == ASSUME NEW s, s # {} PROVE One(s) \in s
  BY DEF One

(* A sum is the last of its partial sums.                                  *)
LEMMA SumIs ==
  ASSUME NEW f, NEW S
  PROVE  SumFunctionOnSet(f, S) = (CHOOSE g : Sums(f, S, g))[S]
  BY Zenon DEF SumFunctionOnSet, FoldFunctionOnSet, MapThenFoldSet, Sums, One

(* Induction on finite sets: a set of sets that is not empty has a         *)
(* smallest one, so that a property all smaller sets have, and hence this  *)
(* one, has no counterexample.                                             *)
LEMMA Smallest ==
  ASSUME NEW S, IsFiniteSet(S), NEW T \in SUBSET SUBSET S, T # {}
  PROVE  \E s \in T : \A r \in T : ~ (r \subseteq s /\ r # s)
<1>1. SUBSET S = FiniteSubsetsOf(S)
  BY FS_FiniteSubsetsOfFinite
<1>2. PICK s \in T : \A r \in T : ~ (<<r, s>> \in StrictSubsetOrdering(S))
  BY <1>1, FS_StrictSubsetOrderingWellFounded, WFMin, ZenonT(40)
<1>q. QED  BY <1>2 DEF StrictSubsetOrdering

(* Partial sums do not depend on the set they are parts of.                *)
LEMMA SumsAgree ==
  ASSUME NEW f, NEW A, NEW B, IsFiniteSet(A), NEW g, NEW h,
         Sums(f, A, g), Sums(f, B, h),
         NEW r \in SUBSET A, r \in SUBSET B
  PROVE  g[r] = h[r]
<1> DEFINE T == {s \in SUBSET r : g[s] # h[s]}
<1>1. SUFFICES ASSUME T # {} PROVE FALSE
  OBVIOUS
<1>2. IsFiniteSet(r)
  BY FS_Subset
<1>3. PICK s \in T : \A q \in T : ~ (q \subseteq s /\ q # s)
  <2>1. T \in SUBSET SUBSET r
    OBVIOUS
  <2> HIDE DEF T
  <2> QED  BY <1>1, <1>2, <2>1, Smallest
<1>4. CASE s = {}
  BY <1>4, <1>3 DEF Sums
<1>5. CASE s # {}
  <2>1. One(s) \in s
    BY <1>5, OneOf
  <2>2. s \ {One(s)} \notin T
    BY <1>3, <2>1
  <2>3. g[s \ {One(s)}] = h[s \ {One(s)}]
    BY <2>2
  <2>4. s \in SUBSET A /\ s \in SUBSET B
    OBVIOUS
  <2>5. g[s] = f[One(s)] + g[s \ {One(s)}]
    BY <1>5, <2>4 DEF Sums
  <2>6. h[s] = f[One(s)] + h[s \ {One(s)}]
    BY <1>5, <2>4 DEF Sums
  <2> QED  BY <2>3, <2>5, <2>6
<1> QED  BY <1>4, <1>5

(* There are partial sums of every finite set: those of smaller sets make  *)
(* up those of the next.                                                   *)
LEMMA SumsExist ==
  ASSUME NEW f, NEW S, IsFiniteSet(S)
  PROVE  \E g : Sums(f, S, g)
<1> DEFINE T == {s \in SUBSET S : ~ \E g : Sums(f, s, g)}
<1>1. SUFFICES ASSUME T # {} PROVE FALSE
  OBVIOUS
<1>2. PICK A \in T : \A q \in T : ~ (q \subseteq A /\ q # A)
  <2>1. T \in SUBSET SUBSET S
    OBVIOUS
  <2> HIDE DEF T
  <2> QED  BY <1>1, <2>1, Smallest
<1>3. IsFiniteSet(A)
  BY FS_Subset
<1> DEFINE G(s) == CHOOSE h : Sums(f, s, h)
           W(s) == s \ {One(s)}
           g == [s \in SUBSET A |-> IF s = {} THEN 0 ELSE f[One(s)] + G(W(s))[W(s)]]
<1>4. ASSUME NEW s \in SUBSET A, s # {}
      PROVE  /\ W(s) \in SUBSET A
             /\ Sums(f, W(s), G(W(s)))
  <2>1. W(s) \in SUBSET A /\ W(s) # A
    BY <1>4, OneOf
  <2>2. W(s) \notin T
    BY <1>2, <2>1
  <2>3. \E h : Sums(f, W(s), h)
    BY <2>1, <2>2
  <2> QED  BY <2>1, <2>3
<1>5. ASSUME NEW s \in SUBSET A, s # {}
      PROVE  g[W(s)] = G(W(s))[W(s)]
  <2>1. W(s) \in SUBSET A /\ Sums(f, W(s), G(W(s)))
    BY <1>4, <1>5
  <2>2. CASE W(s) = {}
    BY <2>1, <2>2 DEF Sums
  <2>3. CASE W(s) # {}
    <3>1. W(W(s)) \in SUBSET W(s) /\ Sums(f, W(W(s)), G(W(W(s))))
      BY <2>1, <2>3, <1>4
    <3>2. G(W(s))[W(W(s))] = G(W(W(s)))[W(W(s))]
      <4> HIDE DEF G, W
      <4>1. IsFiniteSet(W(s))
        BY <1>3, <2>1, FS_Subset
      <4>2. W(W(s)) \in SUBSET W(W(s))
        OBVIOUS
      <4> QED  BY <2>1, <3>1, <4>1, <4>2, SumsAgree
    <3>3. g[W(s)] = f[One(W(s))] + G(W(W(s)))[W(W(s))]
      BY <2>1, <2>3
    <3>4. G(W(s))[W(s)] = f[One(W(s))] + G(W(s))[W(W(s))]
      <4> HIDE DEF G
      <4> QED  BY <2>1, <2>3 DEF Sums
    <3> QED  BY <3>2, <3>3, <3>4
  <2> QED  BY <2>2, <2>3
<1>6. Sums(f, A, g)
  <2>1. g = [s \in SUBSET A |-> IF s = {} THEN 0 ELSE f[One(s)] + g[W(s)]]
    <3> HIDE DEF G
    <3>1. ASSUME NEW s \in SUBSET A
          PROVE  g[s] = IF s = {} THEN 0 ELSE f[One(s)] + g[W(s)]
      BY <1>5
    <3> QED  BY <3>1
  <2> QED  BY <2>1 DEF Sums
<1> QED  BY <1>2, <1>6

(* A sum is a partial sum of every larger set.                             *)
LEMMA SumsOf ==
  ASSUME NEW f, NEW S, IsFiniteSet(S), NEW g, Sums(f, S, g), NEW r \in SUBSET S
  PROVE  SumFunctionOnSet(f, r) = g[r]
<1>1. IsFiniteSet(r)
  BY FS_Subset
<1>2. PICK h : Sums(f, r, h)
  BY <1>1, SumsExist
<1> DEFINE c == CHOOSE k : Sums(f, r, k)
<1>3. Sums(f, r, c)
  BY <1>2
<1>4. SumFunctionOnSet(f, r) = c[r]
  BY SumIs
<1>5. c[r] = g[r]
  <2> HIDE DEF c
  <2> QED  BY <1>1, <1>3, SumsAgree
<1> QED  BY <1>4, <1>5

(* The sum of nothing.                                                     *)
LEMMA SumOfNone == ASSUME NEW f PROVE SumFunctionOnSet(f, {}) = 0
<1>1. IsFiniteSet({})
  BY FS_EmptySet
<1>2. PICK g : Sums(f, {}, g)
  BY <1>1, SumsExist
<1>3. g[{}] = 0
  BY <1>2 DEF Sums
<1> QED  BY <1>1, <1>2, <1>3, SumsOf

(* The sum of something.                                                   *)
LEMMA SumOfSome ==
  ASSUME NEW f, NEW S, IsFiniteSet(S), S # {}
  PROVE  SumFunctionOnSet(f, S) = f[One(S)] + SumFunctionOnSet(f, S \ {One(S)})
<1>2. PICK g : Sums(f, S, g)
  BY SumsExist
<1>3. g[S] = f[One(S)] + g[S \ {One(S)}]
  BY <1>2 DEF Sums
<1>4. SumFunctionOnSet(f, S) = g[S]
  BY <1>2, SumsOf
<1>5. SumFunctionOnSet(f, S \ {One(S)}) = g[S \ {One(S)}]
  BY <1>2, SumsOf
<1> QED  BY <1>3, <1>4, <1>5

(* A sum of integers is one.                                               *)
LEMMA SumIsInt ==
  ASSUME NEW f, NEW S, IsFiniteSet(S), \A x \in S : f[x] \in Int
  PROVE  SumFunctionOnSet(f, S) \in Int
<1> DEFINE T == {s \in SUBSET S : SumFunctionOnSet(f, s) \notin Int}
<1>1. SUFFICES ASSUME T # {} PROVE FALSE
  OBVIOUS
<1>2. PICK s \in T : \A q \in T : ~ (q \subseteq s /\ q # s)
  <2>1. T \in SUBSET SUBSET S
    OBVIOUS
  <2> HIDE DEF T
  <2> QED  BY <1>1, <2>1, Smallest
<1>3. s # {}
  BY SumOfNone
<1>4. One(s) \in s
  BY <1>3, OneOf
<1>5. SumFunctionOnSet(f, s \ {One(s)}) \in Int
  BY <1>2, <1>4
<1>6. IsFiniteSet(s)
  BY FS_Subset
<1> QED  BY <1>3, <1>4, <1>5, <1>6, SumOfSome

(* The order does not matter: any element may be the one taken next.       *)
LEMMA SumWithout ==
  ASSUME NEW f, NEW S, IsFiniteSet(S), \A x \in S : f[x] \in Int, NEW y \in S
  PROVE  SumFunctionOnSet(f, S) = f[y] + SumFunctionOnSet(f, S \ {y})
<1> DEFINE T == {s \in SUBSET S : \E x \in s :
                   SumFunctionOnSet(f, s) # f[x] + SumFunctionOnSet(f, s \ {x})}
<1>1. SUFFICES ASSUME T # {} PROVE FALSE
  OBVIOUS
<1>2. PICK s \in T : \A q \in T : ~ (q \subseteq s /\ q # s)
  <2>1. T \in SUBSET SUBSET S
    OBVIOUS
  <2> HIDE DEF T
  <2> QED  BY <1>1, <2>1, Smallest
<1>3. PICK x \in s : SumFunctionOnSet(f, s) # f[x] + SumFunctionOnSet(f, s \ {x})
  OBVIOUS
<1> DEFINE o == One(s)
<1>4. o \in s /\ s \in SUBSET S
  BY OneOf
<1> HIDE DEF o
<1>5. IsFiniteSet(s) /\ IsFiniteSet(s \ {o, x})
  BY FS_Subset
<1>6. SumFunctionOnSet(f, s) = f[o] + SumFunctionOnSet(f, s \ {o})
  BY <1>5, SumOfSome DEF o
<1>7. x # o
  BY <1>3, <1>6
<1>8. s \ {o} \notin T /\ s \ {x} \notin T
  BY <1>2, <1>4
<1>9. SumFunctionOnSet(f, s \ {o}) = f[x] + SumFunctionOnSet(f, (s \ {o}) \ {x})
  BY <1>8, <1>7
<1>10. SumFunctionOnSet(f, s \ {x}) = f[o] + SumFunctionOnSet(f, (s \ {x}) \ {o})
  BY <1>4, <1>8, <1>7
<1>11. (s \ {o}) \ {x} = s \ {o, x} /\ (s \ {x}) \ {o} = s \ {o, x}
  OBVIOUS
<1>12. SumFunctionOnSet(f, s \ {o, x}) \in Int
  BY <1>5, SumIsInt
<1>13. f[o] \in Int /\ f[x] \in Int
  BY <1>4
<1>14. SumFunctionOnSet(f, s \ {o}) = f[x] + SumFunctionOnSet(f, s \ {o, x})
  BY <1>9, <1>11
<1>15. SumFunctionOnSet(f, s \ {x}) = f[o] + SumFunctionOnSet(f, s \ {o, x})
  BY <1>10, <1>11
<1> HIDE DEF T
<1> QED  BY <1>3, <1>6, <1>12, <1>13, <1>14, <1>15

(* Functions that agree have the same sums.                                *)
LEMMA SumSame ==
  ASSUME NEW f, NEW h, NEW S, IsFiniteSet(S), \A x \in S : f[x] = h[x]
  PROVE  SumFunctionOnSet(f, S) = SumFunctionOnSet(h, S)
<1> DEFINE T == {s \in SUBSET S : SumFunctionOnSet(f, s) # SumFunctionOnSet(h, s)}
<1>1. SUFFICES ASSUME T # {} PROVE FALSE
  OBVIOUS
<1>2. PICK s \in T : \A q \in T : ~ (q \subseteq s /\ q # s)
  <2>1. T \in SUBSET SUBSET S
    OBVIOUS
  <2> HIDE DEF T
  <2> QED  BY <1>1, <2>1, Smallest
<1>3. s # {} /\ IsFiniteSet(s)
  BY SumOfNone, FS_Subset
<1>4. One(s) \in s
  BY <1>3, OneOf
<1>5. SumFunctionOnSet(f, s \ {One(s)}) = SumFunctionOnSet(h, s \ {One(s)})
  BY <1>2, <1>4
<1>6. f[One(s)] = h[One(s)]
  BY <1>4
<1> QED  BY <1>3, <1>5, <1>6, SumOfSome

(* A sum of natural numbers is one.                                        *)
LEMMA SumIsNat ==
  ASSUME NEW f, NEW S, IsFiniteSet(S), \A x \in S : f[x] \in Nat
  PROVE  SumFunctionOnSet(f, S) \in Nat
<1> DEFINE T == {s \in SUBSET S : SumFunctionOnSet(f, s) \notin Nat}
<1>1. SUFFICES ASSUME T # {} PROVE FALSE
  OBVIOUS
<1>2. PICK s \in T : \A q \in T : ~ (q \subseteq s /\ q # s)
  <2>1. T \in SUBSET SUBSET S
    OBVIOUS
  <2> HIDE DEF T
  <2> QED  BY <1>1, <2>1, Smallest
<1>3. s # {}
  BY SumOfNone
<1>4. One(s) \in s
  BY <1>3, OneOf
<1>5. SumFunctionOnSet(f, s \ {One(s)}) \in Nat
  BY <1>2, <1>4
<1>6. IsFiniteSet(s)
  BY FS_Subset
<1>7. f[One(s)] \in Nat
  BY <1>4
<1> QED  BY <1>3, <1>5, <1>6, <1>7, SumOfSome

(* A part of a sum of natural numbers is no more than the sum.             *)
LEMMA SumOfPart ==
  ASSUME NEW f, NEW A, IsFiniteSet(A), \A x \in A : f[x] \in Nat, NEW B \in SUBSET A
  PROVE  SumFunctionOnSet(f, B) <= SumFunctionOnSet(f, A)
<1> DEFINE T == {s \in SUBSET A : B \subseteq s
                   /\ ~ SumFunctionOnSet(f, B) <= SumFunctionOnSet(f, s)}
<1>1. SUFFICES ASSUME T # {} PROVE FALSE
  OBVIOUS
<1>2. PICK s \in T : \A q \in T : ~ (q \subseteq s /\ q # s)
  <2>1. T \in SUBSET SUBSET A
    OBVIOUS
  <2> HIDE DEF T
  <2> QED  BY <1>1, <2>1, Smallest
<1>3. IsFiniteSet(B) /\ IsFiniteSet(s) /\ \A x \in s : f[x] \in Nat
  BY FS_Subset
<1>4. SumFunctionOnSet(f, B) \in Nat /\ SumFunctionOnSet(f, s) \in Nat
  BY <1>3, SumIsNat
<1>5. PICK y \in s : y \notin B
  BY <1>4
<1>6. B \subseteq s \ {y} /\ s \ {y} \in SUBSET A
  BY <1>5
<1>7. SumFunctionOnSet(f, B) <= SumFunctionOnSet(f, s \ {y})
  BY <1>2, <1>5, <1>6
<1>8. SumFunctionOnSet(f, s) = f[y] + SumFunctionOnSet(f, s \ {y})
  BY <1>3, SumWithout
<1>9. SumFunctionOnSet(f, s \ {y}) \in Nat /\ f[y] \in Nat
  <2>1. IsFiniteSet(s \ {y}) /\ \A x \in s \ {y} : f[x] \in Nat
    BY <1>3, FS_Subset
  <2> QED  BY <1>3, <2>1, SumIsNat
<1>10. ~ SumFunctionOnSet(f, B) <= SumFunctionOnSet(f, s)
  OBVIOUS
<1> HIDE DEF T
<1> QED  BY <1>4, <1>7, <1>8, <1>9, <1>10

(* A set of numbers has one whose predecessor is not in it.                *)
LEMMA Lowest ==
  ASSUME NEW n \in Nat, NEW K \in SUBSET (1..n), K # {}
  PROVE  \E k \in K : k - 1 \notin K
<1> DEFINE T == {1..k : k \in K}
<1>1. IsFiniteSet(1..n)
  BY FS_Interval
<1>2. T \in SUBSET SUBSET (1..n) /\ T # {}
  <2>1. \A k \in K : 1..k \in SUBSET (1..n)
    OBVIOUS
  <2>2. T \subseteq SUBSET (1..n)
    BY <2>1
  <2>3. PICK k \in K : TRUE
    OBVIOUS
  <2>4. 1..k \in T
    BY <2>3
  <2> QED  BY <2>2, <2>4, Zenon
<1>3. PICK s \in T : \A r \in T : ~ (r \subseteq s /\ r # s)
  <2> DEFINE S == 1..n
  <2>1. IsFiniteSet(S) /\ T \in SUBSET SUBSET S /\ T # {}
    BY <1>1, <1>2, Zenon
  <2> HIDE DEF T, S
  <2> QED  BY <2>1, Smallest
<1>4. PICK k \in K : s = 1..k
  OBVIOUS
<1>5. ASSUME k - 1 \in K PROVE FALSE
  <2>1. 1..k - 1 \in T
    BY <1>5
  <2>2. k \in 1..k /\ k \notin 1..k - 1 /\ 1..k - 1 \subseteq 1..k
    OBVIOUS
  <2> QED  BY <1>3, <1>4, <2>1, <2>2
<1> QED  BY <1>5

(* What becomes of a sum when one element changes its value, comes, goes,  *)
(* or neither.                                                             *)
LEMMA SumChange ==
  ASSUME NEW f, NEW h, NEW A, NEW B, NEW t, IsFiniteSet(A), A \ {t} = B \ {t},
         \A x \in A : f[x] \in Int, \A x \in B : h[x] \in Int,
         \A x \in A \ {t} : f[x] = h[x]
  PROVE  /\ SumFunctionOnSet(f, A) \in Int
         /\ SumFunctionOnSet(h, B) = SumFunctionOnSet(f, A)
              + (IF t \in B THEN h[t] ELSE 0) - (IF t \in A THEN f[t] ELSE 0)
<1> DEFINE C == A \ {t}
           sf(s) == SumFunctionOnSet(f, s)
           sh(s) == SumFunctionOnSet(h, s)
<1>1. IsFiniteSet(C) /\ IsFiniteSet(B)
  <2>1. IsFiniteSet(C)
    BY FS_RemoveElement
  <2>2. B = C \cup {t} \/ B = C
    OBVIOUS
  <2>3. IsFiniteSet(C \cup {t})
    BY <2>1, FS_AddElement
  <2> QED  BY <2>1, <2>2, <2>3
<1>2. sf(C) = sh(C)
  BY <1>1, SumSame
<1>3. sf(C) \in Int /\ sf(A) \in Int
  BY <1>1, SumIsInt
<1>4. sf(A) = (IF t \in A THEN f[t] ELSE 0) + sf(C)
  <2>1. CASE t \in A
    BY <2>1, SumWithout
  <2>2. CASE t \notin A
    <3>1. C = A
      BY <2>2
    <3> QED  BY <2>2, <3>1, <1>3
  <2> QED  BY <2>1, <2>2
<1>5. sh(B) = (IF t \in B THEN h[t] ELSE 0) + sh(C)
  <2>0. sh(C) \in Int
    BY <1>2, <1>3
  <2>1. CASE t \in B
    <3>1. sh(B) = h[t] + sh(B \ {t})
      BY <1>1, <2>1, SumWithout
    <3>2. B \ {t} = C
      OBVIOUS
    <3> QED  BY <2>1, <3>1, <3>2
  <2>2. CASE t \notin B
    <3>1. C = B
      BY <2>2
    <3>2. sh(B) = sh(C)
      BY <3>1
    <3> HIDE DEF sh, C
    <3> QED  BY <2>0, <2>2, <3>2
  <2> QED  BY <2>1, <2>2
<1>6. (t \in A => f[t] \in Int) /\ (t \in B => h[t] \in Int)
  OBVIOUS
<1> HIDE DEF sf, sh
<1>7. sh(B) = sf(A) + (IF t \in B THEN h[t] ELSE 0) - (IF t \in A THEN f[t] ELSE 0)
  BY <1>2, <1>3, <1>4, <1>5, <1>6
<1> QED  BY <1>3, <1>7 DEF sf, sh

(* What becomes of the size of a set that one element joins or leaves.     *)
LEMMA SizeChange ==
  ASSUME NEW A, NEW B, NEW t, IsFiniteSet(A), A \ {t} = B \ {t}
  PROVE  /\ IsFiniteSet(B) /\ Cardinality(A) \in Nat /\ Cardinality(B) \in Nat
         /\ Cardinality(B) = Cardinality(A)
              + (IF t \in B THEN 1 ELSE 0) - (IF t \in A THEN 1 ELSE 0)
<1> DEFINE C == A \ {t}
<1>1. IsFiniteSet(C) /\ Cardinality(C) = Cardinality(A) - (IF t \in A THEN 1 ELSE 0)
  BY FS_RemoveElement, FS_CardinalityType
<1>2. Cardinality(A) \in Nat
  BY FS_CardinalityType
<1>3. IsFiniteSet(C \cup {t}) /\ Cardinality(C \cup {t}) = Cardinality(C) + 1
  BY <1>1, FS_AddElement
<1>4. CASE t \in B
  <2>1. B = C \cup {t}
    BY <1>4
  <2> HIDE DEF C
  <2> QED  BY <1>1, <1>2, <1>3, <1>4, <2>1, FS_CardinalityType
<1>5. CASE t \notin B
  <2>1. B = C
    BY <1>5
  <2> HIDE DEF C
  <2> QED  BY <1>1, <1>2, <1>5, <2>1, FS_CardinalityType
<1> QED  BY <1>4, <1>5

=============================================================================
