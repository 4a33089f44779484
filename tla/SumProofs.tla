----------------------------- MODULE SumProofs -----------------------------
(***************************************************************************)
(* Sums over finite sets, as the folds of the community modules compute    *)
(* them: element by element, in the order of CHOOSE.  The lemmas say that  *)
(* the order does not matter.                                              *)
(*                                                                         *)
(* Induction over the size of a set is written as the search for a least   *)
(* counterexample (Least), which needs no operator as a parameter.         *)
(***************************************************************************)
EXTENDS Integers, FiniteSetTheorems, WellFoundedInduction, TLAPS

\* A set of natural numbers that is not empty has a least element.
LEMMA Least ==
  ASSUME NEW T \in SUBSET Nat, T # {}
  PROVE  \E n \in T : \A m \in T : n <= m
<1> DEFINE R == {ss \in Nat \X Nat : ss[1] < ss[2]}
<1>1. IsWellFoundedOn(R, Nat)
  BY NatLessThanWellFounded DEF OpToRel
<1> HIDE DEF R
<1>2. PICK n \in T : \A m \in T : ~(<<m, n>> \in R)
  BY <1>1, WFMin
<1>3. ASSUME NEW m \in T PROVE n <= m
  <2>1. m \in Nat /\ n \in Nat /\ ~(<<m, n>> \in R)
    BY <1>2
  <2>2. <<m, n>> \in Nat \X Nat /\ <<m, n>>[1] = m /\ <<m, n>>[2] = n
    BY <2>1
  <2>3. ~(m < n)
    BY <2>1, <2>2, Zenon DEF R
  <2> QED BY <2>1, <2>3
<1> QED BY <1>3

\* The element that a fold takes first.
Pick(s) == CHOOSE x \in s : TRUE

\* g[s] is the sum of f over s, for every subset s of S.
Sums(g, f, S) ==
  g = [s \in SUBSET S |-> IF s = {} THEN 0 ELSE f[Pick(s)] + g[s \ {Pick(s)}]]

SumOver(f, S) == (CHOOSE g : Sums(g, f, S))[S]

\* What is left of a finite set without its first element is smaller.
LEMMA PickSmaller ==
  ASSUME NEW s, IsFiniteSet(s), s # {}
  PROVE  /\ Pick(s) \in s /\ IsFiniteSet(s \ {Pick(s)})
         /\ Cardinality(s) \in Nat /\ Cardinality(s \ {Pick(s)}) \in Nat
         /\ Cardinality(s \ {Pick(s)}) < Cardinality(s)
<1>1. Pick(s) \in s
  BY DEF Pick
<1>2. IsFiniteSet(s \ {Pick(s)}) /\ Cardinality(s \ {Pick(s)}) = Cardinality(s) - 1
  BY <1>1, FS_RemoveElement
<1>3. Cardinality(s) \in Nat /\ Cardinality(s \ {Pick(s)}) \in Nat
  BY <1>2, FS_CardinalityType
<1> QED BY <1>1, <1>2, <1>3

\* What it means for one subset.
LEMMA SumsAt ==
  ASSUME NEW g, NEW f, NEW S, Sums(g, f, S), NEW s \in SUBSET S
  PROVE  g[s] = IF s = {} THEN 0 ELSE f[Pick(s)] + g[s \ {Pick(s)}]
BY DEF Sums

\* Sums are unique: they depend on the values of the function on the set alone.
LEMMA SumsAgree ==
  ASSUME NEW S, NEW T, NEW g, NEW h, NEW f, NEW e, Sums(g, f, S), Sums(h, e, T),
         NEW s \in SUBSET S, s \in SUBSET T, IsFiniteSet(s), \A x \in s : f[x] = e[x]
  PROVE  g[s] = h[s]
<1> DEFINE Differs(u) == u \in SUBSET s /\ g[u] # h[u]
           Bad == {n \in Nat : \E u : Differs(u) /\ Cardinality(u) = n}
<1>1. ASSUME g[s] # h[s] PROVE FALSE
  <2>1. Cardinality(s) \in Bad
    BY <1>1, FS_CardinalityType
  <2>2. PICK n \in Bad : \A m \in Bad : n <= m
    BY <2>1, Least
  <2>3. PICK u : Differs(u) /\ Cardinality(u) = n
    BY <2>2
  <2>4. IsFiniteSet(u) /\ u \in SUBSET S /\ u \in SUBSET T
    BY <2>3, FS_Subset
  <2>5. u # {}
    BY <2>3, <2>4, SumsAt
  <2> DEFINE v == u \ {Pick(u)}
  <2>6. Pick(u) \in s /\ Cardinality(v) \in Nat /\ Cardinality(v) < n
    BY <2>3, <2>4, <2>5, PickSmaller
  <2>7. g[v] = h[v]
    <3>1. Cardinality(v) \notin Bad
      <4> HIDE DEF Bad, v
      <4>1. n \in Nat
        BY DEF Bad
      <4> QED BY <2>2, <2>6, <4>1
    <3> QED BY <2>3, <2>6, <3>1
  <2>8. g[u] = f[Pick(u)] + g[v] /\ h[u] = e[Pick(u)] + h[v]
    BY <2>4, <2>5, SumsAt
  <2> QED BY <2>3, <2>6, <2>7, <2>8
<1> QED BY <1>1

\* Sums exist for every finite set.
LEMMA SumsExist ==
  ASSUME NEW f, NEW S, IsFiniteSet(S)
  PROVE  Sums(CHOOSE g : Sums(g, f, S), f, S)
<1> DEFINE The(s) == CHOOSE g : Sums(g, f, s)
           Lacks(s) == IsFiniteSet(s) /\ ~Sums(The(s), f, s)
           Bad == {n \in Nat : \E s : Lacks(s) /\ Cardinality(s) = n}
<1>1. ASSUME Lacks(S) PROVE FALSE
  <2>1. Cardinality(S) \in Bad
    BY <1>1, FS_CardinalityType
  <2>2. PICK n \in Bad : \A m \in Bad : n <= m
    BY <2>1, Least
  <2>3. PICK s : Lacks(s) /\ Cardinality(s) = n
    BY <2>2
  <2>4. ASSUME NEW u, IsFiniteSet(u), Cardinality(u) < n PROVE Sums(The(u), f, u)
    <3>1. Cardinality(u) \in Nat /\ Cardinality(u) \notin Bad
      BY <2>2, <2>4, FS_CardinalityType
    <3> QED BY <2>4, <3>1
  <2> HIDE DEF The
  <2> DEFINE rest(t) == t \ {Pick(t)}
             g == [t \in SUBSET s |-> IF t = {} THEN 0 ELSE f[Pick(t)] + The(rest(t))[rest(t)]]
  <2>5. ASSUME NEW t \in SUBSET s, t # {} PROVE g[rest(t)] = The(rest(t))[rest(t)]
    <3> DEFINE u == rest(t)
    <3>1. IsFiniteSet(t) /\ Cardinality(t) <= n /\ n \in Nat
      BY <2>2, <2>3, FS_Subset
    <3>2. IsFiniteSet(u) /\ Cardinality(u) < n /\ u \in SUBSET s
      BY <2>5, <3>1, PickSmaller
    <3>3. Sums(The(u), f, u)
      BY <2>4, <3>2
    <3>4. CASE u = {}
      <4>1. The(u)[u] = 0
        BY <3>3, <3>4, SumsAt
      <4> QED BY <3>2, <3>4, <4>1
    <3>5. CASE u # {}
      <4> DEFINE v == rest(u)
      <4>1. IsFiniteSet(v) /\ Cardinality(v) < n /\ v \in SUBSET u
        <5>1. /\ IsFiniteSet(v) /\ Cardinality(v) \in Nat /\ Cardinality(u) \in Nat
              /\ Cardinality(v) < Cardinality(u)
          BY <3>2, <3>5, PickSmaller
        <5> QED BY <3>1, <3>2, <5>1
      <4>2. The(u)[u] = f[Pick(u)] + The(u)[v]
        BY <3>3, <3>5, SumsAt
      <4>3. The(u)[v] = The(v)[v]
        BY <2>4, <3>3, <4>1, SumsAgree
      <4>4. g[u] = f[Pick(u)] + The(v)[v]
        BY <3>2, <3>5
      <4> QED BY <4>2, <4>3, <4>4
    <3> QED BY <3>4, <3>5
  <2>6. Sums(g, f, s)
    <3> HIDE DEF g
    <3>1. \A t \in SUBSET s : t # {} => The(rest(t))[rest(t)] = g[rest(t)]
      BY <2>5
    <3>2. g = [t \in SUBSET s |-> IF t = {} THEN 0 ELSE f[Pick(t)] + g[rest(t)]]
      BY <3>1 DEF g
    <3> QED BY <3>2 DEF Sums
  <2>7. Sums(The(s), f, s)
    BY <2>6 DEF The
  <2> QED BY <2>3, <2>7
<1> QED BY <1>1

-----------------------------------------------------------------------------
(* What a sum is.                                                           *)

\* Over nothing, the sum is zero.
LEMMA SumEmpty == ASSUME NEW f PROVE SumOver(f, {}) = 0
<1>1. Sums(CHOOSE g : Sums(g, f, {}), f, {})
  BY FS_EmptySet, SumsExist
<1> QED BY <1>1, SumsAt DEF SumOver

\* The first element is split off.
LEMMA SumPick ==
  ASSUME NEW f, NEW S, IsFiniteSet(S), S # {}
  PROVE  SumOver(f, S) = f[Pick(S)] + SumOver(f, S \ {Pick(S)})
<1> DEFINE g == CHOOSE h : Sums(h, f, S)
           T == S \ {Pick(S)}
           g2 == CHOOSE h : Sums(h, f, T)
<1>1. IsFiniteSet(T)
  BY PickSmaller
<1>2. Sums(g, f, S) /\ Sums(g2, f, T)
  BY <1>1, SumsExist
<1>3. SumOver(f, S) = g[S] /\ SumOver(f, T) = g2[T]
  BY DEF SumOver
<1> HIDE DEF g, g2
<1>4. g[S] = f[Pick(S)] + g[T]
  BY <1>2, SumsAt
<1>5. g[T] = g2[T]
  BY <1>1, <1>2, SumsAgree
<1> QED BY <1>3, <1>4, <1>5

\* Functions that agree on a set have the same sum over it.
LEMMA SumCongruent ==
  ASSUME NEW f, NEW e, NEW S, IsFiniteSet(S), \A x \in S : f[x] = e[x]
  PROVE  SumOver(f, S) = SumOver(e, S)
<1> DEFINE g == CHOOSE h : Sums(h, f, S)
           g2 == CHOOSE h : Sums(h, e, S)
<1>1. Sums(g, f, S) /\ Sums(g2, e, S)
  BY SumsExist
<1>2. SumOver(f, S) = g[S] /\ SumOver(e, S) = g2[S]
  BY DEF SumOver
<1> HIDE DEF g, g2
<1> QED BY <1>1, <1>2, SumsAgree

\* A sum of integers is an integer.
LEMMA SumInt ==
  ASSUME NEW f, NEW S, IsFiniteSet(S), \A x \in S : f[x] \in Int
  PROVE  SumOver(f, S) \in Int
<1> DEFINE Lacks(s) == s \in SUBSET S /\ SumOver(f, s) \notin Int
           Bad == {n \in Nat : \E s : Lacks(s) /\ Cardinality(s) = n}
<1>1. ASSUME Lacks(S) PROVE FALSE
  <2>1. Cardinality(S) \in Bad
    BY <1>1, FS_CardinalityType
  <2>2. PICK n \in Bad : \A m \in Bad : n <= m
    BY <2>1, Least
  <2>3. PICK s : Lacks(s) /\ Cardinality(s) = n
    BY <2>2
  <2>4. IsFiniteSet(s) /\ s # {}
    <3>1. IsFiniteSet(s)
      BY <2>3, FS_Subset
    <3>2. SumOver(f, {}) \in Int
      BY SumEmpty
    <3> QED BY <2>3, <3>1, <3>2
  <2> DEFINE t == s \ {Pick(s)}
  <2>5. Pick(s) \in s /\ t \in SUBSET S /\ Cardinality(t) \in Nat /\ Cardinality(t) < n
    BY <2>3, <2>4, PickSmaller
  <2>6. Cardinality(t) \notin Bad
    <3> HIDE DEF Bad, t
    <3>1. n \in Nat
      BY DEF Bad
    <3> QED BY <2>2, <2>5, <3>1
  <2>7. SumOver(f, t) \in Int
    BY <2>5, <2>6
  <2>8. SumOver(f, s) = f[Pick(s)] + SumOver(f, t)
    BY <2>4, SumPick
  <2> QED BY <2>3, <2>5, <2>7, <2>8
<1> QED BY <1>1

\* Any element can be split off.
LEMMA SumTake ==
  ASSUME NEW f, NEW S, IsFiniteSet(S), \A x \in S : f[x] \in Int, NEW y \in S
  PROVE  SumOver(f, S) = f[y] + SumOver(f, S \ {y})
<1> DEFINE Lacks(s) == s \in SUBSET S /\ \E z \in s : SumOver(f, s) # f[z] + SumOver(f, s \ {z})
           Bad == {n \in Nat : \E s : Lacks(s) /\ Cardinality(s) = n}
<1>1. ASSUME Lacks(S) PROVE FALSE
  <2>1. Cardinality(S) \in Bad
    BY <1>1, FS_CardinalityType
  <2>2. PICK n \in Bad : \A m \in Bad : n <= m
    BY <2>1, Least
  <2>3. PICK s : Lacks(s) /\ Cardinality(s) = n
    BY <2>2
  <2>4. PICK z \in s : SumOver(f, s) # f[z] + SumOver(f, s \ {z})
    BY <2>3
  <2> DEFINE x == Pick(s)
             t == s \ {x}
  <2>5. IsFiniteSet(s) /\ s \in SUBSET S /\ s # {}
    BY <2>3, <2>4, FS_Subset
  <2>6. x \in s /\ IsFiniteSet(t) /\ Cardinality(t) \in Nat /\ Cardinality(t) < n
    BY <2>3, <2>5, PickSmaller
  <2>7. SumOver(f, s) = f[x] + SumOver(f, t)
    BY <2>5, SumPick
  <2> HIDE DEF x
  <2>8. x # z
    BY <2>4, <2>7
  <2>9. SumOver(f, t) = f[z] + SumOver(f, t \ {z})
    <3>1. Cardinality(t) \notin Bad
      <4> HIDE DEF Bad, t
      <4>1. n \in Nat
        BY DEF Bad
      <4> QED BY <2>2, <2>6, <4>1
    <3>2. z \in t /\ t \in SUBSET S
      BY <2>5, <2>8
    <3> QED BY <2>6, <3>1, <3>2
  <2> DEFINE u == s \ {z}
  <2>10. IsFiniteSet(u) /\ Cardinality(u) \in Nat /\ Cardinality(u) < n /\ x \in u
    <3>1. IsFiniteSet(u) /\ Cardinality(u) = Cardinality(s) - 1 /\ Cardinality(s) \in Nat
      BY <2>5, FS_RemoveElement, FS_CardinalityType
    <3>2. Cardinality(u) \in Nat
      BY <3>1, FS_CardinalityType
    <3> QED BY <2>3, <2>6, <2>8, <3>1, <3>2
  <2>11. SumOver(f, u) = f[x] + SumOver(f, u \ {x})
    <3>1. Cardinality(u) \notin Bad
      <4> HIDE DEF Bad, u
      <4>1. n \in Nat
        BY DEF Bad
      <4> QED BY <2>2, <2>10, <4>1
    <3>2. u \in SUBSET S
      BY <2>5
    <3> QED BY <2>10, <3>1, <3>2
  <2>12. u \ {x} = t \ {z} /\ IsFiniteSet(t \ {z})
    BY <2>6, FS_Subset
  <2>13. SumOver(f, t \ {z}) \in Int /\ f[x] \in Int /\ f[z] \in Int
    BY <2>5, <2>6, <2>12, SumInt
  <2>14. SumOver(f, s) # f[z] + SumOver(f, u)
    BY <2>4
  <2> HIDE DEF t, u
  <2> QED BY <2>7, <2>9, <2>11, <2>12, <2>13, <2>14
<1> QED BY <1>1

\* An element that is added to a set adds its value to the sum.
LEMMA SumAdd ==
  ASSUME NEW f, NEW S, IsFiniteSet(S), NEW y, y \notin S, f[y] \in Int,
         \A x \in S : f[x] \in Int
  PROVE  SumOver(f, S \cup {y}) = SumOver(f, S) + f[y]
<1>1. IsFiniteSet(S \cup {y}) /\ (S \cup {y}) \ {y} = S
  BY FS_AddElement
<1>2. SumOver(f, S \cup {y}) = f[y] + SumOver(f, S)
  BY <1>1, SumTake
<1>3. SumOver(f, S) \in Int
  BY SumInt
<1> QED BY <1>2, <1>3

\* A value that changes changes the sum by as much.
LEMMA SumChange ==
  ASSUME NEW f, NEW e, NEW S, IsFiniteSet(S), NEW y \in S, \A x \in S : f[x] \in Int /\ e[x] \in Int,
         \A x \in S \ {y} : e[x] = f[x]
  PROVE  SumOver(e, S) = SumOver(f, S) + e[y] - f[y]
<1> DEFINE T == S \ {y}
<1>1. IsFiniteSet(T)
  BY FS_RemoveElement
<1>2. SumOver(f, S) = f[y] + SumOver(f, T) /\ SumOver(e, S) = e[y] + SumOver(e, T)
  BY SumTake
<1>3. SumOver(e, T) = SumOver(f, T)
  BY <1>1, SumCongruent
<1>4. SumOver(f, T) \in Int /\ f[y] \in Int /\ e[y] \in Int
  BY <1>1, SumInt
<1> HIDE DEF T
<1> QED BY <1>2, <1>3, <1>4

\* A sum of zeros is zero.
LEMMA SumZero ==
  ASSUME NEW f, NEW S, IsFiniteSet(S), \A x \in S : f[x] = 0
  PROVE  SumOver(f, S) = 0
<1> DEFINE Lacks(s) == s \in SUBSET S /\ SumOver(f, s) # 0
           Bad == {n \in Nat : \E s : Lacks(s) /\ Cardinality(s) = n}
<1>1. ASSUME Lacks(S) PROVE FALSE
  <2>1. Cardinality(S) \in Bad
    BY <1>1, FS_CardinalityType
  <2>2. PICK n \in Bad : \A m \in Bad : n <= m
    BY <2>1, Least
  <2>3. PICK s : Lacks(s) /\ Cardinality(s) = n
    BY <2>2
  <2>4. IsFiniteSet(s) /\ s # {}
    BY <2>3, FS_Subset, SumEmpty
  <2> DEFINE t == s \ {Pick(s)}
  <2>5. Pick(s) \in s /\ t \in SUBSET S /\ Cardinality(t) \in Nat /\ Cardinality(t) < n
    BY <2>3, <2>4, PickSmaller
  <2>6. Cardinality(t) \notin Bad
    <3> HIDE DEF Bad, t
    <3>1. n \in Nat
      BY DEF Bad
    <3> QED BY <2>2, <2>5, <3>1
  <2>7. SumOver(f, t) = 0
    BY <2>5, <2>6
  <2>8. SumOver(f, s) = f[Pick(s)] + SumOver(f, t)
    BY <2>4, SumPick
  <2> QED BY <2>3, <2>5, <2>7, <2>8
<1> QED BY <1>1

\* A sum of natural numbers is at least each of them.
LEMMA SumNat ==
  ASSUME NEW f, NEW S, IsFiniteSet(S), \A x \in S : f[x] \in Nat
  PROVE  SumOver(f, S) \in Nat /\ \A y \in S : f[y] <= SumOver(f, S)
<1> DEFINE Lacks(s) == s \in SUBSET S /\ SumOver(f, s) \notin Nat
           Bad == {n \in Nat : \E s : Lacks(s) /\ Cardinality(s) = n}
<1>1. ASSUME NEW u, Lacks(u) PROVE FALSE
  <2>1. Cardinality(u) \in Bad
    BY <1>1, FS_Subset, FS_CardinalityType
  <2>2. PICK n \in Bad : \A m \in Bad : n <= m
    BY <2>1, Least
  <2>3. PICK s : Lacks(s) /\ Cardinality(s) = n
    BY <2>2
  <2>4. IsFiniteSet(s) /\ s # {}
    <3>1. IsFiniteSet(s)
      BY <2>3, FS_Subset
    <3>2. SumOver(f, {}) \in Nat
      BY SumEmpty
    <3> QED BY <2>3, <3>1, <3>2
  <2> DEFINE t == s \ {Pick(s)}
  <2>5. Pick(s) \in s /\ t \in SUBSET S /\ Cardinality(t) \in Nat /\ Cardinality(t) < n
    BY <2>3, <2>4, PickSmaller
  <2>6. Cardinality(t) \notin Bad
    <3> HIDE DEF Bad, t
    <3>1. n \in Nat
      BY DEF Bad
    <3> QED BY <2>2, <2>5, <3>1
  <2>7. SumOver(f, t) \in Nat
    BY <2>5, <2>6
  <2>8. SumOver(f, s) = f[Pick(s)] + SumOver(f, t)
    BY <2>4, SumPick
  <2>9. f[Pick(s)] \in Nat
    BY <2>3, <2>5
  <2> HIDE DEF t
  <2>10. SumOver(f, s) \in Nat
    BY <2>7, <2>8, <2>9
  <2> QED BY <2>3, <2>10
<1>2. \A u \in SUBSET S : SumOver(f, u) \in Nat
  BY <1>1
<1>3. ASSUME NEW y \in S PROVE f[y] <= SumOver(f, S)
  <2>1. SumOver(f, S) = f[y] + SumOver(f, S \ {y})
    BY SumTake
  <2>2. SumOver(f, S \ {y}) \in Nat /\ f[y] \in Nat
    BY <1>2
  <2> QED BY <2>1, <2>2
<1> QED BY <1>2, <1>3

-----------------------------------------------------------------------------
(* Sizes of finite sets, as bounds.                                         *)

\* What loses elements and gains at most one.
LEMMA CountUpTo ==
  ASSUME NEW S, NEW T, IsFiniteSet(S)
  PROVE  /\ T \subseteq S =>
              IsFiniteSet(T) /\ Cardinality(T) \in Nat /\ Cardinality(T) <= Cardinality(S)
         /\ \A x : T \subseteq S \cup {x} =>
              IsFiniteSet(T) /\ Cardinality(T) \in Nat /\ Cardinality(T) <= Cardinality(S) + 1
         /\ \A x \in S : T \subseteq S \ {x} =>
              IsFiniteSet(T) /\ Cardinality(T) \in Nat /\ Cardinality(T) <= Cardinality(S) - 1
<1>1. Cardinality(S) \in Nat
  BY FS_CardinalityType
<1>2. ASSUME NEW U, IsFiniteSet(U), T \subseteq U
      PROVE  IsFiniteSet(T) /\ Cardinality(T) \in Nat /\ Cardinality(T) <= Cardinality(U)
  BY <1>2, FS_Subset, FS_CardinalityType
<1>3. ASSUME NEW x, T \subseteq S \cup {x}
      PROVE  IsFiniteSet(T) /\ Cardinality(T) \in Nat /\ Cardinality(T) <= Cardinality(S) + 1
  <2>1. /\ IsFiniteSet(S \cup {x}) /\ Cardinality(S \cup {x}) \in Nat
        /\ Cardinality(S \cup {x}) <= Cardinality(S) + 1
    <3>1. /\ IsFiniteSet(S \cup {x})
          /\ Cardinality(S \cup {x}) \in {Cardinality(S), Cardinality(S) + 1}
      BY FS_AddElement
    <3> QED BY <1>1, <3>1
  <2>2. IsFiniteSet(T) /\ Cardinality(T) \in Nat /\ Cardinality(T) <= Cardinality(S \cup {x})
    BY <1>2, <1>3, <2>1
  <2> QED BY <1>1, <2>1, <2>2
<1>4. ASSUME NEW x \in S, T \subseteq S \ {x}
      PROVE  IsFiniteSet(T) /\ Cardinality(T) \in Nat /\ Cardinality(T) <= Cardinality(S) - 1
  <2>1. IsFiniteSet(S \ {x}) /\ Cardinality(S \ {x}) = Cardinality(S) - 1
    BY FS_RemoveElement
  <2>2. IsFiniteSet(T) /\ Cardinality(T) \in Nat /\ Cardinality(T) <= Cardinality(S \ {x})
    BY <1>2, <1>4, <2>1
  <2> QED BY <2>1, <2>2
<1> QED BY <1>2, <1>3, <1>4

\* What gains elements and loses at most one.
LEMMA CountFrom ==
  ASSUME NEW S, NEW T, IsFiniteSet(S), IsFiniteSet(T)
  PROVE  /\ S \subseteq T => Cardinality(S) <= Cardinality(T)
         /\ \A x : x \notin S /\ S \cup {x} \subseteq T => Cardinality(S) + 1 <= Cardinality(T)
         /\ \A x : S \ {x} \subseteq T => Cardinality(S) - 1 <= Cardinality(T)
<1>1. Cardinality(S) \in Nat /\ Cardinality(T) \in Nat
  BY FS_CardinalityType
<1>2. ASSUME NEW U, U \subseteq T PROVE Cardinality(U) <= Cardinality(T)
  BY <1>2, FS_Subset
<1>3. ASSUME NEW x, x \notin S, S \cup {x} \subseteq T PROVE Cardinality(S) + 1 <= Cardinality(T)
  <2>1. Cardinality(S \cup {x}) = Cardinality(S) + 1
    BY <1>3, FS_AddElement
  <2>2. Cardinality(S \cup {x}) <= Cardinality(T)
    BY <1>2, <1>3
  <2> QED BY <2>1, <2>2
<1>4. ASSUME NEW x, S \ {x} \subseteq T PROVE Cardinality(S) - 1 <= Cardinality(T)
  <2>1. Cardinality(S \ {x}) \in Int /\ Cardinality(S) - 1 <= Cardinality(S \ {x})
    BY <1>1, FS_RemoveElement
  <2>2. Cardinality(S \ {x}) <= Cardinality(T)
    BY <1>2, <1>4
  <2> QED BY <1>1, <2>1, <2>2
<1> QED BY <1>2, <1>3, <1>4
=============================================================================
