----------------------------- MODULE FiniteFacts -----------------------------
(***************************************************************************)
(* Facts about finite sets of numbers and about sums over finite sets that *)
(* the proofs of the other modules need: Max and Min are what their names  *)
(* say, and MapThenSumSet, a recursive function over the subsets of a set, *)
(* adds and removes the terms one expects.  Induction takes the form of a  *)
(* minimal counterexample (WFMin): the library's induction rules have an   *)
(* operator for a parameter.                                               *)
(***************************************************************************)
EXTENDS Integers, FiniteSets, FiniteSetsExt, FiniteSetTheorems, TLAPS

\* The provers of a step that names none, and the seconds they may take.
USE ZenonT(2), SMTT(30)

-----------------------------------------------------------------------------
(* The largest and the smallest element *)

\* A set of naturals has a least member.
LEMMA LeastNatural ==
    ASSUME NEW T, T \subseteq Nat, T # {}
    PROVE  \E m \in T : \A y \in T : m <= y
<1>1. PICK m \in T : \A y \in T : ~(<<y, m>> \in OpToRel(<, Nat))
  BY NatLessThanWellFounded, WFMin
<1>2. \A y \in T : m <= y
  <2>1. ASSUME NEW y \in T, y < m PROVE FALSE
    <3>1. <<y, m>> \in OpToRel(<, Nat)
      BY <2>1 DEF OpToRel
    <3> QED BY <1>1, <3>1
  <2> QED BY <2>1
<1> QED BY <1>2

\* A set of integers that is bounded has a maximum,
LEMMA MaxIsLargest ==
    ASSUME NEW S, S \subseteq Int, S # {}, NEW n \in Int, \A x \in S : x <= n
    PROVE  Max(S) \in S /\ \A x \in S : x <= Max(S)
<1> DEFINE T == {k \in Nat : \E x \in S : x = n - k}
<1>1. \A x \in S : n - x \in T
  <2>1. ASSUME NEW x \in S PROVE n - x \in T
    <3>1. x \in Int /\ n - x \in Nat /\ x = n - (n - x)
      OBVIOUS
    <3> QED BY <3>1
  <2> QED BY <2>1
<1>2. T \subseteq Nat /\ T # {}
  BY <1>1, Zenon
<1>3. PICK m \in T : \A y \in T : m <= y
  BY <1>2, LeastNatural, Zenon
<1>4. PICK x \in S : x = n - m
  OBVIOUS
<1>5. ASSUME NEW y \in S PROVE x >= y
  <2>1. m <= n - y
    BY <1>1, <1>3, Zenon
  <2> QED BY <1>4, <2>1
<1> QED BY <1>5, Zenon DEF Max

\* as has one of positions,
LEMMA MaxUpTo ==
    ASSUME NEW n \in Int, NEW S \in SUBSET (1 .. n), S # {}
    PROVE  Max(S) \in 1 .. n /\ Max(S) \in S /\ \A x \in S : x <= Max(S)
<1>1. S \subseteq Int /\ \A x \in S : x <= n
  OBVIOUS
<1>2. Max(S) \in S /\ \A x \in S : x <= Max(S)
  BY <1>1, MaxIsLargest, Zenon
<1> QED BY <1>2, Zenon

\* and a set of naturals a minimum.
LEMMA MinIsSmallest ==
    ASSUME NEW S, S \subseteq Nat, S # {}
    PROVE  Min(S) \in S /\ \A x \in S : Min(S) <= x
<1>1. PICK m \in S : \A y \in S : m <= y
  BY LeastNatural, Zenon
<1> QED BY <1>1, Zenon DEF Min

-----------------------------------------------------------------------------
(* Sums *)

Total(f, S) == MapThenSumSet(LAMBDA x : f[x], S)

\* The function that MapThenSumSet chooses.
IsSum(g, f, S) ==
    g = [s \in SUBSET S |-> IF s = {} THEN 0 ELSE f[CHOOSE x \in s : TRUE] + g[s \ {CHOOSE x \in s : TRUE}]]

\* The fold of the library is such a sum.
LEMMA TotalIsSum ==
    ASSUME NEW f, NEW S
    PROVE  Total(f, S) = (CHOOSE g : IsSum(g, f, S))[S]
BY DEF Total, IsSum, MapThenSumSet, MapThenFoldSet

\* Among the finite sets of a set there is a smallest one.
LEMMA SmallestSet ==
    ASSUME NEW D, NEW W \in SUBSET FiniteSubsetsOf(D), W # {}
    PROVE  \E s \in W : \A t \in W : t \subseteq s => t = s
<1>2. PICK s \in W : \A t \in W : ~(<<t, s>> \in StrictSubsetOrdering(D))
  BY WFMin, FS_StrictSubsetOrderingWellFounded
<1>3. ASSUME NEW t \in W, t \subseteq s, t # s PROVE FALSE
  <2>1. <<t, s>> \in StrictSubsetOrdering(D)
    BY <1>3 DEF StrictSubsetOrdering, FiniteSubsetsOf
  <2> QED BY <1>2, <2>1
<1> QED BY <1>3

\* Two such sums agree where both are defined,
LEMMA SumsAgree ==
    ASSUME NEW f, NEW U, NEW V, NEW g, NEW h, IsSum(g, f, U), IsSum(h, f, V),
           NEW s, s \subseteq U, s \subseteq V, IsFiniteSet(s)
    PROVE  g[s] = h[s]
<1> DEFINE W == {t \in SUBSET s : IsFiniteSet(t) /\ g[t] # h[t]}
<1> SUFFICES ASSUME W # {} PROVE FALSE
  OBVIOUS
<1>1. PICK t \in W : \A r \in W : r \subseteq t => r = t
  <2>1. W \in SUBSET FiniteSubsetsOf(s)
    BY DEF FiniteSubsetsOf
  <2> HIDE DEF W
  <2> QED BY <2>1, SmallestSet
<1> DEFINE x == CHOOSE x \in t : TRUE
<1>2. t \in SUBSET U /\ t \in SUBSET V /\ IsFiniteSet(t) /\ g[t] # h[t]
  OBVIOUS
<1>3. /\ g[t] = IF t = {} THEN 0 ELSE f[x] + g[t \ {x}]
      /\ h[t] = IF t = {} THEN 0 ELSE f[x] + h[t \ {x}]
  BY <1>2 DEF IsSum
<1>4. t # {} /\ x \in t
  BY <1>2, <1>3
<1>5. IsFiniteSet(t \ {x})
  BY <1>2, FS_Subset
<1>6. g[t \ {x}] # h[t \ {x}]
  BY <1>2, <1>3, <1>4
<1>7. t \ {x} \in W
  BY <1>5, <1>6
<1> QED BY <1>1, <1>4, <1>7

\* and there is one for every finite set.
LEMMA SumExists ==
    ASSUME NEW f, NEW S, IsFiniteSet(S)
    PROVE  \E g : IsSum(g, f, S)
<1> DEFINE Has(s) == \E g : IsSum(g, f, s)
           W == {s \in SUBSET S : IsFiniteSet(s) /\ ~Has(s)}
<1> SUFFICES ASSUME W # {} PROVE FALSE
  OBVIOUS
<1>1. PICK s \in W : \A r \in W : r \subseteq s => r = s
  <2>1. W \in SUBSET FiniteSubsetsOf(S)
    BY DEF FiniteSubsetsOf
  <2> HIDE DEF W
  <2> QED BY <2>1, SmallestSet
<1>2. s \subseteq S /\ IsFiniteSet(s) /\ ~Has(s)
  OBVIOUS
<1> DEFINE sum(r) == CHOOSE h : IsSum(h, f, r)
           at(r) == IF r = {} THEN 0 ELSE f[CHOOSE x \in r : TRUE] + sum(r \ {CHOOSE x \in r : TRUE})[r \ {CHOOSE x \in r : TRUE}]
           g == [r \in SUBSET s |-> at(r)]
<1>3. ASSUME NEW r \in SUBSET s, r # s PROVE IsSum(sum(r), f, r)
  <2>1. IsFiniteSet(r) /\ r \in SUBSET S
    BY <1>2, FS_Subset
  <2>2. Has(r)
    BY <1>1, <1>3, <2>1
  <2> QED BY <2>2
<1>4. ASSUME NEW r \in SUBSET s, r # s PROVE at(r) = sum(r)[r]
  <2>1. IsSum(sum(r), f, r)
    BY <1>3, <1>4
  <2>2. IsFiniteSet(r)
    BY <1>2, FS_Subset
  <2> DEFINE x == CHOOSE x \in r : TRUE
  <2>3. sum(r)[r] = IF r = {} THEN 0 ELSE f[x] + sum(r)[r \ {x}]
    <3> HIDE DEF sum
    <3> QED BY <2>1 DEF IsSum
  <2>4. CASE r = {}
    BY <2>3, <2>4
  <2>5. CASE r # {}
    <3>1. r \ {x} \in SUBSET s /\ r \ {x} # s /\ IsFiniteSet(r \ {x})
      BY <2>2, <2>5, FS_Subset
    <3>2. IsSum(sum(r \ {x}), f, r \ {x})
      BY <3>1, <1>3, Zenon
    <3>3. sum(r)[r \ {x}] = sum(r \ {x})[r \ {x}]
      <4> HIDE DEF sum
      <4> QED BY <2>1, <3>1, <3>2, SumsAgree
    <3> QED BY <2>3, <2>5, <3>3
  <2> QED BY <2>4, <2>5
<1>5. IsSum(g, f, s)
  <2>1. ASSUME NEW r \in SUBSET s
        PROVE  at(r) = IF r = {} THEN 0 ELSE f[CHOOSE x \in r : TRUE] + g[r \ {CHOOSE x \in r : TRUE}]
    <3> DEFINE x == CHOOSE x \in r : TRUE
    <3>1. CASE r = {}
      BY <3>1
    <3>2. CASE r # {}
      <4>1. r \ {x} \in SUBSET s /\ r \ {x} # s
        BY <3>2
      <4>2. g[r \ {x}] = at(r \ {x})
        BY <4>1
      <4>3. at(r \ {x}) = sum(r \ {x})[r \ {x}]
        BY <4>1, <1>4, Zenon
      <4>4. at(r) = f[x] + sum(r \ {x})[r \ {x}]
        BY <3>2
      <4> HIDE DEF at, g, sum
      <4> QED BY <3>2, <4>2, <4>3, <4>4
    <3> QED BY <3>1, <3>2
  <2>2. g = [r \in SUBSET s |-> IF r = {} THEN 0 ELSE f[CHOOSE x \in r : TRUE] + g[r \ {CHOOSE x \in r : TRUE}]]
    <3> HIDE DEF at
    <3> QED BY <2>1, Zenon
  <2> HIDE DEF g
  <2> QED BY <2>2 DEF IsSum
<1> QED BY <1>2, <1>5

\* The equation of the sum: one element is taken away.
LEMMA TotalDef ==
    ASSUME NEW f, NEW S, IsFiniteSet(S)
    PROVE  /\ S = {} => Total(f, S) = 0
           /\ S # {} => \E x \in S : Total(f, S) = f[x] + Total(f, S \ {x})
<1> DEFINE sum(r) == CHOOSE h : IsSum(h, f, r)
<1>1. ASSUME NEW r \in SUBSET S PROVE IsSum(sum(r), f, r) /\ IsFiniteSet(r)
  <2>1. IsFiniteSet(r)
    BY FS_Subset
  <2>2. \E g : IsSum(g, f, r)
    BY <2>1, SumExists
  <2> QED BY <2>1, <2>2
<1>2. \A r : Total(f, r) = sum(r)[r]
  BY TotalIsSum
<1> HIDE DEF sum
<1> DEFINE x == CHOOSE x \in S : TRUE
<1>3. sum(S)[S] = IF S = {} THEN 0 ELSE f[x] + sum(S)[S \ {x}]
  BY <1>1, Zenon DEF IsSum
<1>4. ASSUME S # {} PROVE sum(S)[S \ {x}] = sum(S \ {x})[S \ {x}]
  <2>1. IsSum(sum(S), f, S) /\ IsSum(sum(S \ {x}), f, S \ {x}) /\ IsFiniteSet(S \ {x})
    BY <1>1
  <2> QED BY <2>1, SumsAgree
<1>5. ASSUME S # {} PROVE x \in S
  BY <1>5
<1> QED BY <1>2, <1>3, <1>4, <1>5, Zenon

\* A term may be added in any place.
LEMMA TotalAdd ==
    ASSUME NEW S, IsFiniteSet(S), NEW f, \A x \in S : f[x] \in Nat,
           NEW y, y \notin S, f[y] \in Nat
    PROVE  Total(f, S) \in Nat /\ Total(f, S \cup {y}) = f[y] + Total(f, S)
<1> DEFINE D == S \cup {y}
           Good(s) == Total(f, s) \in Nat /\ \A z \in D \ s : Total(f, s \cup {z}) = f[z] + Total(f, s)
           W == {s \in SUBSET D : ~Good(s)}
<1>0. IsFiniteSet(D) /\ \A x \in D : f[x] \in Nat
  BY FS_AddElement
<1> SUFFICES ASSUME W # {} PROVE FALSE
  <2>1. CASE W = {}
    <3>1. Good(S)
      BY <2>1
    <3> HIDE DEF W
    <3> QED BY <3>1
  <2> HIDE DEF W
  <2> QED BY <2>1
<1>1. PICK s \in W : \A r \in W : r \subseteq s => r = s
  <2>1. W \in SUBSET FiniteSubsetsOf(D)
    BY <1>0, FS_Subset DEF FiniteSubsetsOf
  <2> HIDE DEF W
  <2> QED BY <2>1, SmallestSet
<1>2. s \in SUBSET D /\ IsFiniteSet(s) /\ ~Good(s)
  BY <1>0, FS_Subset
<1>3. ASSUME NEW r \in SUBSET s, r # s PROVE Good(r)
  BY <1>1, <1>2, <1>3
<1>4. ASSUME NEW x \in s PROVE Total(f, s) = f[x] + Total(f, s \ {x}) /\ Total(f, s) \in Nat
  <2>1. Good(s \ {x})
    BY <1>3, Zenon
  <2>2. x \in D \ (s \ {x}) /\ (s \ {x}) \cup {x} = s /\ f[x] \in Nat
    BY <1>0, <1>2
  <2>3. Total(f, (s \ {x}) \cup {x}) = Total(f, s)
    BY ONLY <2>2, Zenon
  <2>4. Total(f, (s \ {x}) \cup {x}) = f[x] + Total(f, s \ {x}) /\ Total(f, s \ {x}) \in Nat
    BY <2>1, <2>2, Zenon
  <2> QED BY <2>2, <2>3, <2>4
<1>5. Total(f, s) \in Nat
  <2>1. CASE s = {}
    BY <1>2, <2>1, TotalDef
  <2>2. CASE s # {}
    BY <1>4, <2>2, Zenon
  <2> QED BY <2>1, <2>2
<1>6. ASSUME NEW z \in D \ s PROVE Total(f, s \cup {z}) = f[z] + Total(f, s)
  <2>1. IsFiniteSet(s \cup {z})
    BY <1>2, FS_AddElement
  <2>2. PICK x \in s \cup {z} : Total(f, s \cup {z}) = f[x] + Total(f, (s \cup {z}) \ {x})
    BY <2>1, TotalDef
  <2>3. CASE x = z
    <3>1. (s \cup {z}) \ {x} = s
      BY <2>3
    <3> QED BY <2>2, <2>3, <3>1
  <2>4. CASE x # z
    <3>1. x \in s /\ (s \cup {z}) \ {x} = (s \ {x}) \cup {z} /\ z \in D \ (s \ {x})
      BY <2>4
    <3>2. Good(s \ {x})
      BY <1>3, <3>1
    <3>3. Total(f, (s \ {x}) \cup {z}) = f[z] + Total(f, s \ {x}) /\ Total(f, s \ {x}) \in Nat
      BY <3>1, <3>2, Zenon
    <3>4. Total(f, s) = f[x] + Total(f, s \ {x})
      BY <1>4, <3>1
    <3>5. f[x] \in Nat /\ f[z] \in Nat
      BY <1>0, <1>2, <3>1
    <3>6. Total(f, (s \cup {z}) \ {x}) = Total(f, (s \ {x}) \cup {z})
      BY ONLY <3>1, Zenon
    <3> QED BY <2>2, <3>3, <3>4, <3>5, <3>6
  <2> QED BY <2>3, <2>4
<1> QED BY <1>2, <1>5, <1>6

\* Nothing adds up to 0.
LEMMA TotalEmpty ==
    ASSUME NEW f
    PROVE  Total(f, {}) = 0
BY TotalDef, FS_EmptySet

\* A total of naturals is a natural.
LEMMA TotalNat ==
    ASSUME NEW S, IsFiniteSet(S), NEW f, \A x \in S : f[x] \in Nat
    PROVE  Total(f, S) \in Nat
<1>1. CASE S = {}
  BY <1>1, TotalEmpty
<1>2. CASE S # {}
  <2>1. PICK x \in S : TRUE
    BY <1>2
  <2>2. IsFiniteSet(S \ {x})
    BY FS_Subset
  <2>3. Total(f, (S \ {x}) \cup {x}) = f[x] + Total(f, S \ {x}) /\ Total(f, S \ {x}) \in Nat
    BY <2>2, TotalAdd
  <2>4. (S \ {x}) \cup {x} = S
    OBVIOUS
  <2>5. Total(f, (S \ {x}) \cup {x}) = Total(f, S)
    BY ONLY <2>4, Zenon
  <2> QED BY <2>3, <2>5
<1> QED BY <1>1, <1>2

\* A member can be taken out of a total.
LEMMA TotalRemove ==
    ASSUME NEW S, IsFiniteSet(S), NEW f, \A x \in S : f[x] \in Nat, NEW y \in S
    PROVE  Total(f, S) = f[y] + Total(f, S \ {y}) /\ Total(f, S \ {y}) \in Nat
<1>1. IsFiniteSet(S \ {y})
  BY FS_Subset
<1>2. Total(f, (S \ {y}) \cup {y}) = f[y] + Total(f, S \ {y}) /\ Total(f, S \ {y}) \in Nat
  BY <1>1, TotalAdd
<1>3. (S \ {y}) \cup {y} = S
  OBVIOUS
<1>4. Total(f, (S \ {y}) \cup {y}) = Total(f, S)
  BY ONLY <1>3, Zenon
<1> QED BY <1>2, <1>4

\* The sum depends on the terms of the set only.
LEMMA TotalSame ==
    ASSUME NEW S, IsFiniteSet(S), NEW f, NEW g, \A x \in S : f[x] \in Nat /\ g[x] = f[x]
    PROVE  Total(g, S) = Total(f, S)
<1> DEFINE W == {s \in SUBSET S : Total(g, s) # Total(f, s)}
<1> SUFFICES ASSUME W # {} PROVE FALSE
  OBVIOUS
<1>1. PICK s \in W : \A r \in W : r \subseteq s => r = s
  <2>1. W \in SUBSET FiniteSubsetsOf(S)
    BY FS_Subset DEF FiniteSubsetsOf
  <2> HIDE DEF W
  <2> QED BY <2>1, SmallestSet
<1>2. s \in SUBSET S /\ IsFiniteSet(s) /\ Total(g, s) # Total(f, s)
  BY FS_Subset
<1>3. s # {}
  BY <1>2, TotalEmpty
<1>4. PICK x \in s : TRUE
  BY <1>3
<1>5. Total(f, s) = f[x] + Total(f, s \ {x}) /\ Total(g, s) = g[x] + Total(g, s \ {x})
  BY <1>2, TotalRemove
<1>6. Total(g, s \ {x}) = Total(f, s \ {x})
  BY <1>1, <1>2
<1>7. g[x] = f[x]
  BY <1>2
<1> QED BY <1>2, <1>5, <1>6, <1>7

\* One term is changed.
LEMMA TotalChange ==
    ASSUME NEW S, IsFiniteSet(S), NEW f \in [S -> Nat], NEW g \in [S -> Nat], NEW y \in S,
           \A x \in S \ {y} : g[x] = f[x]
    PROVE  /\ Total(f, S) \in Nat /\ Total(g, S) \in Nat
           /\ Total(g, S) = Total(f, S) - f[y] + g[y]
           /\ f[y] <= Total(f, S)
<1>1. IsFiniteSet(S \ {y})
  BY FS_Subset
<1>2. Total(f, S) = f[y] + Total(f, S \ {y}) /\ Total(f, S \ {y}) \in Nat
  BY TotalRemove
<1>3. Total(g, S) = g[y] + Total(g, S \ {y})
  BY TotalRemove
<1>4. Total(g, S \ {y}) = Total(f, S \ {y})
  BY <1>1, TotalSame
<1> QED BY <1>2, <1>3, <1>4

\* The sum over a part.
LEMMA TotalPart ==
    ASSUME NEW S, IsFiniteSet(S), NEW f, \A x \in S : f[x] \in Nat, NEW R \in SUBSET S
    PROVE  /\ Total(f, R) \in Nat /\ Total(f, S \ R) \in Nat
           /\ Total(f, S) = Total(f, R) + Total(f, S \ R)
<1> DEFINE W == {s \in SUBSET R : Total(f, S) # Total(f, s) + Total(f, S \ s)}
<1>0. Total(f, R) \in Nat /\ Total(f, S \ R) \in Nat
  BY TotalNat, FS_Subset
<1> SUFFICES ASSUME W # {} PROVE FALSE
  BY <1>0
<1>1. PICK s \in W : \A r \in W : r \subseteq s => r = s
  <2>1. W \in SUBSET FiniteSubsetsOf(S)
    BY FS_Subset DEF FiniteSubsetsOf
  <2> HIDE DEF W
  <2> QED BY <2>1, SmallestSet
<1>2. s \in SUBSET S /\ IsFiniteSet(s) /\ IsFiniteSet(S \ s) /\ Total(f, S) # Total(f, s) + Total(f, S \ s)
  BY FS_Subset
<1>3. CASE s = {}
  <2>1. S \ s = S
    BY <1>3
  <2>2. Total(f, S \ s) = Total(f, S)
    BY ONLY <2>1, Zenon
  <2> QED BY <1>2, <1>3, <2>2, TotalEmpty, TotalNat
<1>4. CASE s # {}
  <2>1. PICK x \in s : TRUE
    BY <1>4
  <2>2. Total(f, s) = f[x] + Total(f, s \ {x}) /\ Total(f, s \ {x}) \in Nat
    BY <1>2, TotalRemove
  <2>3. Total(f, S) = Total(f, s \ {x}) + Total(f, S \ (s \ {x}))
    BY <1>1, <1>2
  <2>4. x \notin S \ s /\ f[x] \in Nat /\ \A z \in S \ s : f[z] \in Nat
    BY <1>2
  <2>5. Total(f, (S \ s) \cup {x}) = f[x] + Total(f, S \ s) /\ Total(f, S \ s) \in Nat
    BY <1>2, <2>4, TotalAdd, Zenon
  <2>6. S \ (s \ {x}) = (S \ s) \cup {x}
    BY <1>2
  <2>7. Total(f, S \ (s \ {x})) = Total(f, (S \ s) \cup {x})
    BY ONLY <2>6, Zenon
  <2> QED BY <1>2, <2>2, <2>3, <2>4, <2>5, <2>7
<1> QED BY <1>3, <1>4

\* A total that is not zero has a part that is not.
LEMMA TotalPositive ==
    ASSUME NEW S, IsFiniteSet(S), NEW f, \A x \in S : f[x] \in Nat, Total(f, S) # 0
    PROVE  \E x \in S : f[x] > 0
<1> DEFINE W == {s \in SUBSET S : Total(f, s) # 0}
<1>1. W \in SUBSET FiniteSubsetsOf(S) /\ W # {}
  BY FS_Subset DEF FiniteSubsetsOf
<1>2. PICK s \in W : \A t \in W : t \subseteq s => t = s
  <2> HIDE DEF W
  <2> QED BY <1>1, SmallestSet
<1>3. IsFiniteSet(s) /\ s \subseteq S
  BY FS_Subset
<1>4. PICK x \in s : Total(f, s) = f[x] + Total(f, s \ {x})
  BY <1>2, <1>3, TotalDef
<1>5. Total(f, s \ {x}) = 0
  BY <1>2, <1>3
<1>6. f[x] \in Nat /\ f[x] # 0
  BY <1>2, <1>3, <1>4, <1>5
<1> QED BY <1>3, <1>6
=============================================================================
