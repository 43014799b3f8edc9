--------------------------- MODULE MempoolProofs ----------------------------
(***************************************************************************)
(* PoolSound, BundleIsValidIfTold and LeavesForCause of MempoolManager, for*)
(* every tree of blocks, every set of spend bundles and every limit, over  *)
(* transactions, blocks, batches, long syncs and cancelled tasks.          *)
(***************************************************************************)
EXTENDS MempoolManager, FiniteFacts

\* The provers of a step that names none, and the seconds they may take.
USE ZenonT(2), SMTT(30)

-----------------------------------------------------------------------------
(* The pool *)

\* The items held are bundles, finitely many, and the index by coin and the total
\* cost are theirs.
IndexOk(p) ==
    \A c \in Coin :
        \/ /\ p.removals[c] = NoItem
           /\ \A i \in p.spends : c \notin Spends[i]
        \/ /\ p.removals[c] \in p.spends
           /\ \A i \in p.spends : c \in Spends[i] <=> i = p.removals[c]

PoolOk(p) ==
    /\ p.spends \subseteq Item /\ IsFiniteSet(p.spends)
    /\ IndexOk(p)
    /\ p.cost = Total(Cost, p.spends)

\* CostOf and FeeOf, the sums of the code's loops, are the totals of FiniteFacts.
LEMMA CostIsTotal == \A S : CostOf(S) = Total(Cost, S) /\ FeeOf(S) = Total(Fee, S)
  BY DEF CostOf, FeeOf, Total

\* The costs of the items of a finite set, taken out of another, are a natural number.
LEMMA CostPart ==
    ASSUME NEW S \in SUBSET Item, IsFiniteSet(S), NEW R \in SUBSET S
    PROVE  /\ Total(Cost, R) \in Nat /\ Total(Cost, S \ R) \in Nat /\ Total(Cost, S) \in Nat
           /\ Total(Cost, S) = Total(Cost, R) + Total(Cost, S \ R)
           /\ IsFiniteSet(R) /\ IsFiniteSet(S \ R)
<1>1. \A x \in S : Cost[x] \in Nat
  BY ItemAssumption
<1>2. IsFiniteSet(R) /\ IsFiniteSet(S \ R)
  BY FS_Subset
<1>3. Total(Cost, R) \in Nat /\ Total(Cost, S \ R) \in Nat /\ Total(Cost, S) = Total(Cost, R) + Total(Cost, S \ R)
  BY <1>1, TotalPart
<1> QED BY <1>2, <1>3

\* remove_from_pool of some of the items keeps the index and the cost right.
LEMMA RemovedOk ==
    ASSUME NEW p, PoolOk(p), NEW S \in SUBSET p.spends
    PROVE  /\ PoolOk(remove_from_pool(p, S)) /\ remove_from_pool(p, S).spends = p.spends \ S
           /\ remove_from_pool(p, S).cost = Total(Cost, p.spends \ S)
<1> DEFINE q == remove_from_pool(p, S)
<1>1. /\ q.spends = p.spends \ S /\ q.cost = p.cost - Total(Cost, S)
      /\ \A c \in Coin : q.removals[c] = IF \E i \in S : c \in Spends[i] THEN NoItem ELSE p.removals[c]
  BY CostIsTotal DEF remove_from_pool
<1> HIDE DEF q
<1>2. p.spends \subseteq Item /\ IsFiniteSet(p.spends) /\ IndexOk(p) /\ p.cost = Total(Cost, p.spends)
  BY DEF PoolOk
<1>3. /\ Total(Cost, p.spends) = Total(Cost, S) + Total(Cost, p.spends \ S) /\ IsFiniteSet(p.spends \ S)
      /\ Total(Cost, S) \in Nat /\ Total(Cost, p.spends \ S) \in Nat
  BY <1>2, CostPart, Zenon
<1>4. q.cost = Total(Cost, p.spends \ S)
  BY <1>1, <1>2, <1>3
<1>5. IndexOk(q)
  <2>1. SUFFICES ASSUME NEW c \in Coin
                 PROVE  \/ q.removals[c] = NoItem /\ \A i \in q.spends : c \notin Spends[i]
                        \/ /\ q.removals[c] \in q.spends
                           /\ \A i \in q.spends : c \in Spends[i] <=> i = q.removals[c]
    BY DEF IndexOk
  <2>2. CASE \E i \in S : c \in Spends[i]
    BY <1>1, <1>2, <2>2 DEF IndexOk
  <2>3. CASE ~ \E i \in S : c \in Spends[i]
    BY <1>1, <1>2, <2>3 DEF IndexOk
  <2> QED BY <2>2, <2>3
<1> QED BY <1>1, <1>2, <1>3, <1>4, <1>5 DEF PoolOk, q

\* add_to_pool of an item that conflicts with none does, too.
LEMMA AddedOk ==
    ASSUME NEW p, PoolOk(p), NEW i \in Item, i \notin p.spends, NEW E \in SUBSET p.spends,
           \A j \in p.spends : Spends[j] \cap Spends[i] = {}
    PROVE  /\ PoolOk(add_to_pool(p, i, E)) /\ add_to_pool(p, i, E).spends = (p.spends \ E) \cup {i}
           /\ add_to_pool(p, i, E).cost = remove_from_pool(p, E).cost + Cost[i]
<1>1. PICK q : q = remove_from_pool(p, E)
  OBVIOUS
<1>2. PoolOk(q) /\ q.spends = p.spends \ E
  BY <1>1, RemovedOk, Zenon
<1>3. PICK r : r = add_to_pool(p, i, E)
  OBVIOUS
<1>4. /\ r.spends = q.spends \cup {i} /\ r.cost = q.cost + Cost[i]
      /\ \A c \in Coin : r.removals[c] = IF c \in Spends[i] THEN i ELSE q.removals[c]
  BY <1>1, <1>3 DEF add_to_pool
<1>5. q.spends \subseteq Item /\ IsFiniteSet(q.spends) /\ IndexOk(q) /\ q.cost = Total(Cost, q.spends) /\ i \notin q.spends
  BY <1>2 DEF PoolOk
<1>6. IsFiniteSet(r.spends) /\ r.spends \subseteq Item
  BY <1>4, <1>5, FS_AddElement
<1>7. r.cost = Total(Cost, r.spends)
  <2>1. Cost[i] \in Nat /\ \A x \in q.spends : Cost[x] \in Nat
    BY <1>5, ItemAssumption
  <2>2. Total(Cost, q.spends) \in Nat /\ Total(Cost, q.spends \cup {i}) = Cost[i] + Total(Cost, q.spends)
    BY <1>5, <2>1, TotalAdd, Zenon
  <2> QED BY <1>4, <1>5, <2>1, <2>2
<1>8. IndexOk(r)
  <2>1. \A j \in q.spends : Spends[j] \cap Spends[i] = {}
    BY <1>2
  <2>2. i # NoItem
    BY ItemAssumption
  <2>3. SUFFICES ASSUME NEW c \in Coin
                 PROVE  \/ r.removals[c] = NoItem /\ \A j \in r.spends : c \notin Spends[j]
                        \/ /\ r.removals[c] \in r.spends
                           /\ \A j \in r.spends : c \in Spends[j] <=> j = r.removals[c]
    BY DEF IndexOk
  <2> QED BY <1>4, <1>5, <2>1, <2>2 DEF IndexOk
<1> QED BY <1>1, <1>2, <1>3, <1>4, <1>6, <1>7, <1>8, Zenon DEF PoolOk

\* A pool into which some of the items of another are put one by one.
LEMMA PartOk ==
    ASSUME NEW p, PoolOk(p), NEW S \in SUBSET p.spends
    PROVE  PoolOk(PoolOf(S)) /\ PoolOf(S).spends = S /\ PoolOf(S).cost <= p.cost
<1> DEFINE q == PoolOf(S)
<1>1. /\ q.spends = S /\ q.cost = Total(Cost, S)
      /\ \A c \in Coin : q.removals[c] = IF \E i \in S : c \in Spends[i] THEN CHOOSE i \in S : c \in Spends[i] ELSE NoItem
  BY CostIsTotal DEF PoolOf
<1> HIDE DEF q
<1>2. p.spends \subseteq Item /\ IsFiniteSet(p.spends) /\ IndexOk(p) /\ p.cost = Total(Cost, p.spends)
  BY DEF PoolOk
<1>3. /\ Total(Cost, p.spends) = Total(Cost, S) + Total(Cost, p.spends \ S) /\ IsFiniteSet(S)
      /\ Total(Cost, S) \in Nat /\ Total(Cost, p.spends \ S) \in Nat
  BY <1>2, CostPart
<1>4. ASSUME NEW c \in Coin
      PROVE  \/ q.removals[c] = NoItem /\ \A i \in S : c \notin Spends[i]
             \/ q.removals[c] \in S /\ \A i \in S : c \in Spends[i] <=> i = q.removals[c]
  <2>1. CASE \E i \in S : c \in Spends[i]
    <3>1. q.removals[c] \in S /\ c \in Spends[q.removals[c]]
      BY <1>1, <2>1
    <3> QED BY <1>2, <3>1 DEF IndexOk
  <2>2. CASE ~ \E i \in S : c \in Spends[i]
    BY <1>1, <2>2
  <2> QED BY <2>1, <2>2
<1>5. IndexOk(q)
  BY <1>1, <1>4 DEF IndexOk
<1>6. q.cost <= p.cost
  BY <1>1, <1>2, <1>3
<1> QED BY <1>1, <1>2, <1>3, <1>5, <1>6 DEF PoolOk, q

-----------------------------------------------------------------------------
(* The cache of bundles kept for a retry *)

\* The cache holds no bundle twice and its cost is that of the bundles it holds.
TxsOk(q) ==
    /\ q.txs \in Seq(Item)
    /\ \A k, m \in 1 .. Len(q.txs) : q.txs[k] = q.txs[m] => k = m
    /\ q.cost = Total(Cost, Range(q.txs))

PendingOk(q) == TxsOk(q) /\ q.cost <= MaxPendingCost

\* A sequence has finitely many elements.
LEMMA RangeIs ==
    ASSUME NEW s \in Seq(Item)
    PROVE  /\ Range(s) = {s[k] : k \in 1 .. Len(s)} /\ Range(s) \subseteq Item
           /\ IsFiniteSet(Range(s)) /\ Len(s) \in Nat
<1>1. DOMAIN s = 1 .. Len(s) /\ Len(s) \in Nat /\ \A k \in 1 .. Len(s) : s[k] \in Item
  OBVIOUS
<1>2. Range(s) = {s[k] : k \in 1 .. Len(s)}
  BY <1>1 DEF Range
<1>3. IsFiniteSet(1 .. Len(s))
  BY <1>1, FS_Interval
<1>4. IsFiniteSet({s[k] : k \in 1 .. Len(s)})
  <2> DEFINE D == 1 .. Len(s)
             I == {s[k] : k \in D}
  <2>1. IsFiniteSet(D)
    BY <1>3
  <2>2. [k \in D |-> s[k]] \in Surjection(D, I)
    BY DEF Surjection
  <2> HIDE DEF D, I
  <2>3. IsFiniteSet(I)
    BY <2>1, <2>2, FS_Surjection
  <2> QED BY <2>3 DEF I, D
<1> QED BY <1>1, <1>2, <1>4

\* Without its m oldest items the cache is still right; without all of them it is empty.
LEMMA WithoutOk ==
    ASSUME NEW q, TxsOk(q), NEW m \in 0 .. Len(q.txs)
    PROVE  /\ TxsOk(WithoutOldest(q, m)) /\ WithoutOldest(q, m).cost \in Nat
           /\ m = Len(q.txs) => WithoutOldest(q, m).cost = 0
<1>1. PICK s \in Seq(Item) : s = q.txs
  BY DEF TxsOk
<1>2. /\ \A k, n \in 1 .. Len(s) : s[k] = s[n] => k = n
      /\ q.cost = Total(Cost, Range(s)) /\ m \in 0 .. Len(s)
  BY <1>1 DEF TxsOk
<1> DEFINE t == SubSeq(s, m + 1, Len(s))
           Old == {s[k] : k \in 1 .. m}
<1>3. /\ Range(s) = {s[k] : k \in 1 .. Len(s)} /\ Range(s) \subseteq Item
      /\ IsFiniteSet(Range(s)) /\ Len(s) \in Nat
  BY RangeIs
<1>4. t \in Seq(Item) /\ Len(t) = Len(s) - m /\ \A k \in 1 .. Len(s) - m : t[k] = s[m + k]
  <2>1. m + 1 \in Int /\ Len(s) \in Int /\ \A k \in m + 1 .. Len(s) : s[k] \in Item
    BY <1>2, <1>3
  <2>2. m + 1 \in 1 .. Len(s) + 1
    BY <1>2, <1>3
  <2> QED BY <1>2, <1>3, <2>1, <2>2
<1> HIDE DEF t
<1>5. \A k, n \in 1 .. Len(t) : t[k] = t[n] => k = n
  <2>1. SUFFICES ASSUME NEW k \in 1 .. Len(t), NEW n \in 1 .. Len(t), t[k] = t[n] PROVE k = n
    OBVIOUS
  <2>2. s[m + k] = s[m + n] /\ m + k \in 1 .. Len(s) /\ m + n \in 1 .. Len(s)
    BY <1>2, <1>3, <1>4, <2>1
  <2>3. m + k = m + n
    BY <1>2, <2>2
  <2> QED BY <1>2, <1>3, <2>3
<1>6. Range(t) = Range(s) \ Old /\ Old \subseteq Range(s)
  <2>1. Range(t) = {t[k] : k \in 1 .. Len(t)}
    BY <1>4, RangeIs
  <2>2. ASSUME NEW x, x \in Range(t) PROVE x \in Range(s) \ Old
    <3>1. PICK k \in 1 .. Len(s) - m : x = s[m + k]
      BY <1>4, <2>1, <2>2
    <3>2. m + k \in 1 .. Len(s)
      BY <1>2, <1>3
    <3>3. x \notin Old
      BY <1>2, <1>3, <3>1, <3>2
    <3> QED BY <1>3, <3>1, <3>2, <3>3
  <2>3. ASSUME NEW x, x \in Range(s) \ Old PROVE x \in Range(t)
    <3>1. PICK k \in 1 .. Len(s) : x = s[k]
      BY <1>3, <2>3
    <3>2. k \notin 1 .. m
      BY <2>3, <3>1
    <3>3. k - m \in 1 .. Len(s) - m /\ m + (k - m) = k
      BY <1>2, <1>3, <3>2
    <3>4. t[k - m] = s[k] /\ k - m \in 1 .. Len(t)
      BY <1>4, <3>3
    <3> QED BY <2>1, <3>1, <3>4
  <2>4. Old \subseteq Range(s)
    BY <1>2, <1>3
  <2> QED BY <2>2, <2>3, <2>4
<1>7. /\ Total(Cost, Range(s)) = Total(Cost, Old) + Total(Cost, Range(s) \ Old)
      /\ Total(Cost, Old) \in Nat /\ Total(Cost, Range(s) \ Old) \in Nat
  BY <1>3, <1>6, CostPart, Zenon
<1>8. PICK r : r = WithoutOldest(q, m)
  OBVIOUS
<1>9. r.txs = t /\ r.cost = Total(Cost, Range(s)) - Total(Cost, Old)
  BY <1>1, <1>2, <1>8, CostIsTotal DEF WithoutOldest, t
<1>10. r.cost = Total(Cost, Range(t)) /\ r.cost \in Nat
  BY <1>6, <1>7, <1>9
<1>11. m = Len(s) => r.cost = 0
  <2>1. SUFFICES ASSUME m = Len(s) PROVE r.cost = 0
    OBVIOUS
  <2>2. Range(s) \ Old = {}
    BY <1>3, <2>1
  <2> QED BY <1>6, <1>10, <2>2, TotalEmpty, Zenon
<1> QED BY <1>1, <1>4, <1>5, <1>8, <1>9, <1>10, <1>11 DEF TxsOk

\* PendingTxCache.add keeps the cache right and within its limit.
LEMMA PendingAdded ==
    ASSUME NEW q, PendingOk(q), NEW i \in Item
    PROVE  PendingOk(pending_add(q, i))
<1>1. CASE i \in Range(q.txs)
  BY <1>1 DEF pending_add
<1>2. CASE i \notin Range(q.txs)
  <2>1. PICK s \in Seq(Item) : s = q.txs
    BY DEF PendingOk, TxsOk
  <2>2. /\ \A k, n \in 1 .. Len(s) : s[k] = s[n] => k = n
        /\ q.cost = Total(Cost, Range(s)) /\ i \notin Range(s)
    BY <1>2, <2>1 DEF PendingOk, TxsOk
  <2>3. PICK r : r = [txs |-> Append(s, i), cost |-> q.cost + Cost[i]]
    BY Zenon
  <2>4. PICK t \in Seq(Item) : t = Append(s, i)
    <3>1. Append(s, i) \in Seq(Item)
      OBVIOUS
    <3> QED BY <3>1, Zenon
  <2>5. Len(t) = Len(s) + 1 /\ t[Len(s) + 1] = i /\ \A k \in 1 .. Len(s) : t[k] = s[k]
    BY <2>4
  <2>6. /\ Range(s) = {s[k] : k \in 1 .. Len(s)} /\ Len(s) \in Nat /\ Range(t) = {t[k] : k \in 1 .. Len(t)}
        /\ IsFiniteSet(Range(s)) /\ Range(s) \subseteq Item
    BY RangeIs
  <2>7. Range(t) = Range(s) \cup {i}
    BY <2>5, <2>6
  <2>8. TxsOk(r)
    <3>1. \A k, n \in 1 .. Len(t) : t[k] = t[n] => k = n
      <4>1. \A k \in 1 .. Len(t) : k \in 1 .. Len(s) \/ k = Len(s) + 1
        BY <2>5, <2>6
      <4>2. \A k \in 1 .. Len(s) : t[k] # i
        BY <2>2, <2>5, <2>6
      <4>3. \A k, n \in 1 .. Len(s) : t[k] = t[n] => k = n
        BY <2>2, <2>5
      <4> QED BY <2>5, <4>1, <4>2, <4>3
    <3>2. Cost[i] \in Nat /\ \A x \in Range(s) : Cost[x] \in Nat
      BY <2>6, ItemAssumption
    <3>3. Total(Cost, Range(s)) \in Nat /\ Total(Cost, Range(s) \cup {i}) = Cost[i] + Total(Cost, Range(s))
      BY <2>2, <2>6, <3>2, TotalAdd, Zenon
    <3>4. r.txs = t /\ r.cost = Total(Cost, Range(t))
      BY <2>2, <2>3, <2>4, <2>7, <3>2, <3>3
    <3> QED BY <3>1, <3>4 DEF TxsOk
  <2>9. r.txs = t /\ Len(t) \in Nat
    BY <2>3, <2>4
  <2> DEFINE Fits(m) == WithoutOldest(r, m).cost <= MaxPendingCost
             T == {m \in 0 .. Len(t) : Fits(m)}
  <2>10. \A m \in 0 .. Len(t) : WithoutOldest(r, m).cost \in Nat /\ TxsOk(WithoutOldest(r, m))
    BY <2>8, <2>9, WithoutOk
  <2>11. Len(t) \in T
    <3>1. Len(t) \in 0 .. Len(r.txs)
      BY <2>9
    <3>2. WithoutOldest(r, Len(t)).cost = 0
      BY <2>8, <2>9, <3>1, WithoutOk
    <3> QED BY <2>9, <3>2, ItemAssumption
  <2>12. PICK m \in T : \A y \in T : m <= y
    <3>1. T \subseteq Nat /\ T # {}
      BY <2>11
    <3> HIDE DEF T
    <3> QED BY <3>1, LeastNatural, Zenon
  <2>13. m \in 0 .. Len(t) /\ Fits(m) /\ \A k \in 0 .. m - 1 : WithoutOldest(r, k).cost > MaxPendingCost
    <3>1. m \in 0 .. Len(t) /\ Fits(m)
      OBVIOUS
    <3>2. ASSUME NEW k \in 0 .. m - 1 PROVE WithoutOldest(r, k).cost > MaxPendingCost
      <4>1. k \in 0 .. Len(t) /\ k < m
        BY <2>9, <3>1
      <4>2. ~ Fits(k)
        BY <2>12, <3>1, <4>1
      <4>3. WithoutOldest(r, k).cost \in Nat
        BY <2>10, <4>1
      <4> QED BY <4>2, <4>3, ItemAssumption
    <3> QED BY <3>1, <3>2
  <2>14. PICK n : /\ n \in 0 .. Len(t) /\ Fits(n)
                  /\ pending_add(q, i) = WithoutOldest(r, n)
    <3> DEFINE P(x) == Fits(x) /\ \A k \in 0 .. x - 1 : WithoutOldest(r, k).cost > MaxPendingCost
               c == CHOOSE x \in 0 .. Len(r.txs) : P(x)
    <3>1. pending_add(q, i) = WithoutOldest(r, c)
      BY <1>2, <2>1, <2>3 DEF pending_add
    <3>2. m \in 0 .. Len(r.txs) /\ P(m)
      BY <2>9, <2>13
    <3> HIDE DEF P
    <3>3. c \in 0 .. Len(r.txs) /\ P(c)
      BY <3>2
    <3> QED BY <2>9, <3>1, <3>3, Zenon DEF P
  <2> QED BY <2>10, <2>14 DEF PendingOk
<1> QED BY <1>1, <1>2

-----------------------------------------------------------------------------
(* Evictions *)

\* Multiplication by a natural number keeps the order, by a positive one it tells it.
LEMMA Products ==
    ASSUME NEW a \in Nat, NEW b \in Nat, NEW c \in Nat
    PROVE  /\ a * b \in Nat
           /\ a <= b => a * c <= b * c
           /\ c > 0 /\ a * c <= b * c => a <= b
<1>1. a <= b => a * c <= b * c
  OBVIOUS
<1>2. ASSUME c > 0, a * c <= b * c PROVE a <= b
  <2>1. SUFFICES ASSUME a > b PROVE FALSE
    OBVIOUS
  <2>2. (a - b) * c > 0
    BY <1>2, <2>1
  <2>3. (a - b) * c = a * c - b * c
    OBVIOUS
  <2> QED BY <1>2, <2>2, <2>3
<1>3. a * b \in Nat
  OBVIOUS
<1> QED BY <1>1, <1>2, <1>3

\* "Does not pay more" is transitive: fees per cost are compared exactly.
LEMMA PaysTransitive ==
    ASSUME NEW i \in Item, NEW j \in Item, NEW k \in Item, ~ PaysMore(i, j), ~ PaysMore(j, k)
    PROVE  ~ PaysMore(i, k)
<1>1. PICK fi \in Nat, fj \in Nat, fk \in Nat, ci \in Nat, cj \in Nat, ck \in Nat :
        /\ fi = Fee[i] /\ fj = Fee[j] /\ fk = Fee[k] /\ ci = Cost[i] /\ cj = Cost[j] /\ ck = Cost[k]
        /\ cj > 0
  BY ItemAssumption
<1>2. PICK a \in Nat, b \in Nat, c \in Nat, d \in Nat :
        a = fi * cj /\ b = fj * ci /\ c = fj * ck /\ d = fk * cj
  BY Products
<1>3. a <= b /\ c <= d
  BY <1>1, <1>2 DEF PaysMore
<1>4. a * ck <= b * ck /\ c * ci <= d * ci
  BY <1>3, Products
<1>5. b * ck = c * ci
  BY <1>2
<1>6. a * ck = (fi * ck) * cj /\ d * ci = (fk * ci) * cj
  BY <1>2
<1>7. PICK x \in Nat, y \in Nat : x = fi * ck /\ y = fk * ci
  BY Products
<1>8. a * ck \in Int /\ b * ck \in Int /\ d * ci \in Int
  OBVIOUS
<1>9. x * cj <= y * cj
  BY <1>4, <1>5, <1>6, <1>7, <1>8
<1>10. x <= y
  BY <1>1, <1>9, Products
<1> QED BY <1>1, <1>7, <1>10 DEF PaysMore

\* No item pays more than itself, and of two items one does not pay more.
LEMMA PaysTotal ==
    ASSUME NEW i \in Item, NEW j \in Item
    PROVE  ~ PaysMore(i, j) \/ ~ PaysMore(j, i)
<1>1. Fee[i] * Cost[j] \in Nat /\ Fee[j] * Cost[i] \in Nat
  BY ItemAssumption, Products
<1> QED BY <1>1 DEF PaysMore

\* A finite set of items has one whose fee per cost is the highest.
LEMMA HighestExists ==
    ASSUME NEW S \in SUBSET Item, IsFiniteSet(S), S # {}
    PROVE  \E m \in S : \A i \in S : ~ PaysMore(i, m)
<1> DEFINE Has(R) == \E m \in R : \A i \in R : ~ PaysMore(i, m)
           W == {R \in SUBSET S : R # {} /\ ~ Has(R)}
<1> SUFFICES ASSUME W # {} PROVE FALSE
  OBVIOUS
<1>1. W \in SUBSET FiniteSubsetsOf(S)
  BY FS_Subset DEF FiniteSubsetsOf
<1>2. PICK R \in W : \A t \in W : t \subseteq R => t = R
  <2> HIDE DEF W
  <2> QED BY <1>1, SmallestSet
<1>3. R \subseteq Item /\ R # {} /\ ~ Has(R)
  OBVIOUS
<1>4. PICK x \in R : TRUE
  BY <1>3
<1>5. R \ {x} \notin W
  BY <1>2, <1>4, Zenon
<1>6. ~ PaysMore(x, x)
  BY <1>3, PaysTotal
<1>7. R \ {x} # {}
  BY <1>3, <1>6
<1>8. PICK m \in R \ {x} : \A i \in R \ {x} : ~ PaysMore(i, m)
  <2>1. Has(R \ {x})
    BY <1>5, <1>7
  <2> QED BY <2>1
<1>9. CASE ~ PaysMore(x, m)
  BY <1>3, <1>8, <1>9
<1>10. CASE ~ PaysMore(m, x)
  <2>1. \A i \in R : ~ PaysMore(i, x)
    BY <1>3, <1>6, <1>8, <1>10, PaysTransitive
  <2> QED BY <1>3, <2>1
<1> QED BY <1>3, <1>8, <1>9, <1>10, PaysTotal

\* Room for an item can be made: some set of the cheapest items is the one the loop
\* of add_to_pool, and that of get_min_fee_rate, takes out.
LEMMA EvictionExists ==
    ASSUME NEW p, PoolOk(p), NEW c \in Nat, c <= MaxTotalCost
    PROVE  \E F : F \in Evictions(p, c)
<1>1. p.spends \subseteq Item /\ IsFiniteSet(p.spends)
  BY DEF PoolOk
<1> DEFINE Down(F) == \A i \in F : \A j \in p.spends \ F : ~ PaysMore(i, j)
           W == {F \in SUBSET p.spends : ~ at_full_capacity(remove_from_pool(p, F), c) /\ Down(F)}
<1>2. p.spends \in W
  <2>1. remove_from_pool(p, p.spends).cost = Total(Cost, p.spends \ p.spends)
    BY RemovedOk
  <2>2. p.spends \ p.spends = {}
    OBVIOUS
  <2>3. remove_from_pool(p, p.spends).cost = 0
    BY <2>1, <2>2, TotalEmpty
  <2>4. ~ at_full_capacity(remove_from_pool(p, p.spends), c)
    BY <2>3, ItemAssumption DEF at_full_capacity
  <2> QED BY <2>4
<1>3. PICK F \in W : \A t \in W : t \subseteq F => t = F
  <2>1. W \in SUBSET FiniteSubsetsOf(p.spends)
    BY <1>1, FS_Subset DEF FiniteSubsetsOf
  <2> HIDE DEF W
  <2> QED BY <1>2, <2>1, SmallestSet
<1>4. ASSUME F # {}
      PROVE  \E last \in F : /\ \A i \in F : ~ PaysMore(i, last)
                             /\ at_full_capacity(remove_from_pool(p, F \ {last}), c)
  <2>1. F \subseteq Item /\ IsFiniteSet(F)
    BY <1>1, FS_Subset
  <2>2. PICK last \in F : \A i \in F : ~ PaysMore(i, last)
    BY <1>4, <2>1, HighestExists
  <2>3. Down(F \ {last})
    BY <2>2
  <2>4. F \ {last} \notin W
    BY <1>3, <2>2
  <2> QED BY <2>2, <2>3, <2>4, Zenon
<1> QED BY <1>4 DEF Evictions

\* What add_to_pool takes out, once the items that conflict are gone, pays less than a
\* newcomer whose fee per cost is above what get_min_fee_rate computed with them still
\* there.
LEMMA EvictedPay ==
    ASSUME NEW p, PoolOk(p), NEW S \in SUBSET p.spends, NEW i \in Item,
           NEW E \in Evictions(remove_from_pool(p, S), Cost[i]), NEW j \in E,
           at_full_capacity(p, Cost[i]) => AboveMinFeeRate(p, i)
    PROVE  PaysMore(i, j)
<1>1. PICK q : q = remove_from_pool(p, S)
  OBVIOUS
<1>2. PoolOk(q) /\ q.spends = p.spends \ S
  BY <1>1, RemovedOk, Zenon
<1>3. /\ p.spends \subseteq Item /\ IsFiniteSet(p.spends) /\ p.cost = Total(Cost, p.spends)
      /\ q.spends \subseteq p.spends
  BY <1>2 DEF PoolOk
<1>4. PICK c \in Nat : c = Cost[i] /\ c <= MaxTotalCost
  BY ItemAssumption
<1>5. /\ E \subseteq q.spends
      /\ \A k \in E : \A m \in q.spends \ E : ~ PaysMore(k, m)
  BY <1>1, <1>4 DEF Evictions
<1>6. PICK l \in E : /\ \A k \in E : ~ PaysMore(k, l)
                     /\ at_full_capacity(remove_from_pool(q, E \ {l}), c)
  BY <1>1, <1>4 DEF Evictions
<1> DEFINE Stay == q.spends \ (E \ {l})
<1>7. Total(Cost, Stay) + c > MaxTotalCost
  <2>1. E \ {l} \in SUBSET q.spends
    BY <1>5
  <2>2. remove_from_pool(q, E \ {l}).cost = Total(Cost, Stay)
    BY <1>2, <2>1, RemovedOk
  <2> QED BY <1>6, <2>2 DEF at_full_capacity
<1>8. ASSUME NEW A \in SUBSET p.spends, Stay \subseteq A
      PROVE  Total(Cost, A) \in Nat /\ Total(Cost, A) + c > MaxTotalCost
  <2>1. A \in SUBSET Item /\ IsFiniteSet(A)
    BY <1>3, FS_Subset
  <2> HIDE DEF Stay
  <2>2. Stay \in SUBSET A
    BY <1>8
  <2>3. /\ Total(Cost, A) = Total(Cost, Stay) + Total(Cost, A \ Stay) /\ Total(Cost, A) \in Nat
        /\ Total(Cost, Stay) \in Nat /\ Total(Cost, A \ Stay) \in Nat
    BY <2>1, <2>2, CostPart
  <2> QED BY <1>7, <2>3, ItemAssumption
<1>9. at_full_capacity(p, Cost[i])
  <2>1. Stay \subseteq p.spends
    BY <1>3
  <2>2. p.cost + c > MaxTotalCost
    BY <1>3, <1>8, <2>1
  <2> QED BY <1>4, <2>2 DEF at_full_capacity
<1>10. PICK F \in Evictions(p, c) : TRUE
  BY <1>4, EvictionExists
<1>11. /\ F \subseteq p.spends /\ ~ at_full_capacity(remove_from_pool(p, F), c)
       /\ \A k \in F : \A m \in p.spends \ F : ~ PaysMore(k, m)
  BY <1>10 DEF Evictions
<1>12. \A k \in F : PaysMore(i, k)
  BY <1>4, <1>9, <1>10 DEF AboveMinFeeRate
<1>13. l \in Item /\ j \in Item /\ E \subseteq Item /\ F \subseteq Item
  BY <1>3, <1>5, <1>11
<1>14. SUFFICES PaysMore(i, l)
  <2>1. ~ PaysMore(j, l)
    BY <1>6
  <2> QED BY <1>13, <1>14, <2>1, PaysTransitive
<1>15. CASE l \in F
  BY <1>12, <1>15
<1>16. CASE \E k \in F : ~ PaysMore(l, k)
  <2>1. PICK k \in F : ~ PaysMore(l, k)
    BY <1>16
  <2>2. PaysMore(i, k)
    BY <1>12
  <2>3. SUFFICES ASSUME ~ PaysMore(i, l) PROVE FALSE
    OBVIOUS
  <2> QED BY <1>13, <2>1, <2>2, <2>3, PaysTransitive
<1>17. CASE l \notin F /\ \A k \in F : PaysMore(l, k)
  <2>1. Stay \subseteq p.spends \ F
    BY <1>3, <1>5, <1>17
  <2>2. Total(Cost, p.spends \ F) \in Nat /\ Total(Cost, p.spends \ F) + c > MaxTotalCost
    <3> HIDE DEF Stay
    <3>1. p.spends \ F \in SUBSET p.spends
      OBVIOUS
    <3> QED BY <1>8, <2>1, <3>1
  <2>3. remove_from_pool(p, F).cost = Total(Cost, p.spends \ F)
    BY <1>11, RemovedOk
  <2> QED BY <1>11, <2>2, <2>3, ItemAssumption DEF at_full_capacity
<1> QED BY <1>15, <1>16, <1>17

-----------------------------------------------------------------------------
(* The manager *)

\* The inductive invariant: both containers are right and within their limits, and
\* what new_peak still has to retry are bundles.
RetryOk(j) == "retry" \in DOMAIN j /\ j.retry \in Seq(Item)

Containers(p, q) == PoolOk(p) /\ p.cost <= MaxTotalCost /\ PendingOk(q)

MemInv == Containers(pool, potential) /\ RetryOk(job)

\* check_removals finds the items of the pool that spend a coin of i, and no other.
LEMMA ConflictingIs ==
    ASSUME PoolOk(pool), NEW i \in Item
    PROVE  /\ Conflicting(i) = {j \in pool.spends : Spends[j] \cap Spends[i] # {}}
           /\ Conflicting(i) \subseteq pool.spends
<1>1. Spends[i] \subseteq Coin /\ NoItem \notin Item /\ pool.spends \subseteq Item
  BY ItemAssumption DEF PoolOk
<1>2. \A c \in Spends[i] :
        \/ pool.removals[c] = NoItem /\ \A j \in pool.spends : c \notin Spends[j]
        \/ pool.removals[c] \in pool.spends /\ \A j \in pool.spends : c \in Spends[j] <=> j = pool.removals[c]
  BY <1>1 DEF PoolOk, IndexOk
<1>3. ASSUME NEW j \in Conflicting(i) PROVE j \in pool.spends /\ Spends[j] \cap Spends[i] # {}
  <2>1. PICK c \in Spends[i] : j = pool.removals[c] /\ j # NoItem
    BY DEF Conflicting
  <2> QED BY <1>2, <2>1
<1>4. ASSUME NEW j \in pool.spends, Spends[j] \cap Spends[i] # {} PROVE j \in Conflicting(i)
  <2>1. PICK c \in Spends[i] : c \in Spends[j]
    BY <1>4
  <2>2. j = pool.removals[c] /\ j # NoItem
    BY <1>1, <1>2, <2>1
  <2> QED BY <2>2 DEF Conflicting
<1> QED BY <1>3, <1>4

\* What a step does to the items of the pool: none enters, or add_spendbundle has
\* accepted one, which replaces the items it conflicts with and pays for it, and
\* evicts items that pay less.
Entered(was, now, i) ==
    /\ i \in Item /\ i \notin was
    /\ now \subseteq was \cup {i}
    /\ \A j \in was : Spends[j] \cap Spends[i] # {} => j \notin now
    /\ \A j \in was \ now : Spends[j] \cap Spends[i] # {} \/ PaysMore(i, j)
    /\ LET S == {j \in was : Spends[j] \cap Spends[i] # {}}
       IN  S # {} => /\ \A j \in S : Spends[j] \subseteq Spends[i]
                     /\ Fee[i] >= FeeOf(S) + MinFeeIncrease

Moved(was, now) == now \subseteq was \/ \E i \in Item : Entered(was, now, i)

\* add_spendbundle keeps both containers right and moves items as described.
LEMMA AddInv ==
    ASSUME MemInv, NEW i \in Item, add_spendbundle(i)
    PROVE  Containers(pool', potential') /\ Moved(pool.spends, pool'.spends)
<1>1. PoolOk(pool) /\ pool.cost <= MaxTotalCost /\ PendingOk(potential)
  BY DEF MemInv, Containers
<1>2. CASE Accepts(i) /\ potential' = potential
           /\ \E E \in Evictions(remove_from_pool(pool, Conflicting(i)), Cost[i]) :
                 pool' = add_to_pool(remove_from_pool(pool, Conflicting(i)), i, E)
  <2>1. PICK p : p = remove_from_pool(pool, Conflicting(i))
    OBVIOUS
  <2>2. PICK E \in Evictions(p, Cost[i]) : pool' = add_to_pool(p, i, E)
    BY <1>2, <2>1
  <2>3. PICK S \in SUBSET pool.spends :
           S = Conflicting(i) /\ S = {j \in pool.spends : Spends[j] \cap Spends[i] # {}}
    BY <1>1, ConflictingIs
  <2>4. PoolOk(p) /\ p.spends = pool.spends \ S
    BY <1>1, <2>1, <2>3, RemovedOk, Zenon
  <2>5. E \in SUBSET p.spends /\ ~ at_full_capacity(remove_from_pool(p, E), Cost[i])
    BY <2>2 DEF Evictions
  <2>6. i \notin pool.spends /\ i \notin p.spends
    BY <1>2, <2>4 DEF Accepts
  <2>7. \A j \in p.spends : Spends[j] \cap Spends[i] = {}
    BY <2>3, <2>4
  <2>8. /\ PoolOk(pool') /\ pool'.spends = (p.spends \ E) \cup {i}
        /\ pool'.cost = remove_from_pool(p, E).cost + Cost[i]
    <3>1. PICK r : r = add_to_pool(p, i, E)
      OBVIOUS
    <3>2. /\ PoolOk(r) /\ r.spends = (p.spends \ E) \cup {i}
          /\ r.cost = remove_from_pool(p, E).cost + Cost[i]
      BY <2>4, <2>5, <2>6, <2>7, <3>1, AddedOk
    <3>3. pool' = r
      BY <2>2, <3>1
    <3> QED BY <3>2, <3>3
  <2>9. pool'.cost <= MaxTotalCost
    <3>1. pool'.cost \in Nat
      <4>1. pool'.spends \subseteq Item /\ IsFiniteSet(pool'.spends) /\ pool'.cost = Total(Cost, pool'.spends)
        BY <2>8 DEF PoolOk
      <4>2. \A x \in pool'.spends : Cost[x] \in Nat
        BY <4>1, ItemAssumption
      <4> QED BY <4>1, <4>2, TotalNat
    <3>2. ~(pool'.cost > MaxTotalCost)
      BY <2>5, <2>8 DEF at_full_capacity
    <3> QED BY <3>1, <3>2, ItemAssumption
  <2>10. \A j \in E : PaysMore(i, j)
    <3>1. at_full_capacity(pool, Cost[i]) => AboveMinFeeRate(pool, i)
      BY <1>2 DEF Accepts, Admissible
    <3>2. E \in Evictions(remove_from_pool(pool, S), Cost[i])
      BY <2>1, <2>2, <2>3
    <3> QED BY <1>1, <3>1, <3>2, EvictedPay
  <2>11. S # {} => (\A j \in S : Spends[j] \subseteq Spends[i]) /\ Fee[i] >= FeeOf(S) + MinFeeIncrease
    <3>1. SUFFICES ASSUME S # {}
                   PROVE  (\A j \in S : Spends[j] \subseteq Spends[i]) /\ Fee[i] >= FeeOf(S) + MinFeeIncrease
      OBVIOUS
    <3>2. (\A j \in S : Spends[j] \subseteq Spends[i]) /\ Fee[i] - FeeOf(S) >= MinFeeIncrease
      BY <1>2, <2>3, <3>1 DEF Accepts, can_replace
    <3>3. FeeOf(S) \in Nat
      <4>1. S \subseteq Item /\ IsFiniteSet(S)
        BY <1>1, FS_Subset DEF PoolOk
      <4>2. \A x \in S : Fee[x] \in Nat
        BY <4>1, ItemAssumption
      <4>3. Total(Fee, S) \in Nat
        BY <4>1, <4>2, TotalNat
      <4> QED BY <4>3, CostIsTotal
    <3>4. Fee[i] \in Nat /\ MinFeeIncrease \in Nat
      BY ItemAssumption, ManagerAssumption
    <3> QED BY <3>2, <3>3, <3>4
  <2>12. pool'.spends = ((pool.spends \ S) \ E) \cup {i} /\ E \subseteq pool.spends
    BY <2>4, <2>5, <2>8
  <2>13. Entered(pool.spends, pool'.spends, i)
    <3>1. \A j \in pool.spends : Spends[j] \cap Spends[i] # {} => j \notin pool'.spends
      BY <2>3, <2>6, <2>12
    <3>2. \A j \in pool.spends \ pool'.spends : Spends[j] \cap Spends[i] # {} \/ PaysMore(i, j)
      BY <2>3, <2>10, <2>12
    <3>3. pool'.spends \subseteq pool.spends \cup {i}
      BY <2>12
    <3> HIDE <2>10, <2>12
    <3> QED BY <2>3, <2>6, <2>11, <3>1, <3>2, <3>3 DEF Entered
  <2> QED BY <1>1, <1>2, <2>8, <2>9, <2>13 DEF Moved, Containers
<1>3. CASE pool' = pool /\ potential' = pending_add(potential, i)
  <2>1. PendingOk(pending_add(potential, i))
    BY <1>1, PendingAdded
  <2> QED BY <1>1, <1>3, <2>1 DEF Containers, Moved
<1>4. CASE pool' = pool /\ potential' = potential
  BY <1>1, <1>4 DEF Containers, Moved
<1> QED BY <1>2, <1>3, <1>4 DEF add_spendbundle

\* An empty pool and an empty cache are right.
LEMMA EmptyOk ==
    /\ PoolOk(EmptyPool) /\ EmptyPool.cost <= MaxTotalCost /\ EmptyPool.spends = {}
    /\ PendingOk(EmptyPending) /\ \A q : PendingOk(pending_drain(q))
<1>1. IsFiniteSet({}) /\ Total(Cost, {}) = 0
  BY FS_EmptySet, TotalEmpty
<1>2. PoolOk(EmptyPool) /\ EmptyPool.cost <= MaxTotalCost /\ EmptyPool.spends = {}
  BY <1>1, ItemAssumption DEF EmptyPool, PoolOk, IndexOk
<1>3. PICK e : e = [txs |-> <<>>, cost |-> 0]
  BY Zenon
<1>4. e.txs = <<>> /\ e.cost = 0 /\ e.txs \in Seq(Item) /\ Len(e.txs) = 0
  BY <1>3
<1>5. Range(e.txs) = {}
  <2>1. Range(e.txs) = {e.txs[k] : k \in 1 .. Len(e.txs)}
    BY <1>4, RangeIs, Zenon
  <2> QED BY <1>4, <2>1
<1>6. PendingOk(e)
  <2>1. \A k, m \in 1 .. Len(e.txs) : e.txs[k] = e.txs[m] => k = m
    BY <1>4
  <2>2. e.cost = Total(Cost, Range(e.txs))
    BY <1>1, <1>4, <1>5
  <2>3. e.cost <= MaxPendingCost
    BY <1>4, ItemAssumption
  <2> QED BY <1>4, <2>1, <2>2, <2>3 DEF PendingOk, TxsOk
<1> QED BY <1>2, <1>3, <1>6 DEF EmptyPending, pending_drain

\* new_peak up to its first await: no item enters the pool.
LEMMA NewPeakInv ==
    ASSUME MemInv, NEW b, NEW changes, NEW by, new_peak(b, changes, by)
    PROVE  MemInv' /\ Moved(pool.spends, pool'.spends)
<1>1. PoolOk(pool) /\ pool.cost <= MaxTotalCost /\ PendingOk(potential) /\ RetryOk(job)
  BY DEF MemInv, Containers
<1>2. RetryOk(FreeLock)
  BY DEF RetryOk, FreeLock
<1>3. CASE job' = FreeLock /\ UNCHANGED mempool
  BY <1>1, <1>2, <1>3 DEF mempool, MemInv, Containers, Moved
<1>4. CASE /\ pool' = PoolOf(Untouched(changes)) /\ potential' = pending_drain(potential)
           /\ job' = [FreeLock EXCEPT !.stage = "drain", !.by = by, !.was = pool.spends, !.retry = potential.txs]
  <2>1. PICK S \in SUBSET pool.spends : S = Untouched(changes)
    BY Zenon DEF Untouched
  <2>2. /\ PoolOk(PoolOf(S)) /\ PoolOf(S).spends = S /\ PoolOf(S).cost <= pool.cost
    BY <1>1, PartOk
  <2>3. PICK r : r = PoolOf(S)
    OBVIOUS
  <2>4. PoolOk(r) /\ r.spends = S /\ r.cost <= pool.cost /\ pool' = r
    BY <1>4, <2>1, <2>2, <2>3
  <2>5. r.cost \in Nat /\ pool.cost \in Nat
    <3>1. r.spends \subseteq Item /\ IsFiniteSet(r.spends) /\ r.cost = Total(Cost, r.spends)
      BY <2>4 DEF PoolOk
    <3>2. pool.spends \subseteq Item /\ IsFiniteSet(pool.spends) /\ pool.cost = Total(Cost, pool.spends)
      BY <1>1 DEF PoolOk
    <3>3. \A x \in r.spends \cup pool.spends : Cost[x] \in Nat
      BY <3>1, <3>2, ItemAssumption
    <3> QED BY <3>1, <3>2, <3>3, TotalNat
  <2>6. r.cost <= MaxTotalCost
    BY <1>1, <2>4, <2>5, ItemAssumption
  <2>7. RetryOk(job')
    BY <1>1, <1>4 DEF RetryOk, FreeLock, PendingOk, TxsOk
  <2> QED BY <1>4, <2>4, <2>6, <2>7, EmptyOk DEF MemInv, Containers, Moved
<1>5. CASE /\ pool' = EmptyPool /\ potential' = potential
           /\ job' = [FreeLock EXCEPT !.stage = "rebuild", !.by = by, !.was = pool.spends, !.old = pool.spends]
  <2>1. RetryOk(job')
    BY <1>5 DEF RetryOk, FreeLock
  <2> QED BY <1>1, <1>5, <2>1, EmptyOk DEF MemInv, Containers, Moved
<1> QED BY <1>3, <1>4, <1>5 DEF new_peak

\* The whole step, whatever the caller: blocks, batches, long syncs, transactions and
\* the steps of new_peak, and a cancelled one.
LEMMA ManagerStep ==
    ASSUME MemInv, [NextAll]_vars
    PROVE  MemInv' /\ Moved(pool.spends, pool'.spends)
<1>1. Containers(pool, potential) /\ RetryOk(job) /\ RetryOk(FreeLock)
  BY DEF MemInv, RetryOk, FreeLock
<1>2. ASSUME Containers(pool', potential') /\ Moved(pool.spends, pool'.spends), job' = job \/ job' = FreeLock
      PROVE  MemInv' /\ Moved(pool.spends, pool'.spends)
  BY <1>1, <1>2 DEF MemInv
<1>3. ASSUME pool' = pool, potential' = potential
      PROVE  Containers(pool', potential') /\ Moved(pool.spends, pool'.spends)
  BY <1>1, <1>3 DEF Moved
<1>4. CASE UNCHANGED vars
  BY <1>2, <1>3, <1>4 DEF vars
<1>5. ASSUME NEW i \in Item, Rebuild(i) PROVE MemInv' /\ Moved(pool.spends, pool'.spends)
  <2>1. Containers(pool', potential') /\ Moved(pool.spends, pool'.spends)
    BY <1>5, AddInv DEF Rebuild
  <2>2. job' = [job EXCEPT !.old = @ \ {i}]
    BY <1>5 DEF Rebuild
  <2>3. RetryOk(job')
    BY <1>1, <2>2 DEF RetryOk
  <2> QED BY <2>1, <2>3 DEF MemInv
<1>6. ASSUME StartDrain PROVE MemInv' /\ Moved(pool.spends, pool'.spends)
  <2>1. job' = [job EXCEPT !.stage = "drain", !.retry = potential.txs] /\ pool' = pool
        /\ potential' = pending_drain(potential)
    BY <1>6 DEF StartDrain
  <2>2. potential.txs \in Seq(Item)
    BY <1>1 DEF Containers, PendingOk, TxsOk
  <2>3. RetryOk(job')
    BY <1>1, <2>1, <2>2 DEF RetryOk
  <2> QED BY <1>1, <2>1, <2>3, EmptyOk DEF MemInv, Containers, Moved
<1>7. ASSUME Retry PROVE MemInv' /\ Moved(pool.spends, pool'.spends)
  <2>1. PICK s \in Seq(Item) : s = job.retry /\ s # <<>>
    BY <1>1, <1>7 DEF RetryOk, Retry
  <2>2. Head(s) \in Item /\ Tail(s) \in Seq(Item)
    BY <2>1
  <2>3. add_spendbundle(Head(s))
    BY <1>7, <2>1 DEF Retry
  <2>4. Containers(pool', potential') /\ Moved(pool.spends, pool'.spends)
    BY <2>2, <2>3, AddInv
  <2>5. PICK a : job' = [job EXCEPT !.retry = Tail(s), !.added = a]
    BY <1>7, <2>1, Zenon DEF Retry
  <2>6. RetryOk(job')
    BY <1>1, <2>2, <2>5 DEF RetryOk
  <2> QED BY <2>4, <2>6 DEF MemInv
<1>8. ASSUME EndNewPeak PROVE MemInv' /\ Moved(pool.spends, pool'.spends)
  <2>1. job' = [job EXCEPT !.stage = "announce"] /\ pool' = pool /\ potential' = potential
    BY <1>8 DEF EndNewPeak, mempool
  <2>2. RetryOk(job')
    BY <1>1, <2>1 DEF RetryOk
  <2> QED BY <1>3, <2>1, <2>2 DEF MemInv
<1>9. ASSUME peak_post_processing_2 \/ Cancel PROVE MemInv' /\ Moved(pool.spends, pool'.spends)
  BY <1>2, <1>3, <1>9 DEF peak_post_processing_2, Cancel, mempool
<1>10. ASSUME NEW i \in Item, BeginTransaction(i) \/ FailTransaction(i) PROVE MemInv' /\ Moved(pool.spends, pool'.spends)
  BY <1>2, <1>3, <1>10 DEF BeginTransaction, FailTransaction
<1>11. ASSUME NEW i \in Item, EndTransaction(i) PROVE MemInv' /\ Moved(pool.spends, pool'.spends)
  <2>1. job' = job /\ (add_spendbundle(i) \/ (pool' = pool /\ potential' = potential))
    BY <1>11 DEF EndTransaction
  <2>2. Containers(pool', potential') /\ Moved(pool.spends, pool'.spends)
    BY <1>3, <2>1, AddInv
  <2> QED BY <1>2, <2>1, <2>2
<1>12. ASSUME NEW b \in Block, respond_block(b) PROVE MemInv' /\ Moved(pool.spends, pool'.spends)
  <2>1. new_peak(b, CoinChanges(b), "block") \/ UNCHANGED <<mempool, job>>
    BY <1>12 DEF respond_block
  <2> QED BY <1>2, <1>3, <2>1, NewPeakInv DEF mempool
<1>13. ASSUME NEW b \in Block, BatchBlock(b) PROVE MemInv' /\ Moved(pool.spends, pool'.spends)
  <2>1. PICK a, c : job' = [job EXCEPT !.last = b, !.advanced = a, !.changes = c]
    BY <1>13, Zenon DEF BatchBlock
  <2>2. RetryOk(job')
    BY <1>1, <2>1 DEF RetryOk
  <2> QED BY <1>3, <1>13, <2>2 DEF BatchBlock, mempool, MemInv
<1>14. ASSUME BeginBatch \/ LockSync PROVE MemInv' /\ Moved(pool.spends, pool'.spends)
  <2>1. PICK s : job' = [FreeLock EXCEPT !.stage = s]
    BY <1>14 DEF BeginBatch, LockSync
  <2>2. RetryOk(job')
    BY <2>1 DEF RetryOk, FreeLock
  <2> QED BY <1>3, <1>14, <2>2 DEF BeginBatch, LockSync, mempool, MemInv
<1>15. ASSUME EndBatch PROVE MemInv' /\ Moved(pool.spends, pool'.spends)
  <2>1. new_peak(peak, job.changes, "batch") \/ (job' = FreeLock /\ UNCHANGED mempool)
    BY <1>15 DEF EndBatch
  <2> QED BY <1>2, <1>3, <2>1, NewPeakInv DEF mempool
<1>16. ASSUME FailBatch \/ BeginSync \/ EndSync \/ \E b \in Block : SyncBlock(b)
       PROVE  MemInv' /\ Moved(pool.spends, pool'.spends)
  BY <1>2, <1>3, <1>16 DEF FailBatch, BeginSync, EndSync, SyncBlock, mempool
<1>17. ASSUME FinishSync PROVE MemInv' /\ Moved(pool.spends, pool'.spends)
  <2>1. new_peak(peak, {}, "sync") \/ UNCHANGED <<mempool, job>>
    BY <1>17 DEF FinishSync
  <2> QED BY <1>2, <1>3, <2>1, NewPeakInv DEF mempool
<1>18. CASE Next
  BY <1>5, <1>6, <1>7, <1>8, <1>9, <1>10, <1>11, <1>12, <1>13, <1>14, <1>15, <1>16, <1>18
     DEF Next, JobStep, Transactions, Blocks
<1>19. CASE LongSync
  BY <1>14, <1>16, <1>17, <1>19 DEF LongSync
<1> QED BY <1>4, <1>9, <1>18, <1>19 DEF NextAll

\* A node starts with an empty mempool.
LEMMA ManagerStarts ==
    ASSUME Init
    PROVE  MemInv
<1>1. pool = EmptyPool /\ potential = EmptyPending /\ job = FreeLock
  BY DEF Init
<1>2. RetryOk(FreeLock)
  BY DEF RetryOk, FreeLock
<1> QED BY <1>1, <1>2, EmptyOk DEF MemInv, Containers

\* What the inductive invariant says of the state, and a step of the items that move.
LEMMA ManagerImplies ==
    /\ MemInv => PoolSound
    /\ MemInv /\ Moved(pool.spends, pool'.spends) => EvictedPayLess /\ ReplacementPays
<1>1. MemInv => PoolSound
  BY CostIsTotal DEF MemInv, Containers, PoolOk, IndexOk, PendingOk, TxsOk, PoolSound, PoolIndexed, CostAccounted
<1>2. ASSUME MemInv, Moved(pool.spends, pool'.spends) PROVE EvictedPayLess /\ ReplacementPays
  <2>1. PICK was, now : was = pool.spends /\ now = pool'.spends
    OBVIOUS
  <2>2. CASE now \subseteq was
    BY <2>1, <2>2, Zenon DEF EvictedPayLess, ReplacementPays
  <2>3. ASSUME NEW i \in Item, Entered(was, now, i) PROVE EvictedPayLess /\ ReplacementPays
    <3>1. \A n \in now \ was : n = i
      BY <2>3, Zenon DEF Entered
    <3>2. EvictedPayLess
      BY <2>1, <2>3, <3>1 DEF EvictedPayLess, Entered
    <3>3. {j \in was \ now : Spends[j] \cap Spends[i] # {}} = {j \in was : Spends[j] \cap Spends[i] # {}}
      BY <2>3 DEF Entered
    <3>4. PICK S : S = {j \in was : Spends[j] \cap Spends[i] # {}}
      BY Zenon
    <3>5. S # {} => UNION {Spends[j] : j \in S} \subseteq Spends[i] /\ Fee[i] >= FeeOf(S) + MinFeeIncrease
      BY <2>3, <3>4 DEF Entered
    <3>6. ReplacementPays
      BY <2>1, <3>1, <3>3, <3>4, <3>5, Zenon DEF ReplacementPays
    <3> QED BY <3>2, <3>6
  <2> QED BY <1>2, <2>1, <2>2, <2>3 DEF Moved
<1> QED BY <1>1, <1>2

\* Both containers stay right through every behaviour of the node.
LEMMA MemInvAlways == SpecAll => []MemInv
<1>1. MemInv /\ [NextAll]_vars => MemInv'
  BY ManagerStep
<1> QED BY <1>1, ManagerStarts, PTL DEF SpecAll

\* Through transactions, replacements, evictions, new peaks, batches, long syncs and
\* cancelled tasks the index by coin names the one item that spends each coin, and the
\* totals of the pool and of the cache are those of their items and within the limits.
THEOREM Mempool_PoolSound == SpecAll => []PoolSound
BY MemInvAlways, ManagerImplies, PTL

-----------------------------------------------------------------------------
(* What is put into a block *)

\* The last transaction block of a chain is on it, and no block after it is one.
LEMMA LastTxIs ==
    ASSUME NEW b \in Block, NEW m, m = LastTx(b), m # NoBlock
    PROVE  /\ m \in Block /\ Height[m] \in 0 .. Height[b] /\ Chain[b][Height[m]] = m
           /\ \A h \in Height[m] + 1 .. Height[b] : ~ IsTx[Chain[b][h]]
<1>1. /\ Height[b] \in Nat /\ \A h \in 0 .. Height[b] : Chain[b][h] \in Block /\ Height[Chain[b][h]] = h
  BY TreeAssumption DEF Heights
<1> DEFINE T == {h \in 0 .. Height[b] : IsTx[Chain[b][h]]}
<1>2. T # {} /\ m = Chain[b][Max(T)]
  BY DEF LastTx
<1>3. Max(T) \in T /\ \A x \in T : x <= Max(T)
  <2>1. T \subseteq Int /\ Height[b] \in Int /\ \A x \in T : x <= Height[b]
    BY <1>1
  <2> HIDE DEF T
  <2> QED BY <1>2, <2>1, MaxIsLargest, Zenon
<1>4. PICK k \in 0 .. Height[b] : k = Max(T)
  BY <1>3
<1>5. m \in Block /\ Height[m] = k /\ m = Chain[b][k]
  BY <1>1, <1>2, <1>4
<1>6. ASSUME NEW h \in k + 1 .. Height[b] PROVE ~ IsTx[Chain[b][h]]
  <2>1. h \in 0 .. Height[b] /\ ~(h <= k)
    BY <1>1
  <2> QED BY <1>3, <1>4, <2>1
<1> QED BY <1>4, <1>5, <1>6

\* A transaction block is the last one of its own chain.
LEMMA LastTxOfTx ==
    ASSUME NEW b \in Block, IsTx[b]
    PROVE  LastTx(b) = b
<1>1. Height[b] \in Nat /\ Chain[b][Height[b]] = b
  BY TreeAssumption DEF Heights
<1> DEFINE T == {h \in 0 .. Height[b] : IsTx[Chain[b][h]]}
<1>2. T \subseteq Int /\ Height[b] \in T /\ \A x \in T : x <= Height[b]
  BY <1>1
<1>3. Max(T) \in T /\ \A x \in T : x <= Max(T)
  <2> HIDE DEF T
  <2> QED BY <1>1, <1>2, MaxIsLargest, Zenon
<1>4. Max(T) = Height[b]
  BY <1>1, <1>2, <1>3
<1>5. LastTx(b) = Chain[b][Max(T)]
  BY <1>2 DEF LastTx
<1> QED BY <1>1, <1>4, <1>5

\* The blocks after it change no coin.
LEMMA SameCoins ==
    ASSUME NEW b \in Block, NEW m, m = LastTx(b), m # NoBlock
    PROVE  m \in Block /\ UnspentOf(b) = UnspentOf(m)
<1>1. /\ m \in Block /\ Height[m] \in 0 .. Height[b] /\ Chain[b][Height[m]] = m
      /\ \A h \in Height[m] + 1 .. Height[b] : ~ IsTx[Chain[b][h]]
  BY LastTxIs
<1>2. Height[b] \in Nat /\ Height[m] \in Nat /\ \A h \in 0 .. Height[b] : Chain[b][h] \in Block
  BY <1>1, TreeAssumption DEF Heights
<1>3. \A k \in 0 .. Height[m] : Chain[m][k] = Chain[b][k]
  BY <1>1, TreeAssumption
<1>4. \A h \in Height[m] + 1 .. Height[b] : Adds(Chain[b][h]) = {} /\ Removals[Chain[b][h]] = {}
  <2>1. \A h \in Height[m] + 1 .. Height[b] : h \in 0 .. Height[b]
    BY <1>2
  <2> QED BY <1>1, <1>2, <2>1, ValidBlockAssumption DEF RewardsClaimed
<1>5. \A h \in 0 .. Height[b] : h \in 0 .. Height[m] \/ h \in Height[m] + 1 .. Height[b]
  BY <1>2
<1>6. \A h \in 0 .. Height[m] : h \in 0 .. Height[b]
  BY <1>1, <1>2
<1>7. ASSUME NEW c \in Coin
      PROVE  /\ (\E h \in 0 .. Height[b] : c \in Adds(Chain[b][h])) <=> (\E h \in 0 .. Height[m] : c \in Adds(Chain[m][h]))
             /\ (\A h \in 0 .. Height[b] : c \notin Removals[Chain[b][h]]) <=> (\A h \in 0 .. Height[m] : c \notin Removals[Chain[m][h]])
  BY <1>3, <1>4, <1>5, <1>6
<1> QED BY <1>1, <1>7 DEF UnspentOf

\* What receive_block reports when the peak moves to b: the coins of the blocks above the
\* last common height of the two chains.
LEMMA ChangesFrom ==
    ASSUME NEW p \in Block, p = peak, NEW b \in Block
    PROVE  \E f \in Int :
             /\ \A h \in 0 .. Height[b] : h <= Height[p] /\ Chain[b][h] = Chain[p][h] => h <= f
             /\ f >= -1
             /\ f >= 0 => f <= Height[b] /\ f <= Height[p] /\ Chain[b][f] = Chain[p][f]
             /\ CoinChanges(b) = (UNION {Adds(Chain[b][h]) \cup Removals[Chain[b][h]] : h \in f + 1 .. Height[b]})
                                 \cup (UNION {Adds(Chain[p][h]) : h \in f + 1 .. Height[p]})
<1>1. p # NoBlock /\ Height[b] \in Nat /\ Height[p] \in Nat /\ Height[b] <= MaxHeight /\ MaxHeight \in Nat
  <2>1. Height \in [Block -> Heights] /\ MaxHeight \in Nat /\ NoBlock \notin Block
    BY TreeAssumption
  <2> QED BY <2>1 DEF Heights
<1> DEFINE T == {-1} \cup {h \in Heights : h <= Height[b] /\ h <= Height[p] /\ Chain[b][h] = Chain[p][h]}
<1>2. PICK f : f = Max(T)
  OBVIOUS
<1>3. f \in T /\ \A x \in T : x <= f
  <2>1. T \subseteq Int /\ T # {} /\ Height[b] \in Int /\ \A x \in T : x <= Height[b]
    BY <1>1 DEF Heights
  <2> HIDE DEF T
  <2> QED BY <1>2, <2>1, MaxIsLargest, Zenon
<1>4. CoinChanges(b) = (UNION {Adds(Chain[b][h]) \cup Removals[Chain[b][h]] : h \in f + 1 .. Height[b]})
                       \cup (UNION {Adds(Chain[p][h]) : h \in f + 1 .. Height[p]})
  BY <1>1, <1>2 DEF CoinChanges
<1>5. f \in Int /\ f >= -1 /\ (f >= 0 => f <= Height[b] /\ f <= Height[p] /\ Chain[b][f] = Chain[p][f])
  BY <1>1, <1>3 DEF Heights
<1>6. \A h \in 0 .. Height[b] : h <= Height[p] /\ Chain[b][h] = Chain[p][h] => h <= f
  <2>1. \A h \in 0 .. Height[b] : h \in Heights
    BY <1>1 DEF Heights
  <2> QED BY <1>3, <2>1
<1> QED BY <1>4, <1>5, <1>6

\* A coin that receive_block does not report when the peak moves to b stays unspent.
LEMMA UnreportedStays ==
    ASSUME peak \in Block, NEW b \in Block, NEW c \in UnspentOf(peak), c \notin CoinChanges(b)
    PROVE  c \in UnspentOf(b)
<1>1. PICK p \in Block : p = peak
  OBVIOUS
<1>2. Height[b] \in Nat /\ Height[p] \in Nat
  BY TreeAssumption DEF Heights
<1>3. PICK f \in Int :
        /\ f >= -1
        /\ f >= 0 => f <= Height[b] /\ f <= Height[p] /\ Chain[b][f] = Chain[p][f]
        /\ CoinChanges(b) = (UNION {Adds(Chain[b][h]) \cup Removals[Chain[b][h]] : h \in f + 1 .. Height[b]})
                            \cup (UNION {Adds(Chain[p][h]) : h \in f + 1 .. Height[p]})
  BY <1>1, ChangesFrom
<1>4. /\ \A h \in f + 1 .. Height[b] : c \notin Removals[Chain[b][h]]
      /\ \A h \in f + 1 .. Height[p] : c \notin Adds(Chain[p][h])
  BY <1>3
<1>5. /\ c \in Coin /\ \A h \in 0 .. Height[p] : c \notin Removals[Chain[p][h]]
  BY <1>1 DEF UnspentOf
<1>6. PICK k \in 0 .. Height[p] : c \in Adds(Chain[p][k])
  BY <1>1 DEF UnspentOf
<1>7. k <= f /\ f >= 0
  BY <1>2, <1>3, <1>4, <1>6
<1>8. \A h \in 0 .. f : Chain[b][h] = Chain[p][h]
  <2>1. f \in 0 .. Height[b] /\ f \in 0 .. Height[p]
    BY <1>2, <1>3, <1>7
  <2>2. \A h \in 0 .. f : Chain[Chain[b][f]][h] = Chain[b][h] /\ Chain[Chain[p][f]][h] = Chain[p][h]
    BY <2>1, TreeAssumption
  <2> QED BY <1>3, <1>7, <2>2
<1>9. k \in 0 .. Height[b] /\ c \in Adds(Chain[b][k])
  BY <1>2, <1>3, <1>6, <1>7, <1>8
<1>10. ASSUME NEW h \in 0 .. Height[b] PROVE c \notin Removals[Chain[b][h]]
  <2>1. CASE h \in 0 .. f
    <3>1. h \in 0 .. Height[p]
      BY <1>2, <1>3, <1>7, <2>1
    <3> QED BY <1>5, <1>8, <2>1, <3>1
  <2>2. CASE h \in f + 1 .. Height[b]
    BY <1>4, <2>2
  <2> QED BY <1>2, <1>7, <2>1, <2>2
<1> QED BY <1>5, <1>9, <1>10 DEF UnspentOf

\* An item that is valid in a block on top of m, a transaction block.
ItemOk(i, m) ==
    /\ HeightLock[i] <= Height[m] /\ SecondsLock[i] <= Timestamp[m]
    /\ \A c \in Spends[i] \ Creates[i] : c \in UnspentOf(m)

\* The peaks of the chain and of the mempool, whatever happens.
Shape(j) == {"stage", "advanced", "changes"} \subseteq DOMAIN j

Peaks ==
    /\ peak \in Block \cup {NoBlock} /\ mempoolPeak \in Block \cup {NoBlock}
    /\ peak # NoBlock => coins = UnspentOf(peak)
    /\ mempoolPeak # NoBlock => peak # NoBlock
    /\ mempoolPeak = NoBlock => pool.spends = {}
    /\ job.stage \in {"rebuild", "drain"} => mempoolPeak = peak /\ peak # NoBlock
    /\ job.stage = "batch" /\ job.advanced => peak # NoBlock
    /\ Shape(job)

\* While the mempool is told: its items are valid on top of its peak, and inside a batch
\* each of their coins is reported as changed or unspent at the end of the chain.
Valid ==
    /\ UpToDate
    /\ \A i \in pool.spends : ItemOk(i, mempoolPeak)
    /\ job.stage = "batch" =>
          \A i \in pool.spends : \A c \in Spends[i] \ Creates[i] : c \in job.changes \/ c \in UnspentOf(peak)

ToldInv == Peaks /\ (told => Valid)

\* When the lock is free the mempool's peak and the chain have the same coins.
LEMMA FreeCoins ==
    ASSUME Peaks, UpToDate, job.stage = "free", mempoolPeak # NoBlock
    PROVE  /\ peak \in Block /\ mempoolPeak \in Block /\ mempoolPeak = LastTx(peak)
           /\ UnspentOf(peak) = UnspentOf(mempoolPeak)
<1>1. peak \in Block /\ peak # NoBlock /\ mempoolPeak \in Block
  BY TreeAssumption DEF Peaks
<1>2. mempoolPeak = LastTx(peak)
  BY <1>1 DEF UpToDate
<1> QED BY <1>1, <1>2, SameCoins

\* add_spendbundle only lets in an item that is valid.
LEMMA AddValid ==
    ASSUME MemInv, Peaks, NEW i \in Item, add_spendbundle(i)
    PROVE  /\ \A j \in pool'.spends : j \in pool.spends \/ (j = i /\ Accepts(i))
           /\ mempoolPeak = NoBlock => pool'.spends = {}
           /\ job.stage \in {"rebuild", "drain"} \/ (job.stage = "free" /\ UpToDate)
                 => \A j \in pool'.spends : j \in pool.spends \/ ItemOk(j, mempoolPeak)
<1>1. \A j \in pool'.spends : j \in pool.spends \/ (j = i /\ Accepts(i))
  <2>1. CASE pool' = pool
    BY <2>1
  <2>2. CASE Accepts(i) /\ \E E \in Evictions(remove_from_pool(pool, Conflicting(i)), Cost[i]) :
                 pool' = add_to_pool(remove_from_pool(pool, Conflicting(i)), i, E)
    <3>1. PICK E : pool' = add_to_pool(remove_from_pool(pool, Conflicting(i)), i, E)
      BY <2>2
    <3>2. pool'.spends = ((pool.spends \ Conflicting(i)) \ E) \cup {i}
      BY <3>1, Zenon DEF add_to_pool, remove_from_pool
    <3> QED BY <2>2, <3>2
  <2> QED BY <2>1, <2>2 DEF add_spendbundle
<1>2. Accepts(i) => mempoolPeak # NoBlock
  BY DEF Accepts, Admissible
<1>3. mempoolPeak = NoBlock => pool'.spends = {}
  BY <1>1, <1>2 DEF Peaks
<1>4. ASSUME job.stage \in {"rebuild", "drain"} \/ (job.stage = "free" /\ UpToDate), Accepts(i)
      PROVE  ItemOk(i, mempoolPeak)
  <2>1. mempoolPeak # NoBlock /\ peak # NoBlock /\ coins = UnspentOf(peak)
    BY <1>2, <1>4 DEF Peaks
  <2>2. UnspentOf(peak) = UnspentOf(mempoolPeak)
    BY <1>4, <2>1, FreeCoins DEF Peaks
  <2>3. \A c \in Spends[i] \ Creates[i] : c \in coins
    BY <1>4, Zenon DEF Accepts, Admissible, IsSpent
  <2>4. HeightLock[i] <= Height[mempoolPeak] /\ SecondsLock[i] <= Timestamp[mempoolPeak]
    BY <1>4 DEF Accepts, HeightOk, SecondsOk
  <2> QED BY <2>1, <2>2, <2>3, <2>4 DEF ItemOk
<1> QED BY <1>1, <1>3, <1>4

\* The optimised path of new_peak: an item with no reported coin is valid on the next
\* transaction block, too.
LEMMA NextTxValid ==
    ASSUME NEW b \in Block, IsTx[b], NEW m \in Block, PrevTx(b) = m, NEW i \in Item, ItemOk(i, m),
           \A c \in Spends[i] \ Creates[i] : c \in UnspentOf(b)
    PROVE  ItemOk(i, b)
<1>1. m # NoBlock /\ Height[b] # 0 /\ m = LastTx(Prev(b))
  BY TreeAssumption DEF PrevTx
<1>2. Height[b] - 1 \in 0 .. Height[b] /\ Height[b] \in Nat /\ Height[m] \in Nat
  BY <1>1, TreeAssumption DEF Heights
<1>3. Prev(b) \in Block /\ Height[Prev(b)] = Height[b] - 1
  BY <1>1, <1>2, TreeAssumption DEF Prev
<1>4. Height[m] <= Height[b]
  <2>1. Height[m] \in 0 .. Height[Prev(b)]
    BY <1>1, <1>3, LastTxIs, Zenon
  <2> QED BY <1>2, <1>3, <2>1
<1>5. Timestamp[m] <= Timestamp[b] /\ Timestamp[m] \in Nat /\ Timestamp[b] \in Nat
  BY <1>1, ValidBlockAssumption, ManagerAssumption
<1>6. HeightLock[i] \in Nat /\ SecondsLock[i] \in Nat
  BY ManagerAssumption, Zenon
<1> QED BY <1>2, <1>4, <1>5, <1>6 DEF ItemOk

\* new_peak, called with the peak, keeps what is known of the peaks, and the items valid
\* when the coins of those it keeps are unspent at the peak.
LEMMA NewPeakValid ==
    ASSUME MemInv, NEW b \in Block, peak' = b, coins' = UnspentOf(b), NEW changes, NEW by, new_peak(b, changes, by),
           mempoolPeak \in Block \cup {NoBlock}, mempoolPeak = NoBlock => pool.spends = {}
    PROVE  /\ Peaks' /\ job'.stage # "batch"
           /\ /\ \A i \in pool.spends : ItemOk(i, mempoolPeak)
              /\ \A i \in pool.spends : \A c \in Spends[i] \ Creates[i] : c \in changes \/ c \in UnspentOf(b)
              => \A i \in pool'.spends : ItemOk(i, mempoolPeak')
<1>1. b # NoBlock /\ pool.spends \subseteq Item
  BY TreeAssumption, Zenon DEF MemInv, Containers, PoolOk
<1>2. CASE job' = FreeLock /\ UNCHANGED mempool
  BY <1>1, <1>2, Zenon DEF mempool, Peaks, FreeLock, Shape
<1>3. CASE /\ IsTx[b] /\ use_optimization(b) /\ mempoolPeak' = b /\ pool' = PoolOf(Untouched(changes))
           /\ job' = [FreeLock EXCEPT !.stage = "drain", !.by = by, !.was = pool.spends, !.retry = potential.txs]
  <2>1. job'.stage = "drain" /\ Shape(job')
    BY <1>3 DEF FreeLock, Shape
  <2>2. pool'.spends = {i \in pool.spends : Spends[i] \cap changes = {}}
    BY <1>3 DEF PoolOf, Untouched
  <2>3. mempoolPeak \in Block /\ PrevTx(b) = mempoolPeak
    BY <1>3 DEF use_optimization
  <2>4. ASSUME \A i \in pool.spends : ItemOk(i, mempoolPeak),
               \A i \in pool.spends : \A c \in Spends[i] \ Creates[i] : c \in changes \/ c \in UnspentOf(b),
               NEW i \in pool'.spends
        PROVE  ItemOk(i, b)
    <3>1. i \in Item /\ ItemOk(i, mempoolPeak) /\ \A c \in Spends[i] \ Creates[i] : c \in UnspentOf(b)
      BY <1>1, <2>2, <2>4, Zenon
    <3> QED BY <1>3, <2>3, <3>1, NextTxValid
  <2>5. Peaks'
    BY <1>1, <1>3, <2>1 DEF Peaks
  <2> QED BY <1>3, <2>1, <2>4, <2>5
<1>4. CASE /\ mempoolPeak' = b /\ pool' = EmptyPool
           /\ job' = [FreeLock EXCEPT !.stage = "rebuild", !.by = by, !.was = pool.spends, !.old = pool.spends]
  <2>1. job'.stage = "rebuild" /\ Shape(job')
    BY <1>4 DEF FreeLock, Shape
  <2>2. pool'.spends = {}
    BY <1>4 DEF EmptyPool
  <2> QED BY <1>1, <1>4, <2>1, <2>2 DEF Peaks
<1> QED BY <1>2, <1>3, <1>4 DEF new_peak

\* receive_block moves the peak to the block, with its coins, or leaves it.
LEMMA ReceivePeak ==
    ASSUME NEW b \in Block, receive_block(b)
    PROVE  \/ peak' = b /\ coins' = UnspentOf(b)
           \/ peak' = peak /\ coins' = coins
BY DEF receive_block, Follow, Remember

\* One move of the peak, inside or outside a batch: the coins of an item that were
\* reported or unspent are so after it.
LEMMA MoveReported ==
    ASSUME Peaks, NEW b \in Block, NEW changes, NEW S, mempoolPeak = NoBlock => S = {},
           \A i \in S : \A c \in Spends[i] \ Creates[i] : c \in changes \/ c \in UnspentOf(peak)
    PROVE  \A i \in S : \A c \in Spends[i] \ Creates[i] : c \in changes \cup CoinChanges(b) \/ c \in UnspentOf(b)
<1>1. SUFFICES ASSUME NEW i \in S, NEW c \in Spends[i] \ Creates[i], c \notin changes \cup CoinChanges(b)
               PROVE  c \in UnspentOf(b)
  OBVIOUS
<1>2. peak \in Block
  BY DEF Peaks
<1>3. c \in UnspentOf(peak)
  BY <1>1
<1> QED BY <1>1, <1>2, <1>3, UnreportedStays

\* The whole step, with the history of what the mempool was told.
LEMMA ToldStep ==
    ASSUME MemInv, MemInv', ToldInv, [NextTold]_<<vars, told>>
    PROVE  ToldInv'
<1>1. Peaks /\ (told => Valid) /\ pool.spends \subseteq Item /\ Shape(job) /\ Shape(FreeLock) /\ FreeLock.stage = "free"
  BY Zenon DEF ToldInv, Peaks, MemInv, Containers, PoolOk, Shape, FreeLock
<1>2. CASE UNCHANGED <<vars, told>>
  BY <1>1, <1>2, Zenon DEF vars, ToldInv, Peaks, Valid, UpToDate, ItemOk
<1>3. ASSUME NEW j, UNCHANGED <<peak, coins, pool, mempoolPeak>>, job' = j, Shape(j), j.stage \notin {"rebuild", "drain", "batch"}
      PROVE  Peaks' /\ (told => \A i \in pool'.spends : ItemOk(i, mempoolPeak'))
  BY <1>1, <1>3, Zenon DEF Peaks, Valid
<1>4. ASSUME told' => told /\ UpToDate', Peaks', told => (\A i \in pool'.spends : ItemOk(i, mempoolPeak')), job'.stage # "batch"
      PROVE  ToldInv'
  BY <1>4, Zenon DEF ToldInv, Valid
<1>5. ASSUME told' => told /\ UpToDate', UNCHANGED <<peak, coins, mempoolPeak>>, NEW i \in Item, add_spendbundle(i), job'.stage = job.stage, Shape(job'),
             job.stage \in {"rebuild", "drain", "free"}
      PROVE  ToldInv'
  <2>1. /\ mempoolPeak = NoBlock => pool'.spends = {}
        /\ job.stage \in {"rebuild", "drain"} \/ (job.stage = "free" /\ UpToDate)
                 => \A j \in pool'.spends : j \in pool.spends \/ ItemOk(j, mempoolPeak)
    BY <1>1, <1>5, AddValid
  <2>2. Peaks'
    BY <1>1, <1>5, <2>1, Zenon DEF Peaks
  <2>3. told => \A j \in pool'.spends : ItemOk(j, mempoolPeak')
    <3>1. SUFFICES ASSUME told PROVE \A j \in pool'.spends : ItemOk(j, mempoolPeak)
      BY <1>5
    <3>2. UpToDate /\ \A j \in pool.spends : ItemOk(j, mempoolPeak)
      BY <1>1, <3>1 DEF Valid
    <3> QED BY <1>5, <2>1, <3>2
  <2> QED BY <1>4, <1>5, <2>2, <2>3
<1>6. ASSUME told' => told /\ UpToDate', UNCHANGED <<peak, coins, pool, mempoolPeak>>, Shape(job'), job'.stage # "batch",
             job'.stage \in {"rebuild", "drain"} => job.stage \in {"rebuild", "drain"}
      PROVE  ToldInv'
  <2>1. Peaks' /\ (told => \A i \in pool'.spends : ItemOk(i, mempoolPeak'))
    BY <1>1, <1>6 DEF Peaks, Valid
  <2> QED BY <1>4, <1>6, <2>1
<1>7. ASSUME told' => told /\ UpToDate', UNCHANGED <<peak, coins, pool, mempoolPeak, job>> PROVE ToldInv'
  BY <1>1, <1>7, Zenon DEF ToldInv, Peaks, Valid, ItemOk
<1>8. ASSUME told' => told /\ UpToDate', JobStep PROVE ToldInv'
  <2>1. ASSUME NEW i \in Item, Rebuild(i) PROVE ToldInv'
    <3>1. job' = [job EXCEPT !.old = @ \ {i}] /\ job.stage = "rebuild"
      BY <2>1 DEF Rebuild
    <3>2. job'.stage = job.stage /\ Shape(job')
      BY <1>1, <3>1 DEF Shape
    <3> QED BY <1>5, <1>8, <2>1, <3>1, <3>2 DEF Rebuild, ledger
  <2>2. ASSUME StartDrain PROVE ToldInv'
    <3>1. job' = [job EXCEPT !.stage = "drain", !.retry = potential.txs] /\ job.stage = "rebuild"
      BY <2>2 DEF StartDrain
    <3>2. job'.stage = "drain" /\ Shape(job')
      BY <1>1, <3>1 DEF Shape
    <3> QED BY <1>6, <1>8, <2>2, <3>1, <3>2 DEF StartDrain, ledger
  <2>3. ASSUME Retry PROVE ToldInv'
    <3>1. PICK i \in Item : add_spendbundle(i)
      <4>1. job.retry \in Seq(Item) /\ job.retry # <<>>
        BY <2>3 DEF MemInv, RetryOk, Retry
      <4>2. Head(job.retry) \in Item
        BY <4>1
      <4> QED BY <2>3, <4>2 DEF Retry
    <3>2. PICK t, a : job' = [job EXCEPT !.retry = t, !.added = a]
      BY <2>3, Zenon DEF Retry
    <3>3. job'.stage = job.stage /\ Shape(job') /\ job.stage = "drain"
      BY <1>1, <2>3, <3>2 DEF Shape, Retry
    <3> QED BY <1>5, <1>8, <2>3, <3>1, <3>3 DEF Retry, ledger
  <2>4. ASSUME EndNewPeak PROVE ToldInv'
    <3>1. job' = [job EXCEPT !.stage = "announce"]
      BY <2>4 DEF EndNewPeak
    <3>2. job'.stage = "announce" /\ Shape(job')
      BY <1>1, <3>1 DEF Shape
    <3> QED BY <1>6, <1>8, <2>4, <3>2 DEF EndNewPeak, ledger, mempool
  <2>5. ASSUME peak_post_processing_2 PROVE ToldInv'
    BY <1>1, <1>6, <1>8, <2>5 DEF peak_post_processing_2, ledger, mempool
  <2> QED BY <1>8, <2>1, <2>2, <2>3, <2>4, <2>5 DEF JobStep
<1>9. ASSUME told' => told /\ UpToDate', Cancel \/ FailBatch PROVE ToldInv'
  BY <1>1, <1>6, <1>9 DEF Cancel, FailBatch, ledger, mempool
<1>10. ASSUME told' => told /\ UpToDate', Transactions PROVE ToldInv'
  <2>1. PICK i \in Item : BeginTransaction(i) \/ FailTransaction(i) \/ EndTransaction(i)
    BY <1>10 DEF Transactions
  <2>2. CASE BeginTransaction(i) \/ FailTransaction(i)
    BY <1>7, <1>10, <2>2 DEF BeginTransaction, FailTransaction, ledger
  <2>3. CASE EndTransaction(i) /\ add_spendbundle(i)
    BY <1>1, <1>5, <1>10, <2>3, Zenon DEF EndTransaction, ledger
  <2>4. CASE EndTransaction(i) /\ UNCHANGED <<pool, potential>>
    BY <1>7, <1>10, <2>4 DEF EndTransaction, ledger
  <2> QED BY <2>1, <2>2, <2>3, <2>4, Zenon DEF EndTransaction
<1>11. ASSUME told, job.stage = "free"
       PROVE  \A i \in pool.spends : \A c \in Spends[i] \ Creates[i] : c \in UnspentOf(peak)
  <2>1. SUFFICES ASSUME NEW i \in pool.spends PROVE \A c \in Spends[i] \ Creates[i] : c \in UnspentOf(peak)
    OBVIOUS
  <2>2. mempoolPeak # NoBlock
    BY <1>1, <2>1 DEF Peaks
  <2>3. UnspentOf(peak) = UnspentOf(mempoolPeak)
    BY <1>1, <1>11, <2>2, FreeCoins DEF Valid
  <2> QED BY <1>1, <1>11, <2>1, <2>3, Zenon DEF Valid, ItemOk
<1>12. ASSUME told' => told /\ UpToDate', NEW b \in Block, respond_block(b) PROVE ToldInv'
  <2>1. CASE peak' = peak
    <3>1. coins' = coins \/ coins' = UnspentOf(peak)
      BY <1>12, <2>1, ReceivePeak DEF respond_block
    <3>2. UNCHANGED <<pool, mempoolPeak, job>>
      BY <1>12, <2>1 DEF respond_block, mempool
    <3>3. Peaks'
      BY <1>1, <2>1, <3>1, <3>2, Zenon DEF Peaks
    <3> QED BY <1>1, <1>12, <2>1, <3>2, <3>3 DEF ToldInv, Valid, ItemOk
  <2>2. CASE peak' # peak
    <3>1. peak' = b /\ coins' = UnspentOf(b) /\ new_peak(b, CoinChanges(b), "block") /\ job.stage = "free"
      BY <1>12, <2>2, ReceivePeak DEF respond_block
    <3>2. mempoolPeak \in Block \cup {NoBlock} /\ (mempoolPeak = NoBlock => pool.spends = {})
      BY <1>1 DEF Peaks
    <3>3. PICK changes : changes = CoinChanges(b)
      OBVIOUS
    <3>4. /\ Peaks' /\ job'.stage # "batch"
          /\ /\ \A i \in pool.spends : ItemOk(i, mempoolPeak)
             /\ \A i \in pool.spends : \A c \in Spends[i] \ Creates[i] : c \in changes \/ c \in UnspentOf(b)
             => \A i \in pool'.spends : ItemOk(i, mempoolPeak')
      BY <3>1, <3>2, <3>3, NewPeakValid, Zenon
    <3>5. told => \A i \in pool.spends : \A c \in Spends[i] \ Creates[i] : c \in changes \/ c \in UnspentOf(b)
      <4>1. SUFFICES ASSUME told PROVE \A i \in pool.spends : \A c \in Spends[i] \ Creates[i] : c \in changes \/ c \in UnspentOf(b)
        OBVIOUS
      <4>2. \A i \in pool.spends : \A c \in Spends[i] \ Creates[i] : c \in {} \/ c \in UnspentOf(peak)
        BY <1>11, <3>1, <4>1
      <4>3. \A i \in pool.spends : \A c \in Spends[i] \ Creates[i] : c \in {} \cup CoinChanges(b) \/ c \in UnspentOf(b)
        BY <1>1, <3>2, <4>2, MoveReported
      <4> QED BY <3>3, <4>3
    <3>6. told => \A i \in pool'.spends : ItemOk(i, mempoolPeak')
      BY <1>1, <3>4, <3>5 DEF Valid
    <3> QED BY <1>4, <1>12, <3>4, <3>6
  <2> QED BY <2>1, <2>2
<1>13. ASSUME told' => told /\ UpToDate', BeginBatch PROVE ToldInv'
  <2>1. job' = [FreeLock EXCEPT !.stage = "batch"] /\ UNCHANGED <<peak, coins, pool, mempoolPeak>> /\ job.stage = "free"
    BY <1>13 DEF BeginBatch, ledger, mempool
  <2>2. job'.stage = "batch" /\ job'.advanced = FALSE /\ Shape(job')
    BY <2>1 DEF FreeLock, Shape
  <2>3. Peaks'
    BY <1>1, <2>1, <2>2 DEF Peaks
  <2> QED BY <1>1, <1>11, <1>13, <2>1, <2>2, <2>3 DEF ToldInv, Valid, ItemOk
<1>14. ASSUME told' => told /\ UpToDate', NEW b \in Block, BatchBlock(b) PROVE ToldInv'
  <2>1. /\ job.stage = "batch" /\ UNCHANGED <<pool, mempoolPeak>>
        /\ job' = [job EXCEPT !.last = b, !.advanced = @ \/ peak' # peak,
                              !.changes = IF peak' # peak THEN @ \cup CoinChanges(b) ELSE @]
    BY <1>14 DEF BatchBlock, mempool
  <2>2. /\ job'.stage = "batch" /\ Shape(job') /\ (job'.advanced => job.advanced \/ peak' # peak)
        /\ job'.changes = IF peak' # peak THEN job.changes \cup CoinChanges(b) ELSE job.changes
    <3>1. PICK a, n : a = (job.advanced \/ peak' # peak)
                      /\ n = IF peak' # peak THEN job.changes \cup CoinChanges(b) ELSE job.changes
      BY Zenon
    <3>2. job' = [job EXCEPT !.last = b, !.advanced = a, !.changes = n]
      BY <2>1, <3>1
    <3>3. job'.stage = job.stage /\ Shape(job') /\ job'.advanced = a /\ job'.changes = n
      BY <1>1, <3>2 DEF Shape
    <3> QED BY <2>1, <3>1, <3>3, Zenon
  <2>3. (peak' = b /\ coins' = UnspentOf(b)) \/ (peak' = peak /\ coins' = coins)
    BY <1>14, ReceivePeak DEF BatchBlock
  <2>4. b # NoBlock
    BY TreeAssumption
  <2>5. Peaks'
    BY <1>1, <2>1, <2>2, <2>3, <2>4 DEF Peaks
  <2>6. ASSUME told
        PROVE  \A i \in pool.spends : \A c \in Spends[i] \ Creates[i] : c \in job'.changes \/ c \in UnspentOf(peak')
    <3>1. \A i \in pool.spends : \A c \in Spends[i] \ Creates[i] : c \in job.changes \/ c \in UnspentOf(peak)
      BY <1>1, <2>1, <2>6 DEF Valid
    <3>2. CASE peak' = peak
      BY <2>2, <3>1, <3>2
    <3>3. CASE peak' # peak
      <4>1. mempoolPeak = NoBlock => pool.spends = {}
        BY <1>1 DEF Peaks
      <4>2. PICK ch : ch = job.changes
        OBVIOUS
      <4>3. \A i \in pool.spends : \A c \in Spends[i] \ Creates[i] : c \in ch \cup CoinChanges(b) \/ c \in UnspentOf(b)
        BY <1>1, <3>1, <4>1, <4>2, MoveReported
      <4> QED BY <2>2, <2>3, <3>3, <4>2, <4>3
    <3> QED BY <3>2, <3>3
  <2>7. told' => /\ UpToDate' /\ \A i \in pool'.spends : ItemOk(i, mempoolPeak')
                 /\ \A i \in pool'.spends : \A c \in Spends[i] \ Creates[i] : c \in job'.changes \/ c \in UnspentOf(peak')
    BY <1>1, <1>14, <2>1, <2>6 DEF Valid, ItemOk
  <2> QED BY <2>5, <2>7 DEF ToldInv, Valid
<1>15. ASSUME told' => told /\ UpToDate', EndBatch PROVE ToldInv'
  <2>1. UNCHANGED <<peak, coins>> /\ job.stage = "batch"
    BY <1>15 DEF EndBatch, ledger
  <2>2. CASE job' = FreeLock /\ UNCHANGED mempool
    BY <1>1, <1>6, <1>15, <2>1, <2>2 DEF mempool
  <2>3. CASE job.advanced /\ new_peak(peak, job.changes, "batch")
    <3>1. PICK b, changes : b \in Block /\ b = peak /\ changes = job.changes
      BY <1>1, <2>1, <2>3 DEF Peaks
    <3>2. /\ peak' = b /\ coins' = UnspentOf(b) /\ mempoolPeak \in Block \cup {NoBlock}
          /\ mempoolPeak = NoBlock => pool.spends = {}
      BY <1>1, <2>1, <2>3, <3>1 DEF Peaks
    <3>3. new_peak(b, changes, "batch")
      BY <2>3, <3>1
    <3>4. /\ Peaks' /\ job'.stage # "batch"
          /\ /\ \A i \in pool.spends : ItemOk(i, mempoolPeak)
             /\ \A i \in pool.spends : \A c \in Spends[i] \ Creates[i] : c \in changes \/ c \in UnspentOf(b)
             => \A i \in pool'.spends : ItemOk(i, mempoolPeak')
      BY <3>1, <3>2, <3>3, NewPeakValid
    <3>5. told => \A i \in pool'.spends : ItemOk(i, mempoolPeak')
      BY <1>1, <2>1, <3>1, <3>4 DEF Valid
    <3> QED BY <1>4, <1>15, <3>4, <3>5
  <2> QED BY <1>15, <2>2, <2>3 DEF EndBatch
<1>16. ASSUME ~ told', LongSync PROVE ToldInv'
  <2>1. SUFFICES Peaks'
    BY <1>16 DEF ToldInv
  <2>2. CASE BeginSync
    BY <1>1, <2>2 DEF BeginSync, ledger, mempool, Peaks
  <2>3. CASE LockSync
    <3>1. job'.stage = "sync" /\ Shape(job')
      BY <2>3 DEF LockSync, FreeLock, Shape
    <3> QED BY <1>1, <2>3, <3>1 DEF LockSync, ledger, mempool, Peaks
  <2>4. CASE EndSync
    BY <1>1, <2>4 DEF EndSync, ledger, mempool, Peaks
  <2>5. CASE FinishSync
    <3>1. UNCHANGED <<peak, coins>>
      BY <2>5 DEF FinishSync, ledger
    <3>2. CASE UNCHANGED <<mempool, job>>
      BY <1>1, <3>1, <3>2 DEF mempool, Peaks
    <3>3. CASE peak # NoBlock /\ new_peak(peak, {}, "sync")
      <4>1. PICK b \in Block : b = peak
        BY <1>1, <3>3 DEF Peaks
      <4>2. /\ peak' = b /\ coins' = UnspentOf(b) /\ mempoolPeak \in Block \cup {NoBlock}
            /\ mempoolPeak = NoBlock => pool.spends = {}
        BY <1>1, <3>1, <3>3, <4>1 DEF Peaks
      <4>3. new_peak(b, {}, "sync")
        BY <3>3, <4>1
      <4> QED BY <4>2, <4>3, NewPeakValid
    <3> QED BY <2>5, <3>2, <3>3 DEF FinishSync
  <2>6. ASSUME NEW b \in Block, SyncBlock(b) PROVE Peaks'
    <3>1. (peak' = b /\ coins' = UnspentOf(b)) \/ (peak' = peak /\ coins' = coins)
      BY <2>6, ReceivePeak DEF SyncBlock
    <3>2. b # NoBlock /\ job.stage = "sync" /\ UNCHANGED <<pool, mempoolPeak, job>>
      BY <2>6, TreeAssumption DEF SyncBlock, mempool
    <3> QED BY <1>1, <3>1, <3>2 DEF Peaks
  <2> QED BY <1>16, <2>2, <2>3, <2>4, <2>5, <2>6 DEF LongSync
<1>17. CASE (Next \/ Cancel) /\ told' = (told /\ UpToDate')
  <2>1. told' => told /\ UpToDate'
    BY <1>17, Zenon
  <2> QED BY <1>8, <1>9, <1>10, <1>12, <1>13, <1>14, <1>15, <1>17, <2>1 DEF Next, Blocks
<1>18. CASE LongSync /\ told' = FALSE
  BY <1>16, <1>18
<1> QED BY <1>2, <1>17, <1>18, Zenon DEF NextTold

\* A node starts with the last transaction block of its chain, or with none.
LEMMA ToldStarts ==
    ASSUME Init
    PROVE  Peaks /\ Valid
<1>1. PICK b \in Block \cup {NoBlock} :
        /\ peak = b /\ coins = (IF b = NoBlock THEN {} ELSE UnspentOf(b))
        /\ mempoolPeak = IF b # NoBlock /\ IsTx[b] THEN b ELSE NoBlock
        /\ pool = EmptyPool /\ job = FreeLock
  BY ManagerAssumption, Zenon DEF Init
<1>2. pool.spends = {} /\ job.stage = "free" /\ Shape(job)
  BY <1>1, Zenon DEF EmptyPool, FreeLock, Shape
<1>3. Peaks
  BY <1>1, <1>2 DEF Peaks
<1>4. ASSUME b # NoBlock, IsTx[b] PROVE LastTx(b) = b
  BY <1>1, <1>4, LastTxOfTx
<1>5. UpToDate
  BY <1>1, <1>4 DEF UpToDate
<1> QED BY <1>2, <1>3, <1>5 DEF Valid

\* What is in a bundle is in the pool, and is valid.
LEMMA ToldImplies == MemInv /\ ToldInv => BundleIsValidIfTold
<1>1. SUFFICES ASSUME MemInv, ToldInv, told, job.stage = "free", NEW B \in Bundles
               PROVE  /\ CostOf(B) <= BundleMaxCost
                      /\ \A i \in B : SpendableAtPeak(i)
                      /\ \A i, j \in B : i # j => Spends[i] \cap Spends[j] = {}
  BY DEF BundleIsValidIfTold, BundleIsValid
<1>2. mempoolPeak # NoBlock /\ B \subseteq pool.spends /\ CostOf(B) <= BundleMaxCost
  BY <1>1 DEF Bundles
<1>3. Peaks /\ UpToDate /\ \A i \in pool.spends : ItemOk(i, mempoolPeak)
  BY <1>1 DEF ToldInv, Valid
<1>4. /\ peak \in Block /\ mempoolPeak = LastTx(peak)
      /\ UnspentOf(peak) = UnspentOf(mempoolPeak)
  BY <1>1, <1>2, <1>3, FreeCoins
<1>5. peak # NoBlock /\ coins = UnspentOf(peak)
  BY <1>3, <1>4, TreeAssumption DEF Peaks
<1>6. \A i \in B : SpendableAtPeak(i)
  BY <1>2, <1>3, <1>4, <1>5 DEF ItemOk, SpendableAtPeak
<1>7. \A i, j \in B : i # j => Spends[i] \cap Spends[j] = {}
  <2>1. PoolIndexed /\ \A i \in pool.spends : Spends[i] \subseteq Coin
    BY <1>1, ManagerImplies, ItemAssumption, Zenon DEF PoolSound, MemInv, Containers, PoolOk
  <2> QED BY <1>2, <2>1 DEF PoolIndexed
<1> QED BY <1>2, <1>6, <1>7

\* Over transactions, blocks, batches that end or fail, and cancelled tasks, and as long
\* as new_peak was called for every transaction block the chain has moved to, what
\* create_bundle_from_mempool puts into a block is valid: each coin is unspent at the
\* peak or created by the same item, none is spent twice, the height and time locks have
\* expired and the cost is within the limit.
THEOREM Mempool_BundleIsValidIfTold == SpecTold => []BundleIsValidIfTold
<1>1. [NextTold]_<<vars, told>> => [NextAll]_vars
  BY DEF NextTold, NextAll, vars
<1>2. Init => MemInv
  BY ManagerStarts
<1>3. MemInv /\ [NextTold]_<<vars, told>> => MemInv'
  BY <1>1, ManagerStep
<1>4. Init /\ told = TRUE => ToldInv
  BY ToldStarts DEF ToldInv
<1>5. MemInv /\ ToldInv /\ [NextTold]_<<vars, told>> => ToldInv'
  BY <1>3, ToldStep
<1> QED BY <1>2, <1>3, <1>4, <1>5, ToldImplies, PTL DEF SpecTold

-----------------------------------------------------------------------------
(* What a new peak keeps *)

\* d is on the chain of b.
OnChain(d, b) == Height[d] <= Height[b] /\ Chain[b][Height[d]] = d

\* The coins of ch are coins of transaction blocks that one of the chains of m and b has
\* and the other one has not.
Between(ch, m, b) ==
    \A c \in ch : \E d \in Block :
        /\ IsTx[d] /\ c \in Adds(d) \cup Removals[d]
        /\ \/ OnChain(d, b) /\ ~ OnChain(d, m)
           \/ OnChain(d, m) /\ ~ OnChain(d, b)

\* A coin is not the parent of a reward, which stands for none.
LEMMA CoinOf ==
    ASSUME NEW c \in Coin
    PROVE  c # NoCoin
BY CoinAssumption, Zenon

\* What a block removes are coins.
LEMMA SpentIsCoin ==
    ASSUME NEW d \in Block, NEW c \in Removals[d]
    PROVE  c # NoCoin
<1>1. Removals[d] \in SUBSET Coin
  BY CoinAssumption
<1> QED BY <1>1, CoinOf, Zenon

\* A block is the last one of its chain.
LEMMA OwnHeight ==
    ASSUME NEW b \in Block
    PROVE  Height[b] \in Nat /\ Height[b] \in 0 .. Height[b] /\ Chain[b][Height[b]] = b
BY TreeAssumption DEF Heights

\* What is not above a height of a chain is a height of it.
LEMMA LowerHeight ==
    ASSUME NEW n \in Nat, NEW h \in 0 .. n, NEW k \in 0 .. h
    PROVE  k \in 0 .. n
OBVIOUS

\* A block that changes a coin is a transaction block.
LEMMA ChangesInTx ==
    ASSUME NEW d \in Block, NEW c \in Adds(d) \cup Removals[d]
    PROVE  IsTx[d]
BY ValidBlockAssumption DEF RewardsClaimed

\* The chain of a block of a chain is the part of it up to the block.
LEMMA ChainOf ==
    ASSUME NEW b \in Block, NEW a \in Block, OnChain(a, b)
    PROVE  /\ Height[a] \in 0 .. Height[b] /\ Height[b] \in Nat
           /\ \A k \in 0 .. Height[a] : Chain[a][k] = Chain[b][k]
           /\ \A d \in Block : OnChain(d, a) <=> OnChain(d, b) /\ Height[d] <= Height[a]
<1>1. Height \in [Block -> Nat]
  BY TreeAssumption DEF Heights
<1>2. Height[a] \in 0 .. Height[b] /\ Chain[b][Height[a]] = a
  BY <1>1 DEF OnChain
<1>3. \A k \in 0 .. Height[a] : Chain[a][k] = Chain[b][k]
  BY <1>2, TreeAssumption
<1>4. \A d \in Block : OnChain(d, a) <=> OnChain(d, b) /\ Height[d] <= Height[a]
  <2>1. SUFFICES ASSUME NEW d \in Block PROVE OnChain(d, a) <=> OnChain(d, b) /\ Height[d] <= Height[a]
    BY Zenon
  <2>2. CASE Height[d] <= Height[a]
    <3>1. Height[d] \in 0 .. Height[a] /\ Height[d] <= Height[b]
      BY <1>1, <1>2, <2>2
    <3>2. Chain[a][Height[d]] = Chain[b][Height[d]]
      BY <1>3, <3>1
    <3> QED BY <2>2, <3>1, <3>2 DEF OnChain
  <2>3. CASE ~(Height[d] <= Height[a])
    BY <2>3 DEF OnChain
  <2> QED BY <2>2, <2>3
<1> QED BY <1>1, <1>2, <1>3, <1>4

\* What is reported when the peak moves to b are coins of the blocks that one of the
\* chains of b and of the last transaction block before has and the other has not.
LEMMA MoveBetween ==
    ASSUME peak \in Block, NEW b \in Block, NEW m, m = LastTx(peak), m # NoBlock
    PROVE  Between(CoinChanges(b), m, b)
<1>1. PICK p \in Block : p = peak
  OBVIOUS
<1>2. PICK f \in Int :
        /\ \A h \in 0 .. Height[b] : h <= Height[p] /\ Chain[b][h] = Chain[p][h] => h <= f
        /\ f >= -1
        /\ CoinChanges(b) = (UNION {Adds(Chain[b][h]) \cup Removals[Chain[b][h]] : h \in f + 1 .. Height[b]})
                            \cup (UNION {Adds(Chain[p][h]) : h \in f + 1 .. Height[p]})
  BY <1>1, ChangesFrom
<1>3. Height[p] \in Nat /\ Height[b] \in Nat
  BY TreeAssumption DEF Heights
<1>4. m \in Block /\ OnChain(m, p) /\ \A h \in Height[m] + 1 .. Height[p] : ~ IsTx[Chain[p][h]]
  BY <1>1, <1>3, LastTxIs DEF OnChain
<1>5. Height[m] \in 0 .. Height[p] /\ \A d \in Block : OnChain(d, m) <=> OnChain(d, p) /\ Height[d] <= Height[m]
  BY <1>4, ChainOf
<1>6. ASSUME NEW h \in f + 1 .. Height[b], NEW c \in Adds(Chain[b][h]) \cup Removals[Chain[b][h]]
      PROVE  \E d \in Block : /\ IsTx[d] /\ c \in Adds(d) \cup Removals[d]
                              /\ OnChain(d, b) /\ ~ OnChain(d, m)
  <2>1. h \in 0 .. Height[b] /\ ~(h <= f)
    BY <1>2, <1>3
  <2>2. PICK d \in Block : d = Chain[b][h] /\ Height[d] = h
    BY <2>1, TreeAssumption
  <2>3. OnChain(d, b) /\ ~ OnChain(d, p)
    BY <1>2, <1>3, <2>1, <2>2 DEF OnChain
  <2> QED BY <1>5, <1>6, <2>2, <2>3, ChangesInTx
<1>7. ASSUME NEW h \in f + 1 .. Height[p], NEW c \in Adds(Chain[p][h])
      PROVE  \E d \in Block : /\ IsTx[d] /\ c \in Adds(d) \cup Removals[d]
                              /\ OnChain(d, m) /\ ~ OnChain(d, b)
  <2>1. h \in 0 .. Height[p] /\ ~(h <= f)
    BY <1>2, <1>3
  <2>2. PICK d \in Block : d = Chain[p][h] /\ Height[d] = h
    BY <2>1, TreeAssumption
  <2>3. IsTx[d]
    BY <1>7, <2>2, ChangesInTx
  <2>4. OnChain(d, p) /\ ~ OnChain(d, b)
    BY <1>2, <1>3, <2>1, <2>2 DEF OnChain
  <2>5. h <= Height[m]
    BY <1>3, <1>4, <1>5, <2>1, <2>2, <2>3
  <2> QED BY <1>5, <1>7, <2>2, <2>3, <2>4, <2>5
<1>8. SUFFICES ASSUME NEW c \in CoinChanges(b)
               PROVE  \E d \in Block : /\ IsTx[d] /\ c \in Adds(d) \cup Removals[d]
                                       /\ \/ OnChain(d, b) /\ ~ OnChain(d, m)
                                          \/ OnChain(d, m) /\ ~ OnChain(d, b)
  BY DEF Between
<1>9. CASE \E h \in f + 1 .. Height[b] : c \in Adds(Chain[b][h]) \cup Removals[Chain[b][h]]
  BY <1>6, <1>9
<1>10. CASE \E h \in f + 1 .. Height[p] : c \in Adds(Chain[p][h])
  BY <1>7, <1>10
<1> QED BY <1>2, <1>8, <1>9, <1>10

\* One more block on the chain adds only its own coins.
LEMMA ExtendBetween ==
    ASSUME peak \in Block, NEW b \in Block, Prev(b) = peak, NEW m \in Block, Weight[m] < Weight[b],
           NEW ch, Between(ch, m, peak)
    PROVE  Between(ch \cup CoinChanges(b), m, b)
<1>1. PICK p \in Block : p = peak
  OBVIOUS
<1>2. PICK f \in Int :
        /\ \A h \in 0 .. Height[b] : h <= Height[p] /\ Chain[b][h] = Chain[p][h] => h <= f
        /\ f >= -1
        /\ CoinChanges(b) = (UNION {Adds(Chain[b][h]) \cup Removals[Chain[b][h]] : h \in f + 1 .. Height[b]})
                            \cup (UNION {Adds(Chain[p][h]) : h \in f + 1 .. Height[p]})
  BY <1>1, ChangesFrom
<1>3. Height[b] # 0 /\ p = Chain[b][Height[b] - 1] /\ Height[b] \in Nat /\ Height[m] \in Nat
  BY <1>1, TreeAssumption DEF Prev, Heights
<1>4. Height[b] - 1 \in 0 .. Height[b] /\ Height[p] = Height[b] - 1 /\ OnChain(p, b) /\ OnChain(b, b)
  <2>1. Height[b] - 1 \in 0 .. Height[b]
    BY <1>3
  <2>2. Height[p] = Height[b] - 1 /\ Chain[b][Height[b]] = b
    BY <1>3, <2>1, TreeAssumption
  <2> QED BY <1>3, <2>1, <2>2 DEF OnChain
<1>5. /\ \A k \in 0 .. Height[p] : Chain[p][k] = Chain[b][k]
      /\ \A d \in Block : OnChain(d, p) <=> OnChain(d, b) /\ Height[d] <= Height[p]
  BY <1>4, ChainOf, Zenon
<1>6. ~ OnChain(b, m)
  <2>1. SUFFICES ASSUME OnChain(b, m) PROVE FALSE
    OBVIOUS
  <2>2. Height[b] \in 0 .. Height[m] /\ Chain[m][Height[b]] = b
    BY <1>3, <2>1 DEF OnChain
  <2>3. CASE Height[b] = Height[m]
    <3>1. b = m
      BY <2>2, <2>3, TreeAssumption
    <3> QED BY <3>1, WeightAssumption
  <2>4. CASE Height[b] < Height[m]
    <3>1. Weight[b] < Weight[m] /\ Weight[b] \in Nat /\ Weight[m] \in Nat
      BY <2>2, <2>4, WeightAssumption
    <3> QED BY <3>1
  <2> QED BY <1>3, <2>2, <2>3, <2>4
<1>7. f >= Height[p]
  <2>1. Height[p] \in 0 .. Height[b] /\ Height[p] \in 0 .. Height[p]
    BY <1>3, <1>4
  <2>2. Height[p] <= Height[p] /\ Chain[b][Height[p]] = Chain[p][Height[p]] => Height[p] <= f
    BY <1>2, <2>1, Zenon
  <2>3. Chain[b][Height[p]] = Chain[p][Height[p]]
    BY <1>5, <2>1, Zenon
  <2>4. Height[p] \in Int /\ Height[p] <= Height[p]
    BY <1>3, <1>4
  <2>5. Height[p] <= f
    BY <2>2, <2>3, <2>4, Zenon
  <2> QED BY <2>4, <2>5
<1>8. ASSUME NEW c \in CoinChanges(b) PROVE c \in Adds(b) \cup Removals[b]
  <2>1. ~ \E h \in f + 1 .. Height[p] : c \in Adds(Chain[p][h])
    BY <1>3, <1>4, <1>7
  <2>2. PICK h \in f + 1 .. Height[b] : c \in Adds(Chain[b][h]) \cup Removals[Chain[b][h]]
    BY <1>2, <1>8, <2>1
  <2>3. h = Height[b]
    BY <1>3, <1>4, <1>7, <2>2
  <2> QED BY <2>2, <2>3, TreeAssumption, Zenon
<1>9. SUFFICES ASSUME NEW c \in ch \cup CoinChanges(b)
               PROVE  \E d \in Block : /\ IsTx[d] /\ c \in Adds(d) \cup Removals[d]
                                       /\ \/ OnChain(d, b) /\ ~ OnChain(d, m)
                                          \/ OnChain(d, m) /\ ~ OnChain(d, b)
  BY Zenon DEF Between
<1>10. CASE c \in CoinChanges(b)
  BY <1>4, <1>6, <1>8, <1>10, ChangesInTx, Zenon
<1>11. CASE c \in ch
  <2>1. PICK d \in Block : /\ IsTx[d] /\ c \in Adds(d) \cup Removals[d]
                           /\ \/ OnChain(d, p) /\ ~ OnChain(d, m)
                              \/ OnChain(d, m) /\ ~ OnChain(d, p)
    BY <1>1, <1>11, Zenon DEF Between
  <2>2. OnChain(d, b) => OnChain(d, p) \/ d = b
    <3>1. SUFFICES ASSUME OnChain(d, b), ~(Height[d] <= Height[p]) PROVE d = b
      BY <1>5, Zenon
    <3>2. Height[d] \in Nat /\ Height[d] <= Height[b] /\ Chain[b][Height[d]] = d
      BY <3>1, TreeAssumption DEF OnChain, Heights
    <3>3. Height[d] = Height[b]
      BY <1>3, <1>4, <3>1, <3>2
    <3> QED BY <3>2, <3>3, TreeAssumption, Zenon
  <2> QED BY <1>5, <1>6, <2>1, <2>2, Zenon
<1> QED BY <1>9, <1>10, <1>11

\* When b follows m as the next transaction block, what was reported are coins of b.
LEMMA ReportedOfNext ==
    ASSUME NEW b \in Block, NEW m \in Block, PrevTx(b) = m, NEW ch, Between(ch, m, b), NEW c \in ch
    PROVE  /\ c \in Adds(b) \cup Removals[b]
           /\ Height[m] \in 0 .. Height[b] - 1 /\ Height[b] \in Nat
           /\ \A k \in 0 .. Height[m] : Chain[m][k] = Chain[b][k]
<1>1. m # NoBlock /\ Height[b] # 0 /\ m = LastTx(Prev(b)) /\ Height[b] \in Nat
  BY TreeAssumption DEF PrevTx, Heights
<1>2. Height[b] - 1 \in 0 .. Height[b]
  BY <1>1
<1>3. PICK p \in Block : p = Prev(b) /\ Height[p] = Height[b] - 1 /\ Chain[b][Height[p]] = p
  BY <1>1, <1>2, TreeAssumption DEF Prev
<1>4. m \in Block /\ OnChain(m, p) /\ \A h \in Height[m] + 1 .. Height[p] : ~ IsTx[Chain[p][h]]
  <2>1. Height[m] \in 0 .. Height[p] /\ Chain[p][Height[m]] = m
        /\ \A h \in Height[m] + 1 .. Height[p] : ~ IsTx[Chain[p][h]]
    BY <1>1, <1>3, LastTxIs, Zenon
  <2> QED BY <1>1, <1>3, <2>1 DEF OnChain
<1>5. OnChain(p, b)
  BY <1>1, <1>3 DEF OnChain
<1>6. /\ Height[m] \in 0 .. Height[p] /\ \A k \in 0 .. Height[m] : Chain[m][k] = Chain[p][k]
      /\ \A d \in Block : OnChain(d, m) <=> OnChain(d, p) /\ Height[d] <= Height[m]
  BY <1>4, ChainOf, Zenon
<1>7. /\ \A k \in 0 .. Height[p] : Chain[p][k] = Chain[b][k]
      /\ \A d \in Block : OnChain(d, p) <=> OnChain(d, b) /\ Height[d] <= Height[p]
  BY <1>5, ChainOf, Zenon
<1>8. PICK d \in Block : /\ IsTx[d] /\ c \in Adds(d) \cup Removals[d]
                         /\ \/ OnChain(d, b) /\ ~ OnChain(d, m)
                            \/ OnChain(d, m) /\ ~ OnChain(d, b)
  BY Zenon DEF Between
<1>9. OnChain(d, b) /\ ~ OnChain(d, m)
  BY <1>6, <1>7, <1>8, Zenon
<1>10. Height[d] \in Nat /\ Height[d] <= Height[b] /\ Chain[b][Height[d]] = d
  BY <1>9, TreeAssumption DEF OnChain, Heights
<1>11. ~(Height[d] <= Height[p])
  <2>1. SUFFICES ASSUME Height[d] <= Height[p] PROVE FALSE
    OBVIOUS
  <2>2. OnChain(d, p) /\ ~(Height[d] <= Height[m])
    BY <1>6, <1>7, <1>9, <2>1, Zenon
  <2>3. Height[d] \in Height[m] + 1 .. Height[p] /\ Chain[p][Height[d]] = d
    BY <1>1, <1>3, <1>6, <1>10, <2>1, <2>2 DEF OnChain
  <2> QED BY <1>4, <1>8, <2>3, Zenon
<1>12. Height[d] = Height[b]
  BY <1>1, <1>3, <1>10, <1>11
<1>13. d = b
  BY <1>10, <1>12, TreeAssumption
<1>14. \A k \in 0 .. Height[m] : Chain[m][k] = Chain[b][k]
  <2>1. \A k \in 0 .. Height[m] : k \in 0 .. Height[p]
    BY <1>1, <1>3, <1>6
  <2> QED BY <1>6, <1>7, <2>1, Zenon
<1> QED BY <1>1, <1>3, <1>6, <1>8, <1>13, <1>14, Zenon

\* A reward is the output of no coin, an addition that of a coin its block spends.
LEMMA ParentOf ==
    ASSUME NEW d \in Block, NEW c \in Adds(d)
    PROVE  \/ c \in Additions[d] /\ Parent[c] \in Removals[d] /\ Parent[c] \in Coin
           \/ /\ c \in Claims[d] /\ Parent[c] = NoCoin /\ IsTx[d]
              /\ \E k \in ClaimHeights(d) : Chain[d][k] \in Block /\ Height[Chain[d][k]] = k /\ c = Reward[Chain[d][k]]
<1>1. CASE c \in Additions[d]
  BY <1>1, CoinAssumption, Zenon
<1>2. CASE c \in Claims[d]
  <2>1. IsTx[d] /\ c \in ExpectedRewards(d)
    BY <1>2, ValidBlockAssumption, Zenon DEF RewardsClaimed, Adds
  <2>2. PICK k \in ClaimHeights(d) : c = Reward[Chain[d][k]]
    BY <2>1 DEF ExpectedRewards
  <2>3. k \in 0 .. Height[d] - 1 /\ Height[d] \in Nat
    BY TreeAssumption DEF ClaimHeights, Heights
  <2>4. k \in 0 .. Height[d]
    BY <2>3
  <2>5. Chain[d][k] \in Block /\ Height[Chain[d][k]] = k
    BY <2>4, TreeAssumption
  <2> QED BY <1>2, <2>1, <2>2, <2>5, CoinAssumption, Zenon
<1> QED BY <1>1, <1>2, Zenon DEF Adds

\* A coin that has a parent is created by the block that spends the parent,
LEMMA SpentByIt ==
    ASSUME NEW d \in Block, NEW c \in Adds(d), Parent[c] # NoCoin
    PROVE  Parent[c] \in Removals[d]
BY ParentOf, Zenon

\* and one that has none is the reward of a block below.
LEMMA RewardOf ==
    ASSUME NEW d \in Block, NEW c \in Adds(d), Parent[c] = NoCoin
    PROVE  \E k \in ClaimHeights(d) :
               IsTx[d] /\ Chain[d][k] \in Block /\ Height[Chain[d][k]] = k /\ c = Reward[Chain[d][k]]
<1>1. Parent[c] \notin Coin
  BY CoinAssumption, Zenon
<1> QED BY <1>1, ParentOf, Zenon

\* On a chain whose spends are sound a coin of its last block is not created before.
LEMMA CreatedOnce ==
    ASSUME NEW b \in Block, SpendsAreSound(b), NEW h \in 0 .. Height[b] - 1, NEW c \in Adds(b)
    PROVE  c \notin Adds(Chain[b][h])
<1>1. Height[b] \in Nat /\ Height[b] \in 0 .. Height[b] /\ h \in 0 .. Height[b] /\ Chain[b][Height[b]] = b
  BY TreeAssumption DEF Heights
<1>2. PICK a \in Block : a = Chain[b][h] /\ Height[a] = h /\ \A k \in 0 .. h : Chain[a][k] = Chain[b][k]
  BY <1>1, TreeAssumption
<1>3. SUFFICES ASSUME c \in Adds(a) PROVE FALSE
  BY <1>2
<1>4. CASE Parent[c] \in Removals[b]
  <2>1. Parent[c] \in Removals[a]
    BY <1>3, <1>4, SpentIsCoin, SpentByIt, Zenon
  <2>2. \A k \in 0 .. Height[b] - 1 : Parent[c] \notin Removals[Chain[b][k]]
    BY <1>1, <1>4 DEF SpendsAreSound
  <2> QED BY <1>2, <2>1, <2>2
<1>5. CASE Parent[c] = NoCoin
  <2>1. PICK k1 \in ClaimHeights(a) : IsTx[a] /\ Chain[a][k1] \in Block /\ Height[Chain[a][k1]] = k1 /\ c = Reward[Chain[a][k1]]
    BY <1>3, <1>5, RewardOf, Zenon
  <2>2. PICK k \in ClaimHeights(b) : IsTx[b] /\ Chain[b][k] \in Block /\ Height[Chain[b][k]] = k /\ c = Reward[Chain[b][k]]
    BY <1>5, RewardOf, Zenon
  <2>3. k1 = k
    <3>1. \A u, v \in Block : Reward[u] = Reward[v] => Height[u] = Height[v]
      BY CoinAssumption
    <3>2. PICK u, v : u \in Block /\ v \in Block /\ u = Chain[a][k1] /\ v = Chain[b][k]
      BY <2>1, <2>2, Zenon
    <3>3. Height[u] = k1 /\ Height[v] = k /\ Reward[u] = Reward[v]
      BY <2>1, <2>2, <3>2, Zenon
    <3> QED BY <3>1, <3>2, <3>3, Zenon
  <2>4. PICK p1 \in k .. h - 1 : IsTx[Chain[a][p1]] /\ k \in 0 .. h - 1
    BY <1>2, <2>1, <2>3, Zenon DEF ClaimHeights
  <2>5. PICK p2 \in k .. Height[b] - 1 :
           /\ \A j \in p2 + 1 .. Height[b] - 1 : ~ IsTx[Chain[b][j]]
           /\ \A j \in k .. p2 - 1 : ~ IsTx[Chain[b][j]]
    BY <2>2, Zenon DEF ClaimHeights
  <2>6. h \in Nat /\ k \in Nat /\ p1 \in 0 .. h /\ p1 \in Int /\ p2 \in Int
    BY <1>1, <2>4, <2>5
  <2>7. IsTx[Chain[b][p1]]
    BY <1>2, <2>4, <2>6, Zenon
  <2>8. h <= p2
    <3>1. ~(h \in p2 + 1 .. Height[b] - 1)
      BY <1>2, <2>1, <2>5, Zenon
    <3> QED BY <1>1, <2>6, <3>1
  <2>9. ~(p1 \in k .. p2 - 1)
    BY <2>5, <2>7, Zenon
  <2> QED BY <2>4, <2>6, <2>8, <2>9
<1> QED BY <1>4, <1>5, ParentOf, Zenon

\* An item that was valid on m and has a coin in the next transaction block b is not valid
\* on b.  A coin the item itself creates has an ancestor among the item's coins that is not
\* created by it, and b's chain has spent that one.
LEMMA ReportedIsGone ==
    ASSUME NEW b \in Block, SpendsAreSound(b), NEW m \in Block, Height[m] \in 0 .. Height[b] - 1,
           \A k \in 0 .. Height[m] : Chain[m][k] = Chain[b][k],
           NEW i \in Item, ItemOk(i, m), NEW c \in Spends[i], c \in Adds(b) \cup Removals[b],
           \A x \in Spends[i] : x \in UnspentOf(b) \/ x \in Creates[i]
    PROVE  FALSE
<1>1. Height[b] \in Nat /\ Height[b] \in 0 .. Height[b] /\ Chain[b][Height[b]] = b
  BY OwnHeight, Zenon
<1>2. Spends[i] \subseteq Coin /\ \A x \in Creates[i] : Parent[x] \in Spends[i]
  BY ItemAssumption, Zenon
<1> DEFINE Made(x) == \E h \in 0 .. Height[b] : x \in Adds(Chain[b][h])
           S == {x \in Spends[i] \cap Creates[i] : Made(x)}
<1>3. S = {}
  <2>1. SUFFICES ASSUME S # {} PROVE FALSE
    BY Zenon
  <2>2. PICK x \in S : Parent[x] \notin S
    BY <1>2, <2>1, CoinAssumption, Zenon
  <2>3. PICK h \in 0 .. Height[b] : x \in Adds(Chain[b][h])
    BY <2>2, Zenon
  <2>4. Chain[b][h] \in Block
    BY <2>3, TreeAssumption, Zenon
  <2>5. Parent[x] \in Spends[i] /\ Parent[x] # NoCoin
    BY <1>2, <2>2, CoinOf, Zenon
  <2>6. Parent[x] \in Removals[Chain[b][h]]
    BY <2>3, <2>4, <2>5, ParentOf, Zenon
  <2>7. Parent[x] \notin UnspentOf(b)
    BY <2>3, <2>6, Zenon DEF UnspentOf
  <2>8. Parent[x] \in Creates[i]
    BY <2>5, <2>7, Zenon
  <2>9. PICK k \in 0 .. h : Parent[x] \in Adds(Chain[b][k])
    BY <2>3, <2>6, Zenon DEF SpendsAreSound
  <2>10. Made(Parent[x])
    BY <1>1, <2>3, <2>9, LowerHeight, Zenon
  <2> QED BY <2>2, <2>5, <2>8, <2>10, Zenon
<1>4. CASE c \in Removals[b]
  <2>1. c \notin UnspentOf(b)
    BY <1>1, <1>4, Zenon DEF UnspentOf
  <2>2. Made(c)
    BY <1>1, <1>4, Zenon DEF SpendsAreSound
  <2> QED BY <1>3, <2>1, <2>2, Zenon
<1>5. CASE c \in Adds(b)
  <2>1. Made(c)
    BY <1>1, <1>5, Zenon
  <2>2. c \notin Creates[i]
    BY <1>3, <2>1, Zenon
  <2>3. c \in UnspentOf(m)
    BY <2>2, Zenon DEF ItemOk
  <2>4. PICK h \in 0 .. Height[m] : c \in Adds(Chain[m][h])
    BY <2>3, Zenon DEF UnspentOf
  <2>5. h \in 0 .. Height[b] - 1 /\ c \in Adds(Chain[b][h])
    BY <1>1, <2>4
  <2> QED BY <1>5, <2>5, CreatedOnce, Zenon
<1> QED BY <1>4, <1>5, Zenon

\* While new_peak goes through old_pool: its items are those of a pool, those still to come
\* are not in the new pool, and of those that were tried the valid ones are.
RebuildOk ==
    /\ mempoolPeak = peak /\ peak \in Block /\ IsTx[peak]
    /\ {"stage", "was", "old"} \subseteq DOMAIN job
    /\ job.was \subseteq Item /\ IsFiniteSet(job.was) /\ Total(Cost, job.was) <= MaxTotalCost
    /\ \A i, j \in job.was : i # j => Spends[i] \cap Spends[j] = {}
    /\ job.old \subseteq job.was /\ pool.spends \subseteq job.was \ job.old
    /\ \A i \in job.was \ job.old : SpendableAtPeak(i) => i \in pool.spends

\* Inside a batch that began when the mempool knew the chain: what is reported so far are
\* coins of blocks between the mempool's peak and that of the chain, and once the peak has
\* moved it is the last block of the batch.
BatchOk ==
    /\ {"stage", "last", "advanced", "changes"} \subseteq DOMAIN job
    /\ ~ job.advanced => mempoolPeak = LastTx(peak) /\ job.changes = {}
    /\ job.advanced => /\ job.last = peak /\ Weight[mempoolPeak] < Weight[peak]
                       /\ Between(job.changes, mempoolPeak, peak)

KeepInv ==
    /\ peak # NoBlock => SpendsAreSound(peak)
    /\ told => syncing = "no"
    /\ job.stage = "rebuild" => RebuildOk
    /\ told /\ job.stage = "batch" /\ mempoolPeak # NoBlock => BatchOk

\* The optimised path of new_peak keeps every item that is valid on the new peak.
LEMMA NewPeakKeeps ==
    ASSUME NEW b \in Block, peak' = b, coins' = UnspentOf(b), SpendsAreSound(b),
           NEW changes, NEW by, new_peak(b, changes, by), pool.spends \subseteq Item,
           mempoolPeak \in Block \cup {NoBlock},
           mempoolPeak # NoBlock => /\ \A i \in pool.spends : ItemOk(i, mempoolPeak)
                                    /\ Between(changes, mempoolPeak, b)
    PROVE  RebuildKeepsValid
<1>1. SUFFICES ASSUME job'.stage = "drain", NEW i \in job'.was, SpendableAtPeak(i)', i \notin pool'.spends
               PROVE  FALSE
  BY Zenon DEF RebuildKeepsValid
<1>2. /\ IsTx[b] /\ use_optimization(b) /\ pool' = PoolOf(Untouched(changes))
      /\ job' = [FreeLock EXCEPT !.stage = "drain", !.by = by, !.was = pool.spends, !.retry = potential.txs]
  <2>1. FreeLock.stage # "drain"
    BY Zenon DEF FreeLock
  <2>2. ASSUME job' = [FreeLock EXCEPT !.stage = "rebuild", !.by = by, !.was = pool.spends, !.old = pool.spends]
        PROVE  FALSE
    BY <1>1, <2>2 DEF FreeLock
  <2> QED BY <1>1, <2>1, <2>2 DEF new_peak
<1>3. job'.was = pool.spends
  BY <1>2 DEF FreeLock
<1>4. pool'.spends = {j \in pool.spends : Spends[j] \cap changes = {}}
  BY <1>2 DEF PoolOf, Untouched
<1>5. PICK c \in Spends[i] : c \in changes
  BY <1>1, <1>3, <1>4, Zenon
<1>6. mempoolPeak \in Block /\ PrevTx(b) = mempoolPeak
  BY <1>2 DEF use_optimization
<1>7. i \in Item /\ ItemOk(i, mempoolPeak) /\ Between(changes, mempoolPeak, b)
  BY <1>1, <1>3, <1>6, TreeAssumption, Zenon
<1>8. \A x \in Spends[i] : x \in UnspentOf(b) \/ x \in Creates[i]
  BY <1>1, Zenon DEF SpendableAtPeak
<1>9. PICK m \in Block : m = mempoolPeak
  BY <1>6, Zenon
<1>10. /\ c \in Adds(b) \cup Removals[b] /\ Height[m] \in 0 .. Height[b] - 1
       /\ \A k \in 0 .. Height[m] : Chain[m][k] = Chain[b][k]
  BY <1>5, <1>6, <1>7, <1>9, ReportedOfNext, Zenon
<1> QED BY <1>5, <1>7, <1>8, <1>9, <1>10, ReportedIsGone, Zenon

\* The other path starts with all of old_pool to be tried.
LEMMA RebuildStarts ==
    ASSUME MemInv, NEW b \in Block, peak' = b, NEW changes, NEW by, new_peak(b, changes, by), job'.stage = "rebuild"
    PROVE  RebuildOk'
<1>1. /\ IsTx[b] /\ mempoolPeak' = b /\ pool' = EmptyPool
      /\ job' = [FreeLock EXCEPT !.stage = "rebuild", !.by = by, !.was = pool.spends, !.old = pool.spends]
  <2>1. FreeLock.stage # "rebuild"
    BY Zenon DEF FreeLock
  <2>2. ASSUME job' = [FreeLock EXCEPT !.stage = "drain", !.by = by, !.was = pool.spends, !.retry = potential.txs]
        PROVE  FALSE
    BY <2>2 DEF FreeLock
  <2> QED BY <2>1, <2>2 DEF new_peak
<1>2. job'.was = pool.spends /\ job'.old = pool.spends /\ {"stage", "was", "old"} \subseteq DOMAIN job'
  BY <1>1 DEF FreeLock
<1>3. /\ pool.spends \subseteq Item /\ IsFiniteSet(pool.spends) /\ Total(Cost, pool.spends) <= MaxTotalCost
      /\ IndexOk(pool)
  BY Zenon DEF MemInv, Containers, PoolOk
<1>4. \A i, j \in pool.spends : i # j => Spends[i] \cap Spends[j] = {}
  <2>1. \A i \in pool.spends : Spends[i] \subseteq Coin
    BY <1>3, ItemAssumption, Zenon
  <2> QED BY <1>3, <2>1 DEF IndexOk
<1>5. pool'.spends = {}
  BY <1>1 DEF EmptyPool
<1> QED BY <1>1, <1>2, <1>3, <1>4, <1>5 DEF RebuildOk

\* The items of old_pool are no more than fits, so that one that is tried again is put
\* aside for none and puts none aside.
LEMMA RebuildFits ==
    ASSUME MemInv, RebuildOk, NEW i \in job.old
    PROVE  /\ i \in Item /\ i \notin pool.spends /\ Conflicting(i) = {}
           /\ ~ at_full_capacity(pool, Cost[i])
           /\ \A E \in Evictions(remove_from_pool(pool, Conflicting(i)), Cost[i]) :
                 add_to_pool(remove_from_pool(pool, Conflicting(i)), i, E).spends = pool.spends \cup {i}
<1>1. PoolOk(pool) /\ pool.spends \subseteq Item /\ IsFiniteSet(pool.spends) /\ pool.cost = Total(Cost, pool.spends)
  BY Zenon DEF MemInv, Containers, PoolOk
<1>2. i \in Item /\ i \in job.was /\ i \notin pool.spends
  BY Zenon DEF RebuildOk
<1>3. Conflicting(i) = {}
  <2>1. \A j \in pool.spends : Spends[j] \cap Spends[i] = {}
    BY <1>2, Zenon DEF RebuildOk
  <2>2. Conflicting(i) = {j \in pool.spends : Spends[j] \cap Spends[i] # {}}
    BY <1>1, <1>2, ConflictingIs, Zenon
  <2> QED BY <2>1, <2>2, Zenon
<1>4. Cost[i] \in Nat /\ MaxTotalCost \in Nat
  BY <1>2, ItemAssumption, Zenon
<1>5. Total(Cost, pool.spends) + Cost[i] <= MaxTotalCost /\ Total(Cost, pool.spends) \in Nat
  <2>1. PICK S \in SUBSET Item : S = job.was /\ IsFiniteSet(S) /\ Total(Cost, S) <= MaxTotalCost /\ pool.spends \cup {i} \subseteq S
    BY Zenon DEF RebuildOk
  <2>2. /\ Total(Cost, pool.spends \cup {i}) \in Nat /\ Total(Cost, S \ (pool.spends \cup {i})) \in Nat
        /\ Total(Cost, S) = Total(Cost, pool.spends \cup {i}) + Total(Cost, S \ (pool.spends \cup {i}))
    BY <2>1, CostPart, Zenon
  <2>3. \A x \in pool.spends : Cost[x] \in Nat
    BY <1>1, ItemAssumption, Zenon
  <2>4. Total(Cost, pool.spends) \in Nat /\ Total(Cost, pool.spends \cup {i}) = Cost[i] + Total(Cost, pool.spends)
    BY <1>1, <1>2, <1>4, <2>3, TotalAdd, Zenon
  <2> QED BY <1>4, <2>1, <2>2, <2>4
<1>6. ~ at_full_capacity(pool, Cost[i])
  BY <1>1, <1>4, <1>5 DEF at_full_capacity
<1>7. ASSUME NEW E \in Evictions(remove_from_pool(pool, Conflicting(i)), Cost[i])
      PROVE  add_to_pool(remove_from_pool(pool, Conflicting(i)), i, E).spends = pool.spends \cup {i}
  <2>1. PICK p : p = remove_from_pool(pool, Conflicting(i))
    BY Zenon
  <2>2. PoolOk(p) /\ p.spends = pool.spends
    <3>1. PICK S \in SUBSET pool.spends : S = Conflicting(i) /\ S = {}
      BY <1>3, Zenon
    <3>2. PoolOk(remove_from_pool(pool, S)) /\ remove_from_pool(pool, S).spends = pool.spends \ S
      BY <1>1, RemovedOk, Zenon
    <3> QED BY <2>1, <3>1, <3>2, Zenon
  <2>3. E \in SUBSET p.spends
    BY <2>1, Zenon DEF Evictions
  <2>4. E = {}
    <3>1. SUFFICES ASSUME E # {} PROVE FALSE
      BY Zenon
    <3>2. PICK last \in E : at_full_capacity(remove_from_pool(p, E \ {last}), Cost[i])
      BY <2>1, <3>1, Zenon DEF Evictions
    <3>3. PICK R \in SUBSET p.spends : R = E \ {last}
      BY <2>3, Zenon
    <3>4. remove_from_pool(p, R).cost = Total(Cost, p.spends \ R)
      BY <2>2, RemovedOk, Zenon
    <3>5. Total(Cost, pool.spends) = Total(Cost, R) + Total(Cost, pool.spends \ R)
          /\ Total(Cost, R) \in Nat /\ Total(Cost, pool.spends \ R) \in Nat
      BY <1>1, <2>2, CostPart, Zenon
    <3>6. Total(Cost, pool.spends \ R) + Cost[i] > MaxTotalCost
      BY <2>2, <3>2, <3>3, <3>4, Zenon DEF at_full_capacity
    <3> QED BY <1>4, <1>5, <3>5, <3>6
  <2>5. add_to_pool(p, i, E).spends = (p.spends \ E) \cup {i}
    BY Zenon DEF add_to_pool, remove_from_pool
  <2> QED BY <2>1, <2>2, <2>4, <2>5, Zenon
<1> QED BY <1>2, <1>3, <1>6, <1>7, Zenon

\* One item of old_pool is tried: if it is valid it is in the new pool.
LEMMA RebuildOne ==
    ASSUME MemInv, Peaks, job.stage = "rebuild", RebuildOk, NEW i, Rebuild(i)
    PROVE  RebuildOk' /\ job'.stage = "rebuild"
<1>1. /\ i \in job.old /\ add_spendbundle(i) /\ job' = [job EXCEPT !.old = @ \ {i}]
      /\ UNCHANGED <<peak, coins, mempoolPeak>>
  BY DEF Rebuild, ledger
<1>2. /\ i \in Item /\ i \notin pool.spends /\ Conflicting(i) = {}
      /\ ~ at_full_capacity(pool, Cost[i])
      /\ \A E \in Evictions(remove_from_pool(pool, Conflicting(i)), Cost[i]) :
            add_to_pool(remove_from_pool(pool, Conflicting(i)), i, E).spends = pool.spends \cup {i}
  BY <1>1, RebuildFits
<1>3. {"stage", "was", "old"} \subseteq DOMAIN job
  BY Zenon DEF RebuildOk
<1>4. job'.stage = "rebuild" /\ job'.was = job.was /\ job'.old = job.old \ {i} /\ {"stage", "was", "old"} \subseteq DOMAIN job'
  BY <1>1, <1>3
<1>5. SpendableAtPeak(i) => Accepts(i)
  <2>1. SUFFICES ASSUME SpendableAtPeak(i) PROVE Accepts(i)
    OBVIOUS
  <2>2. peak \in Block /\ IsTx[peak] /\ mempoolPeak = peak /\ peak # NoBlock /\ coins = UnspentOf(peak)
    BY TreeAssumption, Zenon DEF RebuildOk, Peaks
  <2>3. LastTx(peak) = mempoolPeak
    BY <2>2, LastTxOfTx
  <2>4. HeightOk(i) /\ SecondsOk(i)
    BY <2>1, <2>3, Zenon DEF SpendableAtPeak, HeightOk, SecondsOk
  <2>5. \A c \in Spends[i] : c \in coins \/ c \in Creates[i]
    BY <2>1 DEF SpendableAtPeak
  <2>6. \A c \in coins : HasRecord(c) /\ ~ IsSpent(c)
    BY <2>2 DEF UnspentOf, HasRecord, IsSpent
  <2>7. Admissible(i)
    BY <1>2, <2>2, <2>5, <2>6, Zenon DEF Admissible
  <2> QED BY <1>2, <2>4, <2>7, Zenon DEF Accepts
<1>6. pool'.spends = IF Accepts(i) THEN pool.spends \cup {i} ELSE pool.spends
  <2>1. ~ Accepts(i) => pool' = pool
    BY <1>1 DEF add_spendbundle
  <2>2. Accepts(i) => ~ Pends(i)
    BY <1>2, Zenon DEF Accepts, Pends
  <2>3. ASSUME Accepts(i) PROVE pool'.spends = pool.spends \cup {i}
    <3>1. PICK E \in Evictions(remove_from_pool(pool, Conflicting(i)), Cost[i]) :
            pool' = add_to_pool(remove_from_pool(pool, Conflicting(i)), i, E)
      BY <1>1, <2>2, <2>3 DEF add_spendbundle
    <3> QED BY <1>2, <3>1
  <2> QED BY <2>1, <2>3
<1>7. \A j \in job.was : SpendableAtPeak(j)' <=> SpendableAtPeak(j)
  BY <1>1 DEF SpendableAtPeak
<1>8. pool'.spends \subseteq job'.was \ job'.old
  BY <1>1, <1>4, <1>6 DEF RebuildOk
<1>9. \A j \in job'.was \ job'.old : SpendableAtPeak(j)' => j \in pool'.spends
  BY <1>1, <1>4, <1>5, <1>6, <1>7 DEF RebuildOk
<1>10. /\ mempoolPeak' = peak' /\ peak' \in Block /\ IsTx[peak']
       /\ job'.was \subseteq Item /\ IsFiniteSet(job'.was) /\ Total(Cost, job'.was) <= MaxTotalCost
       /\ \A k, j \in job'.was : k # j => Spends[k] \cap Spends[j] = {}
       /\ job'.old \subseteq job'.was
  BY <1>1, <1>4 DEF RebuildOk
<1> QED BY <1>4, <1>8, <1>9, <1>10, Zenon DEF RebuildOk

\* A block of a batch: if the peak moves it is on top of the batch, and the coins reported
\* stay those between the two chains.
LEMMA BatchOne ==
    ASSUME Peaks, mempoolPeak # NoBlock, job.stage = "batch", BatchOk, NEW b \in Block, BatchBlock(b)
    PROVE  BatchOk'
<1>1. /\ receive_block(b) /\ (job.last # NoBlock => Prev(b) = job.last) /\ UNCHANGED mempoolPeak
      /\ job' = [job EXCEPT !.last = b, !.advanced = @ \/ peak' # peak,
                            !.changes = IF peak' # peak THEN @ \cup CoinChanges(b) ELSE @]
  BY DEF BatchBlock, mempool
<1>2. /\ {"stage", "last", "advanced", "changes"} \subseteq DOMAIN job' /\ job'.last = b
      /\ job'.advanced <=> job.advanced \/ peak' # peak
      /\ job'.changes = IF peak' # peak THEN job.changes \cup CoinChanges(b) ELSE job.changes
  <2>1. PICK a, n : a = (job.advanced \/ peak' # peak)
                    /\ n = IF peak' # peak THEN job.changes \cup CoinChanges(b) ELSE job.changes
    BY Zenon
  <2>2. job' = [job EXCEPT !.last = b, !.advanced = a, !.changes = n]
    BY <1>1, <2>1
  <2>3. {"stage", "last", "advanced", "changes"} \subseteq DOMAIN job
    BY DEF BatchOk
  <2>4. {"stage", "last", "advanced", "changes"} \subseteq DOMAIN job' /\ job'.last = b /\ job'.advanced = a /\ job'.changes = n
    BY <2>2, <2>3
  <2> QED BY <2>1, <2>4, Zenon
<1>3. PICK p \in Block, m \in Block : p = peak /\ m = mempoolPeak /\ p # NoBlock /\ m # NoBlock
  BY DEF Peaks
<1>4. Weight \in [Block -> Nat]
  BY WeightAssumption
<1>5. ASSUME job.advanced PROVE Prev(b) = p /\ Weight[p] < Weight[b] /\ Height[b] > 0
  <2>1. Prev(b) = p
    BY <1>1, <1>3, <1>5 DEF BatchOk
  <2>2. Height[b] # 0 /\ p = Chain[b][Height[b] - 1] /\ Height[b] \in Nat
    BY <1>3, <2>1, TreeAssumption DEF Prev, Heights
  <2>3. Height[b] - 1 \in 0 .. Height[b] /\ Height[b] - 1 < Height[b]
    BY <2>2
  <2> QED BY <2>1, <2>2, <2>3, WeightAssumption
<1>6. CASE peak' = peak
  <2>1. ~ job.advanced
    <3>1. SUFFICES ASSUME job.advanced PROVE FALSE
      OBVIOUS
    <3>2. Wins(b) /\ b # p
      BY <1>3, <1>4, <1>5, <3>1 DEF Wins
    <3> QED BY <1>1, <1>3, <1>6, <3>2 DEF receive_block, Follow, Remember
  <2> QED BY <1>1, <1>2, <1>6, <2>1 DEF BatchOk
<1>7. CASE peak' # peak
  <2>1. peak' = b /\ Weight[b] > Weight[p]
    BY <1>1, <1>3, <1>7 DEF receive_block, Follow, Remember, Wins
  <2>2. CASE job.advanced
    <3>1. Weight[m] < Weight[b]
      BY <1>3, <1>4, <2>1, <2>2 DEF BatchOk
    <3>2. PICK ch : ch = job.changes
      OBVIOUS
    <3>3. Between(ch, m, peak)
      BY <1>3, <2>2, <3>2 DEF BatchOk
    <3>4. Between(ch \cup CoinChanges(b), m, b)
      BY <1>3, <1>5, <2>2, <3>1, <3>3, ExtendBetween
    <3> QED BY <1>1, <1>2, <1>3, <1>7, <2>1, <3>1, <3>2, <3>4 DEF BatchOk
  <2>3. CASE ~ job.advanced
    <3>1. m = LastTx(p) /\ job.changes = {}
      BY <1>3, <2>3 DEF BatchOk
    <3>2. Height[m] \in 0 .. Height[p] /\ Chain[p][Height[m]] = m /\ Height[p] \in Nat
      BY <1>3, <3>1, LastTxIs, TreeAssumption DEF Heights
    <3>3. Weight[m] <= Weight[p]
      <4>1. CASE Height[m] = Height[p]
        <5>1. m = p
          BY <3>2, <4>1, TreeAssumption
        <5> QED BY <1>4, <5>1
      <4>2. CASE Height[m] < Height[p]
        BY <1>4, <3>2, <4>2, WeightAssumption
      <4> QED BY <3>2, <4>1, <4>2
    <3>4. Weight[m] < Weight[b]
      BY <1>4, <2>1, <3>3
    <3>5. Between(CoinChanges(b), m, b)
      BY <1>3, <3>1, MoveBetween
    <3>6. job'.changes = CoinChanges(b)
      BY <1>2, <1>7, <3>1
    <3> QED BY <1>1, <1>2, <1>3, <1>7, <2>1, <3>4, <3>5, <3>6 DEF BatchOk
  <2> QED BY <2>2, <2>3
<1> QED BY <1>6, <1>7

\* The whole step.
LEMMA KeepStep ==
    ASSUME MemInv, ToldInv, KeepInv, [NextTold]_<<vars, told>>
    PROVE  KeepInv' /\ (told => RebuildKeepsValid)
<1>1. /\ Peaks /\ (told => Valid) /\ pool.spends \subseteq Item
      /\ FreeLock.stage = "free"
  BY Zenon DEF ToldInv, MemInv, Containers, PoolOk, FreeLock
<1>2. ASSUME UNCHANGED <<peak, coins, pool, mempoolPeak, job>>, told' => told /\ syncing' = syncing
      PROVE  KeepInv' /\ RebuildKeepsValid
  BY <1>2, Zenon DEF KeepInv, RebuildOk, BatchOk, SpendableAtPeak, RebuildKeepsValid
<1>3. ASSUME peak' = peak, told' => told /\ syncing' = syncing, job'.stage \notin {"rebuild", "batch"},
             job'.stage = "drain" => job.stage = "drain"
      PROVE  KeepInv' /\ RebuildKeepsValid
  BY <1>3, Zenon DEF KeepInv, RebuildKeepsValid
<1>4. ASSUME NEW b \in Block, receive_block(b)
      PROVE  /\ peak' # NoBlock => SpendsAreSound(peak')
             /\ (peak' = b /\ coins' = UnspentOf(b)) \/ (peak' = peak /\ coins' = coins)
  BY <1>4 DEF receive_block, Follow, Remember, Acceptable, KeepInv
<1>5. ASSUME NEW b \in Block, peak' = b, coins' = UnspentOf(b), SpendsAreSound(b), NEW changes, NEW by, new_peak(b, changes, by),
             told' => told /\ syncing' = "no"
      PROVE  KeepInv'
  <2>1. mempoolPeak \in Block \cup {NoBlock} /\ (mempoolPeak = NoBlock => pool.spends = {})
    BY <1>1 DEF Peaks
  <2>2. job'.stage # "batch"
    BY <1>5, <2>1, NewPeakValid, Zenon
  <2>3. job'.stage = "rebuild" => RebuildOk'
    BY <1>5, RebuildStarts
  <2> QED BY <1>5, <2>2, <2>3 DEF KeepInv
<1>6. ASSUME told' => told, JobStep PROVE KeepInv' /\ RebuildKeepsValid
  <2>1. ASSUME NEW i \in Item, Rebuild(i) PROVE KeepInv' /\ RebuildKeepsValid
    <3>1. job.stage = "rebuild" /\ peak' = peak /\ syncing' = syncing
      BY <2>1 DEF Rebuild, ledger
    <3>2. RebuildOk' /\ job'.stage = "rebuild"
      BY <1>1, <2>1, <3>1, RebuildOne DEF KeepInv
    <3> QED BY <1>6, <3>1, <3>2 DEF KeepInv, RebuildKeepsValid
  <2>2. ASSUME StartDrain PROVE KeepInv' /\ RebuildKeepsValid
    <3>1. /\ job' = [job EXCEPT !.stage = "drain", !.retry = potential.txs] /\ job.stage = "rebuild" /\ job.old = {}
          /\ UNCHANGED <<peak, coins, pool, mempoolPeak, syncing>>
      BY <2>2 DEF StartDrain, ledger
    <3>2. RebuildOk
      BY <3>1 DEF KeepInv
    <3>3. job'.stage = "drain" /\ job'.was = job.was
      BY <3>1, <3>2 DEF RebuildOk
    <3>4. \A i : SpendableAtPeak(i)' <=> SpendableAtPeak(i)
      BY <3>1 DEF SpendableAtPeak
    <3>5. RebuildKeepsValid
      BY <3>1, <3>2, <3>3, <3>4 DEF RebuildKeepsValid, RebuildOk
    <3> QED BY <1>6, <3>1, <3>3, <3>5 DEF KeepInv
  <2>3. ASSUME Retry PROVE KeepInv' /\ RebuildKeepsValid
    <3>1. PICK t, a : job' = [job EXCEPT !.retry = t, !.added = a]
      BY <2>3, Zenon DEF Retry
    <3>2. job'.stage = "drain" /\ job.stage = "drain" /\ peak' = peak /\ syncing' = syncing
      BY <1>1, <2>3, <3>1 DEF Retry, ledger, Peaks, Shape
    <3> QED BY <1>3, <1>6, <3>2
  <2>4. ASSUME EndNewPeak PROVE KeepInv' /\ RebuildKeepsValid
    <3>1. job' = [job EXCEPT !.stage = "announce"] /\ peak' = peak /\ syncing' = syncing
      BY <2>4 DEF EndNewPeak, ledger
    <3>2. job'.stage = "announce"
      BY <1>1, <3>1 DEF Peaks, Shape
    <3> QED BY <1>3, <1>6, <3>1, <3>2
  <2>5. ASSUME peak_post_processing_2 PROVE KeepInv' /\ RebuildKeepsValid
    BY <1>1, <1>3, <1>6, <2>5 DEF peak_post_processing_2, ledger
  <2> QED BY <1>6, <2>1, <2>2, <2>3, <2>4, <2>5 DEF JobStep
<1>7. ASSUME told' => told, Cancel \/ FailBatch PROVE KeepInv' /\ RebuildKeepsValid
  BY <1>1, <1>3, <1>7 DEF Cancel, FailBatch, ledger
<1>8. ASSUME told' => told, Transactions PROVE KeepInv' /\ RebuildKeepsValid
  <2>1. PICK i \in Item : BeginTransaction(i) \/ FailTransaction(i) \/ EndTransaction(i)
    BY <1>8 DEF Transactions
  <2>2. CASE BeginTransaction(i) \/ FailTransaction(i)
    BY <1>2, <1>8, <2>2 DEF BeginTransaction, FailTransaction, ledger
  <2>3. CASE EndTransaction(i)
    BY <1>3, <1>8, <2>3 DEF EndTransaction, ledger
  <2> QED BY <2>1, <2>2, <2>3
<1>9. ASSUME told' => told, NEW b \in Block, respond_block(b) PROVE KeepInv' /\ (told => RebuildKeepsValid)
  <2>1. receive_block(b) /\ syncing' = syncing /\ job.stage = "free"
    BY <1>9 DEF respond_block
  <2>2. CASE peak' = peak
    <3>1. job' = job
      BY <1>9, <2>2 DEF respond_block
    <3> QED BY <1>3, <1>9, <2>1, <2>2, <3>1
  <2>3. CASE peak' # peak
    <3>1. peak' = b /\ coins' = UnspentOf(b) /\ SpendsAreSound(b) /\ b # NoBlock
      BY <1>4, <2>1, <2>3, TreeAssumption
    <3>2. PICK changes : changes = CoinChanges(b) /\ new_peak(b, changes, "block")
      BY <1>9, <2>3 DEF respond_block
    <3>3. KeepInv'
      BY <1>5, <1>9, <2>1, <3>1, <3>2 DEF KeepInv
    <3>4. told => (mempoolPeak # NoBlock => (\A i \in pool.spends : ItemOk(i, mempoolPeak)) /\ Between(changes, mempoolPeak, b))
      BY <1>1, <2>1, <3>2, FreeCoins, MoveBetween, Zenon DEF Valid
    <3>5. mempoolPeak \in Block \cup {NoBlock}
      BY <1>1 DEF Peaks
    <3>6. told => RebuildKeepsValid
      BY <1>1, <3>1, <3>2, <3>4, <3>5, NewPeakKeeps, Zenon
    <3> QED BY <3>3, <3>6
  <2> QED BY <2>2, <2>3
<1>10. ASSUME told' => told, BeginBatch PROVE KeepInv' /\ RebuildKeepsValid
  <2>1. job' = [FreeLock EXCEPT !.stage = "batch"] /\ UNCHANGED <<peak, mempoolPeak, syncing>> /\ job.stage = "free"
    BY <1>10 DEF BeginBatch, ledger, mempool
  <2>2. /\ job'.stage = "batch" /\ job'.advanced = FALSE /\ job'.changes = {}
        /\ {"stage", "last", "advanced", "changes"} \subseteq DOMAIN job'
    BY <2>1 DEF FreeLock
  <2>3. told /\ mempoolPeak # NoBlock => mempoolPeak = LastTx(peak)
    BY <1>1, <2>1, FreeCoins DEF Valid
  <2>4. told' /\ mempoolPeak' # NoBlock => BatchOk'
    BY <1>10, <2>1, <2>2, <2>3 DEF BatchOk
  <2> QED BY <1>10, <2>1, <2>2, <2>4 DEF KeepInv, RebuildKeepsValid
<1>11. ASSUME told' => told, NEW b \in Block, BatchBlock(b) PROVE KeepInv' /\ RebuildKeepsValid
  <2>1. receive_block(b) /\ syncing' = syncing /\ job.stage = "batch" /\ mempoolPeak' = mempoolPeak
    BY <1>11 DEF BatchBlock, mempool
  <2>2. job'.stage = "batch"
    <3>1. PICK a, n : job' = [job EXCEPT !.last = b, !.advanced = a, !.changes = n]
      BY <1>11, Zenon DEF BatchBlock
    <3> QED BY <1>1, <2>1, <3>1 DEF Peaks, Shape
  <2>3. told' /\ mempoolPeak' # NoBlock => BatchOk'
    BY <1>1, <1>11, <2>1, BatchOne DEF KeepInv
  <2> QED BY <1>4, <1>11, <2>1, <2>2, <2>3 DEF KeepInv, RebuildKeepsValid
<1>12. ASSUME told' => told, EndBatch PROVE KeepInv' /\ (told => RebuildKeepsValid)
  <2>1. UNCHANGED <<peak, coins, syncing>> /\ job.stage = "batch"
    BY <1>12 DEF EndBatch, ledger
  <2>2. CASE job' = FreeLock /\ UNCHANGED mempool
    BY <1>1, <1>3, <1>12, <2>1, <2>2
  <2>3. CASE job.advanced /\ new_peak(peak, job.changes, "batch")
    <3>1. PICK b, changes : b \in Block /\ b = peak /\ changes = job.changes
      BY <1>1, <2>1, <2>3 DEF Peaks
    <3>2. peak' = b /\ coins' = UnspentOf(b) /\ SpendsAreSound(b) /\ new_peak(b, changes, "batch")
      BY <1>1, <2>1, <2>3, <3>1, TreeAssumption, Zenon DEF Peaks, KeepInv
    <3>3. KeepInv'
      BY <1>5, <1>12, <2>1, <3>1, <3>2 DEF KeepInv
    <3>4. told => (mempoolPeak # NoBlock => (\A i \in pool.spends : ItemOk(i, mempoolPeak)) /\ Between(changes, mempoolPeak, b))
      BY <1>1, <2>1, <2>3, <3>1, Zenon DEF Valid, KeepInv, BatchOk
    <3>5. mempoolPeak \in Block \cup {NoBlock}
      BY <1>1, Zenon DEF Peaks
    <3>6. told => RebuildKeepsValid
      BY <1>1, <3>1, <3>2, <3>4, <3>5, NewPeakKeeps, Zenon
    <3> QED BY <3>3, <3>6
  <2> QED BY <1>12, <2>2, <2>3 DEF EndBatch
<1>13. ASSUME ~ told', LongSync PROVE KeepInv' /\ (told => RebuildKeepsValid)
  <2>1. CASE BeginSync
    BY <1>2, <1>13, <2>1 DEF BeginSync, ledger, mempool
  <2>2. CASE LockSync
    <3>1. job'.stage = "sync"
      BY <2>2 DEF LockSync, FreeLock
    <3> QED BY <1>3, <1>13, <2>2, <3>1 DEF LockSync, ledger
  <2>3. CASE EndSync
    BY <1>1, <1>3, <1>13, <2>3 DEF EndSync, ledger
  <2>4. CASE FinishSync
    <3>1. UNCHANGED <<peak, coins>> /\ ~ told
      BY <2>4 DEF FinishSync, ledger, KeepInv
    <3>2. CASE UNCHANGED <<mempool, job>>
      BY <1>2, <1>13, <3>1, <3>2 DEF mempool
    <3>3. CASE peak # NoBlock /\ new_peak(peak, {}, "sync")
      <4>1. PICK b \in Block : b = peak
        BY <1>1, <3>3 DEF Peaks
      <4>2. peak' = b /\ coins' = UnspentOf(b) /\ SpendsAreSound(b) /\ new_peak(b, {}, "sync")
        BY <1>1, <3>1, <3>3, <4>1 DEF Peaks, KeepInv
      <4> QED BY <1>5, <1>13, <3>1, <4>2
    <3> QED BY <2>4, <3>2, <3>3 DEF FinishSync
  <2>5. ASSUME NEW b \in Block, SyncBlock(b) PROVE KeepInv' /\ RebuildKeepsValid
    <3>1. receive_block(b) /\ job' = job /\ job.stage = "sync"
      BY <2>5 DEF SyncBlock
    <3> QED BY <1>4, <1>13, <3>1 DEF KeepInv, RebuildKeepsValid
  <2> QED BY <1>13, <2>1, <2>2, <2>3, <2>4, <2>5 DEF LongSync
<1>14. CASE UNCHANGED <<vars, told>>
  BY <1>2, <1>14 DEF vars
<1>15. CASE (Next \/ Cancel) /\ told' = (told /\ UpToDate')
  <2>1. told' => told
    BY <1>15, Zenon
  <2> QED BY <1>6, <1>7, <1>8, <1>9, <1>10, <1>11, <1>12, <1>15, <2>1 DEF Next, Blocks
<1>16. CASE LongSync /\ told' = FALSE
  BY <1>13, <1>16
<1> QED BY <1>14, <1>15, <1>16, Zenon DEF NextTold

\* The chain the node starts with is sound.
LEMMA KeepStarts == Init => KeepInv
<1>1. SUFFICES ASSUME Init PROVE KeepInv
  OBVIOUS
<1>2. peak \in StartPeaks /\ job = FreeLock /\ syncing = "no"
  BY <1>1 DEF Init
<1>3. job.stage = "free"
  BY <1>2 DEF FreeLock
<1>4. peak # NoBlock => SpendsAreSound(peak)
  BY <1>2, ManagerAssumption
<1> QED BY <1>2, <1>3, <1>4 DEF KeepInv

\* An item leaves the pool for a reason only.  add_spendbundle throws out items that share a
\* coin with the newcomer, which pays all their fees and the minimum increase, or that pay
\* less per cost; and as long as new_peak was called for every transaction block, it drops
\* none, at once or item by item, that is valid on the new peak.
THEOREM Mempool_LeavesForCause == SpecTold => LeavesForCause
<1>1. [NextTold]_<<vars, told>> => [NextAll]_vars
  BY DEF NextTold, NextAll, vars
<1>2. Init => MemInv /\ KeepInv
  BY ManagerStarts, KeepStarts
<1>3. MemInv /\ [NextTold]_<<vars, told>> => MemInv' /\ EvictedPayLess /\ ReplacementPays
  BY <1>1, ManagerStep, ManagerImplies
<1>4. Init /\ told = TRUE => ToldInv
  BY ToldStarts DEF ToldInv
<1>5. MemInv /\ ToldInv /\ [NextTold]_<<vars, told>> => ToldInv'
  BY <1>3, ToldStep
<1>6. MemInv /\ ToldInv /\ KeepInv /\ [NextTold]_<<vars, told>> => KeepInv' /\ (told => RebuildKeepsValid)
  BY KeepStep
<1>7. /\ MemInv /\ ToldInv /\ KeepInv /\ [NextTold]_<<vars, told>>
      => [EvictedPayLess /\ ReplacementPays /\ (told => RebuildKeepsValid)]_vars
  BY <1>3, <1>6
<1> QED BY <1>2, <1>3, <1>4, <1>5, <1>6, <1>7, PTL DEF SpecTold, LeavesForCause
=============================================================================
