----------------------------- MODULE SyncProofs -----------------------------
(***************************************************************************)
(* How a node catches up: whatever its peers announce and send, and however *)
(* the short and long syncs overlap, the chain it builds has no gaps and its *)
(* flags and counters say what is going on.  The chain of a block is defined *)
(* by recursion in Sync; here it is shown to be the least set that has the *)
(* block and the parents of its members, from which its properties follow by *)
(* induction on the height.                                                *)
(***************************************************************************)
EXTENDS Sequences, FiniteFacts

\* The provers of a step that names none, and the seconds they may take.
USE ZenonT(2), SMTT(30)

CONSTANTS Block, NoBlock, Height, Weight, Prev, Starts, PeerBlock, Peer, MaxSession, Task, SyncTask, BACKTRACK, BEHIND, MAX_BLOCK_COUNT_PER_REQUESTS, WEIGHT_PROOF_RECENT_BLOCKS,
    short_sync_blocks_behind_threshold, sync_blocks_behind_threshold
VARIABLES known, peak, tip, has, connected, session, peak_to_peer, peer_to_peak, peers_changed,
    sync_target, sync_mode, long_sync, batch_syncing, backtrack_syncing, task, sync, lock

Y == INSTANCE Sync

TreeConstants ==
    /\ NoBlock \notin Block /\ Prev \in [Block -> Block \cup {NoBlock}]
    /\ Height \in [Block -> Nat] /\ Weight \in [Block -> Nat]
    /\ \A b \in Block : IF Prev[b] = NoBlock THEN Height[b] = 0
                        ELSE Height[b] = Height[Prev[b]] + 1 /\ Weight[Prev[b]] < Weight[b]

SyncConstants ==
    /\ TreeConstants
    /\ PeerBlock \subseteq Block /\ Starts \subseteq Block \cup {NoBlock}
    /\ IsFiniteSet(Task) /\ "free" \notin SyncTask
    /\ BEHIND \in Nat /\ MAX_BLOCK_COUNT_PER_REQUESTS \in Nat

\* What the chain of b is, without recursion: the least set that has b and the parent of
\* each of its members.
Closed(T) == \A x \in T : Prev[x] \in Block => Prev[x] \in T
Ancestors(b) == {x \in Block : \A T \in SUBSET Block : b \in T /\ Closed(T) => x \in T}

\* The equation of the recursive definition holds of the least set.
LEMMA AncestorsStep ==
    ASSUME TreeConstants, NEW b \in Block
    PROVE  Ancestors(b) = {b} \cup (IF Prev[b] = NoBlock THEN {} ELSE Ancestors(Prev[b]))
<1>1. b \in Ancestors(b) /\ (Prev[b] # NoBlock => Prev[b] \in Block)
  BY DEF Ancestors, TreeConstants
<1>2. CASE Prev[b] = NoBlock
  <2>1. {b} \in SUBSET Block /\ Closed({b})
    BY <1>2 DEF Closed, TreeConstants
  <2>2. \A x \in Ancestors(b) : x \in {b}
    BY <2>1 DEF Ancestors
  <2> QED BY <1>1, <1>2, <2>2
<1>3. CASE Prev[b] # NoBlock
  <2> DEFINE T == {b} \cup Ancestors(Prev[b])
  <2>1. Prev[b] \in Ancestors(Prev[b])
    BY <1>1, <1>3 DEF Ancestors
  <2>2. \A x \in Ancestors(Prev[b]) : Prev[x] \in Block => Prev[x] \in Ancestors(Prev[b])
    BY DEF Ancestors, Closed
  <2>3. T \in SUBSET Block /\ Closed(T) /\ b \in T
    BY <2>1, <2>2 DEF Closed, Ancestors
  <2>4. \A x \in Ancestors(b) : x \in T
    BY <2>3 DEF Ancestors
  <2>5. ASSUME NEW x \in Ancestors(Prev[b]) PROVE x \in Ancestors(b)
    <3>1. ASSUME NEW R \in SUBSET Block, b \in R, Closed(R) PROVE x \in R
      <4>1. Prev[b] \in R
        BY <1>1, <1>3, <3>1 DEF Closed
      <4> QED BY <4>1, <3>1 DEF Ancestors
    <3> QED BY <3>1 DEF Ancestors
  <2>6. \A x \in T : x \in Ancestors(b)
    BY <1>1, <2>5
  <2> QED BY <1>3, <2>4, <2>6
<1> QED BY <1>2, <1>3

\* So the recursive definition has a solution, and is what it says.
LEMMA ChainStep ==
    ASSUME TreeConstants, NEW b \in Block
    PROVE  Y!ChainOf[b] = {b} \cup (IF Prev[b] = NoBlock THEN {} ELSE Y!ChainOf[Prev[b]])
<1> DEFINE Solves(f) == f = [x \in Block |-> {x} \cup (IF Prev[x] = NoBlock THEN {} ELSE f[Prev[x]])]
           f0 == [x \in Block |-> Ancestors(x)]
<1>1. Solves(f0)
  <2>1. \A x \in Block : Prev[x] # NoBlock => f0[Prev[x]] = Ancestors(Prev[x])
    BY DEF TreeConstants
  <2>2. \A x \in Block : f0[x] = {x} \cup (IF Prev[x] = NoBlock THEN {} ELSE f0[Prev[x]])
    BY <2>1, AncestorsStep
  <2> HIDE DEF f0
  <2>3. f0 = [x \in Block |-> f0[x]]
    BY DEF f0
  <2>4. [x \in Block |-> f0[x]] = [x \in Block |-> {x} \cup (IF Prev[x] = NoBlock THEN {} ELSE f0[Prev[x]])]
    BY <2>2
  <2> QED BY <2>3, <2>4
<1>2. Y!ChainOf = CHOOSE f : Solves(f)
  BY DEF Y!ChainOf
<1> HIDE DEF f0, Solves
<1>3. Solves(Y!ChainOf)
  BY <1>1, <1>2
<1>4. Y!ChainOf = [x \in Block |-> {x} \cup (IF Prev[x] = NoBlock THEN {} ELSE Y!ChainOf[Prev[x]])]
  BY <1>3 DEF Solves
<1> HIDE DEF Y!ChainOf
<1> QED BY <1>4, Zenon

\* What holds of the chain of b: it is made of blocks of heights 0 to that of b, one of
\* each, ever lighter, and goes down to a genesis block.
ChainFacts(b) ==
    /\ b \in Y!ChainOf[b] /\ Y!ChainOf[b] \subseteq Block
    /\ \A x \in Y!ChainOf[b] : /\ Height[x] <= Height[b] /\ Weight[x] <= Weight[b]
                               /\ Prev[x] = NoBlock \/ Prev[x] \in Y!ChainOf[b]
                               /\ Y!ChainOf[x] \subseteq Y!ChainOf[b]
    /\ \A x, y \in Y!ChainOf[b] : Height[x] = Height[y] => x = y
    /\ \A h \in 0 .. Height[b] : \E x \in Y!ChainOf[b] : Height[x] = h

\* The facts of a chain follow from those of the chain of its parent.
LEMMA FactsStep ==
    ASSUME TreeConstants, NEW b \in Block, Prev[b] # NoBlock => ChainFacts(Prev[b])
    PROVE  ChainFacts(b)
<1>1. CASE Prev[b] = NoBlock
  <2>1. Y!ChainOf[b] = {b} /\ Height[b] = 0 /\ Weight[b] \in Nat
    BY <1>1, ChainStep DEF TreeConstants
  <2> QED BY <1>1, <2>1 DEF ChainFacts
<1>2. CASE Prev[b] # NoBlock
  <2> DEFINE q == Prev[b]
             C == Y!ChainOf[q]
             D == Y!ChainOf[b]
  <2>1. q \in Block /\ Height[b] = Height[q] + 1 /\ Weight[q] < Weight[b] /\ Height[q] \in Nat
    BY <1>2 DEF TreeConstants
  <2>2. D = {b} \cup C
    BY <1>2, ChainStep
  <2>3. ChainFacts(q)
    BY <1>2
  <2>4. C \subseteq Block /\ q \in C
    BY <2>3 DEF ChainFacts
  <2>5. \A x \in C : Height[x] \in Nat /\ Weight[x] \in Nat
    BY <2>4 DEF TreeConstants
  <2>5a. \A x \in C : Height[x] <= Height[q] /\ Weight[x] <= Weight[q]
    BY <2>3 DEF ChainFacts
  <2>6. Height[b] \in Nat /\ Weight[b] \in Nat /\ Weight[q] \in Nat
    BY <2>1 DEF TreeConstants
  <2> HIDE DEF C, D
  <2>7. \A x \in C : Height[x] < Height[b] /\ Weight[x] <= Weight[b]
    BY <2>1, <2>5, <2>5a, <2>6
  <2>8. \A x \in D : Height[x] <= Height[b] /\ Weight[x] <= Weight[b]
    BY <2>2, <2>5, <2>6, <2>7
  <2>9. \A x \in D : Prev[x] = NoBlock \/ Prev[x] \in D
    BY <2>2, <2>3, <2>4 DEF ChainFacts, C
  <2>10. \A x \in D : Y!ChainOf[x] \subseteq D
    <3>1. \A x \in C : Y!ChainOf[x] \subseteq C
      BY <2>3 DEF ChainFacts, C
    <3> QED BY <2>2, <3>1 DEF D
  <2>11. \A x, y \in C : Height[x] = Height[y] => x = y
    BY <2>3 DEF ChainFacts, C
  <2>12. \A x, y \in D : Height[x] = Height[y] => x = y
    BY <2>2, <2>5, <2>6, <2>7, <2>11
  <2>13. \A h \in 0 .. Height[q] : \E x \in C : Height[x] = h
    BY <2>3 DEF ChainFacts, C
  <2>14. \A h \in 0 .. Height[b] : \E x \in D : Height[x] = h
    BY <2>1, <2>2, <2>13
  <2>15. b \in D /\ D \subseteq Block
    BY <2>2, <2>4
  <2> QED BY <2>8, <2>9, <2>10, <2>12, <2>14, <2>15 DEF ChainFacts, D
<1> QED BY <1>1, <1>2

\* By induction on the height, as the absence of a lowest exception.
LEMMA ChainFactsHold == ASSUME TreeConstants PROVE \A b \in Block : ChainFacts(b)
<1> DEFINE T == {Height[b] : b \in {x \in Block : ~ ChainFacts(x)}}
<1>1. SUFFICES ASSUME T # {} PROVE FALSE
  OBVIOUS
<1>2. T \subseteq Nat
  BY DEF TreeConstants
<1> HIDE DEF T
<1>3. PICK m \in T : \A y \in T : m <= y
  BY <1>1, <1>2, LeastNatural, Zenon
<1>4. PICK b \in Block : ~ ChainFacts(b) /\ Height[b] = m
  BY <1>3 DEF T
<1>5. Prev[b] # NoBlock /\ ~ ChainFacts(Prev[b]) /\ Prev[b] \in Block
  BY <1>4, FactsStep DEF TreeConstants
<1>6. Height[b] = Height[Prev[b]] + 1 /\ Height[Prev[b]] \in Nat
  BY <1>5 DEF TreeConstants
<1>7. Height[Prev[b]] \in T
  BY <1>5 DEF T
<1> QED BY <1>3, <1>4, <1>6, <1>7

\* Of two blocks of a chain the lower is in the chain of the higher.
LEMMA ChainOfHigher ==
    ASSUME TreeConstants, NEW b \in Block, NEW x \in Y!ChainOf[b], NEW y \in Y!ChainOf[b], Height[x] <= Height[y]
    PROVE  x \in Y!ChainOf[y]
<1>1. ChainFacts(b) /\ y \in Block /\ x \in Block
  BY ChainFactsHold DEF ChainFacts
<1>2. ChainFacts(y) /\ Height[x] \in Nat /\ Height[y] \in Nat
  BY <1>1, ChainFactsHold DEF TreeConstants
<1>3. Height[x] \in 0 .. Height[y]
  BY <1>2
<1>4. PICK z \in Y!ChainOf[y] : Height[z] = Height[x]
  BY <1>2, <1>3 DEF ChainFacts
<1>5. z \in Y!ChainOf[b]
  BY <1>1, <1>4 DEF ChainFacts
<1>6. z = x
  BY <1>1, <1>4, <1>5 DEF ChainFacts
<1> QED BY <1>4, <1>6

\* The block of a chain at a height is its block at that height, and the parent of the next.
LEMMA AtIs ==
    ASSUME TreeConstants, NEW b \in Block, NEW h \in 0 .. Height[b]
    PROVE  /\ Y!At(b, h) \in Y!ChainOf[b] /\ Y!At(b, h) \in Block /\ Height[Y!At(b, h)] = h
           /\ h = 0 => Prev[Y!At(b, h)] = NoBlock
           /\ h > 0 => Prev[Y!At(b, h)] = Y!At(b, h - 1)
<1>1. ChainFacts(b) /\ Height[b] \in Nat
  BY ChainFactsHold DEF TreeConstants
<1>2. \A i \in 0 .. Height[b] : Y!At(b, i) \in Y!ChainOf[b] /\ Height[Y!At(b, i)] = i
  BY <1>1 DEF ChainFacts, Y!At
<1>3. PICK x : x = Y!At(b, h)
  OBVIOUS
<1>4. x \in Y!ChainOf[b] /\ Height[x] = h /\ x \in Block
  BY <1>1, <1>2, <1>3 DEF ChainFacts
<1>5. h = 0 => Prev[x] = NoBlock
  <2>1. Prev[x] # NoBlock => Height[x] = Height[Prev[x]] + 1 /\ Height[Prev[x]] \in Nat
    BY <1>4 DEF TreeConstants
  <2> QED BY <1>4, <2>1
<1>6. ASSUME h > 0 PROVE Prev[x] = Y!At(b, h - 1)
  <2>1. Prev[x] # NoBlock /\ Height[Prev[x]] = h - 1
    BY <1>4, <1>6 DEF TreeConstants
  <2>2. Prev[x] \in Y!ChainOf[b]
    BY <1>1, <1>4, <2>1 DEF ChainFacts
  <2>3. h - 1 \in 0 .. Height[b]
    BY <1>1, <1>6
  <2>4. PICK y : y = Y!At(b, h - 1)
    OBVIOUS
  <2>5. y \in Y!ChainOf[b] /\ Height[y] = h - 1
    BY <1>2, <2>3, <2>4
  <2> QED BY <1>1, <2>1, <2>2, <2>4, <2>5 DEF ChainFacts
<1> QED BY <1>3, <1>4, <1>5, <1>6

\* Blocks that are received together: each is the parent of the next.
Linked(s) ==
    /\ s \in Seq(Block) /\ Len(s) >= 1
    /\ \A k \in 1 .. Len(s) : s[k] \in Y!ChainOf[s[Len(s)]]
    /\ \A k \in 1 .. Len(s) : k > 1 => Prev[s[k]] = s[k - 1]

\* A block alone is linked.
LEMMA OneLinked == ASSUME TreeConstants, NEW b \in Block PROVE Linked(<<b>>)
<1>1. b \in Y!ChainOf[b]
  BY ChainFactsHold DEF ChainFacts
<1> QED BY <1>1 DEF Linked

\* A slice of a chain, as it is asked of a peer, is linked.
LEMMA SliceLinked ==
    ASSUME TreeConstants, NEW b \in Block, NEW i \in Nat, NEW j \in Nat, i <= j, j <= Height[b]
    PROVE  Linked(Y!Slice(b, i, j))
<1> DEFINE s == Y!Slice(b, i, j)
           n == j - i + 1
<1>1. n \in Nat /\ n >= 1 /\ Height[b] \in Nat
  BY DEF TreeConstants
<1>2. s = [k \in 1 .. n |-> Y!At(b, i + k - 1)]
  BY DEF Y!Slice
<1>3. \A k \in 1 .. n : i + k - 1 \in 0 .. Height[b] /\ i + k - 1 >= 0 /\ i + k - 1 <= j
  BY <1>1
<1>4. \A k \in 1 .. n : /\ s[k] \in Y!ChainOf[b] /\ s[k] \in Block /\ Height[s[k]] = i + k - 1
                        /\ i + k - 1 > 0 => Prev[s[k]] = Y!At(b, i + k - 1 - 1)
  BY <1>2, <1>3, AtIs
<1> HIDE DEF s, n
<1>4a. s \in [1 .. n -> Block]
  BY <1>2, <1>4
<1>5. s \in Seq(Block) /\ Len(s) = n
  BY <1>1, <1>4a
<1>6. ASSUME NEW k \in 1 .. n PROVE s[k] \in Y!ChainOf[s[n]]
  <2>1. n \in 1 .. n /\ Height[s[n]] = i + n - 1 /\ Height[s[k]] = i + k - 1
    BY <1>1, <1>4
  <2>2. Height[s[k]] <= Height[s[n]]
    BY <1>1, <2>1
  <2> QED BY <1>4, <2>1, <2>2, ChainOfHigher
<1>7. ASSUME NEW k \in 1 .. n, k > 1 PROVE Prev[s[k]] = s[k - 1]
  <2>1. k - 1 \in 1 .. n /\ i + k - 1 > 0 /\ i + (k - 1) - 1 = i + k - 1 - 1
    BY <1>1, <1>7
  <2>2. s[k - 1] = Y!At(b, i + (k - 1) - 1)
    BY <1>2, <2>1
  <2> QED BY <1>4, <2>1, <2>2
<1> QED BY <1>1, <1>5, <1>6, <1>7 DEF Linked, s

\* The chain is complete: no block without its parent, none heavier than the peak.
ChainOk(K, top) ==
    /\ K \subseteq Block /\ top \in Block \cup {NoBlock}
    /\ \A b \in K : Prev[b] = NoBlock \/ Prev[b] \in K
    /\ top = NoBlock => K = {}
    /\ \A b \in K : Weight[b] <= Weight[top]

\* Blocks that are known with their parents are known with their chains.
LEMMA ChainOfKnown ==
    ASSUME TreeConstants, NEW K \in SUBSET Block, \A b \in K : Prev[b] = NoBlock \/ Prev[b] \in K
    PROVE  \A b \in K : Y!ChainOf[b] \subseteq K
<1> DEFINE T == {Height[b] : b \in {x \in K : ~ (Y!ChainOf[x] \subseteq K)}}
<1>1. SUFFICES ASSUME T # {} PROVE FALSE
  OBVIOUS
<1>2. T \subseteq Nat
  BY DEF TreeConstants
<1> HIDE DEF T
<1>3. PICK m \in T : \A y \in T : m <= y
  BY <1>1, <1>2, LeastNatural, Zenon
<1>4. PICK b \in K : ~ (Y!ChainOf[b] \subseteq K) /\ Height[b] = m
  BY <1>3 DEF T
<1>5. Y!ChainOf[b] = {b} \cup (IF Prev[b] = NoBlock THEN {} ELSE Y!ChainOf[Prev[b]])
  BY ChainStep
<1>6. Prev[b] # NoBlock /\ Prev[b] \in K /\ ~ (Y!ChainOf[Prev[b]] \subseteq K)
  BY <1>4, <1>5
<1>7. Height[b] = Height[Prev[b]] + 1 /\ Height[Prev[b]] \in Nat
  BY <1>6 DEF TreeConstants
<1>8. Height[Prev[b]] \in T
  BY <1>6 DEF T
<1> QED BY <1>3, <1>4, <1>7, <1>8

\* Receiving linked blocks keeps the chain complete, and adds the first one if it connects.
LEMMA ReceiveKeeps ==
    ASSUME TreeConstants, ChainOk(known, peak), NEW s, Linked(s), Y!Receive(s)
    PROVE  /\ ChainOk(known', peak') /\ known \subseteq known'
           /\ Y!Connects(s[1]) => s[1] \in known'
<1> DEFINE last == s[Len(s)]
<1>1. CASE ~ Y!Connects(s[1])
  BY <1>1 DEF Y!Receive, Y!chain
<1>2. CASE Y!Connects(s[1])
  <2>1. /\ known' = known \cup Y!Range(s) /\ Y!Range(s) = {s[k] : k \in 1 .. Len(s)}
        /\ peak' = IF last \notin known /\ Y!Heavier(last) THEN last ELSE peak
    BY <1>2 DEF Y!Receive, Y!Range, Linked
  <2>2. Len(s) \in Nat /\ Len(s) \in 1 .. Len(s) /\ 1 \in 1 .. Len(s)
    BY DEF Linked
  <2>3. last \in Block /\ \A k \in 1 .. Len(s) : s[k] \in Block /\ s[k] \in Y!ChainOf[last]
    BY <2>2 DEF Linked
  <2>4. \A k \in 1 .. Len(s) : Weight[s[k]] <= Weight[last] /\ Weight[s[k]] \in Nat
    BY <2>3, ChainFactsHold, Zenon DEF ChainFacts, TreeConstants
  <2>5. \A b \in known : Weight[b] \in Nat /\ Weight[b] <= Weight[peak]
    BY DEF ChainOk, TreeConstants
  <2>6. peak # NoBlock => Weight[peak] \in Nat
    BY DEF ChainOk, TreeConstants
  <2>7. \A b \in known' : Prev[b] = NoBlock \/ Prev[b] \in known'
    <3>1. ASSUME NEW k \in 1 .. Len(s) PROVE Prev[s[k]] = NoBlock \/ Prev[s[k]] \in known'
      <4>1. CASE k = 1
        BY <1>2, <2>1, <4>1 DEF Y!Connects
      <4>2. CASE k > 1
        <5>1. Prev[s[k]] = s[k - 1] /\ k - 1 \in 1 .. Len(s)
          BY <4>2, <2>2 DEF Linked
        <5> QED BY <2>1, <5>1
      <4> QED BY <4>1, <4>2
    <3> QED BY <2>1, <3>1 DEF ChainOk
  <2>8. known' \subseteq Block /\ peak' \in Block \cup {NoBlock}
    BY <2>1, <2>3 DEF ChainOk
  <2>9. peak' # NoBlock
    BY <2>1, <2>3 DEF ChainOk, Y!Heavier, TreeConstants
  <2>10. \A b \in known' : Weight[b] <= Weight[peak']
    <3>1. CASE last \in known
      <4>1. Y!ChainOf[last] \subseteq known
        BY <3>1, ChainOfKnown DEF ChainOk
      <4> QED BY <2>1, <2>3, <2>5, <3>1, <4>1
    <3>2. CASE last \notin known /\ Y!Heavier(last)
      <4>1. peak' = last /\ Weight[last] \in Nat
        BY <2>1, <2>2, <2>4, <3>2
      <4>2. \A b \in known : Weight[b] <= Weight[last]
        BY <2>5, <2>6, <3>2, <4>1 DEF Y!Heavier, ChainOk
      <4> QED BY <2>1, <2>4, <4>1, <4>2
    <3>3. CASE last \notin known /\ ~ Y!Heavier(last)
      <4>1. peak' = peak /\ peak # NoBlock /\ Weight[last] <= Weight[peak] /\ Weight[last] \in Nat
        BY <2>1, <2>2, <2>4, <2>6, <3>3 DEF Y!Heavier
      <4>2. \A k \in 1 .. Len(s) : Weight[s[k]] <= Weight[peak]
        BY <2>4, <2>6, <4>1
      <4> QED BY <2>1, <2>5, <4>1, <4>2
    <3> QED BY <3>1, <3>2, <3>3
  <2> QED BY <2>1, <2>2, <2>7, <2>8, <2>9, <2>10 DEF ChainOk
<1> QED BY <1>1, <1>2

-----------------------------------------------------------------------------
\* The counters, as functions of what the handlers are doing.
IsBack(e) == e.pc \in {"backtrack", "apply"}
IsBatch(e) == e.pc \in {"first", "batch"}
BackFrom(k, p) == {t \in Task : IsBack(k[t]) /\ k[t].peer = p}

BackCounted(k, n) == n \in [Peer -> Int] /\ \A p \in Peer : n[p] = Cardinality(BackFrom(k, p))
BatchListed(k, B) ==
    /\ B = {k[t].peer : t \in {u \in Task : IsBatch(k[u])}}
    /\ \A t, u \in Task : IsBatch(k[t]) /\ IsBatch(k[u]) /\ k[t].peer = k[u].peer => t = u

\* Handler t goes on to e.
Turns(k, k2, t, e) == k2[t] = e /\ \A u \in Task \ {t} : k2[u] = k[u]

\* The backtracks from a peer can be counted.
LEMMA BackFinite ==
    ASSUME SyncConstants, NEW k, NEW p
    PROVE  IsFiniteSet(BackFrom(k, p)) /\ Cardinality(BackFrom(k, p)) \in Nat
<1>1. IsFiniteSet(Task) /\ BackFrom(k, p) \subseteq Task
  BY DEF SyncConstants, BackFrom
<1>2. IsFiniteSet(BackFrom(k, p))
  BY <1>1, FS_Subset
<1> QED BY <1>2, FS_CardinalityType

\* A step that neither begins nor ends a backtrack keeps the count,
LEMMA BackSame ==
    ASSUME NEW k, NEW k2, NEW t \in Task, NEW e, NEW n, BackCounted(k, n), Turns(k, k2, t, e),
           IsBack(k[t]) <=> IsBack(e), IsBack(e) => e.peer = k[t].peer
    PROVE  BackCounted(k2, n)
<1>1. \A p \in Peer : BackFrom(k2, p) = BackFrom(k, p)
  BY DEF BackFrom, Turns
<1> QED BY <1>1 DEF BackCounted

\* one that begins a backtrack adds one,
LEMMA BackMore ==
    ASSUME SyncConstants, NEW k, NEW k2, NEW t \in Task, NEW e, NEW n, BackCounted(k, n), Turns(k, k2, t, e),
           ~ IsBack(k[t]), IsBack(e), NEW p \in Peer, e.peer = p
    PROVE  BackCounted(k2, [n EXCEPT ![p] = @ + 1])
<1>1. t \notin BackFrom(k, p) /\ BackFrom(k2, p) = BackFrom(k, p) \cup {t}
  BY DEF BackFrom, Turns
<1>2. \A q \in Peer \ {p} : BackFrom(k2, q) = BackFrom(k, q)
  BY DEF BackFrom, Turns
<1>3. Cardinality(BackFrom(k2, p)) = Cardinality(BackFrom(k, p)) + 1
  BY <1>1, BackFinite, FS_AddElement, ZenonT(40)
<1> QED BY <1>2, <1>3 DEF BackCounted

\* and one that ends it takes one off.
LEMMA BackLess ==
    ASSUME SyncConstants, NEW k, NEW k2, NEW t \in Task, NEW e, NEW n, BackCounted(k, n), Turns(k, k2, t, e),
           IsBack(k[t]), ~ IsBack(e), NEW p \in Peer, k[t].peer = p
    PROVE  BackCounted(k2, [n EXCEPT ![p] = @ - 1])
<1>1. t \in BackFrom(k, p) /\ BackFrom(k2, p) = BackFrom(k, p) \ {t}
  BY DEF BackFrom, Turns
<1>2. \A q \in Peer \ {p} : BackFrom(k2, q) = BackFrom(k, q)
  BY DEF BackFrom, Turns
<1>3. Cardinality(BackFrom(k2, p)) = Cardinality(BackFrom(k, p)) - 1
  <2>1. IsFiniteSet(BackFrom(k, p))
    BY BackFinite
  <2> QED BY <1>1, <2>1, FS_RemoveElement, Zenon
<1> QED BY <1>2, <1>3 DEF BackCounted

\* The same for the peers that batches are fetched from: nothing begins or ends,
LEMMA BatchSame ==
    ASSUME NEW k, NEW k2, NEW t \in Task, NEW e, NEW B, BatchListed(k, B), Turns(k, k2, t, e),
           IsBatch(k[t]) <=> IsBatch(e), IsBatch(e) => e.peer = k[t].peer
    PROVE  BatchListed(k2, B)
<1>1. \A u \in Task : IsBatch(k2[u]) <=> IsBatch(k[u])
  BY DEF Turns
<1>2. \A u \in Task : IsBatch(k[u]) => k2[u].peer = k[u].peer
  BY DEF Turns
<1>3. {k2[u].peer : u \in {v \in Task : IsBatch(k2[v])}} = {k[u].peer : u \in {v \in Task : IsBatch(k[v])}}
  BY <1>1, <1>2
<1> QED BY <1>1, <1>2, <1>3 DEF BatchListed

\* a batch begins,
LEMMA BatchMore ==
    ASSUME NEW k, NEW k2, NEW t \in Task, NEW e, NEW B, BatchListed(k, B), Turns(k, k2, t, e),
           ~ IsBatch(k[t]), IsBatch(e), NEW p, e.peer = p, p \notin B
    PROVE  BatchListed(k2, B \cup {p})
<1>1. {k2[u].peer : u \in {v \in Task : IsBatch(k2[v])}}
        = {k[u].peer : u \in {v \in Task : IsBatch(k[v])}} \cup {p}
  BY DEF Turns
<1>2. \A u \in Task : IsBatch(k[u]) => k[u].peer # p
  BY DEF BatchListed
<1> QED BY <1>1, <1>2 DEF BatchListed, Turns

\* a batch ends.
LEMMA BatchLess ==
    ASSUME NEW k, NEW k2, NEW t \in Task, NEW e, NEW B, BatchListed(k, B), Turns(k, k2, t, e),
           IsBatch(k[t]), ~ IsBatch(e), NEW p, k[t].peer = p
    PROVE  BatchListed(k2, B \ {p})
<1>1. \A u \in Task \ {t} : IsBatch(k[u]) => k[u].peer # p
  BY DEF BatchListed
<1>2. {k2[u].peer : u \in {v \in Task : IsBatch(k2[v])}}
        = {k[u].peer : u \in {v \in Task : IsBatch(k[v])}} \ {p}
  BY <1>1 DEF Turns
<1> QED BY <1>2 DEF BatchListed, Turns

-----------------------------------------------------------------------------
\* What a handler knows: the heights of the blocks it has, and that those it has applied
\* are known, if all of them are of the announced chain.
Kinds == {"idle", "probe", "backtrack", "apply", "first", "batch"}

Looking(e) ==
    /\ e = [pc |-> "backtrack", peer |-> e.peer, session |-> e.session, req |-> e.req, at |-> e.at,
            ph |-> e.ph, responses |-> e.responses]
    /\ e.at \in Nat /\ e.at <= Height[e.req] /\ e.ph \in Nat
    /\ e.responses \in Seq(Block) /\ Len(e.responses) = Height[e.req] - e.at
    /\ \A i \in 1 .. Len(e.responses) : Height[e.responses[i]] = e.at + i

Applying(e, K) ==
    /\ e = [pc |-> "apply", peer |-> e.peer, req |-> e.req, responses |-> e.responses, next |-> e.next]
    /\ e.responses \in Seq(Block) /\ e.next \in 1 .. Len(e.responses)
    /\ \A i \in 1 .. Len(e.responses) : Height[e.responses[i]] = Height[e.req] - Len(e.responses) + i
    /\ Prev[e.responses[1]] = NoBlock \/ Prev[e.responses[1]] \in K
    /\ Y!Range(e.responses) \subseteq Y!ChainOf[e.req] => \A i \in 1 .. e.next : i < e.next => e.responses[i] \in K

Fetching(e) ==
    /\ e = [pc |-> e.pc, peer |-> e.peer, session |-> e.session, req |-> e.req, at |-> e.at]
    /\ e.at \in Nat /\ (e.pc = "batch" => e.at <= Height[e.req])

TaskOk(e, K) ==
    /\ e.pc \in Kinds
    /\ e.pc \notin {"idle", "probe"} => e.peer \in Peer /\ e.req \in Block
    /\ e.pc = "backtrack" => Looking(e)
    /\ e.pc = "apply" => Applying(e, K)
    /\ IsBatch(e) => Fetching(e)

TasksOk(k, K) == k = [t \in Task |-> k[t]] /\ \A t \in Task : TaskOk(k[t], K)

\* What a handler knows stays true when the chain grows.
LEMMA TaskLater ==
    ASSUME NEW e, NEW K, NEW L, K \subseteq L, TaskOk(e, K)
    PROVE  TaskOk(e, L)
<1>1. Applying(e, K) => Applying(e, L)
  BY DEF Applying
<1> QED BY <1>1 DEF TaskOk

\* A handler that is idle knows nothing.
LEMMA IdleOk == ASSUME NEW K PROVE TaskOk(Y!Idle, K) /\ ~ IsBack(Y!Idle) /\ ~ IsBatch(Y!Idle)
  BY DEF TaskOk, Y!Idle, Kinds, IsBack, IsBatch

\* One handler takes a step, while the chain may grow.
LEMMA TasksStep ==
    ASSUME NEW k, NEW k2, NEW K, NEW L, K \subseteq L, TasksOk(k, K), NEW t \in Task, NEW e,
           k2 = [k EXCEPT ![t] = e], TaskOk(e, L)
    PROVE  TasksOk(k2, L) /\ Turns(k, k2, t, e)
<1>1. k2 = [u \in Task |-> k2[u]] /\ k2[t] = e /\ \A u \in Task \ {t} : k2[u] = k[u]
  BY DEF TasksOk
<1>2. \A u \in Task : TaskOk(k[u], L)
  BY TaskLater DEF TasksOk
<1> QED BY <1>1, <1>2 DEF TasksOk, Turns

\* The same for all handlers.
LEMMA TasksLater ==
    ASSUME NEW k, NEW K, NEW L, K \subseteq L, TasksOk(k, K)
    PROVE  TasksOk(k, L)
  BY TaskLater DEF TasksOk

-----------------------------------------------------------------------------
\* The long syncs.
Working == {"collect", "gather", "proof", "validate", "lock", "download"}

SyncOk(e) ==
    /\ e.pc \in Working \cup {"none", "spawned", "finish"}
    /\ e.pc \in Working \ {"collect"} => e.target \in Block
    /\ e.pc \in {"lock", "download"} => e.at \in Nat
    /\ e.pc = "download" => e = [pc |-> "download", target |-> e.target, at |-> e.at, from |-> e.from]

SyncsOk(k, long, mode, held) ==
    /\ k = [s \in SyncTask |-> k[s]] /\ \A s \in SyncTask : SyncOk(k[s])
    /\ \A s, r \in SyncTask : k[s].pc \in Working /\ k[r].pc \in Working => s = r
    /\ long <=> \E s \in SyncTask : k[s].pc \in Working
    /\ mode <=> \E s \in SyncTask : k[s].pc \in {"lock", "download"}
    /\ \A s \in SyncTask : held = s <=> k[s].pc = "download"

\* A long sync that has not begun changes nothing.
LEMMA Spawned ==
    ASSUME NEW k, NEW long, NEW mode, NEW held, SyncsOk(k, long, mode, held), NEW s \in SyncTask, k[s] = Y!None
    PROVE  SyncsOk([k EXCEPT ![s] = [pc |-> "spawned"]], long, mode, held)
<1>1. k[s].pc = "none"
  BY DEF Y!None
<1>2. PICK k2 : k2 = [k EXCEPT ![s] = [pc |-> "spawned"]]
  BY Zenon
<1>3. k2 = [r \in SyncTask |-> k2[r]] /\ k2[s] = [pc |-> "spawned"] /\ \A r \in SyncTask \ {s} : k2[r] = k[r]
  BY <1>2 DEF SyncsOk
<1>4. SyncOk(k2[s]) /\ k2[s].pc = "spawned"
  BY <1>3 DEF SyncOk, Working
<1>5. \A r \in SyncTask : k2[r].pc \in Working <=> k[r].pc \in Working
  BY <1>1, <1>3, <1>4 DEF Working
<1>6. \A r \in SyncTask : /\ k2[r].pc = "download" <=> k[r].pc = "download"
                          /\ k2[r].pc = "lock" <=> k[r].pc = "lock"
  BY <1>1, <1>3, <1>4
<1>7. \A r \in SyncTask : SyncOk(k2[r])
  BY <1>3, <1>4 DEF SyncsOk
<1>8. SyncsOk(k2, long, mode, held)
  BY <1>3, <1>5, <1>6, <1>7 DEF SyncsOk
<1> QED BY <1>2, <1>8

\* A long sync ends: no other is at work.
LEMMA SyncEnds ==
    ASSUME SyncConstants, NEW k, NEW long, NEW mode, NEW held, SyncsOk(k, long, mode, held), NEW s \in SyncTask,
           k[s].pc \in Working, NEW held2, held2 = IF k[s].pc = "download" THEN "free" ELSE held
    PROVE  SyncsOk([k EXCEPT ![s] = [pc |-> "finish"]], FALSE, FALSE, held2)
<1>2. PICK k2 : k2 = [k EXCEPT ![s] = [pc |-> "finish"]]
  BY Zenon
<1>3. k2 = [r \in SyncTask |-> k2[r]] /\ k2[s] = [pc |-> "finish"] /\ \A r \in SyncTask \ {s} : k2[r] = k[r]
  BY <1>2 DEF SyncsOk
<1>4. SyncOk(k2[s]) /\ k2[s].pc = "finish"
  BY <1>3 DEF SyncOk, Working
<1>5. \A r \in SyncTask : k2[r].pc \notin Working
  BY <1>3, <1>4 DEF SyncsOk, Working
<1>6. \A r \in SyncTask : k2[r].pc # "download" /\ k2[r].pc # "lock"
  BY <1>5 DEF Working
<1>7. \A r \in SyncTask : SyncOk(k2[r])
  BY <1>3, <1>4 DEF SyncsOk
<1>8. \A r \in SyncTask : held2 # r
  <2>1. ASSUME NEW r \in SyncTask, held = r, k[s].pc # "download" PROVE FALSE
    <3>1. k[r].pc = "download"
      BY <2>1 DEF SyncsOk
    <3> QED BY <2>1, <3>1 DEF SyncsOk, Working
  <2> QED BY <2>1 DEF SyncConstants
<1>9. SyncsOk(k2, FALSE, FALSE, held2)
  BY <1>3, <1>5, <1>6, <1>7, <1>8 DEF SyncsOk
<1> QED BY <1>2, <1>9, Zenon

-----------------------------------------------------------------------------
MapsOk(T, m) == T \in [Peer -> Block] /\ \A p \in DOMAIN m : m[p] \in Block

SyncInv ==
    /\ ChainOk(known, peak) /\ TasksOk(task, known)
    /\ BackCounted(task, backtrack_syncing) /\ BatchListed(task, batch_syncing)
    /\ SyncsOk(sync, long_sync, sync_mode, lock)
    /\ MapsOk(tip, peer_to_peak)

\* A closed connection leaves the peaks of the other peers.
LEMMA CloseMaps ==
    ASSUME MapsOk(tip, peer_to_peak), NEW p, NEW n, Y!close(p, n), tip' = tip
    PROVE  MapsOk(tip', peer_to_peak')
<1>1. CASE Y!Live(p, n)
  <2>1. peer_to_peak' = [q \in DOMAIN peer_to_peak \ {p} |-> peer_to_peak[q]]
    BY <1>1 DEF Y!close, Y!peer_disconnected, Y!Restrict
  <2> QED BY <2>1 DEF MapsOk
<1>2. CASE ~ Y!Live(p, n)
  BY <1>2 DEF Y!close, Y!maps, MapsOk
<1> QED BY <1>1, <1>2

\* A spawned task is a long sync that has not begun.
LEMMA SpawnDoes ==
    ASSUME SyncsOk(sync, long_sync, sync_mode, lock), NEW t, Y!SpawnSync(t)
    PROVE  task' = [task EXCEPT ![t] = Y!Idle] /\ SyncsOk(sync', long_sync, sync_mode, lock)
<1>1. PICK s \in SyncTask : sync[s] = Y!None /\ sync' = [sync EXCEPT ![s] = [pc |-> "spawned"]]
  BY Zenon DEF Y!SpawnSync
<1>2. SyncsOk([sync EXCEPT ![s] = [pc |-> "spawned"]], long_sync, sync_mode, lock)
  BY <1>1, Spawned, Zenon
<1> QED BY <1>1, <1>2, Zenon DEF Y!SpawnSync

\* A handler begins a short sync by batches, or finds that one is running.
LEMMA BatchDoes ==
    ASSUME TasksOk(task, known), BatchListed(task, batch_syncing), NEW t \in Task, ~ IsBatch(task[t]),
           NEW p \in Peer, NEW b \in Block, NEW from \in Nat, NEW n, Height[b] \in Nat,
           Y!short_sync_batch(t, p, b, from, n)
    PROVE  /\ TasksOk(task', known) /\ BatchListed(task', batch_syncing') /\ sync' = sync
           /\ \E e : Turns(task, task', t, e) /\ ~ IsBack(e)
<1>1. CASE n > 0 \/ p \in batch_syncing
  <2>1. task' = [task EXCEPT ![t] = Y!Idle] /\ batch_syncing' = batch_syncing /\ sync' = sync
    BY <1>1 DEF Y!short_sync_batch
  <2>2. TasksOk(task', known) /\ Turns(task, task', t, Y!Idle)
    BY <2>1, IdleOk, TasksStep, Zenon
  <2>3. BatchListed(task', batch_syncing)
    BY <2>2, IdleOk, BatchSame
  <2> QED BY <2>1, <2>2, <2>3, IdleOk, Zenon
<1>2. CASE ~ (n > 0 \/ p \in batch_syncing)
  <2>1. PICK e : e = [pc |-> IF from > 0 THEN "first" ELSE "batch", peer |-> p, session |-> session[p],
                      req |-> b, at |-> from]
    BY Zenon
  <2>2. task' = [task EXCEPT ![t] = e] /\ batch_syncing' = batch_syncing \cup {p} /\ sync' = sync
    BY <1>2, <2>1 DEF Y!short_sync_batch
  <2>3. /\ e.pc \in {"first", "batch"} /\ e.peer = p /\ e.req = b /\ e.at = from
        /\ e.pc = "batch" => from = 0
        /\ e = [pc |-> e.pc, peer |-> e.peer, session |-> e.session, req |-> e.req, at |-> e.at]
    BY <2>1
  <2>4. TaskOk(e, known) /\ IsBatch(e) /\ ~ IsBack(e)
    BY <2>3 DEF TaskOk, IsBatch, IsBack, Kinds, Fetching
  <2>5. TasksOk(task', known) /\ Turns(task, task', t, e)
    BY <2>2, <2>4, TasksStep, Zenon
  <2>6. BatchListed(task', batch_syncing \cup {p})
    BY <1>2, <2>3, <2>4, <2>5, BatchMore
  <2> QED BY <2>2, <2>4, <2>5, <2>6, Zenon
<1> QED BY <1>1, <1>2

\* What a handler does for a peak above its own: a short sync, or a long one.
LEMMA BehindDoes ==
    ASSUME SyncConstants, SyncInv, NEW t \in Task, ~ IsBatch(task[t]), NEW p \in Peer, NEW b \in Block,
           NEW ph \in Nat, NEW n, Y!Behind(t, p, b, ph, n), UNCHANGED <<long_sync, sync_mode, lock>>
    PROVE  /\ TasksOk(task', known) /\ BatchListed(task', batch_syncing')
           /\ SyncsOk(sync', long_sync', sync_mode', lock')
           /\ \E e : Turns(task, task', t, e) /\ ~ IsBack(e)
<1>0. Height[b] \in Nat /\ 0 \in Nat /\ (IF ph > BEHIND THEN ph - BEHIND ELSE 0) \in Nat
  BY DEF SyncConstants, TreeConstants
<1>1. CASE \E from \in Nat : Y!short_sync_batch(t, p, b, from, n)
  BY <1>0, <1>1, BatchDoes DEF SyncInv
<1>2. CASE Y!SpawnSync(t) /\ batch_syncing' = batch_syncing
  <2>1. task' = [task EXCEPT ![t] = Y!Idle] /\ SyncsOk(sync', long_sync', sync_mode', lock')
    BY <1>2, SpawnDoes DEF SyncInv
  <2>2. TasksOk(task', known) /\ Turns(task, task', t, Y!Idle)
    BY <2>1, IdleOk, TasksStep, Zenon DEF SyncInv
  <2>3. BatchListed(task', batch_syncing')
    BY <1>2, <2>2, IdleOk, BatchSame DEF SyncInv
  <2> QED BY <2>1, <2>2, <2>3, IdleOk, Zenon
<1> QED BY <1>0, <1>1, <1>2 DEF Y!Behind

\* A peer announces its peak.
LEMMA NewPeakInv ==
    ASSUME SyncConstants, SyncInv, NEW t \in Task, NEW p \in Peer, Y!new_peak(t, p)
    PROVE  SyncInv'
<1>1. PICK b \in Block : b = tip[p]
  BY DEF SyncInv, MapsOk
<1>2. /\ task[t] = Y!Idle /\ ~ IsBack(task[t]) /\ ~ IsBatch(task[t])
      /\ UNCHANGED <<known, peak, tip, long_sync, sync_mode, lock>>
      /\ peer_to_peak' = [q \in DOMAIN peer_to_peak \cup {p} |-> IF q = p THEN b ELSE peer_to_peak[q]]
  BY <1>1, IdleOk, Zenon DEF Y!new_peak, Y!chain, Y!far, Y!flags
<1>3. MapsOk(tip', peer_to_peak') /\ ChainOk(known', peak')
  BY <1>2 DEF SyncInv, MapsOk
<1>4. \/ UNCHANGED <<batch_syncing, backtrack_syncing, task, sync>>
      \/ /\ task' = [task EXCEPT ![t] = [pc |-> "probe", peer |-> p, session |-> session[p], target |-> sync_target]]
         /\ UNCHANGED <<batch_syncing, backtrack_syncing, sync>>
      \/ Y!short_sync_backtrack(t, p, b)
      \/ Y!Behind(t, p, b, Y!PeakHeight, backtrack_syncing[p]) /\ UNCHANGED backtrack_syncing
  BY <1>1 DEF Y!new_peak, Y!short
<1>5. Y!PeakHeight \in Nat /\ Height[b] \in Nat
  BY DEF Y!PeakHeight, SyncInv, ChainOk, SyncConstants, TreeConstants
<1>6. CASE UNCHANGED <<batch_syncing, backtrack_syncing, task, sync>>
  BY <1>2, <1>3, <1>6 DEF SyncInv
<1>7. CASE /\ task' = [task EXCEPT ![t] = [pc |-> "probe", peer |-> p, session |-> session[p], target |-> sync_target]]
           /\ UNCHANGED <<batch_syncing, backtrack_syncing, sync>>
  <2>1. PICK e : e = [pc |-> "probe", peer |-> p, session |-> session[p], target |-> sync_target]
    BY Zenon
  <2>2. TaskOk(e, known) /\ ~ IsBack(e) /\ ~ IsBatch(e)
    BY <2>1 DEF TaskOk, Kinds, IsBack, IsBatch
  <2>3. TasksOk(task', known) /\ Turns(task, task', t, e)
    BY <1>7, <2>1, <2>2, TasksStep, Zenon DEF SyncInv
  <2>4. BackCounted(task', backtrack_syncing)
    BY <1>2, <2>2, <2>3, BackSame, Zenon DEF SyncInv
  <2>5. BatchListed(task', batch_syncing)
    BY <1>2, <2>2, <2>3, BatchSame DEF SyncInv
  <2> QED BY <1>2, <1>3, <1>7, <2>3, <2>4, <2>5 DEF SyncInv
<1>8. CASE Y!short_sync_backtrack(t, p, b)
  <2>1. PICK e : e = [pc |-> "backtrack", peer |-> p, session |-> session[p], req |-> b,
                      at |-> Height[b], ph |-> Y!PeakHeight, responses |-> <<>>]
    BY Zenon
  <2>2. /\ backtrack_syncing' = [backtrack_syncing EXCEPT ![p] = @ + 1] /\ task' = [task EXCEPT ![t] = e]
        /\ UNCHANGED <<batch_syncing, sync>>
    BY <1>8, <2>1 DEF Y!short_sync_backtrack
  <2>3. Looking(e)
    <3>1. /\ e = [pc |-> "backtrack", peer |-> e.peer, session |-> e.session, req |-> e.req, at |-> e.at,
                  ph |-> e.ph, responses |-> e.responses]
          /\ e.at = Height[b] /\ e.req = b /\ e.ph = Y!PeakHeight /\ e.responses = <<>>
      BY <2>1
    <3>2. e.responses \in Seq(Block) /\ Len(e.responses) = 0
      BY <3>1
    <3> QED BY <1>5, <3>1, <3>2 DEF Looking
  <2>4. TaskOk(e, known) /\ IsBack(e) /\ ~ IsBatch(e) /\ e.peer = p
    BY <2>1, <2>3 DEF TaskOk, Kinds, IsBack, IsBatch
  <2>5. TasksOk(task', known) /\ Turns(task, task', t, e)
    BY <2>2, <2>4, TasksStep, Zenon DEF SyncInv
  <2>6. BackCounted(task', [backtrack_syncing EXCEPT ![p] = @ + 1])
    BY <1>2, <2>4, <2>5, BackMore DEF SyncInv
  <2>7. BatchListed(task', batch_syncing)
    BY <1>2, <2>4, <2>5, BatchSame, Zenon DEF SyncInv
  <2> QED BY <1>2, <1>3, <2>2, <2>5, <2>6, <2>7 DEF SyncInv
<1>9. CASE Y!Behind(t, p, b, Y!PeakHeight, backtrack_syncing[p]) /\ UNCHANGED backtrack_syncing
  <2>1. PICK e : /\ Turns(task, task', t, e) /\ ~ IsBack(e) /\ TasksOk(task', known)
                 /\ BatchListed(task', batch_syncing') /\ SyncsOk(sync', long_sync', sync_mode', lock')
    BY <1>2, <1>5, <1>9, BehindDoes
  <2>2. BackCounted(task', backtrack_syncing)
    BY <1>2, <2>1, BackSame DEF SyncInv
  <2> QED BY <1>2, <1>3, <1>9, <2>1, <2>2, Zenon DEF SyncInv
<1> QED BY <1>4, <1>6, <1>7, <1>8, <1>9

\* The answer to the probe for the fork comes.
LEMMA ProbedInv ==
    ASSUME SyncConstants, SyncInv, NEW t \in Task, Y!Probed(t)
    PROVE  SyncInv'
<1>1. /\ task[t].pc = "probe" /\ task' = [task EXCEPT ![t] = Y!Idle]
      /\ UNCHANGED <<known, peak, tip, peer_to_peak, long_sync, sync_mode, lock, batch_syncing, backtrack_syncing, sync>>
  BY DEF Y!Probed, Y!chain, Y!far, Y!flags, Y!short
<1>2. TasksOk(task', known) /\ Turns(task, task', t, Y!Idle) /\ ~ IsBack(task[t]) /\ ~ IsBatch(task[t])
  BY <1>1, IdleOk, TasksStep, Zenon DEF SyncInv, IsBack, IsBatch
<1>3. BackCounted(task', backtrack_syncing)
  BY <1>2, IdleOk, BackSame DEF SyncInv
<1>4. BatchListed(task', batch_syncing)
  BY <1>2, IdleOk, BatchSame DEF SyncInv
<1> QED BY <1>1, <1>2, <1>3, <1>4 DEF SyncInv

\* The end of a backtrack or of a batch puts the counters right.
LEMMA BacktrackEnded ==
    ASSUME SyncConstants, TasksOk(task, known), BackCounted(task, backtrack_syncing),
           BatchListed(task, batch_syncing), NEW t \in Task, IsBack(task[t]),
           NEW p \in Peer, p = task[t].peer, task' = [task EXCEPT ![t] = Y!Idle], Y!BacktrackEnds(p),
           known \subseteq known'
    PROVE  TasksOk(task', known') /\ BackCounted(task', backtrack_syncing') /\ BatchListed(task', batch_syncing')
<1>1. /\ backtrack_syncing' = [backtrack_syncing EXCEPT ![p] = @ - 1] /\ batch_syncing' = batch_syncing
      /\ ~ IsBatch(task[t])
  BY DEF Y!BacktrackEnds, IsBack, IsBatch
<1>2. TasksOk(task', known') /\ Turns(task, task', t, Y!Idle)
  BY IdleOk, TasksStep, Zenon
<1>3. BackCounted(task', [backtrack_syncing EXCEPT ![p] = @ - 1])
  BY <1>2, IdleOk, BackLess
<1>4. BatchListed(task', batch_syncing)
  BY <1>1, <1>2, IdleOk, BatchSame
<1> QED BY <1>1, <1>2, <1>3, <1>4

\* The same for a batch.
LEMMA BatchEnded ==
    ASSUME SyncConstants, TasksOk(task, known), BackCounted(task, backtrack_syncing),
           BatchListed(task, batch_syncing), NEW t \in Task, IsBatch(task[t]),
           NEW p \in Peer, p = task[t].peer, task' = [task EXCEPT ![t] = Y!Idle], Y!BatchEnds(p),
           known \subseteq known'
    PROVE  TasksOk(task', known') /\ BackCounted(task', backtrack_syncing') /\ BatchListed(task', batch_syncing')
<1>1. batch_syncing' = batch_syncing \ {p} /\ backtrack_syncing' = backtrack_syncing /\ ~ IsBack(task[t])
  BY DEF Y!BatchEnds, IsBack, IsBatch
<1>2. TasksOk(task', known') /\ Turns(task, task', t, Y!Idle)
  BY IdleOk, TasksStep, Zenon
<1>3. BatchListed(task', batch_syncing \ {p})
  BY <1>2, IdleOk, BatchLess
<1>4. BackCounted(task', backtrack_syncing)
  BY <1>1, <1>2, IdleOk, BackSame
<1> QED BY <1>1, <1>2, <1>3, <1>4

\* An exception ends the handler and its connection.
LEMMA RaiseInv ==
    ASSUME SyncConstants, SyncInv, NEW t \in Task, task[t].pc \in {"backtrack", "first", "batch"}, Y!Raise(t)
    PROVE  SyncInv'
<1>1. PICK p \in Peer : p = task[t].peer
  BY DEF SyncInv, TasksOk, TaskOk
<1>2. /\ task' = [task EXCEPT ![t] = Y!Idle] /\ Y!close(p, task[t].session)
      /\ UNCHANGED <<known, peak, tip, long_sync, sync_mode, lock, sync>>
      /\ IF task[t].pc = "backtrack" THEN Y!BacktrackEnds(p) ELSE Y!BatchEnds(p)
  BY <1>1 DEF Y!Raise, Y!chain, Y!far, Y!flags
<1>3. MapsOk(tip', peer_to_peak')
  BY <1>2, CloseMaps DEF SyncInv
<1>4. TasksOk(task', known') /\ BackCounted(task', backtrack_syncing') /\ BatchListed(task', batch_syncing')
  <2>1. CASE task[t].pc = "backtrack"
    <3>1. IsBack(task[t]) /\ Y!BacktrackEnds(p) /\ known \subseteq known'
      BY <1>2, <2>1 DEF IsBack
    <3> QED BY <1>1, <1>2, <3>1, BacktrackEnded, Zenon DEF SyncInv
  <2>2. CASE task[t].pc \in {"first", "batch"}
    <3>1. IsBatch(task[t]) /\ Y!BatchEnds(p) /\ known \subseteq known'
      BY <1>2, <2>2 DEF IsBatch
    <3> QED BY <1>1, <1>2, <3>1, BatchEnded, Zenon DEF SyncInv
  <2> QED BY <2>1, <2>2
<1> QED BY <1>2, <1>3, <1>4 DEF SyncInv

\* A backtrack goes on: one block more, one lower.
Looked(e, b, r) ==
    /\ r \in Seq(Block) /\ Len(r) = Len(e.responses) + 1 /\ r[1] = b
    /\ \A i \in 1 .. Len(r) : Height[r[i]] = e.at - 1 + i
    /\ Len(r) = Height[e.req] - (e.at - 1)

\* What has been collected stays linked with one more block in front.
LEMMA LookingOn ==
    ASSUME SyncConstants, NEW e, e.req \in Block, Looking(e), NEW b \in Block, Height[b] = e.at,
           NEW r, r = <<b>> \o e.responses
    PROVE  Looked(e, b, r)
<1>1. /\ e.responses \in Seq(Block) /\ e.at \in Nat /\ Height[e.req] \in Nat
      /\ Len(e.responses) = Height[e.req] - e.at
      /\ \A i \in 1 .. Len(e.responses) : Height[e.responses[i]] = e.at + i
  BY DEF Looking, SyncConstants, TreeConstants
<1>2. PICK q \in Seq(Block) : q = e.responses
  BY <1>1
<1>3. r \in Seq(Block) /\ Len(r) = Len(q) + 1 /\ r[1] = b
  BY <1>2
<1>4. \A i \in 1 .. Len(r) : i > 1 => r[i] = q[i - 1]
  BY <1>2
<1>5. ASSUME NEW i \in 1 .. Len(r) PROVE Height[r[i]] = e.at - 1 + i
  <2>1. CASE i = 1
    BY <1>1, <1>3, <2>1
  <2>2. CASE i > 1
    <3>1. i - 1 \in 1 .. Len(q) /\ r[i] = q[i - 1]
      BY <1>3, <1>4, <2>2
    <3>2. Height[q[i - 1]] = e.at + (i - 1)
      BY <1>1, <1>2, <3>1, Zenon
    <3>3. e.at + (i - 1) = e.at - 1 + i
      BY <1>1
    <3> QED BY <3>1, <3>2, <3>3
  <2> QED BY <2>1, <2>2
<1>6. Len(r) = Len(e.responses) + 1
  BY <1>2, <1>3, Zenon
<1>7. Len(r) = Height[e.req] - (e.at - 1)
  <2>1. PICK h, k : h = Height[e.req] /\ k = Len(e.responses)
    BY Zenon
  <2>2. h \in Nat /\ k = h - e.at /\ Len(r) = k + 1 /\ e.at \in Nat
    BY <1>1, <1>6, <2>1, Zenon
  <2>3. h - e.at + 1 = h - (e.at - 1)
    BY <2>2
  <2> QED BY <2>1, <2>2, <2>3, Zenon
<1> QED BY <1>3, <1>5, <1>6, <1>7, Zenon DEF Looked

Look(e, i, r) ==
    [pc |-> "backtrack", peer |-> e.peer, session |-> e.session, req |-> e.req, at |-> i, ph |-> e.ph, responses |-> r]

\* A step of short_sync_backtrack that fetches.
LEMMA BacktrackInv ==
    ASSUME SyncConstants, SyncInv, NEW t \in Task, Y!Backtrack(t)
    PROVE  SyncInv'
<1>1. PICK e : e = task[t]
  OBVIOUS
<1>2. e.pc = "backtrack" /\ TaskOk(e, known) /\ Looking(e) /\ IsBack(e) /\ ~ IsBatch(e)
  BY <1>1 DEF Y!Backtrack, SyncInv, TasksOk, TaskOk, IsBack, IsBatch
<1>3. PICK p \in Peer : p = e.peer
  BY <1>2 DEF TaskOk
<1>4. PICK T \in Block : T = tip[p]
  BY DEF SyncInv, MapsOk
<1>5. CASE ~ Y!Answers(t, e.at)
  <2>1. Y!Raise(t)
    BY <1>1, <1>5 DEF Y!Backtrack
  <2> QED BY <1>1, <1>2, <2>1, RaiseInv
<1>6. CASE Y!Answers(t, e.at)
  <2>1. PICK b : b = Y!At(T, e.at)
    OBVIOUS
  <2>2. PICK r : r = <<b>> \o e.responses
    BY Zenon
  <2>3. e.at \in Nat /\ e.at <= Height[T] /\ Height[T] \in Nat /\ e.req \in Block /\ e.ph \in Nat
        /\ Height[e.req] \in Nat /\ e.at <= Height[e.req]
    BY <1>1, <1>2, <1>3, <1>4, <1>6, Zenon DEF Looking, Y!Answers, SyncConstants, TreeConstants, TaskOk
  <2>4. /\ b \in Block /\ Height[b] = e.at
        /\ e.at = 0 => Prev[b] = NoBlock
    <3>1. e.at \in 0 .. Height[T] /\ TreeConstants
      BY <2>3 DEF SyncConstants
    <3> QED BY <2>1, <3>1, AtIs
  <2>5. /\ r \in Seq(Block) /\ Len(r) = Len(e.responses) + 1 /\ r[1] = b
        /\ \A i \in 1 .. Len(r) : Height[r[i]] = e.at - 1 + i
        /\ Len(r) = Height[e.req] - (e.at - 1)
    <3>1. Looking(e) /\ e.req \in Block /\ b \in Block /\ Height[b] = e.at /\ r = <<b>> \o e.responses
      BY <1>2, <2>2, <2>3, <2>4
    <3>2. Looked(e, b, r)
      BY <3>1, LookingOn, Zenon
    <3> QED BY <3>2 DEF Looked
  <2>6. /\ UNCHANGED <<known, peak, tip, peer_to_peak, long_sync, sync_mode, lock>>
        /\ ChainOk(known', peak') /\ MapsOk(tip', peer_to_peak')
    BY <1>1, <1>6 DEF Y!Backtrack, Y!chain, Y!far, Y!maps, Y!flags, SyncInv
  <2>7. CASE Y!Connects(b)
    <3>1. PICK f : f = [pc |-> "apply", peer |-> p, req |-> e.req, responses |-> r, next |-> 1]
      BY Zenon
    <3>2. task' = [task EXCEPT ![t] = f] /\ UNCHANGED <<batch_syncing, backtrack_syncing, sync>>
      BY <1>1, <1>3, <1>4, <1>6, <2>1, <2>2, <2>7, <3>1 DEF Y!Backtrack, Y!short
    <3>3. /\ f = [pc |-> "apply", peer |-> f.peer, req |-> f.req, responses |-> f.responses, next |-> f.next]
          /\ f.pc = "apply" /\ f.peer = p /\ f.req = e.req /\ f.responses = r /\ f.next = 1
      BY <3>1
    <3>4. \A i \in 1 .. Len(r) : Height[r[i]] = Height[e.req] - Len(r) + i
      <4>1. e.at - 1 = Height[e.req] - Len(r)
        <5>1. PICK h, k : h = Height[e.req] /\ k = Len(r)
          BY Zenon
        <5>2. h \in Nat /\ k = h - (e.at - 1) /\ e.at \in Nat
          BY <2>3, <2>5, <5>1, Zenon
        <5>3. h - (h - (e.at - 1)) = e.at - 1
          BY <5>2
        <5> QED BY <5>1, <5>2, <5>3, Zenon
      <4> QED BY <2>5, <4>1, Zenon
    <3>5. Len(r) \in Nat /\ Len(r) >= 1
      BY <2>3, <2>5
    <3>6. Applying(f, known)
      BY <2>5, <2>7, <3>3, <3>4, <3>5 DEF Applying, Y!Connects
    <3>7. TaskOk(f, known) /\ IsBack(f) /\ ~ IsBatch(f)
      BY <2>3, <3>3, <3>6 DEF TaskOk, Kinds, IsBack, IsBatch
    <3>8. TasksOk(task', known) /\ Turns(task, task', t, f)
      BY <3>2, <3>7, TasksStep, Zenon DEF SyncInv
    <3>9. BackCounted(task', backtrack_syncing)
      BY <1>1, <1>2, <1>3, <3>3, <3>7, <3>8, BackSame DEF SyncInv
    <3>10. BatchListed(task', batch_syncing)
      BY <1>1, <1>2, <3>7, <3>8, BatchSame DEF SyncInv
    <3> QED BY <2>6, <3>2, <3>8, <3>9, <3>10 DEF SyncInv
  <2>8. CASE ~ Y!Connects(b) /\ e.at - 1 > e.ph - BACKTRACK
    <3>1. PICK f : f = [pc |-> "backtrack", peer |-> p, session |-> e.session, req |-> e.req, at |-> e.at - 1,
                        ph |-> e.ph, responses |-> r]
      BY Zenon
    <3>2. /\ task' = [task EXCEPT ![t].at = @ - 1, ![t].responses = r]
          /\ UNCHANGED <<batch_syncing, backtrack_syncing, sync>>
      BY <1>1, <1>3, <1>4, <1>6, <2>1, <2>2, <2>8 DEF Y!Backtrack, Y!short
    <3>3. task' = [task EXCEPT ![t] = f]
      <4>1. task = [u \in Task |-> task[u]]
        BY DEF SyncInv, TasksOk
      <4> DEFINE Set(z) == [u \in Task |-> IF u = t THEN z ELSE task[u]]
      <4>2. e = Look(e, e.at, e.responses)
        BY <1>2 DEF Looking, Look
      <4>3. [e EXCEPT !.at = @ - 1] = Look(e, e.at - 1, e.responses)
        BY <4>2 DEF Look
      <4>4. PICK g : g = [task EXCEPT ![t].at = @ - 1]
        BY Zenon
      <4>5. g = Set(Look(e, e.at - 1, e.responses))
        BY <1>1, <4>1, <4>3, <4>4
      <4>6. [g EXCEPT ![t].responses = r] = Set(Look(e, e.at - 1, r))
        BY <4>5 DEF Look
      <4>7. [task EXCEPT ![t] = f] = Set(f)
        BY <4>1
      <4>8. task' = [g EXCEPT ![t].responses = r]
        BY <3>2, <4>4
      <4>9. f = Look(e, e.at - 1, r)
        BY <1>3, <3>1 DEF Look
      <4> HIDE DEF Set
      <4> QED BY <4>6, <4>7, <4>8, <4>9
    <3>4. /\ f = [pc |-> "backtrack", peer |-> f.peer, session |-> f.session, req |-> f.req, at |-> f.at,
                  ph |-> f.ph, responses |-> f.responses]
          /\ f.pc = "backtrack" /\ f.peer = p /\ f.req = e.req /\ f.at = e.at - 1 /\ f.ph = e.ph /\ f.responses = r
      BY <3>1
    <3>5. e.at # 0
      BY <2>4, <2>8 DEF Y!Connects
    <3>6. e.at - 1 \in Nat /\ e.at - 1 <= Height[e.req]
      BY <2>3, <3>5
    <3>7. Looking(f)
      BY <2>3, <2>5, <3>4, <3>6 DEF Looking
    <3>8. TaskOk(f, known) /\ IsBack(f) /\ ~ IsBatch(f)
      BY <2>3, <3>4, <3>7 DEF TaskOk, Kinds, IsBack, IsBatch
    <3>9. TasksOk(task', known) /\ Turns(task, task', t, f)
      BY <3>3, <3>8, TasksStep, Zenon DEF SyncInv
    <3>10. BackCounted(task', backtrack_syncing)
      BY <1>1, <1>2, <1>3, <3>4, <3>8, <3>9, BackSame DEF SyncInv
    <3>11. BatchListed(task', batch_syncing)
      BY <1>1, <1>2, <3>8, <3>9, BatchSame DEF SyncInv
    <3> QED BY <2>6, <3>2, <3>9, <3>10, <3>11 DEF SyncInv
  <2>9. CASE ~ Y!Connects(b) /\ ~ (e.at - 1 > e.ph - BACKTRACK)
    <3>1. /\ backtrack_syncing' = [backtrack_syncing EXCEPT ![p] = @ - 1]
          /\ Y!Behind(t, p, e.req, e.ph, backtrack_syncing[p] - 1)
      BY <1>1, <1>3, <1>4, <1>6, <2>1, <2>9 DEF Y!Backtrack
    <3>2. PICK f : /\ Turns(task, task', t, f) /\ ~ IsBack(f) /\ TasksOk(task', known)
                   /\ BatchListed(task', batch_syncing') /\ SyncsOk(sync', long_sync', sync_mode', lock')
      BY <1>1, <1>2, <2>3, <2>6, <3>1, BehindDoes, Zenon
    <3>3. BackCounted(task', [backtrack_syncing EXCEPT ![p] = @ - 1])
      BY <1>1, <1>2, <1>3, <3>2, BackLess, Zenon DEF SyncInv
    <3> QED BY <2>6, <3>1, <3>2, <3>3 DEF SyncInv
  <2> QED BY <2>7, <2>8, <2>9
<1> QED BY <1>5, <1>6

\* The blocks of an announced chain connect one after the other.
LEMMA NextConnects ==
    ASSUME TreeConstants, NEW e, NEW K, e.req \in Block, Applying(e, K), Y!Range(e.responses) \subseteq Y!ChainOf[e.req]
    PROVE  /\ Prev[e.responses[e.next]] = NoBlock \/ Prev[e.responses[e.next]] \in K
           /\ e.responses[Len(e.responses)] = e.req
<1>1. PICK r \in Seq(Block) : r = e.responses
  BY DEF Applying
<1>2. PICK n \in 1 .. Len(r) : n = e.next
  BY <1>1 DEF Applying
<1>3. /\ \A i \in 1 .. Len(r) : r[i] \in Y!ChainOf[e.req] /\ r[i] \in Block
      /\ \A i \in 1 .. Len(r) : Height[r[i]] = Height[e.req] - Len(r) + i
      /\ \A i \in 1 .. n : i < n => r[i] \in K
      /\ Prev[r[1]] = NoBlock \/ Prev[r[1]] \in K
  BY <1>1, <1>2 DEF Applying, Y!Range
<1>4. ChainFacts(e.req) /\ Height[e.req] \in Nat /\ Len(r) \in Nat
  BY ChainFactsHold DEF TreeConstants
<1>5. r[Len(r)] = e.req
  <2>1. Len(r) \in 1 .. Len(r) /\ Height[e.req] - Len(r) + Len(r) = Height[e.req]
    BY <1>2, <1>4
  <2>2. Height[r[Len(r)]] = Height[e.req] /\ r[Len(r)] \in Y!ChainOf[e.req]
    BY <1>3, <2>1
  <2>3. e.req \in Y!ChainOf[e.req] /\ \A x, y \in Y!ChainOf[e.req] : Height[x] = Height[y] => x = y
    BY <1>4 DEF ChainFacts
  <2> QED BY <2>2, <2>3
<1>6. Prev[r[n]] = NoBlock \/ Prev[r[n]] \in K
  <2>1. CASE n = 1
    BY <1>3, <2>1
  <2>2. CASE n > 1 /\ Prev[r[n]] # NoBlock
    <3>1. n - 1 \in 1 .. Len(r) /\ n - 1 \in 1 .. n /\ n - 1 < n
      BY <1>4, <2>2
    <3>2. /\ Height[r[n - 1]] = Height[e.req] - Len(r) + (n - 1) /\ Height[r[n]] = Height[e.req] - Len(r) + n
          /\ r[n - 1] \in Y!ChainOf[e.req] /\ r[n - 1] \in K
      BY <1>3, <3>1
    <3>3. Height[r[n]] = Height[Prev[r[n]]] + 1 /\ Height[Prev[r[n]]] \in Nat
      BY <1>3, <2>2 DEF TreeConstants
    <3>4. Height[Prev[r[n]]] = Height[r[n - 1]]
      <4>1. PICK g \in Nat : g = Height[Prev[r[n]]]
        BY <3>3
      <4>2. PICK c \in Int : c = Height[e.req] - Len(r)
        BY <1>4
      <4>3. c + n = g + 1 /\ Height[r[n - 1]] = c + (n - 1) /\ n \in Int
        BY <3>2, <3>3, <4>1, <4>2
      <4> QED BY <4>1, <4>3
    <3>5. Prev[r[n]] \in Y!ChainOf[e.req]
      BY <1>3, <1>4, <2>2 DEF ChainFacts
    <3> QED BY <1>4, <3>2, <3>4, <3>5 DEF ChainFacts
  <2> QED BY <1>2, <2>1, <2>2
<1> QED BY <1>1, <1>2, <1>5, <1>6

Apply(e, i) == [pc |-> "apply", peer |-> e.peer, req |-> e.req, responses |-> e.responses, next |-> i]

\* A step of short_sync_backtrack that adds a block.
LEMMA ApplyInv ==
    ASSUME SyncConstants, SyncInv, NEW t \in Task, Y!Apply(t)
    PROVE  SyncInv'
<1>0. TreeConstants
  BY DEF SyncConstants
<1>1. PICK e : e = task[t]
  OBVIOUS
<1>2. e.pc = "apply" /\ TaskOk(e, known) /\ Applying(e, known) /\ IsBack(e) /\ ~ IsBatch(e)
  BY <1>1 DEF Y!Apply, SyncInv, TasksOk, TaskOk, IsBack, IsBatch
<1>3. PICK p \in Peer : p = e.peer
  BY <1>2 DEF TaskOk
<1>4. PICK b \in Block : b = e.responses[e.next]
  BY <1>2 DEF Applying
<1>5. /\ Y!Receive(<<b>>)
      /\ UNCHANGED <<tip, peer_to_peak, long_sync, sync_mode, lock, sync>>
  BY <1>1, <1>4 DEF Y!Apply, Y!far, Y!maps, Y!flags
<1>6. /\ ChainOk(known', peak') /\ known \subseteq known'
      /\ (Prev[b] = NoBlock \/ Prev[b] \in known) => b \in known'
  <2>1. Linked(<<b>>) /\ <<b>>[1] = b
    BY <1>0, OneLinked
  <2> QED BY <1>0, <1>5, <2>1, ReceiveKeeps DEF SyncInv, Y!Connects
<1>7. CASE e.next = Len(e.responses)
  <2>1. task' = [task EXCEPT ![t] = Y!Idle] /\ Y!BacktrackEnds(p)
    BY <1>1, <1>3, <1>7 DEF Y!Apply
  <2>2. TasksOk(task', known') /\ BackCounted(task', backtrack_syncing') /\ BatchListed(task', batch_syncing')
    BY <1>1, <1>2, <1>3, <1>6, <2>1, BacktrackEnded, Zenon DEF SyncInv
  <2> QED BY <1>5, <1>6, <2>2 DEF SyncInv
<1>8. CASE e.next # Len(e.responses)
  <2>1. task' = [task EXCEPT ![t].next = @ + 1] /\ UNCHANGED <<batch_syncing, backtrack_syncing>>
    BY <1>1, <1>8 DEF Y!Apply, Y!short
  <2>2. PICK f : f = Apply(e, e.next + 1)
    OBVIOUS
  <2>3. task' = [task EXCEPT ![t] = f]
    <3>1. task = [u \in Task |-> task[u]] /\ e = Apply(e, e.next)
      BY <1>2 DEF SyncInv, TasksOk, Applying, Apply
    <3>2. [e EXCEPT !.next = @ + 1] = Apply(e, e.next + 1)
      BY <3>1 DEF Apply
    <3> QED BY <1>1, <2>1, <2>2, <3>1, <3>2, Zenon
  <2>4. /\ f = Apply(f, f.next) /\ f.pc = "apply" /\ f.peer = p /\ f.req = e.req
        /\ f.responses = e.responses /\ f.next = e.next + 1
    BY <1>3, <2>2 DEF Apply
  <2>5. PICK r \in Seq(Block) : r = e.responses
    BY <1>2 DEF Applying
  <2>6. PICK n \in 1 .. Len(r) : n = e.next
    BY <1>2, <2>5 DEF Applying
  <2>7. n + 1 \in 1 .. Len(r)
    BY <1>8, <2>5, <2>6
  <2>8. Y!Range(r) \subseteq Y!ChainOf[e.req] => \A i \in 1 .. n + 1 : i < n + 1 => r[i] \in known'
    <3>1. SUFFICES ASSUME Y!Range(r) \subseteq Y!ChainOf[e.req], NEW i \in 1 .. n + 1, i < n + 1
                   PROVE  r[i] \in known'
      OBVIOUS
    <3>2. e.req \in Block /\ b = r[n]
      BY <1>2, <1>4, <2>5, <2>6 DEF TaskOk
    <3>3. Prev[b] = NoBlock \/ Prev[b] \in known
      BY <1>0, <1>2, <2>5, <2>6, <3>1, <3>2, NextConnects, Zenon
    <3>4. CASE i = n
      BY <1>6, <3>2, <3>3, <3>4
    <3>5. CASE i < n
      <4>1. i \in 1 .. n
        BY <3>5
      <4> QED BY <1>2, <1>6, <2>5, <2>6, <3>1, <3>5, <4>1 DEF Applying
    <3> QED BY <3>1, <3>4, <3>5
  <2>9. Applying(f, known')
    <3>1. /\ \A i \in 1 .. Len(r) : Height[r[i]] = Height[e.req] - Len(r) + i
          /\ Prev[r[1]] = NoBlock \/ Prev[r[1]] \in known'
      BY <1>2, <1>6, <2>5 DEF Applying
    <3> QED BY <2>4, <2>5, <2>6, <2>7, <2>8, <3>1 DEF Applying, Apply
  <2>10. TaskOk(f, known') /\ IsBack(f) /\ ~ IsBatch(f)
    BY <1>2, <2>4, <2>9 DEF TaskOk, Kinds, IsBack, IsBatch
  <2>11. TasksOk(task', known') /\ Turns(task, task', t, f)
    BY <1>6, <2>3, <2>10, TasksStep, Zenon DEF SyncInv
  <2>12. BackCounted(task', backtrack_syncing)
    BY <1>1, <1>2, <1>3, <2>4, <2>10, <2>11, BackSame, Zenon DEF SyncInv
  <2>13. BatchListed(task', batch_syncing)
    BY <1>1, <1>2, <2>10, <2>11, BatchSame, Zenon DEF SyncInv
  <2> QED BY <1>5, <1>6, <2>1, <2>11, <2>12, <2>13 DEF SyncInv
<1> QED BY <1>7, <1>8

FetchFrom(e, c, i) == [pc |-> c, peer |-> e.peer, session |-> e.session, req |-> e.req, at |-> i]

\* A handler that goes on fetching.
LEMMA FetchOn ==
    ASSUME SyncConstants, TasksOk(task, known), BackCounted(task, backtrack_syncing),
           BatchListed(task, batch_syncing), NEW t \in Task, IsBatch(task[t]),
           NEW i \in Nat, i <= Height[task[t].req], task' = [task EXCEPT ![t] = FetchFrom(task[t], "batch", i)],
           UNCHANGED <<batch_syncing, backtrack_syncing>>, known \subseteq known'
    PROVE  TasksOk(task', known') /\ BackCounted(task', backtrack_syncing') /\ BatchListed(task', batch_syncing')
<1>1. PICK e : e = task[t] /\ TaskOk(e, known)
  BY DEF TasksOk
<1>2. PICK f : f = FetchFrom(e, "batch", i)
  OBVIOUS
<1>3. f = FetchFrom(f, f.pc, f.at) /\ f.pc = "batch" /\ f.at = i /\ f.peer = e.peer /\ f.req = e.req
  BY <1>2 DEF FetchFrom
<1>4. ~ IsBack(e) /\ IsBatch(e) /\ ~ IsBack(f) /\ IsBatch(f) /\ TaskOk(f, known')
  BY <1>1, <1>3 DEF TaskOk, IsBack, IsBatch, Kinds, Fetching, FetchFrom
<1>5. TasksOk(task', known') /\ Turns(task, task', t, f)
  BY <1>1, <1>2, <1>4, TasksStep, Zenon
<1>6. BackCounted(task', backtrack_syncing)
  BY <1>1, <1>4, <1>5, BackSame
<1>7. BatchListed(task', batch_syncing)
  BY <1>1, <1>3, <1>4, <1>5, BatchSame
<1> QED BY <1>5, <1>6, <1>7

\* The first block of a short sync by batches comes.
LEMMA FirstInv ==
    ASSUME SyncConstants, SyncInv, NEW t \in Task, Y!First(t)
    PROVE  SyncInv'
<1>1. PICK e : e = task[t]
  OBVIOUS
<1>2. e.pc = "first" /\ TaskOk(e, known) /\ Fetching(e) /\ IsBatch(e)
  BY <1>1 DEF Y!First, SyncInv, TasksOk, TaskOk, IsBatch
<1>3. PICK p \in Peer : p = e.peer
  BY <1>2 DEF TaskOk
<1>4. CASE ~ Y!Answers(t, e.at)
  <2>1. Y!Raise(t)
    BY <1>1, <1>4 DEF Y!First
  <2> QED BY <1>1, <1>2, <2>1, RaiseInv
<1>5. CASE Y!Answers(t, e.at)
  <2>1. /\ UNCHANGED <<known, peak, tip, peer_to_peak, long_sync, sync_mode, lock>>
        /\ ChainOk(known', peak') /\ MapsOk(tip', peer_to_peak') /\ known \subseteq known'
    BY <1>1, <1>5 DEF Y!First, Y!chain, Y!far, Y!maps, Y!flags, SyncInv
  <2>2. \/ /\ e.at < Height[e.req] /\ task' = [task EXCEPT ![t].pc = "batch"]
           /\ UNCHANGED <<batch_syncing, backtrack_syncing, sync>>
        \/ task' = [task EXCEPT ![t] = Y!Idle] /\ Y!BatchEnds(p) /\ sync' = sync
        \/ Y!SpawnSync(t) /\ Y!BatchEnds(p)
    BY <1>1, <1>3, <1>5 DEF Y!First, Y!short
  <2>3. CASE /\ e.at < Height[e.req] /\ task' = [task EXCEPT ![t].pc = "batch"]
             /\ UNCHANGED <<batch_syncing, backtrack_syncing, sync>>
    <3>1. task = [u \in Task |-> task[u]] /\ e = FetchFrom(e, e.pc, e.at)
      BY <1>2 DEF SyncInv, TasksOk, Fetching, FetchFrom
    <3>2. [e EXCEPT !.pc = "batch"] = FetchFrom(e, "batch", e.at)
      BY <3>1 DEF FetchFrom
    <3>3. task' = [task EXCEPT ![t] = FetchFrom(e, "batch", e.at)]
      BY <1>1, <2>3, <3>1, <3>2, Zenon
    <3>4. e.at \in Nat /\ e.at <= Height[e.req]
      BY <1>2, <2>3 DEF Fetching, TaskOk, SyncConstants, TreeConstants
    <3>5. TasksOk(task', known') /\ BackCounted(task', backtrack_syncing') /\ BatchListed(task', batch_syncing')
      BY <1>1, <1>2, <2>1, <2>3, <3>3, <3>4, FetchOn, Zenon DEF SyncInv
    <3> QED BY <2>1, <2>3, <3>5 DEF SyncInv
  <2>4. CASE /\ task' = [task EXCEPT ![t] = Y!Idle] /\ Y!BatchEnds(p)
             /\ SyncsOk(sync', long_sync', sync_mode', lock')
    <3>1. TasksOk(task', known') /\ BackCounted(task', backtrack_syncing') /\ BatchListed(task', batch_syncing')
      BY <1>1, <1>2, <1>3, <2>1, <2>4, BatchEnded, Zenon DEF SyncInv
    <3> QED BY <2>1, <2>4, <3>1 DEF SyncInv
  <2>5. CASE task' = [task EXCEPT ![t] = Y!Idle] /\ Y!BatchEnds(p) /\ sync' = sync
    <3>1. SyncsOk(sync', long_sync', sync_mode', lock')
      BY <2>1, <2>5 DEF SyncInv
    <3> QED BY <2>4, <2>5, <3>1
  <2>6. CASE Y!SpawnSync(t) /\ Y!BatchEnds(p)
    <3>1. task' = [task EXCEPT ![t] = Y!Idle] /\ SyncsOk(sync', long_sync', sync_mode', lock')
      BY <2>1, <2>6, SpawnDoes DEF SyncInv
    <3> QED BY <2>4, <2>6, <3>1
  <2> QED BY <2>2, <2>3, <2>5, <2>6
<1> QED BY <1>4, <1>5

\* Where a request ends.
LEMMA BatchEndIs ==
    ASSUME SyncConstants, NEW at \in Nat, NEW b \in Block, at <= Height[b]
    PROVE  Y!BatchEnd(at, b) \in Nat /\ at <= Y!BatchEnd(at, b)
  BY DEF Y!BatchEnd, SyncConstants, TreeConstants

\* A batch of a short sync comes and is added.
LEMMA BatchInv ==
    ASSUME SyncConstants, SyncInv, NEW t \in Task, Y!Batch(t)
    PROVE  SyncInv'
<1>0. TreeConstants /\ MAX_BLOCK_COUNT_PER_REQUESTS \in Nat
  BY DEF SyncConstants
<1>1. PICK e : e = task[t]
  OBVIOUS
<1>2. e.pc = "batch" /\ TaskOk(e, known) /\ Fetching(e) /\ IsBatch(e)
  BY <1>1 DEF Y!Batch, SyncInv, TasksOk, TaskOk, IsBatch
<1>3. PICK p \in Peer : p = e.peer
  BY <1>2 DEF TaskOk
<1>4. PICK T \in Block : T = tip[p]
  BY DEF SyncInv, MapsOk
<1>5. e.req \in Block /\ e.at \in Nat /\ e.at <= Height[e.req] /\ Height[e.req] \in Nat
  BY <1>0, <1>2 DEF TaskOk, Fetching, TreeConstants
<1>6. PICK last \in Nat : last = Y!BatchEnd(e.at, e.req) /\ e.at <= last
  BY <1>5, BatchEndIs
<1>7. CASE Y!Raise(t)
  BY <1>1, <1>2, <1>7, RaiseInv
<1>8. CASE ~ Y!Raise(t)
  <2>1. Y!Answers(t, last)
    BY <1>1, <1>6, <1>8 DEF Y!Batch
  <2>2. last <= Height[T]
    BY <1>1, <1>3, <1>4, <2>1 DEF Y!Answers
  <2>3. PICK s : s = Y!Slice(T, e.at, last)
    OBVIOUS
  <2>4. Linked(s)
    BY <1>0, <1>5, <1>6, <2>2, <2>3, SliceLinked
  <2>5. /\ Y!Receive(s) /\ UNCHANGED <<tip, peer_to_peak, long_sync, sync_mode, lock, sync>>
        /\ \/ task' = [task EXCEPT ![t] = Y!Idle] /\ Y!BatchEnds(p)
           \/ /\ ~ (e.at + MAX_BLOCK_COUNT_PER_REQUESTS >= Height[e.req])
              /\ task' = [task EXCEPT ![t].at = e.at + MAX_BLOCK_COUNT_PER_REQUESTS]
              /\ UNCHANGED <<batch_syncing, backtrack_syncing>>
    BY <1>1, <1>3, <1>4, <1>6, <1>8, <2>1, <2>3 DEF Y!Batch, Y!far, Y!maps, Y!flags, Y!short
  <2>6. ChainOk(known', peak') /\ known \subseteq known' /\ MapsOk(tip', peer_to_peak')
    BY <1>0, <2>4, <2>5, ReceiveKeeps DEF SyncInv
  <2>7. TasksOk(task', known') /\ BackCounted(task', backtrack_syncing') /\ BatchListed(task', batch_syncing')
    <3>1. CASE task' = [task EXCEPT ![t] = Y!Idle] /\ Y!BatchEnds(p)
      BY <1>1, <1>2, <1>3, <2>6, <3>1, BatchEnded, Zenon DEF SyncInv
    <3>2. CASE /\ ~ (e.at + MAX_BLOCK_COUNT_PER_REQUESTS >= Height[e.req])
               /\ task' = [task EXCEPT ![t].at = e.at + MAX_BLOCK_COUNT_PER_REQUESTS]
               /\ UNCHANGED <<batch_syncing, backtrack_syncing>>
      <4>1. PICK i \in Nat : i = e.at + MAX_BLOCK_COUNT_PER_REQUESTS
        BY <1>0, <1>5
      <4>2. task = [u \in Task |-> task[u]] /\ e = FetchFrom(e, "batch", e.at)
        BY <1>2 DEF SyncInv, TasksOk, Fetching, FetchFrom
      <4>3. [e EXCEPT !.at = i] = FetchFrom(e, "batch", i)
        BY <4>2 DEF FetchFrom
      <4>4. task' = [task EXCEPT ![t] = FetchFrom(e, "batch", i)]
        BY <1>1, <3>2, <4>1, <4>2, <4>3, Zenon
      <4>5. i <= Height[e.req]
        BY <1>5, <3>2, <4>1
      <4> QED BY <1>1, <1>2, <2>6, <3>2, <4>4, <4>5, FetchOn, Zenon DEF SyncInv
    <3> QED BY <2>5, <3>1, <3>2
  <2> QED BY <2>5, <2>6, <2>7 DEF SyncInv
<1> QED BY <1>7, <1>8

\* The rest of the state, when only the long syncs take a step.
Others == <<known, peak, tip, task, batch_syncing, backtrack_syncing>>

\* A step of a long sync leaves the rest alone.
LEMMA OthersStay ==
    ASSUME SyncInv, UNCHANGED Others, SyncsOk(sync', long_sync', sync_mode', lock'), MapsOk(tip', peer_to_peak')
    PROVE  SyncInv'
  BY DEF SyncInv, Others

\* A long sync goes on.
LEMMA SyncStep ==
    ASSUME SyncInv, NEW s \in SyncTask, NEW e, SyncOk(e), sync' = [sync EXCEPT ![s] = e], long_sync' = long_sync,
           sync[s].pc \in Working <=> e.pc \in Working,
           \/ sync_mode' = sync_mode /\ (sync[s].pc \in {"lock", "download"} <=> e.pc \in {"lock", "download"})
           \/ sync_mode' = TRUE /\ e.pc = "lock",
           \/ lock' = lock /\ (sync[s].pc = "download" <=> e.pc = "download")
           \/ lock' = s /\ lock \notin SyncTask /\ e.pc = "download"
    PROVE  SyncsOk(sync', long_sync', sync_mode', lock')
<1>0. SyncsOk(sync, long_sync, sync_mode, lock)
  BY DEF SyncInv
<1>3. sync' = [r \in SyncTask |-> sync'[r]] /\ sync'[s] = e /\ \A r \in SyncTask \ {s} : sync'[r] = sync[r]
  BY <1>0 DEF SyncsOk
<1>4. \A r \in SyncTask : SyncOk(sync'[r]) /\ (sync'[r].pc \in Working <=> sync[r].pc \in Working)
  BY <1>0, <1>3 DEF SyncsOk
<1>5. /\ \A r, q \in SyncTask : sync'[r].pc \in Working /\ sync'[q].pc \in Working => r = q
      /\ long_sync' <=> \E r \in SyncTask : sync'[r].pc \in Working
  BY <1>0, <1>4 DEF SyncsOk
<1>6. sync_mode' <=> \E r \in SyncTask : sync'[r].pc \in {"lock", "download"}
  BY <1>0, <1>3 DEF SyncsOk
<1>7. \A r \in SyncTask : lock' = r <=> sync'[r].pc = "download"
  BY <1>0, <1>3 DEF SyncsOk
<1> QED BY <1>3, <1>4, <1>5, <1>6, <1>7 DEF SyncsOk

\* A long sync that ends releases the lock if it has it.
LEMMA EndSyncOk ==
    ASSUME SyncConstants, SyncInv, NEW s \in SyncTask, sync[s].pc \in Working, Y!EndSync(s),
           lock' = IF sync[s].pc = "download" THEN "free" ELSE lock
    PROVE  SyncsOk(sync', long_sync', sync_mode', lock')
<1>1. SyncsOk([sync EXCEPT ![s] = [pc |-> "finish"]], FALSE, FALSE, lock')
  BY SyncEnds, Zenon DEF SyncInv
<1> QED BY <1>1, Zenon DEF Y!EndSync

\* The steps of a long sync up to its weight proof, and its end.
LEMMA SyncBeginsInv ==
    ASSUME SyncConstants, SyncInv, NEW s \in SyncTask,
           Y!SyncStart(s) \/ Y!FinishSync(s) \/ Y!NoProof(s) \/ Y!Downloaded(s)
    PROVE  SyncInv'
<1>0. SyncsOk(sync, long_sync, sync_mode, lock) /\ MapsOk(tip, peer_to_peak)
  BY DEF SyncInv
<1>1. CASE (Y!SyncStart(s) /\ (sync_mode \/ long_sync)) \/ Y!FinishSync(s)
  <2>1. /\ sync[s].pc \in {"spawned", "finish"} /\ sync' = [sync EXCEPT ![s] = Y!None]
        /\ UNCHANGED <<long_sync, sync_mode, lock, peer_to_peak>> /\ UNCHANGED Others
    BY <1>1 DEF Y!SyncStart, Y!FinishSync, Y!chain, Y!far, Y!maps, Y!flags, Y!short, Others
  <2>2. SyncOk(Y!None) /\ Y!None.pc \notin Working /\ sync[s].pc \notin Working
        /\ Y!None.pc = "none"
    BY <2>1, Zenon DEF SyncOk, Y!None, Working
  <2>3. SyncsOk(sync', long_sync', sync_mode', lock')
    BY <1>0, <2>1, <2>2, SyncStep, Zenon
  <2> QED BY <1>0, <2>1, <2>3, OthersStay DEF Others
<1>2. CASE Y!SyncStart(s) /\ ~ (sync_mode \/ long_sync)
  <2>1. /\ sync[s].pc = "spawned" /\ sync' = [sync EXCEPT ![s] = [pc |-> "collect"]] /\ long_sync' = TRUE
        /\ UNCHANGED <<sync_mode, lock, peer_to_peak>> /\ UNCHANGED Others
    BY <1>2 DEF Y!SyncStart, Y!chain, Y!far, Y!maps, Y!short, Others
  <2>2. \A r \in SyncTask : sync[r].pc \notin Working
    BY <1>0, <1>2 DEF SyncsOk
  <2>3. /\ sync' = [r \in SyncTask |-> sync'[r]] /\ sync'[s] = [pc |-> "collect"]
        /\ \A r \in SyncTask \ {s} : sync'[r] = sync[r]
    BY <1>0, <2>1 DEF SyncsOk
  <2>4. SyncOk(sync'[s]) /\ sync'[s].pc = "collect" /\ "collect" \in Working
    BY <2>3 DEF SyncOk, Working
  <2>5. \A r \in SyncTask : SyncOk(sync'[r]) /\ (sync'[r].pc \in Working => r = s)
    BY <1>0, <2>2, <2>3, <2>4 DEF SyncsOk
  <2>6. \A r \in SyncTask : /\ sync'[r].pc = "download" <=> sync[r].pc = "download"
                            /\ sync'[r].pc = "lock" <=> sync[r].pc = "lock"
    BY <2>1, <2>3, <2>4
  <2>7. SyncsOk(sync', TRUE, sync_mode, lock)
    BY <1>0, <2>3, <2>4, <2>5, <2>6 DEF SyncsOk
  <2> QED BY <1>0, <2>1, <2>7, OthersStay DEF Others
<1>3. CASE Y!NoProof(s)
  <2>1. /\ sync[s].pc = "proof" /\ Y!EndSync(s) /\ lock' = lock /\ Y!close(sync[s].peer, sync[s].session)
        /\ UNCHANGED Others
    BY <1>3 DEF Y!NoProof, Y!EndSync, Y!chain, Y!far, Y!short, Others
  <2>2. SyncsOk(sync', long_sync', sync_mode', lock')
    BY <2>1, EndSyncOk, Zenon DEF Working
  <2>3. MapsOk(tip', peer_to_peak')
    BY <1>0, <2>1, CloseMaps, Zenon DEF Others
  <2> QED BY <2>1, <2>2, <2>3, OthersStay
<1>4. CASE Y!Downloaded(s)
  <2>1. /\ sync[s].pc = "download" /\ Y!EndSync(s) /\ lock' = "free" /\ peer_to_peak' = peer_to_peak
        /\ UNCHANGED Others
    BY <1>4, Zenon DEF Y!Downloaded, Y!EndSync, Y!chain, Y!maps, Y!far, Y!short, Others
  <2>2. SyncsOk(sync', long_sync', sync_mode', lock')
    BY <2>1, EndSyncOk, Zenon DEF Working
  <2> QED BY <1>0, <2>1, <2>2, OthersStay, Zenon DEF Others
<1> QED BY <1>1, <1>2, <1>3, <1>4

\* Peaks are collected, and the peers with the target are asked.
LEMMA CollectInv ==
    ASSUME SyncConstants, SyncInv, NEW s \in SyncTask, Y!Collected(s) \/ \E R \in SUBSET Peer : Y!Gathered(s, R)
    PROVE  SyncInv'
<1>0. SyncsOk(sync, long_sync, sync_mode, lock) /\ MapsOk(tip, peer_to_peak)
  BY DEF SyncInv
<1>1. sync[s].pc \in {"collect", "gather"} /\ UNCHANGED Others /\ UNCHANGED <<peer_to_peak, lock>>
  BY DEF Y!Collected, Y!Gathered, Y!AbortSync, Y!EndSync, Y!chain, Y!maps, Y!far, Y!short, Others
<1>2. MapsOk(tip', peer_to_peak')
  BY <1>0, <1>1, Zenon DEF Others
<1>3. CASE Y!EndSync(s)
  <2>1. SyncsOk(sync', long_sync', sync_mode', lock')
    BY <1>1, <1>3, EndSyncOk DEF Working
  <2> QED BY <1>1, <1>2, <2>1, OthersStay
<1>4. CASE ~ Y!EndSync(s)
  <2>1. PICK e : /\ sync' = [sync EXCEPT ![s] = e] /\ UNCHANGED <<long_sync, sync_mode>>
                 /\ e.pc \in {"gather", "proof"} /\ e.target \in Block
    <3>1. CASE Y!Collected(s)
      <4>1. PICK b \in Y!get_heaviest_peak :
              /\ sync' = [sync EXCEPT ![s] = [pc |-> "gather", target |-> b, asked |-> connected]]
              /\ UNCHANGED <<long_sync, sync_mode>>
        BY <1>4, <3>1 DEF Y!Collected, Y!AbortSync
      <4>2. b \in Block
        BY <1>0, <4>1, Zenon DEF Y!get_heaviest_peak, Y!WithKnownPeak, MapsOk
      <4>3. PICK f : f = [pc |-> "gather", target |-> b, asked |-> connected]
        BY Zenon
      <4>4. f.pc = "gather" /\ f.target = b /\ sync' = [sync EXCEPT ![s] = f]
        BY <4>1, <4>3
      <4> QED BY <4>1, <4>2, <4>4, Zenon
    <3>2. CASE \E R \in SUBSET Peer : Y!Gathered(s, R)
      <4>1. PICK p : sync' = [sync EXCEPT ![s] = [pc |-> "proof", target |-> sync[s].target, peer |-> p,
                                                  session |-> session[p]]]
                     /\ UNCHANGED <<long_sync, sync_mode>> /\ sync[s].pc = "gather"
        BY <1>4, <3>2 DEF Y!Gathered, Y!flags
      <4>2. sync[s].target \in Block
        BY <1>0, <4>1 DEF SyncsOk, SyncOk, Working
      <4>3. PICK f : f = [pc |-> "proof", target |-> sync[s].target, peer |-> p, session |-> session[p]]
        BY Zenon
      <4>4. f.pc = "proof" /\ f.target = sync[s].target /\ sync' = [sync EXCEPT ![s] = f]
        BY <4>1, <4>3
      <4> QED BY <4>1, <4>2, <4>4, Zenon
    <3> QED BY <3>1, <3>2
  <2>2. SyncOk(e) /\ e.pc \in Working /\ sync[s].pc \in Working /\ e.pc \notin {"lock", "download"}
    BY <1>1, <2>1 DEF SyncOk, Working
  <2>3. SyncsOk(sync', long_sync', sync_mode', lock')
    BY <1>0, <1>1, <2>1, <2>2, SyncStep, Zenon
  <2> QED BY <1>1, <1>2, <2>3, OthersStay
<1> QED BY <1>3, <1>4

\* The fork point is a height: the last of those the chains have in common.
LEMMA ForkHeightIs ==
    ASSUME TreeConstants, ChainOk(known, peak), NEW b \in Block
    PROVE  Y!ForkHeight(b) \in Nat
<1> DEFINE common == {Height[x] : x \in Y!ChainOf[b] \cap (IF peak = NoBlock THEN {} ELSE Y!ChainOf[peak])}
           T == {Height[b] - h : h \in common}
<1>1. ChainFacts(b) /\ Height[b] \in Nat
  BY ChainFactsHold DEF TreeConstants
<1>2. \A h \in common : h \in Nat /\ h <= Height[b]
  <2>1. ASSUME NEW x \in Y!ChainOf[b] PROVE Height[x] \in Nat /\ Height[x] <= Height[b]
    BY <1>1 DEF ChainFacts, TreeConstants
  <2> QED BY <2>1, Zenon
<1>3. Y!ForkHeight(b) = IF common = {} THEN 0 ELSE CHOOSE h \in common : \A i \in common : i <= h
  BY Zenon DEF Y!ForkHeight
<1> HIDE DEF common
<1>4. ASSUME common # {} PROVE \E h \in common : \A i \in common : i <= h
  <2>1. T \subseteq Nat /\ T # {}
    BY <1>1, <1>2, <1>4
  <2>2. PICK m \in T : \A y \in T : m <= y
    BY <2>1, LeastNatural, Zenon
  <2>3. PICK h \in common : m = Height[b] - h
    BY <2>2, Zenon
  <2>4. ASSUME NEW i \in common PROVE i <= h
    <3>1. Height[b] - i \in T
      BY Zenon
    <3>2. Height[b] - h <= Height[b] - i
      BY <2>2, <2>3, <3>1
    <3> QED BY <1>1, <1>2, <3>2
  <2> QED BY <2>4, Zenon
<1> QED BY <1>2, <1>3, <1>4

\* The weight proof is asked for and validated, and the lock is taken.
LEMMA ProofInv ==
    ASSUME SyncConstants, SyncInv, NEW s \in SyncTask, Y!Proof(s) \/ Y!Validated(s) \/ Y!TakeLock(s)
    PROVE  SyncInv'
<1>0. SyncsOk(sync, long_sync, sync_mode, lock) /\ MapsOk(tip, peer_to_peak) /\ SyncOk(sync[s])
  BY DEF SyncInv, SyncsOk
<1>1. UNCHANGED Others /\ peer_to_peak' = peer_to_peak
  BY Zenon DEF Y!Proof, Y!Validated, Y!TakeLock, Y!AbortSync, Y!EndSync, Y!chain, Y!maps, Y!far, Y!short, Others
<1>2. MapsOk(tip', peer_to_peak')
  BY <1>0, <1>1 DEF Others
<1>3. CASE Y!EndSync(s) /\ Y!Proof(s)
  <2>1. SyncsOk(sync', long_sync', sync_mode', lock')
    <3>1. sync[s].pc = "proof" /\ lock' = lock
      BY <1>3 DEF Y!Proof, Y!AbortSync
    <3> QED BY <1>3, <3>1, EndSyncOk DEF Working
  <2> QED BY <1>1, <1>2, <2>1, OthersStay
<1>4. CASE ~ Y!EndSync(s) /\ Y!Proof(s)
  <2>1. PICK e : e = [pc |-> "validate", target |-> sync[s].target]
    BY Zenon
  <2>2. sync[s].pc = "proof" /\ sync' = [sync EXCEPT ![s] = e] /\ UNCHANGED <<long_sync, sync_mode, lock>>
    BY <1>4, <2>1 DEF Y!Proof, Y!AbortSync, Y!flags
  <2>3. e.pc = "validate" /\ e.target \in Block
    BY <1>0, <2>1, <2>2 DEF SyncOk, Working
  <2>4. SyncOk(e) /\ e.pc \in Working /\ sync[s].pc \in Working /\ e.pc \notin {"lock", "download"}
    BY <2>2, <2>3 DEF SyncOk, Working
  <2>5. SyncsOk(sync', long_sync', sync_mode', lock')
    BY <1>0, <2>2, <2>4, SyncStep, Zenon
  <2> QED BY <1>1, <1>2, <2>5, OthersStay
<1>5. CASE Y!Validated(s)
  <2>0. sync[s].pc = "validate" /\ sync[s].target \in Block
    BY <1>0, <1>5 DEF Y!Validated, SyncOk, Working
  <2>0a. Y!ForkHeight(sync[s].target) \in Nat
    BY <2>0, ForkHeightIs, Zenon DEF SyncInv, SyncConstants
  <2>1. PICK f \in Nat : /\ sync' = [sync EXCEPT ![s] = [pc |-> "lock", target |-> sync[s].target, at |-> f]]
                         /\ sync[s].pc = "validate" /\ sync_mode' = TRUE /\ UNCHANGED <<long_sync, lock>>
    <3>1. PICK f \in 0 .. Y!ForkHeight(sync[s].target) :
            sync' = [sync EXCEPT ![s] = [pc |-> "lock", target |-> sync[s].target, at |-> f]]
      BY <1>5, Zenon DEF Y!Validated
    <3>2. f \in Nat
      BY <2>0a, <3>1
    <3>3. sync_mode' = TRUE /\ UNCHANGED <<long_sync, lock>>
      BY <1>5 DEF Y!Validated
    <3> QED BY <2>0, <3>1, <3>2, <3>3, Zenon
  <2>2. PICK e : e = [pc |-> "lock", target |-> sync[s].target, at |-> f]
    BY Zenon
  <2>3. e.pc = "lock" /\ e.target \in Block /\ e.at \in Nat
    BY <1>0, <2>1, <2>2 DEF SyncOk, Working
  <2>4. SyncOk(e) /\ e.pc \in Working /\ sync[s].pc \in Working /\ e.pc # "download"
    BY <2>1, <2>3 DEF SyncOk, Working
  <2>5. SyncsOk(sync', long_sync', sync_mode', lock')
    BY <2>1, <2>2, <2>3, <2>4, SyncStep, Zenon
  <2> QED BY <1>1, <1>2, <2>5, OthersStay
<1>6. CASE Y!TakeLock(s)
  <2>0. Y!PeakHeight \in Nat /\ sync[s].pc = "lock" /\ sync[s].at \in Nat
    BY <1>0, <1>6, Zenon DEF Y!PeakHeight, SyncInv, ChainOk, SyncConstants, TreeConstants, Y!TakeLock, SyncOk
  <2>1. PICK f \in Nat : /\ sync' = [sync EXCEPT ![s] = [pc |-> "download", target |-> sync[s].target, at |-> f,
                                                         from |-> Y!get_peers_with_peak(sync[s].target)]]
                         /\ lock = "free" /\ lock' = s /\ UNCHANGED <<long_sync, sync_mode>>
    BY <1>6, <2>0, Zenon DEF Y!TakeLock, Y!flags
  <2>2. PICK e : e = [pc |-> "download", target |-> sync[s].target, at |-> f,
                      from |-> Y!get_peers_with_peak(sync[s].target)]
    BY Zenon
  <2>3. /\ e.pc = "download" /\ e.target \in Block /\ e.at \in Nat
        /\ e = [pc |-> "download", target |-> e.target, at |-> e.at, from |-> e.from]
    BY <1>0, <2>0, <2>2, Zenon DEF SyncOk, Working
  <2>4. SyncOk(e) /\ e.pc \in Working /\ sync[s].pc \in Working /\ lock \notin SyncTask
    BY <2>0, <2>1, <2>3 DEF SyncOk, Working, SyncConstants
  <2>5. SyncsOk(sync', long_sync', sync_mode', lock')
    BY <2>0, <2>1, <2>2, <2>3, <2>4, SyncStep, Zenon
  <2> QED BY <1>1, <1>2, <2>5, OthersStay
<1> QED BY <1>3, <1>4, <1>5, <1>6

Down(b, i, c) == [pc |-> "download", target |-> b, at |-> i, from |-> c]

\* A batch of the long sync is downloaded and added.
LEMMA DownloadInv ==
    ASSUME SyncConstants, SyncInv, connected \subseteq Peer, NEW s \in SyncTask, Y!Download(s)
    PROVE  SyncInv'
<1>0. /\ SyncsOk(sync, long_sync, sync_mode, lock) /\ MapsOk(tip, peer_to_peak) /\ SyncOk(sync[s])
      /\ TreeConstants /\ MAX_BLOCK_COUNT_PER_REQUESTS \in Nat
  BY DEF SyncInv, SyncsOk, SyncConstants
<1>1. PICK e : e = sync[s]
  OBVIOUS
<1>2. e.pc = "download" /\ e.target \in Block /\ e.at \in Nat /\ e = Down(e.target, e.at, e.from)
  BY <1>0, <1>1 DEF Y!Download, SyncOk, Working, Down
<1>3. e.at < Height[e.target] /\ Height[e.target] \in Nat
  BY <1>0, <1>1, <1>2 DEF Y!Download, TreeConstants
<1>4. PICK last \in Nat : last = Y!BatchEnd(e.at, e.target) /\ e.at <= last
  BY <1>2, <1>3, BatchEndIs
<1>5. PICK c \in Y!Deliver(s, last) :
        IF Y!Connects(Y!Slice(tip[c[1]], e.at, last)[1])
        THEN /\ Y!Receive(Y!Slice(tip[c[1]], e.at, last))
             /\ sync' = [sync EXCEPT ![s].at = @ + MAX_BLOCK_COUNT_PER_REQUESTS,
                                     ![s].from = IF peers_changed THEN Y!get_peers_with_peak(e.target) ELSE @]
             /\ UNCHANGED <<tip, peer_to_peak, long_sync, sync_mode, task, lock, batch_syncing, backtrack_syncing>>
        ELSE Y!close(c[1], c[2]) /\ Y!EndSync(s) /\ lock' = "free" /\ UNCHANGED <<known, peak>>
  BY <1>1, <1>4 DEF Y!Download, Y!far, Y!flags, Y!short, Y!chain
<1>6. CASE Y!close(c[1], c[2]) /\ Y!EndSync(s) /\ lock' = "free" /\ UNCHANGED <<known, peak>>
  <2>1. UNCHANGED Others
    BY <1>6 DEF Y!EndSync, Y!far, Y!short, Others
  <2>2. SyncsOk(sync', long_sync', sync_mode', lock')
    BY <1>1, <1>2, <1>6, EndSyncOk DEF Working
  <2>3. MapsOk(tip', peer_to_peak')
    BY <1>0, <1>6, <2>1, CloseMaps DEF Others
  <2> QED BY <2>1, <2>2, <2>3, OthersStay
<1>7. CASE /\ Y!Receive(Y!Slice(tip[c[1]], e.at, last))
           /\ sync' = [sync EXCEPT ![s].at = @ + MAX_BLOCK_COUNT_PER_REQUESTS,
                                   ![s].from = IF peers_changed THEN Y!get_peers_with_peak(e.target) ELSE @]
           /\ UNCHANGED <<tip, peer_to_peak, long_sync, sync_mode, task, lock, batch_syncing, backtrack_syncing>>
  <2>1. c[1] \in connected /\ last <= Height[tip[c[1]]]
    BY <1>5 DEF Y!Deliver, Y!Live
  <2>2. PICK T \in Block : T = tip[c[1]]
    BY <1>0, <2>1, Zenon DEF MapsOk
  <2>3. PICK q : q = Y!Slice(T, e.at, last)
    OBVIOUS
  <2>4. Linked(q) /\ Y!Receive(q)
    BY <1>0, <1>2, <1>4, <1>7, <2>1, <2>2, <2>3, SliceLinked
  <2>5. ChainOk(known', peak') /\ known \subseteq known'
    BY <1>0, <2>4, ReceiveKeeps, Zenon DEF SyncInv
  <2>6. TasksOk(task', known')
    <3>1. TasksOk(task, known')
      BY <2>5, TasksLater DEF SyncInv
    <3> QED BY <1>7, <3>1
  <2>7. PICK x : x = IF peers_changed THEN Y!get_peers_with_peak(e.target) ELSE e.from
    OBVIOUS
  <2>8. PICK i \in Nat : i = e.at + MAX_BLOCK_COUNT_PER_REQUESTS
    BY <1>0, <1>2
  <2>9. PICK f : f = Down(e.target, i, x)
    OBVIOUS
  <2>10. sync' = [sync EXCEPT ![s] = f]
    <3> DEFINE Set(z) == [r \in SyncTask |-> IF r = s THEN z ELSE sync[r]]
    <3>1. sync = [r \in SyncTask |-> sync[r]]
      BY <1>0 DEF SyncsOk
    <3>2. PICK g : g = [sync EXCEPT ![s].at = @ + MAX_BLOCK_COUNT_PER_REQUESTS]
      BY Zenon
    <3>3. [e EXCEPT !.at = @ + MAX_BLOCK_COUNT_PER_REQUESTS] = Down(e.target, i, e.from)
      BY <1>2, <2>8 DEF Down
    <3>4. g = Set(Down(e.target, i, e.from))
      BY <1>1, <3>1, <3>2, <3>3
    <3>5. [g EXCEPT ![s].from = x] = Set(Down(e.target, i, x))
      BY <3>4 DEF Down
    <3>6. [sync EXCEPT ![s] = f] = Set(f)
      BY <3>1
    <3>7. sync' = [g EXCEPT ![s].from = x]
      BY <1>1, <1>7, <2>7, <3>2
    <3> HIDE DEF Set
    <3> QED BY <2>9, <3>5, <3>6, <3>7
  <2>11. /\ f.pc = "download" /\ f.target = e.target /\ f.at = i
         /\ f = [pc |-> "download", target |-> f.target, at |-> f.at, from |-> f.from]
    BY <2>9 DEF Down
  <2>12. SyncOk(f) /\ f.pc \in Working /\ sync[s].pc \in Working /\ f.pc = "download" /\ sync[s].pc = "download"
    BY <1>1, <1>2, <2>11 DEF SyncOk, Working
  <2>13. SyncsOk(sync', long_sync', sync_mode', lock')
    BY <1>7, <2>10, <2>12, SyncStep, Zenon
  <2> QED BY <1>7, <2>5, <2>6, <2>13 DEF SyncInv
<1> QED BY <1>5, <1>6, <1>7

\* Connections are those of the peers.
LEMMA CloseConnected ==
    ASSUME connected \subseteq Peer, NEW p, NEW n, Y!close(p, n)
    PROVE  connected' \subseteq Peer
  BY DEF Y!close, Y!net

\* Each step keeps the connections those of peers.
LEMMA ConnectedNext ==
    ASSUME connected \subseteq Peer, [Y!Next]_Y!vars
    PROVE  connected' \subseteq Peer
<1>0. ASSUME UNCHANGED Y!net PROVE connected' \subseteq Peer
  BY <1>0 DEF Y!net
<1>1. ASSUME NEW p \in Peer, NEW b, Y!Grow(p, b) \/ Y!Drop(p) \/ Y!Reconnect(p) \/ Y!Announce(p)
      PROVE  connected' \subseteq Peer
  BY <1>0, <1>1, CloseConnected, Zenon DEF Y!Grow, Y!Drop, Y!Reconnect, Y!Announce, Y!new_peak
<1>2. ASSUME NEW t, Y!Handler(t) \/ Y!TimeOut(t)
      PROVE  connected' \subseteq Peer
  <2>1. CASE Y!Raise(t)
    BY <2>1, CloseConnected DEF Y!Raise
  <2>2. CASE ~ Y!Raise(t)
    BY <1>0, <1>2, <2>2 DEF Y!Handler, Y!TimeOut, Y!Probed, Y!Backtrack, Y!Apply, Y!First, Y!Batch
  <2> QED BY <2>1, <2>2
<1>3. ASSUME NEW s, Y!LongSync(s) \/ Y!NoProof(s)
      PROVE  connected' \subseteq Peer
  <2>1. CASE Y!SyncStart(s) \/ Y!Collected(s) \/ Y!Proof(s) \/ Y!Validated(s) \/ Y!TakeLock(s) \/ Y!Downloaded(s)
             \/ Y!FinishSync(s) \/ \E R \in SUBSET Peer : Y!Gathered(s, R)
    BY <1>0, <2>1, Zenon DEF Y!SyncStart, Y!Collected, Y!Proof, Y!Validated, Y!TakeLock, Y!Downloaded, Y!FinishSync,
                      Y!Gathered, Y!AbortSync
  <2>2. CASE Y!Download(s) \/ Y!NoProof(s)
    BY <1>0, <2>2, CloseConnected DEF Y!Download, Y!NoProof
  <2> QED BY <1>3, <2>1, <2>2 DEF Y!LongSync
<1>4. CASE UNCHANGED Y!vars
  BY <1>0, <1>4 DEF Y!vars
<1> QED BY <1>1, <1>2, <1>3, <1>4 DEF Y!Next

\* Each step keeps the invariant.
LEMMA SyncNext ==
    ASSUME SyncConstants, SyncInv, connected \subseteq Peer, [Y!Next]_Y!vars
    PROVE  SyncInv'
<1>0. ASSUME UNCHANGED Others, UNCHANGED <<sync, long_sync, sync_mode, lock>>, MapsOk(tip', peer_to_peak')
      PROVE  SyncInv'
  <2>1. SyncsOk(sync', long_sync', sync_mode', lock')
    BY <1>0 DEF SyncInv
  <2> QED BY <1>0, <2>1, OthersStay
<1>1. ASSUME NEW p \in Peer, NEW b \in PeerBlock, Y!Grow(p, b) PROVE SyncInv'
  <2>1. /\ UNCHANGED <<known, peak, task, batch_syncing, backtrack_syncing, sync, long_sync, sync_mode, lock, peer_to_peak>>
        /\ tip' = [tip EXCEPT ![p] = b]
    BY <1>1, Zenon DEF Y!Grow, Y!chain, Y!maps, Y!flags, Y!short
  <2>2. MapsOk(tip', peer_to_peak')
    BY <2>1 DEF SyncInv, MapsOk, SyncConstants
  <2> QED BY <2>1, <2>2 DEF SyncInv
<1>2. ASSUME NEW p \in Peer, Y!Drop(p) PROVE SyncInv'
  <2>1. UNCHANGED Others /\ UNCHANGED <<sync, long_sync, sync_mode, lock>> /\ Y!close(p, session[p])
    BY <1>2 DEF Y!Drop, Y!chain, Y!far, Y!flags, Y!short, Others
  <2>2. MapsOk(tip', peer_to_peak')
    BY <2>1, CloseMaps DEF SyncInv, Others
  <2> QED BY <1>0, <2>1, <2>2
<1>3. ASSUME NEW p \in Peer, Y!Reconnect(p) PROVE SyncInv'
  <2>1. UNCHANGED Others /\ UNCHANGED <<sync, long_sync, sync_mode, lock, peer_to_peak>>
    BY <1>3 DEF Y!Reconnect, Y!chain, Y!far, Y!maps, Y!flags, Y!short, Others
  <2>2. MapsOk(tip', peer_to_peak')
    BY <2>1 DEF SyncInv, Others
  <2> QED BY <1>0, <2>1, <2>2
<1>4. ASSUME NEW p \in Peer, Y!Announce(p) PROVE SyncInv'
  BY <1>4, NewPeakInv DEF Y!Announce
<1>5. ASSUME NEW t \in Task, Y!Handler(t) \/ Y!TimeOut(t) PROVE SyncInv'
  BY <1>5, ProbedInv, BacktrackInv, ApplyInv, FirstInv, BatchInv, RaiseInv DEF Y!Handler, Y!TimeOut
<1>6. ASSUME NEW s \in SyncTask, Y!LongSync(s) \/ Y!NoProof(s) PROVE SyncInv'
  BY <1>6, SyncBeginsInv, CollectInv, ProofInv, DownloadInv DEF Y!LongSync
<1>7. CASE UNCHANGED Y!vars
  <2>1. UNCHANGED Others /\ UNCHANGED <<sync, long_sync, sync_mode, lock, peer_to_peak>>
    BY <1>7 DEF Y!vars, Y!chain, Y!far, Y!maps, Y!flags, Y!short, Others
  <2>2. MapsOk(tip', peer_to_peak')
    BY <2>1 DEF SyncInv, Others
  <2> QED BY <1>0, <2>1, <2>2
<1> QED BY <1>1, <1>2, <1>3, <1>4, <1>5, <1>6, <1>7 DEF Y!Next

\* It holds at the start,
LEMMA SyncStarts == ASSUME SyncConstants, Y!Init PROVE SyncInv /\ connected \subseteq Peer
<1>0. TreeConstants
  BY DEF SyncConstants
<1>1. ChainOk(known, peak)
  <2>1. CASE peak = NoBlock
    BY <2>1 DEF Y!Init, ChainOk
  <2>2. CASE peak # NoBlock
    <3>1. peak \in Block /\ known = Y!ChainOf[peak]
      BY <2>2 DEF Y!Init, SyncConstants
    <3>2. ChainFacts(peak)
      BY <1>0, <3>1, ChainFactsHold
    <3> QED BY <2>2, <3>1, <3>2 DEF ChainOk, ChainFacts
  <2> QED BY <2>1, <2>2
<1>2. \A t \in Task : task[t] = Y!Idle
  BY DEF Y!Init
<1>3. TasksOk(task, known)
  BY <1>2, IdleOk, Zenon DEF Y!Init, TasksOk
<1>4. BackCounted(task, backtrack_syncing)
  <2>1. \A p \in Peer : BackFrom(task, p) = {}
    BY <1>2, IdleOk DEF BackFrom
  <2>2. Cardinality({}) = 0
    BY FS_EmptySet
  <2>3. backtrack_syncing = [p \in Peer |-> 0]
    BY Zenon DEF Y!Init
  <2>4. backtrack_syncing \in [Peer -> Int] /\ \A p \in Peer : backtrack_syncing[p] = 0
    BY ONLY <2>3
  <2> QED BY <2>1, <2>2, <2>4, Zenon DEF BackCounted
<1>5. BatchListed(task, batch_syncing)
  BY <1>2, IdleOk DEF BatchListed, Y!Init
<1>6. SyncsOk(sync, long_sync, sync_mode, lock)
  <2>1. \A s \in SyncTask : sync[s].pc = "none" /\ sync[s].pc \notin Working /\ lock # s
    BY DEF Y!Init, Y!None, Working, SyncConstants
  <2>2. \A s \in SyncTask : SyncOk(sync[s])
    BY <2>1 DEF SyncOk, Working
  <2>3. sync = [s \in SyncTask |-> sync[s]] /\ long_sync = FALSE /\ sync_mode = FALSE
    BY DEF Y!Init
  <2> QED BY <2>1, <2>2, <2>3 DEF SyncsOk
<1>7. MapsOk(tip, peer_to_peak) /\ connected \subseteq Peer
  BY DEF Y!Init, MapsOk, SyncConstants, Y!Empty
<1> QED BY <1>1, <1>3, <1>4, <1>5, <1>6, <1>7 DEF SyncInv

\* and implies what is claimed.
LEMMA SyncImplies == ASSUME SyncConstants, SyncInv PROVE Y!SyncSound
<1>1. Y!SyncOnce
  BY DEF SyncInv, SyncsOk, Y!SyncOnce, Y!Syncing, Working
<1>2. Y!CountersMatch
  <2>1. \A p \in Peer : {t \in Task : Y!Backtracking(t) /\ task[t].peer = p} = BackFrom(task, p)
    BY DEF BackFrom, IsBack, Y!Backtracking
  <2>2. \A X : Y!Cardinality(X) = Cardinality(X)
    BY DEF Y!Cardinality, Cardinality
  <2>3. \A p \in Peer : backtrack_syncing[p] = Y!Cardinality({t \in Task : Y!Backtracking(t) /\ task[t].peer = p})
    BY <2>1, <2>2, Zenon DEF SyncInv, BackCounted
  <2> QED BY <2>3 DEF SyncInv, BatchListed, IsBatch, Y!Batching, Y!CountersMatch
<1>3. Y!BacktrackConnects
  <2>1. SUFFICES ASSUME NEW t \in Task, task[t].pc = "apply", Y!Range(task[t].responses) \subseteq Y!ChainOf[task[t].req]
                 PROVE  /\ Y!Connects(task[t].responses[task[t].next])
                        /\ task[t].responses[Len(task[t].responses)] = task[t].req
    BY DEF Y!BacktrackConnects
  <2>2. PICK e : e = task[t]
    OBVIOUS
  <2>3. e.req \in Block /\ Applying(e, known) /\ TreeConstants
    BY <2>1, <2>2 DEF SyncInv, TasksOk, TaskOk, SyncConstants
  <2> QED BY <2>1, <2>2, <2>3, NextConnects, Zenon DEF Y!Connects
<1>4. Y!ChainComplete
  <2>1. \A b \in known : Weight[b] \in Nat /\ Weight[b] <= Weight[peak] /\ peak \in Block
    BY DEF SyncInv, ChainOk, SyncConstants, TreeConstants
  <2>2. \A b \in known : ~ Y!Heavier(b)
    BY <2>1 DEF Y!Heavier, SyncConstants, TreeConstants
  <2> QED BY <2>2, Zenon DEF SyncInv, ChainOk, Y!ChainComplete, Y!Connects
<1> QED BY <1>1, <1>2, <1>3, <1>4 DEF Y!SyncSound

\* There is one long sync at a time, as its flags say; the counters of short syncs count
\* the handlers at work, whatever ends them; the blocks of a backtrack connect; and what
\* all of them add, interleaved, is a chain without gaps whose peak is the heaviest block.
SyncSound == Y!SyncSound

\* However the syncs with several peers overlap, fail and start again: there is one long sync at
\* a time, as its flags say; the counters of short syncs count the handlers at work; the blocks of a
\* backtrack connect; and what all of them add is a chain without gaps with the heaviest block on top.
THEOREM Sync_SyncSound == ASSUME SyncConstants PROVE Y!Spec => []SyncSound
<1>1. Y!Init => SyncInv /\ connected \subseteq Peer
  BY SyncStarts
<1>2. SyncInv /\ connected \subseteq Peer /\ [Y!Next]_Y!vars => (SyncInv /\ connected \subseteq Peer)'
  BY SyncNext, ConnectedNext
<1>3. SyncInv => SyncSound
  BY SyncImplies DEF SyncSound
<1> QED BY <1>1, <1>2, <1>3, PTL DEF Y!Spec
=============================================================================
