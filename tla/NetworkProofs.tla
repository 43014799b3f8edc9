--------------------------- MODULE NetworkProofs ----------------------------
(***************************************************************************)
(* The lock of the node and what it sends around: the blockchain lock      *)
(* excludes, wallets are told what they subscribed to, and transactions    *)
(* that are fetched have their task.  Each section instantiates one        *)
(* component, whose state and constants it declares.                       *)
(***************************************************************************)
EXTENDS LockQueue, Sequences, FiniteFacts

\* The provers of a step that names none, and the seconds they may take.
USE ZenonT(2), SMTT(30)

-----------------------------------------------------------------------------
(* The lock queue *)

\* The clients that _run let in and that have not released the lock: on their
\* way in, inside, or cancelled on their way in.
Busy == called \cup Inside

\* There is one at most, the lock is taken on its behalf, and _run looks for
\* the next one only when it is out.
LockInv ==
    /\ TypeOK
    /\ \A c, d \in Busy : c = d
    /\ \A c \in Busy : locked /\ ~ released
    /\ runner = "get" \/ (runner = "wait" /\ released) => Busy = {} /\ ~ locked
    /\ \A c \in queue \cup called : pc[c] \in {"waiting", "gone"}

\* Nobody holds the lock before the first callback.
LEMMA InitInv == Init => LockInv
  BY Zenon DEF Init, LockInv, TypeOK, Busy, Inside

\* Every step of a client and of _run keeps the invariant.
LEMMA StepInv == LockInv /\ [NextAll]_vars => LockInv'
<1> SUFFICES ASSUME LockInv, [NextAll]_vars PROVE LockInv'
  OBVIOUS
<1> USE DEF LockInv, TypeOK, Busy, Inside
<1>1. ASSUME NEW c \in Client, Enter(c) PROVE LockInv'
  BY <1>1 DEF Enter
<1>2. ASSUME NEW c \in Client, Serve(c) PROVE LockInv'
  BY <1>2, Zenon DEF Serve
<1>3. ASSUME NEW c \in Client, Resume(c) PROVE LockInv'
  BY <1>3 DEF Resume
<1>4. ASSUME NEW c \in Client, Exit(c) PROVE LockInv'
  <2>1. called = {} /\ Inside = {c}
    BY <1>4 DEF Exit
  <2>2. Busy' = {}
    BY <1>4, <2>1 DEF Exit
  <2> QED
    BY <1>4, <2>2, Zenon DEF Exit
<1>5. CASE Wake
  BY <1>5 DEF Wake
<1>6. ASSUME NEW c \in Client, Cancel(c) PROVE LockInv'
  BY <1>6 DEF Cancel
<1>7. CASE Close
  BY <1>7 DEF Close
<1>8. CASE UNCHANGED vars
  BY <1>8 DEF vars
<1> QED
  BY <1>1, <1>2, <1>3, <1>4, <1>5, <1>6, <1>7, <1>8 DEF NextAll, NextCancel, Next, Step

\* The invariant holds with cancelled tasks and across close().
LEMMA InvAlways == SpecAll => []LockInv
  BY InitInv, StepInv, PTL DEF SpecAll

\* At most one task is between __aenter__ and __aexit__ of the blockchain lock.
THEOREM SpecAll_MutualExclusion == SpecAll => []MutualExclusion
<1>1. LockInv => MutualExclusion
  BY DEF LockInv, MutualExclusion, Busy, Inside
<1> QED
  BY <1>1, InvAlways, PTL

\* release in __aexit__ never meets an unlocked lock, and _run finds the inner
\* lock free.
THEOREM SpecAll_LockMatches == SpecAll => []LockMatches
<1>1. LockInv => LockMatches
  BY DEF LockInv, LockMatches, Busy, Inside
<1> QED
  BY <1>1, InvAlways, PTL

\* A step brings one client in when nobody is inside, or takes out the one that is,
\* or changes nothing of this.
LEMMA StepLock ==
  ASSUME LockInv, LockInv', [NextAll]_vars
  PROVE  Inside' = Inside \/ \E c \in Client : L!ComeIn(c) \/ L!GoOut(c)
<1> USE DEF LockInv, TypeOK, Busy, Inside, L!ComeIn, L!GoOut
<1>1. ASSUME pc' = pc PROVE Inside' = Inside
  BY <1>1
<1>2. ASSUME NEW c \in Client, Enter(c) \/ Cancel(c) PROVE Inside' = Inside
  BY <1>2 DEF Enter, Cancel
<1>3. ASSUME NEW c \in Client, Resume(c) PROVE L!ComeIn(c)
  <2>1. Inside = {}
    BY <1>3 DEF Resume
  <2> QED
    BY <1>3, <2>1 DEF Resume
<1>4. ASSUME NEW c \in Client, Exit(c) PROVE L!GoOut(c)
  BY <1>4 DEF Exit
<1>5. CASE UNCHANGED vars
  BY <1>1, <1>5 DEF vars
<1>6. ASSUME NEW c \in Client, Serve(c) PROVE Inside' = Inside
  BY <1>1, <1>6 DEF Serve
<1>7. ASSUME Wake \/ Close PROVE Inside' = Inside
  BY <1>1, <1>7 DEF Wake, Close
<1> QED
  BY <1>2, <1>3, <1>4, <1>5, <1>6, <1>7 DEF NextAll, NextCancel, Next, Step

\* The queue, its runner and its clients together behave as a plain lock.
THEOREM SpecAll_ImplementsLock == SpecAll => ImplementsLock
<1>1. Init => Inside = {}
  BY DEF Init, Inside
<1>2. ASSUME LockInv, LockInv', [NextAll]_vars
      PROVE  [\E c \in Client : L!ComeIn(c) \/ L!GoOut(c)]_Inside
  BY <1>2, StepLock
<1> QED
  BY <1>1, <1>2, InvAlways, PTL DEF SpecAll, ImplementsLock, L!OneAtATime

-----------------------------------------------------------------------------
(* What wallets are told *)

CONSTANTS Wallet, Topic, PuzzleHash, Reg, SubLimit, MaxHeight
VARIABLES here, subs, subsOf, counter, reg, greet, height, version, unsaid, saidPeak, said

W == INSTANCE WalletFeed

FeedConstants == IsFiniteSet(Topic) /\ PuzzleHash \subseteq Topic /\ SubLimit \in Nat

\* The topics of a peer, and that it cannot get another one.
TopicsOf(p, s) == {t \in Topic : p \in s[t]}
AtLimit(p, c) == p \in DOMAIN c /\ c[p] = SubLimit

FeedTypes ==
    /\ here \subseteq Wallet /\ subs \in [Topic -> SUBSET Wallet] /\ subsOf \in [Wallet -> SUBSET Topic]
    /\ DOMAIN counter \subseteq Wallet /\ counter \in [DOMAIN counter -> Nat]
    /\ height \in Nat /\ version \in [Topic -> Nat] /\ unsaid \subseteq Topic
    /\ greet \in [Wallet -> Int] /\ saidPeak \in [Wallet -> Int] /\ said \in [Wallet -> [Topic -> Nat]]
    /\ \A p \in Wallet : saidPeak[p] <= height /\ greet[p] <= height
    /\ \A p \in Wallet, t \in Topic : said[p][t] <= version[t]
    /\ \A t \in Topic : version[t] <= height

CountInv ==
    /\ \A t \in Topic : \A p \in subs[t] : t \in subsOf[p] /\ p \in DOMAIN counter
    /\ \A p \in DOMAIN counter : counter[p] = Cardinality(TopicsOf(p, subs)) /\ counter[p] <= SubLimit

\* A call: who made it is connected if there is somebody to answer; what it has gone
\* through is subscribed to, unless the limit was reached; what it has read is new, or
\* the peer has been told since or will be told.
CallForm(e) ==
    /\ e = [stage |-> e.stage, peer |-> e.peer, todo |-> e.todo, topics |-> e.topics,
            answered |-> e.answered, states |-> e.states]
    /\ e.stage \in {"queued", "hints", "respond", "cancelled"}
    /\ e.peer \in Wallet /\ e.topics \subseteq Topic /\ e.todo \subseteq e.topics /\ e.answered \in BOOLEAN
    /\ e.stage = "queued" => e.todo = e.topics

CallOk(e, h, s, c, v, d, u) ==
    /\ CallForm(e)
    /\ e.stage # "cancelled" /\ e.answered => e.peer \in h
    /\ e.stage \in {"hints", "respond"} => \A t \in e.topics \ e.todo : e.peer \in s[t] \/ AtLimit(e.peer, c)
    /\ e.stage = "respond" =>
         /\ e.todo = {}
         /\ \A t \in e.topics :
              /\ e.states[t] \in Nat /\ e.states[t] <= v[t]
              /\ e.answered /\ e.peer \in s[t] => e.states[t] = v[t] \/ d[e.peer][t] = v[t] \/ t \in u

CallsOk ==
    /\ reg = [r \in Reg |-> reg[r]]
    /\ \A r \in Reg : reg[r] = W!Idle \/ CallOk(reg[r], here, subs, counter, version, said, unsaid)

ToldInv ==
    /\ \A p \in here : unsaid = {} => saidPeak[p] = height \/ greet[p] = height
    /\ \A p \in here, t \in Topic : said[p][t] > 0 =>
         /\ p \in subs[t] => said[p][t] = version[t] \/ t \in unsaid
         /\ p \notin subs[t] => AtLimit(p, counter)
    /\ \A p \in Wallet \ here, t \in Topic : said[p][t] = 0

FeedInv == FeedTypes /\ CountInv /\ CallsOk /\ ToldInv

\* The notions of the component are those of the facts on finite sets.
LEMMA FeedNotions ==
    /\ \A S : W!Cardinality(S) = Cardinality(S)
    /\ \A a, b \in Nat : W!Min({a, b}) \in {a, b} /\ W!Min({a, b}) <= a /\ W!Min({a, b}) <= b
    /\ \A a, b \in Int : W!Max({a, b}) \in {a, b} /\ W!Max({a, b}) >= a /\ W!Max({a, b}) >= b
<1>1. \A S : W!Cardinality(S) = Cardinality(S)
  BY DEF W!Cardinality, Cardinality
<1>3. ASSUME NEW a \in Nat, NEW b \in Nat
      PROVE  W!Min({a, b}) \in {a, b} /\ W!Min({a, b}) <= a /\ W!Min({a, b}) <= b
  <2>1. \E x \in {a, b} : \A y \in {a, b} : x =< y
    OBVIOUS
  <2> QED BY <2>1 DEF W!Min
<1>4. ASSUME NEW a \in Int, NEW b \in Int
      PROVE  W!Max({a, b}) \in {a, b} /\ W!Max({a, b}) >= a /\ W!Max({a, b}) >= b
  <2>1. \E x \in {a, b} : \A y \in {a, b} : x >= y
    OBVIOUS
  <2> QED BY <2>1 DEF W!Max
<1> QED BY <1>1, <1>3, <1>4

\* What a subscription does: up to the limit, the topics that are new, which are counted.
LEMMA SubscribeDoes ==
    ASSUME FeedConstants, FeedTypes, CountInv, NEW p \in Wallet, NEW S \in SUBSET Topic,
           NEW count, count = (IF p \in DOMAIN counter THEN counter[p] ELSE 0), W!Subscribe(p, S, count)
    PROVE  /\ CountInv' /\ subs' \in [Topic -> SUBSET Wallet] /\ subsOf' \in [Wallet -> SUBSET Topic]
           /\ DOMAIN counter' \subseteq Wallet /\ counter' \in [DOMAIN counter' -> Nat]
           /\ \A t \in Topic : subs[t] \subseteq subs'[t] /\ subs'[t] \subseteq subs[t] \cup {p}
           /\ \A q \in Wallet \ {p} : AtLimit(q, counter) => AtLimit(q, counter')
           /\ AtLimit(p, counter) => AtLimit(p, counter') /\ subs' = subs
           /\ \A t \in S : p \in subs'[t] \/ AtLimit(p, counter')
<1> DEFINE new == {t \in S : p \notin subs[t]}
<1>0. /\ subs \in [Topic -> SUBSET Wallet] /\ subsOf \in [Wallet -> SUBSET Topic]
      /\ DOMAIN counter \subseteq Wallet /\ counter \in [DOMAIN counter -> Nat] /\ SubLimit \in Nat
  BY DEF FeedTypes, FeedConstants
<1>1. IsFiniteSet(Topic) /\ \A X \in SUBSET Topic : IsFiniteSet(X) /\ Cardinality(X) \in Nat
  BY FeedNotions, FS_Subset, FS_CardinalityType DEF FeedConstants
<1>2. count \in Nat /\ count <= SubLimit /\ count = Cardinality(TopicsOf(p, subs)) /\ SubLimit - count \in Nat
  <2>1. CASE p \in DOMAIN counter
    BY <1>0, <2>1 DEF CountInv
  <2>2. CASE p \notin DOMAIN counter
    <3>1. TopicsOf(p, subs) = {}
      BY <2>2 DEF CountInv, TopicsOf
    <3> QED BY <1>0, <2>2, <3>1, FS_EmptySet
  <2> QED BY <2>1, <2>2
<1>3. PICK T \in SUBSET new :
        /\ Cardinality(T) = W!Min({Cardinality(new), SubLimit - count})
        /\ subs' = [t \in Topic |-> IF t \in T THEN subs[t] \cup {p} ELSE subs[t]]
        /\ subsOf' = [subsOf EXCEPT ![p] = subsOf[p] \cup T]
        /\ counter' = [q \in DOMAIN counter \cup {p} |-> IF q = p THEN count + Cardinality(T) ELSE counter[q]]
  BY FeedNotions, ZenonT(40) DEF W!Subscribe
<1>4. T \in SUBSET Topic /\ new \in SUBSET Topic
  BY Zenon
<1>5. /\ Cardinality(T) \in Nat /\ Cardinality(new) \in Nat
      /\ Cardinality(T) = Cardinality(new) \/ Cardinality(T) = SubLimit - count
      /\ Cardinality(T) <= SubLimit - count
  <2>1. Cardinality(T) \in Nat /\ Cardinality(new) \in Nat
    BY <1>1, <1>4, Zenon
  <2>2. PICK c, n, k : c = Cardinality(new) /\ n = Cardinality(T) /\ k = SubLimit - count
    BY Zenon
  <2>3. k \in Nat /\ c \in Nat /\ n = W!Min({c, k})
    BY <1>2, <1>3, <2>1, <2>2, Zenon
  <2>4. n \in {c, k} /\ n <= k
    BY <2>3, FeedNotions, Zenon
  <2>5. (n = c \/ n = k) /\ n <= k
    BY <2>4, Zenon
  <2> QED BY <2>1, <2>2, <2>5, Zenon
<1>6. subs' \in [Topic -> SUBSET Wallet] /\ subsOf' \in [Wallet -> SUBSET Topic]
  BY <1>0, <1>3
<1>7. /\ DOMAIN counter' = DOMAIN counter \cup {p} /\ counter'[p] = count + Cardinality(T)
      /\ \A q \in DOMAIN counter \ {p} : counter'[q] = counter[q]
  BY <1>3
<1>8. DOMAIN counter' \subseteq Wallet /\ counter' \in [DOMAIN counter' -> Nat]
  <2>1. \A q \in DOMAIN counter \cup {p} : counter'[q] \in Nat
    BY <1>0, <1>2, <1>5, <1>7
  <2>2. counter' = [q \in DOMAIN counter \cup {p} |-> counter'[q]]
    BY <1>3
  <2>3. counter' \in [DOMAIN counter \cup {p} -> Nat]
    BY <2>1, <2>2
  <2> QED BY <1>0, <1>7, <2>3
<1>9. \A t \in Topic : subs'[t] = IF t \in T THEN subs[t] \cup {p} ELSE subs[t]
  BY <1>3, Zenon
<1>10. AtLimit(p, counter) => AtLimit(p, counter') /\ subs' = subs
  <2> SUFFICES ASSUME AtLimit(p, counter) PROVE AtLimit(p, counter') /\ subs' = subs
    OBVIOUS
  <2>1. count = SubLimit /\ Cardinality(T) = 0
    BY <1>2, <1>5 DEF AtLimit
  <2>2. T = {}
    BY <1>1, <1>4, <2>1, FS_EmptySet, Zenon
  <2>3. subs' = subs
    BY <1>0, <1>3, <2>2
  <2> QED BY <1>7, <2>1, <2>3, <1>0 DEF AtLimit
<1>11. ASSUME NEW t \in S PROVE p \in subs'[t] \/ AtLimit(p, counter')
  <2>1. CASE Cardinality(T) = Cardinality(new)
    <3>1. T = new
      <4> HIDE DEF new
      <4> QED BY <1>1, <1>4, <2>1, FS_Subset
    <3> QED BY <1>4, <1>9, <3>1, Zenon
  <2>2. CASE Cardinality(T) = SubLimit - count
    BY <1>0, <1>2, <1>7, <2>2 DEF AtLimit
  <2> QED BY <1>5, <2>1, <2>2, Zenon
<1>12. CountInv'
  <2>1. ASSUME NEW t \in Topic, NEW q \in subs'[t] PROVE t \in subsOf'[q] /\ q \in DOMAIN counter'
    <3>1. CASE t \in T /\ q = p
      BY <1>0, <1>3, <1>7, <3>1
    <3>2. CASE q \in subs[t]
      <4>1. t \in subsOf[q] /\ q \in DOMAIN counter
        BY <3>2, Zenon DEF CountInv
      <4> QED BY <1>0, <1>3, <1>7, <4>1
    <3> QED BY <1>9, <2>1, <3>1, <3>2, Zenon
  <2>2. ASSUME NEW q \in DOMAIN counter'
        PROVE  counter'[q] = Cardinality(TopicsOf(q, subs')) /\ counter'[q] <= SubLimit
    <3>1. CASE q = p
      <4>1. TopicsOf(p, subs') = TopicsOf(p, subs) \cup T /\ TopicsOf(p, subs) \cap T = {}
        BY <1>4, <1>9, Zenon DEF TopicsOf
      <4>2. TopicsOf(p, subs) \in SUBSET Topic
        BY DEF TopicsOf
      <4>3. Cardinality(TopicsOf(p, subs) \cup T) = Cardinality(TopicsOf(p, subs)) + Cardinality(T) - Cardinality(TopicsOf(p, subs) \cap T)
        BY <1>1, <1>4, <4>2, FS_Union, Zenon
      <4>4. Cardinality(TopicsOf(p, subs) \cap T) = 0
        BY <4>1, FS_EmptySet, Zenon
      <4>5. Cardinality(TopicsOf(p, subs')) = count + Cardinality(T)
        BY <1>2, <1>5, <4>1, <4>3, <4>4
      <4> QED BY <1>0, <1>2, <1>5, <1>7, <3>1, <4>5
    <3>2. CASE q # p
      <4>1. q \in DOMAIN counter /\ counter'[q] = counter[q]
        BY <1>7, <2>2, <3>2
      <4>2. TopicsOf(q, subs') = TopicsOf(q, subs)
        BY <1>9, <3>2, Zenon DEF TopicsOf
      <4> QED BY <4>1, <4>2, Zenon DEF CountInv
    <3> QED BY <3>1, <3>2
  <2> QED BY <2>1, <2>2, Zenon DEF CountInv
<1>13. \A q \in Wallet \ {p} : AtLimit(q, counter) => AtLimit(q, counter')
  BY <1>7 DEF AtLimit
<1>14. \A t \in Topic : subs[t] \subseteq subs'[t] /\ subs'[t] \subseteq subs[t] \cup {p}
  BY <1>9, Zenon
<1> QED BY <1>6, <1>8, <1>10, <1>11, <1>12, <1>13, <1>14

\* A step that changes one call, and nothing that makes another one wrong.
LEMMA CallsFrame ==
    ASSUME CallsOk, NEW r \in Reg, NEW e, reg' = [reg EXCEPT ![r] = e],
           e = W!Idle \/ CallOk(e, here', subs', counter', version', said', unsaid'),
           \A x : CallOk(x, here, subs, counter, version, said, unsaid)
                    => CallOk(x, here', subs', counter', version', said', unsaid')
    PROVE  CallsOk'
<1>1. reg' = [x \in Reg |-> reg'[x]]
  BY DEF CallsOk
<1>2. \A x \in Reg : reg'[x] = W!Idle \/ CallOk(reg'[x], here', subs', counter', version', said', unsaid')
  BY DEF CallsOk
<1> QED BY <1>1, <1>2 DEF CallsOk, W!Idle

\* A subscription of p leaves the calls and what was told as they are.
LEMMA SubscribeKeeps ==
    ASSUME FeedConstants, FeedInv, NEW p \in Wallet, NEW S \in SUBSET Topic,
           NEW count, count = (IF p \in DOMAIN counter THEN counter[p] ELSE 0), W!Subscribe(p, S, count),
           UNCHANGED <<here, greet, height, version, unsaid, saidPeak, said>>
    PROVE  /\ FeedTypes' /\ CountInv' /\ ToldInv'
           /\ \A x : CallOk(x, here, subs, counter, version, said, unsaid)
                       => CallOk(x, here', subs', counter', version', said', unsaid')
<1>0. FeedTypes /\ CountInv /\ ToldInv
  BY DEF FeedInv
<1>1. /\ CountInv' /\ subs' \in [Topic -> SUBSET Wallet] /\ subsOf' \in [Wallet -> SUBSET Topic]
      /\ DOMAIN counter' \subseteq Wallet /\ counter' \in [DOMAIN counter' -> Nat]
      /\ \A t \in Topic : subs[t] \subseteq subs'[t] /\ subs'[t] \subseteq subs[t] \cup {p}
      /\ \A q \in Wallet \ {p} : AtLimit(q, counter) => AtLimit(q, counter')
      /\ AtLimit(p, counter) => AtLimit(p, counter') /\ subs' = subs
  BY <1>0, SubscribeDoes, Zenon
<1>2. FeedTypes'
  BY <1>0, <1>1 DEF FeedTypes
<1>3. ToldInv'
  <2>1. ASSUME NEW q \in here', NEW t \in Topic, said'[q][t] > 0
        PROVE  /\ q \in subs'[t] => said'[q][t] = version'[t] \/ t \in unsaid'
               /\ q \notin subs'[t] => AtLimit(q, counter')
    <3>1. q \in here /\ said[q][t] > 0 /\ q \in Wallet
      BY <1>0, <2>1 DEF FeedTypes
    <3>2. /\ q \in subs[t] => said[q][t] = version[t] \/ t \in unsaid
          /\ q \notin subs[t] => AtLimit(q, counter)
      BY <1>0, <3>1, Zenon DEF ToldInv
    <3> QED BY <1>1, <3>1, <3>2
  <2> QED BY <1>0, <2>1, Zenon DEF ToldInv
<1>4. ASSUME NEW x, CallOk(x, here, subs, counter, version, said, unsaid)
      PROVE  CallOk(x, here', subs', counter', version', said', unsaid')
  <2>1. CallForm(x) /\ x.peer \in Wallet /\ x.topics \subseteq Topic
    BY <1>4 DEF CallOk, CallForm
  <2>2. ASSUME NEW t \in x.topics \ x.todo, x.stage \in {"hints", "respond"}
        PROVE  x.peer \in subs'[t] \/ AtLimit(x.peer, counter')
    BY <1>1, <1>4, <2>1, <2>2 DEF CallOk
  <2>3. ASSUME NEW t \in x.topics, x.stage = "respond", x.answered, x.peer \in subs'[t]
        PROVE  x.states[t] = version[t] \/ said[x.peer][t] = version[t] \/ t \in unsaid
    <3>1. x.peer \in subs[t] \/ AtLimit(x.peer, counter)
      BY <1>4, <2>3, Zenon DEF CallOk
    <3>2. x.peer \in subs[t]
      BY <1>1, <2>1, <2>3, <3>1
    <3> QED BY <1>4, <2>3, <3>2, Zenon DEF CallOk
  <2> QED BY <1>4, <2>1, <2>2, <2>3, Zenon DEF CallOk
<1> QED BY <1>1, <1>2, <1>3, <1>4

\* The call e at stage s, with x to do and the states y.
Entry(e, s, x, y) ==
    [stage |-> s, peer |-> e.peer, todo |-> x, topics |-> e.topics, answered |-> e.answered, states |-> y]

\* A call that goes on, written out as a record.
LEMMA CallChanges ==
    ASSUME CallsOk, NEW r \in Reg, CallForm(reg[r])
    PROVE  /\ \A s : [reg EXCEPT ![r].stage = s] = [reg EXCEPT ![r] = Entry(reg[r], s, reg[r].todo, reg[r].states)]
           /\ \A x : [reg EXCEPT ![r].todo = x] = [reg EXCEPT ![r] = Entry(reg[r], reg[r].stage, x, reg[r].states)]
           /\ \A s, x : [reg EXCEPT ![r].stage = s, ![r].todo = x]
                          = [reg EXCEPT ![r] = Entry(reg[r], s, x, reg[r].states)]
           /\ \A s, y : [reg EXCEPT ![r].states = y, ![r].stage = s]
                          = [reg EXCEPT ![r] = Entry(reg[r], s, reg[r].todo, y)]
<1> SUFFICES ASSUME NEW s, NEW x, NEW y
    PROVE  /\ [reg EXCEPT ![r].stage = s] = [reg EXCEPT ![r] = Entry(reg[r], s, reg[r].todo, reg[r].states)]
           /\ [reg EXCEPT ![r].todo = x] = [reg EXCEPT ![r] = Entry(reg[r], reg[r].stage, x, reg[r].states)]
           /\ [reg EXCEPT ![r].stage = s, ![r].todo = x] = [reg EXCEPT ![r] = Entry(reg[r], s, x, reg[r].states)]
           /\ [reg EXCEPT ![r].states = y, ![r].stage = s] = [reg EXCEPT ![r] = Entry(reg[r], s, reg[r].todo, y)]
  BY Zenon
<1>1. PICK e : e = reg[r] /\ e = Entry(e, e.stage, e.todo, e.states) /\ reg = [q \in Reg |-> reg[q]]
  BY DEF CallsOk, CallForm, Entry
<1> DEFINE Set(z) == [q \in Reg |-> IF q = r THEN z ELSE reg[q]]
<1>2. \A z : [reg EXCEPT ![r] = z] = Set(z)
  BY <1>1
<1>3. /\ [e EXCEPT !.stage = s] = Entry(e, s, e.todo, e.states)
      /\ [e EXCEPT !.todo = x] = Entry(e, e.stage, x, e.states)
      /\ [e EXCEPT !.states = y] = Entry(e, e.stage, e.todo, y)
  BY <1>1 DEF Entry
<1>4. /\ [reg EXCEPT ![r].stage = s] = Set(Entry(e, s, e.todo, e.states))
      /\ [reg EXCEPT ![r].todo = x] = Set(Entry(e, e.stage, x, e.states))
      /\ [reg EXCEPT ![r].states = y] = Set(Entry(e, e.stage, e.todo, y))
  BY <1>1, <1>3, Zenon
<1>5. [reg EXCEPT ![r].stage = s, ![r].todo = x] = Set(Entry(e, s, x, e.states))
  <2>1. PICK g : g = [reg EXCEPT ![r].stage = s]
    BY Zenon
  <2>2. g = Set(Entry(e, s, e.todo, e.states))
    BY <1>4, <2>1
  <2>3. [g EXCEPT ![r].todo = x] = Set(Entry(e, s, x, e.states))
    BY <2>2 DEF Entry
  <2> QED BY <2>1, <2>3
<1>6. [reg EXCEPT ![r].states = y, ![r].stage = s] = Set(Entry(e, s, e.todo, y))
  <2>1. PICK g : g = [reg EXCEPT ![r].states = y]
    BY Zenon
  <2>2. g = Set(Entry(e, e.stage, e.todo, y))
    BY <1>4, <2>1
  <2>3. [g EXCEPT ![r].stage = s] = Set(Entry(e, s, e.todo, y))
    BY <2>2 DEF Entry
  <2> QED BY <2>1, <2>3
<1> HIDE DEF Set
<1> QED BY <1>1, <1>2, <1>4, <1>5, <1>6, Zenon

\* A wallet registers for puzzle hashes or coins.
LEMMA RegisterInv ==
    ASSUME FeedConstants, FeedInv, NEW r \in Reg, W!StartRegister(r) \/ W!RegisterPuzzleHash(r)
    PROVE  FeedInv'
<1>0. FeedTypes /\ CountInv /\ ToldInv /\ CallsOk
  BY DEF FeedInv
<1>1. PICK e : e = reg[r] /\ CallOk(e, here, subs, counter, version, said, unsaid)
               /\ CallForm(e) /\ e.peer \in Wallet /\ e.topics \subseteq Topic /\ e.todo \subseteq e.topics
  BY <1>0 DEF W!StartRegister, W!RegisterPuzzleHash, CallsOk, CallOk, CallForm
<1>2. CASE W!StartRegister(r)
  <2>1. PICK at : at = IF e.peer \in DOMAIN counter THEN counter[e.peer] ELSE 0
    OBVIOUS
  <2>2. PICK S \in SUBSET Topic : S = e.todo \ PuzzleHash
    BY <1>1, Zenon
  <2>3. PICK f : f = Entry(e, "hints", e.todo \cap PuzzleHash, e.states)
    OBVIOUS
  <2>4. /\ e.stage = "queued" /\ W!Subscribe(e.peer, S, at)
        /\ reg' = [reg EXCEPT ![r].stage = "hints", ![r].todo = e.todo \cap PuzzleHash]
        /\ UNCHANGED <<here, greet, height, version, unsaid, saidPeak, said>>
    BY <1>1, <1>2, <2>1, <2>2 DEF W!StartRegister, W!ledger, W!sent
  <2>5. reg' = [reg EXCEPT ![r] = f]
    <3>1. CallForm(reg[r])
      BY <1>1, Zenon
    <3>2. [reg EXCEPT ![r].stage = "hints", ![r].todo = e.todo \cap PuzzleHash]
            = [reg EXCEPT ![r] = Entry(reg[r], "hints", e.todo \cap PuzzleHash, reg[r].states)]
      <4>1. \A s, x : [reg EXCEPT ![r].stage = s, ![r].todo = x]
                          = [reg EXCEPT ![r] = Entry(reg[r], s, x, reg[r].states)]
        BY <1>0, <3>1, CallChanges, Zenon
      <4> QED BY ONLY <4>1, Zenon
    <3> QED BY <1>1, <2>3, <2>4, <3>2
  <2>6. /\ FeedTypes' /\ CountInv' /\ ToldInv'
        /\ \A x : CallOk(x, here, subs, counter, version, said, unsaid)
                    => CallOk(x, here', subs', counter', version', said', unsaid')
    BY <1>1, <2>1, <2>4, SubscribeKeeps
  <2>7. \A t \in S : e.peer \in subs'[t] \/ AtLimit(e.peer, counter')
    <3>1. PICK p \in Wallet : p = e.peer
      BY <1>1, Zenon
    <3>2. W!Subscribe(p, S, at) /\ at = IF p \in DOMAIN counter THEN counter[p] ELSE 0
      BY <2>1, <2>4, <3>1
    <3>3. \A t \in S : p \in subs'[t] \/ AtLimit(p, counter')
      BY <1>0, <3>2, SubscribeDoes, Zenon
    <3> QED BY <3>1, <3>3
  <2>8. CallForm(f) /\ f.topics \ f.todo = S /\ f.stage = "hints" /\ f.peer = e.peer /\ f.answered = e.answered
    BY <1>1, <2>2, <2>3, <2>4 DEF Entry, CallForm
  <2>9. e.answered => e.peer \in here'
    BY <1>1, <2>4 DEF CallOk
  <2>10. CallOk(f, here', subs', counter', version', said', unsaid')
    BY <2>7, <2>8, <2>9 DEF CallOk
  <2>11. CallsOk'
    BY <1>0, <2>5, <2>6, <2>10, CallsFrame, Zenon
  <2> QED BY <2>6, <2>11 DEF FeedInv
<1>3. CASE W!RegisterPuzzleHash(r)
  <2>1. PICK t \in e.todo :
           \/ /\ e.peer \in DOMAIN counter /\ W!Subscribe(e.peer, {t}, counter[e.peer])
              /\ reg' = [reg EXCEPT ![r].todo = e.todo \ {t}]
           \/ reg' = [reg EXCEPT ![r].stage = "cancelled"] /\ UNCHANGED <<subs, subsOf, counter>>
    BY <1>1, <1>3, Zenon DEF W!RegisterPuzzleHash, W!registry
  <2>2. e.stage = "hints" /\ UNCHANGED <<here, greet, height, version, unsaid, saidPeak, said>>
    BY <1>1, <1>3 DEF W!RegisterPuzzleHash, W!ledger, W!sent
  <2>3. CASE /\ e.peer \in DOMAIN counter /\ W!Subscribe(e.peer, {t}, counter[e.peer])
             /\ reg' = [reg EXCEPT ![r].todo = e.todo \ {t}]
    <3>1. PICK at : at = counter[e.peer] /\ at = IF e.peer \in DOMAIN counter THEN counter[e.peer] ELSE 0
      BY <2>3
    <3>2. PICK S \in SUBSET Topic : S = {t}
      BY <1>1, <2>1
    <3>3. PICK f : f = Entry(e, "hints", e.todo \ {t}, e.states)
      OBVIOUS
    <3>4. W!Subscribe(e.peer, S, at)
      BY <2>3, <3>1, <3>2
    <3>5. reg' = [reg EXCEPT ![r] = f]
      <4>1. CallForm(reg[r])
        BY <1>1
      <4>2. [reg EXCEPT ![r].todo = e.todo \ {t}]
              = [reg EXCEPT ![r] = Entry(reg[r], reg[r].stage, e.todo \ {t}, reg[r].states)]
        BY <1>0, <4>1, CallChanges, Zenon
      <4> QED BY <1>1, <2>2, <2>3, <3>3, <4>2
    <3>6. /\ FeedTypes' /\ CountInv' /\ ToldInv'
          /\ \A x : CallOk(x, here, subs, counter, version, said, unsaid)
                      => CallOk(x, here', subs', counter', version', said', unsaid')
      BY <1>1, <2>2, <3>1, <3>4, SubscribeKeeps
    <3>7. \A u \in S : e.peer \in subs'[u] \/ AtLimit(e.peer, counter')
      BY <1>0, <1>1, <3>1, <3>4, SubscribeDoes, Zenon
    <3>8. CallForm(f) /\ f.topics = e.topics /\ f.stage = "hints" /\ f.peer = e.peer /\ f.answered = e.answered
          /\ f.todo = e.todo \ {t}
      BY <1>1, <2>2, <3>3 DEF Entry, CallForm
    <3>9. CallOk(e, here', subs', counter', version', said', unsaid')
      BY <1>1, <3>6
    <3>10. \A u \in f.topics \ f.todo : e.peer \in subs'[u] \/ AtLimit(e.peer, counter')
      BY <2>2, <3>2, <3>7, <3>8, <3>9 DEF CallOk
    <3>11. CallOk(f, here', subs', counter', version', said', unsaid')
      BY <2>2, <3>8, <3>9, <3>10 DEF CallOk
    <3>12. CallsOk'
      BY <1>0, <3>5, <3>6, <3>11, CallsFrame, Zenon
    <3> QED BY <3>6, <3>12 DEF FeedInv
  <2>4. CASE reg' = [reg EXCEPT ![r].stage = "cancelled"] /\ UNCHANGED <<subs, subsOf, counter>>
    <3>1. PICK f : f = Entry(e, "cancelled", e.todo, e.states)
      OBVIOUS
    <3>2. reg' = [reg EXCEPT ![r] = f]
      BY <1>0, <1>1, <2>4, <3>1, CallChanges, Zenon
    <3>3. CallOk(f, here', subs', counter', version', said', unsaid')
      BY <1>1, <3>1 DEF Entry, CallForm, CallOk
    <3>4. CallsOk'
      BY <1>0, <2>2, <2>4, <3>2, <3>3, CallsFrame, Zenon
    <3> QED BY <1>0, <2>2, <2>4, <3>4 DEF FeedInv, FeedTypes, CountInv, ToldInv
  <2> QED BY <2>1, <2>3, <2>4
<1> QED BY <1>2, <1>3

\* The other steps of a call.
LEMMA CallStepInv ==
    ASSUME FeedInv, NEW r \in Reg,
           \/ W!ReadStates(r) \/ W!EndRegister(r)
           \/ \E p \in Wallet : \E S \in SUBSET Topic : W!RequestStates(r, p, S)
    PROVE  FeedInv'
<1>0. FeedTypes /\ CountInv /\ ToldInv /\ CallsOk
  BY DEF FeedInv
<1>1. /\ UNCHANGED <<here, subs, subsOf, counter, greet, height, version, unsaid, saidPeak, said>>
  BY DEF W!ReadStates, W!EndRegister, W!RequestStates, W!registry, W!ledger, W!sent
<1>2. FeedTypes' /\ CountInv' /\ ToldInv'
  BY <1>0, <1>1 DEF FeedTypes, CountInv, ToldInv
<1>3. ASSUME NEW f, reg' = [reg EXCEPT ![r] = f],
             f = W!Idle \/ CallOk(f, here, subs, counter, version, said, unsaid)
      PROVE  FeedInv'
  <2>1. CallsOk'
    BY <1>0, <1>1, <1>3, CallsFrame, Zenon
  <2> QED BY <1>2, <2>1 DEF FeedInv
<1>4. CASE W!ReadStates(r)
  <2>1. PICK e : e = reg[r] /\ CallOk(e, here, subs, counter, version, said, unsaid)
                 /\ CallForm(e) /\ e.peer \in Wallet /\ e.topics \subseteq Topic
    BY <1>0, <1>4, Zenon DEF W!ReadStates, CallsOk, CallOk, CallForm
  <2>2. PICK y : y = [t \in e.topics |-> version[t]]
    BY Zenon
  <2>3. e.stage = "hints" /\ e.todo = {} /\ reg' = [reg EXCEPT ![r].states = y, ![r].stage = "respond"]
    BY <1>4, <2>1, <2>2 DEF W!ReadStates
  <2>4. PICK f : f = Entry(e, "respond", e.todo, y)
    OBVIOUS
  <2>5. reg' = [reg EXCEPT ![r] = f]
    <3>1. CallForm(reg[r])
      BY <2>1
    <3>2. \A s, z : [reg EXCEPT ![r].states = z, ![r].stage = s]
                      = [reg EXCEPT ![r] = Entry(reg[r], s, reg[r].todo, z)]
      BY <1>0, <3>1, CallChanges, Zenon
    <3>3. [reg EXCEPT ![r].states = y, ![r].stage = "respond"]
            = [reg EXCEPT ![r] = Entry(reg[r], "respond", reg[r].todo, y)]
      BY ONLY <3>2, Zenon
    <3> QED BY <2>1, <2>3, <2>4, <3>3
  <2>6. /\ f.stage = "respond" /\ f.peer = e.peer /\ f.topics = e.topics /\ f.todo = {} /\ f.answered = e.answered
        /\ f.states = y /\ CallForm(f)
    BY <2>1, <2>3, <2>4 DEF Entry, CallForm
  <2>7. \A t \in e.topics : y[t] \in Nat /\ y[t] <= version[t] /\ y[t] = version[t]
    BY <1>0, <2>1, <2>2 DEF FeedTypes
  <2>8. CallOk(f, here, subs, counter, version, said, unsaid)
    BY <2>1, <2>3, <2>6, <2>7 DEF CallOk
  <2> QED BY <1>3, <2>5, <2>8, Zenon
<1>5. CASE W!EndRegister(r)
  BY <1>3, <1>5, Zenon DEF W!EndRegister
<1>6. ASSUME NEW p \in Wallet, NEW S \in SUBSET Topic, W!RequestStates(r, p, S) PROVE FeedInv'
  <2>1. PICK f : f = [stage |-> "queued", peer |-> p, todo |-> S, topics |-> S,
                      answered |-> TRUE, states |-> [t \in S |-> 0]]
    BY Zenon
  <2>2. p \in here /\ reg' = [reg EXCEPT ![r] = f]
    BY <1>6, <2>1 DEF W!RequestStates
  <2>3. CallOk(f, here, subs, counter, version, said, unsaid)
    BY <2>1, <2>2 DEF CallOk, CallForm
  <2> QED BY <1>3, <2>2, <2>3, Zenon
<1> QED BY <1>4, <1>5, <1>6

\* The steps of the connection that leave the calls alone.
LEMMA ConnectInv ==
    ASSUME FeedInv, NEW p \in Wallet, W!Connect(p) \/ W!on_connect(p)
    PROVE  FeedInv'
<1>0. FeedTypes /\ CountInv /\ ToldInv /\ CallsOk
  BY DEF FeedInv
<1>1. UNCHANGED <<subs, subsOf, counter, reg, height, version, unsaid, said>> /\ here \subseteq here' /\ here' \subseteq here \cup {p}
  BY DEF W!Connect, W!on_connect, W!registry, W!ledger, W!sent
<1>2. CountInv'
  BY <1>0, <1>1 DEF CountInv
<1>3. CallsOk'
  <2>1. \A x : CallOk(x, here, subs, counter, version, said, unsaid)
                 => CallOk(x, here', subs', counter', version', said', unsaid')
    BY <1>1 DEF CallOk
  <2> QED BY <1>0, <1>1, <2>1 DEF CallsOk, W!Idle
<1>4. CASE W!Connect(p)
  <2>1. p \notin here /\ here' = here \cup {p} /\ greet' = [greet EXCEPT ![p] = height] /\ saidPeak' = saidPeak
    BY <1>4 DEF W!Connect, W!sent
  <2>2. FeedTypes'
    BY <1>0, <1>1, <2>1 DEF FeedTypes
  <2>3. \A q \in here' : unsaid' = {} => saidPeak'[q] = height' \/ greet'[q] = height'
    BY <1>0, <1>1, <2>1 DEF FeedTypes, ToldInv
  <2>4. \A t \in Topic : said[p][t] = 0
    BY <1>0, <2>1 DEF ToldInv
  <2>5. ToldInv'
    BY <1>0, <1>1, <2>1, <2>3, <2>4 DEF ToldInv
  <2> QED BY <1>2, <1>3, <2>2, <2>5 DEF FeedInv
<1>5. CASE W!on_connect(p)
  <2>1. PICK m : m = W!Max({saidPeak[p], greet[p]})
    OBVIOUS
  <2>2. here' = here /\ saidPeak' = [saidPeak EXCEPT ![p] = m] /\ greet' = [greet EXCEPT ![p] = W!Nothing]
    BY <1>5, <2>1 DEF W!on_connect
  <2>3. m \in {saidPeak[p], greet[p]} /\ m >= saidPeak[p] /\ m >= greet[p] /\ m \in Int /\ m <= height
    <3>1. saidPeak[p] \in Int /\ greet[p] \in Int /\ saidPeak[p] <= height /\ greet[p] <= height
      BY <1>0 DEF FeedTypes
    <3>2. m \in {saidPeak[p], greet[p]} /\ m >= saidPeak[p] /\ m >= greet[p]
      BY <2>1, <3>1, FeedNotions, Zenon
    <3> QED BY <3>1, <3>2
  <2>4. W!Nothing \in Int /\ W!Nothing < 0
    BY DEF W!Nothing
  <2>5. FeedTypes'
    BY <1>0, <1>1, <2>2, <2>3, <2>4 DEF FeedTypes
  <2>6. ASSUME NEW q \in here', unsaid' = {} PROVE saidPeak'[q] = height' \/ greet'[q] = height'
    <3>1. q \in Wallet /\ (saidPeak[q] = height \/ greet[q] = height) /\ height' = height
      BY <1>0, <1>1, <2>2, <2>6 DEF FeedTypes, ToldInv
    <3>2. CASE q = p
      <4>1. m = height
        <5>1. height \in Int /\ m >= height /\ m <= height /\ m \in Int
          BY <1>0, <2>3, <3>1, <3>2 DEF FeedTypes
        <5> QED BY <5>1
      <4> QED BY <1>0, <2>2, <3>1, <3>2, <4>1 DEF FeedTypes
    <3>3. CASE q # p
      BY <1>0, <2>2, <3>1, <3>3 DEF FeedTypes
    <3> QED BY <3>2, <3>3
  <2>7. ToldInv'
    BY <1>0, <1>1, <2>2, <2>6 DEF ToldInv
  <2> QED BY <1>2, <1>3, <2>5, <2>7 DEF FeedInv
<1> QED BY <1>4, <1>5

\* The wallet is gone: with it what it was subscribed to, and its calls.
LEMMA DisconnectInv ==
    ASSUME FeedInv, NEW p \in Wallet, W!Disconnect(p)
    PROVE  FeedInv'
<1>0. FeedTypes /\ CountInv /\ ToldInv /\ CallsOk
  BY DEF FeedInv
<1>1. /\ here' = here \ {p} /\ subsOf' = subsOf /\ UNCHANGED <<height, version, unsaid>>
      /\ subs' = [t \in Topic |-> IF t \in subsOf[p] THEN subs[t] \ {p} ELSE subs[t]]
      /\ counter' = [q \in DOMAIN counter \ {p} |-> counter[q]]
      /\ greet' = [greet EXCEPT ![p] = W!Nothing] /\ saidPeak' = [saidPeak EXCEPT ![p] = 0]
      /\ said' = [said EXCEPT ![p] = [t \in Topic |-> 0]]
  BY DEF W!Disconnect, W!remove_subscriptions, W!ledger
<1>2. \A t \in Topic : subs'[t] = subs[t] \ {p}
  BY <1>0, <1>1 DEF CountInv
<1>3. FeedTypes'
  <2>1. subs' \in [Topic -> SUBSET Wallet] /\ here' \subseteq Wallet
    BY <1>0, <1>1 DEF FeedTypes
  <2>2. DOMAIN counter' \subseteq Wallet /\ counter' \in [DOMAIN counter' -> Nat]
    BY <1>0, <1>1 DEF FeedTypes
  <2>3. W!Nothing \in Int /\ W!Nothing < 0
    BY DEF W!Nothing
  <2>4. /\ greet' \in [Wallet -> Int] /\ saidPeak' \in [Wallet -> Int]
        /\ \A q \in Wallet : saidPeak'[q] <= height /\ greet'[q] <= height
    BY <1>0, <1>1, <2>3 DEF FeedTypes
  <2>5. said' \in [Wallet -> [Topic -> Nat]] /\ \A q \in Wallet, t \in Topic : said'[q][t] <= version[t]
    BY <1>0, <1>1 DEF FeedTypes
  <2> QED BY <1>0, <1>1, <2>1, <2>2, <2>4, <2>5 DEF FeedTypes
<1>4. CountInv'
  <2>1. \A q : q # p => TopicsOf(q, subs') = TopicsOf(q, subs)
    BY <1>2 DEF TopicsOf
  <2>2. \A q \in DOMAIN counter' : q # p /\ q \in DOMAIN counter /\ counter'[q] = counter[q]
    BY <1>1
  <2>3. DOMAIN counter' = DOMAIN counter \ {p}
    BY <1>1
  <2>4. \A t \in Topic : \A q \in subs'[t] : t \in subsOf'[q] /\ q \in DOMAIN counter'
    BY <1>0, <1>1, <1>2, <2>3 DEF CountInv
  <2>5. \A q \in DOMAIN counter' : counter'[q] = Cardinality(TopicsOf(q, subs')) /\ counter'[q] <= SubLimit
    BY <1>0, <2>1, <2>2 DEF CountInv
  <2> QED BY <2>4, <2>5 DEF CountInv
<1>5. \A q \in Wallet \ {p} : /\ AtLimit(q, counter) <=> AtLimit(q, counter')
                              /\ said'[q] = said[q]
                              /\ \A t \in Topic : q \in subs[t] <=> q \in subs'[t]
  BY <1>0, <1>1, <1>2 DEF AtLimit, FeedTypes
<1>6. ToldInv'
  <2>1. \A q \in here' : q \in here /\ q \in Wallet \ {p} /\ saidPeak'[q] = saidPeak[q] /\ greet'[q] = greet[q]
    BY <1>0, <1>1 DEF FeedTypes
  <2>2. \A t \in Topic : said'[p][t] = 0
    BY <1>0, <1>1 DEF FeedTypes
  <2>3. \A q \in Wallet \ here' : q = p \/ q \in (Wallet \ here) \ {p}
    BY <1>1
  <2>4. \A q \in Wallet \ here', t \in Topic : said'[q][t] = 0
    BY <1>0, <1>5, <2>2, <2>3 DEF ToldInv
  <2> QED BY <1>0, <1>1, <1>5, <2>1, <2>4, ZenonT(40) DEF ToldInv
<1>7. CallsOk'
  <2>1. reg' = [r \in Reg |-> IF reg[r] = W!Idle \/ reg[r].peer # p THEN reg[r]
                              ELSE IF reg[r].stage = "queued" THEN [reg[r] EXCEPT !.answered = FALSE]
                              ELSE [reg[r] EXCEPT !.stage = "cancelled"]]
    BY DEF W!Disconnect
  <2>2. ASSUME NEW e, CallOk(e, here, subs, counter, version, said, unsaid), e.peer # p
        PROVE  CallOk(e, here', subs', counter', version', said', unsaid')
    <3>1. e.peer \in Wallet \ {p} /\ e.topics \subseteq Topic
      BY <2>2 DEF CallOk, CallForm
    <3> QED BY <1>1, <1>5, <2>2, <3>1, Zenon DEF CallOk
  <2>3. ASSUME NEW e, CallForm(e)
        PROVE  /\ e.stage = "queued" =>
                    CallOk([e EXCEPT !.answered = FALSE], here', subs', counter', version', said', unsaid')
               /\ CallOk([e EXCEPT !.stage = "cancelled"], here', subs', counter', version', said', unsaid')
    <3>1. PICK f : f = [e EXCEPT !.answered = FALSE]
      BY Zenon
    <3>2. PICK g : g = [e EXCEPT !.stage = "cancelled"]
      BY Zenon
    <3>3. e = [stage |-> e.stage, peer |-> e.peer, todo |-> e.todo, topics |-> e.topics,
               answered |-> e.answered, states |-> e.states]
      BY <2>3 DEF CallForm
    <3>4. f = [stage |-> e.stage, peer |-> e.peer, todo |-> e.todo, topics |-> e.topics,
               answered |-> FALSE, states |-> e.states]
      BY <3>1, <3>3, Zenon
    <3>5. g = [stage |-> "cancelled", peer |-> e.peer, todo |-> e.todo, topics |-> e.topics,
               answered |-> e.answered, states |-> e.states]
      BY <3>2, <3>3
    <3>6. e.stage = "queued" => CallOk(f, here', subs', counter', version', said', unsaid')
      BY <2>3, <3>4 DEF CallOk, CallForm
    <3>7. CallOk(g, here', subs', counter', version', said', unsaid')
      BY <2>3, <3>5 DEF CallOk, CallForm
    <3> QED BY <3>1, <3>2, <3>6, <3>7
  <2>4. ASSUME NEW r \in Reg
        PROVE  reg'[r] = W!Idle \/ CallOk(reg'[r], here', subs', counter', version', said', unsaid')
    <3>1. PICK e : e = reg[r]
      OBVIOUS
    <3>2. e = W!Idle \/ (CallOk(e, here, subs, counter, version, said, unsaid) /\ CallForm(e))
      BY <1>0, <3>1 DEF CallsOk, CallOk
    <3>3. \/ (e = W!Idle \/ e.peer # p) /\ reg'[r] = e
          \/ e.stage = "queued" /\ reg'[r] = [e EXCEPT !.answered = FALSE]
          \/ reg'[r] = [e EXCEPT !.stage = "cancelled"] /\ e # W!Idle
      BY <2>1, <3>1
    <3>4. e = W!Idle => e.stage = "idle"
      BY DEF W!Idle
    <3> QED BY <2>2, <2>3, <3>2, <3>3, <3>4
  <2>5. reg' = [r \in Reg |-> reg'[r]]
    BY <2>1
  <2> QED BY <2>4, <2>5 DEF CallsOk, W!Idle
<1> QED BY <1>3, <1>4, <1>6, <1>7 DEF FeedInv

\* A block: what it changes is not announced yet.
LEMMA CommitInv ==
    ASSUME FeedInv, NEW S \in SUBSET Topic, S # {}, W!CommitBlock(S)
    PROVE  FeedInv'
<1>0. FeedTypes /\ CountInv /\ ToldInv /\ CallsOk
  BY DEF FeedInv
<1>1. /\ unsaid = {} /\ unsaid' = S /\ height' = height + 1
      /\ version' = [t \in Topic |-> IF t \in S THEN height + 1 ELSE version[t]]
      /\ UNCHANGED <<here, subs, subsOf, counter, reg, greet, saidPeak, said>>
  BY DEF W!CommitBlock, W!registry, W!sent
<1>2. /\ height \in Nat /\ height' \in Nat /\ height <= height' /\ version' \in [Topic -> Nat]
      /\ \A t \in Topic : /\ version[t] \in Nat /\ version'[t] \in Nat /\ version[t] <= version'[t]
                          /\ version'[t] <= height' /\ t \notin S => version'[t] = version[t]
  BY <1>0, <1>1 DEF FeedTypes
<1>3. FeedTypes'
  <2>1. \A p \in Wallet : saidPeak[p] \in Int /\ greet[p] \in Int /\ saidPeak[p] <= height /\ greet[p] <= height
    BY <1>0 DEF FeedTypes
  <2>2. \A p \in Wallet : saidPeak'[p] <= height' /\ greet'[p] <= height'
    BY <1>1, <1>2, <2>1
  <2>3. \A p \in Wallet, t \in Topic : said[p][t] \in Nat /\ said[p][t] <= version[t]
    BY <1>0 DEF FeedTypes
  <2>4. \A p \in Wallet, t \in Topic : said'[p][t] <= version'[t]
    BY <1>1, <1>2, <2>3
  <2> QED BY <1>0, <1>1, <1>2, <2>2, <2>4 DEF FeedTypes
<1>4. CountInv'
  BY <1>0, <1>1 DEF CountInv
<1>5. ToldInv'
  <2>1. ASSUME NEW p \in here', NEW t \in Topic, said'[p][t] > 0
        PROVE  /\ p \in subs'[t] => said'[p][t] = version'[t] \/ t \in unsaid'
               /\ p \notin subs'[t] => AtLimit(p, counter')
    BY <1>0, <1>1, <1>2, <2>1 DEF ToldInv
  <2>2. unsaid' # {}
    BY <1>1
  <2> QED BY <1>0, <1>1, <2>1, <2>2 DEF ToldInv
<1>6. CallsOk'
  <2>1. ASSUME NEW e, CallOk(e, here, subs, counter, version, said, unsaid)
        PROVE  CallOk(e, here', subs', counter', version', said', unsaid')
    <3>1. CallForm(e) /\ e.topics \subseteq Topic
      BY <2>1 DEF CallOk, CallForm
    <3>2. ASSUME NEW t \in e.topics, e.stage = "respond"
          PROVE  /\ e.states[t] \in Nat /\ e.states[t] <= version'[t]
                 /\ e.answered /\ e.peer \in subs'[t] =>
                      e.states[t] = version'[t] \/ said'[e.peer][t] = version'[t] \/ t \in unsaid'
      <4>1. /\ e.states[t] \in Nat /\ e.states[t] <= version[t]
            /\ e.answered /\ e.peer \in subs[t] =>
                      e.states[t] = version[t] \/ said[e.peer][t] = version[t] \/ t \in unsaid
        BY <2>1, <3>2 DEF CallOk
      <4> QED BY <1>1, <1>2, <3>1, <4>1
    <3> QED BY <1>1, <2>1, <3>2 DEF CallOk
  <2> QED BY <1>0, <1>1, <2>1 DEF CallsOk, W!Idle
<1> QED BY <1>3, <1>4, <1>5, <1>6 DEF FeedInv

\* The announcement reaches every subscribed wallet that is connected.
LEMMA AnnounceInv ==
    ASSUME FeedInv, W!update_wallets
    PROVE  FeedInv'
<1>0. FeedTypes /\ CountInv /\ ToldInv /\ CallsOk
  BY DEF FeedInv
<1>1. /\ unsaid' = {} /\ UNCHANGED <<here, subs, subsOf, counter, reg, greet, height, version>>
      /\ said' = [p \in Wallet |-> [t \in Topic |->
                    IF t \in unsaid /\ p \in subs[t] \cap here THEN version[t] ELSE said[p][t]]]
      /\ saidPeak' = [p \in Wallet |-> IF p \in here THEN height ELSE saidPeak[p]]
  BY DEF W!update_wallets, W!registry
<1>2. \A p \in Wallet, t \in Topic :
         /\ said'[p][t] = IF t \in unsaid /\ p \in subs[t] \cap here THEN version[t] ELSE said[p][t]
         /\ said[p][t] \in Nat /\ version[t] \in Nat /\ said[p][t] <= version[t]
  BY <1>0, <1>1 DEF FeedTypes
<1>3. FeedTypes'
  <2>1. said' \in [Wallet -> [Topic -> Nat]]
    BY <1>0, <1>1 DEF FeedTypes
  <2>2. \A p \in Wallet, t \in Topic : said'[p][t] <= version[t]
    BY <1>2
  <2>3. saidPeak' \in [Wallet -> Int] /\ \A p \in Wallet : saidPeak'[p] <= height
    BY <1>0, <1>1 DEF FeedTypes
  <2> QED BY <1>0, <1>1, <2>1, <2>2, <2>3 DEF FeedTypes
<1>4. CountInv'
  BY <1>0, <1>1 DEF CountInv
<1>5. ToldInv'
  <2>1. \A p \in here' : p \in Wallet /\ saidPeak'[p] = height'
    BY <1>0, <1>1 DEF FeedTypes
  <2>2. ASSUME NEW p \in here', NEW t \in Topic, said'[p][t] > 0
        PROVE  /\ p \in subs'[t] => said'[p][t] = version'[t] \/ t \in unsaid'
               /\ p \notin subs'[t] => AtLimit(p, counter')
    BY <1>0, <1>1, <1>2, <2>1, <2>2, Zenon DEF ToldInv
  <2>3. \A p \in Wallet \ here', t \in Topic : said'[p][t] = 0
    BY <1>0, <1>1, <1>2 DEF ToldInv
  <2> QED BY <2>1, <2>2, <2>3 DEF ToldInv
<1>6. CallsOk'
  <2>1. ASSUME NEW e, CallOk(e, here, subs, counter, version, said, unsaid)
        PROVE  CallOk(e, here', subs', counter', version', said', unsaid')
    <3>1. CallForm(e) /\ e.topics \subseteq Topic /\ e.peer \in Wallet
      BY <2>1 DEF CallOk, CallForm
    <3>2. ASSUME NEW t \in e.topics, e.stage = "respond", e.answered, e.peer \in subs[t]
          PROVE  e.states[t] = version[t] \/ said'[e.peer][t] = version[t]
      <4>1. e.states[t] = version[t] \/ said[e.peer][t] = version[t] \/ t \in unsaid
        BY <2>1, <3>2 DEF CallOk
      <4>2. e.peer \in here
        BY <2>1, <3>2 DEF CallOk
      <4> QED BY <1>2, <3>1, <3>2, <4>1, <4>2
    <3> QED BY <1>1, <2>1, <3>2, Zenon DEF CallOk
  <2> QED BY <1>0, <1>1, <2>1 DEF CallsOk, W!Idle
<1> QED BY <1>3, <1>4, <1>5, <1>6 DEF FeedInv

\* The answer of a call: what it read is the newest, or the wallet has been told since.
LEMMA RespondInv ==
    ASSUME FeedInv, NEW r \in Reg, W!Respond(r)
    PROVE  FeedInv'
<1>0. FeedTypes /\ CountInv /\ ToldInv /\ CallsOk
  BY DEF FeedInv
<1>1. PICK e : e = reg[r] /\ CallOk(e, here, subs, counter, version, said, unsaid)
               /\ CallForm(e) /\ e.peer \in Wallet /\ e.topics \subseteq Topic /\ e.stage = "respond"
  BY <1>0 DEF W!Respond, CallsOk, CallOk, CallForm
<1>2. /\ reg' = [reg EXCEPT ![r] = W!Idle]
      /\ UNCHANGED <<here, subs, subsOf, counter, greet, height, version, unsaid, saidPeak>>
      /\ \/ said' = said
         \/ /\ e.answered
            /\ said' = [said EXCEPT ![e.peer] =
                  [t \in Topic |-> IF t \in e.topics THEN W!Max({said[e.peer][t], e.states[t]}) ELSE said[e.peer][t]]]
  BY <1>1 DEF W!Respond, W!registry, W!ledger
<1>3. \A p \in Wallet, t \in Topic : said[p][t] \in Nat /\ version[t] \in Nat /\ said[p][t] <= version[t]
  BY <1>0 DEF FeedTypes
<1>4. \A t \in e.topics : /\ e.states[t] \in Nat /\ e.states[t] <= version[t]
                          /\ e.peer \in subs[t] \/ AtLimit(e.peer, counter)
                          /\ e.answered /\ e.peer \in subs[t] =>
                               e.states[t] = version[t] \/ said[e.peer][t] = version[t] \/ t \in unsaid
  BY <1>1 DEF CallOk
<1>5. /\ said' \in [Wallet -> [Topic -> Nat]]
      /\ \A p \in Wallet, t \in Topic :
           \/ said'[p][t] = said[p][t]
           \/ /\ p = e.peer /\ t \in e.topics /\ e.answered
              /\ said'[p][t] \in {said[p][t], e.states[t]} /\ said'[p][t] >= said[p][t] /\ said'[p][t] >= e.states[t]
  <2>1. CASE said' = said
    BY <1>0, <2>1 DEF FeedTypes
  <2>2. CASE /\ e.answered
             /\ said' = [said EXCEPT ![e.peer] =
                  [t \in Topic |-> IF t \in e.topics THEN W!Max({said[e.peer][t], e.states[t]}) ELSE said[e.peer][t]]]
    <3>1. PICK g : g = [t \in Topic |-> IF t \in e.topics THEN W!Max({said[e.peer][t], e.states[t]}) ELSE said[e.peer][t]]
      BY Zenon
    <3>2. \A t \in Topic : \/ t \notin e.topics /\ g[t] = said[e.peer][t]
                           \/ /\ t \in e.topics /\ g[t] \in {said[e.peer][t], e.states[t]}
                              /\ g[t] >= said[e.peer][t] /\ g[t] >= e.states[t]
      <4>1. ASSUME NEW t \in e.topics
            PROVE  /\ g[t] \in {said[e.peer][t], e.states[t]}
                   /\ g[t] >= said[e.peer][t] /\ g[t] >= e.states[t]
        <5>1. said[e.peer][t] \in Int /\ e.states[t] \in Int
          BY <1>1, <1>3, <1>4
        <5>2. g[t] = W!Max({said[e.peer][t], e.states[t]})
          BY <1>1, <3>1
        <5> QED BY <5>1, <5>2, FeedNotions, ZenonT(40)
      <4> QED BY <3>1, <4>1, Zenon
    <3>3. \A t \in Topic : g[t] \in Nat
      BY <1>1, <1>3, <1>4, <3>2
    <3>4. g \in [Topic -> Nat]
      BY <3>1, <3>3, Zenon
    <3>5. said' = [said EXCEPT ![e.peer] = g]
      BY <2>2, <3>1
    <3>6. said' \in [Wallet -> [Topic -> Nat]] /\ said'[e.peer] = g /\ \A p \in Wallet : p # e.peer => said'[p] = said[p]
      BY <1>0, <1>1, <3>4, <3>5 DEF FeedTypes
    <3> QED BY <2>2, <3>2, <3>6, Zenon
  <2> QED BY <1>2, <2>1, <2>2
<1>6. FeedTypes'
  <2>1. \A p \in Wallet, t \in Topic : said'[p][t] <= version[t]
    BY <1>3, <1>4, <1>5
  <2> QED BY <1>0, <1>2, <1>5, <2>1 DEF FeedTypes
<1>7. CountInv'
  BY <1>0, <1>2 DEF CountInv
<1>8. e.answered => e.peer \in here
  BY <1>1 DEF CallOk
<1>9. ToldInv'
  <2>1. ASSUME NEW p \in here', NEW t \in Topic, said'[p][t] > 0
        PROVE  /\ p \in subs'[t] => said'[p][t] = version'[t] \/ t \in unsaid'
               /\ p \notin subs'[t] => AtLimit(p, counter')
    <3>1. p \in here /\ p \in Wallet
      BY <1>0, <1>2 DEF FeedTypes
    <3>2. CASE said'[p][t] = said[p][t]
      BY <1>0, <1>2, <2>1, <3>1, <3>2 DEF ToldInv
    <3>3. CASE /\ p = e.peer /\ t \in e.topics /\ e.answered
               /\ said'[p][t] \in {said[p][t], e.states[t]} /\ said'[p][t] >= said[p][t] /\ said'[p][t] >= e.states[t]
      <4>1. p \notin subs[t] => AtLimit(p, counter)
        BY <1>4, <3>3
      <4>2. p \in subs[t] => said'[p][t] = version[t] \/ t \in unsaid
        BY <1>3, <1>4, <3>1, <3>3
      <4> QED BY <1>2, <4>1, <4>2
    <3> QED BY <1>5, <3>1, <3>2, <3>3
  <2>2. \A p \in Wallet \ here', t \in Topic : said'[p][t] = 0
    BY <1>0, <1>2, <1>5, <1>8 DEF ToldInv
  <2>3. \A p \in here' : unsaid' = {} => saidPeak'[p] = height' \/ greet'[p] = height'
    BY <1>0, <1>2 DEF ToldInv
  <2> QED BY <2>1, <2>2, <2>3 DEF ToldInv
<1>10. CallsOk'
  <2>1. ASSUME NEW x, CallOk(x, here, subs, counter, version, said, unsaid)
        PROVE  CallOk(x, here', subs', counter', version', said', unsaid')
    <3>1. x.topics \subseteq Topic /\ x.peer \in Wallet
      BY <2>1 DEF CallOk, CallForm
    <3>2. ASSUME NEW t \in x.topics, said[x.peer][t] = version[t] PROVE said'[x.peer][t] = version[t]
      <4>1. said'[x.peer][t] \in Nat /\ said'[x.peer][t] <= version[t] /\ version[t] \in Nat
        BY <1>2, <1>3, <1>6, <3>1 DEF FeedTypes
      <4>2. said'[x.peer][t] >= said[x.peer][t] \/ said'[x.peer][t] = said[x.peer][t]
        BY <1>5, <3>1
      <4> QED BY <3>2, <4>1, <4>2
    <3> QED BY <1>2, <2>1, <3>2 DEF CallOk
  <2> QED BY <1>0, <1>2, <2>1, CallsFrame, Zenon
<1> QED BY <1>6, <1>7, <1>9, <1>10 DEF FeedInv

\* The invariant holds at every moment.
LEMMA FeedInvAlways == ASSUME FeedConstants PROVE W!Spec => []FeedInv
<1>1. W!Init => FeedInv
  <2> SUFFICES ASSUME W!Init PROVE FeedInv
    OBVIOUS
  <2>1. FeedTypes
    BY DEF W!Init, FeedTypes, W!Nothing
  <2>2. CountInv
    BY DEF W!Init, CountInv
  <2>3. CallsOk
    BY DEF W!Init, CallsOk, W!Idle
  <2>4. ToldInv
    BY DEF W!Init, ToldInv
  <2> QED BY <2>1, <2>2, <2>3, <2>4 DEF FeedInv
<1>2. FeedInv /\ [W!Next]_W!feedVars => FeedInv'
  <2> SUFFICES ASSUME FeedInv, [W!Next]_W!feedVars PROVE FeedInv'
    OBVIOUS
  <2>1. CASE \E p \in Wallet : W!Connect(p) \/ W!on_connect(p) \/ W!Disconnect(p)
    BY <2>1, ConnectInv, DisconnectInv
  <2>2. CASE \E r \in Reg, p \in Wallet :
               \E S \in ((SUBSET PuzzleHash) \cup (SUBSET (Topic \ PuzzleHash))) \ {{}} : W!RequestStates(r, p, S)
    BY <2>2, CallStepInv DEF FeedConstants
  <2>3. CASE \E r \in Reg : \/ W!StartRegister(r) \/ W!RegisterPuzzleHash(r) \/ W!ReadStates(r)
                            \/ W!Respond(r) \/ W!EndRegister(r)
    BY <2>3, RegisterInv, CallStepInv, RespondInv
  <2>4. CASE (\E S \in (SUBSET Topic) \ {{}} : W!CommitBlock(S)) \/ W!update_wallets
    BY <2>4, CommitInv, AnnounceInv
  <2>5. CASE UNCHANGED W!feedVars
    <3>1. FeedTypes' /\ CountInv' /\ ToldInv'
      BY <2>5 DEF FeedInv, W!feedVars, FeedTypes, CountInv, ToldInv
    <3>2. CallsOk'
      BY <2>5 DEF FeedInv, W!feedVars, CallsOk, W!Idle
    <3> QED BY <3>1, <3>2 DEF FeedInv
  <2> QED BY <2>1, <2>2, <2>3, <2>4, <2>5 DEF W!Next
<1> QED BY <1>1, <1>2, PTL DEF W!Spec

\* peer_sub_counter counts the subscriptions of a peer, within the limit, and its disconnection
\* removes all of them: through concurrent calls and a disconnection in the middle of one.
THEOREM Feed_SubscriptionsCounted == ASSUME FeedConstants PROVE W!Spec => []W!SubscriptionsCounted
<1>1. FeedInv => W!SubscriptionsCounted
  BY FeedNotions DEF FeedInv, CountInv, TopicsOf, W!SubscriptionsCounted
<1> QED BY <1>1, FeedInvAlways, PTL

\* A wallet is told of every peak and of every change of what it is subscribed to, however its
\* registrations fall between the commit of a block and its announcement; and its subscriptions
\* are counted and end with its connection.
WalletInformed == W!WalletInformed /\ W!SubscriptionsCounted

\* A wallet misses nothing: once every committed block is announced, a connected wallet was
\* sent the peak, or is about to be, and the newest state of each topic it was answered for;
\* and its subscriptions are counted.
THEOREM Feed_WalletInformed == ASSUME FeedConstants PROVE W!Spec => []WalletInformed
<1>1. FeedInv => W!WalletInformed
  BY DEF FeedInv, ToldInv, W!WalletInformed
<1>2. W!WalletInformed /\ W!SubscriptionsCounted => WalletInformed
  BY DEF WalletInformed
<1> QED BY <1>1, <1>2, FeedInvAlways, Feed_SubscriptionsCounted, PTL

-----------------------------------------------------------------------------
(* The relay of transactions *)

CONSTANTS Tx, Relay, Announced, Fetch, Call, CallTx, AskLimit, QueueSize, Permits, KeptResponses, MaxFailures
VARIABLES linked, pendingTx, peersWithTx, fetch, asked, txQueue, permits, dispatch, created, adding,
          seenTx, inPool, responses, send, inSync, failures

R == INSTANCE TxRelay

TaskRecord == [stage : R!Stages, tx : Tx \cup {0}, counter : Int]

RelayConstants ==
    /\ Tx \subseteq Nat /\ IsFiniteSet(Tx) /\ Announced \subseteq Tx /\ CallTx \in [Call -> Tx]
    /\ Permits \in Nat /\ AskLimit \in Nat

\* A pending transaction has its task.
FetchInv == fetch \in [Fetch -> TaskRecord] /\ R!PendingHasTask

\* A task that changes and stays alive keeps its transaction.
LEMMA FetchFrame ==
    ASSUME FetchInv, NEW k \in Fetch, NEW e \in TaskRecord, fetch' = [fetch EXCEPT ![k] = e],
           \A t \in pendingTx' :
              \/ e.stage \in {"new", "asleep"} /\ e.tx = t
              \/ t \in pendingTx /\ ~(fetch[k].stage \in {"new", "asleep"} /\ fetch[k].tx = t)
    PROVE  FetchInv'
<1>1. fetch' \in [Fetch -> TaskRecord]
  BY DEF FetchInv
<1>2. ASSUME NEW t \in pendingTx'
      PROVE  \E j \in Fetch : fetch'[j].stage \in {"new", "asleep"} /\ fetch'[j].tx = t
  <2>1. CASE e.stage \in {"new", "asleep"} /\ e.tx = t
    BY <2>1 DEF FetchInv
  <2>2. CASE t \in pendingTx /\ ~(fetch[k].stage \in {"new", "asleep"} /\ fetch[k].tx = t)
    BY <2>2 DEF FetchInv, R!PendingHasTask
  <2> QED BY <1>2, <2>1, <2>2
<1> QED BY <1>1, <1>2 DEF FetchInv, R!PendingHasTask

\* The changes of a task.
LEMMA TaskChanges ==
    ASSUME FetchInv, NEW k \in Fetch, NEW n \in Int
    PROVE  /\ [fetch EXCEPT ![k].stage = "done"]
                = [fetch EXCEPT ![k] = [stage |-> "done", tx |-> fetch[k].tx, counter |-> fetch[k].counter]]
           /\ [fetch EXCEPT ![k].stage = "asleep", ![k].counter = n]
                = [fetch EXCEPT ![k] = [stage |-> "asleep", tx |-> fetch[k].tx, counter |-> n]]
           /\ fetch[k] \in TaskRecord
<1>1. fetch[k] \in TaskRecord /\ fetch \in [Fetch -> TaskRecord]
  BY DEF FetchInv
<1>2. [fetch[k] EXCEPT !.stage = "done"] = [stage |-> "done", tx |-> fetch[k].tx, counter |-> fetch[k].counter]
  BY <1>1 DEF TaskRecord
<1>3. PICK e : e = [fetch EXCEPT ![k].stage = "asleep"]
  BY Zenon
<1>4. /\ e = [j \in Fetch |-> IF j = k THEN [stage |-> "asleep", tx |-> fetch[k].tx, counter |-> fetch[k].counter]
                              ELSE fetch[j]]
  <2>1. [fetch[k] EXCEPT !.stage = "asleep"]
          = [stage |-> "asleep", tx |-> fetch[k].tx, counter |-> fetch[k].counter]
    BY <1>1 DEF TaskRecord
  <2> QED BY <1>1, <1>3, <2>1, Zenon
<1>5. [e EXCEPT ![k].counter = n]
        = [j \in Fetch |-> IF j = k THEN [stage |-> "asleep", tx |-> fetch[k].tx, counter |-> n] ELSE fetch[j]]
  BY <1>4
<1>6. [fetch EXCEPT ![k] = [stage |-> "asleep", tx |-> fetch[k].tx, counter |-> n]]
        = [j \in Fetch |-> IF j = k THEN [stage |-> "asleep", tx |-> fetch[k].tx, counter |-> n] ELSE fetch[j]]
  BY <1>1, Zenon
<1> QED BY <1>1, <1>2, <1>3, <1>5, <1>6, Zenon

\* A fetch that ends takes its transaction out of the pending ones.
LEMMA CleanupInv ==
    ASSUME FetchInv, NEW k \in Fetch, R!Cleanup(k) PROVE FetchInv'
<1>1. PICK e : e = [stage |-> "done", tx |-> fetch[k].tx, counter |-> fetch[k].counter]
  BY Zenon
<1>2. e \in TaskRecord
  BY <1>1 DEF FetchInv, TaskRecord, R!Stages
<1>4. fetch' = [fetch EXCEPT ![k] = e]
  <2>1. 0 \in Int
    OBVIOUS
  <2> QED BY <1>1, <2>1, TaskChanges, Zenon DEF R!Cleanup
<1>3. pendingTx' = pendingTx \ {fetch[k].tx}
  BY DEF R!Cleanup
<1> QED BY <1>2, <1>3, <1>4, FetchFrame, Zenon

\* A fetch asks the next peer, or ends.
LEMMA AskNextInv ==
    ASSUME FetchInv, NEW k \in Fetch, fetch[k].stage \in {"new", "asleep"}, NEW n \in Int, R!AskNext(k, n)
    PROVE  FetchInv'
<1>1. CASE R!Cleanup(k)
  BY <1>1, CleanupInv
<1>2. CASE ~R!Cleanup(k)
  <2>1. PICK e : e = [stage |-> "asleep", tx |-> fetch[k].tx, counter |-> n]
    BY Zenon
  <2>2. fetch' = [fetch EXCEPT ![k] = e] /\ pendingTx' = pendingTx /\ e \in TaskRecord
    BY <1>2, <2>1, TaskChanges, Zenon DEF R!AskNext, TaskRecord, R!Stages
  <2> QED BY <2>1, <2>2, FetchFrame, Zenon
<1> QED BY <1>1, <1>2

\* Each step keeps a task for every pending transaction.
LEMMA FetchNext ==
    ASSUME RelayConstants, FetchInv, [R!Next]_R!relayVars PROVE FetchInv'
<1>1. CASE fetch' = fetch /\ pendingTx' \subseteq pendingTx
  BY <1>1 DEF FetchInv, R!PendingHasTask
<1>2. ASSUME NEW p \in Relay, NEW t \in Announced, R!new_transaction(p, t) PROVE FetchInv'
  <2>1. CASE t \in pendingTx
    BY <1>1, <1>2, <2>1 DEF R!new_transaction
  <2>2. CASE t \notin pendingTx
    <3>1. PICK k \in Fetch : /\ fetch[k].stage = "unused" /\ pendingTx' = pendingTx \cup {t}
                             /\ fetch' = [fetch EXCEPT ![k] = [stage |-> "new", tx |-> t, counter |-> 0]]
      BY <1>2, <2>2 DEF R!new_transaction
    <3>2. [stage |-> "new", tx |-> t, counter |-> 0] \in TaskRecord
      BY DEF TaskRecord, R!Stages, RelayConstants
    <3>3. PICK e \in TaskRecord : e = [stage |-> "new", tx |-> t, counter |-> 0]
      BY <3>2
    <3> QED BY <3>1, <3>3, FetchFrame, Zenon
  <2> QED BY <2>1, <2>2
<1>3. ASSUME NEW k \in Fetch, R!FetchStep(k) PROVE FetchInv'
  <2>1. fetch[k].counter \in Int
    BY DEF FetchInv, TaskRecord
  <2> QED BY <1>3, <2>1, CleanupInv, AskNextInv DEF R!FetchStep
<1>4. ASSUME NEW p \in Relay, NEW t \in Announced, R!respond_transaction(p, t) \/ R!NoAnswer(p, t) PROVE FetchInv'
  BY <1>1, <1>4 DEF R!respond_transaction, R!NoAnswer
<1>5. CASE \/ R!Acquire \/ R!Get \/ R!SwitchSync \/ \E t \in Tx : R!StartOne(t) \/ R!Raise(t) \/ R!Confirm(t)
           \/ \E t \in Tx, s \in R!Status : R!EndOne(t, s)
           \/ \E c \in Call : R!BeginSend(c) \/ R!EndSend(c)
           \/ \E p \in Relay : R!Leave(p)
  BY <1>1, <1>5 DEF R!Acquire, R!Get, R!SwitchSync, R!StartOne, R!Raise, R!Confirm, R!EndOne, R!BeginSend, R!EndSend,
     R!Leave, R!fetching
<1>6. CASE UNCHANGED R!relayVars
  BY <1>1, <1>6 DEF R!relayVars, R!fetching
<1> QED BY <1>2, <1>3, <1>4, <1>5, <1>6 DEF R!Next

\* A transaction that is marked as being fetched has a task that fetches it.
LEMMA RelayPending == ASSUME RelayConstants PROVE R!Spec => []R!PendingHasTask
<1>1. R!Init => FetchInv
  BY DEF R!Init, FetchInv, R!PendingHasTask, TaskRecord, R!Stages
<1>2. FetchInv /\ [R!Next]_R!relayVars => FetchInv'
  BY FetchNext
<1>3. FetchInv => R!PendingHasTask
  BY DEF FetchInv
<1> QED BY <1>1, <1>2, <1>3, PTL DEF R!Spec

-----------------------------------------------------------------------------
\* What is being validated is seen and not in the mempool yet.
PermitInv ==
    /\ permits \in Int /\ dispatch \in {"acquire", "get"}
    /\ created \in [Tx -> Nat] /\ txQueue \in [Tx -> Nat]
    /\ adding \subseteq Tx /\ adding \subseteq seenTx /\ inPool \subseteq seenTx /\ inPool \cap adding = {}
    /\ permits + (IF dispatch = "get" THEN 1 ELSE 0) + Cardinality(adding) + Total(created, Tx) = Permits

\* The sums and the cardinality of the component are those of the facts on finite sets.
LEMMA RelayNotions ==
    /\ R!QueueLength = Total(txQueue, Tx)
    /\ R!PermitsConserved
         <=> permits + (IF dispatch = "get" THEN 1 ELSE 0) + Cardinality(adding) + Total(created, Tx) = Permits
<1>1. R!QueueLength = Total(txQueue, Tx)
  BY DEF R!QueueLength, Total, R!MapThenSumSet, MapThenSumSet, R!MapThenFoldSet, MapThenFoldSet
<1>2. R!MapThenSumSet(LAMBDA t : created[t], Tx) = Total(created, Tx)
  BY DEF Total, R!MapThenSumSet, MapThenSumSet, R!MapThenFoldSet, MapThenFoldSet
<1>3. R!Cardinality(adding) = Cardinality(adding)
  BY DEF R!Cardinality, Cardinality
<1>4. R!PermitsConserved
         <=> permits + (IF dispatch = "get" THEN 1 ELSE 0) + Cardinality(adding) + Total(created, Tx) = Permits
  BY <1>2, <1>3 DEF R!PermitsConserved
<1> QED BY <1>1, <1>4

\* Only the names the permits depend on change in a step.
LEMMA PermitNext ==
    ASSUME RelayConstants, PermitInv, [R!Next]_R!relayVars PROVE PermitInv'
<1> DEFINE G(d) == IF d = "get" THEN 1 ELSE 0
           M == Total(created, Tx)
           C == Cardinality(adding)
<1>1. IsFiniteSet(Tx) /\ IsFiniteSet(adding)
  BY RelayNotions, FS_Subset, Zenon DEF RelayConstants, PermitInv
<1>2. C \in Nat /\ M \in Nat /\ G(dispatch) \in Nat /\ G(dispatch') \in Nat
  <2>1. \A t \in Tx : created[t] \in Nat
    BY DEF PermitInv
  <2> QED BY <1>1, <2>1, FS_CardinalityType, TotalNat
<1>3. permits + G(dispatch) + C + M = Permits /\ permits \in Int /\ Permits \in Nat
  BY DEF PermitInv, RelayConstants
<1>4. ASSUME NEW t \in Tx, NEW v \in Nat, created' = [created EXCEPT ![t] = v]
      PROVE  created' \in [Tx -> Nat] /\ Total(created', Tx) = M - created[t] + v
  <2>1. created \in [Tx -> Nat]
    BY DEF PermitInv
  <2>2. created' \in [Tx -> Nat] /\ created'[t] = v /\ \A x \in Tx \ {t} : created'[x] = created[x]
    BY <1>4, <2>1
  <2>3. Total(created', Tx) = Total(created, Tx) - created[t] + created'[t]
    BY <1>1, <2>1, <2>2, TotalChange
  <2> QED BY <2>2, <2>3
<1>5. ASSUME NEW t \in Tx
      PROVE  /\ t \notin adding => Cardinality(adding \cup {t}) = C + 1
             /\ t \in adding => Cardinality(adding \ {t}) = C - 1
  BY <1>1, FS_AddElement, FS_RemoveElement, Zenon
<1>6. ASSUME NEW t \in Tx
      PROVE  txQueue[t] \in Nat /\ created[t] \in Nat /\ R!Enqueued(t) \in [Tx -> Nat]
  BY DEF PermitInv, R!Enqueued
<1>7. CASE UNCHANGED <<permits, dispatch, created, adding, seenTx, inPool>> /\ txQueue' \in [Tx -> Nat]
  BY <1>7 DEF PermitInv
<1>8. CASE R!Acquire
  <2>1. /\ permits' = permits - 1 /\ dispatch = "acquire" /\ dispatch' = "get"
        /\ UNCHANGED <<txQueue, created, adding, seenTx, inPool>>
    BY <1>8 DEF R!Acquire, R!told
  <2> QED BY <2>1, <1>2, <1>3 DEF PermitInv
<1>9. CASE R!Get
  <2>1. PICK t : t = R!Min({u \in Tx : txQueue[u] > 0})
    OBVIOUS
  <2>2. /\ txQueue' = [txQueue EXCEPT ![t] = txQueue[t] - 1]
        /\ created' = [created EXCEPT ![t] = created[t] + 1] /\ dispatch = "get" /\ dispatch' = "acquire"
        /\ UNCHANGED <<permits, adding, seenTx, inPool>> /\ R!QueueLength > 0
    BY <1>9, <2>1 DEF R!Get, R!told
  <2>3. PICK u \in Tx : txQueue[u] > 0
    <3>1. \A x \in Tx : txQueue[x] \in Nat
      BY <1>6
    <3>2. Total(txQueue, Tx) # 0
      BY <2>2, RelayNotions
    <3> QED BY <1>1, <3>1, <3>2, TotalPositive
  <2>4. t \in Tx /\ txQueue[t] > 0
    <3> DEFINE S == {x \in Tx : txQueue[x] > 0}
    <3>1. S \subseteq Nat /\ S # {}
      BY <2>3, Zenon DEF RelayConstants
    <3>2. R!Min(S) = Min(S)
      BY DEF R!Min, Min
    <3>3. t = R!Min(S)
      BY <2>1
    <3>4. Min(S) \in S
      <4> HIDE DEF S
      <4> QED BY <3>1, MinIsSmallest, Zenon
    <3> QED BY <3>2, <3>3, <3>4
  <2>5. created[t] + 1 \in Nat /\ txQueue[t] - 1 \in Nat
    BY <1>6, <2>4
  <2>6. created' \in [Tx -> Nat] /\ Total(created', Tx) = M + 1
    <3>1. created[t] \in Nat
      BY <1>6, <2>4
    <3>2. created' \in [Tx -> Nat] /\ Total(created', Tx) = M - created[t] + (created[t] + 1)
      BY <1>4, <2>2, <2>4, <2>5, Zenon
    <3> HIDE DEF M
    <3> QED BY <1>2, <3>1, <3>2
  <2>7. txQueue' \in [Tx -> Nat]
    BY <2>2, <2>5, Zenon DEF PermitInv
  <2> QED BY <1>2, <1>3, <2>2, <2>6, <2>7 DEF PermitInv
<1>10. ASSUME NEW t \in Tx, R!StartOne(t) PROVE PermitInv'
  <2>1. /\ created[t] > 0 /\ created' = [created EXCEPT ![t] = created[t] - 1]
        /\ UNCHANGED <<txQueue, dispatch, inPool>>
        /\ \/ permits' = permits + 1 /\ UNCHANGED <<seenTx, adding>>
           \/ t \notin seenTx /\ seenTx' = seenTx \cup {t} /\ adding' = adding \cup {t} /\ permits' = permits
    BY <1>10 DEF R!StartOne, R!Responded
  <2>2. created' \in [Tx -> Nat] /\ Total(created', Tx) = M - 1
    <3>1. created[t] - 1 \in Nat /\ created[t] \in Nat
      BY <1>6, <2>1
    <3>2. created' \in [Tx -> Nat] /\ Total(created', Tx) = M - created[t] + (created[t] - 1)
      BY <1>4, <2>1, <3>1, Zenon
    <3> HIDE DEF M
    <3> QED BY <1>2, <3>1, <3>2
  <2>3. CASE permits' = permits + 1 /\ UNCHANGED <<seenTx, adding>>
    BY <1>2, <1>3, <2>1, <2>2, <2>3 DEF PermitInv
  <2>4. CASE t \notin seenTx /\ seenTx' = seenTx \cup {t} /\ adding' = adding \cup {t} /\ permits' = permits
    <3>1. t \notin adding /\ t \notin inPool
      BY <2>4 DEF PermitInv
    <3>2. Cardinality(adding') = C + 1
      BY <1>5, <2>4, <3>1
    <3> QED BY <1>2, <1>3, <2>1, <2>2, <2>4, <3>1, <3>2 DEF PermitInv
  <2> QED BY <2>1, <2>3, <2>4
<1>11. ASSUME NEW t \in Tx, NEW s \in R!Status, R!EndOne(t, s) \/ R!Raise(t) PROVE PermitInv'
  <2>1. /\ t \in adding /\ adding' = adding \ {t} /\ permits' = permits + 1
        /\ UNCHANGED <<txQueue, dispatch, created>>
        /\ \/ inPool' = inPool \cup {t} /\ seenTx' = seenTx
           \/ inPool' = inPool /\ seenTx' = seenTx \ {t}
    BY <1>11 DEF R!EndOne, R!Raise, R!Responded
  <2>2. Cardinality(adding') = C - 1
    BY <1>5, <2>1
  <2>3. adding' \subseteq seenTx' /\ inPool' \subseteq seenTx' /\ inPool' \cap adding' = {} /\ adding' \subseteq Tx
    BY <2>1 DEF PermitInv
  <2> QED BY <1>2, <1>3, <2>1, <2>2, <2>3 DEF PermitInv
<1>12. ASSUME NEW t \in Tx, R!Confirm(t) PROVE PermitInv'
  BY <1>12 DEF R!Confirm, R!serving, PermitInv
<1>13. ASSUME NEW c \in Call, R!BeginSend(c) \/ R!EndSend(c) PROVE PermitInv'
  <2>1. CallTx[c] \in Tx
    BY DEF RelayConstants
  <2>2. txQueue \in [Tx -> Nat]
    BY DEF PermitInv
  <2> QED BY <1>6, <1>7, <1>13, <2>1, <2>2 DEF R!BeginSend, R!EndSend, R!serving
<1>14. ASSUME NEW p \in Relay, NEW t \in Announced,
              R!new_transaction(p, t) \/ R!respond_transaction(p, t) \/ R!NoAnswer(p, t)
       PROVE  PermitInv'
  <2>1. t \in Tx
    BY DEF RelayConstants
  <2>2. txQueue \in [Tx -> Nat]
    BY DEF PermitInv
  <2> QED BY <1>6, <1>7, <1>14, <2>1, <2>2
          DEF R!new_transaction, R!respond_transaction, R!NoAnswer, R!serving, R!told
<1>15. CASE R!SwitchSync \/ (\E k \in Fetch : R!FetchStep(k)) \/ (\E p \in Relay : R!Leave(p))
           \/ UNCHANGED R!relayVars
  <2>1. txQueue \in [Tx -> Nat]
    BY DEF PermitInv
  <2> QED BY <1>7, <1>15, <2>1, Zenon DEF R!SwitchSync, R!FetchStep, R!Leave, R!relayVars, R!serving, R!told
<1>16. R!Status # {}
  BY DEF R!Status
<1> QED BY <1>8, <1>9, <1>10, <1>11, <1>12, <1>13, <1>14, <1>15, <1>16 DEF R!Next

\* No permit of respond_transaction_semaphore is lost or made, whichever way a transaction ends.
THEOREM Relay_PermitsConserved == ASSUME RelayConstants PROVE R!Spec => []R!PermitsConserved
<1>1. R!Init => PermitInv
  <2> SUFFICES ASSUME R!Init PROVE PermitInv
    OBVIOUS
  <2>1. /\ permits = Permits /\ dispatch = "acquire" /\ created = [t \in Tx |-> 0] /\ adding = {}
        /\ txQueue = [t \in Tx |-> 0] /\ seenTx = {} /\ inPool = {}
    BY DEF R!Init
  <2>2. Cardinality(adding) = 0
    BY <2>1, FS_EmptySet
  <2>3. Total(created, Tx) = 0
    <3>1. IsFiniteSet(Tx) /\ \A t \in Tx : created[t] \in Nat /\ ~(created[t] > 0)
      BY <2>1, RelayNotions DEF RelayConstants
    <3> QED BY <3>1, TotalPositive
  <2> QED BY <2>1, <2>2, <2>3 DEF PermitInv, RelayConstants
<1>2. PermitInv /\ [R!Next]_R!relayVars => PermitInv'
  BY PermitNext
<1>3. PermitInv => R!PermitsConserved
  BY RelayNotions DEF PermitInv
<1> QED BY <1>1, <1>2, <1>3, PTL DEF R!Spec

\* A transaction that is marked as being fetched has a task that fetches it, also when an older
\* task for it ends: a mark left behind would keep it from being fetched for good.  And
\* no permit of respond_transaction_semaphore is lost or made, whichever way a transaction ends.
PendingHasTask == R!PendingHasTask /\ R!PermitsConserved

\* The marker of a transaction never outlives its task, so that no announcement is ignored for
\* good, and the dispatcher never runs out of permits by a task that ended.
THEOREM Relay_PendingHasTask == ASSUME RelayConstants PROVE R!Spec => []PendingHasTask
<1>1. R!PendingHasTask /\ R!PermitsConserved => PendingHasTask
  BY DEF PendingHasTask
<1> QED BY <1>1, RelayPending, Relay_PermitsConserved, PTL
=============================================================================
