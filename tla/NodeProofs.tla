----------------------------- MODULE NodeProofs -----------------------------
(***************************************************************************)
(* Proofs about the components of the full node beside its blockchain: the *)
(* answers to queries, the compact VDFs, farming.  Each section declares   *)
(* the constants and variables of one component, has its inductive         *)
(* invariant and ends in the theorems about it.                            *)
(***************************************************************************)
EXTENDS Sequences, FiniteFacts

\* The provers of a step that names none, and the seconds they may take.
USE ZenonT(2), SMTT(30)

-----------------------------------------------------------------------------
(* NodeQueries *)

CONSTANTS Branch, Query, Span, PowCache, MaxSwitches
VARIABLES mem, coins, target, query, powCreation, wpHandler, wpMessage, switches

Q == INSTANCE NodeQueries

\* What holds of one request: which kinds are at which stage, what a request for coins has
\* read, and the property itself.
QueryOk(r) ==
    /\ r.stage # "new" => r = [stage |-> r.stage, kind |-> r.kind, of |-> r.of, got |-> r.got]
    /\ r.stage = "query" => r.kind \in {"list", "proven"} /\ r.got = <<>>
    /\ r.stage = "resume" => r.kind \in {"list", "proven"}
    /\ r.stage = "height" => r.kind = "solution"
    /\ r.stage \in {"headers", "blocks", "wait", "make", "creating"}
         => r.kind \in {"headers", "blocks", "weight"}
    /\ r.stage = "answered" /\ r.kind \in {"proven", "solution"} => r.got = <<r.of>>

QueryInv ==
    /\ query = [q \in Query |-> query[q]]
    /\ \A q \in Query : QueryOk(query[q])

\* A step that changes one request into a good one keeps the invariant.
LEMMA QueryFrame ==
    ASSUME QueryInv, NEW q \in Query, NEW r, QueryOk(r), query' = [query EXCEPT ![q] = r]
    PROVE  QueryInv'
BY DEF QueryInv

\* A request that goes on keeps its kind and what it is about.
LEMMA QueryGoesOn ==
    ASSUME QueryInv, NEW q \in Query, query[q].stage # "new", NEW s
    PROVE  /\ Q!To(q, s)
                => query' = [query EXCEPT ![q] = [stage |-> s, kind |-> query[q].kind,
                                                  of |-> query[q].of, got |-> query[q].got]]
           /\ \A what : Q!Read(q, s, what)
                => query' = [query EXCEPT ![q] = [stage |-> s, kind |-> query[q].kind,
                                                  of |-> query[q].of, got |-> Append(query[q].got, what)]]
<1>1. query[q] = [stage |-> query[q].stage, kind |-> query[q].kind, of |-> query[q].of,
                  got |-> query[q].got]
  BY DEF QueryInv, QueryOk
<1>2. [query[q] EXCEPT !.stage = s]
        = [stage |-> s, kind |-> query[q].kind, of |-> query[q].of, got |-> query[q].got]
  BY <1>1
<1>3. ASSUME NEW g
      PROVE  [query[q] EXCEPT !.stage = s, !.got = g]
                = [stage |-> s, kind |-> query[q].kind, of |-> query[q].of, got |-> g]
  <2>1. PICK e : e = [query[q] EXCEPT !.stage = s]
    BY Zenon
  <2>2. e = [stage |-> s, kind |-> query[q].kind, of |-> query[q].of, got |-> query[q].got]
    BY <1>2, <2>1
  <2>3. [e EXCEPT !.got = g] = [stage |-> s, kind |-> query[q].kind, of |-> query[q].of, got |-> g]
    BY <2>2
  <2> QED BY <2>1, <2>3
<1>4. query = [p \in Query |-> query[p]]
  BY DEF QueryInv
<1> QED BY <1>2, <1>3, <1>4, Zenon DEF Q!To, Q!Read

\* A request that is new becomes one that is good for its kind.
LEMMA QueryBegins ==
    ASSUME QueryInv, NEW q \in Query, NEW s, NEW kind, NEW b, Q!Start(q, s, kind, b),
           QueryOk([stage |-> s, kind |-> kind, of |-> b, got |-> <<>>])
    PROVE  QueryInv'
BY QueryFrame, Zenon DEF Q!Start

\* A query begins, in any of its kinds.
LEMMA QueryStartInv ==
    ASSUME QueryInv, NEW q \in Query, Q!StartQuery(q)
    PROVE  QueryInv'
<1>1. CASE Q!request_additions(q)
  <2>1. PICK b \in Branch, kind \in {"list", "proven"}, s \in {"query", "rejected"} :
             Q!Start(q, s, kind, b)
    BY <1>1 DEF Q!request_additions
  <2>2. QueryOk([stage |-> s, kind |-> kind, of |-> b, got |-> <<>>])
    BY DEF QueryOk
  <2> QED BY <2>1, <2>2, QueryBegins
<1>2. CASE Q!request_puzzle_solution(q)
  <2>1. PICK b \in Branch, s \in {"height", "rejected"} : Q!Start(q, s, "solution", b)
    BY <1>2 DEF Q!request_puzzle_solution
  <2>2. QueryOk([stage |-> s, kind |-> "solution", of |-> b, got |-> <<>>])
    BY DEF QueryOk
  <2> QED BY <2>1, <2>2, QueryBegins
<1>3. CASE Q!request_header_blocks(q)
  <2>1. QueryOk([stage |-> "headers", kind |-> "headers", of |-> mem, got |-> <<>>])
    BY DEF QueryOk
  <2> QED BY <1>3, <2>1, QueryBegins DEF Q!request_header_blocks
<1>4. CASE Q!request_blocks(q)
  <2>1. QueryOk([stage |-> "blocks", kind |-> "blocks", of |-> mem, got |-> <<>>])
    BY DEF QueryOk
  <2> QED BY <1>4, <2>1, QueryBegins DEF Q!request_blocks
<1>5. CASE Q!request_proof_of_weight(q)
  <2>1. PICK b, s, g :
             /\ b \in Branch /\ s \in {"wait", "make"}
             /\ query' = [query EXCEPT ![q] = [stage |-> s, kind |-> "weight", of |-> b, got |-> g]]
    BY <1>5, Zenon DEF Q!request_proof_of_weight, Q!Start
  <2>2. QueryOk([stage |-> s, kind |-> "weight", of |-> b, got |-> g])
    BY ONLY <2>1 DEF QueryOk
  <2> QED BY <2>1, <2>2, QueryFrame, Zenon
<1> QED BY <1>1, <1>2, <1>3, <1>4, <1>5 DEF Q!StartQuery

\* A query that has begun reads on or answers.
LEMMA QueryGoOnInv ==
    ASSUME QueryInv, NEW q \in Query, Q!GoOn(q)
    PROVE  QueryInv'
<1> DEFINE r == query[q]
           Next(s, g) == [stage |-> s, kind |-> r.kind, of |-> r.of, got |-> g]
<1>0. QueryOk(r)
  BY DEF QueryInv
<1>1. CASE Q!QueryCoins(q)
  <2>1. QueryOk(Next("resume", Append(r.got, coins)))
    BY <1>0, <1>1 DEF QueryOk, Q!QueryCoins
  <2>2. query' = [query EXCEPT ![q] = Next("resume", Append(r.got, coins))]
    BY <1>1, QueryGoesOn, Zenon DEF Q!QueryCoins
  <2> QED BY <2>1, <2>2, QueryFrame, Zenon
<1>2. CASE Q!ResumeCoins(q)
  <2>1. PICK s \in {"answered", "failed"} :
             Q!To(q, s) /\ (s = "answered" /\ r.kind = "proven" => r.got = <<r.of>>)
    BY <1>2 DEF Q!ResumeCoins
  <2>2. QueryOk(Next(s, r.got))
    BY <1>0, <1>2, <2>1 DEF QueryOk, Q!ResumeCoins
  <2>3. query' = [query EXCEPT ![q] = Next(s, r.got)]
    BY <1>2, <2>1, QueryGoesOn DEF Q!ResumeCoins
  <2> QED BY <2>2, <2>3, QueryFrame, Zenon
<1>3. CASE Q!FindSpend(q)
  <2>1. PICK s \in {"answered", "rejected"} :
             /\ s = "answered" => mem = r.of
             /\ query' = [query EXCEPT ![q].got = <<mem>>, ![q].stage = s]
    BY <1>3, Zenon DEF Q!FindSpend
  <2>2. query' = [query EXCEPT ![q] = Next(s, <<mem>>)]
    <3>1. r = [stage |-> r.stage, kind |-> r.kind, of |-> r.of, got |-> r.got]
      BY <1>0, <1>3 DEF QueryOk, Q!FindSpend
    <3>2. PICK e : e = [r EXCEPT !.got = <<mem>>]
      BY Zenon
    <3>3. e = [stage |-> r.stage, kind |-> r.kind, of |-> r.of, got |-> <<mem>>]
      BY <3>1, <3>2
    <3>4. [e EXCEPT !.stage = s] = Next(s, <<mem>>)
      BY <3>3
    <3> QED BY <2>1, <3>2, <3>4, Zenon DEF QueryInv
  <2>3. QueryOk(Next(s, <<mem>>))
    BY <1>0, <1>3, <2>1 DEF QueryOk, Q!FindSpend
  <2> QED BY <2>2, <2>3, QueryFrame, Zenon
<1>4. CASE Q!FilterCoins(q)
  <2>1. QueryOk(Next("answered", Append(r.got, coins)))
    BY <1>0, <1>4 DEF QueryOk, Q!FilterCoins
  <2>2. query' = [query EXCEPT ![q] = Next("answered", Append(r.got, coins))]
    BY <1>4, QueryGoesOn, Zenon DEF Q!FilterCoins
  <2> QED BY <2>1, <2>2, QueryFrame, Zenon
<1>5. CASE Q!ReadBlockAt(q)
  <2>1. PICK s \in {"answered", "blocks"} : Q!Read(q, s, mem)
    BY <1>5 DEF Q!ReadBlockAt
  <2>2. QueryOk(Next(s, Append(r.got, mem)))
    BY <1>0, <1>5 DEF QueryOk, Q!ReadBlockAt
  <2>3. query' = [query EXCEPT ![q] = Next(s, Append(r.got, mem))]
    BY <1>5, <2>1, QueryGoesOn, Zenon DEF Q!ReadBlockAt
  <2> QED BY <2>2, <2>3, QueryFrame, Zenon
<1>6. CASE Q!WaitEvent(q) \/ Q!TakeHandler(q) \/ Q!EndProof(q)
  <2>1. r.stage \in {"wait", "make", "creating"}
    BY <1>6 DEF Q!WaitEvent, Q!TakeHandler, Q!EndProof
  <2>2. PICK s \in {"make", "creating", "answered", "rejected"} : Q!To(q, s)
    BY <1>6 DEF Q!WaitEvent, Q!TakeHandler, Q!EndProof
  <2>3. QueryOk(Next(s, r.got))
    BY <1>0, <2>1 DEF QueryOk
  <2>4. query' = [query EXCEPT ![q] = Next(s, r.got)]
    BY <2>1, <2>2, QueryGoesOn
  <2> QED BY <2>3, <2>4, QueryFrame, Zenon
<1> QED BY <1>1, <1>2, <1>3, <1>4, <1>5, <1>6 DEF Q!GoOn

\* Each step of the queries and of the chain under them.
LEMMA QueryStepInv ==
    ASSUME QueryInv, [Q!Next]_Q!queryVars
    PROVE  QueryInv'
<1>1. CASE Q!RollBack \/ Q!ConnectBlocks \/ Q!SetHeightMap \/ Q!AbortReorg \/ UNCHANGED Q!queryVars
  BY <1>1 DEF QueryInv, Q!RollBack, Q!ConnectBlocks, Q!SetHeightMap, Q!AbortReorg, Q!queryVars
<1>2. ASSUME NEW q \in Query, Q!Cancel(q) PROVE QueryInv'
  <2>1. QueryOk([stage |-> "failed", kind |-> query[q].kind, of |-> query[q].of, got |-> query[q].got])
    BY DEF QueryOk
  <2> QED BY <1>2, <2>1, QueryFrame, QueryGoesOn DEF Q!Cancel
<1> QED BY <1>1, <1>2, QueryStartInv, QueryGoOnInv DEF Q!Next, Q!TimeOut

\* An answer of the full node that proves to a wallet which coins a block added or removed, or
\* how a coin was spent, is that of the block it names: whatever reorganisations come between
\* the reads of height_to_hash, of the blocks and of the coin store, for any number of requests.
THEOREM Queries_AnswersMatch == Q!Spec => []Q!ProvenAnswersMatch
<1>1. Q!Init => QueryInv
  BY DEF Q!Init, QueryInv, QueryOk, Q!NewQuery
<1>2. QueryInv => Q!ProvenAnswersMatch
  BY DEF QueryInv, QueryOk, Q!ProvenAnswersMatch
<1> QED BY <1>1, <1>2, QueryStepInv, PTL DEF Q!Spec

-----------------------------------------------------------------------------
(* CompactVdf *)

CONSTANTS Fork, Field, VdfOf, Target, VdfCall, Semaphore, MaxWaiters, MaxReorgs
VARIABLES onChain, stored, proofLock, vcall, requested, seenVdf, bluebox, reorgs

V == INSTANCE CompactVdf

CallRecord(s, by, b, f, c, h) ==
    [stage |-> s, by |-> by, block |-> b, field |-> f, vdf |-> VdfOf[b][f], copy |-> c, hash |-> h]

\* What holds of the call k when the lock and the stored blocks are as given: it has the VDF of
\* the field it names, it holds the lock while it reads and writes, and the block it will write
\* is the stored one with the proof put in.
CallOk(k, r, lock, blocks) ==
    \/ r = V!NoCall
    \/ /\ r = CallRecord(r.stage, r.by, r.block, r.field, r.copy, r.hash)
       /\ r.stage \in {"wait", "check", "lock", "read", "write"} /\ r.by \in {"timelord", "peer"}
       /\ r.block \in Fork /\ r.field \in Field /\ r.hash \in Fork
       /\ r.stage \in {"read", "write"} => lock = k
       /\ r.stage = "write" => /\ VdfOf[r.hash][r.field] = r.vdf
                               /\ r.copy = [blocks[r.hash] EXCEPT ![r.field] = r.vdf]

PeerCalls == {k \in VdfCall : vcall[k] # V!NoCall /\ vcall[k].by = "peer"}
PairOf(k) == <<vcall[k].block, vcall[k].field>>

CallsOk == \A k \in VdfCall : CallOk(k, vcall[k], proofLock, stored)

\* Calls of peers are for different announcements, so that one that ends may forget its own.
VdfInv ==
    /\ onChain \in Fork /\ bluebox \subseteq Fork \X Field
    /\ stored = [b \in Fork |-> [f \in Field |-> stored[b][f]]]
    /\ \A b \in Fork, f \in Field : stored[b][f] \in {"none", VdfOf[b][f]}
    /\ vcall = [k \in VdfCall |-> vcall[k]]
    /\ CallsOk
    /\ requested = {PairOf(k) : k \in PeerCalls}
    /\ \A j, k \in PeerCalls : PairOf(j) = PairOf(k) => j = k

\* The calls, one by one.
LEMMA CallsOkNext ==
    ASSUME \A k \in VdfCall : CallOk(k, vcall'[k], proofLock', stored')
    PROVE  CallsOk'
BY Zenon DEF CallsOk, CallOk, CallRecord, V!NoCall

\* A call that goes on keeps the invariant, whether it takes the lock or has it already.
LEMMA VdfGoesOn ==
    ASSUME VdfInv, 0 \notin VdfCall, NEW k \in VdfCall, vcall[k] # V!NoCall,
           NEW s, NEW c, NEW h,
           LET r == CallRecord(s, vcall[k].by, vcall[k].block, vcall[k].field, c, h)
           IN  vcall' = [vcall EXCEPT ![k] = r] /\ CallOk(k, r, proofLock', stored),
           proofLock' = proofLock \/ proofLock = 0,
           UNCHANGED <<onChain, stored, requested, bluebox>>
    PROVE  VdfInv'
<1> DEFINE r == CallRecord(s, vcall[k].by, vcall[k].block, vcall[k].field, c, h)
<1>1. /\ vcall' = [j \in VdfCall |-> vcall'[j]] /\ vcall'[k] = r
      /\ \A j \in VdfCall \ {k} : vcall'[j] = vcall[j]
  BY Zenon DEF VdfInv
<1>2. r # V!NoCall /\ r.by = vcall[k].by /\ r.block = vcall[k].block /\ r.field = vcall[k].field
  BY DEF CallRecord, V!NoCall
<1>3. PeerCalls' = PeerCalls /\ \A j \in VdfCall : PairOf(j)' = PairOf(j)
  BY <1>1, <1>2 DEF PeerCalls, PairOf
<1>4. CallsOk'
  <2>1. ASSUME NEW j \in VdfCall PROVE CallOk(j, vcall'[j], proofLock', stored')
    <3>1. CASE j = k
      BY <1>1, <3>1
    <3>2. CASE j # k
      <4>1. CallOk(j, vcall[j], proofLock, stored)
        BY DEF VdfInv, CallsOk
      <4>2. CallOk(j, vcall[j], proofLock', stored)
        BY <4>1, <3>2, Zenon DEF CallOk
      <4> QED BY <1>1, <3>2, <4>2
    <3> QED BY <3>1, <3>2
  <2> QED BY <2>1, CallsOkNext
<1>5. requested' = {PairOf(j) : j \in PeerCalls}'
  <2>1. {PairOf(j)' : j \in PeerCalls'} = {PairOf(j) : j \in PeerCalls}
    BY <1>3 DEF PeerCalls
  <2> QED BY <2>1, Zenon DEF VdfInv
<1>6. (\A i, j \in PeerCalls : PairOf(i) = PairOf(j) => i = j)'
  BY <1>3 DEF VdfInv, PeerCalls
<1>7. /\ onChain' \in Fork /\ bluebox' \subseteq Fork \X Field
      /\ stored' = [b \in Fork |-> [f \in Field |-> stored'[b][f]]]
      /\ \A b \in Fork, f \in Field : stored'[b][f] \in {"none", VdfOf[b][f]}
  BY Zenon DEF VdfInv
<1> QED BY <1>1, <1>4, <1>5, <1>6, <1>7, Zenon DEF VdfInv

\* A call that ends forgets its announcement and no other.
LEMMA VdfEnds ==
    ASSUME VdfInv, NEW k \in VdfCall, vcall[k] # V!NoCall, V!EndCall(k),
           \A j \in VdfCall \ {k} : CallOk(j, vcall[j], proofLock', stored'),
           stored' = [b \in Fork |-> [f \in Field |-> stored'[b][f]]],
           \A b \in Fork, f \in Field : stored'[b][f] \in {"none", VdfOf[b][f]},
           UNCHANGED <<onChain, bluebox>>
    PROVE  VdfInv'
<1>1. /\ vcall' = [j \in VdfCall |-> vcall'[j]] /\ vcall'[k] = V!NoCall
      /\ \A j \in VdfCall \ {k} : vcall'[j] = vcall[j]
  BY DEF VdfInv, V!EndCall
<1>2. PeerCalls' = PeerCalls \ {k} /\ \A j \in VdfCall \ {k} : PairOf(j)' = PairOf(j)
  BY <1>1 DEF PeerCalls, PairOf
<1>3. CallsOk'
  <2>1. CallOk(k, vcall'[k], proofLock', stored')
    BY <1>1 DEF CallOk
  <2>2. \A j \in VdfCall : CallOk(j, vcall'[j], proofLock', stored')
    BY <1>1, <2>1
  <2> QED BY <2>2, CallsOkNext
<1>4. requested' = {PairOf(j) : j \in PeerCalls}'
  <2>1. {PairOf(j)' : j \in PeerCalls'} = {PairOf(j) : j \in PeerCalls \ {k}}
    BY <1>2 DEF PeerCalls
  <2>2. CASE k \in PeerCalls
    <3>1. requested' = {PairOf(j) : j \in PeerCalls} \ {PairOf(k)}
      BY <2>2 DEF VdfInv, V!EndCall, PeerCalls, PairOf
    <3>2. \A j \in PeerCalls : PairOf(j) = PairOf(k) => j = k
      BY <2>2, Zenon DEF VdfInv
    <3>3. {PairOf(j) : j \in PeerCalls} \ {PairOf(k)} = {PairOf(j) : j \in PeerCalls \ {k}}
      BY ONLY <3>2, Zenon
    <3> QED BY <2>1, <3>1, <3>3, Zenon
  <2>3. CASE k \notin PeerCalls
    <3>1. requested' = requested
      BY <2>3 DEF V!EndCall, PeerCalls
    <3> QED BY <2>1, <2>3, <3>1, ZenonT(40) DEF VdfInv
  <2> QED BY <2>2, <2>3
<1>5. (\A i, j \in PeerCalls : PairOf(i) = PairOf(j) => i = j)'
  BY <1>2, ZenonT(40) DEF VdfInv, PeerCalls, PairOf
<1> QED BY <1>1, <1>3, <1>4, <1>5 DEF VdfInv

\* The stage of a call is changed and nothing else of it.
LEMMA VdfStage ==
    ASSUME VdfInv, NEW k \in VdfCall, vcall[k] # V!NoCall, NEW s,
           vcall' = [vcall EXCEPT ![k].stage = s]
    PROVE  vcall' = [vcall EXCEPT ![k] = CallRecord(s, vcall[k].by, vcall[k].block, vcall[k].field,
                                                    vcall[k].copy, vcall[k].hash)]
<1>1. vcall[k] = CallRecord(vcall[k].stage, vcall[k].by, vcall[k].block, vcall[k].field,
                            vcall[k].copy, vcall[k].hash)
  BY Zenon DEF VdfInv, CallsOk, CallOk
<1>2. [vcall[k] EXCEPT !.stage = s] = CallRecord(s, vcall[k].by, vcall[k].block, vcall[k].field,
                                                 vcall[k].copy, vcall[k].hash)
  BY <1>1 DEF CallRecord
<1> QED BY <1>2, Zenon DEF VdfInv

\* A call begins: it is the only one of its announcement.
LEMMA VdfBegins ==
    ASSUME VdfInv, NEW k \in VdfCall, NEW by \in {"timelord", "peer"}, NEW s \in {"wait", "check"},
           NEW b \in Fork, NEW f \in Field, V!NewCall(k, by, s, b, f),
           by = "peer" => <<b, f>> \notin requested,
           requested' = IF by = "peer" THEN requested \cup {<<b, f>>} ELSE requested,
           bluebox' \subseteq bluebox, UNCHANGED <<onChain, stored, proofLock>>
    PROVE  VdfInv'
<1> DEFINE r == CallRecord(s, by, b, f, VdfOf[b], b)
<1>1. /\ vcall' = [j \in VdfCall |-> vcall'[j]] /\ vcall'[k] = r
      /\ \A j \in VdfCall \ {k} : vcall'[j] = vcall[j]
  BY Zenon DEF VdfInv, V!NewCall, CallRecord
<1>2. vcall[k] = V!NoCall /\ r # V!NoCall /\ r.by = by /\ r.block = b /\ r.field = f
  BY DEF CallRecord, V!NoCall, V!NewCall
<1>3. CallsOk'
  <2>1. CallOk(k, r, proofLock', stored')
    BY DEF CallOk, CallRecord
  <2>2. \A j \in VdfCall : CallOk(j, vcall'[j], proofLock', stored')
    BY <1>1, <2>1 DEF VdfInv, CallsOk
  <2> QED BY <2>2, CallsOkNext
<1>4. \A j \in VdfCall \ {k} : PairOf(j)' = PairOf(j)
  BY <1>1 DEF PairOf
<1>5. PairOf(k)' = <<b, f>>
  BY <1>1, <1>2 DEF PairOf
<1>6. CASE by = "peer"
  <2>1. PeerCalls' = PeerCalls \cup {k} /\ k \notin PeerCalls
    BY <1>1, <1>2, <1>6 DEF PeerCalls
  <2>2. requested' = {PairOf(j) : j \in PeerCalls}'
    <3>1. {PairOf(j)' : j \in PeerCalls'} = {PairOf(j) : j \in PeerCalls} \cup {<<b, f>>}
      BY <2>1, <1>4, <1>5 DEF PeerCalls
    <3> QED BY <1>6, <3>1 DEF VdfInv
  <2>3. (\A i, j \in PeerCalls : PairOf(i) = PairOf(j) => i = j)'
    <3>1. \A i \in PeerCalls : PairOf(i) # <<b, f>>
      BY <1>6 DEF VdfInv
    <3>2. ASSUME NEW i \in PeerCalls', NEW j \in PeerCalls', PairOf(i)' = PairOf(j)'
          PROVE  i = j
      <4>1. i \in VdfCall /\ j \in VdfCall
        BY DEF PeerCalls
      <4>2. CASE i = k \/ j = k
        BY <3>1, <3>2, <4>1, <4>2, <2>1, <1>4, <1>5
      <4>3. CASE i # k /\ j # k
        BY <3>2, <4>1, <4>3, <2>1, <1>4 DEF VdfInv
      <4> QED BY <4>2, <4>3
    <3> QED BY <3>2 DEF PairOf
  <2> QED BY <1>1, <1>3, <2>2, <2>3, Zenon DEF VdfInv
<1>7. CASE by = "timelord"
  <2>1. PeerCalls' = PeerCalls /\ k \notin PeerCalls
    BY <1>1, <1>2, <1>7 DEF PeerCalls
  <2>2. requested' = {PairOf(j) : j \in PeerCalls}'
    <3>1. {PairOf(j)' : j \in PeerCalls'} = {PairOf(j) : j \in PeerCalls}
      BY <2>1, <1>4 DEF PeerCalls
    <3> QED BY <1>7, <3>1, Zenon DEF VdfInv
  <2>3. (\A i, j \in PeerCalls : PairOf(i) = PairOf(j) => i = j)'
    <3>1. ASSUME NEW i \in PeerCalls', NEW j \in PeerCalls', PairOf(i)' = PairOf(j)'
          PROVE  i = j
      <4>1. i \in VdfCall \ {k} /\ j \in VdfCall \ {k}
        BY <2>1 DEF PeerCalls
      <4> QED BY <2>1, <3>1, <4>1, <1>4 DEF VdfInv
    <3> QED BY <3>1 DEF PairOf
  <2> QED BY <1>1, <1>3, <2>2, <2>3, Zenon DEF VdfInv
<1> QED BY <1>6, <1>7

\* A call with a compact proof takes a step.
LEMMA VdfCallInv ==
    ASSUME VdfInv, 0 \notin VdfCall, NEW k \in VdfCall, V!Step(k)
    PROVE  VdfInv'
<1> DEFINE r == vcall[k]
           To(s) == CallRecord(s, r.by, r.block, r.field, r.copy, r.hash)
<1>0. r # V!NoCall /\ CallOk(k, r, proofLock, stored)
  BY DEF VdfInv, CallsOk, V!Step, V!AskPeer, V!CheckProof, V!TakeLock, V!ReadBlock, V!WriteBlock
<1>1. ASSUME NEW s \in {"check", "lock"} PROVE CallOk(k, To(s), proofLock, stored)
  BY <1>0 DEF CallOk, CallRecord
<1>2. \A j \in VdfCall : CallOk(j, vcall[j], proofLock, stored)
  BY DEF VdfInv, CallsOk
<1>3. CASE UNCHANGED <<onChain, stored, proofLock, bluebox>> /\ V!EndCall(k)
  BY <1>0, <1>2, <1>3, VdfEnds DEF VdfInv
<1>4. ASSUME NEW s \in {"check", "lock"}, vcall' = [vcall EXCEPT ![k].stage = s],
             UNCHANGED <<onChain, stored, proofLock, requested, bluebox>>
      PROVE  VdfInv'
  BY <1>0, <1>1, <1>4, VdfStage, VdfGoesOn, Zenon
<1>5. CASE V!AskPeer(k)
  BY <1>3, <1>4, <1>5 DEF V!AskPeer
<1>6. CASE V!CheckProof(k)
  BY <1>3, <1>4, <1>6 DEF V!CheckProof
<1>7. CASE V!TakeLock(k)
  <2>1. CASE V!EndCall(k) /\ UNCHANGED <<proofLock, seenVdf>>
    BY <1>3, <1>7, <2>1 DEF V!TakeLock
  <2>2. CASE proofLock' = k /\ vcall' = [vcall EXCEPT ![k].stage = "read"] /\ UNCHANGED requested
    <3>1. CallOk(k, To("read"), proofLock', stored)
      BY <1>0, <2>2 DEF CallOk, CallRecord
    <3>2. vcall' = [vcall EXCEPT ![k] = To("read")]
      BY <1>0, <2>2, VdfStage, Zenon
    <3> QED BY <1>0, <1>7, <2>2, <3>1, <3>2, VdfGoesOn, Zenon DEF V!TakeLock
  <2> QED BY <1>7, <2>1, <2>2 DEF V!TakeLock
<1>8. CASE V!ReadBlock(k)
  <2>0. r.stage = "read" /\ proofLock = k
    BY <1>0, <1>8 DEF V!ReadBlock, CallOk
  <2>1. CASE V!EndCall(k) /\ proofLock' = 0
    <3>1. \A j \in VdfCall \ {k} : CallOk(j, vcall[j], proofLock', stored')
      BY <1>2, <1>8, <2>0 DEF CallOk, V!ReadBlock
    <3> QED BY <1>0, <1>8, <2>1, <3>1, VdfEnds DEF VdfInv, V!ReadBlock
  <2>2. CASE /\ VdfOf[onChain][r.field] = r.vdf
             /\ vcall' = [vcall EXCEPT ![k].stage = "write", ![k].hash = onChain,
                            ![k].copy = [stored[onChain] EXCEPT ![r.field] = r.vdf]]
             /\ UNCHANGED <<proofLock, requested>>
    <3> DEFINE c == [stored[onChain] EXCEPT ![r.field] = r.vdf]
               new == CallRecord("write", r.by, r.block, r.field, c, onChain)
    <3>1. r = To("read")
      BY <1>0, <2>0 DEF CallOk, CallRecord
    <3>2. PICK e : e = [r EXCEPT !.stage = "write"]
      BY Zenon
    <3>3. e = To("write")
      BY <3>1, <3>2 DEF CallRecord
    <3>4. PICK g : g = [e EXCEPT !.hash = onChain]
      BY Zenon
    <3>5. g = CallRecord("write", r.by, r.block, r.field, r.copy, onChain)
      BY <3>3, <3>4 DEF CallRecord
    <3>6. [g EXCEPT !.copy = c] = new
      BY <3>5 DEF CallRecord
    <3>7. vcall' = [vcall EXCEPT ![k] = new]
      BY <2>2, <3>2, <3>4, <3>6, Zenon DEF VdfInv
    <3>8. CallOk(k, new, proofLock', stored)
      <4>1. /\ r.by \in {"timelord", "peer"} /\ r.block \in Fork /\ r.field \in Field
            /\ r.vdf = VdfOf[r.block][r.field] /\ onChain \in Fork
        BY <1>0, <3>1 DEF CallOk, CallRecord, VdfInv
      <4> QED BY <2>0, <2>2, <4>1 DEF CallOk, CallRecord
    <3> QED BY <1>0, <1>8, <2>2, <3>7, <3>8, VdfGoesOn, Zenon DEF V!ReadBlock
  <2> QED BY <1>8, <2>1, <2>2 DEF V!ReadBlock
<1>9. CASE V!WriteBlock(k)
  <2>0. /\ r.stage = "write" /\ proofLock = k /\ r.hash \in Fork /\ r.field \in Field
        /\ VdfOf[r.hash][r.field] = r.vdf
        /\ r.copy = [stored[r.hash] EXCEPT ![r.field] = r.vdf]
    BY <1>0, <1>9 DEF V!WriteBlock, CallOk
  <2>1. stored' = [stored EXCEPT ![r.hash] = [stored[r.hash] EXCEPT ![r.field] = r.vdf]]
    BY <1>9, <2>0 DEF V!WriteBlock
  <2>2. /\ stored' = [b \in Fork |-> [f \in Field |-> stored'[b][f]]]
        /\ \A b \in Fork, f \in Field : stored'[b][f] \in {"none", VdfOf[b][f]}
    <3>1. ASSUME NEW b \in Fork
          PROVE  stored'[b] = IF b = r.hash THEN [stored[b] EXCEPT ![r.field] = r.vdf] ELSE stored[b]
      BY <2>0, <2>1 DEF VdfInv
    <3>2. ASSUME NEW b \in Fork
          PROVE  /\ stored'[b] = [f \in Field |-> stored'[b][f]]
                 /\ \A f \in Field : stored'[b][f] \in {"none", VdfOf[b][f]}
      <4>1. /\ stored[b] = [f \in Field |-> stored[b][f]]
            /\ \A f \in Field : stored[b][f] \in {"none", VdfOf[b][f]}
        BY DEF VdfInv
      <4> QED BY <2>0, <3>1, <4>1, ZenonT(40)
    <3>3. stored' = [b \in Fork |-> stored'[b]]
      BY <2>1, Zenon DEF VdfInv
    <3> QED BY <3>2, <3>3
  <2>3. \A j \in VdfCall \ {k} : CallOk(j, vcall[j], proofLock', stored')
    BY <1>2, <2>0, Zenon DEF CallOk
  <2> QED BY <1>0, <1>9, <2>2, <2>3, VdfEnds, Zenon DEF V!WriteBlock
<1> QED BY <1>5, <1>6, <1>7, <1>8, <1>9 DEF V!Step

\* Each step of the calls and of the chain.
LEMMA VdfStepInv ==
    ASSUME VdfInv, 0 \notin VdfCall, [V!Next]_V!vdfVars
    PROVE  VdfInv'
<1>1. CASE V!broadcast_uncompact_blocks \/ V!Reorg \/ UNCHANGED V!vdfVars
  <2>1. onChain' \in Fork /\ bluebox' \subseteq Fork \X Field
    <3>1. CASE V!broadcast_uncompact_blocks
      <4>1. PICK S \in SUBSET V!Uncompact(onChain) : bluebox' = bluebox \cup {<<onChain, f>> : f \in S}
        BY <3>1 DEF V!broadcast_uncompact_blocks
      <4>2. S \subseteq Field /\ onChain' = onChain
        BY <3>1 DEF V!broadcast_uncompact_blocks, V!Uncompact
      <4> QED BY <4>1, <4>2 DEF VdfInv
    <3> QED BY <1>1, <3>1 DEF VdfInv, V!Reorg, V!vdfVars
  <2>2. UNCHANGED <<stored, proofLock, vcall, requested>>
    BY <1>1 DEF V!broadcast_uncompact_blocks, V!Reorg, V!vdfVars
  <2>3. CallsOk'
    BY <2>2, CallsOkNext DEF VdfInv, CallsOk
  <2>4. PeerCalls' = PeerCalls /\ \A k \in PeerCalls : PairOf(k)' = PairOf(k)
    BY <2>2 DEF PeerCalls, PairOf
  <2>5. {PairOf(k) : k \in PeerCalls}' = {PairOf(k) : k \in PeerCalls}
    BY <2>4
  <2>6. (\A j, k \in PeerCalls : PairOf(j) = PairOf(k) => j = k)'
    BY <2>2 DEF VdfInv, PeerCalls, PairOf
  <2> QED BY <2>1, <2>2, <2>3, <2>5, <2>6, Zenon DEF VdfInv
<1>2. ASSUME NEW k \in VdfCall, V!respond_compact_proof_of_time(k) PROVE VdfInv'
  <2>1. PICK r \in bluebox : V!NewCall(k, "timelord", "check", r[1], r[2]) /\ bluebox' = bluebox \ {r}
    BY <1>2 DEF V!respond_compact_proof_of_time
  <2>2. r[1] \in Fork /\ r[2] \in Field
    BY DEF VdfInv
  <2> QED BY <1>2, <2>1, <2>2, VdfBegins DEF V!respond_compact_proof_of_time
<1>3. ASSUME NEW k \in VdfCall, NEW b \in Fork, NEW f \in Field, V!new_compact_vdf(k, b, f)
      PROVE  VdfInv'
  BY <1>3, VdfBegins DEF V!new_compact_vdf
<1> QED BY <1>1, <1>2, <1>3, VdfCallInv DEF V!Next

\* The invariant of the proofs holds at every moment.
LEMMA VdfInvAlways ==
    ASSUME 0 \notin VdfCall
    PROVE  V!Spec => []VdfInv
<1>1. V!Init => VdfInv
  BY DEF V!Init, VdfInv, CallsOk, CallOk, PeerCalls
<1> QED BY <1>1, VdfStepInv, PTL DEF V!Spec

\* The compact proof of a block that request_compact_vdf sends proves the VDF that was asked for,
\* for any number of blocks at the height, of fields and of calls that check, read and write
\* them concurrently; and compact_vdf_requests names the announcements calls work on, no others.
\* The lock takes 0 as free, which therefore is no call.
THEOREM CompactVdf_ProofsMatch ==
    ASSUME 0 \notin VdfCall
    PROVE  V!Spec => []V!ProofsMatch
<1>1. VdfInv => V!ProofsMatch
  BY DEF VdfInv, V!ProofsMatch, V!request_compact_vdf, PeerCalls, PairOf
<1> QED BY <1>1, VdfInvAlways, PTL

\* The answer to a request of a wallet that is proved to it agrees with the block it names, also
\* when a reorganisation comes between two reads; and a compact proof that is served proves the
\* VDF that was asked for.
ProvenAnswersMatch == Q!ProvenAnswersMatch /\ V!ProofsMatch

\* What the node proves to others is right, of the blocks it names and of the VDFs it is asked
\* for, although its chain is reorganised and its blocks are rewritten meanwhile.
THEOREM Node_ProvenAnswersMatch ==
    ASSUME 0 \notin VdfCall
    PROVE  Q!Spec /\ V!Spec => []ProvenAnswersMatch
<1>1. Q!ProvenAnswersMatch /\ V!ProofsMatch => ProvenAnswersMatch
  BY DEF ProvenAnswersMatch
<1> QED BY <1>1, Queries_AnswersMatch, CompactVdf_ProofsMatch, PTL

\* A compact proof that was written stays: a call reads, changes and writes the whole block, and
\* compact_proof_lock keeps two calls from doing so at the same time.
THEOREM CompactVdf_CompactStays ==
    ASSUME 0 \notin VdfCall
    PROVE  V!Spec => V!CompactStays
<1> DEFINE Stays == \A b \in Fork, f \in Field : stored[b][f] # "none" => stored'[b][f] = stored[b][f]
<1>1. ASSUME VdfInv, V!Next PROVE Stays
  <2>1. CASE \E k \in VdfCall : V!WriteBlock(k)
    <3>1. PICK k \in VdfCall : V!WriteBlock(k)
      BY <2>1
    <3>2. vcall[k].stage = "write" /\ vcall[k] # V!NoCall /\ CallOk(k, vcall[k], proofLock, stored)
      BY <1>1, <3>1 DEF VdfInv, CallsOk, V!WriteBlock
    <3>3. /\ vcall[k].hash \in Fork /\ vcall[k].field \in Field
          /\ VdfOf[vcall[k].hash][vcall[k].field] = vcall[k].vdf
          /\ vcall[k].copy = [stored[vcall[k].hash] EXCEPT ![vcall[k].field] = vcall[k].vdf]
      BY <3>2 DEF CallOk
    <3>4. stored' = [stored EXCEPT ![vcall[k].hash] =
                       [stored[vcall[k].hash] EXCEPT ![vcall[k].field] = vcall[k].vdf]]
      BY <3>1, <3>3 DEF V!WriteBlock
    <3>5. ASSUME NEW b \in Fork, NEW f \in Field, stored[b][f] # "none"
          PROVE  stored'[b][f] = stored[b][f]
      <4>1. stored[b][f] = VdfOf[b][f] /\ stored = [c \in Fork |-> stored[c]]
            /\ stored[b] = [g \in Field |-> stored[b][g]]
        BY <1>1, <3>5 DEF VdfInv
      <4> QED BY <3>3, <3>4, <4>1
    <3> QED BY <3>5
  <2>2. CASE UNCHANGED stored
    BY <2>2
  <2> QED BY <1>1, <2>1, <2>2, Zenon DEF V!Next, V!Step, V!broadcast_uncompact_blocks, V!Reorg,
             V!respond_compact_proof_of_time, V!AskPeer, V!CheckProof, V!TakeLock, V!ReadBlock,
             V!new_compact_vdf
<1>2. VdfInv /\ [V!Next]_V!vdfVars => [Stays]_V!vdfVars
  BY <1>1
<1> QED BY <1>2, VdfInvAlways, PTL DEF V!Spec, V!CompactStays

-----------------------------------------------------------------------------
(* Farming *)

CONSTANTS Proof, PeerProof, SpIters, IpIters, Clock, MaxIters, MaxDeclared, MaxAttempts, KeepDepth
VARIABLES iters, chain, candidate, backup, declared, toSign, seenUnf, validating, unfinished

F == INSTANCE Farming

FarmBlock == [ip : Nat, sp : Nat, tx : BOOLEAN, claims : SUBSET Nat, time : Int]
FarmChain == {c \in Seq(FarmBlock) : Len(c) >= 1 /\ c[1].tx}

\* The blocks of a chain and their fields.
LEMMA BlockIs ==
    ASSUME NEW c \in FarmChain
    PROVE  /\ Len(c) \in Nat /\ DOMAIN c = 1 .. Len(c)
           /\ \A i \in 1 .. Len(c) : c[i] \in FarmBlock /\ c[i].ip \in Nat /\ c[i].time \in Int
<1>1. c \in Seq(FarmBlock)
  BY DEF FarmChain
<1>2. \A b \in FarmBlock : b.ip \in Nat /\ b.time \in Int
  BY DEF FarmBlock
<1>3. Len(c) \in Nat /\ DOMAIN c = 1 .. Len(c) /\ \A i \in 1 .. Len(c) : c[i] \in FarmBlock
  BY <1>1
<1> QED BY <1>2, <1>3

\* A chain has a last transaction block.
LEMMA LastTxIs ==
    ASSUME NEW c \in FarmChain
    PROVE  /\ F!LastTx(c) \in 1 .. Len(c) /\ c[F!LastTx(c)].tx
           /\ \A j \in 1 .. Len(c) : c[j].tx => j <= F!LastTx(c)
<1> DEFINE S == {i \in DOMAIN c : c[i].tx}
<1>1. DOMAIN c = 1 .. Len(c) /\ Len(c) \in Nat /\ 1 \in S
  BY DEF FarmChain
<1>2. S \in SUBSET (1 .. Len(c)) /\ S # {}
  BY <1>1
<1>3. F!Max(S) \in S /\ \A x \in S : x <= F!Max(S)
  <2>1. F!Max(S) = Max(S)
    BY DEF F!Max, Max
  <2> HIDE DEF S
  <2> QED BY <1>1, <1>2, <2>1, MaxUpTo
<1> QED BY <1>1, <1>3 DEF F!LastTx

\* A chain up to one of its blocks is a chain.
LEMMA PrefixIs ==
    ASSUME NEW c \in FarmChain, NEW m \in 1 .. Len(c)
    PROVE  /\ SubSeq(c, 1, m) \in FarmChain /\ Len(SubSeq(c, 1, m)) = m
           /\ \A i \in 1 .. m : SubSeq(c, 1, m)[i] = c[i]
<1>1. c \in Seq(FarmBlock) /\ Len(c) \in Nat /\ m \in Int /\ 1 \in 1 .. m /\ c[1].tx
  BY DEF FarmChain
<1>2. /\ SubSeq(c, 1, m) \in Seq(FarmBlock) /\ Len(SubSeq(c, 1, m)) = m
      /\ \A i \in 1 .. m : SubSeq(c, 1, m)[i] = c[i]
  BY <1>1
<1>3. PICK p \in Seq(FarmBlock) : p = SubSeq(c, 1, m)
  BY <1>2, Zenon
<1>4. Len(p) >= 1 /\ p[1] = c[1]
  BY <1>1, <1>2, <1>3
<1>5. p \in FarmChain
  BY <1>1, <1>4 DEF FarmChain
<1> QED BY <1>2, <1>3, <1>5

\* The last transaction block is that of a prefix that has it.
LEMMA LastTxOfPrefix ==
    ASSUME NEW c \in FarmChain, NEW m \in 1 .. Len(c), \A i \in m + 1 .. Len(c) : ~c[i].tx
    PROVE  F!LastTx(SubSeq(c, 1, m)) = F!LastTx(c)
<1>1. PICK p \in FarmChain : p = SubSeq(c, 1, m)
  BY PrefixIs, Zenon
<1>2. Len(p) = m /\ \A i \in 1 .. m : p[i] = c[i]
  BY <1>1, PrefixIs
<1>3. Len(c) \in Nat
  BY DEF FarmChain
<1>4. F!LastTx(p) = F!LastTx(c)
  BY <1>2, <1>3, LastTxIs
<1> QED BY <1>1, <1>4

\* The rewards a chain has paid out, by the index of the last one.
Paid(c) == IF F!LastTx(c) = 1 THEN 0 ELSE F!LastTx(F!Before(c, F!LastTx(c)))

\* What a block claims is what the validation expects: what has not been paid out.
LEMMA PaidIs ==
    ASSUME NEW c \in FarmChain
    PROVE  /\ Paid(c) \in Nat /\ Paid(c) < F!LastTx(c)
           /\ F!RewardClaims(c) = Paid(c) + 1 .. F!LastTx(c)
           /\ F!ExpectedRewards(c) = Paid(c) + 1 .. F!LastTx(c)
<1> DEFINE l == F!LastTx(c)
<1>1. l \in 1 .. Len(c) /\ c[l].tx /\ Len(c) \in Nat
  BY LastTxIs DEF FarmChain
<1>2. CASE l = 1
  BY <1>1, <1>2 DEF Paid, F!RewardClaims, F!ExpectedRewards
<1>3. CASE l # 1
  <2>0. l - 1 \in 1 .. Len(c)
    BY <1>1, <1>3
  <2>1. PICK p \in FarmChain : p = F!Before(c, l)
    BY <2>0, PrefixIs, Zenon DEF F!Before
  <2>2. Len(p) = l - 1 /\ \A i \in 1 .. l - 1 : p[i] = c[i]
    BY <1>1, <1>3, <2>1, PrefixIs DEF F!Before
  <2>3. Paid(c) = F!LastTx(p) /\ F!RewardClaims(c) = F!LastTx(p) + 1 .. l
    BY <1>3, <2>1 DEF Paid, F!RewardClaims
  <2>4. /\ F!LastTx(p) \in 1 .. l - 1 /\ c[F!LastTx(p)].tx
        /\ \A j \in 1 .. l - 1 : c[j].tx => j <= F!LastTx(p)
    BY <1>1, <2>2, LastTxIs
  <2>5. F!ExpectedRewards(c) = F!LastTx(p) + 1 .. l
    <3>1. F!ExpectedRewards(c) = {l} \cup {i \in 2 .. l - 1 : \A j \in i .. l - 1 : ~c[j].tx}
      BY DEF F!ExpectedRewards
    <3>2. ASSUME NEW i \in 2 .. l - 1 PROVE (\A j \in i .. l - 1 : ~c[j].tx) <=> i > F!LastTx(p)
      BY <1>1, <2>4
    <3> HIDE DEF l
    <3> QED BY <1>1, <1>3, <2>4, <3>1, <3>2
  <2> QED BY <1>1, <2>3, <2>4, <2>5
<1> QED BY <1>2, <1>3

\* Blocks without transactions do not change what is to be claimed.
LEMMA ClaimsOfPrefix ==
    ASSUME NEW c \in FarmChain, NEW m \in 1 .. Len(c), \A i \in m + 1 .. Len(c) : ~c[i].tx
    PROVE  F!RewardClaims(SubSeq(c, 1, m)) = F!RewardClaims(c)
<1>1. PICK p \in FarmChain : p = SubSeq(c, 1, m)
  BY PrefixIs, Zenon
<1>2. Len(p) = m /\ (\A i \in 1 .. m : p[i] = c[i]) /\ F!LastTx(p) = F!LastTx(c)
  BY <1>1, PrefixIs, LastTxOfPrefix
<1>3. F!LastTx(p) \in 1 .. m /\ Len(c) \in Nat
  BY <1>2, LastTxIs DEF FarmChain
<1>4. F!LastTx(p) # 1 => F!Before(p, F!LastTx(p)) = F!Before(c, F!LastTx(p))
  <2> DEFINE l == F!LastTx(p)
  <2>1. ASSUME l # 1 PROVE F!Before(p, l) = F!Before(c, l)
    <3>1. p \in Seq(FarmBlock) /\ c \in Seq(FarmBlock) /\ l - 1 \in 1 .. m /\ l - 1 <= Len(c)
      BY <2>1, <1>3 DEF FarmChain
    <3> HIDE DEF l
    <3>2. SubSeq(p, 1, l - 1) = [i \in 1 .. l - 1 |-> p[i]] /\ SubSeq(c, 1, l - 1) = [i \in 1 .. l - 1 |-> c[i]]
      BY <3>1, <1>2
    <3> QED BY <3>1, <3>2, <1>2 DEF F!Before
  <2> QED BY <2>1
<1>5. F!RewardClaims(p) = F!RewardClaims(c)
  BY <1>2, <1>4 DEF F!RewardClaims
<1> QED BY <1>1, <1>5

\* The model's constants: iterations are numbers, and clocks integers.
FarmConstants ==
    /\ SpIters \in [Proof -> Nat] /\ IpIters \in [Proof -> Nat] /\ Clock \in [Proof -> Int]
    /\ PeerProof \subseteq Proof

\* The foliage f of q was made on a prefix of the chain c, with all blocks of c up to the signage
\* point of q in it, which the time t has passed.
Made(q, f, c, t) ==
    /\ q \in Proof /\ SpIters[q] <= t /\ f.time \in Int
    /\ \E m \in 1 .. Len(c) :
         /\ f.claims = F!RewardClaims(SubSeq(c, 1, m))
         /\ f.time > c[F!LastTx(SubSeq(c, 1, m))].time
         /\ \A i \in m + 1 .. Len(c) : c[i].ip >= SpIters[q]

\* A foliage is made on the blocks up to its signage point,
LEMMA MadeNow ==
    ASSUME FarmConstants, iters \in Nat, chain \in FarmChain, chain[1].ip = 0,
           NEW q \in Proof, F!KnownSignagePoint(q), NEW full, NEW n
    PROVE  Made(q, F!create_unfinished_block(q, full, n), chain, iters)
<1> DEFINE S == {i \in DOMAIN chain : chain[i].ip <= SpIters[q]}
           m == F!Max(S)
           c == SubSeq(chain, 1, m)
           f == F!create_unfinished_block(q, full, n)
<1>1. SpIters[q] \in Nat /\ Clock[q] \in Int
  BY DEF FarmConstants
<1>2. DOMAIN chain = 1 .. Len(chain) /\ Len(chain) \in Nat /\ 1 \in S
  BY <1>1 DEF FarmChain
<1>3. S \in SUBSET (1 .. Len(chain)) /\ S # {}
  BY <1>2
<1>4. m \in 1 .. Len(chain) /\ \A x \in S : x <= m
  <2>1. F!Max(S) = Max(S)
    BY DEF F!Max, Max
  <2> HIDE DEF S
  <2> QED BY <1>2, <1>3, <2>1, MaxUpTo
<1>5. ASSUME NEW i \in m + 1 .. Len(chain) PROVE chain[i].ip >= SpIters[q]
  <2>1. i \in 1 .. Len(chain) /\ i > m
    BY <1>2, <1>4
  <2>2. i \notin S
    <3> HIDE DEF S, m
    <3>1. m \in Int
      BY <1>2, <1>4
    <3> QED BY <1>4, <2>1, <3>1
  <2>3. chain[i].ip \in Nat /\ i \in DOMAIN chain
    BY <1>2, <2>1, BlockIs
  <2> QED BY <1>1, <2>2, <2>3
<1>6. /\ c \in FarmChain /\ F!LastTx(c) \in 1 .. m /\ c[F!LastTx(c)] = chain[F!LastTx(c)]
      /\ c[F!LastTx(c)].time \in Int
  <2>1. c \in FarmChain /\ Len(c) = m /\ \A i \in 1 .. m : c[i] = chain[i]
    BY <1>4, PrefixIs, Zenon
  <2>2. F!LastTx(c) \in 1 .. m
    BY <2>1, LastTxIs, Zenon
  <2>3. chain[F!LastTx(c)].time \in Int
    <3>1. F!LastTx(c) \in 1 .. Len(chain)
      BY <1>2, <1>4, <2>2
    <3> HIDE DEF c
    <3> QED BY <3>1, BlockIs
  <2> QED BY <2>1, <2>2, <2>3, Zenon
<1>7. f.claims = F!RewardClaims(c) /\ f.time = F!Timestamp(q, c)
  BY DEF F!create_unfinished_block, F!create_foliage, F!AtSignagePoint
<1>8. F!Timestamp(q, c) \in Int /\ F!Timestamp(q, c) > c[F!LastTx(c)].time
  <2> DEFINE T == c[F!LastTx(c)].time
  <2>1. F!Timestamp(q, c) = F!Max({Clock[q], T + 1})
    BY DEF F!Timestamp
  <2>2. F!Max({Clock[q], T + 1}) \in {Clock[q], T + 1} /\ F!Max({Clock[q], T + 1}) >= T + 1
    <3>1. T \in Int
      BY <1>6, Zenon
    <3> HIDE DEF T
    <3>2. CASE Clock[q] >= T + 1
      BY <1>1, <3>1, <3>2 DEF F!Max
    <3>3. CASE Clock[q] < T + 1
      BY <1>1, <3>1, <3>3 DEF F!Max
    <3> QED BY <1>1, <3>1, <3>2, <3>3
  <2>3. T \in Int
    BY <1>6, Zenon
  <2> HIDE DEF T
  <2>4. F!Timestamp(q, c) \in Int /\ F!Timestamp(q, c) > T
    BY <1>1, <2>1, <2>2, <2>3
  <2> QED BY <2>4, Zenon DEF T
<1>9. SpIters[q] <= iters
  BY DEF F!KnownSignagePoint
<1>10. f.claims = F!RewardClaims(SubSeq(chain, 1, m)) /\ f.time \in Int
       /\ f.time > chain[F!LastTx(SubSeq(chain, 1, m))].time
  BY <1>6, <1>7, <1>8, Zenon
<1> HIDE DEF m
<1>11. \A g : g = f => Made(q, g, chain, iters)
  <2> HIDE DEF f
  <2> QED BY <1>4, <1>5, <1>9, <1>10 DEF Made
<1> QED BY <1>11

\* and stays so as time passes and blocks are infused after the point.
LEMMA MadeLater ==
    ASSUME FarmConstants, NEW q, NEW f, NEW c \in FarmChain, NEW t \in Nat, Made(q, f, c, t)
    PROVE  /\ \A u \in Nat : u >= t => Made(q, f, c, u)
           /\ \A b \in FarmBlock : b.ip = t => Made(q, f, Append(c, b), t)
<1>1. SpIters[q] \in Nat
  BY DEF Made, FarmConstants
<1>2. ASSUME NEW u \in Nat, u >= t PROVE Made(q, f, c, u)
  BY <1>1, <1>2 DEF Made
<1>3. ASSUME NEW b \in FarmBlock, b.ip = t PROVE Made(q, f, Append(c, b), t)
  <2>1. PICK m \in 1 .. Len(c) :
             /\ f.claims = F!RewardClaims(SubSeq(c, 1, m))
             /\ f.time > c[F!LastTx(SubSeq(c, 1, m))].time
             /\ \A i \in m + 1 .. Len(c) : c[i].ip >= SpIters[q]
    BY DEF Made
  <2>2. PICK d : d = Append(c, b)
    BY Zenon
  <2>3. /\ c \in Seq(FarmBlock) /\ Len(c) \in Nat /\ d \in Seq(FarmBlock) /\ Len(d) = Len(c) + 1
        /\ d[Len(c) + 1] = b /\ \A i \in 1 .. Len(c) : d[i] = c[i]
    BY <2>2 DEF FarmChain
  <2>4. SubSeq(d, 1, m) = SubSeq(c, 1, m)
    <3>1. SubSeq(d, 1, m) = [i \in 1 .. m |-> d[i]] /\ SubSeq(c, 1, m) = [i \in 1 .. m |-> c[i]]
      BY <2>3
    <3> QED BY <2>3, <3>1
  <2>5. F!LastTx(SubSeq(c, 1, m)) \in 1 .. Len(c)
    <3>1. PICK p \in FarmChain : p = SubSeq(c, 1, m) /\ Len(p) = m
      BY PrefixIs, Zenon
    <3>2. F!LastTx(p) \in 1 .. m
      BY <3>1, LastTxIs, Zenon
    <3> QED BY <2>3, <3>1, <3>2
  <2>6. \A i \in m + 1 .. Len(d) : d[i].ip >= SpIters[q]
    <3>1. ASSUME NEW i \in m + 1 .. Len(d) PROVE d[i].ip >= SpIters[q]
      <4>1. CASE i = Len(c) + 1
        BY <1>3, <2>3, <4>1 DEF Made
      <4>2. CASE i \in m + 1 .. Len(c)
        BY <2>1, <2>3, <4>2
      <4> QED BY <2>3, <4>1, <4>2
    <3> QED BY <3>1
  <2>7. m \in 1 .. Len(d) /\ f.time > d[F!LastTx(SubSeq(c, 1, m))].time
    BY <2>1, <2>3, <2>5
  <2>8. Made(q, f, d, t)
    BY <2>1, <2>4, <2>6, <2>7, Zenon DEF Made
  <2> QED BY <2>2, <2>8
<1> QED BY <1>2, <1>3

\* What was made at the signage point is right where it is infused.
LEMMA MadeIsRight ==
    ASSUME FarmConstants, chain \in FarmChain, NEW q, NEW f, Made(q, f, chain, iters)
    PROVE  LET b == F!unfinished_block_to_full_block(q, f)
           IN  /\ b \in FarmBlock /\ b.ip = IpIters[q]
               /\ b.tx => /\ b.claims = F!RewardClaims(chain)
                          /\ b.time > chain[F!LastTx(chain)].time
               /\ ~b.tx => b.claims = {}
<1>1. SpIters[q] \in Nat /\ IpIters[q] \in Nat /\ f.time \in Int
  BY DEF Made, FarmConstants
<1>2. CASE ~F!IsTransactionBlock(chain, SpIters[q])
  <2>1. PICK b : b = F!unfinished_block_to_full_block(q, f)
    BY Zenon
  <2>2. b = [ip |-> IpIters[q], sp |-> SpIters[q], tx |-> FALSE, claims |-> {}, time |-> 0]
    BY <1>2, <2>1, Zenon DEF F!unfinished_block_to_full_block
  <2>3. b \in FarmBlock /\ b.ip = IpIters[q] /\ ~b.tx /\ b.claims = {}
    BY ONLY <1>1, <2>2 DEF FarmBlock
  <2> QED BY <2>1, <2>3, Zenon
<1>3. CASE F!IsTransactionBlock(chain, SpIters[q])
  <2>1. PICK m \in 1 .. Len(chain) :
             /\ f.claims = F!RewardClaims(SubSeq(chain, 1, m))
             /\ f.time > chain[F!LastTx(SubSeq(chain, 1, m))].time
             /\ \A i \in m + 1 .. Len(chain) : chain[i].ip >= SpIters[q]
    BY DEF Made
  <2> DEFINE l == F!LastTx(chain)
  <2>2. l \in 1 .. Len(chain) /\ SpIters[q] > chain[l].ip /\ Len(chain) \in Nat /\ chain[l].ip \in Nat
    BY <1>3, LastTxIs, BlockIs DEF F!IsTransactionBlock
  <2>3. l <= m
    BY <1>1, <2>1, <2>2
  <2>4. \A i \in m + 1 .. Len(chain) : ~chain[i].tx
    BY <2>2, <2>3, LastTxIs
  <2>5. f.claims = F!RewardClaims(chain) /\ f.time > chain[l].time
    BY <2>1, <2>4, ClaimsOfPrefix, LastTxOfPrefix
  <2>6. f.claims \in SUBSET Nat
    <3>1. Paid(chain) \in Nat /\ l \in Nat /\ F!RewardClaims(chain) = Paid(chain) + 1 .. l
      BY <2>2, PaidIs
    <3> HIDE DEF l
    <3> QED BY <2>5, <3>1
  <2> QED BY <1>1, <1>3, <2>5, <2>6, Zenon DEF F!unfinished_block_to_full_block, FarmBlock
<1> QED BY <1>2, <1>3

AllMade(fs) == \A q \in DOMAIN fs : Made(q, fs[q], chain, iters)

FoliageInv ==
    /\ AllMade(candidate) /\ AllMade(backup) /\ AllMade(unfinished)
    /\ \A s \in toSign : Made(s[1], s[2], chain, iters)
    /\ \A v \in validating : Made(v.proof, v.foliage, chain, iters)

\* The rewards that the blocks claim are those of the first Paid blocks, each once.
ClaimsOk(c) ==
    /\ UNION {c[i].claims : i \in DOMAIN c} = 1 .. Paid(c)
    /\ \A i, j \in DOMAIN c : i # j => c[i].claims \cap c[j].claims = {}

ValidChain(c) ==
    \A i \in 2 .. Len(c) : c[i].tx =>
        /\ c[i].claims = F!ExpectedRewards(F!Before(c, i))
        /\ c[i].time > c[F!LastTx(F!Before(c, i))].time

FarmInv ==
    /\ iters \in Nat /\ chain \in FarmChain /\ chain[1].ip = 0
    /\ ValidChain(chain) /\ ClaimsOk(chain)
    /\ FoliageInv

\* A block that is right for the chain keeps it valid, and claims what was not claimed before.
LEMMA ChainGrows ==
    ASSUME NEW c \in FarmChain, c[1].ip = 0, ValidChain(c), ClaimsOk(c), NEW b \in FarmBlock,
           b.tx => b.claims = F!RewardClaims(c) /\ b.time > c[F!LastTx(c)].time,
           ~b.tx => b.claims = {}
    PROVE  LET d == Append(c, b)
           IN  d \in FarmChain /\ d[1].ip = 0 /\ ValidChain(d) /\ ClaimsOk(d)
<1>1. PICK d : d = Append(c, b)
  BY Zenon
<1>2. /\ c \in Seq(FarmBlock) /\ Len(c) \in Nat /\ Len(c) >= 1 /\ d \in Seq(FarmBlock)
      /\ Len(d) = Len(c) + 1 /\ d[Len(c) + 1] = b /\ \A i \in 1 .. Len(c) : d[i] = c[i]
  BY <1>1 DEF FarmChain
<1>3. d[1] = c[1]
  BY <1>2
<1>4. d \in FarmChain /\ d[1].ip = 0
  BY <1>2, <1>3 DEF FarmChain
<1>5. ASSUME NEW i \in 2 .. Len(c) + 1
      PROVE  F!Before(d, i) = F!Before(c, i) /\ F!Before(c, i) \in FarmChain
             /\ F!LastTx(F!Before(c, i)) \in 1 .. i - 1
  <2>1. i - 1 \in 1 .. Len(c)
    BY <1>2
  <2>2. SubSeq(d, 1, i - 1) = [k \in 1 .. i - 1 |-> d[k]] /\ SubSeq(c, 1, i - 1) = [k \in 1 .. i - 1 |-> c[k]]
    BY <1>2, <2>1
  <2>3. SubSeq(d, 1, i - 1) = SubSeq(c, 1, i - 1)
    BY <1>2, <2>1, <2>2
  <2>4. PICK p \in FarmChain : p = SubSeq(c, 1, i - 1) /\ Len(p) = i - 1
    BY <2>1, PrefixIs, Zenon
  <2>5. F!LastTx(p) \in 1 .. i - 1
    BY <2>4, LastTxIs, Zenon
  <2> QED BY <2>3, <2>4, <2>5 DEF F!Before
<1>6. F!Before(c, Len(c) + 1) = c
  BY <1>2 DEF F!Before
<1>7. ValidChain(d)
  <2>1. ASSUME NEW i \in 2 .. Len(d), d[i].tx
        PROVE  /\ d[i].claims = F!ExpectedRewards(F!Before(d, i))
               /\ d[i].time > d[F!LastTx(F!Before(d, i))].time
    <3>1. i \in 2 .. Len(c) + 1
      BY <1>2
    <3>2. PICK p \in FarmChain : p = F!Before(c, i) /\ p = F!Before(d, i) /\ F!LastTx(p) \in 1 .. i - 1
      BY <1>5, <3>1
    <3>3. d[F!LastTx(p)] = c[F!LastTx(p)]
      BY <1>2, <3>1, <3>2
    <3>4. CASE i \in 2 .. Len(c)
      <4>1. d[i] = c[i] /\ c[i].tx
        BY <1>2, <2>1, <3>4
      <4> QED BY <3>2, <3>3, <3>4, <4>1, Zenon DEF ValidChain
    <3>5. CASE i = Len(c) + 1
      <4>1. p = c /\ d[i] = b /\ b.tx
        BY <1>2, <1>6, <2>1, <3>2, <3>5, Zenon
      <4>2. b.claims = F!ExpectedRewards(c)
        BY <4>1, PaidIs
      <4> QED BY <3>2, <3>3, <4>1, <4>2
    <3> QED BY <3>1, <3>4, <3>5
  <2> QED BY <2>1 DEF ValidChain
<1>8. ClaimsOk(d)
  <2> DEFINE n == Len(c)
  <2>1. DOMAIN c = 1 .. n /\ DOMAIN d = 1 .. n + 1 /\ n \in Nat /\ n >= 1
    BY <1>2
  <2>2. UNION {d[i].claims : i \in DOMAIN d} = (1 .. Paid(c)) \cup b.claims
    <3>1. UNION {d[i].claims : i \in DOMAIN d} = (UNION {c[i].claims : i \in DOMAIN c}) \cup b.claims
      <4>1. \A i \in 1 .. n : d[i].claims = c[i].claims
        BY <1>2
      <4>2. d[n + 1].claims = b.claims
        BY <1>2
      <4> HIDE DEF n
      <4> QED BY <2>1, <4>1, <4>2
    <3> QED BY <3>1 DEF ClaimsOk
  <2>3. CASE b.tx
    <3>1. F!LastTx(d) = n + 1
      BY <1>2, <1>4, <2>3, LastTxIs
    <3>2. Paid(d) = F!LastTx(c)
      BY <1>5, <1>6, <2>1, <3>1 DEF Paid
    <3>3. /\ Paid(c) \in Nat /\ F!LastTx(c) \in Nat /\ Paid(c) < F!LastTx(c)
          /\ b.claims = Paid(c) + 1 .. F!LastTx(c)
      BY <1>2, <2>3, PaidIs, LastTxIs
    <3>4. (1 .. Paid(c)) \cup b.claims = 1 .. Paid(d)
      BY <3>2, <3>3
    <3>5. \A i \in 1 .. n : c[i].claims \cap b.claims = {}
      <4>1. ASSUME NEW i \in 1 .. n, NEW x \in c[i].claims, x \in b.claims PROVE FALSE
        <5>1. x \in 1 .. Paid(c)
          BY <2>1, <4>1 DEF ClaimsOk
        <5> QED BY <3>3, <4>1, <5>1
      <4> QED BY <4>1
    <3>6. ASSUME NEW i \in DOMAIN d, NEW j \in DOMAIN d, i # j PROVE d[i].claims \cap d[j].claims = {}
      <4>1. CASE i \in 1 .. n /\ j \in 1 .. n
        BY <1>2, <2>1, <3>6, <4>1 DEF ClaimsOk
      <4>2. CASE i \in 1 .. n /\ j = n + 1
        BY <1>2, <3>5, <4>2
      <4>3. CASE i = n + 1 /\ j \in 1 .. n
        BY <1>2, <3>5, <4>3
      <4> QED BY <2>1, <3>6, <4>1, <4>2, <4>3
    <3> QED BY <2>2, <3>4, <3>6 DEF ClaimsOk
  <2>4. CASE ~b.tx
    <3>1. F!LastTx(d) = F!LastTx(c)
      BY <1>2, <1>4, <2>4, LastTxIs
    <3>2. Paid(d) = Paid(c)
      <4>1. F!LastTx(c) \in 1 .. Len(c)
        BY LastTxIs
      <4>2. CASE F!LastTx(c) = 1
        BY <3>1, <4>2 DEF Paid
      <4>3. CASE F!LastTx(c) # 1
        <5>1. F!LastTx(c) \in 2 .. Len(c) + 1
          BY <1>2, <4>1, <4>3
        <5> QED BY <1>5, <3>1, <4>3, <5>1 DEF Paid
      <4> QED BY <4>2, <4>3
    <3>3. ASSUME NEW i \in DOMAIN d, NEW j \in DOMAIN d, i # j PROVE d[i].claims \cap d[j].claims = {}
      <4>1. CASE i \in 1 .. n /\ j \in 1 .. n
        BY <1>2, <2>1, <3>3, <4>1 DEF ClaimsOk
      <4>2. CASE i = n + 1 \/ j = n + 1
        BY <1>2, <2>4, <4>2
      <4> QED BY <2>1, <4>1, <4>2
    <3> QED BY <2>2, <2>4, <3>2, <3>3 DEF ClaimsOk
  <2> QED BY <2>3, <2>4
<1> QED BY <1>1, <1>4, <1>7, <1>8

\* A foliage that was made stays one that was made, whatever is infused.
LEMMA MadeStays ==
    ASSUME FarmConstants, FarmInv, [F!Next]_F!farmVars
    PROVE  \A q, f : Made(q, f, chain, iters) => Made(q, f, chain', iters')
<1>1. iters \in Nat /\ chain \in FarmChain
  BY DEF FarmInv
<1>2. CASE chain' = chain /\ iters' = iters
  BY <1>2
<1>3. CASE F!Tick
  <2>1. chain' = chain /\ iters' = iters + 1
    BY <1>3 DEF F!Tick
  <2>2. iters' \in Nat /\ iters' >= iters
    BY <1>1, <2>1
  <2> QED BY <1>1, <2>1, <2>2, MadeLater
<1>4. ASSUME NEW q \in Proof, F!Infuse(q) PROVE \A p, f : Made(p, f, chain, iters) => Made(p, f, chain', iters')
  <2> DEFINE b == F!unfinished_block_to_full_block(q, unfinished[q])
  <2>1. /\ q \in DOMAIN unfinished /\ IpIters[q] = iters /\ chain' = Append(chain, b) /\ iters' = iters
    BY <1>4 DEF F!Infuse
  <2>2. b \in FarmBlock /\ b.ip = iters
    BY <1>1, <2>1, MadeIsRight, Zenon DEF FarmInv, FoliageInv, AllMade
  <2> HIDE DEF b
  <2> QED BY <1>1, <2>1, <2>2, MadeLater
<1> QED BY <1>2, <1>3, <1>4, Zenon DEF F!Next, F!farmVars, F!declare_proof_of_space, F!signed_values, F!PeerUnfinished,
         F!EndUnfinished, F!FailUnfinished

\* Each step keeps the chain valid.
LEMMA ChainInv ==
    ASSUME FarmConstants, FarmInv, [F!Next]_F!farmVars
    PROVE  iters' \in Nat /\ chain' \in FarmChain /\ chain'[1].ip = 0 /\ ValidChain(chain') /\ ClaimsOk(chain')
<1>1. iters \in Nat /\ chain \in FarmChain /\ chain[1].ip = 0 /\ ValidChain(chain) /\ ClaimsOk(chain)
  BY DEF FarmInv
<1>2. CASE chain' = chain /\ iters' = iters
  BY <1>1, <1>2
<1>3. CASE F!Tick
  BY <1>1, <1>3 DEF F!Tick
<1>4. ASSUME NEW q \in Proof, F!Infuse(q)
      PROVE  iters' \in Nat /\ chain' \in FarmChain /\ chain'[1].ip = 0 /\ ValidChain(chain') /\ ClaimsOk(chain')
  <2> DEFINE b == F!unfinished_block_to_full_block(q, unfinished[q])
  <2>1. q \in DOMAIN unfinished /\ chain' = Append(chain, b) /\ iters' = iters
    BY <1>4 DEF F!Infuse
  <2>2. /\ b \in FarmBlock
        /\ b.tx => b.claims = F!RewardClaims(chain) /\ b.time > chain[F!LastTx(chain)].time
        /\ ~b.tx => b.claims = {}
    BY <1>1, <2>1, MadeIsRight, Zenon DEF FarmInv, FoliageInv, AllMade
  <2> HIDE DEF b
  <2>3. LET d == Append(chain, b) IN d \in FarmChain /\ d[1].ip = 0 /\ ValidChain(d) /\ ClaimsOk(d)
    BY <1>1, <2>2, ChainGrows, Zenon
  <2> QED BY <1>1, <2>1, <2>3
<1> QED BY <1>2, <1>3, <1>4, Zenon DEF F!Next, F!farmVars, F!declare_proof_of_space, F!signed_values, F!PeerUnfinished,
         F!EndUnfinished, F!FailUnfinished

\* respond_unfinished_block adds a call for the foliage it is given, at most.
LEMMA BeginIs ==
    ASSUME NEW q, NEW f, NEW farmed, F!BeginUnfinished(q, f, farmed)
    PROVE  validating' \subseteq validating \cup {[proof |-> q, foliage |-> f, farmed |-> farmed]}
BY DEF F!BeginUnfinished

\* Each step keeps every foliage one that was made on the chain.
LEMMA FoliageNext ==
    ASSUME FarmConstants, FarmInv, F!Next
    PROVE  FoliageInv'
<1>0. iters \in Nat /\ chain \in FarmChain /\ chain[1].ip = 0
  BY DEF FarmInv
<1>1. /\ \A q \in DOMAIN candidate : Made(q, candidate[q], chain', iters')
      /\ \A q \in DOMAIN backup : Made(q, backup[q], chain', iters')
      /\ \A q \in DOMAIN unfinished : Made(q, unfinished[q], chain', iters')
      /\ \A s \in toSign : Made(s[1], s[2], chain', iters')
      /\ \A v \in validating : Made(v.proof, v.foliage, chain', iters')
  BY MadeStays DEF FarmInv, FoliageInv, AllMade
<1>2. ASSUME \A q \in DOMAIN candidate' : Made(q, candidate'[q], chain', iters'),
             \A q \in DOMAIN backup' : Made(q, backup'[q], chain', iters'),
             \A q \in DOMAIN unfinished' : Made(q, unfinished'[q], chain', iters'),
             \A s \in toSign' : Made(s[1], s[2], chain', iters'),
             \A v \in validating' : Made(v.proof, v.foliage, chain', iters')
      PROVE  FoliageInv'
  BY <1>2 DEF FoliageInv, AllMade
<1>3. CASE F!Tick
  BY <1>1, <1>2, <1>3 DEF F!Tick, F!made
<1>4. ASSUME NEW q \in Proof, NEW full \in BOOLEAN, F!declare_proof_of_space(q, full) PROVE FoliageInv'
  <2>1. PICK f : f = F!create_unfinished_block(q, full, declared[q] + 1)
    OBVIOUS
  <2>2. PICK g : g = F!create_unfinished_block(q, FALSE, declared[q] + 1)
    BY Zenon
  <2>3. /\ F!KnownSignagePoint(q)
        /\ candidate' = F!Put(candidate, q, f)
        /\ backup' = (IF full THEN F!Put(backup, q, g) ELSE backup)
        /\ toSign' = toSign \cup {<<q, f>>} /\ iters' = iters /\ chain' = chain
        /\ validating' = validating /\ unfinished' = unfinished
    BY <1>4, <2>1, <2>2 DEF F!declare_proof_of_space
  <2>4. Made(q, f, chain', iters') /\ Made(q, g, chain', iters')
    BY <1>0, <2>1, <2>2, <2>3, MadeNow, Zenon
  <2>5. \A p \in DOMAIN candidate' : Made(p, candidate'[p], chain', iters')
    BY <1>1, <2>3, <2>4 DEF F!Put
  <2>6. \A p \in DOMAIN backup' : Made(p, backup'[p], chain', iters')
    BY <1>1, <2>3, <2>4 DEF F!Put
  <2>7. \A s \in toSign' : Made(s[1], s[2], chain', iters')
    BY <1>1, <2>3, <2>4
  <2> QED BY <1>1, <1>2, <2>3, <2>5, <2>6, <2>7, Zenon
<1>5. ASSUME NEW s \in toSign, F!signed_values(s[1], s[2]) PROVE FoliageInv'
  <2>1. /\ toSign' \subseteq toSign /\ candidate' = candidate /\ backup' = backup /\ unfinished' = unfinished
        /\ \/ validating' = validating
           \/ F!BeginUnfinished(s[1], s[2], TRUE)
    BY <1>5, Zenon DEF F!signed_values, F!made
  <2>2. validating' \subseteq validating \cup {[proof |-> s[1], foliage |-> s[2], farmed |-> TRUE]}
    BY <2>1, BeginIs, Zenon
  <2>3. \A v \in validating' : Made(v.proof, v.foliage, chain', iters')
    <3>1. PICK w : w = [proof |-> s[1], foliage |-> s[2], farmed |-> TRUE]
      BY Zenon
    <3>2. w.proof = s[1] /\ w.foliage = s[2]
      BY ONLY <3>1
    <3>3. Made(w.proof, w.foliage, chain', iters')
      BY <1>1, <3>2, Zenon
    <3>4. \A v \in validating' : v \in validating \/ v = w
      BY <2>2, <3>1, Zenon
    <3> QED BY <1>1, <3>3, <3>4, Zenon
  <2> QED BY <1>1, <1>2, <2>1, <2>3, Zenon
<1>6. ASSUME NEW q \in PeerProof, F!PeerUnfinished(q) PROVE FoliageInv'
  <2>0. PICK f : f = F!create_unfinished_block(q, FALSE, 0)
    BY Zenon
  <2>1. /\ toSign' = toSign /\ candidate' = candidate /\ backup' = backup /\ unfinished' = unfinished
        /\ F!BeginUnfinished(q, f, FALSE) /\ F!KnownSignagePoint(q) /\ chain' = chain /\ iters' = iters
    BY <1>6, <2>0, Zenon DEF F!PeerUnfinished, F!made
  <2>2. validating' \subseteq validating \cup {[proof |-> q, foliage |-> f, farmed |-> FALSE]}
    BY <2>1, BeginIs, Zenon
  <2>3. Made(q, f, chain', iters')
    BY <1>0, <2>0, <2>1, MadeNow, Zenon DEF FarmConstants
  <2>4. \A v \in validating' : Made(v.proof, v.foliage, chain', iters')
    BY <1>1, <2>2, <2>3
  <2> QED BY <1>1, <1>2, <2>1, <2>4
<1>7. ASSUME NEW q \in Proof, F!Infuse(q) PROVE FoliageInv'
  <2>1. /\ toSign' = toSign /\ validating' = validating
        /\ \A p \in DOMAIN candidate' : p \in DOMAIN candidate /\ candidate'[p] = candidate[p]
        /\ \A p \in DOMAIN backup' : p \in DOMAIN backup /\ backup'[p] = backup[p]
        /\ \A p \in DOMAIN unfinished' : p \in DOMAIN unfinished /\ unfinished'[p] = unfinished[p]
    BY <1>7 DEF F!Infuse, F!Only
  <2> QED BY <1>1, <1>2, <2>1, Zenon
<1>8. ASSUME NEW v \in validating, F!EndUnfinished(v) PROVE FoliageInv'
  <2>1. /\ toSign' = toSign /\ validating' \subseteq validating /\ candidate' = candidate /\ backup' = backup
        /\ unfinished' = unfinished \/ unfinished' = F!Put(unfinished, v.proof, v.foliage)
    BY <1>8 DEF F!EndUnfinished, F!made
  <2>2. \A p \in DOMAIN unfinished' : Made(p, unfinished'[p], chain', iters')
    BY <1>1, <2>1 DEF F!Put
  <2> QED BY <1>1, <1>2, <2>1, <2>2
<1>9. ASSUME NEW v \in validating, F!FailUnfinished(v) PROVE FoliageInv'
  <2>1. /\ validating' \subseteq validating /\ backup' = backup /\ unfinished' = unfinished
        /\ \/ candidate' = candidate /\ toSign' = toSign
           \/ /\ v.proof \in DOMAIN backup
              /\ candidate' = F!Put(candidate, v.proof, backup[v.proof])
              /\ toSign' = toSign \cup {<<v.proof, backup[v.proof]>>}
    BY <1>9, Zenon DEF F!FailUnfinished
  <2>2. \A p \in DOMAIN candidate' : Made(p, candidate'[p], chain', iters')
    BY <1>1, <2>1 DEF F!Put
  <2>3. \A s \in toSign' : Made(s[1], s[2], chain', iters')
    BY <1>1, <2>1
  <2> QED BY <1>1, <1>2, <2>1, <2>2, <2>3, Zenon
<1> QED BY <1>3, <1>4, <1>5, <1>6, <1>7, <1>8, <1>9 DEF F!Next

\* The invariant of the farmed blocks holds at every moment.
LEMMA FarmInvAlways == ASSUME FarmConstants PROVE F!Spec => []FarmInv
<1>1. F!Init => FarmInv
  <2> SUFFICES ASSUME F!Init PROVE FarmInv
    OBVIOUS
  <2>1. PICK g : g = F!GenesisBlock
    OBVIOUS
  <2>2. g \in FarmBlock /\ g.ip = 0 /\ g.tx /\ g.claims = {}
    BY <2>1 DEF F!GenesisBlock, FarmBlock
  <2>3. chain = <<g>>
    BY <2>1 DEF F!Init
  <2>4. chain \in Seq(FarmBlock) /\ Len(chain) = 1 /\ chain[1] = g /\ DOMAIN chain = {1}
    BY <2>2, <2>3
  <2>5. chain \in FarmChain
    BY <2>2, <2>4 DEF FarmChain
  <2>6. F!LastTx(chain) = 1
    BY <2>4, <2>5, LastTxIs
  <2>7. ValidChain(chain) /\ ClaimsOk(chain)
    BY <2>2, <2>4, <2>6 DEF ValidChain, ClaimsOk, Paid
  <2>8. FoliageInv
    BY DEF F!Init, FoliageInv, AllMade
  <2> QED BY <2>2, <2>4, <2>5, <2>7, <2>8 DEF FarmInv, F!Init
<1>2. FarmInv /\ [F!Next]_F!farmVars => FarmInv'
  <2> SUFFICES ASSUME FarmInv, [F!Next]_F!farmVars PROVE FarmInv'
    OBVIOUS
  <2>1. FoliageInv'
    <3>1. CASE F!Next
      BY <3>1, FoliageNext
    <3>2. CASE UNCHANGED F!farmVars
      BY <3>2, Zenon DEF F!farmVars, FarmInv, FoliageInv, AllMade
    <3> QED BY <3>1, <3>2
  <2>2. iters' \in Nat /\ chain' \in FarmChain /\ chain'[1].ip = 0 /\ ValidChain(chain') /\ ClaimsOk(chain')
    BY ChainInv
  <2> QED BY <2>1, <2>2 DEF FarmInv
<1> QED BY <1>1, <1>2, PTL DEF F!Spec

\* Every block that was made at its signage point is valid where it is infused, whatever was
\* infused in between: its claims are those the body validation expects, and its timestamp is later
\* than that of the transaction block before.
THEOREM Farming_BlocksAreValid == ASSUME FarmConstants PROVE F!Spec => []F!FarmedIsValid
<1>1. FarmInv => F!FarmedIsValid
  BY DEF FarmInv, ValidChain, F!FarmedIsValid
<1> QED BY <1>1, FarmInvAlways, PTL

\* No two blocks of the chain claim the rewards of one block, and none is passed over.
THEOREM Farming_RewardsClaimedOnce == ASSUME FarmConstants PROVE F!Spec => []F!RewardsClaimedOnce
<1>1. FarmInv => F!RewardsClaimedOnce
  <2> SUFFICES ASSUME FarmInv PROVE F!RewardsClaimedOnce
    OBVIOUS
  <2>1. ClaimsOk(chain) /\ chain \in FarmChain
    BY DEF FarmInv
  <2>2. Paid(chain) \in Nat
    BY <2>1, PaidIs
  <2>3. Cardinality(1 .. Paid(chain)) = Paid(chain)
    BY <2>2, FS_Interval
  <2>4. F!Cardinality(1 .. Paid(chain)) = Cardinality(1 .. Paid(chain))
    BY DEF Cardinality, F!Cardinality
  <2> QED BY <2>1, <2>3, <2>4, Zenon DEF F!RewardsClaimedOnce, ClaimsOk
<1> QED BY <1>1, FarmInvAlways, PTL

\* Every block that is farmed is one the chain accepts, whichever peaks come while the farmer
\* signs, and the rewards of a block are claimed once.
FarmedIsValid == F!FarmedIsValid /\ F!RewardsClaimedOnce

\* What create_unfinished_block puts together at a signage point is right where
\* unfinished_block_to_full_block finishes it, block by block and over the whole chain.
THEOREM Farming_FarmedIsValid == ASSUME FarmConstants PROVE F!Spec => []FarmedIsValid
<1>1. F!FarmedIsValid /\ F!RewardsClaimedOnce => FarmedIsValid
  BY DEF FarmedIsValid
<1> QED BY <1>1, Farming_BlocksAreValid, Farming_RewardsClaimedOnce, PTL

\* An unfinished block that is stored is not replaced by one with another foliage, although
\* peers and the farmer send both concurrently.
THEOREM Farming_UnfinishedKept == F!Spec => F!UnfinishedKept
<1>1. [F!Next]_F!farmVars =>
        [\A q \in DOMAIN unfinished \cap DOMAIN unfinished' : unfinished'[q] = unfinished[q]]_F!farmVars
  BY Zenon DEF F!Next, F!farmVars, F!Tick, F!declare_proof_of_space, F!signed_values, F!PeerUnfinished, F!Infuse,
         F!EndUnfinished, F!FailUnfinished, F!Put, F!Only
<1> QED BY <1>1, PTL DEF F!Spec, F!UnfinishedKept

\* What is stored is not overwritten by a concurrent call that looked before: neither a compact
\* proof by the older version of its block, nor an unfinished block that was announced by one
\* with the same trunk.
StoredStays == V!CompactStays /\ F!UnfinishedKept

\* Neither store of the node loses what it has to a call that read it before another one wrote.
THEOREM Node_StoredStays ==
    ASSUME 0 \notin VdfCall
    PROVE  V!Spec /\ F!Spec => StoredStays
BY CompactVdf_CompactStays, Farming_UnfinishedKept, PTL DEF StoredStays
=============================================================================
