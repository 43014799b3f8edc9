------------------------------ MODULE Farming -------------------------------
(***************************************************************************)
(* How a full node turns proofs of space into blocks: candidates made at a *)
(* signage point (declare_proof_of_space, create_unfinished_block), the    *)
(* farmer's signatures (signed_values), unfinished blocks, of the node and *)
(* of its peers (respond_unfinished_block), and the block that results at  *)
(* the infusion point (unfinished_block_to_full_block).                    *)
(*                                                                         *)
(* Places on the chain are iterations of the VDF.  A block is made from    *)
(* what was infused up to its signage point and is finished on whatever    *)
(* has been infused up to its infusion point.  A proof stands for its      *)
(* quality string and for the hash of its trunk; the rewards of a block    *)
(* are its index in the chain.                                             *)
(***************************************************************************)
EXTENDS Integers, Sequences, FiniteSets, FiniteSetsExt

CONSTANTS
    Proof,       \* proofs of space that win
    PeerProof,   \* those of which a peer sends another unfinished block
    SpIters,     \* SpIters[q]: the iterations of the signage point of q
    IpIters,     \* IpIters[q]: the iterations of its infusion point
    Clock,       \* Clock[q]: the clock when the candidate of q is made
    MaxIters,    \* bound on the iterations
    MaxDeclared, \* bound on declarations of one proof
    MaxAttempts, \* 10, the blocks the search for the previous block looks at
    KeepDepth    \* 50, the depth at which candidates are forgotten

VARIABLES
    iters,       \* the iterations of the VDF so far
    chain,       \* the blocks from genesis to the peak
    candidate,   \* candidate_blocks, the foliage of each
    backup,      \* candidate_backup_blocks
    declared,    \* declared[q]: how often q was declared
    toSign,      \* <<q, f>>: RequestSignedValues that is not answered
    seenUnf,     \* seen_unfinished_blocks
    validating,  \* calls of respond_unfinished_block that wait for validation
    unfinished   \* unfinished_blocks, the foliage of each

farmVars == <<iters, chain, candidate, backup, declared, toSign, seenUnf, validating, unfinished>>
made == <<candidate, backup, declared>>

\* A foliage: what it pays, its timestamp, whether it has transactions, and a number
\* that tells apart those of one proof.
GenesisBlock == [ip |-> 0, sp |-> 0, tx |-> TRUE, claims |-> {}, time |-> 0]

LastTx(c) == Max({i \in DOMAIN c : c[i].tx})
Before(c, i) == SubSeq(c, 1, i - 1)

\* reward_claims_incorporated: the last transaction block of c and the blocks between it
\* and the transaction block before.
RewardClaims(c) ==
    LET last == LastTx(c)
    IN  IF last = 1 THEN {1} ELSE LastTx(Before(c, last)) + 1 .. last

\* get_prev_transaction_block: is a block with signage point sp, on c, a transaction block?
IsTransactionBlock(c, sp) == sp > c[LastTx(c)].ip

\* The rewards that the body validation expects of a transaction block on c.
ExpectedRewards(c) ==
    LET last == LastTx(c)
    IN  {last} \cup {i \in 2 .. last - 1 : \A j \in i .. last - 1 : ~c[j].tx}

\* The node has the signage point, and the proof is one for it.
KnownSignagePoint(q) == SpIters[q] <= iters

\* The previous block of q is the last one infused up to its signage point, which is found
\* when few blocks have been infused since.
AtSignagePoint(q) == SubSeq(chain, 1, Max({i \in DOMAIN chain : chain[i].ip <= SpIters[q]}))
PreviousFound(q) == Len(chain) - Len(AtSignagePoint(q)) < MaxAttempts

\* Later than the previous transaction block, whatever the clock says.
Timestamp(q, c) == Max({Clock[q], c[LastTx(c)].time + 1})

create_foliage(q, c, full, n) ==
    [full |-> full, n |-> n, claims |-> RewardClaims(c), time |-> Timestamp(q, c)]

\* The unfinished block of q, with the transactions of the mempool or without.
create_unfinished_block(q, full, n) == create_foliage(q, AtSignagePoint(q), full, n)

\* unfinished_block_to_full_block: what does not fit a block that is no transaction block
\* is taken away.
KeepsTransactionBlock(q, f) ==
    [ip |-> IpIters[q], sp |-> SpIters[q], tx |-> TRUE, claims |-> f.claims, time |-> f.time]

unfinished_block_to_full_block(q, f) ==
    IF IsTransactionBlock(chain, SpIters[q])
    THEN [ip |-> IpIters[q], sp |-> SpIters[q], tx |-> TRUE, claims |-> f.claims, time |-> f.time]
    ELSE [ip |-> IpIters[q], sp |-> SpIters[q], tx |-> FALSE, claims |-> {}, time |-> 0]

Put(f, q, v) == [x \in DOMAIN f \cup {q} |-> IF x = q THEN v ELSE f[x]]
Only(f, S) == [x \in DOMAIN f \cap S |-> f[x]]

Init ==
    /\ iters = 0 /\ chain = <<GenesisBlock>>
    /\ candidate = [q \in {} |-> 0] /\ backup = [q \in {} |-> 0] /\ declared = [q \in Proof |-> 0]
    /\ toSign = {} /\ seenUnf = {} /\ validating = {} /\ unfinished = [q \in {} |-> 0]

-----------------------------------------------------------------------------
\* declare_proof_of_space: the mempool has a bundle (full) or not.  Only a candidate
\* with transactions has a backup.
declare_proof_of_space(q, full) ==
    LET n == declared[q] + 1
        f == create_unfinished_block(q, full, n)
    IN  /\ KnownSignagePoint(q) /\ PreviousFound(q) /\ n <= MaxDeclared
        /\ declared' = [declared EXCEPT ![q] = n]
        /\ candidate' = Put(candidate, q, f)
        /\ backup' = IF full THEN Put(backup, q, create_unfinished_block(q, FALSE, n)) ELSE backup
        /\ toSign' = toSign \cup {<<q, f>>}
        /\ UNCHANGED <<iters, chain, seenUnf, validating, unfinished>>

\* respond_unfinished_block up to the validation, by the farmer or by a peer.
BeginUnfinished(q, f, farmed) ==
    IF <<q, f>> \in seenUnf
    THEN UNCHANGED <<seenUnf, validating>>
    ELSE /\ seenUnf' = seenUnf \cup {<<q, f>>}
         /\ validating' = IF q \in DOMAIN unfinished \/ IpIters[q] < chain[Len(chain)].sp THEN validating
                          ELSE validating \cup {[proof |-> q, foliage |-> f, farmed |-> farmed]}

\* signed_values: a signature of another foliage than the candidate's is ignored.
signed_values(q, f) ==
    /\ <<q, f>> \in toSign /\ toSign' = toSign \ {<<q, f>>}
    /\ IF q \in DOMAIN candidate /\ candidate[q] = f
       THEN BeginUnfinished(q, f, TRUE) ELSE UNCHANGED <<seenUnf, validating>>
    /\ UNCHANGED <<iters, chain, made, unfinished>>

\* A peer has an unfinished block with the trunk of q, of another foliage.
PeerUnfinished(q) ==
    /\ KnownSignagePoint(q)
    /\ BeginUnfinished(q, create_unfinished_block(q, FALSE, 0), FALSE)
    /\ UNCHANGED <<iters, chain, made, toSign, unfinished>>

\* The block is valid: it is added unless another call has added one of its trunk.
EndUnfinished(v) ==
    /\ v \in validating /\ validating' = validating \ {v}
    /\ unfinished' = IF v.proof \in DOMAIN unfinished THEN unfinished
                     ELSE Put(unfinished, v.proof, v.foliage)
    /\ UNCHANGED <<iters, chain, made, toSign, seenUnf>>

\* Its transactions are not valid: an exception, for which signed_values makes the backup
\* the candidate and asks for new signatures.
FailUnfinished(v) ==
    LET q == v.proof
    IN  /\ v \in validating /\ v.foliage.full /\ validating' = validating \ {v}
        /\ IF v.farmed /\ q \in DOMAIN backup
           THEN candidate' = Put(candidate, q, backup[q]) /\ toSign' = toSign \cup {<<q, backup[q]>>}
           ELSE UNCHANGED <<candidate, toSign>>
        /\ UNCHANGED <<iters, chain, backup, declared, seenUnf, unfinished>>

\* The infusion point of q is reached and the timelord has the unfinished block: it is
\* finished on the peak, and what is far below the new peak is forgotten.
Infuse(q) ==
    LET kept(f) == {x \in DOMAIN f : Len(AtSignagePoint(x)) >= Len(chain) - KeepDepth}
    IN  /\ q \in DOMAIN unfinished /\ IpIters[q] = iters
        /\ \A i \in DOMAIN chain : chain[i].ip < iters
        /\ chain' = Append(chain, unfinished_block_to_full_block(q, unfinished[q]))
        /\ candidate' = Only(candidate, kept(candidate)) /\ backup' = Only(backup, kept(backup))
        /\ unfinished' = Only(unfinished, kept(unfinished))
        /\ UNCHANGED <<iters, declared, toSign, seenUnf, validating>>

Tick ==
    /\ iters < MaxIters /\ iters' = iters + 1
    /\ UNCHANGED <<chain, made, toSign, seenUnf, validating, unfinished>>

Next ==
    \/ Tick
    \/ \E q \in Proof, full \in BOOLEAN : declare_proof_of_space(q, full)
    \/ \E s \in toSign : signed_values(s[1], s[2])
    \/ \E q \in PeerProof : PeerUnfinished(q)
    \/ \E q \in Proof : Infuse(q)
    \/ \E v \in validating : EndUnfinished(v) \/ FailUnfinished(v)

Spec == Init /\ [][Next]_farmVars

-----------------------------------------------------------------------------
\* Every block that was made at its signage point is valid where it is infused, whatever
\* was infused in between: a transaction block claims the rewards that the body
\* validation expects on its own predecessors, and is later than the one before.
FarmedIsValid ==
    \A i \in 2 .. Len(chain) : chain[i].tx =>
        /\ chain[i].claims = ExpectedRewards(Before(chain, i))
        /\ chain[i].time > chain[LastTx(Before(chain, i))].time

\* No two blocks of the chain claim the rewards of one block, and none is passed over.
RewardsClaimedOnce ==
    /\ \A i, j \in DOMAIN chain : i # j => chain[i].claims \cap chain[j].claims = {}
    /\ LET C == UNION {chain[i].claims : i \in DOMAIN chain} IN C = 1 .. Cardinality(C)

\* An unfinished block that the node has announced is not replaced by one with the same
\* trunk and another foliage, although its peers and its farmer send both concurrently.
UnfinishedKept ==
    [][\A q \in DOMAIN unfinished \cap DOMAIN unfinished' : unfinished'[q] = unfinished[q]]_farmVars
=============================================================================
