----------------------------- MODULE CompactVdf -----------------------------
(***************************************************************************)
(* Replacing proofs of time by compact ones: the node asks bluebox         *)
(* timelords for proofs of blocks that are not compact, peers announce and *)
(* send theirs, and a proof that is accepted is written into the block.    *)
(*                                                                         *)
(* One height, with the blocks that are stored at it.  A proof is the VDF  *)
(* it proves; a call goes through the check, the lock, the read and the    *)
(* write, which are apart because each of them awaits the database.        *)
(***************************************************************************)
EXTENDS Naturals, FiniteSets

CONSTANTS
    Fork,       \* blocks stored at the height
    Field,      \* CompressibleVDFField
    VdfOf,      \* VdfOf[b][f]: the VDF info of the field f of b
    Target,     \* target_uncompact_proofs
    VdfCall,    \* ids of calls
    Semaphore,  \* 4, the permits of compact_vdf_sem
    MaxWaiters, \* 20, how many may wait for one
    MaxReorgs   \* bound on reorganisations

VARIABLES
    onChain,   \* the block of the height in the chain
    stored,    \* stored[b][f]: the VDF of the compact proof of f, "none" while it is not compact
    proofLock, \* the call that holds compact_proof_lock, or 0
    vcall,     \* vcall[k]: a call of respond_compact_proof_of_time, respond_compact_vdf
               \* or new_compact_vdf
    requested, \* compact_vdf_requests
    seenVdf,   \* _seen_compact_proofs
    bluebox,   \* requests that a timelord works on
    reorgs

vdfVars == <<onChain, stored, proofLock, vcall, requested, seenVdf, bluebox, reorgs>>

NoCall == [stage |-> "idle"]

\* is_fully_compactified, and what is not.
Uncompact(b) == {f \in Field : stored[b][f] = "none"}

\* _needs_compact_proof of the block in the chain: the field has this VDF, and no
\* compact proof of it.
needs_compact_proof(b, f, vdf) == VdfOf[b][f] = vdf /\ f \in Uncompact(b)

\* _can_accept_compact_proof, for a proof that is compact and valid for its VDF.
can_accept_compact_proof(b, f, vdf) == onChain = b /\ needs_compact_proof(b, f, vdf)

\* request_compact_vdf: the proof that a peer is sent, "none" when there is no compact one.
request_compact_vdf(b, f, vdf) ==
    IF onChain = b /\ VdfOf[b][f] = vdf THEN stored[b][f] ELSE "none"

Init ==
    /\ onChain \in Fork /\ stored = [b \in Fork |-> [f \in Field |-> "none"]]
    /\ proofLock = 0 /\ vcall = [k \in VdfCall |-> NoCall]
    /\ requested = {} /\ seenVdf = {} /\ bluebox = {} /\ reorgs = 0

-----------------------------------------------------------------------------
\* broadcast_uncompact_blocks: the height is picked when none of its blocks is compact;
\* timelords get at most Target of the fields of the block in the chain.
broadcast_uncompact_blocks ==
    /\ \A b \in Fork : Uncompact(b) # {}
    /\ \E S \in SUBSET Uncompact(onChain) :
         /\ Cardinality(S) = IF Cardinality(Uncompact(onChain)) > Target THEN Target
                             ELSE Cardinality(Uncompact(onChain))
         /\ bluebox' = bluebox \cup {<<onChain, f>> : f \in S}
    /\ UNCHANGED <<onChain, stored, proofLock, vcall, requested, seenVdf, reorgs>>

NewCall(k, by, stage, b, f) ==
    /\ vcall[k] = NoCall
    /\ vcall' = [vcall EXCEPT ![k] = [stage |-> stage, by |-> by, block |-> b, field |-> f,
                                      vdf |-> VdfOf[b][f], copy |-> VdfOf[b], hash |-> b]]

\* A timelord answers: respond_compact_proof_of_time begins.
respond_compact_proof_of_time(k) ==
    /\ \E r \in bluebox : NewCall(k, "timelord", "check", r[1], r[2]) /\ bluebox' = bluebox \ {r}
    /\ UNCHANGED <<onChain, stored, proofLock, requested, seenVdf, reorgs>>

Waiting == {k \in VdfCall : vcall[k] # NoCall /\ vcall[k].stage = "wait"}

Inside == {k \in VdfCall : vcall[k] # NoCall /\ vcall[k].by = "peer"} \ Waiting

\* A peer announces a compact proof: one call for each announcement at a time, of which
\* Semaphore are let in.
new_compact_vdf(k, b, f) ==
    /\ Cardinality(Waiting) <= MaxWaiters
    /\ <<b, f>> \notin requested /\ requested' = requested \cup {<<b, f>>}
    /\ NewCall(k, "peer", "wait", b, f)
    /\ UNCHANGED <<onChain, stored, proofLock, seenVdf, bluebox, reorgs>>

\* The call ends; the finally clause of new_compact_vdf forgets the announcement.
EndCall(k) ==
    /\ vcall' = [vcall EXCEPT ![k] = NoCall]
    /\ requested' = IF vcall[k].by = "peer" THEN requested \ {<<vcall[k].block, vcall[k].field>>}
                    ELSE requested

\* The proof is still needed: the peer is asked for it, and answers or does not.
AskPeer(k) ==
    /\ vcall[k] # NoCall /\ vcall[k].stage = "wait" /\ Cardinality(Inside) < Semaphore
    /\ \/ /\ can_accept_compact_proof(vcall[k].block, vcall[k].field, vcall[k].vdf)
          /\ vcall' = [vcall EXCEPT ![k].stage = "check"] /\ UNCHANGED requested
       \/ EndCall(k)
    /\ UNCHANGED <<onChain, stored, proofLock, seenVdf, bluebox, reorgs>>

CheckProof(k) ==
    /\ vcall[k] # NoCall /\ vcall[k].stage = "check"
    /\ IF can_accept_compact_proof(vcall[k].block, vcall[k].field, vcall[k].vdf)
       THEN vcall' = [vcall EXCEPT ![k].stage = "lock"] /\ UNCHANGED requested
       ELSE EndCall(k)
    /\ UNCHANGED <<onChain, stored, proofLock, seenVdf, bluebox, reorgs>>

\* A mutant: the block is read without the lock.
TakeNoLock(k) ==
    /\ vcall[k] # NoCall /\ vcall[k].stage = "lock"
    /\ vcall' = [vcall EXCEPT ![k].stage = "read"]
    /\ UNCHANGED <<proofLock, seenVdf, requested, onChain, stored, bluebox, reorgs>>

\* With the lock, a proof of a peer that was seen before is dropped.
TakeLock(k) ==
    /\ vcall[k] # NoCall /\ vcall[k].stage = "lock" /\ proofLock = 0
    /\ IF vcall[k].by = "peer" /\ vcall[k].vdf \in seenVdf
       THEN EndCall(k) /\ UNCHANGED <<proofLock, seenVdf>>
       ELSE /\ proofLock' = k /\ vcall' = [vcall EXCEPT ![k].stage = "read"]
            /\ seenVdf' = IF vcall[k].by = "peer" THEN seenVdf \cup {vcall[k].vdf} ELSE seenVdf
            /\ UNCHANGED requested
    /\ UNCHANGED <<onChain, stored, bluebox, reorgs>>

\* _replace_proof reads the block that is in the chain now and puts the proof in the
\* field, if it has the VDF; without one the call ends.
ReadBlock(k) ==
    /\ vcall[k] # NoCall /\ vcall[k].stage = "read"
    /\ IF VdfOf[onChain][vcall[k].field] = vcall[k].vdf
       THEN /\ vcall' = [vcall EXCEPT ![k].stage = "write", ![k].hash = onChain,
                           ![k].copy = [stored[onChain] EXCEPT ![vcall[k].field] = vcall[k].vdf]]
            /\ UNCHANGED <<proofLock, requested>>
       ELSE EndCall(k) /\ proofLock' = 0
    /\ UNCHANGED <<onChain, stored, seenVdf, bluebox, reorgs>>

\* add_full_block writes the whole block that was read.
WriteBlock(k) ==
    /\ vcall[k] # NoCall /\ vcall[k].stage = "write"
    /\ stored' = [stored EXCEPT ![vcall[k].hash] = vcall[k].copy]
    /\ EndCall(k) /\ proofLock' = 0
    /\ UNCHANGED <<onChain, seenVdf, bluebox, reorgs>>

Reorg ==
    /\ reorgs < MaxReorgs /\ reorgs' = reorgs + 1
    /\ \E b \in Fork \ {onChain} : onChain' = b
    /\ UNCHANGED <<stored, proofLock, vcall, requested, seenVdf, bluebox>>

Step(k) == AskPeer(k) \/ CheckProof(k) \/ TakeLock(k) \/ ReadBlock(k) \/ WriteBlock(k)

Next ==
    \/ broadcast_uncompact_blocks \/ Reorg
    \/ \E k \in VdfCall : respond_compact_proof_of_time(k) \/ Step(k)
    \/ \E k \in VdfCall, b \in Fork, f \in Field : new_compact_vdf(k, b, f)

Spec == Init /\ [][Next]_vdfVars

-----------------------------------------------------------------------------
\* A compact proof that was written is never lost again to a call that read the block
\* before: the blocks are read, changed and written whole by concurrent calls.
CompactStays ==
    [][\A b \in Fork, f \in Field : stored[b][f] # "none" => stored'[b][f] = stored[b][f]]_vdfVars

\* The proof that a peer is served proves the VDF it asked for, although the block of the
\* height may change between the check of a proof and its replacement; and an announcement
\* stays marked as requested exactly as long as a call works on it.
ProofsMatch ==
    /\ \A b \in Fork, f, g \in Field :
         request_compact_vdf(b, f, VdfOf[b][g]) \in {"none", VdfOf[b][g]}
    /\ requested = {<<vcall[k].block, vcall[k].field>> : k \in {j \in VdfCall :
                        vcall[j] # NoCall /\ vcall[j].by = "peer"}}
=============================================================================
