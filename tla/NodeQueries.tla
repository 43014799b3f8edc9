---------------------------- MODULE NodeQueries ----------------------------
(***************************************************************************)
(* The queries a full node answers to wallets and to peers while the chain *)
(* reorganises: the coins a block added and removed, the solution that     *)
(* spent a coin, headers, blocks, and weight proofs.                       *)
(*                                                                         *)
(* Branches fork off below the heights that are asked for; a branch stands *)
(* for its blocks, its coins and its tip.  The coin store changes inside   *)
(* the transaction of the reorganisation, on the connection the queries    *)
(* read through, and height_to_hash changes after its commit; each query   *)
(* of the database is apart from the code that resumes with its result.    *)
(***************************************************************************)
EXTENDS Naturals, Sequences, Functions

CONSTANTS
    Branch,     \* the chains between which the node reorganises
    Query,      \* ids of requests, each used once
    Span,       \* how many blocks request_blocks asks for
    PowCache,   \* 4, the length of pow_creation above which the oldest are dropped
    MaxSwitches \* bound on reorganisations

VARIABLES
    mem,      \* the branch in height_to_hash
    coins,    \* the branch whose coins the coin store shows, or "rolledback"
    target,   \* the branch that a running reorganisation connects, or "none"
    query,    \* query[q]: where the request is, for what, and what it has read
    powCreation, \* pow_creation: the pairs of a tip and the request that made its event
    wpHandler,   \* the lock and the proof of the weight proof handler
    wpMessage,   \* serialized_wp_message_tip, "none" before there is one
    switches

chainVars == <<mem, coins, target, switches>>
powVars == <<powCreation, wpHandler, wpMessage>>
queryVars == <<chainVars, powVars, query>>

NewQuery == [stage |-> "new"]

Init ==
    /\ mem = (CHOOSE b \in Branch : TRUE) /\ coins = mem /\ target = "none" /\ switches = 0
    /\ query = [q \in Query |-> NewQuery]
    /\ powCreation = <<>> /\ wpHandler = [holder |-> 0, proof |-> "none"] /\ wpMessage = "none"

-----------------------------------------------------------------------------
(* receive_block of a block that becomes the peak on another branch.       *)

RollBack ==
    /\ target = "none" /\ switches < MaxSwitches /\ switches' = switches + 1
    /\ target' \in Branch \ {mem} /\ coins' = "rolledback"
    /\ UNCHANGED <<mem, query, powVars>>

ConnectBlocks ==
    /\ coins = "rolledback" /\ coins' = target
    /\ UNCHANGED <<mem, target, switches, query, powVars>>

\* After the commit, with no await in between, height_to_hash is brought up to date.
SetHeightMap ==
    /\ target = coins /\ mem' = target /\ target' = "none"
    /\ UNCHANGED <<coins, switches, query, powVars>>

\* A block that does not connect rolls the transaction back.
AbortReorg ==
    /\ target # "none" /\ coins' = mem /\ target' = "none"
    /\ UNCHANGED <<mem, switches, query, powVars>>

-----------------------------------------------------------------------------
(* Requests for coins, headers and blocks.                                 *)

Start(q, stage, kind, b) ==
    /\ query[q].stage = "new"
    /\ query' = [query EXCEPT ![q] = [stage |-> stage, kind |-> kind, of |-> b, got |-> <<>>]]

To(q, stage) == query' = [query EXCEPT ![q].stage = stage]
Read(q, stage, what) ==
    query' = [query EXCEPT ![q].stage = stage, ![q].got = Append(@, what)]

\* request_additions and request_removals: the block, once read, is in the chain, else
\* the request is rejected.  "proven" requests name the puzzle hashes or the coins.
request_additions(q) ==
    /\ \E b \in Branch, kind \in {"list", "proven"} :
         Start(q, IF mem = b THEN "query" ELSE "rejected", kind, b)
    /\ UNCHANGED <<chainVars, powVars>>

\* get_coins_added_at_height or get_coins_removed_at_height is executed.
QueryCoins(q) ==
    /\ query[q].stage = "query" /\ Read(q, "resume", coins)
    /\ UNCHANGED <<chainVars, powVars>>

\* A mutant: the roots are not compared with those of the block.
ResumeUnchecked(q) ==
    /\ query[q].stage = "resume" /\ To(q, IF query[q].of = mem THEN "answered" ELSE "failed")
    /\ UNCHANGED <<chainVars, powVars>>

\* The request resumes: the block is still in the chain; the roots of the Merkle sets of a
\* proven answer are those of the block.
ResumeCoins(q) ==
    /\ query[q].stage = "resume"
    /\ LET ok == query[q].of = mem /\ (query[q].kind = "proven" => query[q].got = <<query[q].of>>)
       IN  To(q, IF ok THEN "answered" ELSE "failed")
    /\ UNCHANGED <<chainVars, powVars>>

\* request_puzzle_solution of a coin that branch b spends: the record is read, then the
\* block at the height, then the coin is looked up among the spends of that block.
request_puzzle_solution(q) ==
    /\ \E b \in Branch : Start(q, IF coins = b THEN "height" ELSE "rejected", "solution", b)
    /\ UNCHANGED <<chainVars, powVars>>

FindSpend(q) ==
    /\ query[q].stage = "height"
    /\ query' = [query EXCEPT ![q].got = <<mem>>,
                              ![q].stage = IF mem = query[q].of THEN "answered" ELSE "rejected"]
    /\ UNCHANGED <<chainVars, powVars>>

\* request_block_header and request_header_blocks: the hashes are collected, then the coins
\* of the height are read for the filter, and nothing is checked again.
request_header_blocks(q) ==
    /\ Start(q, "headers", "headers", mem)
    /\ UNCHANGED <<chainVars, powVars>>

FilterCoins(q) ==
    /\ query[q].stage = "headers" /\ Read(q, "answered", coins)
    /\ UNCHANGED <<chainVars, powVars>>

\* request_blocks: the hash of each height is looked up after the block below was read.
request_blocks(q) ==
    /\ Start(q, "blocks", "blocks", mem)
    /\ UNCHANGED <<chainVars, powVars>>

ReadBlockAt(q) ==
    /\ query[q].stage = "blocks"
    /\ Read(q, IF Len(query[q].got) + 1 = Span THEN "answered" ELSE "blocks", mem)
    /\ UNCHANGED <<chainVars, powVars>>

-----------------------------------------------------------------------------
(* Weight proofs.                                                          *)

PowTips == {e[1] : e \in Range(powCreation)}

\* The first request for a tip makes the event that later ones wait for.
request_proof_of_weight(q) ==
    /\ \E b \in Branch :
         IF b \in PowTips
         THEN /\ query[q].stage = "new" /\ UNCHANGED powCreation
              /\ \E e \in Range(powCreation) : e[1] = b /\
                   query' = [query EXCEPT ![q] = [stage |-> "wait", kind |-> "weight", of |-> b,
                                                  got |-> <<e[2]>>]]
         ELSE Start(q, "make", "weight", b) /\ powCreation' = Append(powCreation, <<b, q>>)
    /\ UNCHANGED <<chainVars, wpHandler, wpMessage>>

\* The event that q waits for is set by the request that made it, when it has its proof.
EventSet(q) == query[query[q].got[1]].stage \in {"answered", "rejected"}

WaitEvent(q) ==
    /\ query[q].stage = "wait" /\ EventSet(q)
    /\ To(q, "make")
    /\ UNCHANGED <<chainVars, powVars>>

\* get_proof_of_weight: with the lock, the proof at hand is used when it is the tip's.
TakeHandler(q) ==
    /\ query[q].stage = "make" /\ wpHandler.holder = 0
    /\ wpHandler' = [wpHandler EXCEPT !.holder = q] /\ To(q, "creating")
    /\ UNCHANGED <<chainVars, powCreation, wpMessage>>

\* The proof is made, or cannot be.  More than PowCache tips: the oldest are forgotten.
\* The message of the last tip is kept.
EndProof(q) ==
    /\ query[q].stage = "creating"
    /\ powCreation' = IF Len(powCreation) > PowCache
                      THEN SubSeq(powCreation, PowCache + 1, Len(powCreation)) ELSE powCreation
    /\ \/ /\ wpHandler' = [holder |-> 0, proof |-> query[q].of]
          /\ wpMessage' = query[q].of /\ To(q, "answered")
       \/ /\ wpHandler.proof # query[q].of /\ wpHandler' = [wpHandler EXCEPT !.holder = 0]
          /\ To(q, "rejected") /\ UNCHANGED wpMessage
    /\ UNCHANGED chainVars

-----------------------------------------------------------------------------
Ended(q) == query[q].stage \in {"answered", "rejected", "failed"}

\* The connection closes and its tasks are cancelled.
Cancel(q) ==
    /\ query[q].stage # "new" /\ ~Ended(q) /\ To(q, "failed")
    /\ wpHandler' = IF wpHandler.holder = q THEN [wpHandler EXCEPT !.holder = 0] ELSE wpHandler
    /\ UNCHANGED <<chainVars, powCreation, wpMessage>>

\* The 600 seconds of wait_for end.
TimeOut(q) == Cancel(q)

StartQuery(q) ==
    \/ request_additions(q) \/ request_puzzle_solution(q) \/ request_header_blocks(q)
    \/ request_blocks(q) \/ request_proof_of_weight(q)

GoOn(q) ==
    \/ QueryCoins(q) \/ ResumeCoins(q) \/ FindSpend(q) \/ FilterCoins(q) \/ ReadBlockAt(q)
    \/ WaitEvent(q) \/ TakeHandler(q) \/ EndProof(q)

Next ==
    \/ RollBack \/ ConnectBlocks \/ SetHeightMap \/ AbortReorg
    \/ \E q \in Query : StartQuery(q) \/ GoOn(q) \/ Cancel(q) \/ TimeOut(q)

Spec == Init /\ [][Next]_queryVars

-----------------------------------------------------------------------------
\* An answer that proves inclusion or exclusion holds the coins of the block asked for, and
\* a puzzle solution comes from the block that spends the coin, whatever the chain does
\* between the reads of the height map, of the blocks and of the coin store.
ProvenAnswersMatch ==
    \A q \in Query :
      query[q].stage = "answered" /\ query[q].kind \in {"proven", "solution"}
        => query[q].got = <<query[q].of>>

\* What the comment in request_additions says ("We lock so that the coin store does not get
\* modified"): a list of coins is that of the block, too.  No lock is taken.
ListedCoinsMatch ==
    \A q \in Query : query[q].stage = "answered" /\ query[q].kind = "list"
                       => query[q].got = <<query[q].of>>
=============================================================================
