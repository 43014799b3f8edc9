------------------------------- MODULE MCNode -------------------------------
(***************************************************************************)
(* The parts of the full node beside the blockchain, the mempool and the   *)
(* syncs, model-checked one at a time: the variable mode says which, and   *)
(* the others stay as they are.                                            *)
(*                                                                         *)
(* The stores of slots see two branches from A0: A1, then A2, an overflow  *)
(* block whose signage point is in slot e1 and whose infusion is in e2;    *)
(* and X1, X2, both in e1.  Slots have 8 iterations and a signage point    *)
(* every 2.  Slot e1 may end after A1, X1, X2 or no block at all; the ends *)
(* after X1 and X2 have the same challenge chain.                          *)
(*                                                                         *)
(* The constants and the properties of farming, compact VDFs and queries   *)
(* are those of the module that proves them for all instances.             *)
(***************************************************************************)
EXTENDS SlotNode, NodeProofs, TLC

Pt(cc, i, rc) == [cc |-> cc, index |-> i, rc |-> rc, ssi |-> 8]

MCSp == {Pt("c1", 1, "e1"), Pt("c1", 2, "e1"), Pt("c1", 2, "X1"), Pt("c1", 3, "A1"),
         Pt("c1", 3, "X1"), Pt("c2", 1, "e2")}

MCSentSp == MCSp \ {Pt("c1", 3, "X1"), Pt("c2", 1, "e2")}

Rec(h, prev, t, over, first, ip, sp, start, pt, rc) ==
    [height |-> h, prev |-> prev, total_iters |-> t, sub_slot_iters |-> 8, next_ssi |-> 8,
     overflow |-> over, first |-> first, ip |-> ip, sp |-> sp, start |-> start,
     point |-> pt, rc |-> rc]

MCRecord ==
    [A0 |-> Rec(0, NoBlock, 3, FALSE, TRUE, "g", "g", 0, NoSp, "g"),
     A1 |-> Rec(1, "A0", 13, FALSE, TRUE, "e1", "e1", 8, Pt("c1", 1, "e1"), "e1"),
     A2 |-> Rec(2, "A1", 19, TRUE, TRUE, "e2", "e1", 16, Pt("c1", 3, "A1"), "e2"),
     X1 |-> Rec(1, "A0", 11, FALSE, TRUE, "e1", "e1", 8, NoSp, "e1"),
     X2 |-> Rec(2, "X1", 15, FALSE, FALSE, "e1", "e1", 8, Pt("c1", 1, "e1"), "X1")]

End(cc, prev_cc, rc) == [cc |-> cc, prev_cc |-> prev_cc, rc |-> rc, ssi |-> 8]

MCBundle ==
    [g |-> [cc |-> "cg"], e1 |-> End("c1", "cg", "A0"), e2 |-> End("c2", "c1", "A1"),
     e0 |-> End("c0", "c1", "e1"), ex1 |-> End("cx", "c1", "X1"), ex2 |-> End("cx", "c1", "X2")]

-----------------------------------------------------------------------------
VARIABLES
    mode,
    recs, epochRecs,                                                                   \* HeaderChain
    bodies, records                                                                    \* BlockBody

farmVars == <<iters, chain, candidate, backup, declared, toSign, seenUnf, validating, unfinished>>
vdfVars == <<onChain, stored, proofLock, vcall, requested, seenVdf, bluebox, reorgs>>
queryVars == <<mem, coins, target, query, powCreation, wpHandler, wpMessage, switches>>
headerVars == <<recs, epochRecs>>
bodyVars == <<bodies, records>>
nodeVars == <<vars, mode, farmVars, vdfVars, queryVars, headerVars, bodyVars>>

\* Three proofs, in the order of their signage points; a candidate of an earlier one may be made later.
MCSpIters == <<1, 2, 4>>
MCIpIters == <<3, 5, 6>>
MCClock == <<5, 1, 2>>

\* Two blocks at one height that have one of their two VDFs in common.
MCVdfOf == [A |-> [ip |-> "va", sp |-> "s"], B |-> [ip |-> "vb", sp |-> "s"]]

\* The instances are such as the theorems are about.
ASSUME FarmConstants /\ 0 \notin VdfCall

\* Every block of a short chain is any of 15; or, in a chain of two epochs, those at the end of the
\* first are any of 9.
UsualBlock == [n |-> 1, sp |-> 0, req |-> 1, dt |-> 2]
AnyBlock == [n : 0..2, sp : 0..3, req : {1}, dt : {1}] \cup [n : 0..2, sp : {3}, req : {2}, dt : {1}]
EpochBlock == {[n |-> n, sp |-> sp, req |-> 1, dt |-> 2] : n \in 0..2, sp \in {0, 1, 3}}
H == INSTANCE HeaderChain WITH
       NumSps <- 4, SpExtra <- 1, MinBlocks <- 2, MaxBlocks <- 3, SubEpoch <- 100, Epoch <- 200,
       StartIters <- 12, TimeTarget <- 2, BlocksTarget <- 1, MaxFactor <- 3, SigBits <- 3,
       MaxHeight <- 3, Usual <- UsualBlock, OddHeights <- 1..5, Odd <- AnyBlock
E == INSTANCE HeaderChain WITH
       recs <- epochRecs, NumSps <- 4, SpExtra <- 1, MinBlocks <- 2, MaxBlocks <- 5, SubEpoch <- 15,
       Epoch <- 30, StartIters <- 12, TimeTarget <- 2, BlocksTarget <- 1, MaxFactor <- 3,
       SigBits <- 3, MaxHeight <- 64, Usual <- UsualBlock, OddHeights <- 28..30, Odd <- EpochBlock

\* Rewards halve after the third block, as they do by the year.
EighthOfReward == [h \in 0..10 |-> IF h = 0 THEN 4 ELSE IF h < 3 THEN 2 ELSE 1]
B == INSTANCE BlockBody WITH
       Eighth <- EighthOfReward, MaxCost <- 4, MaxCoinAmount <- 30, LastHeight <- 3

-----------------------------------------------------------------------------
SlotModes == {"points", "infusions", "races"}
MCInit ==
    /\ mode \in SlotModes \cup {"farming", "compact", "queries", "headers", "epochs", "bodies"}
    /\ Init /\ F!Init /\ V!Init /\ Q!Init /\ H!Init /\ E!Init /\ B!Init
    /\ onChain = "A"

\* One kind of message at a time beside blocks and ends of slots, or the races of
\* SlotNode.
beside == <<mode, farmVars, vdfVars, queryVars, headerVars, bodyVars>>
PointRun == mode = "points" /\ (Peaks \/ SignagePoints \/ EndsOfSlots) /\ UNCHANGED beside
InfusionRun == mode = "infusions" /\ (Peaks \/ EndsOfSlots \/ InfusionPoints) /\ UNCHANGED beside
RaceRun == mode = "races" /\ (Peaks \/ EndsOfSlots \/ Races) /\ UNCHANGED beside

FarmRun ==
    /\ mode = "farming" /\ F!Next
    /\ UNCHANGED <<vars, mode, vdfVars, queryVars, headerVars, bodyVars>>
VdfRun ==
    /\ mode = "compact" /\ V!Next
    /\ UNCHANGED <<vars, mode, farmVars, queryVars, headerVars, bodyVars>>
QueryRun ==
    /\ mode = "queries" /\ Q!Next
    /\ UNCHANGED <<vars, mode, farmVars, vdfVars, headerVars, bodyVars>>
HeaderRun ==
    /\ \/ mode = "headers" /\ H!Extend /\ UNCHANGED epochRecs
       \/ mode = "epochs" /\ E!Extend /\ UNCHANGED recs
    /\ UNCHANGED <<vars, mode, farmVars, vdfVars, queryVars, bodyVars>>
BodyRun ==
    /\ mode = "bodies" /\ B!Next
    /\ UNCHANGED <<vars, mode, farmVars, vdfVars, queryVars, headerVars>>

MCNext ==
    \/ PointRun \/ InfusionRun \/ RaceRun
    \/ FarmRun \/ VdfRun \/ QueryRun \/ HeaderRun \/ BodyRun
MCSpec == MCInit /\ [][MCNext]_nodeVars

-----------------------------------------------------------------------------
\* When blocks come one by one and the peak is in the block cache, every stored
\* signage point follows the last infusion before it on the peak's own chain: none
\* is left of an abandoned branch, and none that a block of the chain has outdated.
\* The stored slots are the peak's and those after it, each continuing the one before;
\* a block is made of an infusion point only on a block of the chain; and what is put aside
\* can expire.
SlotStoreSound ==
    /\ mode \in {"points", "infusions"} => SpsOnChain
    /\ mode = "infusions" => SlotsOnChain /\ InfusedHasParent
    /\ mode \in SlotModes => PutAsideExpires

\* validate_unfinished_header_block accepts the blocks that create_unfinished_block makes, with
\* the finished sub-slots a node would give it, and validate_finished_header_block the blocks they
\* become, but none that differs from them in one thing.
AcceptsExactly == mode = "headers" => H!AcceptsExactly

\* Successive epochs are measured over adjoining stretches of the chain: no iteration is counted
\* twice or left out.  Each sub-epoch has one summary, in time.
EpochsTile == mode = "epochs" => E!EpochsTile /\ E!SummariesInTime

\* The coins of the chain are the rewards claimed so far, less the fees that wait to be claimed.
SupplyIsRewards == mode = "bodies" => B!SupplyIsRewards
=============================================================================
