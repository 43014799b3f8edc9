------------------------------ MODULE MCMempool -----------------------------
(***************************************************************************)
(* A node that starts at t2 and two branches from there, weights in        *)
(* brackets, transaction blocks in capitals:                               *)
(*                                                                         *)
(*   G -- T1 -- T2[3] -- A3[4] -- n4[5] -- A5[6]                           *)
(*                  \                                                      *)
(*                   B3[5] -- B4[7]                                        *)
(*                  \                                                      *)
(*                   m3[5] -- (reorganisation to no transaction block)     *)
(*                                                                         *)
(* T2 creates cp, cq and the reward r1.  A3 spends cp (creating x) as item *)
(* i1 does, A5 spends cq, B3 spends nothing, B4 spends r1.  n4 is a child of   *)
(* A3 and no transaction block, like m3.                                   *)
(*                                                                         *)
(*   i1: cp          fee per cost 10                                       *)
(*   i2: cp and cq   11, can replace i1                                    *)
(*   i3: cq          7, locked until height 3                              *)
(*   i4: r1          9, valid from timestamp 3                             *)
(*   i5: x           20, valid after A3 only                               *)
(*   i6: cq          12, locked until height 3, can replace i3             *)
(***************************************************************************)
EXTENDS MempoolManager, TLC

CONSTANTS g, t1, t2, a3, n4, a5, b3, b4, m3,
          r0, r1, r2, r3, r4, r5, cp, cq, x, y, z,
          i1, i2, i3, i4, i5, i6

MCCoin == {r0, r1, r2, r3, r4, r5, cp, cq, x, y, z}

Pred == t1 :> g @@ t2 :> t1 @@ a3 :> t2 @@ n4 :> a3 @@ a5 :> n4 @@ b3 :> t2
        @@ b4 :> b3 @@ m3 :> t2

MCHeight == [b \in Block |->
    CASE b = g -> 0 [] b = t1 -> 1 [] b = t2 -> 2 [] b \in {a3, b3, m3} -> 3
      [] b \in {n4, b4} -> 4 [] b = a5 -> 5]

\* n4 is as heavy as b3: the chain never moves to another branch at n4.
MCWeight == [b \in Block |->
    CASE b = g -> 1 [] b = t1 -> 2 [] b = t2 -> 3 [] b = a3 -> 4 [] b = n4 -> 5
      [] b = a5 -> 6 [] b = b3 -> 5 [] b = b4 -> 7 [] b = m3 -> 5]

MCMaxHeight == 5

Up[n \in 0 .. MCMaxHeight, b \in Block] ==
    IF n = 0 THEN b ELSE Up[n - 1, Pred[b]]

MCChain == [b \in Block |-> [h \in 0 .. MCMaxHeight |->
              IF h > MCHeight[b] THEN NoBlock ELSE Up[MCHeight[b] - h, b]]]

MCIsTx == [b \in Block |-> b \notin {n4, m3}]
MCFalse == [b \in Block |-> FALSE]
MCTrue == [b \in Block |-> TRUE]
MCTimestamp == MCHeight

MCRemovals == [b \in Block |->
    CASE b = t2 -> {r0} [] b = a3 -> {cp} [] b = a5 -> {cq} [] b = b4 -> {r1} [] OTHER -> {}]
MCAdditions == [b \in Block |->
    CASE b = t2 -> {cp, cq} [] b = a3 -> {x} [] b = a5 -> {y} [] b = b4 -> {z} [] OTHER -> {}]
MCClaims == [b \in Block |->
    CASE b = t1 -> {r0} [] b = t2 -> {r1} [] b \in {a3, b3} -> {r2}
      [] b = a5 -> {r3} [] b = b4 -> {r3} [] OTHER -> {}]
MCReward == [b \in Block |->
    CASE MCHeight[b] = 0 -> r0 [] MCHeight[b] = 1 -> r1 [] MCHeight[b] = 2 -> r2
      [] MCHeight[b] = 3 -> r3 [] MCHeight[b] = 4 -> r4 [] OTHER -> r5]
MCParent == [c \in MCCoin |->
    CASE c \in {cp, cq} -> r0 [] c = x -> cp [] c = y -> cq [] c = z -> r1 [] OTHER -> NoCoin]

MCSpends == [i \in Item |->
    CASE i = i1 -> {cp} [] i = i2 -> {cp, cq} [] i \in {i3, i6} -> {cq} [] i = i4 -> {r1}
      [] i = i5 -> {x}]
MCCreates == [i \in Item |-> CASE i = i1 -> {x} [] i = i3 -> {y} [] i = i4 -> {z} [] OTHER -> {}]
MCCost == [i \in Item |-> CASE i = i2 -> 3 [] OTHER -> 2]
MCFee == [i \in Item |->
    CASE i = i1 -> 20 [] i = i2 -> 33 [] i = i3 -> 14 [] i = i4 -> 18 [] i = i5 -> 40
      [] i = i6 -> 24]
MCHeightLock == [i \in Item |-> IF i \in {i3, i6} THEN 3 ELSE 0]
MCSecondsLock == [i \in Item |-> IF i = i4 THEN 3 ELSE 0]
MCStartPeaks == {t2}

\* Once the mempool has not been told of a change, the tree is a smaller one.
MCStep == NextTold /\ (told' \/ {n4, b4} \cap known' = {})
MCInit == Init /\ told = TRUE
MCSpec == MCInit /\ [][MCStep]_<<vars, told>>

\* Long syncs, and no cancelled task.
MCSyncSpec == MCInit /\ [][NextSync /\ UNCHANGED told]_<<vars, told>>
=============================================================================
