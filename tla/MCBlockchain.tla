---------------------------- MODULE MCBlockchain ----------------------------
(***************************************************************************)
(* A block tree for TLC.  Heights grow to the right, weights in brackets:  *)
(*                                                                         *)
(*   g[1] -- a1[2] -- a2[3] -- a3[5]                                       *)
(*               \         \                                               *)
(*                \         y3[6]     (spends a coin of b's branch)        *)
(*                 b2[3] -- b3[7]     (b2 is as heavy as a2)               *)
(*                     \                                                   *)
(*                      x3[8]         (spends a coin twice)                *)
(*   o0[1] -- o1[9]                   (another genesis block)              *)
(*                                                                         *)
(* a2 is no transaction block, b2 creates coins and spends them itself, a3 *)
(* spends a coin that b3 leaves alone, x3 and y3 must be refused whichever *)
(* chain is the peak's.  A configuration takes a part of the tree.         *)
(***************************************************************************)
EXTENDS Blockchain, TLC

CONSTANTS g, a1, a2, a3, y3, b2, b3, x3, o0, o1,
          r0, r1, r2, r3, t1, t2, t3

MCCoin == {r0, r1, r2, r3, t1, t2, t3}

Pred == a1 :> g @@ a2 :> a1 @@ a3 :> a2 @@ y3 :> a2 @@ b2 :> a1 @@ b3 :> b2
        @@ x3 :> b2 @@ o1 :> o0

MCHeight == [b \in Block |->
    CASE b \in {g, o0} -> 0 [] b \in {a1, o1} -> 1
      [] b \in {a2, b2} -> 2 [] OTHER -> 3]

MCWeight == [b \in Block |->
    CASE b \in {g, o0} -> 1 [] b = a1 -> 2 [] b \in {a2, b2} -> 3 [] b = a3 -> 5
      [] b = y3 -> 6 [] b = b3 -> 7 [] b = x3 -> 8 [] b = o1 -> 9]

MCMaxHeight == 3

Up[n \in 0 .. MCMaxHeight, b \in Block] ==
    IF n = 0 THEN b ELSE Up[n - 1, Pred[b]]

MCChain == [b \in Block |-> [h \in 0 .. MCMaxHeight |->
              IF h > MCHeight[b] THEN NoBlock ELSE Up[MCHeight[b] - h, b]]]

MCIsTx == [b \in Block |-> b # a2]
MCHasSummary == [b \in Block |-> b \in {a2, a3, b2}]
MCHeaderOk == [b \in Block |-> TRUE]
MCBodyOk == [b \in Block |-> TRUE]

MCRemovals == [b \in Block |->
    CASE b = a3 -> {r0} [] b = y3 -> {t2} [] b = b2 -> {r1, t2}
      [] b = b3 -> {t3} [] b = x3 -> {r1} [] OTHER -> {}]
MCAdditions == [b \in Block |->
    CASE b = a3 -> {t1} [] b = b2 -> {t2, t3} [] OTHER -> {}]
MCClaims == [b \in Block |->
    CASE b \in {a1, o1} -> {r0} [] b \in {a3, y3, b2} -> {r1}
      [] b \in {b3, x3} -> {r2} [] OTHER -> {}]
MCReward == [b \in Block |->
    CASE MCHeight[b] = 0 -> r0 [] MCHeight[b] = 1 -> r1
      [] MCHeight[b] = 2 -> r2 [] OTHER -> r3]
MCParent == r0 :> NoCoin @@ r1 :> NoCoin @@ r2 :> NoCoin @@ r3 :> NoCoin
            @@ t1 :> r0 @@ t2 :> r1 @@ t3 :> t2
=============================================================================
