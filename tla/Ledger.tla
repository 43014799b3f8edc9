------------------------------- MODULE Ledger -------------------------------
(***************************************************************************)
(* What a full node's chain promises, without stores, caches, forks to     *)
(* roll back or transactions: it knows a set of blocks closed under        *)
(* ancestors, its peak is the first heaviest one, and its unspent coins    *)
(* are those the peak's chain creates and does not spend.                  *)
(***************************************************************************)
EXTENDS BlockTree

VARIABLES
    known,   \* the blocks it has accepted
    peak,    \* the tip of the chain it follows, NoBlock before the first block
    coins    \* the unspent coins

ledger == <<known, peak, coins>>

\* The unspent coins at the end of the chain of b.
UnspentOf(b) ==
    {c \in Coin : /\ \E h \in 0 .. Height[b] : c \in Adds(Chain[b][h])
                  /\ \A h \in 0 .. Height[b] : c \notin Removals[Chain[b][h]]}

Acceptable(b) ==
    /\ Height[b] = 0 \/ Prev(b) \in known
    /\ SpendsAreSound(b)

\* The first block of an empty ledger, or a block heavier than the peak.
Wins(b) ==
    IF peak = NoBlock THEN Height[b] = 0
    ELSE Height[b] > 0 /\ Weight[b] > Weight[peak]

LedgerInit ==
    /\ known = {}
    /\ peak = NoBlock
    /\ coins = {}

Remember(b) ==
    /\ Acceptable(b)
    /\ peak # NoBlock /\ ~ Wins(b)
    /\ known' = known \cup {b}
    /\ UNCHANGED <<peak, coins>>

Follow(b) ==
    /\ Acceptable(b)
    /\ Wins(b)
    /\ known' = known \cup {b}
    /\ peak' = b
    /\ coins' = UnspentOf(b)

LedgerNext == \E b \in Block : Remember(b) \/ Follow(b)

LedgerSpec == LedgerInit /\ [][LedgerNext]_ledger
=============================================================================
