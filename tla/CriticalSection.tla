--------------------------- MODULE CriticalSection --------------------------
(***************************************************************************)
(* What the holders of the blockchain lock rely on: nobody comes in before *)
(* the one inside has gone out, and nobody is put out.                     *)
(***************************************************************************)
CONSTANT Client

VARIABLE inside   \* the clients between __aenter__ and __aexit__

ComeIn(c) == inside = {} /\ inside' = {c}
GoOut(c) == inside = {c} /\ inside' = {}

OneAtATime == inside = {} /\ [][\E c \in Client : ComeIn(c) \/ GoOut(c)]_inside
=============================================================================
