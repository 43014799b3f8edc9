------------------------------- MODULE Farmer -------------------------------
(***************************************************************************)
(* The farmer between a full node and a harvester: signage points go to    *)
(* the harvester, its proofs of space come back, signatures of the         *)
(* harvester's key are asked for twice, once to declare the proof and once *)
(* for the block the node makes of it.  The caches of the farmer are       *)
(* cleared by age, under one table of times.                               *)
(*                                                                         *)
(* A proof stands for its quality string, its plot and the plot identifier *)
(* made of both.  Messages between farmer and harvester are handled by a   *)
(* task each, so they are a set; a closed connection loses them.           *)
(***************************************************************************)
EXTENDS Naturals, FiniteSets

CONSTANTS
    Sp,       \* hashes of challenge chain signage points
    Quality,  \* proofs of space that plots have for these points
    SpOf,     \* SpOf[q]: the point of a proof
    Winning,  \* the proofs whose required iterations make a block
    Expiry,   \* SUB_SLOT_TIME_TARGET * 3
    MaxClock  \* bound on the time

VARIABLES
    sps, proofs, idents, responses, \* the keys and the proofs of sps, proofs_of_space,
                                    \* quality_str_to_identifiers, number_of_responses
    addTime,   \* cache_add_time, a partial function from points and proofs to times
    clock,
    farmLink,  \* whether the harvester is connected
    handshaken, \* whether the harvester has the public keys
    lookups,   \* lookups that run in the harvester's thread pool
    plots,     \* the proofs whose plot the plot manager has
    mail,      \* messages in flight between farmer and harvester
    declared,  \* proofs declared to the full node
    signedFor  \* proofs whose signed values the full node has

caches == <<sps, proofs, idents, responses, addTime>>
harvester == <<handshaken, lookups, plots>>
nodeSide == <<declared, signedFor>>
farmerVars == <<caches, harvester, nodeSide, clock, farmLink, mail>>

Touch(f, keys) == [k \in DOMAIN f \cup keys |-> IF k \in keys THEN clock ELSE f[k]]

Init ==
    /\ sps = {} /\ proofs = {} /\ idents = {} /\ responses = {} /\ addTime = <<>>
    /\ clock = 0 /\ farmLink = FALSE /\ handshaken = FALSE /\ lookups = {} /\ plots = Quality
    /\ mail = {} /\ declared = {} /\ signedFor = {}

-----------------------------------------------------------------------------
\* The harvester connects; the farmer sends the handshake with its keys.
on_connect ==
    /\ ~farmLink /\ farmLink' = TRUE /\ mail' = {[type |-> "handshake"]}
    /\ UNCHANGED <<caches, harvester, nodeSide, clock>>

on_disconnect ==
    /\ farmLink /\ farmLink' = FALSE /\ mail' = {}
    /\ UNCHANGED <<caches, harvester, nodeSide, clock>>

\* The node sends a signage point: it goes to the harvester, and is kept unless it is a
\* duplicate.
new_signage_point(p) ==
    /\ mail' = IF farmLink THEN mail \cup {[type |-> "sp", sp |-> p]} ELSE mail
    /\ IF p \in sps THEN UNCHANGED <<sps, addTime>>
       ELSE sps' = sps \cup {p} /\ addTime' = Touch(addTime, {p})
    /\ UNCHANGED <<proofs, idents, responses, harvester, nodeSide, clock, farmLink>>

\* The harvester: harvester_handshake, and a lookup for every plot that passes the filter,
\* once it has the keys.
harvester_handshake ==
    /\ [type |-> "handshake"] \in mail /\ mail' = mail \ {[type |-> "handshake"]}
    /\ handshaken' = TRUE
    /\ UNCHANGED <<caches, lookups, plots, nodeSide, clock, farmLink>>

PlotsPassing(p) == {q \in plots : SpOf[q] = p}

new_signage_point_harvester ==
    \E m \in mail :
      /\ m.type = "sp" /\ mail' = mail \ {m}
      /\ lookups' = IF handshaken THEN lookups \cup PlotsPassing(m.sp) ELSE lookups
      /\ UNCHANGED <<caches, handshaken, plots, nodeSide, clock, farmLink>>

SendProof(q) == IF farmLink THEN mail \cup {[type |-> "proof", q |-> q]} ELSE mail

\* A lookup ends, with a proof or without (the file cannot be read).
EndLookup ==
    \E q \in lookups :
      /\ lookups' = lookups \ {q}
      /\ mail' \in {mail, SendProof(q)}
      /\ UNCHANGED <<caches, handshaken, plots, nodeSide, clock, farmLink>>

\* The plot manager's refresh finds that a plot is gone.
PlotGone ==
    \E q \in plots :
      /\ plots' = plots \ {q}
      /\ UNCHANGED <<caches, handshaken, lookups, nodeSide, clock, farmLink, mail>>

Sign(q, what) == [type |-> "sign", q |-> q, what |-> what]

\* A mutant: a proof does not renew the time of its signage point.
PointAgesAlone ==
    \E m \in mail :
      /\ m.type = "proof"
      /\ LET p == SpOf[m.q]
             known == p \in sps
             wins == known /\ m.q \in Winning
         IN  /\ responses' = responses \cup {p}
             /\ addTime' = Touch(addTime, (IF wins THEN {m.q} ELSE {})
                                          \cup (IF p \in responses THEN {} ELSE {p}))
             /\ proofs' = IF wins THEN proofs \cup {m.q} ELSE proofs
             /\ idents' = IF wins THEN idents \cup {m.q} ELSE idents
             /\ mail' = (mail \ {m}) \cup (IF wins THEN {Sign(m.q, "sp")} ELSE {})
      /\ UNCHANGED <<sps, harvester, nodeSide, clock, farmLink>>

\* A proof of space comes: for a point the farmer has, and good enough, it is kept with what
\* is needed to sign for it, and the harvester is asked to sign the point.
new_proof_of_space ==
    \E m \in mail :
      /\ m.type = "proof"
      /\ LET p == SpOf[m.q]
             known == p \in sps
             wins == known /\ m.q \in Winning
         IN  /\ responses' = responses \cup {p}
             /\ addTime' = Touch(addTime, (IF wins THEN {p, m.q} ELSE {})
                                          \cup (IF p \in responses THEN {} ELSE {p}))
             /\ proofs' = IF wins THEN proofs \cup {m.q} ELSE proofs
             /\ idents' = IF wins THEN idents \cup {m.q} ELSE idents
             /\ mail' = (mail \ {m}) \cup (IF wins THEN {Sign(m.q, "sp")} ELSE {})
      /\ UNCHANGED <<sps, harvester, nodeSide, clock, farmLink>>

\* The harvester signs if it still has the plot.
request_signatures ==
    \E m \in mail :
      /\ m.type = "sign"
      /\ mail' = (mail \ {m}) \cup
                   (IF m.q \in plots THEN {[type |-> "signed", q |-> m.q, what |-> m.what]} ELSE {})
      /\ UNCHANGED <<caches, harvester, nodeSide, clock, farmLink>>

\* The signatures come: without the point they are dropped, without the proof the handler
\* raises; otherwise the proof is declared, or the signed values are sent to the node.
respond_signatures ==
    \E m \in mail :
      /\ m.type = "signed" /\ mail' = mail \ {m}
      /\ LET usable == SpOf[m.q] \in sps /\ m.q \in proofs
         IN  /\ declared' = IF usable /\ m.what = "sp" THEN declared \cup {m.q} ELSE declared
             /\ signedFor' = IF usable /\ m.what = "block" THEN signedFor \cup {m.q} ELSE signedFor
      /\ UNCHANGED <<caches, harvester, clock, farmLink>>

\* The node asks for the signatures of the block it makes with a proof.
request_signed_values ==
    \E q \in declared \ signedFor :
      /\ mail' = IF q \in idents /\ farmLink THEN mail \cup {Sign(q, "block")} ELSE mail
      /\ UNCHANGED <<caches, harvester, nodeSide, clock, farmLink>>

\* Everything whose time is more than Expiry ago is dropped from all tables.
clear_cache ==
    LET old == {k \in DOMAIN addTime : clock - addTime[k] > Expiry}
    IN  /\ old # {}
        /\ sps' = sps \ old /\ idents' = idents \ old /\ responses' = responses \ old
        /\ proofs' = {q \in proofs : SpOf[q] \notin old}
        /\ addTime' = [k \in DOMAIN addTime \ old |-> addTime[k]]
        /\ UNCHANGED <<harvester, nodeSide, clock, farmLink, mail>>

Pass ==
    /\ clock < MaxClock /\ clock' = clock + 1
    /\ UNCHANGED <<caches, harvester, nodeSide, farmLink, mail>>

Handle ==
    \/ harvester_handshake \/ new_signage_point_harvester \/ EndLookup \/ new_proof_of_space
    \/ request_signatures \/ respond_signatures

Next ==
    \/ on_connect \/ on_disconnect \/ (\E p \in Sp : new_signage_point(p))
    \/ Handle \/ PlotGone \/ request_signed_values \/ clear_cache \/ Pass

Spec == Init /\ [][Next]_farmerVars

-----------------------------------------------------------------------------
\* A proof for which the farmer can still ask signatures (quality_str_to_identifiers) is one
\* whose answer it can use: its point and the proof itself are still there, although each
\* is dropped by an age of its own.  And every entry of a table has a time, so that none
\* stays for ever.
SignableIsUsable ==
    /\ \A q \in idents : SpOf[q] \in sps /\ q \in proofs
    /\ sps \cup idents \cup responses \cup {SpOf[q] : q \in proofs} \subseteq DOMAIN addTime
=============================================================================
