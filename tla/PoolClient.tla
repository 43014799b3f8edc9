----------------------------- MODULE PoolClient -----------------------------
(***************************************************************************)
(* The farmer as client of one pool: pool_state, which update_pool_state   *)
(* keeps up to date by requests to the pool, and the partials.             *)
(* update_pool_state runs periodically, and is forced when the pool        *)
(* refuses a partial, so two runs of it interleave at their requests,      *)
(* while the payout instructions in config.yaml change.                    *)
(*                                                                         *)
(* The pool is external: it answers GET, POST and PUT /farmer from a       *)
(* record of its own, or the request fails.  Times are whether they have   *)
(* been reached.                                                           *)
(***************************************************************************)
EXTENDS Naturals

CONSTANTS
    Payout,     \* payout instructions
    Difficulty, \* difficulties the pool sets
    MaxSets,    \* bound on calls of set_payout_instructions
    MaxPartials, \* bound on partials
    MaxErrors   \* bound on requests that fail

VARIABLES
    cfgPayout, \* the payout instructions in config.yaml
    pstate,    \* pool_state of the pool; "none" payout: there is no entry yet
    update,    \* update[t]: where a run of update_pool_state is
    pool,      \* the farmer record of the pool; "none": not known
    partial,   \* where the handling of a partial is
    sets, partials, errors

limits == <<sets, partials, errors>>
poolVars == <<cfgPayout, pstate, update, pool, partial, limits>>

Run == {"periodic", "forced"}
Idle == [stage |-> "idle", payout |-> "none"]

Init ==
    /\ cfgPayout \in Payout /\ pool = "none" /\ partial = "none"
    /\ pstate = [payout |-> "none", infoDue |-> TRUE, due |-> TRUE, token |-> FALSE, difficulty |-> 0]
    /\ update = [t \in Run |-> Idle] /\ sets = 0 /\ partials = 0 /\ errors = 0

-----------------------------------------------------------------------------
\* A mutant: the payout instructions are loaded once.
StaleConfig(t) ==
    LET p == IF pstate.payout = "none" THEN cfgPayout ELSE pstate.payout
    IN  /\ update[t] = Idle /\ pstate' = [pstate EXCEPT !.payout = p]
        /\ update' = [update EXCEPT ![t] = [stage |-> "info", payout |-> p]]

\* update_pool_state loads the configuration and puts it into pool_state, whose entry it
\* makes the first time.  The run goes on with the configuration it has loaded.
BeginUpdate(t) ==
    /\ update[t] = Idle /\ pstate' = [pstate EXCEPT !.payout = cfgPayout]
    /\ update' = [update EXCEPT ![t] = [stage |-> "info", payout |-> cfgPayout]]

\* The task that sleeps a second at a time: the configuration changed, or a minute is over.
periodically_update_pool_state ==
    /\ BeginUpdate("periodic")
    /\ UNCHANGED <<cfgPayout, pool, partial, limits>>

Stage(t, stage) == update' = [update EXCEPT ![t].stage = stage]

\* GET /pool_info, when it is due.
pool_get_pool_info(t) ==
    /\ update[t].stage = "info" /\ Stage(t, "farmer")
    /\ pstate' = IF ~pstate.infoDue THEN pstate
                 ELSE [pstate EXCEPT !.infoDue = FALSE, !.token = TRUE,
                         !.difficulty = IF @ = 0 THEN CHOOSE d \in Difficulty : TRUE ELSE @]
    /\ UNCHANGED <<cfgPayout, pool, partial, limits>>

\* GET /farmer, when it is due and /pool_info has been answered: the difficulty and the time
\* of the next request are taken; a farmer the pool does not know is posted, once; payout
\* instructions that differ are put.
pool_get_farmer(t) ==
    /\ update[t].stage \in {"farmer", "farmer2"}
    /\ IF update[t].stage = "farmer" /\ (~pstate.due \/ ~pstate.token)
       THEN update' = [update EXCEPT ![t] = Idle] /\ UNCHANGED pstate
       ELSE \/ /\ pool = "none" /\ UNCHANGED pstate
               /\ update' = [update EXCEPT ![t] = IF update[t].stage = "farmer"
                                                  THEN [@ EXCEPT !.stage = "post"] ELSE Idle]
            \/ /\ pool # "none"
               /\ \E d \in Difficulty : pstate' = [pstate EXCEPT !.difficulty = d, !.due = FALSE]
               /\ update' = [update EXCEPT ![t] = IF pool # update[t].payout
                                                  THEN [@ EXCEPT !.stage = "put"] ELSE Idle]
    /\ UNCHANGED <<cfgPayout, pool, partial, limits>>

\* POST /farmer makes the farmer known with its payout instructions.
pool_post_farmer(t) ==
    /\ update[t].stage = "post" /\ pool' = update[t].payout /\ Stage(t, "farmer2")
    /\ UNCHANGED <<cfgPayout, pstate, partial, limits>>

pool_put_farmer(t) ==
    /\ update[t].stage = "put" /\ pool' = update[t].payout
    /\ update' = [update EXCEPT ![t] = Idle]
    /\ UNCHANGED <<cfgPayout, pstate, partial, limits>>

\* A request fails, before or after the pool has seen it: after /pool_info the run goes on,
\* after the others it ends.
handle_failed_pool_response(t) ==
    /\ update[t].stage \notin {"idle"} /\ errors < MaxErrors /\ errors' = errors + 1
    /\ update' = [update EXCEPT ![t] = IF @.stage = "info" THEN [@ EXCEPT !.stage = "farmer"] ELSE Idle]
    /\ pool' \in {pool, IF update[t].stage \in {"post", "put"} THEN update[t].payout ELSE pool}
    /\ UNCHANGED <<cfgPayout, pstate, partial, sets, partials>>

\* The intervals of an hour and of five minutes end.
InfoDue ==
    /\ ~pstate.infoDue /\ pstate' = [pstate EXCEPT !.infoDue = TRUE]
    /\ UNCHANGED <<cfgPayout, update, pool, partial, limits>>

FarmerDue ==
    /\ ~pstate.due /\ pstate' = [pstate EXCEPT !.due = TRUE]
    /\ UNCHANGED <<cfgPayout, update, pool, partial, limits>>

\* The RPC set_payout_instructions, for a pool of pool_state.
set_payout_instructions ==
    /\ pstate.payout # "none" /\ sets < MaxSets /\ sets' = sets + 1
    /\ cfgPayout' \in Payout /\ pstate' = [pstate EXCEPT !.due = TRUE]
    /\ UNCHANGED <<update, pool, partial, partials, errors>>

-----------------------------------------------------------------------------
(* Partials, from new_proof_of_space.                                      *)

\* A proof that is good enough for the difficulty at hand; the harvester is asked to sign.
CheckPartial ==
    /\ partial = "none" /\ pstate.difficulty # 0 /\ pstate.token
    /\ partials < MaxPartials /\ partials' = partials + 1 /\ partial' = "sign"
    /\ UNCHANGED <<cfgPayout, pstate, update, pool, sets, errors>>

\* The harvester does not answer, or the partial is posted.
SignPartial ==
    /\ partial = "sign" /\ partial' \in {"none", "post"}
    /\ UNCHANGED <<cfgPayout, pstate, update, pool, limits>>

\* The pool acknowledges the partial with a difficulty, or refuses it, or finds it not good
\* enough, for which an update is forced.
PostPartial ==
    /\ partial = "post" /\ partial' = "none"
    /\ \/ /\ \E d \in Difficulty : pstate' = [pstate EXCEPT !.difficulty = d]
          /\ UNCHANGED update
       \/ UNCHANGED <<pstate, update>>
       \/ /\ update["forced"] = Idle
          /\ pstate' = [pstate EXCEPT !.due = TRUE, !.payout = cfgPayout]
          /\ update' = [update EXCEPT !["forced"] = [stage |-> "info", payout |-> cfgPayout]]
    /\ UNCHANGED <<cfgPayout, pool, limits>>

RequestStep(t) ==
    pool_get_pool_info(t) \/ pool_get_farmer(t) \/ pool_post_farmer(t) \/ pool_put_farmer(t)

Next ==
    \/ periodically_update_pool_state \/ InfoDue \/ FarmerDue \/ set_payout_instructions
    \/ CheckPartial \/ SignPartial \/ PostPartial
    \/ \E t \in Run : RequestStep(t) \/ handle_failed_pool_response(t)

Spec == Init /\ [][Next]_poolVars

-----------------------------------------------------------------------------
=============================================================================
