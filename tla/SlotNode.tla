------------------------------ MODULE SlotNode ------------------------------
(***************************************************************************)
(* FullNodeStore and the handlers of the full node around it.  The store   *)
(* has the finished sub-slots and signage points from the peak's slot      *)
(* onwards, and caches of those that arrived before the block they depend  *)
(* on.  Objects are what honest timelords made, on any branch.  An end of  *)
(* sub-slot stands for its reward chain hash; its challenge chain hash cc  *)
(* may be shared with others.  A block stands for its                      *)
(* reward_infusion_new_challenge.  A VDF check succeeds exactly when the   *)
(* object was made from the infusion and the iterations that are expected. *)
(*                                                                         *)
(* Blocks are added under the blockchain lock; signage points, ends of     *)
(* sub-slot and infusion points are handled under the timelord lock only.  *)
(* The two meet in the store: the blockchain's peak moves some steps       *)
(* before the store's slots do, and a handler may use a peak it read       *)
(* before it had to wait.                                                  *)
(*                                                                         *)
(* Not modelled: what is sent to peers and farmers; blocks that fail       *)
(* validation.                                                             *)
(***************************************************************************)
EXTENDS Integers, Sequences, SequencesExt

CONSTANTS
    Block, NoBlock,
    Record,  \* Record[b]: height, prev, total_iters, sub_slot_iters, next_ssi,
             \* overflow, first (first_in_sub_slot), the slots ip and sp of its
             \* infusion and signage point, start (of ip), point (its signage
             \* point, NoSp at the start of a slot), rc (the infusion before)
    Eos, Genesis,
    Bundle,  \* Bundle[e]: cc, prev_cc (the challenge of its slot), rc (the last
             \* infusion before it), ssi; Bundle[Genesis] has cc only
    Sp, NoSp,  \* signage points: [cc, index, rc, ssi]
    NUM_SPS_SUB_SLOT, SUB_SLOT_ITERS_STARTING

Slot == Eos \cup {Genesis}
Index == 1 .. NUM_SPS_SUB_SLOT - 1

Entry == [eos : Slot, sps : [Index -> Sp \cup {NoSp}], iters : Nat]
NoSps == [i \in Index |-> NoSp]
initialize_genesis_sub_slot == <<[eos |-> Genesis, sps |-> NoSps, iters |-> 0]>>

-----------------------------------------------------------------------------
StoredSps(slots) == (UNION {Range(slots[n].sps) : n \in DOMAIN slots}) \ {NoSp}

\* get_sub_slot
HasSlot(slots, cc) ==
    \E n \in DOMAIN slots : slots[n].eos # Genesis /\ Bundle[slots[n].eos].cc = cc

have_newer_signage_point(slots, sp) ==
    \E n \in DOMAIN slots :
        /\ Bundle[slots[n].eos].cc = sp.cc
        /\ \E i \in 1 .. sp.index - 1 : slots[n].sps[i] # NoSp /\ slots[n].sps[i].rc = sp.rc
        /\ slots[n].sps[sp.index] # NoSp /\ slots[n].sps[sp.index].rc # sp.rc

-----------------------------------------------------------------------------
\* checkpoint_size * index
Delta(ssi, i) == (ssi \div NUM_SPS_SUB_SLOT) * i

\* The walk of new_signage_point from the peak to the last infusion before the
\* signage point.
RECURSIVE LastInfusion(_, _, _)
LastInfusion(curr, entry, sp_iters) ==
    IF Record[curr].total_iters <= entry.iters \/ Record[curr].total_iters <= sp_iters THEN curr
    ELSE IF Record[curr].first THEN entry.eos
    ELSE LastInfusion(Record[curr].prev, entry, sp_iters)

\* new_signage_point adds sp when the blockchain's peak is pk; otherwise it puts
\* it aside in future_sp_cache.
AddsSp(slots, pk, next_ssi, sp) ==
    LET n == SelectInSeq(slots, LAMBDA e : Bundle[e.eos].cc = sp.cc)
        future == pk # NoBlock /\ slots[n].iters > Record[pk].total_iters
        ssi == IF future THEN next_ssi
               ELSE IF pk = NoBlock \/ Record[pk].height < 2 THEN SUB_SLOT_ITERS_STARTING
               ELSE Record[pk].sub_slot_iters
        delta == Delta(ssi, sp.index)
    IN  /\ n # 0
        /\ delta = Delta(sp.ssi, sp.index)
        /\ sp.rc = IF pk = NoBlock \/ future THEN slots[n].eos
                   ELSE LastInfusion(pk, slots[n], slots[n].iters + delta)

WithSp(slots, sp) ==
    LET n == SelectInSeq(slots, LAMBDA e : Bundle[e.eos].cc = sp.cc)
    IN  [slots EXCEPT ![n].sps[sp.index] = sp]

\* What new_finished_sub_slot does with e: it is already "present", "added",
\* cached for "later" or "dropped".
EosVerdict(slots, pk, e) ==
    LET last == Last(slots)
        ssi == IF pk = NoBlock THEN SUB_SLOT_ITERS_STARTING ELSE Record[pk].sub_slot_iters
        inside == pk # NoBlock /\ Record[pk].total_iters > last.iters
    IN  IF \E n \in DOMAIN slots : slots[n].eos = e THEN "present"
        ELSE IF Bundle[e].prev_cc # Bundle[last.eos].cc THEN "dropped"
        ELSE IF inside /\ last.iters + ssi < Record[pk].total_iters THEN "dropped"
        ELSE IF inside /\ Bundle[e].rc # pk THEN "later"
        ELSE IF Bundle[e].ssi = ssi /\ (inside \/ Bundle[e].rc = last.eos)
             THEN "added" ELSE "dropped"

WithEos(slots, pk, e) ==
    Append(slots, [eos |-> e, sps |-> NoSps,
                   iters |-> Last(slots).iters + (IF pk = NoBlock THEN SUB_SLOT_ITERS_STARTING
                                                  ELSE Record[pk].sub_slot_iters)])

-----------------------------------------------------------------------------
\* The start of the slot in which b is infused, and of the one before it.
ip_sub_slot_total_iters(b) == Record[b].start
sp_sub_slot_total_iters(b) ==
    IF Record[b].overflow THEN Record[b].start - Record[b].sub_slot_iters ELSE Record[b].start

\* Mutant: new_peak cuts at the peak also in a reorganisation.
KeptToPeak(slots, b, fork, s) ==
    LET n == SelectInSeq(slots, LAMBDA e : e.eos = s)
    IN  IF s = Genesis \/ n = 0 THEN NoSps
        ELSE [i \in Index |-> IF slots[n].iters + Delta(Record[b].sub_slot_iters, i) < Record[b].total_iters
                              THEN slots[n].sps[i] ELSE NoSp]

\* The signage points of slot s that new_peak keeps: those before the fork
\* block, or before the peak itself if there was no reorganisation.
KeptSps(slots, b, fork, s) ==
    LET cut == Record[IF fork = NoBlock THEN b ELSE fork].total_iters
        n == SelectInSeq(slots, LAMBDA e : e.eos = s)
    IN  IF s = Genesis \/ n = 0 \/ (fork # NoBlock /\ Record[fork].sub_slot_iters # Record[b].sub_slot_iters)
        THEN NoSps
        ELSE [i \in Index |->
                IF slots[n].iters + Delta(Record[b].sub_slot_iters, i) < cut THEN slots[n].sps[i] ELSE NoSp]

\* The sub-slots after new_peak, before the cached objects are tried.
SlotsOfPeak(slots, b, fork) ==
    LET entry(s, t) == <<[eos |-> s, sps |-> KeptSps(slots, b, fork, s), iters |-> t]>>
    IN  IF Record[b].ip = Genesis THEN initialize_genesis_sub_slot
        ELSE (IF Record[b].overflow THEN entry(Record[b].sp, sp_sub_slot_total_iters(b)) ELSE <<>>)
             \o entry(Record[b].ip, ip_sub_slot_total_iters(b))

\* Mutant: new_peak forgets the cached signage points.
ForgetsFutureSps(slots, b, sps) == slots

\* new_peak tries the cached signage points of the peak, and its cached ends of
\* sub-slot until one is added.
WithFutureSps(slots, b, sps) ==
    FoldSet(LAMBDA sp, acc : WithSp(acc, sp), slots,
            {sp \in sps : AddsSp(slots, b, Record[b].sub_slot_iters, sp)})

WithFutureEos(slots, b, es) ==
    LET ok == {e \in es : EosVerdict(slots, b, e) \in {"added", "present"}}
    IN  IF ok = {} THEN slots
        ELSE LET e == CHOOSE x \in ok : TRUE
             IN  IF EosVerdict(slots, b, e) = "added" THEN WithEos(slots, b, e) ELSE slots

-----------------------------------------------------------------------------
(* The handlers *)

CONSTANTS
    SentSp,              \* the signage points that peers send
    Ip,                  \* the blocks whose infusion point a timelord sends
    MAX_SUB_SLOT_BLOCKS,
    ClearEvery           \* 1000 in the code

VARIABLES
    known,      \* the blocks in the blockchain
    peak,       \* blockchain.get_peak()
    cached,     \* whether the block store's cache holds the peak
    slots,      \* finished_sub_slots
    future_sp, future_eos, future_ip,   \* the future caches, keyed by .rc
    key_times,  \* future_cache_key_times
    post,       \* [step, fork]: peak_post_processing, "idle" if not running
    clearing,   \* peak_post_processing_2 is about to clear old entries
    held,       \* [kind, ...]: the handler that holds timelord_lock and waits
    infusing    \* the block made of an infusion point, until it is added

future == <<future_sp, future_eos, future_ip, key_times>>
chainVars == <<known, peak, cached, infusing>>
vars == <<chainVars, slots, future, post, clearing, held>>

Idle == [step |-> "idle", fork |-> NoBlock]
Free == [kind |-> "free"]

\* The timelord lock is also held until a block made of an infusion point is added.
LockFree == held = Free /\ infusing = {}

Init ==
    /\ known = {} /\ peak = NoBlock /\ cached = TRUE
    /\ slots = initialize_genesis_sub_slot
    /\ future_sp = {} /\ future_eos = {} /\ future_ip = {} /\ key_times = {}
    /\ post = Idle /\ held = Free /\ clearing = FALSE
    /\ infusing = {}

-----------------------------------------------------------------------------
\* The blocks from b to the first one.
RECURSIVE ChainOf(_)
ChainOf(b) == IF b = NoBlock THEN {} ELSE {b} \cup ChainOf(Record[b].prev)

Heavier(b, pk) == pk = NoBlock \/ Record[b].height > Record[pk].height

\* The block where the chain of b leaves that of pk.
ForkBlock(b, pk) ==
    IF pk = NoBlock \/ Record[b].prev = pk \/ Record[b].height = 0 THEN NoBlock
    ELSE CHOOSE f \in ChainOf(b) \cap ChainOf(pk) :
            \A g \in ChainOf(b) \cap ChainOf(pk) : Record[g].height <= Record[f].height

Addable(b) == b \notin known /\ (Record[b].height = 0 \/ Record[b].prev \in known)

\* respond_block up to the first await of peak_post_processing.
respond_block(b) ==
    /\ post = Idle
    /\ Addable(b)
    /\ known' = known \cup {b}
    /\ infusing' = infusing \ {b}
    /\ IF Heavier(b, peak)
       THEN /\ peak' = b
            /\ cached' = TRUE
            /\ post' = [step |-> "slots", fork |-> ForkBlock(b, peak)]
       ELSE UNCHANGED <<peak, cached, post>>
    /\ UNCHANGED <<slots, future, clearing, held>>

\* As respond_block, for two blocks of a batch: the fork height of the second
\* is the one that peak_post_processing is given.
short_sync_batch(a, b) ==
    /\ post = Idle
    /\ Addable(a) /\ b \notin known /\ Record[b].prev = a
    /\ known' = known \cup {a, b}
    /\ infusing' = infusing \ {a, b}
    /\ LET mid == IF Heavier(a, peak) THEN a ELSE peak
       IN  IF Heavier(b, mid)
           THEN /\ peak' = b
                /\ cached' = TRUE
                /\ post' = [step |-> "slots", fork |-> ForkBlock(b, mid)]
           ELSE UNCHANGED <<peak, cached, post>>
    /\ UNCHANGED <<slots, future, clearing, held>>

-----------------------------------------------------------------------------
\* FullNodeStore.new_peak, called by peak_post_processing.
new_peak ==
    /\ post.step = "slots"
    /\ LET s1 == SlotsOfPeak(slots, peak, post.fork)
           s2 == WithFutureEos(s1, peak, {e \in future_eos : Bundle[e].rc = peak})
       IN  slots' = WithFutureSps(s2, peak, {sp \in future_sp : sp.rc = peak})
    /\ future_sp' = {sp \in future_sp : sp.rc # peak}
    /\ future_eos' = {e \in future_eos : Bundle[e].rc # peak}
    /\ future_ip' = {b \in future_ip : Record[b].rc # peak}
    /\ post' = [post EXCEPT !.step = "point"]
    /\ UNCHANGED <<chainVars, key_times, clearing, held>>

\* new_signage_point, with what it changes.
AddSp(pk, next_ssi, sp) ==
    IF AddsSp(slots, pk, next_ssi, sp)
    THEN /\ slots' = WithSp(slots, sp)
         /\ UNCHANGED <<future_sp, key_times>>
    ELSE /\ future_sp' = future_sp \cup {sp}
         /\ key_times' = IF sp \in future_sp THEN key_times ELSE key_times \cup {sp.rc}
         /\ UNCHANGED slots

\* The rest of peak_post_processing: the signage point of the block itself.
AddBlockSp ==
    /\ post.step = "point"
    /\ IF Record[peak].point = NoSp
       THEN UNCHANGED <<slots, future_sp, key_times>>
       ELSE AddSp(peak, Record[peak].sub_slot_iters, Record[peak].point)
    /\ post' = Idle
    /\ clearing' = (clearing \/ Record[peak].height % ClearEvery = 0)
    /\ UNCHANGED <<chainVars, future_eos, future_ip, held>>

\* clear_old_cache_entries; the keys of K are older than an hour.
ClearOld(K) ==
    /\ clearing
    /\ clearing' = FALSE
    /\ key_times' = key_times \ K
    /\ future_sp' = {sp \in future_sp : sp.rc \notin K}
    /\ future_eos' = {e \in future_eos : Bundle[e].rc \notin K}
    /\ future_ip' = {b \in future_ip : Record[b].rc \notin K}
    /\ UNCHANGED <<chainVars, slots, post, held>>

-----------------------------------------------------------------------------
\* respond_signage_point.  Past the first blocks it waits for the peak's slots
\* between reading next_sub_slot_iters and calling the store.
respond_signage_point(sp) ==
    /\ LockFree
    /\ ~ have_newer_signage_point(slots, sp)
    /\ sp \notin StoredSps(slots)
    /\ IF peak # NoBlock /\ Record[peak].height > MAX_SUB_SLOT_BLOCKS
       THEN /\ held' = [kind |-> "sp", sp |-> sp, next_ssi |-> Record[peak].next_ssi]
            /\ UNCHANGED <<slots, future_sp, key_times>>
       ELSE /\ AddSp(peak, SUB_SLOT_ITERS_STARTING, sp)
            /\ UNCHANGED held
    /\ UNCHANGED <<chainVars, future_eos, future_ip, post, clearing>>

EndSp ==
    /\ held.kind = "sp"
    /\ AddSp(peak, held.next_ssi, held.sp)
    /\ held' = Free
    /\ UNCHANGED <<chainVars, future_eos, future_ip, post, clearing>>

\* new_finished_sub_slot, with what it changes; then the infusion points that
\* depended on the sub-slot.
AddEos(pk, e) ==
    LET verdict == EosVerdict(slots, pk, e)
    IN  /\ slots' = IF verdict = "added" THEN WithEos(slots, pk, e) ELSE slots
        /\ IF verdict = "later"
           THEN future_eos' = future_eos \cup {e} /\ key_times' = key_times \cup {Bundle[e].rc}
           ELSE UNCHANGED <<future_eos, key_times>>
        /\ held' = IF verdict = "added" /\ (\E b \in future_ip : Record[b].rc = e)
                   THEN [kind |-> "ips", ips |-> {b \in future_ip : Record[b].rc = e}]
                   ELSE Free

\* respond_end_of_sub_slot.  get_full_peak, called after the peak is read, waits
\* when the block is not in the cache.
respond_end_of_sub_slot(e) ==
    /\ LockFree
    /\ ~ HasSlot(slots, Bundle[e].cc)
    /\ Bundle[e].prev_cc = Bundle[Genesis].cc \/ HasSlot(slots, Bundle[e].prev_cc)
    /\ IF peak = NoBlock \/ cached
       THEN AddEos(peak, e)
       ELSE /\ held' = [kind |-> "eos", eos |-> e, pk |-> peak]
            /\ UNCHANGED <<slots, future_eos, key_times>>
    /\ UNCHANGED <<chainVars, future_sp, future_ip, post, clearing>>

EndEos ==
    /\ held.kind = "eos"
    /\ AddEos(held.pk, held.eos)
    /\ cached' = TRUE
    /\ UNCHANGED <<known, peak, infusing, future_sp, future_ip, post, clearing>>

-----------------------------------------------------------------------------
\* The block that an infusion point follows, by way of the stored slots.
TargetRc(rc) ==
    FoldRight(LAMBDA entry, t : IF entry.eos # Genesis /\ entry.eos = t THEN Bundle[t].rc ELSE t,
              slots, rc)

\* get_finished_sub_slots finds the slots from cc on to last_cc.
FindsSlots(cc, last_cc) ==
    \/ cc = last_cc
    \/ \E m, n \in 2 .. Len(slots) :
          /\ m <= n
          /\ Bundle[slots[m].eos].prev_cc = cc
          /\ Bundle[slots[n].eos].cc = last_cc

\* new_infusion_point_vdf: a block is made of b's infusion point, the infusion
\* point is kept for later, or it is dropped.
new_infusion_point_vdf(b) ==
    LET target == TargetRc(Record[b].rc)
        cc == IF target = Genesis THEN Bundle[Genesis].cc ELSE Bundle[Record[target].ip].cc
    IN  IF target # Genesis /\ target \notin ChainOf(peak)
        THEN future_ip' = future_ip \cup {b} /\ UNCHANGED infusing
        ELSE /\ infusing' = IF /\ FindsSlots(cc, Bundle[Record[b].ip].cc)
                              /\ (Record[b].sp = Genesis \/ HasSlot(slots, Bundle[Record[b].sp].cc))
                              /\ b \notin known
                           THEN {b} ELSE {}
             /\ UNCHANGED future_ip

TimelordIp(b) ==
    /\ LockFree
    /\ new_infusion_point_vdf(b)
    /\ UNCHANGED <<known, peak, cached, slots, future_sp, future_eos, key_times, post, clearing, held>>

EndIps(b) ==
    /\ held.kind = "ips" /\ infusing = {}
    /\ b \in held.ips
    /\ new_infusion_point_vdf(b)
    /\ held' = IF held.ips = {b} THEN Free ELSE [held EXCEPT !.ips = @ \ {b}]
    /\ UNCHANGED <<known, peak, cached, slots, future_sp, future_eos, key_times, post, clearing>>

\* Blocks that are served to peers push the peak out of the block cache.
Evict ==
    /\ cached /\ peak # NoBlock
    /\ cached' = FALSE
    /\ UNCHANGED <<known, peak, infusing, slots, future, post, clearing, held>>

-----------------------------------------------------------------------------
Peaks ==
    \/ \E b \in Block : respond_block(b)
    \/ new_peak
    \/ AddBlockSp
    \/ \E K \in SUBSET key_times : ClearOld(K)

SignagePoints == EndSp \/ \E sp \in SentSp : respond_signage_point(sp)
EndsOfSlots == \E e \in Eos : respond_end_of_sub_slot(e)
InfusionPoints == \E b \in Ip : TimelordIp(b) \/ EndIps(b)
Next == Peaks \/ SignagePoints \/ EndsOfSlots \/ InfusionPoints

Spec == Init /\ [][Next]_vars

\* Batches of blocks, and peaks that are no longer in the block cache.
Races == Evict \/ EndEos \/ \E a, b \in Block : short_sync_batch(a, b)

-----------------------------------------------------------------------------
TypeOK ==
    /\ known \subseteq Block /\ infusing \subseteq Block /\ future_ip \subseteq Ip
    /\ peak \in known \cup {NoBlock}
    /\ cached \in BOOLEAN /\ clearing \in BOOLEAN
    /\ slots \in Seq(Entry) /\ slots # <<>>
    /\ future_sp \subseteq Sp /\ future_eos \subseteq Eos
    /\ key_times \subseteq Block \cup Slot
    /\ post.step \in {"idle", "slots", "point"} /\ post.fork \in known \cup {NoBlock}
    /\ held.kind \in {"free", "sp", "eos", "ips"}

\* The last infusion before iteration t of the chain of pk, if sp's slot begins
\* at `start`: a block infused in the slot, or the slot itself.
TrueRc(pk, s, start, t) ==
    LET inside == {b \in ChainOf(pk) : Record[b].total_iters > start /\ Record[b].total_iters <= t}
    IN  IF inside = {} THEN s
        ELSE CHOOSE b \in inside : \A c \in inside : Record[c].total_iters <= Record[b].total_iters

\* Once new_peak has run, every stored signage point follows the last infusion
\* before it on the peak's own chain: none is left of an abandoned branch, and
\* none that a block of the chain has outdated.
SpsOnChain ==
    post.step # "slots" =>
        \A n \in DOMAIN slots : \A i \in Index :
            LET sp == slots[n].sps[i]
            IN  sp # NoSp =>
                sp.rc = TrueRc(peak, slots[n].eos, slots[n].iters, slots[n].iters + Delta(sp.ssi, i))

\* The stored slots are the peak's slot and what follows it: each continues the
\* one before, and the first slot after the peak follows the peak.
SlotsOnChain ==
    post.step # "slots" /\ peak # NoBlock =>
        /\ \E n \in DOMAIN slots : slots[n].eos = Record[peak].ip
        /\ \A n \in 2 .. Len(slots) :
              /\ Bundle[slots[n].eos].prev_cc = Bundle[slots[n - 1].eos].cc
              /\ slots[n].iters = slots[n - 1].iters + Bundle[slots[n].eos].ssi
              /\ Bundle[slots[n].eos].rc = TrueRc(peak, slots[n - 1].eos, slots[n - 1].iters, slots[n].iters)

\* What was cached under the infusion of the new peak is used by new_peak: a
\* signage point of a slot that the store now has, and an end of the peak's slot.
CachedIsUsed ==
    [][new_peak =>
        /\ \A sp \in future_sp :
              sp.rc = peak /\ (\E n \in DOMAIN slots' : Bundle[slots'[n].eos].cc = sp.cc)
              => sp \in StoredSps(slots')
        /\ \A e \in future_eos :
              Bundle[e].rc = peak => \E n \in DOMAIN slots' : slots'[n].eos = e]_vars

\* new_infusion_point_vdf makes a block of an infusion point only when the parent
\* of the block is in the blockchain, also when a slot lies between the two.
InfusedHasParent == \A b \in infusing : Record[b].height = 0 \/ Record[b].prev \in known

\* Every signage point and end of sub-slot that new_signage_point and
\* new_finished_sub_slot put aside can expire in clear_old_cache_entries.
PutAsideExpires ==
    {sp.rc : sp \in future_sp} \cup {Bundle[e].rc : e \in future_eos} \subseteq key_times
=============================================================================
