----------------------------- MODULE HeaderChain -----------------------------
(***************************************************************************)
(* The rules of headers: where blocks lie in the sub-slots, what is        *)
(* derived of it (challenges, starting points of the VDFs, deficits,       *)
(* transaction blocks, sub-epoch summaries, difficulty), and the           *)
(* validation of unfinished and of finished headers.  A chain grows by     *)
(* blocks that are described by where they lie, in absolute iterations;    *)
(* the code only sees what a header says and the records of the chain.     *)
(***************************************************************************)
EXTENDS Integers, Sequences, SequencesExt, FiniteSets, FiniteSetsExt

CONSTANTS
    NumSps, SpExtra,     \* NUM_SPS_SUB_SLOT, NUM_SP_INTERVALS_EXTRA
    MinBlocks,           \* MIN_BLOCKS_PER_CHALLENGE_BLOCK
    MaxBlocks,           \* MAX_SUB_SLOT_BLOCKS
    SubEpoch, Epoch,     \* SUB_EPOCH_BLOCKS, EPOCH_BLOCKS
    StartIters, TimeTarget, BlocksTarget, MaxFactor, SigBits, \* of the adjustment of the difficulty
    MaxHeight,           \* bound on the chain
    Usual,               \* the block that is made unless
    OddHeights, Odd      \* at these heights, one of these is

VARIABLE recs            \* the block records, that of height h at h + 1

-----------------------------------------------------------------------------
\* pot_iterations.py
is_overflow_block(sp) == sp >= NumSps - SpExtra
calculate_sp_interval_iters(ssi) == ssi \div NumSps
calculate_sp_iters(ssi, sp) == calculate_sp_interval_iters(ssi) * sp
calculate_ip_iters(ssi, sp, req) ==
    (calculate_sp_iters(ssi, sp) + SpExtra * calculate_sp_interval_iters(ssi) + req) % ssi

\* block_record.py
ip_iters(b) == calculate_ip_iters(b.ssi, b.sp, b.req)
sp_total_iters(b) ==
    b.total - ip_iters(b) - (IF b.overflow THEN b.ssi ELSE 0) + calculate_sp_iters(b.ssi, b.sp)
is_challenge_block(b) == b.deficit = MinBlocks - 1
first_in_sub_slot(b) == b.ends # <<>>

FirstInSlot(c) == Max({i \in DOMAIN c : first_in_sub_slot(c[i])})
LastTx(c) == Max({i \in DOMAIN c : c[i].tx})

calculate_deficit(prev, overflow, n) ==
    CASE prev.deficit = MinBlocks -> IF overflow /\ n = 0 THEN MinBlocks ELSE MinBlocks - 1
      [] prev.deficit = 0 ->
           IF n = 0 THEN 0 ELSE IF n = 1 /\ overflow THEN MinBlocks ELSE MinBlocks - 1
      [] OTHER -> prev.deficit - 1

-----------------------------------------------------------------------------
\* difficulty_adjustment.py, for the block after the last of c
height_can_be_first_in_epoch(h) == (h - (h % SubEpoch)) % Epoch = 0

can_finish_sub_and_full_epoch(c) ==
    LET h  == Len(c) - 1
        se == /\ h >= SubEpoch - 1 /\ c[h + 1].deficit = 0 /\ ~c[h + 1].ses
              /\ (h + 1) % SubEpoch > 1 => \A k \in ((h - 1) - ((h - 1) % SubEpoch))..(h - 1) : ~c[k + 1].ses
    IN  [se |-> se, epoch |-> se /\ height_can_be_first_in_epoch(h + 1)]

\* _get_second_to_last_transaction_block_in_previous_epoch, by its index; 0 is an exception.
PrevSurpass(c) == LET h == Len(c) - 1 + 2 * MaxBlocks + MinBlocks + 5 IN h - (h % Epoch) - Epoch
Fetched(c) == 2 * MaxBlocks + MinBlocks + 1
second_to_last(c) ==
    LET s     == PrevSurpass(c)
        nexts == {i \in (s + 1)..Min({s + Fetched(c) + 1, Len(c)}) : c[i].ses}
        txs   == {i \in 1..(Min(nexts) - 1) : c[i].tx}
    IN  CASE s = 0 -> 1 [] s > 0 /\ nexts = {} -> 0 [] OTHER -> Max(txs \ {Max(txs)})

\* A mutant: the epoch is measured to its last transaction block.
MeasuresToLast(c) == Max({i \in 1..(Len(c) - 1) : c[i].tx})

\* The last transaction block before the signage point of the last block.
last_block_curr(c) == Max({i \in 1..(Len(c) - 1) : c[i].tx /\ c[i].total <= sp_total_iters(Last(c))})

truncate_to_significant_bits(x) ==
    LET k == Min({i \in 0..20 : x \div 2^i < 2^SigBits}) IN x - (x % 2^k)

\* Only a change by a factor, and only the leading bits.
Clamp(new, old, least) == 
    truncate_to_significant_bits(IF new >= old THEN Min({new, MaxFactor * old}) ELSE Max({least, new, old \div MaxFactor}))

_get_next_sub_slot_iters(c) ==
    LET a   == c[second_to_last(Front(c))]
        b   == c[last_block_curr(c)]
        new == Clamp((TimeTarget * (b.total - a.total)) \div (b.time - a.time), b.ssi, NumSps)
    IN  IF Len(c) < Epoch \/ ~can_finish_sub_and_full_epoch(c).epoch THEN Last(c).ssi ELSE new - (new % NumSps)

Difficulty(c) == IF Len(c) = 1 THEN c[1].weight ELSE c[Len(c)].weight - c[Len(c) - 1].weight

_get_next_difficulty(c) ==
    LET a == c[second_to_last(Front(c))]
        b == c[last_block_curr(c)]
    IN  IF Len(c) < Epoch - 3 * MaxBlocks THEN c[1].weight
        ELSE IF ~can_finish_sub_and_full_epoch(c).epoch THEN Difficulty(c)
        ELSE Clamp(((b.weight - a.weight) * TimeTarget) \div (BlocksTarget * (b.time - a.time)), Difficulty(Front(c)), 1)

get_next_sub_slot_iters_and_difficulty(c, newSlot) ==
    IF Last(c).ses \/ ~newSlot THEN [ssi |-> Last(c).ssi, diff |-> Difficulty(c)]
    ELSE [ssi |-> _get_next_sub_slot_iters(c), diff |-> _get_next_difficulty(c)]

\* next_sub_epoch_summary of the last block, as the timelord gets it: new values only with an epoch.
next_sub_epoch_summary(c) ==
    LET can == can_finish_sub_and_full_epoch(c)
    IN  [ses  |-> Len(c) > 2 /\ can.se,
         ssi  |-> IF Len(c) > 2 /\ can.epoch THEN _get_next_sub_slot_iters(c) ELSE 0,
         diff |-> IF Len(c) > 2 /\ can.epoch THEN _get_next_difficulty(c) ELSE 0]

-----------------------------------------------------------------------------
\* get_block_challenge: sub-slots are named by their number, the challenge of the next is theirs + 1.
EndsBack(c) == FlattenSeq([k \in DOMAIN c |-> Reverse(c[Len(c) + 1 - k].ends)])

get_block_challenge(c, h, overflow, skip) ==
    IF h.slots # <<>> THEN Last(h.slots).chal + (IF overflow /\ ~skip THEN 0 ELSE 1)
    ELSE LET k == IF overflow /\ ~skip THEN 2 ELSE 1
         IN  IF k > Len(EndsBack(c)) THEN -1 ELSE EndsBack(c)[k]

\* A mutant: an overflow block of any earlier sub-slot counts.
AnyOverflow(c, h, ssi) ==
    h.slots = <<>> /\ \E i \in ((FirstInSlot(c) + 1)..Len(c)) \cup {Len(c)} : c[i].overflow

\* final_eos_is_already_included: another overflow block of the same sub-slot is in the chain.
final_eos_is_already_included(c, h, ssi) ==
    /\ h.slots = <<>>
    /\ \E i \in ((FirstInSlot(c) + 1)..Len(c)) \cup {Len(c)} : c[i].overflow /\ h.total - c[i].total < ssi \div 2

\* get_signage_point_vdf_info: where the VDF of the signage point starts, and its iterations.
SlotEnd(k) == <<"slot", k>>
Infusion(i) == <<"block", i>>
NoVdf == [cc |-> -1, rc |-> SlotEnd(-1), iters |-> 0]
FromBlock(c, h, i, spTotal, cc) == [cc |-> cc, rc |-> Infusion(i), iters |-> spTotal - c[i].total]
FromSlot(k, spIters) == [cc |-> k, rc |-> SlotEnd(k), iters |-> spIters]

InPrevSlot(c, h, spTotal, spIters) ==
    LET f  == FirstInSlot(c)
        at == Max({f} \cup {i \in f..Len(c) : c[i].total <= spTotal})
    IN  IF c[at].total < spTotal THEN FromBlock(c, h, at, spTotal, Last(c[f].ends)) ELSE FromSlot(Last(c[f].ends), spIters)

InSlotBefore(c, h, spTotal, spIters) ==
    LET k   == EndsBack(c)[2]
        g   == Max({i \in DOMAIN c : k \in Range(c[i].ends)})
        pre == {i \in g..Len(c) : c[i].total < spTotal}
    IN  IF pre # {} THEN FromBlock(c, h, Max(pre), spTotal, k) ELSE FromSlot(k, spIters)

get_signage_point_vdf_info(c, h, n, overflow, spTotal, spIters) ==
    CASE n > 0 /\ ~overflow -> FromSlot(Last(h.slots).chal + 1, spIters)
      [] n > 1 /\ overflow  -> FromSlot(h.slots[n - 1].chal + 1, spIters)
      [] n = 1 /\ overflow  -> InPrevSlot(c, h, spTotal, spIters)
      [] n = 0 /\ overflow  -> InSlotBefore(c, h, spTotal, spIters)
      [] n = 0 /\ ~overflow -> InPrevSlot(c, h, spTotal, spIters)

-----------------------------------------------------------------------------
\* validate_unfinished_header_block, 2a-2t: the sub-slots that ended since the last block.
IccExpected(prev, h, j) == prev.deficit < MinBlocks /\ (j > 1 => h.slots[j - 1].deficit < MinBlocks)

CheckSlotChallenge(c, h, j) ==
    h.slots[j].chal = IF j = 1 THEN Last(c[FirstInSlot(c)].ends) ELSE h.slots[j - 1].chal + 1

CheckSlotValues(h, j, exp, can) ==
    LET s == h.slots[j]
    IN  /\ j > 1 => ~s.ses
        /\ [ssi |-> s.ssi, diff |-> s.diff] = IF can.epoch /\ s.ses THEN exp ELSE [ssi |-> 0, diff |-> 0]

CheckSlotVdf(c, h, j, exp) ==
    /\ h.slots[j].start = IF j = 1 THEN Infusion(Len(c)) ELSE SlotEnd(h.slots[j - 1].chal + 1)
    /\ h.slots[j].iters = IF j = 1 THEN Last(c).ssi - ip_iters(Last(c)) ELSE exp.ssi

CheckSlotDeficit(c, h, j) == h.slots[j].deficit = IF Last(c).deficit = 0 THEN MinBlocks ELSE Last(c).deficit

CheckSlot(c, h, j, exp, can) ==
    /\ CheckSlotChallenge(c, h, j) /\ h.slots[j].icc = IccExpected(Last(c), h, j)
    /\ CheckSlotValues(h, j, exp, can) /\ CheckSlotVdf(c, h, j, exp) /\ CheckSlotDeficit(c, h, j)

\* 3a-3d: a sub-epoch summary, if and only if one can be.
CheckSummary(h, can) == (\E j \in DOMAIN h.slots : h.slots[j].ses) <=> can.se

\* 4: the blocks of the sub-slot.
CheckCount(c, n) == n = 0 => Len(c) - FirstInSlot(c) + 2 <= MaxBlocks

\* 10: the iterations to the infusion point.
TotalIters(c, n, ssi, ip) ==
    LET prev == Last(c)
    IN  ip + prev.total - ip_iters(prev) + (IF n > 0 THEN prev.ssi + ssi * (n - 1) ELSE 0)

\* 15: the first block whose signage point is after the last transaction block is the next one.
CheckTx(c, h, spTotal) == h.tx <=> spTotal > c[LastTx(c)].total

\* 5b, 12, 14, 16-20: the proof of space and the signatures are of what the block says.
CheckSigned(h) == h.signed

\* 22-26: back pointers and times of transaction blocks.
CheckFoliage(c, h) == h.tx => h.prevTx = LastTx(c) /\ h.time > c[LastTx(c)].time

\* 5a: the challenge of the proof of space.
CheckChallenge(c, h, skip) == h.chal = get_block_challenge(c, h, is_overflow_block(h.sp), skip)

\* 6-9: the required iterations, and no overflow into the first sub-slot of an epoch.
CheckRequired(h, ssi, n, can) ==
    /\ h.req < calculate_sp_interval_iters(ssi)
    /\ is_overflow_block(h.sp) /\ can.epoch => n >= 2

\* 8, 11, 13: the VDF of the signage point; there is none at the start of a sub-slot.
CheckSp(c, h, n, spTotal, ssi) ==
    h.spv = IF h.sp = 0 THEN NoVdf
            ELSE get_signage_point_vdf_info(c, h, n, is_overflow_block(h.sp), spTotal, calculate_sp_iters(ssi, h.sp))

\* The checks, given the expected iterations and difficulty.  An unfinished block lacks the
\* sub-slot that ends before an overflow block is infused.
HeaderOk(c, h, skipLast, exp) ==
    LET overflow == is_overflow_block(h.sp)
        skip  == skipLast /\ overflow /\ ~final_eos_is_already_included(c, h, exp.ssi)
        n     == Len(h.slots) + (IF skip THEN 1 ELSE 0)
        can   == IF n > 0 THEN can_finish_sub_and_full_epoch(c) ELSE [se |-> FALSE, epoch |-> FALSE]
        ip    == calculate_ip_iters(exp.ssi, h.sp, h.req)
        spTotal == h.total - ip + calculate_sp_iters(exp.ssi, h.sp) - (IF overflow THEN exp.ssi ELSE 0)
    IN  /\ n > 0 /\ ~skip => CheckSummary(h, can) /\ \A j \in DOMAIN h.slots : CheckSlot(c, h, j, exp, can)
        /\ CheckCount(c, n) /\ CheckChallenge(c, h, skip) /\ CheckRequired(h, exp.ssi, n, can)
        /\ h.total = TotalIters(c, n, exp.ssi, ip)
        /\ CheckSp(c, h, n, spTotal, exp.ssi)
        /\ CheckTx(c, h, spTotal) /\ CheckSigned(h) /\ CheckFoliage(c, h)

validate_unfinished_header_block(c, h, skipLast) ==
    HeaderOk(c, h, skipLast, get_next_sub_slot_iters_and_difficulty(c, h.slots # <<>>))

\* 27-33 of validate_finished_header_block: height, weight and the VDFs to the infusion point.
CheckIp(c, h, ip) ==
    IF h.slots # <<>>
    THEN h.ipv = [cc |-> Last(h.slots).chal + 1, rc |-> SlotEnd(Last(h.slots).chal + 1), iters |-> ip]
    ELSE h.ipv = [cc |-> Last(c[FirstInSlot(c)].ends), rc |-> Infusion(Len(c)), iters |-> h.total - Last(c).total]

CheckIcc(c, h) ==
    h.iccIp <=> calculate_deficit(Last(c), is_overflow_block(h.sp), Len(h.slots)) < MinBlocks - 1

FinishedOk(c, h, exp) ==
    /\ h.height = Len(c) /\ h.weight = Last(c).weight + exp.diff
    /\ CheckIp(c, h, calculate_ip_iters(exp.ssi, h.sp, h.req)) /\ CheckIcc(c, h)

validate_finished_header_block(c, h) ==
    /\ validate_unfinished_header_block(c, h, FALSE)
    /\ FinishedOk(c, h, get_next_sub_slot_iters_and_difficulty(c, h.slots # <<>>))

\* block_to_block_record
block_to_block_record(c, h) ==
    LET prev == Last(c)
        overflow == is_overflow_block(h.sp)
    IN  [weight |-> h.weight, total |-> h.total, sp |-> h.sp, req |-> h.req,
         ssi |-> get_next_sub_slot_iters_and_difficulty(c, h.slots # <<>>).ssi, overflow |-> overflow,
         deficit |-> calculate_deficit(prev, overflow, Len(h.slots)), tx |-> h.tx, time |-> h.time,
         ends |-> [j \in DOMAIN h.slots |-> h.slots[j].chal + 1], ses |-> \E j \in DOMAIN h.slots : h.slots[j].ses]

-----------------------------------------------------------------------------
\* Where blocks lie, in absolute iterations: the sub-slot of the last block and its start; the
\* iterations of the sub-slots that end after it, by the summary sum the timelord has.
SlotOf(c) == Cardinality(UNION {Range(c[i].ends) : i \in DOMAIN c}) - 1
SlotStart(c) == Last(c).total - ip_iters(Last(c))
ItersAfter(c, n, sum) == IF n > 0 /\ sum.ssi # 0 THEN sum.ssi ELSE Last(c).ssi

Lie(c, o, sum) ==
    LET ssi   == ItersAfter(c, o.n, sum)
        over  == is_overflow_block(o.sp)
        start == IF o.n = 0 THEN SlotStart(c) ELSE SlotStart(c) + Last(c).ssi + (o.n - 1) * ssi
        spAt  == IF ~over THEN start ELSE IF o.n = 1 THEN SlotStart(c) ELSE start - ssi
        slot  == SlotOf(c) + o.n
    IN  [ssi |-> ssi, slot |-> slot, start |-> start, total |-> start + calculate_ip_iters(ssi, o.sp, o.req),
         spSlot |-> IF over THEN slot - 1 ELSE slot, spStart |-> spAt,
         spTotal |-> spAt + calculate_sp_iters(ssi, o.sp)]

\* What farmers and timelords make: there is the signage point, the block is infused after the
\* last one, and the sub-slot is not full.
Possible(c, o, sum) ==
    LET at == Lie(c, o, sum)
    IN  /\ at.spSlot >= 0 /\ at.total > Last(c).total /\ o.req < calculate_sp_interval_iters(at.ssi)
        /\ o.n = 0 => Len(c) - FirstInSlot(c) + 2 <= MaxBlocks
        /\ is_overflow_block(o.sp) /\ o.n = 1 => sum.ssi = 0

\* The VDF to a point starts at the last infusion in the sub-slot, or where that starts.
VdfTo(c, slot, start, point) ==
    LET before == {i \in DOMAIN c : SlotOf(SubSeq(c, 1, i)) = slot /\ c[i].total <= point}
    IN  IF before = {} THEN [cc |-> slot, rc |-> SlotEnd(slot), iters |-> point - start]
        ELSE [cc |-> slot, rc |-> Infusion(Max(before)), iters |-> point - c[Max(before)].total]

SlotMade(c, o, j, sum) ==
    LET prev == Last(c)
    IN  [chal |-> SlotOf(c) + j - 1, icc |-> prev.deficit < MinBlocks /\ (j > 1 => prev.deficit > 0),
         ses |-> j = 1 /\ sum.ses, ssi |-> IF j = 1 THEN sum.ssi ELSE 0, diff |-> IF j = 1 THEN sum.diff ELSE 0,
         start |-> IF j = 1 THEN Infusion(Len(c)) ELSE SlotEnd(SlotOf(c) + j - 1),
         iters |-> IF j = 1 THEN prev.ssi - ip_iters(prev) ELSE ItersAfter(c, o.n, sum),
         deficit |-> IF prev.deficit = 0 THEN MinBlocks ELSE prev.deficit]

Honest(c, o, sum) ==
    LET at   == Lie(c, o, sum)
        diff == IF o.n > 0 /\ sum.diff # 0 THEN sum.diff ELSE Difficulty(c)
    IN  [slots |-> [j \in 1..o.n |-> SlotMade(c, o, j, sum)], sp |-> o.sp, req |-> o.req, chal |-> at.spSlot, total |-> at.total,
         spv |-> IF o.sp = 0 THEN NoVdf ELSE VdfTo(c, at.spSlot, at.spStart, at.spTotal),
         ipv |-> VdfTo(c, at.slot, at.start, at.total),
         iccIp |-> calculate_deficit(Last(c), is_overflow_block(o.sp), o.n) < MinBlocks - 1,
         tx |-> at.spTotal > c[LastTx(c)].total, prevTx |-> LastTx(c), time |-> Last(c).time + o.dt,
         height |-> Len(c), weight |-> Last(c).weight + diff, signed |-> TRUE]

\* The unfinished block of an overflow block lacks the sub-slot its infusion point is in.
Unfinished(h) == IF is_overflow_block(h.sp) /\ h.slots # <<>> THEN [h EXCEPT !.slots = Front(@)] ELSE h

\* Headers that differ in one thing from one that is right.
SlotVariants(s) ==
    {[s EXCEPT !.chal = @ + 1], [s EXCEPT !.icc = ~@], [s EXCEPT !.ses = ~@], [s EXCEPT !.ssi = @ + NumSps],
     [s EXCEPT !.diff = @ + 1], [s EXCEPT !.iters = @ + 1], [s EXCEPT !.deficit = (@ + 1) % (MinBlocks + 1)]}

Variants(h) ==
    {[h EXCEPT !.chal = @ + 1], [h EXCEPT !.chal = @ - 1], [h EXCEPT !.total = @ + 1], [h EXCEPT !.tx = ~@], [h EXCEPT !.signed = FALSE],
     [h EXCEPT !.spv.cc = @ - 1], [h EXCEPT !.spv.rc = Infusion(h.height + 1)], [h EXCEPT !.spv.iters = @ + 1]}
    \cup (IF h.tx THEN {[h EXCEPT !.prevTx = @ + 1], [h EXCEPT !.time = 0]} ELSE {})

WithSlot(h) ==
    {[h EXCEPT !.slots[j] = v] : <<j, v>> \in UNION {{j} \X SlotVariants(h.slots[j]) : j \in DOMAIN h.slots}}

FinishedVariants(h) ==
    WithSlot(h) \cup
    {[h EXCEPT !.height = @ + 1], [h EXCEPT !.weight = @ + 1], [h EXCEPT !.iccIp = ~@],
     [h EXCEPT !.ipv.cc = @ - 1], [h EXCEPT !.ipv.rc = SlotEnd(-1)], [h EXCEPT !.ipv.iters = @ + 1]}
    \cup (IF h.slots # <<>> THEN {[h EXCEPT !.slots = Front(@)]} ELSE {})

-----------------------------------------------------------------------------
GenesisRecord ==
    [weight |-> 1, total |-> calculate_ip_iters(StartIters, 0, 1), sp |-> 0, req |-> 1, ssi |-> StartIters, overflow |-> FALSE,
     deficit |-> MinBlocks - 1, tx |-> TRUE, time |-> 0, ends |-> <<0>>, ses |-> FALSE]

Init == recs = <<GenesisRecord>>

NextBlocks == IF Len(recs) \in OddHeights THEN Odd ELSE {Usual}

Extend ==
    /\ Len(recs) <= MaxHeight
    /\ \E o \in NextBlocks, sum \in {next_sub_epoch_summary(recs)} :
         Possible(recs, o, sum) /\ recs' = Append(recs, block_to_block_record(recs, Honest(recs, o, sum)))

Spec == Init /\ [][Extend]_recs

-----------------------------------------------------------------------------
\* Validation agrees with where blocks lie: every header that farmers and timelords make after
\* the chain is accepted, unfinished and finished, in whichever sub-slots the signage point and
\* the infusion point are, and none that differs from it in one thing is.
AcceptsExactly ==
    Len(recs) \in OddHeights =>
      \A o \in NextBlocks, sum \in {next_sub_epoch_summary(recs)} : Possible(recs, o, sum) =>
        \A h \in {Honest(recs, o, sum)} :
          /\ validate_finished_header_block(recs, h)
          /\ validate_unfinished_header_block(recs, Unfinished(h), TRUE)
          /\ \A v \in Variants(h) \cup FinishedVariants(h) : ~validate_finished_header_block(recs, v)
          /\ \A v \in Variants(Unfinished(h)) : ~validate_unfinished_header_block(recs, v, TRUE)

StartsEpoch(i) == recs[i].ses /\ height_can_be_first_in_epoch(i - 1)

\* Epochs are measured end to end: the transaction block up to which the last epoch was measured,
\* when it ended, is the one from which the next one is, by comments in _get_next_sub_slot_iters
\* the second to last of the epoch, and it is always found.
EpochsTile ==
    StartsEpoch(Len(recs)) =>
      LET ended  == Front(recs)
          txs    == {k \in DOMAIN ended : ended[k].tx}
          starts == {i \in DOMAIN ended : StartsEpoch(i)}
      IN  /\ second_to_last(Front(ended)) # 0
          /\ last_block_curr(ended) = Max(txs \ {Max(txs)})
          /\ starts # {} => second_to_last(Front(ended)) = last_block_curr(SubSeq(recs, 1, Max(starts) - 1))

\* Each sub-epoch has one summary, in a block that is not later than the comment on the fetched
\* blocks says: 2 * MAX_SUB_SLOT_BLOCKS + MIN_BLOCKS_PER_CHALLENGE_BLOCK - 3 after its first.
SummariesInTime ==
    LET q  == (Len(recs) - 1) \div SubEpoch
        of == {i \in (q * SubEpoch + 1)..Len(recs) : recs[i].ses}
    IN  /\ Cardinality(of) <= 1
        /\ q > 0 /\ of = {} => (Len(recs) - 1) % SubEpoch < 2 * MaxBlocks + MinBlocks - 3
=============================================================================
