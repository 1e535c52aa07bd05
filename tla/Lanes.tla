------------------------------- MODULE Lanes -------------------------------
(***************************************************************************)
(* The lane arithmetic of the MULT, ACC and AAQ slots (slots/mult.py,      *)
(* acc.py, aaq.py), the lane codecs they compute through                   *)
(* (numerics/codecs.py), the lane mask (geometry.py), the lane counts of   *)
(* stats.py and the sticky arithmetic flags (ipu_state.py).                *)
(*                                                                         *)
(* Each operation is a function from a machine to a machine, and two       *)
(* machines run it: `m' takes prototyping's shortcuts, `faithful' none.    *)
(*                                                                         *)
(* A lane is an integer, an infinity or NaN.  Rounding within the range of *)
(* the accumulator, signed zeros and NaN payloads are abstracted.          *)
(***************************************************************************)
EXTENDS Integers, FiniteSets, Sequences, FiniteSetsExt, SequencesExt

CONSTANTS
    L,           \* LANES; a multiple of 16
    Setups,      \* the formats, register contents and options runs start from
    Multiplies,  \* the MULT words issued
    AccOps,      \* the ACC words issued
    MaxAcc,      \* the accumulator holds -MaxAcc - 1..MaxAcc, or infinities beyond it
    MaxByte,     \* an INT8 element holds -MaxByte - 1..MaxByte
    MaxOps

VARIABLES
    setup,       \* the run's setup
    m,           \* the machine with prototyping
    faithful,    \* the machine without
    ideal,       \* the lanes an accumulator of unbounded width would hold
    moved,       \* the lanes RESHAPE wrote last
    ops

vars == << setup, m, faithful, ideal, moved, ops >>

Lane == 0..L - 1
RingLanes == 4 * L
RaLanes == 2 * L
Inf == 10000
NaN == Inf + 1
Finite(v) == v > -Inf /\ v < Inf
Clip(v, low, high) == Max({low, Min({v, high})})

-----------------------------------------------------------------------------
(* The codecs: arithmetic in the compute domain, and the stores that narrow it. *)

Plus(a, b) ==
    CASE NaN \in {a, b} \/ {a, b} = {Inf, -Inf} -> NaN
      [] NaN \notin {a, b} /\ Inf \in {a, b} /\ -Inf \notin {a, b} -> Inf
      [] NaN \notin {a, b} /\ -Inf \in {a, b} /\ Inf \notin {a, b} -> -Inf
      [] Finite(a) /\ Finite(b) -> a + b
Minus(a, b) == Plus(a, IF b = NaN THEN NaN ELSE -b)
Times(a, b) ==
    IF Finite(a) /\ Finite(b) THEN a * b
    ELSE IF NaN \in {a, b} \/ 0 \in {a, b} THEN NaN
    ELSE IF (a > 0) = (b > 0) THEN Inf ELSE -Inf
Greater(a, b) == NaN \notin {a, b} /\ a > b
Larger(a, b) == IF Greater(b, a) THEN b ELSE a

Wrap(v) == ((v + MaxAcc + 1) % (2 * MaxAcc + 2)) - MaxAcc - 1
TooLarge(v) == Finite(v) /\ (v > MaxAcc \/ v < -MaxAcc - 1)
Narrow(v) ==
    IF ~TooLarge(v) THEN v
    ELSE IF ~setup.float THEN Wrap(v)
    ELSE IF v > 0 THEN Inf ELSE -Inf

(* `values', a sequence, from lane `at' on. *)
Over(lanes, at, values) ==
    [i \in Lane |-> IF i - at + 1 \in DOMAIN values THEN values[i - at + 1] ELSE lanes[i]]

(* store_acc: an integer wraps; a float row with a finite lane too large is written one *)
(* lane at a time, which zeroes that lane and raises.                                   *)
Misfits(values) == {k \in DOMAIN values : setup.float /\ TooLarge(values[k])}
Stores(values) == Misfits(values) = {}
StoreAcc(lanes, values) ==
    IF Stores(values) THEN Over(lanes, 0, [k \in DOMAIN values |-> Narrow(values[k])])
    ELSE Over(lanes, 0, SubSeq(values, 1, Min(Misfits(values)) - 1) \o << 0 >>)

(* store_acc_events *)
Events(values) ==
    {e \in {"overflow", "nan"} :
        \E k \in DOMAIN values : IF e = "overflow" THEN TooLarge(values[k]) ELSE values[k] = NaN}

Row(f) == [k \in 1..L |-> f[k - 1]]
Raise(x) == [x EXCEPT !.raised = TRUE]

-----------------------------------------------------------------------------
(* MULT.  A word names its form, where its windows start, its scalar and its mask. *)

(* The scalar of MULT.RC.VE, from an LR's element of Ra or a CR, and of MULT.VE and EE. *)
Scalar(op) ==
    CASE op.scalar = "lr" -> setup.ra[op.index % RaLanes]
      [] op.scalar = "cr1" -> 1
      [] op.scalar = "cr" -> setup.cr

RingWindow(op) == [i \in Lane |-> setup.ring[((op.rc % RingLanes) + i) % RingLanes]]
RaRow(op) == [i \in Lane |-> setup.ra[op.row * L + i]]
RaWindow(op) == [i \in Lane |-> setup.ra[(op.index + i) % RaLanes]]

Product(op) ==
    [i \in Lane |->
        CASE op.form = "RC.VV" -> Times(RingWindow(op)[i], RaRow(op)[i])
          [] op.form = "RC.VE" -> Times(RingWindow(op)[i], Scalar(op))
          [] op.form = "RC.VS" -> Times(RingWindow(op)[i], RingWindow(op)[i])
          [] op.form = "VE" -> Times(RaWindow(op)[i], Scalar(op))
          [] op.form = "EE" -> Times(setup.ra[op.index % RaLanes], Scalar(op))]

(* partition_vector and inverse_partition_vector *)
Group(d) == IF d.partition = 0 THEN L ELSE L \div d.partition
PartitionVector(d) == {i \in Lane : d.partition = 0 \/ i % Group(d) # 0}
InversePartitionVector(d) == {i \in Lane : d.partition = 0 \/ i % Group(d) # Group(d) - 1}

(* (mutant: the shifts are done and then the group boundaries cleared once) *)
MaskOnce(slot, d, shift) ==
    IF shift < 0 THEN {i \in Lane : i - shift \in slot} \intersect InversePartitionVector(d)
    ELSE IF shift > 0 THEN {i \in Lane : i - shift \in slot} \intersect PartitionVector(d)
    ELSE slot

(* effective_mult_mask, of a shift already signed *)
EffectiveMultMask(slot, d, shift) ==
    LET left[k \in 0..3] == IF k = 0 THEN slot
                            ELSE {i \in PartitionVector(d) : i - 1 \in left[k - 1]}
        right[k \in 0..3] == IF k = 0 THEN slot
                             ELSE {i \in InversePartitionVector(d) : i + 1 \in right[k - 1]} IN
    IF shift < 0 THEN right[Min({3, -shift})] ELSE left[Min({3, shift})]

(* _active_lane_count *)
ActiveLanes(mask, d) ==
    IF d.valid = 0 THEN Cardinality(mask) ELSE Min({Cardinality(mask), d.valid, L})

Identity(op) == op.form \in {"RC.VE", "VE", "EE"} /\ op.scalar # "lr" /\ Scalar(op) = 1
Count(x, op, mask) ==
    LET lanes == ActiveLanes(mask, op.d) IN
    [x EXCEPT !.lane_ops = @ + lanes, !.identity_ops = IF Identity(op) THEN @ + lanes ELSE @]

(* _mult_pad_lane_bytes raises for an infinity no integer lane has. *)
Padded(x, op, mask) ==
    LET inactive == Lane \ mask
        pad == CASE op.d.pad = "zero" -> 0 [] op.d.pad = "pos" -> Inf [] op.d.pad = "neg" -> -Inf IN
    IF inactive = {} THEN x
    ELSE IF pad # 0 /\ ~setup.float THEN Raise(x)
    ELSE [x EXCEPT !.mult = [i \in Lane |-> IF i \in inactive THEN pad ELSE @[i]]]

(* The shortcut of a mask that deactivates nothing; else the mask pipeline. *)
MaskAndCount(x, op, prototyping) ==
    LET slot == setup.masks[op.slot]
        mask == EffectiveMultMask(slot, op.d, op.shift) IN
    IF prototyping /\ op.shift = 0 /\ slot = Lane THEN Count(x, op, Lane)
    ELSE Padded(Count(x, op, mask), op, mask)

Mult(x, op, prototyping) ==
    LET product == Row(Product(op))
        stored == [x EXCEPT !.mult = StoreAcc(@, product), !.raised = FALSE] IN
    IF Stores(product) THEN MaskAndCount(stored, op, prototyping) ELSE Raise(stored)

-----------------------------------------------------------------------------
(* ACC: what each op computes before its store, and the lane it stores from. *)

(* agg_lane_count *)
Active(d) == 1..Min({d.valid, L})
FoldSum(lanes) == FoldSeq(LAMBDA v, total : Plus(total, v), 0, lanes)
FoldMax(lanes, seed) == FoldSeq(LAMBDA v, best : IF Greater(v, best) THEN v ELSE best, seed, lanes)
AccMin == IF setup.float THEN -Inf ELSE -MaxAcc - 1

Lanewise == {"ADD", "ADD.FIRST", "SUB", "SUB.FIRST", "MAX", "MAX.FIRST"}
LaneOf(op, a, r) ==
    CASE op = "ADD" -> Plus(a, r)
      [] op = "SUB" -> Minus(a, r)
      [] op = "SUB.FIRST" -> Minus(0, r)
      [] op = "MAX" -> Larger(a, r)
      [] op \in {"ADD.FIRST", "MAX.FIRST"} -> r

Aggregates == {"AGG.SUM", "AGG.SUM.FIRST", "AGG.MAX", "AGG.MAX.FIRST"}
Aggregate(op, lanes, seed) ==
    CASE op = "AGG.SUM.FIRST" -> FoldSum(lanes)
      [] op = "AGG.SUM" -> Plus(FoldSum(lanes), seed)
      [] op = "AGG.MAX.FIRST" -> FoldMax(lanes, AccMin)
      [] op = "AGG.MAX" -> FoldMax(lanes, seed)

(* ACC.STRIDE, as _stride_indices builds it: by rows, then every other row. *)
RowLengths == {L \div 8, L \div 4, L \div 2}
Strides == {"off", "on", "on_inv"}
Inverted(s) == IF s = "on_inv" THEN 1 ELSE 0
AfterH(row, h) ==
    IF h = "off" THEN [k \in 1..L |-> k - 1]
    ELSE [k \in 1..L \div 2 |->
            LET half == row \div 2 IN ((k - 1) \div half) * row + Inverted(h) + 2 * ((k - 1) % half)]
StrideIndices(row, h, v) ==
    LET after == AfterH(row, h)
        length == IF h = "off" THEN row ELSE row \div 2
        kept == [r \in 1..(Len(after) \div length) \div 2 |->
                    LET start == (2 * (r - 1) + Inverted(v)) * length IN
                    SubSeq(after, start + 1, start + length)] IN
    IF v = "off" THEN after ELSE FlattenSeq(kept)

(* _stride_gather, cached *)
StrideGather == [c \in RowLengths \X Strides \X Strides |-> StrideIndices(c[1], c[2], c[3])]

(* One ACC word over accumulator lanes `acc': the values stored, from which lane. *)
Computed(x, op, acc) ==
    CASE op.name \in Lanewise ->
            [at |-> 0, values |-> [k \in 1..L |-> LaneOf(op.name, acc[k - 1], x.mult[k - 1])]]
      [] op.name \in Aggregates ->
            [at |-> op.dest, values |->
                << Aggregate(op.name, [k \in Active(op.d) |-> x.mult[k - 1]], acc[op.dest]) >>]
      [] op.name = "STRIDE" ->
            [at |-> (op.offset % 4) * (L \div 4), values |->
                LET from == StrideGather[<< op.row, op.h, op.v >>] IN
                [k \in DOMAIN from |-> x.mult[from[k]]]]
      [] op.name = "RESHAPE" -> [at |-> op.dest, values |-> << x.mult[op.source] >>]

(* STRIDE past the last lane raises before it writes; RESHAPE reports no event. *)
PastTheEnd(c) == c.at + Len(c.values) > L
Acc(x, op) ==
    LET c == Computed(x, op, x.acc) IN
    IF PastTheEnd(c) THEN Raise(x)
    ELSE [x EXCEPT
            !.acc = Over(@, c.at, [k \in DOMAIN c.values |-> Narrow(c.values[k])]),
            !.flags = IF op.name = "RESHAPE" THEN @ ELSE @ \union Events(c.values),
            !.raised = FALSE]

(* What the unbounded accumulator holds after it. *)
Unbounded(x, op, lanes) ==
    LET c == Computed(x, op, lanes) IN IF PastTheEnd(c) THEN lanes ELSE Over(lanes, c.at, c.values)

-----------------------------------------------------------------------------
(* ACTIVATE.QUANTIZE.  A POST_AAQ lane is a word, or four of the packed bytes. *)

Word(v) == << v >>
WordOf(lane) == lane[1]
ExpMax == 4         \* math.exp raises past it
Activations == {"identity", "relu", "relu6", "exp2"}
Fails(fn, v) == fn = "exp2" /\ Finite(v) /\ v > ExpMax
Activate(fn, v) ==
    CASE fn = "identity" -> v
      [] fn = "relu" -> IF Greater(v, 0) THEN v ELSE 0
      [] fn = "relu6" -> IF v = NaN THEN NaN ELSE Clip(v, 0, 6)
      [] fn = "exp2" -> CASE v \in {Inf, NaN} -> v [] v = -Inf -> 0
                          [] Finite(v) -> IF v < 0 THEN 0 ELSE 2 ^ Min({v, ExpMax + 1})

(* set_post_aaq_reg of `result', padded with zeros to the register *)
Packed(bytes) ==
    LET byte(k) == IF k \in DOMAIN bytes THEN bytes[k] ELSE 0 IN
    [i \in Lane |->
        LET quad == << byte(4 * i + 1), byte(4 * i + 2), byte(4 * i + 3), byte(4 * i + 4) >> IN
        IF i < L \div 4 /\ quad # << 0, 0, 0, 0 >> THEN quad ELSE Word(0)]
ToByte(v) == Clip(v, -MaxByte - 1, MaxByte)

(* The lanes before one that raises; int(round(y)) raises of what is not finite. *)
Before(values, Bad(_)) ==
    LET bad == {k \in DOMAIN values : Bad(values[k])} IN
    IF bad = {} THEN values ELSE SubSeq(values, 1, Min(bad) - 1)

(* post_buf's words of the activated lanes *)
StorePost(post, values) ==
    LET n == IF Stores(values) THEN Len(values) ELSE Min(Misfits(values)) IN
    [i \in Lane |-> IF i + 1 \in 1..n THEN Word(StoreAcc([j \in Lane |-> 0], values)[i]) ELSE post[i]]

(* _activate_wide: a failing lane leaves those before it stored, and raises. *)
ActivateWide(x, fn, lanes) ==
    LET ready == Before(lanes, LAMBDA v : Fails(fn, v))
        values == [k \in DOMAIN ready |->
            IF setup.float THEN Activate(fn, ready[k])
            ELSE Clip(Activate(fn, ready[k]), -MaxAcc - 1, MaxAcc)]
        done == Len(ready) = Len(lanes) /\ Stores(values)
        post == StorePost(x.post, values)
        words == [k \in DOMAIN lanes |-> WordOf(post[k - 1])] IN
    CASE ~done -> Raise([x EXCEPT !.post = post])
      [] done /\ ~setup.quantize -> [x EXCEPT !.post = post]
      [] done /\ setup.quantize ->
            IF \E k \in DOMAIN words : ~Finite(words[k]) THEN Raise([x EXCEPT !.post = post])
            ELSE [x EXCEPT !.post = Packed([k \in DOMAIN words |-> ToByte(words[k])])]

(* _execute_prototype_wide_fp32_activation: whole rows, unless a lane raises. *)
Batched(x, fn, lanes) ==
    LET values == [k \in DOMAIN lanes |-> Activate(fn, lanes[k])] IN
    IF Stores(values) THEN [x EXCEPT !.post = StorePost(@, values)]
    ELSE Raise([x EXCEPT !.post = StorePost(@, values)])
IsBatched(fn, d, lanes) ==
    /\ d.valid >= L /\ setup.float /\ ~setup.quantize /\ fn \in {"identity", "exp2"}
    /\ \A k \in DOMAIN lanes : ~Fails(fn, lanes[k])

ActivateQuantize(x, fn, d, prototyping) ==
    LET calm == [x EXCEPT !.raised = FALSE]
        lanes == [k \in Active(d) |-> x.acc[k - 1]]
        ready == Before(lanes, LAMBDA v : Fails(fn, v)) IN
    IF setup.wide
    THEN IF prototyping /\ IsBatched(fn, d, lanes) THEN Batched(calm, fn, lanes)
         ELSE ActivateWide(calm, fn, lanes)
    ELSE IF setup.float \/ Len(ready) # Len(lanes) THEN Raise(calm)
    ELSE [calm EXCEPT !.post = Packed([k \in DOMAIN lanes |-> ToByte(Activate(fn, lanes[k]))])]

-----------------------------------------------------------------------------
Fresh == [mult |-> [i \in Lane |-> 0], acc |-> [i \in Lane |-> 0], post |-> [i \in Lane |-> Word(0)],
          flags |-> {}, lane_ops |-> 0, identity_ops |-> 0, raised |-> FALSE]

Init ==
    /\ setup \in Setups
    /\ m = Fresh /\ faithful = Fresh
    /\ ideal = Fresh.acc /\ moved = {} /\ ops = 0

Written(op) ==
    LET c == Computed(m, op, m.acc) IN
    IF PastTheEnd(c) THEN {} ELSE {i \in Lane : i - c.at + 1 \in DOMAIN c.values}

Multiply(op) ==
    /\ m' = Mult(m, op, TRUE) /\ faithful' = Mult(faithful, op, FALSE)
    /\ UNCHANGED << ideal, moved >>
Accumulate(op) ==
    /\ m' = Acc(m, op) /\ faithful' = Acc(faithful, op)
    /\ ideal' = Unbounded(m, op, ideal)
    /\ moved' = IF op.name = "RESHAPE" THEN moved \union Written(op) ELSE moved \ Written(op)
Quantize(fn, d) ==
    /\ m' = ActivateQuantize(m, fn, d, TRUE) /\ faithful' = ActivateQuantize(faithful, fn, d, FALSE)
    /\ UNCHANGED << ideal, moved >>

Next ==
    /\ ops < MaxOps /\ ops' = ops + 1
    /\ UNCHANGED setup
    /\ \/ \E op \in Multiplies : Multiply(op)
       \/ \E op \in AccOps : Accumulate(op)
       \/ \E fn \in Activations, op \in Multiplies : Quantize(fn, op.d)

Spec == Init /\ [][Next]_vars

-----------------------------------------------------------------------------
(* "The state after every cycle is bit-identical to the faithful path" (prototyping.py): *)
(* the skipped mask and the batched activation leave what the whole pipeline leaves, in   *)
(* the registers, the counters and the lanes a raise cuts short.                          *)
ShortcutsChangeNothing == m = faithful

(* The sticky flags tell a run whose accumulator cannot be trusted: while ACC_OVERFLOW is *)
(* clear, R_ACC is what unbounded lanes would hold, however many words summed, folded or   *)
(* moved them; and a NaN only RESHAPE can put there has NAN_RESULT clear.                  *)
FlagsAreComplete ==
    /\ m.acc # ideal => "overflow" \in m.flags
    /\ (\E i \in Lane \ moved : m.acc[i] = NaN) => "nan" \in m.flags

(* A shifted mask stays in its partition groups: a lane is active exactly when the lane it *)
(* is shifted from is in the slot and in the same group.                                    *)
MasksStayInTheirGroups ==
    \A op \in Multiplies :
        LET by == Clip(op.shift, -3, 3)
            slot == setup.masks[op.slot] IN
        EffectiveMultMask(slot, op.d, op.shift) =
            {i \in Lane : i - by \in slot /\ (i - by) \div Group(op.d) = i \div Group(op.d)}

(* ACC.STRIDE lands the lanes of the kept columns of the kept rows, in lane order, from its *)
(* start, and leaves every other lane of R_ACC alone.                                        *)
Keeps(s, n) == s = "off" \/ n % 2 = Inverted(s)
StrideIsRowMajor ==
    \A op \in {o \in AccOps : o.name = "STRIDE"} :
        LET kept == {i \in Lane : Keeps(op.h, i % op.row) /\ Keeps(op.v, i \div op.row)}
            at == (op.offset % 4) * (L \div 4)
            rank == [i \in kept |-> at + Cardinality({j \in kept : j < i})]
            after == Acc(m, op) IN
        IF at + Cardinality(kept) > L THEN after = Raise(m)
        ELSE /\ \A i \in kept : after.acc[rank[i]] = Narrow(m.mult[i])
             /\ \A i \in Lane \ {rank[j] : j \in kept} : after.acc[i] = m.acc[i]
=============================================================================
