------------------------------ MODULE Packing ------------------------------
(***************************************************************************)
(* The harness's packing (ipu_harness/packing.py): a logical tensor laid   *)
(* out in the rows of its XMEM region and read back, by the transforms of  *)
(* the kernel families (kernels/*/pack.py, ipu_kernels/pack/layouts.py,    *)
(* ipu_kernels/softmax/pack.py), and the lane masks of the regions whose   *)
(* bytes a function makes (r_mask.py, convolutions/masks.py).              *)
(*                                                                         *)
(* A layout is [ok, rows, dims, of, at]: the shapes it takes, the rows it  *)
(* says it needs, the shape its elements are stored in, the element each   *)
(* place of it holds (<< >> for padding) and the place each is read from   *)
(* (<< >> for an element that is not stored and reads as 0).               *)
(***************************************************************************)
EXTENDS Integers, FiniteSets, Sequences, FiniteSetsExt, SequencesExt

CONSTANTS
    Tensors,   \* [pack, shape, plan, role]: a declared tensor, its case's plan, "input", "element" or "accumulator"
    Widths     \* the bytes of one element, by format

VARIABLES tensor, width, step, region, values
vars == << tensor, width, step, region, values >>

LANES == 128
AccumulatorBytes == 4
Places == Seq(Nat)

CeilDiv(a, b) == (a + b - 1) \div b
Size(dims) == FoldLeft(LAMBDA acc, n : acc * n, 1, dims)
(* numpy's reshape: the flat position of an index, and the index at a position. *)
Ravel(i, dims) == FoldLeft(LAMBDA acc, k : acc * dims[k] + i[k], 0, [k \in DOMAIN dims |-> k])
(* (mutant: the first dimension runs fastest) *)
UnravelFromTheFirst(n, dims) == [k \in DOMAIN dims |-> (n \div Size(SubSeq(dims, 1, k - 1))) % dims[k]]
Unravel(n, dims) == [k \in DOMAIN dims |-> (n \div Size(SubSeq(dims, k + 1, Len(dims)))) % dims[k]]
Inside(i, shape) == \A k \in DOMAIN shape : i[k] < shape[k]
If(here, i) == IF here THEN i ELSE << >>

-----------------------------------------------------------------------------
(* The transforms. *)

LastTo(shape, n) == [shape EXCEPT ![Len(shape)] = n]
RowMajor(shape) ==
    [ok |-> TRUE,
     rows |-> Size(LastTo(shape, 1)) * CeilDiv(Last(shape), LANES),
     dims |-> LastTo(shape, CeilDiv(Last(shape), LANES) * LANES),
     of |-> [d \in Places |-> If(Inside(d, shape), d)], at |-> [i \in Places |-> i]]
Padded(shape) == RowMajor(shape)          \* another value in the padding
PhaseRows(shape) == RowMajor(shape)
ProjectionOutput(shape) == [RowMajor(shape) EXCEPT !.ok = Last(shape) <= LANES]

Columns(halo) == LANES - 2 * halo
HaloTiled(s, halo, guard) ==
    LET tiles == CeilDiv(s[3], Columns(halo)) IN
    [ok |-> Len(s) = 3,
     rows |-> (s[1] + guard) * (s[2] + 2 * halo) * tiles,
     dims |-> << s[1] + guard, s[2] + 2 * halo, tiles, LANES >>,
     of |-> [d \in Places |->
                LET x == d[3] * Columns(halo) + d[4] - halo IN
                If(d[1] < s[1] /\ d[2] - halo \in 0..s[2] - 1 /\ x \in 0..s[3] - 1, << d[1], d[2] - halo, x >>)],
     at |-> [i \in Places |-> << i[1], i[2] + halo, i[3] \div Columns(halo), halo + (i[3] % Columns(halo)) >>]]
HaloTiledOutput(s, halo) ==
    LET tiles == CeilDiv(s[3], Columns(halo)) IN
    [ok |-> Len(s) = 3, rows |-> s[1] * s[2] * tiles, dims |-> << s[1], s[2], tiles, LANES >>,
     of |-> [d \in Places |->
                LET x == d[3] * Columns(halo) + d[4] IN If(d[4] < Columns(halo) /\ x < s[3], << d[1], d[2], x >>)],
     at |-> [i \in Places |-> << i[1], i[2], i[3] \div Columns(halo), i[3] % Columns(halo) >>]]

PoolHaloTiled(s, plan) == HaloTiled(s, plan.padding, 0)
PoolTiled(s, plan) == HaloTiledOutput(s, plan.padding)

GroupOf(s) == LANES \div (s[3] * s[4])
ConvWeightGroups(s) ==
    LET k2 == s[3] * s[4]
        groups == CeilDiv(s[2], GroupOf(s)) IN
    [ok |-> Len(s) = 4 /\ s[3] = s[4], rows |-> s[1] * groups, dims |-> << s[1], groups, LANES >>,
     of |-> [d \in Places |->
                LET c == d[2] * GroupOf(s) + (d[3] \div k2) IN
                If(d[3] < GroupOf(s) * k2 /\ c < s[2], << d[1], c, (d[3] % k2) \div s[4], d[3] % s[4] >>)],
     at |-> [i \in Places |-> << i[1], i[2] \div GroupOf(s), (i[2] % GroupOf(s)) * k2 + i[3] * s[4] + i[4] >>]]

Lane0Rows(s) ==
    [ok |-> Len(s) = 1, rows |-> s[1], dims |-> << s[1], LANES >>,
     of |-> [d \in Places |-> If(d[2] = 0, << d[1] >>)], at |-> [i \in Places |-> << i[1], 0 >>]]
RowInterleaved(s) ==
    [ok |-> Len(s) = 3, rows |-> s[2] * s[1] * CeilDiv(s[3], LANES), dims |-> << s[2], s[1], CeilDiv(s[3], LANES) * LANES >>,
     of |-> [d \in Places |-> If(d[3] < s[3], << d[2], d[1], d[3] >>)], at |-> [i \in Places |-> << i[2], i[1], i[3] >>]]

(* chunk_interleaved, and chunked's: the image padded to rows x cols, and a chunk of headroom before it. *)
PerChunk(cols) == LANES \div cols
ChunkInterleaved(s, rows, cols, headroom) ==
    LET chunks == CeilDiv(rows, PerChunk(cols)) IN
    [ok |-> Len(s) = 3 /\ LANES % cols = 0 /\ s[2] <= rows /\ s[3] <= cols,
     rows |-> headroom * s[1] + chunks * s[1], dims |-> << headroom + chunks, s[1], LANES >>,
     of |-> [d \in Places |->
                LET y == (d[1] - headroom) * PerChunk(cols) + (d[3] \div cols) IN
                If(d[1] >= headroom /\ y < s[2] /\ d[3] % cols < s[3], << d[2], y, d[3] % cols >>)],
     at |-> [i \in Places |-> << headroom + (i[2] \div PerChunk(cols)), i[1], (i[2] % PerChunk(cols)) * cols + i[3] >>]]

Chunked(s, plan, guard) == ChunkInterleaved(s, plan.rows, plan.cols, guard)

Seeded(plan) == plan.has_bias \/ plan.apply_relu
BlockChannels == 28
Fpb28Filters(s, plan) ==
    LET c == (s[2] - 1) \div 9
        offset == IF Seeded(plan) THEN 1 ELSE 0
        taps == 9 * BlockChannels IN
    [ok |-> Len(s) = 2 /\ s[2] >= 10 /\ (s[2] - 1) % 9 = 0,
     rows |-> s[1] * CeilDiv(c, BlockChannels) * 2, dims |-> << s[1], CeilDiv(c, BlockChannels), 2 * LANES >>,
     of |-> [d \in Places |->
                LET k == d[2] * taps + d[3] - offset IN
                IF d[3] < offset THEN If(plan.has_bias, << d[1], 9 * c >>)
                ELSE If(d[3] - offset < taps /\ k < 9 * c, << d[1], k >>)],
     at |-> [i \in Places |->
                IF i[2] = 9 * c THEN If(plan.has_bias, << i[1], 0, 0 >>)
                ELSE << i[1], i[2] \div taps, offset + (i[2] % taps) >>]]

Pass0Bias(s, plan) ==
    [ok |-> Len(s) = 1, rows |-> s[1] * plan.num_passes, dims |-> << s[1], plan.num_passes, LANES >>,
     of |-> [d \in Places |-> If(plan.has_bias /\ d[2] = 0 /\ d[3] = 0, << d[1] >>)],
     at |-> [i \in Places |-> << i[1], 0, 0 >>]]

(* Channel slots of the bias and nine taps, or of the taps alone. *)
FirstColumn(plan) == IF Seeded(plan) THEN 0 ELSE 1
Fpb(plan) == IF Seeded(plan) THEN 25 ELSE BlockChannels
DepthwiseFilters(s, plan) ==
    LET first == FirstColumn(plan)
        slot == 10 - first
        blocks == CeilDiv(s[1], Fpb(plan)) IN
    [ok |-> Len(s) = 2 /\ s[2] = 10 /\ plan.fpb = Fpb(plan), rows |-> blocks * 2, dims |-> << blocks, 2 * LANES >>,
     of |-> [d \in Places |->
                LET c == d[1] * Fpb(plan) + (d[2] \div slot)
                    k == first + (d[2] % slot) IN
                If(d[2] < Fpb(plan) * slot /\ c < s[1] /\ (k > 0 \/ plan.has_bias), << c, k >>)],
     at |-> [i \in Places |-> If(i[2] >= first, << i[1] \div Fpb(plan), (i[1] % Fpb(plan)) * slot + i[2] - first >>)]]

ChannelPairs(s) ==
    [ok |-> Len(s) = 3 /\ s[1] % 2 = 0 /\ 2 * s[2] * s[3] = LANES, rows |-> s[1] \div 2, dims |-> s,
     of |-> [d \in Places |-> d], at |-> [i \in Places |-> i]]
GateAndCount(s) ==
    LET count == s[1] - 1
        blocks == CeilDiv(count, LANES) IN
    [ok |-> Len(s) = 1, rows |-> blocks + 1, dims |-> << blocks + 1, LANES >>,
     of |-> [d \in Places |->
                IF d[1] = blocks THEN If(d[2] = 0, << count >>)
                ELSE If(d[1] * LANES + d[2] < count, << d[1] * LANES + d[2] >>)],
     at |-> [i \in Places |-> IF i[1] = count THEN << blocks, 0 >> ELSE << i[1] \div LANES, i[1] % LANES >>]]
WeightChunks(s) ==
    [ok |-> Len(s) = 2, rows |-> s[1] * CeilDiv(s[2], LANES), dims |-> << CeilDiv(s[2], LANES), s[1], LANES >>,
     of |-> [d \in Places |-> If(d[1] * LANES + d[3] < s[2], << d[2], d[1] * LANES + d[3] >>)],
     at |-> [i \in Places |-> << i[2] \div LANES, i[1], i[2] % LANES >>]]
TilePadded(s, plan) ==
    LET wide == CeilDiv(plan.w, LANES) * plan.upscale_factor * LANES IN
    [ok |-> TRUE, rows |-> (s[1] * wide) \div LANES, dims |-> << s[1], wide >>,
     of |-> [d \in Places |-> If(d[2] < s[2], d)], at |-> [i \in Places |-> i]]

Stripes(s) ==
    LET n == CeilDiv(s[2] * s[3], LANES)
        tall == s[2] \div n IN
    [ok |-> s[2] % n = 0 /\ tall * s[3] <= LANES, rows |-> n * s[1], dims |-> << n, s[1], LANES >>,
     of |-> [d \in Places |-> If(d[3] < tall * s[3], << d[2], d[1] * tall + (d[3] \div s[3]), d[3] % s[3] >>)],
     at |-> [i \in Places |-> << i[2] \div tall, i[1], (i[2] % tall) * s[3] + i[3] >>]]
Paired == << 0, 2, 1, 3, 4, 6, 5, 7 >>
PairedRows(s) ==
    [ok |-> s[2] = 8 /\ s[3] = 8, rows |-> s[1], dims |-> << s[1], 16, 8 >>,
     of |-> [d \in Places |-> If(d[2] < 8, << d[1], Paired[d[2] + 1], d[3] >>)],
     at |-> [i \in Places |-> << i[1], (CHOOSE k \in 1..8 : Paired[k] = i[2]) - 1, i[3] >>]]
Transposed(s) ==
    [ok |-> Len(s) = 2 /\ s[1] <= LANES, rows |-> s[2], dims |-> << s[2], LANES >>,
     of |-> [d \in Places |-> If(d[2] < s[1], << d[2], d[1] >>)], at |-> [i \in Places |-> << i[2], i[1] >>]]
ChannelTile(s, plan) ==
    [ok |-> Len(s) = 1 /\ LANES % plan.tokens = 0 /\ s[1] % (LANES \div plan.tokens) = 0,
     rows |-> (s[1] * plan.tokens) \div LANES, dims |-> << s[1], plan.tokens >>,
     of |-> [d \in Places |-> << d[1] >>], at |-> [i \in Places |-> << i[1], 0 >>]]
HwcHalo(s) ==
    [ok |-> TRUE, rows |-> ((s[1] + 2) * (s[2] + 2) * s[3]) \div LANES, dims |-> << s[1] + 2, s[2] + 2, s[3] >>,
     of |-> [d \in Places |-> If(d[1] \in 1..s[1] /\ d[2] \in 1..s[2], << d[1] - 1, d[2] - 1, d[3] >>)],
     at |-> [i \in Places |-> << i[1] + 1, i[2] + 1, i[3] >>]]
SlotSize(cols) == Min({n \in {16, 32, 64} : n >= cols} \union {LANES})
Slots(s) ==
    LET rows == CeilDiv(s[1] * SlotSize(s[2]), LANES) IN
    [ok |-> Len(s) = 2 /\ s[2] <= LANES, rows |-> rows, dims |-> << (rows * LANES) \div SlotSize(s[2]), SlotSize(s[2]) >>,
     of |-> [d \in Places |-> If(Inside(d, s), d)], at |-> [i \in Places |-> i]]
ChannelMajor(s) ==
    LET n == Len(s)
        lead == SubSeq(s, 1, n - 3)
        Swapped(d) == SubSeq(d, 1, n - 3) \o << d[n - 1], d[n - 2] >> \o << d[n] >> IN
    [ok |-> n >= 3 /\ Last(s) <= LANES, rows |-> Size(LastTo(s, 1)), dims |-> lead \o << s[n - 1], s[n - 2], LANES >>,
     of |-> [d \in Places |-> If(d[n] < Last(s), Swapped(d))], at |-> [i \in Places |-> Swapped(i)]]

(* transform_for: the transform a tensor's pack names. *)
Layout(t) ==
    LET s == t.shape
        p == t.plan IN
    CASE t.pack \in {"none", "output_major_weights"} -> RowMajor(s)
      [] t.pack \in {"padded", "padded_scores"} -> Padded(s)
      [] t.pack = "phase_rows" -> PhaseRows(s)
      [] t.pack = "projection_output" -> ProjectionOutput(s)
      [] t.pack = "tiled_guard" -> HaloTiled(s, 0, 1)
      [] t.pack = "halo_tiled_guard" -> HaloTiled(s, 1, 1)
      [] t.pack = "halo_tiled" -> HaloTiled(s, 1, 0)
      [] t.pack = "halo_tiled_output" -> HaloTiledOutput(s, 1)
      [] t.pack = "pooling.halo_tiled" -> PoolHaloTiled(s, p)
      [] t.pack = "pooling.tiled" -> PoolTiled(s, p)
      [] t.pack = "conv_weight_groups" -> ConvWeightGroups(s)
      [] t.pack = "lane0_rows" -> Lane0Rows(s)
      [] t.pack = "row_interleaved" -> RowInterleaved(s)
      [] t.pack = "chunk_interleaved" -> ChunkInterleaved(s, s[2], s[3], 0)
      [] t.pack = "chunked" -> Chunked(s, p, 0)
      [] t.pack = "chunked_guard" -> Chunked(s, p, 1)
      [] t.pack = "fpb28_filters" -> Fpb28Filters(s, p)
      [] t.pack = "pass0_bias" -> Pass0Bias(s, p)
      [] t.pack = "depthwise_filters" -> DepthwiseFilters(s, p)
      [] t.pack = "channel_pairs" -> ChannelPairs(s)
      [] t.pack = "gate_and_count" -> GateAndCount(s)
      [] t.pack = "weight_chunks" -> WeightChunks(s)
      [] t.pack = "tile_padded" -> TilePadded(s, p)
      [] t.pack = "stripes" -> Stripes(s)
      [] t.pack = "paired_rows" -> PairedRows(s)
      [] t.pack = "transposed" -> Transposed(s)
      [] t.pack = "channel_tile" -> ChannelTile(s, p)
      [] t.pack = "hwc_halo" -> HwcHalo(s)
      [] t.pack \in {"row_slots", "col_slots_negpad"} -> Slots(s)
      [] t.pack = "channel_major" -> ChannelMajor(s)

-----------------------------------------------------------------------------
(* pack, unpack and region_fill.  The elements of an array are numbered from 1; 0 is padding, and *)
(* -1 what a kernel leaves in the lanes past its results.                                          *)

Stored(t) == IF t.role = "accumulator" THEN AccumulatorBytes ELSE width
StoredRows(t) == (Layout(t).rows * Stored(t)) \div width
Element(t, i) == Ravel(i, t.shape) + 1
Indices(t) == {Unravel(n, t.shape) : n \in 0..Size(t.shape) - 1}
Held(t, n) == Layout(t).of[Unravel(n, Layout(t).dims)]
ReadAt(t, i) == Ravel(Layout(t).at[i], Layout(t).dims)
Laid(t, pad) == [n \in 0..Size(Layout(t).dims) - 1 |-> IF Held(t, n) = << >> THEN pad ELSE Element(t, Held(t, n))]

Refuse(what) == step' = what /\ UNCHANGED << tensor, width, region, values >>
Pack(shape) ==
    /\ step = "planned" /\ tensor.role = "input"
    /\ IF shape # tensor.shape \/ ~Layout(tensor).ok THEN Refuse("refused")
       ELSE IF Size(Layout(tensor).dims) # Layout(tensor).rows * LANES THEN Refuse("misfit")
       ELSE step' = "stored" /\ region' = Laid(tensor, 0) /\ UNCHANGED << tensor, width, values >>

(* A kernel writes its output's region: each result where the layout has it, and the lanes past    *)
(* the results too.                                                                                *)
Store ==
    /\ step = "planned" /\ tensor.role # "input" /\ Layout(tensor).ok
    /\ step' = "stored" /\ region' = Laid(tensor, -1) /\ UNCHANGED << tensor, width, values >>

Unpack ==
    /\ step = "stored"
    /\ IF Cardinality(DOMAIN region) * Stored(tensor) # StoredRows(tensor) * LANES * width THEN Refuse("misfit")
       ELSE /\ step' = "unpacked"
            /\ values' = {<< i, IF Layout(tensor).at[i] = << >> THEN 0 ELSE region[ReadAt(tensor, i)] >> : i \in Indices(tensor)}
            /\ UNCHANGED << tensor, width, region >>

Init ==
    /\ width \in Widths /\ tensor \in Tensors /\ step = "planned" /\ region = << >> /\ values = {}
Next ==
    \/ \E shape \in {tensor.shape, LastTo(tensor.shape, Last(tensor.shape) + 1)} : Pack(shape)
    \/ Store
    \/ Unpack
Spec == Init /\ [][Next]_vars

-----------------------------------------------------------------------------
(* The lane masks: the lanes each slot of R_MASK keeps. *)

BorderMask(cols) ==
    LET last == PerChunk(cols) - 1 IN
    [slot \in {0, 3, 6} |->
        CASE slot = 0 -> 0..LANES - 1 [] slot = 3 -> cols..LANES - 1
          [] slot = 6 -> (0..LANES - 1) \ (last * cols..last * cols + cols - 1)]
WindowMask(tokens) == [p \in 0..(LANES \div tokens) - 1 |-> tokens * p..tokens * p + tokens - 1]
-----------------------------------------------------------------------------
(* What is read back is what was laid out, element by element, for every transform, format and   *)
(* store, whatever the lanes past the elements hold; a column the program does not store reads    *)
(* nothing of another (pack, unpack).                                                             *)
StoredElement(t, i) == \E n \in DOMAIN region : Held(t, n) = i
Unbiased(t) == t.pack \in {"fpb28_filters", "pass0_bias", "depthwise_filters"} /\ ~t.plan.has_bias
UnpackInvertsPack ==
    step = "unpacked" =>
        \A v \in values : v[2] = IF Unbiased(tensor) /\ ~StoredElement(tensor, v[1]) THEN 0 ELSE Element(tensor, v[1])

(* Placement sized the region by what rows() says: a transform fills exactly that, in every       *)
(* format, so no write runs over the next region (_to_rows, stored_rows).                          *)
RegionsAreFilled == step # "misfit"

(* A tap's element is where the program looks for it: a tile's row has each column's neighbours    *)
(* in the lanes beside it, padding at the image's border, and the output's lanes are the input's   *)
(* less the halo; a pointwise bias is in the row of its channel's first weights; no packed row     *)
(* straddles a chunk (convolutions/pack.py).                                                       *)
Neighbour(t, i, dy, dx) ==
    LET n == ReadAt(t, i) + dy * CeilDiv(t.shape[3], Columns(1)) * LANES + dx
        j == << i[1], i[2] + dy, i[3] + dx >> IN
    region[n] = IF j[2] \in 0..t.shape[2] - 1 /\ j[3] \in 0..t.shape[3] - 1 THEN Element(t, j) ELSE 0
TapsFindTheirElements ==
    step = "stored" /\ tensor.role = "input" =>
        /\ tensor.pack = "halo_tiled_guard" =>
              \A i \in Indices(tensor), dy, dx \in -1..1 : Neighbour(tensor, i, dy, dx)
        /\ tensor.pack = "halo_tiled_guard" =>
              \A i \in Indices(tensor) :
                  ReadAt([tensor EXCEPT !.pack = "halo_tiled_output"], i) % LANES = (ReadAt(tensor, i) % LANES) - 1
        /\ tensor.pack = "conv_weight_groups" =>
              LET bias == [pack |-> "pass0_bias", shape |-> << tensor.shape[1] >>, role |-> "input",
                           plan |-> [has_bias |-> TRUE, num_passes |-> CeilDiv(tensor.shape[2], GroupOf(tensor.shape))]] IN
              \A o \in 0..tensor.shape[1] - 1 :
                  ReadAt(bias, << o >>) \div LANES = ReadAt(tensor, << o, 0, 0, 0 >>) \div LANES

(* The border mask drops the lanes of a chunk's first and last packed row, and the window mask     *)
(* keeps the lanes of one channel of a packed row, as the layouts have them (masks.py, r_mask.py).  *)
MasksFollowTheLayouts ==
    step = "stored" =>
        /\ tensor.pack = "chunked" =>
              LET rows == PerChunk(tensor.plan.cols)
                  RowOf(lane) == lane \div tensor.plan.cols
                  mask == BorderMask(tensor.plan.cols) IN
              \A i \in Indices(tensor) :
                  LET lane == ReadAt(tensor, i) % LANES IN
                  /\ lane \in mask[3] <=> i[2] % rows # 0
                  /\ lane \in mask[6] <=> i[2] % rows # rows - 1
        /\ tensor.pack = "channel_tile" =>
              LET per == LANES \div tensor.plan.tokens IN
              \A n \in DOMAIN region : \A p \in 0..per - 1 :
                  n % LANES \in WindowMask(tensor.plan.tokens)[p] <=> Held(tensor, n)[1] % per = p
=============================================================================
