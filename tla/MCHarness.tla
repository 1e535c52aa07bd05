----------------------------- MODULE MCHarness ------------------------------
(***************************************************************************)
(* The kernel harness over small instances: chains of kernels whose        *)
(* tensors stay in XMEM, the placement of one kernel, the run of a case,   *)
(* the registry that routes to kernels and plans their cases, and the      *)
(* packing of a tensor into rows.  They share no state: a behaviour is one *)
(* of one of them.                                                         *)
(***************************************************************************)
EXTENDS Chain, Integers, Sequences, TLC

CONSTANT Parts   \* the components whose behaviours the run explores

VARIABLES
    part,     \* the component that moves
    place_tensors, place_pins, place_reserved, place_avoid, place_placed, run_job, run_phase,
    run_xmem, run_program, run_regs, run_next, run_spent, run_runs, run_last, run_stopped,
    run_values, run_first, run_result, family_tree, family_registry, family_verdict,
    family_planned, family_writes, pack_tensor, pack_width, pack_step, pack_region, pack_values

Elem == CHOOSE l \in Layouts : TRUE

(* Kernels of a chain: tensors of one or two rows, one pinned, one staged, one that spills. *)
In == Tensor("input", 1, Elem, FALSE, 0)
Out == Tensor("output", 1, Elem, TRUE, 0)
Tmp == Tensor("scratch", 1, Elem, FALSE, 0)
ChainKernel(tensors, pins, aaq, staged) ==
    [tensors |-> tensors, pins |-> pins, aaq |-> aaq, staged |-> staged]
ManyKernels ==
    {ChainKernel(<< In, Out >>, << >>, TRUE, FALSE), ChainKernel(<< In, Out >>, 2 :> 1, TRUE, FALSE),
     ChainKernel(<< Tensor("output", 2, Elem, TRUE, 0) >>, << >>, TRUE, FALSE),
     ChainKernel(<< Out >>, << >>, TRUE, TRUE), ChainKernel(<< Tmp >>, << >>, TRUE, FALSE)}
\* It reads one tensor and has a scratch region that spills.
ScratchKernels == {ChainKernel(<< In, Tmp >>, << >>, TRUE, FALSE)}

(* Three tensors, each of which may follow one declared before or after it; tensors a chain holds,
   side by side or apart, and room for a spill below one or on it. *)
Shapes == {<< 0, 0, 0 >>, << 0, 0, 1 >>, << 2, 3, 0 >>, << 3, 0, 0 >>, << 0, 3, 1 >>}
PlacedCases ==
    {<< >>} \union
    {[i \in 1..3 |-> Tensor("scratch", n[i], Elem, FALSE, a[i])] :
        n \in {<< 1, 2, 1 >>, << 2, 1, 1 >>}, a \in Shapes}
SomeReserved == {{}, {Region(2, 3)}, {Region(0, 1), Region(3, 1)}, {Region(4, 2)}}
SomeAvoided == {{}, {Region(1, 2)}, {Region(3, 1)}, {Region(0, 3), Region(1, 1)}}

(* Programs that halt, fault, spin, raise, do not load or do not fit, alone or in a staged hook;
   their tables bind one CR or two, and one reads the CR that only an earlier stage bound. *)
Program(end, words, outs, limit, fits) ==
    [end |-> end, words |-> words, writes |-> outs, limit |-> limit, fits |-> fits,
     table |-> {"CR2"}, reads |-> {"CR2", "CR15"}]
BindsTwo(p) == [p EXCEPT !.table = {"CR2", "CR3"}, !.reads = {"CR3"}]
Halts == Program("halt", 2, {"out"}, 0, TRUE)
Fills == BindsTwo(Program("halt", 1, {"tmp", "x"}, 0, TRUE))
Faults == Program("fault", 1, {"out", "x"}, 0, TRUE)
Raises == Program("raise", 1, {"out"}, 0, TRUE)
Bad == Program("bad", 1, {}, 0, TRUE)
TooWide == BindsTwo(Program("halt", 1, {}, 0, FALSE))
Unbound == [Program("halt", 1, {"out"}, 0, TRUE) EXCEPT !.reads = {"CR3"}]
Spins(limit) == Program("spin", 3, {"out"}, limit, TRUE)
Modes == {"plain", "debug", "executor"}
SomeJobs ==
    [staged : {FALSE}, hook : {<< p >> : p \in {Halts, Faults, Spins(0), Raises, Bad, TooWide, Unbound}},
     catches : {"nothing"}, shared : {TRUE}, pinned : {{}, {"x"}}, check : BOOLEAN, mode : Modes,
     max_cycles : {1, 3}, places : BOOLEAN]
    \union
    [staged : {TRUE},
     hook : {<< Fills, p, Halts >> : p \in {Halts, Faults, Spins(2), Raises, Bad, TooWide, Unbound}}
            \union {<< Bad >>, << TooWide, Halts >>},
     catches : {"nothing", "Exception", "BaseException"}, shared : {TRUE}, pinned : {{"x"}},
     check : {TRUE}, mode : Modes, max_cycles : {3}, places : {TRUE}]
OneJob == CHOOSE j \in SomeJobs : TRUE

(* A family of two folders, a template of which registry.toml may list entries. *)
IntOf(n) == [t |-> "int", v |-> n]
BoolOf(b) == [t |-> "bool", v |-> b]
FloatOf(halves) == [t |-> "float", v |-> halves]
Name(x) == [op |-> "name", x |-> x]
Lit(n) == [op |-> "int", n |-> n]
Base(x) == [op |-> "base", x |-> x]
Apply(o, a, b) == [op |-> o, args |-> << a, b >>]
Param(n, t, domain, default, required) ==
    [name |-> n, type |-> t, domain |-> domain, default |-> default, required |-> required]
Unless == {{}}
Bias == {{<< "bias", FALSE >>}}
NoBias == {{<< "bias", TRUE >>}}
Either == {{<< "bias", FALSE >>}, {<< "relu", FALSE >>}}
Neither == {{<< "bias", TRUE >>, << "relu", TRUE >>}}
TomlTensor(n, shape, row, when) == [name |-> n, shape |-> shape, row |-> row, fill |-> {}, when |-> when]
Cr(n) == << "CR", n >>
Binding(n, r, offset, when) == [name |-> n, register |-> r, offset |-> offset, when |-> when]
Mul(shares, offset, wraps, bound, bias, ybound) ==
    [name |-> "mul", op |-> "scale", fixed |-> << >>, formats |-> {"fp32", "int8"},
     params |-> {Param("rows", "int", {IntOf(1), IntOf(2)}, {IntOf(2)}, FALSE),
                 Param("s", "float", {FloatOf(1), FloatOf(2), FloatOf(4)}, {}, FALSE),
                 Param("bias", "bool", {BoolOf(TRUE), BoolOf(FALSE)}, {BoolOf(FALSE)}, FALSE),
                 Param("relu", "bool", {BoolOf(TRUE), BoolOf(FALSE)}, {BoolOf(FALSE)}, FALSE)},
     derived |->
       << [name |-> "half", e |-> [op |-> "ceil", args |-> << Apply("/", Name("rows"), Lit(2)) >>]],
          [name |-> "wb", e |-> Apply("+", Apply("-", Base("b"), IF ybound THEN Name("rows") ELSE Base("y")),
                                      Name("half"))],
          [name |-> "wrap", e |-> Apply("%", Name("wb"), Apply("-", Name("row_bytes"), Lit(1)))] >>,
     tensors |->
       {TomlTensor("x", << Name("rows") >>, {Lit(0)}, Unless),
        [TomlTensor("y", << Name("rows") >>, {Apply("//", Lit(4), Name("row_bytes"))}, Unless)
           EXCEPT !.fill = {Apply("/", Lit(1), Apply("-", Name("s"), Lit(1)))}],
        TomlTensor("z", << Lit(1) >>, {Lit(2)}, Unless), TomlTensor("a", << Lit(1) >>, {Lit(3)}, Either),
        TomlTensor("b", << Apply("-", Name("rows"), Lit(1)) >>, {}, bias)},
     abi |->
       << Binding("x", Cr(0), 0, Unless), Binding("z", Cr(3), 0, Unless), Binding("a", Cr(3), offset, Either),
          Binding("s", Cr(4), 0, Unless), Binding("rows", Cr(5), 0, shares), Binding("wrap", Cr(6), 0, wraps) >>
       \o (IF ybound THEN << Binding("y", Cr(2), 0, Unless) >> ELSE << >>)
       \o (IF bound THEN << Binding("b", Cr(5), 0, bias) >> ELSE << >>),
     cost |-> Name("rows"),
     cases |->
       ("default" :> [values |-> [s |-> {FloatOf(4)}, bias |-> {BoolOf(FALSE), BoolOf(TRUE)},
                                  relu |-> {BoolOf(FALSE), BoolOf(TRUE)}], formats |-> {}])
       @@ ("one" :> [values |-> [s |-> {FloatOf(1)}, rows |-> {IntOf(1)}, relu |-> {BoolOf(TRUE)}], formats |-> {"fp32"}])]
AddKernel(cost) ==
    [name |-> "add", op |-> "scale", fixed |-> << >>, formats |-> {"fp32"},
     params |-> {Param("rows", "int", {IntOf(1), IntOf(2), IntOf(3)}, {}, FALSE),
                 Param("s", "float", {FloatOf(2)}, {FloatOf(2)}, TRUE)},
     derived |-> << >>, tensors |-> {TomlTensor("x", << Name("rows") >>, {}, Unless)},
     abi |-> << Binding("x", Cr(2), 1, Unless) >>, cost |-> cost,
     cases |-> ("default" :> [values |-> [rows |-> {IntOf(3)}], formats |-> {}])]
ListedEntry(n, values) == [name |-> n, template |-> "mul", params |-> values, formats |-> {}, cases |-> {}]
Listings ==
    {<< >>,
     << ListedEntry("e1", [rows |-> IntOf(1)]), ListedEntry("e3", [relu |-> BoolOf(TRUE)]),
        [ListedEntry("e2", [s |-> IntOf(1)]) EXCEPT !.formats = {{"fp32"}}, !.cases = {{"default"}}] >>,
     << ListedEntry("e1", [s |-> FloatOf(1)]), ListedEntry("e2", [s |-> FloatOf(2)]) >>}
NoFamily == [folders |-> << >>, parses |-> TRUE, entries |-> << >>]
SomeTrees ==
    {NoFamily} \union
    {[folders |-> ("mul" :> Mul(w, offset, wb, bd, bw, yb)) @@ ("add" :> AddKernel(c)),
      parses |-> l[1], entries |-> l[2]] :
        w \in {Unless, NoBias, Neither}, offset \in {-1, 0}, wb \in {Unless, Bias}, bd \in BOOLEAN,
        bw \in {Bias, Either}, yb \in BOOLEAN, c \in {Lit(2), Apply("/", Lit(4), Name("rows"))},
        l \in ({TRUE} \X Listings) \union {<< FALSE, << >> >>}}
SomeQueries ==
    {"scale"} \X
    {<< >>, [rows |-> IntOf(1), s |-> FloatOf(2)], [rows |-> IntOf(2), s |-> IntOf(1)], [rows |-> IntOf(2), s |-> FloatOf(1)],
     [s |-> FloatOf(2)], [s |-> FloatOf(4), rows |-> IntOf(1), bias |-> BoolOf(TRUE)], [rows |-> IntOf(3), s |-> FloatOf(2)]}

(* Every layout on shapes that fill its rows, miss them by one and need more than one. *)
OnePlan ==
    [padding |-> 1, rows |-> 5, cols |-> 32, has_bias |-> TRUE, apply_relu |-> FALSE, num_passes |-> 2,
     fpb |-> 25, w |-> 130, upscale_factor |-> 2, tokens |-> 64]
Given(pack, shape) == [pack |-> pack, shape |-> shape, plan |-> OnePlan, role |-> "input"]
Taken(pack, shape) == [pack |-> pack, shape |-> shape, plan |-> OnePlan, role |-> "accumulator"]
Flats == {<< 1 >>, << 129 >>, << 2, 3 >>, << 2, 128 >>, << 2, 130 >>, << 2, 2, 3 >>}
Images == {<< 1, 1, 1 >>, << 2, 3, 5 >>, << 2, 2, 126 >>, << 1, 3, 127 >>, << 2, 2, 130 >>, << 1, 2, 253 >>}
Chunks == {<< 2, 3, 5 >>, << 1, 5, 32 >>, << 2, 4, 32 >>, << 2, 6, 8 >>, << 1, 5, 33 >>}
On(pack, shapes) == {Given(pack, s) : s \in shapes}
SomeTensors ==
    On("none", Flats) \union On("padded", Flats)
    \union {Taken("none", s) : s \in Flats \union {<< 1, 2, 253 >>}}
    \union On("tiled_guard", Images) \union On("halo_tiled_guard", Images)
    \union On("halo_tiled", Images) \union On("row_interleaved", Images)
    \union {[Given("pooling.halo_tiled", s) EXCEPT !.plan.padding = n] : n \in 0..2, s \in Images}
    \union {[Taken("pooling.tiled", s) EXCEPT !.plan.padding = n] : n \in 0..1, s \in Images}
    \union On("conv_weight_groups", {<< 2, 14, 3, 3 >>, << 2, 15, 3, 3 >>, << 1, 129, 1, 1 >>, << 1, 6, 5, 5 >>})
    \union On("lane0_rows", {<< 3 >>, << 2, 2 >>}) \union On("channel_pairs", {<< 4, 8, 8 >>, << 3, 8, 8 >>})
    \union {[Given(p, s) EXCEPT !.plan.cols = c] :
              p \in {"chunked", "chunked_guard", "chunk_interleaved"}, s \in Chunks, c \in {8, 32}}
    \union {[Given("fpb28_filters", s) EXCEPT !.plan.has_bias = b, !.plan.apply_relu = r] :
              s \in {<< 1, 10 >>, << 2, 253 >>, << 1, 262 >>, << 1, 11 >>}, b, r \in BOOLEAN}
    \union {[Given("depthwise_filters", s) EXCEPT !.plan.has_bias = b, !.plan.apply_relu = r, !.plan.fpb = f] :
              s \in {<< 1, 10 >>, << 26, 10 >>, << 29, 10 >>}, b, r \in BOOLEAN, f \in {25, 28}}
    \union {[Given("pass0_bias", << 3 >>) EXCEPT !.plan.has_bias = b] : b \in BOOLEAN}
    \union On("gate_and_count", {<< 1 >>, << 2 >>, << 129 >>, << 130 >>})
    \union On("weight_chunks", {<< 2, 3 >>, << 2, 128 >>, << 3, 130 >>}) \union On("tile_padded", {<< 2, 260 >>})
    \union On("stripes", {<< 2, 8, 8 >>, << 2, 16, 16 >>, << 1, 3, 100 >>, << 2, 5, 32 >>})
    \union On("paired_rows", {<< 2, 8, 8 >>}) \union On("transposed", {<< 3, 2 >>, << 129, 2 >>})
    \union {[Given("channel_tile", << n >>) EXCEPT !.plan.tokens = k] : n \in {8, 3}, k \in {16, 64}}
    \union On("hwc_halo", {<< 1, 2, 256 >>})
    \union On("row_slots", {<< 3, 16 >>, << 3, 17 >>, << 2, 65 >>, << 9, 3 >>, << 1, 129 >>})
    \union On("channel_major", {<< 2, 3, 5 >>, << 2, 2, 2, 128 >>, << 1, 2, 129 >>})
    \union On("projection_output", {<< 2, 2, 5 >>, << 1, 1, 129 >>})
    \union {[Taken(p, s) EXCEPT !.role = r] :
              p \in {"row_interleaved", "halo_tiled_output"}, s \in Images, r \in {"element", "accumulator"}}
    \union {Taken(p, s) : p \in {"chunked", "chunk_interleaved"}, s \in Chunks}
    \union {Taken("channel_pairs", << 4, 8, 8 >>), Taken("tile_padded", << 2, 260 >>), Taken("stripes", << 2, 16, 16 >>),
            Taken("row_slots", << 3, 17 >>), Taken("channel_major", << 2, 3, 5 >>)}
    \union {Taken("gate_and_count", s) : s \in {<< 2 >>, << 129 >>, << 130 >>}}

Placing == INSTANCE Placement WITH
    tensors <- place_tensors, pins <- place_pins, reserved <- place_reserved,
    avoid <- place_avoid, placed <- place_placed, Cases <- PlacedCases, PinRows <- {0, 2, 4, 5},
    Reservations <- SomeReserved, Avoided <- SomeAvoided, Capacity <- 6, Layouts <- Layouts

Runs == INSTANCE KernelRun WITH
    job <- run_job, phase <- run_phase, xmem <- run_xmem, program <- run_program,
    regs <- run_regs, next <- run_next, spent <- run_spent, runs <- run_runs, last <- run_last,
    stopped <- run_stopped, values <- run_values, first <- run_first, result <- run_result,
    Inputs <- {"x", "y"}, Scratch <- {"tmp"}, Outputs <- {"out"},
    Crs <- {"CR2", "CR3", "CR15"}, Cr15 <- "CR15", Jobs <- SomeJobs

Families == INSTANCE Registry WITH
    tree <- family_tree, registry <- family_registry, verdict <- family_verdict,
    planned <- family_planned, writes <- family_writes, Formats <- {"fp32", "int8"},
    Encodable <- [f \in {"fp32", "int8"} |-> IF f = "fp32" THEN -8..8 ELSE {2 * i : i \in -4..4}],
    RowBytes <- [f \in {"fp32", "int8"} |-> IF f = "fp32" THEN 4 ELSE 1], LaneCount <- 4,
    RegisterBits <- 4, Trees <- SomeTrees, Queries <- SomeQueries,
    NameOrder <- << "add", "e1", "e2", "e3", "mul" >>, MaxRow <- 5

Packs == INSTANCE Packing WITH
    tensor <- pack_tensor, width <- pack_width, step <- pack_step, region <- pack_region,
    values <- pack_values, Tensors <- SomeTensors, Widths <- {1, 4}

ASSUME HarnessAssumptions == Families!TomlAssumption /\ Runs!KernelAssumption

-----------------------------------------------------------------------------
(* The component that moves starts anywhere; of the others one start is kept. *)
PartInit ==
    /\ part \in Parts
    /\ IF part = "placement" THEN TRUE ELSE place_tensors = << >> /\ place_reserved = {} /\ place_avoid = {}
    /\ IF part = "kernel_run" THEN TRUE ELSE run_job = OneJob
    /\ IF part = "registry" THEN TRUE ELSE family_tree = NoFamily
    /\ IF part = "packing" THEN TRUE ELSE pack_tensor = Given("none", << 1 >>) /\ pack_width = 1
    /\ Init /\ Placing!Init /\ Runs!Init /\ Families!Init /\ Packs!Init

placeVars == <<
    place_tensors, place_pins, place_reserved, place_avoid, place_placed >>
runVars == <<
    run_job, run_phase, run_xmem, run_program, run_regs, run_next, run_spent, run_runs,
    run_last, run_stopped, run_values, run_first, run_result >>
familyVars == <<
    family_tree, family_registry, family_verdict, family_planned, family_writes >>
packVars == <<
    pack_tensor, pack_width, pack_step, pack_region, pack_values >>

(* The others stand still. *)
OthersFrozen ==
    /\ UNCHANGED part
    /\ IF part = "chain" THEN TRUE ELSE UNCHANGED vars
    /\ IF part = "placement" THEN TRUE ELSE UNCHANGED placeVars
    /\ IF part = "kernel_run" THEN TRUE ELSE UNCHANGED runVars
    /\ IF part = "registry" THEN TRUE ELSE UNCHANGED familyVars
    /\ IF part = "packing" THEN TRUE ELSE UNCHANGED packVars

ChainStep == part = "chain" /\ Next /\ OthersFrozen
PlacementStep == part = "placement" /\ Placing!PlaceCase /\ OthersFrozen
KernelRunStep == part = "kernel_run" /\ Runs!Next /\ OthersFrozen
RegistryStep == part = "registry" /\ Families!Next /\ OthersFrozen
PackingStep == part = "packing" /\ Packs!Next /\ OthersFrozen
PartNext == ChainStep \/ PlacementStep \/ KernelRunStep \/ RegistryStep \/ PackingStep

partvars == << part, vars, placeVars, runVars, familyVars, packVars >>
PartSpec ==
    /\ PartInit /\ [][PartNext]_partvars

-----------------------------------------------------------------------------
(* A placement keeps its pins, overlaps nothing held and no other tensor; each region is the lowest
   free one; and who follows a tensor is next to it (Placement). *)
PlacementIsSound ==
    part = "placement" =>
        /\ Placing!PlacementIsSound /\ Placing!FreeRegionsAreLowest /\ Placing!FollowersAreTogether

(* A golden is computed from what the inputs' regions hold, a program reads no CR that its own table
   did not write, a verdict is of the run made, and a refused case touches nothing (KernelRun). *)
VerdictsAreOfTheRun ==
    part = "kernel_run" =>
        /\ Runs!TypeOK /\ Runs!GoldensAreOfTheInputs /\ Runs!ReadsAreOfTheStage
        /\ Runs!VerdictIsOfTheRun /\ Runs!RefusalTouchesNothing

(* Once a stage stopped, no later stage of the run runs (KernelRun). *)
StopEndsTheRun == Runs!StopEndsTheRun

(* What the loader accepted binds every case's registers once, reaches every region, and runs as
   routed; names decide no tie, and an entry runs only what its template does (Registry). *)
RoutingKeepsItsWord ==
    part = "registry" =>
        /\ Families!BindingsFitEveryCase /\ Families!EveryRegionIsReached
        /\ Families!RoutedRunsAsRouted /\ Families!NamesDoNotDecide /\ Families!EntriesNarrowTheirTemplates

(* What is packed unpacks to itself, a region's rows are as many as planned, and the taps and masks
   of a layout find the elements it placed (Packing). *)
PackingIsExact ==
    part = "packing" =>
        /\ Packs!UnpackInvertsPack /\ Packs!RegionsAreFilled
        /\ Packs!TapsFindTheirElements /\ Packs!MasksFollowTheLayouts
=============================================================================
