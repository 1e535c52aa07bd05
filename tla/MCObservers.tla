---------------------------- MODULE MCObservers -----------------------------
(***************************************************************************)
(* The emulator's storage, arithmetic and observers over small instances:  *)
(* the provenance of ONES, XMEM's pages, the register file's storage, an   *)
(* element's encoding, the vector operations, the records of commits, the  *)
(* alias observer, the matches of issued words and the detectors that run  *)
(* over an execution.                                                      *)
(* They share no state: a behaviour is one of one of them.                 *)
(***************************************************************************)
EXTENDS ConstantOnes, Integers, Sequences, TLC

CONSTANT Parts   \* the components whose behaviours the run explores

VARIABLES
    part,     \* the component that moves
    mem_pages, mem_last, commit_imem, commit_pc, commit_halt, commit_stopped, commit_pending,
    commit_pre, commit_prePc, commit_broke, commit_seenHalt, commit_records, commit_looked,
    commit_truth, alias_fmt, alias_mem, alias_regs, alias_r_acc, alias_post_aaq_reg, alias_snap,
    alias_todo, alias_halted, alias_rows, alias_snapshot_rows, alias_stores,
    alias_memory_versions, alias_memory_epoch, alias_cleared_epoch, alias_last_reads, alias_acc,
    alias_mult, alias_post, alias_current, alias_next_id, alias_exported, alias_event,
    alias_found, alias_writer, alias_loaded, alias_snap_loaded, alias_unchanged, alias_cycles,
    alias_hosts, reg_live, reg_marks, reg_exported, reg_held, reg_buffer, reg_told, reg_seen,
    reg_ops, elem_x, elem_value, elem_code, elem_steps, lanes_setup, lanes_m, lanes_faithful,
    lanes_ideal, lanes_moved, lanes_ops, issue_table, issue_status, issue_slow, issue_fast,
    issue_before, issue_word, issue_words, det_program, det_pc, det_lr, det_mem, det_regs,
    det_mult, det_acc, det_post, det_cycle, det_next_id, det_host, det_updates, det_adds,
    det_branch, det_chain, det_matches, det_wrote

CONSTANTS
    CommitWords, CommitImems,   \* the commit collector's words and programs
    EditsAt,                    \* when the host writes IMEM
    NoPc, NoHalt, NoPending, MaxRecords,
    AliasBlocks, AliasStoreBlocks, AliasRowSizes, AliasRows,  \* XMEM's blocks, those of rows, register rows
    AliasWords, AliasHost,      \* what the alias observer watches
    AliasMaxCycles, AliasMaxHost,
    MemSize, MemPageBytes, MemMaxByte,  \* XMEM's bytes, those of a page, and the largest byte
    RegSchema, MaxOps, MaxHeld          \* the register file's schema and bounds

(* The words a collector watches. *)
Watched(name, brk, ends) == [id |-> name, brk |-> brk, ends |-> ends]
Testing == Watched("testing", "BREAK.IFEQ", "retires")
Plain == Watched("plain", "NOP", "retires")
Halting == Watched("halting", "BREAK.IFEQ", "halts")
Faulty == Watched("faulty", "BREAK", "faults")
SomeCommitWords == {Plain, Halting, Faulty}
SomeCommitImems == {<< Faulty, Halting >>, << Plain, Faulty >>, << Halting, Plain >>}
Raising == Watched("raising", "NOP", "raises")
RaisingWords == {Raising, Testing}
RaisingImems == {<< Raising, Testing >>}

(* The words an alias observer watches: a row loads, a product reads, ACC, AAQ and the store take
   their turn; a load far out raises, and so does a store of a register XMEM has no room for. *)
Ring == << "ring", 0 >>
Ra == << "ra", 0 >>
Check == [slot |-> "check"]
LrSlot == [slot |-> "lr"]
LoadSlot(r, at) == [slot |-> "load", row |-> r, at |-> at]
MultSlot(reads) == [slot |-> "mult", reads |-> reads, whole |-> Cardinality(reads) = 1, identity |-> FALSE]
AccSlot(first) == [slot |-> "acc", first |-> first]
AaqSlot(id) == [slot |-> "aaq", identity |-> id]
StoreSlot(at) == [slot |-> "store", at |-> at]
SomeAliasWords ==
    { << Check, AccSlot(FALSE), AaqSlot(TRUE), StoreSlot(0) >>,
      << LrSlot, Check, AccSlot(TRUE), AaqSlot(FALSE), StoreSlot(1) >>,
      << Check, LoadSlot(Ring, 0) >>, << Check, LoadSlot(Ra, 1), MultSlot({Ring, Ra}) >>,
      << Check, MultSlot({Ring}), AccSlot(TRUE) >>, << Check, MultSlot({Ra}), AccSlot(TRUE) >>,
      << LrSlot, Check, LoadSlot(Ra, 9) >>, << Check, StoreSlot(3) >> }
SomeAliasRows == {Ring, Ra}

(* A register of each kind. *)
Descriptor(vector, cyclic, words, size, count) ==
    [vector |-> vector, cyclic |-> cyclic, words |-> words, size |-> size, count |-> count]
SomeSchema ==
    [lr |-> Descriptor(FALSE, FALSE, FALSE, 2, 1), cr |-> Descriptor(FALSE, FALSE, FALSE, 2, 3),
     r |-> Descriptor(TRUE, FALSE, FALSE, 1, 2), r_cyclic |-> Descriptor(TRUE, TRUE, FALSE, 3, 1),
     r_acc |-> Descriptor(TRUE, FALSE, TRUE, 2, 1)]

(* Sixteen lanes; windows that wrap, masks, partitions, shifts, pads and scalars of each source. *)
Dstructure(p, v, pad) == [partition |-> p, valid |-> v, pad |-> pad]
Setup(float, wide, quantize, cr) ==
    [float |-> float, wide |-> wide, quantize |-> quantize, cr |-> cr,
     ring |-> [i \in 0..63 |-> (i % 5) - 2], ra |-> [i \in 0..31 |-> (i % 4) - 1],
     masks |-> << 0..15, {0, 3, 4, 7, 12, 15} >>]
SomeSetups ==
    {Setup(FALSE, FALSE, FALSE, 1), Setup(TRUE, TRUE, FALSE, 10000), Setup(FALSE, TRUE, TRUE, 3),
     Setup(TRUE, TRUE, TRUE, 3)}
OneSetup == Setup(FALSE, FALSE, FALSE, 1)
Multiply(form, rc, row, index, scalar, slot, shift, d) ==
    [form |-> form, rc |-> rc, row |-> row, index |-> index, scalar |-> scalar, slot |-> slot,
     shift |-> shift, d |-> d]
SomeMultiplies ==
    {Multiply("RC.VV", 61, 1, 0, "cr", 2, -4, Dstructure(2, 16, "zero")),
     Multiply("RC.VV", 61, 1, 0, "cr", 2, 2, Dstructure(4, 16, "zero")),
     Multiply("RC.VV", 5, 0, 0, "cr", 1, -1, Dstructure(0, 16, "zero")),
     Multiply("RC.VE", 3, 0, 33, "lr", 1, 0, Dstructure(2, 5, "pos")),
     Multiply("RC.VE", 0, 0, 0, "cr", 1, 1, Dstructure(0, 16, "pos")),
     Multiply("RC.VS", 60, 0, 0, "cr", 1, 0, Dstructure(0, 0, "zero")),
     Multiply("VE", 0, 0, 30, "cr1", 2, 0, Dstructure(0, 16, "zero")),
     Multiply("EE", 0, 0, 35, "cr", 2, -1, Dstructure(4, 16, "neg"))}
SomeAccOps ==
    [name : {"ADD", "SUB.FIRST", "MAX"}]
    \union [name : {"AGG.SUM", "AGG.MAX"}, dest : {15}, d : {Dstructure(2, 5, "pos")}]
    \union [name : {"AGG.MAX.FIRST"}, dest : {0}, d : {Dstructure(0, 0, "zero")}]
    \union [name : {"AGG.SUM.FIRST"}, dest : {0}, d : {Dstructure(0, 5, "zero")}]
    \union [name : {"STRIDE"}, row : {4}, h : {"on_inv"}, v : {"off", "on"}, offset : {3}]
    \union [name : {"STRIDE"}, row : {8}, h : {"on"}, v : {"on_inv"}, offset : {0}]
    \union [name : {"RESHAPE"}, source : {0, 15}, dest : {1}]

(* Alias tables a build may ship besides its own, most of them refused. *)
Entry(id, matches) == [id |-> id, matches |-> matches]
Match(slot, inst, where) == [slot |-> slot, instruction |-> inst, where |-> where]
Condition(kind, on, of) == [kind |-> kind, on |-> on, of |-> of]
IsOne(operand) == Condition("scalar_is", operand, {"1"})
NotZero(operand) == Condition("immediate_ne", operand, {})
Hardware == Condition("hardware_only", "", {})
Masked == Condition("masked_window", "", {})
Moves == Entry("A1_MOV_RC", << Match("mult", "MULT.VE", {IsOne("cr_idx")}) >>)
SomeTables ==
    {<< >>, << Moves, Entry("A16_STR_ACC_REG", << Match("acc_store", "ST.ACC", {Hardware}) >>) >>,
     << Entry("A2_ADD_VV", << Match("mult", "MULT.RC.VS", {Hardware}) >>), Moves >>, << Moves, Moves >>,
     << Entry("A5_BCAST", << >>) >>, << Entry("A5_BCAST", << Match("mult", "MULT.RC.VV", {Masked}) >>) >>,
     << Entry("A1_MOV_RC", << Match("mult", "MULT.EE", {IsOne("cr_idx"), NotZero("mask_offset")}) >>) >>}

(* Words that load ones, data or a mask, or multiply by what they find; one of them may raise. *)
None == [name |-> "NOP"]
Issue(lr, load, mult, acc, acc_store, raises) ==
    [lr |-> lr, load |-> load, mult |-> mult, acc |-> [name |-> acc], aaq |-> None, store |-> None,
     acc_store |-> [name |-> acc_store], cond |-> None, raises |-> raises]
Mult(n, scalar, ra, offset) == [name |-> n, scalar |-> scalar, ra |-> ra, offset |-> offset]
Load(n, dest, row) == [name |-> n, dest |-> dest, row |-> row]
SomeLoads == {None, Load("LD.MASK", 0, "some"), Load("LD.MULT", 1, "ones"), Load("LD.MULT", 1, "stale")}
             \union {Load("LD.MULT.CYCLIC", d, row) : d \in {0, 1}, row \in {"ones", "like", "data"}}
RingMults == {Mult("MULT.RC.VV", "lr", ra, o) : ra \in {1, 2}, o \in {0, 1}}
             \union {Mult("MULT.RC.VE", "lr", 1, o) : o \in {0, 1}} \union {Mult("MULT.RC.VS", "lr", 1, 0)}
CrMults == {Mult(n, s, 1, o) : n \in {"MULT.RC.VE", "MULT.VE", "MULT.EE"}, s \in {"cr1", "cr2"}, o \in 0..1}
SomeAccs == {"NOP", "ACC.ADD", "ACC.SUB.FIRST", "AGG.MAX", "ACC.STRIDE"}
SomeIssued ==
    {Issue(lr, load, None, "NOP", store, "") :
        lr \in {None, [name |-> "SET", value |-> 1]}, load \in SomeLoads, store \in {"NOP", "ST.ACC"}}
    \union {Issue(None, Load("LD.MASK", 0, "all"), None, "ACC.ADD", "NOP", "load")}
    \union {Issue(None, load, m, a, "NOP", "") :
              load \in {None, Load("LD.MULT.CYCLIC", 0, "ones")}, m \in RingMults, a \in SomeAccs}
    \union {Issue(None, None, m, a, "NOP", "mult") : m \in RingMults, a \in SomeAccs \ {"ACC.ADD"}}
    \union {Issue(None, None, m, a, "NOP", "") : m \in CrMults, a \in SomeAccs}

(* Programs of LR writes and their readers, diamonds, and exponentials of products by log2(e). *)
Nothing == [lr |-> << >>, load |-> [op |-> "NOP"], mult |-> [op |-> "NOP"], acc |-> "NOP", aaq |-> "NOP",
            active |-> {}, store |-> 0, cond |-> [op |-> "NOP"]]
WritesLr(ops) == [Nothing EXCEPT !.lr = ops]
Inc(r) == [op |-> "INC", dest |-> r]
Set(r, v) == [op |-> "SET", dest |-> r, value |-> v]
Add(r, a, b) == [op |-> "ADD", dest |-> r, src_a |-> a, src_b |-> b]
ReadsLr(r, ops) == [WritesLr(ops) EXCEPT !.load = [op |-> "LD", dest |-> "ra", row |-> 1, lrs |-> {r}]]
LrWords == {WritesLr(<< op >>) : op \in {Inc(1), Set(1, 3), Add(1, 1, 2), Add(2, 1, 2)}}
           \union {WritesLr(<< Add(1, 1, 2), Inc(2) >>), ReadsLr(1, << >>), ReadsLr(1, << Inc(1) >>), ReadsLr(2, << Inc(1) >>)}
LrPrograms == {<< a, b, c, d >> : a, b, c, d \in LrWords}
Branch == [Nothing EXCEPT !.cond = [op |-> "BEQ", reg1 |-> 1, reg2 |-> 2, label |-> 5]]
Join == [Nothing EXCEPT !.cond = [op |-> "JUMP", label |-> 6]]
Diamonds == {<< a, Branch, WritesLr(<< Set(x, 1) >>), Join, WritesLr(<< Set(y, 2) >>), b >> :
               a, b \in {WritesLr(<< Inc(1) >>), WritesLr(<< Inc(2) >>)}, x, y \in {1, 2}}
Loads(row, to) == [Nothing EXCEPT !.load = [op |-> "LD", dest |-> to, row |-> row, lrs |-> {}]]
Product(op, start, scalar, mask) ==
    [op |-> op, start |-> start, scalar |-> scalar, mask |-> mask, lrs |-> {}]
Into(acc) ==
    {[Nothing EXCEPT !.mult = m, !.acc = acc] :
       m \in {Product("VV", 0, 0, 0..1), Product("VV", 1, 0, 0..1), Product("VE", 0, 1, {0}),
              Product("VE", 1, 1, 0..1), Product("EE", 0, 1, 0..1)}}
Products ==
    Into("ADD.FIRST") \union Into("ADD")
    \union {[Nothing EXCEPT !.mult = Product("VV", 0, 0, 0..1), !.acc = "MAX"]}
Quantizes(f, active, row) == [Nothing EXCEPT !.aaq = f, !.active = active, !.store = row]
Exponentials ==
    {<< Loads(1, "ra"), Loads(2, "ring0"), p1, p2, q, load, p3, Quantizes("exp2", 0..1, 0) >> :
       p1, p3 \in Into("ADD.FIRST"), p2 \in Products, q \in {Quantizes("identity", {0}, 2), Quantizes("identity", 0..1, 2)},
       load \in {Loads(1, "ra"), Loads(2, "ra"), Loads(1, "ring0"), Loads(2, "ring0")}}
Row(factor, const) == [factor |-> factor, const |-> const]
DetectorCases ==
    [words : LrPrograms \union Diamonds, rows : {<< Row({}, "none") >>}]
    \union [words : Exponentials,
            rows : {<< Row(0..1, "log2e"), Row({}, "none") >>, << Row({}, "one"), Row({}, "none") >>,
                    << Row(0..1, "log2e"), Row({}, "one") >>}]
OneProgram == [i \in 1..4 |-> WritesLr(<< Inc(1) >>)]

Memory == INSTANCE XMem WITH
    pages <- mem_pages, last <- mem_last, Size <- MemSize, PageBytes <- MemPageBytes, MaxByte <- MemMaxByte

Commits == INSTANCE CommitCollector WITH
    imem <- commit_imem, pc <- commit_pc, halt <- commit_halt, stopped <- commit_stopped,
    pending <- commit_pending, pre <- commit_pre, prePc <- commit_prePc, broke <- commit_broke,
    seenHalt <- commit_seenHalt, records <- commit_records, looked <- commit_looked,
    truth <- commit_truth, Words <- CommitWords, Imems <- CommitImems

Alias == INSTANCE AliasObserver WITH
    fmt <- alias_fmt, mem <- alias_mem, regs <- alias_regs, r_acc <- alias_r_acc,
    post_aaq_reg <- alias_post_aaq_reg, snap <- alias_snap, todo <- alias_todo,
    halted <- alias_halted, rows <- alias_rows, snapshot_rows <- alias_snapshot_rows,
    stores <- alias_stores, memory_versions <- alias_memory_versions,
    memory_epoch <- alias_memory_epoch, cleared_epoch <- alias_cleared_epoch,
    last_reads <- alias_last_reads, acc <- alias_acc, mult <- alias_mult, post <- alias_post,
    current <- alias_current, next_id <- alias_next_id, exported <- alias_exported,
    event <- alias_event, found <- alias_found, writer <- alias_writer, loaded <- alias_loaded,
    snap_loaded <- alias_snap_loaded, unchanged <- alias_unchanged, cycles <- alias_cycles,
    hosts <- alias_hosts, Blocks <- AliasBlocks, StoreBlocks <- AliasStoreBlocks,
    RowSizes <- AliasRowSizes, RegRows <- AliasRows, Words <- AliasWords, Host <- AliasHost,
    MaxCycles <- AliasMaxCycles, MaxHost <- AliasMaxHost

File == INSTANCE RegFile WITH
    live <- reg_live, marks <- reg_marks, exported <- reg_exported, held <- reg_held,
    buffer <- reg_buffer, told <- reg_told, seen <- reg_seen, ops <- reg_ops,
    Schema <- RegSchema

Encoding == INSTANCE Elements WITH
    x <- elem_x, value <- elem_value, code <- elem_code, steps <- elem_steps, Width <- 5,
    MaxSteps <- 2

Vectors == INSTANCE Lanes WITH
    setup <- lanes_setup, m <- lanes_m, faithful <- lanes_faithful, ideal <- lanes_ideal,
    moved <- lanes_moved, ops <- lanes_ops, L <- 16, Setups <- SomeSetups,
    Multiplies <- SomeMultiplies, AccOps <- SomeAccOps, MaxAcc <- 7, MaxByte <- 1, MaxOps <- 3

Issued == INSTANCE Issue WITH
    table <- issue_table, status <- issue_status, slow <- issue_slow, fast <- issue_fast,
    before <- issue_before, word <- issue_word, words <- issue_words, Tables <- SomeTables,
    Words <- SomeIssued, MaxWords <- 2

Detect == INSTANCE Detectors WITH
    program <- det_program, pc <- det_pc, lr <- det_lr, mem <- det_mem, regs <- det_regs,
    mult <- det_mult, acc <- det_acc, post <- det_post, cycle <- det_cycle,
    next_id <- det_next_id, host <- det_host, updates <- det_updates, adds <- det_adds,
    branch <- det_branch, chain <- det_chain, matches <- det_matches, wrote <- det_wrote,
    L <- 2, NLr <- 2, Modulus <- 4, Cases <- DetectorCases, MaxCycles <- 8, MaxHost <- 0

ASSUME MemoryAssumption == Memory!XMemAssumption
ASSUME WatchedAssumption == Commits!CollectorAssumption
ASSUME ProfiledAssumption == Alias!AliasAssumption
ASSUME SchemaAssumption == File!RegFileAssumption

-----------------------------------------------------------------------------
(* The component that moves starts anywhere; of the others one start is kept. *)
PartInit ==
    /\ part \in Parts
    /\ IF part = "commit" THEN TRUE ELSE commit_imem = (CHOOSE i \in CommitImems : TRUE)
    /\ IF part = "alias" THEN TRUE ELSE alias_fmt = (CHOOSE n \in AliasRowSizes : TRUE)
    /\ IF part = "elements" THEN TRUE ELSE elem_x = 0
    /\ IF part = "lanes" THEN TRUE ELSE lanes_setup = OneSetup
    /\ IF part = "issue" THEN TRUE ELSE issue_table = << >>
    /\ IF part = "detectors" THEN TRUE ELSE det_program = OneProgram
    /\ Init /\ Memory!Init /\ Commits!Init /\ Alias!Init /\ File!Init /\ Encoding!Init /\ Vectors!Init /\ Issued!Init /\ Detect!Init

memVars == <<
    mem_pages, mem_last >>
commitVars == <<
    commit_imem, commit_pc, commit_halt, commit_stopped, commit_pending, commit_pre,
    commit_prePc, commit_broke, commit_seenHalt, commit_records, commit_looked, commit_truth >>
aliasVars == <<
    alias_fmt, alias_mem, alias_regs, alias_r_acc, alias_post_aaq_reg, alias_snap, alias_todo,
    alias_halted, alias_rows, alias_snapshot_rows, alias_stores, alias_memory_versions,
    alias_memory_epoch, alias_cleared_epoch, alias_last_reads, alias_acc, alias_mult,
    alias_post, alias_current, alias_next_id, alias_exported, alias_event, alias_found,
    alias_writer, alias_loaded, alias_snap_loaded, alias_unchanged, alias_cycles, alias_hosts >>
regVars == <<
    reg_live, reg_marks, reg_exported, reg_held, reg_buffer, reg_told, reg_seen, reg_ops >>
elemVars == <<
    elem_x, elem_value, elem_code, elem_steps >>
lanesVars == <<
    lanes_setup, lanes_m, lanes_faithful, lanes_ideal, lanes_moved, lanes_ops >>
issueVars == <<
    issue_table, issue_status, issue_slow, issue_fast, issue_before, issue_word, issue_words >>
detVars == <<
    det_program, det_pc, det_lr, det_mem, det_regs, det_mult, det_acc, det_post, det_cycle,
    det_next_id, det_host, det_updates, det_adds, det_branch, det_chain, det_matches, det_wrote >>

(* The others stand still. *)
OthersFrozen ==
    /\ UNCHANGED part
    /\ IF part = "ones" THEN TRUE ELSE UNCHANGED vars
    /\ IF part = "memory" THEN TRUE ELSE UNCHANGED memVars
    /\ IF part = "commit" THEN TRUE ELSE UNCHANGED commitVars
    /\ IF part = "alias" THEN TRUE ELSE UNCHANGED aliasVars
    /\ IF part = "regfile" THEN TRUE ELSE UNCHANGED regVars
    /\ IF part = "elements" THEN TRUE ELSE UNCHANGED elemVars
    /\ IF part = "lanes" THEN TRUE ELSE UNCHANGED lanesVars
    /\ IF part = "issue" THEN TRUE ELSE UNCHANGED issueVars
    /\ IF part = "detectors" THEN TRUE ELSE UNCHANGED detVars

OnesStep == part = "ones" /\ Next /\ OthersFrozen
MemoryStep == part = "memory" /\ Memory!Next /\ OthersFrozen
CommitStep == part = "commit" /\ Commits!Next /\ OthersFrozen
AliasStep == part = "alias" /\ Alias!Next /\ OthersFrozen
RegfileStep == part = "regfile" /\ File!Next /\ OthersFrozen
ElementsStep == part = "elements" /\ Encoding!Next /\ OthersFrozen
LanesStep == part = "lanes" /\ Vectors!Next /\ OthersFrozen
IssueStep == part = "issue" /\ Issued!Next /\ OthersFrozen
DetectorsStep == part = "detectors" /\ Detect!Next /\ OthersFrozen
PartNext == OnesStep \/ MemoryStep \/ CommitStep \/ AliasStep \/ RegfileStep \/ ElementsStep \/ LanesStep \/ IssueStep \/ DetectorsStep

partvars == << part, vars, memVars, commitVars, aliasVars, regVars, elemVars, lanesVars, issueVars, detVars >>
PartSpec ==
    /\ PartInit /\ [][PartNext]_partvars

-----------------------------------------------------------------------------
(* The records of a collector list what each word issued, at its PC, in order, and a stop at a
   BREAK waits for its word: nothing pends between runs (CommitCollector). *)
CommitRecordsAreTrue ==
    part = "commit" => Commits!RecordsTellTheTruth /\ Commits!NothingPends

(* What a comment of commit.py says of a word that stopped at its BREAK (CommitCollector). *)
BreakWaitsForItsWord == part = "commit" => Commits!BreakWaitsForItsWord

(* XMEM, whose pages come and go, behaves as one flat array of bytes (XMem). *)
MemoryIsFlat == Memory!IsFlat

(* Two memories are equal exactly when their bytes are (XMem.__eq__); a register file's observer
   knows every byte written since it read, only a kept view outdates the provenance marks, a probe
   that sees ones sees them in storage, and what is packed reads back (RegFile). *)
StorageTellsTheTruth ==
    /\ part = "memory" => Memory!EqualIsByBytes
    /\ part = "regfile" =>
         /\ File!ObserverKnows /\ File!OnlyViewsOutdateMarks
         /\ File!ProbesSeeOnes /\ File!PackedIsFaithful

(* An alias observer's products read what their rows held when the word began, its loads name the
   stores that wrote their rows, and constants are rows no one wrote (AliasObserver). *)
AliasEventsAreTrue ==
    part = "alias" =>
        Alias!SourcesAreLoads /\ Alias!OriginIsTheWriter /\ Alias!ConstantsWereNeverWritten

(* A reread it reports found its row as it was, and a product it tells of is the one the
   accumulator took (AliasObserver). *)
AliasReadsHold == Alias!RereadsAreUnchanged /\ Alias!ProductsAreOfTheAccumulator

(* The shortcuts of a run with prototyping change no lane and no flag a run without them leaves, a
   flag tells of every lane that left its range, masks stay in their groups and strides are row
   major (Lanes); an element encodes to the nearest value of its format, and that value encodes to
   the same code again (Elements). *)
VectorsAreExact ==
    /\ [](part = "lanes" =>
            /\ Vectors!ShortcutsChangeNothing /\ Vectors!FlagsAreComplete
            /\ Vectors!MasksStayInTheirGroups /\ Vectors!StrideIsRowMajor)
    /\ [](part = "elements" => Encoding!EncodesTheNearest /\ Encoding!SpecialsSurvive)
    /\ Encoding!RequantisingIsIdle

(* The idioms an identity multiply stands for partition what is attributed, each names what its
   word did, and both engines count a word alike (Issue). *)
HitsAreTheIdioms ==
    part = "issue" =>
        Issued!HitsPartitionIdentities /\ Issued!HitsNameTheIdiom /\ Issued!SchedulesCountAlike

(* An addressing update is read by the consumer named, a selection selects between the values it
   names, a scale the exponential detector tells of is in its product (Detectors), and the profile
   that collects the detections counts a block its loads read once (AliasObserver). *)
DetectionsAreTrue ==
    /\ Detect!UpdatesFeedTheirConsumers /\ Detect!SelectionsSelect
    /\ [](part = "detectors" => Detect!ProvenScaleIsThere)
    /\ [](part = "alias" => Alias!UniqueReadsAreCountedOnce)
=============================================================================
