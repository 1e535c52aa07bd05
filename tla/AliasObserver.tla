--------------------------- MODULE AliasObserver ---------------------------
(***************************************************************************)
(* The alias profiler's provenance (ipu_emu/alias_observer.py) and the     *)
(* detectors that read it: what a load's bytes came from, which loads a    *)
(* multiply's operands are, and which accumulator a stored row holds.  The *)
(* observer is told of every op, register write and XMEM access between    *)
(* the steps of a word, and the host writes between words.                 *)
(*                                                                         *)
(* Data are tags: a block holds the accumulator value it was made from, so *)
(* equal bytes are bytes of one origin unless the host repeats them.       *)
(***************************************************************************)
EXTENDS Integers, Sequences, FiniteSets, SequencesExt

CONSTANTS
    Blocks,      \* blocks of XMEM_WIDTH_BYTES in XMEM
    StoreBlocks, \* blocks of POST_AAQ_REG
    RowSizes,    \* blocks of a row in each element format
    RegRows,     \* rows of R and of the ring, << bank, index >>
    Words,       \* the words run: sequences of ops
    Host,        \* what the host does between words
    MaxCycles, MaxHost   \* words run, and steps of the host, at most

VARIABLES
    \* the machine: the format's row size, XMEM, registers and the cycle-start snapshot
    fmt, mem, regs, r_acc, post_aaq_reg, snap,
    todo,        \* the ops left of the word, or Idle
    halted,
    \* ExecutionObserver
    rows, snapshot_rows, stores, memory_versions, memory_epoch, cleared_epoch, last_reads,
    acc, mult, post, current, next_id,
    exported,    \* RegFile._mutable_exports: banks raw() gave out
    event,       \* the event emitted last
    found,       \* the matches it gave
    \* history: who last wrote each block and loaded each row, and the regions read since written
    writer, loaded, snap_loaded, unchanged,
    cycles, hosts

machine == << fmt, mem, regs, r_acc, post_aaq_reg >>
registers == << rows, acc, mult, post >>
memory == << stores, memory_versions, memory_epoch, cleared_epoch >>
history == << writer, loaded, unchanged >>
word == << todo, snap, snapshot_rows, snap_loaded, cycles >>
emitted == << event, found, next_id >>
vars == << machine, registers, memory, history, word, emitted, halted, last_reads, current, exported, hosts >>

Idle == << [slot |-> "idle"] >>
None == [id |-> 0]
Setup == -1      \* written before the observer was attached
Blk == 0..Blocks - 1
Rows == 0..(Blocks \div fmt) - 1
Zero == << 0, "zero", 0 >>
Bank(r) == r[1]
R_ACC == << "r_acc", 0 >>
POST_AAQ_REG == << "post_aaq_reg", 0 >>
MULT_RES == << "mult_res", 0 >>
Span(a, n) == a..a + n - 1
RowData(m, at) == [i \in 0..fmt - 1 |-> m[at * fmt + i]]
Without(f, S) == [x \in DOMAIN f \ S |-> f[x]]
Put(f, S, v) == [x \in DOMAIN f \union S |-> IF x \in S THEN v ELSE f[x]]

(* The ops of words are the slots' own; a word that loads or stores has its rows checked first,
   and loads into rows the profiler knows. *)
SlotNames == {"lr", "check", "load", "mult", "acc", "aaq", "store"}
RowSlots == {"load", "store"}
AliasAssumption ==
    /\ Blocks \in Nat /\ StoreBlocks \in Nat \ {0} /\ RowSizes \subseteq Nat \ {0}
    /\ Words \subseteq Seq(UNION {{w[i] : i \in DOMAIN w} : w \in Words})
    /\ \A w \in Words : \A i \in DOMAIN w :
          /\ w[i].slot \in SlotNames
          /\ w[i].slot \in RowSlots => w[i].at \in Nat /\ \E j \in 1..i - 1 : w[j].slot = "check"
          /\ w[i].slot = "load" => w[i].row \in RegRows

Init ==
    /\ fmt \in RowSizes
    /\ mem = [b \in Blk |-> << 0, "data", b >>]
    /\ regs = [r \in RegRows |-> << >>] /\ r_acc = 0 /\ post_aaq_reg = << 0, "zero" >>
    /\ snap = regs /\ todo = Idle /\ halted = FALSE
    /\ rows = << >> /\ snapshot_rows = << >>
    /\ stores = << >> /\ memory_versions = << >> /\ memory_epoch = 0 /\ cleared_epoch = 0
    /\ last_reads = << >>
    /\ acc = None /\ mult = None /\ post = None /\ current = FALSE /\ next_id = 0
    /\ exported = {} /\ event = None /\ found = {}
    /\ writer = [b \in Blk |-> Setup]
    /\ loaded = [r \in RegRows |-> 0] /\ snap_loaded = loaded /\ unchanged = {}
    /\ cycles = 0 /\ hosts = 0

-----------------------------------------------------------------------------
(* register_write and memory: what the observer is told of registers and XMEM. *)

(* Outside an op, a write of a register is the host's, and ends what was known of it. *)
register_write(names) ==
    /\ rows' = Without(rows, names)
    /\ acc' = IF R_ACC \in names /\ ~current THEN None ELSE acc
    /\ post' = IF POST_AAQ_REG \in names /\ ~current THEN None ELSE post
    /\ mult' = IF MULT_RES \in names /\ ~current THEN None ELSE mult
    /\ loaded' = [r \in RegRows |-> IF r \in names THEN 0 ELSE loaded[r]]

(* `stored' is the store whose finish records the blocks it wrote; none for the host's writes. *)
written(span, stored, by) ==
    /\ memory_epoch' = memory_epoch + 1
    /\ memory_versions' = Put(memory_versions, span, memory_epoch + 1)
    /\ stores' = IF stored = None THEN Without(stores, span) ELSE Put(stores, span, stored)
    /\ writer' = [b \in Blk |-> IF b \in span THEN by ELSE writer[b]]
    /\ unchanged' = {r \in unchanged : Span(r[1], r[2]) \cap span = {}}
    /\ UNCHANGED cleared_epoch

cleared ==
    /\ memory_epoch' = memory_epoch + 1
    /\ cleared_epoch' = memory_epoch + 1
    /\ stores' = << >> /\ memory_versions' = << >>
    /\ writer' = [b \in Blk |-> 0]
    /\ unchanged' = {}

(* The store that wrote every byte of a span, if one did. *)
OriginOf(span, a, n) ==
    IF a \in DOMAIN stores /\ \A b \in span : b \in DOMAIN stores /\ stores[b] = stores[a]
       /\ stores[a].a <= a /\ a + n <= stores[a].a + StoreBlocks
    THEN stores[a] ELSE None

(* (mutant: a clear is not the version of the blocks it left) *)
VersionOfWrites(b) == IF b \in DOMAIN memory_versions THEN memory_versions[b] ELSE 0
VersionOf(b) == IF b \in DOMAIN memory_versions THEN memory_versions[b] ELSE cleared_epoch

-----------------------------------------------------------------------------
(* The detectors (alias_detectors.py). *)

(* transfer: a load of the first row a store wrote, of an accumulator it only moved. *)
Transfer(load) == load.origin # None /\ load.origin.post # None /\ load.origin.post.identity /\ load.a = load.origin.a

Moved(load) == IF Transfer(load) THEN {<< "A8_MOV_ACC", load.origin.post.id, load.origin.id >>} ELSE {}
Reread(load) == IF load.previous THEN {<< "A14_MULTIPLE_ACC", load.id, 0 >>} ELSE {}

(* AccMultiply: the accumulator restarted from a product of itself, moved through XMEM. *)
AccMultiply(e) ==
    IF e.first /\ e.mult # None /\ ~e.mult.identity /\ e.mult.whole
    THEN {<< "A11_ACC_MUL", s.origin.post.acc, s.id >> :
            s \in {t \in e.mult.sources : Transfer(t) /\ t.origin.post.acc # 0 /\ t.origin.post.acc = e.previous_acc_id}}
    ELSE {}

(* to_dict: the blocks read at least once, of the regions in order of address and size. *)
Regions == SetToSortSeq(DOMAIN last_reads, LAMBDA r, q : r[1] < q[1] \/ (r[1] = q[1] /\ r[2] < q[2]))
Larger(a, b) == IF a > b THEN a ELSE b
UniqueReads ==
    FoldLeft(LAMBDA sum, r : [bytes |-> sum.bytes + Larger(0, r[1] + r[2] - Larger(r[1], sum.end)),
                              end |-> Larger(sum.end, r[1] + r[2])],
             [bytes |-> 0, end |-> 0], Regions).bytes

-----------------------------------------------------------------------------
(* One op of a word: issued, its handler's effects, retired. *)

Op == Head(todo)
Retire(e, matches) ==
    /\ event' = e /\ found' = matches
    /\ next_id' = next_id + 1
    /\ current' = FALSE
    /\ todo' = Tail(todo)
    /\ UNCHANGED << snap, snapshot_rows, snap_loaded, cycles, halted, exported, hosts >>

Lr ==
    /\ Retire([id |-> next_id + 1, slot |-> "lr"], {})
    /\ UNCHANGED << machine, registers, memory, history, last_reads >>

(* (mutant: the bytes of the row are taken on trust) *)
WindowTrusted(reads) == {snapshot_rows[r] : r \in {q \in reads \cap DOMAIN snapshot_rows : Bank(q) \notin exported}}
(* The loads a multiply's operands are: of what the rows held when the word began. *)
Window(reads) ==
    {snapshot_rows[r] : r \in {q \in reads \cap DOMAIN snapshot_rows :
                                 Bank(q) \notin exported /\ snap[q] = snapshot_rows[q].data}}

Load ==
    LET at == Op.at * fmt
        span == Span(at, fmt)
        versions == [b \in span |-> VersionOf(b)]
        region == << at, fmt >>
        e == [id |-> next_id + 1, slot |-> "load", row |-> Op.row, a |-> at, data |-> RowData(mem, Op.at),
              origin |-> OriginOf(span, at, fmt),
              previous |-> region \in DOMAIN last_reads /\ last_reads[region] = versions,
              declared |-> \A b \in span : versions[b] = 0] IN
    /\ regs' = [regs EXCEPT ![Op.row] = e.data]
    /\ rows' = Put(rows, {Op.row}, e)
    /\ loaded' = [loaded EXCEPT ![Op.row] = e.id]
    /\ last_reads' = Put(last_reads, {region}, versions)
    /\ unchanged' = unchanged \union {region}
    /\ Retire(e, Moved(e) \union Reread(e))
    /\ UNCHANGED << fmt, mem, r_acc, post_aaq_reg, acc, mult, post, memory, writer >>

Mult ==
    LET e == [id |-> next_id + 1, slot |-> "mult", sources |-> Window(Op.reads), whole |-> Op.whole,
              identity |-> Op.identity] IN
    /\ mult' = e
    /\ Retire(e, {})
    /\ UNCHANGED << machine, memory, history, rows, acc, post, last_reads >>

Acc ==
    LET e == [id |-> next_id + 1, slot |-> "acc", first |-> Op.first, mult |-> mult, previous_acc_id |-> acc.id] IN
    /\ r_acc' = e.id
    /\ acc' = [id |-> e.id]
    /\ Retire(e, AccMultiply(e))
    /\ UNCHANGED << fmt, mem, regs, post_aaq_reg, memory, history, rows, mult, post, last_reads >>

Aaq ==
    LET e == [id |-> next_id + 1, slot |-> "aaq", identity |-> Op.identity, acc |-> acc.id] IN
    /\ post_aaq_reg' = << r_acc, IF Op.identity THEN "moved" ELSE "computed" >>
    /\ post' = e
    /\ Retire(e, {})
    /\ UNCHANGED << fmt, mem, regs, r_acc, memory, history, rows, acc, mult, last_reads >>

Fits(at) == at * fmt + StoreBlocks <= Blocks

Store ==
    LET at == Op.at * fmt
        e == [id |-> next_id + 1, slot |-> "store", a |-> at, post |-> post]
        span == Span(at, StoreBlocks) IN
    /\ Fits(Op.at)
    /\ mem' = [b \in Blk |-> IF b \in span THEN << post_aaq_reg[1], post_aaq_reg[2], b - at >> ELSE mem[b]]
    /\ written(span, e, e.id)
    /\ Retire(e, {})
    /\ UNCHANGED << fmt, regs, r_acc, post_aaq_reg, registers, loaded, last_reads >>

(* POST_AAQ_REG does not fit: write_address raises in the op, which is never retired. *)
StoreRaises ==
    /\ ~Fits(Op.at)
    /\ todo' = Idle /\ halted' = TRUE /\ current' = TRUE
    /\ UNCHANGED << machine, registers, memory, history, emitted, last_reads, exported, snap, snapshot_rows,
                    snap_loaded, cycles, hosts >>

(* Cycle._check, after the LR sub-slots have retired: a row outside XMEM stops the word. *)
RowOps == {i \in 1..Len(todo) : todo[i].slot \in RowSlots}
Check ==
    /\ IF \A i \in RowOps : todo[i].at \in Rows
       THEN todo' = Tail(todo) /\ UNCHANGED halted
       ELSE todo' = Idle /\ halted' = TRUE
    /\ UNCHANGED << machine, registers, memory, history, emitted, last_reads, current, exported, snap,
                    snapshot_rows, snap_loaded, cycles, hosts >>

Execute ==
    /\ todo \notin {Idle, << >>}
    /\ \/ Op.slot = "lr" /\ Lr
       \/ Op.slot = "check" /\ Check
       \/ Op.slot = "load" /\ Load
       \/ Op.slot = "mult" /\ Mult
       \/ Op.slot = "acc" /\ Acc
       \/ Op.slot = "aaq" /\ Aaq
       \/ Op.slot = "store" /\ (Store \/ StoreRaises)

begin(w) ==
    /\ todo = Idle /\ ~halted /\ cycles < MaxCycles
    /\ todo' = w /\ cycles' = cycles + 1
    /\ snap' = regs /\ snapshot_rows' = rows /\ snap_loaded' = loaded
    /\ UNCHANGED << machine, registers, memory, history, emitted, halted, last_reads, current, exported, hosts >>

end ==
    /\ todo = << >>
    /\ todo' = Idle /\ next_id' = next_id + 1
    /\ event' = None /\ found' = {}
    /\ UNCHANGED << machine, registers, memory, history, halted, last_reads, current, exported, snap,
                    snapshot_rows, snap_loaded, cycles, hosts >>

-----------------------------------------------------------------------------
(* The host, between words. *)

Between ==
    /\ todo = Idle /\ hosts < MaxHost
    /\ hosts' = hosts + 1
    /\ event' = None /\ found' = {} /\ UNCHANGED << next_id, todo, snap, snapshot_rows, snap_loaded, cycles >>

(* A block written with other bytes or with the ones it holds. *)
WriteXmem(b) ==
    /\ "xmem" \in Host
    /\ Between
    /\ mem' \in {mem, [mem EXCEPT ![b] = Zero]}
    /\ written({b}, None, 0)
    /\ UNCHANGED << fmt, regs, r_acc, post_aaq_reg, registers, loaded, halted, last_reads, current, exported >>

(* A register row set through an accessor, or poked through a view mutable() gave out before. *)
WriteRow(r) ==
    /\ "row" \in Host
    /\ Between
    /\ regs' \in {regs, [regs EXCEPT ![r] = << >>]}
    /\ \/ register_write({r})
       \/ UNCHANGED << registers, loaded >>
    /\ UNCHANGED << fmt, mem, r_acc, post_aaq_reg, memory, writer, unchanged, halted, last_reads, current, exported >>

(* raw() gives out a bank's bytearray. *)
Export(b) ==
    /\ "raw" \in Host
    /\ Between
    /\ exported' = exported \union {b}
    /\ UNCHANGED << machine, registers, memory, history, halted, last_reads, current >>

WriteAcc ==
    /\ "acc" \in Host
    /\ Between
    /\ r_acc' = 0
    /\ register_write({R_ACC})
    /\ UNCHANGED << fmt, mem, regs, post_aaq_reg, memory, writer, unchanged, halted, last_reads, current, exported >>

(* IpuState.reset: every register is copied over, XMEM cleared, and the observers kept. *)
reset ==
    /\ "reset" \in Host
    /\ Between
    /\ fmt' \in RowSizes
    /\ regs' = [r \in RegRows |-> << >>] /\ r_acc' = 0 /\ post_aaq_reg' = << 0, "zero" >>
    /\ register_write(RegRows \union {R_ACC, POST_AAQ_REG, MULT_RES})
    /\ mem' = [b \in Blk |-> Zero]
    /\ cleared
    /\ halted' = FALSE
    /\ UNCHANGED << last_reads, current, exported >>

HostSteps ==
    \/ \E b \in Blk : WriteXmem(b)
    \/ \E r \in RegRows : WriteRow(r) \/ Export(Bank(r))
    \/ WriteAcc
    \/ reset

Next ==
    \/ \E w \in Words : begin(w)
    \/ Execute
    \/ end
    \/ HostSteps

Spec == Init /\ [][Next]_vars

-----------------------------------------------------------------------------
(* A multiply's sources are loads: each is the last thing the profiler saw put in its row before
   the word began, and the row still held its bytes, whatever the word's own load, the host or a
   view it kept did to the row (window). *)
SourcesAreLoads ==
    event # None /\ event.slot = "mult" =>
        \A s \in event.sources : snap_loaded[s.row] = s.id /\ snap[s.row] = s.data

(* A load's origin is the store that last wrote every block it read, and there is none exactly
   when no one store did: a host's write, a clear or a later store of part of the row ends it
   (memory, the tables `stores'). *)
OriginIsTheWriter ==
    event # None /\ event.slot = "load" =>
        LET by == {writer[b] : b \in Span(event.a, fmt)} IN
        IF by \subseteq Nat \ {0} /\ Cardinality(by) = 1 THEN by = {event.origin.id} ELSE event.origin = None

(* A row is a constant of the run exactly when nobody wrote any of it, cleared it or reset it
   since the profiler was attached (finish: `declared'). *)
ConstantsWereNeverWritten ==
    event # None /\ event.slot = "load" =>
        (event.declared <=> \A b \in Span(event.a, fmt) : writer[b] = Setup)

(* A load is a repeated read exactly when its region was read before and not written, filled,
   cleared or reset since (finish: the versions of last_reads). *)
RereadsAreUnchanged ==
    [][event' # event /\ event' # None /\ event'.slot = "load" =>
         (event'.previous <=> << event'.a, fmt >> \in unchanged)]_vars

(* The comment of finish: the observer keeps "the latest accumulator producer". *)
AccIsTheLatestProducer == acc # None => acc.id = r_acc

(* An accumulator multiply is one: the row the product read held what the accumulator, as it
   stands before the restart, was when it was moved to XMEM (AccMultiply).  Where the accumulator
   is not the producer's (after an op that raised, see current), what is kept of it is of no use. *)
ProductsAreOfTheAccumulator ==
    [][AccIsTheLatestProducer =>
         \A m \in found' \ found : m[1] = "A11_ACC_MUL" =>
           \E s \in mult.sources :
              /\ s.id = m[3]
              /\ s.data = [i \in 0..fmt - 1 |-> << r_acc, "moved", i >>]]_vars

(* The report counts every block of XMEM a load read once, however the regions overlap (to_dict). *)
UniqueReadsAreCountedOnce ==
    UniqueReads = Cardinality(UNION {Span(r[1], r[2]) : r \in DOMAIN last_reads})

(* "Detectors consume completed execution events" (alias_profile.py): no event of a word that had
   no effect. *)
EventsAreCompleted == halted /\ ~current => event = None
=============================================================================
