-------------------------------- MODULE Isa --------------------------------
(***************************************************************************)
(* What each instruction computes, fault predicates included: the data     *)
(* part of the emulator's slot handlers (ipu_emu/slots) and of its word    *)
(* decoding (ipu_emu/cycle.py).                                            *)
(*                                                                         *)
(* Data abstraction.  A vector register or an XMEM row is one value: lane  *)
(* 0 of it.  LR and CR words, lanes and accumulator lanes are all in       *)
(* 0..Modulus-1 and wrap there.  R_CYCLIC is its slots; an LRD pair has    *)
(* one element per LR (the hardware: four).                                *)
(***************************************************************************)
EXTENDS Integers, Sequences

CONSTANTS
  NLr,         \* LR registers, an even number (LRDn names the pair 2n, 2n+1)
  Cr,          \* the CR words, a sequence: no instruction writes a CR
  Modulus,     \* 2 ^ width of a word
  Lanes,       \* lanes of a vector: the bound of a RESHAPE index
  SlotLanes,   \* R_CYCLIC elements per slot: LD.MULT.CYCLIC's index granule
  Rows,        \* XMEM rows an instruction may address in the active format
  AllocRows,   \* XMEM rows allocated
  StoreRows,   \* rows one ST.AAQ or ST.ACC covers (512 bytes: 4 or 1)
  ImemSize,    \* instruction memory entries
  SubSlots     \* LR sub-slots of a word

ASSUME IsaAssumption ==
  /\ NLr \in Nat \ {0} /\ NLr % 2 = 0
  /\ Modulus \in Nat \ {0} /\ Modulus % 2 = 0
  /\ Cr \in Seq(0..Modulus - 1)
  /\ Lanes \in Nat /\ SlotLanes \in Nat \ {0}
  /\ Rows \in Nat \ {0} /\ StoreRows \in Nat \ {0} /\ AllocRows \in Nat
  /\ Rows + StoreRows - 1 <= AllocRows
  /\ ImemSize \in Nat \ {0} /\ SubSlots \in Nat \ {0}

Value == 0..Modulus - 1
LrIndex == 0..NLr - 1
CyclicSlots == 0..3
RowIndex == 0..AllocRows - 1

RegFile == [lr : [LrIndex -> Value], r : [{0, 1} -> Value], r_cyclic : [CyclicSlots -> Value],
            r_mask : Value, mult_res : Value, r_acc : Value, post_aaq_reg : Value]

Faults == 1..9

Wrap(x) == x % Modulus
ToSigned(v) == IF v >= Modulus \div 2 THEN v - Modulus ELSE v
ClampTop(x, lo, hi) == IF x > hi THEN hi ELSE x          \* (mutant: no lower bound)
Clamp(x, lo, hi) == IF x < lo THEN lo ELSE IF x > hi THEN hi ELSE x

\* An LcrIdx operand: the first NLr codes select an LR, the others a CR.
Lcr(lr, src) == IF src < NLr THEN lr[src] ELSE Cr[src - NLr + 1]

-----------------------------------------------------------------------------
(* Instruction words: what each slot may hold.  A slot whose opcode is       *)
(* undefined, or that holds a reserved operand code, is RESERVED: the word's *)
(* schedule holds a NOP there.                                               *)

NOP == [op |-> "NOP"]
RESERVED == [op |-> "RESERVED"]

CrIndex == 1..Len(Cr)
LcrIndex == 0..NLr + Len(Cr) - 1

LrOps ==
  {NOP} \cup [op : {"SET"}, dest : LrIndex, src : LcrIndex]
    \cup [op : {"ADD", "SUB"}, dest : LrIndex, src_a : LcrIndex, src_b : LcrIndex]
    \cup [op : {"INC", "DEC"}, dest : LrIndex, imm : Value]
    \cup [op : {"INC.MODP2"}, dest : LrIndex, step : LcrIndex, modulus : Nat \ {0}]
    \cup [op : {"ADDB"}, dest : 0..(NLr \div 2) - 1, src_b : LcrIndex]
    \cup [op : {"ADDBI"}, dest : 0..(NLr \div 2) - 1, imm : Value]
LoadOps ==
  {NOP} \cup [op : {"LD.MULT"}, dest : {0, 1}, offset : LrIndex, base : CrIndex]
    \cup [op : {"LD.MULT.CYCLIC"}, offset : LrIndex, base : CrIndex, index : LrIndex]
    \cup [op : {"LD.MASK"}, offset : LrIndex, base : CrIndex]
MultOps ==
  LET Pads == {"zero", "inf"} IN
  {NOP} \cup [op : {"MULT.RC.VV"}, rc_idx : LrIndex, ra : {0, 1}, pad : Pads]
    \cup [op : {"MULT.RC.VS"}, rc_idx : LrIndex, pad : Pads]
    \cup [op : {"MULT.RC.VE"}, rc_idx : LrIndex, src : LcrIndex, pad : Pads]
    \cup [op : {"MULT.VE", "MULT.EE"}, ra_idx : LrIndex, cr_idx : CrIndex, pad : Pads]
AccOps ==
  [op : {"NOP", "ACC.ADD", "ACC.SUB", "ACC.MAX", "ACC.ADD.FIRST", "ACC.SUB.FIRST", "ACC.MAX.FIRST"}]
    \cup [op : {"ACC.STRIDE"}, quarters : 1..4, offset : LrIndex]
    \cup [op : {"ACC.RESHAPE"}, source : 0..(NLr \div 2) - 1, dest : 0..(NLr \div 2) - 1,
          mask_lr : {TRUE}, mask : LrIndex]
    \cup [op : {"ACC.RESHAPE"}, source : 0..(NLr \div 2) - 1, dest : 0..(NLr \div 2) - 1,
          mask_lr : {FALSE}, mask : Nat]
AaqOps == {NOP} \cup [op : {"ACTIVATE.QUANTIZE"}, fn : {"identity", "relu"}]
StoreOps == {NOP} \cup [op : {"ST.AAQ"}, offset : LrIndex, base : CrIndex]
AccStoreOps == {NOP} \cup [op : {"ST.ACC"}, offset : LrIndex, base : CrIndex]
CondOps ==
  [op : {"NOP", "HALT"}] \cup [op : {"BR"}, reg : LcrIndex]
    \cup [op : {"BEQ", "BNE", "BLT.S", "BGE.S"}, reg1 : LcrIndex, reg2 : LcrIndex, label : Nat]
BreakOps == [op : {"NOP", "BREAK"}] \cup [op : {"BREAK.IFEQ"}, reg : LrIndex, value : Value]

\* The words whose slots may also hold `extra`.
WordsWith(extra) ==
  [brk : BreakOps \cup extra, lr : [1..SubSlots -> LrOps \cup extra], load : LoadOps \cup extra,
   mult : MultOps \cup extra, acc : AccOps \cup extra, aaq : AaqOps \cup extra,
   store : StoreOps \cup extra, acc_store : AccStoreOps \cup extra, cond : CondOps \cup extra]
InstWord == WordsWith({RESERVED})
Scheduled == WordsWith({})

DataSlots == {"brk", "load", "mult", "acc", "aaq", "store", "acc_store", "cond"}

NopFor(op) == IF op.op = "RESERVED" THEN NOP ELSE op

\* What the word does (schedule_word), and whether a slot of it is reserved.
Schedule(w) ==
  [s \in DOMAIN w |-> IF s = "lr" THEN [i \in 1..SubSlots |-> NopFor(w.lr[i])] ELSE NopFor(w[s])]
Reserved(w) ==
  \/ \E s \in DataSlots : w[s].op = "RESERVED"
  \/ \E i \in 1..SubSlots : w.lr[i].op = "RESERVED"

-----------------------------------------------------------------------------
(* The LR slot *)

\* The LRs a sub-slot writes: none, one, or an LRD pair.
LrTargets(op) ==
  CASE op.op = "NOP" -> {}
    [] op.op \in {"ADDB", "ADDBI"} -> {2 * op.dest, 2 * op.dest + 1}
    [] OTHER -> {op.dest}

\* The value sub-slot `op` gives LR `l`, one of its targets, reading from `lr`.
LrResult(op, l, lr) ==
  CASE op.op = "SET" -> Lcr(lr, op.src)
    [] op.op = "ADD" -> Wrap(Lcr(lr, op.src_a) + Lcr(lr, op.src_b))
    [] op.op = "SUB" -> Wrap(Lcr(lr, op.src_a) - Lcr(lr, op.src_b))
    [] op.op = "INC" -> Wrap(lr[l] + op.imm)
    [] op.op = "DEC" -> Wrap(lr[l] - op.imm)
    [] op.op = "INC.MODP2" -> Wrap(lr[l] + Lcr(lr, op.step)) % op.modulus
    [] op.op = "ADDB" -> Clamp(lr[l] + ToSigned(Lcr(lr, op.src_b)), 0, Modulus - 1)
    [] op.op = "ADDBI" -> Clamp(lr[l] + ToSigned(op.imm), 0, Modulus - 1)

\* Two sub-slots of the word write the same LR (F-3).
LrConflict(w) ==
  \E i, j \in 1..SubSlots : i # j /\ LrTargets(w.lr[i]) \cap LrTargets(w.lr[j]) # {}

-----------------------------------------------------------------------------
(* Addresses and their faults; an op's LRs are the ones it is given *)

Row(op, lr) == lr[op.offset] + Cr[op.base]
RowFault(op, lr) == Row(op, lr) >= Rows
BadCyclicIndex(op, lr) == lr[op.index] \notin {SlotLanes * s : s \in CyclicSlots}

ReshapeCount == 2
ReshapeMask(op, lr) == IF op.mask_lr THEN lr[op.mask] ELSE op.mask
BadReshape(op, lr) ==
  \/ ReshapeMask(op, lr) > ReshapeCount
  \/ \E i \in ReshapeMask(op, lr)..ReshapeCount - 1 :
       lr[2 * op.source + i] >= Lanes \/ lr[2 * op.dest + i] >= Lanes

\* The fault numbers each slot's check_<name> predicate reports.
LoadFault(op, lr) ==
  CASE op.op = "NOP" -> {}
    [] op.op = "LD.MULT.CYCLIC" /\ BadCyclicIndex(op, lr) -> {4}
    [] OTHER -> IF RowFault(op, lr) THEN {6} ELSE {}
AccFault(op, lr) == IF op.op = "ACC.RESHAPE" /\ BadReshape(op, lr) THEN {5} ELSE {}
StoreFault(op, lr) == IF op.op # "NOP" /\ RowFault(op, lr) THEN {6} ELSE {}

\* Every fault the word's check phase can see, with the LRs after the LR slot.
CheckFaults(w, lr) ==
  LoadFault(w.load, lr) \cup AccFault(w.acc, lr)
    \cup StoreFault(w.store, lr) \cup StoreFault(w.acc_store, lr)

-----------------------------------------------------------------------------
(* The data slots *)

\* The registers LOAD writes, as an update of the file `f`.
Loaded(op, f, lr, mem) ==
  CASE op.op = "NOP" -> f
    [] op.op = "LD.MULT" -> [f EXCEPT !.r[op.dest] = mem[Row(op, lr)]]
    [] op.op = "LD.MULT.CYCLIC" ->
         [f EXCEPT !.r_cyclic[lr[op.index] \div SlotLanes] = mem[Row(op, lr)]]
    [] op.op = "LD.MASK" -> [f EXCEPT !.r_mask = mem[Row(op, lr)]]

\* Lane 0 of the R_CYCLIC window and of the R0 ++ R1 window at an element index.
CyclicLane(ring, index) == ring[(index \div SlotLanes) % 4]
RaLane(r, index) == r[(index \div SlotLanes) % 2]

\* An LcrIdx multiplicand: an LR selects an element of Ra, a CR is the scalar.
Scalar(op, lr, r) == IF op.src < NLr THEN RaLane(r, lr[op.src]) ELSE Cr[op.src - NLr + 1]

Product(op, lr, r, ring) ==
  CASE op.op = "MULT.RC.VV" -> Wrap(CyclicLane(ring, lr[op.rc_idx]) * r[op.ra])
    [] op.op = "MULT.RC.VS" -> LET x == CyclicLane(ring, lr[op.rc_idx]) IN Wrap(x * x)
    [] op.op = "MULT.RC.VE" -> Wrap(CyclicLane(ring, lr[op.rc_idx]) * Scalar(op, lr, r))
    [] op.op \in {"MULT.VE", "MULT.EE"} -> Wrap(RaLane(r, lr[op.ra_idx]) * Cr[op.cr_idx])

\* An infinite pad value has no encoding in an integer accumulator: the handler
\* raises after it stored the product.
MultRaises(op, mask) == op.op # "NOP" /\ mask = 0 /\ op.pad = "inf"

\* MULT_RES after the handler: the product, or the pad value of a masked lane.
Multiplied(op, lr, r, ring, mask, old) ==
  IF op.op = "NOP" THEN old
  ELSE IF mask = 0 /\ op.pad = "zero" THEN 0 ELSE Product(op, lr, r, ring)

\* ACC.STRIDE keeps `quarters` quarters of MULT_RES and writes them from quarter
\* offset % 4; a result past R_ACC's end raises before any lane is written.
StrideRaises(op, lr) == op.op = "ACC.STRIDE" /\ op.quarters > 4 - (lr[op.offset] % 4)

Accumulated(op, lr, res, acc) ==
  CASE op.op = "NOP" -> acc
    [] op.op = "ACC.ADD" -> Wrap(acc + res)
    [] op.op = "ACC.SUB" -> Wrap(acc - res)
    [] op.op = "ACC.MAX" -> IF ToSigned(res) > ToSigned(acc) THEN res ELSE acc
    [] op.op \in {"ACC.ADD.FIRST", "ACC.MAX.FIRST", "ACC.STRIDE"} -> res
    [] op.op = "ACC.SUB.FIRST" -> Wrap(0 - res)
    [] op.op = "ACC.RESHAPE" -> IF ReshapeMask(op, lr) < ReshapeCount THEN res ELSE acc

\* ACTIVATE.QUANTIZE: activation, then the clamp to half the accumulator's width.
QuantMax == (Modulus \div 2) \div 2
Quantized(op, acc, post) ==
  CASE op.op = "NOP" -> post
    [] op.op = "ACTIVATE.QUANTIZE" ->
         LET y == IF op.fn = "relu" /\ ToSigned(acc) < 0 THEN 0 ELSE ToSigned(acc)
         IN Wrap(Clamp(y, 0 - QuantMax, QuantMax))

\* XMEM after a store: ST.AAQ's rows past the first are POST_AAQ_REG's zeros,
\* ST.ACC's are all R_ACC.
Stored(op, lr, mem, first, rest) ==
  IF op.op = "NOP" THEN mem
  ELSE [a \in RowIndex |->
          IF a = Row(op, lr) THEN first
          ELSE IF a > Row(op, lr) /\ a < Row(op, lr) + StoreRows THEN rest
          ELSE mem[a]]

-----------------------------------------------------------------------------
(* The BREAK and COND slots *)

\* BREAK fires, on the LRs of the cycle's snapshot.
Breaks(w, lr) ==
  \/ w.brk.op = "BREAK"
  \/ w.brk.op = "BREAK.IFEQ" /\ lr[w.brk.reg] = w.brk.value

\* The PC after the COND slot; HALT moves it past instruction memory.
NextPc(op, lr, pc) ==
  LET branch(taken) == IF taken THEN op.label ELSE pc + 1 IN
  CASE op.op = "NOP" -> pc + 1
    [] op.op = "BEQ" -> branch(Lcr(lr, op.reg1) = Lcr(lr, op.reg2))
    [] op.op = "BNE" -> branch(Lcr(lr, op.reg1) # Lcr(lr, op.reg2))
    [] op.op = "BLT.S" -> branch(ToSigned(Lcr(lr, op.reg1)) < ToSigned(Lcr(lr, op.reg2)))
    [] op.op = "BGE.S" -> branch(ToSigned(Lcr(lr, op.reg1)) >= ToSigned(Lcr(lr, op.reg2)))
    [] op.op = "BR" -> Lcr(lr, op.reg)
    [] op.op = "HALT" -> ImemSize

=============================================================================
