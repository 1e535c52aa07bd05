--------------------------- MODULE Machine_proofs ---------------------------
(***************************************************************************)
(* Lemmas about the operators of Isa, and the types of Machine: what each  *)
(* instruction computes stays in the machine's types, and so does what a   *)
(* whole word leaves, for every register width and every word.             *)
(***************************************************************************)
EXTENDS Machine, TLAPS

LrFile == [LrIndex -> Value]
Memory == [RowIndex -> Value]

LEMMA WrapValue == \A x \in Int : Wrap(x) \in Value
BY IsaAssumption DEF Wrap, Value

LEMMA ToSignedInt == \A v \in Value : ToSigned(v) \in Int
BY IsaAssumption DEF ToSigned, Value

LEMMA CrValue == \A i \in CrIndex : Cr[i] \in Value
BY IsaAssumption DEF CrIndex, Value

LEMMA LcrValue == \A lr \in LrFile, src \in LcrIndex : Lcr(lr, src) \in Value
BY IsaAssumption DEF Lcr, LrFile, LcrIndex, LrIndex, Value

\* The operands of an LR sub-slot, by mnemonic.
LEMMA LrFields ==
  ASSUME NEW op \in LrOps
  PROVE  \/ op.op = "NOP"
         \/ op.op = "SET" /\ op.dest \in LrIndex /\ op.src \in LcrIndex
         \/ op.op \in {"ADD", "SUB"} /\ op.dest \in LrIndex /\ op.src_a \in LcrIndex /\ op.src_b \in LcrIndex
         \/ op.op \in {"INC", "DEC"} /\ op.dest \in LrIndex /\ op.imm \in Value
         \/ op.op = "INC.MODP2" /\ op.dest \in LrIndex /\ op.step \in LcrIndex /\ op.modulus \in Nat \ {0}
         \/ op.op = "ADDB" /\ op.dest \in 0..(NLr \div 2) - 1 /\ op.src_b \in LcrIndex
         \/ op.op = "ADDBI" /\ op.dest \in 0..(NLr \div 2) - 1 /\ op.imm \in Value
<1>1. CASE op \in {NOP}
  BY <1>1 DEF NOP
<1>2. CASE op \in [op : {"SET"}, dest : LrIndex, src : LcrIndex]
  BY <1>2
<1>3. CASE op \in [op : {"ADD", "SUB"}, dest : LrIndex, src_a : LcrIndex, src_b : LcrIndex]
  BY <1>3
<1>4. CASE op \in [op : {"INC", "DEC"}, dest : LrIndex, imm : Value]
  BY <1>4
<1>5. CASE op \in [op : {"INC.MODP2"}, dest : LrIndex, step : LcrIndex, modulus : Nat \ {0}]
  BY <1>5
<1>6. CASE op \in [op : {"ADDB"}, dest : 0..(NLr \div 2) - 1, src_b : LcrIndex]
  BY <1>6
<1>7. CASE op \in [op : {"ADDBI"}, dest : 0..(NLr \div 2) - 1, imm : Value]
  BY <1>7
<1>8. QED
  BY <1>1, <1>2, <1>3, <1>4, <1>5, <1>6, <1>7, Zenon DEF LrOps

LEMMA LrTargetsAreLrs ==
  ASSUME NEW op \in LrOps
  PROVE  LrTargets(op) \subseteq LrIndex
<1>1. \A p \in 0..(NLr \div 2) - 1 : 2 * p \in LrIndex /\ 2 * p + 1 \in LrIndex
  BY IsaAssumption DEF LrIndex
<1>2. QED
  BY <1>1, LrFields DEF LrTargets

\* What an LR sub-slot writes is an LR value.
LEMMA LrResultValue ==
  ASSUME NEW op \in LrOps, NEW l \in LrTargets(op), NEW lr \in LrFile
  PROVE  LrResult(op, l, lr) \in Value
<1>1. l \in LrIndex /\ lr[l] \in Value /\ lr[l] \in Int /\ Value \subseteq Int
  BY LrTargetsAreLrs, IsaAssumption DEF LrFile, Value
<1>2. CASE op.op = "NOP"
  BY <1>2 DEF LrTargets
<1>3. CASE op.op = "SET"
  BY <1>3, LrFields, LcrValue DEF LrResult
<1>4. CASE op.op \in {"ADD", "SUB"}
  <2>1. op.src_a \in LcrIndex /\ op.src_b \in LcrIndex
    BY <1>4, LrFields
  <2>2. Lcr(lr, op.src_a) \in Int /\ Lcr(lr, op.src_b) \in Int
    BY <2>1, LcrValue, <1>1
  <2>3. Wrap(Lcr(lr, op.src_a) + Lcr(lr, op.src_b)) \in Value
        /\ Wrap(Lcr(lr, op.src_a) - Lcr(lr, op.src_b)) \in Value
    BY <2>2, WrapValue
  <2>4. QED
    BY <1>4, <2>3 DEF LrResult
<1>5. CASE op.op \in {"INC", "DEC"}
  <2>1. op.imm \in Int
    BY <1>5, <1>1, LrFields
  <2>2. Wrap(lr[l] + op.imm) \in Value /\ Wrap(lr[l] - op.imm) \in Value
    BY <2>1, <1>1, WrapValue
  <2>3. QED
    BY <1>5, <2>2 DEF LrResult
<1>6. CASE op.op = "INC.MODP2"
  <2>1. op.step \in LcrIndex /\ op.modulus \in Nat \ {0}
    BY <1>6, LrFields
  <2>2. Lcr(lr, op.step) \in Int
    BY <2>1, LcrValue, <1>1
  <2>3. Wrap(lr[l] + Lcr(lr, op.step)) \in Value
    BY <1>1, <2>2, WrapValue
  <2>4. \A v \in Value, m \in Nat \ {0} : v % m \in Value
    BY IsaAssumption DEF Value
  <2>5. QED
    BY <1>6, <2>1, <2>3, <2>4 DEF LrResult
<1>7. \A v \in Value : Clamp(lr[l] + ToSigned(v), 0, Modulus - 1) \in Value
  BY <1>1, ToSignedInt, IsaAssumption DEF Clamp, Value
<1>8. CASE op.op = "ADDB"
  <2>1. Lcr(lr, op.src_b) \in Value
    BY <1>8, LrFields, LcrValue
  <2>2. QED
    BY <1>7, <1>8, <2>1 DEF LrResult
<1>9. CASE op.op = "ADDBI"
  BY <1>7, <1>9, LrFields DEF LrResult
<1>10. QED
  BY <1>2, <1>3, <1>4, <1>5, <1>6, <1>8, <1>9, LrFields

\* The operands of the data slots, by mnemonic.
LEMMA LoadFields ==
  ASSUME NEW op \in LoadOps
  PROVE  \/ op.op = "NOP"
         \/ op.op = "LD.MULT" /\ op.dest \in {0, 1} /\ op.offset \in LrIndex /\ op.base \in CrIndex
         \/ op.op = "LD.MULT.CYCLIC" /\ op.offset \in LrIndex /\ op.base \in CrIndex /\ op.index \in LrIndex
         \/ op.op = "LD.MASK" /\ op.offset \in LrIndex /\ op.base \in CrIndex
<1>1. CASE op \in {NOP}
  BY <1>1 DEF NOP
<1>2. CASE op \in [op : {"LD.MULT"}, dest : {0, 1}, offset : LrIndex, base : CrIndex]
  BY <1>2
<1>3. CASE op \in [op : {"LD.MULT.CYCLIC"}, offset : LrIndex, base : CrIndex, index : LrIndex]
  BY <1>3
<1>4. CASE op \in [op : {"LD.MASK"}, offset : LrIndex, base : CrIndex]
  BY <1>4
<1>5. QED
  BY <1>1, <1>2, <1>3, <1>4, Zenon DEF LoadOps

\* An address that does not fault is a row of XMEM, with the rows a store covers.
LEMMA RowInXmem ==
  ASSUME NEW lr \in LrFile, NEW op, op.offset \in LrIndex, op.base \in CrIndex, ~RowFault(op, lr)
  PROVE  Row(op, lr) \in RowIndex
<1>1. Row(op, lr) \in Nat
  BY CrValue DEF Row, LrFile, Value
<1>2. Row(op, lr) < Rows
  BY <1>1, IsaAssumption DEF RowFault
<1>3. QED
  BY <1>1, <1>2, IsaAssumption DEF RowIndex

\* LOAD keeps the register file in its type when its check found no fault.
LEMMA LoadedType ==
  ASSUME NEW op \in LoadOps, NEW f \in RegFile, NEW lr \in LrFile, NEW mem \in Memory,
         LoadFault(op, lr) = {}
  PROVE  Loaded(op, f, lr, mem) \in RegFile
<1>1. CASE op.op = "NOP"
  BY <1>1 DEF Loaded
<1>2. CASE op.op # "NOP"
  <2>1. op.offset \in LrIndex /\ op.base \in CrIndex
    BY <1>2, LoadFields
  <2>2. ~RowFault(op, lr)
    BY <1>2 DEF LoadFault
  <2>3. mem[Row(op, lr)] \in Value
    BY <2>1, <2>2, RowInXmem DEF Memory
  <2>4. CASE op.op = "LD.MULT"
    BY <2>3, <2>4, LoadFields DEF Loaded, RegFile
  <2>5. CASE op.op = "LD.MASK"
    BY <2>3, <2>5 DEF Loaded, RegFile
  <2>6. CASE op.op = "LD.MULT.CYCLIC"
    <3>1. ~BadCyclicIndex(op, lr)
      BY <2>6 DEF LoadFault
    <3>2. PICK s \in CyclicSlots : lr[op.index] = SlotLanes * s
      BY <3>1 DEF BadCyclicIndex
    <3>3. (SlotLanes * s) \div SlotLanes = s
      BY IsaAssumption DEF CyclicSlots
    <3>4. lr[op.index] \div SlotLanes \in CyclicSlots
      BY <3>2, <3>3
    <3>5. QED
      BY <2>3, <2>6, <3>4 DEF Loaded, RegFile
  <2>7. QED
    BY <1>2, <2>4, <2>5, <2>6, LoadFields
<1>3. QED
  BY <1>1, <1>2

LEMMA MultFields ==
  ASSUME NEW op \in MultOps
  PROVE  \/ op = NOP /\ op.op = "NOP"
         \/ op.op = "MULT.RC.VV" /\ op.rc_idx \in LrIndex /\ op.ra \in {0, 1}
         \/ op.op = "MULT.RC.VS" /\ op.rc_idx \in LrIndex
         \/ op.op = "MULT.RC.VE" /\ op.rc_idx \in LrIndex /\ op.src \in LcrIndex
         \/ op.op \in {"MULT.VE", "MULT.EE"} /\ op.ra_idx \in LrIndex /\ op.cr_idx \in CrIndex
<1>1. CASE op \in {NOP}
  BY <1>1 DEF NOP
<1>2. CASE op \in [op : {"MULT.RC.VV"}, rc_idx : LrIndex, ra : {0, 1}, pad : {"zero", "inf"}]
  BY <1>2
<1>3. CASE op \in [op : {"MULT.RC.VS"}, rc_idx : LrIndex, pad : {"zero", "inf"}]
  BY <1>3
<1>4. CASE op \in [op : {"MULT.RC.VE"}, rc_idx : LrIndex, src : LcrIndex, pad : {"zero", "inf"}]
  BY <1>4
<1>5. CASE op \in [op : {"MULT.VE", "MULT.EE"}, ra_idx : LrIndex, cr_idx : CrIndex, pad : {"zero", "inf"}]
  BY <1>5
<1>6. QED
  BY <1>1, <1>2, <1>3, <1>4, <1>5, Zenon DEF MultOps

LEMMA ProductValue ==
  ASSUME NEW x \in Value, NEW y \in Value
  PROVE  Wrap(x * y) \in Value
<1>1. x \in Int /\ y \in Int
  BY IsaAssumption DEF Value
<1>2. x * y \in Int
  BY <1>1
<1>3. QED
  BY <1>2, WrapValue

\* MULT's result is a lane value, the windows it reads included.
LEMMA MultipliedType ==
  ASSUME NEW op \in MultOps, NEW lr \in LrFile, NEW r \in [{0, 1} -> Value],
         NEW ring \in [CyclicSlots -> Value], NEW mask \in Value, NEW old \in Value
  PROVE  Multiplied(op, lr, r, ring, mask, old) \in Value
<1>1. 0 \in Value
  BY IsaAssumption DEF Value
<1>2. \A i \in Value : CyclicLane(ring, i) \in Value /\ RaLane(r, i) \in Value
  <2> SUFFICES ASSUME NEW i \in Value
               PROVE  CyclicLane(ring, i) \in Value /\ RaLane(r, i) \in Value
    OBVIOUS
  <2>1. i \div SlotLanes \in Int
    BY IsaAssumption DEF Value
  <2>2. (i \div SlotLanes) % 4 \in 0..3 /\ (i \div SlotLanes) % 2 \in {0, 1}
    BY <2>1
  <2>3. QED
    BY <2>2 DEF CyclicLane, RaLane, CyclicSlots
<1>3. CASE op.op = "MULT.RC.VV"
  <2>1. CyclicLane(ring, lr[op.rc_idx]) \in Value /\ r[op.ra] \in Value
    BY <1>2, <1>3, MultFields DEF LrFile
  <2>2. QED
    BY <1>1, <1>3, <2>1, ProductValue DEF Multiplied, Product
<1>4. CASE op.op = "MULT.RC.VS"
  <2>1. CyclicLane(ring, lr[op.rc_idx]) \in Value
    BY <1>2, <1>4, MultFields DEF LrFile
  <2>2. QED
    BY <1>1, <1>4, <2>1, ProductValue DEF Multiplied, Product
<1>5. CASE op.op \in {"MULT.VE", "MULT.EE"}
  <2>1. RaLane(r, lr[op.ra_idx]) \in Value /\ Cr[op.cr_idx] \in Value
    BY <1>2, <1>5, MultFields, CrValue DEF LrFile
  <2>2. QED
    BY <1>1, <1>5, <2>1, ProductValue DEF Multiplied, Product
<1>6. CASE op.op = "MULT.RC.VE"
  <2>1. CyclicLane(ring, lr[op.rc_idx]) \in Value /\ op.src \in LcrIndex
    BY <1>2, <1>6, MultFields DEF LrFile
  <2>2. CASE op.src < NLr
    <3>1. op.src \in LrIndex
      BY <2>1, <2>2, IsaAssumption DEF LrIndex, LcrIndex
    <3>2. Scalar(op, lr, r) \in Value
      BY <1>2, <2>2, <3>1 DEF Scalar, LrFile
    <3>3. QED
      BY <1>1, <1>6, <2>1, <3>2, ProductValue DEF Multiplied, Product
  <2>3. CASE ~(op.src < NLr)
    <3>1. op.src - NLr + 1 \in CrIndex
      BY <2>1, <2>3, IsaAssumption DEF CrIndex, LcrIndex
    <3>2. Scalar(op, lr, r) \in Value
      BY <2>3, <3>1, CrValue DEF Scalar
    <3>3. QED
      BY <1>1, <1>6, <2>1, <3>2, ProductValue DEF Multiplied, Product
  <2>4. QED
    BY <2>2, <2>3
<1>7. CASE op.op = "NOP"
  BY <1>7 DEF Multiplied
<1>8. QED
  BY <1>3, <1>4, <1>5, <1>6, <1>7, MultFields

LEMMA AccFields ==
  ASSUME NEW op \in AccOps
  PROVE  op.op \in {"NOP", "ACC.ADD", "ACC.SUB", "ACC.MAX", "ACC.ADD.FIRST", "ACC.SUB.FIRST", "ACC.MAX.FIRST",
                    "ACC.STRIDE", "ACC.RESHAPE"}
<1>1. CASE op \in [op : {"NOP", "ACC.ADD", "ACC.SUB", "ACC.MAX", "ACC.ADD.FIRST", "ACC.SUB.FIRST", "ACC.MAX.FIRST"}]
  BY <1>1
<1>2. CASE op \in [op : {"ACC.STRIDE"}, quarters : 1..4, offset : LrIndex]
  BY <1>2
<1>3. CASE op \in [op : {"ACC.RESHAPE"}, source : 0..(NLr \div 2) - 1,
                   dest : 0..(NLr \div 2) - 1, mask_lr : {TRUE}, mask : LrIndex]
  BY <1>3
<1>4. CASE op \in [op : {"ACC.RESHAPE"}, source : 0..(NLr \div 2) - 1,
                   dest : 0..(NLr \div 2) - 1, mask_lr : {FALSE}, mask : Nat]
  BY <1>4
<1>5. QED
  BY <1>1, <1>2, <1>3, <1>4, Zenon DEF AccOps

LEMMA AccumulatedType ==
  ASSUME NEW op \in AccOps, NEW lr \in LrFile, NEW res \in Value, NEW acc \in Value
  PROVE  Accumulated(op, lr, res, acc) \in Value
<1>1. Wrap(acc + res) \in Value /\ Wrap(acc - res) \in Value /\ Wrap(0 - res) \in Value
  <2>1. acc \in Int /\ res \in Int
    BY IsaAssumption DEF Value
  <2>2. acc + res \in Int /\ acc - res \in Int /\ 0 - res \in Int
    BY <2>1
  <2>3. QED
    BY <2>2, WrapValue
<1>2. QED
  BY <1>1, AccFields DEF Accumulated

LEMMA QuantizedType ==
  ASSUME NEW op \in AaqOps, NEW acc \in Value, NEW post \in Value
  PROVE  Quantized(op, acc, post) \in Value
<1>1. CASE op \in {NOP}
  BY <1>1 DEF Quantized, NOP
<1>2. CASE op \in [op : {"ACTIVATE.QUANTIZE"}, fn : {"identity", "relu"}]
  <2> DEFINE y == IF op.fn = "relu" /\ ToSigned(acc) < 0 THEN 0 ELSE ToSigned(acc)
  <2>1. y \in Int
    BY ToSignedInt
  <2>2. QuantMax \in Int
    BY IsaAssumption DEF QuantMax
  <2>3. Clamp(y, 0 - QuantMax, QuantMax) \in Int
    BY <2>1, <2>2 DEF Clamp
  <2>4. Wrap(Clamp(y, 0 - QuantMax, QuantMax)) \in Value
    BY <2>3, WrapValue
  <2>5. QED
    BY <1>2, <2>4 DEF Quantized
<1>3. QED
  BY <1>1, <1>2 DEF AaqOps

\* A store keeps XMEM in its type, whatever it addresses.
LEMMA StoredType ==
  ASSUME NEW op, NEW lr \in LrFile, NEW mem \in Memory, NEW first \in Value, NEW rest \in Value
  PROVE  Stored(op, lr, mem, first, rest) \in Memory
BY DEF Stored, Memory

\* COND leaves a PC that is a number: past instruction memory at most.
LEMMA NextPcNat ==
  ASSUME NEW op \in CondOps, NEW lr \in LrFile, NEW at \in Nat
  PROVE  NextPc(op, lr, at) \in Nat
<1>1. CASE op \in [op : {"NOP", "HALT"}]
  <2>1. op.op = "NOP" \/ op.op = "HALT"
    BY <1>1
  <2>2. CASE op.op = "NOP"
    BY <2>2 DEF NextPc
  <2>3. CASE op.op = "HALT"
    <3>1. NextPc(op, lr, at) = ImemSize
      BY <2>3 DEF NextPc
    <3>2. QED
      BY <3>1, IsaAssumption
  <2>4. QED
    BY <2>1, <2>2, <2>3
<1>2. CASE op \in [op : {"BR"}, reg : LcrIndex]
  BY <1>2, LcrValue DEF NextPc, Value
<1>3. CASE op \in [op : {"BEQ", "BNE", "BLT.S", "BGE.S"}, reg1 : LcrIndex, reg2 : LcrIndex, label : Nat]
  BY <1>3 DEF NextPc
<1>4. QED
  BY <1>1, <1>2, <1>3 DEF CondOps

LEMMA LoadedKeepsLr ==
  ASSUME NEW op \in LoadOps, NEW f \in RegFile, NEW lr, NEW mem
  PROVE  Loaded(op, f, lr, mem).lr = f.lr
BY LoadFields DEF Loaded, RegFile

\* The schedule of an encodable word holds no reserved slot.
LEMMA ScheduleType ==
  ASSUME NEW w \in InstWord
  PROVE  Schedule(w) \in Scheduled
<1>1. \A S, op : op \in S \cup {RESERVED} /\ NOP \in S => NopFor(op) \in S \cup {}
  BY DEF NopFor, RESERVED
<1>2. /\ NOP \in LrOps /\ NOP \in LoadOps /\ NOP \in MultOps /\ NOP \in AccOps /\ NOP \in AaqOps
      /\ NOP \in StoreOps /\ NOP \in AccStoreOps /\ NOP \in CondOps /\ NOP \in BreakOps
  BY DEF LrOps, LoadOps, MultOps, AccOps, AaqOps, StoreOps, AccStoreOps, CondOps, BreakOps, NOP
<1>3. /\ DOMAIN w = {"brk", "lr", "load", "mult", "acc", "aaq", "store", "acc_store", "cond"}
      /\ w.brk \in BreakOps \cup {RESERVED} /\ w.lr \in [1..SubSlots -> LrOps \cup {RESERVED}]
      /\ w.load \in LoadOps \cup {RESERVED} /\ w.mult \in MultOps \cup {RESERVED}
      /\ w.acc \in AccOps \cup {RESERVED} /\ w.aaq \in AaqOps \cup {RESERVED}
      /\ w.store \in StoreOps \cup {RESERVED} /\ w.acc_store \in AccStoreOps \cup {RESERVED}
      /\ w.cond \in CondOps \cup {RESERVED}
  BY DEF InstWord, WordsWith
<1>4. [i \in 1..SubSlots |-> NopFor(w.lr[i])] \in [1..SubSlots -> LrOps \cup {}]
  BY <1>1, <1>2, <1>3
<1>5. /\ NopFor(w.brk) \in BreakOps \cup {} /\ NopFor(w.load) \in LoadOps \cup {}
      /\ NopFor(w.mult) \in MultOps \cup {} /\ NopFor(w.acc) \in AccOps \cup {}
      /\ NopFor(w.aaq) \in AaqOps \cup {} /\ NopFor(w.store) \in StoreOps \cup {}
      /\ NopFor(w.acc_store) \in AccStoreOps \cup {} /\ NopFor(w.cond) \in CondOps \cup {}
  BY <1>1, <1>2, <1>3
<1>6. QED
  BY <1>3, <1>4, <1>5 DEF Schedule, Scheduled, WordsWith

-----------------------------------------------------------------------------
(* The types of a machine that runs whole words *)

MachineTypeOK ==
  /\ regs \in RegFile /\ xmem \in Memory
  /\ pc \in Nat /\ plen \in 0..ImemSize
  /\ imem \in [0..ImemSize - 1 -> ImemEntry]

LEMMA ScheduledFields ==
  ASSUME NEW w \in Scheduled
  PROVE  /\ w.brk \in BreakOps /\ w.lr \in [1..SubSlots -> LrOps] /\ w.load \in LoadOps
         /\ w.mult \in MultOps /\ w.acc \in AccOps /\ w.aaq \in AaqOps /\ w.store \in StoreOps
         /\ w.acc_store \in AccStoreOps /\ w.cond \in CondOps
BY DEF Scheduled, WordsWith

\* The LR slot as a whole writes LR values.
LEMMA LrAfterType ==
  ASSUME NEW w \in Scheduled, NEW g \in RegFile
  PROVE  LrAfter(w, g) \in LrFile
<1> SUFFICES ASSUME NEW l \in LrIndex
             PROVE  (IF \E i \in 1..SubSlots : l \in LrTargets(w.lr[i])
                     THEN LrResult(w.lr[CHOOSE i \in 1..SubSlots : l \in LrTargets(w.lr[i])], l, g.lr)
                     ELSE g.lr[l]) \in Value
  BY DEF LrAfter, LrFile
<1>1. g.lr \in LrFile
  BY DEF RegFile, LrFile
<1>2. CASE \E i \in 1..SubSlots : l \in LrTargets(w.lr[i])
  <2> DEFINE k == CHOOSE i \in 1..SubSlots : l \in LrTargets(w.lr[i])
  <2>1. k \in 1..SubSlots /\ l \in LrTargets(w.lr[k])
    BY <1>2
  <2>2. w.lr[k] \in LrOps
    BY <2>1, ScheduledFields
  <2> HIDE DEF k
  <2>3. LrResult(w.lr[k], l, g.lr) \in Value
    BY <1>1, <2>1, <2>2, LrResultValue
  <2>4. QED
    BY <1>2, <2>3 DEF k
<1>3. CASE ~\E i \in 1..SubSlots : l \in LrTargets(w.lr[i])
  BY <1>1, <1>3 DEF LrFile
<1>4. QED
  BY <1>2, <1>3

\* What a word without a fault leaves.
LEMMA WordTypes ==
  ASSUME NEW w \in Scheduled, NEW g \in RegFile, NEW m \in Memory,
         LoadFault(w.load, LrAfter(w, g)) = {}
  PROVE  /\ FrontAfter(w, g, m) \in RegFile /\ RegsAfter(w, g, m) \in RegFile
         /\ XmemAfter(w, g, m) \in Memory
<1>1. LrAfter(w, g) \in LrFile
  BY LrAfterType
<1>2. /\ g.lr \in LrFile /\ g.r \in [{0, 1} -> Value] /\ g.r_cyclic \in [CyclicSlots -> Value]
      /\ g.r_mask \in Value /\ g.mult_res \in Value /\ g.r_acc \in Value /\ g.post_aaq_reg \in Value
  BY DEF RegFile, LrFile
<1>3. w.mult \in MultOps /\ w.acc \in AccOps /\ w.aaq \in AaqOps /\ w.load \in LoadOps
  BY ScheduledFields
<1>4. MultAfter(w, g) \in Value
  BY <1>1, <1>2, <1>3, MultipliedType DEF MultAfter
<1>5. AccAfter(w, g) \in Value
  BY <1>1, <1>2, <1>3, <1>4, AccumulatedType DEF AccAfter
<1>6. PostAfter(w, g) \in Value
  BY <1>2, <1>3, <1>5, QuantizedType DEF PostAfter
<1>7. [g EXCEPT !.lr = LrAfter(w, g)] \in RegFile
  BY <1>1 DEF RegFile, LrFile
<1>8. Loaded(w.load, [g EXCEPT !.lr = LrAfter(w, g)], LrAfter(w, g), m) \in RegFile
  BY <1>1, <1>3, <1>7, LoadedType
<1>9. FrontAfter(w, g, m) \in RegFile
  BY <1>4, <1>8 DEF FrontAfter, RegFile
<1>10. RegsAfter(w, g, m) \in RegFile
  BY <1>5, <1>6, <1>9 DEF RegsAfter, RegFile
<1>11. XmemAfter(w, g, m) \in Memory
  <2>1. 0 \in Value
    BY IsaAssumption DEF Value
  <2>2. QED
    BY <1>1, <1>5, <1>6, <2>1, StoredType DEF XmemAfter
<1>12. QED
  BY <1>9, <1>10, <1>11

\* A word that runs is a legal word of instruction memory.
LEMMA LegalWord ==
  ASSUME MachineTypeOK, pc < plen, Fetched # Empty, WordFaults(Fetched, regs) = {}
  PROVE  /\ Schedule(Fetched) \in Scheduled
         /\ LoadFault(Schedule(Fetched).load, LrAfter(Schedule(Fetched), regs)) = {}
<1>1. pc \in 0..ImemSize - 1
  BY IsaAssumption DEF MachineTypeOK
<1>2. Fetched \in InstWord
  BY <1>1, MachineAssumption DEF MachineTypeOK, Fetched, ImemEntry
<1>3. QED
  BY <1>2, ScheduleType DEF WordFaults, CheckFaults

LEMMA RetireType ==
  ASSUME MachineTypeOK, Retire \/ GiveUp
  PROVE  MachineTypeOK'
<1> DEFINE w == Schedule(Fetched)
<1>1. w \in Scheduled /\ LoadFault(w.load, LrAfter(w, regs)) = {}
  BY LegalWord DEF Retire, GiveUp
<1>2. regs \in RegFile /\ xmem \in Memory /\ pc \in Nat /\ regs.lr \in LrFile
  BY DEF MachineTypeOK, RegFile, LrFile
<1>3. w.cond \in CondOps
  BY <1>1, ScheduledFields
<1> HIDE DEF w
<1>4. /\ FrontAfter(w, regs, xmem) \in RegFile /\ RegsAfter(w, regs, xmem) \in RegFile
      /\ XmemAfter(w, regs, xmem) \in Memory /\ NextPc(w.cond, regs.lr, pc) \in Nat
  BY <1>1, <1>2, <1>3, WordTypes, NextPcNat
<1>5. CASE Retire
  BY <1>4, <1>5 DEF Retire, MachineTypeOK, w
<1>6. CASE GiveUp
  BY <1>4, <1>6 DEF GiveUp, MachineTypeOK, w
<1>7. QED
  BY <1>5, <1>6

LEMMA InitMachine == Init => MachineTypeOK
BY MachineAssumption, IsaAssumption DEF Init, MachineTypeOK, Memory

\* The other steps of a machine, the host's included.
LEMMA OtherTypes ==
  ASSUME MachineTypeOK,
         \/ Idle \/ WriteImem \/ WriteLr \/ SetPc
         \/ UNCHANGED <<regs, xmem, pc, imem, plen>>
  PROVE  MachineTypeOK'
<1>1. CASE Idle
  BY <1>1 DEF Idle, MachineTypeOK
<1>2. CASE WriteImem
  BY <1>2, MachineAssumption DEF WriteImem, MachineTypeOK
<1>3. CASE WriteLr
  BY <1>3, MachineAssumption DEF WriteLr, MachineTypeOK, RegFile
<1>4. CASE SetPc
  BY <1>4, IsaAssumption DEF SetPc, MachineTypeOK
<1>5. QED
  BY <1>1, <1>2, <1>3, <1>4 DEF MachineTypeOK

LEMMA NextMachine == MachineTypeOK /\ [Next]_state => MachineTypeOK'
<1> SUFFICES ASSUME MachineTypeOK, [Next]_state PROVE MachineTypeOK'
  OBVIOUS
<1>1. CASE FetchFault \/ WordFault \/ Notice \/ SetF1 \/ BeginRun \/ UNCHANGED state
  BY <1>1, OtherTypes DEF FetchFault, WordFault, Fault, Notice, SetF1, BeginRun, state
<1>2. QED
  BY <1>1, RetireType, OtherTypes DEF Next

\* Whole words keep the machine in its types: what Cycle does slot by slot, and
\* the run loops word by word.
THEOREM MachineTypes == Spec => []MachineTypeOK
BY InitMachine, NextMachine, PTL DEF Spec

=============================================================================
