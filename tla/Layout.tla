------------------------------- MODULE Layout -------------------------------
(***************************************************************************)
(* How an instruction becomes bits (ipu_isa/union_layout.py, codec/slot.py, *)
(* codec/word.py, faults.py).  compute_layout packs the operands of each   *)
(* slot's instructions into shared fields, one atomic slot at a time; the  *)
(* codecs place an opcode and operands by that layout.                     *)
(*                                                                         *)
(* An instruction is the sequence of its operands' types; its mnemonic is  *)
(* its position in the slot.  A type is a number, in the alphabetical order *)
(* of the names.  A slot value or a word is the set of its 1 bits, so that *)
(* `|' is union, `&' intersection and `<<' a translation, as in the code.  *)
(***************************************************************************)
EXTENDS Integers, Sequences, FiniteSets, FiniteSetsExt, Functions

CONSTANTS
    Types,      \* each operand type: its authored bits (0: derived), the size and low end of its
                \* codes (0: every code means its value), whether they are members of a register
                \* file or enum, whether padding goes to its field
    Slots,      \* each slot, most significant first: instances, width to pad to (0: none), tag
    Isas        \* the instructions the slots may have: a sequence of instructions per slot

ASSUME LayoutAssumption ==
    /\ Types \in Seq([bits : Nat, codes : Nat, low : Int, members : BOOLEAN, pads : BOOLEAN])
    /\ Slots \in Seq([count : Nat \ {0}, pad : Nat, hardware : BOOLEAN])
    /\ Isas \subseteq [DOMAIN Slots -> Seq(Seq(DOMAIN Types))]
    \* The slot registry refuses a HARDWARE slot after an EMULATOR one.
    /\ \A s, r \in DOMAIN Slots : s < r /\ Slots[r].hardware => Slots[s].hardware

VARIABLES
    spec,   \* the instructions of each slot
    bins,   \* the bins of each slot: a sequence of sets of atomic slots
    todo    \* the atomic slots of each slot not packed yet

vars == << spec, bins, todo >>

Opcodes(s) == DOMAIN spec[s]
Operands(s, o) == DOMAIN spec[s][o]

(* (mutant: the operands of one type share an atomic slot) *)
AtomOfType(instruction, k) == << instruction[k], 0 >>
(* The atomic slot of an operand: its type, and how many operands of that type stand before
   it in the instruction. *)
AtomOf(instruction, k) ==
    << instruction[k], Cardinality({j \in 1..(k - 1) : instruction[j] = instruction[k]}) >>
AtomsOf(instruction) == {AtomOf(instruction, k) : k \in DOMAIN instruction}
AtomicSlots(instructions) == UNION {AtomsOf(instructions[o]) : o \in DOMAIN instructions}

(* The instructions whose encoding touches an atomic slot. *)
Users(s, atom) == {o \in Opcodes(s) : atom \in AtomsOf(spec[s][o])}

Before(a, b) == a[1] < b[1] \/ (a[1] = b[1] /\ a[2] < b[2])

(* The atomic slot the packing loop takes next. *)
IsNext(s, atom) == atom \in todo[s] /\ \A a \in todo[s] \ {atom} : Before(atom, a)

(* (mutant: a bin is compared with the atomic slot by one of its members only) *)
RoomByOne(s, atom) == {b \in DOMAIN bins[s] : \E a \in bins[s][b] : Users(s, a) \cap Users(s, atom) = {}}
(* The bins whose users never co-occur with those of an atomic slot. *)
Room(s, atom) == {b \in DOMAIN bins[s] : \A a \in bins[s][b] : Users(s, a) \cap Users(s, atom) = {}}

Init ==
    /\ spec \in Isas
    /\ bins = [s \in DOMAIN Slots |-> << >>]
    /\ todo = [s \in DOMAIN Slots |-> AtomicSlots(spec[s])]

(* One round of the packing loop: the first bin with room takes the atomic slot. *)
PlaceIn(s, atom, b) ==
    /\ IsNext(s, atom)
    /\ b \in Room(s, atom)
    /\ \A c \in Room(s, atom) : b <= c
    /\ bins' = [bins EXCEPT ![s][b] = @ \cup {atom}]
    /\ todo' = [todo EXCEPT ![s] = @ \ {atom}]
    /\ UNCHANGED spec

NewBin(s, atom) ==
    /\ IsNext(s, atom)
    /\ Room(s, atom) = {}
    /\ bins' = [bins EXCEPT ![s] = Append(@, {atom})]
    /\ todo' = [todo EXCEPT ![s] = @ \ {atom}]
    /\ UNCHANGED spec

(* The slots are packed one after another. *)
InTurn(s) == \A r \in DOMAIN Slots : r < s => todo[r] = {}

Next ==
    \E s \in DOMAIN Slots : \E atom \in todo[s] :
        InTurn(s) /\ (NewBin(s, atom) \/ \E b \in DOMAIN bins[s] : PlaceIn(s, atom, b))

Spec == Init /\ [][Next]_vars

Packed == \A s \in DOMAIN Slots : todo[s] = {}

-----------------------------------------------------------------------------
(* The fields of a packed slot. *)

(* A number by its bits: 2^n, and the places of the 1 bits. *)
Power2[n \in Nat] == IF n = 0 THEN 1 ELSE 2 * Power2[n - 1]
Ones[c \in Nat] ==
    IF c = 0 THEN {} ELSE {i + 1 : i \in Ones[c \div 2]} \cup (IF c % 2 = 1 THEN {0} ELSE {})
BitLength(n) == IF n = 0 THEN 0 ELSE Max(Ones[n]) + 1
OpcodeBits(s) == IF Len(spec[s]) > 1 THEN Max({1, BitLength(Len(spec[s]) - 1)}) ELSE 1

Fields(s) == DOMAIN bins[s]
PackedBits(s, f) == Max({Types[a[1]].bits : a \in bins[s][f]})

(* A slot narrower than the width it is padded to: the first field that carries the padded
   type grows by the deficit. *)
PackedWidth(s) == OpcodeBits(s) + SumFunction([f \in Fields(s) |-> PackedBits(s, f)])
Deficit(s) == Max({0, Slots[s].pad - PackedWidth(s)})
PadFields(s) == {f \in Fields(s) : \E a \in bins[s][f] : Types[a[1]].pads}
FieldBits(s, f) ==
    PackedBits(s, f) + (IF PadFields(s) # {} /\ f = Min(PadFields(s)) THEN Deficit(s) ELSE 0)

SlotWidth(s) == OpcodeBits(s) + SumFunction([f \in Fields(s) |-> FieldBits(s, f)])

(* The field of an operand, and a type's own width: a derived one is its field's, the same
   wherever the type is used. *)
FieldOf(s, o, k) == CHOOSE f \in Fields(s) : AtomOf(spec[s][o], k) \in bins[s][f]
CarrierBits(t) ==
    UNION {{FieldBits(s, f) : f \in {g \in Fields(s) : \E a \in bins[s][g] : a[1] = t}} : s \in DOMAIN Slots}
OperandBits(t) == IF Types[t].bits # 0 THEN Types[t].bits ELSE CHOOSE b \in CarrierBits(t) : TRUE

(* compute_layout raises on a slot it cannot pad, and on a derived type with no width or two. *)
Solved ==
    /\ Packed
    /\ \A s \in DOMAIN Slots : Deficit(s) > 0 => PadFields(s) # {}
    /\ \A t \in DOMAIN Types : Types[t].bits = 0 => \E b \in CarrierBits(t) : CarrierBits(t) = {b}

-----------------------------------------------------------------------------
(* The codec of a slot: the opcode in its top bits, field after field below it. *)

At(code, shift) == {i + shift : i \in Ones[code]}
Mask(shift, bits) == shift..(shift + bits - 1)
Read(value, shift, bits) == SumFunction([i \in value \cap Mask(shift, bits) |-> Power2[i - shift]])

(* (mutant: a field's shift counts the fields above it) *)
ShiftAbove(s, f) == SumFunction([g \in {h \in Fields(s) : h < f} |-> FieldBits(s, g)])
Shift(s, f) == SumFunction([g \in {h \in Fields(s) : h > f} |-> FieldBits(s, g)])
OpcodeShift(s) == Shift(s, 0)

Operand(s, o, k) == [shift |-> Shift(s, FieldOf(s, o, k)), bits |-> OperandBits(spec[s][o][k])]

(* The codes of an operand its range or its members fill; 0 if every code is its value. *)
Defined(t) == IF Types[t].codes \in 1..(Power2[OperandBits(t)]) THEN Types[t].codes ELSE 0

(* encode raises on a code outside its operand's field. *)
Encodes(s, o, codes) ==
    /\ Len(codes) = Len(spec[s][o])
    /\ \A k \in Operands(s, o) : codes[k] \in 0..(Power2[OperandBits(spec[s][o][k])] - 1)
Encode(s, o, codes) ==
    At(o - 1, OpcodeShift(s)) \cup UNION {At(codes[k], Operand(s, o, k).shift) : k \in Operands(s, o)}

Used(s, o) ==
    Mask(OpcodeShift(s), OpcodeBits(s))
        \cup UNION {Mask(Operand(s, o, k).shift, Operand(s, o, k).bits) : k \in Operands(s, o)}

(* Decoding: an opcode no instruction has is fault F-1; operand codes are returned as stored. *)
OpcodeOf(s, value) == Read(value, OpcodeShift(s), OpcodeBits(s)) + 1
IsReserved(s, value) == OpcodeOf(s, value) \notin Opcodes(s)
CodesOf(s, value) ==
    LET o == OpcodeOf(s, value)
    IN  [k \in Operands(s, o) |-> Read(value, Operand(s, o, k).shift, Operand(s, o, k).bits)]
Unused(s, value) == value \ Used(s, OpcodeOf(s, value))

-----------------------------------------------------------------------------
(* The word: slots in order, instances in order, the first the most significant. *)

Instances == UNION {{<< s, i >> : i \in 0..(Slots[s].count - 1)} : s \in DOMAIN Slots}
InstanceShift(p) ==
    SumFunction([q \in {r \in Instances : Before(p, r)} |-> SlotWidth(q[1])])
WordBits(slots) == SumFunction([s \in slots |-> SlotWidth(s) * Slots[s].count])

Pack(values) == UNION {{i + InstanceShift(p) : i \in values[p]} : p \in Instances}
Unpack(word) == [p \in Instances |->
    {i - InstanceShift(p) : i \in word \cap Mask(InstanceShift(p), SlotWidth(p[1]))}]

EmulatorSlots == {s \in DOMAIN Slots : ~Slots[s].hardware}
HardwareWord(word) == {i - WordBits(EmulatorSlots) : i \in {j \in word : j >= WordBits(EmulatorSlots)}}

-----------------------------------------------------------------------------
(* Text: a member's name or a number, and what the assembler reads back from it. *)

IsIllegal(t, code) == Types[t].members /\ code >= Types[t].codes
IsRanged(t) == ~Types[t].members /\ Defined(t) # 0
Text(t, code) == IF IsRanged(t) THEN code + Types[t].low ELSE code

(* The assembler refuses `<illegal_...>', and a number outside its type's range. *)
Accepts(t, text) ==
    IF IsRanged(t) THEN text \in Types[t].low..(Types[t].low + Types[t].codes - 1)
                   ELSE text \in 0..(Power2[OperandBits(t)] - 1)
CodeOf(t, text) == IF IsRanged(t) THEN text - Types[t].low ELSE text

(* A slot value whose disassembly the assembler reads back to the same value. *)
Reassembles(s, value) ==
    LET o == OpcodeOf(s, value)
        types == spec[s][o]
        codes == CodesOf(s, value)
    IN  /\ \A k \in Operands(s, o) :
              ~IsIllegal(types[k], codes[k]) /\ Accepts(types[k], Text(types[k], codes[k]))
        /\ Encode(s, o, [k \in Operands(s, o) |-> CodeOf(types[k], Text(types[k], codes[k]))]) = value

-----------------------------------------------------------------------------
Values(s) == SUBSET (0..(SlotWidth(s) - 1))
LegalCodes(s, o) == {c \in [Operands(s, o) -> 0..Max({Power2[OperandBits(spec[s][o][k])] : k \in Operands(s, o)} \cup {0})] :
                        Encodes(s, o, c)}

TypeOK ==
    /\ spec \in Isas
    /\ bins \in [DOMAIN Slots -> Seq(SUBSET ((DOMAIN Types) \X Nat))]
    /\ todo \in [DOMAIN Slots -> SUBSET ((DOMAIN Types) \X Nat)]

(* "merge atomic slots into union fields when no instruction uses both": no instruction has two
   operands in one field, at any round of the packing loop (union_layout.py). *)
NoSharing ==
    \A s \in DOMAIN Slots : \A b \in DOMAIN bins[s] : \A x, y \in bins[s][b] :
        x # y => Users(s, x) \cap Users(s, y) = {}

(* Each operand of each instruction of a packed slot is in exactly one field, and no other
   operand of that instruction is in it: an encoder that follows the layout overwrites nothing. *)
EveryOperandHasItsField ==
    Packed => \A s \in DOMAIN Slots : \A o \in Opcodes(s) : \A k \in Operands(s, o) :
        \E f \in Fields(s) :
            /\ AtomOf(spec[s][o], k) \in bins[s][f]
            /\ \A g \in Fields(s) \ {f} : AtomOf(spec[s][o], k) \notin bins[s][g]
            /\ \A j \in Operands(s, o) \ {k} : AtomOf(spec[s][o], j) \notin bins[s][f]

(* In the layout the solver finds, every legal instruction decodes to itself with no stray bit,
   whatever its operands (SlotCodec.encode, decode). *)
DecodeInvertsEncode ==
    Solved => \A s \in DOMAIN Slots : \A o \in Opcodes(s) : \A c \in LegalCodes(s, o) :
        LET v == Encode(s, o, c)
        IN  /\ v \in Values(s) /\ OpcodeOf(s, v) = o
            /\ CodesOf(s, v) = c /\ Unused(s, v) = {}

(* Every value of a slot is either a reserved opcode or an instruction with its operands and
   stray bits, which together are the value (SlotCodec.decode, encode_with_reserved). *)
ValuesDecodeExactly ==
    Solved => \A s \in DOMAIN Slots : \A v \in Values(s) :
        IsReserved(s, v) \/ Encode(s, OpcodeOf(s, v), CodesOf(s, v)) = v \ Unused(s, v)

(* The instances tile the word, and its hardware part is the top of it: shifting the emulator
   word down gives the word of the hardware slots alone (word_layout, hardware_word). *)
HardwareIsOnTop ==
    Solved =>
        LET all == [p \in Instances |-> 0..(SlotWidth(p[1]) - 1)]
        IN  /\ Pack(all) = 0..(WordBits(DOMAIN Slots) - 1)
            /\ \A q \in Instances : \A v \in {{}, {0}, {SlotWidth(q[1]) - 1}, all[q]} :
                  LET word == Pack([p \in Instances |-> IF p = q THEN v ELSE {}])
                  IN  /\ Unpack(word)[q] = v
                      /\ \A p \in Instances \ {q} : Unpack(word)[p] = {}
                      /\ (HardwareWord(word) = {}) = (v = {} \/ ~Slots[q[1]].hardware)
            /\ HardwareWord(Pack(all)) = 0..(WordBits(DOMAIN Slots \ EmulatorSlots) - 1)

(* A word that is laid out, encoded and packed decodes to the instructions it was made of and to
   the very values of their operands, and its hardware slots are its top bits (codec/layout.py). *)
WordsDecodeExactly == TypeOK /\ DecodeInvertsEncode /\ ValuesDecodeExactly /\ HardwareIsOnTop

(* codec/disasm.py, program_text: "Two kinds of word do not reassemble to themselves: one with
   stray bits in a field its instructions do not use, and one with an illegal register or enum
   code". *)
OnlyTwoKindsDiffer ==
    Solved => \A s \in DOMAIN Slots : \A v \in Values(s) :
        \/ IsReserved(s, v)
        \/ Unused(s, v) # {}
        \/ \E k \in Operands(s, OpcodeOf(s, v)) :
              IsIllegal(spec[s][OpcodeOf(s, v)][k], CodesOf(s, v)[k])
        \/ Reassembles(s, v)

(* union_layout.py: the solver "computes the optimal binary field layout for each slot by
   minimising total bit-width": no other assignment of the atomic slots to fields is narrower. *)
Assignments(s) == {g \in [AtomicSlots(spec[s]) -> 1..Cardinality(AtomicSlots(spec[s]))] :
    \A x, y \in AtomicSlots(spec[s]) : x # y /\ g[x] = g[y] => Users(s, x) \cap Users(s, y) = {}}
Cost(g) == SumFunction([f \in Range(g) |-> Max({Types[a[1]].bits : a \in {x \in DOMAIN g : g[x] = f}})])
LayoutIsMinimal ==
    Packed => \A s \in DOMAIN Slots : \A g \in Assignments(s) : PackedWidth(s) <= OpcodeBits(s) + Cost(g)
=============================================================================
