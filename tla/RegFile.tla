------------------------------ MODULE RegFile ------------------------------
(***************************************************************************)
(* The register file and the accessors its schema generates                *)
(* (ipu_emu/regfile.py), the observers told of its writes, the cycle's     *)
(* reused snapshot buffer (cycle.py) and the two operand resolvers         *)
(* (resolver.py).                                                          *)
(*                                                                         *)
(* A register's storage is a function from byte offsets to bytes; a byte   *)
(* is a bit and a word two bytes, so a word is 0..3 and a scalar, which    *)
(* is narrower than its word, 0..1.  An operation that is refused changes  *)
(* nothing and is not an action.                                           *)
(***************************************************************************)
EXTENDS Integers, FiniteSets, FiniteSetsExt

CONSTANTS
    Schema,      \* [register -> its descriptor: vector, cyclic, words, size, count]
    MaxOps,      \* operations explored
    MaxHeld      \* memoryviews a caller keeps

(* The generated schema has the scalar banks LR and CR, and no register is empty. *)
RegFileAssumption ==
    /\ {"lr", "cr"} \subseteq DOMAIN Schema
    /\ \A n \in DOMAIN Schema : Schema[n].size \in Nat \ {0} /\ Schema[n].count \in Nat \ {0}

VARIABLES
    live,        \* IpuState.regfile: [register -> [offset -> byte]]
    marks,       \* its _constant_one_bytes: [register -> offsets]
    exported,    \* its _mutable_exports
    held,        \* <<register, offsets>> of the views of mutable() that callers keep
    buffer,      \* Cycle._buffer: its storage and marks, or None before the first word
    told,        \* the <<register, offset>> the observer was told of since it last read
    seen,        \* the storage the observer last read, or None while detached
    ops

vars == << live, marks, exported, held, buffer, told, seen, ops >>

None == << >>
RegisterIndexError == -1
Registers == DOMAIN Schema
WordBytes == 2
Byte == 0..1
Total(n) == Schema[n].size * Schema[n].count
Offsets(n) == 0..Total(n) - 1
Span(start, size) == start..start + size - 1
Scalars == {n \in Registers : ~Schema[n].vector}
Vectors == Registers \ Scalars
Words(n) == 0..(Total(n) \div WordBytes) - 1

(* struct.pack_into and unpack_from "<I", after the value's mask. *)
WordMask == 4
ScalarMask == 2
ByteOfWord(value, i) == (value \div 2 ^ i) % 2
WordOf(bytes, offset) == bytes[offset] + 2 * bytes[offset + 1]

(* The storage of a new file: CR0 and CR1 hold 0 and 1, R_MASK is ones. *)
ReadOnly == {0, 1}
ResetByte(n, b) ==
    CASE n = "cr" /\ b \div WordBytes \in ReadOnly -> ByteOfWord(b \div WordBytes, b % WordBytes)
      [] n = "r_mask" -> 1
      [] OTHER -> 0
Fresh == [n \in Registers |-> [b \in Offsets(n) |-> ResetByte(n, b)]]
NoMarks == [n \in Registers |-> {}]

Init ==
    /\ live = Fresh /\ marks = NoMarks /\ exported = {} /\ held = {}
    /\ buffer = None /\ told = {} /\ seen = None /\ ops = 0

Step == ops < MaxOps /\ ops' = ops + 1

-----------------------------------------------------------------------------
(* Writing.  `data' is a function of the offsets written: all zeros or all ones. *)

Data(offsets) == {[b \in offsets |-> v] : v \in Byte}

Told(n, offsets) == IF seen = None THEN told ELSE told \union {<< n, b >> : b \in offsets}
Put(n, data) == [live EXCEPT ![n] = [b \in Offsets(n) |-> IF b \in DOMAIN data THEN data[b] ELSE @[b]]]

(* _forget_constant_ones, then the bytes. *)
Write(n, data) ==
    /\ live' = Put(n, data)
    /\ told' = Told(n, DOMAIN data)
    /\ marks' = [marks EXCEPT ![n] = @ \ DOMAIN data]

(* set_scalar, and set_lr and set_cr: scalars are never marked. *)
SetScalar(n, index, value) ==
    /\ n \in Scalars /\ index \in 0..Schema[n].count - 1
    /\ ~(n = "cr" /\ index \in ReadOnly)
    /\ LET offset == index * Schema[n].size
           data == [b \in Span(offset, Schema[n].size) |-> ByteOfWord(value % ScalarMask, b - offset)] IN
       live' = Put(n, data) /\ told' = Told(n, DOMAIN data)
    /\ UNCHANGED << marks, exported, held, buffer, seen >>

(* set_register_bytes, and set_r and the setters of a whole register. *)
SetElement(n, index) ==
    /\ index \in 0..Schema[n].count - 1
    /\ \E data \in Data(Span(index * Schema[n].size, Schema[n].size)) : Write(n, data)
    /\ UNCHANGED << exported, held, buffer, seen >>

(* set_{name}_word and set_{name}_words *)
SetWord(n, index, value) ==
    /\ Schema[n].words /\ index \in Words(n)
    /\ Write(n, [b \in Span(index * WordBytes, WordBytes) |->
                    ByteOfWord(value % WordMask, b - index * WordBytes)])
    /\ UNCHANGED << exported, held, buffer, seen >>

(* get_{name}_at: the offsets of `length' bytes from `start', in their order, taken as *)
(* the slice to the end of the register and the slice that wraps.                      *)
FirstOf(n, start, length) == Min({length, Total(n) - (start % Total(n))})
RingOffset(n, start, length, i) ==
    IF i < FirstOf(n, start, length) THEN (start % Total(n)) + i ELSE i - FirstOf(n, start, length)

(* (mutant: the write that wraps announces its first slice only) *)
RingToldFirst(n, start, length) == Span(start % Total(n), FirstOf(n, start, length))
RingTold(n, start, length) ==
    Span(start % Total(n), FirstOf(n, start, length)) \union Span(0, length - FirstOf(n, start, length))

(* set_{name}_at, with the register's own wrap size. *)
SetAt(n, start, length) ==
    /\ Schema[n].cyclic /\ length <= Total(n)
    /\ \E data \in Data({RingOffset(n, start, length, i) : i \in 0..length - 1}) : live' = Put(n, data)
    /\ told' = Told(n, RingTold(n, start, length))
    /\ marks' = [marks EXCEPT ![n] = @ \ RingTold(n, start, length)]
    /\ UNCHANGED << exported, held, buffer, seen >>

(* mutable(), written at once: the slot handlers, the debugger, the reference model. *)
WriteMutable(n, start, size) ==
    /\ size > 0 /\ start + size <= Total(n)
    /\ \E data \in Data(Span(start, size)) : Write(n, data)
    /\ UNCHANGED << exported, held, buffer, seen >>

(* mutable(), kept; and raw(), which keeps the whole register and says so. *)
Hold(n, start, size) ==
    /\ size > 0 /\ start + size <= Total(n) /\ Cardinality(held) < MaxHeld
    /\ held' = held \union {<< n, Span(start, size) >>}
    /\ told' = Told(n, Span(start, size))
    /\ marks' = [marks EXCEPT ![n] = @ \ Span(start, size)]
    /\ UNCHANGED << live, exported, buffer, seen >>
Raw(n) ==
    /\ exported' = exported \union {n}
    /\ told' = Told(n, Offsets(n))
    /\ marks' = [marks EXCEPT ![n] = {}]
    /\ UNCHANGED << live, held, buffer, seen >>
HolderWrites(n, b) ==
    /\ n \in exported \/ \E h \in held : h[1] = n /\ b \in h[2]
    /\ \E v \in Byte : live' = Put(n, [c \in {b} |-> v])
    /\ UNCHANGED << marks, exported, held, buffer, told, seen >>

(* mark_constant_ones *)
Marked(n, offsets) == IF n \in exported THEN {} ELSE offsets

(* execute_ldr of a row declared to be ones: the write, then its mark. *)
LoadOnes(n, index) ==
    LET slot == Span(index * Schema[n].size, Schema[n].size) IN
    /\ n \in Vectors /\ index \in 0..Schema[n].count - 1
    /\ live' = Put(n, [b \in slot |-> 1])
    /\ told' = Told(n, slot)
    /\ marks' = [marks EXCEPT ![n] = (@ \ slot) \union Marked(n, slot)]
    /\ UNCHANGED << exported, held, buffer, seen >>

-----------------------------------------------------------------------------
(* Whole files *)

(* snapshot(), and copy_into() the buffer that the cycle reuses. *)
Snapshot == [storage |-> live, marks |-> marks]
Begin == buffer' = Snapshot /\ UNCHANGED << live, marks, exported, held, told, seen >>

(* A check fault undoes the word's LR writes (Cycle._check). *)
Undo ==
    /\ buffer # None
    /\ Write("lr", buffer.storage["lr"])
    /\ UNCHANGED << exported, held, buffer, seen >>

(* IpuState.reset: a new file is copied into the live one. *)
Reset ==
    /\ live' = Fresh /\ marks' = NoMarks
    /\ told' = IF seen = None THEN told ELSE UNION {{<< n, b >> : b \in Offsets(n)} : n \in Registers}
    /\ UNCHANGED << exported, held, buffer, seen >>

(* The observer: attached, it reads the file; later it reads again what it was told of. *)
Attach == seen = None /\ seen' = live /\ told' = {} /\ UNCHANGED << live, marks, exported, held, buffer >>
Read ==
    /\ seen # None /\ told # {} /\ told' = {}
    /\ seen' = [n \in Registers |-> [b \in Offsets(n) |->
                   IF << n, b >> \in told THEN live[n][b] ELSE seen[n][b]]]
    /\ UNCHANGED << live, marks, exported, held, buffer >>
Detach == seen # None /\ seen' = None /\ told' = {} /\ UNCHANGED << live, marks, exported, held, buffer >>

Next ==
    /\ Step
    /\ \/ \E n \in Registers :
            \/ \E i \in 0..Schema[n].count - 1 :
                 \/ \E v \in 0..WordMask - 1 : SetScalar(n, i, v)
                 \/ SetElement(n, i) \/ LoadOnes(n, i)
            \/ \E i \in Words(n), v \in 0..WordMask : SetWord(n, i, v)
            \/ \E b \in Offsets(n), size \in 1..Total(n) :
                 SetAt(n, b, size) \/ WriteMutable(n, b, size) \/ Hold(n, b, size)
            \/ \E b \in Offsets(n) : HolderWrites(n, b)
            \/ Raw(n)
       \/ Begin \/ Undo \/ Reset \/ Attach \/ Read \/ Detach

Spec == Init /\ [][Next]_vars

-----------------------------------------------------------------------------
(* Reading *)

(* has_constant_ones, which may wrap. *)
HasConstantOnes(n, start, size) ==
    {RingOffset(n, start, size, i) : i \in 0..size - 1} \subseteq marks[n]

(* get_lr and get_cr; `file' is the live storage or the buffer's. *)
Count(bank) == Schema[bank].count
Accessor(file, bank, raw) ==
    IF raw \in 0..Count(bank) - 1 THEN WordOf(file[bank], raw * WordBytes) ELSE RegisterIndexError

(* FaithfulResolver: an operand of kind LCR names an LR, then a CR. *)
Faithful(file, kind, raw) ==
    CASE kind = "lcr" /\ raw < Count("lr") -> Accessor(file, "lr", raw)
      [] kind = "lcr" /\ raw >= Count("lr") -> Accessor(file, "cr", raw - Count("lr"))
      [] OTHER -> Accessor(file, kind, raw)

(* PackedResolver: the word at raw * 4 of the bank's view, which is its storage; an *)
(* index past the bank goes to the accessor.                                       *)
BankOf(kind, raw) ==
    IF kind # "lcr" THEN << kind, raw >>
    ELSE IF raw < Count("lr") THEN << "lr", raw >> ELSE << "cr", raw - Count("lr") >>
Packed(file, kind, raw) ==
    LET bank == BankOf(kind, raw)[1]
        index == BankOf(kind, raw)[2] IN
    IF 0 <= index /\ index < Count(bank) THEN WordOf(file[bank], index * WordBytes)
    ELSE Accessor(file, bank, index)

-----------------------------------------------------------------------------
(* Properties *)

IsHeld(n, b) == \E h \in held : h[1] = n /\ b \in h[2]

(* "every write is observable": a byte that differs from what the observer last read is   *)
(* one it was told of since, whoever wrote it and however the write wrapped; unless the    *)
(* register's buffer was given out whole, or a caller keeps a view of that byte.           *)
ObserverKnows ==
    seen # None => \A n \in Registers : \A b \in Offsets(n) :
        live[n][b] # seen[n][b] => << n, b >> \in told \/ n \in exported \/ IsHeld(n, b)

(* A marked byte holds 1, in the file and in the word's snapshot, even in a register whose *)
(* buffer was given out by raw(): only a view of mutable() that a caller kept from before  *)
(* the load can make a mark stale.  No code here keeps one.                                *)
OnlyViewsOutdateMarks ==
    \A n \in Registers : \A b \in Offsets(n) :
        /\ b \in marks[n] => live[n][b] = 1 \/ IsHeld(n, b)
        /\ buffer # None /\ b \in buffer.marks[n] => buffer.storage[n][b] = 1 \/ IsHeld(n, b)

(* Every element a probe finds to be ONES by provenance is so by its own bytes, at every   *)
(* start, where no view is kept: the probe's wrap is the accessors'.                       *)
ProbesSeeOnes ==
    held = {} => \A n \in Vectors : \A start, size \in Offsets(n) :
        size > 0 /\ HasConstantOnes(n, start, size)
        => \A i \in 0..size - 1 : live[n][(start + i) % Total(n)] = 1

(* "Both return equal operand dicts for every plan and encoding, errors included." *)
PackedIsFaithful ==
    \A file \in {live} \union (IF buffer = None THEN {} ELSE {buffer.storage}) :
    \A kind \in {"lr", "cr", "lcr"}, raw \in 0..Count("lr") + Count("cr") + 1 :
        Packed(file, kind, raw) = Faithful(file, kind, raw)

=============================================================================
