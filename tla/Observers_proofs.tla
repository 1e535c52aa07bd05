-------------------------- MODULE Observers_proofs --------------------------
(***************************************************************************)
(* The emulator's storage and observers, for every value of the constants. *)
(***************************************************************************)
EXTENDS MCObservers, FiniteSetTheorems, TLAPS

-----------------------------------------------------------------------------
(* ConstantOnes: for every row length, memory and ring, an identity        *)
(* multiply's vector comes from an intact declared row, and no provenance  *)
(* bit is stale.  A declared row stays whole because a write that overlaps *)
(* it revokes it; a bit stays true because every write that does not clear *)
(* it is refused bits (a buffer given out has none).                       *)

\* A declared row that a load may address is whole: no element of it was
\* written since write_constant_ones, as _invalidate_constants ensures.
DeclaredRowsAreIntact == \A c \in constants : c \in Rows => Span(c, RowLen) \subseteq intact

RowsAreAddresses == constants \subseteq Nat

BitsAreTrue ==
  /\ bits \subseteq reg /\ bits \subseteq origin
  /\ exported => bits = {}
  /\ snapBits \subseteq snap /\ snapBits \subseteq snapOrigin

OnesInv == RowsAreAddresses /\ DeclaredRowsAreIntact /\ BitsAreTrue

\* A write of `size` elements from `a` touches no row it leaves declared.
LEMMA RevokedRowsAreDisjoint ==
  ASSUME NEW a \in Nat, NEW size \in Nat, constants \subseteq Nat,
         NEW c \in Revoked(a, size)
  PROVE  c \in constants /\ Span(c, RowLen) \cap Span(a, size) = {}
BY OnesAssumption DEF Revoked, Span

\* Nothing is declared, and no bit is set, at first.
LEMMA InitOnes == Init => OnesInv
BY DEF Init, OnesInv, RowsAreAddresses, DeclaredRowsAreIntact, BitsAreTrue

\* XMEM's addresses count from zero.
LEMMA AddressesAreNaturals == Address \subseteq Nat
BY OnesAssumption DEF Address

\* An XMEM write keeps the invariant.
LEMMA XmemStep ==
  ASSUME OnesInv,
         \E a \in Address : DeclareOnes(a) \/ \E size \in 1..RowLen : WriteXmem(a, size)
  PROVE  OnesInv'
<1>1. BitsAreTrue'
  BY DEF OnesInv, BitsAreTrue, DeclareOnes, WriteXmem, ring, buffer
<1>2. PICK a \in Address : DeclareOnes(a) \/ \E size \in 1..RowLen : WriteXmem(a, size)
  OBVIOUS
<1>3. a \in Nat /\ RowLen \in Nat
  BY AddressesAreNaturals, OnesAssumption
<1>4. CASE DeclareOnes(a)
  <2>1. constants' = Revoked(a, RowLen) \cup {a}
    BY <1>4 DEF DeclareOnes
  <2>2. RowsAreAddresses'
    BY <1>3, <2>1, RevokedRowsAreDisjoint DEF OnesInv, RowsAreAddresses
  <2>3. ASSUME NEW c \in constants', c \in Rows
        PROVE  Span(c, RowLen) \subseteq intact'
    <3>1. intact' = IF a \in Rows THEN intact \cup Span(a, RowLen) ELSE intact \ Span(a, RowLen)
      BY <1>4 DEF DeclareOnes
    <3>2. CASE c = a
      BY <2>3, <3>1, <3>2
    <3>3. CASE c # a
      <4>1. c \in Revoked(a, RowLen)
        BY <2>1, <2>3, <3>3
      <4>2. c \in constants /\ Span(c, RowLen) \cap Span(a, RowLen) = {}
        BY <1>3, <4>1, RevokedRowsAreDisjoint DEF OnesInv, RowsAreAddresses
      <4>3. Span(c, RowLen) \subseteq intact
        BY <2>3, <4>2 DEF OnesInv, DeclaredRowsAreIntact
      <4> QED BY <3>1, <4>2, <4>3
    <3> QED BY <3>2, <3>3
  <2> QED BY <1>1, <2>2, <2>3 DEF OnesInv, DeclaredRowsAreIntact, Rows, Address
<1>5. ASSUME NEW size \in 1..RowLen, WriteXmem(a, size)
      PROVE  OnesInv'
  <2>1. constants' = Revoked(a, size) /\ intact' = intact \ Span(a, size) /\ size \in Nat
    BY <1>3, <1>5 DEF WriteXmem
  <2>2. ASSUME NEW c \in constants'
        PROVE  c \in constants /\ Span(c, RowLen) \cap Span(a, size) = {}
    BY <1>3, <2>1, RevokedRowsAreDisjoint DEF OnesInv, RowsAreAddresses
  <2>3. RowsAreAddresses'
    BY <2>2 DEF OnesInv, RowsAreAddresses
  <2>4. ASSUME NEW c \in constants', c \in Rows
        PROVE  Span(c, RowLen) \subseteq intact'
    BY <2>1, <2>2, <2>4 DEF OnesInv, DeclaredRowsAreIntact
  <2> QED BY <1>1, <2>3, <2>4 DEF OnesInv, DeclaredRowsAreIntact, Rows, Address
<1> QED BY <1>2, <1>4, <1>5

\* A load marks a ring slot only with ONEs of an intact row.
LEMMA LoadStep ==
  ASSUME OnesInv, NEW a \in Rows, NEW s \in 0..RingSlots - 1, LoadWord(a, s)
  PROVE  OnesInv'
<1> DEFINE slot == Span(s * RowLen, RowLen)
<1>1. UNCHANGED <<xmem, constants, intact, exported>>
  BY DEF LoadWord, memory
<1>2. RowsAreAddresses' /\ DeclaredRowsAreIntact'
  BY <1>1 DEF OnesInv, RowsAreAddresses, DeclaredRowsAreIntact, Rows, Address
<1>3. snap' = reg /\ snapBits' = bits /\ snapOrigin' = origin
  BY DEF LoadWord
<1>4. /\ reg' = (reg \ slot) \cup {e \in slot : a + (e - s * RowLen) \in xmem}
      /\ bits' = IF IsConstantOnes(a) THEN Marked(bits \ slot, slot) ELSE bits \ slot
      /\ origin' = IF Span(a, RowLen) \subseteq intact THEN origin \cup slot ELSE origin \ slot
  BY DEF LoadWord
<1>5. bits \subseteq reg /\ bits \subseteq origin /\ (exported => bits = {})
  BY DEF OnesInv, BitsAreTrue
<1>6. CASE IsConstantOnes(a) /\ ~exported
  <2>1. bits' = (bits \ slot) \cup slot
    BY <1>4, <1>6 DEF Marked
  <2>2. slot \subseteq reg'
    <3>1. ASSUME NEW e \in slot
          PROVE  a + (e - s * RowLen) \in Span(a, RowLen)
      <4>1. a \in Nat /\ RowLen \in Nat /\ s \in Nat
        BY OnesAssumption DEF Rows, Address
      <4>2. s * RowLen \in Nat
        BY <4>1
      <4> DEFINE base == s * RowLen
      <4>3. base \in Nat /\ e \in base..base + RowLen - 1
        BY <4>2 DEF Span
      <4> HIDE DEF base
      <4>4. a + (e - base) \in a..a + RowLen - 1
        BY <4>1, <4>3
      <4> QED BY <4>4 DEF Span, base
    <3>2. Span(a, RowLen) \subseteq xmem
      BY <1>6 DEF IsConstantOnes
    <3> QED BY <1>4, <3>1, <3>2
  <2>3. slot \subseteq origin' /\ (bits \ slot) \subseteq origin'
    <3>1. Span(a, RowLen) \subseteq intact
      BY <1>6 DEF IsConstantOnes, OnesInv, DeclaredRowsAreIntact
    <3> QED BY <1>4, <1>5, <3>1
  <2>4. (bits \ slot) \subseteq reg'
    BY <1>4, <1>5
  <2> QED BY <1>1, <1>2, <1>3, <1>5, <1>6, <2>1, <2>2, <2>3, <2>4 DEF OnesInv, BitsAreTrue
<1>7. CASE ~(IsConstantOnes(a) /\ ~exported)
  <2>1. bits' = bits \ slot
    BY <1>4, <1>7 DEF Marked
  <2>2. (bits \ slot) \subseteq reg' /\ (bits \ slot) \subseteq origin'
    BY <1>4, <1>5
  <2> QED BY <1>1, <1>2, <1>3, <1>5, <2>1, <2>2 DEF OnesInv, BitsAreTrue
<1> QED BY <1>6, <1>7

\* Every other step keeps the invariant.
LEMMA NextOnes == OnesInv /\ [Next]_vars => OnesInv'
<1> SUFFICES ASSUME OnesInv, [Next]_vars PROVE OnesInv'
  OBVIOUS
<1> USE DEF OnesInv, RowsAreAddresses, DeclaredRowsAreIntact, BitsAreTrue, Rows, Address
<1>1. CASE \E a \in Address : DeclareOnes(a) \/ \E size \in 1..RowLen : WriteXmem(a, size)
  BY <1>1, XmemStep
<1>2. CASE \E a \in Rows, s \in 0..RingSlots - 1 : LoadWord(a, s)
  BY <1>2, LoadStep
<1>3. CASE \E e \in Elements : WriteRing(e)
  BY <1>3 DEF WriteRing, memory, buffer
<1>4. CASE \E e \in Elements : HolderWrites(e)
  BY <1>4 DEF HolderWrites, memory, buffer
<1>5. CASE Word
  BY <1>5 DEF Word, memory, ring
<1>6. CASE Raw
  BY <1>6 DEF Raw, memory, buffer
<1>7. CASE Reset
  BY <1>7 DEF Reset, buffer
<1>8. CASE UNCHANGED vars
  BY <1>8 DEF vars, memory, ring, buffer
<1> QED BY <1>1, <1>2, <1>3, <1>4, <1>5, <1>6, <1>7, <1>8 DEF Next

\* The invariant holds in every run.
THEOREM OnesInvariance == Spec => []OnesInv
BY InitOnes, NextOnes, PTL DEF Spec

\* vector_is_one's verdict is never given for ordinary data that is all ones, nor
\* for a window any element of which was overwritten after its declared load.
THEOREM IdentitiesAreDeclared == Spec => []IdentityIsDeclared
<1>1. OnesInv => IdentityIsDeclared
  BY DEF OnesInv, BitsAreTrue, IdentityIsDeclared, VectorIsOne
<1> QED BY <1>1, OnesInvariance, PTL

\* A provenance bit, in the live file or in the snapshot, stands for a ONE.
THEOREM ProvenanceIsNeverStale == Spec => []BitsAreOnes
<1>1. OnesInv => BitsAreOnes
  BY DEF OnesInv, BitsAreTrue, BitsAreOnes
<1> QED BY <1>1, OnesInvariance, PTL

-----------------------------------------------------------------------------
(* XMem: paged memory implements flat memory, for every size, page size    *)
(* and byte.                                                               *)

(* Every address is in its own page. *)
LEMMA OwnPage ==
  ASSUME NEW b \in Memory!Address
  PROVE  Memory!PageOf(b) \in Memory!PageNos /\ b \in Memory!PageSpan(Memory!PageOf(b))
  BY DEF Memory!PageNos, Memory!PageSpan

(* The byte an access finds after the pages of a set were stored. *)
LEMMA StoredByte ==
  ASSUME NEW held, NEW span, NEW data, NEW b \in Memory!Address,
         mem_pages' = Memory!Stored(held, span, data)
  PROVE  Memory!ByteAt(b)' =
           IF Memory!PageOf(b) \in held THEN (IF b \in span THEN data[b] ELSE Memory!ByteAt(b)) ELSE 0
  <1>1. DOMAIN mem_pages' = held
    BY DEF Memory!Stored
  <1>2. CASE Memory!PageOf(b) \in held
    <2>1. mem_pages'[Memory!PageOf(b)] =
            [c \in Memory!PageSpan(Memory!PageOf(b)) |-> IF c \in span THEN data[c] ELSE Memory!ByteAt(c)]
      BY <1>2 DEF Memory!Stored
    <2>2. mem_pages'[Memory!PageOf(b)][b] = IF b \in span THEN data[b] ELSE Memory!ByteAt(b)
      BY <2>1, OwnPage
    <2>3. Memory!ByteAt(b)' = mem_pages'[Memory!PageOf(b)][b]
      BY <1>1, <1>2 DEF Memory!ByteAt, Memory!PageOf
    <2> QED  BY <2>2, <2>3, <1>2
  <1>3. CASE Memory!PageOf(b) \notin held
    BY <1>1, <1>3 DEF Memory!ByteAt, Memory!PageOf
  <1> QED  BY <1>2, <1>3

(* A write of data leaves each byte of its span as given and every other as it was. *)
LEMMA WrittenByte ==
  ASSUME NEW span \in SUBSET Memory!Address, NEW data, NEW b \in Memory!Address,
         mem_pages' = Memory!_write(span, data)
  PROVE  Memory!ByteAt(b)' = IF b \in span THEN data[b] ELSE Memory!ByteAt(b)
  <1> DEFINE held == DOMAIN mem_pages \union Memory!Allocated(span, data)
  <1>1. Memory!ByteAt(b)' =
          IF Memory!PageOf(b) \in held THEN (IF b \in span THEN data[b] ELSE Memory!ByteAt(b)) ELSE 0
    BY StoredByte DEF Memory!_write
  <1>2. CASE Memory!PageOf(b) \in held
    BY <1>1, <1>2
  <1>3. CASE Memory!PageOf(b) \notin held
    <2>1. Memory!ByteAt(b) = 0
      BY <1>3 DEF Memory!ByteAt
    <2>2. b \in span => data[b] = 0
      BY <1>3, OwnPage DEF Memory!Allocated, Memory!Met
    <2> QED  BY <1>1, <1>3, <2>1, <2>2
  <1> QED  BY <1>2, <1>3

(* A fill gives every byte of its span the value, whichever pages it allocates or releases. *)
LEMMA FilledByte ==
  ASSUME NEW a, NEW n, NEW value, NEW b \in Memory!Address, Memory!fill(a, n, value)
  PROVE  Memory!ByteAt(b)' = IF b \in Memory!Span(a, n) THEN value ELSE Memory!ByteAt(b)
  <1> DEFINE span == Memory!Span(a, n)
             held == IF value = 0 THEN DOMAIN mem_pages \ Memory!Released(span)
                       ELSE DOMAIN mem_pages \union Memory!Met(span)
  <1>1. Memory!ByteAt(b)' =
          IF Memory!PageOf(b) \in held THEN (IF b \in span THEN value ELSE Memory!ByteAt(b)) ELSE 0
    <2>1. mem_pages' = Memory!Stored(held, span, [c \in span |-> value])
      BY DEF Memory!fill
    <2>2. Memory!ByteAt(b)' =
            IF Memory!PageOf(b) \in held
            THEN (IF b \in span THEN [c \in span |-> value][b] ELSE Memory!ByteAt(b)) ELSE 0
      <3> HIDE DEF held, span
      <3> QED  BY <2>1, StoredByte
    <2> QED  BY <2>2
  <1>2. CASE Memory!PageOf(b) \in held
    BY <1>1, <1>2
  <1>3. CASE Memory!PageOf(b) \notin held
    <2>1. CASE Memory!PageOf(b) \in DOMAIN mem_pages
      <3>1. value = 0 /\ Memory!PageOf(b) \in Memory!Released(span)
        BY <1>3, <2>1
      <3>2. b \in span
        BY <3>1, OwnPage DEF Memory!Released
      <3> QED  BY <1>1, <1>3, <3>1, <3>2
    <2>2. CASE Memory!PageOf(b) \notin DOMAIN mem_pages
      <3>1. Memory!ByteAt(b) = 0
        BY <2>2 DEF Memory!ByteAt
      <3>2. b \in span => value = 0
        BY <1>3 DEF Memory!Met
      <3> QED  BY <1>1, <1>3, <3>1, <3>2
    <2> QED  BY <2>1, <2>2
  <1> QED  BY <1>2, <1>3

(* What the pages stand for, before and after a step, byte by byte. *)
Mem == [b \in Memory!Address |-> Memory!ByteAt(b)]

(* A memory without pages is flat memory of zeros. *)
LEMMA InitMaps == ASSUME Memory!Init PROVE Memory!Flat!Init
  BY DEF Memory!Init, Memory!Flat!Init, Memory!ByteAt, Memory!Flat!Address, Memory!Address,
     Memory!Moved, Memory!Flat!Moved

(* A read is one of flat memory. *)
LEMMA ReadMaps == ASSUME NEW a, NEW n, Memory!read_address(a, n) PROVE Memory!Flat!Read(a, n)
  <1>1. Mem' = Mem
    BY DEF Memory!read_address, Mem, Memory!ByteAt, Memory!Address, Memory!PageOf
  <1>2. \A b \in Memory!Span(a, n) : b \in Memory!Address
    BY DEF Memory!Span
  <1> QED
    BY <1>1, <1>2 DEF Memory!read_address, Memory!Flat!Read, Memory!InBounds, Memory!Flat!InBounds,
       Memory!Moved, Memory!Flat!Moved, Memory!_read, Memory!Span, Memory!Flat!Span,
                      Memory!Address, Memory!Flat!Address, Mem

(* A write is one of flat memory. *)
LEMMA WriteMaps ==
  ASSUME NEW a, NEW n, Memory!write_address(a, n)
  PROVE  \E data \in [Memory!Span(a, n) -> Memory!Byte] : Memory!Flat!Write(a, n, data)
  <1>1. PICK data \in [Memory!Span(a, n) -> Memory!Byte] :
               mem_pages' = Memory!_write(Memory!Span(a, n), data) /\ mem_last' = Memory!Moved(data)
    BY DEF Memory!write_address
  <1>2. Memory!Span(a, n) \in SUBSET Memory!Address
    BY DEF Memory!Span
  <1>3. \A b \in Memory!Address : Memory!ByteAt(b)' =
          IF b \in Memory!Span(a, n) THEN data[b] ELSE Memory!ByteAt(b)
    BY <1>1, <1>2, WrittenByte
  <1>4. Memory!Flat!Write(a, n, data)
    BY <1>1, <1>3 DEF Memory!write_address, Memory!Flat!Write, Memory!InBounds, Memory!Flat!InBounds,
       Memory!Moved, Memory!Flat!Moved, Memory!Span, Memory!Flat!Span,
                      Memory!Address, Memory!Flat!Address
  <1> QED  BY <1>4

(* A fill is a write of its value. *)
LEMMA FillMaps ==
  ASSUME NEW a, NEW n, NEW value \in Memory!Byte, Memory!fill(a, n, value)
  PROVE  \E data \in [Memory!Span(a, n) -> Memory!Byte] : Memory!Flat!Write(a, n, data)
  <1> DEFINE data == [b \in Memory!Span(a, n) |-> value]
  <1>1. \A b \in Memory!Address : Memory!ByteAt(b)' =
          IF b \in Memory!Span(a, n) THEN value ELSE Memory!ByteAt(b)
    BY FilledByte
  <1>2. Memory!Flat!Write(a, n, data)
    BY <1>1 DEF Memory!fill, Memory!Flat!Write, Memory!InBounds, Memory!Flat!InBounds, Memory!Moved,
       Memory!Flat!Moved, Memory!Span, Memory!Flat!Span, Memory!Address, Memory!Flat!Address
  <1> QED  BY <1>2

(* A clear is a write of zeros to all of memory. *)
LEMMA ClearMaps == ASSUME Memory!XMemAssumption, Memory!clear
  PROVE \E data \in [Memory!Span(0, MemSize) -> Memory!Byte] : Memory!Flat!Write(0, MemSize, data)
  <1> DEFINE data == [b \in Memory!Address |-> 0]
  <1>1. Memory!Span(0, MemSize) = Memory!Address /\ Memory!InBounds(0, MemSize) /\ 0 \in Memory!Byte
    BY DEF Memory!XMemAssumption, Memory!Span, Memory!Address, Memory!InBounds, Memory!Byte
  <1>2. \A b \in Memory!Address : Memory!ByteAt(b)' = 0
    BY DEF Memory!clear, Memory!ByteAt, Memory!PageOf
  <1>3. Memory!Flat!Write(0, MemSize, data)
    BY <1>1, <1>2 DEF Memory!clear, Memory!Flat!Write, Memory!InBounds, Memory!Flat!InBounds,
       Memory!Moved, Memory!Flat!Moved, Memory!Span, Memory!Flat!Span, Memory!Address, Memory!Flat!Address
  <1> QED  BY <1>1, <1>3

(* What is out of bounds is refused by both. *)
LEMMA RefuseMaps == ASSUME NEW a, NEW n, Memory!OutOfBounds(a, n) PROVE Memory!Flat!Refuse
  <1>1. Mem' = Mem
    BY DEF Memory!OutOfBounds, Mem, Memory!ByteAt, Memory!Address, Memory!PageOf
  <1> QED
    BY <1>1 DEF Memory!OutOfBounds, Memory!Flat!Refuse, Memory!Error, Memory!Flat!Error, Mem,
       Memory!Address, Memory!Flat!Address

(* An access that is in bounds is one that flat memory has. *)
LEMMA Bounded ==
  ASSUME Memory!XMemAssumption, NEW a \in Int, NEW n \in 0..MemSize, Memory!InBounds(a, n)
  PROVE  a \in 0..MemSize /\ [Memory!Flat!Span(a, n) -> Memory!Flat!Byte] = [Memory!Span(a, n) -> Memory!Byte]
  BY DEF Memory!XMemAssumption, Memory!InBounds, Memory!Span, Memory!Flat!Span, Memory!Byte,
     Memory!Flat!Byte, Memory!Address, Memory!Flat!Address

(* Every access at an address and a length is one of flat memory, or refused by it. *)
LEMMA AccessMaps ==
  ASSUME Memory!XMemAssumption, NEW a \in Int, NEW n \in 0..MemSize,
         \/ Memory!read_address(a, n) \/ Memory!write_address(a, n) \/ Memory!OutOfBounds(a, n)
         \/ \E v \in Memory!Byte : Memory!fill(a, n, v)
  PROVE  Memory!Flat!Next
  <1>1. CASE Memory!OutOfBounds(a, n)
    BY <1>1, RefuseMaps DEF Memory!Flat!Next
  <1>2. CASE Memory!read_address(a, n)
    <2>1. a \in 0..MemSize
      BY <1>2, Bounded DEF Memory!read_address
    <2> QED  BY <1>2, <2>1, ReadMaps DEF Memory!Flat!Next
  <1>3. CASE Memory!write_address(a, n)
    <2>1. a \in 0..MemSize /\ [Memory!Flat!Span(a, n) -> Memory!Flat!Byte] = [Memory!Span(a, n) -> Memory!Byte]
      BY <1>3, Bounded DEF Memory!write_address
    <2> QED  BY <1>3, <2>1, WriteMaps DEF Memory!Flat!Next
  <1>4. ASSUME NEW v \in Memory!Byte, Memory!fill(a, n, v) PROVE Memory!Flat!Next
    <2>1. a \in 0..MemSize /\ [Memory!Flat!Span(a, n) -> Memory!Flat!Byte] = [Memory!Span(a, n) -> Memory!Byte]
      BY <1>4, Bounded DEF Memory!fill
    <2> QED  BY <1>4, <2>1, FillMaps DEF Memory!Flat!Next
  <1> QED  BY <1>1, <1>2, <1>3, <1>4

(* Every operation on the pages is one on flat memory. *)
LEMMA StepMaps == ASSUME Memory!XMemAssumption, Memory!Next PROVE Memory!Flat!Next
  <1>1. ASSUME NEW a \in -1..MemSize, NEW n \in 0..MemSize,
               \/ Memory!read_address(a, n) \/ Memory!write_address(a, n) \/ Memory!OutOfBounds(a, n)
               \/ \E v \in Memory!Byte : Memory!fill(a, n, v)
        PROVE  Memory!Flat!Next
    BY <1>1, AccessMaps DEF Memory!XMemAssumption
  <1>2. ASSUME NEW i \in (-MemSize - 1)..MemSize, Memory!GetItem(i) \/ Memory!SetItem(i)
        PROVE Memory!Flat!Next
    <2>1. Memory!Index(i) \in Int
      BY DEF Memory!XMemAssumption, Memory!Index
    <2>2. CASE Memory!OutOfBounds(Memory!Index(i), 1)
      BY <2>2, RefuseMaps DEF Memory!Flat!Next
    <2>3. CASE ~Memory!OutOfBounds(Memory!Index(i), 1)
      <3>1. Memory!read_address(Memory!Index(i), 1) \/ Memory!write_address(Memory!Index(i), 1)
        BY <1>2, <2>3 DEF Memory!GetItem, Memory!SetItem
      <3>2. 1 \in 0..MemSize
        BY <3>1, <2>1 DEF Memory!XMemAssumption, Memory!read_address, Memory!write_address,
           Memory!InBounds
      <3> QED  BY <2>1, <3>1, <3>2, AccessMaps
    <2> QED  BY <2>2, <2>3
  <1>3. CASE Memory!clear
    <2>1. PICK data \in [Memory!Span(0, MemSize) -> Memory!Byte] : Memory!Flat!Write(0, MemSize, data)
      BY <1>3, ClearMaps
    <2>2. 0 \in Int /\ MemSize \in 0..MemSize /\ Memory!InBounds(0, MemSize) /\ 0 \in 0..MemSize
      BY DEF Memory!XMemAssumption, Memory!InBounds
    <2>3. [Memory!Flat!Span(0, MemSize) -> Memory!Flat!Byte] = [Memory!Span(0, MemSize) -> Memory!Byte]
      BY <2>2, Bounded
    <2> QED  BY <2>1, <2>2, <2>3 DEF Memory!Flat!Next
  <1> QED  BY <1>1, <1>2, <1>3 DEF Memory!Next

(* XMEM, whose pages come and go with what is written and filled, behaves as one flat array of
   bytes with bounds: every read, write, fill, clear and refusal of it is one of flat memory
   (XMem._read, _write, fill, clear). *)
THEOREM PagesImplementFlatMemory == Memory!Spec => Memory!IsFlat
  <1>1. Memory!Init => Memory!Flat!Init
    BY InitMaps
  <1>2. Memory!Next => Memory!Flat!Next
    BY StepMaps, MemoryAssumption
  <1>3. UNCHANGED (Memory!xvars) => UNCHANGED << Mem, mem_last >>
    BY DEF Memory!xvars, Mem, Memory!ByteAt, Memory!Address, Memory!PageOf
  <1>4. [Memory!Next]_(Memory!xvars) => [Memory!Flat!Next]_<< Mem, mem_last >>
    BY <1>2, <1>3
  <1> QED  BY <1>1, <1>4, PTL DEF Memory!Spec, Memory!IsFlat, Memory!Flat!Spec, Mem

(* Equality of memories. *)

(* Inductive: a page is one of XMEM's and has a byte for each of its addresses. *)
PagesAreWhole ==
  /\ DOMAIN mem_pages \subseteq Memory!PageNos
  /\ \A p \in DOMAIN mem_pages : mem_pages[p] = [b \in Memory!PageSpan(p) |-> mem_pages[p][b]]

(* What is stored are whole pages of XMEM. *)
LEMMA StoredIsWhole ==
  ASSUME NEW held \in SUBSET Memory!PageNos, NEW span,
         NEW data, mem_pages' = Memory!Stored(held, span, data)
  PROVE  PagesAreWhole'
  <1>1. DOMAIN mem_pages' = held
    BY DEF Memory!Stored
  <1>2. ASSUME NEW p \in held PROVE mem_pages'[p] = [b \in Memory!PageSpan(p) |-> mem_pages'[p][b]]
    <2>1. mem_pages'[p] = [b \in Memory!PageSpan(p) |-> IF b \in span THEN data[b] ELSE Memory!ByteAt(b)]
      BY DEF Memory!Stored
    <2> QED  BY <2>1
  <1> QED  BY <1>1, <1>2 DEF PagesAreWhole

(* The pages an access meets are XMEM's. *)
LEMMA MetPages == ASSUME NEW a, NEW n PROVE Memory!Met(Memory!Span(a, n)) \subseteq Memory!PageNos
  BY DEF Memory!Met, Memory!Span, Memory!PageNos

(* Every operation keeps the pages whole. *)
LEMMA WholeKept == ASSUME PagesAreWhole, [Memory!Next]_(Memory!xvars) PROVE PagesAreWhole'
  <1>1. ASSUME NEW a, NEW n, Memory!write_address(a, n) PROVE PagesAreWhole'
    <2>1. PICK data : mem_pages' = Memory!_write(Memory!Span(a, n), data)
      BY <1>1 DEF Memory!write_address
    <2>2. DOMAIN mem_pages \union Memory!Allocated(Memory!Span(a, n), data) \in SUBSET Memory!PageNos
      BY MetPages DEF Memory!Allocated, PagesAreWhole
    <2> QED  BY <2>1, <2>2, StoredIsWhole DEF Memory!_write
  <1>2. ASSUME NEW a, NEW n, NEW v, Memory!fill(a, n, v) PROVE PagesAreWhole'
    <2> DEFINE span == Memory!Span(a, n)
               held == IF v = 0 THEN DOMAIN mem_pages \ Memory!Released(span)
                         ELSE DOMAIN mem_pages \union Memory!Met(span)
    <2>1. mem_pages' = Memory!Stored(held, span, [b \in span |-> v])
      BY <1>2 DEF Memory!fill
    <2>2. held \in SUBSET Memory!PageNos
      BY MetPages DEF PagesAreWhole
    <2> HIDE DEF held, span
    <2> QED  BY <2>1, <2>2, StoredIsWhole
  <1>3. CASE Memory!clear
    BY <1>3 DEF Memory!clear, PagesAreWhole
  <1>4. ASSUME UNCHANGED mem_pages PROVE PagesAreWhole'
    BY <1>4 DEF PagesAreWhole
  <1>5. ASSUME NEW a, NEW n, Memory!read_address(a, n) \/ Memory!OutOfBounds(a, n) PROVE PagesAreWhole'
    BY <1>4, <1>5 DEF Memory!read_address, Memory!OutOfBounds
  <1>6. CASE UNCHANGED (Memory!xvars)
    BY <1>4, <1>6 DEF Memory!xvars
  <1> QED  BY <1>1, <1>2, <1>3, <1>5, <1>6 DEF Memory!Next, Memory!GetItem, Memory!SetItem

(* Of whole pages, an absent one is equal to one of zeros and to no other. *)
LEMMA EqualMeansBytes == ASSUME PagesAreWhole PROVE Memory!EqualIsByBytes
  <1>1. Memory!Equal(mem_pages, Memory!Rewritten)
    <2> DEFINE again == {q \in Memory!PageNos : \E b \in Memory!PageSpan(q) : Memory!ByteAt(b) # 0}
    <2>1. DOMAIN Memory!Rewritten = again /\ \A p \in again :
            Memory!Rewritten[p] = [b \in Memory!PageSpan(p) |-> Memory!ByteAt(b)]
      BY DEF Memory!Rewritten
    <2>2. \A p \in DOMAIN mem_pages : mem_pages[p] = [b \in Memory!PageSpan(p) |-> Memory!ByteAt(b)]
      BY DEF PagesAreWhole, Memory!ByteAt, Memory!PageSpan
    <2>3. ASSUME NEW p \in Memory!PageNos \ DOMAIN mem_pages
          PROVE Memory!Zeros(p) = [b \in Memory!PageSpan(p) |-> Memory!ByteAt(b)]
      BY DEF Memory!Zeros, Memory!ByteAt, Memory!PageSpan
    <2>4. ASSUME NEW p \in Memory!PageNos \ again
          PROVE Memory!Zeros(p) = [b \in Memory!PageSpan(p) |-> Memory!ByteAt(b)]
      BY DEF Memory!Zeros
    <2>5. DOMAIN mem_pages \subseteq Memory!PageNos /\ again \subseteq Memory!PageNos
      BY DEF PagesAreWhole
    <2> HIDE DEF again
    <2> QED  BY <2>1, <2>2, <2>3, <2>4, <2>5 DEF Memory!Equal
  <1>2. ASSUME NEW b \in Memory!Address,
               Memory!Equal(mem_pages, [Memory!Stored(Memory!PageNos, {}, {}) EXCEPT ![Memory!PageOf(b)][b] = IF @ = 0 THEN 1 ELSE 0])
        PROVE  FALSE
    <2> DEFINE p == Memory!PageOf(b)
               same == Memory!Stored(Memory!PageNos, {}, {})
               other == [same EXCEPT ![p][b] = IF @ = 0 THEN 1 ELSE 0]
    <2>1. p \in Memory!PageNos /\ b \in Memory!PageSpan(p)
      BY DEF Memory!PageNos, Memory!PageSpan
    <2>2. DOMAIN same = Memory!PageNos /\ same[p] = [c \in Memory!PageSpan(p) |-> Memory!ByteAt(c)]
      BY <2>1 DEF Memory!Stored
    <2>3. p \in DOMAIN other /\ other[p][b] # Memory!ByteAt(b)
      <3> HIDE DEF p, same
      <3> QED  BY <2>1, <2>2
    <2>4. (IF p \in DOMAIN mem_pages THEN mem_pages[p] ELSE Memory!Zeros(p))[b] = Memory!ByteAt(b)
      BY <2>1 DEF Memory!ByteAt, Memory!Zeros
    <2>5. Memory!Equal(mem_pages, other)
      BY <1>2
    <2> HIDE DEF p, other
    <2> QED  BY <2>3, <2>4, <2>5 DEF Memory!Equal
  <1> QED  BY <1>1, <1>2 DEF Memory!EqualIsByBytes

(* For every memory and page size, two memories are equal exactly when their bytes are, whatever was
   allocated, filled or released on the way (XMem.__eq__). *)
THEOREM EqualityIsOfBytes == Memory!Spec => []Memory!EqualIsByBytes
  <1>1. Memory!Init => PagesAreWhole
    BY DEF Memory!Init, PagesAreWhole
  <1> QED  BY <1>1, WholeKept, EqualMeansBytes, PTL DEF Memory!Spec
-----------------------------------------------------------------------------
(* RegFile: the register file's observer, marks, probes and operands, for  *)
(* every schema.                                                           *)

(* Every register has a byte for each of its offsets. *)
BytesAreThere ==
    /\ DOMAIN reg_live = File!Registers
    /\ \A n \in File!Registers : DOMAIN reg_live[n] = File!Offsets(n)

(* Inductive: what the observer read differs from the file only in bytes it was told of since, in
   registers given out whole and under views that are kept.  A mark stands for a one because what
   writes a byte drops its mark first, a scalar never has one, and a register given out whole has
   none; only a view from before the load writes past that, in the file or in the snapshot. *)
MarksAreDropped ==
    /\ reg_marks \in [File!Registers -> SUBSET Int]
    /\ \A n \in File!Registers : n \in File!Scalars \union reg_exported => reg_marks[n] = {}
FileInv == BytesAreThere /\ MarksAreDropped /\ File!ObserverKnows /\ File!OnlyViewsOutdateMarks

(* A new file has no mark, and no observer. *)
LEMMA InitFile == ASSUME File!RegFileAssumption, File!Init PROVE FileInv
  <1>1. BytesAreThere
    BY DEF File!Init, BytesAreThere, File!Fresh
  <1>2. MarksAreDropped
    BY DEF File!Init, MarksAreDropped, File!NoMarks, File!Scalars
  <1> QED  BY <1>1, <1>2 DEF File!Init, FileInv, File!ObserverKnows,
              File!OnlyViewsOutdateMarks, File!NoMarks

(* What a write leaves of a register's bytes. *)
LEMMA PutBytes ==
  ASSUME BytesAreThere, NEW n \in File!Registers, NEW data, reg_live' = File!Put(n, data)
  PROVE  /\ BytesAreThere'
         /\ \A m \in File!Registers : \A b \in File!Offsets(m) :
              reg_live'[m][b] = IF m = n /\ b \in DOMAIN data THEN data[b] ELSE reg_live[m][b]
  <1>1. reg_live' = [reg_live EXCEPT ![n] = [b \in File!Offsets(n) |-> IF b \in DOMAIN data
          THEN data[b] ELSE reg_live[n][b]]]
    BY DEF File!Put
  <1> QED  BY <1>1 DEF BytesAreThere
(* A write that tells of the bytes it writes, and drops their marks, keeps the invariant: what
   every accessor does, and a caller that writes a view at once. *)
LEMMA WriteKeeps ==
  ASSUME FileInv, NEW n \in File!Registers, NEW data, NEW offsets, DOMAIN data \subseteq offsets,
         reg_live' = File!Put(n, data), reg_told' = File!Told(n, offsets),
         reg_marks' = [reg_marks EXCEPT ![n] = @ \ offsets], UNCHANGED << reg_exported, reg_held, reg_buffer, reg_seen >>
  PROVE  FileInv'
  <1>1. /\ BytesAreThere'
        /\ \A m \in File!Registers : \A b \in File!Offsets(m) :
              reg_live'[m][b] = IF m = n /\ b \in DOMAIN data THEN data[b] ELSE reg_live[m][b]
    BY PutBytes DEF FileInv
  <1>2. \A m \in File!Registers : reg_marks'[m] = IF m = n THEN reg_marks[m] \ offsets ELSE reg_marks[m]
    BY DEF FileInv, MarksAreDropped
  <1>3. MarksAreDropped'
    BY <1>2 DEF FileInv, MarksAreDropped, File!Scalars, File!Registers
  <1>4. File!ObserverKnows'
    BY <1>1 DEF FileInv, File!ObserverKnows, File!Told, File!IsHeld
  <1>5. File!OnlyViewsOutdateMarks'
    <2> SUFFICES ASSUME NEW m \in File!Registers, NEW b \in File!Offsets(m)
                 PROVE  /\ b \in reg_marks'[m] => reg_live'[m][b] = 1 \/ File!IsHeld(m, b)'
                        /\ reg_buffer' # File!None /\ b \in reg_buffer'.marks[m]
                             => reg_buffer'.storage[m][b] = 1 \/ File!IsHeld(m, b)'
      BY DEF File!OnlyViewsOutdateMarks
    <2>1. File!IsHeld(m, b)' <=> File!IsHeld(m, b)
      BY DEF File!IsHeld
    <2>2. b \in reg_marks'[m] => b \in reg_marks[m] /\ reg_live'[m][b] = reg_live[m][b]
      BY <1>1, <1>2
    <2> QED  BY <2>1, <2>2 DEF FileInv, File!OnlyViewsOutdateMarks
  <1> QED  BY <1>1, <1>3, <1>4, <1>5 DEF FileInv

(* The bytes a wrapping write announces are those it writes. *)
LEMMA RingIsTold ==
  ASSUME NEW n, NEW start \in Nat, NEW length \in Nat, File!Total(n) \in Nat \ {0}, length <= File!Total(n)
  PROVE  {File!RingOffset(n, start, length, i) :
           i \in 0..length - 1} \subseteq File!RingTold(n, start, length)
  <1>1. File!FirstOf(n, start, length) \in Int /\ start % File!Total(n) \in Nat
    <2>1. start % File!Total(n) \in 0..File!Total(n) - 1
      OBVIOUS
    <2>2. File!Total(n) - (start % File!Total(n)) \in Int /\ length \in Int
      BY <2>1
    <2>3. \A x, y \in Int : File!Min({x, y}) \in Int
      BY DEF File!Min
    <2> QED  BY <2>1, <2>2, <2>3 DEF File!FirstOf
  <1> QED  BY <1>1 DEF File!RingOffset, File!RingTold, File!Span

(* No register is empty. *)
LEMMA TotalIsPositive ==
  ASSUME File!RegFileAssumption, NEW n \in File!Registers PROVE File!Total(n) \in Nat \ {0}
  <1>1. \A x, y \in Nat \ {0} : x * y \in Nat \ {0}
    OBVIOUS
  <1> QED  BY <1>1 DEF File!Total, File!RegFileAssumption, File!Registers

(* The operations that write a register. *)
LEMMA WritesKeep ==
  ASSUME File!RegFileAssumption, FileInv, NEW n \in File!Registers,
         \/ \E i \in 0..RegSchema[n].count - 1 :
              (\E v \in 0..File!WordMask - 1 : File!SetScalar(n, i, v)) \/ File!SetElement(n, i)
         \/ \E i \in File!Words(n), v \in 0..File!WordMask : File!SetWord(n, i, v)
         \/ \E b \in File!Offsets(n), size \in 1..File!Total(n) :
              File!SetAt(n, b, size) \/ File!WriteMutable(n, b, size)
  PROVE  FileInv'
  <1>1. ASSUME NEW i, NEW v, File!SetScalar(n, i, v) PROVE FileInv'
    <2> DEFINE offset == i * RegSchema[n].size
               data == [b \in File!Span(offset, RegSchema[n].size) |-> File!ByteOfWord(v % File!ScalarMask, b - offset)]
    <2>1. reg_live' = File!Put(n, data) /\ reg_told' = File!Told(n, DOMAIN data) /\ n \in File!Scalars
      BY <1>1 DEF File!SetScalar
    <2>2. UNCHANGED << reg_marks, reg_exported, reg_held, reg_buffer, reg_seen >>
      BY <1>1 DEF File!SetScalar
    <2> HIDE DEF data
    <2>3. reg_marks' = [reg_marks EXCEPT ![n] = @ \ DOMAIN data]
      BY <2>1, <2>2 DEF FileInv, MarksAreDropped
    <2> QED  BY <2>1, <2>2, <2>3, WriteKeeps
  <1>2. ASSUME NEW i, File!SetElement(n, i) PROVE FileInv'
    BY <1>2, WriteKeeps DEF File!SetElement, File!Write
  <1>3. ASSUME NEW i, NEW v, File!SetWord(n, i, v) PROVE FileInv'
    BY <1>3, WriteKeeps DEF File!SetWord, File!Write
  <1>4. ASSUME NEW b \in File!Offsets(n), NEW size \in 1..File!Total(n), File!SetAt(n, b, size)
        PROVE FileInv'
    <2>1. PICK data \in File!Data({File!RingOffset(n, b, size, i) : i \in 0..size - 1}) :
                 reg_live' = File!Put(n, data)
      BY <1>4 DEF File!SetAt
    <2>2. DOMAIN data \subseteq File!RingTold(n, b, size)
      <3>1. DOMAIN data = {File!RingOffset(n, b, size, i) : i \in 0..size - 1}
        BY DEF File!Data
      <3>2. b \in Nat /\ size \in Nat /\ size <= File!Total(n) /\ File!Total(n) \in Nat \ {0}
        BY TotalIsPositive DEF File!Offsets
      <3> QED  BY <3>1, <3>2, RingIsTold
    <2> QED  BY <1>4, <2>1, <2>2, WriteKeeps DEF File!SetAt
  <1>5. ASSUME NEW b, NEW size, File!WriteMutable(n, b, size) PROVE FileInv'
    BY <1>5, WriteKeeps DEF File!WriteMutable, File!Write
  <1> QED  BY <1>1, <1>2, <1>3, <1>4, <1>5

(* A load of a declared row marks ones it has just written, or nothing in a register given out. *)
LEMMA LoadKeeps ==
  ASSUME FileInv, NEW n \in File!Registers, NEW i, File!LoadOnes(n, i) PROVE FileInv'
  <1> DEFINE slot == File!Span(i * RegSchema[n].size, RegSchema[n].size)
             data == [b \in slot |-> 1]
  <1>1. /\ reg_live' = File!Put(n, data) /\ reg_told' = File!Told(n, slot) /\ n \in File!Vectors
        /\ reg_marks' = [reg_marks EXCEPT ![n] = (@ \ slot) \union File!Marked(n, slot)]
        /\ UNCHANGED << reg_exported, reg_held, reg_buffer, reg_seen >>
    BY DEF File!LoadOnes
  <1>2. DOMAIN data = slot /\ \A b \in slot : data[b] = 1
    OBVIOUS
  <1>3. slot \subseteq Int
    BY DEF File!Span
  <1> HIDE DEF data, slot
  <1>4. /\ BytesAreThere'
        /\ \A m \in File!Registers : \A b \in File!Offsets(m) :
              reg_live'[m][b] = IF m = n /\ b \in slot THEN 1 ELSE reg_live[m][b]
    BY <1>1, <1>2, PutBytes DEF FileInv
  <1>5. \A m \in File!Registers : reg_marks'[m] = IF m = n
          THEN (reg_marks[m] \ slot) \union File!Marked(n, slot) ELSE reg_marks[m]
    BY <1>1 DEF FileInv, MarksAreDropped
  <1>6. MarksAreDropped'
    <2>1. reg_marks' \in [File!Registers -> SUBSET Int]
      BY <1>1, <1>3 DEF FileInv, MarksAreDropped, File!Marked
    <2>2. n \notin File!Scalars /\ (n \in reg_exported => File!Marked(n, slot) = {})
      BY <1>1 DEF File!Vectors, File!Marked
    <2>3. ASSUME NEW m \in File!Registers, m \in File!Scalars \union reg_exported PROVE reg_marks'[m] = {}
      BY <1>5, <2>2, <2>3 DEF FileInv, MarksAreDropped
    <2> QED  BY <1>1, <2>1, <2>3 DEF MarksAreDropped
  <1>7. File!ObserverKnows'
    BY <1>1, <1>4 DEF FileInv, File!ObserverKnows, File!Told, File!IsHeld
  <1>8. File!OnlyViewsOutdateMarks'
    BY <1>1, <1>4, <1>5 DEF FileInv, File!OnlyViewsOutdateMarks, File!IsHeld, File!Marked
  <1> QED  BY <1>4, <1>6, <1>7, <1>8 DEF FileInv

(* What gives a register's bytes out, and who writes them after. *)
LEMMA HoldersKeep ==
  ASSUME FileInv, NEW n \in File!Registers,
         \/ \E b \in File!Offsets(n), size \in 1..File!Total(n) : File!Hold(n, b, size)
         \/ \E b \in File!Offsets(n) : File!HolderWrites(n, b)
         \/ File!Raw(n)
  PROVE  FileInv'
  <1>1. ASSUME NEW b, NEW size, File!Hold(n, b, size) PROVE FileInv'
    <2>1. /\ reg_held' = reg_held \union {<< n, File!Span(b, size) >>} /\ reg_told' = File!Told(n, File!Span(b, size))
          /\ reg_marks' = [reg_marks EXCEPT ![n] = @ \ File!Span(b, size)]
          /\ UNCHANGED << reg_live, reg_exported, reg_buffer, reg_seen >>
      BY <1>1 DEF File!Hold
    <2>2. \A m \in File!Registers : reg_marks'[m] \subseteq reg_marks[m]
      BY <2>1 DEF FileInv, MarksAreDropped
    <2>3. \A m, c : File!IsHeld(m, c) => File!IsHeld(m, c)'
      BY <2>1 DEF File!IsHeld
    <2>4. MarksAreDropped'
      BY <2>1, <2>2 DEF FileInv, MarksAreDropped, File!Scalars, File!Registers
    <2>5. File!ObserverKnows'
      BY <2>1, <2>3 DEF FileInv, File!ObserverKnows, File!Told
    <2>6. File!OnlyViewsOutdateMarks'
      BY <2>1, <2>2, <2>3 DEF FileInv, File!OnlyViewsOutdateMarks
    <2>7. BytesAreThere'
      BY <2>1 DEF FileInv, BytesAreThere
    <2> QED  BY <2>4, <2>5, <2>6, <2>7 DEF FileInv
  <1>2. ASSUME NEW b, File!HolderWrites(n, b) PROVE FileInv'
    <2>1. PICK v \in File!Byte : reg_live' = File!Put(n, [c \in {b} |-> v])
      BY <1>2 DEF File!HolderWrites
    <2>2. (n \in reg_exported \/ File!IsHeld(n, b)) /\ UNCHANGED << reg_marks, reg_exported, reg_held, reg_buffer, reg_told, reg_seen >>
      BY <1>2 DEF File!HolderWrites, File!IsHeld
    <2>3. /\ BytesAreThere'
          /\ \A m \in File!Registers : \A c \in File!Offsets(m) :
               reg_live'[m][c] = reg_live[m][c] \/ (m = n /\ c = b)
      BY <2>1, PutBytes DEF FileInv
    <2>4. \A m, c : File!IsHeld(m, c)' = File!IsHeld(m, c)
      BY <2>2 DEF File!IsHeld
    <2>5. MarksAreDropped'
      BY <2>2 DEF FileInv, MarksAreDropped
    <2>6. File!ObserverKnows'
      BY <2>2, <2>3, <2>4 DEF FileInv, File!ObserverKnows
    <2>7. File!OnlyViewsOutdateMarks'
      BY <2>2, <2>3, <2>4 DEF FileInv, File!OnlyViewsOutdateMarks, MarksAreDropped
    <2> QED  BY <2>3, <2>5, <2>6, <2>7 DEF FileInv
  <1>3. CASE File!Raw(n)
    <2>1. /\ reg_exported' = reg_exported \union {n} /\ reg_told' = File!Told(n, File!Offsets(n))
          /\ reg_marks' = [reg_marks EXCEPT ![n] = {}] /\ UNCHANGED << reg_live, reg_held, reg_buffer, reg_seen >>
      BY <1>3 DEF File!Raw
    <2>2. \A m \in File!Registers : reg_marks'[m] = IF m = n THEN {} ELSE reg_marks[m]
      BY <2>1 DEF FileInv, MarksAreDropped
    <2>3. MarksAreDropped'
      BY <2>1, <2>2 DEF FileInv, MarksAreDropped, File!Scalars, File!Registers
    <2>4. File!ObserverKnows'
      BY <2>1 DEF FileInv, File!ObserverKnows, File!Told, File!IsHeld
    <2>5. File!OnlyViewsOutdateMarks'
      BY <2>1, <2>2 DEF FileInv, File!OnlyViewsOutdateMarks, File!IsHeld
    <2>6. BytesAreThere'
      BY <2>1 DEF FileInv, BytesAreThere
    <2> QED  BY <2>3, <2>4, <2>5, <2>6 DEF FileInv
  <1> QED  BY <1>1, <1>2, <1>3

(* The snapshot of a word, and what is copied back or afresh. *)
LEMMA FilesKeep == ASSUME File!RegFileAssumption, FileInv, File!Begin \/ File!Undo \/ File!Reset
  PROVE FileInv'
  <1>1. CASE File!Begin
    <2>1. reg_buffer' = [storage |-> reg_live, marks |-> reg_marks]
          /\ UNCHANGED << reg_live, reg_marks, reg_exported, reg_held, reg_told, reg_seen >>
      BY <1>1 DEF File!Begin, File!Snapshot
    <2>2. File!OnlyViewsOutdateMarks'
      BY <2>1 DEF FileInv, File!OnlyViewsOutdateMarks, File!IsHeld
    <2> QED  BY <2>1, <2>2 DEF FileInv, BytesAreThere, MarksAreDropped, File!ObserverKnows,
                File!IsHeld
  <1>2. CASE File!Undo
    <2>1. "lr" \in File!Registers
      BY DEF File!RegFileAssumption, File!Registers
    <2> QED  BY <1>2, <2>1, WriteKeeps DEF File!Undo, File!Write
  <1>3. CASE File!Reset
    <2>1. reg_live' = File!Fresh /\ reg_marks' = File!NoMarks /\ UNCHANGED << reg_exported, reg_held, reg_buffer, reg_seen >>
          /\ reg_told' = IF reg_seen = File!None THEN reg_told
               ELSE UNION {{<< n, b >> : b \in File!Offsets(n)} : n \in File!Registers}
      BY <1>3 DEF File!Reset
    <2>2. BytesAreThere'
      BY <2>1 DEF BytesAreThere, File!Fresh
    <2>3. MarksAreDropped'
      <3>1. File!NoMarks \in [File!Registers -> SUBSET Int] /\ \A n \in File!Registers :
              File!NoMarks[n] = {}
        BY DEF File!NoMarks
      <3> QED  BY <2>1, <3>1 DEF FileInv, MarksAreDropped, File!Scalars
    <2>4. File!ObserverKnows'
      BY <2>1 DEF File!ObserverKnows
    <2>5. File!OnlyViewsOutdateMarks'
      BY <2>1 DEF FileInv, File!OnlyViewsOutdateMarks, File!NoMarks, File!IsHeld
    <2> QED  BY <2>2, <2>3, <2>4, <2>5 DEF FileInv
  <1> QED  BY <1>1, <1>2, <1>3

(* The observer comes, reads what it was told of, and goes. *)
LEMMA ObserverKeeps == ASSUME FileInv, File!Attach \/ File!Read \/ File!Detach PROVE FileInv'
  <1>1. UNCHANGED << reg_live, reg_marks, reg_exported, reg_held, reg_buffer >>
    BY DEF File!Attach, File!Read, File!Detach
  <1>2. BytesAreThere' /\ MarksAreDropped' /\ File!OnlyViewsOutdateMarks'
    BY <1>1 DEF FileInv, BytesAreThere, MarksAreDropped, File!OnlyViewsOutdateMarks, File!IsHeld
  <1>3. File!ObserverKnows'
    BY <1>1 DEF File!Attach, File!Read, File!Detach, FileInv, File!ObserverKnows,
       File!IsHeld
  <1> QED  BY <1>2, <1>3 DEF FileInv
(* An offset of a probe is the accessors': start + i, around the register's end. *)
LEMMA RingWraps ==
  ASSUME NEW n, NEW T \in Nat \ {0}, File!Total(n) = T, NEW start \in 0..T - 1,
         NEW size \in 0..T - 1, NEW i \in 0..size - 1
  PROVE  File!RingOffset(n, start, size, i) = (start + i) % T /\ File!RingOffset(n, start, size, i) \in 0..T - 1
  <1>1. start % T = start
    OBVIOUS
  <1>2. File!FirstOf(n, start, size) = IF size <= T - start THEN size ELSE T - start
    <2>1. \A x, y \in Int : File!Min({x, y}) = IF x <= y THEN x ELSE y
      BY DEF File!Min
    <2> QED  BY <1>1, <2>1 DEF File!FirstOf
  <1>3. CASE start + i < T
    <2>1. (start + i) % T = start + i
      BY <1>3
    <2>2. i < File!FirstOf(n, start, size)
      BY <1>2, <1>3
    <2>3. File!RingOffset(n, start, size, i) = start + i
      BY <1>1, <2>2 DEF File!RingOffset
    <2> QED  BY <1>3, <2>1, <2>3
  <1>4. CASE start + i >= T
    <2>1. (start + i) % T = start + i - T
      <3>1. start + i - T \in 0..T - 1 /\ start + i = 1 * T + (start + i - T)
        BY <1>4
      <3>2. \A q, r, z \in Int : r \in 0..T - 1 /\ q = 1 /\ z = q * T + r => z % T = r
        OBVIOUS
      <3> QED  BY <3>1, <3>2
    <2>2. File!FirstOf(n, start, size) = T - start /\ ~(i < T - start)
      BY <1>2, <1>4
    <2>3. File!RingOffset(n, start, size, i) = start + i - T
      BY <1>1, <2>2 DEF File!RingOffset
    <2> QED  BY <1>4, <2>1, <2>3
  <1> QED  BY <1>3, <1>4

(* A probe looks where the accessors read, around the end of a register. *)
LEMMA ProbesAreRight == ASSUME File!RegFileAssumption, FileInv PROVE File!ProbesSeeOnes
  <1> SUFFICES ASSUME reg_held = {}, NEW n \in File!Vectors, NEW start \in File!Offsets(n),
      NEW size \in File!Offsets(n),
                      size > 0, File!HasConstantOnes(n, start, size), NEW i \in 0..size - 1
               PROVE  reg_live[n][(start + i) % File!Total(n)] = 1
    BY DEF File!ProbesSeeOnes
  <1>1. n \in File!Registers /\ File!Total(n) \in Nat \ {0} /\ start \in 0..File!Total(n) - 1 /\ size \in 0..File!Total(n) - 1
    BY TotalIsPositive DEF File!Vectors, File!Offsets
  <1>2. File!RingOffset(n, start, size, i) = (start + i) % File!Total(n) /\ File!RingOffset(n, start, size, i) \in File!Offsets(n)
    BY <1>1, RingWraps DEF File!Offsets
  <1>3. (start + i) % File!Total(n) \in reg_marks[n]
    BY <1>2 DEF File!HasConstantOnes
  <1>4. \A b : ~File!IsHeld(n, b)
    BY DEF File!IsHeld
  <1> QED  BY <1>1, <1>2, <1>3, <1>4 DEF FileInv, File!OnlyViewsOutdateMarks

(* The packed resolver finds what the faithful one does, in every file. *)
LEMMA PackedIsRight == ASSUME File!RegFileAssumption PROVE File!PackedIsFaithful
  <1> SUFFICES ASSUME NEW file, NEW kind \in {"lr", "cr", "lcr"},
      NEW raw \in 0..File!Count("lr") + File!Count("cr") + 1
               PROVE  File!Packed(file, kind, raw) = File!Faithful(file, kind, raw)
    BY DEF File!PackedIsFaithful
  <1>1. File!Count("lr") \in Nat /\ File!Count("cr") \in Nat /\ raw \in Nat
    BY DEF File!Count, File!RegFileAssumption
  <1> DEFINE bank == File!BankOf(kind, raw)[1]
             index == File!BankOf(kind, raw)[2]
  <1>2. File!Packed(file, kind, raw) = File!Accessor(file, bank, index) /\ File!Count(bank) \in Nat /\ index \in Nat
    <2>1. bank \in {"lr", "cr"} /\ index \in Nat
      BY <1>1 DEF File!BankOf
    <2>2. File!Count(bank) \in Nat
      BY <1>1, <2>1
    <2> HIDE DEF bank, index
    <2>3. (0 <= index /\ index < File!Count(bank)) <=> index \in 0..File!Count(bank) - 1
      BY <2>1, <2>2
    <2>4. File!Packed(file, kind, raw) = IF 0 <= index /\ index < File!Count(bank)
            THEN File!WordOf(file[bank], index * File!WordBytes)
                                    ELSE File!Accessor(file, bank, index)
      BY DEF File!Packed, bank, index
    <2> QED  BY <2>1, <2>2, <2>3, <2>4 DEF File!Accessor
  <1>3. File!Faithful(file, kind, raw) = File!Accessor(file, bank, index)
    BY <1>1 DEF File!Faithful, File!BankOf
  <1> QED  BY <1>2, <1>3

FileIsTrue ==
  File!ObserverKnows /\ File!OnlyViewsOutdateMarks /\ File!ProbesSeeOnes /\ File!PackedIsFaithful

(* For every schema, and any number of operations and of views kept: the observer knows every byte
   written since it read, only a kept view outdates a mark, a probe that sees ones sees them in
   storage, and the packed operands are the faithful ones (regfile.py, resolver.py). *)
THEOREM RegisterFileIsTrue == ASSUME File!RegFileAssumption PROVE File!Spec => []FileIsTrue
  <1>1. File!Init => FileInv
    BY InitFile
  <1>2. FileInv /\ [File!Next]_(File!vars) => FileInv'
    <2> SUFFICES ASSUME FileInv, [File!Next]_(File!vars) PROVE FileInv'
      OBVIOUS
    <2>1. ASSUME NEW n \in File!Registers,
                 \/ \E i \in 0..RegSchema[n].count - 1 :
                      (\E v \in 0..File!WordMask - 1 : File!SetScalar(n, i, v)) \/ File!SetElement(n, i)
                 \/ \E i \in File!Words(n), v \in 0..File!WordMask : File!SetWord(n, i, v)
                 \/ \E b \in File!Offsets(n), size \in 1..File!Total(n) :
                      File!SetAt(n, b, size) \/ File!WriteMutable(n, b, size)
          PROVE  FileInv'
      BY <2>1, WritesKeep
    <2>2. ASSUME NEW n \in File!Registers,
                 NEW i \in 0..RegSchema[n].count - 1, File!LoadOnes(n, i) PROVE FileInv'
      BY <2>2, LoadKeeps
    <2>3. ASSUME NEW n \in File!Registers,
                 \/ \E b \in File!Offsets(n), size \in 1..File!Total(n) : File!Hold(n, b, size)
                 \/ \E b \in File!Offsets(n) : File!HolderWrites(n, b)
                 \/ File!Raw(n)
          PROVE  FileInv'
      BY <2>3, HoldersKeep
    <2>4. CASE File!Begin \/ File!Undo \/ File!Reset
      BY <2>4, FilesKeep
    <2>5. CASE File!Attach \/ File!Read \/ File!Detach
      BY <2>5, ObserverKeeps
    <2>6. CASE UNCHANGED (File!vars)
      BY <2>6 DEF File!vars, FileInv, BytesAreThere, MarksAreDropped, File!ObserverKnows,
         File!OnlyViewsOutdateMarks, File!IsHeld
    <2> QED  BY <2>1, <2>2, <2>3, <2>4, <2>5, <2>6 DEF File!Next
  <1>3. FileInv => FileIsTrue
    BY ProbesAreRight, PackedIsRight DEF FileInv, FileIsTrue
  <1> QED  BY <1>1, <1>2, <1>3, PTL DEF File!Spec

-----------------------------------------------------------------------------
(* The alias observer: for every memory, every row format, every set of    *)
(* words and host, what an event tells is what the history of the run has. *)

(* What a word may be made of. *)
AnyOp == {Alias!Idle[1]} \union UNION {{w[i] : i \in DOMAIN w} : w \in AliasWords}
OpLeft(s, i) ==
    /\ s[i].slot \in Alias!SlotNames
    /\ s[i].slot \in Alias!RowSlots
         => s[i].at \in Nat /\ (s[i].at \in Alias!Rows \/ \E j \in 1..i - 1 : s[j].slot = "check")
    /\ s[i].slot = "load" => s[i].row \in AliasRows
(* A word's loads and stores are behind its check, or their rows are in XMEM. *)
TodoIsChecked ==
    /\ alias_todo \in Seq(AnyOp)
    /\ alias_todo = Alias!Idle \/ \A i \in 1..Len(alias_todo) : OpLeft(alias_todo, i)
    /\ alias_fmt \in AliasRowSizes /\ alias_next_id \in Nat
    /\ alias_event # Alias!None => alias_todo # Alias!Idle \/ alias_halted

(* An op taken off a word leaves one whose rows are still checked, or in XMEM. *)
LEMMA TailLeft ==
  ASSUME NEW s \in Seq(AnyOp), s # << >>, \A i \in 1..Len(s) : OpLeft(s, i),
         s[1].slot # "check" \/ \A i \in 1..Len(s) : s[i].slot \in Alias!RowSlots => s[i].at \in Alias!Rows
  PROVE  /\ Tail(s) \in Seq(AnyOp) /\ Tail(s) # Alias!Idle
         /\ \A i \in 1..Len(Tail(s)) : OpLeft(Tail(s), i)
  <1>1. /\ Tail(s) \in Seq(AnyOp) /\ Len(Tail(s)) = Len(s) - 1 /\ Len(s) \in Nat \ {0}
        /\ \A i \in 1..Len(s) - 1 : Tail(s)[i] = s[i + 1]
    OBVIOUS
  <1>2. ASSUME NEW i \in 1..Len(Tail(s)) PROVE OpLeft(Tail(s), i)
    <2>1. Tail(s)[i] = s[i + 1] /\ OpLeft(s, i + 1) /\ i + 1 \in 1..Len(s)
      BY <1>1
    <2>2. ASSUME s[i + 1].slot \in Alias!RowSlots, s[i + 1].at \notin Alias!Rows
          PROVE  \E j \in 1..i - 1 : Tail(s)[j].slot = "check"
      <3>1. PICK j \in 1..(i + 1) - 1 : s[j].slot = "check"
        BY <2>1, <2>2 DEF OpLeft
      <3>2. j # 1
        BY <2>1, <2>2, <3>1
      <3>3. j - 1 \in 1..i - 1 /\ Tail(s)[j - 1] = s[j]
        BY <1>1, <3>1, <3>2
      <3> QED  BY <3>1, <3>3
    <2> QED  BY <2>1, <2>2 DEF OpLeft
  <1>3. Tail(s) # Alias!Idle
    <2>1. Len(Alias!Idle) = 1 /\ Alias!Idle[1].slot = "idle"
      BY DEF Alias!Idle
    <2>2. Len(Tail(s)) = 1 => Tail(s)[1].slot \in Alias!SlotNames
      BY <1>1, <1>2 DEF OpLeft
    <2> QED  BY <2>1, <2>2 DEF Alias!SlotNames
  <1> QED  BY <1>1, <1>2, <1>3

(* Every step keeps a word's ops checked before they touch memory (Cycle._check). *)
LEMMA TodoKept == ASSUME Alias!AliasAssumption, TodoIsChecked, [Alias!Next]_(Alias!vars)
  PROVE TodoIsChecked'
  <1>1. CASE UNCHANGED (Alias!vars)
    BY <1>1 DEF Alias!vars, Alias!machine, Alias!word, Alias!emitted, TodoIsChecked, OpLeft, Alias!Rows
  <1>2. ASSUME NEW w \in AliasWords, Alias!begin(w) PROVE TodoIsChecked'
    <2>1. w \in Seq(AnyOp) /\ alias_event = Alias!None
      <3>1. w \in Seq(UNION {{x[i] : i \in DOMAIN x} : x \in AliasWords})
        BY DEF Alias!AliasAssumption
      <3>2. UNION {{x[i] : i \in DOMAIN x} : x \in AliasWords} \subseteq AnyOp
        BY DEF AnyOp
      <3>3. alias_event = Alias!None
        BY <1>2 DEF Alias!begin, TodoIsChecked
      <3>4. Seq(UNION {{x[i] : i \in DOMAIN x} : x \in AliasWords}) \subseteq Seq(AnyOp)
        BY <3>2
      <3> QED  BY <3>1, <3>3, <3>4
    <2>2. \A i \in 1..Len(w) : OpLeft(w, i)
      BY <2>1 DEF Alias!AliasAssumption, OpLeft, Alias!RowSlots
    <2>3. alias_todo' = w /\ UNCHANGED << alias_fmt, alias_event, alias_next_id >>
      BY <1>2 DEF Alias!begin, Alias!machine, Alias!emitted
    <2> QED  BY <2>1, <2>2, <2>3 DEF TodoIsChecked, OpLeft, Alias!Rows
  <1>3. CASE Alias!end
    BY <1>3 DEF Alias!end, Alias!machine, TodoIsChecked, AnyOp, Alias!Idle
  <1>4. CASE Alias!HostSteps
    <2>1. alias_todo = Alias!Idle /\ alias_todo' = Alias!Idle /\ alias_event' = Alias!None
          /\ alias_next_id' = alias_next_id
      BY <1>4 DEF Alias!HostSteps, Alias!WriteXmem, Alias!WriteRow, Alias!Export, Alias!WriteAcc,
         Alias!reset, Alias!Between
    <2>2. alias_fmt' \in AliasRowSizes
      BY <1>4 DEF Alias!HostSteps, Alias!WriteXmem, Alias!WriteRow, Alias!Export, Alias!WriteAcc,
         Alias!reset, Alias!machine, TodoIsChecked
    <2> QED  BY <2>1, <2>2 DEF TodoIsChecked, AnyOp
  <1>5. CASE Alias!Execute
    <2>1. /\ alias_todo \in Seq(AnyOp) /\ alias_todo # << >> /\ alias_todo # Alias!Idle /\ Alias!Op =
               alias_todo[1]
          /\ \A i \in 1..Len(alias_todo) : OpLeft(alias_todo, i)
      BY <1>5 DEF Alias!Execute, TodoIsChecked, Alias!Op
    <2>2. CASE Alias!Check \/ Alias!StoreRaises
      <3>1. /\ UNCHANGED << alias_fmt, alias_next_id, alias_event >>
            /\ \/ alias_todo' = Alias!Idle /\ alias_halted'
               \/ alias_todo' = Tail(alias_todo) /\ \A i \in Alias!RowOps : alias_todo[i].at \in Alias!Rows
        BY <2>2 DEF Alias!Check, Alias!StoreRaises, Alias!machine, Alias!emitted
      <3>2. CASE alias_todo' = Alias!Idle /\ alias_halted'
        BY <3>1, <3>2 DEF TodoIsChecked, AnyOp, Alias!Idle
      <3>3. CASE alias_todo' = Tail(alias_todo) /\ \A i \in Alias!RowOps : alias_todo[i].at \in Alias!Rows
        <4>1. \A i \in 1..Len(alias_todo) : alias_todo[i].slot \in Alias!RowSlots
                => alias_todo[i].at \in Alias!Rows
          BY <3>3 DEF Alias!RowOps, Alias!RowSlots
        <4>2. /\ Tail(alias_todo) \in Seq(AnyOp) /\ Tail(alias_todo) # Alias!Idle
              /\ \A i \in 1..Len(Tail(alias_todo)) : OpLeft(Tail(alias_todo), i)
          BY <2>1, <4>1, TailLeft
        <4> QED  BY <3>1, <3>3, <4>2 DEF TodoIsChecked, OpLeft, Alias!Rows
      <3> QED  BY <3>1, <3>2, <3>3
    <2>3. CASE ~(Alias!Check \/ Alias!StoreRaises)
      <3>1. /\ Alias!Op.slot # "check" /\ alias_todo' = Tail(alias_todo)
            /\ UNCHANGED << alias_fmt, alias_halted >>
            /\ alias_next_id' = alias_next_id + 1
        BY <1>5, <2>3, Zenon DEF Alias!Execute, Alias!Lr, Alias!Load, Alias!Mult, Alias!Acc, Alias!Aaq,
           Alias!Store, Alias!Retire, Alias!machine
      <3>2. /\ Tail(alias_todo) \in Seq(AnyOp) /\ Tail(alias_todo) # Alias!Idle
            /\ \A i \in 1..Len(Tail(alias_todo)) : OpLeft(Tail(alias_todo), i)
        BY <2>1, <3>1, TailLeft
      <3> QED  BY <3>1, <3>2 DEF TodoIsChecked, OpLeft, Alias!Rows
    <2> QED  BY <2>2, <2>3
  <1> QED  BY <1>1, <1>2, <1>3, <1>4, <1>5 DEF Alias!Next

(* The rows known are the last loads of their registers, now and when the word began. *)
RowsHold(known, last) ==
    /\ DOMAIN known \subseteq AliasRows
    /\ \A r \in DOMAIN known : known[r].row = r /\ known[r].id = last[r]
RowsAreLoads ==
  RowsHold(alias_rows, alias_loaded) /\ RowsHold(alias_snapshot_rows, alias_snap_loaded)
  /\ DOMAIN alias_loaded = AliasRows

(* What an op of a word does not write. *)
LEMMA OpFrame ==
  ASSUME TodoIsChecked, Alias!Execute
  PROVE  /\ UNCHANGED << alias_snap, alias_snapshot_rows, alias_snap_loaded, alias_exported, alias_fmt >>
         /\ Alias!Op.slot # "load" => UNCHANGED << alias_rows, alias_loaded, alias_regs, alias_last_reads >>
         /\ Alias!Op.slot # "store" => UNCHANGED << alias_mem, Alias!memory, alias_writer >>
         /\ Alias!Op.slot \notin Alias!RowSlots => UNCHANGED alias_unchanged
         /\ \/ UNCHANGED << alias_event, alias_found, alias_next_id >>
            \/ alias_event'.slot # "mult" /\ (alias_event'.slot = "load" => Alias!Op.slot = "load")
            \/ alias_event'.slot = "mult" /\ Alias!Op.slot = "mult"
  <1> DEFINE P == /\ UNCHANGED << alias_snap, alias_snapshot_rows, alias_snap_loaded, alias_exported,
                                  alias_fmt >>
                  /\ Alias!Op.slot # "load"
                       => UNCHANGED << alias_rows, alias_loaded, alias_regs, alias_last_reads >>
                  /\ Alias!Op.slot # "store" => UNCHANGED << alias_mem, Alias!memory, alias_writer >>
                  /\ Alias!Op.slot \notin Alias!RowSlots => UNCHANGED alias_unchanged
  <1> DEFINE E == \/ UNCHANGED << alias_event, alias_found, alias_next_id >>
                  \/ alias_event'.slot # "mult" /\ (alias_event'.slot = "load" => Alias!Op.slot = "load")
                  \/ alias_event'.slot = "mult" /\ Alias!Op.slot = "mult"
  <1>1. CASE Alias!Op.slot = "lr" /\ Alias!Lr
    <2>1. P
      BY <1>1 DEF Alias!Lr, Alias!Retire, Alias!machine, Alias!RowSlots, Alias!history, Alias!memory,
         Alias!registers
    <2>2. E
      BY <1>1 DEF Alias!Lr, Alias!Retire
    <2> QED  BY <2>1, <2>2
  <1>2. CASE (Alias!Op.slot = "check" /\ Alias!Check) \/ (Alias!Op.slot = "store" /\ Alias!StoreRaises)
    BY <1>2 DEF Alias!Check, Alias!StoreRaises, Alias!machine, Alias!RowSlots, Alias!history,
       Alias!memory, Alias!registers, Alias!emitted
  <1>3. CASE Alias!Op.slot = "load" /\ Alias!Load
    <2>1. P
      BY <1>3 DEF Alias!Load, Alias!Retire, Alias!machine, Alias!RowSlots, Alias!history, Alias!memory,
         Alias!registers
    <2>2. E
      BY <1>3 DEF Alias!Load, Alias!Retire
    <2> QED  BY <2>1, <2>2
  <1>4. CASE Alias!Op.slot = "mult" /\ Alias!Mult
    <2>1. P
      BY <1>4 DEF Alias!Mult, Alias!Retire, Alias!machine, Alias!RowSlots, Alias!history, Alias!memory,
         Alias!registers
    <2>2. E
      BY <1>4 DEF Alias!Mult, Alias!Retire
    <2> QED  BY <2>1, <2>2
  <1>5. CASE Alias!Op.slot = "acc" /\ Alias!Acc
    <2>1. P
      BY <1>5 DEF Alias!Acc, Alias!Retire, Alias!machine, Alias!RowSlots, Alias!history, Alias!memory,
         Alias!registers
    <2>2. E
      BY <1>5 DEF Alias!Acc, Alias!Retire
    <2> QED  BY <2>1, <2>2
  <1>6. CASE Alias!Op.slot = "aaq" /\ Alias!Aaq
    <2>1. P
      BY <1>6 DEF Alias!Aaq, Alias!Retire, Alias!machine, Alias!RowSlots, Alias!history, Alias!memory,
         Alias!registers
    <2>2. E
      BY <1>6 DEF Alias!Aaq, Alias!Retire
    <2> QED  BY <2>1, <2>2
  <1>7. CASE Alias!Op.slot = "store" /\ Alias!Store
    <2>1. P
      BY <1>7 DEF Alias!Store, Alias!Retire, Alias!RowSlots, Alias!registers
    <2>2. E
      BY <1>7 DEF Alias!Store, Alias!Retire
    <2> QED  BY <2>1, <2>2
  <1>8. \/ Alias!Op.slot = "lr" /\ Alias!Lr
        \/ (Alias!Op.slot = "check" /\ Alias!Check) \/ (Alias!Op.slot = "store" /\ Alias!StoreRaises)
        \/ Alias!Op.slot = "load" /\ Alias!Load
        \/ Alias!Op.slot = "mult" /\ Alias!Mult
        \/ Alias!Op.slot = "acc" /\ Alias!Acc
        \/ Alias!Op.slot = "aaq" /\ Alias!Aaq
        \/ Alias!Op.slot = "store" /\ Alias!Store
    BY Zenon DEF Alias!Execute
  <1> QED  BY <1>1, <1>2, <1>3, <1>4, <1>5, <1>6, <1>7, <1>8, Zenon

(* What an op about to execute names. *)
LEMMA OpNow ==
  ASSUME TodoIsChecked, Alias!Execute, Alias!Op.slot \in Alias!RowSlots
  PROVE  Alias!Op.at \in Alias!Rows /\ (Alias!Op.slot = "load" => Alias!Op.row \in AliasRows)
  <1>1. /\ alias_todo \in Seq(AnyOp) /\ alias_todo # << >> /\ alias_todo # Alias!Idle /\ Alias!Op =
             alias_todo[1]
        /\ OpLeft(alias_todo, 1)
    BY DEF Alias!Execute, TodoIsChecked, Alias!Op
  <1> QED  BY <1>1 DEF OpLeft

(* Every step keeps the rows the profiler knows the last loads of their registers. *)
LEMMA RowsKept == ASSUME TodoIsChecked, RowsAreLoads, [Alias!Next]_(Alias!vars) PROVE RowsAreLoads'
  <1>1. CASE UNCHANGED (Alias!vars)
    BY <1>1 DEF Alias!vars, Alias!registers, Alias!history, Alias!word, RowsAreLoads, RowsHold
  <1>2. ASSUME NEW w \in AliasWords, Alias!begin(w) PROVE RowsAreLoads'
    BY <1>2 DEF Alias!begin, Alias!registers, Alias!history, RowsAreLoads, RowsHold
  <1>3. CASE Alias!end
    BY <1>3 DEF Alias!end, Alias!registers, Alias!history, RowsAreLoads, RowsHold
  <1>4. CASE Alias!HostSteps
    <2>1. UNCHANGED << alias_snapshot_rows, alias_snap_loaded >>
      BY <1>4 DEF Alias!HostSteps, Alias!WriteXmem, Alias!WriteRow, Alias!Export, Alias!WriteAcc,
         Alias!reset, Alias!Between
    <2>2. UNCHANGED << alias_rows, alias_loaded >> \/ \E names : Alias!register_write(names)
      BY <1>4, Zenon DEF Alias!HostSteps, Alias!WriteXmem, Alias!WriteRow, Alias!Export,
         Alias!WriteAcc, Alias!reset, Alias!registers, Alias!history
    <2>3. ASSUME NEW names, Alias!register_write(names) PROVE RowsHold(alias_rows, alias_loaded)'
      BY <2>3 DEF Alias!register_write, Alias!Without, RowsAreLoads, RowsHold
    <2>4. DOMAIN alias_loaded' = AliasRows
      BY <2>2 DEF Alias!register_write, RowsAreLoads
    <2> QED  BY <2>1, <2>2, <2>3, <2>4 DEF RowsAreLoads, RowsHold
  <1>5. CASE Alias!Execute
    <2>1. CASE Alias!Op.slot = "load"
      <3>0. Alias!Load
        BY <1>5, <2>1 DEF Alias!Execute
      <3>1. /\ Alias!Op.row \in AliasRows /\ UNCHANGED << alias_snapshot_rows, alias_snap_loaded >>
        BY <1>5, <2>1, OpNow, OpFrame DEF Alias!RowSlots
      <3>2. PICK e : /\ e.id = alias_next_id + 1 /\ e.row = Alias!Op.row
                     /\ alias_rows' = Alias!Put(alias_rows, {Alias!Op.row}, e) /\ alias_loaded' =
                          [alias_loaded EXCEPT ![Alias!Op.row] = e.id]
        BY <3>0 DEF Alias!Load
      <3> QED  BY <3>1, <3>2 DEF RowsAreLoads, RowsHold, Alias!Put
    <2>2. CASE Alias!Op.slot # "load"
      BY <1>5, <2>2, OpFrame DEF RowsAreLoads, RowsHold
    <2> QED  BY <2>1, <2>2
  <1> QED  BY <1>1, <1>2, <1>3, <1>4, <1>5 DEF Alias!Next

(* A product's sources are loads of the word's start: only a product names any (window). *)
LEMMA SourcesKept ==
  ASSUME TodoIsChecked, RowsAreLoads, Alias!SourcesAreLoads, [Alias!Next]_(Alias!vars)
  PROVE  Alias!SourcesAreLoads'
  <1>1. CASE UNCHANGED (Alias!vars)
    BY <1>1 DEF Alias!vars, Alias!emitted, Alias!word, Alias!SourcesAreLoads
  <1>2. ASSUME NEW w \in AliasWords, Alias!begin(w) PROVE alias_event' = Alias!None
    BY <1>2 DEF Alias!begin, Alias!emitted, TodoIsChecked
  <1>3. CASE Alias!end \/ Alias!HostSteps
    BY <1>3, Zenon DEF Alias!end, Alias!HostSteps, Alias!WriteXmem, Alias!WriteRow, Alias!Export,
       Alias!WriteAcc, Alias!reset, Alias!Between, Alias!SourcesAreLoads
  <1>4. CASE Alias!Execute
    <2>1. UNCHANGED << alias_snap, alias_snapshot_rows, alias_snap_loaded >>
      BY <1>4, OpFrame
    <2>2. CASE UNCHANGED alias_event
      BY <2>1, <2>2 DEF Alias!SourcesAreLoads
    <2>3. CASE alias_event'.slot # "mult"
      BY <2>3 DEF Alias!SourcesAreLoads
    <2>4. CASE Alias!Op.slot = "mult"
      <3>0. Alias!Mult
        BY <1>4, <2>4 DEF Alias!Execute
      <3>1. alias_event'.sources = Alias!Window(Alias!Op.reads)
        BY <3>0 DEF Alias!Mult, Alias!Retire
      <3>2. \A s \in Alias!Window(Alias!Op.reads) :
              alias_snap_loaded[s.row] = s.id /\ alias_snap[s.row] = s.data
        BY DEF Alias!Window, RowsAreLoads, RowsHold
      <3> QED  BY <2>1, <3>1, <3>2 DEF Alias!SourcesAreLoads
    <2> QED  BY <1>4, <2>2, <2>3, <2>4, OpFrame
  <1> QED  BY <1>1, <1>2, <1>3, <1>4 DEF Alias!Next, Alias!SourcesAreLoads

(* A block has a version exactly when something wrote it, and none is of a write to come. *)
MemoryKnown ==
    /\ alias_memory_epoch \in Nat /\ alias_cleared_epoch \in 0..alias_memory_epoch
    /\ DOMAIN alias_writer = Alias!Blk
    /\ DOMAIN alias_memory_versions \subseteq Alias!Blk
    /\ \A b \in DOMAIN alias_memory_versions : alias_memory_versions[b] \in 1..alias_memory_epoch
    /\ \A b \in Alias!Blk : Alias!VersionOf(b) = 0 <=> alias_writer[b] = Alias!Setup
(* A block's store is the one that wrote it last; a block with none nobody's store wrote. *)
StoresKnown ==
    /\ DOMAIN alias_stores \subseteq Alias!Blk
    /\ \A b \in DOMAIN alias_stores :
          /\ alias_stores[b].id \in 1..alias_next_id /\ alias_writer[b] = alias_stores[b].id
          /\ alias_stores[b].a \in Nat /\ b \in Alias!Span(alias_stores[b].a, AliasStoreBlocks)
    /\ \A b, c \in DOMAIN alias_stores : alias_stores[b].id = alias_stores[c].id => alias_stores[b] =
         alias_stores[c]
    /\ \A b \in Alias!Blk \ DOMAIN alias_stores : alias_writer[b] \in {0, Alias!Setup}

(* A checked row lies in XMEM. *)
LEMMA BlocksOfRow ==
  ASSUME Alias!AliasAssumption, TodoIsChecked, NEW at \in Alias!Rows
  PROVE  at * alias_fmt \in Nat /\ alias_fmt \in Nat \ {0}
         /\ Alias!Span(at * alias_fmt, alias_fmt) \subseteq Alias!Blk
  <1>1. alias_fmt \in Nat \ {0} /\ AliasBlocks \in Nat /\ at \in Nat /\ at + 1 <= AliasBlocks \div alias_fmt
    BY DEF Alias!AliasAssumption, TodoIsChecked, Alias!Rows
  <1>2. (AliasBlocks \div alias_fmt) * alias_fmt <= AliasBlocks /\ AliasBlocks \div alias_fmt \in Nat
    BY <1>1
  <1>3. (at + 1) * alias_fmt <= (AliasBlocks \div alias_fmt) * alias_fmt
    BY <1>1, <1>2
  <1>4. at * alias_fmt \in Nat /\ (at + 1) * alias_fmt = at * alias_fmt + alias_fmt
    BY <1>1
  <1>5. at * alias_fmt + alias_fmt <= AliasBlocks
    <2>1. \A x, y, z, t \in Int : x + t = y /\ y <= z /\ z <= AliasBlocks => x + t <= AliasBlocks
      BY <1>1
    <2> QED  BY <1>1, <1>2, <1>3, <1>4
  <1> QED  BY <1>1, <1>4, <1>5 DEF Alias!Span, Alias!Blk

(* A write gives its blocks, and no other, a version of its own (memory). *)
LEMMA WrittenKnown ==
  ASSUME MemoryKnown, NEW span \in SUBSET Alias!Blk, NEW stored,
         NEW by \in Nat, Alias!written(span, stored, by)
  PROVE  /\ MemoryKnown'
         /\ \A b \in Alias!Blk : (Alias!VersionOf(b))' = IF b \in span THEN alias_memory_epoch + 1
              ELSE Alias!VersionOf(b)
  <1>1. \A b \in Alias!Blk : (Alias!VersionOf(b))' = IF b \in span THEN alias_memory_epoch + 1
          ELSE Alias!VersionOf(b)
    BY DEF MemoryKnown, Alias!written, Alias!VersionOf, Alias!Put
  <1>2. /\ alias_memory_epoch' = alias_memory_epoch + 1 /\ alias_cleared_epoch' = alias_cleared_epoch
        /\ DOMAIN alias_writer' = Alias!Blk /\ DOMAIN alias_memory_versions' \subseteq Alias!Blk
        /\ \A b \in Alias!Blk : alias_writer'[b] = IF b \in span THEN by ELSE alias_writer[b]
    BY DEF MemoryKnown, Alias!written, Alias!Put
  <1>3. \A b \in DOMAIN alias_memory_versions' : alias_memory_versions'[b] \in 1..alias_memory_epoch'
    BY <1>2 DEF MemoryKnown, Alias!written, Alias!Put
  <1>4. by # Alias!Setup
    BY DEF Alias!Setup
  <1>5. \A b \in Alias!Blk : (Alias!VersionOf(b))' = 0 <=> alias_writer'[b] = Alias!Setup
    BY <1>1, <1>2, <1>4 DEF MemoryKnown
  <1> QED  BY <1>1, <1>2, <1>3, <1>5 DEF MemoryKnown

(* A write leaves the stores known those that wrote their blocks last (memory). *)
LEMMA StoredKnown ==
  ASSUME StoresKnown, MemoryKnown, alias_next_id \in Nat, AliasStoreBlocks \in Nat,
         NEW span \in SUBSET Alias!Blk, NEW stored, NEW by, Alias!written(span, stored, by),
         \/ stored = Alias!None /\ by = 0 /\ alias_next_id' = alias_next_id
         \/ /\ stored # Alias!None /\ by = alias_next_id + 1 /\ stored.id = by /\ alias_next_id' = by
            /\ stored.a \in Nat /\ span = Alias!Span(stored.a, AliasStoreBlocks)
  PROVE  StoresKnown'
  <1>1. \A b \in Alias!Blk : alias_writer'[b] = IF b \in span THEN by ELSE alias_writer[b]
    BY DEF Alias!written
  <1>2. CASE stored = Alias!None /\ by = 0 /\ alias_next_id' = alias_next_id
    <2>1. DOMAIN alias_stores' = DOMAIN alias_stores \ span /\ \A b \in DOMAIN alias_stores \ span :
            alias_stores'[b] = alias_stores[b]
      BY <1>2 DEF Alias!written, Alias!Without
    <2> QED  BY <1>1, <1>2, <2>1 DEF StoresKnown
  <1>3. CASE stored # Alias!None
    <2>1. /\ DOMAIN alias_stores' = DOMAIN alias_stores \union span
          /\ \A b \in DOMAIN alias_stores \union span : alias_stores'[b] = IF b \in span
               THEN stored ELSE alias_stores[b]
      BY <1>3 DEF Alias!written, Alias!Put
    <2>2. /\ by = alias_next_id + 1 /\ stored.id = by /\ alias_next_id' = by
          /\ stored.a \in Nat /\ span = Alias!Span(stored.a, AliasStoreBlocks)
      BY <1>3
    <2>3. \A b \in DOMAIN alias_stores' :
            /\ alias_stores'[b].id \in 1..alias_next_id' /\ alias_writer'[b] = alias_stores'[b].id
            /\ alias_stores'[b].a \in Nat /\ b \in Alias!Span(alias_stores'[b].a, AliasStoreBlocks)
      BY <1>1, <2>1, <2>2 DEF StoresKnown
    <2>4. \A b, c \in DOMAIN alias_stores' : alias_stores'[b].id = alias_stores'[c].id
            => alias_stores'[b] = alias_stores'[c]
      BY <2>1, <2>2 DEF StoresKnown
    <2>5. DOMAIN alias_stores' \subseteq Alias!Blk /\ \A b \in Alias!Blk \ DOMAIN alias_stores' :
            alias_writer'[b] \in {0, Alias!Setup}
      BY <1>1, <2>1 DEF StoresKnown
    <2> QED  BY <2>3, <2>4, <2>5 DEF StoresKnown
  <1> QED  BY <1>2, <1>3

(* A clear leaves every block at its version, written by nobody (memory). *)
LEMMA ClearKnown ==
  ASSUME MemoryKnown, Alias!cleared
  PROVE  MemoryKnown' /\ StoresKnown' /\ \A b \in Alias!Blk : (Alias!VersionOf(b))' = alias_memory_epoch + 1
  <1>1. alias_stores' = << >> /\ alias_memory_versions' = << >> /\ alias_writer' = [b \in Alias!Blk |-> 0]
        /\ alias_memory_epoch' = alias_memory_epoch + 1 /\ alias_cleared_epoch' = alias_memory_epoch + 1
    BY DEF Alias!cleared
  <1>2. \A b \in Alias!Blk : (Alias!VersionOf(b))' = alias_memory_epoch + 1
    BY <1>1 DEF Alias!VersionOf
  <1>3. MemoryKnown'
    BY <1>1, <1>2 DEF MemoryKnown, Alias!Setup
  <1>4. StoresKnown'
    BY <1>1 DEF StoresKnown
  <1> QED  BY <1>2, <1>3, <1>4
(* The blocks a store writes. *)
LEMMA StoreOp ==
  ASSUME Alias!AliasAssumption, TodoIsChecked, Alias!Execute, Alias!Op.slot = "store", ~Alias!StoreRaises
  PROVE  \E e : LET span == Alias!Span(e.a, AliasStoreBlocks) IN
           /\ e # Alias!None /\ e.id = alias_next_id + 1 /\ e.post = alias_post
           /\ e.a = Alias!Op.at * alias_fmt /\ e.a \in Nat /\ span \subseteq Alias!Blk
           /\ alias_mem' = [b \in Alias!Blk |-> IF b \in span
                THEN << alias_post_aaq_reg[1], alias_post_aaq_reg[2], b - e.a >> ELSE alias_mem[b]]
           /\ Alias!written(span, e, e.id) /\ alias_next_id' = alias_next_id + 1 /\ alias_event' = e
           /\ alias_found' = {}
           /\ UNCHANGED << alias_r_acc, alias_post_aaq_reg, Alias!registers >>
  <1>1. Alias!Store
    BY DEF Alias!Execute
  <1>2. Alias!Op.at \in Alias!Rows /\ alias_fmt \in Nat \ {0} /\ Alias!Op.at * alias_fmt \in Nat
    BY OpNow, BlocksOfRow DEF Alias!RowSlots
  <1>3. Alias!Span(Alias!Op.at * alias_fmt, AliasStoreBlocks) \subseteq Alias!Blk
    BY <1>1, <1>2 DEF Alias!Store, Alias!Fits, Alias!Span, Alias!Blk, Alias!AliasAssumption
  <1> DEFINE e == [id |-> alias_next_id + 1, slot |-> "store", a |-> Alias!Op.at * alias_fmt,
                   post |-> alias_post]
  <1>4. e.id = alias_next_id + 1 /\ e.a = Alias!Op.at * alias_fmt /\ e.post = alias_post
        /\ alias_next_id + 1 # 0
    BY DEF TodoIsChecked
  <1>5. e # Alias!None
    BY <1>4 DEF Alias!None
  <1>6. /\ alias_mem' = [b \in Alias!Blk |-> IF b \in Alias!Span(e.a, AliasStoreBlocks)
             THEN << alias_post_aaq_reg[1], alias_post_aaq_reg[2], b - e.a >> ELSE alias_mem[b]]
        /\ Alias!written(Alias!Span(e.a, AliasStoreBlocks), e, e.id) /\ alias_next_id' = alias_next_id + 1
        /\ alias_event' = e /\ alias_found' = {}
        /\ UNCHANGED << alias_r_acc, alias_post_aaq_reg, Alias!registers >>
    BY <1>1 DEF Alias!Store, Alias!Retire
  <1> HIDE DEF e
  <1> QED  BY <1>2, <1>3, <1>4, <1>5, <1>6

(* A step leaves memory as it is, or stores, or is a host's write or clear. *)
LEMMA MemorySteps ==
  ASSUME Alias!AliasAssumption, TodoIsChecked, [Alias!Next]_(Alias!vars)
  PROVE  \/ UNCHANGED << alias_mem, Alias!memory, alias_writer >> /\ alias_next_id' \in Nat
            /\ alias_next_id' >= alias_next_id
         \/ Alias!Execute /\ Alias!Op.slot = "store" /\ ~Alias!StoreRaises
         \/ \E b \in Alias!Blk : Alias!WriteXmem(b)
         \/ Alias!reset
  <1>1. alias_next_id' \in Nat
    BY TodoKept DEF TodoIsChecked
  <1>2. CASE UNCHANGED (Alias!vars)
    BY <1>1, <1>2 DEF Alias!vars, Alias!machine, Alias!memory, Alias!history, Alias!emitted
  <1>3. CASE (\E w \in AliasWords : Alias!begin(w)) \/ Alias!end
    BY <1>1, <1>3 DEF Alias!begin, Alias!end, Alias!machine, Alias!memory, Alias!history,
       Alias!emitted, TodoIsChecked
  <1>4. CASE Alias!HostSteps
    <2>1. alias_next_id' = alias_next_id
      BY <1>4, Zenon DEF Alias!HostSteps, Alias!WriteXmem, Alias!WriteRow, Alias!Export,
         Alias!WriteAcc, Alias!reset, Alias!Between
    <2>2. ASSUME NEW r \in AliasRows, Alias!WriteRow(r)
          PROVE UNCHANGED << alias_mem, Alias!memory, alias_writer >>
      BY <2>2 DEF Alias!WriteRow
    <2>3. ASSUME NEW r \in AliasRows, Alias!Export(Alias!Bank(r))
          PROVE UNCHANGED << alias_mem, Alias!memory, alias_writer >>
      BY <2>3 DEF Alias!Export, Alias!machine, Alias!history
    <2>4. Alias!WriteAcc => UNCHANGED << alias_mem, Alias!memory, alias_writer >>
      BY DEF Alias!WriteAcc
    <2>5. alias_next_id' >= alias_next_id
      BY <2>1 DEF TodoIsChecked
    <2> QED  BY <1>1, <1>4, <2>2, <2>3, <2>4, <2>5, Zenon DEF Alias!HostSteps
  <1>5. CASE Alias!Execute
    <2>1. alias_next_id' >= alias_next_id
      <3>1. alias_next_id' = alias_next_id + 1 \/ alias_next_id' = alias_next_id
        BY <1>5, Zenon DEF Alias!Execute, Alias!Lr, Alias!Check, Alias!Load, Alias!Mult, Alias!Acc,
           Alias!Aaq, Alias!Store, Alias!StoreRaises, Alias!Retire, Alias!emitted
      <3> QED  BY <3>1 DEF TodoIsChecked
    <2>2. Alias!StoreRaises => UNCHANGED << alias_mem, Alias!memory, alias_writer >>
      BY DEF Alias!StoreRaises, Alias!machine, Alias!history
    <2> QED  BY <1>1, <1>5, <2>1, <2>2, OpFrame
  <1> QED  BY <1>2, <1>3, <1>4, <1>5 DEF Alias!Next

(* Every step keeps the tables of stores and versions true to the history. *)
LEMMA MemoryKept ==
  ASSUME Alias!AliasAssumption, TodoIsChecked, MemoryKnown, StoresKnown, [Alias!Next]_(Alias!vars)
  PROVE  MemoryKnown' /\ StoresKnown'
  <1>1. CASE UNCHANGED << alias_mem, Alias!memory, alias_writer >> /\ alias_next_id' \in Nat
             /\ alias_next_id' >= alias_next_id
    <2>1. UNCHANGED << alias_stores, alias_memory_versions, alias_memory_epoch, alias_cleared_epoch,
                       alias_writer >>
      BY <1>1 DEF Alias!memory
    <2>2. MemoryKnown'
      BY <2>1 DEF MemoryKnown, Alias!VersionOf
    <2>3. StoresKnown'
      BY <1>1, <2>1 DEF StoresKnown, TodoIsChecked
    <2> QED  BY <2>2, <2>3
  <1>2. CASE Alias!Execute /\ Alias!Op.slot = "store" /\ ~Alias!StoreRaises
    <2>1. PICK e : /\ e # Alias!None /\ e.id = alias_next_id + 1 /\ e.a \in Nat
                   /\ Alias!Span(e.a, AliasStoreBlocks) \subseteq Alias!Blk
                   /\ Alias!written(Alias!Span(e.a, AliasStoreBlocks), e, e.id) /\ alias_next_id' =
                        alias_next_id + 1
      BY <1>2, StoreOp
    <2>2. e.id \in Nat /\ AliasStoreBlocks \in Nat /\ alias_next_id \in Nat
      BY <2>1 DEF TodoIsChecked, Alias!AliasAssumption
    <2> QED  BY <2>1, <2>2, WrittenKnown, StoredKnown
  <1>3. ASSUME NEW b \in Alias!Blk, Alias!WriteXmem(b) PROVE MemoryKnown' /\ StoresKnown'
    <2>1. Alias!written({b}, Alias!None, 0) /\ alias_next_id' = alias_next_id /\ {b} \subseteq Alias!Blk
      BY <1>3 DEF Alias!WriteXmem, Alias!Between
    <2>2. AliasStoreBlocks \in Nat /\ alias_next_id \in Nat
      BY DEF TodoIsChecked, Alias!AliasAssumption
    <2> QED  BY <2>1, <2>2, WrittenKnown, StoredKnown
  <1>4. CASE Alias!reset
    BY <1>4, ClearKnown DEF Alias!reset
  <1> QED  BY <1>1, <1>2, <1>3, <1>4, MemorySteps

(* The observer's cardinality is the library's. *)
LEMMA SameCardinality == \A S : Alias!Cardinality(S) = Cardinality(S)
  BY Zenon DEF Alias!Cardinality, Cardinality

(* What a load's event tells. *)
LEMMA OriginIsRight ==
  ASSUME Alias!AliasAssumption, StoresKnown, alias_next_id \in Nat, NEW a \in Nat,
         NEW n \in Nat \ {0}, Alias!Span(a, n) \subseteq Alias!Blk
  PROVE  LET by == {alias_writer[b] : b \in Alias!Span(a, n)} IN
         IF by \subseteq Nat \ {0} /\ Cardinality(by) = 1
           THEN by = {Alias!OriginOf(Alias!Span(a, n), a, n).id}
         ELSE Alias!OriginOf(Alias!Span(a, n), a, n) = Alias!None
  <1> DEFINE span == Alias!Span(a, n)
             by == {alias_writer[b] : b \in span}
  <1>1. a \in span /\ a + n - 1 \in span
    BY DEF Alias!Span
  <1>2. \A x : by = {x} => Cardinality(by) = 1
    BY FS_Singleton
  <1>3. Cardinality(by) = 1 => \E x : by = {x}
    <2>1. IsFiniteSet(span)
      BY FS_Interval DEF Alias!Span
    <2>2. IsFiniteSet(by)
      <3>1. [b \in span |-> alias_writer[b]] \in Surjection(span, by)
        BY DEF Surjection
      <3> QED  BY <2>1, <3>1, FS_Surjection
    <2> QED  BY <2>2, FS_Singleton
  <1>4. ASSUME by \subseteq Nat \ {0}, Cardinality(by) = 1
        PROVE  by = {Alias!OriginOf(span, a, n).id}
    <2>1. PICK x : by = {x}
      BY <1>3, <1>4
    <2>2. \A b \in span : alias_writer[b] = x /\ x \in Nat \ {0}
      BY <1>4, <2>1
    <2>3. \A b \in span : b \in DOMAIN alias_stores /\ alias_stores[b].id = x
      BY <2>2 DEF StoresKnown, Alias!Setup
    <2>4. \A b \in span : b \in DOMAIN alias_stores /\ alias_stores[b] = alias_stores[a]
      BY <1>1, <2>3 DEF StoresKnown
    <2>5. alias_stores[a].a <= a /\ a + n <= alias_stores[a].a + AliasStoreBlocks
      <3>1. a \in Alias!Span(alias_stores[a].a, AliasStoreBlocks) /\ alias_stores[a].a \in Nat
        BY <1>1, <2>4 DEF StoresKnown
      <3>2. a + n - 1 \in Alias!Span(alias_stores[a].a, AliasStoreBlocks)
        BY <1>1, <2>4 DEF StoresKnown
      <3> QED  BY <3>1, <3>2 DEF Alias!Span, Alias!AliasAssumption
    <2>6. Alias!OriginOf(span, a, n) = alias_stores[a]
      BY <1>1, <2>4, <2>5 DEF Alias!OriginOf
    <2> QED  BY <1>1, <2>1, <2>3, <2>6
  <1>5. ASSUME Alias!OriginOf(span, a, n) # Alias!None
        PROVE  by \subseteq Nat \ {0} /\ Cardinality(by) = 1
    <2>1. \A b \in span : b \in DOMAIN alias_stores /\ alias_stores[b] = alias_stores[a]
      BY <1>5 DEF Alias!OriginOf
    <2>2. \A b \in span : alias_writer[b] = alias_stores[a].id /\ alias_stores[a].id \in Nat \ {0}
      BY <1>1, <2>1 DEF StoresKnown
    <2>3. by = {alias_stores[a].id}
      BY <1>1, <2>2
    <2> QED  BY <1>1, <1>2, <2>2, <2>3
  <1> HIDE DEF span, by
  <1>6. IF by \subseteq Nat \ {0} /\ Cardinality(by) = 1 THEN by = {Alias!OriginOf(span, a, n).id}
        ELSE Alias!OriginOf(span, a, n) = Alias!None
    BY <1>4, <1>5
  <1> QED  BY <1>6 DEF span, by
(* What a load does, and what its event tells. *)
LEMMA LoadEvent ==
  ASSUME Alias!AliasAssumption, TodoIsChecked, Alias!Execute, Alias!Op.slot = "load"
  PROVE  LET at == Alias!Op.at * alias_fmt
             span == Alias!Span(at, alias_fmt)
             versions == [b \in span |-> Alias!VersionOf(b)]
             region == << at, alias_fmt >> IN
         /\ at \in Nat /\ alias_fmt \in Nat \ {0} /\ span \subseteq Alias!Blk
         /\ alias_event' # Alias!None /\ alias_event'.slot = "load" /\ alias_event'.a = at
         /\ alias_event'.id = alias_next_id + 1 /\ alias_next_id' = alias_next_id + 1
         /\ alias_event'.origin = Alias!OriginOf(span, at, alias_fmt)
         /\ alias_event'.data = Alias!RowData(alias_mem, Alias!Op.at)
         /\ (alias_event'.declared <=> \A b \in span : Alias!VersionOf(b) = 0)
         /\ (alias_event'.previous <=> region \in DOMAIN alias_last_reads /\ alias_last_reads[region] =
              versions)
         /\ alias_last_reads' = Alias!Put(alias_last_reads, {region}, versions)
         /\ alias_unchanged' = alias_unchanged \union {region}
         /\ alias_rows' = Alias!Put(alias_rows, {Alias!Op.row}, alias_event')
         /\ alias_regs' = [alias_regs EXCEPT ![Alias!Op.row] = alias_event'.data]
         /\ UNCHANGED << alias_mem, Alias!memory, alias_writer, alias_fmt >>
  <1>1. Alias!Load
    BY DEF Alias!Execute
  <1>2. Alias!Op.at \in Alias!Rows
    BY OpNow DEF Alias!RowSlots
  <1>3. Alias!Op.at * alias_fmt \in Nat /\ alias_fmt \in Nat \ {0}
        /\ Alias!Span(Alias!Op.at * alias_fmt, alias_fmt) \subseteq Alias!Blk
    BY <1>2, BlocksOfRow
  <1> DEFINE at == Alias!Op.at * alias_fmt
             span == Alias!Span(at, alias_fmt)
             versions == [b \in span |-> Alias!VersionOf(b)]
             region == << at, alias_fmt >>
             e == [id |-> alias_next_id + 1, slot |-> "load", row |-> Alias!Op.row, a |-> at,
                   data |-> Alias!RowData(alias_mem, Alias!Op.at),
              origin |-> Alias!OriginOf(span, at, alias_fmt),
              previous |-> region \in DOMAIN alias_last_reads /\ alias_last_reads[region] = versions,
              declared |-> \A b \in span : versions[b] = 0]
  <1>4. /\ alias_event' = e /\ alias_next_id' = alias_next_id + 1
        /\ alias_last_reads' = Alias!Put(alias_last_reads, {region}, versions)
        /\ alias_unchanged' = alias_unchanged \union {region}
        /\ alias_rows' = Alias!Put(alias_rows, {Alias!Op.row}, e)
        /\ alias_regs' = [alias_regs EXCEPT ![Alias!Op.row] = e.data]
        /\ UNCHANGED << alias_mem, Alias!memory, alias_writer, alias_fmt >>
    BY <1>1 DEF Alias!Load, Alias!Retire
  <1>5. e.declared = (\A b \in span : versions[b] = 0)
    BY Zenon
  <1>6. (\A b \in span : versions[b] = 0) <=> (\A b \in span : Alias!VersionOf(b) = 0)
    BY Zenon
  <1>7. e.previous = (region \in DOMAIN alias_last_reads /\ alias_last_reads[region] = versions)
    BY Zenon
  <1>8. e.id = alias_next_id + 1 /\ e.slot = "load" /\ e.a = at
        /\ e.origin = Alias!OriginOf(span, at, alias_fmt)
        /\ e.data = Alias!RowData(alias_mem, Alias!Op.at)
    BY Zenon
  <1>9. e # Alias!None
    BY <1>8 DEF Alias!None, TodoIsChecked
  <1> HIDE DEF e
  <1>10. e.declared <=> \A b \in span : Alias!VersionOf(b) = 0
    BY <1>5, <1>6
  <1> QED  BY <1>3, <1>4, <1>7, <1>8, <1>9, <1>10, Zenon

(* A load's event comes of a load; until the next event nothing it tells of changes. *)
LEMMA EventSteps ==
  ASSUME Alias!AliasAssumption, TodoIsChecked, [Alias!Next]_(Alias!vars)
  PROVE  \/ UNCHANGED << alias_event, alias_writer, alias_fmt >>
         \/ alias_event' = Alias!None
         \/ alias_event' # Alias!None /\ alias_event'.slot # "load"
         \/ Alias!Execute /\ Alias!Op.slot = "load"
  <1>1. CASE UNCHANGED (Alias!vars)
    BY <1>1 DEF Alias!vars, Alias!emitted, Alias!machine, Alias!history
  <1>2. ASSUME NEW w \in AliasWords, Alias!begin(w)
        PROVE UNCHANGED << alias_event, alias_writer, alias_fmt >>
    BY <1>2 DEF Alias!begin, Alias!emitted, Alias!machine, Alias!history
  <1>3. CASE Alias!end \/ Alias!HostSteps
    BY <1>3, Zenon DEF Alias!end, Alias!HostSteps, Alias!WriteXmem, Alias!WriteRow, Alias!Export,
       Alias!WriteAcc, Alias!reset, Alias!Between
  <1>4. CASE Alias!Execute
    <2>1. CASE Alias!Op.slot = "store"
      <3>1. Alias!StoreRaises => UNCHANGED << alias_event, alias_writer, alias_fmt >>
        BY DEF Alias!StoreRaises, Alias!machine, Alias!history, Alias!emitted
      <3>2. Alias!Store => alias_event'.slot = "store" /\ alias_event'.id = alias_next_id + 1
        BY DEF Alias!Store, Alias!Retire
      <3>3. Alias!Store => alias_event' # Alias!None
        BY <3>2 DEF Alias!None, TodoIsChecked
      <3> QED  BY <1>4, <2>1, <3>1, <3>2, <3>3 DEF Alias!Execute
    <2>2. CASE Alias!Op.slot # "store"
      <3>1. UNCHANGED << alias_writer, alias_fmt >>
        BY <1>4, <2>2, OpFrame
      <3> QED  BY <1>4, <3>1, OpFrame
    <2> QED  BY <2>1, <2>2
  <1> QED  BY <1>1, <1>2, <1>3, <1>4 DEF Alias!Next

(* What a load's event tells of its row. *)
OriginsAndConstants == Alias!OriginIsTheWriter /\ Alias!ConstantsWereNeverWritten

(* A load's event tells its origin and its constancy as history has them. *)
LEMMA LoadsKept ==
  ASSUME Alias!AliasAssumption, TodoIsChecked, MemoryKnown, StoresKnown, OriginsAndConstants,
         [Alias!Next]_(Alias!vars)
  PROVE  OriginsAndConstants'
  <1>1. CASE UNCHANGED << alias_event, alias_writer, alias_fmt >>
    BY <1>1 DEF OriginsAndConstants, Alias!OriginIsTheWriter, Alias!ConstantsWereNeverWritten
  <1>2. CASE alias_event' = Alias!None \/ alias_event'.slot # "load"
    BY <1>2 DEF OriginsAndConstants, Alias!OriginIsTheWriter, Alias!ConstantsWereNeverWritten
  <1>3. CASE Alias!Execute /\ Alias!Op.slot = "load"
    <2> DEFINE at == Alias!Op.at * alias_fmt
               span == Alias!Span(at, alias_fmt)
    <2>1. /\ at \in Nat /\ alias_fmt \in Nat \ {0} /\ span \subseteq Alias!Blk
          /\ alias_event'.a = at /\ alias_event'.origin = Alias!OriginOf(span, at, alias_fmt)
          /\ (alias_event'.declared <=> \A b \in span : Alias!VersionOf(b) = 0)
          /\ alias_writer' = alias_writer /\ alias_fmt' = alias_fmt
      BY <1>3, LoadEvent
    <2>2. Alias!OriginIsTheWriter'
      <3>1. alias_next_id \in Nat
        BY DEF TodoIsChecked
      <3>2. LET by == {alias_writer[b] : b \in span} IN
            IF by \subseteq Nat \ {0} /\ Cardinality(by) = 1
              THEN by = {Alias!OriginOf(span, at, alias_fmt).id}
            ELSE Alias!OriginOf(span, at, alias_fmt) = Alias!None
        BY <2>1, <3>1, OriginIsRight
      <3> HIDE DEF at
      <3> QED  BY <2>1, <3>2, SameCardinality DEF Alias!OriginIsTheWriter
    <2>3. Alias!ConstantsWereNeverWritten'
      <3>1. \A b \in span : Alias!VersionOf(b) = 0 <=> alias_writer[b] = Alias!Setup
        BY <2>1 DEF MemoryKnown
      <3> HIDE DEF at
      <3> QED  BY <2>1, <3>1 DEF Alias!ConstantsWereNeverWritten
    <2> QED  BY <2>2, <2>3 DEF OriginsAndConstants
  <1> QED  BY <1>1, <1>2, <1>3, EventSteps

(* A region read and not written since has the versions it was read at; one written has a newer one. *)
RegionKnown(r) ==
    /\ Alias!Span(r[1], r[2]) \subseteq Alias!Blk
    /\ alias_last_reads[r] = [b \in Alias!Span(r[1], r[2]) |-> alias_last_reads[r][b]]
    /\ \A b \in Alias!Span(r[1], r[2]) : alias_last_reads[r][b] \in 0..alias_memory_epoch
    /\ IF r \in alias_unchanged
       THEN \A b \in Alias!Span(r[1], r[2]) : alias_last_reads[r][b] = Alias!VersionOf(b)
       ELSE \E b \in Alias!Span(r[1], r[2]) : alias_last_reads[r][b] < Alias!VersionOf(b)
ReadsKnown ==
    /\ alias_unchanged \subseteq DOMAIN alias_last_reads
    /\ DOMAIN alias_last_reads \subseteq Nat \X (Nat \ {0})
    /\ \A r \in DOMAIN alias_last_reads : RegionKnown(r)

(* No version is of a write to come. *)
LEMMA VersionsBounded ==
  ASSUME MemoryKnown
  PROVE  alias_memory_epoch \in Nat /\ \A b \in Alias!Blk : Alias!VersionOf(b) \in 0..alias_memory_epoch
  BY DEF MemoryKnown, Alias!VersionOf

(* A region is unchanged exactly when its blocks have the versions they were read at. *)
LEMMA ReadsAreOfVersions ==
  ASSUME ReadsKnown, NEW r \in DOMAIN alias_last_reads
  PROVE  r \in alias_unchanged <=> alias_last_reads[r] = [b \in Alias!Span(r[1], r[2]) |-> Alias!VersionOf(b)]
  <1>1. alias_last_reads[r] = [b \in Alias!Span(r[1], r[2]) |-> alias_last_reads[r][b]]
    BY DEF ReadsKnown, RegionKnown
  <1>2. CASE r \in alias_unchanged
    <2>1. \A b \in Alias!Span(r[1], r[2]) : alias_last_reads[r][b] = Alias!VersionOf(b)
      BY <1>2 DEF ReadsKnown, RegionKnown
    <2> QED  BY <1>1, <1>2, <2>1
  <1>3. CASE r \notin alias_unchanged
    <2>1. PICK b \in Alias!Span(r[1], r[2]) :
                 alias_last_reads[r][b] < Alias!VersionOf(b) /\ alias_last_reads[r][b] \in Nat
      BY <1>3 DEF ReadsKnown, RegionKnown
    <2>2. alias_last_reads[r][b] # Alias!VersionOf(b)
      BY <2>1
    <2>3. alias_last_reads[r] # [c \in Alias!Span(r[1], r[2]) |-> Alias!VersionOf(c)]
      BY <2>1, <2>2
    <2> QED  BY <1>3, <2>3
  <1> QED  BY <1>2, <1>3

(* A write makes a region other than read exactly when it touches it. *)
LEMMA ReadsAfterWrite ==
  ASSUME MemoryKnown, ReadsKnown, NEW span \in SUBSET Alias!Blk, alias_last_reads' = alias_last_reads,
         alias_memory_epoch' = alias_memory_epoch + 1, alias_unchanged' = {r \in alias_unchanged :
           Alias!Span(r[1], r[2]) \cap span = {}},
         \A b \in Alias!Blk : (Alias!VersionOf(b))' = IF b \in span THEN alias_memory_epoch + 1
           ELSE Alias!VersionOf(b)
  PROVE  ReadsKnown'
  <1>1. SUFFICES ASSUME NEW r \in DOMAIN alias_last_reads
                 PROVE  /\ \A b \in Alias!Span(r[1], r[2]) :
                             alias_last_reads[r][b] \in 0..alias_memory_epoch + 1
                        /\ IF r \in alias_unchanged' THEN \A b \in Alias!Span(r[1], r[2]) :
                             alias_last_reads[r][b] = (Alias!VersionOf(b))'
                           ELSE \E b \in Alias!Span(r[1], r[2]) :
                             alias_last_reads[r][b] < (Alias!VersionOf(b))'
    BY Zenon DEF ReadsKnown, RegionKnown, Alias!Blk
  <1>2. /\ Alias!Span(r[1], r[2]) \subseteq Alias!Blk
        /\ \A b \in Alias!Span(r[1], r[2]) : alias_last_reads[r][b] \in 0..alias_memory_epoch
        /\ IF r \in alias_unchanged THEN \A b \in Alias!Span(r[1], r[2]) : alias_last_reads[r][b] =
             Alias!VersionOf(b)
           ELSE \E b \in Alias!Span(r[1], r[2]) : alias_last_reads[r][b] < Alias!VersionOf(b)
    BY DEF ReadsKnown, RegionKnown
  <1>3. alias_memory_epoch \in Nat /\ \A b \in Alias!Blk : Alias!VersionOf(b) \in 0..alias_memory_epoch
    BY VersionsBounded
  <1>4. CASE r \in alias_unchanged'
    BY <1>2, <1>3, <1>4
  <1>5. CASE r \in alias_unchanged /\ r \notin alias_unchanged'
    <2>1. PICK b \in Alias!Span(r[1], r[2]) : b \in span
      BY <1>5
    <2>2. alias_last_reads[r][b] \in 0..alias_memory_epoch /\ (Alias!VersionOf(b))' = alias_memory_epoch + 1
      BY <1>2, <2>1
    <2> QED  BY <1>2, <1>3, <1>5, <2>1, <2>2
  <1>6. CASE r \notin alias_unchanged
    <2>1. PICK b \in Alias!Span(r[1], r[2]) : alias_last_reads[r][b] < Alias!VersionOf(b)
      BY <1>2, <1>6
    <2>2. alias_last_reads[r][b] \in Nat /\ Alias!VersionOf(b) \in 0..alias_memory_epoch
          /\ (Alias!VersionOf(b))' \in {Alias!VersionOf(b), alias_memory_epoch + 1}
      BY <1>2, <1>3, <2>1
    <2> QED  BY <1>2, <1>3, <1>6, <2>1, <2>2
  <1> QED  BY <1>4, <1>5, <1>6

(* A step writes, clears, loads, or leaves what was read as it is. *)
LEMMA ReadsSteps ==
  ASSUME Alias!AliasAssumption, TodoIsChecked, [Alias!Next]_(Alias!vars)
  PROVE  \/ UNCHANGED << Alias!memory, alias_unchanged, alias_last_reads >>
         \/ Alias!Execute /\ Alias!Op.slot = "load"
         \/ \E span \in SUBSET Alias!Blk : \E stored : \E by \in Nat :
              Alias!written(span, stored, by) /\ alias_last_reads' = alias_last_reads
         \/ Alias!cleared /\ alias_last_reads' = alias_last_reads
  <1>1. CASE UNCHANGED (Alias!vars)
    BY <1>1 DEF Alias!vars, Alias!history
  <1>2. CASE (\E w \in AliasWords : Alias!begin(w)) \/ Alias!end
    BY <1>2 DEF Alias!begin, Alias!end, Alias!history
  <1>3. CASE Alias!HostSteps
    <2>1. ASSUME NEW b \in Alias!Blk, Alias!WriteXmem(b)
          PROVE Alias!written({b}, Alias!None, 0) /\ alias_last_reads' = alias_last_reads
      BY <2>1 DEF Alias!WriteXmem
    <2>2. ASSUME NEW r \in AliasRows, Alias!WriteRow(r)
          PROVE UNCHANGED << Alias!memory, alias_unchanged, alias_last_reads >>
      BY <2>2 DEF Alias!WriteRow
    <2>3. ASSUME NEW r \in AliasRows, Alias!Export(Alias!Bank(r))
          PROVE UNCHANGED << Alias!memory, alias_unchanged, alias_last_reads >>
      BY <2>3 DEF Alias!Export, Alias!history
    <2>4. Alias!WriteAcc => UNCHANGED << Alias!memory, alias_unchanged, alias_last_reads >>
      BY DEF Alias!WriteAcc
    <2>5. Alias!reset => Alias!cleared /\ alias_last_reads' = alias_last_reads
      BY DEF Alias!reset
    <2>6. \A b \in Alias!Blk : {b} \in SUBSET Alias!Blk /\ 0 \in Nat
      OBVIOUS
    <2> QED  BY <1>3, <2>1, <2>2, <2>3, <2>4, <2>5, <2>6, Zenon DEF Alias!HostSteps
  <1>4. CASE Alias!Execute
    <2>1. CASE Alias!Op.slot = "store"
      <3>1. Alias!StoreRaises => UNCHANGED << Alias!memory, alias_unchanged, alias_last_reads >>
        BY DEF Alias!StoreRaises, Alias!history
      <3>2. ASSUME ~Alias!StoreRaises
            PROVE  \E span \in SUBSET Alias!Blk : \E stored : \E by \in Nat :
                      Alias!written(span, stored, by)
        <4>1. PICK e : /\ e.id = alias_next_id + 1 /\ Alias!Span(e.a, AliasStoreBlocks) \subseteq Alias!Blk
                       /\ Alias!written(Alias!Span(e.a, AliasStoreBlocks), e, e.id)
          BY <1>4, <2>1, <3>2, StoreOp
        <4>2. e.id \in Nat
          BY <4>1 DEF TodoIsChecked
        <4> QED  BY <4>1, <4>2
      <3>3. alias_last_reads' = alias_last_reads
        BY <1>4, <2>1, OpFrame
      <3> QED  BY <3>1, <3>2, <3>3
    <2>2. CASE Alias!Op.slot \notin Alias!RowSlots
      BY <1>4, <2>2, OpFrame DEF Alias!RowSlots
    <2> QED  BY <1>4, <2>1, <2>2 DEF Alias!RowSlots
  <1> QED  BY <1>1, <1>2, <1>3, <1>4 DEF Alias!Next

(* Every step keeps the versions of the regions read true to the history. *)
LEMMA ReadsKept ==
  ASSUME Alias!AliasAssumption, TodoIsChecked, MemoryKnown, ReadsKnown, [Alias!Next]_(Alias!vars)
  PROVE  ReadsKnown'
  <1>1. CASE UNCHANGED << Alias!memory, alias_unchanged, alias_last_reads >>
    BY <1>1 DEF Alias!memory, ReadsKnown, RegionKnown, Alias!VersionOf, Alias!Span, Alias!Blk
  <1>2. CASE Alias!Execute /\ Alias!Op.slot = "load"
    <2> DEFINE at == Alias!Op.at * alias_fmt
               region == << at, alias_fmt >>
               versions == [b \in Alias!Span(at, alias_fmt) |-> Alias!VersionOf(b)]
    <2>1. /\ at \in Nat /\ alias_fmt \in Nat \ {0} /\ Alias!Span(at, alias_fmt) \subseteq Alias!Blk
          /\ alias_last_reads' = Alias!Put(alias_last_reads, {region}, versions)
          /\ alias_unchanged' = alias_unchanged \union {region}
          /\ (Alias!memory)' = Alias!memory
      BY <1>2, LoadEvent
    <2>2. alias_memory_epoch' = alias_memory_epoch /\ \A b : (Alias!VersionOf(b))' = Alias!VersionOf(b)
      BY <2>1 DEF Alias!memory, Alias!VersionOf
    <2>3. \A b \in Alias!Span(at, alias_fmt) : Alias!VersionOf(b) \in 0..alias_memory_epoch
      BY <2>1, VersionsBounded
    <2>4. PICK q : q = region
      OBVIOUS
    <2>5. q \in Nat \X (Nat \ {0}) /\ q[1] = at /\ q[2] = alias_fmt
      BY <2>1, <2>4
    <2> HIDE DEF at, region
    <2>6. /\ DOMAIN alias_last_reads' = DOMAIN alias_last_reads \union {q}
          /\ alias_last_reads'[q] = versions
          /\ \A r \in DOMAIN alias_last_reads \ {q} : alias_last_reads'[r] = alias_last_reads[r]
          /\ alias_unchanged' = alias_unchanged \union {q}
      BY <2>1, <2>4 DEF Alias!Put
    <2>7. ASSUME NEW r \in DOMAIN alias_last_reads', r # q PROVE RegionKnown(r)'
      BY <2>1, <2>2, <2>6, <2>7 DEF ReadsKnown, RegionKnown
    <2>8. RegionKnown(q)'
      <3>1. alias_last_reads'[q] = [b \in Alias!Span(q[1], q[2]) |-> alias_last_reads'[q][b]]
        BY <2>1, <2>5, <2>6
      <3>2. \A b \in Alias!Span(q[1], q[2]) :
              /\ alias_last_reads'[q][b] \in 0..alias_memory_epoch'
              /\ alias_last_reads'[q][b] = (Alias!VersionOf(b))'
        BY <2>1, <2>2, <2>3, <2>5, <2>6
      <3> QED  BY <2>1, <2>5, <2>6, <3>1, <3>2 DEF RegionKnown
    <2>9. alias_unchanged' \subseteq DOMAIN alias_last_reads'
          /\ DOMAIN alias_last_reads' \subseteq Nat \X (Nat \ {0})
      BY <2>1, <2>5, <2>6 DEF ReadsKnown
    <2> QED  BY <2>7, <2>8, <2>9 DEF ReadsKnown
  <1>3. ASSUME NEW span \in SUBSET Alias!Blk, NEW stored,
               NEW by \in Nat, Alias!written(span, stored, by), alias_last_reads' = alias_last_reads
        PROVE  ReadsKnown'
    <2>1. /\ alias_memory_epoch' = alias_memory_epoch + 1
          /\ alias_unchanged' = {r \in alias_unchanged : Alias!Span(r[1], r[2]) \cap span = {}}
      BY <1>3 DEF Alias!written
    <2>2. \A b \in Alias!Blk : (Alias!VersionOf(b))' = IF b \in span THEN alias_memory_epoch + 1
            ELSE Alias!VersionOf(b)
      BY <1>3, WrittenKnown
    <2> QED  BY <1>3, <2>1, <2>2, ReadsAfterWrite
  <1>4. CASE Alias!cleared /\ alias_last_reads' = alias_last_reads
    <2>1. \A b \in Alias!Blk : (Alias!VersionOf(b))' = IF b \in Alias!Blk
            THEN alias_memory_epoch + 1 ELSE Alias!VersionOf(b)
      BY <1>4, ClearKnown
    <2>2. \A r \in alias_unchanged : r \in Nat \X (Nat \ {0}) /\ Alias!Span(r[1], r[2]) \subseteq Alias!Blk
      BY DEF ReadsKnown, RegionKnown
    <2>3. \A r \in alias_unchanged : r[1] \in Alias!Span(r[1], r[2])
      BY <2>2 DEF Alias!Span
    <2>4. {r \in alias_unchanged : Alias!Span(r[1], r[2]) \cap Alias!Blk = {}} = {}
      BY <2>2, <2>3
    <2>5. alias_memory_epoch' = alias_memory_epoch + 1 /\ alias_unchanged' = {}
      BY <1>4 DEF Alias!cleared
    <2> QED  BY <1>4, <2>1, <2>4, <2>5, ReadsAfterWrite
  <1> QED  BY <1>1, <1>2, <1>3, <1>4, ReadsSteps, Zenon

(* A load is told to be a repeated read exactly when its region is unchanged (finish). *)
LEMMA RereadsStep ==
  ASSUME Alias!AliasAssumption, TodoIsChecked, ReadsKnown, [Alias!Next]_(Alias!vars),
         alias_event' # alias_event, alias_event' # Alias!None, alias_event'.slot = "load"
  PROVE  alias_event'.previous <=> << alias_event'.a, alias_fmt >> \in alias_unchanged
  <1>1. Alias!Execute /\ Alias!Op.slot = "load"
    BY EventSteps
  <1> DEFINE at == Alias!Op.at * alias_fmt
             region == << at, alias_fmt >>
             versions == [b \in Alias!Span(at, alias_fmt) |-> Alias!VersionOf(b)]
  <1>2. alias_event'.a = at /\ (alias_event'.previous <=> region \in DOMAIN alias_last_reads /\ alias_last_reads[region] = versions)
    BY <1>1, LoadEvent
  <1>3. region[1] = at /\ region[2] = alias_fmt
    OBVIOUS
  <1> HIDE DEF region, at
  <1>4. region \in DOMAIN alias_last_reads
          => (region \in alias_unchanged <=> alias_last_reads[region] = versions)
    BY <1>3, ReadsAreOfVersions
  <1>5. region \in alias_unchanged => region \in DOMAIN alias_last_reads
    BY DEF ReadsKnown
  <1>6. alias_event'.previous <=> region \in alias_unchanged
    BY <1>2, <1>4, <1>5, Zenon
  <1> QED  BY <1>2, <1>6, Zenon DEF region
(* A row is a copy of the accumulator as it stands while nothing replaced either. *)
IsOf(p) == p # Alias!None /\ p.acc # 0 /\ p.acc = alias_r_acc /\ p.identity
PostKnown(p) == p # Alias!None => p.acc \in 0..alias_next_id
MovedRow == [i \in 0..alias_fmt - 1 |-> << alias_r_acc, "moved", i >>]
LoadHolds(l) ==
    l.origin # Alias!None => PostKnown(l.origin.post) /\ (IsOf(l.origin.post) /\ l.a = l.origin.a
      => l.data = MovedRow)
StoreHolds(b) ==
    PostKnown(alias_stores[b].post) /\ (IsOf(alias_stores[b].post)
      => alias_mem[b] = << alias_r_acc, "moved", b - alias_stores[b].a >>)
AccKnown == alias_r_acc \in 0..alias_next_id /\ alias_acc.id \in 0..alias_next_id
PostHolds == PostKnown(alias_post) /\ (IsOf(alias_post) => alias_post_aaq_reg = << alias_r_acc, "moved" >>)
StoresHold == DOMAIN alias_mem = Alias!Blk /\ \A b \in DOMAIN alias_stores : StoreHolds(b)
RowsKeep == \A r \in DOMAIN alias_rows : LoadHolds(alias_rows[r])
SnapshotKeeps == \A r \in DOMAIN alias_snapshot_rows : LoadHolds(alias_snapshot_rows[r])
MultHolds == alias_mult # Alias!None => \A t \in alias_mult.sources : LoadHolds(t)
Held == AccKnown /\ PostHolds /\ StoresHold /\ RowsKeep /\ SnapshotKeeps /\ MultHolds

(* What is known of a row lasts: the accumulator stays, or what it becomes nothing is a copy of. *)
Lasts == alias_next_id \in Nat /\ alias_next_id' \in Nat /\ alias_next_id' >= alias_next_id
         /\ (UNCHANGED << alias_r_acc, alias_fmt >> \/ alias_r_acc' = 0 \/ alias_r_acc' = alias_next_id + 1)

(* What is known of a quantized accumulator lasts. *)
LEMMA PostsLast ==
  ASSUME Lasts
  PROVE  \A p : PostKnown(p) => PostKnown(p)' /\ (IsOf(p)'
           => IsOf(p) /\ UNCHANGED << alias_r_acc, alias_fmt >>)
  <1> SUFFICES ASSUME NEW p, PostKnown(p)
      PROVE PostKnown(p)' /\ (IsOf(p)' => IsOf(p) /\ UNCHANGED << alias_r_acc, alias_fmt >>)
    OBVIOUS
  <1>1. PostKnown(p)'
    BY DEF PostKnown, Lasts, Alias!None
  <1>2. ASSUME IsOf(p)' PROVE UNCHANGED << alias_r_acc, alias_fmt >>
    <2>1. p # Alias!None /\ p.acc # 0 /\ p.acc = alias_r_acc'
      BY <1>2 DEF IsOf, Alias!None
    <2> QED  BY <2>1 DEF PostKnown, Lasts
  <1>3. ASSUME IsOf(p)', alias_r_acc' = alias_r_acc PROVE IsOf(p)
    BY <1>3, Zenon DEF IsOf, Alias!None
  <1> QED  BY <1>1, <1>2, <1>3

(* What is known of a loaded row lasts. *)
LEMMA LoadsLast ==
  ASSUME Lasts
  PROVE  \A l : LoadHolds(l) => LoadHolds(l)'
  <1> SUFFICES ASSUME NEW l, LoadHolds(l) PROVE LoadHolds(l)'
    OBVIOUS
  <1>1. l.origin # Alias!None => PostKnown(l.origin.post)
    BY DEF LoadHolds
  <1>2. l.origin # Alias!None => PostKnown(l.origin.post)' /\ (IsOf(l.origin.post)'
          => IsOf(l.origin.post) /\ UNCHANGED << alias_r_acc, alias_fmt >>)
    BY <1>1, PostsLast
  <1>3. UNCHANGED << alias_r_acc, alias_fmt >> => MovedRow' = MovedRow
    BY DEF MovedRow
  <1>4. (Alias!None)' = Alias!None
    BY DEF Alias!None
  <1> QED  BY <1>2, <1>3, <1>4 DEF LoadHolds

(* What keeps each of the parts. *)
LEMMA HeldFrames ==
  ASSUME Held, Lasts
  PROVE  /\ alias_post' \in {alias_post, Alias!None} /\ (alias_post_aaq_reg' =
              alias_post_aaq_reg \/ alias_r_acc' = 0) => PostHolds'
         /\ ( /\ DOMAIN alias_mem' = Alias!Blk /\ DOMAIN alias_stores' \subseteq DOMAIN alias_stores
              /\ \A b \in DOMAIN alias_stores' : alias_stores'[b] = alias_stores[b] /\ alias_mem'[b] =
                   alias_mem[b] ) => StoresHold'
         /\ ( /\ DOMAIN alias_rows' \subseteq DOMAIN alias_rows
              /\ \A r \in DOMAIN alias_rows' : alias_rows'[r] = alias_rows[r] ) => RowsKeep'
         /\ alias_snapshot_rows' \in {alias_snapshot_rows, alias_rows} => SnapshotKeeps'
         /\ alias_mult' \in {alias_mult, Alias!None} => MultHolds'
  <1>0. (Alias!None)' = Alias!None
    BY DEF Alias!None
  <1>1. ASSUME alias_post' \in {alias_post, Alias!None}, alias_post_aaq_reg' =
                 alias_post_aaq_reg \/ alias_r_acc' = 0
        PROVE  PostHolds'
    <2>1. PICK p : p = alias_post'
      OBVIOUS
    <2>2. CASE p = Alias!None
      BY <1>0, <2>1, <2>2 DEF PostHolds, PostKnown, IsOf
    <2>3. CASE p = alias_post
      <3>1. PostKnown(p)
        BY <2>3 DEF Held, PostHolds
      <3>2. PostKnown(p)' /\ (IsOf(p)' => IsOf(p) /\ UNCHANGED << alias_r_acc, alias_fmt >>)
        BY <3>1, PostsLast
      <3>3. IsOf(p)' => alias_post_aaq_reg' = alias_post_aaq_reg
        BY <1>1, Zenon DEF IsOf
      <3>4. IsOf(p) => alias_post_aaq_reg = << alias_r_acc, "moved" >>
        BY <2>3 DEF Held, PostHolds
      <3> QED  BY <2>1, <3>2, <3>3, <3>4 DEF PostHolds, PostKnown, IsOf
    <2> QED  BY <1>1, <2>1, <2>2, <2>3
  <1>2. ASSUME DOMAIN alias_mem' = Alias!Blk, DOMAIN alias_stores' \subseteq DOMAIN alias_stores,
               \A b \in DOMAIN alias_stores' : alias_stores'[b] = alias_stores[b] /\ alias_mem'[b] =
                 alias_mem[b]
        PROVE  StoresHold'
    <2> SUFFICES ASSUME NEW b \in DOMAIN alias_stores' PROVE StoreHolds(b)'
      BY <1>2 DEF StoresHold, Alias!Blk
    <2>1. StoreHolds(b)
      BY <1>2 DEF Held, StoresHold
    <2>2. PICK p : p = alias_stores[b].post /\ p = alias_stores'[b].post
      BY <1>2
    <2>3. PostKnown(p)
      BY <2>1, <2>2 DEF StoreHolds
    <2>4. PostKnown(p)' /\ (IsOf(p)' => IsOf(p) /\ UNCHANGED << alias_r_acc, alias_fmt >>)
      BY <2>3, PostsLast
    <2> QED  BY <1>2, <2>1, <2>2, <2>4 DEF StoreHolds, PostKnown, IsOf
  <1>3. ASSUME DOMAIN alias_rows' \subseteq DOMAIN alias_rows, \A r \in DOMAIN alias_rows' :
                 alias_rows'[r] = alias_rows[r]
        PROVE  RowsKeep'
    <2> SUFFICES ASSUME NEW r \in DOMAIN alias_rows' PROVE LoadHolds(alias_rows[r])'
      BY DEF RowsKeep
    <2>1. PICK l : l = alias_rows[r] /\ l = alias_rows'[r]
      BY <1>3
    <2>2. LoadHolds(l)
      BY <1>3, <2>1 DEF Held, RowsKeep
    <2>3. LoadHolds(l)'
      BY <2>2, LoadsLast
    <2> QED  BY <2>1, <2>3, Zenon DEF LoadHolds, PostKnown, IsOf, MovedRow, Alias!None
  <1>4. ASSUME alias_snapshot_rows' \in {alias_snapshot_rows, alias_rows} PROVE SnapshotKeeps'
    <2> SUFFICES ASSUME NEW r \in DOMAIN alias_snapshot_rows' PROVE LoadHolds(alias_snapshot_rows[r])'
      BY DEF SnapshotKeeps
    <2>1. PICK l : l = alias_snapshot_rows'[r]
      OBVIOUS
    <2>2. LoadHolds(l)
      BY <1>4, <2>1 DEF Held, RowsKeep, SnapshotKeeps
    <2>3. LoadHolds(l)'
      BY <2>2, LoadsLast
    <2> QED  BY <2>1, <2>3, Zenon DEF LoadHolds, PostKnown, IsOf, MovedRow, Alias!None
  <1>5. ASSUME alias_mult' \in {alias_mult, Alias!None} PROVE MultHolds'
    <2> SUFFICES ASSUME alias_mult' # Alias!None, NEW t \in alias_mult'.sources PROVE LoadHolds(t)'
      BY <1>0 DEF MultHolds, LoadHolds, PostKnown, IsOf, MovedRow
    <2>1. LoadHolds(t)
      BY <1>5 DEF Held, MultHolds
    <2> QED  BY <2>1, LoadsLast
  <1> QED  BY <1>1, <1>2, <1>3, <1>4, <1>5, Zenon

(* What the host does keeps what is known of the accumulator's rows. *)
LEMMA HostHeld ==
  ASSUME TodoIsChecked, MemoryKnown, StoresKnown, Held, Alias!HostSteps
  PROVE  Held'
  <1>1. alias_next_id' = alias_next_id /\ alias_snapshot_rows' = alias_snapshot_rows
    BY Zenon DEF Alias!HostSteps, Alias!WriteXmem, Alias!WriteRow, Alias!Export, Alias!WriteAcc,
       Alias!reset, Alias!Between
  <1>2. alias_next_id \in Nat
    BY DEF TodoIsChecked
  <1>3. ASSUME NEW names, Alias!register_write(names)
        PROVE  /\ alias_post' \in {alias_post, Alias!None} /\ alias_mult' \in {alias_mult, Alias!None}
               /\ alias_acc' \in {alias_acc, Alias!None}
               /\ DOMAIN alias_rows' \subseteq DOMAIN alias_rows /\ \A r \in DOMAIN alias_rows' :
                    alias_rows'[r] = alias_rows[r]
    BY <1>3 DEF Alias!register_write, Alias!Without
  <1>4. ASSUME NEW b \in Alias!Blk, Alias!WriteXmem(b) PROVE Held'
    <2>1. /\ UNCHANGED << alias_fmt, alias_r_acc, alias_post_aaq_reg, alias_rows, alias_acc, alias_mult,
                          alias_post >>
          /\ alias_stores' = Alias!Without(alias_stores, {b})
          /\ alias_mem' \in {alias_mem, [alias_mem EXCEPT ![b] = Alias!Zero]}
      BY <1>4 DEF Alias!WriteXmem, Alias!written, Alias!registers
    <2>2. DOMAIN alias_mem = Alias!Blk /\ DOMAIN alias_stores \subseteq Alias!Blk
      BY DEF Held, StoresHold, StoresKnown
    <2>3. DOMAIN alias_mem' = Alias!Blk /\ \A c \in Alias!Blk \ {b} : alias_mem'[c] = alias_mem[c]
      BY <2>1, <2>2
    <2>4. DOMAIN alias_stores' = DOMAIN alias_stores \ {b} /\ \A c \in DOMAIN alias_stores \ {b} :
            alias_stores'[c] = alias_stores[c]
      BY <2>1 DEF Alias!Without
    <2>5. AccKnown' /\ Lasts
      BY <1>1, <1>2, <2>1 DEF Held, AccKnown, Lasts
    <2> QED  BY <1>1, <2>1, <2>2, <2>3, <2>4, <2>5, HeldFrames DEF Held
  <1>5. ASSUME UNCHANGED << alias_fmt, alias_mem, alias_r_acc, alias_post_aaq_reg, Alias!memory >>,
               (\E names : Alias!register_write(names)) \/ UNCHANGED (Alias!registers)
        PROVE  Held'
    <2>1. /\ alias_post' \in {alias_post, Alias!None} /\ alias_mult' \in {alias_mult, Alias!None}
          /\ alias_acc' \in {alias_acc, Alias!None}
          /\ DOMAIN alias_rows' \subseteq DOMAIN alias_rows /\ \A r \in DOMAIN alias_rows' :
               alias_rows'[r] = alias_rows[r]
      BY <1>3, <1>5 DEF Alias!registers
    <2>2. AccKnown' /\ Lasts
      BY <1>1, <1>2, <1>5, <2>1 DEF Held, AccKnown, Lasts, Alias!None
    <2>3. alias_stores' = alias_stores /\ DOMAIN alias_mem' = Alias!Blk
      BY <1>5 DEF Alias!memory, Held, StoresHold
    <2> QED  BY <1>1, <1>5, <2>1, <2>2, <2>3, HeldFrames DEF Held
  <1>6. ASSUME NEW r \in AliasRows, Alias!WriteRow(r) PROVE Held'
    <2>1. UNCHANGED << alias_fmt, alias_mem, alias_r_acc, alias_post_aaq_reg, Alias!memory >>
          /\ (Alias!register_write({r}) \/ UNCHANGED (Alias!registers))
      BY <1>6 DEF Alias!WriteRow
    <2> QED  BY <1>5, <2>1
  <1>7. ASSUME NEW r \in AliasRows, Alias!Export(Alias!Bank(r)) PROVE Held'
    BY <1>5, <1>7 DEF Alias!Export, Alias!machine
  <1>8. CASE Alias!WriteAcc \/ Alias!reset
    <2>1. PICK names : Alias!register_write(names)
      BY <1>8 DEF Alias!WriteAcc, Alias!reset
    <2>2. /\ alias_post' \in {alias_post, Alias!None} /\ alias_mult' \in {alias_mult, Alias!None}
          /\ alias_acc' \in {alias_acc, Alias!None}
          /\ DOMAIN alias_rows' \subseteq DOMAIN alias_rows /\ \A r \in DOMAIN alias_rows' :
               alias_rows'[r] = alias_rows[r]
      BY <1>3, <2>1
    <2>3. alias_r_acc' = 0
      BY <1>8 DEF Alias!WriteAcc, Alias!reset
    <2>4. AccKnown' /\ Lasts
      BY <1>1, <1>2, <2>2, <2>3 DEF Held, AccKnown, Lasts, Alias!None
    <2>5. /\ DOMAIN alias_mem' = Alias!Blk /\ DOMAIN alias_stores' \subseteq DOMAIN alias_stores
          /\ \A b \in DOMAIN alias_stores' : alias_stores'[b] = alias_stores[b] /\ alias_mem'[b] =
               alias_mem[b]
      <3>1. Alias!WriteAcc => alias_mem' = alias_mem /\ alias_stores' = alias_stores
        BY DEF Alias!WriteAcc, Alias!memory
      <3>2. Alias!reset => DOMAIN alias_mem' = Alias!Blk /\ DOMAIN alias_stores' = {}
        BY DEF Alias!reset, Alias!cleared
      <3> QED  BY <1>8, <3>1, <3>2 DEF Held, StoresHold
    <2> QED  BY <1>1, <2>2, <2>3, <2>4, <2>5, HeldFrames DEF Held
  <1> QED  BY <1>4, <1>6, <1>7, <1>8, Zenon DEF Alias!HostSteps

(* Every op keeps what is known of the accumulator's rows. *)
LEMMA OpHeld ==
  ASSUME Alias!AliasAssumption, TodoIsChecked, MemoryKnown, StoresKnown, Held, Alias!Execute
  PROVE  Held'
  <1>1. alias_snapshot_rows' = alias_snapshot_rows
    BY OpFrame
  <1>2. alias_next_id \in Nat
    BY DEF TodoIsChecked
  <1>3. DOMAIN alias_mem = Alias!Blk
    BY DEF Held, StoresHold
  <1>4. CASE (Alias!Op.slot = "check" /\ Alias!Check) \/ (Alias!Op.slot = "store" /\ Alias!StoreRaises)
             \/ (Alias!Op.slot = "lr" /\ Alias!Lr)
    <2>1. UNCHANGED << Alias!machine, Alias!registers, Alias!memory >>
          /\ alias_next_id' \in {alias_next_id, alias_next_id + 1}
      BY <1>4 DEF Alias!Check, Alias!StoreRaises, Alias!Lr, Alias!Retire, Alias!emitted
    <2>2. UNCHANGED << alias_fmt, alias_mem, alias_r_acc, alias_post_aaq_reg, alias_rows, alias_acc,
                       alias_mult, alias_post, alias_stores >>
      BY <2>1 DEF Alias!machine, Alias!registers, Alias!memory
    <2>3. Lasts /\ AccKnown'
      BY <1>2, <2>1, <2>2 DEF Lasts, AccKnown, Held
    <2> QED  BY <1>1, <1>3, <2>2, <2>3, HeldFrames DEF Held
  <1>5. CASE Alias!Op.slot = "mult" /\ Alias!Mult
    <2> DEFINE e == [id |-> alias_next_id + 1, slot |-> "mult", sources |-> Alias!Window(Alias!Op.reads),
                     whole |-> Alias!Op.whole,
              identity |-> Alias!Op.identity]
    <2>1. UNCHANGED << alias_fmt, alias_mem, alias_r_acc, alias_post_aaq_reg, alias_rows, alias_acc,
                       alias_post, alias_stores >> /\ alias_next_id' = alias_next_id + 1
      BY <1>5 DEF Alias!Mult, Alias!Retire, Alias!machine, Alias!memory
    <2>2. alias_mult' = e
      BY <1>5 DEF Alias!Mult
    <2>3. Lasts /\ AccKnown'
      BY <1>2, <2>1 DEF Lasts, AccKnown, Held
    <2>4. MultHolds'
      <3> SUFFICES ASSUME NEW t \in alias_mult'.sources PROVE LoadHolds(t)'
        BY DEF MultHolds, LoadHolds, PostKnown, IsOf, MovedRow
      <3>1. t \in Alias!Window(Alias!Op.reads)
        BY <2>2
      <3>2. LoadHolds(t)
        BY <3>1 DEF Alias!Window, Held, SnapshotKeeps
      <3> QED  BY <2>3, <3>2, LoadsLast
    <2> QED  BY <1>1, <1>3, <2>1, <2>3, <2>4, HeldFrames DEF Held
  <1>6. CASE Alias!Op.slot = "acc" /\ Alias!Acc
    <2>1. UNCHANGED << alias_fmt, alias_mem, alias_post_aaq_reg, alias_rows, alias_mult, alias_post,
                       alias_stores >> /\ alias_next_id' = alias_next_id + 1
      BY <1>6 DEF Alias!Acc, Alias!Retire, Alias!memory
    <2>2. alias_r_acc' = alias_next_id + 1 /\ alias_acc'.id = alias_next_id + 1
      BY <1>6 DEF Alias!Acc
    <2>3. Lasts /\ AccKnown'
      BY <1>2, <2>1, <2>2 DEF Lasts, AccKnown, Held
    <2> QED  BY <1>1, <1>3, <2>1, <2>3, HeldFrames DEF Held
  <1>7. CASE Alias!Op.slot = "aaq" /\ Alias!Aaq
    <2> DEFINE e == [id |-> alias_next_id + 1, slot |-> "aaq", identity |-> Alias!Op.identity,
                     acc |-> alias_acc.id]
    <2>1. UNCHANGED << alias_fmt, alias_mem, alias_r_acc, alias_rows, alias_acc, alias_mult,
                       alias_stores >> /\ alias_next_id' = alias_next_id + 1
      BY <1>7 DEF Alias!Aaq, Alias!Retire, Alias!memory
    <2>2. alias_post' = e /\ alias_post_aaq_reg' = << alias_r_acc, IF Alias!Op.identity
            THEN "moved" ELSE "computed" >>
      BY <1>7 DEF Alias!Aaq
    <2>3. Lasts /\ AccKnown'
      BY <1>2, <2>1 DEF Lasts, AccKnown, Held
    <2>4. PostHolds'
      <3>1. e.acc = alias_acc.id /\ e.identity = Alias!Op.identity
        BY Zenon
      <3> HIDE DEF e
      <3>2. PostKnown(alias_post)'
        BY <2>1, <2>2, <3>1, <1>2 DEF PostKnown, Held, AccKnown, Alias!None
      <3>3. ASSUME IsOf(alias_post)' PROVE Alias!Op.identity
        BY <2>2, <3>1, <3>3, Zenon DEF IsOf
      <3>4. Alias!Op.identity => alias_post_aaq_reg' = << alias_r_acc', "moved" >>
        BY <2>1, <2>2
      <3> QED  BY <3>2, <3>3, <3>4 DEF PostHolds
    <2> QED  BY <1>1, <1>3, <2>1, <2>3, <2>4, HeldFrames DEF Held
  <1>8. CASE Alias!Op.slot = "load"
    <2>0. Alias!Load
      BY <1>8 DEF Alias!Execute
    <2>1. UNCHANGED << alias_fmt, alias_mem, alias_r_acc, alias_post_aaq_reg, alias_acc, alias_mult,
                       alias_post, alias_stores >> /\ alias_next_id' = alias_next_id + 1
      BY <2>0 DEF Alias!Load, Alias!Retire, Alias!memory
    <2>2. Lasts /\ AccKnown'
      BY <1>2, <2>1 DEF Lasts, AccKnown, Held
    <2> DEFINE at == Alias!Op.at * alias_fmt
               span == Alias!Span(at, alias_fmt)
               o == Alias!OriginOf(span, at, alias_fmt)
    <2>3. /\ at \in Nat /\ alias_fmt \in Nat \ {0} /\ alias_event'.a = at /\ alias_event'.origin = o
          /\ alias_event'.data = Alias!RowData(alias_mem, Alias!Op.at)
          /\ alias_rows' = Alias!Put(alias_rows, {Alias!Op.row}, alias_event')
      BY <1>8, LoadEvent
    <2>4. PICK l : l = alias_event'
      OBVIOUS
    <2>5. LoadHolds(l)
      <3>1. CASE o = Alias!None
        BY <2>3, <2>4, <3>1 DEF LoadHolds
      <3>2. CASE o # Alias!None
        <4>1. o = alias_stores[at] /\ at \in DOMAIN alias_stores /\ \A b \in span :
                b \in DOMAIN alias_stores /\ alias_stores[b] = o
          BY <3>2 DEF Alias!OriginOf
        <4>2. PostKnown(o.post)
          BY <4>1 DEF Held, StoresHold, StoreHolds
        <4>3. ASSUME IsOf(o.post), at = o.a PROVE Alias!RowData(alias_mem, Alias!Op.at) = MovedRow
          <5>1. \A b \in span : alias_mem[b] = << alias_r_acc, "moved", b - at >>
            BY <4>1, <4>3 DEF Held, StoresHold, StoreHolds
          <5> HIDE DEF o
          <5>2. \A i \in 0..alias_fmt - 1 : at + i \in span /\ (at + i) - at = i
            BY <2>3 DEF Alias!Span
          <5> HIDE DEF span
          <5>3. \A i \in 0..alias_fmt - 1 : alias_mem[at + i] = << alias_r_acc, "moved", i >>
            BY <5>1, <5>2
          <5> QED  BY <5>3 DEF Alias!RowData, MovedRow
        <4> HIDE DEF o, at
        <4> QED  BY <2>3, <2>4, <4>2, <4>3 DEF LoadHolds
      <3> QED  BY <3>1, <3>2
    <2>6. LoadHolds(l)'
      BY <2>2, <2>5, LoadsLast
    <2>7. RowsKeep'
      <3> SUFFICES ASSUME NEW r \in DOMAIN alias_rows' PROVE LoadHolds(alias_rows[r])'
        BY DEF RowsKeep
      <3>1. PICK k : k = alias_rows'[r]
        OBVIOUS
      <3>2. k = l \/ (r \in DOMAIN alias_rows /\ k = alias_rows[r])
        BY <2>3, <2>4, <3>1 DEF Alias!Put
      <3>3. LoadHolds(k)'
        <4>1. ASSUME r \in DOMAIN alias_rows, k = alias_rows[r] PROVE LoadHolds(k)
          BY <4>1 DEF Held, RowsKeep
        <4>2. k = l => LoadHolds(k)
          BY <2>5
        <4> QED  BY <2>2, <3>2, <4>1, <4>2, LoadsLast
      <3> QED  BY <3>1, <3>3, Zenon DEF LoadHolds, PostKnown, IsOf, MovedRow, Alias!None
    <2> QED  BY <1>1, <1>3, <2>1, <2>2, <2>7, HeldFrames DEF Held
  <1>9. CASE Alias!Op.slot = "store" /\ ~Alias!StoreRaises
    <2>1. PICK e : /\ e # Alias!None /\ e.id = alias_next_id + 1 /\ e.post = alias_post
                   /\ e.a = Alias!Op.at * alias_fmt /\ e.a \in Nat
                   /\ Alias!Span(e.a, AliasStoreBlocks) \subseteq Alias!Blk
                   /\ alias_mem' = [b \in Alias!Blk |-> IF b \in Alias!Span(e.a, AliasStoreBlocks)
                                THEN << alias_post_aaq_reg[1], alias_post_aaq_reg[2], b - e.a >>
                                  ELSE alias_mem[b]]
                   /\ Alias!written(Alias!Span(e.a, AliasStoreBlocks), e, e.id) /\ alias_next_id' =
                        alias_next_id + 1
                   /\ UNCHANGED << alias_r_acc, alias_post_aaq_reg, Alias!registers >>
      BY <1>9, StoreOp
    <2>2. UNCHANGED << alias_fmt, alias_r_acc, alias_post_aaq_reg, alias_rows, alias_acc, alias_mult,
                       alias_post >>
      BY <2>1, OpFrame DEF Alias!registers
    <2>3. Lasts /\ AccKnown'
      BY <1>2, <2>1, <2>2 DEF Lasts, AccKnown, Held
    <2>4. alias_stores' = Alias!Put(alias_stores, Alias!Span(e.a, AliasStoreBlocks), e)
      BY <2>1 DEF Alias!written
    <2> DEFINE span == Alias!Span(e.a, AliasStoreBlocks)
    <2>5. DOMAIN alias_mem' = Alias!Blk
      BY <2>1
    <2>6. PICK p : p = alias_post
      OBVIOUS
    <2>7. PostKnown(p) /\ (IsOf(p) => alias_post_aaq_reg = << alias_r_acc, "moved" >>)
      BY <2>6 DEF Held, PostHolds
    <2>8. ASSUME NEW b \in DOMAIN alias_stores' PROVE StoreHolds(b)'
      <3>1. CASE b \in span
        <4>1. alias_stores'[b] = e
              /\ alias_mem'[b] = << alias_post_aaq_reg[1], alias_post_aaq_reg[2], b - e.a >>
          BY <2>1, <2>4, <3>1 DEF Alias!Put
        <4>2. PostKnown(p)' /\ (IsOf(p)' => IsOf(p))
          BY <2>3, <2>7, PostsLast
        <4>3. alias_stores'[b].post = p /\ alias_stores'[b].a = e.a
          BY <2>1, <2>6, <4>1
        <4>4. IsOf(p) => alias_mem'[b] = << alias_r_acc, "moved", b - e.a >>
          BY <2>7, <4>1
        <4> QED  BY <2>2, <4>2, <4>3, <4>4 DEF StoreHolds, PostKnown, IsOf
      <3>2. CASE b \notin span
        <4>1. b \in DOMAIN alias_stores /\ alias_stores'[b] = alias_stores[b] /\ b \in Alias!Blk
              /\ alias_mem'[b] = alias_mem[b]
          BY <2>1, <2>4, <3>2 DEF Alias!Put, StoresKnown
        <4>2. PICK q : q = alias_stores[b].post /\ q = alias_stores'[b].post
          BY <4>1
        <4>3. StoreHolds(b)
          BY <4>1 DEF Held, StoresHold
        <4>4. PostKnown(q)
          BY <4>2, <4>3 DEF StoreHolds
        <4>5. PostKnown(q)' /\ (IsOf(q)' => IsOf(q))
          BY <2>3, <4>4, PostsLast
        <4> QED  BY <2>2, <4>1, <4>2, <4>3, <4>5 DEF StoreHolds, PostKnown, IsOf
      <3> QED  BY <3>1, <3>2
    <2>9. StoresHold'
      BY <2>5, <2>8 DEF StoresHold, Alias!Blk
    <2> QED  BY <1>1, <2>2, <2>3, <2>9, HeldFrames DEF Held
  <1>10. \/ (Alias!Op.slot = "check" /\ Alias!Check) \/ (Alias!Op.slot = "store" /\ Alias!StoreRaises)
         \/ (Alias!Op.slot = "lr" /\ Alias!Lr)
         \/ Alias!Op.slot = "mult" /\ Alias!Mult
         \/ Alias!Op.slot = "acc" /\ Alias!Acc
         \/ Alias!Op.slot = "aaq" /\ Alias!Aaq
         \/ Alias!Op.slot = "load"
         \/ Alias!Op.slot = "store" /\ ~Alias!StoreRaises
    BY Zenon DEF Alias!Execute
  <1> QED  BY <1>4, <1>5, <1>6, <1>7, <1>8, <1>9, <1>10, Zenon

(* Every step keeps what is known of the accumulator's rows. *)
LEMMA HeldKept ==
  ASSUME Alias!AliasAssumption, TodoIsChecked, MemoryKnown, StoresKnown, Held, [Alias!Next]_(Alias!vars)
  PROVE  Held'
  <1>1. CASE UNCHANGED (Alias!vars) \/ (\E w \in AliasWords : Alias!begin(w)) \/ Alias!end
    <2>1. /\ UNCHANGED << alias_fmt, alias_mem, alias_r_acc, alias_post_aaq_reg, alias_rows, alias_acc,
                          alias_mult, alias_post, alias_stores >>
          /\ alias_next_id' \in {alias_next_id, alias_next_id + 1}
      BY <1>1 DEF Alias!vars, Alias!begin, Alias!end, Alias!machine, Alias!registers, Alias!memory,
         Alias!emitted
    <2>2. alias_snapshot_rows' \in {alias_snapshot_rows, alias_rows}
      BY <1>1 DEF Alias!vars, Alias!begin, Alias!end, Alias!word
    <2>3. Lasts /\ AccKnown'
      BY <2>1 DEF Lasts, AccKnown, Held, TodoIsChecked
    <2>4. DOMAIN alias_mem' = Alias!Blk
      BY <2>1 DEF Held, StoresHold
    <2> QED  BY <2>1, <2>2, <2>3, <2>4, HeldFrames DEF Held
  <1> QED  BY <1>1, HostHeld, OpHeld DEF Alias!Next

(* A product reported was of a row the accumulator, as it stands, was moved to. *)
LEMMA ProductsStep ==
  ASSUME Alias!AliasAssumption, TodoIsChecked, Held, [Alias!Next]_(Alias!vars), Alias!AccIsTheLatestProducer,
         NEW m \in alias_found' \ alias_found, m[1] = "A11_ACC_MUL"
  PROVE  \E s \in alias_mult.sources :
           s.id = m[3] /\ s.data = [i \in 0..alias_fmt - 1 |-> << alias_r_acc, "moved", i >>]
  <1>1. CASE UNCHANGED (Alias!vars) \/ (\E w \in AliasWords :
               Alias!begin(w)) \/ Alias!end \/ Alias!HostSteps
    <2>1. alias_found' = {} \/ alias_found' = alias_found
      BY <1>1, Zenon DEF Alias!vars, Alias!emitted, Alias!begin, Alias!end, Alias!HostSteps,
         Alias!WriteXmem, Alias!WriteRow, Alias!Export, Alias!WriteAcc, Alias!reset, Alias!Between
    <2> QED  BY <2>1
  <1>2. CASE Alias!Execute
    <2>1. CASE Alias!Op.slot = "load"
      <3>1. PICK l : alias_found' = Alias!Moved(l) \union Alias!Reread(l)
        BY <1>2, <2>1 DEF Alias!Execute, Alias!Load, Alias!Retire
      <3>2. m[1] \in {"A8_MOV_ACC", "A14_MULTIPLE_ACC"}
        BY <3>1 DEF Alias!Moved, Alias!Reread
      <3> QED  BY <3>2
    <2>2. CASE Alias!Op.slot = "acc"
      <3> DEFINE e == [id |-> alias_next_id + 1, slot |-> "acc", first |-> Alias!Op.first,
                       mult |-> alias_mult, previous_acc_id |-> alias_acc.id]
      <3>1. alias_found' = Alias!AccMultiply(e)
        BY <1>2, <2>2 DEF Alias!Execute, Alias!Acc, Alias!Retire
      <3>2. e.mult = alias_mult /\ e.previous_acc_id = alias_acc.id
        BY Zenon
      <3> HIDE DEF e
      <3>3. PICK s \in alias_mult.sources :
                   /\ m = << "A11_ACC_MUL", s.origin.post.acc, s.id >> /\ alias_mult # Alias!None
                                      /\ Alias!Transfer(s) /\ s.origin.post.acc # 0
                                      /\ s.origin.post.acc = alias_acc.id
        BY <3>1, <3>2 DEF Alias!AccMultiply
      <3>4. alias_acc # Alias!None /\ alias_acc.id = alias_r_acc
        BY <3>3 DEF Alias!None, Alias!AccIsTheLatestProducer
      <3>5. IsOf(s.origin.post) /\ s.a = s.origin.a /\ s.origin # Alias!None
        BY <3>3, <3>4 DEF Alias!Transfer, IsOf
      <3>6. LoadHolds(s)
        BY <3>3 DEF Held, MultHolds
      <3>7. s.data = MovedRow /\ m[3] = s.id
        BY <3>3, <3>5, <3>6 DEF LoadHolds
      <3> QED  BY <3>7 DEF MovedRow
    <2>3. CASE Alias!Op.slot \notin {"load", "acc"}
      <3>1. alias_found' = {} \/ alias_found' = alias_found
        BY <1>2, <2>3, Zenon DEF Alias!Execute, Alias!Lr, Alias!Check, Alias!Mult, Alias!Aaq,
           Alias!Store, Alias!StoreRaises, Alias!Retire, Alias!emitted
      <3> QED  BY <3>1
    <2> QED  BY <2>1, <2>2, <2>3
  <1> QED  BY <1>1, <1>2 DEF Alias!Next

(* The inductive invariant. *)
AliasInv ==
    TodoIsChecked /\ RowsAreLoads /\ MemoryKnown /\ StoresKnown /\ ReadsKnown /\ Held
      /\ Alias!SourcesAreLoads /\ OriginsAndConstants

(* The invariant holds at the start. *)
LEMMA AliasStarts == ASSUME Alias!AliasAssumption, Alias!Init PROVE AliasInv
  <1>1. TodoIsChecked
    BY DEF Alias!Init, TodoIsChecked, AnyOp, Alias!Idle
  <1>2. RowsAreLoads
    BY DEF Alias!Init, RowsAreLoads, RowsHold
  <1>3. MemoryKnown
    BY DEF Alias!Init, MemoryKnown, Alias!VersionOf, Alias!Setup
  <1>4. StoresKnown
    BY DEF Alias!Init, StoresKnown
  <1>5. ReadsKnown
    BY DEF Alias!Init, ReadsKnown
  <1>6. Held
    <2>1. AccKnown /\ PostHolds
      BY DEF Alias!Init, AccKnown, PostHolds, PostKnown, IsOf, Alias!None
    <2>2. StoresHold
      BY DEF Alias!Init, StoresHold
    <2>3. RowsKeep /\ SnapshotKeeps /\ MultHolds
      BY DEF Alias!Init, RowsKeep, SnapshotKeeps, MultHolds
    <2> QED  BY <2>1, <2>2, <2>3 DEF Held
  <1>7. Alias!SourcesAreLoads /\ OriginsAndConstants
    BY DEF Alias!Init, Alias!SourcesAreLoads, OriginsAndConstants, Alias!OriginIsTheWriter,
       Alias!ConstantsWereNeverWritten
  <1> QED  BY <1>1, <1>2, <1>3, <1>4, <1>5, <1>6, <1>7 DEF AliasInv

(* The invariant is kept by every step. *)
LEMMA AliasKept == ASSUME Alias!AliasAssumption, AliasInv, [Alias!Next]_(Alias!vars) PROVE AliasInv'
  BY TodoKept, RowsKept, MemoryKept, ReadsKept, HeldKept, SourcesKept, LoadsKept DEF AliasInv

(* For every memory, row format, set of words and host, an event's sources, origin and constancy are true. *)
THEOREM EventsAreOfTheHistory ==
  ASSUME Alias!AliasAssumption
  PROVE  Alias!Spec
           => [](Alias!SourcesAreLoads /\ Alias!OriginIsTheWriter /\ Alias!ConstantsWereNeverWritten)
  <1>1. Alias!Init => AliasInv
    BY AliasStarts
  <1>2. AliasInv /\ [Alias!Next]_(Alias!vars) => AliasInv'
    BY AliasKept
  <1>3. AliasInv => Alias!SourcesAreLoads /\ Alias!OriginIsTheWriter /\ Alias!ConstantsWereNeverWritten
    BY DEF AliasInv, OriginsAndConstants
  <1> QED  BY <1>1, <1>2, <1>3, PTL DEF Alias!Spec

(* For every memory, row format, set of words and host, what is reported of rereads and products is true. *)
THEOREM ReportsAreOfTheHistory ==
  ASSUME Alias!AliasAssumption
  PROVE  Alias!Spec => Alias!RereadsAreUnchanged /\ Alias!ProductsAreOfTheAccumulator
  <1>1. Alias!Init => AliasInv
    BY AliasStarts
  <1>2. AliasInv /\ [Alias!Next]_(Alias!vars) => AliasInv'
    BY AliasKept
  <1>3. AliasInv /\ [Alias!Next]_(Alias!vars) =>
          [alias_event' # alias_event /\ alias_event' # Alias!None /\ alias_event'.slot = "load" =>
             (alias_event'.previous <=> << alias_event'.a, alias_fmt >> \in alias_unchanged)]_(Alias!vars)
    <2> SUFFICES ASSUME AliasInv, [Alias!Next]_(Alias!vars), alias_event' # alias_event,
                        alias_event' # Alias!None, alias_event'.slot = "load"
                 PROVE  alias_event'.previous <=> << alias_event'.a, alias_fmt >> \in alias_unchanged
      BY Zenon
    <2> QED  BY RereadsStep DEF AliasInv
  <1>4. AliasInv /\ [Alias!Next]_(Alias!vars) =>
          [Alias!AccIsTheLatestProducer =>
             \A m \in alias_found' \ alias_found : m[1] = "A11_ACC_MUL" =>
               \E s \in alias_mult.sources :
                  /\ s.id = m[3]
                  /\ s.data = [i \in 0..alias_fmt - 1 |-> << alias_r_acc, "moved", i >>]]_(Alias!vars)
    BY ProductsStep DEF AliasInv
  <1> QED  BY <1>1, <1>2, <1>3, <1>4, PTL DEF Alias!Spec, Alias!RereadsAreUnchanged,
              Alias!ProductsAreOfTheAccumulator

-----------------------------------------------------------------------------
(* The run: whichever component moves, each of them behaves as it does     *)
(* alone.                                                                  *)

(* Every component starts as it does alone. *)
LEMMA PartsStart == PartInit => Memory!Init /\ Commits!Init /\ Alias!Init /\ File!Init
  BY DEF PartInit

(* A component that stands still keeps its variables. *)
LEMMA OthersStand ==
  ASSUME OthersFrozen
  PROVE  /\ part' = part
         /\ part # "memory" => UNCHANGED memVars
         /\ part # "commit" => UNCHANGED commitVars
         /\ part # "alias" => UNCHANGED aliasVars
         /\ part # "regfile" => UNCHANGED regVars
  BY DEF OthersFrozen

(* A step of the run is a step of each component or leaves it as it was. *)
LEMMA PartsStep ==
  ASSUME [PartNext]_partvars
  PROVE  /\ [Memory!Next]_(Memory!xvars)
         /\ [Commits!Next]_(Commits!vars)
         /\ [Alias!Next]_(Alias!vars)
         /\ [File!Next]_(File!vars)
         /\ part' = part
  <1> DEFINE Alone(p) == /\ part' = part
                         /\ p = "memory" => Memory!Next
                         /\ p # "memory" => UNCHANGED memVars
                         /\ p = "commit" => Commits!Next
                         /\ p # "commit" => UNCHANGED commitVars
                         /\ p = "alias" => Alias!Next
                         /\ p # "alias" => UNCHANGED aliasVars
                         /\ p = "regfile" => File!Next
                         /\ p # "regfile" => UNCHANGED regVars
  <1>1. CASE PartNext
    <2>1. Alone(part)
      <3>1. OthersFrozen
        BY <1>1 DEF PartNext, OnesStep, MemoryStep, CommitStep, AliasStep, RegfileStep, ElementsStep,
                    LanesStep, IssueStep, DetectorsStep
      <3>2. /\ part = "memory" => Memory!Next
            /\ part = "commit" => Commits!Next
            /\ part = "alias" => Alias!Next
            /\ part = "regfile" => File!Next
        BY <1>1 DEF PartNext, OnesStep, MemoryStep, CommitStep, AliasStep, RegfileStep, ElementsStep,
                    LanesStep, IssueStep, DetectorsStep
      <3> QED  BY <3>1, <3>2, OthersStand
    <2> QED
      BY <2>1 DEF memVars, commitVars, aliasVars, regVars, Memory!xvars, Commits!vars, Commits!machine,
                  Commits!collector, Alias!vars, Alias!machine, Alias!registers, Alias!memory,
                  Alias!history, Alias!word, Alias!emitted, File!vars
  <1>2. CASE UNCHANGED partvars
    BY <1>2 DEF partvars, memVars, commitVars, aliasVars, regVars, Memory!xvars, Commits!vars,
                Commits!machine, Commits!collector, Alias!vars, Alias!machine, Alias!registers,
                Alias!memory, Alias!history, Alias!word, Alias!emitted, File!vars
  <1> QED  BY <1>1, <1>2

(* Each component of the run is one of its own specification. *)
LEMMA PartsImplementTheirs == PartSpec => Memory!Spec /\ Commits!Spec /\ Alias!Spec /\ File!Spec
  <1>1. [PartNext]_partvars =>
          /\ [Memory!Next]_(Memory!xvars)
          /\ [Commits!Next]_(Commits!vars)
          /\ [Alias!Next]_(Alias!vars)
          /\ [File!Next]_(File!vars)
    BY PartsStep
  <1> QED  BY PartsStart, <1>1, PTL DEF PartSpec, Memory!Spec, Commits!Spec, Alias!Spec, File!Spec

(* In the run XMEM reads, writes and refuses as flat memory does (XMem). *)
THEOREM XmemOfTheRunIsFlat == PartSpec => MemoryIsFlat
  BY PartsImplementTheirs, PagesImplementFlatMemory, PTL DEF MemoryIsFlat

(* For every set of words and programs none of which raises, and a host that replaces no word at
   its stop, every record of the run's collector lists what its word issued, at its PC, in order,
   and nothing pends between words (CommitCollector.begin, end and retired). *)
THEOREM RecordsOfTheRunAreTrue ==
  ASSUME Commits!EveryWordEnds PROVE PartSpec => []CommitRecordsAreTrue
  <1>1. Commits!RecordsTellTheTruth /\ Commits!NothingPends => CommitRecordsAreTrue
    BY DEF CommitRecordsAreTrue
  <1>2. Commits!Spec
          => [](Commits!RecordsTellTheTruth /\ Commits!NothingPends /\ Commits!BreakWaitsForItsWord)
    BY Commits!RecordsAreTrue
  <1> QED  BY <1>1, <1>2, PartsImplementTheirs, PTL

(* For every memory and schema of registers, and every order of writes, views kept, loads, resets
   and snapshots: memories are equal exactly when their bytes are, the observer knows every byte
   written since it read, only a kept view outdates a mark, a probe that sees ones sees them in
   storage, and the packed operands are the faithful ones (XMem.__eq__, RegFile's accessors and
   observers, resolver.py). *)
THEOREM StorageOfTheRunTellsTheTruth == PartSpec => []StorageTellsTheTruth
  <1>1. Memory!EqualIsByBytes /\ FileIsTrue => StorageTellsTheTruth
    BY DEF StorageTellsTheTruth, FileIsTrue
  <1> QED  BY <1>1, PartsImplementTheirs, EqualityIsOfBytes, RegisterFileIsTrue, SchemaAssumption, PTL

(* For every memory, row format, set of words and host, and every order of words, stores, clears,
   resets and views kept: the sources of a product are the loads its registers held when its word
   began, a load's origin is the one store that wrote its row last, and a row is a constant of the
   run exactly when nobody wrote it (ExecutionObserver.issued, memory, window). *)
THEOREM AliasEventsOfTheRunAreTrue == PartSpec => []AliasEventsAreTrue
  <1>1. Alias!SourcesAreLoads /\ Alias!OriginIsTheWriter /\ Alias!ConstantsWereNeverWritten
          => AliasEventsAreTrue
    BY DEF AliasEventsAreTrue
  <1> QED  BY <1>1, PartsImplementTheirs, EventsAreOfTheHistory, ProfiledAssumption, PTL

(* And a load is reported a repeated read exactly when its row was read before and is as it was,
   and a product of the accumulator read a row the accumulator, as it stands, was moved to
   (finish, AccMultiply). *)
THEOREM AliasReadsOfTheRunHold == PartSpec => AliasReadsHold
  BY PartsImplementTheirs, ReportsAreOfTheHistory, ProfiledAssumption, PTL DEF AliasReadsHold

=============================================================================
