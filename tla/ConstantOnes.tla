---------------------------- MODULE ConstantOnes ----------------------------
(***************************************************************************)
(* Provenance of constant ONES rows (ipu_emu/xmem.py, regfile.py and the   *)
(* LOAD handlers): a multiply is an identity, and no real MAC, only when   *)
(* its vector was loaded from a row the host declared to be ones, never    *)
(* when ordinary data happens to be all ones.                              *)
(*                                                                         *)
(* An element is ONE or other data.  The register file is the ring         *)
(* R_CYCLIC; Ra is such a register of two slots, whose windows are slots.  *)
(***************************************************************************)
EXTENDS Naturals, FiniteSets

CONSTANTS
  RowLen,      \* elements of a row: LANES
  XmemSize,    \* elements of XMEM
  RingSlots    \* slots of the ring

ASSUME OnesAssumption ==
  /\ RowLen \in Nat \ {0} /\ RingSlots \in Nat \ {0}
  /\ XmemSize \in Nat /\ XmemSize % RowLen = 0

VARIABLES
  xmem,        \* the addresses of XMEM that hold ONE
  constants,   \* XMem._constant_ones: the addresses of the declared rows
  reg,         \* the elements of the ring that hold ONE
  bits,        \* RegFile._constant_one_bytes
  exported,    \* the ring is in RegFile._mutable_exports: raw() gave it out
  snap,        \* Cycle._buffer's ring
  snapBits,    \* and its provenance bits
  intact,      \* (history) the XMEM elements last written as part of a declared row
               \* that a load may address, each in its row
  origin,      \* (history) the ring's elements loaded from a declared row
  snapOrigin   \* (history) and the snapshot's

memory == <<xmem, constants, intact>>
ring == <<reg, bits, exported, origin>>
buffer == <<snap, snapBits, snapOrigin>>
vars == <<memory, ring, buffer>>

Address == 0..XmemSize - 1
RingSize == RingSlots * RowLen
Elements == 0..RingSize - 1
Rows == {a \in Address : a % RowLen = 0}
Span(a, size) == a..a + size - 1
Starts(size) == {a \in Address : a + size <= XmemSize}

Init ==
  /\ xmem = {} /\ constants = {} /\ intact = {}
  /\ reg = {} /\ bits = {} /\ exported = FALSE /\ origin = {}
  /\ snap = {} /\ snapBits = {} /\ snapOrigin = {}

-----------------------------------------------------------------------------
(* XMEM *)

\* (mutant: only a write over a declared row's first element revokes it)
RevokedAtStart(a, size) == constants \ Span(a, size)

\* The declared rows that a write of `size` elements from `a` leaves declared.
Revoked(a, size) == {c \in constants : c + RowLen <= a \/ c >= a + size}

\* write_address: the elements in `ones` become ONE, the others of the span do not.
Writes(a, size, ones) == xmem' = (xmem \ Span(a, size)) \cup ones

\* A host's write, a fill, or a store of the program.
WriteXmem(a, size) ==
  /\ a \in Starts(size)
  /\ \E ones \in SUBSET Span(a, size) : Writes(a, size, ones)
  /\ constants' = Revoked(a, size)
  /\ intact' = intact \ Span(a, size)
  /\ UNCHANGED <<ring, buffer>>

\* write_constant_ones: at any address, on a row boundary or not.
DeclareOnes(a) ==
  /\ a \in Starts(RowLen)
  /\ Writes(a, RowLen, Span(a, RowLen))
  /\ constants' = Revoked(a, RowLen) \cup {a}
  /\ intact' = IF a \in Rows THEN intact \cup Span(a, RowLen) ELSE intact \ Span(a, RowLen)
  /\ UNCHANGED <<ring, buffer>>

IsConstantOnes(a) == a \in constants /\ Span(a, RowLen) \subseteq xmem

-----------------------------------------------------------------------------
(* The register file *)

\* (mutant: a ring that was given out is marked as any other)
MarkedAlways(kept, slot) == kept \cup slot

\* mark_constant_ones: refused for a register that raw() gave out.
Marked(kept, slot) == IF exported THEN kept ELSE kept \cup slot

\* A word: its snapshot, then the load of XMEM row `a` into ring slot `s`.
LoadWord(a, s) ==
  LET slot == Span(s * RowLen, RowLen) IN
  /\ snap' = reg /\ snapBits' = bits /\ snapOrigin' = origin
  /\ reg' = (reg \ slot) \cup {e \in slot : a + (e - s * RowLen) \in xmem}
  /\ bits' = IF IsConstantOnes(a) THEN Marked(bits \ slot, slot) ELSE bits \ slot
  /\ origin' = IF Span(a, RowLen) \subseteq intact THEN origin \cup slot ELSE origin \ slot
  /\ UNCHANGED <<memory, exported>>

\* A word that loads nothing.
Word ==
  /\ snap' = reg /\ snapBits' = bits /\ snapOrigin' = origin
  /\ UNCHANGED <<memory, ring>>

\* The host or a debugger writes element `e` (set_register_bytes, mutable).
WriteRing(e) ==
  /\ reg' \in {reg \ {e}, reg \cup {e}}
  /\ bits' = bits \ {e} /\ origin' = origin \ {e}
  /\ UNCHANGED <<memory, exported, buffer>>

\* raw(): the buffer escapes; its holder may write it at any later time.
Raw ==
  /\ exported' = TRUE /\ bits' = {}
  /\ UNCHANGED <<memory, reg, origin, buffer>>
HolderWrites(e) ==
  /\ exported
  /\ reg' \in {reg \ {e}, reg \cup {e}}
  /\ origin' = origin \ {e}
  /\ UNCHANGED <<memory, bits, exported, buffer>>

\* IpuState.reset: registers and XMEM to zero; a buffer given out stays so.
Reset ==
  /\ reg' = {} /\ bits' = {} /\ origin' = {}
  /\ xmem' = {} /\ constants' = {} /\ intact' = {}
  /\ UNCHANGED <<exported, buffer>>

Next ==
  \/ \E a \in Address : DeclareOnes(a) \/ \E size \in 1..RowLen : WriteXmem(a, size)
  \/ \E a \in Rows, s \in 0..RingSlots - 1 : LoadWord(a, s)
  \/ \E e \in Elements : WriteRing(e) \/ HolderWrites(e)
  \/ Word \/ Raw \/ Reset

Spec == Init /\ [][Next]_vars

-----------------------------------------------------------------------------
(* The issue-time probe, and what it promises *)

\* The window of a multiply from element `start`, which may wrap.
Window(start) == {(start + i) % RingSize : i \in 0..RowLen - 1}

\* vector_is_one, on the word's snapshot.
VectorIsOne(start) == Window(start) \subseteq snapBits /\ Window(start) \subseteq snap

\* vector_is_one says "Only explicitly declared ONES loads establish vector
\* provenance": whatever was overwritten in XMEM or the ring since, by whom, every
\* element of an identity window is the load of an intact declared row.
IdentityIsDeclared ==
  \A start \in Elements : VectorIsOne(start) => Window(start) \subseteq snapOrigin

\* Bits are never stale: a marked element holds ONE, in the ring and in the
\* snapshot, even while someone holds the ring's buffer.
BitsAreOnes == bits \subseteq reg /\ snapBits \subseteq snap

=============================================================================
