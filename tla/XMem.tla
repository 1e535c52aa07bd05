-------------------------------- MODULE XMem --------------------------------
(***************************************************************************)
(* XMEM's storage (ipu_emu/xmem.py): pages, allocated when something other *)
(* than zero is first written to them, released when they are filled with  *)
(* zeros.  A page is a function of the addresses it holds.  An operation   *)
(* that crosses pages is split at their boundaries.                        *)
(***************************************************************************)
EXTENDS Integers

CONSTANTS
    Size,        \* XMEM_SIZE_BYTES
    PageBytes,   \* PAGE_BYTES
    MaxByte      \* 0xFF

XMemAssumption ==
    /\ Size \in Nat /\ MaxByte \in Nat
    /\ PageBytes \in Nat \ {0} /\ Size % PageBytes = 0

VARIABLES
    pages,       \* XMem._pages
    last         \* the bytes the last operation read or wrote, or its error

xvars == << pages, last >>

Address == 0..Size - 1
Byte == 0..MaxByte
PageOf(b) == b \div PageBytes
PageNos == {PageOf(b) : b \in Address}
PageSpan(p) == {b \in Address : PageOf(b) = p}
Span(a, n) == {b \in Address : a <= b /\ b < a + n}
Met(span) == {PageOf(b) : b \in span}
Zeros(p) == [b \in PageSpan(p) |-> 0]

Moved(data) == [outcome |-> "ok", bytes |-> data]
Error == [outcome |-> "XMemBoundsError", bytes |-> [b \in {} |-> 0]]

Init == pages = [p \in {} |-> Zeros(p)] /\ last = Moved([b \in {} |-> 0])

(* _check_bounds *)
InBounds(a, n) == 0 <= a /\ 0 <= n /\ a + n <= Size

(* A missing page reads as zeros. *)
ByteAt(b) == IF PageOf(b) \in DOMAIN pages THEN pages[PageOf(b)][b] ELSE 0

_read(span) == [b \in span |-> ByteAt(b)]

(* The pages `held', with the bytes of a span replaced. *)
Stored(held, span, data) ==
    [p \in held |-> [b \in PageSpan(p) |-> IF b \in span THEN data[b] ELSE ByteAt(b)]]

(* Zeros into an absent page store nothing. *)
Allocated(span, data) == {p \in Met(span) : \E b \in span \cap PageSpan(p) : data[b] # 0}
_write(span, data) == Stored(DOMAIN pages \union Allocated(span, data), span, data)

-----------------------------------------------------------------------------
read_address(a, n) ==
    /\ InBounds(a, n)
    /\ last' = Moved(_read(Span(a, n)))
    /\ UNCHANGED pages

write_address(a, n) ==
    /\ InBounds(a, n)
    /\ \E data \in [Span(a, n) -> Byte] :
         /\ pages' = _write(Span(a, n), data)
         /\ last' = Moved(data)

(* (mutant: a page is released when any byte of it is zero-filled) *)
ReleasedIfMet(span) == {p \in PageNos : PageSpan(p) \cap span # {}}
(* Filling with zero releases every page the range fully covers, and allocates none. *)
Released(span) == {p \in PageNos : PageSpan(p) \subseteq span}

fill(a, n, value) ==
    LET span == Span(a, n)
        held == IF value = 0 THEN DOMAIN pages \ Released(span) ELSE DOMAIN pages \union Met(span) IN
    /\ InBounds(a, n)
    /\ pages' = Stored(held, span, [b \in span |-> value])
    /\ last' = Moved([b \in span |-> value])

clear == pages' = [p \in {} |-> Zeros(p)] /\ last' = Moved([b \in Address |-> 0])

OutOfBounds(a, n) == ~InBounds(a, n) /\ last' = Error /\ UNCHANGED pages

(* __getitem__ and __setitem__ of one byte: an index below zero counts from the end. *)
Index(i) == IF i < 0 THEN i + Size ELSE i
GetItem(i) == read_address(Index(i), 1) \/ OutOfBounds(Index(i), 1)
SetItem(i) == write_address(Index(i), 1) \/ OutOfBounds(Index(i), 1)

Next ==
    \/ \E a \in -1..Size, n \in 0..Size :
         \/ read_address(a, n) \/ write_address(a, n) \/ OutOfBounds(a, n)
         \/ \E v \in Byte : fill(a, n, v)
    \/ \E i \in (-Size - 1)..Size : GetItem(i) \/ SetItem(i)
    \/ clear

Spec == Init /\ [][Next]_xvars

-----------------------------------------------------------------------------
(* The memory the pages stand for. *)
Flat == INSTANCE FlatMemory WITH mem <- [b \in Address |-> ByteAt(b)]

(* Whatever is split at page boundaries, left out because it is zero or released, XMEM reads and
   writes as a flat memory does, and refuses what is out of its bounds whole (XMem). *)
IsFlat == Flat!Spec

(* XMem.__eq__ *)
Equal(mine, theirs) ==
    \A p \in DOMAIN mine \union DOMAIN theirs :
        (IF p \in DOMAIN mine THEN mine[p] ELSE Zeros(p)) = (IF p \in DOMAIN theirs THEN theirs[p] ELSE Zeros(p))

(* The same bytes written afresh into an empty memory. *)
Rewritten ==
    [p \in {q \in PageNos : \E b \in PageSpan(q) : ByteAt(b) # 0} |-> [b \in PageSpan(p) |-> ByteAt(b)]]

(* Two memories of the same bytes are equal whatever was allocated, filled or released on the way
   to them, and memories of other bytes are not (XMem.__eq__). *)
EqualIsByBytes ==
    /\ Equal(pages, Rewritten)
    /\ \A b \in Address : ~Equal(pages, [Stored(PageNos, {}, {}) EXCEPT ![PageOf(b)][b] = IF @ = 0 THEN 1 ELSE 0])
=============================================================================
