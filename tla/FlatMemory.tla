----------------------------- MODULE FlatMemory -----------------------------
(***************************************************************************)
(* What XMEM promises (ipu_emu/xmem.py): a flat memory of bytes.  An       *)
(* operation beyond its end is an error and changes nothing.               *)
(***************************************************************************)
EXTENDS Integers

CONSTANTS Size, MaxByte

VARIABLES
    mem,
    last     \* the bytes the last operation read or wrote, or its error

Address == 0..Size - 1
Byte == 0..MaxByte
Span(a, n) == {b \in Address : a <= b /\ b < a + n}
InBounds(a, n) == 0 <= a /\ 0 <= n /\ a + n <= Size

Moved(data) == [outcome |-> "ok", bytes |-> data]
Error == [outcome |-> "XMemBoundsError", bytes |-> [b \in {} |-> 0]]

Init == mem = [b \in Address |-> 0] /\ last = Moved([b \in {} |-> 0])

Read(a, n) ==
    /\ InBounds(a, n)
    /\ last' = Moved([b \in Span(a, n) |-> mem[b]])
    /\ UNCHANGED mem

Write(a, n, data) ==
    /\ InBounds(a, n)
    /\ mem' = [b \in Address |-> IF b \in Span(a, n) THEN data[b] ELSE mem[b]]
    /\ last' = Moved(data)

Refuse == last' = Error /\ UNCHANGED mem

Next ==
    \/ \E a, n \in 0..Size : Read(a, n) \/ \E data \in [Span(a, n) -> Byte] : Write(a, n, data)
    \/ Refuse

Spec == Init /\ [][Next]_<<mem, last>>
=============================================================================
