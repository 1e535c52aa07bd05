------------------------------ MODULE Regions ------------------------------
(***************************************************************************)
(* Where the tensors of a kernel go in XMEM (ipu_harness/placement.py):    *)
(* regions of whole rows, pinned or placed by first fit.                   *)
(*                                                                         *)
(* A tensor is known by its place in the declaration order.  A shape, a    *)
(* pack and a format come down to rows and a layout.                       *)
(***************************************************************************)
EXTENDS Integers, Sequences, SequencesExt

CONSTANTS
  Capacity,    \* addressable_rows: the rows of XMEM
  Layouts      \* pack transforms and stored formats

ASSUME RegionsAssumption == Capacity \in Nat \ {0}

Region(base, rows) == [base |-> base, rows |-> rows]
End(r) == r.base + r.rows
Rows(r) == r.base..End(r) - 1
Overlap(a, b) == Rows(a) \cap Rows(b) # {}
Disjoint(a, B) == \A b \in B : ~Overlap(a, b)

\* element: an output stored element by element; after: the tensor it follows, or 0.
Tensor(role, rows, layout, element, after) ==
  [role |-> role, rows |-> rows, layout |-> layout, element |-> element, after |-> after]

-----------------------------------------------------------------------------

\* (mutant: the scan goes on from the last region, not from the furthest)
FirstFitFromLast(taken, rows) ==
  LET past[p \in 0..Capacity + 1] ==
        IF p = 0 THEN 0
        ELSE LET base == past[p - 1]
                 here == {End(r) : r \in {t \in taken : t.base = p - 1}}
             IN IF base + rows <= p - 1 \/ here = {} THEN base ELSE Max(here)
  IN past[Capacity + 1]

\* _first_fit: past[p] is the candidate once the scan, by base row, is past the
\* regions that start below row p.  A candidate that fits below p stays.
FirstFit(taken, rows) ==
  LET past[p \in 0..Capacity + 1] ==
        IF p = 0 THEN 0
        ELSE LET base == past[p - 1]
                 here == {End(r) : r \in {t \in taken : t.base = p - 1}}
             IN IF base + rows <= p - 1 THEN base ELSE Max(here \cup {base})
  IN past[Capacity + 1]

\* placement_order: each tensor that follows another comes right behind it, with
\* those that follow it in turn.
PlacementOrder(tensors) ==
  LET all == [j \in DOMAIN tensors |-> j]
      followers(i) == SelectSeq(all, LAMBDA j : tensors[j].after = i)
      visit[i \in DOMAIN tensors] ==
        <<i>> \o FlattenSeq([k \in DOMAIN followers(i) |-> visit[followers(i)[k]]])
      roots == SelectSeq(all, LAMBDA j : tensors[j].after = 0)
  IN FlattenSeq([k \in DOMAIN roots |-> visit[roots[k]]])

Refused == <<>>

\* place: the pinned tensors where they are pinned, the others by first fit around
\* them, the reserved rows and the rows to avoid; Refused if a region does not fit, a
\* tensor got none, or a pin meets another or a reserved row.
Place(tensors, pins, reserved, avoid) ==
  LET pinned == [i \in DOMAIN pins |-> Region(pins[i], tensors[i].rows)]
      order == PlacementOrder(tensors)
      fit(taken, i) ==
        Region(FirstFit({taken[j] : j \in DOMAIN taken} \cup reserved \cup avoid, tensors[i].rows),
               tensors[i].rows)
      after[p \in 0..Len(tensors)] ==
        IF p = 0 THEN pinned
        ELSE IF order[p] \in DOMAIN tensors \ DOMAIN pins
        THEN [j \in DOMAIN after[p - 1] \cup {order[p]} |->
                IF j = order[p] THEN fit(after[p - 1], j) ELSE after[p - 1][j]]
        ELSE after[p - 1]
      placed == after[Len(tensors)]
  IN IF /\ \A i \in DOMAIN pins :
             /\ End(pinned[i]) <= Capacity
             /\ Disjoint(pinned[i], reserved \cup {pinned[j] : j \in DOMAIN pins \ {i}})
        /\ DOMAIN placed = DOMAIN tensors
        /\ \A i \in DOMAIN tensors : End(placed[i]) <= Capacity
     THEN placed ELSE Refused

\* A store that spills goes `spill` rows past the end of an element output.
SpillOf(r, spill) == Region(End(r), spill)

\* check_aaq_spill: the rows behind every element output are free.
SpillsAreFree(tensors, placed, reserved, spill) ==
  \A i \in DOMAIN tensors :
    (spill > 0 /\ tensors[i].role = "output" /\ tensors[i].element) =>
      /\ End(placed[i]) + spill <= Capacity
      /\ Disjoint(SpillOf(placed[i], spill),
                  reserved \cup {placed[j] : j \in DOMAIN tensors \ {i}})

=============================================================================
