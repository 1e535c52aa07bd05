----------------------------- MODULE Placement -----------------------------
(***************************************************************************)
(* One call of place for every case of a small XMEM: what the algorithm    *)
(* of Regions must give, whatever is pinned, reserved and avoided.         *)
(***************************************************************************)
EXTENDS Regions, FiniteSets

CONSTANTS
  Cases,       \* the kernels' tensors, in declaration order
  PinRows,     \* the rows they may be pinned to
  Reservations,    \* the sets of reserved regions
  Avoided      \* the sets of regions to avoid

VARIABLES
  tensors,     \* the case
  pins,        \* the rows pinned, by tensor
  reserved,    \* rows of the tensors a chain holds
  avoid,       \* rows left for a store's spill
  placed       \* the placement, once it is made

vars == <<tensors, pins, reserved, avoid, placed>>

NoPlacement == <<0>>

Init ==
  /\ tensors \in Cases
  /\ pins \in UNION {[some -> PinRows] : some \in SUBSET DOMAIN tensors}
  /\ reserved \in Reservations /\ avoid \in Avoided
  /\ placed = NoPlacement

PlaceCase ==
  /\ placed = NoPlacement
  /\ placed' = Place(tensors, pins, reserved, avoid)
  /\ UNCHANGED <<tensors, pins, reserved, avoid>>

Spec == Init /\ [][PlaceCase]_vars

-----------------------------------------------------------------------------

Made == placed \notin {NoPlacement, Refused}

\* No two regions share a row, none takes a reserved row or leaves XMEM, and a
\* pinned one is where it was pinned: what place promises the runner, which
\* writes regions without looking again.
PlacementIsSound ==
  Made =>
    /\ DOMAIN placed = DOMAIN tensors
    /\ \A i \in DOMAIN tensors :
         /\ End(placed[i]) <= Capacity /\ placed[i].rows = tensors[i].rows
         /\ Disjoint(placed[i], reserved \cup {placed[j] : j \in DOMAIN tensors \ {i}})
         /\ i \in DOMAIN pins => placed[i].base = pins[i]

Position(i) == CHOOSE k \in DOMAIN tensors : PlacementOrder(tensors)[k] = i

\* A free region is at the lowest rows that hold it around what was placed before:
\* "The lowest row where rows free rows start".
FreeRegionsAreLowest ==
  Made =>
    \A i \in DOMAIN tensors \ DOMAIN pins :
      LET before == {j \in DOMAIN tensors : j \in DOMAIN pins \/ Position(j) < Position(i)}
      IN \A b \in 0..placed[i].base - 1 :
           ~Disjoint(Region(b, tensors[i].rows),
                     {placed[j] : j \in before} \cup reserved \cup avoid)

\* The tensors that follow i, directly or behind another.
Behind(i) ==
  LET descends[j \in DOMAIN tensors] ==
        tensors[j].after = i \/ (tensors[j].after # 0 /\ descends[tensors[j].after])
  IN {j \in DOMAIN tensors : descends[j]}

\* Every tensor is placed once, and what follows a tensor comes in one run right
\* behind it, however the manifest declares them.
FollowersAreTogether ==
  LET order == PlacementOrder(tensors) IN
  /\ Len(order) = Len(tensors) /\ ToSet(order) = DOMAIN tensors
  /\ \A i \in DOMAIN tensors :
       {Position(j) - Position(i) : j \in Behind(i)} = 1..Cardinality(Behind(i))

=============================================================================
