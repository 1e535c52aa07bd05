---------------------------- MODULE Chain_proofs ----------------------------
(***************************************************************************)
(* The books of a chain, for every XMEM, kernel and sequence of calls:     *)
(* what is live was not written over, and what is stale stays so.  These   *)
(* two hold for any placement: they use only that a step writes within the *)
(* regions it accounts for.  What is held is never covered rests on where  *)
(* place puts regions: the loops of first fit and of the placement are     *)
(* unfolded by induction.                                                  *)
(***************************************************************************)
EXTENDS Chain, TLAPS, WellFoundedInduction

\* A slice's rows are rows of every tensor it is part of, and a tensor it is part
\* of is part of what that one is part of.
ResidentsNest ==
  \A i \in Ids :
    /\ i \in Lineage(i) /\ Lineage(i) \subseteq Ids
    /\ \A a \in Lineage(i) :
         /\ Root(a) = Root(i) /\ Lineage(a) \subseteq Lineage(i)
         /\ Rows(resident[i]) \subseteq Rows(resident[a])

BooksAreOfResidents == live \subseteq Ids /\ held \subseteq Ids /\ spoilt \subseteq Ids

ChainInv == ResidentsNest /\ BooksAreOfResidents /\ LiveIsIntact

-----------------------------------------------------------------------------
(* One more Resident *)

LEMMA NewIdIsUnmade ==
  ASSUME Unmade # {} PROVE NewId \in Unmade /\ NewId \notin Ids
BY DEF NewId, Unmade

\* Residents made as whole tensors, or as parts of what is there, nest.
LEMMA MadeNests ==
  ASSUME ResidentsNest, NEW new, resident' = Made(new), DOMAIN new \cap Ids = {},
         \A j \in DOMAIN new :
           /\ j \in new[j].lineage /\ new[j].lineage \subseteq Ids \cup {j}
           /\ \A a \in new[j].lineage \cap Ids :
                /\ Root(a) = new[j].root /\ Lineage(a) \subseteq new[j].lineage
                /\ Rows(new[j]) \subseteq Rows(resident[a])
  PROVE  /\ ResidentsNest'
         /\ Ids' = Ids \cup DOMAIN new
         /\ \A i \in Ids : resident'[i] = resident[i]
         /\ \A j \in DOMAIN new : resident'[j] = new[j]
<1>1. Ids' = Ids \cup DOMAIN new
  BY DEF Made, Ids
<1>2. \A i \in Ids : resident'[i] = resident[i]
  BY DEF Made, Ids
<1>3. \A j \in DOMAIN new : resident'[j] = new[j]
  BY DEF Made, Ids
<1>4. ResidentsNest'
  <2> SUFFICES ASSUME NEW i \in Ids'
               PROVE  /\ i \in Lineage(i)' /\ Lineage(i)' \subseteq Ids'
                      /\ \A a \in Lineage(i)' :
                           /\ Root(a)' = Root(i)' /\ Lineage(a)' \subseteq Lineage(i)'
                           /\ Rows(resident[i])' \subseteq Rows(resident[a])'
    BY DEF ResidentsNest
  <2>1. CASE i \in Ids
    <3>1. Lineage(i)' = Lineage(i) /\ Root(i)' = Root(i) /\ Rows(resident[i])' = Rows(resident[i])
      BY <1>2, <2>1 DEF Lineage, Root, Rows, End
    <3>2. \A a \in Lineage(i) :
            /\ Lineage(a)' = Lineage(a) /\ Root(a)' = Root(a)
            /\ Rows(resident[a])' = Rows(resident[a])
      BY <1>2, <2>1 DEF Lineage, Root, Rows, End, ResidentsNest
    <3> QED BY <3>1, <3>2, <2>1, <1>1 DEF ResidentsNest
  <2>2. CASE i \in DOMAIN new
    <3>1. Lineage(i)' = new[i].lineage /\ Root(i)' = new[i].root /\ Rows(resident[i])' = Rows(new[i])
      BY <1>3, <2>2 DEF Lineage, Root, Rows, End
    <3>2. \A a \in Ids :
            /\ Lineage(a)' = Lineage(a) /\ Root(a)' = Root(a)
            /\ Rows(resident[a])' = Rows(resident[a])
      BY <1>2 DEF Lineage, Root, Rows, End
    <3> QED BY <3>1, <3>2, <2>2, <1>1
  <2> QED BY <2>1, <2>2, <1>1
<1> QED BY <1>1, <1>2, <1>3, <1>4

-----------------------------------------------------------------------------
(* What a write leaves live *)

\* A tensor still live after a write was live before it, and no row of it was
\* written for another tensor.
LEMMA KeptIsIntact ==
  ASSUME ResidentsNest, BooksAreOfResidents, NEW targets, NEW written,
         NEW done \in SUBSET DOMAIN written,
         \A n \in DOMAIN targets : targets[n] \in Ids /\ IsLive(targets[n])
  PROVE  /\ Kept(targets, written) \subseteq Ids
         /\ Spoils(targets, written, done) \subseteq Ids
         /\ \A i \in Ids : Lineage(i) \cap Kept(targets, written) # {} =>
              IsLive(i) /\ i \notin Spoils(targets, written, done)
<1>1. Kept(targets, written) \subseteq Ids
  BY DEF Kept, BooksAreOfResidents
<1>2. Spoils(targets, written, done) \subseteq Ids
  BY DEF Spoils, SpoiltBy
<1>3. ASSUME NEW i \in Ids, NEW a \in Lineage(i), a \in Kept(targets, written)
      PROVE  IsLive(i) /\ i \notin Spoils(targets, written, done)
  <2>0. /\ a \in Ids /\ Root(a) = Root(i) /\ Lineage(a) \subseteq Lineage(i)
        /\ Rows(resident[i]) \subseteq Rows(resident[a])
    BY <1>3 DEF ResidentsNest
  <2>1. CASE \E n \in DOMAIN targets : a = targets[n]
    <3>1. IsLive(i)
      BY <2>0, <2>1 DEF IsLive
    <3>2. i \notin Spoils(targets, written, done)
      BY <2>1, <1>3 DEF Spoils
    <3> QED BY <3>1, <3>2
  <2>2. CASE ~\E n \in DOMAIN targets : a = targets[n]
    <3> DEFINE own == {n \in DOMAIN targets : a \in Lineage(targets[n])}
    <3>1. a \in live /\ \A m \in DOMAIN written \ own : ~Overlap(resident[a], written[m])
      BY <1>3, <2>2 DEF Kept
    <3>2. \A m \in DOMAIN written \ own : ~Overlap(resident[i], written[m])
      BY <3>1, <2>0 DEF Overlap
    <3>3. \A n \in own : Root(targets[n]) = Root(i)
      BY <2>0 DEF ResidentsNest
    <3>4. ASSUME NEW n \in done,
                 i \in SpoiltBy({written[n]}, IF n \in DOMAIN targets THEN Root(targets[n]) ELSE 0)
          PROVE  FALSE
      <4>1. Overlap(resident[i], written[n])
        BY <3>4 DEF SpoiltBy, Disjoint
      <4>2. n \in own
        BY <4>1, <3>2
      <4>3. Root(i) # Root(targets[n])
        BY <4>2, <3>4 DEF SpoiltBy
      <4> QED BY <4>2, <4>3, <3>3
    <3>5. i \notin Spoils(targets, written, done)
      BY <3>4 DEF Spoils
    <3> QED BY <3>1, <3>5, <1>3 DEF IsLive
  <2> QED BY <2>1, <2>2
<1> QED BY <1>1, <1>2, <1>3

\* Whole tensors are made, and of what was there no more is live than before and
\* nothing live is spoilt.
LEMMA BooksStep ==
  ASSUME ChainInv, NEW new, NEW K, NEW S, resident' = Made(new), DOMAIN new \cap Ids = {},
         \A j \in DOMAIN new : new[j].lineage = {j},
         K \subseteq Ids, S \subseteq Ids, held' \subseteq Ids \cup DOMAIN new,
         live' = K \cup DOMAIN new, spoilt' = spoilt \cup S,
         \A i \in Ids : Lineage(i) \cap K # {} => IsLive(i) /\ i \notin S
  PROVE  ChainInv' /\ \A i \in Ids : IsLive(i)' => IsLive(i)
<1>0. /\ ResidentsNest' /\ Ids' = Ids \cup DOMAIN new
      /\ \A i \in Ids : resident'[i] = resident[i]
      /\ \A j \in DOMAIN new : resident'[j] = new[j]
  BY MadeNests DEF ChainInv
<1>1. \A i \in Ids : Lineage(i)' = Lineage(i) /\ Lineage(i) \subseteq Ids
  BY <1>0 DEF Lineage, ChainInv, ResidentsNest
<1>2. \A i \in Ids : IsLive(i)' => Lineage(i) \cap K # {}
  BY <1>1 DEF IsLive
<1>3. BooksAreOfResidents'
  BY <1>0 DEF ChainInv, BooksAreOfResidents
<1>4. LiveIsIntact'
  <2>1. \A i \in Ids : IsLive(i)' => i \notin spoilt'
    BY <1>2 DEF ChainInv, LiveIsIntact
  <2>2. \A j \in DOMAIN new : j \notin spoilt'
    BY DEF ChainInv, BooksAreOfResidents
  <2> QED BY <2>1, <2>2, <1>0 DEF LiveIsIntact
<1> QED BY <1>0, <1>2, <1>3, <1>4 DEF ChainInv

-----------------------------------------------------------------------------
(* One step of each operation *)

\* What every step keeps: the invariant, and that the stale stay stale.
BooksKept == ChainInv' /\ \A i \in Ids : IsLive(i)' => IsLive(i)

LEMMA SliceKeeps ==
  ASSUME ChainInv, NEW i \in Ids, NEW base, NEW rows, Slice(i, base, rows)
  PROVE  BooksKept
<1>0. PICK one : one = NewId
  OBVIOUS
<1> DEFINE r == [base |-> base, rows |-> rows, layout |-> resident[i].layout,
                 root |-> Root(i), lineage |-> Lineage(i) \cup {one}]
           new == [id \in {one} |-> r]
<1>1. one \notin Ids
  BY <1>0, NewIdIsUnmade DEF Slice
<1>2. resident' = Made(new)
  <2>1. new = [id \in {one} |->
                 [base |-> base, rows |-> rows, layout |-> resident[i].layout,
                  root |-> Root(i), lineage |-> Lineage(i) \cup {id}]]
    OBVIOUS
  <2> QED BY <1>0, <2>1 DEF Slice
<1>3. /\ i \in Lineage(i) /\ Lineage(i) \subseteq Ids
      /\ \A a \in Lineage(i) :
           /\ Root(a) = Root(i) /\ Lineage(a) \subseteq Lineage(i)
           /\ Rows(resident[i]) \subseteq Rows(resident[a])
  BY DEF ChainInv, ResidentsNest
<1>4. Rows(r) \subseteq Rows(resident[i])
  BY DEF Slice, Rows, End, Region
<1>5. /\ ResidentsNest' /\ Ids' = Ids \cup {one}
      /\ \A j \in Ids : resident'[j] = resident[j]
      /\ resident'[one] = r
  <2>1. /\ one \in r.lineage /\ r.lineage \subseteq Ids \cup {one}
        /\ \A a \in r.lineage \cap Ids :
             /\ Root(a) = r.root /\ Lineage(a) \subseteq r.lineage
             /\ Rows(r) \subseteq Rows(resident[a])
    <3> HIDE DEF new
    <3> QED BY <1>1, <1>3, <1>4
  <2>2. DOMAIN new = {one} /\ new[one] = r
    OBVIOUS
  <2> HIDE DEF new, r
  <2> QED BY <2>1, <2>2, <1>1, <1>2, MadeNests DEF ChainInv
<1>6. \A j \in Ids : (Lineage(j)' = Lineage(j)) /\ Lineage(j) \subseteq Ids
  BY <1>5 DEF Lineage, ChainInv, ResidentsNest
<1>7. live' = live /\ held' = held /\ live \subseteq Ids /\ held \subseteq Ids /\ spoilt \subseteq Ids
  BY DEF Slice, ChainInv, BooksAreOfResidents
<1>8. \A j \in Ids : IsLive(j)' => IsLive(j)
  BY <1>6, <1>7 DEF IsLive
<1>9. LiveIsIntact'
  <2>1. \A j \in Ids : IsLive(j)' => j \notin spoilt'
    BY <1>0, <1>8, <1>1 DEF ChainInv, LiveIsIntact, Slice
  <2>2. IsLive(one)' => one \notin spoilt'
    <3>1. Lineage(one)' = Lineage(i) \cup {one}
      BY <1>5 DEF Lineage
    <3>2. IsLive(one)' => IsLive(i)
      BY <3>1, <1>1, <1>7 DEF IsLive
    <3>3. one \in spoilt' => i \in spoilt
      BY <1>0, <1>1, <1>7 DEF Slice
    <3> QED BY <3>2, <3>3 DEF ChainInv, LiveIsIntact
  <2> QED BY <2>1, <2>2, <1>5 DEF LiveIsIntact
<1>10. BooksAreOfResidents'
  <2>1. spoilt' \subseteq Ids \cup {one}
    BY <1>0, <1>7 DEF Slice
  <2> QED BY <2>1, <1>5, <1>7 DEF BooksAreOfResidents
<1> QED BY <1>5, <1>8, <1>9, <1>10 DEF ChainInv, BooksKept

\* Steps that make no Resident.
LEMMA UnmadeStep ==
  ASSUME ChainInv, NEW K, NEW S, UNCHANGED resident, K \subseteq Ids, S \subseteq Ids,
         held' \subseteq Ids, live' = K, spoilt' = spoilt \cup S,
         \A i \in Ids : Lineage(i) \cap K # {} => IsLive(i) /\ i \notin S
  PROVE  BooksKept
<1>1. ResidentsNest'
  BY DEF ChainInv, ResidentsNest, Ids, Lineage, Root, Rows, End
<1>2. Ids' = Ids /\ \A i \in Ids : Lineage(i)' = Lineage(i)
  BY DEF Ids, Lineage
<1>3. \A i \in Ids : IsLive(i)' => IsLive(i) /\ i \notin S
  BY <1>2 DEF IsLive
<1> QED
  BY <1>1, <1>2, <1>3 DEF BooksKept, ChainInv, BooksAreOfResidents, LiveIsIntact

LEMMA HoldKeeps ==
  ASSUME ChainInv, NEW i \in Ids, Hold(i) PROVE BooksKept
<1>1. \A j \in Ids : Lineage(j) \cap (live \cup {i}) # {} => IsLive(j)
  BY DEF Hold, IsLive, ChainInv, ResidentsNest
<1> DEFINE none == {}
<1>2. /\ UNCHANGED resident /\ live \cup {i} \subseteq Ids /\ held' \subseteq Ids
      /\ live' = live \cup {i} /\ spoilt' = spoilt \cup none /\ none \subseteq Ids
  BY DEF Hold, ChainInv, BooksAreOfResidents
<1>3. \A j \in Ids : j \notin none
  OBVIOUS
<1> HIDE DEF none
<1> QED BY <1>1, <1>2, <1>3, UnmadeStep

LEMMA ReleaseKeeps ==
  ASSUME ChainInv, NEW i \in Ids, Release(i) PROVE BooksKept
<1>1. \A j \in Ids : Lineage(j) \cap live # {} => IsLive(j)
  BY DEF IsLive
<1> DEFINE none == {}
<1>2. /\ UNCHANGED resident /\ live \subseteq Ids /\ held' \subseteq Ids
      /\ live' = live /\ spoilt' = spoilt \cup none /\ none \subseteq Ids
  BY DEF Release, ChainInv, BooksAreOfResidents
<1>3. \A j \in Ids : j \notin none
  OBVIOUS
<1> HIDE DEF none
<1> QED BY <1>1, <1>2, <1>3, UnmadeStep

LEMMA ReserveKeeps ==
  ASSUME ChainInv, NEW rows, NEW l, Reserve(rows, l) PROVE BooksKept
<1> DEFINE new == [id \in {NewId} |-> Whole(Region(FirstFree(rows), rows), l, id)]
<1>1. NewId \notin Ids
  BY NewIdIsUnmade DEF Reserve
<1>2. DOMAIN new = {NewId} /\ \A j \in DOMAIN new : new[j].lineage = {j}
  BY DEF Whole
<1>3. resident' = Made(new)
  BY DEF Reserve
<1>4. live' = live \cup {NewId} /\ held' = held \cup {NewId} /\ spoilt' = spoilt \cup {}
  BY DEF Reserve
<1>5. \A j \in Ids : Lineage(j) \cap live # {} => IsLive(j)
  BY DEF IsLive
<1>6. live \subseteq Ids /\ held \subseteq Ids
  BY DEF ChainInv, BooksAreOfResidents
<1> HIDE DEF new
<1>7. DOMAIN new \cap Ids = {} /\ held' \subseteq Ids \cup DOMAIN new /\ live' = live \cup DOMAIN new
  BY <1>1, <1>2, <1>4, <1>6
<1>8. ChainInv' /\ \A i \in Ids : IsLive(i)' => IsLive(i)
  BY <1>2, <1>3, <1>4, <1>5, <1>6, <1>7, BooksStep
<1> QED BY <1>8 DEF BooksKept

LEMMA WriteInPlaceKeeps ==
  ASSUME ChainInv, NEW i \in Ids, WriteInPlace(i) PROVE BooksKept
<1> DEFINE targets == [n \in {1} |-> i]
           written == [n \in {1} |-> resident[i]]
<1>1. \A n \in DOMAIN targets : targets[n] \in Ids /\ IsLive(targets[n])
  BY DEF WriteInPlace
<1>2. {1} \in SUBSET DOMAIN written
  OBVIOUS
<1>3. /\ live' = Kept(targets, written) /\ spoilt' = spoilt \cup Spoils(targets, written, {1})
      /\ UNCHANGED resident /\ held' \subseteq Ids
  BY DEF WriteInPlace, ChainInv, BooksAreOfResidents
<1> HIDE DEF targets, written
<1> QED BY <1>1, <1>2, <1>3, KeptIsIntact, UnmadeStep DEF ChainInv

LEMMA WriteRowsKeeps ==
  ASSUME ChainInv, NEW base, NEW rows, NEW l, WriteRows(base, rows, l) PROVE BooksKept
<1> DEFINE written == [n \in {1} |-> Region(base, rows)]
           new == [id \in {NewId} |-> Whole(written[1], l, id)]
           none == <<>>
<1>1. NewId \notin Ids
  BY NewIdIsUnmade DEF WriteRows
<1>2. DOMAIN new = {NewId} /\ \A j \in DOMAIN new : new[j].lineage = {j}
  BY DEF Whole
<1>3. DOMAIN none = {} /\ {1} \in SUBSET DOMAIN written
  OBVIOUS
<1>4. /\ resident' = Made(new) /\ live' = Kept(none, written) \cup {NewId}
      /\ spoilt' = spoilt \cup Spoils(none, written, {1}) /\ held' \subseteq Ids
  BY DEF WriteRows, ChainInv, BooksAreOfResidents
<1> HIDE DEF written, new, none
<1>5. /\ Kept(none, written) \subseteq Ids /\ Spoils(none, written, {1}) \subseteq Ids
      /\ \A i \in Ids : Lineage(i) \cap Kept(none, written) # {} =>
           IsLive(i) /\ i \notin Spoils(none, written, {1})
  BY <1>3, KeptIsIntact DEF ChainInv
<1> QED BY <1>1, <1>2, <1>4, <1>5, BooksStep DEF BooksKept

\* The outputs of a step are new whole tensors.
LEMMA NewOutputsAreWhole ==
  ASSUME NEW k, NEW placed, NEW N, \E f \in [N -> Unmade] : IsInjective(f)
  PROVE  /\ DOMAIN NewOutputs(k, placed, N) \cap Ids = {}
         /\ \A j \in DOMAIN NewOutputs(k, placed, N) : NewOutputs(k, placed, N)[j].lineage = {j}
<1> DEFINE id == CHOOSE f \in [N -> Unmade] : IsInjective(f)
<1>1. id \in [N -> Unmade]
  OBVIOUS
<1>2. DOMAIN NewOutputs(k, placed, N) = {id[n] : n \in N}
  BY DEF NewOutputs
<1>3. \A j \in {id[n] : n \in N} : NewOutputs(k, placed, N)[j].lineage = {j}
  BY DEF NewOutputs, Whole
<1> HIDE DEF id
<1> QED BY <1>1, <1>2, <1>3 DEF Unmade

\* What a step spoils is no more than its tensors, with their spills, cover.
LEMMA StepSpoilsLess ==
  ASSUME NEW targets, NEW written, NEW placed, NEW checked, NEW done
  PROVE  StepSpoils(targets, written, placed, checked, done) \subseteq Spoils(targets, written, done)
BY DEF StepSpoils, Spoils

LEMMA StepKeeps ==
  ASSUME ChainInv, NEW k, NEW O, NEW inputs, NEW targets \in [O -> Ids], NEW at,
         Step(k, inputs, targets, at)
  PROVE  BooksKept
<1>1. PICK written, made, done, spoils :
        /\ held' = held /\ done \in SUBSET DOMAIN written
        /\ DOMAIN made \cap Ids = {} /\ \A j \in DOMAIN made : made[j].lineage = {j}
        /\ \/ /\ resident' = Made(made) /\ live' = Kept(targets, written) \cup DOMAIN made
           \/ UNCHANGED resident /\ live' = Kept(targets, written)
        /\ spoilt' = spoilt \cup spoils /\ spoils \subseteq Spoils(targets, written, done)
  <2> DEFINE pins == [n \in DOMAIN k.pins \cup DOMAIN inputs \cup DOMAIN targets \cup DOMAIN at |->
                        IF n \in DOMAIN inputs THEN resident[inputs[n]].base
                        ELSE IF n \in DOMAIN targets THEN resident[targets[n]].base
                        ELSE IF n \in DOMAIN at THEN at[n] ELSE k.pins[n]]
             reserved == Reserved(inputs, targets, SpillRows(k))
             placed == Place(k.tensors, pins, reserved, Avoid(reserved, targets, SpillRows(k)))
             written == Written(k, placed, inputs)
             new == OfRole(k, "output") \ DOMAIN targets
             made == NewOutputs(k, placed, new)
             none == <<>>
             checked == SpillsAreFree(k.tensors, placed, reserved, SpillRows(k))
             runs == k.staged \/ checked
  <2>1. /\ held' = held
        /\ \/ /\ \E f \in [new -> Unmade] : IsInjective(f)
              /\ resident' = Made(made)
              /\ live' = Kept(targets, written) \cup DOMAIN made
              /\ spoilt' = spoilt \cup StepSpoils(targets, written, placed, checked, DOMAIN written)
           \/ /\ live' = Kept(targets, written)
              /\ \E done \in IF runs THEN SUBSET DOMAIN written ELSE {{}} :
                   spoilt' = spoilt \cup StepSpoils(targets, written, placed, checked, done)
              /\ UNCHANGED resident
    BY DEF Step
  <2>2. DOMAIN none = {}
    OBVIOUS
  <2>3. (\E f \in [new -> Unmade] : IsInjective(f)) =>
          DOMAIN made \cap Ids = {} /\ \A j \in DOMAIN made : made[j].lineage = {j}
    <3> HIDE DEF pins, reserved, placed, new
    <3> QED BY NewOutputsAreWhole
  <2> HIDE DEF pins, reserved, placed, written, new, made, none, checked, runs
  <2>4. CASE /\ \E f \in [new -> Unmade] : IsInjective(f)
             /\ resident' = Made(made)
             /\ live' = Kept(targets, written) \cup DOMAIN made
             /\ spoilt' = spoilt \cup StepSpoils(targets, written, placed, checked, DOMAIN written)
    <3>1. PICK done \in SUBSET DOMAIN written : done = DOMAIN written
      OBVIOUS
    <3>2. StepSpoils(targets, written, placed, checked, done) \subseteq Spoils(targets, written, done)
      BY StepSpoilsLess
    <3> WITNESS written, made, done, StepSpoils(targets, written, placed, checked, done)
    <3> QED BY <2>1, <2>3, <2>4, <3>1, <3>2
  <2>5. CASE /\ live' = Kept(targets, written)
             /\ \E done \in IF runs THEN SUBSET DOMAIN written ELSE {{}} :
                  spoilt' = spoilt \cup StepSpoils(targets, written, placed, checked, done)
             /\ UNCHANGED resident
    <3>1. PICK done \in SUBSET DOMAIN written :
            spoilt' = spoilt \cup StepSpoils(targets, written, placed, checked, done)
      BY <2>5
    <3>2. DOMAIN none \cap Ids = {} /\ \A j \in DOMAIN none : none[j].lineage = {j}
      BY <2>2
    <3>3. StepSpoils(targets, written, placed, checked, done) \subseteq Spoils(targets, written, done)
      BY StepSpoilsLess
    <3> WITNESS written, none, done, StepSpoils(targets, written, placed, checked, done)
    <3> QED BY <2>1, <2>5, <3>1, <3>2, <3>3
  <2> QED BY <2>1, <2>4, <2>5
<1>2. \A n \in DOMAIN targets : targets[n] \in Ids /\ IsLive(targets[n])
  BY DEF Step, Fits
<1>3. /\ Kept(targets, written) \subseteq Ids /\ spoils \subseteq Ids
      /\ \A i \in Ids : Lineage(i) \cap Kept(targets, written) # {} =>
           IsLive(i) /\ i \notin spoils
  <2>1. ResidentsNest /\ BooksAreOfResidents /\ done \in SUBSET DOMAIN written
    BY <1>1 DEF ChainInv
  <2> QED BY <1>1, <1>2, <2>1, KeptIsIntact
<1>4. held' \subseteq Ids
  BY <1>1 DEF ChainInv, BooksAreOfResidents
<1>5. CASE UNCHANGED resident /\ live' = Kept(targets, written)
  BY <1>1, <1>3, <1>4, <1>5, UnmadeStep
<1>6. CASE resident' = Made(made) /\ live' = Kept(targets, written) \cup DOMAIN made
  BY <1>1, <1>3, <1>4, <1>6, BooksStep DEF BooksKept
<1> QED BY <1>1, <1>5, <1>6

LEMMA NextKeeps ==
  ASSUME ChainInv, [Next]_vars PROVE BooksKept
<1>1. CASE \E i \in Ids : Hold(i) \/ Release(i) \/ WriteInPlace(i)
  BY <1>1, HoldKeeps, ReleaseKeeps, WriteInPlaceKeeps
<1>2. CASE \E i \in Ids, base \in 0..Capacity - 1, rows \in 1..Capacity : Slice(i, base, rows)
  BY <1>2, SliceKeeps
<1>3. CASE \E rows \in 1..Capacity, l \in Layouts :
             Reserve(rows, l) \/ \E base \in 0..Capacity - 1 : WriteRows(base, rows, l)
  BY <1>3, ReserveKeeps, WriteRowsKeeps
<1>4. CASE Run
  BY <1>4, StepKeeps DEF Run
<1>5. CASE UNCHANGED vars
  <2>1. \A j \in Ids : Lineage(j) \cap live # {} => IsLive(j)
    BY DEF IsLive
  <2> DEFINE none == {}
  <2>2. /\ UNCHANGED resident /\ live \subseteq Ids /\ held' \subseteq Ids
        /\ live' = live /\ spoilt' = spoilt \cup none /\ none \subseteq Ids
    BY <1>5 DEF vars, ChainInv, BooksAreOfResidents
  <2>3. \A j \in Ids : j \notin none
    OBVIOUS
  <2> HIDE DEF none
  <2> QED BY <2>1, <2>2, <2>3, UnmadeStep
<1> QED BY <1>1, <1>2, <1>3, <1>4, <1>5 DEF Next

LEMMA InitKeeps == Init => ChainInv
<1>1. Init => Ids = {}
  BY DEF Init, Ids
<1> QED
  BY <1>1 DEF Init, ChainInv, ResidentsNest, BooksAreOfResidents, LiveIsIntact

LEMMA ChainIsInv == Spec => []ChainInv
BY InitKeeps, NextKeeps, PTL DEF Spec, BooksKept

-----------------------------------------------------------------------------
(* Theorems *)

\* Whatever the XMEM, the kernels and the calls, a live resident's rows hold what
\* its own tensor's writers left (Chain._forget_written, Chain._is_live).
THEOREM LiveStaysIntact == Spec => []LiveIsIntact
BY ChainIsInv, PTL DEF ChainInv

\* No call brings a stale resident back (Chain._forget_written, Chain.hold).
THEOREM StaleNeverReturns == Spec => StaleStaysStale
<1>1. ChainInv /\ [Next]_vars => [\A i \in Ids : IsLive(i)' => IsLive(i)]_vars
  BY NextKeeps DEF BooksKept
<1> QED BY <1>1, ChainIsInv, PTL DEF Spec, StaleStaysStale

-----------------------------------------------------------------------------
(* Loops, by induction over the naturals *)

\* Every set of naturals has a least one, since < is well-founded on them.
LEMMA LeastNatural ==
  ASSUME NEW S \in SUBSET Nat, S # {}
  PROVE  \E m \in S : \A n \in S : m <= n
<1> DEFINE Less == {p \in Nat \X Nat : p[1] < p[2]}
<1>1. IsWellFoundedOn(Less, Nat)
  BY NatLessThanWellFounded DEF OpToRel
<1> HIDE DEF Less
<1>2. PICK m \in S : \A n \in S : ~ (<<n, m>> \in Less)
  BY <1>1, WFMin
<1>3. \A n \in S : ~ (n < m)
  BY <1>2 DEF Less
<1> QED BY <1>3

\* Induction over the naturals, on a set instead of a predicate: a loop written as a
\* recursive function is unfolded with it, pass by pass.
LEMMA Induction ==
  ASSUME NEW S, 0 \in S, \A n \in Nat : n \in S => n + 1 \in S
  PROVE  Nat \subseteq S
<1> SUFFICES ASSUME Nat \ S # {} PROVE FALSE
  OBVIOUS
<1>1. PICK m \in Nat \ S : \A n \in Nat \ S : m <= n
  BY LeastNatural
<1>2. m # 0 /\ m - 1 \in Nat /\ m - 1 \in S
  BY <1>1
<1> QED BY <1>2, <1>1

-----------------------------------------------------------------------------
(* First fit, and the placement of a kernel *)

\* Max is the greatest element where there is one.
LEMMA MaxOfBounded ==
  ASSUME NEW S \in SUBSET Nat, S # {}, NEW b \in Nat, \A y \in S : y <= b
  PROVE  /\ Max(S) \in S
         /\ \A y \in S : y <= Max(S)
<1> DEFINE above == {n \in Nat : \A y \in S : y <= n}
<1>1. PICK m \in above : \A n \in above : m <= n
  <2>1. above \in SUBSET Nat /\ above # {}
    OBVIOUS
  <2> HIDE DEF above
  <2> QED BY <2>1, LeastNatural
<1>2. m \in S
  <2> SUFFICES ASSUME m \notin S PROVE FALSE
    OBVIOUS
  <2>1. \A y \in S : y <= m - 1
    BY <1>1
  <2>2. m - 1 \in Nat
    <3>1. PICK y \in S : y \in Nat /\ y <= m - 1
      BY <2>1
    <3> QED BY <1>1, <3>1
  <2> QED BY <1>1, <2>1, <2>2
<1>3. \A y \in S : m >= y
  BY <1>1
<1> QED BY <1>2, <1>3 DEF Max

\* A region of one row of XMEM or more.
IsRegion(r) == r.base \in Nat /\ r.rows \in Nat \ {0}

\* Two regions share a row when each starts before the other ends.
LEMMA Meet ==
  ASSUME NEW r, NEW q, IsRegion(r), IsRegion(q)
  PROVE  Overlap(r, q) <=> r.base < End(q) /\ q.base < End(r)
<1>1. ASSUME r.base < End(q), q.base < End(r) PROVE Overlap(r, q)
  <2>1. CASE r.base <= q.base
    <3>1. q.base \in Rows(r) \cap Rows(q)
      BY <1>1, <2>1 DEF IsRegion, Rows, End
    <3> QED BY <3>1 DEF Overlap
  <2>2. CASE q.base <= r.base
    <3>1. r.base \in Rows(r) \cap Rows(q)
      BY <1>1, <2>2 DEF IsRegion, Rows, End
    <3> QED BY <3>1 DEF Overlap
  <2> QED BY <2>1, <2>2 DEF IsRegion
<1>2. ASSUME Overlap(r, q) PROVE r.base < End(q) /\ q.base < End(r)
  BY <1>2 DEF IsRegion, Rows, End, Overlap
<1> QED BY <1>1, <1>2

\* For every set of regions, in any order and overlapping or not, the row _first_fit
\* answers is free for the rows asked, and no lower row is ("The lowest row where rows
\* free rows start").  By induction over the rows the scan is past: what starts below is
\* behind the candidate, or begins after the rows asked, and below the candidate no row
\* will do.
THEOREM FirstFitIsLowest ==
  ASSUME NEW taken, NEW rows \in Nat \ {0}, \A t \in taken : IsRegion(t),
         NEW b \in Nat, \A t \in taken : End(t) <= b
  PROVE  LET fit == FirstFit(taken, rows) IN
         /\ fit \in Nat
         /\ \A t \in taken : t.base <= Capacity => ~Overlap(Region(fit, rows), t)
         /\ \A low \in 0..fit - 1 : \E t \in taken : Overlap(Region(low, rows), t)
<1> DEFINE here(p) == {End(r) : r \in {t \in taken : t.base = p - 1}}
           next(base, p) == IF base + rows <= p - 1 THEN base ELSE Max(here(p) \cup {base})
           Scan(g, n) == g = [p \in 0..n |-> IF p = 0 THEN 0 ELSE next(g[p - 1], p)]
           N == Capacity + 1
           past == CHOOSE g : Scan(g, N)
<1>1. FirstFit(taken, rows) = past[N]
  BY DEF FirstFit
<1>2. \A n \in Nat : \E g : Scan(g, n)
  <2> DEFINE S == {n \in Nat : \E g : Scan(g, n)}
  <2> HIDE DEF next
  <2>1. 0 \in S
    <3>1. Scan([p \in 0..0 |-> 0], 0)
      OBVIOUS
    <3> QED BY <3>1
  <2>2. ASSUME NEW n \in Nat, n \in S PROVE n + 1 \in S
    <3>1. PICK g : Scan(g, n)
      BY <2>2
    <3> DEFINE h == [p \in 0..n + 1 |-> IF p = n + 1 THEN next(g[n], n + 1) ELSE g[p]]
    <3>2. \A p \in 0..n + 1 : h[p] = IF p = 0 THEN 0 ELSE next(h[p - 1], p)
      BY <3>1
    <3>3. Scan(h, n + 1)
      BY <3>2
    <3> HIDE DEF h, Scan
    <3> QED BY <3>3
  <2> HIDE DEF S
  <2>3. Nat \subseteq S
    BY <2>1, <2>2, Induction
  <2> QED BY <2>3 DEF S
<1>3. N \in Nat /\ Scan(past, N)
  <2>1. N \in Nat
    BY RegionsAssumption
  <2> HIDE DEF Scan, N
  <2> QED BY <1>2, <2>1
<1>4. past[0] = 0 /\ \A p \in 1..N : past[p] = next(past[p - 1], p)
  <2> HIDE DEF past, next
  <2> QED BY <1>3
<1> DEFINE Upto(p) ==
      /\ past[p] \in Nat
      /\ \A t \in taken : t.base < p => End(t) <= past[p] \/ past[p] + rows <= t.base
      /\ \A low \in 0..past[p] - 1 : \E t \in taken : low < End(t) /\ t.base < low + rows
<1> HIDE DEF past, N, Scan
<1>5. ASSUME NEW p \in 1..N, Upto(p - 1) PROVE Upto(p)
  <2> DEFINE base == past[p - 1]
  <2>0. p \in Nat /\ p - 1 \in Nat /\ base \in Nat
    BY <1>3, <1>5
  <2>1. CASE base + rows <= p - 1
    <3>1. past[p] = base
      BY <1>4, <2>1
    <3>2. \A t \in taken : t.base < p => t.base < p - 1 \/ t.base = p - 1
      BY <2>0 DEF IsRegion
    <3> QED BY <1>5, <2>0, <2>1, <3>1, <3>2 DEF IsRegion, End
  <2>2. CASE ~(base + rows <= p - 1)
    <3> DEFINE ends == here(p) \cup {base}
    <3>1. past[p] = Max(ends)
      BY <1>4, <2>2
    <3>2. /\ ends \in SUBSET Nat /\ ends # {}
          /\ \E bb \in Nat : \A y \in ends : y <= bb
      <4>1. ends \in SUBSET Nat
        BY <2>0 DEF IsRegion, End
      <4>2. base <= b \/ b <= base
        BY <2>0
      <4>3. CASE base <= b
        <5>1. \A y \in ends : y <= b
          BY <4>3
        <5> QED BY <4>1, <5>1
      <4>4. CASE b <= base
        <5>1. \A y \in ends : y <= base
          BY <4>4, <4>1, <2>0
        <5> QED BY <4>1, <5>1, <2>0
      <4> QED BY <4>2, <4>3, <4>4
    <3>3. past[p] \in ends /\ \A y \in ends : y <= past[p]
      <4> HIDE DEF ends
      <4> QED BY <3>1, <3>2, MaxOfBounded
    <3>4. past[p] \in Nat /\ base <= past[p]
      BY <3>2, <3>3
    <3>5. ASSUME NEW t \in taken, t.base < p
          PROVE  End(t) <= past[p] \/ past[p] + rows <= t.base
      <4>1. CASE t.base = p - 1
        BY <3>3, <4>1
      <4>2. CASE t.base < p - 1
        <5>1. End(t) <= base
          BY <1>5, <2>2, <2>0, <4>2 DEF IsRegion
        <5> QED BY <5>1, <3>4, <2>0 DEF IsRegion, End
      <4> QED BY <4>1, <4>2, <3>5, <2>0 DEF IsRegion
    <3>6. ASSUME NEW low \in 0..past[p] - 1
          PROVE  \E t \in taken : low < End(t) /\ t.base < low + rows
      <4>1. CASE low < base
        BY <1>5, <4>1, <3>4, <2>0
      <4>2. CASE base <= low
        <5>1. past[p] # base
          BY <4>2, <3>4, <3>6
        <5>2. PICK t \in taken : t.base = p - 1 /\ End(t) = past[p]
          BY <5>1, <3>3
        <5> QED BY <5>2, <4>2, <3>4, <3>6, <2>0, <2>2
      <4> QED BY <4>1, <4>2, <2>0, <3>4
    <3> QED BY <3>4, <3>5, <3>6
  <2> QED BY <2>1, <2>2
<1>6. Upto(0)
  BY <1>4 DEF IsRegion
<1>7. Upto(N)
  <2> DEFINE S == {p \in Nat : p <= N => Upto(p)}
  <2> HIDE DEF Upto
  <2>1. 0 \in S
    BY <1>6
  <2>2. ASSUME NEW n \in Nat, n \in S PROVE n + 1 \in S
    <3>1. CASE n + 1 <= N
      <4>1. n + 1 \in 1..N /\ n <= N
        BY <3>1, <1>3
      <4>2. Upto((n + 1) - 1)
        BY <4>1, <2>2
      <4> QED BY <4>1, <4>2, <1>5
    <3> QED BY <3>1
  <2> HIDE DEF S
  <2>3. N \in S
    BY <2>1, <2>2, <1>3, Induction
  <2> QED BY <2>3, <1>3 DEF S
<1> DEFINE fit == past[N]
<1>8. /\ fit \in Nat
      /\ \A t \in taken : t.base <= Capacity => End(t) <= fit \/ fit + rows <= t.base
      /\ \A low \in 0..fit - 1 : \E t \in taken : low < End(t) /\ t.base < low + rows
  BY <1>7, RegionsAssumption DEF N, IsRegion
<1> HIDE DEF fit
<1>9. \A low \in Nat : IsRegion(Region(low, rows)) /\ End(Region(low, rows)) = low + rows
                       /\ Region(low, rows).base = low
  BY DEF IsRegion, Region, End
<1>10. \A t \in taken : t.base <= Capacity => ~Overlap(Region(fit, rows), t)
  <2> SUFFICES ASSUME NEW t \in taken, t.base <= Capacity
               PROVE  ~Overlap(Region(fit, rows), t)
    OBVIOUS
  <2>1. Overlap(Region(fit, rows), t) <=> fit < End(t) /\ t.base < fit + rows
    BY <1>8, <1>9, Meet
  <2>2. End(t) \in Nat /\ t.base \in Nat
    BY DEF IsRegion, End
  <2> QED BY <1>8, <2>1, <2>2
<1>11. \A low \in 0..fit - 1 : \E t \in taken : Overlap(Region(low, rows), t)
  <2> SUFFICES ASSUME NEW low \in 0..fit - 1
               PROVE  \E t \in taken : Overlap(Region(low, rows), t)
    OBVIOUS
  <2>1. low \in Nat
    BY <1>8
  <2>2. PICK t \in taken : low < End(t) /\ t.base < low + rows
    BY <1>8
  <2> QED BY <2>1, <2>2, <1>9, Meet
<1> QED BY <1>1, <1>8, <1>10, <1>11 DEF fit

\* What place promises of the tensors it placed.
PlacedApart(tensors, pins, reserved, placed) ==
  /\ DOMAIN pins \subseteq DOMAIN placed /\ DOMAIN placed = DOMAIN tensors
  /\ \A i \in DOMAIN placed :
       /\ IsRegion(placed[i]) /\ End(placed[i]) <= Capacity
       /\ placed[i].rows = tensors[i].rows
       /\ i \in DOMAIN pins => placed[i].base = pins[i]
       /\ Disjoint(placed[i], reserved)
       /\ \A j \in DOMAIN placed \ {i} : ~Overlap(placed[i], placed[j])

\* For every manifest, pins, reserved rows and rows to avoid, when place does not refuse,
\* the regions it gives are of XMEM, share no row with each other or with a reserved row,
\* and are where they were pinned: the runner writes them without looking again.  By
\* induction over the tensors placed.
THEOREM PlacementsAreApart ==
  ASSUME NEW tensors, Len(tensors) \in Nat, \A i \in DOMAIN tensors : tensors[i].rows \in Nat \ {0},
         NEW pins, DOMAIN pins \subseteq DOMAIN tensors, \A i \in DOMAIN pins : pins[i] \in Nat,
         NEW reserved, \A q \in reserved : IsRegion(q) /\ End(q) <= Capacity,
         NEW avoid, NEW far \in Nat, \A q \in avoid : IsRegion(q) /\ End(q) <= far,
         Place(tensors, pins, reserved, avoid) # Refused
  PROVE  PlacedApart(tensors, pins, reserved, Place(tensors, pins, reserved, avoid))
<1> DEFINE pinned == [i \in DOMAIN pins |-> Region(pins[i], tensors[i].rows)]
           order == PlacementOrder(tensors)
           round(taken) == {taken[j] : j \in DOMAIN taken} \cup reserved \cup avoid
           fit(taken, i) ==
             Region(FirstFit(round(taken), tensors[i].rows), tensors[i].rows)
           put(taken, i) ==
             [j \in DOMAIN taken \cup {i} |-> IF j = i THEN fit(taken, j) ELSE taken[j]]
           next(taken, p) == IF order[p] \in DOMAIN tensors \ DOMAIN pins
                             THEN put(taken, order[p]) ELSE taken
           Rounds(g, n) == g = [p \in 0..n |-> IF p = 0 THEN pinned ELSE next(g[p - 1], p)]
           N == Len(tensors)
           after == CHOOSE g : Rounds(g, N)
           placed == after[N]
<1>1. /\ \A i \in DOMAIN pins :
           /\ End(pinned[i]) <= Capacity
           /\ Disjoint(pinned[i], reserved \cup {pinned[j] : j \in DOMAIN pins \ {i}})
      /\ DOMAIN placed = DOMAIN tensors
      /\ \A i \in DOMAIN tensors : End(placed[i]) <= Capacity
      /\ Place(tensors, pins, reserved, avoid) = placed
  BY Zenon DEF Place
<1>2. \A n \in Nat : \E g : Rounds(g, n)
  <2> DEFINE S == {n \in Nat : \E g : Rounds(g, n)}
  <2> HIDE DEF next, pinned
  <2>1. 0 \in S
    <3>1. Rounds([p \in 0..0 |-> pinned], 0)
      OBVIOUS
    <3> QED BY <3>1
  <2>2. ASSUME NEW n \in Nat, n \in S PROVE n + 1 \in S
    <3>1. PICK g : Rounds(g, n)
      BY <2>2
    <3> DEFINE h == [p \in 0..n + 1 |-> IF p = n + 1 THEN next(g[n], n + 1) ELSE g[p]]
    <3>2. \A p \in 0..n + 1 : h[p] = IF p = 0 THEN pinned ELSE next(h[p - 1], p)
      BY <3>1
    <3>3. Rounds(h, n + 1)
      BY <3>2
    <3> HIDE DEF h, Rounds
    <3> QED BY <3>3
  <2> HIDE DEF S
  <2>3. Nat \subseteq S
    BY <2>1, <2>2, Induction
  <2> QED BY <2>3 DEF S
<1>3. N \in Nat /\ Rounds(after, N)
  <2> HIDE DEF Rounds
  <2> QED BY <1>2
<1>4. after[0] = pinned /\ \A p \in 1..N : after[p] = next(after[p - 1], p)
  <2> HIDE DEF after, next, pinned
  <2> QED BY <1>3
<1> DEFINE Low(r) == r.base <= Capacity
           Apart(taken) ==
             /\ DOMAIN pins \subseteq DOMAIN taken /\ DOMAIN taken \subseteq DOMAIN tensors
             /\ \E b \in Nat : \A i \in DOMAIN taken : End(taken[i]) <= b
             /\ \A i \in DOMAIN taken :
                  /\ IsRegion(taken[i]) /\ taken[i].rows = tensors[i].rows
                  /\ i \in DOMAIN pins => taken[i].base = pins[i]
                  /\ Disjoint(taken[i], reserved)
                  /\ \A j \in DOMAIN taken \ {i} :
                       Low(taken[i]) /\ Low(taken[j]) => ~Overlap(taken[i], taken[j])
<1> HIDE DEF after, Rounds
<1>5. Apart(pinned)
  <2>1. \A i \in DOMAIN pins :
          /\ IsRegion(pinned[i]) /\ pinned[i].rows = tensors[i].rows /\ pinned[i].base = pins[i]
          /\ End(pinned[i]) <= Capacity
    BY <1>1 DEF IsRegion, Region
  <2>2. \A i \in DOMAIN pins : Disjoint(pinned[i], reserved)
    BY <1>1 DEF Disjoint
  <2>3. \A i \in DOMAIN pins : \A j \in DOMAIN pins \ {i} : ~Overlap(pinned[i], pinned[j])
    BY <1>1 DEF Disjoint
  <2>4. DOMAIN pinned = DOMAIN pins /\ Capacity \in Nat
    BY RegionsAssumption
  <2> HIDE DEF pinned
  <2> QED BY <2>1, <2>2, <2>3, <2>4
<1>6. ASSUME NEW taken, Apart(taken), NEW i \in DOMAIN tensors \ DOMAIN pins
      PROVE  Apart(put(taken, i))
  <2> DEFINE new == fit(taken, i)
             T == round(taken)
  <2>1. PICK b \in Nat : \A j \in DOMAIN taken : End(taken[j]) <= b
    BY <1>6
  <2>2. \A t \in T : IsRegion(t)
    BY <1>6
  <2>3. b + Capacity + far \in Nat /\ \A t \in T : End(t) <= b + Capacity + far
    <3>1. Capacity \in Nat
      BY RegionsAssumption
    <3>2. \A t \in T : End(t) \in Nat
      BY <2>2 DEF IsRegion, End
    <3>3. \A t \in T : End(t) <= b \/ End(t) <= Capacity \/ End(t) <= far
      BY <2>1
    <3> HIDE DEF T
    <3> QED BY <3>1, <3>2, <3>3
  <2>4. /\ FirstFit(T, tensors[i].rows) \in Nat
        /\ \A t \in T : t.base <= Capacity => ~Overlap(Region(FirstFit(T, tensors[i].rows), tensors[i].rows), t)
    <3> HIDE DEF T
    <3> QED BY <2>2, <2>3, FirstFitIsLowest
  <2>5. /\ IsRegion(new) /\ new.rows = tensors[i].rows
        /\ \A t \in T : Low(t) => ~Overlap(new, t)
    BY <2>4 DEF IsRegion, Region
  <2>6. \A q \in reserved : Low(q)
    BY RegionsAssumption DEF IsRegion, End
  <2>7. \A q \in reserved : ~Overlap(new, q)
    BY <2>5, <2>6
  <2>8. \A j \in DOMAIN taken : Low(taken[j]) => ~Overlap(new, taken[j]) /\ ~Overlap(taken[j], new)
    BY <2>5 DEF Overlap
  <2> HIDE DEF new, T
  <2>9. /\ DOMAIN put(taken, i) = DOMAIN taken \cup {i} /\ put(taken, i)[i] = new
        /\ \A j \in DOMAIN taken \ {i} : put(taken, i)[j] = taken[j]
    BY DEF new
  <2> DEFINE then == put(taken, i)
  <2>10. \E bb \in Nat : \A j \in DOMAIN then : End(then[j]) <= bb
    <3>1. End(new) \in Nat
      BY <2>5 DEF IsRegion, End
    <3>2. \A j \in DOMAIN taken : End(taken[j]) \in Nat
      BY <1>6 DEF IsRegion, End
    <3> HIDE DEF then
    <3>3. \A j \in DOMAIN then : then[j] = new \/ \E m \in DOMAIN taken : then[j] = taken[m]
      BY <2>9 DEF then
    <3>4. ASSUME NEW j \in DOMAIN then PROVE End(then[j]) <= b + End(new)
      <4>1. CASE then[j] = new
        <5>1. End(then[j]) = End(new)
          BY <4>1
        <5> QED BY <5>1, <3>1
      <4>2. CASE \E m \in DOMAIN taken : then[j] = taken[m]
        <5>1. PICK m \in DOMAIN taken : then[j] = taken[m]
          BY <4>2
        <5>2. End(then[j]) = End(taken[m])
          BY <5>1
        <5> QED BY <5>2, <3>1, <3>2, <2>1
      <4> QED BY <4>1, <4>2, <3>3
    <3>5. b + End(new) \in Nat
      BY <3>1
    <3> QED BY <3>4, <3>5
  <2>11. ASSUME NEW m \in DOMAIN then
         PROVE  /\ IsRegion(then[m]) /\ then[m].rows = tensors[m].rows
                /\ m \in DOMAIN pins => then[m].base = pins[m]
                /\ Disjoint(then[m], reserved)
                /\ \A j \in DOMAIN then \ {m} :
                     Low(then[m]) /\ Low(then[j]) => ~Overlap(then[m], then[j])
    <3> HIDE DEF then
    <3>1. CASE m = i
      BY <3>1, <2>5, <2>7, <2>8, <2>9 DEF then, Disjoint
    <3>2. CASE m \in DOMAIN taken \ {i}
      <4>1. then[m] = taken[m]
        BY <3>2, <2>9 DEF then
      <4>2. ASSUME NEW j \in DOMAIN then \ {m}, Low(then[m]), Low(then[j])
            PROVE  ~Overlap(then[m], then[j])
        <5>1. CASE j = i
          BY <5>1, <4>1, <4>2, <2>8, <2>9, <3>2 DEF then
        <5>2. CASE j \in DOMAIN taken \ {i}
          <6>1. then[j] = taken[j]
            BY <5>2, <2>9 DEF then
          <6> QED BY <6>1, <5>2, <4>1, <4>2, <3>2, <1>6
        <5> QED BY <5>1, <5>2, <4>2, <2>9 DEF then
      <4> QED BY <4>1, <4>2, <3>2, <1>6
    <3> QED BY <3>1, <3>2, <2>9 DEF then
  <2>12. DOMAIN pins \subseteq DOMAIN then /\ DOMAIN then \subseteq DOMAIN tensors
    BY <1>6, <2>9
  <2> HIDE DEF then
  <2>13. Apart(then)
    BY <2>10, <2>11, <2>12
  <2> QED BY <2>13 DEF then
<1>7. Apart(placed)
  <2> DEFINE S == {p \in Nat : p <= N => Apart(after[p])}
  <2> HIDE DEF Apart, put
  <2>1. 0 \in S
    BY <1>4, <1>5
  <2>2. ASSUME NEW n \in Nat, n \in S PROVE n + 1 \in S
    <3>1. CASE n + 1 <= N
      <4>1. n + 1 \in 1..N /\ (n + 1) - 1 = n /\ Apart(after[n])
        BY <3>1, <2>2, <1>3
      <4>2. after[n + 1] = next(after[n], n + 1)
        BY <4>1, <1>4
      <4>3. Apart(after[n + 1])
        BY <4>1, <4>2, <1>6
      <4> QED BY <4>3
    <3> QED BY <3>1
  <2> HIDE DEF S
  <2>3. N \in S
    BY <2>1, <2>2, <1>3, Induction
  <2> QED BY <2>3, <1>3 DEF S
<1>8. \A i \in DOMAIN placed : Low(placed[i])
  <2> HIDE DEF placed
  <2>1. \A i \in DOMAIN placed : IsRegion(placed[i]) /\ End(placed[i]) <= Capacity
    BY <1>1, <1>7
  <2> QED BY <2>1, RegionsAssumption DEF IsRegion, End
<1> HIDE DEF placed
<1>9. PlacedApart(tensors, pins, reserved, placed)
  BY <1>1, <1>7, <1>8, SMTT(30) DEF PlacedApart
<1>10. Place(tensors, pins, reserved, avoid) = placed
  BY <1>1
<1> QED BY <1>9, <1>10, Zenon

-----------------------------------------------------------------------------
(* What is held *)

\* (hypothesis) No kernel has a spill that the runner does not look behind.  It looks behind
\* each output stored element by element, and of a staged kernel only when a stage stores with
\* ST.AAQ, though the chain frees the spill rows of its targets whatever the stages store: a
\* kernel that spills, beside another tensor, is not staged, has no scratch and stores its
\* outputs so.
SpillsAreChecked ==
  \A k \in Kernels : SpillRows(k) > 0 =>
    \A m, n \in DOMAIN k.tensors :
      m # n /\ k.tensors[m].role # "scratch" =>
        /\ ~k.staged /\ k.tensors[n].role # "scratch"
        /\ k.tensors[m].role = "output" => k.tensors[m].element

\* Every Resident has its rows in XMEM: they are placed where there is room.
ResidentsFit == \A i \in Ids : IsRegion(resident[i]) /\ End(resident[i]) <= Capacity

HeldInv == ChainInv /\ ResidentsFit /\ HeldIsNeverCovered

\* A spill is a number of rows.
LEMMA SpillRowsType ==
  ASSUME NEW k \in Kernels PROVE SpillRows(k) \in Nat
BY ChainAssumption DEF SpillRows

\* KernelsAssumption, a field at a time.
LEMMA KernelTypes ==
  ASSUME NEW k \in Kernels
  PROVE  /\ Len(k.tensors) \in Nat /\ DOMAIN k.tensors = 1..Len(k.tensors)
         /\ \A n \in DOMAIN k.tensors :
              /\ k.tensors[n].rows \in Nat \ {0}
              /\ k.tensors[n].role \in {"input", "output", "scratch"}
              /\ k.tensors[n].element \in BOOLEAN
         /\ DOMAIN k.pins \subseteq DOMAIN k.tensors
         /\ \A n \in DOMAIN k.pins : k.pins[n] \in Nat
<1> DEFINE T == [role : {"input", "output", "scratch"}, rows : Nat \ {0},
                 layout : Layouts, element : BOOLEAN, after : Nat]
<1>1. /\ k.tensors \in Seq(T) /\ DOMAIN k.pins \subseteq DOMAIN k.tensors
      /\ \A n \in DOMAIN k.pins : k.pins[n] \in Nat
  BY KernelsAssumption
<1>2. \A t \in T : /\ t.rows \in Nat \ {0} /\ t.role \in {"input", "output", "scratch"}
                   /\ t.element \in BOOLEAN
  OBVIOUS
<1> HIDE DEF T
<1>3. Len(k.tensors) \in Nat /\ DOMAIN k.tensors = 1..Len(k.tensors)
  BY <1>1
<1>4. \A n \in DOMAIN k.tensors : k.tensors[n] \in T
  BY <1>1
<1> QED BY <1>1, <1>2, <1>3, <1>4

\* A region's rows are from its base up to its end.
LEMMA RowsOf ==
  ASSUME NEW r, r.base \in Nat, r.rows \in Nat
  PROVE  \A x : x \in Rows(r) <=> x \in Nat /\ r.base <= x /\ x < End(r)
BY DEF Rows, End

\* Reserved rows are rows of XMEM, one by one.
LEMMA ReservedTypes ==
  ASSUME ResidentsFit, BooksAreOfResidents, NEW inputs, NEW targets, NEW spill
  PROVE  \A q \in Reserved(inputs, targets, spill) : IsRegion(q) /\ End(q) <= Capacity
<1> SUFFICES ASSUME NEW q \in Reserved(inputs, targets, spill)
             PROVE  IsRegion(q) /\ End(q) <= Capacity
  OBVIOUS
<1>1. PICK h \in held : \E r \in Rows(resident[h]) : q = Region(r, 1)
  BY DEF Reserved
<1>2. h \in Ids /\ IsRegion(resident[h]) /\ End(resident[h]) <= Capacity
  BY DEF ResidentsFit, BooksAreOfResidents
<1>0. PICK r \in Rows(resident[h]) : q = Region(r, 1)
  BY <1>1
<1>3. r \in Nat /\ r < End(resident[h])
  BY <1>0, <1>2, RowsOf DEF IsRegion
<1>4. q.base = r /\ q.rows = 1 /\ End(q) = r + 1
  BY <1>0 DEF Region, End
<1>5. End(resident[h]) \in Nat /\ Capacity \in Nat
  BY <1>2, RegionsAssumption DEF IsRegion, End
<1> QED BY <1>2, <1>3, <1>4, <1>5 DEF IsRegion

\* Max and Min of two numbers.
LEMMA MaxMinOfTwo ==
  ASSUME NEW x \in Int, NEW y \in Int
  PROVE  /\ Max({x, y}) = IF x >= y THEN x ELSE y
         /\ Min({x, y}) = IF x <= y THEN x ELSE y
<1>1. Max({x, y}) = IF x >= y THEN x ELSE y
  BY DEF Max
<1>2. Min({x, y}) = IF x <= y THEN x ELSE y
  BY DEF Min
<1> QED BY <1>1, <1>2

\* The rows to avoid are regions that end in XMEM, or a spill's rows past it.
LEMMA AvoidTypes ==
  ASSUME ResidentsFit, NEW reserved, \A q \in reserved : IsRegion(q) /\ End(q) <= Capacity,
         NEW targets, \A n \in DOMAIN targets : targets[n] \in Ids, NEW spill \in Nat
  PROVE  /\ Capacity + spill \in Nat
         /\ \A r \in Avoid(reserved, targets, spill) : IsRegion(r) /\ End(r) <= Capacity + spill
<1>0. Capacity \in Nat
  BY RegionsAssumption
<1> SUFFICES ASSUME NEW r \in Avoid(reserved, targets, spill)
             PROVE  IsRegion(r) /\ End(r) <= Capacity + spill
  BY <1>0
<1>1. r.rows > 0
  BY DEF Avoid
<1>2. CASE \E q \in reserved : r = Region(Max({0, q.base - spill}), Min({spill, q.base}))
  <2>1. PICK q \in reserved : r = Region(Max({0, q.base - spill}), Min({spill, q.base}))
    BY <1>2
  <2>2. q.base \in Nat /\ q.base <= Capacity
    BY <1>0 DEF IsRegion, End
  <2>3. r.base = Max({0, q.base - spill}) /\ r.rows = Min({spill, q.base})
    BY <2>1 DEF Region
  <2>4. /\ Max({0, q.base - spill}) = IF 0 >= q.base - spill THEN 0 ELSE q.base - spill
        /\ Min({spill, q.base}) = IF spill <= q.base THEN spill ELSE q.base
    <3> DEFINE low == q.base - spill
    <3>1. low \in Int /\ 0 \in Int /\ spill \in Int /\ q.base \in Int
      BY <2>2
    <3> HIDE DEF low
    <3>2. Max({0, low}) = IF 0 >= low THEN 0 ELSE low
      BY <3>1, MaxMinOfTwo
    <3>3. Min({spill, q.base}) = IF spill <= q.base THEN spill ELSE q.base
      BY <3>1, MaxMinOfTwo
    <3> QED BY <3>2, <3>3 DEF low
  <2> QED BY <1>0, <1>1, <2>2, <2>3, <2>4 DEF IsRegion, End
<1>3. CASE \E n \in DOMAIN targets : r = SpillOf(resident[targets[n]], spill)
  <2>1. PICK n \in DOMAIN targets : r = SpillOf(resident[targets[n]], spill)
    BY <1>3
  <2>2. /\ End(resident[targets[n]]) \in Nat /\ End(resident[targets[n]]) <= Capacity
    BY DEF ResidentsFit, IsRegion, End
  <2>3. r.base = End(resident[targets[n]]) /\ r.rows = spill
    BY <2>1 DEF SpillOf, Region
  <2> QED BY <1>0, <1>1, <2>2, <2>3 DEF IsRegion, End
<1> QED BY <1>2, <1>3 DEF Avoid

-----------------------------------------------------------------------------
(* What a step may write over *)


\* What a step writes is its regions, some with the rows their spill reaches.
LEMMA WrittenRows ==
  ASSUME NEW k \in Kernels, NEW placed, NEW inputs, NEW n \in DOMAIN Written(k, placed, inputs),
         IsRegion(placed[n]), NEW x \in Rows(Written(k, placed, inputs)[n])
  PROVE  /\ n \in DOMAIN placed \ DOMAIN inputs
         /\ \/ x \in Rows(placed[n])
            \/ /\ SpillRows(k) > 0 /\ x \in Rows(SpillOf(placed[n], SpillRows(k)))
               /\ \/ k.tensors[n].role = "scratch"
                  \/ k.tensors[n].role = "output" /\ k.tensors[n].element
<1> DEFINE w == Written(k, placed, inputs)[n]
           s == SpillRows(k)
<1>1. n \in DOMAIN placed \ DOMAIN inputs
  BY DEF Written
<1>2. s \in Nat
  BY SpillRowsType
<1>3. CASE ~\/ k.tensors[n].role = "scratch"
            \/ k.tensors[n].role = "output" /\ k.tensors[n].element
  <2>1. w = placed[n]
    BY <1>1, <1>3 DEF Written
  <2> QED BY <1>1, <2>1
<1>4. CASE \/ k.tensors[n].role = "scratch"
           \/ k.tensors[n].role = "output" /\ k.tensors[n].element
  <2>1. w = Region(placed[n].base, placed[n].rows + s)
    BY <1>1, <1>4 DEF Written
  <2> HIDE DEF s
  <2>2. w.base = placed[n].base /\ w.rows = placed[n].rows + s
    BY <2>1 DEF Region
  <2>3. x \in w.base..End(w) - 1
    BY DEF Rows
  <2>4. End(w) = placed[n].base + (placed[n].rows + s)
    BY <2>2 DEF End
  <2>5. x \in Rows(placed[n]) \/ (s > 0 /\ x \in Rows(SpillOf(placed[n], s)))
    <3> HIDE DEF w
    <3>1. /\ x \in Int /\ placed[n].base <= x /\ x < placed[n].base + (placed[n].rows + s)
          /\ placed[n].base \in Nat /\ placed[n].rows \in Nat
      BY <2>2, <2>3, <2>4, <1>2 DEF IsRegion
    <3>2. CASE x < End(placed[n])
      BY <3>1, <3>2 DEF Rows, End
    <3>3. CASE ~(x < End(placed[n]))
      BY <3>1, <3>3, <1>2 DEF Rows, End, SpillOf, Region
    <3> QED BY <3>2, <3>3
  <2> QED BY <1>1, <1>4, <2>5 DEF s
<1> QED BY <1>3, <1>4

\* Two regions apart, each clear of the other's spill: the spills do not meet either.
LEMMA SpillsApart ==
  ASSUME NEW r, NEW q, IsRegion(r), IsRegion(q), NEW s \in Nat, s > 0,
         ~Overlap(r, q), ~Overlap(SpillOf(r, s), q), ~Overlap(SpillOf(q, s), r)
  PROVE  ~Overlap(SpillOf(r, s), SpillOf(q, s))
<1>1. IsRegion(SpillOf(r, s)) /\ IsRegion(SpillOf(q, s))
  BY DEF IsRegion, SpillOf, Region, End
<1>2. /\ SpillOf(r, s).base = End(r) /\ End(SpillOf(r, s)) = End(r) + s
      /\ SpillOf(q, s).base = End(q) /\ End(SpillOf(q, s)) = End(q) + s
  BY DEF SpillOf, Region, End
<1>3. End(r) \in Nat /\ End(q) \in Nat /\ r.base < End(r) /\ q.base < End(q)
  BY DEF IsRegion, End
<1>4. ~(r.base < End(q) /\ q.base < End(r))
  BY Meet
<1>5. ~(End(r) < End(q) /\ q.base < End(r) + s)
  BY <1>1, <1>2, Meet
<1>6. ~(End(q) < End(r) /\ r.base < End(q) + s)
  BY <1>1, <1>2, Meet
<1>7. ~(End(r) < End(q) + s /\ End(q) < End(r) + s)
  BY <1>3, <1>4, <1>5, <1>6 DEF IsRegion
<1> QED BY <1>1, <1>2, <1>7, Meet

\* A row a step writes is no row of a tensor held, but where it writes that tensor.
LEMMA WrittenSparesHeld ==
  ASSUME SpillsAreChecked, ResidentsFit, BooksAreOfResidents, NEW k \in Kernels,
         NEW inputs, \A n \in DOMAIN inputs :
           inputs[n] \in Ids /\ n \in OfRole(k, "input") /\ Fits(k, n, inputs[n]),
         NEW targets, \A n \in DOMAIN targets :
           targets[n] \in Ids /\ n \in OfRole(k, "output") /\ Fits(k, n, targets[n]),
         NEW pins,
         \A n \in DOMAIN inputs : n \in DOMAIN pins /\ pins[n] = resident[inputs[n]].base,
         \A n \in DOMAIN targets : n \in DOMAIN pins /\ pins[n] = resident[targets[n]].base,
         NEW reserved, reserved = Reserved(inputs, targets, SpillRows(k)),
         NEW placed, PlacedApart(k.tensors, pins, reserved, placed),
         k.staged \/ SpillsAreFree(k.tensors, placed, reserved, SpillRows(k)),
         NEW n \in DOMAIN Written(k, placed, inputs),
         Disjoint(Written(k, placed, inputs)[n], reserved),
         NEW h \in held, Overlap(resident[h], Written(k, placed, inputs)[n])
  PROVE  n \in DOMAIN targets /\ Root(h) = Root(targets[n])
<1> DEFINE s == SpillRows(k)
           w == Written(k, placed, inputs)[n]
<1>0. s \in Nat
  BY SpillRowsType
<1>1. PICK x \in Rows(resident[h]) : x \in Rows(w)
  BY DEF Overlap
<1> HIDE DEF w
<1>2. /\ n \in DOMAIN placed \ DOMAIN inputs /\ n \in DOMAIN k.tensors /\ IsRegion(placed[n])
      /\ \/ x \in Rows(placed[n])
         \/ /\ s > 0 /\ x \in Rows(SpillOf(placed[n], s))
            /\ \/ k.tensors[n].role = "scratch"
               \/ k.tensors[n].role = "output" /\ k.tensors[n].element
  <2>1. n \in DOMAIN placed /\ IsRegion(placed[n]) /\ n \in DOMAIN k.tensors
    BY DEF Written, PlacedApart
  <2> QED BY <1>1, <2>1, WrittenRows DEF w
<1>3. x \notin {r.base : r \in reserved}
  <2> SUFFICES ASSUME NEW r \in reserved, x = r.base PROVE FALSE
    OBVIOUS
  <2>1. IsRegion(r) /\ r.base \in Rows(r)
    BY ReservedTypes, RowsOf DEF IsRegion, Rows, End
  <2>2. ~Overlap(w, r)
    BY DEF Disjoint, w
  <2> QED BY <1>1, <2>1, <2>2 DEF Overlap
<1>4. \/ \E m \in DOMAIN inputs : Related(h, inputs[m]) /\ x \in Rows(resident[inputs[m]])
      \/ \E m \in DOMAIN targets :
           /\ Related(h, targets[m])
           /\ \/ x \in Rows(resident[targets[m]])
              \/ x \in Rows(SpillOf(resident[targets[m]], s))
  <2> SUFFICES ASSUME ~\E m \in DOMAIN inputs :
                          Related(h, inputs[m]) /\ x \in Rows(resident[inputs[m]]),
                      ~\E m \in DOMAIN targets :
                          /\ Related(h, targets[m])
                          /\ \/ x \in Rows(resident[targets[m]])
                             \/ x \in Rows(SpillOf(resident[targets[m]], s))
               PROVE  FALSE
    OBVIOUS
  <2>1. Region(x, 1) \in reserved
    <3> HIDE DEF s
    <3>1. Region(x, 1) \in Reserved(inputs, targets, s)
      BY <1>1, SMTT(60) DEF Reserved
    <3> QED BY <3>1 DEF s
  <2> QED BY <1>3, <2>1 DEF Region
<1>5. ASSUME NEW m \in DOMAIN placed \ {n}, k.tensors[m].role # "scratch", x \in Rows(placed[m])
      PROVE  FALSE
  <2>1. m \in DOMAIN k.tensors /\ ~Overlap(placed[n], placed[m]) /\ n \in DOMAIN placed \ {m}
    BY <1>2 DEF PlacedApart
  <2>2. CASE x \in Rows(placed[n])
    BY <2>1, <2>2, <1>5 DEF Overlap
  <2>3. CASE /\ s > 0 /\ x \in Rows(SpillOf(placed[n], s))
             /\ \/ k.tensors[n].role = "scratch"
                \/ k.tensors[n].role = "output" /\ k.tensors[n].element
    <3>1. ~k.staged /\ k.tensors[n].role # "scratch"
      BY <2>1, <2>3, <1>2, <1>5 DEF SpillsAreChecked
    <3>2. SpillsAreFree(k.tensors, placed, reserved, s)
      BY <3>1
    <3> HIDE DEF s
    <3>3. Disjoint(SpillOf(placed[n], s), reserved \cup {placed[j] : j \in DOMAIN k.tensors \ {n}})
      BY <3>1, <3>2, <2>3, <1>2 DEF SpillsAreFree
    <3>4. ~Overlap(SpillOf(placed[n], s), placed[m])
      BY <3>3, <2>1, <1>5 DEF Disjoint
    <3> QED BY <3>4, <2>3, <1>5 DEF Overlap
  <2> QED BY <1>2, <2>2, <2>3
<1>6. CASE \E m \in DOMAIN inputs : Related(h, inputs[m]) /\ x \in Rows(resident[inputs[m]])
  <2>1. PICK m \in DOMAIN inputs : x \in Rows(resident[inputs[m]])
    BY <1>6
  <2>2. /\ m \in DOMAIN placed /\ m # n /\ k.tensors[m].role = "input"
        /\ placed[m].base = resident[inputs[m]].base /\ placed[m].rows = resident[inputs[m]].rows
    BY <1>2 DEF PlacedApart, OfRole, Fits
  <2>3. Rows(placed[m]) = Rows(resident[inputs[m]])
    BY <2>2 DEF Rows, End
  <2> QED BY <1>5, <2>1, <2>2, <2>3
<1>7. ASSUME NEW m \in DOMAIN targets, Related(h, targets[m]),
             x \in Rows(resident[targets[m]]) \/ x \in Rows(SpillOf(resident[targets[m]], s)),
             m # n
      PROVE  FALSE
  <2>1. /\ m \in DOMAIN placed /\ m \in DOMAIN k.tensors /\ k.tensors[m].role = "output"
        /\ placed[m].base = resident[targets[m]].base /\ placed[m].rows = resident[targets[m]].rows
        /\ IsRegion(placed[m])
    BY DEF PlacedApart, OfRole, Fits
  <2>2. Rows(placed[m]) = Rows(resident[targets[m]]) /\ End(placed[m]) = End(resident[targets[m]])
    BY <2>1 DEF Rows, End
  <2>3. CASE x \in Rows(resident[targets[m]])
    BY <1>5, <1>7, <2>1, <2>2, <2>3
  <2>4. CASE x \in Rows(SpillOf(resident[targets[m]], s))
    <3>1. x \in Rows(SpillOf(placed[m], s))
      BY <2>2, <2>4 DEF SpillOf
    <3>2. s > 0
      BY <3>1, <1>0, <2>1 DEF SpillOf, Rows, End, Region, IsRegion
    <3>3. ~k.staged /\ k.tensors[n].role # "scratch" /\ k.tensors[m].element
      BY <1>2, <1>7, <2>1, <3>2 DEF SpillsAreChecked
    <3>4. SpillsAreFree(k.tensors, placed, reserved, s)
      BY <3>3
    <3> HIDE DEF s
    <3>5. ~Overlap(SpillOf(placed[m], s), placed[n])
      <4>1. Disjoint(SpillOf(placed[m], s), reserved \cup {placed[j] : j \in DOMAIN k.tensors \ {m}})
        BY <3>2, <3>3, <3>4, <2>1 DEF SpillsAreFree
      <4> QED BY <4>1, <1>2, <1>7 DEF Disjoint
    <3>6. CASE x \in Rows(placed[n])
      BY <3>1, <3>5, <3>6 DEF Overlap
    <3>7. CASE x \in Rows(SpillOf(placed[n], s)) /\ k.tensors[n].role = "output" /\ k.tensors[n].element
      <4>1. ~Overlap(SpillOf(placed[n], s), placed[m])
        <5>1. Disjoint(SpillOf(placed[n], s), reserved \cup {placed[j] : j \in DOMAIN k.tensors \ {n}})
          BY <3>2, <3>7, <3>4, <1>2 DEF SpillsAreFree
        <5> QED BY <5>1, <2>1, <1>7 DEF Disjoint
      <4>2. ~Overlap(placed[m], placed[n])
        BY <1>2, <1>7, <2>1 DEF PlacedApart
      <4>3. ~Overlap(SpillOf(placed[m], s), SpillOf(placed[n], s))
        BY <3>2, <3>5, <4>1, <4>2, <1>0, <1>2, <2>1, SpillsApart
      <4> QED BY <4>3, <3>1, <3>7 DEF Overlap
    <3> QED BY <1>2, <3>3, <3>6, <3>7
  <2> QED BY <1>7, <2>3, <2>4
<1>8. CASE \E m \in DOMAIN targets :
             /\ Related(h, targets[m])
             /\ \/ x \in Rows(resident[targets[m]])
                \/ x \in Rows(SpillOf(resident[targets[m]], s))
  <2>1. PICK m \in DOMAIN targets :
             /\ Related(h, targets[m])
             /\ \/ x \in Rows(resident[targets[m]])
                \/ x \in Rows(SpillOf(resident[targets[m]], s))
    BY <1>8
  <2>2. m = n
    BY <1>7, <2>1
  <2> QED BY <2>1, <2>2 DEF Related
<1> QED BY <1>4, <1>6, <1>8

-----------------------------------------------------------------------------
(* One step of each operation *)


\* A Resident made where it fits keeps every Resident in XMEM.
LEMMA MadeFits ==
  ASSUME ResidentsFit, NEW new, resident' = Made(new), DOMAIN new \cap Ids = {},
         \A j \in DOMAIN new : IsRegion(new[j]) /\ End(new[j]) <= Capacity
  PROVE  ResidentsFit'
<1>1. /\ Ids' = Ids \cup DOMAIN new
      /\ \A i \in Ids : resident'[i] = resident[i]
      /\ \A j \in DOMAIN new : resident'[j] = new[j]
  BY DEF Made, Ids
<1> QED BY <1>1 DEF ResidentsFit, IsRegion, End

\* A step that makes no Resident keeps them in XMEM.
LEMMA SameFits ==
  ASSUME ResidentsFit, UNCHANGED resident PROVE ResidentsFit'
BY DEF ResidentsFit, Ids, IsRegion, End

\* A whole tensor made at rows of XMEM fits.
LEMMA WholeFits ==
  ASSUME NEW base \in Nat, NEW rows \in 1..Capacity, base + rows <= Capacity, NEW l, NEW id
  PROVE  /\ IsRegion(Whole(Region(base, rows), l, id))
         /\ End(Whole(Region(base, rows), l, id)) <= Capacity
BY RegionsAssumption DEF Whole, Region, IsRegion, End

\* One lemma per operation: each keeps Residents in XMEM and what is held uncovered.
LEMMA SliceHeld ==
  ASSUME HeldInv, NEW i \in Ids, NEW base \in 0..Capacity - 1, NEW rows \in 1..Capacity,
         Slice(i, base, rows)
  PROVE  ResidentsFit' /\ HeldIsNeverCovered'
<1> DEFINE new == [id \in {NewId} |->
                     [base |-> base, rows |-> rows, layout |-> resident[i].layout,
                      root |-> Root(i), lineage |-> Lineage(i) \cup {id}]]
<1>1. NewId \notin Ids /\ resident' = Made(new) /\ DOMAIN new = {NewId}
  BY NewIdIsUnmade DEF Slice
<1>2. new[NewId].base = base /\ new[NewId].rows = rows
  OBVIOUS
<1>3. base + rows <= Capacity
  <2>1. IsRegion(resident[i]) /\ End(resident[i]) <= Capacity
    BY DEF HeldInv, ResidentsFit
  <2>2. base + rows - 1 \in Rows(Region(base, rows))
    BY RegionsAssumption DEF Rows, Region, End
  <2>3. base + rows - 1 \in Rows(resident[i])
    BY <2>2 DEF Slice
  <2> QED BY <2>1, <2>3, RegionsAssumption DEF Rows, End, IsRegion
<1> HIDE DEF new
<1>4. IsRegion(new[NewId]) /\ End(new[NewId]) <= Capacity
  BY <1>2, <1>3, RegionsAssumption DEF IsRegion, End
<1>5. ResidentsFit'
  BY <1>1, <1>4, MadeFits DEF HeldInv
<1>6. held' = held /\ held \subseteq Ids /\ spoilt' \subseteq spoilt \cup {NewId}
  BY DEF Slice, HeldInv, ChainInv, BooksAreOfResidents
<1> QED BY <1>1, <1>5, <1>6 DEF HeldInv, HeldIsNeverCovered

LEMMA HoldHeld ==
  ASSUME HeldInv, NEW i \in Ids, Hold(i) PROVE ResidentsFit' /\ HeldIsNeverCovered'
<1>1. UNCHANGED <<resident, spoilt>> /\ held' = held \cup {i} /\ i \notin spoilt
  BY DEF Hold, HeldInv, ChainInv, LiveIsIntact
<1>2. ResidentsFit'
  BY <1>1, SameFits DEF HeldInv
<1> QED BY <1>1, <1>2 DEF HeldInv, HeldIsNeverCovered

LEMMA ReleaseHeld ==
  ASSUME HeldInv, NEW i \in Ids, Release(i) PROVE ResidentsFit' /\ HeldIsNeverCovered'
<1>1. UNCHANGED <<resident, spoilt>> /\ held' = held \ {i}
  BY DEF Release
<1>2. ResidentsFit'
  BY <1>1, SameFits DEF HeldInv
<1> QED BY <1>1, <1>2 DEF HeldInv, HeldIsNeverCovered

\* First fit finds a row for a tensor to be reserved.
LEMMA FirstFreeType ==
  ASSUME ResidentsFit, BooksAreOfResidents, NEW rows \in 1..Capacity
  PROVE  FirstFree(rows) \in Nat
<1> DEFINE taken == {resident[i] : i \in live}
<1>1. \A t \in taken : IsRegion(t) /\ End(t) <= Capacity
  BY DEF ResidentsFit, BooksAreOfResidents
<1>2. rows \in Nat \ {0} /\ Capacity \in Nat
  BY RegionsAssumption
<1> HIDE DEF taken
<1>3. FirstFit(taken, rows) \in Nat
  BY <1>1, <1>2, FirstFitIsLowest
<1> QED BY <1>3 DEF FirstFree, taken

LEMMA ReserveHeld ==
  ASSUME HeldInv, NEW rows \in 1..Capacity, NEW l, Reserve(rows, l)
  PROVE  ResidentsFit' /\ HeldIsNeverCovered'
<1> DEFINE new == [id \in {NewId} |-> Whole(Region(FirstFree(rows), rows), l, id)]
<1>1. NewId \notin Ids /\ resident' = Made(new) /\ DOMAIN new = {NewId}
      /\ FirstFree(rows) + rows <= Capacity
  BY NewIdIsUnmade DEF Reserve
<1>2. FirstFree(rows) \in Nat
  BY FirstFreeType DEF HeldInv, ChainInv
<1>3. \A j \in DOMAIN new : IsRegion(new[j]) /\ End(new[j]) <= Capacity
  BY <1>1, <1>2, WholeFits
<1> HIDE DEF new
<1>4. ResidentsFit'
  BY <1>1, <1>3, MadeFits DEF HeldInv
<1>5. held' = held \cup {NewId} /\ spoilt' = spoilt /\ spoilt \subseteq Ids
  BY DEF Reserve, HeldInv, ChainInv, BooksAreOfResidents
<1> QED BY <1>1, <1>4, <1>5 DEF HeldInv, HeldIsNeverCovered

LEMMA WriteInPlaceHeld ==
  ASSUME HeldInv, NEW i \in Ids, WriteInPlace(i) PROVE ResidentsFit' /\ HeldIsNeverCovered'
<1> DEFINE targets == [n \in {1} |-> i]
           written == [n \in {1} |-> resident[i]]
<1>1. UNCHANGED <<resident, held>> /\ spoilt' = spoilt \cup Spoils(targets, written, {1})
  BY DEF WriteInPlace
<1>2. ASSUME NEW h \in held, h \in Spoils(targets, written, {1}) PROVE FALSE
  <2>1. h \in SpoiltBy({resident[i]}, Root(i))
    BY <1>2 DEF Spoils
  <2>2. Root(h) # Root(i) /\ Overlap(resident[h], resident[i])
    BY <2>1 DEF SpoiltBy, Disjoint
  <2>3. Related(h, i)
    BY <2>2 DEF WriteInPlace, HeldLetIn
  <2> QED BY <2>2, <2>3 DEF Related
<1>3. ResidentsFit'
  BY <1>1, SameFits DEF HeldInv
<1> HIDE DEF targets, written
<1> QED BY <1>1, <1>2, <1>3 DEF HeldInv, HeldIsNeverCovered

LEMMA WriteRowsHeld ==
  ASSUME HeldInv, NEW base \in 0..Capacity - 1, NEW rows \in 1..Capacity, NEW l,
         WriteRows(base, rows, l)
  PROVE  ResidentsFit' /\ HeldIsNeverCovered'
<1> DEFINE written == [n \in {1} |-> Region(base, rows)]
           new == [id \in {NewId} |-> Whole(written[1], l, id)]
           none == <<>>
<1>1. /\ NewId \notin Ids /\ resident' = Made(new) /\ DOMAIN new = {NewId}
      /\ base + rows <= Capacity
      /\ held' = held /\ spoilt' = spoilt \cup Spoils(none, written, {1})
  BY NewIdIsUnmade DEF WriteRows
<1>2. base \in Nat /\ \A j \in DOMAIN new : new[j] = Whole(Region(base, rows), l, j)
  BY RegionsAssumption
<1>3. DOMAIN none = {} /\ written[1] = Region(base, rows)
  OBVIOUS
<1> HIDE DEF new, none, written
<1>4. ResidentsFit'
  <2>1. \A j \in DOMAIN new : IsRegion(new[j]) /\ End(new[j]) <= Capacity
    BY <1>1, <1>2, WholeFits
  <2> QED BY <1>1, <2>1, MadeFits DEF HeldInv
<1>5. ASSUME NEW h \in held, h \in Spoils(none, written, {1}) PROVE FALSE
  <2>1. h \in SpoiltBy({Region(base, rows)}, 0)
    BY <1>3, <1>5 DEF Spoils
  <2>2. Overlap(resident[h], Region(base, rows))
    BY <2>1 DEF SpoiltBy, Disjoint
  <2> QED BY <2>2 DEF WriteRows, HeldLetIn
<1> QED BY <1>1, <1>4, <1>5 DEF HeldInv, HeldIsNeverCovered

\* The outputs a step makes fit where they were placed.
LEMMA NewOutputsFit ==
  ASSUME NEW k, NEW placed, NEW N, \E f \in [N -> Unmade] : IsInjective(f),
         \A n \in N : IsRegion(placed[n]) /\ End(placed[n]) <= Capacity
  PROVE  \A j \in DOMAIN NewOutputs(k, placed, N) :
           IsRegion(NewOutputs(k, placed, N)[j]) /\ End(NewOutputs(k, placed, N)[j]) <= Capacity
<1> DEFINE id == CHOOSE f \in [N -> Unmade] : IsInjective(f)
           of(i) == CHOOSE m \in N : id[m] = i
<1>1. DOMAIN NewOutputs(k, placed, N) = {id[n] : n \in N}
  BY DEF NewOutputs
<1>2. \A j \in {id[n] : n \in N} :
        NewOutputs(k, placed, N)[j] = Whole(placed[of(j)], k.tensors[of(j)].layout, j)
  BY DEF NewOutputs
<1>3. \A j \in {id[n] : n \in N} : of(j) \in N
  <2> HIDE DEF id
  <2> QED OBVIOUS
<1>4. \A r, l, j : /\ Whole(r, l, j).base = r.base /\ Whole(r, l, j).rows = r.rows
  BY DEF Whole
<1> HIDE DEF id, of
<1> QED BY <1>1, <1>2, <1>3, <1>4 DEF IsRegion, End

\* A step writes only what it placed apart from the rows reserved, and those are the held
\* rows but for the step's own inputs and targets.
LEMMA StepHeld ==
  ASSUME SpillsAreChecked, HeldInv, NEW k \in Kernels,
         NEW I \in SUBSET OfRole(k, "input"), NEW O \in SUBSET OfRole(k, "output"),
         NEW A \in SUBSET (DOMAIN k.tensors \ (I \cup O)),
         NEW inputs \in [I -> Ids], NEW targets \in [O -> Ids], NEW at \in [A -> 0..Capacity - 1],
         Step(k, inputs, targets, at)
  PROVE  ResidentsFit' /\ HeldIsNeverCovered'
<1> DEFINE pins == [n \in DOMAIN k.pins \cup DOMAIN inputs \cup DOMAIN targets \cup DOMAIN at |->
                      IF n \in DOMAIN inputs THEN resident[inputs[n]].base
                      ELSE IF n \in DOMAIN targets THEN resident[targets[n]].base
                      ELSE IF n \in DOMAIN at THEN at[n] ELSE k.pins[n]]
           s == SpillRows(k)
           reserved == Reserved(inputs, targets, s)
           placed == Place(k.tensors, pins, reserved, Avoid(reserved, targets, s))
           written == Written(k, placed, inputs)
           new == OfRole(k, "output") \ DOMAIN targets
           made == NewOutputs(k, placed, new)
           checked == SpillsAreFree(k.tensors, placed, reserved, s)
           runs == k.staged \/ checked
<1>1. /\ \A n \in DOMAIN inputs : Fits(k, n, inputs[n])
      /\ \A n \in DOMAIN targets : Fits(k, n, targets[n])
      /\ placed # Refused
      /\ \A n \in DOMAIN written : Disjoint(written[n], reserved)
      /\ held' = held
      /\ \/ /\ runs
            /\ \E f \in [new -> Unmade] : IsInjective(f)
            /\ resident' = Made(made)
            /\ spoilt' = spoilt \cup StepSpoils(targets, written, placed, checked, DOMAIN written)
         \/ /\ \E done \in IF runs THEN SUBSET DOMAIN written ELSE {{}} :
                 spoilt' = spoilt \cup StepSpoils(targets, written, placed, checked, done)
            /\ UNCHANGED resident
  BY DEF Step
<1>2. ResidentsFit /\ BooksAreOfResidents /\ s \in Nat
  BY SpillRowsType DEF HeldInv, ChainInv
<1>3. /\ \A n \in DOMAIN inputs :
           /\ inputs[n] \in Ids /\ n \in OfRole(k, "input")
           /\ n \in DOMAIN pins /\ pins[n] = resident[inputs[n]].base
      /\ \A n \in DOMAIN targets :
           /\ targets[n] \in Ids /\ n \in OfRole(k, "output")
           /\ n \in DOMAIN pins /\ pins[n] = resident[targets[n]].base
  BY DEF OfRole
<1>4. DOMAIN pins \subseteq DOMAIN k.tensors /\ \A n \in DOMAIN pins : pins[n] \in Nat
  <2>1. \A n \in DOMAIN pins :
          \/ n \in DOMAIN inputs /\ pins[n] = resident[inputs[n]].base
          \/ n \in DOMAIN targets /\ pins[n] = resident[targets[n]].base
          \/ n \in DOMAIN at /\ pins[n] = at[n]
          \/ n \in DOMAIN k.pins /\ pins[n] = k.pins[n]
    OBVIOUS
  <2> HIDE DEF pins
  <2>2. \A i \in Ids : resident[i].base \in Nat
    BY <1>2 DEF ResidentsFit, IsRegion
  <2>3. DOMAIN k.pins \subseteq DOMAIN k.tensors /\ \A n \in DOMAIN k.pins : k.pins[n] \in Nat
    BY KernelTypes
  <2>4. \A n \in DOMAIN at : at[n] \in Nat /\ n \in DOMAIN k.tensors
    BY RegionsAssumption
  <2> QED BY <1>3, <2>1, <2>2, <2>3, <2>4 DEF OfRole
<1>5. PlacedApart(k.tensors, pins, reserved, placed)
  <2> HIDE DEF pins
  <2>1. \A q \in reserved : IsRegion(q) /\ End(q) <= Capacity
    BY <1>2, ReservedTypes
  <2> DEFINE avoid == Avoid(reserved, targets, s)
  <2> HIDE DEF reserved, s
  <2>2. /\ Capacity + s \in Nat
        /\ \A r \in avoid : IsRegion(r) /\ End(r) <= Capacity + s
    BY <1>2, <1>3, <2>1, AvoidTypes
  <2>3. Len(k.tensors) \in Nat /\ \A n \in DOMAIN k.tensors : k.tensors[n].rows \in Nat \ {0}
    BY KernelTypes
  <2> HIDE DEF avoid
  <2>4. Place(k.tensors, pins, reserved, avoid) # Refused
    BY <1>1 DEF avoid
  <2>5. PlacedApart(k.tensors, pins, reserved, Place(k.tensors, pins, reserved, avoid))
    BY <1>4, <2>1, <2>2, <2>3, <2>4, PlacementsAreApart
  <2> QED BY <2>5 DEF avoid
<1> HIDE DEF pins, placed, written, new, made, checked, runs
<1>6. ASSUME runs, NEW done \in SUBSET DOMAIN written, NEW h \in held,
             h \in StepSpoils(targets, written, placed, checked, done)
      PROVE  FALSE
  <2>1. PICK n \in done :
          h \in SpoiltBy({written[n]}, IF n \in DOMAIN targets THEN Root(targets[n]) ELSE 0)
    <3>1. h \in Spoils(targets, written, done)
      BY <1>6, StepSpoilsLess
    <3> QED BY <3>1 DEF Spoils
  <2>2. Overlap(resident[h], written[n])
    BY <2>1 DEF SpoiltBy, Disjoint
  <2>3. n \in DOMAIN written /\ Disjoint(written[n], reserved)
    BY <1>1, <1>6
  <2>4. k.staged \/ SpillsAreFree(k.tensors, placed, reserved, s)
    BY <1>6 DEF runs, checked
  <2>5. n \in DOMAIN targets /\ Root(h) = Root(targets[n])
    <3>1. PICK res : res = reserved
      OBVIOUS
    <3>2. res = Reserved(inputs, targets, SpillRows(k))
      BY <3>1
    <3>3. /\ PlacedApart(k.tensors, pins, res, placed)
          /\ k.staged \/ SpillsAreFree(k.tensors, placed, res, SpillRows(k))
          /\ Disjoint(Written(k, placed, inputs)[n], res)
          /\ n \in DOMAIN Written(k, placed, inputs)
          /\ Overlap(resident[h], Written(k, placed, inputs)[n])
      BY <3>1, <1>5, <2>2, <2>3, <2>4 DEF written
    <3> QED BY <1>1, <1>2, <1>3, <3>2, <3>3, WrittenSparesHeld, SMTT(30)
  <2> QED BY <2>1, <2>5 DEF SpoiltBy
<1>7. CASE /\ runs
           /\ \E f \in [new -> Unmade] : IsInjective(f)
           /\ resident' = Made(made)
           /\ spoilt' = spoilt \cup StepSpoils(targets, written, placed, checked, DOMAIN written)
  <2>1. DOMAIN made \cap Ids = {}
    BY <1>7, NewOutputsAreWhole DEF made
  <2>2. \A n \in new : IsRegion(placed[n]) /\ End(placed[n]) <= Capacity
    BY <1>5 DEF PlacedApart, new, OfRole
  <2>3. \A j \in DOMAIN made : IsRegion(made[j]) /\ End(made[j]) <= Capacity
    BY <1>7, <2>2, NewOutputsFit DEF made
  <2>4. ResidentsFit'
    BY <1>2, <1>7, <2>1, <2>3, MadeFits
  <2>5. DOMAIN written \in SUBSET DOMAIN written
    OBVIOUS
  <2>6. held \cap StepSpoils(targets, written, placed, checked, DOMAIN written) = {}
    BY <1>6, <1>7, <2>5
  <2> QED BY <1>1, <1>7, <2>4, <2>6 DEF HeldInv, HeldIsNeverCovered
<1>8. CASE /\ \E done \in IF runs THEN SUBSET DOMAIN written ELSE {{}} :
                 spoilt' = spoilt \cup StepSpoils(targets, written, placed, checked, done)
           /\ UNCHANGED resident
  <2>1. PICK done \in IF runs THEN SUBSET DOMAIN written ELSE {{}} :
          spoilt' = spoilt \cup StepSpoils(targets, written, placed, checked, done)
    BY <1>8
  <2>2. ResidentsFit'
    BY <1>2, <1>8, SameFits
  <2>3. held \cap StepSpoils(targets, written, placed, checked, done) = {}
    <3>1. CASE runs
      BY <3>1, <2>1, <1>6
    <3>2. CASE ~runs
      BY <3>2, <2>1 DEF StepSpoils
    <3> QED BY <3>1, <3>2
  <2> QED BY <1>1, <2>1, <2>2, <2>3, SMTT(30) DEF HeldInv, HeldIsNeverCovered
<1> QED BY <1>1, <1>7, <1>8, SMTT(30)

LEMMA NextHeld ==
  ASSUME SpillsAreChecked, HeldInv, [Next]_vars PROVE HeldInv'
<1>1. ChainInv'
  BY NextKeeps DEF HeldInv, BooksKept
<1>2. CASE \E i \in Ids : Hold(i) \/ Release(i) \/ WriteInPlace(i)
  BY <1>1, <1>2, HoldHeld, ReleaseHeld, WriteInPlaceHeld DEF HeldInv
<1>3. CASE \E i \in Ids, base \in 0..Capacity - 1, rows \in 1..Capacity : Slice(i, base, rows)
  BY <1>1, <1>3, SliceHeld DEF HeldInv
<1>4. CASE \E rows \in 1..Capacity, l \in Layouts :
             Reserve(rows, l) \/ \E base \in 0..Capacity - 1 : WriteRows(base, rows, l)
  BY <1>1, <1>4, ReserveHeld, WriteRowsHeld DEF HeldInv
<1>5. CASE Run
  <2>1. PICK k \in Kernels : \E I \in SUBSET OfRole(k, "input"), O \in SUBSET OfRole(k, "output") :
           \E A \in SUBSET (DOMAIN k.tensors \ (I \cup O)) :
             \E inputs \in [I -> Ids], targets \in [O -> Ids], at \in [A -> 0..Capacity - 1] :
               Step(k, inputs, targets, at)
    BY <1>5 DEF Run
  <2>2. ResidentsFit' /\ HeldIsNeverCovered'
    BY <2>1, StepHeld
  <2> QED BY <1>1, <2>2 DEF HeldInv
<1>6. CASE UNCHANGED vars
  <2>1. ResidentsFit'
    BY <1>6, SameFits DEF vars, HeldInv
  <2> QED BY <1>1, <1>6, <2>1 DEF vars, HeldInv, HeldIsNeverCovered
<1> QED BY <1>2, <1>3, <1>4, <1>5, <1>6 DEF Next

\* For every XMEM, set of kernels and sequence of calls, a resident the chain holds is
\* never covered (chain.py: "A step that would cover one is refused", Chain._reserved),
\* when no kernel has a spill nobody looks behind (SpillsAreChecked: without it the claim
\* is false, which the run chain_held_doc shows).
THEOREM HeldStaysWhole ==
  ASSUME SpillsAreChecked PROVE Spec => []HeldIsNeverCovered
<1>1. Init => HeldInv
  <2>1. Init => Ids = {}
    BY DEF Init, Ids
  <2> QED BY <2>1, InitKeeps DEF Init, HeldInv, ResidentsFit, HeldIsNeverCovered
<1>2. HeldInv /\ [Next]_vars => HeldInv'
  BY NextHeld
<1>3. HeldInv => HeldIsNeverCovered
  BY DEF HeldInv
<1> QED BY <1>1, <1>2, <1>3, PTL DEF Spec

=============================================================================
