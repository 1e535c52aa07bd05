------------------------------- MODULE Chain -------------------------------
(***************************************************************************)
(* Kernels run in turn on one XMEM (ipu_harness/chain.py): which tensors   *)
(* are still there for a later step or the host to read, and which rows a  *)
(* step must leave alone.                                                  *)
(*                                                                         *)
(* A Resident is an object: it is known by a number of its own, never by   *)
(* its rows.  What a row holds is left out but for who may have written   *)
(* over it (spoilt).                                                       *)
(***************************************************************************)
EXTENDS Regions, FiniteSets

CONSTANTS
  Kernels,       \* [tensors, pins, aaq, staged]: what a step may run
  Spill,         \* rows an ST.AAQ store writes past the last row of the format
  MaxResidents   \* (bound) Resident objects made

ASSUME ChainAssumption == Spill \in Nat /\ MaxResidents \in Nat

\* What the loader and the packing of a case check: each tensor takes a row or more,
\* and a pin is a row of a tensor.
ASSUME KernelsAssumption ==
  \A k \in Kernels :
    /\ k.tensors \in Seq([role : {"input", "output", "scratch"}, rows : Nat \ {0},
                          layout : Layouts, element : BOOLEAN, after : Nat])
    /\ DOMAIN k.pins \subseteq DOMAIN k.tensors
    /\ \A n \in DOMAIN k.pins : k.pins[n] \in Nat
    /\ k.aaq \in BOOLEAN /\ k.staged \in BOOLEAN

VARIABLES
  resident,    \* every Resident made: its rows, its layout, and the Residents it is part of
  live,        \* Chain._live
  held,        \* Chain._held
  spoilt       \* (history) the residents whose rows someone else may have written over

vars == <<resident, live, held, spoilt>>

Ids == DOMAIN resident
Init == resident = <<>> /\ live = {} /\ held = {} /\ spoilt = {}

-----------------------------------------------------------------------------
(* Residents *)

\* i, the tensor it is a slice of, that one's, and so on; and the whole tensor.
Lineage(i) == resident[i].lineage
Root(i) == resident[i].root

Related(i, j) == Root(i) = Root(j) /\ Overlap(resident[i], resident[j])
IsLive(i) == Lineage(i) \cap live # {}

\* A Resident made is one more object.
Unmade == (1..MaxResidents) \ Ids
NewId == CHOOSE id \in Unmade : TRUE
Made(new) == [i \in Ids \cup DOMAIN new |-> IF i \in Ids THEN resident[i] ELSE new[i]]

Whole(region, layout, id) ==
  [base |-> region.base, rows |-> region.rows, layout |-> layout, root |-> id, lineage |-> {id}]

\* What W, rows written for the tensor of `root` (0 for none), spoil: every resident
\* of another tensor that shares a row.
SpoiltBy(W, root) == {i \in Ids : Root(i) # root /\ ~Disjoint(resident[i], W)}

\* Resident.slice; the caller may slice any resident, a stale one too.
Slice(i, base, rows) ==
  /\ Unmade # {}
  /\ Rows(Region(base, rows)) \subseteq Rows(resident[i])
  /\ resident' = Made([id \in {NewId} |->
       [base |-> base, rows |-> rows, layout |-> resident[i].layout,
        root |-> Root(i), lineage |-> Lineage(i) \cup {id}]])
  /\ spoilt' = IF i \in spoilt THEN spoilt \cup {NewId} ELSE spoilt
  /\ UNCHANGED <<live, held>>

\* (mutant: whatever the caller has may be held)
HoldAny(i) ==
  /\ live' = live \cup {i} /\ held' = held \cup {i}
  /\ UNCHANGED <<resident, spoilt>>

\* A slice held on its own is live on its own.
Hold(i) ==
  /\ IsLive(i)
  /\ live' = live \cup {i} /\ held' = held \cup {i}
  /\ UNCHANGED <<resident, spoilt>>

Release(i) ==
  /\ i \in held
  /\ held' = held \ {i}
  /\ UNCHANGED <<resident, live, spoilt>>

\* The lowest row where `rows` rows hold no live resident.
FirstFree(rows) == FirstFit({resident[i] : i \in live}, rows)

\* reserve: held rows for later steps to write into.
Reserve(rows, layout) ==
  /\ Unmade # {}
  /\ FirstFree(rows) + rows <= Capacity
  /\ resident' = Made([id \in {NewId} |-> Whole(Region(FirstFree(rows), rows), layout, id)])
  /\ live' = live \cup {NewId} /\ held' = held \cup {NewId}
  /\ UNCHANGED spoilt

-----------------------------------------------------------------------------
(* What a write leaves live: `written` maps each tensor written to its rows, *)
(* `targets` those written into a resident to that resident.                 *)

\* (mutant: a target's tensor stays whatever else of it is written)
KeptWithTarget(targets, written) ==
  {t \in live : \/ \E n \in DOMAIN targets : t \in Lineage(targets[n])
                \/ \A m \in DOMAIN written : ~Overlap(resident[t], written[m])}

\* _forget_written.
Kept(targets, written) ==
  LET own(t) == {n \in DOMAIN targets : t \in Lineage(targets[n])}
      kept == {t \in live : \A m \in DOMAIN written \ own(t) : ~Overlap(resident[t], written[m])}
  IN kept \cup {targets[n] : n \in {m \in DOMAIN targets : Lineage(targets[m]) \cap kept = {}}}

\* What the tensors in `done` spoil, each where it is in `written`.  A step's own
\* targets, and their slices, are what the step left there.
Spoils(targets, written, done) ==
  (UNION {SpoiltBy({written[n]}, IF n \in DOMAIN targets THEN Root(targets[n]) ELSE 0) :
            n \in done}) \ {i \in Ids : \E n \in DOMAIN targets : targets[n] \in Lineage(i)}

\* write: the host's rows over a live resident in place, at a row, or by first fit.
HeldLetIn(region, target) ==
  \A h \in held : Overlap(resident[h], region) => target # 0 /\ Related(h, target)

WriteInPlace(i) ==
  /\ IsLive(i)
  /\ HeldLetIn(resident[i], i)
  /\ LET written == [n \in {1} |-> resident[i]] IN
       /\ live' = Kept([n \in {1} |-> i], written)
       /\ spoilt' = spoilt \cup Spoils([n \in {1} |-> i], written, {1})
  /\ UNCHANGED <<resident, held>>

WriteRows(base, rows, layout) ==
  /\ Unmade # {}
  /\ base + rows <= Capacity
  /\ HeldLetIn(Region(base, rows), 0)
  /\ LET written == [n \in {1} |-> Region(base, rows)] IN
       /\ resident' = Made([id \in {NewId} |-> Whole(written[1], layout, id)])
       /\ live' = Kept(<<>>, written) \cup {NewId}
       /\ spoilt' = spoilt \cup Spoils(<<>>, written, {1})
  /\ UNCHANGED held

-----------------------------------------------------------------------------
(* A step *)

SpillRows(k) == IF k.aaq \/ k.staged THEN Spill ELSE 0

\* (mutant: a slice in use frees all of the held tensor)
ReservedButTensors(inputs, targets, spill) ==
  LET used == {inputs[n] : n \in DOMAIN inputs} \cup {targets[n] : n \in DOMAIN targets}
  IN UNION {{Region(r, 1) : r \in Rows(resident[h])} :
              h \in {g \in held : \A u \in used : ~Related(g, u)}}

\* _reserved: the rows of each held tensor, but the parts the step reads, and the
\* parts it writes with the rows their spill reaches.
Reserved(inputs, targets, spill) ==
  LET reads == {resident[inputs[n]] : n \in DOMAIN inputs}
      used(h) ==
        UNION ({Rows(resident[inputs[n]]) :
                  n \in {m \in DOMAIN inputs : Related(h, inputs[m])}}
          \cup {Rows(resident[targets[n]]) \cup Rows(SpillOf(resident[targets[n]], spill)) :
                  n \in {m \in DOMAIN targets : Related(h, targets[m])}})
  IN {Region(r, 1) : r \in UNION {Rows(resident[h]) \ used(h) : h \in held}}

\* _avoid: room for a spill below each reserved row, and after each target.
Avoid(reserved, targets, spill) ==
  {r \in {Region(Max({0, q.base - spill}), Min({spill, q.base})) : q \in reserved}
           \cup {SpillOf(resident[targets[n]], spill) : n \in DOMAIN targets} : r.rows > 0}

\* _regions_written: what the step may write, the spill of an element output or a
\* scratch region with it.
Written(k, placed, inputs) ==
  [n \in DOMAIN placed \ DOMAIN inputs |->
     IF k.tensors[n].role = "scratch" \/ (k.tensors[n].role = "output" /\ k.tensors[n].element)
     THEN Region(placed[n].base, placed[n].rows + SpillRows(k))
     ELSE placed[n]]

\* What the tensors in `done` of a step spoil.  Their spills count where check_aaq_spill,
\* which looks at the one program or at each stage as it comes, finds the rows behind the
\* outputs free: elsewhere no program that stores with ST.AAQ is run.
StepSpoils(targets, written, placed, checked, done) ==
  {i \in Ids : \E n \in done :
     i \in Spoils(targets, written, {n}) /\ (checked \/ Overlap(resident[i], placed[n]))}

\* A resident is what tensor n of the kernel declares, live, and where it is pinned.
Fits(k, n, i) ==
  /\ IsLive(i)
  /\ resident[i].layout = k.tensors[n].layout /\ resident[i].rows = k.tensors[n].rows
  /\ n \in DOMAIN k.pins => k.pins[n] = resident[i].base

OfRole(k, role) == {n \in DOMAIN k.tensors : k.tensors[n].role = role}

\* The outputs of the step that are new residents, each where it was placed.
NewOutputs(k, placed, N) ==
  LET id == CHOOSE f \in [N -> Unmade] : IsInjective(f)
  IN [i \in {id[n] : n \in N} |->
        LET n == CHOOSE m \in N : id[m] = i IN Whole(placed[n], k.tensors[n].layout, i)]

\* A step of kernel k: `inputs`, the inputs that are residents, `targets`, the
\* outputs written into residents, `at`, the other regions given a row.
Step(k, inputs, targets, at) ==
  LET pins == [n \in DOMAIN k.pins \cup DOMAIN inputs \cup DOMAIN targets \cup DOMAIN at |->
                 IF n \in DOMAIN inputs THEN resident[inputs[n]].base
                 ELSE IF n \in DOMAIN targets THEN resident[targets[n]].base
                 ELSE IF n \in DOMAIN at THEN at[n] ELSE k.pins[n]]
      reserved == Reserved(inputs, targets, SpillRows(k))
      placed == Place(k.tensors, pins, reserved, Avoid(reserved, targets, SpillRows(k)))
      written == Written(k, placed, inputs)
      new == OfRole(k, "output") \ DOMAIN targets
      made == NewOutputs(k, placed, new)
      checked == SpillsAreFree(k.tensors, placed, reserved, SpillRows(k))
      \* a staged kernel runs at least the stages before one that is refused
      runs == k.staged \/ checked
  IN /\ \A n \in DOMAIN inputs : Fits(k, n, inputs[n])
     /\ \A n \in DOMAIN targets : Fits(k, n, targets[n])
     /\ \A n \in DOMAIN at \cap DOMAIN k.pins : at[n] = k.pins[n]
     /\ placed # Refused
     /\ \A n \in DOMAIN written : Disjoint(written[n], reserved)
     /\ UNCHANGED held
     /\ \/ \* it runs to HALT
           /\ runs
           /\ \E f \in [new -> Unmade] : IsInjective(f)
           /\ resident' = Made(made)
           /\ live' = Kept(targets, written) \cup DOMAIN made
           /\ spoilt' = spoilt \cup StepSpoils(targets, written, placed, checked, DOMAIN written)
        \/ \* it is refused late, raises, faults or is quit, its regions perhaps written
           /\ live' = Kept(targets, written)
           /\ \E done \in IF runs THEN SUBSET DOMAIN written ELSE {{}} :
                spoilt' = spoilt \cup StepSpoils(targets, written, placed, checked, done)
           /\ UNCHANGED resident

\* The ways to give a kernel's tensors residents and rows.
Run ==
  \E k \in Kernels : \E I \in SUBSET OfRole(k, "input"), O \in SUBSET OfRole(k, "output") :
    \E A \in SUBSET (DOMAIN k.tensors \ (I \cup O)) :
      \E inputs \in [I -> Ids], targets \in [O -> Ids], at \in [A -> 0..Capacity - 1] :
        Step(k, inputs, targets, at)

Next ==
  \/ \E i \in Ids : Hold(i) \/ Release(i) \/ WriteInPlace(i)
  \/ \E i \in Ids, base \in 0..Capacity - 1, rows \in 1..Capacity : Slice(i, base, rows)
  \/ \E rows \in 1..Capacity, l \in Layouts :
       Reserve(rows, l) \/ \E base \in 0..Capacity - 1 : WriteRows(base, rows, l)
  \/ Run

Spec == Init /\ [][Next]_vars

-----------------------------------------------------------------------------
(* Properties *)

\* A live resident still holds what its tensor's writers left: whatever steps were
\* refused, raised or faulted since, and however its rows were sliced, held and
\* written in part, no other tensor's rows went over it.
LiveIsIntact == \A i \in Ids : IsLive(i) => i \notin spoilt

\* "A resident the chain holds (Chain.hold, until Chain.release) is never covered:
\* every later step places around it, and a step that pins a region on it (or
\* spills onto it) fails before it runs."
HeldIsNeverCovered == held \cap spoilt = {}

\* A stale resident is never live again, though its rows be placed, reserved or
\* written anew: a later output in the same rows is a different tensor.
StaleStaysStale == [][\A i \in Ids : IsLive(i)' => IsLive(i)]_vars

=============================================================================
