------------------------------ MODULE Registry ------------------------------
(***************************************************************************)
(* The kernel registry (ipu_harness/registry.py, family.py): a family's    *)
(* folders and registry.toml are loaded, queries are routed over the       *)
(* kernels that did load, and a kernel's cases (cases.py) are planned and  *)
(* given their registers (abi.register_writes) once placed.  Under it is   *)
(* kernel.toml (manifest.py and the _manifest_* readers): what the loader  *)
(* accepts, a case's view of a kernel (conditions.py), its plan (params.py,*)
(* over the shape grammar of expressions.py) and its registers (abi.py).   *)
(*                                                                         *)
(* A tree is one family: its folders, each with the contents of its        *)
(* kernel.toml, and its registry.toml: its entries (none without a file),  *)
(* and whether it parses.  Where the regions land is left to Placement:    *)
(* any rows that keep the pins.                                            *)
(*                                                                         *)
(* A value carries its type; a float counts halves, so that a format may   *)
(* hold some floats and not others.  The domain of a parameter (min, max,  *)
(* multiple_of, choices) is the set of its values.  What may fail is the   *)
(* set of its results: empty when the code raises.  Files, pack, store,    *)
(* golden, benchmark and stages tables are left out, and `unit = "bytes"`, *)
(* which BYTE_UNIT_KERNELS allows no kernel.                               *)
(***************************************************************************)
EXTENDS Integers, Sequences, FiniteSets, FiniteSetsExt, SequencesExt, Functions

CONSTANTS
  Formats,
  Encodable,    \* [Formats -> sets of halves]: the floats each format holds exactly
  RowBytes,     \* [Formats -> Nat]: the bytes of one XMEM row
  LaneCount,    \* the most valid elements of a dstructure
  RegisterBits, \* the width of a CR or LR
  Trees,     \* the families a checkout may hold
  Queries,   \* <<op, parameters>>
  NameOrder, \* a sequence: the kernels' names in order
  MaxRow     \* (bound) the last row a region starts at

VARIABLES
  tree,      \* the files
  registry,  \* {} before load, else one record: manifests, templates, invalid
  verdict,   \* what the last resolve answered
  planned,   \* the planned case: at most one
  writes     \* what register_writes gave it

vars == <<tree, registry, verdict, planned, writes>>

TomlAssumption ==
  /\ Encodable \in [Formats -> SUBSET Int] /\ RowBytes \in [Formats -> Nat \ {0}]
  /\ LaneCount \in Nat /\ RegisterBits \in Nat \ {0}

I(n) == [t |-> "int", v |-> n]
B(b) == [t |-> "bool", v |-> b]
F(halves) == [t |-> "float", v |-> halves]

-----------------------------------------------------------------------------
(* The shape grammar: exact fractions *)

Add(a, b) == <<a[1] * b[2] + b[1] * a[2], a[2] * b[2]>>
Times(a, b) == <<a[1] * b[1], a[2] * b[2]>>
Minus(a) == <<-a[1], a[2]>>
Floor(a) == a[1] \div a[2]
Ceiling(a) == -((-a[1]) \div a[2])
Less(a, b) == a[1] * b[2] < b[1] * a[2]
Whole(a) == a[1] % a[2] = 0
Inverse1(a) == IF a[1] > 0 THEN <<a[2], a[1]>> ELSE <<-a[2], -a[1]>>
Over(a, b) == {Times(a, Inverse1(d)) : d \in {b} \ {<<0, b[2]>>}}

\* encode_dstructure, with the fields' checks of _dstructure.
DStructure(valid, partition, pad) ==
  IF valid \in 0..LaneCount /\ partition \in 0..2 /\ pad \in 0..3
  THEN {valid + 2 * LaneCount * (partition + 8 * pad)} ELSE {}

\* _walk: `env` gives the names' integers or fractions, and the placed regions' bases.
RECURSIVE Walk(_, _)
Walk(e, env) ==
  LET Arg(i) == Walk(e.args[i], env) IN
  CASE e.op = "int" -> {<<e.n, 1>>}
    [] e.op = "name" -> {env.names[x] : x \in {e.x} \cap DOMAIN env.names}
    [] e.op = "base" -> {<<env.bases[x], 1>> : x \in {e.x} \cap DOMAIN env.bases}
    [] e.op = "neg" -> {Minus(a) : a \in Arg(1)}
    [] e.op = "+" -> {Add(a, b) : a \in Arg(1), b \in Arg(2)}
    [] e.op = "-" -> {Add(a, Minus(b)) : a \in Arg(1), b \in Arg(2)}
    [] e.op = "*" -> {Times(a, b) : a \in Arg(1), b \in Arg(2)}
    [] e.op = "/" -> UNION {Over(a, b) : a \in Arg(1), b \in Arg(2)}
    [] e.op = "//" -> UNION {{<<Floor(q), 1>> : q \in Over(a, b)} : a \in Arg(1), b \in Arg(2)}
    [] e.op = "%" ->
         UNION {{Add(a, Minus(Times(b, <<Floor(q), 1>>))) : q \in Over(a, b)} :
                  a \in Arg(1), b \in Arg(2)}
    [] e.op = "ceil" -> {<<Ceiling(a), 1>> : a \in Arg(1)}
    [] e.op = "min" -> {IF Less(b, a) THEN b ELSE a : a \in Arg(1), b \in Arg(2)}
    [] e.op = "max" -> {IF Less(a, b) THEN b ELSE a : a \in Arg(1), b \in Arg(2)}
    [] e.op = "dstructure" ->
         UNION {{<<w, 1>> : w \in DStructure(Floor(v), Floor(p), Floor(d))} :
                  v \in {a \in Arg(1) : Whole(a)}, p \in {a \in Arg(2) : Whole(a)},
                  d \in {a \in Arg(3) : Whole(a)}}

\* evaluate: a whole number.
Evaluate(e, env) == {Floor(f) : f \in {g \in Walk(e, env) : Whole(g)}}

\* names_in: what an expression reads.
RECURSIVE Reads(_)
Reads(e) ==
  CASE e.op = "int" -> {}
    [] e.op \in {"name", "base"} -> {<<e.op, e.x>>}
    [] OTHER -> UNION {Reads(e.args[i]) : i \in DOMAIN e.args}
NamesOf(e) == {r[2] : r \in {q \in Reads(e) : q[1] = "name"}}
BasesOf(e) == {r[2] : r \in {q \in Reads(e) : q[1] = "base"}}

\* placed_reads: the derived values known only once the regions are placed,
\* with the tensors whose bases each reads.
Placed(m) ==
  FoldLeft(LAMBDA reads, d :
             LET late == NamesOf(d.e) \cap DOMAIN reads IN
             IF late = {} /\ BasesOf(d.e) = {} /\ "row_bytes" \notin NamesOf(d.e) THEN reads
             ELSE [x \in DOMAIN reads \cup {d.name} |->
                     IF x # d.name THEN reads[x]
                     ELSE BasesOf(d.e) \cup UNION {reads[r] : r \in late}],
           <<>>, m.derived)

-----------------------------------------------------------------------------
(* Conditions: a set of clauses, each a set of <<bool parameter, negated>> *)

Always == {{}}   \* no `when`
Holds(c, params) == \E clause \in c : \A term \in clause : params[term[1]].v # term[2]
Contradict(a, b) == \E term \in a : <<term[1], ~term[2]>> \in b
Excludes(c, d) == c # Always /\ d # Always /\ \A a \in c : \A b \in d : Contradict(a, b)
ParamsOf(c) == {term[1] : term \in UNION c}

\* narrowed: only the tensors and bindings that exist in the case.
Narrowed(m, params) ==
  [m EXCEPT !.tensors = {t \in @ : Holds(t.when, params)},
            !.abi = SelectSeq(@, LAMBDA b : Holds(b.when, params))]

-----------------------------------------------------------------------------
(* The loader *)

ParamNames(m) == {p.name : p \in m.params}
TensorNames(m) == {t.name : t \in m.tensors}
DerivedNames(m) == {d.name : d \in Range(m.derived)}
Scalars(m) == ParamNames(m) \cup DerivedNames(m)
OfType(m, types) == {p.name : p \in {q \in m.params : q.type \in types}}
TensorOf(m, name) == CHOOSE t \in m.tensors : t.name = name
ParamOf(m, name) == CHOOSE p \in m.params : p.name = name

\* checked_value and _check_value: a value of the type and in the domain.
Checked(p, v) ==
  {w \in IF p.type = "float" /\ v.t = "int" THEN {F(2 * v.v)}
         ELSE IF v.t = p.type THEN {v} ELSE {} : w \in p.domain}

ParamsLoad(m) ==
  /\ \A p \in m.params : \A v \in p.default : Checked(p, v) # {}
  /\ \A p, q \in m.params : p.name = q.name => p = q
\* read_derived: over the parameters, the values before it and the tensors' bases.
DerivedLoad(m) ==
  \A i \in DOMAIN m.derived :
    /\ m.derived[i].name \notin ParamNames(m)
    /\ NamesOf(m.derived[i].e)
         \subseteq ParamNames(m) \cup {m.derived[j].name : j \in 1..i - 1} \cup {"row_bytes"}
    /\ BasesOf(m.derived[i].e) \subseteq TensorNames(m)
Early(m) == Scalars(m) \ DOMAIN Placed(m)
Within(e, names) == NamesOf(e) \subseteq names /\ BasesOf(e) = {}
IsLiteral(e) == e.op = "int"
\* read_tensors, and check_no_placed_reads.
TensorsLoad(m) ==
  \A t \in m.tensors :
    /\ t.name \notin Scalars(m)
    /\ \A q \in m.tensors : q.name = t.name => q = t
    /\ ParamsOf(t.when) \subseteq OfType(m, {"bool"})
    /\ t.shape # <<>>
    /\ \A i \in DOMAIN t.shape : Within(t.shape[i], Early(m)) /\ (IsLiteral(t.shape[i]) => t.shape[i].n > 0)
    /\ \A e \in t.row : Within(e, Early(m) \cup {"row_bytes"}) /\ (IsLiteral(e) => e.n >= 0)
    /\ \A e \in t.fill :
         Within(e, (OfType(m, {"int", "float"}) \cup DerivedNames(m)) \ DOMAIN Placed(m))
CostLoads(m) == Within(m.cost, (OfType(m, {"int"}) \cup DerivedNames(m)) \ DOMAIN Placed(m))

Cr(n) == <<"CR", n>>
ZeroRegister == Cr(0)
PinnedAt(m, name) ==
  IF name \notin TensorNames(m) THEN {}
  ELSE {e.n : e \in {d \in TensorOf(m, name).row : IsLiteral(d)}}
\* _register and _binding: what one name may bind.
BindingLoads(m, b) ==
  /\ b.name \in Scalars(m) \cup TensorNames(m)
  /\ \/ b.register = ZeroRegister /\ PinnedAt(m, b.name) = {0} /\ b.offset = 0
     \/ b.register \notin {Cr(0), Cr(1)}
  /\ b.name \notin OfType(m, {"str"})
  /\ b.register[1] = "LR" => b.name \notin OfType(m, {"float"})
  /\ b.offset # 0 => b.name \in TensorNames(m)
  /\ ParamsOf(b.when) \subseteq OfType(m, {"bool"})
  /\ b.name \in TensorNames(m) => b.when = TensorOf(m, b.name).when
\* _same_pinned_value: two pinned tensors that one register value reaches.
SamePinnedValue(m, a, b) ==
  \E r \in PinnedAt(m, a.name), s \in PinnedAt(m, b.name) : r + a.offset = s + b.offset
\* _sharing_clash: when two bindings may share a register.
MayShare(m, a, b) == Excludes(a.when, b.when) \/ SamePinnedValue(m, a, b)
Bound(m) == {b.name : b \in Range(m.abi)}
WhenOf(m, name) == (CHOOSE b \in Range(m.abi) : b.name = name).when
Conditioned(m, names) == {t \in m.tensors : t.name \in names /\ t.when # Always}
\* A bound placed value that reads a tensor's base whenever the tensor exists.
Reaches(m, name, t) ==
  /\ name \in Bound(m) /\ t.name \in Placed(m)[name]
  /\ WhenOf(m, name) \in {Always, t.when}
\* check_placed_conditions: a placed value is bound exactly when what it reads exists.
PlacedBindingLoads(m, name) ==
  LET conditions == {t.when : t \in Conditioned(m, Placed(m)[name])} IN
  /\ Cardinality(conditions) <= 1
  /\ conditions # {} => WhenOf(m, name) \in conditions
\* read_abi
AbiLoads(m) ==
  /\ \A i \in DOMAIN m.abi :
       /\ BindingLoads(m, m.abi[i])
       /\ \A j \in 1..i - 1 :
            /\ m.abi[j].name # m.abi[i].name
            /\ m.abi[j].register = m.abi[i].register => MayShare(m, m.abi[i], m.abi[j])
  /\ \A t \in m.tensors : t.name \in Bound(m) \/ \E d \in DOMAIN Placed(m) : Reaches(m, d, t)
  /\ \A d \in DOMAIN Placed(m) : d \in Bound(m) => PlacedBindingLoads(m, d)

\* read_case: values of the parameters, a sweep axis a set of several.
CasesLoad(m) ==
  /\ "default" \in DOMAIN m.cases
  /\ \A c \in Range(m.cases) :
       /\ c.formats \subseteq m.formats
       /\ \A p \in DOMAIN c.values :
            p \in ParamNames(m) /\ \A v \in c.values[p] : Checked(ParamOf(m, p), v) # {}

\* load_manifest, after the parameters are read and a registry entry's values fixed.
Loads(m) ==
  m.formats # {} /\ DerivedLoad(m) /\ TensorsLoad(m) /\ CostLoads(m) /\ AbiLoads(m) /\ CasesLoad(m)

-----------------------------------------------------------------------------
(* plan_case *)

\* _check_params: every parameter, defaults filled.
CheckedParams(m, given) ==
  LET From(p) ==
        IF p.name \in DOMAIN given THEN Checked(p, given[p.name])
        ELSE UNION {Checked(p, v) : v \in p.default}
  IN IF DOMAIN given \subseteq ParamNames(m) /\ \A p \in m.params : From(p) # {}
     THEN {[x \in ParamNames(m) |-> CHOOSE v \in From(ParamOf(m, x)) : TRUE]}
     ELSE {}

NoBases == <<>>
IntNames(params) ==
  [x \in {y \in DOMAIN params : params[y].t = "int"} |-> <<params[x].v, 1>>]
Extended(names, more) ==
  [x \in DOMAIN names \cup DOMAIN more |-> IF x \in DOMAIN more THEN more[x] ELSE names[x]]
AsFractions(f) == [x \in DOMAIN f |-> <<f[x], 1>>]
Env(names) == [names |-> names, bases |-> NoBases]

\* _derived: in order, but the placed ones.
Derived(m, params) ==
  FoldLeft(LAMBDA sofar, d :
             IF d.name \in DOMAIN Placed(m) THEN sofar
             ELSE UNION {{[x \in DOMAIN f \cup {d.name} |-> IF x = d.name THEN n ELSE f[x]] :
                            n \in Evaluate(d.e, Env(Extended(IntNames(params), AsFractions(f))))} :
                           f \in sofar},
           {<<>>}, m.derived)

\* _shapes
ShapesEvaluate(m, names) ==
  \A t \in m.tensors, i \in 1..3 :
    i \in DOMAIN t.shape => \E n \in Evaluate(t.shape[i], Env(names)) : n > 0
\* _pins
PinOf(t, names) == {n \in UNION {Evaluate(e, Env(names)) : e \in t.row} : n >= 0}
PinsEvaluate(m, names) == \A t \in m.tensors : t.row # {} => PinOf(t, names) # {}
Numbers(params) ==
  [x \in {y \in DOMAIN params : params[y].t \in {"int", "float"}} |->
     IF params[x].t = "int" THEN <<params[x].v, 1>> ELSE <<params[x].v, 2>>]
\* _fills
FillsEvaluate(m, params, derived) ==
  \A t \in m.tensors : \A e \in t.fill :
    Walk(e, Env(Extended(Numbers(params), AsFractions(derived)))) # {}
\* _check_scalars: a bound float encodes exactly.
ScalarsEncode(m, params, fmt) ==
  \A b \in Range(m.abi) :
    b.name \in OfType(m, {"float"}) => params[b.name].v \in Encodable[fmt]

\* check_params: what routing asks of a kernel.
CheckParams(m, given) ==
  {[params |-> p, derived |-> d, formats |-> {f \in m.formats : ScalarsEncode(m, p, f)}] :
     p \in CheckedParams(m, given),
     d \in UNION {{e \in Derived(m, q) :
                     ShapesEvaluate(m, Extended(IntNames(q), AsFractions(e)))} :
                    q \in CheckedParams(m, given)}}

WithRowBytes(names, fmt) == Extended(names, [x \in {"row_bytes"} |-> <<RowBytes[fmt], 1>>])

\* plan_case: `limit` is the case's formats, empty when it lists none.
PlanCase(m, given, fmt, limit) ==
  LET PlanOf(p) ==
        LET view == Narrowed(m, p) IN
        {[manifest |-> view, format |-> fmt, params |-> p, derived |-> d,
          pins |-> [x \in {t.name : t \in {u \in view.tensors : u.row # {}}} |->
                      CHOOSE n \in PinOf(TensorOf(view, x),
                        WithRowBytes(Extended(IntNames(p), AsFractions(d)), fmt)) : TRUE]] :
           d \in {e \in Derived(view, p) :
                    LET names == Extended(IntNames(p), AsFractions(e)) IN
                    /\ ShapesEvaluate(view, names)
                    /\ PinsEvaluate(view, WithRowBytes(names, fmt))
                    /\ FillsEvaluate(view, p, e) /\ ScalarsEncode(view, p, fmt)}}
  IN IF fmt \in m.formats /\ (limit # {} => fmt \in limit)
     THEN UNION {PlanOf(p) : p \in CheckedParams(m, given)} ELSE {}

-----------------------------------------------------------------------------
(* register_writes, once the regions are placed at `rows` *)

RECURSIVE PlacedValue(_, _, _)
\* _placed_value
PlacedValue(name, plan, rows) ==
  LET e == (CHOOSE d \in Range(plan.manifest.derived) : d.name = name).e
      late == NamesOf(e) \cap DOMAIN Placed(plan.manifest)
      known == WithRowBytes(Extended(IntNames(plan.params), AsFractions(plan.derived)), plan.format)
  IN IF BasesOf(e) \subseteq DOMAIN rows /\ \A x \in late : PlacedValue(x, plan, rows) # {}
     THEN Evaluate(e, [names |-> Extended(known,
                                   [x \in late |-> <<CHOOSE n \in PlacedValue(x, plan, rows) : TRUE, 1>>]),
                       bases |-> rows])
     ELSE {}

\* _value: the number `b` puts in its register.
ValueOf(b, plan, rows) ==
  LET m == plan.manifest IN
  IF b.name \in TensorNames(m) THEN {rows[b.name] + b.offset}
  ELSE IF b.name \in DOMAIN Placed(m) THEN PlacedValue(b.name, plan, rows)
  ELSE IF b.name \in DerivedNames(m) THEN {plan.derived[b.name]}
  ELSE LET v == plan.params[b.name] IN
       {IF v.t = "bool" THEN (IF v.v THEN 1 ELSE 0) ELSE v.v}

Fits(n) == -(2 ^ (RegisterBits - 1)) <= n /\ n < 2 ^ RegisterBits
Bits(n) == n % 2 ^ RegisterBits
DefaultDStructure == LaneCount
CR15 == Cr(15)

\* Each register's starting bits; several where two bindings disagree.
WritesOf(plan, rows) ==
  LET abi == Range(plan.manifest.abi) IN
  [r \in ({b.register : b \in abi} \ {ZeroRegister}) \cup {CR15} |->
     IF \E b \in abi : b.register = r
     THEN UNION {{Bits(n) : n \in ValueOf(b, plan, rows)} : b \in {c \in abi : c.register = r}}
     ELSE {DefaultDStructure}]

-----------------------------------------------------------------------------
-----------------------------------------------------------------------------
(* family.py: entries over template folders *)

\* _fixed: the value becomes the only one of the domain; a default stays.
Fixed(p, fixed) ==
  IF p.name \notin DOMAIN fixed THEN p
  ELSE [p EXCEPT !.domain = {fixed[p.name]}, !.default = IF @ = {} THEN {fixed[p.name]} ELSE @]
\* An entry's values as checked_value gives them.
FixedOf(raw, e) ==
  [x \in DOMAIN e.params |-> CHOOSE v \in Checked(ParamOf(raw, x), e.params[x]) : TRUE]
\* _overrides refuses what does not fit the template.
EntryFits(raw, e) ==
  /\ \A fs \in e.formats : fs # {} /\ fs \subseteq raw.formats
  /\ \A x \in DOMAIN e.params : x \in ParamNames(raw) /\ Checked(ParamOf(raw, x), e.params[x]) # {}
  /\ \A names \in e.cases : "default" \in names /\ names \subseteq DOMAIN raw.cases

\* _case_values: a fixed parameter takes its fixed value in every case.
CaseAt(c, fixed) ==
  [c EXCEPT !.values = [x \in DOMAIN @ \cup DOMAIN fixed |->
                          IF x \in DOMAIN fixed THEN {fixed[x]} ELSE @[x]]]
\* load_manifest with an entry's overrides.
EntryOf(raw, e) ==
  LET fixed == FixedOf(raw, e)
      kept == UNION (e.cases \cup {n \in {DOMAIN raw.cases} : e.cases = {}}) IN
  [raw EXCEPT !.name = e.name, !.fixed = fixed,
              !.formats = UNION (e.formats \cup {f \in {@} : e.formats = {}}),
              !.params = {Fixed(p, fixed) : p \in @},
              !.cases = [x \in kept |-> CaseAt(raw.cases[x], fixed)]]
EntryLoads(raw, e) == ParamsLoad(raw) /\ EntryFits(raw, e) /\ Loads(EntryOf(raw, e))

\* read_registry
RegistryReads(t) ==
  /\ t.parses
  /\ \A i \in DOMAIN t.entries :
       /\ t.entries[i].template \in DOMAIN t.folders
       /\ \A j \in 1..i - 1 : t.entries[j].name # t.entries[i].name
Entries(t) == IF RegistryReads(t) THEN Range(t.entries) ELSE {}

-----------------------------------------------------------------------------
(* _Found.family and Registry.load *)

FoldersThatLoad(t) ==
  {f \in DOMAIN t.folders : ParamsLoad(t.folders[f]) /\ Loads(t.folders[f])}
EntriesThatLoad(t) == {e \in Entries(t) : EntryLoads(t.folders[e.template], e)}
TemplateFolders(t) == {e.template : e \in Entries(t)}
\* _add raises on a name two kernels have.
NamesClash(t) == \E e \in EntriesThatLoad(t) : e.name \in FoldersThatLoad(t)

Loaded(t) ==
  [manifests |-> {t.folders[f] : f \in FoldersThatLoad(t) \ TemplateFolders(t)}
                   \cup {EntryOf(t.folders[e.template], e) : e \in EntriesThatLoad(t)},
   templates |-> {t.folders[f] : f \in FoldersThatLoad(t) \cap TemplateFolders(t)},
   invalid |-> (DOMAIN t.folders \ FoldersThatLoad(t))
                 \cup {e.name : e \in Entries(t) \ EntriesThatLoad(t)}
                 \cup {x \in {"registry.toml"} : ~RegistryReads(t)}]

-----------------------------------------------------------------------------
(* resolve *)

Unnamed(m, given) == {p.name : p \in {q \in m.params : q.required}} \ DOMAIN given
\* What a kernel accepts the query with: at most one check.
Accepts(m, given, fmt) ==
  {c \in CheckParams(m, given) :
     Unnamed(m, given) = {} /\ c.formats # {} /\ (fmt # {} => fmt \subseteq c.formats)}
\* _cost
CostOf(m, c) == Evaluate(m.cost, Env(Extended(IntNames(c.params), AsFractions(c.derived))))
\* _left_out: what every tied kernel fixes, not all alike, and the query does not give.
LeftOut(tied, given) ==
  {x \in UNION {DOMAIN m.fixed : m \in tied} \ DOMAIN given :
     (\A m \in tied : x \in DOMAIN m.fixed) /\ Cardinality({m.fixed[x] : m \in tied}) > 1}

Refused == [outcome |-> "refused"]
\* (mutant: a tie goes to the kernel first by name)
ResolveFirst(candidates, given, fmt) ==
  LET accepted == SelectSeq(candidates, LAMBDA m : Accepts(m, given, fmt) # {}) IN
  IF accepted = <<>> THEN Refused
  ELSE [outcome |-> "supported", kernel |-> accepted[1].name,
        params |-> (CHOOSE c \in Accepts(accepted[1], given, fmt) : TRUE).params,
        formats |-> (CHOOSE c \in Accepts(accepted[1], given, fmt) : TRUE).formats]
\* `candidates` in the order resolve visits them; `fmt` has the format the query names.
Resolve(candidates, given, fmt) ==
  LET Check(m) == CHOOSE c \in Accepts(m, given, fmt) : TRUE
      accepted == SelectSeq(candidates, LAMBDA m : Accepts(m, given, fmt) # {})
      cost == [i \in DOMAIN accepted |-> CostOf(accepted[i], Check(accepted[i]))]
      Costs(i) == CHOOSE n \in cost[i] : TRUE
      cheapest == {i \in DOMAIN accepted : \A j \in DOMAIN accepted : Costs(i) <= Costs(j)}
      first == CHOOSE i \in cheapest : \A j \in cheapest : i <= j
      tied == {accepted[i] : i \in cheapest}
  IN CASE accepted = <<>> -> Refused
       [] accepted # <<>> /\ \E i \in DOMAIN accepted : cost[i] = {} -> [outcome |-> "cost"]
       [] OTHER ->
            IF Cardinality(cheapest) > 1
            THEN [outcome |-> IF LeftOut(tied, given) # {} THEN "leftout" ELSE "tie"]
            ELSE [outcome |-> "supported", kernel |-> accepted[first].name,
                  params |-> Check(accepted[first]).params,
                  formats |-> IF fmt = {} THEN Check(accepted[first]).formats ELSE fmt]
\* kernels(op): by name.
Candidates(ms, op) ==
  LET of == {m \in ms : m.op = op} IN
  [i \in 1..Cardinality(of) |->
     LET names == SelectSeq(NameOrder, LAMBDA x : \E m \in of : m.name = x) IN
     CHOOSE m \in of : m.name = names[i]]

-----------------------------------------------------------------------------
(* cases.expand, and register_writes *)

\* _points: the product of a case's sweep axes.
Points(c) ==
  {f \in [DOMAIN c.values -> UNION Range(c.values)] : \A x \in DOMAIN f : f[x] \in c.values[x]}
\* expand: the kernel's defaults under the case's values.
ValuesOf(m, point) ==
  [x \in DOMAIN point \cup {p.name : p \in {q \in m.params : q.default # {}}} |->
     IF x \in DOMAIN point THEN point[x] ELSE CHOOSE v \in ParamOf(m, x).default : TRUE]
Expanded(m) ==
  UNION {{[values |-> ValuesOf(m, f), formats |-> IF c.formats = {} THEN m.formats ELSE c.formats] :
            f \in Points(c)} : c \in Range(m.cases)}

\* register_writes: each register's bits, or the check that raised.
RegisterWrites(p, rows) ==
  LET abi == Range(p.manifest.abi)
      Value(b) == ValueOf(b, p, rows)
      given == WritesOf(p, rows)
  IN CASE \E b \in abi : b.name \in DOMAIN Placed(p.manifest)
                           /\ ~(Placed(p.manifest)[b.name] \subseteq DOMAIN rows) -> "absent"
       [] \E b \in abi : Value(b) = {} -> "expression"
       [] \E b \in abi : b.register = ZeroRegister /\ Value(b) # {0} -> "zero"
       [] \E b \in abi : \E n \in Value(b) : ~Fits(n) -> "range"
       [] \E r \in DOMAIN given : Cardinality(given[r]) > 1 -> "clash"
       [] OTHER -> "written"

-----------------------------------------------------------------------------
(* The actions *)

Init ==
  /\ tree \in Trees
  /\ registry = {} /\ verdict = {} /\ planned = {} /\ writes = "none"

\* Registry.load; a name clash raises and there is no registry.
load ==
  /\ registry = {} /\ ~NamesClash(tree)
  /\ registry' = {Loaded(tree)}
  /\ UNCHANGED <<tree, verdict, planned, writes>>

\* resolve, for a query that names no format or one.
resolve ==
  \E r \in registry, q \in Queries, fmt \in {{}} \cup {{f} : f \in Formats} :
    /\ verdict = {} /\ planned = {}
    /\ verdict' = {[query |-> q, format |-> fmt, answer |-> Resolve(Candidates(r.manifests, q[1]), q[2], fmt)]}
    /\ UNCHANGED <<tree, registry, planned, writes>>

\* A case of a kernel or a template is planned (plan_case).
plan_case ==
  \E r \in registry : \E m \in r.manifests \cup r.templates :
    \E c \in Expanded(m) : \E f \in c.formats :
      /\ verdict = {} /\ planned = {}
      /\ planned' = PlanCase(m, c.values, f, c.formats)
      /\ UNCHANGED <<tree, registry, verdict, writes>>

\* The regions are placed, pins where they ask, and the registers written.
register_writes ==
  \E p \in planned : \E rows \in [TensorNames(p.manifest) -> 0..MaxRow] :
    /\ writes = "none"
    /\ IsInjective(rows)
    /\ \A x \in DOMAIN p.pins : rows[x] = p.pins[x]
    /\ writes' = RegisterWrites(p, rows)
    /\ UNCHANGED <<tree, registry, verdict, planned>>

Next == load \/ resolve \/ plan_case \/ register_writes
Spec == Init /\ [][Next]_vars

-----------------------------------------------------------------------------
(* What must hold *)

(***************************************************************************)
(* What the loader accepts, register_writes can write in every case: no    *)
(* two bindings of a register disagree ("the loader lets two bindings      *)
(* share only an equal value"), CR0 is bound to a 0, and no bound value    *)
(* reads the base of a region the case does not have.                      *)
(***************************************************************************)
BindingsFitEveryCase == writes \notin {"clash", "zero", "absent"}

(***************************************************************************)
(* Every region of a planned case reaches its program: its base is bound,  *)
(* or a bound value reads it ("its base row must reach the program").      *)
(***************************************************************************)
EveryRegionIsReached ==
  \A p \in planned : \A x \in TensorNames(p.manifest) :
    x \in Bound(p.manifest)
      \/ \E d \in DOMAIN Placed(p.manifest) \cap Bound(p.manifest) : x \in Placed(p.manifest)[d]

Kernel(name) == CHOOSE m \in UNION {r.manifests : r \in registry} : m.name = name
Raw(name) == CHOOSE m \in UNION {r.manifests \cup r.templates : r \in registry} : m.name = name
\* Where check_params does not look: a pin or a fill that does not evaluate.
PinsOrFillsFail(m, c, f) ==
  LET view == Narrowed(m, c.params) IN
  \/ ~PinsEvaluate(view, WithRowBytes(Extended(IntNames(c.params), AsFractions(c.derived)), f))
  \/ ~FillsEvaluate(view, c.params, c.derived)

(***************************************************************************)
(* A kernel a query is routed to runs it: in each format of the verdict    *)
(* the verdict's parameters plan, to those parameters, but for a pin or a  *)
(* fill that does not evaluate, which routing does not look at.            *)
(***************************************************************************)
RoutedRunsAsRouted ==
  \A v \in verdict : v.answer.outcome = "supported" =>
    LET m == Kernel(v.answer.kernel) IN
    \A f \in v.answer.formats :
      LET plans == PlanCase(m, v.answer.params, f, {}) IN
      \/ plans # {} /\ \A p \in plans : p.params = v.answer.params
      \/ \E c \in CheckParams(m, v.answer.params) : PinsOrFillsFail(m, c, f)

(***************************************************************************)
(* The answer is the kernels', whatever order their names put them in: a   *)
(* tie is never settled ("the answer must not change because a folder was  *)
(* renamed").                                                              *)
(***************************************************************************)
NamesDoNotDecide ==
  \A v \in verdict, r \in registry :
    \A order \in SetToSeqs({m \in r.manifests : m.op = v.query[1]}) :
      Resolve(order, v.query[2], v.format) = v.answer

\* A query as an entry reads it: a value stands in where the template has no default.
StoodIn(raw, fixed, given) ==
  [x \in DOMAIN given \cup {y \in DOMAIN fixed : ParamOf(raw, y).default = {}} |->
     IF x \in DOMAIN given THEN given[x] ELSE fixed[x]]

(***************************************************************************)
(* An entry accepts what its template does at the entry's values: a query  *)
(* that leaves a parameter out means the template's default, so an entry   *)
(* that fixes another value refuses it.                                    *)
(***************************************************************************)
EntriesNarrowTheirTemplates ==
  \A e \in EntriesThatLoad(tree) : \A q \in Queries :
    LET raw == tree.folders[e.template]
        entry == EntryOf(raw, e)
        ofTemplate == CheckParams(raw, StoodIn(raw, entry.fixed, q[2]))
    IN registry # {} =>
         CheckParams(entry, q[2]) =
           {[c EXCEPT !.formats = @ \cap entry.formats] :
              c \in {d \in ofTemplate : \A x \in DOMAIN entry.fixed : d.params[x] = entry.fixed[x]}}

(***************************************************************************)
(* "with the same checks plan_case runs" (registry.py:6): what plans, is   *)
(* accepted.                                                               *)
(***************************************************************************)
WhatPlansIsAccepted ==
  \A p \in planned : CheckParams(Raw(p.manifest.name), p.params) # {}
=============================================================================
