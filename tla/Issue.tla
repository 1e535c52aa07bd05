------------------------------- MODULE Issue -------------------------------
(***************************************************************************)
(* Issuing the slot ops of one word (ipu_emu/issue.py): the counters each  *)
(* op bumps, the verdict whether a multiply is an identity, and the one    *)
(* missing instruction it is attributed to, by the declarative table of    *)
(* isa_alias_spec.py as ipu.py compiles it.                                *)
(*                                                                         *)
(* Two engines issue the same words: `slow' dispatches every slot, `fast'  *)
(* skips the idle NOPs as prototyping does.  A vector register is "ones"   *)
(* (a declared load of ones), "stale" (declared, but its bytes are not one *)
(* in the active format), "like" (ones nobody declared) or "data".         *)
(***************************************************************************)
EXTENDS Timing, Integers, FiniteSets, FiniteSetsExt, SequencesExt

CONSTANTS
    Tables,      \* alias tables a build may ship besides ISA_ALIAS_SPEC
    Words,       \* the words issued
    MaxWords

VARIABLES
    table,       \* the build's alias table
    status,      \* "start", "refused" by the validation, or "running"
    slow, fast,  \* the engines
    before,      \* (history) slow, as the last word found it
    word,        \* the last word
    words        \* how many

vars == << table, status, slow, fast, before, word, words >>

-----------------------------------------------------------------------------
(* The instructions the table may name, and what the multiplies read.       *)

ScalarOperand == ("MULT.RC.VE" :> "src") @@ ("MULT.VE" :> "cr_idx") @@ ("MULT.EE" :> "cr_idx")
ScalarMults == << "MULT.RC.VE", "MULT.VE", "MULT.EE" >>
VectorIdentityMults == << "MULT.RC.VE", "MULT.RC.VV" >>

Instructions(slot) ==
    CASE slot = "mult" -> {"NOP", "MULT.RC.VV", "MULT.RC.VE", "MULT.RC.VS", "MULT.VE", "MULT.EE"}
      [] slot = "acc" -> {"NOP", "ACC.ADD", "ACC.ADD.FIRST", "ACC.SUB", "ACC.SUB.FIRST", "ACC.MAX",
                          "ACC.MAX.FIRST", "AGG.SUM", "AGG.SUM.FIRST", "AGG.MAX", "AGG.MAX.FIRST",
                          "ACC.STRIDE"}
      [] slot = "load" -> {"NOP", "LD.MULT", "LD.MULT.CYCLIC", "LD.MASK"}
      [] slot = "store" -> {"NOP", "ST.AAQ"}
      [] slot = "acc_store" -> {"NOP", "ST.ACC"}
      [] OTHER -> {"NOP"}
DebugOnly == {"acc_store"}

Reading(inst) ==
    CASE inst = "MULT.RC.VV" -> {"rc_idx", "ra"}
      [] inst = "MULT.RC.VE" -> {"rc_idx", "src"}
      [] inst = "MULT.RC.VS" -> {"rc_idx"}
      [] inst \in {"MULT.VE", "MULT.EE"} -> {"ra_idx", "dstructure_cr_idx"}
      [] OTHER -> {}
Operands(inst) ==
    Reading(inst) \union
    (IF inst \in Instructions("mult") \ {"NOP"} THEN {"mask_offset", "mask_shift", "cr_idx"} ELSE {})

(* The reads a multiply declares: << register, the operand that selects it >>. *)
Declared(inst) ==
    {<< "lr", o >> : o \in Operands(inst) \intersect {"rc_idx", "ra_idx", "mask_shift", "src"}}
    \union {<< "cr", o >> : o \in Operands(inst) \intersect {"src", "cr_idx", "dstructure_cr_idx"}}
    \union {<< "r", IF inst = "MULT.RC.VV" THEN "ra" ELSE "" >>, << "r_cyclic", "" >>, << "r_mask", "" >>}

(* read_views: the key << register, "" >> is there when all its reads agree. *)
ReadViews(inst) ==
    LET View(register) == ContractView("mult", register)
        registers == {d[1] : d \in Declared(inst)} IN
    [key \in Declared(inst) \union (registers \X {""}) |-> View(key[1])]

(* CycleView.source: the registers a read comes from. *)
Source(inst, register, via, snapshot, live) ==
    IF ReadViews(inst)[<< register, via >>] = CycleStart THEN snapshot ELSE live

-----------------------------------------------------------------------------
(* The table: entries, each with the matches that attribute a word to it.   *)

ScalarIs(operand, value) == [kind |-> "scalar_is", on |-> operand, of |-> {value}]
VectorOnes == [kind |-> "vector_ones", on |-> "", of |-> {}]
MaskedWindow == [kind |-> "masked_window", on |-> "", of |-> {}]
CoSlot(slot, names) == [kind |-> "co_slot", on |-> slot, of |-> names]
HardwareOnly == [kind |-> "hardware_only", on |-> "", of |-> {}]
Gates == {"scalar_is", "vector_ones", "hardware_only"}

Match(slot, inst, where) == [slot |-> slot, instruction |-> inst, where |-> where]

(* _identity_mult_matches: the scalar matches and then the vector ones. *)
IdentityMultMatches(extra, only) ==
    LET Kept(insts) == SelectSeq(insts, LAMBDA i : i \in only)
        Scalar(i) == Match("mult", i, {ScalarIs(ScalarOperand[i], "1")} \union extra)
        Vector(i) == Match("mult", i, {VectorOnes} \union extra)
        Each(insts, Made(_)) == [k \in DOMAIN insts |-> Made(insts[k])] IN
    Each(Kept(ScalarMults), Scalar) \o Each(Kept(VectorIdentityMults), Vector)

EveryMult == Instructions("mult")
AccReduce == {"AGG.SUM", "AGG.SUM.FIRST", "AGG.MAX", "AGG.MAX.FIRST", "ACC.MAX", "ACC.MAX.FIRST"}
AccSub == {"ACC.SUB", "ACC.SUB.FIRST"}

Entry(id, matches) == [id |-> id, matches |-> matches]
GatherScatter ==
    Entry("A6_GATHER_SCATTER",
          Append(IdentityMultMatches({MaskedWindow}, EveryMult),
                 Match("mult", "MULT.RC.VV", {VectorOnes, CoSlot("acc", {"ACC.STRIDE"})})))
AggRc == Entry("A4_AGG_RC", IdentityMultMatches({CoSlot("acc", AccReduce)}, EveryMult))
SubVv == Entry("A3_SUB_VV", IdentityMultMatches({CoSlot("acc", AccSub)}, EveryMult))
AddVv == Entry("A2_ADD_VV", IdentityMultMatches({CoSlot("acc", {"ACC.ADD"})}, EveryMult))
Bcast == Entry("A5_BCAST", IdentityMultMatches({}, {"MULT.EE"}))
MovRc == Entry("A1_MOV_RC", IdentityMultMatches({}, EveryMult \ {"MULT.EE"}))
StrAccReg == Entry("A16_STR_ACC_REG", << Match("acc_store", "ST.ACC", {HardwareOnly}) >>)

ISA_ALIAS_SPEC == << GatherScatter, AggRc, SubVv, AddVv, Bcast, MovRc, StrAccReg >>

HardwareOnlyIsValid(match) ==
    HardwareOnly \in match.where => Cardinality(match.where) = 1 /\ match.slot \in DebugOnly

(* validate_isa_alias_spec, of one match *)
MatchIsValid(match) ==
    LET kinds == {c.kind : c \in match.where}
        Has(kind) == kind \in kinds IN
    /\ match.slot \in Slots /\ match.instruction \in Instructions(match.slot)
    /\ Cardinality(kinds) = Cardinality(match.where)
    /\ Cardinality(kinds \intersect Gates) = 1
    /\ Has("vector_ones") => match.slot = "mult" /\ match.instruction \in Range(VectorIdentityMults)
    /\ Has("masked_window") =>
           match.slot = "mult" /\ {"mask_offset", "mask_shift", "cr_idx"} \subseteq Operands(match.instruction)
    /\ HardwareOnlyIsValid(match)
    /\ \A c \in match.where :
          /\ c.kind = "immediate_ne" => c.on = "mask_offset" /\ c.on \in Operands(match.instruction)
          /\ c.kind = "scalar_is" =>
                 /\ match.slot = "mult" /\ match.instruction \in DOMAIN ScalarOperand
                 /\ c.on = ScalarOperand[match.instruction] /\ c.of = {"1"}
          /\ c.kind = "co_slot" => c.on \in Slots /\ c.of \subseteq Instructions(c.on)
AllMatches(spec) == FlattenSeq([k \in DOMAIN spec |-> spec[k].matches])
IsValid(spec) ==
    /\ \A k \in DOMAIN spec : spec[k].matches # << >>
    /\ \A match \in Range(AllMatches(spec)) : MatchIsValid(match)
    /\ IsInjective(AllMatches(spec))                      \* no match is repeated

(* aliases_for, in the table's order: << alias, match >> *)
AliasesFor(spec, slot, inst) ==
    LET pairs == FlattenSeq([k \in DOMAIN spec |->
                     [j \in DOMAIN spec[k].matches |-> << spec[k].id, spec[k].matches[j] >>]]) IN
    SelectSeq(pairs, LAMBDA p : p[2].slot = slot /\ p[2].instruction = inst)

-----------------------------------------------------------------------------
(* The verdict on one multiply, from the cycle-start snapshot and the live   *)
(* registers.                                                                *)

HasConstantOnes(kinds) == kinds \subseteq {"ones", "stale"}
IsOnesRow(kinds) == kinds \subseteq {"ones", "like"}

(* The ring slots a window covers; windows start at half slots. *)
Window(index) == {(index \div 2) % 4, ((index + 1) \div 2) % 4}

(* scalar_is_one: an LR scalar is data, whatever its value. *)
ScalarIsOne(op, registers) ==
    op.name \in DOMAIN ScalarOperand /\ op.scalar # "lr" /\ registers.cr[op.scalar] = 1

(* vector_is_one *)
VectorIsOne(op, snapshot, live) ==
    LET ring == {Source(op.name, "r_cyclic", "", snapshot, live).ring[s] :
                    s \in Window(Source(op.name, "lr", "rc_idx", snapshot, live).lr)}
        Ra == {Source(op.name, "r", "ra", snapshot, live).r[op.ra]} IN
    /\ op.name \in Range(VectorIdentityMults)
    /\ \/ HasConstantOnes(ring) /\ IsOnesRow(ring)
       \/ op.name = "MULT.RC.VV" /\ HasConstantOnes(Ra) /\ IsOnesRow(Ra)

(* alias_masked_window: a mask of "some" of the declared lanes. *)
AliasMaskedWindow(op, snapshot, live) ==
    op.offset # 0 \/ Source(op.name, "r_mask", "", snapshot, live).mask = "some"

Identity(op, snapshot, live) ==
    [cr |-> ScalarIsOne(op, snapshot), vector |-> VectorIsOne(op, snapshot, live)]

(* _record_alias: the first check of the plan that holds, if one does. *)
Holds(match, w, identity, snapshot, live) ==
    LET kinds == {c.kind : c \in match.where} IN
    \/ "hardware_only" \in kinds
    \/ /\ identity # << >>
       /\ IF "vector_ones" \in kinds THEN identity[1].vector ELSE identity[1].cr
       /\ "masked_window" \in kinds => AliasMaskedWindow(w.mult, snapshot, live)
       /\ \A c \in match.where :
             /\ c.kind = "immediate_ne" => w.mult.offset # 0
             /\ c.kind = "co_slot" => w[c.on].name \in c.of

RecordAlias(slot, w, identity, snapshot, live) ==
    LET checks == AliasesFor(table, slot, w[slot].name)
        held == {k \in DOMAIN checks : Holds(checks[k][2], w, identity, snapshot, live)} IN
    IF held = {} THEN << >> ELSE << checks[Min(held)][1] >>

-----------------------------------------------------------------------------
(* One op: issue, then its handler.  The counters are bumped at issue.       *)

SlotStat(slot, name) ==
    CASE slot = "mult" -> IF name = "NOP" THEN {"mult_idle"} ELSE {"mult_active"}
      [] slot = "acc" /\ name # "NOP" -> {"acc_active"}
      [] slot = "load" /\ name # "NOP" -> {"xmem_reads"}
      [] slot \in {"store", "acc_store"} /\ name # "NOP" -> {"xmem_writes"}
      [] OTHER -> {}
Bumped(stats, keys) == [k \in DOMAIN stats |-> IF k \in keys THEN stats[k] + 1 ELSE stats[k]]

Issued(x, slot, w, snapshot) ==
    LET op == w[slot]
        identity == IF slot = "mult" /\ op.name # "NOP" THEN << Identity(op, snapshot, x) >> ELSE << >>
        isOne == identity # << >> /\ (identity[1].cr \/ identity[1].vector)
        alias == RecordAlias(slot, w, identity, snapshot, x) IN
    [x EXCEPT !.stats = Bumped(@, SlotStat(slot, op.name) \union IF isOne THEN {"identity"} ELSE {}),
              !.hits = Bumped(@, Range(alias)),
              !.log = IF op.name = "NOP" THEN @ ELSE Append(@, << "issued", slot, alias >>)]

Handled(x, slot, w) ==
    CASE slot = "lr" /\ w.lr.name = "SET" -> [x EXCEPT !.lr = w.lr.value]
      [] slot = "load" /\ w.load.name = "LD.MULT" -> [x EXCEPT !.r[w.load.dest] = w.load.row]
      [] slot = "load" /\ w.load.name = "LD.MULT.CYCLIC" -> [x EXCEPT !.ring[w.load.dest] = w.load.row]
      [] slot = "load" /\ w.load.name = "LD.MASK" -> [x EXCEPT !.mask = w.load.row]
      [] OTHER -> x
(* An op whose handler raises is never retired, and ends the word. *)
Executed(x, slot, w) ==
    IF w[slot].name = "NOP" THEN x
    ELSE IF w.raises = slot THEN [x EXCEPT !.raised = TRUE]
    ELSE [Handled(x, slot, w) EXCEPT !.log = Append(@, << "retired", slot, << >> >>)]

(* A skipped NOP is kept in its place for its counter alone. *)
Counted(x, slot, w) == [x EXCEPT !.stats = Bumped(@, SlotStat(slot, w[slot].name))]

(* (mutant: the counters of skipped NOPs are bumped before the word runs) *)
RunSlotsCountingFirst(x, w, skip) ==
    LET idle == skip /\ w.mult.name = "NOP"
        counted == IF idle THEN Counted(x, "mult", w) ELSE x IN
    FoldLeft(LAMBDA y, slot :
                IF y.raised \/ (skip /\ w[slot].name = "NOP" /\ slot # "cond") THEN y
                ELSE Executed(Issued(y, slot, w, x), slot, w),
             [counted EXCEPT !.raised = FALSE, !.log = << >>], Tail(SlotExecutionOrder))
(* The slots of a word after BREAK, in execution order. *)
RunSlots(x, w, skip) ==
    FoldLeft(LAMBDA y, slot :
                IF y.raised THEN y
                ELSE IF skip /\ w[slot].name = "NOP" /\ slot # "cond" THEN Counted(y, slot, w)
                ELSE Executed(Issued(y, slot, w, x), slot, w),
             [x EXCEPT !.raised = FALSE, !.log = << >>], Tail(SlotExecutionOrder))

-----------------------------------------------------------------------------
Counters == {"mult_active", "mult_idle", "acc_active", "xmem_reads", "xmem_writes", "identity"}
AliasIds(spec) == {spec[k].id : k \in DOMAIN spec}
Engine == [lr |-> 0, cr |-> [cr1 |-> 1, cr2 |-> 2], r |-> << "data", "ones" >>, ring |-> [s \in 0..3 |-> "data"],
           mask |-> "all", stats |-> [c \in Counters |-> 0], hits |-> [a \in AliasIds(table) |-> 0],
           raised |-> FALSE, log |-> << >>]

Init ==
    /\ table \in Tables \union {ISA_ALIAS_SPEC} /\ status = "start"
    /\ slow = Engine /\ fast = Engine /\ before = Engine
    /\ word = << >> /\ words = 0

(* Importing the emulator validates the table. *)
validate_isa_alias_spec ==
    /\ status = "start"
    /\ status' = IF IsValid(table) THEN "running" ELSE "refused"
    /\ UNCHANGED << table, slow, fast, before, word, words >>

RunWord ==
    /\ status = "running" /\ words < MaxWords
    /\ \E w \in Words :
          /\ slow' = RunSlots(slow, w, FALSE)
          /\ fast' = RunSlots(fast, w, TRUE)
          /\ before' = slow /\ word' = << w >>
    /\ words' = words + 1
    /\ UNCHANGED << table, status >>

Next == validate_isa_alias_spec \/ RunWord
Spec == Init /\ [][Next]_vars

-----------------------------------------------------------------------------
MultHits(x) == MapThenSumSet(LAMBDA a : x.hits[a], DOMAIN x.hits \ {"A16_STR_ACC_REG"})

(* What the idiom of an identity multiply stands in for, told from the word and the       *)
(* registers it began with.                                                               *)
Idiom(w, x) ==
    LET lr == IF w.lr.name = "SET" THEN w.lr.value ELSE x.lr
        declared == {x.ring[s] : s \in Window(lr)} = {"ones"}
                    \/ (w.mult.name = "MULT.RC.VV" /\ x.r[w.mult.ra] = "ones")
        vector == w.mult.name \in {"MULT.RC.VE", "MULT.RC.VV"} /\ declared
        scalar == w.mult.name \notin {"NOP", "MULT.RC.VV", "MULT.RC.VS"} /\ w.mult.scalar # "lr"
                  /\ x.cr[w.mult.scalar] = 1 IN
    IF ~(vector \/ scalar) THEN << >>
    ELSE CASE w.mult.offset # 0 \/ x.mask = "some" -> << "A6_GATHER_SCATTER" >>
           [] w.mult.name = "MULT.RC.VV" /\ w.acc.name = "ACC.STRIDE" -> << "A6_GATHER_SCATTER" >>
           [] OTHER ->
                CASE w.acc.name \in AccReduce -> << "A4_AGG_RC" >>
                  [] w.acc.name \in AccSub -> << "A3_SUB_VV" >>
                  [] w.acc.name = "ACC.ADD" -> << "A2_ADD_VV" >>
                  [] OTHER -> IF w.mult.name = "MULT.EE" THEN << "A5_BCAST" >> ELSE << "A1_MOV_RC" >>

(* No table the validation accepts counts a multiply twice, and the shipped table counts  *)
(* every identity multiply exactly once, also the one of a word that raises: the hits are *)
(* the partition of mult_identity_cycles isa_alias_spec.py promises.                      *)
HitsPartitionIdentities ==
    /\ status # "refused" => MultHits(slow) <= slow.stats.identity
    /\ table = ISA_ALIAS_SPEC => MultHits(slow) = slow.stats.identity

(* The shipped table attributes a multiply to the operation its idiom stands in for: the  *)
(* most specific one, told from what the registers held when the word began.              *)
HitsNameTheIdiom ==
    \A k \in DOMAIN slow.log :
        table = ISA_ALIAS_SPEC /\ slow.log[k][1] = "issued" /\ slow.log[k][2] = "mult" =>
            slow.log[k][3] = Idiom(word[1], before)

(* Skipping idle NOPs changes no counter, no attribution and no observer's record of an   *)
(* op, of a word that raises midway either.                                               *)
SchedulesCountAlike == fast = slow
=============================================================================
