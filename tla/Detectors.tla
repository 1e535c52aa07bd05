----------------------------- MODULE Detectors -----------------------------
(***************************************************************************)
(* The alias detectors that keep state from one event to the next          *)
(* (alias_detectors.py: Addressing, Selection, Exponential), and the proof *)
(* that a value carries a common factor log2(e) which the observer builds  *)
(* for them (alias_observer.py: mult_scale, accumulator_scale).            *)
(*                                                                         *)
(* A program runs from word 1 and every word retires.  A vector is the set *)
(* of its lanes that really carry the factor, and what the observer knows. *)
(***************************************************************************)
EXTENDS Integers, FiniteSets, Sequences, FiniteSetsExt, SequencesExt

CONSTANTS
    L,           \* lanes
    NLr,         \* LRs
    Modulus,     \* an LR holds 0..Modulus - 1
    Cases,       \* [words, rows]: a program, and the XMEM rows setup leaves: row -> [factor, const]
    MaxCycles,
    MaxHost

VARIABLES
    program, pc, lr,
    mem,         \* row -> [factor, const, declared, scale]: the last two as finish tells them
    regs,        \* "ra" and the slots of the ring -> [factor] and the load observed there
    mult, acc, post,   \* MULT_RES, R_ACC, POST_AAQ_REG: [factor] and the event observed
    cycle, next_id, host,
    updates,     \* Addressing: LR -> the increment that wrote it last
    adds,        \* Selection: LR -> the ADD that wrote it last
    branch,      \* Selection: the diamond open, if one is
    chain,       \* Exponential: the accumulation from a log2(e) product
    matches,     \* the matches of the last word
    wrote        \* (history) LR -> the event that wrote it, and the value it had before

detectors == << updates, adds, branch, chain >>
vars == << program, pc, lr, mem, regs, mult, acc, post, cycle, next_id, host, detectors, matches, wrote >>

Lr == 1..NLr
Lane == 0..L - 1
RingSlot == << "ring0", "ring1" >>
Regs == {"ra"} \union Range(RingSlot)
NoLoad == [id |-> 0, factor |-> {}, const |-> "none", declared |-> FALSE, scale |-> {}]

-----------------------------------------------------------------------------
(* Addressing: an isolated increment of an LR, and the first load or multiply that reads *)
(* what it left there.                                                                   *)

LrWrites(w) == {op.dest : op \in Range(w.lr)}
LrEvents(w) == [k \in DOMAIN w.lr |->
                  [id |-> next_id + k, cycle |-> cycle + 1, pc |-> pc, enc |-> w.lr[k],
                   src_b |-> IF w.lr[k].op = "ADD" THEN lr[w.lr[k].src_b] ELSE 0]]
Consumers(w) == {op \in {w.load, w.mult} : op.op # "NOP"}

(* The LRs a consumer reads of those no sub-slot of its own word writes. *)
AddressReads(op, w) == op.lrs \ LrWrites(w)

AddressUpdates(w) ==
    {<< "A12_ADDRESSING", updates[r], r >> :
        r \in {q \in DOMAIN updates : \E op \in Consumers(w) : q \in AddressReads(op, w)}}

(* No slot but LR and COND has an operation. *)
VectorsIdle(w) == Consumers(w) = {} /\ w.acc = "NOP" /\ w.aaq = "NOP" /\ w.store = 0

Isolated(w) == w.lr # << >> /\ VectorsIdle(w) /\ w.cond.op = "NOP"
Increments(op) == op.op = "INC" \/ (op.op = "ADD" /\ op.dest \in {op.src_a, op.src_b})

UpdatesAfter(w) ==
    LET taken == {m[3] : m \in AddressUpdates(w)}
        kept == (DOMAIN updates \ taken) \ LrWrites(w)
        new == {e \in Range(LrEvents(w)) : Isolated(w) /\ Increments(e.enc)} IN
    [r \in kept \union {e.enc.dest : e \in new} |->
        IF r \in kept THEN updates[r] ELSE CHOOSE e \in new : e.enc.dest = r]

-----------------------------------------------------------------------------
(* Selection: two dependent additions of one scalar, and the two-arm SET diamond. *)

SelfAdd(e) == e.enc.op = "ADD" /\ e.enc.src_a = e.enc.dest

(* (mutant: the scalar may have changed between the two) *)
ChainsToAnyScalar(before, e) ==
    /\ before.pc + 1 = e.pc /\ before.cycle + 1 = e.cycle
    /\ e.enc.src_b # e.enc.dest /\ before.enc = e.enc
ChainsTo(before, e) ==
    /\ before.pc + 1 = e.pc /\ before.cycle + 1 = e.cycle
    /\ e.enc.src_b # e.enc.dest /\ before.enc = e.enc /\ before.src_b = e.src_b

ScalarAddChains(w) ==
    {<< "A15_ADDS", adds[e.enc.dest], e >> :
        e \in {f \in Range(LrEvents(w)) :
                  SelfAdd(f) /\ f.enc.dest \in DOMAIN adds /\ ChainsTo(adds[f.enc.dest], f)}}
AddsAfter(w) ==
    LET new == {e \in Range(LrEvents(w)) : SelfAdd(e)}
        kept == DOMAIN adds \ LrWrites(w) IN
    [r \in kept \union {e.enc.dest : e \in new} |->
        IF r \in kept THEN adds[r] ELSE CHOOSE e \in new : e.enc.dest = r]

Word(at) == program[at]
OnlySet(at) ==
    /\ at \in DOMAIN program
    /\ Len(Word(at).lr) = 1 /\ Word(at).lr[1].op = "SET"
    /\ VectorsIdle(Word(at)) /\ Word(at).cond.op = "NOP"
OnlyJump(at, to) ==
    /\ at \in DOMAIN program
    /\ Word(at).cond = [op |-> "JUMP", label |-> to]
    /\ Word(at).lr = << >> /\ VectorsIdle(Word(at))

(* diamond: the canonical two-arm SET diamond, read from the words in IMEM. *)
Diamond(w) ==
    /\ w.cond.op = "BEQ" /\ w.cond.label = pc + 3
    /\ OnlySet(pc + 1) /\ OnlySet(pc + 3)
    /\ Word(pc + 1).lr[1].dest = Word(pc + 3).lr[1].dest
    /\ OnlyJump(pc + 2, pc + 4)

EventsOf(w) ==
    Len(w.lr) + Cardinality({k \in 1..6 : << w.load.op, w.mult.op, w.acc, w.aaq, w.cond.op,
                                              IF w.store = 0 THEN "NOP" ELSE "ST.AAQ" >>[k] # "NOP"})
JoinsHere == branch # << >> /\ branch[1].join = pc
ConditionalSelects ==
    IF JoinsHere /\ branch[1].dest \in branch[1].written THEN {<< "A15_SELECT", branch[1], pc >>} ELSE {}
BranchAfter(w) ==
    LET open == IF branch = << >> \/ JoinsHere \/ branch[1].evidence >= 8 THEN << >>
                ELSE << [branch[1] EXCEPT !.evidence = @ + EventsOf(w),
                                          !.written = @ \union LrWrites(w)] >> IN
    IF Diamond(w)
    THEN << [at |-> pc, dest |-> Word(pc + 1).lr[1].dest, join |-> pc + 4, evidence |-> 0, written |-> {}] >>
    ELSE open

-----------------------------------------------------------------------------
(* The log2(e) proof.  An observed load is [id, const, declared, scale].     *)

(* constants: the complete rows a multiply of two vectors reads, ring first. *)
RingAt(p) == regs[RingSlot[((p \div L) % 2) + 1]]
Complete(op) == (IF op.start % L = 0 THEN << RingAt(op.start) >> ELSE << >>) \o << regs["ra"] >>
Constants(op) ==
    IF op.op # "VV" THEN << >>
    ELSE SelectSeq(Complete(op), LAMBDA row : row.const # "none")

(* scaled_window: lanes of loads, never numerical equality alone. *)
ScaledRing(start) == {i \in Lane : ((start + i) % L) \in RingAt(start + i).scale}
ScaledRa == regs["ra"].scale

MultScale(op) ==
    LET constants == Constants(op)
        proof == {k \in DOMAIN constants : constants[k].declared}
        other(k) == IF constants[k] = regs["ra"] THEN ScaledRing(op.start) ELSE ScaledRa
        scaled == CASE op.op = "VV" ->
                         IF proof = {} THEN {}
                         ELSE LET ks == {k \in proof : constants[k].const = "log2e"} IN
                              IF ks # {} THEN Lane ELSE other(Max(proof))
                    [] op.op = "VE" -> IF op.scalar = 1 THEN ScaledRing(op.start) ELSE {}
                    [] op.op = "EE" -> IF op.scalar = 1 /\ 0 \in ScaledRa THEN Lane ELSE {} IN
    scaled \union (Lane \ op.mask)

(* The lanes of the product that do carry the factor; padding is zero or infinite. *)
Factor(op) ==
    LET ring == {i \in Lane : ((op.start + i) % L) \in RingAt(op.start + i).factor}
        ra == regs["ra"].factor IN
    (CASE op.op = "VV" -> ring \union ra
       [] op.op = "VE" -> ring
       [] op.op = "EE" -> IF 0 \in ra THEN Lane ELSE {}) \union (Lane \ op.mask)

First == {"ADD.FIRST", "SUB.FIRST", "MAX.FIRST"}
Running == {"ADD", "SUB", "MAX"}
(* accumulator_scale, of the lanewise ops; any other erases the proof *)
AccumulatorScale(op, old, new) ==
    IF op \in First THEN new ELSE IF op \in Running THEN old \intersect new ELSE {}

-----------------------------------------------------------------------------
(* Exponential: from the FIRST of a log2(e) product to the exp2 of the accumulator. *)

ChainAfter(w, m, id) ==
    LET constants == {k \in DOMAIN m.constants : m.constants[k].const = "log2e"} IN
    IF w.acc = "ADD.FIRST"
    THEN IF constants = {} THEN << >>
         ELSE << [last |-> id, length |-> 3, declared |-> m.constants[Min(constants)].declared] >>
    ELSE IF chain # << >> /\ w.acc \in {"ADD", "SUB"} /\ chain[1].last = acc.id /\ chain[1].length < 16
         THEN << [chain[1] EXCEPT !.last = id, !.length = @ + (IF m.id = 0 THEN 1 ELSE 2)] >>
         ELSE << >>

Exponentials(w, a, c) ==
    IF w.aaq = "exp2" /\ a.id # 0 /\ c # << >> /\ c[1].last = a.id
    THEN {<< "A9_EXP", IF c[1].declared /\ (c[1].length > 3 => w.active # {} /\ w.active \subseteq a.scale)
                       THEN "verified" ELSE "candidate", w.active \subseteq a.factor >>}
    ELSE {}

-----------------------------------------------------------------------------
Init ==
    /\ pc = 1
    /\ \E case \in Cases :
         /\ program = case.words
         /\ mem = [r \in DOMAIN case.rows |-> [factor |-> case.rows[r].factor, const |-> case.rows[r].const,
                                             declared |-> TRUE, scale |-> {}]]
    /\ lr = [r \in Lr |-> 0] /\ wrote = [r \in Lr |-> << 0, 0 >>]
    /\ regs = [r \in Regs |-> NoLoad]
    /\ mult = [id |-> 0, factor |-> {}, scale |-> {}, constants |-> << >>] /\ acc = [id |-> 0, factor |-> {}, scale |-> {}]
    /\ post = [factor |-> {}, scale |-> {}]
    /\ cycle = 0 /\ next_id = 0 /\ host = 0
    /\ updates = << >> /\ adds = << >> /\ branch = << >> /\ chain = << >> /\ matches = {}

LrAfter(w) ==
    [r \in Lr |->
        LET ops == {op \in Range(w.lr) : op.dest = r}
            op == CHOOSE o \in ops : TRUE IN
        IF ops = {} THEN lr[r]
        ELSE CASE op.op = "INC" -> (lr[r] + 1) % Modulus
               [] op.op = "SET" -> op.value
               [] op.op = "ADD" -> (lr[op.src_a] + lr[op.src_b]) % Modulus]

NextPc(w) ==
    CASE w.cond.op = "NOP" -> pc + 1
      [] w.cond.op = "JUMP" -> w.cond.label
      [] w.cond.op = "BEQ" -> IF lr[w.cond.reg1] = lr[w.cond.reg2] THEN w.cond.label ELSE pc + 1

(* A word: its LR ops, load, multiply, accumulate, quantize and store, and the cycle's end. *)
RunWord ==
    LET w == program[pc]
        id(k) == next_id + Len(w.lr) + k
        m == IF w.mult.op = "NOP" THEN mult
             ELSE [id |-> id(2), factor |-> Factor(w.mult), scale |-> MultScale(w.mult),
                   constants |-> Constants(w.mult)]
        a == IF w.acc = "NOP" THEN acc
             ELSE [id |-> id(3),
                   factor |-> IF w.acc \in First THEN m.factor ELSE acc.factor \intersect m.factor,
                   scale |-> AccumulatorScale(w.acc, acc.scale, m.scale)]
        c == IF w.acc = "NOP" THEN chain ELSE ChainAfter(w, m, id(3))
        p == IF w.aaq = "NOP" THEN post
             ELSE [factor |-> IF w.aaq = "exp2" THEN post.factor \ w.active
                              ELSE (post.factor \ w.active) \union (a.factor \intersect w.active),
                   scale |-> IF w.aaq = "exp2" THEN {}
                             ELSE (post.scale \ w.active) \union (a.scale \intersect w.active)] IN
    /\ pc \in DOMAIN program /\ cycle < MaxCycles
    /\ matches' = AddressUpdates(w) \union ScalarAddChains(w) \union ConditionalSelects \union Exponentials(w, a, c)
    /\ updates' = UpdatesAfter(w) /\ adds' = AddsAfter(w) /\ branch' = BranchAfter(w) /\ chain' = c
    /\ mult' = m /\ acc' = a /\ post' = p
    /\ regs' = IF w.load.op = "NOP" THEN regs
               ELSE [regs EXCEPT ![w.load.dest] =
                       [id |-> id(1), factor |-> mem[w.load.row].factor, const |-> mem[w.load.row].const,
                        declared |-> mem[w.load.row].declared, scale |-> mem[w.load.row].scale]]
    /\ mem' = IF w.store = 0 THEN mem
              ELSE [mem EXCEPT ![w.store] = [factor |-> p.factor, const |-> "none", declared |-> FALSE,
                                             scale |-> p.scale]]
    /\ lr' = LrAfter(w) /\ pc' = NextPc(w)
    /\ wrote' = [r \in Lr |-> IF r \in LrWrites(w)
                              THEN << (CHOOSE e \in Range(LrEvents(w)) : e.enc.dest = r).id, lr[r] >>
                              ELSE wrote[r]]
    /\ cycle' = cycle + 1 /\ next_id' = next_id + Len(w.lr) + 6
    /\ UNCHANGED << program, host >>

(* The host writes R_ACC, or a row of XMEM with the bytes of a constant, between two words. *)
HostWrites ==
    /\ host < MaxHost /\ host' = host + 1 /\ matches' = {}
    /\ \/ acc' = [id |-> 0, factor |-> {}, scale |-> {}] /\ UNCHANGED mem
       \/ /\ \E r \in DOMAIN mem, const \in {"none", "one", "log2e"} :
                mem' = [mem EXCEPT ![r] = [factor |-> IF const = "log2e" THEN Lane ELSE {}, const |-> const, declared |-> FALSE, scale |-> {}]]
          /\ UNCHANGED acc
    /\ UNCHANGED << program, pc, lr, regs, mult, post, cycle, next_id, detectors, wrote >>

Next == RunWord \/ HostWrites
Spec == Init /\ [][Next]_vars

-----------------------------------------------------------------------------
(* An address update is paired with a consumer that reads what the increment left: no other *)
(* word wrote the LR in between (Addressing).                                               *)
UpdatesFeedTheirConsumers ==
    [][\A m \in matches' : m[1] = "A12_ADDRESSING" => wrote[m[3]][1] = m[2].id]_vars

(* A scalar-add chain adds one scalar twice to what the LR held before the first addition,  *)
(* and a conditional select leaves the LR the value of one of its two arms (Selection).     *)
SelectionsSelect ==
    [][\A m \in matches' :
         /\ m[1] = "A15_ADDS" =>
               lr'[m[3].enc.dest] = (wrote[m[3].enc.dest][2] + 2 * m[3].src_b) % Modulus
         /\ m[1] = "A15_SELECT" =>
               lr[m[2].dest] \in {Word(m[2].at + 1).lr[1].value, Word(m[2].at + 3).lr[1].value}]_vars

(* What the observer has proven of the accumulator it is; a verified EXP is the exp2 of an  *)
(* accumulator all of whose active lanes carry the factor (mult_scale, accumulator_scale).  *)
ProvenScaleIsThere ==
    /\ acc.scale \subseteq acc.factor /\ post.scale \subseteq post.factor
    /\ \A m \in matches : m[1] = "A9_EXP" /\ m[2] = "verified" => m[3]
=============================================================================
