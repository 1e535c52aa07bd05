------------------------------ MODULE MCCycle ------------------------------
(***************************************************************************)
(* Small instances of Cycle: two LRs of two bits (one LRD pair), an XMEM   *)
(* of two addressable rows and stores that cover two.                      *)
(***************************************************************************)
EXTENDS Cycle, TLC

Set(d, s) == [op |-> "SET", dest |-> d, src |-> s]
Add(d, a, b) == [op |-> "ADD", dest |-> d, src_a |-> a, src_b |-> b]
Sub(d, a, b) == [op |-> "SUB", dest |-> d, src_a |-> a, src_b |-> b]
Inc(d, i) == [op |-> "INC", dest |-> d, imm |-> i]
Dec(d, i) == [op |-> "DEC", dest |-> d, imm |-> i]
IncMod(d, s, m) == [op |-> "INC.MODP2", dest |-> d, step |-> s, modulus |-> m]
AddB(d, s) == [op |-> "ADDB", dest |-> d, src_b |-> s]
AddBI(d, i) == [op |-> "ADDBI", dest |-> d, imm |-> i]
Ld(d) == [op |-> "LD.MULT", dest |-> d, offset |-> 0, base |-> 1]
LdCyclic == [op |-> "LD.MULT.CYCLIC", offset |-> 0, base |-> 1, index |-> 1]
LdMask == [op |-> "LD.MASK", offset |-> 1, base |-> 1]
MultVV == [op |-> "MULT.RC.VV", rc_idx |-> 0, ra |-> 0, pad |-> "zero"]
MultVS == [op |-> "MULT.RC.VS", rc_idx |-> 1, pad |-> "zero"]
MultRcVE(s) == [op |-> "MULT.RC.VE", rc_idx |-> 0, src |-> s, pad |-> "zero"]
MultEE == [op |-> "MULT.EE", ra_idx |-> 1, cr_idx |-> 3, pad |-> "zero"]
MultVE(pad) == [op |-> "MULT.VE", ra_idx |-> 0, cr_idx |-> 2, pad |-> pad]
AccOp(name) == [op |-> name]
Stride(n) == [op |-> "ACC.STRIDE", quarters |-> n, offset |-> 0]
Reshape(lr, m) == [op |-> "ACC.RESHAPE", source |-> 0, dest |-> 0, mask_lr |-> lr, mask |-> m]
Act(f) == [op |-> "ACTIVATE.QUANTIZE", fn |-> f]
StAaq == [op |-> "ST.AAQ", offset |-> 0, base |-> 1]
StAcc == [op |-> "ST.ACC", offset |-> 1, base |-> 1]
Branch(name, t) == [op |-> name, reg1 |-> 0, reg2 |-> 1, label |-> t]
Br == [op |-> "BR", reg |-> 0]
Halt == [op |-> "HALT"]
Break == [op |-> "BREAK"]
BreakIf(v) == [op |-> "BREAK.IFEQ", reg |-> 0, value |-> v]

Word(brk, lr, load, mult, acc, aaq, store, accStore, cond) ==
  [brk |-> brk, lr |-> lr, load |-> load, mult |-> mult, acc |-> acc, aaq |-> aaq,
   store |-> store, acc_store |-> accStore, cond |-> cond]

MCCr == <<0, 1, 3>>
LrPairs ==
  {<<NOP, NOP>>, <<Inc(0, 1), Add(1, 0, 1)>>, <<Set(0, 3), Dec(1, 1)>>, <<AddBI(0, 3), NOP>>, <<AddB(0, 3), NOP>>,
   <<Sub(1, 0, 1), IncMod(0, 3, 2)>>, <<Inc(0, 1), AddBI(0, 1)>>}
Swap == <<Inc(0, 1), Dec(1, 1)>>
Loads == {NOP, Ld(0), LdCyclic, LdMask}
Identity == Act("identity")

\* Words whose LR slot decides what faults.
FaultingWords ==
  {Word(NOP, l, ld, NOP, a, NOP, NOP, sa, NOP) :
     l \in LrPairs, ld \in Loads, a \in {Stride(2), Reshape(TRUE, 1)}, sa \in {NOP, StAcc}}

\* Words whose slots feed one another, from LOAD to the stores.
PipelineWords ==
  {Word(NOP, Swap, ld, m, a, q, StAaq, NOP, NOP) :
     ld \in Loads, m \in {NOP, MultVV, MultVS, MultRcVE(1), MultRcVE(4), MultEE, MultVE("zero"), MultVE("inf")},
     a \in {AccOp("ACC.ADD"), AccOp("ACC.MAX")}, q \in {NOP, Act("relu")}}
  \cup
  {Word(NOP, Swap, NOP, MultVV, a, Identity, StAaq, StAcc, Halt) :
     a \in {NOP, AccOp("ACC.SUB"), AccOp("ACC.ADD.FIRST"), AccOp("ACC.SUB.FIRST"), AccOp("ACC.MAX.FIRST"), Reshape(FALSE, 1), Stride(1)}}

\* Words that branch, stop or hold a reserved code.
ControlWords ==
  {Word(BreakIf(1), l, NOP, NOP, NOP, NOP, NOP, NOP, c) :
     l \in LrPairs, c \in {Br, Halt} \cup {Branch(n, 0) : n \in {"BEQ", "BNE", "BLT.S", "BGE.S"}}}
  \cup {Word(RESERVED, Swap, Ld(1), RESERVED, NOP, NOP, NOP, NOP, NOP)}

SlotWords == FaultingWords \cup PipelineWords \cup ControlWords

SlotImem == [{0} -> SlotWords]

OneRegs ==
  {[lr |-> (0 :> a @@ 1 :> b), r |-> (0 :> 1 @@ 1 :> 2),
    r_cyclic |-> (0 :> 3 @@ 1 :> 1 @@ 2 :> 2 @@ 3 :> 0),
    r_mask |-> k, mult_res |-> 3, r_acc |-> 2, post_aaq_reg |-> 1] :
     a \in 0..3, b \in {0, 1, 3}, k \in {0, 1}}
SomeRegs == {g \in OneRegs : g.lr[0] = 0 /\ g.lr[1] = 0 /\ g.r_mask = 1}
OneXmem == {(0 :> 1 @@ 1 :> 2 @@ 2 :> 3)}

\* A few words for programs that are edited while two engines run them: one
\* sets LR0, one breaks and stores, one holds a reserved code and faults.
SetWord == Word(NOP, <<Set(0, 3), NOP>>, NOP, NOP, NOP, NOP, NOP, NOP, Branch("BNE", 0))
StoreWord == Word(Break, <<Set(0, 2), NOP>>, NOP, NOP, NOP, NOP, NOP, StAcc, NOP)
ReservedWord == Word(NOP, <<Set(0, 2), Set(0, 3)>>, NOP, RESERVED, NOP, NOP, NOP, NOP, NOP)
EditedWords == {SetWord, StoreWord, ReservedWord}
EditedImem == [0..1 -> {SetWord, ReservedWord}]
HostWrites == {StoreWord, Empty}

=============================================================================
