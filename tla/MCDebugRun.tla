----------------------------- MODULE MCDebugRun -----------------------------
(***************************************************************************)
(* Small instances of DebugRun: two IMEM entries and words that loop, halt, *)
(* break, fault and give up; the registers hardly matter.                  *)
(***************************************************************************)
EXTENDS DebugRun, TLC

Word0(brk, mult, store, cond) ==
  [brk |-> brk, lr |-> <<NOP>>, load |-> NOP, mult |-> mult, acc |-> NOP, aaq |-> NOP,
   store |-> store, acc_store |-> NOP, cond |-> cond]
MCCr == <<1>>
Back == [op |-> "BEQ", reg1 |-> 0, reg2 |-> 0, label |-> 0]
GivesUpInf == [op |-> "MULT.VE", ra_idx |-> 0, cr_idx |-> 1, pad |-> "inf"]
BreakAt == [op |-> "BREAK.IFEQ", reg |-> 0, value |-> 1]
StFault == [op |-> "ST.AAQ", offset |-> 0, base |-> 1]

BreakWord == Word0(BreakAt, NOP, NOP, NOP)
LoopWord == Word0(NOP, NOP, NOP, Back)
HaltWord == Word0(NOP, NOP, NOP, [op |-> "HALT"])
FaultWord == Word0([op |-> "BREAK"], NOP, StFault, NOP)
GiveUpWord == Word0([op |-> "BREAK"], GivesUpInf, NOP, NOP)
ReservedWord == Word0(NOP, RESERVED, NOP, NOP)

SafetyWords == {BreakWord, LoopWord, HaltWord, FaultWord, GiveUpWord, ReservedWord}
SafetyImem ==
  {(0 :> BreakWord @@ 1 :> w) : w \in SafetyWords} \cup {(0 :> GiveUpWord @@ 1 :> Empty)}
LoopImem == {(0 :> BreakWord @@ 1 :> LoopWord)}
SafetyHost == {ReservedWord}
OneRegs ==
  {[lr |-> (0 :> 1 @@ 1 :> 0), r |-> (0 :> 0 @@ 1 :> 0),
    r_cyclic |-> (0 :> 0 @@ 1 :> 0 @@ 2 :> 0 @@ 3 :> 0),
    r_mask |-> 0, mult_res |-> 0, r_acc |-> 0, post_aaq_reg |-> 0]}
OneXmem == {(0 :> 0 @@ 1 :> 0)}

=============================================================================
