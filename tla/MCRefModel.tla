----------------------------- MODULE MCRefModel -----------------------------
(***************************************************************************)
(* Small instances of RefModel: programs of two words that loop, run off   *)
(* IMEM, break, halt, fault and give up.                                   *)
(***************************************************************************)
EXTENDS RefModel, TLC

PlainSlots(brk, mult, cond) ==
  [brk |-> brk, lr |-> <<NOP>>, load |-> NOP, mult |-> mult, acc |-> NOP, aaq |-> NOP,
   store |-> NOP, acc_store |-> NOP, cond |-> cond]
MCCr == <<1>>
Stop0 == [op |-> "BREAK"]
Inf == [op |-> "MULT.VE", ra_idx |-> 0, cr_idx |-> 1, pad |-> "inf"]

Steps == PlainSlots(Stop0, NOP, NOP)
Loops == PlainSlots(NOP, NOP, [op |-> "BEQ", reg1 |-> 0, reg2 |-> 0, label |-> 0])
Halts == PlainSlots(NOP, NOP, [op |-> "HALT"])
Faulty == PlainSlots(NOP, RESERVED, NOP)
GivesUpWord == PlainSlots(NOP, Inf, NOP)

Program(w) == (0 :> Steps @@ 1 :> w)
ApiWords == {Steps, Loops, Halts, Faulty, GivesUpWord}
ApiImem == {Program(w) : w \in {Loops, Halts, Faulty, GivesUpWord}}
ErrorImem == {Program(GivesUpWord)}
OneRegs ==
  {[lr |-> (0 :> 0 @@ 1 :> 0), r |-> (0 :> 0 @@ 1 :> 0),
    r_cyclic |-> (0 :> 0 @@ 1 :> 0 @@ 2 :> 0 @@ 3 :> 0),
    r_mask |-> 0, mult_res |-> 0, r_acc |-> 0, post_aaq_reg |-> 0]}
OneXmem == {(0 :> 0 @@ 1 :> 0)}

=============================================================================
