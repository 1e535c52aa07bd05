------------------------------- MODULE Timing -------------------------------
(***************************************************************************)
(* The timing contract of one instruction word (ipu_isa/timing.py): the    *)
(* order the slots run in, which slot writes which register, and whether a *)
(* read of a register by a slot sees the value the register held when the  *)
(* word began or the value earlier slots of the same word gave it.         *)
(***************************************************************************)
EXTENDS Naturals, Sequences

CycleStart == "cycle_start"
Forwarded == "forwarded"

\* The slots in the order they execute; BREAK is evaluated before any write.
SlotExecutionOrder ==
  <<"break", "lr", "load", "mult", "acc", "aaq", "store", "acc_store", "cond">>

Slots == {SlotExecutionOrder[i] : i \in 1..Len(SlotExecutionOrder)}

\* The registers of the machine, by the names of REGISTER_DEFINITIONS.
Registers == {"lr", "cr", "r", "r_cyclic", "r_mask", "mult_res", "r_acc", "post_aaq_reg"}

\* The Control stage, whose every read is at cycle start.
ControlSlots == {"lr", "cond", "break"}

\* The slots with an instruction that writes each register.
RegisterWriters ==
  [lr |-> {"lr"}, cr |-> {}, r |-> {"load"}, r_cyclic |-> {"load"}, r_mask |-> {"load"},
   mult_res |-> {"mult"}, r_acc |-> {"acc"}, post_aaq_reg |-> {"aaq"}]

Precedes(producer, reader) ==
  \E i, j \in 1..Len(SlotExecutionOrder) :
    i < j /\ SlotExecutionOrder[i] = producer /\ SlotExecutionOrder[j] = reader

\* The view the contract gives a read of `register` by an instruction in `slot`.
ContractView(slot, register) ==
  IF slot \in ControlSlots THEN CycleStart                              \* rules 1 and 4
  ELSE IF register = "lr" THEN Forwarded                                \* rule 1
  ELSE IF slot = "mult" /\ register \in {"r", "r_cyclic", "r_mask"}
       THEN CycleStart                                                  \* rule 2
  ELSE IF <<register, slot>> \in {<<"mult_res", "acc">>, <<"r_acc", "aaq">>}
       THEN Forwarded                                                   \* rule 3
  ELSE IF RegisterWriters[register] # {}
          /\ \A producer \in RegisterWriters[register] : Precedes(producer, slot)
       THEN Forwarded
  ELSE CycleStart

=============================================================================
