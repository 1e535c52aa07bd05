------------------------------ MODULE Machine ------------------------------
(***************************************************************************)
(* What an instruction word promises: one indivisible step.  Every slot    *)
(* acts at once, on the registers the word found or on the results of the  *)
(* same word that the timing contract forwards; or the word faults and     *)
(* leaves only the halt record and a sticky flag.  Cycle implements this   *)
(* with slots that run one after another on a shared register file.        *)
(***************************************************************************)
EXTENDS Isa, FiniteSetsExt

CONSTANTS
  Words,       \* instruction words that may be written into IMEM
  Empty,       \* an IMEM entry with no instruction
  NoHalt,      \* the halt record of a running program
  InitRegs,    \* the register files a host leaves for the first word
  InitXmem,    \* the memories it leaves
  InitImem,    \* the programs it loads
  HostWords,   \* what the host or a debugger writes into IMEM between words
  HostValues,  \* what it writes into an LR
  HostMay,     \* what else it does between words: HostActs, for a small instance
  MaxWords     \* bound on the words that run between two statistics resets

\* What an IMEM entry may hold.
ImemEntry == Words \cup {Empty}

HostActs == {"pc", "f1", "reset", "load"}

ASSUME MachineAssumption ==
  /\ Words \subseteq InstWord
  /\ Empty \notin Words
  /\ HostWords \subseteq ImemEntry
  /\ InitImem \subseteq [0..ImemSize - 1 -> ImemEntry]
  /\ InitRegs \subseteq RegFile
  /\ InitXmem \subseteq [RowIndex -> Value]
  /\ HostValues \subseteq Value
  /\ HostMay \subseteq HostActs
  /\ MaxWords \in Nat

VARIABLES
  regs,        \* IpuState.regfile
  xmem,        \* IpuState.xmem, by row
  pc,          \* IpuState.program_counter
  imem,        \* IpuState.inst_mem
  plen,        \* IpuState.program_length
  halt,        \* IpuState.halt
  sticky,      \* FaultControl.sticky
  f1on,        \* FaultControl.enable[F1]
  stats        \* RunStats: MULT and ACC activity

state == <<regs, xmem, pc, imem, plen, halt, sticky, f1on, stats>>

RunStats == [mult_active : Nat, mult_idle : Nat, acc_active : Nat]
NoStats == [mult_active |-> 0, mult_idle |-> 0, acc_active |-> 0]
FaultHalt(n, at) == [reason |-> "fault", pc |-> at, fault |-> n]
HaltHalt(at) == [reason |-> "halt", pc |-> at, fault |-> 0]

Busy == stats.mult_active + stats.mult_idle < MaxWords
Running == halt = NoHalt
Fetched == imem[pc]

-----------------------------------------------------------------------------
(* The effect of word `w` on the registers `g` and memory `m` it found *)

LrAfter(w, g) ==
  [l \in LrIndex |->
     IF \E i \in 1..SubSlots : l \in LrTargets(w.lr[i])
     THEN LrResult(w.lr[CHOOSE i \in 1..SubSlots : l \in LrTargets(w.lr[i])], l, g.lr)
     ELSE g.lr[l]]

MultAfter(w, g) ==
  Multiplied(w.mult, LrAfter(w, g), g.r, g.r_cyclic, g.r_mask, g.mult_res)

\* The registers after the slots up to MULT, and after the whole word.
FrontAfter(w, g, m) ==
  [Loaded(w.load, [g EXCEPT !.lr = LrAfter(w, g)], LrAfter(w, g), m)
     EXCEPT !.mult_res = MultAfter(w, g)]
AccAfter(w, g) == Accumulated(w.acc, LrAfter(w, g), MultAfter(w, g), g.r_acc)
PostAfter(w, g) == Quantized(w.aaq, AccAfter(w, g), g.post_aaq_reg)
RegsAfter(w, g, m) ==
  [FrontAfter(w, g, m) EXCEPT !.r_acc = AccAfter(w, g), !.post_aaq_reg = PostAfter(w, g)]

XmemAfter(w, g, m) ==
  Stored(w.acc_store, LrAfter(w, g),
         Stored(w.store, LrAfter(w, g), m, PostAfter(w, g), 0),
         AccAfter(w, g), AccAfter(w, g))

CountMult(w, st) ==
  IF w.mult = NOP THEN [st EXCEPT !.mult_idle = @ + 1] ELSE [st EXCEPT !.mult_active = @ + 1]
CountAcc(w, st) == IF w.acc = NOP THEN st ELSE [st EXCEPT !.acc_active = @ + 1]

\* The word's outcome is undefined by the ISA: the emulator gives up half way.
GivesUpInMult(w, g) == MultRaises(w.mult, g.r_mask)
GivesUp(w, g) == GivesUpInMult(w, g) \/ StrideRaises(w.acc, LrAfter(w, g))

\* Every fault of word `w`: F-1 when enabled, F-3, and F-4 to F-6 on the LRs
\* the LR slot gives (which two writers of one LR leave undefined).
WordFaults(w, g) ==
  (IF Reserved(w) /\ f1on THEN {1} ELSE {})
    \cup (IF LrConflict(Schedule(w)) THEN {3}
          ELSE CheckFaults(Schedule(w), LrAfter(Schedule(w), g)))

-----------------------------------------------------------------------------
Init ==
  /\ regs \in InitRegs
  /\ xmem \in InitXmem
  /\ pc = 0
  /\ imem \in InitImem
  /\ plen \in 0..ImemSize
  /\ halt = NoHalt
  /\ sticky = {}
  /\ f1on = TRUE
  /\ stats = NoStats

Fault(n) ==
  /\ halt' = FaultHalt(n, pc)
  /\ sticky' = sticky \cup {n}
  /\ UNCHANGED <<regs, xmem, pc, imem, plen, f1on, stats>>

FetchFault == Running /\ pc >= plen /\ Fault(2)

\* The lowest-numbered of a word's faults halts the machine; nothing else changes.
WordFault ==
  /\ Running /\ pc < plen /\ Fetched # Empty
  /\ WordFaults(Fetched, regs) # {}
  /\ Fault(Min(WordFaults(Fetched, regs)))

\* A debugger looks at a word, or a run begins it: a disabled F-1 becomes sticky.
Notice ==
  /\ Running /\ pc < plen /\ Fetched # Empty /\ Reserved(Fetched) /\ ~f1on
  /\ sticky' = sticky \cup {1}
  /\ UNCHANGED <<regs, xmem, pc, imem, plen, halt, f1on, stats>>

Idle ==
  /\ Running /\ Busy /\ pc < plen /\ Fetched = Empty
  /\ pc' = pc + 1
  /\ stats' = [stats EXCEPT !.mult_idle = @ + 1]
  /\ UNCHANGED <<regs, xmem, imem, plen, halt, sticky, f1on>>

\* A legal word takes effect, all slots at once.
Retire ==
  /\ Running /\ Busy /\ pc < plen /\ Fetched # Empty
  /\ WordFaults(Fetched, regs) = {}
  /\ LET w == Schedule(Fetched) IN
       /\ ~GivesUp(w, regs)
       /\ regs' = RegsAfter(w, regs, xmem)
       /\ xmem' = XmemAfter(w, regs, xmem)
       /\ pc' = NextPc(w.cond, regs.lr, pc)
       /\ halt' = IF w.cond.op = "HALT" THEN HaltHalt(pc) ELSE halt
       /\ stats' = CountAcc(w, CountMult(w, stats))
  /\ UNCHANGED <<imem, plen, sticky, f1on>>

\* An undefined word stops where the emulator notices: the LR, LOAD and MULT
\* slots have acted, the others have not, and the machine has not moved on.
GiveUp ==
  /\ Running /\ Busy /\ pc < plen /\ Fetched # Empty
  /\ WordFaults(Fetched, regs) = {}
  /\ LET w == Schedule(Fetched) IN
       /\ GivesUp(w, regs)
       /\ regs' = FrontAfter(w, regs, xmem)
       /\ stats' = IF GivesUpInMult(w, regs) THEN CountMult(w, stats)
                   ELSE CountAcc(w, CountMult(w, stats))
  /\ UNCHANGED <<xmem, pc, imem, plen, halt, sticky, f1on>>

-----------------------------------------------------------------------------
(* Between words: the host and the debugger *)

WriteImem ==
  /\ \E p \in 0..ImemSize - 1, w \in HostWords : imem' = [imem EXCEPT ![p] = w]
  /\ UNCHANGED <<regs, xmem, pc, plen, halt, sticky, f1on, stats>>

WriteLr ==
  /\ \E l \in LrIndex, v \in HostValues : regs' = [regs EXCEPT !.lr[l] = v]
  /\ UNCHANGED <<xmem, pc, imem, plen, halt, sticky, f1on, stats>>

SetPc ==
  /\ "pc" \in HostMay
  /\ pc' \in 0..ImemSize
  /\ UNCHANGED <<regs, xmem, imem, plen, halt, sticky, f1on, stats>>

SetF1 ==
  /\ "f1" \in HostMay
  /\ f1on' \in BOOLEAN
  /\ UNCHANGED <<regs, xmem, pc, imem, plen, halt, sticky, stats>>

BeginRun ==
  /\ halt' = NoHalt
  /\ stats' \in {stats} \cup (IF "reset" \in HostMay THEN {NoStats} ELSE {})
  /\ UNCHANGED <<regs, xmem, pc, imem, plen, sticky, f1on>>

Next ==
  \/ FetchFault \/ WordFault \/ Notice \/ Idle \/ Retire \/ GiveUp
  \/ WriteImem \/ WriteLr \/ SetPc \/ SetF1 \/ BeginRun

Spec == Init /\ [][Next]_state

=============================================================================
