------------------------------- MODULE Cycle -------------------------------
(***************************************************************************)
(* The cycle (ipu_emu/cycle.py): how the emulator runs one instruction     *)
(* word.  Slots run one after another on one live register file; a read    *)
(* comes from the cycle-start snapshot or from the live file, as the       *)
(* timing contract says.  Faults of register values are found by a check   *)
(* phase after the LR slot, which has by then written LRs and undoes them. *)
(* Each engine caches the schedule of every PC it ran until IMEM there is  *)
(* written.                                                                *)
(***************************************************************************)
EXTENDS Machine, Timing

CONSTANTS
  Engines,     \* the Cycle objects driving one IpuState
  NoEntry      \* no schedule is cached, or no word is in flight

\* What an engine's cache holds for a PC.
CacheEntry == ImemEntry \cup {NoEntry}

ASSUME CycleAssumption == NoEntry \notin ImemEntry

VARIABLES
  cache,       \* Cycle._schedules of each engine: the word a schedule was built from
  snapshot,    \* Cycle._buffer: the register file as the word found it
  stage,       \* the next slot to run, or "between" words
  sub,         \* the next LR sub-slot
  word,        \* the schedule of the word in flight
  start        \* (history) the state the word in flight began in

engine == <<cache, snapshot, stage, sub, word, start>>
vars == <<state, engine>>

Between == stage = "between"
InFlight == ~Between
NoWord == [brk |-> NOP, lr |-> [i \in 1..SubSlots |-> NOP], load |-> NOP, mult |-> NOP,
           acc |-> NOP, aaq |-> NOP, store |-> NOP, acc_store |-> NOP, cond |-> NOP]

CycleInit ==
  /\ Init
  /\ cache = [e \in Engines |-> [p \in 0..ImemSize - 1 |-> NoEntry]]
  /\ snapshot = regs
  /\ stage = "between"
  /\ sub = 1
  /\ word = NoWord
  /\ start = NoEntry

\* (mutant: every read sees the live file)
LiveSource(slot, register) == regs

\* The register file a read of `register` by `slot` comes from (CycleView.source).
Source(slot, register) ==
  IF ContractView(slot, register) = CycleStart THEN snapshot ELSE regs

LrFor(slot) == Source(slot, "lr").lr

-----------------------------------------------------------------------------
(* Fetch, BREAK, and the faults found before any slot runs *)

\* The entry an engine's next cycle at the PC uses, and the cache it leaves.
Entry(e) == IF cache[e][pc] # NoEntry THEN cache[e][pc] ELSE imem[pc]
Fill(e) == cache' = [cache EXCEPT ![e][pc] = Entry(e)]

RecordFault(n) == halt' = FaultHalt(n, pc) /\ sticky' = sticky \cup {n}

CanFetch == Between /\ Running /\ pc < plen

FetchPastProgram ==
  /\ Between /\ Running /\ pc >= plen
  /\ RecordFault(2)
  /\ UNCHANGED <<regs, xmem, pc, imem, plen, f1on, stats, engine>>

ReservedFault(e) ==
  /\ CanFetch /\ Entry(e) # Empty /\ Reserved(Entry(e)) /\ f1on
  /\ Fill(e)
  /\ RecordFault(1)
  /\ UNCHANGED <<regs, xmem, pc, imem, plen, f1on, stats, snapshot, stage, sub, word, start>>

StickyAfterFetch(e) == IF Reserved(Entry(e)) THEN sticky \cup {1} ELSE sticky

\* The BREAK slot is evaluated on a fresh snapshot and nothing is retired:
\* evaluate_break, and a step that its BREAK slot stops.
EvaluateBreak(e) ==
  /\ CanFetch /\ Entry(e) # Empty /\ ~(Reserved(Entry(e)) /\ f1on)
  /\ Fill(e)
  /\ sticky' = StickyAfterFetch(e)
  /\ snapshot' = regs
  /\ UNCHANGED <<regs, xmem, pc, imem, plen, halt, f1on, stats, stage, sub, word, start>>

\* evaluate_break of an empty word only caches that it is empty.
EvaluateEmpty(e) ==
  /\ CanFetch /\ Entry(e) = Empty
  /\ Fill(e)
  /\ UNCHANGED <<state, snapshot, stage, sub, word, start>>

\* An empty word: the multiplier idles and the PC advances.
IdleWord(e) ==
  /\ CanFetch /\ Busy /\ Entry(e) = Empty
  /\ Fill(e)
  /\ stats' = [stats EXCEPT !.mult_idle = @ + 1]
  /\ pc' = pc + 1
  /\ UNCHANGED <<regs, xmem, imem, plen, halt, sticky, f1on, snapshot, stage, sub, word, start>>

\* A word passes fetch and begins: retire, or a step whose BREAK does not stop it.
Begin(e) ==
  /\ CanFetch /\ Busy /\ Entry(e) # Empty /\ ~(Reserved(Entry(e)) /\ f1on)
  /\ Fill(e)
  /\ sticky' = StickyAfterFetch(e)
  /\ snapshot' = regs
  /\ start' = [regs |-> regs, xmem |-> xmem, pc |-> pc, stats |-> stats]
  /\ word' = Schedule(Entry(e))
  /\ stage' = "lr"
  /\ sub' = 1
  /\ UNCHANGED <<regs, xmem, pc, imem, plen, halt, f1on, stats>>

-----------------------------------------------------------------------------
(* The slots *)

Goto(next) == stage' = next /\ UNCHANGED <<cache, snapshot, sub, word, start>>
\* The word is over: its locals are gone.
End ==
  /\ stage' = "between" /\ sub' = 1 /\ word' = NoWord /\ start' = NoEntry
  /\ UNCHANGED <<cache, snapshot>>

\* A slot that reads and writes registers only.
Sets(file) == regs' = file /\ UNCHANGED <<xmem, pc, imem, plen, halt, sticky, f1on>>
\* A fault found in a word that has begun ends it.
FaultInWord(n) ==
  /\ RecordFault(n)
  /\ End
  /\ UNCHANGED <<xmem, pc, imem, plen, f1on, stats>>

LrFault == stage = "lr" /\ sub = 1 /\ LrConflict(word) /\ FaultInWord(3) /\ UNCHANGED regs

\* One LR sub-slot writes its LRs into the live file.
LrSubSlot ==
  /\ stage = "lr" /\ sub <= SubSlots
  /\ ~(sub = 1 /\ LrConflict(word))
  /\ LET op == word.lr[sub] IN
       Sets([regs EXCEPT !.lr = [l \in LrIndex |->
                IF l \in LrTargets(op) THEN LrResult(op, l, LrFor("lr")) ELSE regs.lr[l]]])
  /\ sub' = sub + 1
  /\ UNCHANGED <<stats, cache, snapshot, stage, word, start>>

LrDone ==
  /\ stage = "lr" /\ sub > SubSlots
  /\ Goto("check")
  /\ UNCHANGED state

\* The faults the check phase finds, each predicate on the LRs its slot reads.
Found ==
  LoadFault(word.load, LrFor("load")) \cup AccFault(word.acc, LrFor("acc"))
    \cup StoreFault(word.store, LrFor("store")) \cup StoreFault(word.acc_store, LrFor("acc_store"))

\* (mutant: the LR writes of a word that faults stay)
CheckFaultKeepsLrs ==
  /\ stage = "check" /\ Found # {}
  /\ FaultInWord(Min(Found))
  /\ UNCHANGED regs

\* The check phase undoes the LR writes and raises the lowest-numbered fault.
CheckFault ==
  /\ stage = "check" /\ Found # {}
  /\ regs' = [regs EXCEPT !.lr = snapshot.lr]
  /\ FaultInWord(Min(Found))

CheckPass ==
  /\ stage = "check" /\ Found = {}
  /\ Goto("load")
  /\ UNCHANGED state

Load ==
  /\ stage = "load"
  /\ Sets(Loaded(word.load, regs, LrFor("load"), xmem))
  /\ Goto("mult")
  /\ UNCHANGED stats

\* MULT writes MULT_RES; a pad value the accumulator cannot hold raises after.
Mult ==
  /\ stage = "mult"
  /\ Sets([regs EXCEPT !.mult_res =
        Multiplied(word.mult, LrFor("mult"), Source("mult", "r").r,
                   Source("mult", "r_cyclic").r_cyclic, Source("mult", "r_mask").r_mask, @)])
  /\ stats' = CountMult(word, stats)
  /\ IF MultRaises(word.mult, Source("mult", "r_mask").r_mask) THEN End ELSE Goto("acc")

AccRaises == StrideRaises(word.acc, LrFor("acc"))

Acc ==
  /\ stage = "acc"
  /\ Sets(IF AccRaises THEN regs
          ELSE [regs EXCEPT !.r_acc =
                  Accumulated(word.acc, LrFor("acc"), Source("acc", "mult_res").mult_res,
                              Source("acc", "r_acc").r_acc)])
  /\ stats' = CountAcc(word, stats)
  /\ IF AccRaises THEN End ELSE Goto("aaq")

Aaq ==
  /\ stage = "aaq"
  /\ Sets([regs EXCEPT !.post_aaq_reg = Quantized(word.aaq, Source("aaq", "r_acc").r_acc, @)])
  /\ Goto("store")
  /\ UNCHANGED stats

Store ==
  /\ stage = "store"
  /\ xmem' = Stored(word.store, LrFor("store"), xmem,
                    Source("store", "post_aaq_reg").post_aaq_reg, 0)
  /\ Goto("acc_store")
  /\ UNCHANGED <<regs, pc, imem, plen, halt, sticky, f1on, stats>>

AccStore ==
  /\ stage = "acc_store"
  /\ LET acc == Source("acc_store", "r_acc").r_acc IN
       xmem' = Stored(word.acc_store, LrFor("acc_store"), xmem, acc, acc)
  /\ Goto("cond")
  /\ UNCHANGED <<regs, pc, imem, plen, halt, sticky, f1on, stats>>

\* COND runs last: it moves the PC, and HALT records the halt of this word.
Cond ==
  /\ stage = "cond"
  /\ pc' = NextPc(word.cond, LrFor("cond"), pc)
  /\ halt' = IF word.cond.op = "HALT" THEN HaltHalt(pc) ELSE halt
  /\ End
  /\ UNCHANGED <<regs, xmem, imem, plen, sticky, f1on, stats>>

Slot ==
  \/ LrFault \/ LrSubSlot \/ LrDone \/ CheckFault \/ CheckPass
  \/ Load \/ Mult \/ Acc \/ Aaq \/ Store \/ AccStore \/ Cond

-----------------------------------------------------------------------------
(* Between words: the host, the debugger and the run *)

\* (mutant: one engine alone observes IMEM)
DropOneSchedule(p) == cache' = [cache EXCEPT ![CHOOSE e \in Engines : TRUE][p] = NoEntry]

\* A write to IMEM tells every engine's write observer, which drops its schedule.
DropSchedules(p) == cache' = [e \in Engines |-> [cache[e] EXCEPT ![p] = NoEntry]]

HostWriteImem ==
  /\ Between
  /\ \E p \in 0..ImemSize - 1, w \in HostWords :
       imem' = [imem EXCEPT ![p] = w] /\ DropSchedules(p)
  /\ UNCHANGED <<regs, xmem, pc, plen, halt, sticky, f1on, stats, snapshot, stage, sub, word, start>>

HostWriteLr == Between /\ WriteLr /\ UNCHANGED engine
HostSetPc == Between /\ SetPc /\ UNCHANGED engine
HostSetF1 == Between /\ SetF1 /\ UNCHANGED engine
RunBegins == Between /\ BeginRun /\ UNCHANGED engine

\* Cycle.reset: an engine forgets its schedules.
ResetEngine(e) ==
  /\ Between
  /\ cache' = [cache EXCEPT ![e] = [p \in 0..ImemSize - 1 |-> NoEntry]]
  /\ UNCHANGED <<state, snapshot, stage, sub, word, start>>

CycleNext ==
  \/ FetchPastProgram
  \/ \E e \in Engines : \/ ReservedFault(e) \/ EvaluateBreak(e) \/ EvaluateEmpty(e)
                        \/ IdleWord(e) \/ Begin(e) \/ ResetEngine(e)
  \/ Slot
  \/ HostWriteImem \/ HostWriteLr \/ HostSetPc \/ HostSetF1 \/ RunBegins

CycleSpec == CycleInit /\ [][CycleNext]_vars

-----------------------------------------------------------------------------
(* Properties *)

HaltRecords == {NoHalt} \cup [reason : {"fault", "halt"}, pc : Nat, fault : 0..9]

\* Every variable holds what its Python attribute may hold.
TypeOK ==
  /\ regs \in RegFile /\ snapshot \in RegFile
  /\ xmem \in [RowIndex -> Value]
  /\ pc \in Nat /\ plen \in 0..ImemSize
  /\ imem \in [0..ImemSize - 1 -> ImemEntry]
  /\ cache \in [Engines -> [0..ImemSize - 1 -> CacheEntry]]
  /\ halt \in HaltRecords /\ sticky \subseteq Faults /\ f1on \in BOOLEAN
  /\ stats \in RunStats
  /\ stage \in {"between", "check"} \cup (Slots \ {"break"})
  /\ sub \in 1..SubSlots + 1
  /\ word \in Scheduled
  /\ start \in [regs : RegFile, xmem : [RowIndex -> Value], pc : Nat, stats : RunStats]
       \cup {NoEntry}

\* No engine ever runs a schedule of a word that IMEM no longer holds: a word a
\* debugger writes at a stop is the word the resumed cycle runs (E04-08).
FreshSchedules ==
  \A e \in Engines, p \in 0..ImemSize - 1 : cache[e][p] \in {NoEntry, imem[p]}

FaultStep == halt' # halt /\ halt' # NoHalt /\ halt'.reason = "fault"

\* A fault is precise (E04-20): it leaves the registers, XMEM, the PC and the
\* statistics as the faulting word found them, whatever the LR slot had written.
PreciseFault ==
  [][FaultStep => /\ regs' = IF Between THEN regs ELSE start.regs
                  /\ xmem' = IF Between THEN xmem ELSE start.xmem
                  /\ pc' = IF Between THEN pc ELSE start.pc
                  /\ stats' = IF Between THEN stats ELSE start.stats]_vars

Atomic == INSTANCE Machine WITH
  regs <- IF Between THEN regs ELSE start.regs,
  xmem <- IF Between THEN xmem ELSE start.xmem,
  stats <- IF Between THEN stats ELSE start.stats

\* The slots of a word, run one after another on a snapshot and a live file,
\* have together the effect of one step in which all act at once (Q32), and a
\* faulting word halts on its lowest-numbered fault (IPU-FLT-8).
WordsAreAtomic == Atomic!Spec

=============================================================================
