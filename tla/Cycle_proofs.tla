---------------------------- MODULE Cycle_proofs ----------------------------
(***************************************************************************)
(* Theorems about Cycle, for every program, every register width and any   *)
(* number of engines.  Types, fresh schedules and precise faults come from *)
(* one inductive invariant, CycleInv.  With what each stage of a word has  *)
(* computed, Computed, it shows that Cycle implements Machine: the slots   *)
(* of a word have together the effect of one indivisible step.             *)
(***************************************************************************)
EXTENDS Cycle, Machine_proofs

Entries == 0..ImemSize - 1
StartRecord == [regs : RegFile, xmem : [RowIndex -> Value], pc : Nat, stats : RunStats]

\* What a word in flight has done so far, against the state it began in: up to
\* the check phase only LRs have changed, and after it no address can fault.
WordSoFar ==
  InFlight =>
    /\ start \in StartRecord
    /\ snapshot = start.regs /\ pc = start.pc
    /\ stage \in {"lr", "check"} =>
         /\ regs = [start.regs EXCEPT !.lr = regs.lr]
         /\ xmem = start.xmem /\ stats = start.stats
    /\ stage = "lr" /\ sub = 1 => regs = start.regs
    /\ stage \notin {"lr", "check"} => Found = {}

CycleInv == TypeOK /\ FreshSchedules /\ WordSoFar

-----------------------------------------------------------------------------
(* Facts about the operators of Cycle *)

LEMMA RunStatsFacts ==
  ASSUME NEW w, NEW st \in RunStats
  PROVE  /\ CountMult(w, st) \in RunStats /\ CountAcc(w, st) \in RunStats
         /\ [st EXCEPT !.mult_idle = @ + 1] \in RunStats
BY DEF CountMult, CountAcc, RunStats

LEMMA SourceType ==
  ASSUME TypeOK, NEW slot, NEW register
  PROVE  Source(slot, register) \in RegFile /\ LrFor(slot) \in LrFile
BY DEF TypeOK, Source, LrFor, RegFile, LrFile

LEMMA NoWordScheduled == NoWord \in Scheduled
BY DEF NoWord, Scheduled, WordsWith, LrOps, LoadOps, MultOps, AccOps, AaqOps, StoreOps,
       AccStoreOps, CondOps, BreakOps, NOP

\* A set of fault numbers has a smallest one.
LEMMA MinFault ==
  ASSUME NEW S, S \subseteq {4, 5, 6}, S # {}
  PROVE  Min(S) \in S
<1>1. \E x \in S : \A y \in S : x <= y
  <2>1. CASE 4 \in S
    BY <2>1
  <2>2. CASE 4 \notin S /\ 5 \in S
    BY <2>2
  <2>3. CASE 4 \notin S /\ 5 \notin S
    <3>1. 6 \in S /\ \A y \in S : y = 6
      BY <2>3
    <3>2. QED
      BY <3>1
  <2>4. QED
    BY <2>1, <2>2, <2>3
<1>2. QED
  BY <1>1 DEF Min

LEMMA FoundFaults == Found \subseteq {4, 5, 6}
BY DEF Found, LoadFault, AccFault, StoreFault

-----------------------------------------------------------------------------
(* Fetch *)

\* The entry a fetch uses is the one in IMEM, which the caches then agree with.
LEMMA FetchFresh ==
  ASSUME CycleInv, NEW e \in Engines, CanFetch, Fill(e), UNCHANGED imem
  PROVE  /\ pc \in Entries /\ Entry(e) = imem[pc] /\ Entry(e) \in ImemEntry
         /\ cache' \in [Engines -> [Entries -> CacheEntry]]
         /\ FreshSchedules'
<1>1. pc \in Entries
  BY IsaAssumption DEF CycleInv, TypeOK, CanFetch, Entries
<1>2. cache \in [Engines -> [Entries -> CacheEntry]] /\ imem \in [Entries -> ImemEntry]
  BY DEF CycleInv, TypeOK, Entries
<1>3. Entry(e) = imem[pc]
  BY <1>1, <1>2 DEF Entry, CycleInv, FreshSchedules, Entries
<1>4. imem[pc] \in ImemEntry /\ imem[pc] \in CacheEntry
  BY <1>1, <1>2 DEF CacheEntry
<1>5. cache' \in [Engines -> [Entries -> CacheEntry]]
  BY <1>1, <1>2, <1>3, <1>4 DEF Fill
<1>6. FreshSchedules'
  BY <1>1, <1>2, <1>3 DEF Fill, CycleInv, FreshSchedules, Entries
<1>7. QED
  BY <1>1, <1>3, <1>4, <1>5, <1>6

\* The entries an instruction word is decoded from.
LEMMA EntryWord ==
  ASSUME CycleInv, NEW e \in Engines, CanFetch, Fill(e), UNCHANGED imem, Entry(e) # Empty
  PROVE  Schedule(Entry(e)) \in Scheduled
BY FetchFresh, ScheduleType, MachineAssumption DEF ImemEntry

LEMMA InitInv == CycleInit => CycleInv
<1> SUFFICES ASSUME CycleInit PROVE CycleInv
  OBVIOUS
<1>1. FreshSchedules
  BY DEF CycleInit, FreshSchedules
<1>2. WordSoFar
  BY DEF CycleInit, WordSoFar, InFlight, Between
<1>3. NoStats \in RunStats
  BY DEF NoStats, RunStats
<1>4. TypeOK
  BY <1>3, MachineAssumption, IsaAssumption, NoWordScheduled
  DEF CycleInit, Init, TypeOK, HaltRecords, CacheEntry
<1>5. QED
  BY <1>1, <1>2, <1>4 DEF CycleInv

LEMMA FaultRecord ==
  ASSUME NEW n \in Faults, NEW at \in Nat
  PROVE  FaultHalt(n, at) \in HaltRecords
BY DEF FaultHalt, HaltRecords, Faults

LEMMA PastProgramInv ==
  ASSUME CycleInv, FetchPastProgram
  PROVE  CycleInv'
<1>1. FaultHalt(2, pc) \in HaltRecords
  BY FaultRecord DEF CycleInv, TypeOK, Faults
<1>2. TypeOK'
  BY <1>1 DEF FetchPastProgram, RecordFault, CycleInv, TypeOK, engine, Faults
<1>3. FreshSchedules'
  BY DEF FetchPastProgram, CycleInv, FreshSchedules, engine
<1>4. WordSoFar'
  BY DEF FetchPastProgram, WordSoFar, InFlight, Between, engine
<1>5. QED
  BY <1>2, <1>3, <1>4 DEF CycleInv

LEMMA FetchInv ==
  ASSUME CycleInv, NEW e \in Engines,
         \/ ReservedFault(e) \/ EvaluateBreak(e) \/ EvaluateEmpty(e)
         \/ IdleWord(e) \/ Begin(e)
  PROVE  CycleInv'
<1>1. CASE ReservedFault(e)
  <2>1. FaultHalt(1, pc) \in HaltRecords
    BY FaultRecord DEF CycleInv, TypeOK, Faults
  <2>2. cache' \in [Engines -> [Entries -> CacheEntry]] /\ FreshSchedules'
    BY <1>1, FetchFresh DEF ReservedFault
  <2>3. TypeOK'
    BY <1>1, <2>1, <2>2 DEF ReservedFault, RecordFault, CycleInv, TypeOK, Entries, Faults
  <2>4. WordSoFar'
    BY <1>1 DEF ReservedFault, CanFetch, WordSoFar, InFlight, Between
  <2>5. QED
    BY <2>2, <2>3, <2>4 DEF CycleInv
<1>2. CASE EvaluateBreak(e)
  <2>1. cache' \in [Engines -> [Entries -> CacheEntry]] /\ FreshSchedules'
    BY <1>2, FetchFresh DEF EvaluateBreak
  <2>2. TypeOK'
    BY <1>2, <2>1 DEF EvaluateBreak, StickyAfterFetch, CycleInv, TypeOK, Entries, Faults
  <2>3. WordSoFar'
    BY <1>2 DEF EvaluateBreak, CanFetch, WordSoFar, InFlight, Between
  <2>4. QED
    BY <2>1, <2>2, <2>3 DEF CycleInv
<1>3. CASE IdleWord(e)
  <2>1. cache' \in [Engines -> [Entries -> CacheEntry]] /\ FreshSchedules'
    BY <1>3, FetchFresh DEF IdleWord
  <2>2. stats' \in RunStats
    BY <1>3, RunStatsFacts DEF IdleWord, CycleInv, TypeOK
  <2>3. TypeOK'
    BY <1>3, <2>1, <2>2 DEF IdleWord, CycleInv, TypeOK, Entries
  <2>4. WordSoFar'
    BY <1>3 DEF IdleWord, CanFetch, WordSoFar, InFlight, Between
  <2>5. QED
    BY <2>1, <2>3, <2>4 DEF CycleInv
<1>4. CASE Begin(e)
  <2>1. cache' \in [Engines -> [Entries -> CacheEntry]] /\ FreshSchedules'
    BY <1>4, FetchFresh DEF Begin
  <2>2. word' \in Scheduled
    BY <1>4, EntryWord DEF Begin
  <2>3. start' \in StartRecord
    BY <1>4 DEF Begin, StartRecord, CycleInv, TypeOK
  <2>4. TypeOK'
    BY <1>4, <2>1, <2>2, <2>3, IsaAssumption
    DEF Begin, StickyAfterFetch, CycleInv, TypeOK, Entries, Faults, StartRecord, Slots, SlotExecutionOrder
  <2>5. regs = [regs EXCEPT !.lr = regs.lr]
    BY DEF CycleInv, TypeOK, RegFile
  <2>6. WordSoFar'
    BY <1>4, <2>3, <2>5 DEF Begin, WordSoFar
  <2>7. QED
    BY <2>1, <2>4, <2>6 DEF CycleInv
<1>5. CASE EvaluateEmpty(e)
  <2>1. cache' \in [Engines -> [Entries -> CacheEntry]] /\ FreshSchedules'
    BY <1>5, FetchFresh DEF EvaluateEmpty, state
  <2>2. TypeOK'
    BY <1>5, <2>1 DEF EvaluateEmpty, CycleInv, TypeOK, Entries, state
  <2>3. WordSoFar'
    BY <1>5 DEF EvaluateEmpty, CanFetch, WordSoFar, InFlight, Between
  <2>4. QED
    BY <2>1, <2>2, <2>3 DEF CycleInv
<1>6. QED
  BY <1>1, <1>2, <1>3, <1>4, <1>5

-----------------------------------------------------------------------------
(* The slots *)

LEMMA StageNames ==
  Slots = {"break", "lr", "load", "mult", "acc", "aaq", "store", "acc_store", "cond"}
BY DEF Slots, SlotExecutionOrder

\* A step of a word in flight leaves IMEM and the caches alone.
LEMMA SlotKeepsCaches ==
  ASSUME CycleInv, Slot
  PROVE  FreshSchedules' /\ UNCHANGED <<imem, plen, cache, f1on>>
<1>1. UNCHANGED <<imem, plen, cache, f1on>>
  BY DEF Slot, LrFault, LrSubSlot, LrDone, CheckFault, CheckPass, Load, Mult, Acc, Aaq, Store,
         AccStore, Cond, Sets, Goto, End, FaultInWord, state
<1>2. QED
  BY <1>1 DEF CycleInv, FreshSchedules

\* A word that ends leaves nothing in flight.
LEMMA EndInv ==
  ASSUME CycleInv, End
  PROVE  WordSoFar' /\ sub' \in 1..SubSlots + 1 /\ word' \in Scheduled
         /\ start' = NoEntry /\ snapshot' \in RegFile
<1>1. WordSoFar'
  BY DEF End, WordSoFar, InFlight, Between
<1>2. sub' \in 1..SubSlots + 1
  <2>1. sub' = 1 /\ SubSlots \in Nat
    BY IsaAssumption DEF End
  <2>2. QED
    BY <2>1
<1>3. word' \in Scheduled /\ start' = NoEntry
  BY NoWordScheduled DEF End
<1>4. snapshot' \in RegFile
  BY DEF End, CycleInv, TypeOK
<1>5. QED
  BY <1>1, <1>2, <1>3, <1>4

\* Once checked, a word's addresses stay legal: no later slot writes an LR.
LEMMA FoundKept ==
  ASSUME regs'.lr = regs.lr, UNCHANGED <<snapshot, word>>
  PROVE  Found' = Found
BY DEF Found, LrFor, Source

\* A slot after the check phase that moves on to the next one.
LEMMA DataSlotInv ==
  ASSUME CycleInv, Slot, NEW next \in {"mult", "acc", "aaq", "store", "acc_store", "cond"},
         stage \notin {"between", "lr", "check"}, Goto(next),
         regs' \in RegFile, regs'.lr = regs.lr, xmem' \in Memory, stats' \in RunStats,
         UNCHANGED <<pc, halt, sticky>>
  PROVE  CycleInv'
<1>1. FreshSchedules' /\ UNCHANGED <<imem, plen, cache, f1on>>
  BY SlotKeepsCaches
<1>2. TypeOK'
  BY <1>1, StageNames DEF CycleInv, TypeOK, Goto, Memory
<1>3. Found' = {}
  BY FoundKept DEF CycleInv, WordSoFar, InFlight, Between, Goto
<1>4. WordSoFar'
  BY <1>3 DEF CycleInv, WordSoFar, InFlight, Between, Goto
<1>5. QED
  BY <1>1, <1>2, <1>4 DEF CycleInv

\* A fault of a word in flight ends it with a record of that fault.
LEMMA FaultInWordInv ==
  ASSUME CycleInv, Slot, NEW n \in Faults, FaultInWord(n), regs' \in RegFile
  PROVE  CycleInv'
<1>1. FreshSchedules' /\ UNCHANGED <<imem, plen, cache, f1on>>
  BY SlotKeepsCaches
<1>2. FaultHalt(n, pc) \in HaltRecords
  BY FaultRecord DEF CycleInv, TypeOK
<1>3. WordSoFar' /\ sub' \in 1..SubSlots + 1 /\ word' \in Scheduled /\ start' = NoEntry
      /\ snapshot' \in RegFile
  BY EndInv DEF FaultInWord
<1>4. TypeOK'
  BY <1>1, <1>2, <1>3 DEF CycleInv, TypeOK, FaultInWord, RecordFault, End
<1>5. QED
  BY <1>1, <1>3, <1>4 DEF CycleInv

LEMMA LrSubSlotInv ==
  ASSUME CycleInv, LrSubSlot
  PROVE  CycleInv'
<1>1. FreshSchedules' /\ UNCHANGED <<imem, plen, cache, f1on>>
  BY SlotKeepsCaches DEF Slot
<1>2. sub \in 1..SubSlots /\ word.lr[sub] \in LrOps
  <2>1. sub \in 1..SubSlots
    BY IsaAssumption DEF CycleInv, TypeOK, LrSubSlot
  <2>2. QED
    BY <2>1, ScheduledFields DEF CycleInv, TypeOK
<1> DEFINE op == word.lr[sub]
           file == [l \in LrIndex |->
                      IF l \in LrTargets(op) THEN LrResult(op, l, LrFor("lr")) ELSE regs.lr[l]]
<1>3. LrFor("lr") \in LrFile /\ regs.lr \in LrFile
  BY SourceType DEF CycleInv, TypeOK, RegFile, LrFile
<1>4. file \in LrFile
  BY <1>2, <1>3, LrResultValue DEF LrFile
<1>5. regs' = [regs EXCEPT !.lr = file]
  BY DEF LrSubSlot, Sets
<1>6. regs' \in RegFile
  BY <1>4, <1>5 DEF CycleInv, TypeOK, RegFile, LrFile
<1>7. sub' \in 1..SubSlots + 1 /\ sub' # 1
  <2>1. sub' = sub + 1
    BY DEF LrSubSlot
  <2>2. SubSlots \in Nat
    BY IsaAssumption
  <2>3. QED
    BY <1>2, <2>1, <2>2
<1>8. TypeOK'
  BY <1>1, <1>6, <1>7 DEF CycleInv, TypeOK, LrSubSlot, Sets
<1>9. regs' = [start.regs EXCEPT !.lr = regs'.lr]
  <2>1. regs = [start.regs EXCEPT !.lr = regs.lr] /\ start.regs \in RegFile
    BY DEF CycleInv, WordSoFar, LrSubSlot, InFlight, Between, StartRecord
  <2>2. QED
    BY <1>5, <2>1 DEF RegFile
<1>10. WordSoFar'
  BY <1>7, <1>9 DEF CycleInv, WordSoFar, LrSubSlot, Sets, InFlight, Between
<1>11. QED
  BY <1>1, <1>8, <1>10 DEF CycleInv

LEMMA CheckInv ==
  ASSUME CycleInv, LrFault \/ LrDone \/ CheckFault \/ CheckPass
  PROVE  CycleInv'
<1>1. FreshSchedules' /\ UNCHANGED <<imem, plen, cache, f1on>>
  BY SlotKeepsCaches DEF Slot
<1>2. CASE LrFault
  <2>1. regs' \in RegFile
    BY <1>2 DEF LrFault, CycleInv, TypeOK
  <2>2. QED
    BY <1>2, <2>1, FaultInWordInv DEF LrFault, Slot, Faults
<1>3. CASE LrDone
  <2>1. TypeOK'
    BY <1>3 DEF LrDone, Goto, CycleInv, TypeOK, state
  <2>2. WordSoFar'
    BY <1>3 DEF LrDone, Goto, CycleInv, WordSoFar, InFlight, Between, state
  <2>3. QED
    BY <1>1, <2>1, <2>2 DEF CycleInv
<1>4. CASE CheckFault
  <2>1. Min(Found) \in Faults
    BY <1>4, MinFault, FoundFaults DEF CheckFault, Faults
  <2>2. regs' \in RegFile
    BY <1>4 DEF CheckFault, CycleInv, TypeOK, RegFile
  <2>3. QED
    BY <1>4, <2>1, <2>2, FaultInWordInv DEF CheckFault, Slot
<1>5. CASE CheckPass
  <2>1. TypeOK'
    BY <1>5, StageNames DEF CheckPass, Goto, CycleInv, TypeOK, state
  <2>2. Found' = {}
    BY <1>5, FoundKept DEF CheckPass, Goto, state
  <2>3. WordSoFar'
    BY <1>5, <2>2 DEF CheckPass, Goto, CycleInv, WordSoFar, InFlight, Between, state
  <2>4. QED
    BY <1>1, <2>1, <2>3 DEF CycleInv
<1>6. QED
  BY <1>2, <1>3, <1>4, <1>5

\* LOAD, AAQ and the stores; MULT, ACC and COND, which may end the word, follow.
LEMMA LoadInv ==
  ASSUME CycleInv, Load
  PROVE  CycleInv'
<1>1. LrFor("load") \in LrFile /\ xmem \in Memory /\ word.load \in LoadOps
  BY SourceType, ScheduledFields DEF CycleInv, TypeOK, Memory
<1>2. LoadFault(word.load, LrFor("load")) = {}
  BY DEF CycleInv, WordSoFar, Load, InFlight, Between, Found
<1>3. regs' \in RegFile
  BY <1>1, <1>2, LoadedType DEF Load, Sets, CycleInv, TypeOK
<1>4. regs'.lr = regs.lr
  BY <1>1, LoadedKeepsLr DEF Load, Sets, CycleInv, TypeOK
<1>5. QED
  BY <1>1, <1>3, <1>4, DataSlotInv DEF Load, Slot, Sets, CycleInv, TypeOK

LEMMA AaqInv ==
  ASSUME CycleInv, Aaq
  PROVE  CycleInv'
<1>1. Source("aaq", "r_acc").r_acc \in Value /\ regs.post_aaq_reg \in Value /\ word.aaq \in AaqOps
  BY SourceType, ScheduledFields DEF CycleInv, TypeOK, RegFile
<1>2. Quantized(word.aaq, Source("aaq", "r_acc").r_acc, regs.post_aaq_reg) \in Value
  BY <1>1, QuantizedType
<1>3. regs' \in RegFile /\ regs'.lr = regs.lr
  BY <1>2 DEF Aaq, Sets, CycleInv, TypeOK, RegFile
<1>4. QED
  BY <1>3, DataSlotInv DEF Aaq, Slot, Sets, CycleInv, TypeOK, Memory

LEMMA StoreInv ==
  ASSUME CycleInv, Store \/ AccStore
  PROVE  CycleInv'
<1>1. xmem \in Memory /\ LrFor("store") \in LrFile /\ LrFor("acc_store") \in LrFile
  BY SourceType DEF CycleInv, TypeOK, Memory
<1>2. Source("store", "post_aaq_reg").post_aaq_reg \in Value
      /\ Source("acc_store", "r_acc").r_acc \in Value /\ 0 \in Value
  BY SourceType, IsaAssumption DEF CycleInv, RegFile, Value
<1>3. CASE Store
  <2>1. xmem' \in Memory
    BY <1>1, <1>2, <1>3, StoredType DEF Store
  <2>2. QED
    BY <1>3, <2>1, DataSlotInv DEF Store, Slot, CycleInv, TypeOK
<1>4. CASE AccStore
  <2>1. xmem' \in Memory
    BY <1>1, <1>2, <1>4, StoredType DEF AccStore
  <2>2. QED
    BY <1>4, <2>1, DataSlotInv DEF AccStore, Slot, CycleInv, TypeOK
<1>5. QED
  BY <1>3, <1>4

\* A slot that ends its word, by moving the PC or by giving up.
LEMMA LastSlotInv ==
  ASSUME CycleInv, Slot, End, regs' \in RegFile, xmem' \in Memory, stats' \in RunStats,
         pc' \in Nat, halt' \in HaltRecords, sticky' = sticky
  PROVE  CycleInv'
<1>1. FreshSchedules' /\ UNCHANGED <<imem, plen, cache, f1on>>
  BY SlotKeepsCaches
<1>2. WordSoFar' /\ sub' \in 1..SubSlots + 1 /\ word' \in Scheduled /\ start' = NoEntry
      /\ snapshot' \in RegFile
  BY EndInv
<1>3. TypeOK'
  BY <1>1, <1>2 DEF CycleInv, TypeOK, End, Memory
<1>4. QED
  BY <1>1, <1>2, <1>3 DEF CycleInv

LEMMA MultInv ==
  ASSUME CycleInv, Mult
  PROVE  CycleInv'
<1>1. /\ LrFor("mult") \in LrFile /\ Source("mult", "r").r \in [{0, 1} -> Value]
      /\ Source("mult", "r_cyclic").r_cyclic \in [CyclicSlots -> Value]
      /\ Source("mult", "r_mask").r_mask \in Value /\ regs.mult_res \in Value
  BY SourceType DEF CycleInv, TypeOK, RegFile
<1>2. word.mult \in MultOps
  BY ScheduledFields DEF CycleInv, TypeOK
<1> DEFINE res == Multiplied(word.mult, LrFor("mult"), Source("mult", "r").r,
                             Source("mult", "r_cyclic").r_cyclic,
                             Source("mult", "r_mask").r_mask, regs.mult_res)
<1>3. res \in Value
  BY <1>1, <1>2, MultipliedType
<1>4. regs' = [regs EXCEPT !.mult_res = res]
  BY DEF Mult, Sets
<1>5. regs' \in RegFile /\ regs'.lr = regs.lr
  BY <1>3, <1>4 DEF CycleInv, TypeOK, RegFile
<1>6. stats' \in RunStats
  BY RunStatsFacts DEF Mult, CycleInv, TypeOK
<1>7. CASE End
  BY <1>5, <1>6, <1>7, LastSlotInv DEF Mult, Slot, Sets, CycleInv, TypeOK, Memory
<1>8. CASE Goto("acc")
  BY <1>5, <1>6, <1>8, DataSlotInv DEF Mult, Slot, Sets, CycleInv, TypeOK, Memory
<1>9. QED
  BY <1>7, <1>8 DEF Mult

LEMMA AccInv ==
  ASSUME CycleInv, Acc
  PROVE  CycleInv'
<1>1. /\ LrFor("acc") \in LrFile /\ Source("acc", "mult_res").mult_res \in Value
      /\ Source("acc", "r_acc").r_acc \in Value /\ word.acc \in AccOps
  BY SourceType, ScheduledFields DEF CycleInv, TypeOK, RegFile
<1> DEFINE res == Accumulated(word.acc, LrFor("acc"), Source("acc", "mult_res").mult_res,
                              Source("acc", "r_acc").r_acc)
<1>2. res \in Value
  BY <1>1, AccumulatedType
<1>3. regs' = IF AccRaises THEN regs ELSE [regs EXCEPT !.r_acc = res]
  BY DEF Acc, Sets
<1>4. regs' \in RegFile /\ regs'.lr = regs.lr
  BY <1>2, <1>3 DEF CycleInv, TypeOK, RegFile
<1>5. stats' \in RunStats
  BY RunStatsFacts DEF Acc, CycleInv, TypeOK
<1>6. CASE End
  BY <1>4, <1>5, <1>6, LastSlotInv DEF Acc, Slot, Sets, CycleInv, TypeOK, Memory
<1>7. CASE Goto("aaq")
  BY <1>4, <1>5, <1>7, DataSlotInv DEF Acc, Slot, Sets, CycleInv, TypeOK, Memory
<1>8. QED
  BY <1>6, <1>7 DEF Acc

LEMMA CondInv ==
  ASSUME CycleInv, Cond
  PROVE  CycleInv'
<1>1. LrFor("cond") \in LrFile /\ word.cond \in CondOps /\ pc \in Nat
  BY SourceType, ScheduledFields DEF CycleInv, TypeOK
<1>2. pc' \in Nat
  BY <1>1, NextPcNat DEF Cond
<1>3. halt' \in HaltRecords
  BY <1>1 DEF Cond, CycleInv, TypeOK, HaltRecords, HaltHalt
<1>4. QED
  BY <1>2, <1>3, LastSlotInv DEF Cond, Slot, CycleInv, TypeOK, Memory

-----------------------------------------------------------------------------
(* The host, and the invariant *)

LEMMA HostInv ==
  ASSUME CycleInv,
         \/ HostWriteImem \/ HostWriteLr \/ HostSetPc \/ HostSetF1 \/ RunBegins
         \/ \E e \in Engines : ResetEngine(e)
  PROVE  CycleInv'
<1>1. Between /\ Between' /\ UNCHANGED <<snapshot, stage, sub, word, start>>
  BY DEF HostWriteImem, HostWriteLr, HostSetPc, HostSetF1, RunBegins, ResetEngine, Between, engine
<1>2. WordSoFar'
  BY <1>1 DEF WordSoFar, InFlight
<1>3. CASE HostWriteImem
  <2>1. PICK p \in Entries, w \in HostWords : imem' = [imem EXCEPT ![p] = w] /\ DropSchedules(p)
    BY <1>3 DEF HostWriteImem, Entries
  <2>2. imem \in [Entries -> ImemEntry] /\ cache \in [Engines -> [Entries -> CacheEntry]]
    BY DEF CycleInv, TypeOK, Entries
  <2>3. imem' \in [Entries -> ImemEntry]
    BY <2>1, <2>2, MachineAssumption
  <2>4. cache' = [e \in Engines |-> [cache[e] EXCEPT ![p] = NoEntry]]
    BY <2>1 DEF DropSchedules
  <2>5. cache' \in [Engines -> [Entries -> CacheEntry]]
    BY <2>2, <2>4 DEF CacheEntry
  <2>6. FreshSchedules'
    BY <2>1, <2>2, <2>4 DEF CycleInv, FreshSchedules, Entries
  <2>7. TypeOK'
    BY <1>3, <2>3, <2>5 DEF HostWriteImem, CycleInv, TypeOK, Entries
  <2>8. QED
    BY <1>2, <2>6, <2>7 DEF CycleInv
<1>4. CASE HostWriteLr
  <2>1. PICK l \in LrIndex, v \in HostValues : regs' = [regs EXCEPT !.lr[l] = v]
    BY <1>4 DEF HostWriteLr, WriteLr
  <2>2. regs' \in RegFile
    BY <2>1, MachineAssumption DEF CycleInv, TypeOK, RegFile
  <2>3. TypeOK'
    BY <1>4, <2>2 DEF HostWriteLr, WriteLr, CycleInv, TypeOK, engine
  <2>4. QED
    BY <1>2, <1>4, <2>3 DEF HostWriteLr, WriteLr, CycleInv, FreshSchedules, engine
<1>5. CASE HostSetPc
  BY <1>2, <1>5, IsaAssumption DEF HostSetPc, SetPc, CycleInv, TypeOK, FreshSchedules, engine
<1>6. CASE HostSetF1
  BY <1>2, <1>6 DEF HostSetF1, SetF1, CycleInv, TypeOK, FreshSchedules, engine
<1>7. CASE RunBegins
  <2>1. NoStats \in RunStats
    BY DEF NoStats, RunStats
  <2>2. TypeOK'
    BY <1>7, <2>1 DEF RunBegins, BeginRun, CycleInv, TypeOK, HaltRecords, engine
  <2>3. QED
    BY <1>2, <1>7, <2>2 DEF RunBegins, BeginRun, CycleInv, FreshSchedules, engine
<1>8. CASE \E e \in Engines : ResetEngine(e)
  <2>1. PICK e \in Engines : ResetEngine(e)
    BY <1>8
  <2>2. cache' \in [Engines -> [Entries -> CacheEntry]]
    BY <2>1 DEF ResetEngine, CycleInv, TypeOK, Entries, CacheEntry
  <2>3. TypeOK'
    BY <2>1, <2>2 DEF ResetEngine, CycleInv, TypeOK, Entries, state
  <2>4. FreshSchedules'
    BY <2>1 DEF ResetEngine, CycleInv, TypeOK, FreshSchedules, state
  <2>5. QED
    BY <1>2, <2>3, <2>4 DEF CycleInv
<1>9. QED
  BY <1>3, <1>4, <1>5, <1>6, <1>7, <1>8

LEMMA NextInv == CycleInv /\ [CycleNext]_vars => CycleInv'
<1> SUFFICES ASSUME CycleInv, [CycleNext]_vars PROVE CycleInv'
  OBVIOUS
<1>0. CASE FetchPastProgram
  BY <1>0, PastProgramInv
<1>1. CASE \E e \in Engines : ReservedFault(e) \/ EvaluateBreak(e) \/ EvaluateEmpty(e)
                            \/ IdleWord(e) \/ Begin(e)
  BY <1>1, FetchInv
<1>2. CASE LrSubSlot
  BY <1>2, LrSubSlotInv
<1>3. CASE LrFault \/ LrDone \/ CheckFault \/ CheckPass
  BY <1>3, CheckInv
<1>4. CASE Load \/ Mult \/ Acc \/ Aaq \/ Store \/ AccStore \/ Cond
  BY <1>4, LoadInv, MultInv, AccInv, AaqInv, StoreInv, CondInv
<1>5. CASE HostWriteImem \/ HostWriteLr \/ HostSetPc \/ HostSetF1 \/ RunBegins
           \/ \E e \in Engines : ResetEngine(e)
  BY <1>5, HostInv
<1>6. CASE UNCHANGED vars
  BY <1>6 DEF vars, state, engine, CycleInv, TypeOK, FreshSchedules, WordSoFar, InFlight, Between,
              Found, LrFor, Source
<1>7. QED
  BY <1>0, <1>1, <1>2, <1>3, <1>4, <1>5, <1>6 DEF CycleNext, Slot

\* The invariant the other theorems are read off.
THEOREM Invariance == CycleSpec => []CycleInv
BY InitInv, NextInv, PTL DEF CycleSpec

\* Every state of the cycle holds values of the machine's types: registers and
\* XMEM rows stay in their width, the PC is a number, a schedule is a legal word.
THEOREM TypeCorrectness == CycleSpec => []TypeOK
BY Invariance, PTL DEF CycleInv

\* Whatever the host writes and whenever, no engine holds a schedule of a word
\* that IMEM no longer holds (InstMem's write observers and Cycle._schedules).
THEOREM SchedulesAreFresh == CycleSpec => []FreshSchedules
BY Invariance, PTL DEF CycleInv

\* Every fault, wherever in the word it is found, leaves the registers, XMEM, the
\* PC and the statistics as the word found them (Cycle._check undoes the LR slot).
THEOREM FaultsArePrecise == CycleSpec => PreciseFault
<1> DEFINE Precise ==
      FaultStep => /\ regs' = IF Between THEN regs ELSE start.regs
                   /\ xmem' = IF Between THEN xmem ELSE start.xmem
                   /\ pc' = IF Between THEN pc ELSE start.pc
                   /\ stats' = IF Between THEN stats ELSE start.stats
<1>1. CycleInv /\ [CycleNext]_vars => [Precise]_vars
  <2> SUFFICES ASSUME CycleInv, CycleNext, FaultStep PROVE Precise
    OBVIOUS
  <2>1. CASE FetchPastProgram
    BY <2>1 DEF FetchPastProgram
  <2>2. CASE \E e \in Engines : ReservedFault(e)
    BY <2>2 DEF ReservedFault, CanFetch
  <2>3. CASE LrFault
    BY <2>3 DEF LrFault, FaultInWord, CycleInv, WordSoFar, InFlight, Between
  <2>4. CASE CheckFault
    <3>1. /\ start.regs \in RegFile /\ snapshot = start.regs /\ pc = start.pc
          /\ regs = [start.regs EXCEPT !.lr = regs.lr]
          /\ xmem = start.xmem /\ stats = start.stats
      BY <2>4 DEF CheckFault, CycleInv, WordSoFar, InFlight, Between, StartRecord
    <3>2. regs' = [regs EXCEPT !.lr = start.regs.lr]
      BY <2>4, <3>1 DEF CheckFault
    <3>3. regs' = start.regs
      BY <3>1, <3>2 DEF RegFile
    <3>4. QED
      BY <2>4, <3>1, <3>3 DEF CheckFault, FaultInWord, InFlight, Between
  <2>5. CASE Cond
    BY <2>5 DEF Cond, HaltHalt, FaultStep
  <2>6. CASE RunBegins
    BY <2>6 DEF RunBegins, BeginRun, FaultStep
  <2>7. CASE halt' = halt
    BY <2>7 DEF FaultStep
  <2>8. QED
    BY <2>1, <2>2, <2>3, <2>4, <2>5, <2>6, <2>7
    DEF CycleNext, Slot, EvaluateBreak, EvaluateEmpty, IdleWord, Begin, ResetEngine, LrSubSlot, LrDone, CheckPass,
        Load, Mult, Acc, Aaq, Store, AccStore, Sets, HostWriteImem, HostWriteLr, WriteLr,
        HostSetPc, SetPc, HostSetF1, SetF1, state
<1>2. QED
  BY <1>1, Invariance, PTL DEF CycleSpec, PreciseFault

-----------------------------------------------------------------------------
(* A word is atomic: what each stage of a word has computed, in the terms of *)
(* Machine's one step                                                        *)

LrsAfter == LrAfter(word, start.regs)
LrWritten == [start.regs EXCEPT !.lr = LrsAfter]
LoadedRegs == Loaded(word.load, LrWritten, LrsAfter, start.xmem)
CountedStats == CountAcc(word, CountMult(word, start.stats))

\* The word in flight is the one in IMEM at the PC, and it passed fetch.
WordFetched ==
  InFlight =>
    /\ Running /\ pc < plen /\ imem[pc] # Empty
    /\ word = Schedule(imem[pc])
    /\ ~(Reserved(imem[pc]) /\ f1on)
    /\ start.stats.mult_active + start.stats.mult_idle < MaxWords

\* Each LR holds what the sub-slots up to now gave it.
LrsSoFar ==
  /\ stage = "lr" =>
       \A l \in LrIndex :
         /\ \A i \in 1..sub - 1 : l \in LrTargets(word.lr[i]) =>
              regs.lr[l] = LrResult(word.lr[i], l, start.regs.lr)
         /\ (\A i \in 1..sub - 1 : l \notin LrTargets(word.lr[i])) =>
              regs.lr[l] = start.regs.lr[l]
  /\ InFlight /\ (stage # "lr" \/ sub > 1) => ~LrConflict(word)
  /\ InFlight /\ stage # "lr" => regs.lr = LrsAfter

\* The registers each data slot leaves to the next one.
RegsSoFar ==
  /\ stage \in {"check", "load"} => regs = LrWritten
  /\ stage = "mult" => regs = LoadedRegs
  /\ stage = "acc" => regs = FrontAfter(word, start.regs, start.xmem)
  /\ stage = "aaq" =>
       regs = [FrontAfter(word, start.regs, start.xmem) EXCEPT !.r_acc = AccAfter(word, start.regs)]
  /\ stage \in {"store", "acc_store", "cond"} => regs = RegsAfter(word, start.regs, start.xmem)

\* And XMEM, the statistics, and that the word has not given up.
MemorySoFar ==
  /\ stage \in {"load", "mult", "acc", "aaq", "store"} => xmem = start.xmem
  /\ stage = "acc_store" =>
       xmem = Stored(word.store, LrsAfter, start.xmem, PostAfter(word, start.regs), 0)
  /\ stage = "cond" => xmem = XmemAfter(word, start.regs, start.xmem)
CountsSoFar ==
  /\ stage \in {"load", "mult"} => stats = start.stats
  /\ stage = "acc" =>
       ~GivesUpInMult(word, start.regs) /\ stats = CountMult(word, start.stats)
  /\ stage \in {"aaq", "store", "acc_store", "cond"} =>
       ~GivesUp(word, start.regs) /\ stats = CountedStats

Computed == WordFetched /\ LrsSoFar /\ RegsSoFar /\ MemorySoFar /\ CountsSoFar


-----------------------------------------------------------------------------
(* Atomic's copies of Machine's operators are the operators themselves       *)

\* Decoding, and the LR slot.
LEMMA SameSchedule ==
  \A w : Atomic!Schedule(w) = Schedule(w) /\ (Atomic!Reserved(w) <=> Reserved(w))
BY DEF Atomic!Schedule, Schedule, Atomic!NopFor, NopFor, Atomic!NOP, NOP, Atomic!Reserved,
       Reserved, Atomic!DataSlots, DataSlots

LEMMA SameLrs ==
  \A w, g :
    /\ Atomic!LrConflict(w) <=> LrConflict(w)
    /\ Atomic!LrAfter(w, g) = LrAfter(w, g)
BY DEF Atomic!LrConflict, LrConflict, Atomic!LrAfter, LrAfter, Atomic!LrIndex, LrIndex,
       Atomic!LrTargets, LrTargets, Atomic!LrResult, LrResult, Atomic!Lcr, Lcr, Atomic!Wrap, Wrap,
       Atomic!Clamp, Clamp, Atomic!ToSigned, ToSigned

\* The check phase, and the words that give up.
LEMMA SameChecks ==
  \A w, lr : Atomic!CheckFaults(w, lr) = CheckFaults(w, lr)
BY DEF Atomic!CheckFaults, CheckFaults, Atomic!LoadFault, LoadFault, Atomic!AccFault, AccFault,
       Atomic!StoreFault, StoreFault, Atomic!RowFault, RowFault, Atomic!Row, Row,
       Atomic!BadCyclicIndex, BadCyclicIndex, Atomic!CyclicSlots, CyclicSlots, Atomic!BadReshape,
       BadReshape, Atomic!ReshapeCount, ReshapeCount, Atomic!ReshapeMask, ReshapeMask

LEMMA SameGiveUps ==
  \A w, g :
    /\ Atomic!GivesUpInMult(w, g) <=> GivesUpInMult(w, g)
    /\ Atomic!GivesUp(w, g) <=> GivesUp(w, g)
BY SameLrs DEF Atomic!GivesUp, GivesUp, Atomic!GivesUpInMult, GivesUpInMult, Atomic!MultRaises,
               MultRaises, Atomic!StrideRaises, StrideRaises

\* What the data slots leave in the registers and in XMEM.
LEMMA SameMult == \A w, g : Atomic!MultAfter(w, g) = MultAfter(w, g)
<1>1. \A op, lr, r, ring, mask, old :
        Atomic!Multiplied(op, lr, r, ring, mask, old) = Multiplied(op, lr, r, ring, mask, old)
  BY DEF Atomic!Multiplied, Multiplied, Atomic!Product, Product, Atomic!CyclicLane, CyclicLane,
         Atomic!RaLane, RaLane, Atomic!Scalar, Scalar, Atomic!Wrap, Wrap
<1>2. QED
  BY <1>1, SameLrs DEF Atomic!MultAfter, MultAfter

LEMMA SameFront == \A w, g, m : Atomic!FrontAfter(w, g, m) = FrontAfter(w, g, m)
<1>1. \A op, f, lr, mem : Atomic!Loaded(op, f, lr, mem) = Loaded(op, f, lr, mem)
  BY DEF Atomic!Loaded, Loaded, Atomic!Row, Row
<1>2. QED
  BY <1>1, SameLrs, SameMult DEF Atomic!FrontAfter, FrontAfter

LEMMA SameAcc == \A w, g : Atomic!AccAfter(w, g) = AccAfter(w, g)
BY SameLrs, SameMult
DEF Atomic!AccAfter, AccAfter, Atomic!Accumulated, Accumulated, Atomic!Wrap, Wrap,
    Atomic!ToSigned, ToSigned, Atomic!ReshapeMask, ReshapeMask, Atomic!ReshapeCount, ReshapeCount

LEMMA SamePost == \A w, g : Atomic!PostAfter(w, g) = PostAfter(w, g)
BY SameAcc
DEF Atomic!PostAfter, PostAfter, Atomic!Quantized, Quantized, Atomic!Wrap, Wrap, Atomic!Clamp,
    Clamp, Atomic!ToSigned, ToSigned, Atomic!QuantMax, QuantMax

LEMMA SameXmem == \A w, g, m : Atomic!XmemAfter(w, g, m) = XmemAfter(w, g, m)
<1>1. \A op, lr, mem, first, rest :
        Atomic!Stored(op, lr, mem, first, rest) = Stored(op, lr, mem, first, rest)
  BY DEF Atomic!Stored, Stored, Atomic!Row, Row, Atomic!RowIndex, RowIndex
<1>2. QED
  BY <1>1, SameAcc, SameLrs, SamePost DEF Atomic!XmemAfter, XmemAfter

LEMMA SameRegs == \A w, g, m : Atomic!RegsAfter(w, g, m) = RegsAfter(w, g, m)
BY SameFront, SameAcc, SamePost DEF Atomic!RegsAfter, RegsAfter

\* The counters, the PC and the numbers of the faults.
LEMMA SameCounts ==
  \A w, st :
    Atomic!CountMult(w, st) = CountMult(w, st) /\ Atomic!CountAcc(w, st) = CountAcc(w, st)
BY DEF Atomic!CountMult, CountMult, Atomic!CountAcc, CountAcc, Atomic!NOP, NOP

LEMMA SameNextPc == \A op, lr, at : Atomic!NextPc(op, lr, at) = NextPc(op, lr, at)
BY DEF Atomic!NextPc, NextPc, Atomic!Lcr, Lcr, Atomic!ToSigned, ToSigned

LEMMA SameMin == \A S : Atomic!Min(S) = Min(S)
BY DEF Atomic!Min, Min

-----------------------------------------------------------------------------
(* Where a word in flight reads each register *)

LEMMA Views ==
  /\ \A s \in {"lr", "cond"} : ContractView(s, "lr") = CycleStart
  /\ \A s \in {"load", "mult", "acc", "store", "acc_store"} : ContractView(s, "lr") = Forwarded
  /\ \A x \in {"r", "r_cyclic", "r_mask"} : ContractView("mult", x) = CycleStart
  /\ ContractView("acc", "mult_res") = Forwarded /\ ContractView("acc", "r_acc") = CycleStart
  /\ ContractView("aaq", "r_acc") = Forwarded
  /\ ContractView("store", "post_aaq_reg") = Forwarded
  /\ ContractView("acc_store", "r_acc") = Forwarded
<1>1. ~Precedes("acc", "acc") /\ Precedes("aaq", "store") /\ Precedes("acc", "acc_store")
  <2>1. \A i, j \in 1..9 : SlotExecutionOrder[i] = "acc" /\ SlotExecutionOrder[j] = "acc" => i = j
    BY DEF SlotExecutionOrder
  <2>2. SlotExecutionOrder[5] = "acc" /\ SlotExecutionOrder[6] = "aaq"
        /\ SlotExecutionOrder[7] = "store" /\ SlotExecutionOrder[8] = "acc_store"
    BY DEF SlotExecutionOrder
  <2>3. Len(SlotExecutionOrder) = 9
    BY DEF SlotExecutionOrder
  <2>4. QED
    BY <2>1, <2>2, <2>3 DEF Precedes
<1>2. QED
  BY <1>1 DEF ContractView, ControlSlots, RegisterWriters, CycleStart, Forwarded

LEMMA Sources ==
  /\ LrFor("lr") = snapshot.lr /\ LrFor("cond") = snapshot.lr
  /\ \A s \in {"load", "mult", "acc", "store", "acc_store"} : LrFor(s) = regs.lr
  /\ \A x \in {"r", "r_cyclic", "r_mask"} : Source("mult", x) = snapshot
  /\ Source("acc", "mult_res") = regs /\ Source("acc", "r_acc") = snapshot
  /\ Source("aaq", "r_acc") = regs
  /\ Source("store", "post_aaq_reg") = regs /\ Source("acc_store", "r_acc") = regs
BY Views DEF LrFor, Source, CycleStart, Forwarded

\* The check phase looks at the LRs the LR slot gives.
LEMMA FoundIsChecked == Found = CheckFaults(word, regs.lr)
BY Sources DEF Found, CheckFaults

LEMMA LoadedKeeps ==
  ASSUME NEW op \in LoadOps, NEW f \in RegFile, NEW lr, NEW mem
  PROVE  /\ Loaded(op, f, lr, mem).mult_res = f.mult_res
         /\ Loaded(op, f, lr, mem).r_acc = f.r_acc
         /\ Loaded(op, f, lr, mem).post_aaq_reg = f.post_aaq_reg
BY LoadFields DEF Loaded, RegFile

\* The type of a word in flight and of what it found.
LEMMA InFlightTypes ==
  ASSUME CycleInv, InFlight
  PROVE  /\ start.regs \in RegFile /\ snapshot = start.regs /\ pc = start.pc
         /\ regs \in RegFile /\ word \in Scheduled /\ word.load \in LoadOps
BY ScheduledFields DEF CycleInv, TypeOK, WordSoFar, StartRecord

-----------------------------------------------------------------------------
(* The LR slot *)

LEMMA LrSubSlotComputed ==
  ASSUME CycleInv, Computed, LrSubSlot
  PROVE  Computed'
<1>1. InFlight /\ sub \in 1..SubSlots /\ sub' = sub + 1 /\ stage = "lr" /\ stage' = "lr"
  BY IsaAssumption DEF LrSubSlot, CycleInv, TypeOK, InFlight, Between
<1>2. ~LrConflict(word)
  BY <1>1 DEF LrSubSlot, Computed, LrsSoFar
<1>3. LrFor("lr") = start.regs.lr
  BY <1>1, Sources, InFlightTypes
<1> DEFINE op == word.lr[sub]
<1>4. \A l \in LrIndex : regs'.lr[l] =
        IF l \in LrTargets(op) THEN LrResult(op, l, start.regs.lr) ELSE regs.lr[l]
  <2>1. regs \in RegFile
    BY DEF CycleInv, TypeOK
  <2>2. QED
    BY <1>3, <2>1 DEF LrSubSlot, Sets, RegFile
<1>5. \A i \in 1..sub - 1 : LrTargets(word.lr[i]) \cap LrTargets(op) = {}
  <2>1. \A i \in 1..sub - 1 : i \in 1..SubSlots /\ i # sub
    BY <1>1, IsaAssumption
  <2>2. QED
    BY <1>1, <1>2, <2>1 DEF LrConflict
<1>6. UNCHANGED <<word, start, imem, plen, pc, halt, f1on>>
  BY DEF LrSubSlot, Sets
<1>7. LrsSoFar'
  <2> SUFFICES ASSUME NEW l \in LrIndex
               PROVE  /\ \A i \in 1..sub : l \in LrTargets(word.lr[i]) =>
                            regs'.lr[l] = LrResult(word.lr[i], l, start.regs.lr)
                      /\ (\A i \in 1..sub : l \notin LrTargets(word.lr[i])) =>
                            regs'.lr[l] = start.regs.lr[l]
    BY <1>1, <1>2, <1>6 DEF LrsSoFar, InFlight, Between
  <2>1. /\ \A i \in 1..sub - 1 : l \in LrTargets(word.lr[i]) =>
             regs.lr[l] = LrResult(word.lr[i], l, start.regs.lr)
        /\ (\A i \in 1..sub - 1 : l \notin LrTargets(word.lr[i])) => regs.lr[l] = start.regs.lr[l]
    BY <1>1 DEF Computed, LrsSoFar
  <2>2. \A i \in 1..sub : i = sub \/ i \in 1..sub - 1
    BY <1>1
  <2>3. \A i \in 1..sub - 1 : i \in 1..sub
    BY <1>1
  <2>4. sub \in 1..sub
    BY <1>1
  <2>5. QED
    BY <1>4, <1>5, <2>1, <2>2, <2>3, <2>4
<1>8. WordFetched'
  BY <1>1, <1>6 DEF Computed, WordFetched, Running, InFlight, Between
<1>9. QED
  BY <1>1, <1>7, <1>8 DEF Computed, RegsSoFar, MemorySoFar, CountsSoFar

\* After its last sub-slot, the LR slot has given every LR what the word gives it.
LEMMA LrDoneComputed ==
  ASSUME CycleInv, Computed, LrDone
  PROVE  Computed'
<1>1. InFlight /\ stage = "lr" /\ stage' = "check" /\ sub = SubSlots + 1 /\ sub > 1
  BY IsaAssumption DEF LrDone, Goto, CycleInv, TypeOK, InFlight, Between
<1>2. ~LrConflict(word)
  BY <1>1 DEF Computed, LrsSoFar
<1>3. regs = [start.regs EXCEPT !.lr = regs.lr] /\ xmem = start.xmem /\ stats = start.stats
      /\ regs \in RegFile /\ start.regs \in RegFile
  BY <1>1, InFlightTypes DEF CycleInv, WordSoFar
<1>4. regs.lr = LrsAfter
  <2>1. regs.lr \in [LrIndex -> Value]
    BY <1>3 DEF RegFile
  <2>2. \A l \in LrIndex : regs.lr[l] = LrsAfter[l]
    <3> SUFFICES ASSUME NEW l \in LrIndex PROVE regs.lr[l] = LrAfter(word, start.regs)[l]
      BY DEF LrsAfter
    <3>0. sub - 1 = SubSlots
      BY <1>1, IsaAssumption
    <3>1. /\ \A i \in 1..SubSlots : l \in LrTargets(word.lr[i]) =>
               regs.lr[l] = LrResult(word.lr[i], l, start.regs.lr)
          /\ (\A i \in 1..SubSlots : l \notin LrTargets(word.lr[i])) =>
               regs.lr[l] = start.regs.lr[l]
      BY <1>1, <3>0 DEF Computed, LrsSoFar
    <3>2. CASE \E i \in 1..SubSlots : l \in LrTargets(word.lr[i])
      <4> DEFINE k == CHOOSE i \in 1..SubSlots : l \in LrTargets(word.lr[i])
      <4>1. k \in 1..SubSlots /\ l \in LrTargets(word.lr[k])
        BY <3>2
      <4>2. LrAfter(word, start.regs)[l] = LrResult(word.lr[k], l, start.regs.lr)
        BY <3>2 DEF LrAfter
      <4>3. QED
        BY <3>1, <4>1, <4>2
    <3>3. CASE ~\E i \in 1..SubSlots : l \in LrTargets(word.lr[i])
      BY <3>1, <3>3 DEF LrAfter
    <3>4. QED
      BY <3>2, <3>3
  <2>3. LrsAfter = [l \in LrIndex |-> LrsAfter[l]]
    BY DEF LrsAfter, LrAfter
  <2>4. QED
    BY <2>1, <2>2, <2>3
<1>5. UNCHANGED <<regs, xmem, stats, word, start, imem, plen, pc, halt, f1on>>
  BY DEF LrDone, Goto, state
<1>6. WordFetched'
  BY <1>1, <1>5 DEF Computed, WordFetched, Running, InFlight, Between
<1>7. LrsSoFar'
  BY <1>1, <1>2, <1>4, <1>5 DEF LrsSoFar, LrsAfter
<1>8. RegsSoFar'
  BY <1>1, <1>3, <1>4, <1>5 DEF RegsSoFar, LrWritten, LrsAfter
<1>9. QED
  BY <1>1, <1>6, <1>7, <1>8 DEF Computed, MemorySoFar, CountsSoFar

-----------------------------------------------------------------------------
(* The check phase and the data slots *)

\* A slot that hands the word on leaves the word as it was fetched, and LRs that
\* only the LR slot may write.
LEMMA HandOn ==
  ASSUME CycleInv, Computed, InFlight, stage # "lr",
         NEW next \in {"load", "mult", "acc", "aaq", "store", "acc_store", "cond"}, Goto(next),
         UNCHANGED <<imem, plen, pc, halt, f1on>>, regs'.lr = regs.lr
  PROVE  /\ WordFetched' /\ LrsSoFar' /\ UNCHANGED <<word, start>>
         /\ stage' = next /\ LrsAfter' = LrsAfter
<1>1. stage' = next /\ next # "lr" /\ next # "between" /\ UNCHANGED <<word, start, sub>>
  BY DEF Goto
<1>2. WordFetched'
  BY <1>1 DEF Computed, WordFetched, Running, InFlight, Between
<1>3. LrsSoFar'
  BY <1>1 DEF Computed, LrsSoFar, LrsAfter, InFlight, Between
<1>4. QED
  BY <1>1, <1>2, <1>3 DEF LrsAfter

LEMMA CheckPassComputed ==
  ASSUME CycleInv, Computed, CheckPass
  PROVE  Computed'
<1>1. InFlight /\ stage = "check" /\ Goto("load") /\ UNCHANGED state
  BY DEF CheckPass, InFlight, Between
<1>2. WordFetched' /\ LrsSoFar' /\ UNCHANGED <<word, start>>
      /\ stage' = "load" /\ LrsAfter' = LrsAfter
  BY <1>1, HandOn DEF state
<1>3. xmem = start.xmem /\ stats = start.stats
  BY <1>1 DEF CycleInv, WordSoFar
<1>4. RegsSoFar' /\ MemorySoFar' /\ CountsSoFar'
  BY <1>1, <1>2, <1>3 DEF state, Computed, RegsSoFar, MemorySoFar, CountsSoFar, LrWritten
<1>5. QED
  BY <1>2, <1>4 DEF Computed

LEMMA LoadComputed ==
  ASSUME CycleInv, Computed, Load
  PROVE  Computed'
<1>1. InFlight /\ stage = "load" /\ Goto("mult")
      /\ UNCHANGED <<xmem, pc, imem, plen, halt, f1on, stats>>
  BY DEF Load, Sets, InFlight, Between
<1>2. regs = LrWritten /\ regs.lr = LrsAfter /\ xmem = start.xmem /\ stats = start.stats
  BY <1>1 DEF Computed, RegsSoFar, LrsSoFar, MemorySoFar, CountsSoFar
<1>3. LrFor("load") = LrsAfter
  BY <1>2, Sources
<1>4. regs' = LoadedRegs
  BY <1>2, <1>3 DEF Load, Sets, LoadedRegs
<1>5. regs'.lr = regs.lr
  BY <1>1, LoadedKeepsLr, InFlightTypes DEF Load, Sets
<1>6. WordFetched' /\ LrsSoFar' /\ UNCHANGED <<word, start>>
      /\ stage' = "mult" /\ LrsAfter' = LrsAfter
  BY <1>1, <1>5, HandOn
<1>7. RegsSoFar' /\ MemorySoFar' /\ CountsSoFar'
  BY <1>1, <1>2, <1>4, <1>6 DEF RegsSoFar, MemorySoFar, CountsSoFar, LoadedRegs, LrWritten
<1>8. QED
  BY <1>6, <1>7 DEF Computed

\* What MULT leaves, whether or not it gives up.
LEMMA MultWrites ==
  ASSUME CycleInv, Computed, Mult
  PROVE  /\ regs' = FrontAfter(word, start.regs, start.xmem) /\ regs'.lr = regs.lr
         /\ stats' = CountMult(word, start.stats) /\ xmem' = start.xmem
         /\ (MultRaises(word.mult, Source("mult", "r_mask").r_mask)
               <=> GivesUpInMult(word, start.regs))
<1>1. InFlight /\ stage = "mult"
  BY DEF Mult, InFlight, Between
<1>2. regs = LoadedRegs /\ regs.lr = LrsAfter /\ xmem = start.xmem /\ stats = start.stats
  BY <1>1 DEF Computed, RegsSoFar, LrsSoFar, MemorySoFar, CountsSoFar
<1>3. /\ start.regs \in RegFile /\ snapshot = start.regs /\ regs \in RegFile
      /\ word.load \in LoadOps
  BY <1>1, InFlightTypes
<1>4. LrFor("mult") = LrsAfter /\ \A x \in {"r", "r_cyclic", "r_mask"} : Source("mult", x) = start.regs
  BY <1>2, <1>3, Sources
<1>5. LrWritten \in RegFile /\ LrWritten.mult_res = start.regs.mult_res
  BY <1>2, <1>3 DEF LrWritten, RegFile
<1>6. regs.mult_res = start.regs.mult_res
  BY <1>2, <1>3, <1>5, LoadedKeeps DEF LoadedRegs
<1>7. regs' = [LoadedRegs EXCEPT !.mult_res = MultAfter(word, start.regs)]
  BY <1>2, <1>4, <1>6 DEF Mult, Sets, MultAfter, LrsAfter
<1>8. regs' = FrontAfter(word, start.regs, start.xmem)
  BY <1>7 DEF FrontAfter, LoadedRegs, LrWritten, LrsAfter
<1>9. regs'.lr = regs.lr
  BY <1>2, <1>3, <1>7 DEF RegFile
<1>10. QED
  BY <1>2, <1>4, <1>8, <1>9 DEF Mult, Sets, GivesUpInMult

LEMMA MultComputed ==
  ASSUME CycleInv, Computed, Mult, Goto("acc")
  PROVE  Computed'
<1>1. InFlight /\ stage = "mult" /\ UNCHANGED <<pc, imem, plen, halt, f1on>>
  BY DEF Mult, Sets, InFlight, Between
<1>2. ~GivesUpInMult(word, start.regs)
  BY MultWrites DEF Mult, Goto, End
<1>3. WordFetched' /\ LrsSoFar' /\ UNCHANGED <<word, start>>
      /\ stage' = "acc" /\ LrsAfter' = LrsAfter
  BY <1>1, MultWrites, HandOn
<1>4. RegsSoFar' /\ MemorySoFar' /\ CountsSoFar'
  BY <1>2, <1>3, MultWrites DEF RegsSoFar, MemorySoFar, CountsSoFar
<1>5. QED
  BY <1>3, <1>4 DEF Computed

\* What ACC leaves, whether or not it gives up.
LEMMA AccWrites ==
  ASSUME CycleInv, Computed, Acc
  PROVE  /\ regs' = IF GivesUp(word, start.regs) THEN FrontAfter(word, start.regs, start.xmem)
                    ELSE [FrontAfter(word, start.regs, start.xmem)
                            EXCEPT !.r_acc = AccAfter(word, start.regs)]
         /\ regs'.lr = regs.lr /\ stats' = CountedStats /\ xmem' = start.xmem
         /\ AccRaises <=> GivesUp(word, start.regs)
<1>1. InFlight /\ stage = "acc"
  BY DEF Acc, InFlight, Between
<1>2. /\ regs = FrontAfter(word, start.regs, start.xmem) /\ regs.lr = LrsAfter /\ xmem = start.xmem
      /\ stats = CountMult(word, start.stats) /\ ~GivesUpInMult(word, start.regs)
  BY <1>1 DEF Computed, RegsSoFar, LrsSoFar, MemorySoFar, CountsSoFar
<1>3. /\ start.regs \in RegFile /\ snapshot = start.regs /\ regs \in RegFile
      /\ word.load \in LoadOps
  BY <1>1, InFlightTypes
<1>4. LrFor("acc") = LrsAfter /\ Source("acc", "mult_res") = regs /\ Source("acc", "r_acc") = start.regs
  BY <1>2, <1>3, Sources
<1>5. AccRaises <=> GivesUp(word, start.regs)
  BY <1>2, <1>4 DEF AccRaises, GivesUp, LrsAfter
<1>6. regs.mult_res = MultAfter(word, start.regs)
  <2>1. LrWritten \in RegFile
    BY <1>2, <1>3 DEF LrWritten, RegFile
  <2>2. regs = [LoadedRegs EXCEPT !.mult_res = MultAfter(word, start.regs)]
    BY <1>2 DEF FrontAfter, LoadedRegs, LrWritten, LrsAfter
  <2>3. DOMAIN LoadedRegs = DOMAIN start.regs
    BY <1>3, <2>1, LoadFields DEF LoadedRegs, Loaded, RegFile
  <2>4. QED
    BY <1>3, <2>2, <2>3 DEF RegFile
<1>7. ~AccRaises => regs' = [regs EXCEPT !.r_acc = AccAfter(word, start.regs)]
  BY <1>4, <1>6 DEF Acc, Sets, AccAfter, LrsAfter
<1>8. AccRaises => regs' = regs
  BY DEF Acc, Sets
<1>9. regs'.lr = regs.lr
  BY <1>3, <1>7, <1>8 DEF RegFile
<1>10. QED
  BY <1>2, <1>5, <1>7, <1>8, <1>9 DEF Acc, Sets, CountedStats

LEMMA AccComputed ==
  ASSUME CycleInv, Computed, Acc, Goto("aaq")
  PROVE  Computed'
<1>1. InFlight /\ stage = "acc" /\ UNCHANGED <<pc, imem, plen, halt, f1on>>
  BY DEF Acc, Sets, InFlight, Between
<1>2. ~GivesUp(word, start.regs)
  BY AccWrites DEF Acc, Goto, End
<1>3. WordFetched' /\ LrsSoFar' /\ UNCHANGED <<word, start>>
      /\ stage' = "aaq" /\ LrsAfter' = LrsAfter
  BY <1>1, AccWrites, HandOn
<1>4. RegsSoFar' /\ MemorySoFar' /\ CountsSoFar'
  BY <1>2, <1>3, AccWrites DEF RegsSoFar, MemorySoFar, CountsSoFar, CountedStats
<1>5. QED
  BY <1>3, <1>4 DEF Computed

LEMMA AaqComputed ==
  ASSUME CycleInv, Computed, Aaq
  PROVE  Computed'
<1> DEFINE front == FrontAfter(word, start.regs, start.xmem)
           acc == AccAfter(word, start.regs)
<1>1. InFlight /\ stage = "aaq" /\ Goto("store")
      /\ UNCHANGED <<xmem, pc, imem, plen, halt, f1on, stats>>
  BY DEF Aaq, Sets, InFlight, Between
<1>2. /\ regs = [front EXCEPT !.r_acc = acc] /\ regs.lr = LrsAfter /\ xmem = start.xmem
      /\ stats = CountedStats /\ ~GivesUp(word, start.regs)
  BY <1>1 DEF Computed, RegsSoFar, LrsSoFar, MemorySoFar, CountsSoFar
<1>3. start.regs \in RegFile /\ regs \in RegFile /\ word.load \in LoadOps
  BY <1>1, InFlightTypes
<1>4. LrWritten \in RegFile /\ LrWritten.post_aaq_reg = start.regs.post_aaq_reg
  BY <1>2, <1>3 DEF LrWritten, RegFile
<1>5. front = [LoadedRegs EXCEPT !.mult_res = MultAfter(word, start.regs)]
  BY DEF FrontAfter, LoadedRegs, LrWritten, LrsAfter
<1>6. LoadedRegs.post_aaq_reg = start.regs.post_aaq_reg /\ DOMAIN LoadedRegs = DOMAIN start.regs
  BY <1>3, <1>4, LoadedKeeps, LoadFields DEF LoadedRegs, Loaded, RegFile
<1>7. regs.r_acc = acc /\ regs.post_aaq_reg = start.regs.post_aaq_reg
  BY <1>2, <1>3, <1>5, <1>6 DEF RegFile
<1>8. regs' = [regs EXCEPT !.post_aaq_reg = PostAfter(word, start.regs)]
  BY <1>7, Sources DEF Aaq, Sets, PostAfter
<1>9. regs' = RegsAfter(word, start.regs, start.xmem)
  BY <1>2, <1>8 DEF RegsAfter
<1>10. regs'.lr = regs.lr
  BY <1>3, <1>8 DEF RegFile
<1>11. WordFetched' /\ LrsSoFar' /\ UNCHANGED <<word, start>>
      /\ stage' = "store" /\ LrsAfter' = LrsAfter
  BY <1>1, <1>10, HandOn
<1>12. RegsSoFar' /\ MemorySoFar' /\ CountsSoFar'
  BY <1>1, <1>2, <1>9, <1>11 DEF RegsSoFar, MemorySoFar, CountsSoFar, CountedStats
<1>13. QED
  BY <1>11, <1>12 DEF Computed

\* The registers the stores find are the ones the whole word leaves.
LEMMA StoreReads ==
  ASSUME CycleInv, Computed, stage \in {"store", "acc_store", "cond"}
  PROVE  /\ regs = RegsAfter(word, start.regs, start.xmem) /\ regs.lr = LrsAfter
         /\ regs.post_aaq_reg = PostAfter(word, start.regs) /\ regs.r_acc = AccAfter(word, start.regs)
         /\ stats = CountedStats /\ ~GivesUp(word, start.regs)
<1>1. InFlight /\ stage # "lr"
  BY DEF InFlight, Between
<1>2. /\ regs = RegsAfter(word, start.regs, start.xmem) /\ regs.lr = LrsAfter
      /\ stats = CountedStats /\ ~GivesUp(word, start.regs)
  BY <1>1 DEF Computed, RegsSoFar, LrsSoFar, CountsSoFar
<1>3. start.regs \in RegFile /\ regs \in RegFile /\ word.load \in LoadOps
  BY <1>1, InFlightTypes
<1>4. LrWritten \in RegFile
  BY <1>2, <1>3 DEF LrWritten, RegFile
<1>5. DOMAIN LoadedRegs = DOMAIN start.regs
  BY <1>3, <1>4, LoadFields DEF LoadedRegs, Loaded, RegFile
<1>6. regs = [LoadedRegs EXCEPT !.mult_res = MultAfter(word, start.regs),
                !.r_acc = AccAfter(word, start.regs), !.post_aaq_reg = PostAfter(word, start.regs)]
  BY <1>2 DEF RegsAfter, FrontAfter, LoadedRegs, LrWritten, LrsAfter
<1>7. QED
  BY <1>2, <1>3, <1>5, <1>6 DEF RegFile

LEMMA StoreComputed ==
  ASSUME CycleInv, Computed, Store
  PROVE  Computed'
<1>1. InFlight /\ stage = "store" /\ Goto("acc_store")
      /\ UNCHANGED <<regs, pc, imem, plen, halt, f1on, stats>>
  BY DEF Store, InFlight, Between
<1>2. xmem = start.xmem
  BY <1>1 DEF Computed, MemorySoFar
<1>3. xmem' = Stored(word.store, LrsAfter, start.xmem, PostAfter(word, start.regs), 0)
  BY <1>1, <1>2, StoreReads, Sources DEF Store
<1>4. WordFetched' /\ LrsSoFar' /\ UNCHANGED <<word, start>>
      /\ stage' = "acc_store" /\ LrsAfter' = LrsAfter
  BY <1>1, HandOn
<1>5. RegsSoFar' /\ MemorySoFar' /\ CountsSoFar'
  BY <1>1, <1>3, <1>4, StoreReads DEF RegsSoFar, MemorySoFar, CountsSoFar, CountedStats
<1>6. QED
  BY <1>4, <1>5 DEF Computed

LEMMA AccStoreComputed ==
  ASSUME CycleInv, Computed, AccStore
  PROVE  Computed'
<1>1. InFlight /\ stage = "acc_store" /\ Goto("cond")
      /\ UNCHANGED <<regs, pc, imem, plen, halt, f1on, stats>>
  BY DEF AccStore, InFlight, Between
<1>2. xmem = Stored(word.store, LrsAfter, start.xmem, PostAfter(word, start.regs), 0)
  BY <1>1 DEF Computed, MemorySoFar
<1>3. xmem' = XmemAfter(word, start.regs, start.xmem)
  BY <1>1, <1>2, StoreReads, Sources DEF AccStore, XmemAfter, LrsAfter
<1>4. WordFetched' /\ LrsSoFar' /\ UNCHANGED <<word, start>>
      /\ stage' = "cond" /\ LrsAfter' = LrsAfter
  BY <1>1, HandOn
<1>5. RegsSoFar' /\ MemorySoFar' /\ CountsSoFar'
  BY <1>1, <1>3, <1>4, StoreReads DEF RegsSoFar, MemorySoFar, CountsSoFar, CountedStats
<1>6. QED
  BY <1>4, <1>5 DEF Computed

-----------------------------------------------------------------------------
(* Between words, and the invariant *)

LEMMA NothingComputed == Between => Computed
BY DEF Between, InFlight, Computed, WordFetched, LrsSoFar, RegsSoFar, MemorySoFar, CountsSoFar

LEMMA BeginComputed ==
  ASSUME CycleInv, NEW e \in Engines, Begin(e)
  PROVE  Computed'
<1>1. Entry(e) = imem[pc]
  BY FetchFresh DEF Begin
<1>2. stage' = "lr" /\ sub' = 1 /\ start'.regs = regs /\ start'.stats = stats
  BY DEF Begin
<1>3. LrsSoFar'
  <2>1. \A i \in 1..sub' - 1 : FALSE
    BY <1>2
  <2>2. UNCHANGED regs
    BY DEF Begin
  <2>3. QED
    BY <1>2, <2>1, <2>2 DEF LrsSoFar
<1>4. WordFetched'
  BY <1>1, <1>2 DEF Begin, CanFetch, Busy, WordFetched, Running
<1>5. QED
  BY <1>2, <1>3, <1>4 DEF Computed, RegsSoFar, MemorySoFar, CountsSoFar

LEMMA NextComputed == CycleInv /\ Computed /\ [CycleNext]_vars => Computed'
<1> SUFFICES ASSUME CycleInv, Computed, [CycleNext]_vars PROVE Computed'
  OBVIOUS
<1>1. CASE Between'
  <2>1. (Between => Computed)'
    BY NothingComputed, PTL
  <2>2. QED
    BY <1>1, <2>1
<1>2. CASE \E e \in Engines : Begin(e)
  BY <1>2, BeginComputed
<1>3. CASE ~Between' /\ Slot
  <2>1. CASE LrSubSlot \/ LrDone \/ CheckPass \/ Load \/ Aaq \/ Store \/ AccStore
    BY <2>1, LrSubSlotComputed, LrDoneComputed, CheckPassComputed, LoadComputed, AaqComputed,
       StoreComputed, AccStoreComputed
  <2>2. CASE Mult
    BY <1>3, <2>2, MultComputed DEF Mult, End, Between
  <2>3. CASE Acc
    BY <1>3, <2>3, AccComputed DEF Acc, End, Between
  <2>4. CASE LrFault \/ CheckFault \/ Cond
    BY <1>3, <2>4 DEF LrFault, CheckFault, Cond, FaultInWord, End, Between
  <2>5. QED
    BY <1>3, <2>1, <2>2, <2>3, <2>4 DEF Slot
<1>4. CASE UNCHANGED vars
  BY <1>4 DEF vars, state, engine, Computed, WordFetched, LrsSoFar, RegsSoFar, MemorySoFar, CountsSoFar,
              LrWritten, LoadedRegs, LrsAfter, CountedStats, InFlight, Between, Running
<1>5. CASE ~Between' /\ ~Slot /\ CycleNext /\ ~\E e \in Engines : Begin(e)
  <2>1. Between
    BY <1>5 DEF CycleNext, FetchPastProgram, ReservedFault, EvaluateBreak, EvaluateEmpty, IdleWord,
                CanFetch, ResetEngine, HostWriteImem, HostWriteLr, HostSetPc, HostSetF1, RunBegins
  <2>2. UNCHANGED stage
    BY <1>5 DEF CycleNext, FetchPastProgram, ReservedFault, EvaluateBreak, EvaluateEmpty, IdleWord,
                ResetEngine, HostWriteImem, HostWriteLr, HostSetPc, HostSetF1, RunBegins, engine
  <2>3. QED
    BY <1>5, <2>1, <2>2 DEF Between
<1>6. QED
  BY <1>1, <1>2, <1>3, <1>4, <1>5

-----------------------------------------------------------------------------
(* Every step of the cycle is a step of Machine, or none *)

LEMMA MinIs ==
  ASSUME NEW S, S \subseteq Nat, NEW n \in S, \A m \in S : n <= m
  PROVE  Min(S) = n
<1>1. \A m \in S : (\A k \in S : m <= k) => m = n
  OBVIOUS
<1>2. QED
  BY <1>1 DEF Min

LEMMA PastProgramAtomic ==
  ASSUME FetchPastProgram
  PROVE  Atomic!FetchFault
BY DEF FetchPastProgram, RecordFault, FaultHalt, Running, Between, engine, Atomic!FetchFault,
       Atomic!Fault, Atomic!FaultHalt, Atomic!Running

\* A step between words does what it says to the machine.
LEMMA FetchAtomic ==
  ASSUME CycleInv, NEW e \in Engines,
         \/ ReservedFault(e) \/ EvaluateBreak(e) \/ EvaluateEmpty(e) \/ IdleWord(e) \/ Begin(e)
  PROVE  Atomic!Next \/ UNCHANGED Atomic!state
<1>1. CASE ReservedFault(e)
  <2>1. Entry(e) = imem[pc]
    BY <1>1, FetchFresh DEF ReservedFault
  <2>2. Min(Atomic!WordFaults(imem[pc], regs)) = 1 /\ Atomic!WordFaults(imem[pc], regs) # {}
    <3> DEFINE S == Atomic!WordFaults(imem[pc], regs)
    <3>1. \A w, lr : CheckFaults(w, lr) \subseteq {4, 5, 6}
      BY DEF CheckFaults, LoadFault, AccFault, StoreFault
    <3>2. S \subseteq {1, 3, 4, 5, 6} /\ 1 \in S
      BY <1>1, <2>1, <3>1, SameSchedule, SameLrs, SameChecks DEF ReservedFault, Atomic!WordFaults
    <3>3. S \subseteq Nat /\ \A m \in S : 1 <= m
      BY <3>2
    <3> HIDE DEF S
    <3>4. Min(S) = 1
      BY <3>2, <3>3, MinIs
    <3>5. QED
      BY <3>2, <3>4 DEF S
  <2>3. Atomic!WordFault
    BY <1>1, <2>1, <2>2, SameMin
    DEF ReservedFault, RecordFault, FaultHalt, CanFetch, Running, Between, Atomic!WordFault,
        Atomic!Fault, Atomic!FaultHalt, Atomic!Running, Atomic!Fetched
  <2>4. QED
    BY <2>3 DEF Atomic!Next
<1>2. CASE EvaluateBreak(e) \/ Begin(e)
  <2>1. Entry(e) = imem[pc]
    BY <1>2, FetchFresh DEF EvaluateBreak, Begin
  <2>2. /\ UNCHANGED <<regs, xmem, pc, imem, plen, halt, f1on, stats>> /\ CanFetch
        /\ Entry(e) # Empty /\ ~(Reserved(Entry(e)) /\ f1on) /\ sticky' = StickyAfterFetch(e)
    BY <1>2 DEF EvaluateBreak, Begin
  <2>3. /\ (IF Between THEN regs ELSE start.regs)' = regs
        /\ (IF Between THEN xmem ELSE start.xmem)' = xmem
        /\ (IF Between THEN stats ELSE start.stats)' = stats
    <3>1. CASE EvaluateBreak(e)
      BY <2>2, <3>1 DEF EvaluateBreak, CanFetch, Between
    <3>2. CASE Begin(e)
      <4>1. ~Between' /\ start' = [regs |-> regs, xmem |-> xmem, pc |-> pc, stats |-> stats]
        BY <3>2 DEF Begin, Between
      <4>2. QED
        BY <4>1 DEF Between
    <3>3. QED
      BY <1>2, <3>1, <3>2
  <2>4. CASE Reserved(imem[pc])
    <3>1. Atomic!Notice
      BY <2>1, <2>2, <2>3, <2>4, SameSchedule
      DEF Atomic!Notice, Atomic!Running, Atomic!Fetched, CanFetch, Running, StickyAfterFetch, Between
    <3>2. QED
      BY <3>1 DEF Atomic!Next
  <2>5. CASE ~Reserved(imem[pc])
    BY <2>1, <2>2, <2>3, <2>5 DEF Atomic!state, StickyAfterFetch, CanFetch, Between
  <2>6. QED
    BY <2>4, <2>5
<1>3. CASE EvaluateEmpty(e)
  BY <1>3 DEF EvaluateEmpty, state, Atomic!state, Between
<1>4. CASE IdleWord(e)
  <2>1. Entry(e) = imem[pc]
    BY <1>4, FetchFresh DEF IdleWord
  <2>2. Atomic!Idle
    BY <1>4, <2>1 DEF IdleWord, CanFetch, Running, Busy, Between, Atomic!Idle, Atomic!Running,
                      Atomic!Busy, Atomic!Fetched
  <2>3. QED
    BY <2>2 DEF Atomic!Next
<1>5. QED
  BY <1>1, <1>2, <1>3, <1>4

\* The faults Machine finds in the word in flight.
LEMMA FaultsInFlight ==
  ASSUME Computed, InFlight
  PROVE  Atomic!WordFaults(imem[pc], start.regs)
           = IF LrConflict(word) THEN {3} ELSE CheckFaults(word, LrsAfter)
BY SameSchedule, SameLrs, SameChecks DEF Computed, WordFetched, Atomic!WordFaults, LrsAfter

\* A fault of a word in flight is the one Machine's step records.
LEMMA FaultAtomic ==
  ASSUME CycleInv, Computed, LrFault \/ CheckFault
  PROVE  Atomic!WordFault
<1>1. InFlight /\ Running /\ pc < plen /\ imem[pc] # Empty
  BY DEF LrFault, CheckFault, InFlight, Between, Computed, WordFetched
<1>2. regs' = start.regs /\ xmem = start.xmem /\ stats = start.stats
  <2>1. CASE LrFault
    BY <2>1 DEF LrFault, CycleInv, WordSoFar, InFlight, Between
  <2>2. CASE CheckFault
    <3>1. /\ start.regs \in RegFile /\ snapshot = start.regs
          /\ regs = [start.regs EXCEPT !.lr = regs.lr] /\ xmem = start.xmem /\ stats = start.stats
      BY <2>2 DEF CheckFault, CycleInv, WordSoFar, InFlight, Between, StartRecord
    <3>2. regs' = [regs EXCEPT !.lr = start.regs.lr]
      BY <2>2, <3>1 DEF CheckFault
    <3>3. QED
      BY <3>1, <3>2 DEF RegFile
  <2>3. QED
    BY <2>1, <2>2
<1> DEFINE S == Atomic!WordFaults(imem[pc], start.regs)
<1>3. S # {} /\ FaultInWord(Min(S))
  <2>1. CASE LrFault
    <3>1. S = {3}
      BY <1>1, <2>1, FaultsInFlight DEF LrFault
    <3>2. Min({3}) = 3
      BY MinIs
    <3>3. QED
      BY <2>1, <3>1, <3>2 DEF LrFault
  <2>2. CASE CheckFault
    <3>1. stage = "check"
      BY <2>2 DEF CheckFault
    <3>2. regs.lr = LrsAfter /\ ~LrConflict(word)
      BY <1>1, <3>1 DEF Computed, LrsSoFar
    <3>3. S = Found
      BY <1>1, <3>2, FaultsInFlight, FoundIsChecked
    <3>4. QED
      BY <2>2, <3>3 DEF CheckFault
  <2>3. QED
    BY <2>1, <2>2
<1> HIDE DEF S
<1>4. Atomic!Fault(Min(S))
  BY <1>1, <1>2, <1>3 DEF FaultInWord, RecordFault, End, FaultHalt, InFlight, Between,
                         Atomic!Fault, Atomic!FaultHalt
<1>5. QED
  BY <1>1, <1>3, <1>4, SameMin DEF S, InFlight, Between, Atomic!WordFault, Atomic!Running,
                                   Atomic!Fetched, Running

\* A word that retires or gives up has no fault and is one Machine may run.
LEMMA LegalInFlight ==
  ASSUME CycleInv, Computed, stage \notin {"between", "lr", "check"}
  PROVE  /\ Atomic!Running /\ Atomic!Busy /\ pc < plen /\ imem[pc] # Empty
         /\ Atomic!WordFaults(imem[pc], start.regs) = {}
         /\ Atomic!Schedule(imem[pc]) = word
<1>1. InFlight /\ stage # "lr"
  BY DEF InFlight, Between
<1>2. ~LrConflict(word) /\ regs.lr = LrsAfter /\ Found = {}
  BY <1>1 DEF Computed, LrsSoFar, CycleInv, WordSoFar
<1>3. Atomic!WordFaults(imem[pc], start.regs) = {}
  BY <1>1, <1>2, FaultsInFlight, FoundIsChecked
<1>4. QED
  BY <1>1, <1>3, SameSchedule DEF Computed, WordFetched, InFlight, Between, Running,
                                  Atomic!Running, Atomic!Busy

LEMMA GiveUpAtomic ==
  ASSUME CycleInv, Computed, (Mult \/ Acc) /\ End
  PROVE  Atomic!GiveUp
<1>1. stage \notin {"between", "lr", "check"}
  BY DEF Mult, Acc
<1>2. /\ GivesUp(word, start.regs)
      /\ regs' = FrontAfter(word, start.regs, start.xmem) /\ xmem' = start.xmem
      /\ stats' = IF GivesUpInMult(word, start.regs) THEN CountMult(word, start.stats)
                  ELSE CountAcc(word, CountMult(word, start.stats))
  <2>1. CASE Mult /\ End
    BY <2>1, MultWrites DEF Mult, Goto, End, GivesUp
  <2>2. CASE Acc /\ End
    <3>1. ~GivesUpInMult(word, start.regs)
      BY <2>2 DEF Acc, Computed, CountsSoFar
    <3>2. QED
      BY <2>2, <3>1, AccWrites DEF Acc, Goto, End, CountedStats
  <2>3. QED
    BY <2>1, <2>2
<1>3. UNCHANGED <<pc, imem, plen, halt, sticky, f1on>> /\ Between'
  BY DEF Mult, Acc, Sets, End, Between
<1>4. ~Between
  BY <1>1 DEF Between
<1>5. QED
  BY <1>1, <1>2, <1>3, <1>4, LegalInFlight, SameGiveUps, SameFront, SameCounts
  DEF Atomic!GiveUp, Atomic!Fetched

LEMMA CondAtomic ==
  ASSUME CycleInv, Computed, Cond
  PROVE  Atomic!Retire
<1>1. stage = "cond" /\ ~Between /\ Between' /\ InFlight
  BY DEF Cond, End, Between, InFlight
<1>2. /\ regs' = RegsAfter(word, start.regs, start.xmem) /\ ~GivesUp(word, start.regs)
      /\ xmem' = XmemAfter(word, start.regs, start.xmem)
      /\ stats' = CountAcc(word, CountMult(word, start.stats))
  BY <1>1, StoreReads DEF Cond, Computed, MemorySoFar, CountedStats
<1>3. /\ pc' = NextPc(word.cond, start.regs.lr, pc)
      /\ halt' = IF word.cond.op = "HALT" THEN HaltHalt(pc) ELSE halt
      /\ UNCHANGED <<imem, plen, sticky, f1on>>
  BY <1>1, Sources, InFlightTypes DEF Cond
<1>4. QED
  BY <1>1, <1>2, <1>3, LegalInFlight, SameGiveUps, SameRegs, SameXmem, SameCounts, SameNextPc
  DEF Atomic!Retire, Atomic!Fetched, Atomic!HaltHalt, HaltHalt

\* The slots that neither end the word nor begin it change nothing Machine sees.
LEMMA SlotAtomic ==
  ASSUME CycleInv, Computed, Slot
  PROVE  Atomic!Next \/ UNCHANGED Atomic!state
<1>1. CASE LrFault \/ CheckFault
  BY <1>1, FaultAtomic DEF Atomic!Next
<1>2. CASE (Mult \/ Acc) /\ End
  BY <1>2, GiveUpAtomic DEF Atomic!Next
<1>3. CASE Cond
  BY <1>3, CondAtomic DEF Atomic!Next
<1>4. CASE \/ LrSubSlot \/ LrDone \/ CheckPass \/ Load \/ Aaq \/ Store \/ AccStore
           \/ (Mult \/ Acc) /\ ~End
  <2>1. ~Between /\ ~Between' /\ UNCHANGED <<pc, imem, plen, halt, sticky, f1on, start>>
    BY <1>4 DEF LrSubSlot, LrDone, CheckPass, Load, Mult, Acc, Aaq, Store, AccStore, Sets, Goto,
                Between, state
  <2>2. QED
    BY <2>1 DEF Atomic!state
<1>5. QED
  BY <1>1, <1>2, <1>3, <1>4 DEF Slot

LEMMA HostAtomic ==
  ASSUME \/ HostWriteImem \/ HostWriteLr \/ HostSetPc \/ HostSetF1 \/ RunBegins
         \/ \E e \in Engines : ResetEngine(e)
  PROVE  Atomic!Next \/ UNCHANGED Atomic!state
<1>1. Between /\ Between'
  BY DEF HostWriteImem, HostWriteLr, HostSetPc, HostSetF1, RunBegins, ResetEngine, Between, engine
<1>2. CASE HostWriteImem
  <2>1. Atomic!WriteImem
    BY <1>1, <1>2 DEF HostWriteImem, Atomic!WriteImem
  <2>2. QED
    BY <2>1 DEF Atomic!Next
<1>3. CASE HostWriteLr
  <2>1. Atomic!WriteLr
    BY <1>1, <1>3 DEF HostWriteLr, WriteLr, Atomic!WriteLr, Atomic!LrIndex, LrIndex
  <2>2. QED
    BY <2>1 DEF Atomic!Next
<1>4. CASE HostSetPc
  <2>1. Atomic!SetPc
    BY <1>1, <1>4 DEF HostSetPc, SetPc, Atomic!SetPc
  <2>2. QED
    BY <2>1 DEF Atomic!Next
<1>5. CASE HostSetF1
  <2>1. Atomic!SetF1
    BY <1>1, <1>5 DEF HostSetF1, SetF1, Atomic!SetF1
  <2>2. QED
    BY <2>1 DEF Atomic!Next
<1>6. CASE RunBegins
  <2>1. Atomic!BeginRun
    BY <1>1, <1>6 DEF RunBegins, BeginRun, Atomic!BeginRun, Atomic!NoStats, NoStats
  <2>2. QED
    BY <2>1 DEF Atomic!Next
<1>7. CASE \E e \in Engines : ResetEngine(e)
  BY <1>1, <1>7 DEF ResetEngine, state, Atomic!state
<1>8. QED
  BY <1>2, <1>3, <1>4, <1>5, <1>6, <1>7

LEMMA NextAtomic ==
  ASSUME CycleInv, Computed, [CycleNext]_vars
  PROVE  [Atomic!Next]_(Atomic!state)
<1>1. CASE FetchPastProgram
  BY <1>1, PastProgramAtomic DEF Atomic!Next
<1>2. CASE \E e \in Engines : ReservedFault(e) \/ EvaluateBreak(e) \/ EvaluateEmpty(e)
                            \/ IdleWord(e) \/ Begin(e)
  BY <1>2, FetchAtomic
<1>3. CASE Slot
  BY <1>3, SlotAtomic
<1>4. CASE HostWriteImem \/ HostWriteLr \/ HostSetPc \/ HostSetF1 \/ RunBegins
           \/ \E e \in Engines : ResetEngine(e)
  BY <1>4, HostAtomic
<1>5. CASE UNCHANGED vars
  BY <1>5 DEF vars, state, engine, Atomic!state, Between
<1>6. QED
  BY <1>1, <1>2, <1>3, <1>4, <1>5 DEF CycleNext

LEMMA InitAtomic == CycleInit => Computed /\ Atomic!Init
<1>1. ASSUME CycleInit PROVE Computed
  BY <1>1, NothingComputed DEF CycleInit, Between
<1>2. ASSUME CycleInit PROVE Atomic!Init
  BY <1>2 DEF CycleInit, Init, Between, Atomic!Init, Atomic!NoStats, NoStats
<1>3. QED
  BY <1>1, <1>2

\* The slots of a word, run one after another on a snapshot and a live file, have
\* together the effect of one indivisible step, for every word, every register
\* file and any number of engines: Cycle implements Machine.
THEOREM CycleImplementsMachine == CycleSpec => WordsAreAtomic
<1>1. CycleInit => CycleInv /\ Computed /\ Atomic!Init
  BY InitInv, InitAtomic
<1>2. CycleInv /\ Computed /\ [CycleNext]_vars => CycleInv' /\ Computed'
  BY NextInv, NextComputed
<1>3. CycleInv /\ Computed /\ [CycleNext]_vars => [Atomic!Next]_(Atomic!state)
  BY NextAtomic
<1>4. QED
  BY <1>1, <1>2, <1>3, PTL DEF CycleSpec, WordsAreAtomic, Atomic!Spec

=============================================================================
