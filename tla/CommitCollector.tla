--------------------------- MODULE CommitCollector ---------------------------
(***************************************************************************)
(* CommitCollector (ipu_emu/commit.py): builds one commit record for every *)
(* word from the callbacks of the cycle and of the fault recorder.  The    *)
(* BREAK slot's op is reported before its word begins, so it waits.        *)
(*                                                                         *)
(* A word is its BREAK slot, how it ends and its other ops, which stand    *)
(* together for every op the word issues, register and memory writes       *)
(* included.  The callers are the run loops, which stop at a BREAK slot,   *)
(* and ReferenceModel, whose step and run pass it and whose debug_run      *)
(* drops the stop it quits at.                                             *)
(***************************************************************************)
EXTENDS Naturals, Sequences, TLAPS

CONSTANTS
  Words,       \* [brk : BreakOps, ends : Endings, id]
  Imems,       \* programs: sequences of words
  EditsAt,     \* when the host writes IMEM: at a "stop", "between" runs
  NoPc,
  NoHalt,
  NoPending,
  MaxRecords   \* bound on the records made between two takes

BreakOps == {"NOP", "BREAK", "BREAK.IFEQ"}
Endings == {"retires", "halts", "faults", "raises"}
Halts == [id : 1..3, reason : {"halt", "fault"}]

CollectorAssumption ==
  /\ \A w \in Words : w.brk \in BreakOps /\ w.ends \in Endings
  /\ Imems \subseteq Seq(Words)
  /\ EditsAt \subseteq {"stop", "between"}
  /\ NoPc \notin Nat /\ NoHalt \notin Halts /\ MaxRecords \in Nat

VARIABLES
  imem, pc,
  halt,        \* IpuState.halt: [id, reason] of one HaltRecord, or NoHalt
  stopped,     \* the BREAK slot at the PC was evaluated and the run waits
  pending,     \* CommitCollector._pending
  pre, prePc, broke,
  seenHalt,
  records,     \* the records made since the last take
  looked,      \* (history) the PC whose BREAK slot was evaluated for the next word, and if it fired
  truth        \* (history) what the records should say

machine == <<imem, pc, halt>>
collector == <<pending, pre, prePc, broke, seenHalt, records>>
vars == <<machine, stopped, collector, looked, truth>>

NotLooked == [pc |-> NoPc, fired |-> FALSE]
Word == imem[pc + 1]
Inside == pc < Len(imem)
\* The ops of a word that its BREAK slot and its other slots issue.
BreakOp(w) == IF w.brk = "NOP" THEN {} ELSE {<<"break", w.id>>}
OtherOps(w) == {<<"others", w.id>>}
Fires(w) == CASE w.brk = "NOP" -> {FALSE} [] w.brk = "BREAK" -> {TRUE} [] OTHER -> BOOLEAN

Record(at, slots, outcome) == [pc |-> at, slots |-> slots, outcome |-> outcome]

\* A HaltRecord distinct from every one the state or the collector holds.
NewHalt(reason) ==
  [id |-> CHOOSE i \in 1..3 : \A h \in {halt, seenHalt} \ {NoHalt} : h.id # i, reason |-> reason]

Init ==
  /\ imem \in Imems /\ pc = 0 /\ halt = NoHalt
  /\ stopped = FALSE
  /\ pending = NoPending /\ pre = {} /\ prePc = NoPc /\ broke = FALSE
  /\ seenHalt = NoHalt /\ records = <<>>
  /\ looked = NotLooked /\ truth = <<>>

-----------------------------------------------------------------------------
(* The collector's callbacks *)

Waiting == [pending |-> pending, pre |-> pre, pc |-> prePc, broke |-> broke]

\* retired(), for the BREAK slot of `w` (a NOP is never issued): what waits then.
AfterBreak(w, fired) ==
  IF w.brk = "NOP" THEN Waiting
  ELSE IF pending = NoPending
  THEN [pending |-> pending, pre |-> BreakOp(w), pc |-> pc, broke |-> fired]
  ELSE [Waiting EXCEPT !.pending.slots = @ \cup BreakOp(w), !.broke = @ \/ fired]

\* (mutant: the stop's op goes to the next word, wherever it is)
BegunAnywhere(c) == [pc |-> pc, slots |-> c.pre, broke |-> c.broke]

\* begin(): the stop's op belongs to the word that begins only at its PC.
Begun(c) ==
  [pc |-> pc, slots |-> IF c.pc = pc THEN c.pre ELSE {}, broke |-> c.pc = pc /\ c.broke]

Clear == pre' = {} /\ prePc' = NoPc /\ broke' = FALSE

Emit(record) == records' = Append(records, record)
Expect(record) == truth' = Append(truth, record) /\ looked' = NotLooked

\* end(): the outcome of a word that leaves the halt record `h`.
Outcome(p, h) ==
  IF h # NoHalt /\ h # seenHalt /\ h.reason = "halt" THEN "halt"
  ELSE IF p.broke THEN "break" ELSE "retired"

\* _faulted(), in a word or before one.
Faulted ==
  /\ pending' = NoPending
  /\ Clear
  /\ Emit(Record(pc, {}, "fault"))
  /\ Expect(Record(pc, {}, "fault"))
  /\ halt' = NewHalt("fault") /\ stopped' = FALSE
  /\ UNCHANGED <<imem, pc, seenHalt>>

\* What the word at the PC should be recorded as, if the BREAK slot evaluated
\* for it was `seen`: a BREAK op only when the slot was evaluated, its ops only.
TrueRecord(w, seen) ==
  Record(pc, OtherOps(w) \cup (IF seen.pc = pc THEN BreakOp(w) ELSE {}),
         IF w.ends = "halts" THEN "halt"
         ELSE IF seen.pc = pc /\ seen.fired THEN "break" ELSE "retired")

\* The word runs, when `c` waits, with the BREAK evaluation `seen`.
Run(c, seen) ==
  LET w == Word
      begun == Begun(c)
      done == [begun EXCEPT !.slots = @ \cup OtherOps(w)]
  IN /\ stopped' = FALSE
     /\ \/ /\ w.ends \in {"retires", "halts"}
           /\ halt' = IF w.ends = "halts" THEN NewHalt("halt") ELSE halt
           /\ pc' = IF w.ends = "halts" THEN Len(imem) ELSE (pc + 1) % Len(imem)
           /\ seenHalt' = IF Outcome(done, halt') = "halt" THEN halt' ELSE seenHalt
           /\ pending' = NoPending /\ Clear
           /\ Emit(Record(done.pc, done.slots, Outcome(done, halt')))
           /\ Expect(TrueRecord(w, seen))
           /\ UNCHANGED imem
        \/ w.ends = "faults" /\ Faulted
        \/ /\ w.ends = "raises"
           /\ pending' = begun /\ Clear
           /\ looked' = NotLooked
           /\ UNCHANGED <<machine, seenHalt, records, truth>>

-----------------------------------------------------------------------------
(* The cycle's calls *)

Room == Len(records) < MaxRecords

\* F-2 at the fetch, or F-9 at the cycle limit.
FaultBeforeWord == ~stopped /\ Room /\ Faulted

\* evaluate_break, or a step that its BREAK slot stops.
EvaluateBreak ==
  /\ ~stopped /\ Inside
  /\ \E fired \in Fires(Word) :
       /\ LET c == AfterBreak(Word, fired) IN
            pending' = c.pending /\ pre' = c.pre /\ prePc' = c.pc /\ broke' = c.broke
       /\ looked' = [pc |-> pc, fired |-> fired]
  /\ stopped' = TRUE
  /\ UNCHANGED <<machine, seenHalt, records, truth>>

\* A step of a run loop whose BREAK slot does not fire.
StepHonouring ==
  /\ ~stopped /\ Inside /\ Room
  /\ FALSE \in Fires(Word)
  /\ Run(AfterBreak(Word, FALSE), [pc |-> pc, fired |-> FALSE])

\* ReferenceModel's step and run do not evaluate BREAK.
StepIgnoring ==
  /\ ~stopped /\ Inside /\ Room
  /\ Run(Waiting, looked)

\* The stopped word runs, or the one the PC was moved to.
Retire ==
  /\ stopped /\ Inside /\ Room
  /\ Run(Waiting, looked)

-----------------------------------------------------------------------------
(* The caller's steps between words *)

\* The debugger quits at a stop, and debug_run drops it (drop_stop).
Quit ==
  /\ stopped
  /\ stopped' = FALSE /\ looked' = NotLooked
  /\ Clear
  /\ UNCHANGED <<machine, pending, seenHalt, records, truth>>

MovePc ==
  /\ pc' \in 0..Len(imem) - 1
  /\ UNCHANGED <<imem, halt, stopped, collector, looked, truth>>

EditWord ==
  /\ (IF stopped THEN "stop" ELSE "between") \in EditsAt
  /\ \E p \in 1..Len(imem), w \in Words : imem' = [imem EXCEPT ![p] = w]
  /\ UNCHANGED <<pc, halt, stopped, collector, looked, truth>>

BeginRun ==
  /\ ~stopped
  /\ halt' = NoHalt
  /\ UNCHANGED <<imem, pc, stopped, collector, looked, truth>>

Take ==
  /\ ~stopped
  /\ records' = <<>> /\ truth' = <<>>
  /\ UNCHANGED <<machine, stopped, pending, pre, prePc, broke, seenHalt, looked>>

\* reset and load_program: the PC goes to 0 and a new collector watches the state.
NewCollector ==
  /\ ~stopped
  /\ imem' \in {imem} \cup Imems /\ pc' = 0 /\ halt' = NoHalt
  /\ pending' = NoPending /\ Clear
  /\ seenHalt' = halt' /\ records' = <<>> /\ truth' = <<>>
  /\ UNCHANGED <<stopped, looked>>

Next ==
  \/ FaultBeforeWord \/ EvaluateBreak \/ StepHonouring \/ StepIgnoring \/ Retire
  \/ Quit \/ MovePc \/ EditWord \/ BeginRun \/ Take \/ NewCollector

Spec == Init /\ [][Next]_vars

-----------------------------------------------------------------------------
(* Properties *)

\* Each record tells the ops, PC and outcome of the word it records, whatever
\* stops, moves of the PC, quits, faults and earlier halts came before: no BREAK
\* op of another word or of a dropped stop, and every HALT and break it met.
RecordsTellTheTruth == records = truth

\* Between words no word is pending: a later callback is never taken for one of a
\* word that is over.
NothingPends == pending = NoPending

\* commit.py says: "The BREAK slot runs before begin: its op, and whether it fired,
\* wait for the word at that PC to begin."
BreakWaitsForItsWord ==
  stopped /\ looked.pc = pc /\ Word.brk # "NOP" => prePc = pc /\ broke = looked.fired

-----------------------------------------------------------------------------
(* The records, for every program and every caller *)

\* No word ends in an error of the emulator itself (EmulatorError).
NothingRaises == \A w \in Words : w.ends # "raises"

\* While the run waits at a stop, what waits is what the BREAK slot evaluated there gave,
\* wherever the PC has been moved since; at other times nothing waits.
StopWaits ==
  IF stopped
  THEN /\ looked.pc \in Nat /\ looked.fired \in BOOLEAN
       /\ LET w == imem[looked.pc + 1] IN
          IF w.brk = "NOP"
          THEN ~looked.fired /\ pre = {} /\ prePc = NoPc /\ broke = FALSE
          ELSE pre = BreakOp(w) /\ prePc = looked.pc /\ broke = looked.fired
  ELSE looked = NotLooked /\ pre = {} /\ prePc = NoPc /\ broke = FALSE

\* Of the state's halts, a HALT is one the collector has reported: an old one is never
\* reported for a later word.
HaltsAreSeen ==
  /\ halt \in Halts \cup {NoHalt} /\ seenHalt \in Halts \cup {NoHalt}
  /\ halt # NoHalt /\ halt.reason = "halt" => halt = seenHalt

\* Inductive: a record is right because what waits is of the stopped word alone, no word
\* is left pending, and a halt not seen yet is of the word that ends.
RecordsInv ==
  /\ imem \in Seq(Words) /\ pc \in Nat
  /\ NothingPends /\ StopWaits /\ HaltsAreSeen /\ RecordsTellTheTruth

\* (hypothesis) No word is given up by an exception, and no word is replaced at a stop.
EveryWordEnds == CollectorAssumption /\ NothingRaises /\ "stop" \notin EditsAt

\* A new HaltRecord is none that the state or the collector holds: three are enough.
LEMMA NewHaltIsNew ==
  ASSUME HaltsAreSeen, EveryWordEnds, NEW reason \in {"halt", "fault"}
  PROVE  /\ NewHalt(reason) \in Halts /\ NewHalt(reason).reason = reason
         /\ NewHalt(reason) # seenHalt /\ NewHalt(reason) # NoHalt
<1> DEFINE others == {halt, seenHalt} \ {NoHalt}
           id == CHOOSE i \in 1..3 : \A h \in others : h.id # i
<1>1. \E i \in 1..3 : \A h \in others : h.id # i
  <2>1. \/ \A h \in others : h.id # 1
        \/ \A h \in others : h.id # 2
        \/ \A h \in others : h.id # 3
    OBVIOUS
  <2> QED BY <2>1
<1>2. id \in 1..3 /\ \A h \in others : h.id # id
  <2> HIDE DEF others
  <2> QED BY <1>1
<1>3. NewHalt(reason) = [id |-> id, reason |-> reason]
  BY DEF NewHalt
<1> HIDE DEF id
<1>4. NewHalt(reason) \in Halts /\ NewHalt(reason).reason = reason /\ NewHalt(reason).id = id
  BY <1>2, <1>3 DEF Halts
<1>5. seenHalt # NoHalt => seenHalt.id # id
  BY <1>2
<1> QED BY <1>4, <1>5 DEF HaltsAreSeen, EveryWordEnds, CollectorAssumption

\* A fault, in a word or before one, drops what waits and leaves no word pending.
LEMMA FaultKeeps ==
  ASSUME EveryWordEnds, RecordsInv, Faulted PROVE RecordsInv'
<1>1. /\ NewHalt("fault") \in Halts /\ NewHalt("fault").reason = "fault"
  BY NewHaltIsNew DEF RecordsInv
<1>2. HaltsAreSeen'
  BY <1>1 DEF Faulted, RecordsInv, HaltsAreSeen
<1>3. StopWaits' /\ NothingPends' /\ RecordsTellTheTruth' /\ imem' = imem /\ pc' = pc
  BY DEF Faulted, RecordsInv, StopWaits, NothingPends, RecordsTellTheTruth, Clear, Emit, Expect
<1> QED BY <1>2, <1>3 DEF RecordsInv

\* The word at the PC runs with the op and the outcome its own BREAK slot gave.
LEMMA RunKeeps ==
  ASSUME EveryWordEnds, RecordsInv, Inside, NEW c, NEW seen, Run(c, seen),
         seen.fired \in BOOLEAN, c.broke \in BOOLEAN,
         seen.pc = pc => /\ Begun(c).slots = BreakOp(Word) /\ Begun(c).broke = seen.fired,
         seen.pc # pc => /\ Begun(c).slots = {} /\ Begun(c).broke = FALSE
  PROVE  RecordsInv'
<1> DEFINE w == Word
           begun == Begun(c)
           done == [begun EXCEPT !.slots = @ \cup OtherOps(w)]
<1>1. w \in Words /\ w.ends \in {"retires", "halts", "faults"} /\ Len(imem) \in Nat \ {0}
  BY DEF RecordsInv, EveryWordEnds, CollectorAssumption, NothingRaises, Endings, Inside, Word
<1>2. CASE w.ends = "faults"
  <2>1. Faulted
    BY <1>2 DEF Run
  <2> QED BY <2>1, FaultKeeps
<1>3. CASE w.ends \in {"retires", "halts"}
  <2>1. /\ stopped' = FALSE
        /\ halt' = IF w.ends = "halts" THEN NewHalt("halt") ELSE halt
        /\ pc' = IF w.ends = "halts" THEN Len(imem) ELSE (pc + 1) % Len(imem)
        /\ seenHalt' = IF Outcome(done, halt') = "halt" THEN halt' ELSE seenHalt
        /\ pending' = NoPending /\ Clear
        /\ Emit(Record(done.pc, done.slots, Outcome(done, halt')))
        /\ Expect(TrueRecord(w, seen))
        /\ UNCHANGED imem
    BY <1>3 DEF Run
  <2>2. /\ NewHalt("halt") \in Halts /\ NewHalt("halt").reason = "halt"
        /\ NewHalt("halt") # seenHalt /\ NewHalt("halt") # NoHalt
    BY NewHaltIsNew DEF RecordsInv
  <2>3. done.pc = pc /\ done.slots = begun.slots \cup OtherOps(w) /\ done.broke = begun.broke
    BY DEF Begun
  <2>4. begun.broke \in BOOLEAN
    BY DEF Begun
  <2> HIDE DEF done, begun
  <2>5. /\ HaltsAreSeen'
        /\ Outcome(done, halt') =
             IF w.ends = "halts" THEN "halt" ELSE IF done.broke THEN "break" ELSE "retired"
    <3>1. CASE w.ends = "halts"
      <4>1. Outcome(done, halt') = "halt"
        BY <2>1, <2>2, <3>1 DEF Outcome
      <4> QED BY <2>1, <2>2, <3>1, <4>1 DEF HaltsAreSeen, RecordsInv
    <3>2. CASE w.ends = "retires"
      <4>1. halt' = halt /\ Outcome(done, halt') = IF done.broke THEN "break" ELSE "retired"
        BY <2>1, <3>2 DEF Outcome, RecordsInv, HaltsAreSeen
      <4>2. Outcome(done, halt') # "halt"
        BY <4>1
      <4> QED BY <2>1, <3>2, <4>1, <4>2 DEF HaltsAreSeen, RecordsInv
    <3> QED BY <1>3, <3>1, <3>2
  <2>6. Record(done.pc, done.slots, Outcome(done, halt')) = TrueRecord(w, seen)
    <3>1. done.slots = OtherOps(w) \cup (IF seen.pc = pc THEN BreakOp(w) ELSE {})
      BY <2>3 DEF begun
    <3>2. done.broke <=> seen.pc = pc /\ seen.fired
      BY <2>3 DEF begun
    <3>3. Outcome(done, halt') =
            IF w.ends = "halts" THEN "halt"
            ELSE IF seen.pc = pc /\ seen.fired THEN "break" ELSE "retired"
      BY <2>5, <3>2
    <3> QED BY <2>3, <3>1, <3>3 DEF TrueRecord, Record
  <2>7. imem' \in Seq(Words) /\ pc' \in Nat
    BY <1>1, <2>1 DEF RecordsInv
  <2>8. RecordsTellTheTruth'
    BY <2>1, <2>6 DEF RecordsInv, RecordsTellTheTruth, Emit, Expect
  <2>9. NothingPends' /\ StopWaits'
    BY <2>1 DEF NothingPends, StopWaits, Clear, Expect
  <2> QED BY <2>5, <2>7, <2>8, <2>9 DEF RecordsInv
<1> QED BY <1>1, <1>2, <1>3

\* The BREAK slot is evaluated: its op, and whether it fired, wait.
LEMMA BreakKeeps ==
  ASSUME EveryWordEnds, RecordsInv, EvaluateBreak PROVE RecordsInv'
<1>1. PICK fired \in Fires(Word) :
        /\ LET c == AfterBreak(Word, fired) IN
             pending' = c.pending /\ pre' = c.pre /\ prePc' = c.pc /\ broke' = c.broke
        /\ looked' = [pc |-> pc, fired |-> fired]
  BY DEF EvaluateBreak
<1>2. ~stopped /\ stopped' = TRUE /\ UNCHANGED <<machine, seenHalt, records, truth>>
  BY DEF EvaluateBreak
<1>3. fired \in BOOLEAN /\ (Word.brk = "NOP" => fired = FALSE)
  BY <1>1 DEF Fires
<1>4. pending = NoPending /\ pre = {} /\ prePc = NoPc /\ broke = FALSE
  BY <1>2 DEF RecordsInv, NothingPends, StopWaits
<1>5. imem' = imem /\ looked'.pc = pc /\ looked'.fired = fired /\ pc \in Nat
  BY <1>1, <1>2 DEF machine, RecordsInv
<1>6. pending' = NoPending
      /\ IF Word.brk = "NOP" THEN pre' = {} /\ prePc' = NoPc /\ broke' = FALSE
         ELSE pre' = BreakOp(Word) /\ prePc' = pc /\ broke' = fired
  BY <1>1, <1>4 DEF AfterBreak, Waiting
<1>7. NothingPends' /\ StopWaits'
  BY <1>2, <1>3, <1>5, <1>6 DEF NothingPends, StopWaits, Word, BreakOp
<1>8. HaltsAreSeen' /\ RecordsTellTheTruth' /\ imem' \in Seq(Words) /\ pc' \in Nat
  BY <1>2 DEF machine, RecordsInv, HaltsAreSeen, RecordsTellTheTruth
<1> QED BY <1>7, <1>8 DEF RecordsInv

\* A word that stopped at its BREAK, or another one the PC was moved to.
LEMMA RetireKeeps ==
  ASSUME EveryWordEnds, RecordsInv, Retire PROVE RecordsInv'
<1>1. stopped /\ Inside /\ Run(Waiting, looked)
  BY DEF Retire
<1>2. /\ looked.pc \in Nat /\ looked.fired \in BOOLEAN
      /\ LET w == imem[looked.pc + 1] IN
         IF w.brk = "NOP"
         THEN ~looked.fired /\ pre = {} /\ prePc = NoPc /\ broke = FALSE
         ELSE pre = BreakOp(w) /\ prePc = looked.pc /\ broke = looked.fired
  BY <1>1 DEF RecordsInv, StopWaits
<1>3. pc \in Nat /\ NoPc \notin Nat /\ broke \in BOOLEAN
  BY <1>2 DEF RecordsInv, EveryWordEnds, CollectorAssumption
<1>4. /\ Begun(Waiting).slots = IF prePc = pc THEN pre ELSE {}
      /\ Begun(Waiting).broke = (prePc = pc /\ broke) /\ Waiting.broke = broke
  BY DEF Begun, Waiting
<1>5. looked.pc = pc => Begun(Waiting).slots = BreakOp(Word) /\ Begun(Waiting).broke = looked.fired
  BY <1>2, <1>3, <1>4 DEF Word, BreakOp
<1>6. looked.pc # pc => Begun(Waiting).slots = {} /\ Begun(Waiting).broke = FALSE
  BY <1>2, <1>3, <1>4
<1> QED BY <1>1, <1>2, <1>3, <1>4, <1>5, <1>6, RunKeeps

\* A step that honours the BREAK slot records its op; one that does not, no op.
LEMMA StepsKeep ==
  ASSUME EveryWordEnds, RecordsInv, StepHonouring \/ StepIgnoring PROVE RecordsInv'
<1>1. /\ pending = NoPending /\ looked = NotLooked /\ pre = {} /\ prePc = NoPc /\ broke = FALSE
      /\ pc \in Nat /\ NoPc \notin Nat /\ Inside
  BY DEF StepHonouring, StepIgnoring, RecordsInv, NothingPends, StopWaits, EveryWordEnds,
         CollectorAssumption
<1>2. CASE StepHonouring
  <2> DEFINE c == AfterBreak(Word, FALSE)
             seen == [pc |-> pc, fired |-> FALSE]
  <2>1. Run(c, seen)
    BY <1>2 DEF StepHonouring
  <2>2. seen.pc = pc /\ seen.fired = FALSE
    OBVIOUS
  <2>3. Begun(c).slots = BreakOp(Word) /\ Begun(c).broke = FALSE /\ c.broke = FALSE
    <3>1. CASE Word.brk = "NOP"
      BY <1>1, <3>1 DEF AfterBreak, Waiting, Begun, BreakOp
    <3>2. CASE Word.brk # "NOP"
      BY <1>1, <3>2 DEF AfterBreak, Waiting, Begun, BreakOp
    <3> QED BY <3>1, <3>2
  <2> HIDE DEF c, seen
  <2> QED BY <1>1, <2>1, <2>2, <2>3, RunKeeps
<1>3. CASE StepIgnoring
  <2>1. Run(Waiting, looked)
    BY <1>3 DEF StepIgnoring
  <2>2. looked.pc = NoPc /\ looked.fired = FALSE
    BY <1>1 DEF NotLooked
  <2>3. Begun(Waiting).slots = {} /\ Begun(Waiting).broke = FALSE /\ Waiting.broke = FALSE
    BY <1>1 DEF Waiting, Begun
  <2> QED BY <1>1, <2>1, <2>2, <2>3, RunKeeps
<1> QED BY <1>2, <1>3

\* What the caller does between words.
LEMMA CallerKeeps ==
  ASSUME EveryWordEnds, RecordsInv,
         Quit \/ MovePc \/ EditWord \/ BeginRun \/ Take \/ NewCollector
  PROVE  RecordsInv'
<1>1. CASE Quit
  BY <1>1 DEF Quit, Clear, machine, RecordsInv, NothingPends, StopWaits, HaltsAreSeen,
              RecordsTellTheTruth
<1>2. CASE MovePc
  <2>1. pc' \in Nat
    BY <1>2 DEF MovePc, RecordsInv
  <2> QED BY <1>2, <2>1 DEF MovePc, collector, RecordsInv, NothingPends, StopWaits, HaltsAreSeen,
                           RecordsTellTheTruth
<1>3. CASE EditWord
  <2>1. ~stopped /\ UNCHANGED <<pc, halt, stopped, collector, looked, truth>>
    BY <1>3 DEF EditWord, EveryWordEnds
  <2>2. imem' \in Seq(Words)
    BY <1>3 DEF EditWord, RecordsInv
  <2> QED BY <2>1, <2>2 DEF collector, RecordsInv, NothingPends, StopWaits, HaltsAreSeen,
                           RecordsTellTheTruth
<1>4. CASE BeginRun
  BY <1>4 DEF BeginRun, collector, RecordsInv, NothingPends, StopWaits, HaltsAreSeen,
              RecordsTellTheTruth
<1>5. CASE Take
  BY <1>5 DEF Take, machine, RecordsInv, NothingPends, StopWaits, HaltsAreSeen, RecordsTellTheTruth
<1>6. CASE NewCollector
  <2>1. imem' \in Seq(Words)
    BY <1>6 DEF NewCollector, EveryWordEnds, CollectorAssumption, RecordsInv
  <2> QED BY <1>6, <2>1 DEF NewCollector, Clear, RecordsInv, NothingPends, StopWaits, HaltsAreSeen,
                           RecordsTellTheTruth
<1> QED BY <1>1, <1>2, <1>3, <1>4, <1>5, <1>6

\* For all words, programs and sequences of stops, steps, moves of the PC, quits, faults
\* and takes, every record tells what its word did, no word is pending between runs, and a
\* BREAK op waits for the word at its PC (CommitCollector.begin, end and retired).  Both
\* hypotheses are needed: commit_raise_doc shows what a word given up does, and a word
\* replaced at its stop is recorded with the BREAK op of the one it replaced.
THEOREM RecordsAreTrue ==
  ASSUME EveryWordEnds
  PROVE  Spec => [](RecordsTellTheTruth /\ NothingPends /\ BreakWaitsForItsWord)
<1>1. Init => RecordsInv
  BY DEF EveryWordEnds, CollectorAssumption, Init, RecordsInv, NothingPends, StopWaits,
         HaltsAreSeen, RecordsTellTheTruth
<1>2. RecordsInv /\ [Next]_vars => RecordsInv'
  <2> SUFFICES ASSUME RecordsInv, [Next]_vars PROVE RecordsInv'
    OBVIOUS
  <2>1. CASE FaultBeforeWord
    BY <2>1, FaultKeeps DEF FaultBeforeWord
  <2>2. CASE EvaluateBreak
    BY <2>2, BreakKeeps
  <2>3. CASE StepHonouring \/ StepIgnoring
    BY <2>3, StepsKeep
  <2>4. CASE Retire
    BY <2>4, RetireKeeps
  <2>5. CASE Quit \/ MovePc \/ EditWord \/ BeginRun \/ Take \/ NewCollector
    BY <2>5, CallerKeeps
  <2>6. CASE UNCHANGED vars
    BY <2>6 DEF vars, machine, collector, RecordsInv, NothingPends, StopWaits, HaltsAreSeen,
                RecordsTellTheTruth
  <2> QED BY <2>1, <2>2, <2>3, <2>4, <2>5, <2>6 DEF Next
<1>3. RecordsInv => RecordsTellTheTruth /\ NothingPends /\ BreakWaitsForItsWord
  BY DEF RecordsInv, StopWaits, BreakWaitsForItsWord, Word
<1> QED BY <1>1, <1>2, <1>3, PTL DEF Spec

=============================================================================
