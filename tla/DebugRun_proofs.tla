-------------------------- MODULE DebugRun_proofs --------------------------
(***************************************************************************)
(* The run loops, for every program, limit and debugger session: no word   *)
(* is lost from the counters, no run's own limit outlives it, and no stop  *)
(* is repeated for a word that has not run.  And ReferenceModel over them: *)
(* what its statistics count, and what a fault or a QUIT leaves.           *)
(***************************************************************************)
EXTENDS RefModel, Machine_proofs

Counted == stats.mult_active + stats.mult_idle

\* The counters are numbers.
CountsOK ==
  /\ stats \in RunStats
  /\ cycles \in Nat /\ earlier \in Nat /\ total \in Nat /\ lost \in Nat
  /\ phase \in {"idle", "loop", "issue", "stopped"}
  /\ mode \in {"plain", "debug"}

\* Between runs the locals of RunClock and of the loop are gone.
IdleIsClean == phase = "idle" => own = NoPc /\ cycles = 0 /\ resumed = "none"

\* The limit the host programmed is in force, or waits in RunClock._own_limit.
LimitIsKept ==
  /\ limit \in Nat /\ own \in Nat \cup {NoPc}
  /\ asked = IF own = NoPc THEN limit ELSE own

\* A loop that the callback told to STEP has run one word and will stop before
\* the next; one it told to CONTINUE has run at least one.
WordsSinceStop ==
  /\ sinceStop \in Nat
  /\ mode = "plain" => resumed = "none"
  /\ resumed = "STEP" => stepping /\ sinceStop = 1
  /\ resumed = "CONTINUE" => sinceStop >= 1

RunInv == CountsOK /\ IdleIsClean /\ LimitIsKept /\ WordsSinceStop /\ CountersAgree

-----------------------------------------------------------------------------
(* What the words do to the counters *)

\* A word that completes or is given up is counted once by the MULT slot.
LEMMA WordsCountOnce ==
  ASSUME stats \in RunStats, Retire \/ Idle \/ GiveUp
  PROVE  stats' \in RunStats /\ Counted' = Counted + 1
<1>1. \A w, st : st \in RunStats =>
        /\ CountMult(w, st) \in RunStats
        /\ CountMult(w, st).mult_active + CountMult(w, st).mult_idle
             = st.mult_active + st.mult_idle + 1
  BY SMT DEF CountMult, RunStats
<1>2. \A w, st : st \in RunStats =>
        /\ CountAcc(w, st) \in RunStats
        /\ CountAcc(w, st).mult_active = st.mult_active
        /\ CountAcc(w, st).mult_idle = st.mult_idle
  BY SMT DEF CountAcc, RunStats
<1>3. CASE Idle
  BY <1>3, SMT DEF Idle, RunStats, Counted
<1> DEFINE mul == CountMult(Schedule(Fetched), stats)
           acc == CountAcc(Schedule(Fetched), mul)
<1>4. mul \in RunStats /\ mul.mult_active + mul.mult_idle = Counted + 1
  BY <1>1, Zenon DEF Counted
<1>5. acc \in RunStats /\ acc.mult_active + acc.mult_idle = Counted + 1
  <2> HIDE DEF mul
  <2>1. /\ acc \in RunStats
        /\ acc.mult_active = mul.mult_active /\ acc.mult_idle = mul.mult_idle
    BY <1>2, <1>4, Zenon
  <2> HIDE DEF acc
  <2> QED BY <1>4, <2>1
<1>6. CASE Retire \/ GiveUp
  <2>1. stats' = mul \/ stats' = acc
    BY <1>6, Zenon DEF Retire, GiveUp
  <2>2. Counted' = stats'.mult_active + stats'.mult_idle
    BY DEF Counted
  <2> HIDE DEF mul, acc
  <2> QED BY <1>4, <1>5, <2>1, <2>2
<1> QED BY <1>3, <1>6

\* A fault counts nothing.
LEMMA FaultsCountNothing == FetchFault \/ WordFault => UNCHANGED stats
BY Zenon DEF FetchFault, WordFault, Fault

-----------------------------------------------------------------------------
(* The steps *)

LEMMA InitRun == RunInit => RunInv
BY DebugRunAssumption
   DEF RunInit, Init, RunInv, CountsOK, IdleIsClean, LimitIsKept, WordsSinceStop, CountersAgree,
       NoStats, RunStats

\* A run that ends counts the words it completed, with `cut` more lost.
LEMMA EndKeeps ==
  ASSUME RunInv, phase # "idle", NEW how, EndRun(how), NEW cut \in Nat,
         stats' \in RunStats, Counted' = Counted + cut, lost' = lost + cut
  PROVE  RunInv'
<1> USE DEF RunInv, CountsOK, IdleIsClean, LimitIsKept, WordsSinceStop, CountersAgree, EndRun
<1>1. CountsOK' /\ IdleIsClean' /\ WordsSinceStop'
  OBVIOUS
<1>2. LimitIsKept'
  OBVIOUS
<1>3. CountersAgree'
  BY DEF Counted
<1> QED BY <1>1, <1>2, <1>3

\* A word of a run completes, is lost or faults.
LEMMA CompleteKeeps ==
  ASSUME RunInv, NEW since \in Nat, WordCompletes(since), phase # "idle",
         resumed' = "STEP" => stepping' /\ since = 1,
         resumed' = "CONTINUE" => since >= 1,
         mode = "plain" => resumed' = "none"
  PROVE  RunInv'
<1>1. stats' \in RunStats /\ Counted' = Counted + 1
  BY WordsCountOnce DEF WordCompletes, RunInv, CountsOK
<1>2. cycles' = cycles + 1 /\ sinceStop' = since /\ phase' = "loop"
      /\ UNCHANGED <<mode, earlier, own, host, control>>
  BY DEF WordCompletes
<1> QED BY <1>1, <1>2 DEF RunInv, CountsOK, IdleIsClean, LimitIsKept, WordsSinceStop,
           CountersAgree, Counted, host

LEMMA CutShortKeeps ==
  ASSUME RunInv, phase # "idle", WordFaultsRun \/ WordCutShort
  PROVE  RunInv'
<1>1. CASE WordFaultsRun
  <2>1. UNCHANGED <<stats, lost>> /\ EndRun("fault")
    BY <1>1, FaultsCountNothing DEF WordFaultsRun
  <2>2. stats' \in RunStats /\ Counted' = Counted + 0 /\ lost' = lost + 0
    BY <2>1 DEF RunInv, CountsOK, RunStats, Counted
  <2> QED BY <2>1, <2>2, EndKeeps
<1>2. CASE WordCutShort
  <2>1. (Retire \/ Idle \/ GiveUp) /\ lost' = lost + 1
    BY <1>2 DEF WordCutShort
  <2>2. stats' \in RunStats /\ Counted' = Counted + 1
    BY <2>1, WordsCountOnce DEF RunInv, CountsOK
  <2>3. EndRun("error") \/ EndRun("interrupt")
    BY <1>2 DEF WordCutShort
  <2> QED BY <2>1, <2>2, <2>3, EndKeeps
<1> QED BY <1>1, <1>2

LEMMA StartKeeps ==
  ASSUME RunInv, Start
  PROVE  RunInv'
<1>1. PICK loop \in {"plain", "debug"}, max \in Limits \cup {NoPc}, reset \in BOOLEAN,
           atEntry \in BOOLEAN : StartRun(loop, max, reset, atEntry)
  BY DEF Start
<1>2. max \in Nat \cup {NoPc} /\ NoPc \notin Nat
  BY DebugRunAssumption
<1> USE <1>1, <1>2 DEF RunInv, CountsOK, IdleIsClean, LimitIsKept, WordsSinceStop, CountersAgree,
           StartRun, control
<1>3. CountsOK' /\ IdleIsClean' /\ WordsSinceStop'
  BY DEF NoStats, RunStats
<1>4. LimitIsKept'
  OBVIOUS
<1>5. CountersAgree'
  BY DEF NoStats, RunStats
<1> QED BY <1>3, <1>4, <1>5

\* A step of a loop, plain or debugged.
LEMMA LoopKeeps ==
  ASSUME RunInv, Loop
  PROVE  RunInv'
<1>1. ASSUME NEW how, EndRun(how), UNCHANGED <<stats, lost>>, phase # "idle"
      PROVE  RunInv'
  <2>1. stats' \in RunStats /\ Counted' = Counted + 0 /\ lost' = lost + 0
    BY <1>1 DEF RunInv, CountsOK, RunStats, Counted
  <2> QED BY <1>1, <2>1, EndKeeps
<1>2. CASE LoopExits
  BY <1>1, <1>2 DEF LoopExits, state
<1>3. CASE LimitFault
  BY <1>1, <1>3 DEF LimitFault, Fault
<1>4. CASE Admit
  BY <1>4 DEF Admit, locals, host, control, RunInv, CountsOK, IdleIsClean, LimitIsKept,
     WordsSinceStop, CountersAgree
<1>5. ASSUME Word, phase = "issue", mode = "plain" \/ ~stepping
      PROVE  RunInv'
  <2>1. CASE WordCompletes(sinceStop + 1) /\ UNCHANGED <<entry, stepping, resumed>>
    BY <1>5, <2>1, CompleteKeeps DEF RunInv, WordsSinceStop
  <2>2. CASE WordFaultsRun \/ WordCutShort
    BY <1>5, <2>2, CutShortKeeps
  <2> QED BY <1>5, <2>1, <2>2 DEF Word
<1>6. CASE PlainWord
  BY <1>5, <1>6 DEF PlainWord
<1>7. CASE FreeWord
  BY <1>5, <1>7 DEF FreeWord, AskedToStop
<1>8. CASE StopRaises
  BY <1>8, CutShortKeeps DEF StopRaises
<1>9. CASE Stop
  BY <1>9 DEF Stop, state, host, RunInv, CountsOK, IdleIsClean, LimitIsKept, WordsSinceStop,
     CountersAgree
<1> QED BY <1>2, <1>3, <1>4, <1>6, <1>7, <1>8, <1>9 DEF Loop

\* The callback answers a stop, or the run is interrupted.
LEMMA AnswerKeeps ==
  ASSUME RunInv, mode = "debug" \/ phase # "stopped", Answer \/ Interrupt \/ CallbackRaises
  PROVE  RunInv'
<1>1. ASSUME NEW how, EndRun(how), UNCHANGED <<stats, lost>>, phase # "idle"
      PROVE  RunInv'
  <2>1. stats' \in RunStats /\ Counted' = Counted + 0 /\ lost' = lost + 0
    BY <1>1 DEF RunInv, CountsOK, RunStats, Counted
  <2> QED BY <1>1, <2>1, EndKeeps
<1>2. CASE Interrupt \/ CallbackRaises
  BY <1>1, <1>2 DEF Interrupt, CallbackRaises, state
<1>3. ASSUME NEW a \in Answers, Leave(a)
      PROVE  RunInv'
  BY <1>1, <1>3 DEF Leave, state
<1>4. ASSUME NEW a \in Answers, Resume(a)
      PROVE  RunInv'
  <2>1. phase = "stopped" /\ mode = "debug"
    BY <1>4 DEF Resume, Resumes
  <2>2. CASE WordCompletes(1) /\ stepping' = (a = "STEP") /\ resumed' = a
    <3>1. resumed' = "STEP" => stepping'
      BY <2>2, Zenon
    <3>2. phase # "idle" /\ mode # "plain"
      BY <2>1
    <3> QED BY <2>2, <3>1, <3>2, CompleteKeeps
  <2>3. CASE WordFaultsRun \/ WordCutShort
    BY <2>1, <2>3, CutShortKeeps
  <2> QED BY <1>4, <2>2, <2>3 DEF Resume
<1> QED BY <1>2, <1>3, <1>4 DEF Answer

\* What the debugger session and the host do touches no counter, and the limit
\* only where LimitIsKept looks for it.
LEMMA SessionKeeps ==
  ASSUME RunInv, Session
  PROVE  RunInv'
<1> USE DEF RunInv, CountsOK, IdleIsClean, LimitIsKept, WordsSinceStop, CountersAgree
<1>1. CASE LoadProgram
  BY <1>1 DEF LoadProgram, OnlyState, locals, host, control
<1>2. CASE SetRegister
  BY <1>2 DEF SetRegister, WriteLr, SetPc, OnlyState, locals, host, control
<1>3. CASE SetWord
  BY <1>3 DEF SetWord, WriteImem, OnlyState, locals, host, control
<1>4. CASE SessionHalt
  BY <1>4 DEF SessionHalt, OnlyState, locals, host, control
<1>5. CASE SetF9
  BY <1>5 DEF SetF9, state, locals, control
<1>6. CASE \E p \in StopPcs : ToggleBreakpoint(p) \/ RunUntil(p)
  BY <1>6 DEF ToggleBreakpoint, RunUntil, OnlyControl, state, locals, host
<1>7. CASE \E l \in Limits : SetLimit(l)
  BY <1>7, DebugRunAssumption DEF SetLimit, state, locals, control
<1> QED BY <1>1, <1>2, <1>3, <1>4, <1>5, <1>6, <1>7 DEF Session

\* Only a debugged loop stops.
DebugStops == phase = "stopped" => mode = "debug"

LEMMA StopsAreDebugged == DebugStops /\ [RunNext]_vars => DebugStops'
BY DEF DebugStops, RunNext, vars, Start, StartRun, Loop, LoopExits, LimitFault, Admit, PlainWord,
       FreeWord, StopRaises, Stop, Word, WordCompletes, WordFaultsRun, WordCutShort, EndRun, Answer,
       Resume, Resumes, Leave, Interrupt, CallbackRaises, Session, LoadProgram, SetRegister,
       SetWord, SessionHalt, SetF9, ToggleBreakpoint, RunUntil, SetLimit, OnlyState, OnlyControl,
       AtBound, locals

LEMMA NextRun == RunInv /\ DebugStops /\ [RunNext]_vars => RunInv' /\ DebugStops'
<1> SUFFICES ASSUME RunInv, DebugStops, [RunNext]_vars PROVE RunInv'
  BY StopsAreDebugged
<1>1. CASE UNCHANGED vars
  BY <1>1 DEF vars, state, locals, host, RunInv, CountsOK, IdleIsClean, LimitIsKept,
     WordsSinceStop, CountersAgree
<1>2. CASE AtBound
  BY <1>1, <1>2 DEF AtBound
<1> QED BY <1>1, <1>2, StartKeeps, LoopKeeps, AnswerKeeps, SessionKeeps DEF RunNext, DebugStops

\* The counters and the stops of every run, bounded or debugged, keep their invariant.
THEOREM RunInvariance == RunSpec => [](RunInv /\ DebugStops)
<1>1. RunInit => RunInv /\ DebugStops
  BY InitRun DEF RunInit, DebugStops
<1> QED BY <1>1, NextRun, PTL DEF RunSpec

-----------------------------------------------------------------------------
(* The results *)

\* RunClock and the MULT slot count the same words, however the runs end.
THEOREM WordsAreCounted == RunSpec => []CountersAgree
BY RunInvariance, PTL DEF RunInv

\* end_run puts the host's cycle limit back, whatever ended the run.
THEOREM LimitsAreRestored == RunSpec => []LimitIsTheHosts
<1>1. RunInv => LimitIsTheHosts
  BY DEF RunInv, IdleIsClean, LimitIsKept, LimitIsTheHosts
<1> QED BY <1>1, RunInvariance, PTL

\* run_with_debug resumes the stopped word exactly once before it stops again.
THEOREM NoStopIsRepeated == RunSpec => []StopsMakeProgress
<1>1. RunInv => StopsMakeProgress
  BY DEF RunInv, WordsSinceStop, StopsMakeProgress
<1> QED BY <1>1, RunInvariance, PTL

-----------------------------------------------------------------------------
(* The machine's types, in every run *)

LEMMA WordRunTypes ==
  ASSUME MachineTypeOK,
         \/ Word \/ WordFaultsRun \/ WordCutShort
         \/ \E since \in Nat : WordCompletes(since)
  PROVE  MachineTypeOK'
<1>1. CASE Retire \/ GiveUp \/ Idle
  BY <1>1, RetireType, OtherTypes
<1>2. CASE FetchFault \/ WordFault
  BY <1>2, OtherTypes DEF FetchFault, WordFault, Fault
<1>3. QED
  BY <1>1, <1>2 DEF Word, WordFaultsRun, WordCutShort, WordCompletes

LEMMA RunTypes ==
  ASSUME MachineTypeOK,
         \/ Start \/ Loop \/ Answer \/ Interrupt \/ CallbackRaises \/ Session \/ AtBound
  PROVE  MachineTypeOK'
<1>1. CASE Start \/ Interrupt \/ CallbackRaises \/ AtBound
  BY <1>1, OtherTypes DEF Start, StartRun, Interrupt, CallbackRaises, AtBound, vars, state
<1>2. CASE Loop
  <2>1. CASE PlainWord \/ FreeWord \/ StopRaises
    BY <2>1, WordRunTypes DEF PlainWord, FreeWord, StopRaises
  <2>2. CASE LoopExits \/ LimitFault \/ Admit \/ Stop
    BY <2>2, OtherTypes DEF LoopExits, LimitFault, Fault, Admit, Stop, state
  <2>3. QED
    BY <1>2, <2>1, <2>2 DEF Loop
<1>3. CASE Answer
  <2>1. PICK a \in Answers : Resume(a) \/ Leave(a)
    BY <1>3 DEF Answer
  <2>2. CASE Resume(a)
    BY <2>2, WordRunTypes DEF Resume
  <2>3. CASE Leave(a)
    BY <2>3, OtherTypes DEF Leave, state
  <2>4. QED
    BY <2>1, <2>2, <2>3
<1>4. CASE Session
  <2>1. CASE LoadProgram
    BY <2>1, MachineAssumption, IsaAssumption DEF LoadProgram, MachineTypeOK
  <2>2. CASE SetRegister \/ SetWord
    BY <2>2, OtherTypes DEF SetRegister, SetWord
  <2>3. CASE SessionHalt
    BY <2>3, IsaAssumption DEF SessionHalt, MachineTypeOK
  <2>4. CASE SetF9 \/ (\E p \in StopPcs : ToggleBreakpoint(p) \/ RunUntil(p))
             \/ (\E l \in Limits : SetLimit(l))
    BY <2>4, OtherTypes DEF SetF9, ToggleBreakpoint, RunUntil, OnlyControl, SetLimit, state
  <2>5. QED
    BY <1>4, <2>1, <2>2, <2>3, <2>4 DEF Session
<1>5. QED
  BY <1>1, <1>2, <1>3, <1>4

-----------------------------------------------------------------------------
(* ReferenceModel *)

\* A run belongs to a call, and only debug_run uses the debugged loop.
CallInv ==
  /\ api \in {"step", "run", "debug_run", NoCall} /\ started \in BOOLEAN /\ words \in Nat
  /\ phase # "idle" => api # NoCall /\ (mode = "debug" <=> api = "debug_run")
  /\ phase = "idle" => mode = "plain"

RefInv == MachineTypeOK /\ RunInv /\ DebugStops /\ CallInv

LEMMA InitRef == RefInit => RefInv
<1> SUFFICES ASSUME RefInit PROVE RefInv
  OBVIOUS
<1>1. MachineTypeOK /\ RunInv
  BY InitMachine, InitRun DEF RefInit, RunInit
<1>2. DebugStops /\ CallInv
  BY DEF RefInit, RunInit, DebugStops, CallInv
<1>3. QED
  BY <1>1, <1>2 DEF RefInv

\* The call a host makes is a run that starts.
LEMMA CallStarts ==
  ASSUME CallInv, StepCall \/ RunCall \/ DebugCall
  PROVE  /\ Start /\ api = NoCall /\ phase = "idle" /\ phase' = "loop" /\ UNCHANGED <<started, words>>
         /\ api' \in {"step", "run", "debug_run"} /\ (mode' = "debug" <=> api' = "debug_run")
         /\ mode' \in {"plain", "debug"}
         /\ total' = (IF started THEN total ELSE 0) /\ earlier' = total' /\ cycles' = cycles
<1>1. PICK name \in {"step", "run", "debug_run"}, loop \in {"plain", "debug"},
           max \in Limits \cup {NoPc}, atEntry \in BOOLEAN :
        /\ Call(name, loop, max, atEntry)
        /\ loop = "debug" <=> name = "debug_run"
        /\ loop = "plain" => ~atEntry
  <2>1. CASE StepCall
    BY <2>1 DEF StepCall
  <2>2. CASE RunCall
    BY <2>2 DEF RunCall
  <2>3. CASE DebugCall
    BY <2>3 DEF DebugCall
  <2>4. QED
    BY <2>1, <2>2, <2>3
<1>2. started \in BOOLEAN /\ (~started) \in BOOLEAN
  <2>1. \A b \in BOOLEAN : (~b) \in BOOLEAN
    OBVIOUS
  <2>2. QED
    BY <2>1 DEF CallInv
<1>3. StartRun(loop, max, ~started, atEntry) /\ api = NoCall /\ api' = name
      /\ UNCHANGED <<started, words>>
  BY <1>1, Zenon DEF Call
<1>4. Start
  BY <1>1, <1>2, <1>3, Zenon DEF Start
<1>5. QED
  BY <1>1, <1>2, <1>3, <1>4 DEF StartRun

\* A step of the run that a call drives.
LEMMA RunsStep ==
  ASSUME RefInv, Runs
  PROVE  \/ Loop \/ Answer \/ Interrupt \/ CallbackRaises
         \/ StepIssues \/ StepEnds
BY DEF Runs, Loop

\* A run that goes on stays in its loop; one that ends leaves the debugged one.
LEMMA RunsMode ==
  ASSUME RefInv, Runs
  PROVE  /\ phase # "idle" /\ UNCHANGED <<api, started>>
         /\ phase' # "idle" => mode' = mode
         /\ phase' = "idle" => mode' = "plain"
<1>1. UNCHANGED <<api, started>>
  BY DEF Runs
<1>2. CASE StepIssues \/ StepEnds \/ LoopExits \/ LimitFault \/ Admit \/ Stop
  <2>1. phase # "idle"
    BY <1>2 DEF StepIssues, StepEnds, LoopExits, LimitFault, Admit, Stop
  <2>2. CASE StepIssues \/ Admit \/ Stop
    BY <1>1, <2>1, <2>2 DEF StepIssues, Admit, Stop, locals
  <2>3. CASE StepEnds \/ LoopExits \/ LimitFault
    BY <1>1, <2>1, <2>3 DEF StepEnds, LoopExits, LimitFault, EndRun
  <2>4. QED
    BY <1>2, <2>2, <2>3
<1>3. ASSUME phase # "idle", WordFaultsRun \/ WordCutShort \/ \E s : WordCompletes(s)
      PROVE  (phase' = "idle" /\ mode' = "plain") \/ (phase' = "loop" /\ mode' = mode)
  <2>1. CASE WordFaultsRun \/ WordCutShort
    BY <2>1 DEF WordFaultsRun, WordCutShort, EndRun
  <2>2. CASE \E s : WordCompletes(s)
    BY <2>2 DEF WordCompletes
  <2>3. QED
    BY <1>3, <2>1, <2>2
<1>4. CASE PlainWord \/ FreeWord \/ StopRaises
  BY <1>1, <1>3, <1>4 DEF PlainWord, FreeWord, StopRaises, Word
<1>5. CASE Answer \/ Interrupt \/ CallbackRaises
  BY <1>1, <1>3, <1>5 DEF Answer, Resume, Resumes, Leave, Interrupt, CallbackRaises, EndRun
<1>6. QED
  BY <1>2, <1>4, <1>5 DEF Runs

LEMMA RunsKeep ==
  ASSUME RefInv, Runs
  PROVE  RefInv'
<1>1. phase # "idle" /\ UNCHANGED <<api, started>>
      /\ (phase' # "idle" => mode' = mode) /\ (phase' = "idle" => mode' = "plain")
  BY RunsMode
<1>2. CallInv'
  BY <1>1 DEF RefInv, CallInv, Runs
<1>3. CASE Loop \/ Answer \/ Interrupt \/ CallbackRaises
  BY <1>2, <1>3, RunTypes, LoopKeeps, AnswerKeeps, StopsAreDebugged DEF RefInv, DebugStops, RunNext
<1>4. CASE StepIssues
  BY <1>2, <1>4, OtherTypes DEF StepIssues, state, locals, host, control, RefInv, RunInv, CountsOK,
     IdleIsClean, LimitIsKept, WordsSinceStop, CountersAgree, DebugStops
<1>5. CASE StepEnds
  <2>1. stats' \in RunStats /\ Counted' = Counted + 0 /\ lost' = lost + 0
    BY <1>5 DEF StepEnds, state, RefInv, RunInv, CountsOK, RunStats, Counted
  <2>2. RunInv'
    BY <1>1, <1>5, <2>1, EndKeeps DEF StepEnds, RefInv
  <2>3. MachineTypeOK' /\ DebugStops'
    BY <1>5, OtherTypes DEF StepEnds, EndRun, state, RefInv, DebugStops
  <2>4. QED
    BY <1>2, <2>2, <2>3 DEF RefInv
<1>6. QED
  BY <1>3, <1>4, <1>5, RunsStep

\* The host's own calls find no run, and leave none.
LEMMA HostCallsKeep ==
  ASSUME RefInv, Debugs \/ Return \/ Reset \/ HostLoad \/ WriteRegister \/ SetFaultEnable
  PROVE  RefInv'
<1>1. CASE Debugs
  <2>1. Session /\ UNCHANGED <<api, started, words, phase, mode>>
    BY <1>1 DEF Debugs, Session, SetRegister, SetWord, SessionHalt, SetLimit, OnlyState, locals
  <2>2. QED
    BY <2>1, RunTypes, SessionKeeps DEF RefInv, DebugStops, CallInv
<1>2. CASE Return
  BY <1>2, OtherTypes DEF Return, state, locals, control, RefInv, RunInv, CountsOK, IdleIsClean,
     LimitIsKept, WordsSinceStop, CountersAgree, DebugStops, CallInv
<1>3. CASE Reset
  <2>1. phase = "idle" /\ UNCHANGED <<phase, mode>>
    BY <1>3 DEF Reset, RefInv, CallInv, locals
  <2>2. MachineTypeOK'
    BY <1>3, MachineAssumption DEF Reset, RefInv, MachineTypeOK, Memory
  <2>3. RunInv'
    BY <1>3, <2>1 DEF Reset, locals, RefInv, RunInv, CountsOK, IdleIsClean, LimitIsKept,
       WordsSinceStop, CountersAgree, NoStats, RunStats
  <2>4. DebugStops' /\ CallInv'
    BY <1>3, <2>1 DEF Reset, RefInv, DebugStops, CallInv
  <2>5. QED
    BY <2>2, <2>3, <2>4 DEF RefInv
<1>4. CASE HostLoad
  <2>1. phase = "idle" /\ UNCHANGED <<phase, mode>>
    BY <1>4 DEF HostLoad, Writable, RefInv, CallInv, locals
  <2>2. MachineTypeOK'
    BY <1>4, MachineAssumption, IsaAssumption DEF HostLoad, RefInv, MachineTypeOK
  <2>3. RunInv'
    BY <1>4, <2>1 DEF HostLoad, locals, RefInv, RunInv, CountsOK, IdleIsClean, LimitIsKept,
       WordsSinceStop, CountersAgree, NoStats, RunStats
  <2>4. DebugStops' /\ CallInv'
    BY <1>4, <2>1 DEF HostLoad, RefInv, DebugStops, CallInv
  <2>5. QED
    BY <2>2, <2>3, <2>4 DEF RefInv
<1>5. CASE WriteRegister
  BY <1>5, OtherTypes DEF WriteRegister, WriteLr, OnlyState, model, locals, host, control, RefInv,
     RunInv, CountsOK, IdleIsClean, LimitIsKept, WordsSinceStop, CountersAgree, DebugStops, CallInv
<1>6. CASE SetFaultEnable
  BY <1>6, OtherTypes DEF SetFaultEnable, SetF9, model, state, locals, control, RefInv, RunInv,
     CountsOK, IdleIsClean, LimitIsKept, WordsSinceStop, CountersAgree, DebugStops, CallInv
<1>7. QED
  BY <1>1, <1>2, <1>3, <1>4, <1>5, <1>6

LEMMA CallsKeep ==
  ASSUME RefInv, StepCall \/ RunCall \/ DebugCall
  PROVE  RefInv'
<1>1. Start /\ phase' = "loop" /\ UNCHANGED <<started, words>>
      /\ api' \in {"step", "run", "debug_run"} /\ (mode' = "debug" <=> api' = "debug_run")
  BY CallStarts DEF RefInv
<1>2. CallInv' /\ DebugStops'
  BY <1>1, RefModelAssumption DEF RefInv, CallInv, DebugStops
<1>3. QED
  BY <1>1, <1>2, StartKeeps, RunTypes DEF RefInv

LEMMA NextRef == RefInv /\ [RefNext]_refvars => RefInv'
<1> SUFFICES ASSUME RefInv, [RefNext]_refvars PROVE RefInv'
  OBVIOUS
<1>1. CASE UNCHANGED refvars \/ (AtBound /\ UNCHANGED model)
  <2>1. UNCHANGED <<state, phase, locals, host, model>>
    BY <1>1 DEF AtBound, refvars, vars
  <2>2. MachineTypeOK'
    BY <2>1, OtherTypes DEF state, RefInv
  <2>3. RunInv' /\ DebugStops' /\ CallInv'
    BY <2>1 DEF model, state, locals, host, RefInv, RunInv, CountsOK, IdleIsClean, LimitIsKept,
       WordsSinceStop, CountersAgree, DebugStops, CallInv
  <2>4. QED
    BY <2>2, <2>3 DEF RefInv
<1>2. CASE StepCall \/ RunCall \/ DebugCall
  BY <1>2, CallsKeep
<1>3. CASE Runs
  BY <1>3, RunsKeep
<1>4. CASE Debugs \/ Return \/ Reset \/ HostLoad \/ WriteRegister \/ SetFaultEnable
  BY <1>4, HostCallsKeep
<1>5. QED
  BY <1>1, <1>2, <1>3, <1>4 DEF RefNext

\* Every state of the model: the machine's types, the run's invariant and calls.
THEOREM RefInvariance == RefSpec => []RefInv
BY InitRef, NextRef, PTL DEF RefSpec

-----------------------------------------------------------------------------
(* What ReferenceModel's callers rely on *)

\* A faulted model is frozen: whatever the host calls, until it resets the model,
\* registers, XMEM, program, PC, halt record and cycle count stay (IPU-FLT-7).
THEOREM FaultsFreezeTheModel == RefSpec => FaultFreezes
<1> DEFINE Frozen == UNCHANGED <<regs, xmem, imem, plen, pc, halt, total>>
<1>1. ASSUME RefInv, RefNext, api = NoCall, Faulted
      PROVE  Reset \/ Frozen
  <2>1. phase = "idle"
    BY <1>1 DEF RefInv, CallInv
  <2>2. ~StepCall /\ ~RunCall /\ ~DebugCall
    BY <1>1 DEF StepCall, RunCall, DebugCall, Call, Steppable
  <2>3. ~Runs /\ ~Debugs /\ ~Return
    BY <1>1, <2>1 DEF Runs, Debugs, Return
  <2>4. ~HostLoad /\ ~WriteRegister
    BY <1>1 DEF HostLoad, WriteRegister, Writable, Status
  <2>5. SetFaultEnable \/ AtBound => Frozen
    BY DEF SetFaultEnable, SetF9, AtBound, vars, state, host
  <2> QED BY <1>1, <2>2, <2>3, <2>4, <2>5 DEF RefNext
<1>2. RefInv /\ [RefNext]_refvars => [api = NoCall /\ Faulted => Reset \/ Frozen]_refvars
  BY <1>1
<1> QED BY <1>2, RefInvariance, PTL DEF RefSpec, FaultFreezes

\* What a step of a call's run leaves: `ended` and `quit` when it ends, and of the
\* counters a word that retired and, unless Ctrl-C came first, was counted.
LEMMA RunsLeave ==
  ASSUME RefInv, Runs, quit = FALSE
  PROVE  /\ phase' = "idle" => ended' \in {"exit", "fault", "error", "interrupt"}
         /\ phase' # "idle" => ended' = ended
         /\ quit' = FALSE \/ (quit' = TRUE /\ api = "debug_run" /\ phase' = "idle")
         /\ \/ Missed' = Missed
            \/ phase' = "idle" /\ ended' = "interrupt" /\ Missed' = Missed + 1
<1>1. /\ phase # "idle" /\ UNCHANGED <<api, started>> /\ words \in Nat
      /\ cycles \in Nat /\ earlier \in Nat /\ stats \in RunStats
      /\ Missed = words - (earlier + cycles)
  BY RunsMode DEF RefInv, RunInv, CountsOK, CallInv, Missed
<1>2. words' = IF Retire \/ Idle THEN words + 1 ELSE words
  BY DEF Runs
<1>3. Counted \in Nat
  BY <1>1 DEF RunStats, Counted
<1>4. ASSUME UNCHANGED stats \/ GiveUp
      PROVE  words' = words
  <2>1. CASE UNCHANGED stats
    <3>1. Counted' # Counted + 1
      BY <1>3, <2>1 DEF Counted
    <3> QED BY <1>1, <1>2, <3>1, WordsCountOnce
  <2>2. CASE GiveUp
    <3>1. ~Retire /\ ~Idle
      BY <2>2 DEF GiveUp, Retire, Idle
    <3> QED BY <1>2, <3>1
  <2> QED BY <1>4, <2>1, <2>2
<1>5. ASSUME NEW how \in {"exit", "fault", "error"}, EndRun(how), UNCHANGED stats \/ GiveUp
      PROVE  phase' = "idle" /\ ended' = how /\ Missed' = Missed
  <2>1. phase' = "idle" /\ ended' = how /\ total' = earlier + cycles
    BY <1>5 DEF EndRun
  <2> QED BY <1>1, <1>4, <1>5, <2>1 DEF Missed
<1>6. ASSUME EndRun("interrupt"), UNCHANGED stats \/ Retire \/ Idle
      PROVE  phase' = "idle" /\ ended' = "interrupt" /\ (Missed' = Missed \/ Missed' = Missed + 1)
  <2>1. phase' = "idle" /\ ended' = "interrupt" /\ total' = earlier + cycles
    BY <1>6 DEF EndRun
  <2> QED BY <1>1, <1>2, <2>1 DEF Missed
<1>7. ASSUME phase' \in {"loop", "issue", "stopped"}, UNCHANGED <<earlier, cycles, stats>>
      PROVE  Missed' = Missed
  BY <1>1, <1>4, <1>7 DEF Missed
<1>8. ASSUME NEW since, WordCompletes(since)
      PROVE  phase' # "idle" /\ ended' = ended /\ quit' = quit /\ Missed' = Missed
  <2>1. phase' = "loop" /\ cycles' = cycles + 1 /\ UNCHANGED <<earlier, ended, quit>>
    BY <1>8 DEF WordCompletes, host
  <2>2. words' = words + 1
    BY <1>2, <1>8 DEF WordCompletes
  <2> QED BY <1>1, <2>1, <2>2 DEF Missed
<1>9. ASSUME WordFaultsRun \/ WordCutShort
      PROVE  /\ phase' = "idle" /\ ended' \in {"fault", "error", "interrupt"} /\ quit' = quit
             /\ Missed' = Missed \/ (ended' = "interrupt" /\ Missed' = Missed + 1)
  <2>1. CASE WordFaultsRun
    BY <1>5, <2>1, FaultsCountNothing DEF WordFaultsRun
  <2>2. CASE WordCutShort
    BY <1>5, <1>6, <2>2 DEF WordCutShort
  <2> QED BY <1>9, <2>1, <2>2
<1>10. CASE StepIssues \/ Admit \/ Stop
  <2>1. /\ phase' \in {"loop", "issue", "stopped"} /\ UNCHANGED <<earlier, cycles, stats, ended, quit>>
    BY <1>10 DEF StepIssues, Admit, Stop, locals, host, state
  <2> QED BY <1>7, <2>1
<1>11. CASE StepEnds \/ LoopExits \/ LimitFault
  <2>1. /\ EndRun("exit") \/ EndRun("fault") 
        /\ UNCHANGED <<stats, quit>>
    BY <1>11 DEF StepEnds, LoopExits, LimitFault, Fault, state
  <2> QED BY <1>5, <2>1
<1>12. CASE PlainWord \/ FreeWord \/ StopRaises
  BY <1>8, <1>9, <1>12 DEF PlainWord, FreeWord, StopRaises, Word
<1>13. CASE Answer
  <2>1. PICK a \in Answers : Resume(a) \/ Leave(a)
    BY <1>13 DEF Answer
  <2>2. CASE Resume(a)
    BY <1>8, <1>9, <2>2 DEF Resume
  <2>3. CASE Leave(a)
    <3>1. EndRun("exit") /\ UNCHANGED stats /\ quit' \in BOOLEAN /\ api = "debug_run"
      BY <1>1, <2>3 DEF Leave, state, RefInv, CallInv, DebugStops
    <3> QED BY <1>5, <3>1
  <2> QED BY <2>1, <2>2, <2>3
<1>14. CASE Interrupt \/ CallbackRaises
  <2>1. (EndRun("interrupt") \/ EndRun("error")) /\ UNCHANGED <<stats, quit>>
    BY <1>14 DEF Interrupt, CallbackRaises, state
  <2> QED BY <1>5, <1>6, <2>1
<1> QED BY <1>10, <1>11, <1>12, <1>13, <1>14 DEF Runs

\* A model that has not started has run nothing since the last reset, or its last
\* call raised; and a quit is that of the last debug_run, which has started it.
CallerInv ==
  /\ ended \in {"exit", "fault", "error", "interrupt"}
  /\ api = NoCall /\ ~started => ended \in {"error", "interrupt"} \/ (words = 0 /\ total = 0)
  /\ quit \in BOOLEAN
  /\ quit /\ api = NoCall => started
  /\ quit /\ api # NoCall => api = "debug_run" /\ phase = "idle"

LEMMA NextCaller == RefInv /\ CallerInv /\ [RefNext]_refvars => CallerInv'
<1> SUFFICES ASSUME RefInv, CallerInv, [RefNext]_refvars PROVE CallerInv'
  OBVIOUS
<1>1. CASE StepCall \/ RunCall \/ DebugCall
  <2>1. api' # NoCall
    BY <1>1, CallStarts, RefModelAssumption DEF RefInv
  <2>2. quit' = FALSE /\ ended' = ended
    BY <1>1 DEF StepCall, RunCall, DebugCall, Call, StartRun
  <2> QED BY <2>1, <2>2 DEF CallerInv
<1>2. CASE Runs
  <2>1. api # NoCall /\ phase # "idle" /\ UNCHANGED <<api, started>>
    BY <1>2, RunsMode DEF Runs
  <2>2. quit = FALSE
    BY <2>1 DEF CallerInv
  <2>3. /\ phase' = "idle" => ended' \in {"exit", "fault", "error", "interrupt"}
        /\ phase' # "idle" => ended' = ended
        /\ quit' = FALSE \/ (quit' = TRUE /\ api = "debug_run" /\ phase' = "idle")
    BY <1>2, <2>2, RunsLeave
  <2> QED BY <2>1, <2>3 DEF CallerInv
<1>3. CASE Debugs
  <2>1. UNCHANGED <<ended, quit, api, started, phase>> /\ phase # "idle"
    BY <1>3 DEF Debugs, SetRegister, SetWord, SessionHalt, SetLimit, OnlyState, host
  <2>2. api # NoCall
    BY <2>1 DEF RefInv, CallInv
  <2> QED BY <2>1, <2>2 DEF CallerInv
<1>4. CASE Return
  <2>1. /\ api # NoCall /\ phase = "idle" /\ api' = NoCall /\ UNCHANGED ended
        /\ started' = (started \/ api = "debug_run" \/ ended \in {"exit", "fault"})
        /\ quit' = IF api = "debug_run" /\ ended = "interrupt" THEN TRUE ELSE quit
    BY <1>4 DEF Return
  <2> QED BY <2>1 DEF CallerInv
<1>5. CASE Reset \/ HostLoad
  BY <1>5 DEF Reset, HostLoad, Writable, CallerInv
<1>6. CASE WriteRegister \/ SetFaultEnable \/ (AtBound /\ UNCHANGED model) \/ UNCHANGED refvars
  BY <1>6 DEF WriteRegister, OnlyState, SetFaultEnable, SetF9, AtBound, refvars, vars, model,
     host, CallerInv
<1> QED BY <1>1, <1>2, <1>3, <1>4, <1>5, <1>6 DEF RefNext

THEOREM CallerInvariance == RefSpec => [](RefInv /\ CallerInv)
<1>1. RefInit => CallerInv
  BY DEF RefInit, RunInit, CallerInv
<1> QED BY <1>1, InitRef, NextRef, NextCaller, PTL DEF RefSpec

\* After a QUIT or a Ctrl-C in the debugger the model waits where it stopped: the
\* host, which finds it running, can write nothing until it resets the model, and
\* the next call goes on with those registers, that PC and those statistics.
THEOREM QuitsPauseTheModel == RefSpec => QuitPauses
<1> DEFINE Waits == api = NoCall /\ quit /\ halt = NoHalt /\ pc < ImemSize
           Kept == UNCHANGED <<regs, xmem, imem, plen, pc, halt, sticky, f1on, stats, total>>
<1>1. ASSUME RefInv, CallerInv, RefNext, Waits
      PROVE  Reset \/ Kept
  <2>1. started /\ phase = "idle"
    BY <1>1 DEF RefInv, CallInv, CallerInv
  <2>2. StepCall \/ RunCall \/ DebugCall => Kept
    BY <1>1, <2>1 DEF StepCall, RunCall, DebugCall, Call, StartRun
  <2>3. ~Runs /\ ~Debugs /\ ~Return
    BY <1>1, <2>1 DEF Runs, Debugs, Return
  <2>4. ~HostLoad /\ ~WriteRegister
    <3>1. ~(pc >= ImemSize)
      BY <1>1, IsaAssumption DEF RefInv, MachineTypeOK
    <3>2. Status = "running"
      BY <1>1, <2>1, <3>1 DEF Status, Faulted, QuitPastImem
    <3> QED BY <3>2 DEF HostLoad, WriteRegister, Writable
  <2>5. SetFaultEnable \/ AtBound => Kept
    BY DEF SetFaultEnable, SetF9, AtBound, vars, state, host
  <2> QED BY <1>1, <2>2, <2>3, <2>4, <2>5 DEF RefNext
<1>2. RefInv /\ CallerInv /\ [RefNext]_refvars => [Waits => Reset \/ Kept]_refvars
  BY <1>1
<1> QED BY <1>2, CallerInvariance, PTL DEF RefSpec, QuitPauses

-----------------------------------------------------------------------------
(* What the statistics count *)

\* A call holds the words its run retires, and those of the runs before it unless
\* the model has not started.
LEMMA CallsMiss ==
  ASSUME RefInv, CallerInv, StepCall \/ RunCall \/ DebugCall
  PROVE  \/ Missed' = Missed
         \/ ~started /\ ended \in {"error", "interrupt"} /\ Missed' = words
<1>1. /\ api = NoCall /\ phase = "idle" /\ phase' = "loop" /\ UNCHANGED words
      /\ total' = (IF started THEN total ELSE 0) /\ earlier' = total' /\ cycles' = cycles
  BY CallStarts DEF RefInv
<1>2. cycles = 0 /\ total \in Nat /\ words \in Nat
  BY <1>1 DEF RefInv, RunInv, CountsOK, IdleIsClean, CallInv
<1>3. Missed = words - total /\ Missed' = words - (IF started THEN total ELSE 0)
  BY <1>1, <1>2 DEF Missed
<1>4. started \/ ended \in {"error", "interrupt"} \/ (words = 0 /\ total = 0)
  BY <1>1 DEF CallerInv
<1> QED BY <1>2, <1>3, <1>4

\* The statistics count every word retired since the last reset or load_program,
\* whatever the sequence of calls, programs and endings, but for the word a Ctrl-C
\* cuts off from the clock and for the words of a model whose first calls raised.
THEOREM StatsCountWords == RefSpec => StatsMissOnly
<1> DEFINE Allowed ==
      \/ Missed' = Missed
      \/ (Reset \/ HostLoad) /\ Missed' = 0
      \/ Runs /\ phase' = "idle" /\ ended' = "interrupt" /\ Missed' = Missed + 1
      \/ /\ StepCall \/ RunCall \/ DebugCall
         /\ ~started /\ ended \in {"error", "interrupt"}
         /\ Missed' = words
<1>1. ASSUME RefInv, CallerInv, RefNext
      PROVE  Allowed
  <2>1. CASE StepCall \/ RunCall \/ DebugCall
    BY <1>1, <2>1, CallsMiss
  <2>2. CASE Runs
    <3>1. quit = FALSE
      BY <1>1, <2>2, RunsMode DEF CallerInv, Runs
    <3> QED BY <1>1, <2>2, <3>1, RunsLeave
  <2>3. CASE Reset \/ HostLoad
    <3>1. phase' = "idle" /\ total' = 0 /\ words' = 0
      BY <1>1, <2>3 DEF Reset, HostLoad, Writable, RefInv, CallInv
    <3> QED BY <2>3, <3>1 DEF Missed
  <2>4. CASE Debugs \/ Return \/ WriteRegister \/ SetFaultEnable \/ (AtBound /\ UNCHANGED model)
    <3>1. UNCHANGED <<phase, total, earlier, cycles, words>>
      BY <2>4 DEF Debugs, SetRegister, SetWord, SessionHalt, SetLimit, Return, WriteRegister,
         OnlyState, SetFaultEnable, SetF9, AtBound, vars, model, locals, host
    <3> QED BY <3>1 DEF Missed
  <2> QED BY <1>1, <2>1, <2>2, <2>3, <2>4 DEF RefNext
<1>2. RefInv /\ CallerInv /\ [RefNext]_refvars => [Allowed]_refvars
  BY <1>1
<1> QED BY <1>2, CallerInvariance, PTL DEF RefSpec, StatsMissOnly

=============================================================================
