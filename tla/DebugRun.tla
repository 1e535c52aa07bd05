------------------------------ MODULE DebugRun ------------------------------
(***************************************************************************)
(* The run loops (ipu_emu/emulator.py) over the word machine: RunClock,    *)
(* which counts cycles and bounds them, run_until_complete, and            *)
(* run_with_debug with the controls a debugger session changes while the   *)
(* program is stopped (ipu_debug/control.py, session.py).                  *)
(*                                                                         *)
(* A word is one step of Machine, which Cycle implements.  F-1 stays       *)
(* enabled: Cycle has the words that run past it.  What a run only reports *)
(* (stop_reason, last_completed_pc and _instruction) is left out.          *)
(***************************************************************************)
EXTENDS Machine

CONSTANTS
  Limits,      \* cycle limits a host programs; 0 is no limit
  StopPcs,     \* PCs a user sets breakpoints and run targets at
  CtrlC,       \* the loops that Ctrl-C reaches, for a small instance: "plain", "debug"
  NoPc         \* no run target; no limit of the run's own

ASSUME DebugRunAssumption ==
  /\ Limits \subseteq Nat /\ StopPcs \subseteq 0..ImemSize - 1 /\ CtrlC \subseteq {"plain", "debug"}
  /\ NoPc \notin Nat

VARIABLES
  phase,       \* "idle"; "loop", before admit; "issue", after it; "stopped" in the callback
  mode,        \* the loop that runs: "plain" or "debug"
  cycles,      \* RunClock.cycles
  earlier,     \* RunClock._earlier
  own,         \* RunClock._own_limit of a run with its own limit, else NoPc
  total,       \* RunStats.total_cycles
  limit,       \* IpuState.cycle_limit
  f9on,        \* FaultControl.enable[F9]
  quit,        \* IpuState.quit_requested
  entry,       \* entry_pending
  stepping,    \* the callback answered STEP
  bps,         \* RunControl.breakpoints
  target,      \* RunControl.run_target
  ended,       \* how the last run ended: "exit", or the exception that ended it
  asked,       \* (history) the limit the host last programmed for its machine
  lost,        \* (history) words cut short since the statistics were reset
  resumed,     \* (history) what the callback last answered in this run
  sinceStop    \* (history) words completed since the last stop of this run

locals == <<mode, cycles, earlier, own, entry, stepping, resumed, sinceStop>>
host == <<total, limit, f9on, quit, ended, asked, lost>>
control == <<bps, target>>
vars == <<state, phase, locals, host, control>>

Paused == phase \in {"idle", "stopped"}

RunInit ==
  /\ Init
  /\ phase = "idle" /\ mode = "plain"
  /\ cycles = 0 /\ earlier = 0 /\ own = NoPc
  /\ entry = FALSE /\ stepping = FALSE /\ resumed = "none" /\ sinceStop = 0
  /\ total = 0 /\ limit \in Limits /\ f9on = TRUE /\ quit = FALSE
  /\ bps = {} /\ target = NoPc
  /\ ended = "exit" /\ asked = limit /\ lost = 0

-----------------------------------------------------------------------------
(* RunClock *)

\* (bound) Statistics accumulate only while MaxWords leaves room for a limited run.
RoomForARun == \A l \in Limits : stats.mult_active + stats.mult_idle + l <= MaxWords

\* A run starts: its own limit, if it has one, replaces the state's.
StartRun(loop, max, reset, atEntry) ==
  /\ phase = "idle"
  /\ reset \/ RoomForARun
  /\ stats' = IF reset THEN NoStats ELSE stats
  /\ total' = IF reset THEN 0 ELSE total
  /\ lost' = IF reset THEN 0 ELSE lost
  /\ earlier' = total'
  /\ quit' = FALSE
  /\ halt' = NoHalt
  /\ own' = IF max = NoPc THEN NoPc ELSE limit
  /\ limit' = IF max = NoPc THEN limit ELSE max
  /\ mode' = loop
  /\ phase' = "loop"
  /\ entry' = atEntry
  /\ UNCHANGED <<regs, xmem, pc, imem, plen, sticky, f1on, cycles, f9on, stepping, control,
                 ended, asked, resumed, sinceStop>>

\* (mutant: the run's own limit stays)
EndRunKeepsLimit(how) ==
  /\ phase' = "idle" /\ mode' = "plain" /\ ended' = how
  /\ total' = earlier + cycles
  /\ cycles' = 0 /\ earlier' = 0 /\ own' = NoPc
  /\ entry' = FALSE /\ stepping' = FALSE /\ resumed' = "none" /\ sinceStop' = 0
  /\ target' = IF mode = "debug" THEN NoPc ELSE target
  /\ UNCHANGED <<limit, bps, f9on, asked>>

\* The run ends, whatever ended it: totals, the host's limit back, locals gone.
EndRun(how) ==
  /\ phase' = "idle" /\ mode' = "plain" /\ ended' = how
  /\ total' = earlier + cycles
  /\ limit' = IF own = NoPc THEN limit ELSE own
  /\ cycles' = 0 /\ earlier' = 0 /\ own' = NoPc
  /\ entry' = FALSE /\ stepping' = FALSE /\ resumed' = "none" /\ sinceStop' = 0
  /\ target' = IF mode = "debug" THEN NoPc ELSE target
  /\ UNCHANGED <<bps, f9on, asked>>

\* (mutant: a limit lowered below the cycles already run is never met)
LimitMet == limit # 0 /\ cycles = limit

LimitReached == limit # 0 /\ cycles >= limit

LoopExits ==
  /\ phase = "loop" /\ ~Running
  /\ EndRun("exit")
  /\ UNCHANGED <<state, quit, lost>>

\* F-9: the run has used its cycles.
LimitFault ==
  /\ phase = "loop" /\ Running /\ LimitReached /\ f9on
  /\ Fault(9)
  /\ EndRun("fault")
  /\ UNCHANGED <<quit, lost>>

\* One more cycle; past the limit F-9 is disabled, and only sticky.
Admit ==
  /\ phase = "loop" /\ Running /\ ~(LimitReached /\ f9on)
  /\ sticky' = IF LimitReached THEN sticky \cup {9} ELSE sticky
  /\ phase' = "issue"
  /\ UNCHANGED <<regs, xmem, pc, imem, plen, halt, f1on, stats, locals, host, control>>

-----------------------------------------------------------------------------
(* One word, in either loop *)

\* The word at the PC completes, the `since`-th of this run after a stop.
WordCompletes(since) ==
  /\ Retire \/ Idle
  /\ cycles' = cycles + 1
  /\ sinceStop' = since
  /\ phase' = "loop"
  /\ UNCHANGED <<mode, earlier, own, host, control>>

\* The word faults: the exception ends the run.
WordFaultsRun == (FetchFault \/ WordFault) /\ EndRun("fault") /\ UNCHANGED <<quit, lost>>

\* The emulator gives the word up (an EmulatorError), or Ctrl-C comes between its
\* last slot and count_cycle: the run ends and the word is not counted.
WordCutShort ==
  /\ \/ GiveUp /\ EndRun("error")
     \/ mode \in CtrlC /\ (Retire \/ Idle) /\ EndRun("interrupt")
  /\ lost' = lost + 1
  /\ UNCHANGED quit

Word ==
  \/ WordCompletes(sinceStop + 1) /\ UNCHANGED <<entry, stepping, resumed>>
  \/ WordFaultsRun \/ WordCutShort

\* run_until_complete: a BREAK does not stop it.
PlainWord == phase = "issue" /\ mode = "plain" /\ Word

-----------------------------------------------------------------------------
(* run_with_debug *)

\* The causes to stop that the loop knows before it looks at the word.
AskedToStop == entry \/ pc \in bps \/ pc = target \/ stepping

\* The word at the PC can be looked at: no F-2 and no F-1.
Fetches == pc < plen /\ ~(Fetched # Empty /\ Reserved(Fetched) /\ f1on)
WordBreaks == Fetches /\ Fetched # Empty /\ Breaks(Schedule(Fetched), regs.lr)

\* No cause to stop: the word runs.
FreeWord == phase = "issue" /\ mode = "debug" /\ ~AskedToStop /\ ~WordBreaks /\ Word

\* The fetch of a word to stop at faults: the run ends without a stop.
StopRaises == phase = "issue" /\ mode = "debug" /\ AskedToStop /\ ~Fetches /\ WordFaultsRun

\* One stop, whatever its causes; the word has not run.
Stop ==
  /\ phase = "issue" /\ mode = "debug"
  /\ Fetches
  /\ AskedToStop \/ WordBreaks
  /\ target' = NoPc
  /\ entry' = FALSE
  /\ phase' = "stopped"
  /\ UNCHANGED <<state, mode, cycles, earlier, own, stepping, resumed, sinceStop, host, bps>>

IsHalted == ~Running \/ pc >= ImemSize

Resumes(action) ==
  /\ phase = "stopped" /\ action # "QUIT" /\ ~IsHalted

\* (mutant: the loop looks at the word again instead of running it)
ResumeLoops(action) ==
  /\ Resumes(action)
  /\ stepping' = (action = "STEP") /\ resumed' = action
  /\ phase' = "loop" /\ sinceStop' = 0
  /\ UNCHANGED <<state, mode, cycles, earlier, own, entry, host, control>>

\* (mutant: a resumed word is not counted)
ResumeUncounted(action) ==
  /\ Resumes(action)
  /\ stepping' = (action = "STEP") /\ resumed' = action
  /\ Retire \/ Idle
  /\ phase' = "loop" /\ sinceStop' = 1
  /\ UNCHANGED <<mode, cycles, earlier, own, entry, host, control>>

\* The callback answers CONTINUE or STEP: the word at the PC, which it may have
\* moved, runs once whatever stops are set there.
Resume(action) ==
  /\ Resumes(action)
  /\ \/ /\ WordCompletes(1)
        /\ stepping' = (action = "STEP") /\ resumed' = action
        /\ UNCHANGED entry
     \/ WordFaultsRun \/ WordCutShort

\* The callback answers QUIT, or left the machine halted.
Leave(action) ==
  /\ phase = "stopped" /\ (action = "QUIT" \/ IsHalted)
  /\ quit' = (action = "QUIT")
  /\ EndRun("exit")
  /\ UNCHANGED <<state, lost>>

\* Ctrl-C between two words, or at a stop: finally ends the run.
Interrupt ==
  /\ phase # "idle" /\ mode \in CtrlC
  /\ EndRun("interrupt")
  /\ UNCHANGED <<state, quit, lost>>

\* The callback raises.
CallbackRaises ==
  /\ phase = "stopped"
  /\ EndRun("error")
  /\ UNCHANGED <<state, quit, lost>>

-----------------------------------------------------------------------------
(* While the program is stopped: the debugger session and the host *)

OnlyState == UNCHANGED <<phase, locals, host, control>>
OnlyControl == UNCHANGED <<state, phase, locals, host>>

\* load_program, for the next run.
LoadProgram ==
  /\ phase = "idle" /\ "load" \in HostMay
  /\ \E program \in InitImem, n \in 0..ImemSize :
       /\ imem' = [p \in 0..ImemSize - 1 |-> IF p < n THEN program[p] ELSE imem[p]]
       /\ plen' = n
  /\ UNCHANGED <<regs, xmem, pc, halt, sticky, f1on, stats>>
  /\ OnlyState

SetRegister == Paused /\ (WriteLr \/ (SetPc /\ pc' < ImemSize)) /\ OnlyState
SetWord == Paused /\ WriteImem /\ OnlyState

\* DebugSession.halt: the PC goes past instruction memory.
SessionHalt ==
  /\ Paused
  /\ pc' = ImemSize
  /\ UNCHANGED <<regs, xmem, imem, plen, halt, sticky, f1on, stats>>
  /\ OnlyState

ToggleBreakpoint(p) ==
  /\ Paused
  /\ bps' = IF p \in bps THEN bps \ {p} ELSE bps \cup {p}
  /\ OnlyControl /\ UNCHANGED target

\* Arm a one-stop target, unless the program is there already.
RunUntil(p) ==
  /\ Paused
  /\ target' = IF p # pc THEN p ELSE NoPc
  /\ OnlyControl /\ UNCHANGED bps

\* The host programs the cycle limit; a run with a limit of its own forgets it.
SetLimit(l) ==
  /\ Paused
  /\ limit' = l
  /\ asked' = IF own = NoPc THEN l ELSE asked
  /\ UNCHANGED <<state, phase, locals, total, f9on, quit, ended, lost, control>>

SetF9 ==
  /\ phase = "idle"
  /\ f9on' \in BOOLEAN
  /\ UNCHANGED <<state, phase, locals, total, limit, quit, ended, asked, lost, control>>

\* (bound) A run that has used MaxWords words goes no further.
AtBound == phase = "issue" /\ ~Busy /\ UNCHANGED vars

Answers == {"CONTINUE", "STEP", "QUIT"}

Loop == LoopExits \/ LimitFault \/ Admit \/ PlainWord \/ FreeWord \/ StopRaises \/ Stop
Answer == \E a \in Answers : Resume(a) \/ Leave(a)
Start ==
  \E loop \in {"plain", "debug"}, max \in Limits \cup {NoPc}, reset, atEntry \in BOOLEAN :
    (loop = "plain" => ~atEntry) /\ StartRun(loop, max, reset, atEntry)
Session ==
  \/ LoadProgram \/ SetRegister \/ SetWord \/ SessionHalt \/ SetF9
  \/ \E p \in StopPcs : ToggleBreakpoint(p) \/ RunUntil(p)
  \/ \E l \in Limits : SetLimit(l)

RunNext == Start \/ Loop \/ Answer \/ Interrupt \/ CallbackRaises \/ Session \/ AtBound

RunSpec == RunInit /\ [][RunNext]_vars

\* The loop runs until it stops, and the user answers every stop in the end.
FairRun == RunSpec /\ WF_vars(Loop) /\ WF_vars(Answer)

-----------------------------------------------------------------------------
(* Properties *)

\* Whatever the runs since the last reset did (halts, faults, Ctrl-C, words run
\* through a stop or freely), every word is counted once, by the clock and by the
\* MULT slot's counters, but for those an error or Ctrl-C cut short.
CountersAgree ==
  stats.mult_active + stats.mult_idle
    = (IF phase = "idle" THEN total ELSE earlier + cycles) + lost

\* However a run ends, the cycle limit the host programmed for its machine is
\* the one in force afterwards: a run's own limit never outlives it.
LimitIsTheHosts == phase = "idle" => limit = asked

\* STEP runs one word and stops again, CONTINUE at least one: no stop is repeated
\* for a word that has not run, and no word runs twice for one stop.
StopsMakeProgress ==
  phase = "stopped" =>
    CASE resumed = "STEP" -> sinceStop = 1
      [] resumed = "CONTINUE" -> sinceStop >= 1
      [] OTHER -> TRUE

\* With F-9 enabled and a limit, a run ends: no stepping, breakpoint or looping
\* program keeps it going past its cycles, whatever limits the user programs
\* at the stops (IPU-FLT: F-9).
RunsEnd == f9on /\ limit # 0 /\ phase # "idle" ~> phase = "idle" \/ limit = 0

=============================================================================
