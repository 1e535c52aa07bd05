------------------------------ MODULE RefModel ------------------------------
(***************************************************************************)
(* ReferenceModel (ipu_emu/reference.py): the API through which RTL        *)
(* verification drives one IPU.  step, run and debug_run start the run     *)
(* loops of DebugRun; the other calls are the host's, between them.  A run *)
(* has a fresh RunControl, so no breakpoint outlives it.                   *)
(***************************************************************************)
EXTENDS DebugRun

CONSTANT NoCall

ASSUME RefModelAssumption == NoCall \notin {"step", "run", "debug_run"}

VARIABLES
  api,         \* the call in progress: "step", "run", "debug_run" or NoCall
  started,     \* ReferenceModel._started
  words        \* (history) words retired, counted or not, since the last reset or load_program

model == <<api, started, words>>
refvars == <<vars, model>>

Faulted == halt # NoHalt /\ halt.reason = "fault"
QuitPastImem == quit /\ pc >= ImemSize

Status ==
  IF Faulted THEN "faulted"
  ELSE IF halt # NoHalt \/ ~started \/ QuitPastImem THEN "halted"
  ELSE "running"

Steppable == ~Faulted /\ halt = NoHalt /\ ~QuitPastImem

\* (mutant: anything that is not running may be written)
WritableUnlessRunning == api = NoCall /\ Status # "running"

Writable == api = NoCall /\ Status = "halted"

RefInit == RunInit /\ api = NoCall /\ started = FALSE /\ words = 0

-----------------------------------------------------------------------------
(* The calls that run words *)

\* (bound) A call starts only while fewer than MaxWords words have retired.
RoomForACall == words < MaxWords

\* (mutant: every call resets the statistics)
CallResets(name, loop, max, atEntry) ==
  /\ api = NoCall /\ Steppable /\ RoomForACall
  /\ StartRun(loop, max, TRUE, atEntry)
  /\ api' = name
  /\ UNCHANGED <<started, words>>

Call(name, loop, max, atEntry) ==
  /\ api = NoCall /\ Steppable /\ RoomForACall
  /\ StartRun(loop, max, ~started, atEntry)
  /\ api' = name
  /\ UNCHANGED <<started, words>>

StepCall == Call("step", "plain", NoPc, FALSE)
RunCall == \E max \in Limits \cup {NoPc} : Call("run", "plain", max, FALSE)
DebugCall ==
  \E max \in Limits \cup {NoPc}, atEntry \in BOOLEAN : Call("debug_run", "debug", max, atEntry)

\* A step has no cycle limit, and one word.
StepIssues ==
  /\ api = "step" /\ phase = "loop" /\ cycles = 0
  /\ phase' = "issue"
  /\ UNCHANGED <<state, locals, host, control>>
StepEnds ==
  /\ api = "step" /\ phase = "loop" /\ cycles = 1
  /\ EndRun("exit")
  /\ UNCHANGED <<state, quit, lost>>

\* What the call's run does, and the history of the words it retires: a word has
\* retired once its slots have run, whether or not the clock then counts it.
Runs ==
  /\ api # NoCall
  /\ \/ StepIssues \/ StepEnds
     \/ api # "step" /\ (LoopExits \/ LimitFault \/ Admit)
     \/ PlainWord \/ FreeWord \/ StopRaises \/ Stop \/ Answer \/ Interrupt \/ CallbackRaises
  /\ words' = IF Retire \/ Idle THEN words + 1 ELSE words
  /\ UNCHANGED <<api, started>>

\* At a stop the callback may edit the machine through the debugger session.
Debugs ==
  /\ phase = "stopped"
  /\ SetRegister \/ SetWord \/ SessionHalt \/ \E l \in Limits : SetLimit(l)
  /\ UNCHANGED <<api, started, words>>

\* (mutant: no call has a finally clause)
ReturnNoFinally ==
  /\ api # NoCall /\ phase = "idle"
  /\ api' = NoCall
  /\ started' = (started \/ ended \in {"exit", "fault"})
  /\ quit' = IF api = "debug_run" /\ ended = "interrupt" THEN TRUE ELSE quit
  /\ UNCHANGED <<state, phase, locals, total, limit, f9on, ended, asked, lost, control,
                 words>>

\* The call returns or raises.  Only debug_run has a finally clause: a step or
\* run that an error or Ctrl-C ends leaves _started as it was.
Return ==
  /\ api # NoCall /\ phase = "idle"
  /\ api' = NoCall
  /\ started' = (started \/ api = "debug_run" \/ ended \in {"exit", "fault"})
  /\ quit' = IF api = "debug_run" /\ ended = "interrupt" THEN TRUE ELSE quit
  /\ UNCHANGED <<state, phase, locals, total, limit, f9on, ended, asked, lost, control,
                 words>>

-----------------------------------------------------------------------------
(* The host's calls *)

\* Everything but the program and the cycle limit returns to its reset value.
Reset ==
  /\ api = NoCall
  /\ regs' \in InitRegs /\ xmem' \in InitXmem
  /\ pc' = 0 /\ halt' = NoHalt /\ stats' = NoStats /\ total' = 0 /\ lost' = 0
  /\ quit' = FALSE
  /\ f1on' = TRUE /\ f9on' = TRUE /\ sticky' = {}
  /\ started' = FALSE /\ words' = 0
  /\ UNCHANGED <<imem, plen, phase, locals, limit, ended, asked, control, api>>

HostLoad ==
  /\ Writable
  /\ \E program \in InitImem, n \in 0..ImemSize :
       /\ imem' = [p \in 0..ImemSize - 1 |-> IF p < n THEN program[p] ELSE imem[p]]
       /\ plen' = n
  /\ pc' = 0 /\ halt' = NoHalt /\ stats' = NoStats /\ total' = 0 /\ lost' = 0
  /\ quit' = FALSE
  /\ started' = FALSE /\ words' = 0
  /\ UNCHANGED <<regs, xmem, f1on, sticky, phase, locals, limit, f9on, ended, asked, control, api>>

WriteRegister == Writable /\ WriteLr /\ OnlyState /\ UNCHANGED model

\* set_fault_enable: F-2 to F-6 cannot be disabled, and F-1 stays enabled here.
SetFaultEnable == api = NoCall /\ SetF9 /\ UNCHANGED model

RefNext ==
  \/ StepCall \/ RunCall \/ DebugCall \/ Runs \/ Debugs \/ Return
  \/ Reset \/ HostLoad \/ WriteRegister \/ SetFaultEnable
  \/ AtBound /\ UNCHANGED model

RefSpec == RefInit /\ [][RefNext]_refvars

-----------------------------------------------------------------------------
(* Properties *)

\* What Stats says of itself: "They count every word retired since the last reset
\* or load_program, stepped or run".  The code breaks it where StatsMissOnly says.
StatsCountEveryWord == api = NoCall => total = words

\* The words retired that the statistics, or the run in progress, do not hold.
Missed == words - (IF phase = "idle" THEN total ELSE earlier + cycles)

\* The statistics of ReferenceModel count the words retired since the last reset or
\* load_program, over any sequence of steps, runs, debugged runs, halts, faults and
\* QUITs, but for two losses.  A Ctrl-C that comes after a word has run and before
\* the clock counts it loses that word, which ends its run; and the call after a
\* step or run of a model that had not started, ended by an error or Ctrl-C, resets
\* the statistics as if nothing had run.  No other step loses or repeats a word.
StatsMissOnly ==
  [][ \/ Missed' = Missed
      \/ (Reset \/ HostLoad) /\ Missed' = 0
      \/ Runs /\ phase' = "idle" /\ ended' = "interrupt" /\ Missed' = Missed + 1
      \/ /\ StepCall \/ RunCall \/ DebugCall
         /\ ~started /\ ended \in {"error", "interrupt"}
         /\ Missed' = words ]_refvars

\* A faulted model is frozen (IPU-FLT-7): until reset, no call changes its
\* registers, XMEM, program, PC or halt record, or reports another status.
FaultFreezes ==
  [][api = NoCall /\ Faulted => Reset \/ UNCHANGED <<regs, xmem, imem, plen, pc, halt, total>>]_refvars

\* A QUIT or a Ctrl-C pauses a debugged model where it stopped, unless it halted or
\* its PC is past instruction memory: until a reset, no call of the host changes its
\* registers, XMEM, program, PC or statistics, load_program included, and the next
\* step, run or debug_run starts from exactly those.
QuitPauses ==
  [][api = NoCall /\ quit /\ halt = NoHalt /\ pc < ImemSize =>
       Reset \/ UNCHANGED <<regs, xmem, imem, plen, pc, halt, sticky, f1on, stats, total>>]_refvars

=============================================================================
