------------------------------ MODULE KernelRun ------------------------------
(***************************************************************************)
(* One case of a kernel, from its plan to its verdict: runner.run_kernel    *)
(* of a one-program kernel, and of a staged one whose hook (stages.py)      *)
(* calls run_stage for each of its programs.  The case runs on a fresh      *)
(* model, or on one that other kernels have left their XMEM in.             *)
(*                                                                         *)
(* XMEM is one value for each tensor of the kernel: what was written there  *)
(* last.  A program is the tensors it may write, the words it takes, the    *)
(* CRs its register table binds and those its text reads, and how it ends:  *)
(* "halt", "fault", "spin" (it never halts) or "raise" (an instruction the  *)
(* model cannot run); "bad" is one that does not assemble.  Registers carry *)
(* over from program to program, as XMEM does.  The hook is a sequence of   *)
(* calls of run_stage and what it catches: "nothing", "Exception" or        *)
(* "BaseException".                                                         *)
(***************************************************************************)
EXTENDS Integers, Sequences, SequencesExt, FiniteSetsExt

CONSTANTS Inputs,   \* the kernel's input tensors
          Scratch,  \* its scratch tensors
          Outputs,  \* its output tensors
          Crs,      \* the CRs that programs read, less the hardwired CR0 and CR1
          Cr15,     \* the one that register_writes always writes
          Jobs      \* the cases: staged, hook, catches, shared, pinned, check,
                    \* mode, max_cycles, places

KernelAssumption ==
  \A j \in Jobs : /\ j.pinned \subseteq Inputs
                  /\ j.pinned # {} => j.shared
                  /\ Len(j.hook) > 0
                  /\ ~j.staged => Len(j.hook) = 1
                  /\ \A k \in DOMAIN j.hook :
                       j.hook[k].table \cup j.hook[k].reads \cup {Cr15} \subseteq Crs
                  /\ j.max_cycles \in Nat

Tensors == Inputs \cup Scratch \cup Outputs
Before == "before"                       \* what an earlier kernel, or nobody, left
Host(t) == <<"host", t>>                 \* the packed input, or the scratch fill
By(k) == <<"program", k>>                \* written by the k-th call's program

VARIABLES job,      \* the case that is run
          phase,    \* how far run_kernel is
          xmem,     \* what each tensor's region holds
          program,  \* the call whose program is loaded, 0 for none of this run
          regs,     \* by CR, the call whose register table last wrote it, 0 for none
          next,     \* the next call of run_stage the hook makes
          spent,    \* by call, the words its program has retired
          runs,     \* _Stages.runs: call and cycles of each stage that ran
          last,     \* _Stages.last, or model.run's result: "none" before a run
          stopped,  \* _Stages.stopped
          values,   \* the inputs' values, for the goldens
          first,    \* what the inputs' regions held when the first word ran
          result    \* the RunResult

vars == <<job, phase, xmem, program, regs, next, spent, runs, last, stopped, values, first, result>>

NoResult == [kind |-> "none"]
Nothing == [t \in Inputs |-> Before]

Init == /\ job \in Jobs
        /\ phase = "plan"
        /\ xmem = [t \in Tensors |-> Before]
        /\ program = 0 /\ regs = [c \in Crs |-> 0] /\ next = 1
        /\ spent = [k \in DOMAIN job.hook |-> 0]
        /\ runs = <<>> /\ last = "none" /\ stopped = FALSE
        /\ values = Nothing /\ first = Nothing /\ result = NoResult

Call == job.hook[program]
Words == spent[program]
Refused(why) == /\ phase' = "done"
                /\ result' = [kind |-> "raised", why |-> why]

(* _prepare, and in a staged kernel the refusal of an executor: the plan,    *)
(* the inputs and the placement either are all made or raise.                *)
Prepare == /\ phase = "plan"
           /\ IF job.staged /\ job.mode = "executor" THEN Refused("ConfigurationError")
              ELSE IF ~job.places THEN Refused("ConfigurationError")
              ELSE /\ phase' = IF job.staged THEN "write" ELSE "assemble"
                   /\ UNCHANGED result
           /\ UNCHANGED <<job, xmem, program, regs, next, spent, runs, last, stopped, values, first>>

(* The registers that call k's table writes, and what they then hold:        *)
(* register_writes finds every value before apply writes the first.          *)
Writes(k) == job.hook[k].table \cup {Cr15}
TableWritten(k) == [c \in Crs |-> IF c \in Writes(k) THEN k ELSE regs[c]]

(* assemble and check_cr_reads: why the program of call k is refused; Chain   *)
(* has check_aaq_spill, which refuses at the same point.                     *)
Refusal(k) == IF job.hook[k].end = "bad" THEN {"AssemblerError"}
              ELSE IF job.hook[k].reads \subseteq Writes(k) THEN {} ELSE {"ConfigurationError"}

(* stage(): the program is checked, then load_program takes the model to PC  *)
(* 0 with its registers and its XMEM as they were.                           *)
Assemble == /\ phase = "assemble"
            /\ \/ /\ \E why \in Refusal(1) : Refused(why)
                  /\ UNCHANGED <<program, next>>
               \/ /\ Refusal(1) = {}
                  /\ phase' = "write" /\ program' = 1 /\ next' = 2
                  /\ UNCHANGED result
            /\ UNCHANGED <<job, xmem, regs, spent, runs, last, stopped, values, first>>

(* _write_tensors: an input or a scratch region is packed and written, a     *)
(* pinned input is read back, as it is, for the goldens.                     *)
Written(t) == IF t \in Outputs \cup job.pinned THEN xmem[t] ELSE Host(t)
(* (mutant: the goldens of a pinned input are computed from the case's own data) *)
ValueOfTheCase(t) == Host(t)
ValueOf(t) == IF t \in job.pinned THEN xmem[t] ELSE Host(t)

WriteTensors == /\ phase = "write"
                /\ xmem' = [t \in Tensors |-> Written(t)]
                /\ values' = [t \in Inputs |-> ValueOf(t)]
                /\ phase' = IF job.staged THEN "hook" ELSE "registers"
                /\ UNCHANGED <<job, program, regs, next, spent, runs, last, stopped, first, result>>

(* register_writes and apply; a value that does not fit raises here.         *)
Registers == /\ phase = "registers"
             /\ IF Call.fits
                THEN phase' = "run" /\ regs' = TableWritten(program) /\ UNCHANGED result
                ELSE Refused("PlanError") /\ UNCHANGED regs
             /\ first' = [t \in Inputs |-> xmem[t]]
             /\ UNCHANGED <<job, xmem, program, next, spent, runs, last, stopped, values>>

(* What becomes of an exception inside the hook: one it does not catch ends  *)
(* it.  run_stages itself passes over _StageStop alone.                      *)
Catches(exception) == \/ job.catches = "BaseException"
                      \/ job.catches = "Exception" /\ exception # "_StageStop"

Raise(exception) == IF Catches(exception) THEN phase' = "hook" /\ UNCHANGED result
                    ELSE IF exception = "_StageStop" THEN phase' = "hooked" /\ UNCHANGED result
                    ELSE Refused(exception)

(* A stage the debugger ran that raised, and whose exception the hook        *)
(* caught, leaves the model running, and load_program then refuses.          *)
LeftRunning == /\ job.mode = "debug" /\ program # 0
               /\ Call.end = "raise" /\ Words = Call.words

(* One call of run_stage: refused after a stage that ended the run, or for   *)
(* its program; else load_program, then the registers, or a value too wide   *)
(* for one, before any is written.                                           *)
\* (mutant: what stopped the run before does not stop a later call)
BarredNever == FALSE
Barred == stopped
RunStage == /\ phase = "hook" /\ next <= Len(job.hook)
            /\ next' = next + 1
            /\ \/ /\ Barred
                  /\ Raise("_StageStop") /\ UNCHANGED <<program, regs, first>>
               \/ /\ ~Barred
                  /\ \E why \in Refusal(next) \cup (IF LeftRunning THEN {"ConfigurationError"} ELSE {}) :
                       Raise(why)
                  /\ UNCHANGED <<program, regs, first>>
               \/ /\ ~Barred /\ Refusal(next) = {} /\ ~LeftRunning
                  /\ program' = next
                  /\ first' = IF program = 0 THEN [t \in Inputs |-> xmem[t]] ELSE first
                  /\ IF job.hook[next].fits
                     THEN phase' = "run" /\ regs' = TableWritten(next) /\ UNCHANGED result
                     ELSE Raise("PlanError") /\ UNCHANGED regs
            /\ UNCHANGED <<job, xmem, spent, runs, last, stopped, values>>

HookReturns == /\ phase = "hook" /\ next > Len(job.hook)
               /\ phase' = "hooked"
               /\ UNCHANGED <<job, xmem, program, regs, next, spent, runs, last, stopped, values,
                              first, result>>

(* The program runs on the model: a word may write any of its tensors.       *)
Limit == IF job.staged /\ Call.limit # 0 THEN Call.limit ELSE job.max_cycles

Word == /\ phase = "run" /\ Words < Call.words
        /\ Limit # 0 => Words < Limit
        /\ spent' = [spent EXCEPT ![program] = @ + 1]
        /\ \E some \in SUBSET Call.writes :
             xmem' = [t \in Tensors |-> IF t \in some THEN By(program) ELSE xmem[t]]
        /\ UNCHANGED <<job, phase, program, regs, next, runs, last, stopped, values, first, result>>

(* How it may end: in the debugger by a quit at any word, under an executor  *)
(* wherever that leaves the model, else at its end or at the cycle limit.    *)
Ends == (IF Words = Call.words /\ Call.end # "spin" THEN {Call.end} ELSE {})
        \cup (IF Limit # 0 /\ Words = Limit THEN {"fault"} ELSE {})
        \cup (IF job.mode = "debug" THEN {"quit"} ELSE {})
        \cup (IF job.mode = "executor" /\ Words < Call.words THEN {"running"} ELSE {})

(* run_stage after the run: the stage is recorded with the model's own       *)
(* cycles; one that did not halt ends the run, whatever the hook catches.    *)
StageEnds(end) ==
  /\ runs' = Append(runs, [call |-> program, cycles |-> Words])
  /\ last' = end
  /\ stopped' = (stopped \/ end # "halt")
  /\ IF end = "halt" THEN phase' = "hook" /\ UNCHANGED result ELSE Raise("_StageStop")

ProgramEnds == /\ phase = "run"
               /\ \E end \in Ends :
                    \/ /\ end = "raise"
                       /\ IF job.staged THEN Raise("EmulatorError") ELSE Refused("EmulatorError")
                       /\ UNCHANGED <<runs, last, stopped>>
                    \/ /\ end # "raise" /\ job.staged /\ StageEnds(end)
                    \/ /\ end # "raise" /\ ~job.staged
                       /\ last' = end /\ phase' = "hooked" /\ UNCHANGED <<runs, stopped, result>>
               /\ UNCHANGED <<job, xmem, program, regs, next, spent, values, first>>

(* The report: a hook that ran no stage is refused; a quit has no outputs;   *)
(* a fault has outputs and no comparisons; a step of a chain compares only   *)
(* when it is asked to.  An output agrees with its golden when the programs  *)
(* wrote it from the inputs the golden was made of.                          *)
Cycles == IF job.staged THEN FoldLeft(LAMBDA n, r : n + r.cycles, 0, runs) ELSE Words

(* The runs a result speaks of: the recorded stages, or the one program.     *)
Reported == IF job.staged THEN [i \in DOMAIN runs |-> runs[i].call] ELSE <<program>>
FaultProgram == Reported[Len(Reported)]

Compared == last # "quit" /\ last # "fault" /\ (job.shared => job.check)

Report == /\ phase = "hooked"
          /\ phase' = "done"
          /\ IF job.staged /\ runs = <<>>
             THEN result' = [kind |-> "raised", why |-> "ConfigurationError"]
             ELSE result' =
                    [kind |-> "result", cycles |-> Cycles, stages |-> Reported,
                     outputs |-> IF last = "quit" THEN <<>> ELSE [t \in Outputs |-> xmem[t]],
                     goldens |-> IF Compared THEN values ELSE <<>>,
                     fault |-> IF last = "fault" THEN FaultProgram ELSE 0,
                     quit |-> last = "quit", halted |-> last = "halt"]
          /\ UNCHANGED <<job, xmem, program, regs, next, spent, runs, last, stopped, values, first>>

Next == \/ Prepare \/ Assemble \/ WriteTensors \/ Registers
        \/ RunStage \/ HookReturns \/ Word \/ ProgramEnds \/ Report

Spec == Init /\ [][Next]_vars

-----------------------------------------------------------------------------
TypeOK == /\ job \in Jobs
          /\ phase \in {"plan", "assemble", "write", "registers", "hook", "run", "hooked", "done"}
          /\ DOMAIN xmem = Tensors
          /\ program \in 0..Len(job.hook) /\ regs \in [Crs -> 0..Len(job.hook)]
          /\ last \in {"none", "halt", "fault", "quit", "running"}

(* Once a stage has faulted, or the user has quit in it, no later stage runs *)
(* and XMEM stays as that stage left it, whatever the hook catches and goes  *)
(* on to call (stages._Stages.stopped).                                      *)
StopEndsTheRun == [][stopped => UNCHANGED <<xmem, program, regs, runs, last>>]_vars

(* A result that was held to goldens was held to goldens made of exactly     *)
(* what the programs found in XMEM when the first word ran, also for inputs  *)
(* an earlier kernel of a chain left there (runner._write_tensors).          *)
GoldensAreOfTheInputs ==
  result.kind = "result" /\ result.goldens # <<>> => result.goldens = first

(* Registers carry over, and yet no program computes with what another       *)
(* program's table left in one: every CR that it reads was written by its    *)
(* own table, also after stages that were refused, failed or bound others    *)
(* (check_cr_reads before load_program, apply before the first word).        *)
ReadsAreOfTheStage == phase = "run" => \A c \in Call.reads : regs[c] = program

(* What a result says of the run is true of it: a fault is shown in the      *)
(* program that faulted, a run that was quit has nothing to show, a run      *)
(* that halted ran nothing after its last program and no program of it       *)
(* faulted, and the cycles are the words of the programs it reports.         *)
VerdictIsOfTheRun ==
  result.kind = "result" =>
    /\ result.fault # 0 => result.fault = program /\ ~result.halted /\ result.goldens = <<>>
    /\ result.quit => ~result.halted /\ result.outputs = <<>> /\ result.goldens = <<>>
    /\ result.halted => ~stopped
    /\ result.cycles = MapThenSumSet(LAMBDA k : spent[k], ToSet(result.stages))
    /\ \A k \in DOMAIN spent : spent[k] > 0 /\ job.hook[k].end # "raise" => k \in ToSet(result.stages)

(* A one-program case that is refused for its plan, its inputs, its          *)
(* placement or its program leaves a shared model as it found it             *)
(* (runner.stage assembles and checks before it loads).                      *)
RefusalTouchesNothing ==
  result.kind = "raised" /\ ~job.staged /\ result.why \in {"ConfigurationError", "AssemblerError"}
    => program = 0 /\ \A t \in Tensors : xmem[t] = Before
=============================================================================
