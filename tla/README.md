# Verification of the IPU emulator and its tools

TLA+ models of the 128-lane VLIW processor emulated in `src/src/`, of the loops and
APIs that run it, of what observes it, of the harness that runs kernels on it, and of the
assembler, debugger and editor extension around it. TLC checks them on small instances;
TLAPS proves the main results for every instance. Paths below are relative to the
repository; `emu/`, `isa/`, `as/`, `debug/` and `harness/` stand for
`src/src/ipu-emu/src/ipu_emu/`, and so on, and `vscode/` for `src/vscode-ipu-asm/`.

Contents: 1 the system, 2 the modules, 3 the runs, 4 the proofs, 5 disagreements
found, 6 what is left out, 7 plan.

To run one: `tlc -workers 2 -config CycleWords.cfg MCCycle.tla`, `tlapm Cycle_proofs.tla`.
`PROJECT.json` lists the runs, the source lines each definition stands for, the
hazards, and for each property a mutation of the model that it catches.

## 1. The system

| Component | State it keeps | Operations | What must hold |
|---|---|---|---|
| Timing contract (`isa/timing.py`, `registers.py`) | none (tables) | order of slots, writers of a register, view of a reader | a read is of the cycle start or forwarded, as the hardware pipeline has it |
| ISA and slot handlers (`isa/instruction_spec.py`, `emu/slots/*`, `geometry.py`) | none | each op's effect and fault predicate | values stay in their width; a faulting op is found before anything is stored; masks stay in their partition |
| Word machine (`emu/ipu_state.py`, `inst_mem.py`) | register file, XMEM, IMEM, PC, halt record, sticky faults, statistics | one word; the host's writes | a word is indivisible |
| Cycle engine (`emu/cycle.py`, `issue.py`, `fault_control.py`) | cached schedules, snapshot buffer, resolvers | `prepare`, `evaluate_break`, `run` | slots run in turn have the effect of one step; faults are precise; caches follow IMEM |
| Run loops (`emu/emulator.py`, `run_clock.py`, `run_control.py`) | cycle counts, the run's limit, breakpoints, target, pending actions | `run_until_complete`, `run_with_debug`, `RunClock` | counters agree; a limit is restored; a stop makes progress; a bounded run ends |
| ReferenceModel (`emu/reference.py`) | `_started`, status | `step`, `run`, `debug_run`, `reset`, `load_program`, host writes | statistics accumulate; a fault freezes; a quit pauses |
| Commit records (`emu/commit.py`, `trace.py`) | the pending word, the BREAK seen before it, the last halt seen | `begin`, `op_*`, `retire`, `faulted`, `take` | a record is about the word it names |
| ONES provenance (`emu/xmem.py`, `regfile.py`) | declared rows, marked register bytes, buffers given out | writes, declarations, loads, `raw`, `mutable` | only a declared row makes a multiply an identity |
| XMEM (`emu/xmem.py`) | pages | read, write, fill, clear, compare | equals a flat memory |
| Register file (`emu/regfile.py`) | banks, marks, observers' snapshots | ring and packed accesses, views | an observer knows every byte that changed |
| Identity statistics (`emu/issue.py`, `stats.py`, `isa_alias_spec.py`) | counters | both issue loops, instance predicates | a hit is of one idiom, and both loops count alike |
| Alias observer (`emu/alias_observer.py`, `alias_detectors.py`) | shadow provenance, row versions | observe each word, detect | what it reports happened |
| Numbers and lanes (`emu/numerics/codecs.py`, `geometry.py`, `slots/mult.py`, `acc.py`, `aaq.py`) | lanes, sticky flags | encode, multiply, accumulate, aggregate, quantize | nearest code; shortcuts change nothing; flags are complete |
| Word encoding (`isa/union_layout.py`, `codec/`) | the solver's fields | layout, encode, decode, disassemble | fields do not overlap; decode inverts encode |
| Assembler (`as/session.py`, `syntax.py`, `symbols.py`, `encode.py`) | a session's tree and symbols, a cache | render, parse, encode, assemble | an assembly is of one text |
| Templates and formatter (`as/template.py`, `source_map.py`, `diagnostics.py`, `formatter.py`) | none | render, locate, check, format | a place claimed is true; formatting changes layout only |
| Debugger (`debug/control.py`, `session.py`, `tui/`) | breakpoints, the stop it shows, panes' caches | step, continue, until, edits, quit, scroll, prompt | acts only while stopped; shows the machine as it is |
| Placement (`harness/placement.py`) | none | `place`, `check_aaq_spill` | regions are disjoint, inside XMEM, as low as possible |
| Chain (`harness/chain.py`) | live and held residents | `run`, `write`, `slice`, `hold`, `release`, `reserve` | live means intact; held means never covered |
| Packing (`harness/packing.py`, `ipu_kernels/pack/`) | none | pack, unpack, taps, masks | what is packed is found again |
| Runs (`harness/runner.py`, `stages.py`, `cases.py`, `abi.py`) | one run's files and model | plan, stage, run, read back, compare | a verdict is of the run made; a stop ends a staged run |
| Registry (`harness/registry.py`, `_manifest_*.py`) | loaded manifests | load, expand templates, route | what is routed runs as routed |
| Editor extension (`vscode/checking.js`, `languages.js`, `kernels.js`, ...) | requests in flight, caches, indexes, terminals | check, analyse, generate, scan, send, format, rename | what is shown is of the text and the sources as they are |
| Generators, tables, front ends, kernel programs | - | - | outside (section 6) |

How they interact. A `ReferenceModel` call starts a run loop. The loop asks the
`RunClock` for admission, then the cycle engine for one word; the engine calls the slot
handlers in the contract's order on one shared `IpuState`, and reports each op to its
observers (the commit collector, the alias observer). A debugged loop calls back into
the debugger at a stop; the callback may write any state, IMEM included, before it
answers. The chain writes XMEM, loads a program and starts a run for every step, and
keeps books on what the step may have overwritten. The harness routes an operation to a
kernel, plans its case, and runs it once or in stages on one model. The editor extension
starts the assembler's checker and its language service as processes, and answers the
editor while they run.

What is hard. The emulator is one thread, so its hazards are of *order* and of *stale
state*: a handler reads a register another slot of the same word wrote; a schedule or a
snapshot outlives an edit made at a stop; an exception (an emulator error, Ctrl-C, a
debugger's quit) ends a word or a run half way; a limit set by one run stays for the
next; a resident tensor is used after its rows were given to another; a copy an observer
or a pane keeps is not told of a write. The extension is asynchronous: answers arrive
late, superseded, or for a document that is gone.

## 2. The modules

```
Timing  Isa                     Regions                FlatMemory    ConstantOnes  RegFile
   \   /   \                    /     \                    |         CommitCollector
    \ / Machine --- DebugRun  Placement  Chain           XMem        AliasObserver Detectors
   Cycle             |                                               Issue  Elements  Lanes
                  RefModel    KernelRun  Registry  Packing
Layout  Assembler  Render  Formatter  DebugView      Checking Languages Kernels Terminals Edits
```

`X_proofs` holds the theorems about `X`, `DebugRun_proofs` those about `RefModel` too,
`Observers_proofs` and `Editor_proofs` those about the components of the runs of that name, and
`CommitCollector` ends with its own. Definitions keep the names of the source;
`(mutant: ...)` marks a deliberately wrong variant that only the mutation checks use.
`MCCycle`, `MCDebugRun` and `MCRefModel` are instances of one module. `MCObservers`,
`MCHarness`, `MCTools` and `MCEditor` each instantiate several components that share no
state: the constant variable `part` names the one that moves, `PartInit` keeps one start
of the others, and `PartSpec` is a behaviour of one of them. They compose for one
reason, that the questions are of one kind, and lose nothing, as no component reads
another's variables.

*The machine.*

* **Timing** is the contract as tables: `SlotExecutionOrder`, `RegisterWriters` and
  `ContractView(slot, register)`.
* **Isa** gives every slot's ops as records, and their effects as operators on values.
  A vector register or an XMEM row is one value (lane 0): which row, window, half or
  slot is used is modelled, as are wrap-around, `ADDB`'s clamp (of an immediate or a
  register), LR conflicts, row and index faults and the two raises (padding with infinity, a
  stride past its register).
* **Machine** is the abstract specification: a word is *one step* (`Retire`, `Idle`,
  `WordFault`, `FetchFault`, or `GiveUp` when a handler raises an `EmulatorError`), or
  the host acts between words (`WriteImem`, `WriteLr`, `SetPc`, `SetF1`, `BeginRun`).
  `Notice` is the sticky F-1 that a fetch with F-1 disabled leaves.
* **Cycle** is the engine of `cycle.py`. Each slot is an action on the live `regs`;
  reads go through `Source(slot, register)`, the snapshot or the live file. The LR slot
  is one action for each sub-slot, then the check phase undoes it if a value-dependent
  fault is found. Several `Cycle` objects may drive one state (the emulator's and a
  session's), each with its cache; writes to IMEM drop schedules in all of them.
  `Atomic == INSTANCE Machine WITH ...` maps a word in flight to the state it began in.
* **DebugRun** has the two loops word by word, on `Machine`'s steps. `phase` is where
  the loop is ("loop" before `admit`, "issue" after it, "stopped" in the callback).
  `Interrupt` is Ctrl-C wherever Python may raise it, between a word's retirement and
  its count included; `CallbackRaises` an exception out of the debugger.
* **RefModel** puts the API's calls, guards and flags over `DebugRun`. `words` (history)
  counts a word when it retires, before and whether or not the clock counts it.

*What stores, watches and shortcuts it.*

* **ConstantOnes** follows single elements: which XMEM addresses and ring elements hold
  ONE, which rows are declared, which elements are marked, and (history) where each
  element really came from.
* **XMem** has the pages; **FlatMemory** is what they promise, and `XMem!IsFlat` the
  refinement, refusals included. **RegFile** has the banks with their marks, ring writes
  that wrap, views given out, and an observer's snapshot (`told`, `seen`).
* **CommitCollector** has the callbacks, with the machine reduced to what they report;
  `truth` is what the records should say.
* **AliasObserver** runs short programs of loads, multiplies, accumulates, quantizes and
  stores (one of which raises), host writes between them; `writer`, `loaded` and `unchanged` are history the
  observer's shadow is compared with. **Detectors** has three detectors with the machine
  that feeds them. **Issue** has both issue loops over a table of instances.
* **Elements** encodes points between a format's values; **Lanes** runs operations on 16
  lanes twice, `faithful` with the shortcuts and `ideal` without.

*The harness.*

* **Regions** has `placement.py` as pure operators and recursive functions, a loop's pass each;
  **Placement** calls them once for every case. **Chain** has one action per method of
  `Chain`, and `Step` for `run`: the pins and held rows, the placement, the guards, and
  what the step leaves live whether it halts or fails at any point. A resident is an
  object known by a number, since the code compares identities (`is`), never rows.
  `spoilt` (history) holds residents some row of which another tensor's writer may have
  written.
* **KernelRun** follows one case from its plan through staging, its stages and their
  ends (halt, fault, limit, quit, error), what a hook catches, to the verdict. A register
  keeps what the last table that binds it wrote (`regs`); loading a program resets none.
* **Registry** loads a family: parameters, conditions, expressions, bindings and their
  sharing, templates and listed entries; then routes queries by cost. **Packing** has
  the layouts, their inverses, taps and masks as functions on element indices.

*The tools.*

* **Layout** runs the union solver round by round and then encodes, packs, decodes and
  reassembles every value of small ISAs. **Assembler** has sessions and the module's
  cache over files that change. **Render** and **Formatter** are the text tools on
  sequences of abstract tokens. The formatter ends a tag at the first closer and its safety
  check where Jinja does: an item with `in` is inside a tag only for the second. **DebugView** has the panes, tabs, prompt, editors and
  pointer of the terminal interface over a machine that runs and is edited.
* **Checking**, **Languages**, **Kernels**, **Terminals** and **Edits** are the
  extension's asynchronous parts; each `await` is a point where the others may act.

## 3. The runs

| Run | Instance | Question |
|---|---|---|
| `cycle_words` | 1 engine, 290 words (singly faulting, full pipelines, control), 24 register files; 293k states | does a word run slot by slot do what one step of `Machine` does, with precise faults? |
| `cycle_edits` | 2 engines, 2 entries, 4 entry contents, host edits of IMEM, PC, F-1, resets; 259k | does an engine ever keep a stale schedule? |
| `debug_run` | 2 entries, 7 programs, limits {0, 2}, 3 words; 1.05M | are counters, limits and stops right after every end of a run? |
| `debug_run_ends` | a looping program, limits {0, 1, 2} changed at stops; 744k | does a bounded run end? |
| `ref_model` | programs that loop, halt, fault, raise; any order of calls, Ctrl-C in every loop; 583k | do statistics, the fault freeze and the quit hold over calls? |
| `observers` | nine components, below; 312k | does what watches, stores and shortcuts the machine tell the truth? |
| `harness` | five components, below; 83k states, 0.8M steps | placement, residents, runs, routing, packing |
| `tools` | five components, below; 258k | word layout, assembler, panes, templates, formatter |
| `editor` | five components, below; 709k | is what the editor shows of the text, sources and folders as they are? |
| `*_doc` (3) | one program or kernel each | section 5 |

Instances of the composed runs. *observers*: rows of 2 elements, XMEM of 2 rows and a ring
of 1 slot for ONES; 4 bytes in 2 pages; programs of 2 words out of 5 kinds for commits;
5-bit formats; 16 lanes in 2 partitions and 3 operations; 2 issued words; programs of 4 to
8 words for the detectors. *harness*: XMEM of 3 rows, 3 residents, 7 kernels and a spill of
1; 3 tensors of 1 or 2 rows in 5 follower shapes with 6 x 6 sets of rows to pass over; runs
of up to 3 stages, 3 modes and every ending; 2 folders with conditions, sharing and up to 3
entries; shapes that fill their rows, miss them by one and overflow. *tools*: ISAs of up to
2 slots, 4 instructions, 2 operands; two sources and an include, 3 calls, a cache of 1; a
debugger of 3 words, 3 rows, 3 tabs, 2 stops and 3 inputs from six kinds of sitting; sources
and texts of three lines. *editor*: 3 refreshes and 2 edits in six scenarios; 2 windows and 2
versions of the sources; 2 folders; 3 sends; 3 versions of a text.

Properties, by what they relate:

* `WordsAreAtomic` (`Atomic!Spec`): the refinement. It compares every intermediate
  write of nine slots with one simultaneous step, for the same word, register file and
  caches. A missing forward, a read of the live file, a wrong order, an engine that
  keeps a snapshot across a stop all break it.
* `PreciseFault`: after a fault in the check phase the LRs the LR slot wrote are back.
* `FreshSchedules`: each engine's cache against IMEM.
* `TypeOK` of `Cycle` is kept for `ADDB`, whose clamp is the one place where a wrapped
  result could leave the register.
* `CountersAgree`: total cycles, MULT counters, this run's and earlier runs' cycles and
  the words cut short account for each other, at every moment of every loop.
* `LimitIsTheHosts`: a run's own limit is gone when the run is, by whatever exception.
* `StopsMakeProgress`: STEP runs exactly one word and CONTINUE at least one, though the
  user moves the PC, sets breakpoints and edits words while stopped.
* `RunsEnd` (liveness): with F-9 on and a limit, a run ends, even when the user lowers
  the limit below the cycles already used, or the limit is lifted.
* `StatsMissOnly`: what the statistics miss of the words retired changes in two ways only, a
  Ctrl-C between a word and its count, and the call after a first run that an exception
  ended. Both contradict the docstring (section 5); the property says there is no third.
* `FaultFreezes`, `QuitPauses` over sequences of API calls: what no call of the host may
  change after a fault, or after a quit, though the model's status is then "running".
* `IdentityIsDeclared`, `BitsAreOnes` over overlapping writes, wrapping windows, buffers
  that were given out and are written later.
* `CommitRecordsAreTrue` over stops, moves, quits, faults, collectors;
  `StorageTellsTheTruth` and `MemoryIsFlat` for storage; `AliasEventsAreTrue` and
  `AliasReadsHold` compare the observer's shadow with history; `DetectionsAreTrue` says a
  match was so in the machine, and that the profile counts a block read once; `HitsAreTheIdioms` and `VectorsAreExact` compare a fast path
  with the plain one.
* `LiveIsIntact`, `StaleStaysStale`, `HeldIsNeverCovered` over slices of slices, holds of
  slices, steps that fail, spills, and residents whose rows are used again.
  `PlacementIsSound`, `PackingIsExact`, `RoutingKeepsItsWord` are algorithms against a
  definition; `VerdictsAreOfTheRun` and `StopEndsTheRun` are over the endings of a run, the
  first also over what an earlier stage's registers leave a later one.
* `NoSharing`, `EveryOperandHasItsField` at every round of the solver, `WordsDecodeExactly`
  on what it gives; `AssemblyIsOfOneText`, `ViewIsOfTheMachine` for the tools.
* `PlacesAreTrue`: a line read off the origin markers is the line its error came from; a
  *recovered* one (`RecoveredLinesAreTrue`) only that of what fails first when the text is
  rendered without the dashes, which the code too reports as exact (section 5).
* `FormattingIsSettled`: the safety check refuses a formatting only of a source in which a
  tag is reached into (`StartsInTag`, `LabelsOpenTag`), and what it accepts is fixed.
* `DiagnosticsAreOfTheText`, `AnswersAreOfNow`, `SidebarIsOfTheFolders` for what the editor
  shows, and `ResolvesInOrder` (liveness) for who waits.

**Bounds.** `MaxWords` bounds the words between two resets of the statistics (three let a
run end, a second start and a limit be met), `MaxResidents` the residents made,
`MaxRecords` the records between two `take`s, `MaxCalls`, `MaxRefreshes`, `MaxRuns` and the
like the requests of a behaviour. They only stop a behaviour from growing; each is in a
guard. Two-bit LRs wrap, clamp and go negative. One engine is enough for `cycle_words`, as
engines share no snapshot; two for staleness. Three rows of XMEM hold a resident, the
step's region and its spill; three residents make a tensor, a slice of it and the tensor
that takes its rows. Three refreshes make one superseded, one late and one newest.
`HostMay`, `CtrlC`, `EditsAt`, `Scenarios` and `Sittings` name what the host or the user does
in an instance, so that each run varies what its question depends on.

**Fairness.** `FairRun` has `WF_vars(Loop)` (the Python loop goes on while it can) and
`WF_vars(Answer)` (the callback returns: the loop waits for it). Nothing is assumed of the
user, who may edit at a stop forever as long as the callback returns. `RunsEnd` has no
Ctrl-C, which would end the run anyway. In this run `MaxWords` can cut a run with no limit
short; then `AtBound` stutters and the premise `limit # 0` is false. In `editor`, the event
loop runs what is ready: weak fairness on each refresh's next step (`Await`), on timers
(`Debounced`, `Watched`), on the extension's start and on the checker's own promises
(`SampleSources`, `Resolve`); none on the user, nor on a process that may never answer
(a refresh's process has a time limit in the code, so its `Await` ends).

**Deadlock** is checked where the system goes on: `cycle_*`, `debug_*`, `ref_model`. The
composed runs have components that come to an end (an algorithm that has answered, a
bound on requests).

## 4. The proofs

All theorems hold for every value of the constants that satisfies the `ASSUME`s of the
modules (`IsaAssumption`, `MachineAssumption`, ...), which say what the hardware
configuration and the loaders guarantee: an even number of LRs, an even modulus, a store
that fits in the allocated rows from every addressable row, words that are instruction
words, kernels whose tensors take a row or more (`KernelsAssumption`), no call named like the
absence of one (`RefModelAssumption`), words whose rows are checked before they are loaded or
stored (`AliasAssumption`). TLC evaluates them in every run. Two theorems have a
hypothesis besides; each is there because the claim is false without it, as a run of section
5 shows, and each holds in the passing run of its property.

| Theorem | Says | Argument |
|---|---|---|
| `Cycle_proofs!TypeCorrectness` | `TypeOK` | lemmas of `Machine_proofs`: each op's result is in `Value` (`LrResultValue`, `LoadedType`, `StoredType`, ...); one lemma per slot |
| `SchedulesAreFresh` | `FreshSchedules` | every action that writes IMEM drops the schedules of that PC in all engines |
| `FaultsArePrecise` | `PreciseFault` | `WordSoFar` (below) |
| `DebugRun_proofs!WordsAreCounted`, `LimitsAreRestored`, `NoStopIsRepeated` | `CountersAgree`, `LimitIsTheHosts`, `StopsMakeProgress` | `RunInv` (below) |
| `Observers_proofs!IdentitiesAreDeclared`, `ProvenanceIsNeverStale` | `IdentityIsDeclared`, `BitsAreOnes` | `OnesInv` (below) |
| `Chain_proofs!LiveStaysIntact`, `StaleNeverReturns` | `LiveIsIntact`, `StaleStaysStale` | `ChainInv` (below) |
| `XmemOfTheRunIsFlat` | `MemoryIsFlat` | one lemma per operation, each from how pages and bytes correspond |
| `Layout_proofs!LayoutTypes`, `FieldsAreNotShared`, `OperandsHaveFields` | `TypeOK`, `NoSharing`, `EveryOperandHasItsField` | a step adds one atomic slot to a field with room for it; what is queued and what is placed is all that is used |
| `Cycle_proofs!CycleImplementsMachine` | `CycleSpec => WordsAreAtomic` | `CycleInv` and `Computed` (below); one lemma per slot, and one per step of `Machine` |
| `Machine_proofs!MachineTypes` | `Spec => []MachineTypeOK` | the same lemmas of `Isa`'s ops, a whole word at a time |
| `DebugRun_proofs!FaultsFreezeTheModel`, `QuitsPauseTheModel` | `FaultFreezes`, `QuitPauses` | `RefInv` (below), one case per call |
| `DebugRun_proofs!StatsCountWords` | `StatsMissOnly` | `RefInv` (below): what each step of a run does to the words retired, the total and the run's cycles |
| `Chain_proofs!FirstFitIsLowest`, `PlacementsAreApart` | what `FirstFit` and `Place` return, for all arguments | induction over the passes of the loop |
| `Chain_proofs!HeldStaysWhole` | if `SpillsAreChecked`: `HeldIsNeverCovered` | `HeldInv` (below) |
| `Layout_proofs!WordsAreExact` | `WordsDecodeExactly` | masks of one instruction are apart, instances tile the word (below) |
| `Observers_proofs!RecordsOfTheRunAreTrue` | if `EveryWordEnds`: `CommitRecordsAreTrue` | `CommitCollector!RecordsAreTrue`, by `RecordsInv` (below) |
| `StorageOfTheRunTellsTheTruth` | `StorageTellsTheTruth` | `PagesAreWhole` and `FileInv` (below) |
| `AliasEventsOfTheRunAreTrue`, `AliasReadsOfTheRunHold` | `AliasEventsAreTrue`, `AliasReadsHold` | `AliasInv` (below) |
| `Editor_proofs!EditorAnswersAreOfNow` | `AnswersAreOfNow` | `DataInv`, `TermInv` and `EditsInv` (below) |
| `EditorSidebarIsOfTheFolders` | `SidebarIsOfTheFolders` | `SideInv` (below) |
| `EditorDiagnosticsAreOfTheText` | `DiagnosticsAreOfTheText` | `CheckInv` (below) |


The invariants as checked are not inductive; what each needs:

* `CycleInv` adds `WordSoFar`: while a word is in flight `snapshot` and `start` agree
  with the live state but for what the slots already run may have written. In particular
  XMEM, PC and statistics are untouched up to the check phase and only LRs differ, so
  undoing the LRs restores the start.
* `RunInv` adds how the run's cycles and the earlier ones sum to the total at every
  phase (`CountsOK`, where the word that has run but is not counted yet is accounted for),
  that between runs nothing of a run is left (`IdleIsClean`), where the programmed limit
  is while a run has its own (`LimitIsKept`), and how many words ran since the last stop
  (`WordsSinceStop`). `DebugStops` says only a debugged run stops.
* `OnesInv` adds that a declared row's elements are intact (`DeclaredRowsAreIntact`; the
  crux is that an overlapping write revokes the row, `RevokedRowsAreDisjoint`) and that a
  marked element, in the ring or in the snapshot, has the origin it claims (`BitsAreTrue`).
* `ChainInv` adds `ResidentsNest`: a slice's rows lie in those of every tensor it is part
  of, and lineages nest. `KeptIsIntact` is the crux: if something in a resident's lineage
  survives a write, none of the resident's rows was written for another tensor. It holds
  whatever `Place` returns.
* `Computed` says of a word in flight, slot by slot, what each slot has computed from the
  state the word began in: the LRs (`LrsSoFar`), the other registers (`RegsSoFar`), XMEM and
  statistics. The step that retires the word then finds what `Machine`'s single step
  computes, every other step of the word is a stutter, and a fault or an error undoes or
  leaves exactly what `Machine`'s does. The last slot's action maps to `Retire`, which is
  where a missing forward or a read of the live file would stop the proof.
* `RefInv` adds to `RunInv` that a run belongs to a call and that only `debug_run` has stops.
  `CallerInv` says how `_started`, the call and how the last run ended are related, which no
  step inside a run disturbs (`CallerInvariance`): a model that is not started has a reset
  total, or its last run ended by an exception out of `step` or `run`, the finding of
  `ref_model_error_doc`. `QuitsPauseTheModel` needs that a model that quit has started and is in no run.
* `HeldInv` adds to `ChainInv` that every resident has its rows in XMEM (`ResidentsFit`, which
  first fit and the placement preserve). What a step writes (`WrittenRows`) was placed apart
  from what it reserves, and the held rows it does not reserve are those of its own inputs and
  targets; `WrittenSparesHeld` follows each such row through pins, regions and the spills of
  two outputs (`SpillsApart`). `SpillsAreChecked` excludes the kernels of which the runner may
  not look behind a region that spills: staged ones (of which it looks only when a stage stores
  with `ST.AAQ`), and those with scratch or a packed output beside another tensor. They are the finding of `chain_held_doc` and the gap named after it;
  the kernels of `harness`, some of which spill, satisfy it.
* `RecordsInv` says that what waits in the collector at a stop is what the stopped word's BREAK
  slot gave, wherever the PC has been moved since (`StopWaits`), and that a HALT in the state
  is one already reported (`HaltsAreSeen`). `EveryWordEnds` excludes a word given up (the
  finding of `commit_raise_doc`) and a word replaced at its own stop (section 5).
* `FileInv` adds to what is checked of the register file that a scalar and a register given out
  whole have no mark (`MarksAreDropped`). Every accessor is one of a few shapes of write
  (`WriteKeeps`): it tells of, and drops the marks of, at least the bytes it writes, which for
  a write that wraps is `RingIsTold`.
* `AliasInv` relates what the observer keeps to what happened. The rows of a word are checked
  before an op uses one (`TodoIsChecked`). Its versions and stores are those of the writes since
  the last clear (`MemoryKnown`, `StoresKnown`), and a region read has the version it was read
  at exactly while nobody wrote it (`ReadsKnown`). `Held` is the crux for the accumulator: what
  is known of a row is that it was a copy of one accumulator, and it is of *this* one only while
  neither was replaced, since an id that was replaced never comes back.
* `DataInv` follows a window from a change of the sources to what it shows: data generated is no
  older than the sources sampled before it (`GeneratedIsNoOlder`), a load that no change was
  reported during is of the sources as they are (`LoadsAreOfNow`), and providers with nothing to
  ask again show what is chosen (`ShownIsChosen`). It excludes, as the property does, what the
  model calls `crossed`: two windows that move their data over each other's.
* `TermInv` says that on a host where `ps` answers a terminal holds one command of ours, waiting
  or running (`Single`), and that the one asked about has none waiting (`AskedIsFree`), whatever
  happens between the question, its answer and the send. `EditsInv` says which version of the
  text an edit in flight has read, and that a rename of another one is cancelled.
* `SideInv` says that the index in the map is the one that lives (`OneLives`), what a scan that
  no other follows has found so far (`ScanFindsOpen`), and that an index nothing is going to
  refresh has, or loads, the manifest of the tree as it is (`CurrentIsLatest`).
* `CheckInv` follows a version of the document through refreshes that end in any order. Those in
  flight are of versions in the order they began (`InOrder`) and have read the text of theirs
  (`TextIs`); once no timer is set, the newest is of the version on screen (`LatestIs`). One
  process holds the document's key, that of the newest refresh that started one unless
  one was overtaken (`RunningIs`), so nothing started after a recorded check is of an older
  version (`NotBelow`), and when the newest refresh is over, its version has been checked or its
  check failed (`OverIs`). A step of the checks is a step of one of a few shapes (`Steps`: some
  go on, some start their processes, one waits, one ends), or the user's; each part is kept by
  each shape. `WaitIs` says that whoever waits has a refresh of that version still to end,
  and `PickIs` that a pick to be kept is made from what is known of the checker now.
* `WordsAreExact` needs of the packing, besides `NoSharing` and `PlacedOnce`, that no field is
  empty (`BinsFilled`), or a field's width would be a maximum over nothing. The rest is about
  a packed slot and no longer an invariant: a field's shift is the sum of the widths below it
  (`ShiftIsSum`), so of two fields the upper starts where the lower ends or above
  (`ShiftsDescend`), so the bits of the opcode and of the operands are apart (`MasksApart`);
  the same argument one level up gives the instances their bits of the word (`InstancesTile`).
  A value is the set of the places of its ones: `OnesMakeTheNumber` and `NumberHasItsOnes` say
  the two determine each other, `BitLengthFits` that a code of n bits has its ones below n.

Loops are recursive functions on `0..n`, which to the prover are only a CHOOSE. `LeastNatural`
gets the least element of a set of naturals from the well-foundedness of `<`, `Induction` turns
that into induction over a *set*, and with it each proof first shows that the loop's function
exists and then carries its loop invariant over the passes. In `Layout_proofs` the powers of
two and the ones of a number are such functions, and a sum over a finite set, which the
community modules fold with CHOOSE, is shown to be one that gains an element's weight with the
element (`SumTakeOut`), whichever element is taken first. The library's induction theorems,
over a predicate, are not needed.


Only model-checked: in `harness` that a region is the lowest free one *in placement order* and
that followers come together (`PlacementIsSound`'s other two parts, which need what
`PlacementOrder` returns), and what `observers`, `harness` and `tools` check that the
table does not name: the shortcuts and the elements, the idioms and the detectors are statements
about values, and `DetectionsAreTrue` also about a fold over a sorted sequence. Outside the prover's reach: `RunsEnd` and `ResolvesInOrder`, as liveness
under fairness, and the modules that reach a RECURSIVE operator (`Registry`, `Render`).

## 5. Disagreements found

Three have a run whose counterexample shows them:

| Run | The code | The text |
|---|---|---|
| `ref_model_error_doc` | an emulator error in `run` leaves the model unstarted, so the next call resets the statistics | `emu/reference.py:120-121` "They count every word retired since the last reset or load_program" |
| `commit_raise_doc` | after an emulator error in a word, the next word's BREAK op is appended to the abandoned word and lost | `emu/commit.py:278-279` "its op, and whether it fired, wait for the word at that PC to begin" |
| `chain_held_doc` | a scratch region placed below a held tensor that the step reads may spill onto it: `_reserved` leaves out the rows the step reads, and `check_aaq_spill` looks only at outputs; the held tensor is overwritten and no longer live | `harness/chain.py:25-27` "is never covered: [...] a step that pins a region on it (or spills onto it) fails before it runs" |

So the chain of `harness` has a scratch region that spills only in a kernel that reads
nothing, and the commit collector of `observers` has no word that raises. `ref_model` has both
raising words and Ctrl-C, and `StatsMissOnly` says what they cost; a Ctrl-C between a word's
retirement and its count contradicts `reference.py:120-121` too, by one word. Of a held
tensor, `_reserved` gives up the rows behind a target to the spill whatever the kernel stores,
and `check_aaq_spill` looks at each stage but asks for rows only when it stores with `ST.AAQ`:
a staged kernel none of whose stages does may pin a second output there.

Others were met while modelling. The models have them as the code does; where a property
states what the text says, no run checks it, and a passing run checks what does hold:

| The code | The text | Property |
|---|---|---|
| the solver packs wide slots first and greedily, which is not always minimal | `isa/union_layout.py:3-5` "computes the optimal binary field layout for each slot by minimising total bit-width" | `Layout!LayoutIsMinimal` |
| a word with an unused opcode also does not reassemble | `isa/codec/disasm.py:217-219` "Two kinds of word do not reassemble to themselves" | `Layout!OnlyTwoKindsDiffer` |
| the XMEM pane's cursor on a marker row goes to the first value of the pane | `debug/tui/view.py:441` "Jump the pane's cursor to a position along its scrollbar" | `DebugView!ScrollbarJumpsThere` |
| a line recovered by rendering without the dashes is reported as exact, yet it may be another error's: two words that the dash joins and that encode fail apart when they are parted (`a{% set -%}`, then `a`, then an unknown opcode); so may one after a comment that a stripped line break made swallow code | `as/diagnostics.py:308-309` "The line is real" | `Render!RecoveredLinesAreTrue` says which line it is |
| the formatter ends a tag at its first closer, in a string too, and lays out what follows; and it strips whitespace inside a tag left open after a lone label (`formatter.py:350-351`). The check then refuses, and the source is kept | `as/formatter.py:20-21` lines inside a multi-line tag keep their layout, trailing whitespace goes "except inside a tag that continues on the next line" | `Formatter!FormattingIsLayout` names both |
| `check` takes `{%-` for a trim that the renderer's settings do not make | `as/diagnostics.py:409` "Empty means it assembles" | `Render!NoDiagnosticsMeansItAssembles` |
| a macro call that stands for words, moved to the start of a line, is formatted again | `src/src/ipu-as/test/test_format.py:194` `test_formatting_is_idempotent` | `Formatter!FormattingIsIdempotent` |
| the alias observer keeps a producer whose result was overwritten without an event | `emu/alias_observer.py:520` "Only keep the latest accumulator producer" | `AliasObserver!AccIsTheLatestProducer`; nor does a reset after an op that raised end it, so `ProductsAreOfTheAccumulator` has it as its hypothesis |
| a faulted word's events reach the detectors | `emu/alias_profile.py:3` "Detectors consume completed execution events" | `AliasObserver!EventsAreCompleted` |
| two windows generating at once can leave older data under a newer stamp | `vscode/language-source.js:50-52` "fresh while every source is no newer than what the cached data was generated against" | `Languages!CacheIsFresh` |
| a superseded refresh that is itself the latest entry of its key waits for itself | `vscode/checking.js:365-366` "Resolves once that check is done, or the one that superseded it" | `Checking!RefreshResolves` |
| a failed check's version is recorded as checked | `vscode/checking.js:327` | `Checking!FailureIsNotRecorded` |
| a shell integration report can come before the first command starts | `vscode/kernels.js:136-137` "covering a shell still starting" | `Terminals!IntegrationCoversStarting` |
| a plan may be made of parameters the routing refuses | `harness/registry.py:6-7` "with the same checks `plan_case` runs" | `Registry!WhatPlansIsAccepted` |

And without a property of their own: evaluating the BREAK slot of a reserved word with F-1
disabled leaves F-1 in the sticky set (`Notice`; `emu/cycle.py:555` says "No side
effects."); Ctrl-C in a debugged run whose program has just run off IMEM is taken for the
debugger's quit (`QuitPastImem`; `emu/reference.py:619-620`); when a callback replaces the
word it is stopped at, the record keeps the old word's BREAK op (`begin` compares PCs only);
a hook that catches the `EmulatorError` of a stage can still end in PASS, with that stage's
words missing from `StagesRun.cycles`; `window_mask` for fewer than 16 tokens drops windows
past slot 7; a template folder is routed when its `registry.toml` cannot be read.

## 6. What is left out

* *Machine.* In `Isa` a register is one value; lanes are in `Lanes`, whose products wrap and
  whose lanes are small integers with two specials. So the reductions over lanes (`AGG.*`), the
  mask operands (`mask_offset`, `mask_shift`) and a quantized activation outside INT8, which
  raises (`aaq.py:171-172`; `Machine!GiveUp` has the other raises), are not in the words of
  `Isa`; `Lanes` has the first two. In `RefModel`: trace files, access by
  name, XMEM's read size. In `CommitCollector`: the listed register and memory values. In
  `DebugRun`: stop reasons and what is printed.
* *Registers.* `set_{cyclic}_at` with more than two rings of data; the resolver's view cache;
  a `mutable()` view kept after a load is modelled (only it outdates marks) although no
  caller in `src/` keeps one.
* *Observer.* The segmented, fractional and lanes detectors; host writes of LRs and
  `state.reset`, which the addressing and selection detectors do not see.
* *Numbers.* Activations and the 32-bit accumulator float; `ACTIVATE.QUANTIZE` of a wide
  format leaves lanes past `active` as they were.
* *Chain, as in its documentation.* Two slices of one tensor written out of row order: each
  `ST.AAQ` spill lands on the next slice, and the docstring asks for row order; so a
  tensor's own writers do not spoil it. A step that fails leaves its target live with what
  it had written. Register banks reset before a step, and values, are not modelled.
* *Packing.* Padding values, tolerance, the order transforms are looked up in; inputs of a
  case. *Runs*: an `--input` override is compared with the case's own expected file, as in
  the code. *Registry*: adapters, `unit = "bytes"` (no kernel may use it), reports; one
  family per tree.
* *Templates.* A block that opens and closes in the middle of a line moves marker offsets
  (`Straight` excludes it from `MarkedLinesAreTrue`); the formatter's `MovesCall` texts are
  excluded from `FormattedIsFixed`.
* *Editor.* History variables `crossed` and `missed` exempt what two windows generating at
  once and a change during the first scan lose, as section 5 says. `ChangeSource` is a change
  that raises the newest mtime of the sources; one that does not, such as a deletion
  (`checker.js:60-78`), leaves cached data fresh in the code and is not modelled. Completion, hover, the
  case form's page and the language service's messages are not modelled.
* *Not modelled.* Kernels' programs and goldens, generators, command lines, reports: values
  or text, with no protocol.

## 7. Plan

1. *Proofs*: that `PlacementOrder` visits every tensor once.
2. *Models*: the remaining detectors, the accumulator's float, trace files.
