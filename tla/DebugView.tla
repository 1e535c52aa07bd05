------------------------------ MODULE DebugView ------------------------------
(***************************************************************************)
(* The debugger's terminal interface over DebugSession: the panes' tabs,    *)
(* the focus, the modal editor and help, the pointer, the frames that are   *)
(* drawn, and what is kept from one stop to the next (ipu_debug.tui).       *)
(*                                                                         *)
(* Three panes: "registers" shows the register, "xmem" windows of Depth rows *)
(* of memory that start at row 0 ("fixed") or at the row the register       *)
(* holds ("byreg"), "disassembly" the words.  A window's display lines are  *)
(* a marker and a value for each row.  A frame is what is on the screen;    *)
(* inputs that arrive together are handled before the next one is drawn.    *)
(***************************************************************************)
EXTENDS Integers, Sequences, SequencesExt, FiniteSets

CONSTANTS Words,       \* size of instruction memory
          Depth,       \* rows of an XMEM window
          Rows,        \* rows of XMEM
          MaxTabs,     \* tabs of a pane
          MaxStops,    \* stops of the run
          MaxInputs,   \* inputs of one stop
          Sittings     \* sets of the kinds of input a user gives

ViewAssumption == Words \in Nat \ {0} /\ Depth \in Nat \ {0}
                  /\ Rows \in Nat /\ Rows >= Depth

Panes == {"disassembly", "xmem", "registers"}
Bits == 0..1
Lines == 1..2 * Depth                    \* marker, row, marker, row...
ValueLines == {2 * i : i \in 1..Depth}
None == "none"
NoWindow == [base |-> -1, data |-> <<>>]
Unread == [base |-> -2, data |-> <<>>]
NoPrompt == [mode |-> "closed"]
NoClick == <<>>
Follows == -1                            \* a disassembly tab at the current PC

VARIABLES uses,      \* the kinds of input of this behaviour
          pc, reg, mem, breakpoints,     \* the stopped machine and the control
          generation,                    \* DebugSession.generation
          focus, tabs, active, offset,   \* DebugViewSession
          help, prompt,                  \* the overlay and the editor
          drag, click,                   \* Pointer: the gesture held, the last click
          cache,                         \* XmemPane: its reads, and their generation
          frame, redraw,                 \* the last frame, and whether it is out of date
          status,                        \* "stopped", "running" or "over"
          left,                          \* the machine as the last stop left it
          stops, inputs

machine == <<pc, reg, mem, breakpoints>>
session == <<focus, tabs, active, offset>>
overlays == <<help, prompt>>
pointer == <<drag, click>>
vars == <<uses, machine, generation, session, overlays, pointer, cache, frame, redraw, status, left,
          stops, inputs>>

(* XmemTab, RegisterTab and DisassemblyTab: what it shows, its cursor's line *)
(* (an offset from the PC in disassembly) and its baseline.                  *)
Tab(pane, target) == [target |-> target, cursor |-> IF pane = "xmem" THEN 2 ELSE 0,
                      baseline |-> NoWindow]
Targets(pane) == CASE pane = "xmem" -> {"fixed", "byreg"}
                   [] pane = "disassembly" -> {Follows} \cup (0..Words - 1)
                   [] OTHER -> {"all"}
Default(pane) == Tab(pane, CASE pane = "disassembly" -> Follows [] pane = "registers" -> "all"
                             [] OTHER -> "fixed")

(* DebugSession.read_xmem: the window now, or an error past the last row.    *)
Window(target, r, m) ==
  LET base == IF target = "byreg" THEN r ELSE 0
  IN IF base + Depth > Rows THEN NoWindow ELSE [base |-> base, data |-> [i \in 1..Depth |-> m[base + i - 1]]]
WindowNow(target) == Window(target, reg, mem)

(* TabSet.select and close, tabs counted from 1.                             *)
Scrolled(off, i) == IF i < off THEN i ELSE IF i > off + 2 THEN i - 2 ELSE off
Least(a, b) == IF a < b THEN a ELSE b
Largest(a, b) == IF a > b THEN a ELSE b

Current(pane) == tabs[pane][Least(active[pane], Len(tabs[pane]))]
HasTabs(pane) == tabs[pane] # <<>>

(* XmemPane.resolve: reads are kept while the generation stays the same.     *)
NoReads == [t \in {"fixed", "byreg"} |-> Unread]
Reads == IF cache.generation = generation THEN cache.reads ELSE NoReads
Resolved(target) == IF Reads[target] = Unread THEN WindowNow(target) ELSE Reads[target]

(* normalize_cursor: a cursor that is on no value goes to the first one.     *)
Normalized(line) == IF line \in ValueLines THEN line ELSE 2

(* render: what each pane draws for its current tab, marked where a value is *)
(* not its baseline's, and what a pointer can act on.                        *)
XmemShown == IF HasTabs("xmem") THEN Resolved(Current("xmem").target) ELSE NoWindow
Marked == LET tab == Current("xmem")
          IN IF XmemShown = NoWindow \/ tab.baseline = NoWindow THEN {}
             ELSE IF tab.baseline.base # XmemShown.base THEN {}
             ELSE {i \in 1..Depth : XmemShown.data[i] # tab.baseline.data[i]}
Register == [base |-> 0, data |-> <<reg>>]
RegisterMarked == Current("registers").baseline \notin {NoWindow, Register}

Drawn == [window |-> XmemShown,
          marks |-> IF HasTabs("xmem") THEN Marked ELSE {},
          reg |-> reg, regmark |-> RegisterMarked,
          tabs |-> [p \in Panes |-> Len(tabs[p])],
          modal |-> IF help THEN "help" ELSE IF prompt # NoPrompt THEN "editor" ELSE None]

(* Painting also fills the cache and puts the XMEM cursor back on a value.   *)
Painted == IF ~HasTabs("xmem") \/ XmemShown = NoWindow THEN tabs
           ELSE LET i == Least(active["xmem"], Len(tabs["xmem"]))
                IN [tabs EXCEPT !["xmem"][i].cursor = Normalized(@)]
Filled == IF ~HasTabs("xmem") THEN cache
          ELSE [generation |-> generation,
                reads |-> [Reads EXCEPT ![Current("xmem").target] = XmemShown]]

Init == /\ uses \in Sittings
        /\ pc = 0 /\ reg = 0 /\ mem = [r \in 0..Rows - 1 |-> 0] /\ breakpoints = {}
        /\ generation = 0
        /\ focus = "xmem" /\ tabs = [p \in Panes |-> <<Default(p)>>]
        /\ active = [p \in Panes |-> 1] /\ offset = [p \in Panes |-> 1]
        /\ help = FALSE /\ prompt = NoPrompt /\ drag = None /\ click = NoClick
        /\ cache = [generation |-> -1, reads |-> NoReads]
        /\ frame = NoPrompt /\ redraw = TRUE /\ status = "stopped"
        /\ left = [reg |-> 0, mem |-> mem] /\ stops = 1 /\ inputs = 0

(* The loop draws when something changed, then blocks for a key; what is     *)
(* queued is handled first, so an input may find the frame out of date.      *)
Render == /\ status = "stopped" /\ redraw
          /\ frame' = Drawn /\ tabs' = Painted /\ cache' = Filled /\ redraw' = FALSE
          /\ UNCHANGED <<uses, machine, generation, focus, active, offset, overlays, pointer, status,
                         left, stops, inputs>>

-----------------------------------------------------------------------------
(* Keys.  handle_key asks for a redraw and drops the gestures in flight; the *)
(* help and the editor are modal, so a pane or global command needs neither. *)
Gives(kind) == kind \in uses /\ status = "stopped" /\ inputs < MaxInputs
NoModal == ~help /\ prompt = NoPrompt
InputTaken == inputs' = inputs + 1
Key(kind) == Gives(kind) /\ InputTaken /\ redraw' = TRUE /\ drag' = None /\ click' = NoClick

kept == <<uses, frame, stops>>

Select(pane, i) == /\ active' = [active EXCEPT ![pane] = i]
                   /\ offset' = [offset EXCEPT ![pane] = Scrolled(@, i)]

NextTab == /\ Key("tabs") /\ NoModal /\ HasTabs(focus)
           /\ \E delta \in {1, -1} :
                Select(focus, 1 + ((active[focus] - 1 + delta) % Len(tabs[focus])))
           /\ UNCHANGED <<kept, machine, generation, focus, tabs, overlays, cache, status, left>>

(* TabSet.close: the tab now at that place, or the last, is selected; a pane *)
(* with a default opens it again.                                            *)
CloseAt(pane, i) ==
  LET rest == RemoveAt(tabs[pane], i)
      now == IF rest = <<>> /\ pane # "xmem" THEN <<Default(pane)>> ELSE rest
  IN /\ tabs' = [tabs EXCEPT ![pane] = now]
     /\ active' = [active EXCEPT ![pane] = Least(i, Largest(1, Len(now)))]
     /\ offset' = [offset EXCEPT ![pane] = Least(@, Largest(1, Len(now)))]

CloseTab == /\ Key("tabs") /\ NoModal /\ HasTabs(focus)
            /\ CloseAt(focus, Least(active[focus], Len(tabs[focus])))
            /\ UNCHANGED <<kept, machine, generation, focus, overlays, cache, status, left>>

FocusPane == /\ Key("focus") /\ NoModal
             /\ \E p \in Panes : focus' = p
             /\ UNCHANGED <<kept, machine, generation, tabs, active, offset, overlays, cache, status, left>>

ShowHelp == /\ Key("help") /\ NoModal /\ help' = TRUE
            /\ UNCHANGED <<kept, machine, generation, session, prompt, cache, status, left>>

CloseHelp == /\ Key("help") /\ help /\ help' = FALSE
             /\ UNCHANGED <<kept, machine, generation, session, prompt, cache, status, left>>

(* Arrows: move_cursor in XMEM, over value lines; an offset that stays in    *)
(* instruction memory in disassembly.                                        *)
BasePc(tab) == IF tab.target = Follows THEN pc ELSE tab.target
CursorPc(tab) == Largest(0, Least(Words - 1, BasePc(tab) + tab.cursor))
Moved(tab, pane, dy) ==
  IF pane = "xmem" THEN Largest(2, Least(2 * Depth, Normalized(tab.cursor) + 2 * dy))
  ELSE IF pane = "disassembly"
       THEN Largest(-BasePc(tab), Least(Words - 1 - BasePc(tab), tab.cursor + dy))
       ELSE tab.cursor

MoveCursor == /\ Key("cursor") /\ NoModal /\ HasTabs(focus)
              /\ focus = "xmem" => Resolved(Current("xmem").target) # NoWindow
              /\ \E dy \in {1, -1} :
                   tabs' = [tabs EXCEPT ![focus][Least(active[focus], Len(tabs[focus]))].cursor =
                                          Moved(Current(focus), focus, dy)]
              /\ UNCHANGED <<kept, machine, generation, focus, active, offset, overlays, cache, status, left>>

ToggleBreakpoint == /\ Key("break") /\ NoModal /\ focus = "disassembly"
                    /\ LET at == CursorPc(Current("disassembly"))
                       IN breakpoints' = (breakpoints \cup {at}) \ (breakpoints \cap {at})
                    /\ generation' = generation + 1
                    /\ UNCHANGED <<kept, pc, reg, mem, session, overlays, cache, status, left>>

-----------------------------------------------------------------------------
(* The editor.  A pane's reply opens it; Enter hands the text to submit,     *)
(* which keeps it open when the text is refused; Esc closes it.              *)
Editor(mode, at, was) == [pane |-> focus, mode |-> mode, at |-> at, was |-> was,
                          tab |-> active[focus]]

OpenedEditor ==
  \/ \E mode \in {"add", "edit"} :
       /\ mode = "add" => Len(tabs[focus]) < MaxTabs
       /\ prompt' = Editor(IF HasTabs(focus) THEN mode ELSE "add", 0, 0)
  \/ /\ focus = "xmem" /\ HasTabs("xmem") /\ Resolved(Current("xmem").target) # NoWindow
     /\ LET window == Resolved(Current("xmem").target)
            row == Normalized(Current("xmem").cursor) \div 2
        IN prompt' = Editor("value", window.base + row - 1, window.data[row])
  \/ focus = "registers" /\ prompt' = Editor("scalar", 0, reg)
  \/ focus = "disassembly" /\ prompt' = Editor("scalar", 0, pc)

OpenEditor == /\ Key("edit") /\ NoModal /\ OpenedEditor
              /\ UNCHANGED <<kept, machine, generation, session, help, cache, status, left>>

CancelEditor == /\ Key("edit") /\ prompt # NoPrompt /\ ~help /\ prompt' = NoPrompt
                /\ UNCHANGED <<kept, machine, generation, session, help, cache, status, left>>

(* (mutant: a change of the machine by the editor keeps the generation) *)
BumpedNever == generation
(* submit: a mutation goes through the session, which moves the generation.  *)
Bumped == generation + 1

SubmitTab == /\ prompt.mode \in {"add", "edit"}
             /\ \E target \in Targets(prompt.pane) :
                  /\ prompt.pane = "xmem" => Resolved(target) # NoWindow
                  /\ LET p == prompt.pane
                     IN IF prompt.mode = "add" \/ ~HasTabs(p)
                        THEN /\ tabs' = [tabs EXCEPT ![p] = Append(@, Tab(p, target))]
                             /\ Select(p, Len(tabs[p]) + 1)
                        ELSE /\ tabs' = [tabs EXCEPT ![p][active[p]] = Tab(p, target)]
                             /\ Select(p, active[p])
             /\ UNCHANGED <<machine, generation>>

SubmitValue == /\ prompt.mode \in {"value", "scalar"}
               /\ \/ /\ prompt.mode = "value"
                     /\ \E b \in Bits : mem' = [mem EXCEPT ![prompt.at] = b]
                     /\ UNCHANGED <<pc, reg>>
                  \/ /\ prompt.mode = "scalar" /\ prompt.pane = "registers"
                     /\ \E r \in 0..Rows - 1 : reg' = r
                     /\ UNCHANGED <<pc, mem>>
                  \/ /\ prompt.mode = "scalar" /\ prompt.pane = "disassembly"
                     /\ \E p \in 0..Words - 1 : pc' = p
                     /\ UNCHANGED <<reg, mem>>
               /\ generation' = Bumped
               /\ UNCHANGED <<breakpoints, tabs, active, offset>>

Submit == /\ Key("edit") /\ prompt # NoPrompt /\ ~help
          /\ \/ SubmitTab /\ prompt' = NoPrompt
             \/ SubmitValue /\ prompt' = NoPrompt
             \/ UNCHANGED <<machine, generation, tabs, active, offset, prompt>>
          /\ UNCHANGED <<kept, focus, help, cache, status, left>>

-----------------------------------------------------------------------------
(* The pointer.  It acts on what the last frame shows: a frame that is out   *)
(* of date is drawn again first.  The editor and the help take every event.  *)
Looking == IF redraw THEN Drawn ELSE frame
Repainted == IF redraw THEN Painted ELSE tabs
Refilled == IF redraw THEN Filled ELSE cache
Point == /\ Gives("pointer") /\ InputTaken /\ redraw' = TRUE
         /\ frame' = Looking /\ cache' = Refilled
         /\ Looking.modal = None /\ drag = None

ClickTab == /\ Point
            /\ \E p \in Panes : \E i \in 1..Looking.tabs[p] :
                 /\ focus' = p /\ Select(p, i)
            /\ tabs' = Repainted /\ click' = NoClick
            /\ UNCHANGED <<uses, stops, machine, generation, overlays, drag, status, left>>

ClickClose == /\ Point
              /\ \E p \in Panes : \E i \in 1..Looking.tabs[p] :
                   /\ focus' = p
                   /\ IF i \in DOMAIN tabs[p] THEN CloseAt(p, i) ELSE UNCHANGED <<tabs, active, offset>>
              /\ click' = NoClick
              /\ UNCHANGED <<uses, stops, machine, generation, overlays, drag, status, left>>

(* A click on a value puts the cursor there; a second one opens its editor.  *)
ClickValue == /\ Point /\ Looking.window # NoWindow
              /\ \E row \in 1..Depth :
                   LET i == Least(active["xmem"], Len(tabs["xmem"]))
                       at == <<i, row>>
                   IN /\ focus' = "xmem"
                      /\ tabs' = [Repainted EXCEPT !["xmem"][i].cursor = 2 * row]
                      /\ \/ /\ click = at /\ click' = NoClick
                            /\ prompt' = [pane |-> "xmem", mode |-> "value", tab |-> active["xmem"],
                                          at |-> Looking.window.base + row - 1,
                                          was |-> Looking.window.data[row]]
                         \/ click' = at /\ UNCHANGED prompt
              /\ UNCHANGED <<uses, stops, machine, generation, active, offset, help, drag, status, left>>

(* A press on the scroll track takes hold of it and jumps to the row there;  *)
(* moving on drags it, and the release, if it arrives, ends that.            *)
ScrollTo == /\ Gives("scroll") /\ InputTaken /\ redraw' = TRUE
            /\ frame' = Looking /\ cache' = Refilled
            /\ Looking.modal = None /\ Looking.window # NoWindow
            /\ \E line \in Lines :
                 LET i == Least(active["xmem"], Len(tabs["xmem"]))
                 IN tabs' = [Repainted EXCEPT !["xmem"][i].cursor = line]
            /\ drag' \in {"xmem", None} /\ focus' = "xmem" /\ click' = NoClick
            /\ UNCHANGED <<uses, stops, machine, generation, active, offset, overlays, status, left>>

-----------------------------------------------------------------------------
(* An execution action: every tab's values are remembered, and the run goes  *)
(* on; the view of the next stop is a new one over the same session.         *)
Committed ==
  [p \in Panes |-> [i \in DOMAIN tabs[p] |->
     [tabs[p][i] EXCEPT !.baseline = CASE p = "xmem" -> WindowNow(tabs[p][i].target)
                                       [] p = "registers" -> Register
                                       [] OTHER -> NoWindow]]]

Resume == /\ Key("run") /\ NoModal /\ stops < MaxStops
          /\ tabs' = Committed /\ left' = [reg |-> reg, mem |-> mem] /\ status' = "running"
          /\ UNCHANGED <<kept, machine, generation, focus, active, offset, overlays, cache>>

Quit == /\ Key("quit") /\ NoModal
        /\ pc' = Words /\ generation' = Bumped /\ status' = "over" /\ tabs' = Committed
        /\ left' = [reg |-> reg, mem |-> mem]
        /\ UNCHANGED <<kept, reg, mem, breakpoints, focus, active, offset, overlays, cache>>

Stop == /\ status = "running" /\ status' = "stopped" /\ stops' = stops + 1 /\ inputs' = 0
        /\ pc' \in 0..Words - 1
        /\ \/ reg' \in 0..Rows - 1 /\ UNCHANGED mem
           \/ \E r \in DOMAIN mem, b \in Bits : mem' = [mem EXCEPT ![r] = b] /\ UNCHANGED reg
        /\ tabs' = [p \in Panes |-> IF tabs[p] = <<>> /\ p # "xmem" THEN <<Default(p)>> ELSE tabs[p]]
        /\ help' = FALSE /\ prompt' = NoPrompt /\ drag' = None /\ click' = NoClick
        /\ cache' = [generation |-> -1, reads |-> NoReads]
        /\ frame' = NoPrompt /\ redraw' = TRUE
        /\ UNCHANGED <<uses, breakpoints, generation, focus, active, offset, left>>

Next == \/ Render \/ NextTab \/ CloseTab \/ FocusPane \/ ShowHelp \/ CloseHelp \/ MoveCursor
        \/ ToggleBreakpoint \/ OpenEditor \/ CancelEditor \/ Submit
        \/ ClickTab \/ ClickClose \/ ClickValue \/ ScrollTo
        \/ Resume \/ Quit \/ Stop

Spec == Init /\ [][Next]_vars

-----------------------------------------------------------------------------
TypeOK == /\ focus \in Panes /\ help \in BOOLEAN /\ redraw \in BOOLEAN
          /\ pc \in 0..Words /\ reg \in 0..Rows - 1 /\ mem \in [0..Rows - 1 -> Bits]
          /\ status \in {"stopped", "running", "over"}

(* A frame that is not out of date is true: it shows what the machine holds  *)
(* now, though reads are cached and edits go through other panes             *)
(* (DebugSession.generation), and marks what is not as the run went on from. *)
FrameIsTrue ==
  (~redraw /\ status = "stopped") =>
    /\ frame.reg = reg
    /\ HasTabs("xmem") => frame.window = WindowNow(Current("xmem").target)
    /\ (HasTabs("xmem") /\ Current("xmem").baseline # NoWindow) =>
         LET then == Window(Current("xmem").target, left.reg, left.mem)
         IN /\ Current("xmem").baseline = then
            /\ \/ frame.window.base # then.base
               \/ frame.marks = {i \in 1..Depth : frame.window.data[i] # then.data[i]}
    /\ Current("registers").baseline # NoWindow => (frame.regmark <=> reg # left.reg)

(* A pane with tabs has one of them selected, and its tab bar starts at it   *)
(* or before it, whatever keys and clicks on an older frame came together.   *)
SelectedIsATab ==
  \A p \in Panes : /\ HasTabs(p) => active[p] \in DOMAIN tabs[p] /\ offset[p] \in 1..active[p]
                   /\ p # "xmem" => HasTabs(p)

(* While an editor is open nothing else moves under it: the value it was     *)
(* opened on is still there, and the tab it replaces is the tab it was       *)
(* opened for.                                                               *)
EditorOwnsItsTarget ==
  prompt # NoPrompt =>
    /\ ~help /\ focus = prompt.pane
    /\ prompt.mode = "value" => mem[prompt.at] = prompt.was
    /\ prompt.mode = "scalar" => prompt.was = (IF focus = "registers" THEN reg ELSE pc)
    /\ prompt.mode = "edit" => active[prompt.pane] = prompt.tab

(* view.scroll_to_fraction: "Jump the pane's cursor to a position along its  *)
(* scrollbar."  Once drawn, the cursor is on the line asked for, or beside   *)
(* it when that line is a marker (XmemPane.scroll_to_row).                   *)
ScrollbarJumpsThere ==
  [][status = "stopped" /\ HasTabs("xmem") /\ Render =>
       Current("xmem").cursor - Current("xmem")'.cursor \in {-1, 0, 1}]_vars
=============================================================================
