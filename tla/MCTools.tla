------------------------------ MODULE MCTools -------------------------------
(***************************************************************************)
(* The tools around the machine over small instances: the instruction      *)
(* word the union layout gives an ISA, the assembler that fills it, the    *)
(* debugger's panes, the template renderer and its diagnostics, and the    *)
(* formatter.  They share no state: a behaviour is one of one of them.     *)
(***************************************************************************)
EXTENDS Layout, TLC

CONSTANT Parts   \* the components whose behaviours the run explores

VARIABLES
    part,     \* the component that moves
    asm_sources, asm_file, asm_session, asm_held, asm_cache, asm_last, asm_calls, view_uses,
    view_pc, view_reg, view_mem, view_breakpoints, view_generation, view_focus, view_tabs,
    view_active, view_offset, view_help, view_prompt, view_drag, view_click, view_cache,
    view_frame, view_redraw, view_status, view_left, view_stops, view_inputs, render_source,
    render_rendered, render_diagnostics, render_places, render_at_stage, format_text,
    format_shown, format_blank_line, format_range

(* Operand types with codes of a range, of no width of their own, with members, and padded; ISAs of
   a replicated slot and of a simulation-only one. *)
OperandType(bits, codes, low, members, pads) ==
    [bits |-> bits, codes |-> codes, low |-> low, members |-> members, pads |-> pads]
SomeTypes ==
    << OperandType(2, 3, 1, FALSE, TRUE), OperandType(0, 0, 0, FALSE, FALSE),
       OperandType(1, 2, 0, TRUE, FALSE), OperandType(2, 3, 0, TRUE, FALSE) >>
SomeSlots == << [count |-> 2, pad |-> 5, hardware |-> TRUE], [count |-> 1, pad |-> 0, hardware |-> FALSE] >>
OperandLists == UNION {[1..n -> 1..4] : n \in 1..2}
SomeIsas ==
    {<< << << >>, i >>, r >> : i \in OperandLists, r \in {<< << >> >>, << << >>, << 1 >> >>, << << 2, 4 >>, << 3 >>, << >> >>}}
    \union {<< << i, << >>, j >>, << << >>, << 1 >> >> >> : i, j \in OperandLists}

(* Sources whose lines label, branch, repeat a slot, take too many operands or none, and overflow. *)
AsmSlots == << [count |-> 2, hardware |-> TRUE, simulated |-> FALSE],
               [count |-> 1, hardware |-> TRUE, simulated |-> FALSE],
               [count |-> 1, hardware |-> FALSE, simulated |-> TRUE] >>
Mnemonics == [ADD |-> [slot |-> 1, kinds |-> << "reg" >>, emulator |-> FALSE],
              BEQ |-> [slot |-> 2, kinds |-> << "reg", "label" >>, emulator |-> FALSE],
              ST |-> [slot |-> 3, kinds |-> << >>, emulator |-> TRUE]]
Ref(k, n) == [kind |-> k, name |-> n]
Reg(n) == Ref("reg", n)
BranchPseudo == [B |-> [arity |-> 1, real |-> "BEQ", args |-> << Reg(0), Ref("arg", 1) >>]]
Ins(op, args) == [op |-> op, args |-> args]
LabelsOfLines == {[kind |-> "none", name |-> 0], Ref("named", 7), Ref("local", 1)}
Bodies ==
    {<< Ins("B", << r >>) >> : r \in {Ref("named", 7), Ref("forward", 1), Ref("back", 1), Ref("offset", 2), Ref("offset", 4)}}
    \union {<< Ins("NOP", << >>), Ins("ADD", << Reg(1) >>), Ins("BEQ", << Reg(1), Ref("back", 1) >>) >>,
            << Ins("ADD", << Reg(0) >>), Ins("ADD", << Reg(1) >>), Ins("ADD", << Reg(1) >>) >>,
            << Ins("ST", << >>) >>, << Ins("B", << Reg(0), Reg(1) >>) >>,
            << Ins("ADD", << >>), Ins("XX", << >>) >>,
            << Ins("NOP", << >>), Ins("NOP", << >>), Ins("NOP", << >>), Ins("ST", << >>), Ins("NOP", << >>) >>}
AsmLines(labels, bodies) == {[label |-> n, instrs |-> b] : n \in labels, b \in bodies}
SecondLines ==
    AsmLines(LabelsOfLines \ {Ref("named", 7)}, {<< Ins("B", << Ref("forward", 1) >>) >>, << Ins("ST", << >>) >>})
AsmSource(lines, inc) == [lines |-> lines, includes |-> inc]
AsmFiles == {<< [label |-> Ref("local", 1), instrs |-> << >>] >>,
             << [label |-> Ref("named", 7), instrs |-> << Ins("NOP", << >>) >>] >>}
AsmWorlds ==
    {{AsmSource(<< a, b >>, FALSE), AsmSource(<< b >>, TRUE)} :
        a \in AsmLines(LabelsOfLines, Bodies), b \in SecondLines}

(* The kinds of input of a sitting at the debugger. *)
SomeSittings ==
    {{"tabs", "edit", "pointer"}, {"cursor", "edit", "run", "scroll"}, {"edit", "run", "focus"}, {"pointer", "run", "focus"},
     {"help", "edit", "focus", "pointer"}, {"break", "focus", "edit", "quit", "cursor"}}

(* Sources of three lines with expressions, sets, loops and conditions, on one line or over several. *)
Letter(c) == [c |-> c, kind |-> "", l |-> FALSE, r |-> FALSE, n |-> 0, out |-> << >>]
Jinja(kind, l, r, n, out) == [c |-> "tag", kind |-> kind, l |-> l, r |-> r, n |-> n, out |-> out]
A == Letter("a")
B == Letter("b")
X == Letter("x")
Sp == Letter("sp")
Nl == Letter("nl")
Unclosed == Letter("bad")
For == Jinja("for", FALSE, FALSE, 0, << >>)
ForL == Jinja("for", TRUE, FALSE, 0, << >>)
End == Jinja("end", FALSE, FALSE, 0, << >>)
EndL == Jinja("end", TRUE, FALSE, 0, << >>)
Cond == Jinja("if", FALSE, FALSE, 0, << >>)
SetL == Jinja("set", TRUE, FALSE, 0, << >>)
SetR == Jinja("set", FALSE, TRUE, 0, << >>)
SetOverTwo == Jinja("set", FALSE, FALSE, 1, << >>)
OutB == Jinja("expr", FALSE, FALSE, 0, << "b" >>)
Included == Jinja("include", FALSE, FALSE, 0, << "x", "nl", "b" >>)
TemplateLines ==
    {<< >>, << A >>, << B, Sp, A >>, << A, Sp, X >>, << OutB, Sp, B >>, << A, OutB >>, << SetL, Sp, B >>,
     << A, SetR >>, << Unclosed >>, << SetL, Unclosed >>, << For, A, Sp, B, Sp, End, Sp, A >>,
     << Cond, X, End, B >>, << Cond, A, B, End, Sp, B >>, << Cond, B, End, Sp, A, Sp, B >>,
     << SetOverTwo, A >>, << A, SetOverTwo, X >>, << Included >>, << Included, Sp, A >>}
TemplateSources ==
    {a \o << Nl >> \o b \o << Nl >> \o c : a, b \in TemplateLines, c \in {<< >>, << A, Sp, X >>, << Included, Nl >>}}
    \union {<< o, Nl >> \o a \o << Nl, c, Nl >> \o b :
                o \in {For, ForL, Cond}, c \in {End, EndL}, a, b \in TemplateLines}
    \union {<< A, Sp, o, Sp, B, Nl, X, Sp, End, Nl >> : o \in {For, Cond}}

(* Texts of three lines, or of a tag that stays open over a line break between two others; tags with
   a closing delimiter in a string, with a word, a label or a line break after it. *)
Item(k) == [k |-> k, sp |-> FALSE, in |-> FALSE]
Apart(k) == [k |-> k, sp |-> TRUE, in |-> FALSE]
In(item) == [item EXCEPT !.in = TRUE]
TextLine(lead, items, trail) == [lead |-> lead, items |-> items, trail |-> trail]
T == Item("tok")
TextLines ==
    {TextLine(0, << >>, TRUE), TextLine(0, << T, Apart("tok"), Item("word") >>, TRUE),
     TextLine(2, << T, Apart("tok"), Item("semi") >>, FALSE), TextLine(2, << T, Apart("var") >>, FALSE),
     TextLine(0, << T, Item("word"), Apart("tok"), Item("word"), Apart("com") >>, FALSE),
     TextLine(1, << T, Item("colon"), Apart("tok"), Item("semi"), Apart("tok"), Item("word") >>, FALSE),
     TextLine(1, << T, Item("var"), Item("colon"), Apart("com") >>, TRUE),
     TextLine(1, << Item("call") >>, FALSE), TextLine(0, << T, Item("colon"), Apart("call") >>, FALSE),
     TextLine(0, << T, Item("word"), Apart("call"), Apart("tok") >>, FALSE),
     TextLine(1, << Item("closer") >>, TRUE), TextLine(2, << Item("block"), Apart("tok"), Item("word") >>, TRUE),
     TextLine(1, << Item("com") >>, FALSE), TextLine(1, << Item("block") >>, FALSE),
     TextLine(1, << T, Item("word"), Apart("block") >>, TRUE)}
MisreadLines ==
    {<< TextLine(1, << T, Item("word"), Apart("var"), In(Item("word")), In(Apart("tok")), In(Apart("tok")) >>, TRUE) >>,
     << TextLine(0, << Item("block"), In(Item("tok")), In(Apart("tok")), Apart("tok"), Item("word") >>, TRUE) >>,
     << TextLine(1, << Item("var"), In(Item("colon")), In(Apart("tok")), Item("word") >>, FALSE) >>,
     << TextLine(1, << T, Apart("var"), In(Item("semi")) >>, TRUE), TextLine(1, << In(Item("tok")), Apart("tok") >>, FALSE) >>}
OpenLines ==
    {<< TextLine(1, << T, Apart("open") >>, TRUE), TextLine(2, << Item("rest"), Apart("tok"), Item("word"), Apart("tok") >>, TRUE) >>,
     << TextLine(1, << Item("open") >>, TRUE), TextLine(0, << Item("rest") >>, FALSE) >>,
     << TextLine(0, << T, Item("word"), Apart("tok"), Apart("open") >>, TRUE), TextLine(1, << Item("rest") >>, FALSE) >>,
     << TextLine(1, << T, Item("colon"), Apart("open") >>, TRUE), TextLine(2, << Item("rest"), Apart("tok") >>, FALSE) >>,
     << TextLine(1, << T, Item("colon"), Apart("open") >>, FALSE), TextLine(1, << Item("rest") >>, TRUE) >>}
FirstLines ==
    {TextLine(0, << >>, TRUE), TextLine(0, << T, Item("word"), Apart("tok"), Item("word"), Apart("com") >>, FALSE),
     TextLine(2, << T, Apart("var") >>, FALSE), TextLine(1, << Item("call") >>, FALSE),
     TextLine(1, << T, Item("var"), Item("colon"), Apart("com") >>, TRUE), TextLine(1, << Item("closer") >>, TRUE)}
SomeTexts ==
    {<< a, b, c >> : a \in FirstLines, b, c \in TextLines} \union {<< a >> \o o \o << b >> : a, b \in TextLines, o \in OpenLines \union MisreadLines}

Assembling == INSTANCE Assembler WITH
    sources <- asm_sources, file <- asm_file, session <- asm_session, held <- asm_held,
    cache <- asm_cache, last <- asm_last, calls <- asm_calls, Slots <- AsmSlots,
    Isa <- Mnemonics, Pseudos <- BranchPseudo, ProgramSize <- 4, Worlds <- AsmWorlds,
    Files <- AsmFiles, CacheSize <- 1, MaxCalls <- 3

View == INSTANCE DebugView WITH
    uses <- view_uses, pc <- view_pc, reg <- view_reg, mem <- view_mem,
    breakpoints <- view_breakpoints, generation <- view_generation, focus <- view_focus,
    tabs <- view_tabs, active <- view_active, offset <- view_offset, help <- view_help,
    prompt <- view_prompt, drag <- view_drag, click <- view_click, cache <- view_cache,
    frame <- view_frame, redraw <- view_redraw, status <- view_status, left <- view_left,
    stops <- view_stops, inputs <- view_inputs, Words <- 3, Rows <- 3, Depth <- 2, MaxTabs <- 3,
    MaxStops <- 2, MaxInputs <- 3, Sittings <- SomeSittings

Rendering == INSTANCE Render WITH
    source <- render_source, rendered <- render_rendered, diagnostics <- render_diagnostics,
    places <- render_places, at_stage <- render_at_stage, Sources <- TemplateSources,
    Known <- {<< "a" >>, << "b" >>}

Formatting == INSTANCE Formatter WITH
    text <- format_text, shown <- format_shown, blank_line <- format_blank_line,
    range <- format_range, Texts <- SomeTexts

(* What the tools assume of their constants. *)
ASSUME ToolsAssumption == Assembling!AssemblerAssumption /\ View!ViewAssumption

-----------------------------------------------------------------------------
(* The component that moves starts anywhere; of the others one start is kept. *)
PartInit ==
    /\ part \in Parts
    /\ IF part = "layout" THEN TRUE ELSE spec = (CHOOSE i \in SomeIsas : TRUE)
    /\ IF part = "assembler" THEN TRUE ELSE asm_sources = (CHOOSE w \in AsmWorlds : TRUE) /\ asm_file = (CHOOSE f \in AsmFiles : TRUE) /\ asm_session = Assembling!NewSession(CHOOSE s \in asm_sources : TRUE)
    /\ IF part = "debug_view" THEN TRUE ELSE view_uses = (CHOOSE u \in SomeSittings : TRUE)
    /\ IF part = "render" THEN TRUE ELSE render_source = << A, Nl, Nl >>
    /\ IF part = "format" THEN TRUE ELSE format_text = (CHOOSE t \in SomeTexts : TRUE) /\ format_blank_line = TRUE
    /\ Init /\ Assembling!Init /\ View!Init /\ Rendering!Init /\ Formatting!Init

asmVars == <<
    asm_sources, asm_file, asm_session, asm_held, asm_cache, asm_last, asm_calls >>
viewVars == <<
    view_uses, view_pc, view_reg, view_mem, view_breakpoints, view_generation, view_focus,
    view_tabs, view_active, view_offset, view_help, view_prompt, view_drag, view_click,
    view_cache, view_frame, view_redraw, view_status, view_left, view_stops, view_inputs >>
renderVars == <<
    render_source, render_rendered, render_diagnostics, render_places, render_at_stage >>
formatVars == <<
    format_text, format_shown, format_blank_line, format_range >>

(* The others stand still. *)
OthersFrozen ==
    /\ UNCHANGED part
    /\ IF part = "layout" THEN TRUE ELSE UNCHANGED vars
    /\ IF part = "assembler" THEN TRUE ELSE UNCHANGED asmVars
    /\ IF part = "debug_view" THEN TRUE ELSE UNCHANGED viewVars
    /\ IF part = "render" THEN TRUE ELSE UNCHANGED renderVars
    /\ IF part = "format" THEN TRUE ELSE UNCHANGED formatVars

LayoutStep == part = "layout" /\ Next /\ OthersFrozen
AssemblerStep == part = "assembler" /\ Assembling!Next /\ OthersFrozen
DebugViewStep == part = "debug_view" /\ View!Next /\ OthersFrozen
RenderStep == part = "render" /\ Rendering!Next /\ OthersFrozen
FormatStep == part = "format" /\ Formatting!Next /\ OthersFrozen
PartNext == LayoutStep \/ AssemblerStep \/ DebugViewStep \/ RenderStep \/ FormatStep

partvars == << part, vars, asmVars, viewVars, renderVars, formatVars >>
PartSpec ==
    /\ PartInit /\ [][PartNext]_partvars

-----------------------------------------------------------------------------
(* An assembly is of one text: its words and labels are that text's, whatever was rendered, parsed,
   cached and dropped before; a local label reference goes to the nearest definition; and the words
   disassemble to a text that assembles to them (session.py, symbols.py, codec/disasm.py). *)
AssemblyIsOfOneText ==
    Assembling!TypeOK /\ Assembling!ResultIsOfItsText /\ Assembling!LocalsAreNearest /\ Assembling!TextReadsBack

(* What the debugger shows is what the stopped machine holds, with what the run changed marked, on a
   tab that is there, and an editor still has the value it was opened on (view.py, panes). *)
ViewIsOfTheMachine ==
    View!TypeOK /\ View!FrameIsTrue /\ View!SelectedIsATab /\ View!EditorOwnsItsTarget

(* A diagnostic's line read off the markers is the line its error came from, a recovered one is that
   of what fails first without whitespace control, and a word of the rendered text is placed in the
   source only where it came from (diagnostics.py, placement.py). *)
PlacesAreTrue ==
    /\ Rendering!MarkedLinesAreTrue /\ Rendering!RecoveredLinesAreTrue
    /\ Rendering!PlainPlacesAreCertain /\ Rendering!PlacesAreOrigins

(* Formatting changes layout only, is at rest on what it formatted, and formats lines on their own
   as it formats them in the whole (format.py: check_same_program, format_source, line_range). *)
FormattingIsSettled ==
    Formatting!FormattingIsLayout /\ Formatting!FormattedIsFixed /\ Formatting!PartsAgreeWithTheWhole
=============================================================================
