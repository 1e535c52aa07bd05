------------------------------- MODULE Render -------------------------------
(***************************************************************************)
(* How the assembler's editor tools find a source position for a position  *)
(* of the text Jinja rendered: the origin markers (ipu_as/source_map.py),  *)
(* the render a source is diagnosed on and its diagnostic                  *)
(* (ipu_as/diagnostics.py), and the places of tokens (ipu_as/placement.py).*)
(*                                                                         *)
(* A source is a sequence of characters and of whole Jinja tags.  A word   *)
(* of the program is a run of word characters; a character "bad" is one    *)
(* the grammar has no terminal for; "#" opens a comment.  What a block tag *)
(* controls is taken twice (for) or left out (if).                         *)
(***************************************************************************)
EXTENDS Integers, FiniteSets, Sequences, FiniteSetsExt, SequencesExt

CONSTANTS
    Sources,   \* sources: sequences of [c, kind, l, r, n, out]
    Known      \* the words of the program that encode

VARIABLES source, rendered, diagnostics, places, at_stage
vars == << source, rendered, diagnostics, places, at_stage >>

Letters == {"a", "b", "x"}
White(e) == e.c \in {"sp", "nl"}
IsTag(e) == e.c = "tag"
Plain == [kind |-> "", l |-> FALSE, r |-> FALSE, n |-> 0, out |-> << >>]

(* The line a source element ends on: line breaks are in the text and inside tags. *)
Breaks(e) == IF e.c = "nl" THEN 1 ELSE IF IsTag(e) THEN e.n ELSE 0
LineOf(src, at) == FoldLeft(LAMBDA sum, e : sum + Breaks(e), 0, SubSeq(src, 1, at)) - (IF src[at].c = "nl" THEN 1 ELSE 0)
LastLine(src) == FoldLeft(LAMBDA sum, e : sum + Breaks(e), 0, src)
HasMarkers(src) == \E i \in DOMAIN src : IsTag(src[i])

Numbered(src) == [i \in DOMAIN src |-> [e |-> src[i], at |-> i, line |-> LineOf(src, i)]]
Mark(kind, line) == [e |-> [c |-> kind] @@ Plain, at |-> 0, line |-> line]
Space == [e |-> [c |-> "sp"] @@ Plain, at |-> 0, line |-> 0]

(* instrument: a marker before each line break that is in no tag. *)
Instrument(src) ==
    FlattenSeq([i \in DOMAIN src |-> IF src[i].c = "nl" THEN << Space, Mark("mark", LineOf(src, i)), Numbered(src)[i] >>
                                     ELSE << Numbered(src)[i] >>])

-----------------------------------------------------------------------------
(* Jinja's render, as these modules rely on it. *)

(* A dash deletes the whitespace beside its tag; the last line break of a source goes. *)
Stripped(els) ==
    {i \in DOMAIN els : White(els[i].e) /\
       \/ \E j \in i + 1..Len(els) : els[j].e.l /\ \A k \in i..j - 1 : White(els[k].e)
       \/ \E j \in 1..i - 1 : els[j].e.r /\ \A k \in j + 1..i : White(els[k].e)
       \/ i = Len(els) /\ els[i].e.c = "nl"}
InOrder(S, n) == SelectSeq([i \in 1..n |-> i], LAMBDA i : i \in S)
Kept(els) ==
    LET left == InOrder(DOMAIN els \ Stripped(els), Len(els)) IN
    [k \in DOMAIN left |-> els[left[k]]]

(* What a {{ }} or an include prints; an instrumented include carries markers of its own. *)
Output(el, marked) ==
    FlattenSeq([k \in DOMAIN el.e.out |->
        LET put == << [e |-> [c |-> el.e.out[k]] @@ Plain, at |-> -el.at, line |-> el.line] >> IN
        IF marked /\ el.e.kind = "include" /\ el.e.out[k] = "nl" THEN << Mark("imark", k) >> \o put ELSE put])

RECURSIVE Taken(_, _, _, _)
Taken(els, i, j, marked) ==
    IF i > j THEN << >>
    ELSE LET close == Min({k \in i..j : els[k].e.kind = "end"} \union {j + 1})
             body == Taken(els, i + 1, close - 1, marked) IN
         CASE els[i].e.kind = "for" -> body \o body \o Taken(els, close + 1, j, marked)
           [] els[i].e.kind = "if" -> Taken(els, close + 1, j, marked)
           [] els[i].e.c = "tag" -> Output(els[i], marked) \o Taken(els, i + 1, j, marked)
           [] OTHER -> << els[i] >> \o Taken(els, i + 1, j, marked)

Evaluated(els, marked) == Taken(Kept(els), 1, Len(Kept(els)), marked)
Rendered(src) == IF HasMarkers(src) THEN Evaluated(Numbered(src), FALSE) ELSE Numbered(src)
Marked(src) == Evaluated(Instrument(src), TRUE)

-----------------------------------------------------------------------------
(* The grammar's lexer on a render: its comments, its words, and what it has no terminal for. *)

Opens(el) == el.e.c \in {"#", "mark", "imark"}
InComment(r, p) == \E q \in 1..p : Opens(r[q]) /\ \A k \in q..p : r[k].e.c # "nl"
CodeLetter(r, p) == r[p].e.c \in Letters /\ ~InComment(r, p)
Bads(r) == {p \in DOMAIN r : r[p].e.c = "bad" /\ ~InComment(r, p)}
Starts(r) == {p \in DOMAIN r : CodeLetter(r, p) /\ (p > 1 => ~CodeLetter(r, p - 1))}
EndOf(r, p) == Max({q \in p..Len(r) : \A k \in p..q : CodeLetter(r, k)})
Text(r, p) == [k \in 1..EndOf(r, p) - p + 1 |-> r[p + k - 1].e.c]
Words(r) == LET ps == InOrder(Starts(r), Len(r)) IN [k \in DOMAIN ps |-> Text(r, ps[k])]

(* same_tokens; texts that do not lex are compared with the markers and the whitespace taken out. *)
Squeezed(r) == SelectSeq([p \in DOMAIN r |-> r[p].e.c], LAMBDA c : c \notin {"sp", "nl", "mark", "imark"})
SameTokens(a, b) == IF Bads(a) \union Bads(b) = {} THEN Words(a) = Words(b) ELSE Squeezed(a) = Squeezed(b)

(* render_for_diagnosis *)
ForDiagnosis(src) ==
    IF HasMarkers(src) /\ SameTokens(Marked(src), Rendered(src)) THEN Marked(src) ELSE Rendered(src)

-----------------------------------------------------------------------------
(* check_rendered: the first error of the parse, then of the encoding, and its line. *)

Errors(r) == IF Bads(r) # {} THEN Bads(r) ELSE {p \in Starts(r) : Text(r, p) \notin Known}
Stage(r) == IF Bads(r) # {} THEN "parse" ELSE "assemble"
Assembles(r) == Errors(r) = {}

NoLine == -1
(* source_line_at: the line of the first marker of the open file from here on (mutant: of the last *)
(* marker before).                                                                                  *)
SourceLineBefore(r, p) ==
    LET marks == {q \in 1..p : r[q].e.c = "mark"} IN IF marks = {} THEN NoLine ELSE r[Max(marks)].line
SourceLineAt(r, p) ==
    LET marks == {q \in p..Len(r) : r[q].e.c = "mark"} IN IF marks = {} THEN NoLine ELSE r[Min(marks)].line

(* _recover_line_without_fusion: the error of the source without its dashes. *)
WithoutDashes(src) == [i \in DOMAIN src |-> [src[i] EXCEPT !.l = FALSE, !.r = FALSE]]
RecoveredLine(src, stage) ==
    LET r == Marked(WithoutDashes(src)) IN
    IF Assembles(r) \/ Stage(r) # stage THEN NoLine ELSE SourceLineAt(r, Min(Errors(r)))

Diagnostic(line, stage, approximate, recovered) ==
    [line |-> line, stage |-> stage, approximate |-> approximate, recovered |-> recovered]
CheckRendered(src, r) ==
    IF Assembles(r) THEN << >>
    ELSE LET p == Min(Errors(r))
             line == IF HasMarkers(src) THEN SourceLineAt(r, p) ELSE r[p].line
             again == RecoveredLine(src, Stage(r)) IN
         << IF line # NoLine THEN Diagnostic(line, Stage(r), FALSE, FALSE)
            ELSE IF again # NoLine THEN Diagnostic(again, Stage(r), FALSE, TRUE)
            ELSE Diagnostic(0, Stage(r), TRUE, FALSE) >>

-----------------------------------------------------------------------------
(* Placement: where each word of the render is in the source. *)

Offsets(src, line) == {i \in DOMAIN src : ~IsTag(src[i]) /\ src[i].c # "nl" /\ LineOf(src, i) = line}
Is(src, i, text) == i + Len(text) - 1 <= Len(src) /\ \A k \in DOMAIN text : src[i + k - 1].c = text[k]
Alone(src, i, n) ==
    /\ i > 1 => src[i - 1].c \notin Letters
    /\ i + n <= Len(src) => src[i + n].c \notin Letters
FoundIn(src, line, text, from, to) ==
    {i \in Offsets(src, line) : from <= i /\ i + Len(text) - 1 <= to /\ Is(src, i, text) /\ Alone(src, i, Len(text))}

ByLine(src, r) == ~HasMarkers(src) \/ LastLine(src) = 0 \/ \E p \in DOMAIN r : r[p].e.c = "mark"
LineInSource(src, r, p) ==
    IF ~HasMarkers(src) THEN r[p].line
    ELSE IF SourceLineAt(r, p) = NoLine THEN LastLine(src) ELSE SourceLineAt(r, p)
RenderedLine(r, p) == Cardinality({q \in 1..p : r[q].e.c = "nl"})

(* _code: after the last word placed on the line, or from the body of a loop that is on it. *)
LoopStarts(src, line, cursor) ==
    {i + 1 : i \in {j \in 1..cursor - 1 : src[j].kind = "for" /\ LineOf(src, j) = line}}
Place(src, r, p, cursor) ==
    LET line == LineInSource(src, r, p)
        text == Text(r, p)
        ahead == FoundIn(src, line, text, cursor, Len(src))
        again == {s \in LoopStarts(src, line, cursor) : FoundIn(src, line, text, s, cursor - 1) # {}} IN
    IF ahead # {} THEN Min(ahead)
    ELSE IF again # {} THEN Min(FoundIn(src, line, text, Max(again), cursor - 1))
    ELSE 0

(* place: the words in order; a new rendered line starts every cursor afresh. *)
PlacedByLine(src, r) ==
    FoldLeft(LAMBDA done, p :
                LET line == LineInSource(src, r, p)
                    before == SelectSeq(done, LAMBDA d : /\ RenderedLine(r, d.p) = RenderedLine(r, p)
                                                         /\ LineInSource(src, r, d.p) = line /\ d.at # 0)
                    cursor == IF before = << >> THEN 1 ELSE Last(before).at + Len(Text(r, Last(before).p)) IN
                Append(done, [p |-> p, at |-> Place(src, r, p, cursor)]),
             << >>, InOrder(Starts(r), Len(r)))

(* _stretches and source_offset: a plain render of several lines says no line; the stretches of  *)
(* source between tags are in it in order, and one that is there once is itself.                 *)
RendersInOrder(src) == \A i \in DOMAIN src : src[i].kind \notin {"for", "if", "end"}
Core(src, from, to) ==
    LET body == {i \in from..to : ~White(src[i])} IN
    IF body = {} THEN << >> ELSE [k \in 1..Max(body) - Min(body) + 1 |-> Min(body) + k - 1]
TagsOf(src) == {i \in DOMAIN src : IsTag(src[i])}
Stretch(src, from) == Core(src, from, Min({i - 1 : i \in {t \in TagsOf(src) : t >= from}} \union {Len(src)}))
Occurrences(src, r, core, cursor) ==
    {p \in cursor..Len(r) - Len(core) + 1 : \A k \in DOMAIN core : r[p + k - 1].e.c = src[core[k]].c}
OnlyOne(ps) == Cardinality(ps) = 1
Stretches(src, r) ==
    LET from == InOrder({1} \union {i + 1 : i \in TagsOf(src)}, Len(src) + 1) IN
    FoldLeft(LAMBDA done, s :
                LET core == Stretch(src, s)
                    at == Occurrences(src, r, core, done.cursor) IN
                IF core # << >> /\ OnlyOne(at)
                THEN [found |-> done.found \union {[p |-> Min(at), core |-> core]}, cursor |-> Min(at) + Len(core)]
                ELSE done,
             [found |-> {}, cursor |-> 1], from).found
PlacedInOrder(src, r) ==
    LET known == IF RendersInOrder(src) THEN Stretches(src, r) ELSE {}
        ps == InOrder(Starts(r), Len(r)) IN
    [k \in DOMAIN ps |->
        LET over == {s \in known : s.p <= ps[k] /\ EndOf(r, ps[k]) <= s.p + Len(s.core) - 1} IN
        [p |-> ps[k], at |-> IF over = {} THEN 0 ELSE LET s == CHOOSE t \in over : TRUE IN s.core[ps[k] - s.p + 1]]]

Placed(src, r) == IF ByLine(src, r) THEN PlacedByLine(src, r) ELSE PlacedInOrder(src, r)

-----------------------------------------------------------------------------
Init ==
    /\ source \in Sources
    /\ rendered = << >> /\ diagnostics = << >> /\ places = << >> /\ at_stage = "open"

(* analyse: one render serves the diagnostics and the places. *)
RenderForDiagnosis ==
    /\ at_stage = "open" /\ at_stage' = "rendered"
    /\ rendered' = ForDiagnosis(source)
    /\ UNCHANGED << source, diagnostics, places >>
Check ==
    /\ at_stage = "rendered" /\ at_stage' = "checked"
    /\ diagnostics' = CheckRendered(source, rendered)
    /\ UNCHANGED << source, rendered, places >>
PlaceTokens ==
    /\ at_stage = "checked" /\ at_stage' = "placed"
    /\ places' = Placed(source, rendered)
    /\ UNCHANGED << source, rendered, diagnostics >>

Next == RenderForDiagnosis \/ Check \/ PlaceTokens
Spec == Init /\ [][Next]_vars

-----------------------------------------------------------------------------
(* A block stands on lines of its own, or on one line; a tag of several lines starts its line. *)
Match(i) == Min({k \in i..Len(source) : source[k].kind = "end"} \union {Len(source)})
BlankBefore(i) == \A k \in 1..i - 1 : LineOf(source, k) = LineOf(source, i) => White(source[k])
BlankAfter(i) == \A k \in i + 1..Len(source) : LineOf(source, k) = LineOf(source, i) => White(source[k])
Straight ==
    \A i \in DOMAIN source :
        /\ source[i].kind \in {"for", "if"} =>
              LineOf(source, i) = LineOf(source, Match(i)) \/ (BlankAfter(i) /\ BlankAfter(Match(i)) /\ BlankBefore(i) /\ BlankBefore(Match(i)))
        /\ IsTag(source[i]) /\ source[i].n > 0 => \A k \in 1..i - 1 : LineOf(source, k) = LineOf(source, i) - source[i].n => White(source[k])

(* The line a diagnostic reads off the origin markers is the line its error is on, through       *)
(* loops, conditions, includes, expressions and whitespace control (source_line_at,              *)
(* _parse_diagnostic).                                                                           *)
MarkedLinesAreTrue ==
    Straight => \A d \in Range(diagnostics) :
        ~d.approximate /\ ~d.recovered => d.line = rendered[Min(Errors(rendered))].line

(* A recovered line, which is reported as exact too, is that of what fails first once the dashes  *)
(* are gone.  On a plain render that is a part of the erroneous word if any part of it fails by  *)
(* itself; where whitespace control joined words that encode, or a marker it moved comments code *)
(* out, it may be another error of the source (_recover, _recover_line_without_fusion).          *)
RecoveredLinesAreTrue ==
    Straight => \A d \in Range(diagnostics) : d.recovered =>
        LET apart == Marked(WithoutDashes(source))
            p == Min(Errors(rendered))
            word == {rendered[q].at : q \in p..(IF p \in Bads(rendered) THEN p ELSE EndOf(rendered, p))}
            failing == {s \in Errors(apart) : apart[s].at \in word} IN
        /\ d.line = apart[Min(Errors(apart))].line
        /\ rendered = Rendered(source) /\ failing # {} => d.line = apart[Min(failing)].line

(* When the render says its lines, the words of the text that render on one line are placed      *)
(* where they came from, unless an expression printed there, or a branch left out holds, the     *)
(* text of one of them (placement.py: "its column from finding its text on that line").          *)
Spells(i, text) ==
    /\ i + Len(text) - 1 <= Len(source)
    /\ \A k \in DOMAIN text : source[i + k - 1].c = text[k]
    /\ i > 1 => source[i - 1].c \notin Letters
    /\ i + Len(text) <= Len(source) => source[i + Len(text)].c \notin Letters
Printed == {rendered[q].at : q \in DOMAIN rendered}
PlacesAreOrigins ==
    at_stage = "placed" /\ Straight /\ ByLine(source, rendered) =>
        \A k \in DOMAIN places :
            LET same(j) == RenderedLine(rendered, places[j].p) = RenderedLine(rendered, places[k].p)
                line == {j \in DOMAIN places : same(j)} IN
            (\A j \in line :
                /\ \A q \in places[j].p..EndOf(rendered, places[j].p) : rendered[q].at > 0
                /\ \A i \in DOMAIN source \ Printed : ~Spells(i, Text(rendered, places[j].p)))
            => {places[j].at : j \in line} = {rendered[places[j].p].at : j \in line}

(* On a plain render a word is placed only where it came from, whatever expressions print.       *)
PlainPlacesAreCertain ==
    at_stage = "placed" /\ ~ByLine(source, rendered) =>
        \A k \in DOMAIN places : places[k].at # 0 => rendered[places[k].p].at = places[k].at

(* The docstring of check: no diagnostics mean the source assembles (diagnostics.py).            *)
NoDiagnosticsMeansItAssembles ==
    at_stage = "checked" /\ diagnostics = << >> => Assembles(Rendered(source))
=============================================================================
