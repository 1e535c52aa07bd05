----------------------------- MODULE Formatter -----------------------------
(***************************************************************************)
(* The assembly formatter (ipu_as/formatter.py): how it lays out a source  *)
(* line by line, and the check that only layout changed.                   *)
(*                                                                         *)
(* A line is [lead, items, trail]: its indent (0, 1 for one level, 2 for   *)
(* deeper), what is on it, and whether whitespace trails.  An item is      *)
(* [k, sp, in]: its kind, whether whitespace is before it, and whether     *)
(* Jinja reads it as inside the tag before it.  The formatter ends a tag   *)
(* at the first closing delimiter, in a string of the tag too, and takes   *)
(* what follows for code (_jinja_regions); Jinja's lexer, which the check  *)
(* uses, does not.  A tag of several lines is "open" at the end of one     *)
(* line and "rest" at the start of the next.                               *)
(***************************************************************************)
EXTENDS Integers, FiniteSets, Sequences, FiniteSetsExt, SequencesExt

CONSTANTS Texts      \* the sources formatted: sequences of lines

VARIABLES text, shown, blank_line, range
vars == << text, shown, blank_line, range >>

Names == {"tok", "var", "call"}
CodeKinds == Names \union {"semi", "word", "colon"}
CodeAt(items) == {i \in DOMAIN items : items[i].k \in CodeKinds}
HasCode(items) == CodeAt(items) # {}
LastCode(items) == items[Max(CodeAt(items))].k
EndsWord(items) == HasCode(items) /\ LastCode(items) = "word"
InRegion(line) == line.items # << >> /\ line.items[1].k = "rest"
(* (mutant: what trails an open tag is cut like any trailing whitespace) *)
ContinuesNever(line) == FALSE
Continues(line) == line.items # << >> /\ Last(line.items).k = "open"

(* A macro call that stands for whole words; before a colon it names a label. *)
WordsCall(items) == items # << >> /\ items[1].k = "call" /\ (Len(items) > 1 => items[2].k # "colon")

(* How many items a label takes, its colon with them; 0 for no label. *)
LabelSize(items) ==
    LET ks == {k \in 2..Len(items) : /\ items[k].k = "colon" /\ items[1].k \in Names
                                     /\ \A i \in 2..k - 1 : items[i].k \in Names /\ ~items[i].sp} IN
    IF ks = {} THEN 0 ELSE Min(ks)

(* _pieces: split after each ;; with more code after it. *)
Splits(items) == {i \in DOMAIN items : items[i].k = "word" /\ \E j \in CodeAt(items) : j > i}
Unspaced(items) == [i \in DOMAIN items |-> IF i = 1 THEN [items[i] EXCEPT !.sp = FALSE] ELSE items[i]]
Pieces(items) ==
    LET starts == {1} \union {i + 1 : i \in Splits(items)}
        sorted == SelectSeq([i \in DOMAIN items |-> i], LAMBDA i : i \in starts) IN
    [k \in DOMAIN sorted |->
        [first |-> k = 1, last |-> k = Len(sorted),
         items |-> Unspaced(SubSeq(items, sorted[k], IF k = Len(sorted) THEN Len(items) ELSE sorted[k + 1] - 1))]]

-----------------------------------------------------------------------------
(* One run of the formatter: its output lines, and whether an instruction carries on. *)

Emitted(lead, items, trail, ends, code, inside, n) ==
    [line |-> [lead |-> lead, items |-> items, trail |-> trail], ends |-> ends, code |-> code, inside |-> inside, n |-> n]
Emit(run, line, open) == [out |-> Append(run.out, line), open |-> open]

(* _piece *)
Piece(run, piece, line, trail, n) ==
    LET size == LabelSize(piece.items)
        rest == SubSeq(piece.items, size + 1, Len(piece.items))
        alone == size > 0 /\ ~HasCode(rest)
        labelled == IF size = 0 THEN run
                    ELSE Emit(run, Emitted(0, SubSeq(piece.items, 1, size), FALSE, FALSE, TRUE, FALSE, n), run.open)
        code == IF size = 0 THEN piece.items ELSE Unspaced(rest)
        moved == size > 0 \/ ~piece.first
        deeper == run.open /\ ~moved /\ line.lead > 1
        words == moved /\ WordsCall(code) IN
    IF alone THEN Emit(run, Emitted(0, piece.items, FALSE, FALSE, TRUE, FALSE, n), FALSE)
    ELSE Emit(labelled,
              Emitted(IF deeper THEN line.lead ELSE 1, code, trail, EndsWord(code) \/ words, TRUE, FALSE, n),
              ~(HasCode(code) /\ LastCode(code) \in {"semi", "word"}))

(* _line *)
Line(run, line, n) ==
    LET trail == line.trail /\ Continues(line) IN
    IF InRegion(line)
    THEN Emit(run, Emitted(line.lead, line.items, line.trail, EndsWord(line.items), FALSE, TRUE, n), run.open)
    ELSE IF WordsCall(line.items)
    THEN Emit(run, Emitted(line.lead, line.items, trail, TRUE, TRUE, FALSE, n), FALSE)
    ELSE IF ~HasCode(line.items)
    THEN Emit(run, Emitted(IF line.items = << >> THEN 0 ELSE line.lead, line.items, trail, FALSE, FALSE, FALSE, n), run.open)
    ELSE FoldLeft(LAMBDA r, p : Piece(r, p, line, trail /\ p.last, n), run, Pieces(line.items))

(* _gaps: the output lines an empty line goes before; a closing tag stays with its word. *)
Empty(o) == o.line.items = << >>
Closer(o) == ~o.code /\ o.line.items # << >> /\ o.line.items[1].k = "closer"
NoGap == -1
Gaps(out) ==
    FoldLeft(LAMBDA s, i :
        LET o == out[i]
            at == IF s.gap = NoGap \/ Empty(o) \/ o.code THEN NoGap
                  ELSE IF s.gap = 0 /\ ~Closer(o) /\ ~o.inside THEN i ELSE s.gap IN
        [places |-> IF s.gap # NoGap /\ ~Empty(o) /\ o.code THEN s.places \union {IF s.gap = 0 THEN i ELSE s.gap} ELSE s.places,
         gap |-> IF o.ends THEN 0 ELSE at],
        [places |-> {}, gap |-> NoGap], [i \in DOMAIN out |-> i]).places

(* _window: from the last line of code before the range. *)
CodeLine(line) == HasCode(line.items) /\ ~InRegion(line)
WindowStart(lines, first) == Max({n \in 1..first - 1 : CodeLine(lines[n])} \union {1})

BlankLine == [lead |-> 0, items |-> << >>, trail |-> FALSE]
(* run: the lines of [first, last] formatted. *)
Run(lines, first, last, blank) ==
    LET from == IF blank THEN 1 ELSE WindowStart(lines, first)
        to == IF blank THEN Len(lines) ELSE last
        out == FoldLeft(LAMBDA r, n : Line(r, lines[n], n), [out |-> << >>, open |-> FALSE], [i \in 1..to - from + 1 |-> from + i - 1]).out
        gaps == IF blank THEN Gaps(out) ELSE {} IN
    FlattenSeq([k \in DOMAIN out |->
        IF out[k].n \notin first..last THEN << >>
        ELSE (IF k \in gaps THEN << BlankLine >> ELSE << >>) \o << out[k].line >>])

Format(lines, blank) == Run(lines, 1, Len(lines), blank)
FormatRange(lines, first, last, blank) ==
    SubSeq(lines, 1, first - 1) \o Run(lines, first, last, blank) \o SubSeq(lines, last + 1, Len(lines))

-----------------------------------------------------------------------------
(* check_same_program: the stream of tags, comments and tokens, and whether whitespace parts     *)
(* each from the one before, where the render could tell.  A tag keeps all that is inside it,    *)
(* the whitespace too.                                                                           *)

Closed == {"word", "colon"}
Inside(item) == item.in \/ item.k = "rest"
(* The whitespace before an item: on its line, or from the last item above over the line breaks. *)
Before(lines, n, i) ==
    IF i > 1 THEN << [nl |-> FALSE, sp |-> lines[n].items[i].sp, lead |-> 0] >>
    ELSE LET above == Max({m \in 1..n - 1 : lines[m].items # << >>} \union {0}) IN
         [k \in 1..n - above |->
            [nl |-> TRUE, sp |-> above + k > 1 /\ lines[above + k - 1].trail, lead |-> lines[above + k].lead]]
ItemsOf(lines) ==
    FlattenSeq([n \in DOMAIN lines |->
        [i \in DOMAIN lines[n].items |->
            [item |-> lines[n].items[i], spaced |-> lines[n].items[i].sp \/ i = 1, space |-> Before(lines, n, i)]]])
Stream(lines) ==
    FoldLeft(LAMBDA done, next :
                LET last == Len(done) IN
                IF last > 0 /\ Inside(next.item)
                THEN [done EXCEPT ![last].inside = Append(@, << next.item.k, next.space >>)]
                ELSE Append(done, [k |-> next.item.k, inside |-> << >>,
                                   spaced |-> last > 0 /\ done[last].k \notin Closed /\ next.spaced]),
             << >>, ItemsOf(lines))
SameProgram(before, after) == Stream(before) = Stream(after)

-----------------------------------------------------------------------------
Init == text \in Texts /\ shown = text /\ blank_line \in BOOLEAN /\ range = << >>

(* format_source: what is not the same program is refused, and the source kept. *)
FormatSource ==
    /\ LET out == Format(text, blank_line) IN
       shown' = IF SameProgram(text, out) THEN out ELSE << "FormatError" >>
    /\ range' = << 1, Len(text) >> /\ UNCHANGED << text, blank_line >>
FormatLines(first, last) ==
    /\ LET out == FormatRange(text, first, last, blank_line) IN
       shown' = IF SameProgram(text, out) THEN out ELSE << "FormatError" >>
    /\ range' = << first, last >> /\ UNCHANGED << text, blank_line >>

Next ==
    /\ range = << >>
    /\ FormatSource \/ \E first, last \in DOMAIN text : first <= last /\ FormatLines(first, last)
Spec == Init /\ [][Next]_vars

-----------------------------------------------------------------------------
MovesCall(lines) ==
    \E n \in DOMAIN lines : ~InRegion(lines[n]) /\ HasCode(lines[n].items) /\
        \E p \in ToSet(Pieces(lines[n].items)) :
            LET size == LabelSize(p.items) IN
            (size > 0 \/ ~p.first) /\ WordsCall(SubSeq(p.items, size + 1, Len(p.items)))

(* Where the formatter lays out what is inside a tag: a line or a piece of one starts there, or  *)
(* a label that is alone on its line is followed by a tag that stays open, whose trailing        *)
(* whitespace goes with the label's (_piece).                                                    *)
StartsInTag(lines) ==
    \E n \in DOMAIN lines : LET items == lines[n].items IN
        \E i \in DOMAIN items : items[i].in /\
            (i \in {1, LabelSize(items) + 1} \/ i - 1 \in Splits(items) \/
             \E p \in Splits(items) : i = p + 1 + LabelSize(Unspaced(SubSeq(items, p + 1, Len(items)))))
LabelsOpenTag(lines) ==
    \E n \in DOMAIN lines : Continues(lines[n]) /\ lines[n].trail /\
        LET last == Last(Pieces(lines[n].items)).items IN
        LabelSize(last) > 0 /\ ~HasCode(SubSeq(last, LabelSize(last) + 1, Len(last)))

(* Formatting changes layout only: the safety check refuses what the formatter did to a source,  *)
(* whole or in part, only where the formatter reached into a tag, and then the source is kept    *)
(* (check_same_program, test_a_change_inside_a_jinja_tag_is_refused).                            *)
Accepted == shown # << "FormatError" >>
FormattingIsLayout == ~Accepted => StartsInTag(text) \/ LabelsOpenTag(text)

(* A formatted source is left as it is, each of its words ending its line (format_source,        *)
(* test_formatting_is_idempotent): but for a source in which formatting puts a macro call that   *)
(* stands for words at the start of a line.                                                      *)
FormattedIsFixed ==
    range = << 1, Len(text) >> /\ Accepted /\ ~MovesCall(text) =>
        /\ Format(shown, blank_line) = shown
        /\ \A n \in DOMAIN shown : InRegion(shown[n]) \/ WordsCall(shown[n].items) \/ Splits(shown[n].items) = {}

(* What test_formatting_is_idempotent says of every source: a second formatting changes nothing. *)
FormattingIsIdempotent ==
    range = << 1, Len(text) >> /\ Accepted => Format(shown, blank_line) = shown

(* Lines formatted on their own are as the whole format has them, and the others as they were    *)
(* (line_range, _window).                                                                        *)
PartsAgreeWithTheWhole ==
    range # << >> /\ Accepted =>
        LET whole == [n \in DOMAIN text |-> Run(text, n, n, blank_line)]
            parts == FoldLeft(LAMBDA r, n : Line(r, text[n], n), [out |-> << >>, open |-> FALSE], [n \in DOMAIN text |-> n]).out IN
        /\ shown = FlattenSeq([n \in DOMAIN text |-> IF n \in range[1]..range[2] THEN whole[n] ELSE << text[n] >>])
        /\ ~blank_line => \A n \in DOMAIN text :
              whole[n] = [k \in DOMAIN SelectSeq(parts, LAMBDA o : o.n = n) |-> SelectSeq(parts, LAMBDA o : o.n = n)[k].line]
=============================================================================
