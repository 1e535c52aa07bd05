----------------------------- MODULE Assembler -----------------------------
(***************************************************************************)
(* From source text to instruction words and back (ipu_as/syntax.py,       *)
(* symbols.py, encode.py, ipu_token.py, session.py; ipu_isa/codec/disasm.py *)
(* program_text).  A text is a sequence of lines, one instruction word     *)
(* each: a label and the instructions of the word.  A word is the          *)
(* instruction each slot instance holds, its operands encoded: the bits    *)
(* are module Layout's.                                                    *)
(*                                                                         *)
(* The machine is what callers do with sessions and with the cache of      *)
(* assemblies, while a file a source includes changes under them.          *)
(***************************************************************************)
EXTENDS Integers, Sequences, FiniteSets, SequencesExt

CONSTANTS
    Slots,        \* each slot, most significant first: instances, tag, simulation-only
    Isa,          \* each mnemonic but NOP: its slot, its operands' kinds, emulator-only
    Pseudos,      \* each pseudo-instruction: its arity, the mnemonic it becomes, its arguments
    ProgramSize,  \* words of the instruction memory
    Worlds,       \* what a behaviour assembles: sets of sources, each its lines and whether a
                  \* file is included after them
    Files,        \* what the included file may hold
    CacheSize,    \* assemblies kept
    MaxCalls      \* bound on the calls of a behaviour

AssemblerAssumption ==
    /\ Slots \in Seq([count : Nat \ {0}, hardware : BOOLEAN, simulated : BOOLEAN])
    /\ ProgramSize \in Nat \ {0} /\ CacheSize \in Nat \ {0} /\ MaxCalls \in Nat

VARIABLES
    sources,   \* what this behaviour assembles
    file,      \* the included file
    session,   \* an AssemblySession: its source, its render, its parse, its symbols' text
    held,      \* lists that parse or parse_rendered returned to the caller
    cache,     \* the recent assemblies, least recently used first
    last,      \* what the last call returned, and what it was called on
    calls

vars == << sources, file, session, held, cache, last, calls >>

-----------------------------------------------------------------------------
(* Parsing: labels, then pseudo-instructions, line after line. *)

Nowhere == [kind |-> "none", name |-> 0]
NOP == [op |-> "NOP", args |-> << >>]

IsPseudo(i) == i.op \in DOMAIN Pseudos /\ Len(i.args) = Pseudos[i.op].arity
(* A pseudo-instruction's operand is one of its own, or one the expansion supplies. *)
ExpandOne(i) ==
    IF IsPseudo(i)
      THEN [op |-> Pseudos[i.op].real,
            args |-> [k \in DOMAIN Pseudos[i.op].args |->
                         LET a == Pseudos[i.op].args[k] IN IF a.kind = "arg" THEN i.args[a.name] ELSE a]]
      ELSE i
Expand(line) == [k \in DOMAIN line.instrs |-> ExpandOne(line.instrs[k])]

(* The symbol table of a parse: the label of each line. *)
TableOf(text) == [l \in DOMAIN text |-> text[l].label]
Defines(table, kind, name) == {l \in DOMAIN table : table[l].kind = kind /\ table[l].name = name}
Address(l) == l - 1   \* words are numbered from 0

(* A named label is defined once; a pseudo-instruction with another arity must be a real
   mnemonic.  The label of a line is defined before its instructions are expanded. *)
Redefined(text, l) ==
    text[l].label.kind = "named" /\ \E m \in 1..(l - 1) : text[m].label = text[l].label
BadPseudo(line) ==
    \E k \in DOMAIN line.instrs :
        LET i == line.instrs[k] IN i.op \in DOMAIN Pseudos /\ ~IsPseudo(i) /\ i.op \notin DOMAIN Isa
ParseErrorAt(bad, text) ==
    IF bad = {} THEN "none"
    ELSE IF Redefined(text, CHOOSE l \in bad : \A m \in bad : l <= m) THEN "label" ELSE "operand"
ParseError(text) == ParseErrorAt({l \in DOMAIN text : Redefined(text, l) \/ BadPseudo(text[l])}, text)

(* The address a reference of line `l' names, or -1: the next definition of a local label
   after the line, the nearest at or before it, or an offset from it. *)
Nearest(set, l) == CHOOSE m \in set : \A n \in set : (m <= n) = (m > l) \/ m = n
NearestAddress(set, l) == IF set = {} THEN -1 ELSE Address(Nearest(set, l))
Resolve(table, l, ref) ==
    CASE ref.kind = "forward" -> NearestAddress({m \in Defines(table, "local", ref.name) : m > l}, l)
      [] ref.kind = "back" -> NearestAddress({m \in Defines(table, "local", ref.name) : m <= l}, l)
      [] ref.kind = "named" -> NearestAddress(Defines(table, "named", ref.name), l)
      [] ref.kind = "offset" /\ Address(l) + ref.name \in 0..(ProgramSize - 1) -> Address(l) + ref.name
      [] OTHER -> -1

-----------------------------------------------------------------------------
(* Encoding a word: each instruction in turn is placed, checked and encoded. *)

Instances == UNION {{<< s, i >> : i \in 0..(Slots[s].count - 1)} : s \in DOMAIN Slots}
Before(p, q) == p[1] < q[1] \/ (p[1] = q[1] /\ p[2] < q[2])
Least(set) == CHOOSE p \in set : \A q \in set \ {p} : Before(p, q)

(* NOP takes the first free instance of any slot, another instruction of its own. *)
Free(word, op) ==
    {p \in Instances \ DOMAIN word : op = "NOP" \/ p[1] = Isa[op].slot}

IsEmulatorOnly(op) == ~Slots[Isa[op].slot].hardware \/ Isa[op].emulator

CodesOf(table, l, i) ==
    [k \in DOMAIN i.args |->
        IF Isa[i.op].kinds[k] = "label" THEN Resolve(table, l, i.args[k]) ELSE i.args[k].name]

Fault(table, l, word, i, target) ==
    CASE i.op # "NOP" /\ i.op \notin DOMAIN Isa -> "slot"
      [] i.op = "NOP" /\ Free(word, "NOP") = {} -> "slot"
      [] i.op = "NOP" -> IF i.args = << >> THEN "none" ELSE "operand"
      [] Free(word, i.op) = {} -> "slot"
      [] target = "hardware" /\ IsEmulatorOnly(i.op) -> "slot"
      [] Len(i.args) # Len(Isa[i.op].kinds) -> "operand"
      [] \E k \in DOMAIN i.args : CodesOf(table, l, i)[k] < 0 /\ i.args[k].kind # "offset" -> "label"
      [] \E k \in DOMAIN i.args : CodesOf(table, l, i)[k] \notin 0..(ProgramSize - 1) -> "operand"
      [] OTHER -> "none"

(* One instruction more: the word so far, whether it faulted, the warnings it gave. *)
PlaceAt(p, so, i, codes, target) ==
    [word |-> [q \in DOMAIN so.word \cup {p} |->
                  IF q # p THEN so.word[q] ELSE IF i.op = "NOP" THEN NOP ELSE [op |-> i.op, args |-> codes]],
     fault |-> "none",
     warnings |-> so.warnings + (IF i.op # "NOP" /\ target = "emulator" /\ Slots[p[1]].simulated THEN 1 ELSE 0)]
PlaceUnless(fault, so, i, codes, target) ==
    IF fault # "none" THEN [so EXCEPT !.fault = fault]
    ELSE PlaceAt(Least(Free(so.word, i.op)), so, i, codes, target)
Place(table, l, target, so, i) ==
    IF so.fault # "none" THEN so
    ELSE PlaceUnless(Fault(table, l, so.word, i, target), so, i, CodesOf(table, l, i), target)

(* A word's free instances hold a NOP. *)
Completed(placed) ==
    [placed EXCEPT !.word = [p \in Instances |-> IF p \in DOMAIN placed.word THEN placed.word[p] ELSE NOP]]
EncodeWord(table, text, l, target) ==
    Completed(FoldLeft(LAMBDA so, i : Place(table, l, target, so, i),
                       [word |-> << >>, fault |-> "none", warnings |-> 0], Expand(text[l])))

HardwareInstances == {p \in Instances : Slots[p[1]].hardware}
OfTarget(word, target) == IF target = "hardware" THEN [p \in HardwareInstances |-> word[p]] ELSE word

(* The words, or the first error with the warnings given before it. *)
FirstOf(bad, last_line) == IF bad = {} THEN last_line ELSE CHOOSE l \in bad : \A m \in bad : l <= m
UpTo(end, lines, target) ==
    [error |-> IF end = 0 THEN "none" ELSE lines[end].fault,
     words |-> IF end = 0 \/ lines[end].fault = "none"
                 THEN [l \in DOMAIN lines |-> OfTarget(lines[l].word, target)] ELSE << >>,
     warnings |-> FoldLeft(LAMBDA n, line : n + line.warnings, 0, SubSeq(lines, 1, end))]
Collected(lines, target) ==
    UpTo(FirstOf({l \in DOMAIN lines : lines[l].fault # "none"}, Len(lines)), lines, target)
Encode(table, text, target) == Collected([l \in DOMAIN text |-> EncodeWord(table, text, l, target)], target)

Failed(error) == [error |-> error, words |-> << >>, warnings |-> 0, symbols |-> << >>]

(* The labels of a result: the named ones, in definition order. *)
SymbolsOf(table) ==
    SelectSeq([l \in DOMAIN table |-> << table[l], Address(l) >>], LAMBDA s : s[1].kind = "named")

(* A parsed list and the table its tokens carry, encoded; and the symbols of a session. *)
WithSymbols(e, symbols) ==
    [error |-> e.error, words |-> e.words, warnings |-> e.warnings,
     symbols |-> IF e.error = "none" THEN SymbolsOf(symbols) ELSE << >>]
Finish(list, target, symbols) == WithSymbols(Encode(list.table, list.text, target), symbols)

ListOf(text) == [text |-> text, table |-> TableOf(text)]
Assembly(text, target) ==
    IF ParseError(text) # "none" THEN Failed(ParseError(text)) ELSE Finish(ListOf(text), target, TableOf(text))

-----------------------------------------------------------------------------
(* program_text: every instance's instruction, NOPs included, and a label at each target. *)

HoldsLabel(i, k) == i.op # "NOP" /\ Isa[i.op].kinds[k] = "label"
Targets(words) ==
    {a \in 0..(Len(words) - 1) :
        \E l \in DOMAIN words : \E p \in DOMAIN words[l] : \E k \in DOMAIN words[l][p].args :
            HoldsLabel(words[l][p], k) /\ words[l][p].args[k] = a}
RefTo(words, l, a) ==
    IF a < Len(words) THEN [kind |-> "named", name |-> a] ELSE [kind |-> "offset", name |-> a - Address(l)]
WriteOperation(words, l, i) ==
    [op |-> i.op,
     args |-> [k \in DOMAIN i.args |->
                 IF HoldsLabel(i, k) THEN RefTo(words, l, i.args[k]) ELSE [kind |-> "reg", name |-> i.args[k]]]]

InOrder(set) == SetToSortSeq(set, Before)
WriteLine(words, l) ==
    LET order == InOrder(DOMAIN words[l])
    IN  [k \in DOMAIN order |-> WriteOperation(words, l, words[l][order[k]])]
ProgramText(words) ==
    [l \in DOMAIN words |->
        [label |-> IF Address(l) \in Targets(words) THEN [kind |-> "named", name |-> Address(l)] ELSE Nowhere,
         instrs |-> WriteLine(words, l)]]

-----------------------------------------------------------------------------
(* Sessions and the cache. *)

(* The render of a source: an include needs a search path. *)
CanRender(source, path) == source.includes => path
Render(source) == IF source.includes THEN source.lines \o file ELSE source.lines

Absent == [is |-> FALSE, of |-> << >>]
Have(of) == [is |-> TRUE, of |-> of]
NewSession(source) == [source |-> source, rendered |-> Absent, parsed |-> Absent, symbols |-> << >>]

Init ==
    /\ file \in Files
    /\ sources \in Worlds
    /\ \E source \in sources : session = NewSession(source)
    /\ held = {}
    /\ cache = << >>
    /\ last = [call |-> "none", text |-> << >>, target |-> "emulator", result |-> Failed("none")]
    /\ calls = 0

Called == calls < MaxCalls /\ calls' = calls + 1

EditFile ==
    /\ Called
    /\ \E f \in Files \ {file} : file' = f
    /\ UNCHANGED << sources, session, held, cache, last >>

(* The session's render: made once, kept when the file changes. *)
RenderOf(s) == IF s.rendered.is THEN s.rendered.of ELSE Render(s.source)

(* parse_rendered: a fresh symbol table, and the kept parse is dropped, for its labels are in
   the old one.  A parse that fails leaves the labels it had defined. *)
ParseRendered(s, text) ==
    [s EXCEPT !.symbols = TableOf(text), !.parsed = Absent]

(* parse: once, of the session's own render. *)
Parsed(s) ==
    LET text == RenderOf(s)
        done == [ParseRendered(s, text) EXCEPT !.rendered = Have(text)]
    IN  IF s.parsed.is THEN s
        ELSE IF ParseError(text) # "none" THEN done
        ELSE [done EXCEPT !.parsed = Have([text |-> text, table |-> done.symbols])]

Hold(text, table) == IF ParseError(text) = "none" THEN held \cup {[text |-> text, table |-> table]} ELSE held

(* Diagnostics parses an instrumented render: any of the texts. *)
ParseOther ==
    /\ Called
    /\ \E source \in sources :
          /\ session' = ParseRendered(session, source.lines)
          /\ held' = Hold(source.lines, session'.symbols)
    /\ UNCHANGED << sources, file, cache, last >>

Parse ==
    /\ Called
    /\ session' = Parsed(session)
    /\ held' = IF session'.parsed.is THEN held \cup {session'.parsed.of} ELSE held
    /\ UNCHANGED << sources, file, cache, last >>

(* Session.encode of a list parsed earlier: its tokens carry the table of their own parse. *)
TableFor(list) == list.table
EncodeHeld ==
    /\ Called
    /\ \E list \in held, target \in {"emulator", "hardware"} :
          last' = [call |-> "encode", text |-> list.text, target |-> target,
                   result |-> Finish([list EXCEPT !.table = TableFor(list)], target, list.table)]
    /\ UNCHANGED << sources, file, session, held, cache >>

(* Session.assemble: parse, encode, and the labels of the session's table. *)
AssembleSession ==
    /\ Called
    /\ session' = Parsed(session)
    /\ \E target \in {"emulator", "hardware"} :
          last' = [call |-> "assemble", text |-> session'.rendered.of, target |-> target,
                   result |-> IF session'.parsed.is
                                THEN Finish(session'.parsed.of, target, session'.symbols)
                                ELSE Failed(ParseError(session'.rendered.of))]
    /\ UNCHANGED << sources, file, held, cache >>

(* (mutant: a source with a search path is kept too) *)
KeyedAlways(path) == TRUE
(* The module's assemble: no key for a source with a search path, else the cached result of
   the same source; an assembly that fails is not kept. *)
Keyed(path) == ~path
Entries(source) == {e \in DOMAIN cache : cache[e].source = source}
Without(e) == SubSeq(cache, 1, e - 1) \o SubSeq(cache, e + 1, Len(cache))
Kept(source, result) ==
    LET all == Append(cache, [source |-> source, result |-> result])
    IN  IF Len(all) > CacheSize THEN Tail(all) ELSE all

AssembleHit(source, path) ==
    /\ Keyed(path)
    /\ \E e \in Entries(source) :
          /\ cache' = Append(Without(e), cache[e])
          /\ last' = [call |-> "module", text |-> Render(source), target |-> "emulator", result |-> cache[e].result]

AssembleMiss(source, path) ==
    /\ Keyed(path) => Entries(source) = {}
    /\ LET result == IF CanRender(source, path) THEN Assembly(Render(source), "emulator") ELSE Failed("template")
       IN  /\ last' = [call |-> IF CanRender(source, path) THEN "module" ELSE "template",
                       text |-> Render(source), target |-> "emulator", result |-> result]
           /\ cache' = IF Keyed(path) /\ result.error = "none" THEN Kept(source, result) ELSE cache

Assemble ==
    /\ Called
    /\ \E source \in sources, path \in BOOLEAN : AssembleHit(source, path) \/ AssembleMiss(source, path)
    /\ UNCHANGED << sources, file, session, held >>

Next == EditFile \/ ParseOther \/ Parse \/ EncodeHeld \/ AssembleSession \/ Assemble

Spec == Init /\ [][Next]_vars

-----------------------------------------------------------------------------
TypeOK ==
    /\ file \in Files
    /\ sources \in Worlds /\ session.source \in sources
    /\ Len(cache) <= CacheSize
    /\ calls \in 0..MaxCalls

(* Whatever was rendered, parsed and dropped before, an assembly returns the words and the
   labels of one text: the render its session keeps, the text a list was parsed from, or for
   the module's assemble the source as its files are now (session.py: parse_rendered,
   assemble, _cache_key; syntax.py: every token carries its table). *)
ResultIsOfItsText ==
    last.call \in {"assemble", "encode", "module"} => last.result = Assembly(last.text, last.target)

(* A local reference goes to the nearest definition on its side, none between (symbols.py). *)
References(text, l) ==
    UNION {{i.args[k] : k \in DOMAIN i.args} : i \in {ExpandOne(text[l].instrs[n]) : n \in DOMAIN text[l].instrs}}
Goals(word) ==
    UNION {{word[p].args[k] : k \in {n \in DOMAIN word[p].args : HoldsLabel(word[p], n)}} : p \in DOMAIN word}
LocalsAreNearest ==
    last.result.error = "none" => \A l \in DOMAIN last.result.words :
        \A ref \in {r \in References(last.text, l) : r.kind \in {"forward", "back"}} :
            \E m \in DOMAIN last.text :
                LET named == [kind |-> "local", name |-> ref.name]
                    between == IF ref.kind = "forward" THEN (l + 1)..(m - 1) ELSE (m + 1)..l
                IN  /\ Address(m) \in Goals(last.result.words[l])
                    /\ last.text[m].label = named
                    /\ (ref.kind = "forward") = (m > l)
                    /\ \A n \in between : last.text[n].label # named

(* program_text is "source the assembler reads back to the same words": each instruction lands
   in the instance it came from and each branch at its target (codec/disasm.py). *)
TextReadsBack ==
    last.result.error = "none" =>
        \E again \in {Assembly(ProgramText(last.result.words), last.target)} :
            again.error = "none" /\ again.words = last.result.words
=============================================================================
