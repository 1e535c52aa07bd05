------------------------------- MODULE Edits -------------------------------
(***************************************************************************)
(* The two editing commands that ask the checkout's assembler before they  *)
(* change the document (vscode-ipu-asm/providers/format.js, formatting.js  *)
(* and providers/rename.js), while the user types, the assembler's sources *)
(* change and its runs end in every way.  A version of the document stands *)
(* for its text; an edit is the version its spans are for.                 *)
(***************************************************************************)
EXTENDS Naturals

CONSTANTS
    MaxVersion,     \* bound on the document's versions
    MaxRuns         \* bound on the commands asked for

VARIABLES
    version,        \* the document's version
    argv,           \* the checker command now: "direct", "bazel", "wrapper" (of another shape)
    speaks,         \* the assembler has `format'
    known,          \* what its probe said ("unasked", "asked", "yes", "no")
    slow,           \* a format ran out of time, and retryMs have not passed
    format,         \* the format under way
    rename,         \* the rename under way
    cancelled,      \* the commands whose token is cancelled
    applied,        \* the edit the last step returned
    asks            \* counts the commands asked for

evars == << version, argv, speaks, known, slow, format, rename, cancelled, applied, asks >>

No == [pc |-> "no", version |-> 0, text |-> 0, first |-> "none", second |-> "none"]
NoEdit == [by |-> "none", spans |-> 0, text |-> 0]
(* The lines of the text as it is now, formatted by the editor's own rules. *)
OwnRules == [by |-> "editor", spans |-> version, text |-> version]

Init ==
    /\ version = 1
    /\ argv \in {"direct", "bazel", "wrapper"}
    /\ speaks \in BOOLEAN /\ known = "unasked" /\ slow = FALSE
    /\ format = No /\ rename = No /\ cancelled = {}
    /\ applied = NoEdit /\ asks = 0

-----------------------------------------------------------------------------
(* Formatting. *)

AskFormat ==
    /\ format.pc = "no" /\ asks < MaxRuns
    /\ format' = [No EXCEPT !.pc = "command", !.version = version]
    /\ cancelled' = cancelled \ {"format"}
    /\ applied' = NoEdit /\ asks' = asks + 1
    /\ UNCHANGED << version, argv, speaks, known, slow, rename >>

EndFormat(edit) == format' = No /\ applied' = edit

(* No answer of the assembler, or one for an older text: the editor's rules answer, for the text
   as it is now; a cancelled request gets nothing. *)
Answer(lines) ==
    EndFormat(IF "format" \in cancelled THEN NoEdit
              ELSE IF lines.by = "none" \/ version # format.version THEN OwnRules
              ELSE lines)

(* The checkout and its command are known; the text is read now.  Only a prebuilt assembler of
   the usual shape that is not slow is asked whether it formats. *)
Command ==
    /\ format.pc = "command"
    /\ IF argv # "direct" \/ slow \/ known = "no"
       THEN Answer(NoEdit)
       ELSE /\ format' = [format EXCEPT !.pc = IF known = "yes" THEN "run" ELSE "probe", !.text = version]
            /\ applied' = NoEdit
    /\ known' = IF format'.pc = "probe" THEN "asked" ELSE known
    /\ UNCHANGED << version, argv, speaks, slow, rename, cancelled, asks >>

(* The probe's answer is for this request; it is kept for the next ones unless it was forgotten. *)
Probed ==
    /\ format.pc = "probe"
    /\ known' = IF known = "asked" THEN (IF speaks THEN "yes" ELSE "no") ELSE known
    /\ IF ~speaks \/ "format" \in cancelled THEN Answer(NoEdit)
       ELSE format' = [format EXCEPT !.pc = "run"] /\ applied' = NoEdit
    /\ UNCHANGED << version, argv, speaks, slow, rename, cancelled, asks >>

(* The assembler is done: lines for the text it was given, a refusal (the text is left as it is),
   or a failure; past its time it is left alone for a while. *)
Formatted ==
    /\ format.pc = "run"
    /\ \/ Answer([by |-> "assembler", spans |-> format.text, text |-> version]) /\ UNCHANGED slow
       \/ EndFormat(IF version # format.version /\ "format" \notin cancelled THEN OwnRules ELSE NoEdit) /\ UNCHANGED slow
       \/ Answer(NoEdit) /\ slow' \in {slow, TRUE}
    /\ UNCHANGED << version, argv, speaks, known, rename, cancelled, asks >>

-----------------------------------------------------------------------------
(* Renaming: what is known of the symbol is awaited, then the text before and after are checked
   at once. *)

AskRename ==
    /\ rename.pc = "no" /\ asks < MaxRuns
    /\ rename' = [No EXCEPT !.pc = "symbols", !.version = version, !.text = version]
    /\ cancelled' = cancelled \ {"rename"}
    /\ applied' = NoEdit /\ asks' = asks + 1
    /\ UNCHANGED << version, argv, speaks, known, slow, format >>

(* The symbol's spans; an edit meanwhile made them another text's. *)
Symbols ==
    /\ rename.pc = "symbols"
    /\ rename' = IF version # rename.version THEN No ELSE [rename EXCEPT !.pc = "check"]
    /\ applied' = NoEdit
    /\ UNCHANGED << version, argv, speaks, known, slow, format, cancelled, asks >>

(* Either check ends: with diagnostics (those of the renamed text the same or worse), or failing. *)
CheckedOne ==
    /\ rename.pc = "check"
    /\ \/ rename.first = "none" /\ \E r \in {"found", "error"} : rename' = [rename EXCEPT !.first = r]
       \/ rename.second = "none" /\ \E r \in {"same", "worse", "error"} : rename' = [rename EXCEPT !.second = r]
    /\ applied' = NoEdit
    /\ UNCHANGED << version, argv, speaks, known, slow, format, cancelled, asks >>

CheckedBoth ==
    /\ rename.pc = "check" /\ rename.first # "none" /\ rename.second # "none"
    /\ LET refused == rename.first = "found" /\ rename.second = "worse" IN
       applied' = IF refused \/ "rename" \in cancelled THEN NoEdit
                  ELSE [by |-> IF rename.first = "found" /\ rename.second = "same" THEN "checked" ELSE "warned",
                        spans |-> rename.text, text |-> version]
    /\ rename' = No
    /\ UNCHANGED << version, argv, speaks, known, slow, format, cancelled, asks >>

-----------------------------------------------------------------------------
(* The user types: the editor cancels a rename under way, not a format.  *)
Type ==
    /\ version < MaxVersion
    /\ version' = version + 1
    /\ cancelled' = cancelled \union (IF rename.pc # "no" THEN {"rename"} ELSE {})
    /\ applied' = NoEdit
    /\ UNCHANGED << argv, speaks, known, slow, format, rename, asks >>

Cancel ==
    /\ format.pc # "no" /\ "format" \notin cancelled
    /\ cancelled' = cancelled \union {"format"}
    /\ applied' = NoEdit
    /\ UNCHANGED << version, argv, speaks, known, slow, format, rename, asks >>

(* The assembler's sources changed: another command, another assembler, nothing known of it. *)
Forget ==
    /\ argv' \in {"direct", "bazel"} /\ argv # "wrapper"
    /\ speaks' \in BOOLEAN
    /\ known' = "unasked" /\ slow' = FALSE /\ applied' = NoEdit
    /\ UNCHANGED << version, format, rename, cancelled, asks >>

Retry ==
    /\ slow /\ slow' = FALSE /\ applied' = NoEdit
    /\ UNCHANGED << version, argv, speaks, known, format, rename, cancelled, asks >>

Next == \/ AskFormat \/ Command \/ Probed \/ Formatted
        \/ AskRename \/ Symbols \/ CheckedOne \/ CheckedBoth
        \/ Type \/ Cancel \/ Forget \/ Retry

Spec == Init /\ [][Next]_evars

-----------------------------------------------------------------------------
(* An edit replaces what its spans were found in: the text of the document when it is returned is
   the one it was made for, whatever was typed while the assembler ran (format.js
   formatWithAssembler, rename.js provideRenameEdits). *)
EditsFitTheText == applied.spans = applied.text
=============================================================================
