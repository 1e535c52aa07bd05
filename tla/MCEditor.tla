------------------------------ MODULE MCEditor ------------------------------
(***************************************************************************)
(* The editor extension's components over small instances: the checks of   *)
(* one document, the language data of two windows, the kernel lists of two *)
(* folders, a kernel's debugger terminals, and the edits of a text.  They  *)
(* share no state: a behaviour is one of one of them.                      *)
(***************************************************************************)
EXTENDS Checking, FiniteSets

CONSTANTS
    Parts,                                        \* the components whose behaviours the run explores
    Windows, MaxSources, Newer, Mishaps,          \* of the language data (Languages)
    Folders, MaxTree, Broken, MaxIndexes, MaxMoves,   \* of the kernel lists (Kernels)
    Buttons, MaxSends, Hosts,                     \* of the terminals (Terminals)
    MaxVersion, MaxRuns                           \* of the edits (Edits)

VARIABLES
    part,     \* the component that moves
    data_sources, data_cache, data_load, data_entry, data_user, data_unseen, data_stale,
    data_shown, data_crossed, side_open, side_there, side_tree, side_trusted, side_indexes,
    side_current, side_scans, side_scan, side_rescanTimer, side_events, side_moves, side_missed,
    term_host, term_asked, term_sent, term_at, term_prompt, term_terms, term_terminalOf,
    text_version, text_argv, text_speaks, text_known, text_slow, text_format, text_rename,
    text_cancelled, text_applied, text_asks

MCTextOf == << "a", "b", "a" >>
MCScenarios == {
    {"edit", "check", "fail", "ask"}, {"edit", "save", "close", "ask"}, {"edit", "check", "switch"},
    {"cold", "edit", "grant"}, {"save", "clean", "source"}, {"cold", "save", "clean"} }
OneScenario == CHOOSE s \in Scenarios : TRUE
SomeHosts == {{"ps"}, {"ps", "slow"}}

Data == INSTANCE Languages WITH
    sources <- data_sources, cache <- data_cache, load <- data_load, entry <- data_entry,
    user <- data_user, unseen <- data_unseen, stale <- data_stale, shown <- data_shown,
    crossed <- data_crossed

Sidebar == INSTANCE Kernels WITH
    open <- side_open, there <- side_there, tree <- side_tree, trusted <- side_trusted,
    indexes <- side_indexes, current <- side_current, scans <- side_scans, scan <- side_scan,
    rescanTimer <- side_rescanTimer, events <- side_events, moves <- side_moves,
    missed <- side_missed

Terms == INSTANCE Terminals WITH
    host <- term_host, asked <- term_asked, sent <- term_sent, at <- term_at,
    prompt <- term_prompt, terms <- term_terms, terminalOf <- term_terminalOf,
    Kernels <- Buttons

Texts == INSTANCE Edits WITH
    version <- text_version, argv <- text_argv, speaks <- text_speaks, known <- text_known,
    slow <- text_slow, format <- text_format, rename <- text_rename,
    cancelled <- text_cancelled, applied <- text_applied, asks <- text_asks

ASSUME EditorAssumption == Data!LanguagesAssumption

-----------------------------------------------------------------------------
(* The component that moves starts anywhere; of the others one start is kept. *)
PartInit ==
    /\ part \in Parts
    /\ IF part = "checking" THEN TRUE ELSE may = OneScenario /\ disk = [there |-> TRUE, time |-> 0]
    /\ IF part = "kernels" THEN TRUE ELSE side_open = {"one"} /\ side_there = TRUE /\ side_trusted = TRUE
    /\ IF part = "terminals" THEN TRUE ELSE term_host = {"ps"}
    /\ IF part = "edits" THEN TRUE ELSE text_argv = "direct" /\ text_speaks = TRUE
    /\ Init /\ Data!Init /\ Sidebar!Init /\ Terms!Init /\ Texts!Init

dataVars == <<
    data_sources, data_cache, data_load, data_entry, data_user, data_unseen, data_stale,
    data_shown, data_crossed >>
sideVars == <<
    side_open, side_there, side_tree, side_trusted, side_indexes, side_current, side_scans,
    side_scan, side_rescanTimer, side_events, side_moves, side_missed >>
termVars == <<
    term_host, term_asked, term_sent, term_at, term_prompt, term_terms, term_terminalOf >>
textVars == <<
    text_version, text_argv, text_speaks, text_known, text_slow, text_format, text_rename,
    text_cancelled, text_applied, text_asks >>

(* The others stand still. *)
OthersFrozen ==
    /\ UNCHANGED part
    /\ IF part = "checking" THEN TRUE ELSE UNCHANGED vars
    /\ IF part = "languages" THEN TRUE ELSE UNCHANGED dataVars
    /\ IF part = "kernels" THEN TRUE ELSE UNCHANGED sideVars
    /\ IF part = "terminals" THEN TRUE ELSE UNCHANGED termVars
    /\ IF part = "edits" THEN TRUE ELSE UNCHANGED textVars

CheckingStep == part = "checking" /\ Next /\ OthersFrozen
LanguagesStep == part = "languages" /\ Data!Next /\ OthersFrozen
KernelsStep == part = "kernels" /\ Sidebar!Next /\ OthersFrozen
TerminalsStep == part = "terminals" /\ Terms!Next /\ OthersFrozen
EditsStep == part = "edits" /\ Texts!Next /\ OthersFrozen
PartNext == CheckingStep \/ LanguagesStep \/ KernelsStep \/ TerminalsStep \/ EditsStep

partvars == << part, vars, dataVars, sideVars, termVars, textVars >>
PartSpec ==
    /\ PartInit /\ [][PartNext]_partvars
    /\ \A r \in 1..MaxRefreshes : WF_vars(part = "checking" /\ r \in Refreshes /\ Await(r))
    /\ WF_vars(part = "checking" /\ Debounced) /\ WF_vars(part = "checking" /\ Start)
    /\ WF_vars(part = "checking" /\ Watched)
    /\ WF_vars(part = "checking" /\ SampleSources) /\ WF_vars(part = "checking" /\ Resolve)

-----------------------------------------------------------------------------
(* The diagnostics on screen are those of the text on screen once nothing is left to run, what
   is closed or switched off shows none, who waits for an analysis is served, and the checker
   kept between checks is as new as its sources (checking.js). *)
DiagnosticsAreOfTheText ==
    part = "checking" => QuietIsCurrent /\ OffShowsNothing /\ WaitersAreServed /\ KeptCommandIsFresh

(* Settled windows show the data of the sources as they are, and the cache they share is as new
   as its stamp (languages.js, language-source.js); a terminal runs one command at a time
   (terminals.js); an edit is applied only to the text it was computed from (formatting.js,
   rename.js). *)
AnswersAreOfNow ==
    /\ part = "languages" => Data!SettledIsCurrent /\ Data!StampIsHonest
    /\ part = "terminals" => Terms!OneCommandAtATime
    /\ part = "edits" => Texts!EditsFitTheText

(* One index of a checkout lives, the sidebar lists exactly the open checkouts, each with the
   manifest of its latest tree (kernels.js). *)
SidebarIsOfTheFolders ==
    part = "kernels" =>
        /\ Sidebar!OneLiveIndex /\ Sidebar!ListsOpenCheckouts
        /\ Sidebar!ManifestIsLatest /\ Sidebar!DisposedStaysEmpty
=============================================================================
