------------------------------ MODULE Checking ------------------------------
(***************************************************************************)
(* The editor extension's checker (vscode-ipu-asm/checking.js, checker.js, *)
(* analysis.js): one document, one checkout.  Every await is a point where *)
(* the other handlers of the extension host may run, so a refresh is a     *)
(* process with a control state `pc': looking up its checkout ("root"),    *)
(* comparing the checker with its sources ("pick"), asking which contract  *)
(* it speaks ("probe"), sampling the sources before a rebuild ("stamp"),   *)
(* waiting for the checker's process ("run") or, superseded, for the       *)
(* newest refresh ("await").  Nothing orders the awaits of two refreshes.  *)
(***************************************************************************)
EXTENDS Naturals, Sequences, FiniteSetsExt, TLC

CONSTANTS
    TextOf,        \* the text of each document version (an undo brings one back)
    MaxRefreshes,  \* bound on the refreshes of a behaviour
    MaxTime,       \* bound on the changes of the checker's sources
    MaxLives,      \* bound on how often the document is opened
    Scenarios      \* sets of what the user and the machine may do in a behaviour

Happenings == {"edit", "save", "check", "close", "switch", "grant", "source", "clean", "fail", "ask", "cold"}

ASSUME CheckingAssumption ==
    /\ TextOf \in Seq(STRING)
    /\ Len(TextOf) > 0
    /\ MaxRefreshes \in Nat /\ MaxTime \in Nat /\ MaxLives \in Nat
    /\ \A s \in Scenarios : s \subseteq Happenings

VARIABLES
    may,        \* what may happen in this behaviour
    doc,        \* the document: open, its life (one per opening) and its version
    on,         \* ipuAsm.diagnostics
    trusted,    \* the workspace is trusted
    starting,   \* start() waits for the open folders' checkouts
    timer,      \* the document's debounce timer is set
    refreshes,  \* the refreshes so far, in the order they began
    latest,     \* the newest refresh of the document (0: none)
    running,    \* the refresh whose process holds the document's key (0: none)
    checked,    \* the version last checked (0: none)
    shown,      \* the text whose diagnostics are shown ("none": none are)
    status,     \* how the last check ended
    tool,       \* the checkout's resolved binary, source stamp and picked command
    build,      \* resolveChecker in flight, and the stamp it sampled
    disk,       \* the built checker: whether it is there, and how new it is
    time,       \* the newest modification time of the checker's sources
    unseen,     \* a source changed and its watcher has not fired
    probed,     \* the commands whose contract versions are known
    entry,      \* the kept check of the document
    released,   \* the newest version whose check is over
    waiters,    \* versions the providers wait for
    front,      \* history: the newest refresh that started its process
    overtaken   \* history: a refresh started its process after a newer one did

vars == << may, doc, on, trusted, starting, timer, refreshes, latest, running, checked, shown,
           status, tool, build, disk, time, unseen, probed, entry, released, waiters, front,
           overtaken >>

toolVars   == << tool, build, disk, time, unseen, probed >>
answerVars == << entry, released, waiters >>
pageVars   == << checked, shown, status >>
userVars   == << may, doc, on, trusted, starting, timer >>
runVars    == << running, front, overtaken >>

NoEntry == [version |-> 0, text |-> "none", answer |-> FALSE]

(* A refresh that has not begun its awaits, and one that is over. *)
NewRefresh == [pc |-> "root", life |-> 0, force |-> FALSE, version |-> 0, text |-> "none",
               argv |-> "none", against |-> 0, kept |-> TRUE, asked |-> 0, turn |-> 0, stamp |-> 0,
               gone |-> FALSE, superseded |-> FALSE, awaits |-> 0]
Over == [NewRefresh EXCEPT !.pc = "over"]

Text == TextOf[doc.version]
InFlight(r) == refreshes[r].pc # "over"
Refreshes == DOMAIN refreshes
(* The document a refresh is about is still the open one. *)
IsOpen(r) == doc.open /\ refreshes[r].life = doc.life

Init ==
    /\ may \in Scenarios
    /\ doc = [open |-> TRUE, life |-> 1, version |-> 1]
    /\ on = TRUE
    /\ trusted = ("grant" \notin may)
    /\ starting = trusted
    /\ timer = FALSE
    /\ refreshes = << >> /\ latest = 0
    /\ running = 0 /\ front = 0 /\ overtaken = FALSE
    /\ checked = 0 /\ shown = "none" /\ status = "none"
    /\ build = [pc |-> "no", stamp |-> 0]
    /\ time = 1 /\ unseen = FALSE
    /\ \/ /\ "cold" \in may
          /\ tool = [binary |-> "unresolved", stamp |-> 0, command |-> "undefined"]
          /\ disk \in [there : BOOLEAN, time : {0}]
          /\ probed = {}
       \/ /\ "cold" \notin may             \* checks of other documents have resolved it
          /\ tool = [binary |-> "built", stamp |-> 1, command |-> "direct"]
          /\ disk = [there |-> TRUE, time |-> 0]
          /\ probed = {"direct"}
    /\ entry = NoEntry /\ released = 0 /\ waiters = {}

-----------------------------------------------------------------------------
(* Which checker is run. *)

(* A built checker is at least as new as its sources, or was built against them. *)
isFresh(against) == disk.there /\ (disk.time >= time \/ against >= time)

checkCommandFor(binary, against) == IF binary /\ isFresh(against) THEN "direct" ELSE "bazel"

(* `binary' or `stamp' was set, or a source changed: the picked command is forgotten, and
   a pick under way is not kept. *)
Invalidated(t) == [t EXCEPT !.command = "undefined"]
UnkeepPicks(rs) == [s \in DOMAIN rs |-> IF rs[s].pc = "pick" THEN [rs[s] EXCEPT !.kept = FALSE] ELSE rs[s]]

(* The build of the checker begins, unless it is under way or was resolved. *)
ensureChecker(t) == IF t.binary = "unresolved" /\ build.pc = "no" THEN [build EXCEPT !.pc = "walk"] ELSE build

SampleSources ==
    /\ build.pc = "walk"
    /\ build' = [pc |-> "build", stamp |-> time]
    /\ UNCHANGED << userVars, refreshes, latest, runVars, pageVars, answerVars >>
    /\ UNCHANGED << tool, disk, time, unseen, probed >>

(* Bazel writes the binary only when its content changed, so that it may keep its time. *)
Built == \/ disk' = [there |-> TRUE, time |-> time]
         \/ disk.there /\ disk' = disk

(* The build and `bazel info' are over: resolved, given up, or timed out (tried again later). *)
Resolve ==
    /\ build.pc = "build"
    /\ build' = [pc |-> "no", stamp |-> 0]
    /\ \/ /\ Built
          /\ tool' = [binary |-> "built", stamp |-> Max({tool.stamp, build.stamp}), command |-> "undefined"]
          /\ refreshes' = UnkeepPicks(refreshes)
       \/ /\ "fail" \in may
          /\ tool' = Invalidated([tool EXCEPT !.binary = "none"])
          /\ refreshes' = UnkeepPicks(refreshes)
          /\ UNCHANGED disk
       \/ /\ "fail" \in may
          /\ UNCHANGED << tool, refreshes, disk >>
    /\ UNCHANGED << userVars, latest, runVars, pageVars, answerVars, time, unseen, probed >>

-----------------------------------------------------------------------------
(* The kept check and those who wait for it. *)

(* The check of a version is over: whoever waits for it or an older one has its answer. *)
Release(version) ==
    /\ released' = Max({released, version})
    /\ waiters' = {w \in waiters : w > version}

(* A provider asks for the analysis of the text: it waits only if this version's check is
   still to come and the document's last check had an answer. *)
Ask ==
    /\ "ask" \in may /\ doc.open
    /\ entry.version # doc.version /\ released < doc.version /\ entry.answer
    /\ doc.version \notin waiters
    /\ waiters' = waiters \union {doc.version}
    /\ UNCHANGED << userVars, refreshes, latest, runVars, pageVars, toolVars, entry, released >>

-----------------------------------------------------------------------------
(* A refresh, up to its first await.  The variables of its document are the primed ones:
   it is called by the handler of what happened to them. *)

refresh(force) ==
    /\ Len(refreshes) < MaxRefreshes
    /\ latest' = Len(refreshes) + 1
    /\ \/ /\ trusted' /\ on'
          /\ refreshes' = Append(refreshes, [NewRefresh EXCEPT !.life = doc'.life, !.force = force,
                                                                !.version = doc'.version])
          /\ UNCHANGED << checked, shown, answerVars >>
       \/ /\ trusted' /\ ~on'                  \* switchedOff
          /\ refreshes' = Append(refreshes, Over)
          /\ checked' = 0 /\ shown' = "none"
          /\ entry' = NoEntry /\ released' = doc'.version /\ waiters' = {}
       \/ /\ ~trusted'
          /\ refreshes' = Append(refreshes, Over)
          /\ Release(doc'.version)
          /\ UNCHANGED << checked, shown, entry >>
    /\ UNCHANGED << runVars, status, time, disk, unseen, probed, tool >>

(* A refresh is over; its version is released unless the document is closed. *)
Finish(r) ==
    /\ refreshes' = [refreshes EXCEPT ![r] = Over]
    /\ IF IsOpen(r) THEN Release(refreshes[r].version) ELSE UNCHANGED << released, waiters >>

(* (mutant: the first to have waited is taken for the newest) *)
FirstOf(S) == CHOOSE s \in S : \A t \in S : refreshes[t].turn >= refreshes[s].turn
(* The checker's process starts: the one that holds the document's key is stopped.  Refreshes
   that waited for one probe start theirs together, in the order they began to wait. *)
Last(S) == CHOOSE s \in S : \A t \in S : refreshes[t].turn <= refreshes[s].turn

Spawn(S, records) ==
    /\ refreshes' = [s \in Refreshes |->
           IF s \in S THEN [records[s] EXCEPT !.pc = "run", !.superseded = (s # Last(S)),
                                             !.gone = (records[s].argv = "direct" /\ ~disk.there)]
           ELSE IF s = running THEN [refreshes[s] EXCEPT !.superseded = TRUE]
           ELSE refreshes[s]]
    /\ running' = Last(S)
    /\ front' = Max(S \union {front})
    /\ overtaken' = \/ overtaken
                    \/ \E s \in S : s < front
                    \/ \E s, t \in S : s < t /\ refreshes[s].turn >= refreshes[t].turn

(* The command is picked: the checker is asked its versions, once per command, then run;
   before `bazel run' the sources are sampled.  A probe whose answer was forgotten before it came
   still answers those who asked it. *)
Asking == {s \in Refreshes : refreshes[s].pc = "probe"}
Kept(argv) == {s \in Asking : refreshes[s].argv = argv /\ refreshes[s].kept}
Probe(r, argv) == IF Kept(argv) = {} THEN r ELSE refreshes[CHOOSE s \in Kept(argv) : TRUE].asked

Continue(r, argv) ==
    LET p == [refreshes[r] EXCEPT !.argv = argv, !.text = IF refreshes[r].pc = "root" THEN Text ELSE @,
                                  !.kept = TRUE, !.turn = 0]
        At(q, pc) == refreshes' = [refreshes EXCEPT ![r] = [q EXCEPT !.pc = pc]] /\ UNCHANGED runVars IN
    IF argv \notin probed
    THEN At([p EXCEPT !.asked = Probe(r, argv), !.turn = Cardinality(Kept(argv))], "probe")
    ELSE IF argv = "bazel" THEN At(p, "stamp")
    ELSE Spawn({r}, [s \in {r} |-> p])

(* The document's checkout is found: a version checked before is not checked again, else
   the text as it is now is checked, by the command picked before or one picked now (which
   takes a look at the sources if there is a binary to compare with them). *)
Rooted(r) ==
    LET p == refreshes[r] IN
    /\ p.pc = "root"
    /\ IF ~p.force /\ checked = p.version
       THEN Finish(r) /\ UNCHANGED << tool, build, runVars >>
       ELSE /\ build' = ensureChecker(tool)
            /\ \/ /\ tool.command # "undefined"
                  /\ Continue(r, tool.command)
                  /\ UNCHANGED tool
               \/ /\ tool.command = "undefined" /\ tool.binary # "built"
                  /\ tool' = [tool EXCEPT !.command = "bazel"]
                  /\ Continue(r, "bazel")
               \/ /\ tool.command = "undefined" /\ tool.binary = "built"
                  /\ refreshes' = [refreshes EXCEPT ![r] = [p EXCEPT !.pc = "pick", !.text = Text,
                                                                     !.against = tool.stamp]]
                  /\ UNCHANGED << tool, runVars >>
            /\ UNCHANGED << released, waiters >>
    /\ UNCHANGED << userVars, latest, pageVars, entry, disk, time, unseen, probed >>

(* The pick is kept only if nothing it was made from changed while it was made. *)
Picked(r) ==
    LET p == refreshes[r]
        argv == checkCommandFor(TRUE, p.against) IN
    /\ p.pc = "pick"
    /\ tool' = IF p.kept THEN [tool EXCEPT !.command = argv] ELSE tool
    /\ Continue(r, argv)
    /\ UNCHANGED << userVars, latest, pageVars, answerVars, build, disk, time, unseen, probed >>

(* A probe answers all who asked it.  Its answer is kept for the command, unless the sources
   changed since it was asked, or it could not run. *)
Probed(r) ==
    LET p == refreshes[r]
        S == {s \in Asking : refreshes[s].asked = p.asked} IN
    /\ p.pc = "probe"
    /\ \E keep \in {TRUE, "fail" \notin may} :
         probed' = IF keep /\ p.kept THEN probed \union {p.argv} ELSE probed
    /\ IF p.argv = "bazel"
       THEN /\ refreshes' = [s \in Refreshes |-> IF s \in S THEN [refreshes[s] EXCEPT !.pc = "stamp"]
                                                 ELSE refreshes[s]]
            /\ UNCHANGED runVars
       ELSE Spawn(S, refreshes)
    /\ UNCHANGED << userVars, latest, pageVars, answerVars, tool, build, disk, time, unseen >>

Stamped(r) ==
    /\ refreshes[r].pc = "stamp"
    /\ Spawn({r}, [s \in {r} |-> [refreshes[r] EXCEPT !.stamp = time]])
    /\ UNCHANGED << userVars, latest, pageVars, answerVars, toolVars >>

-----------------------------------------------------------------------------
(* The process is over. *)

Released(r) == running' = IF running = r THEN 0 ELSE running

(* (mutant: only a closed document has nothing to mark) *)
UnmarkedIfClosed(r) == ~IsOpen(r)
(* A document closed since, or one whose diagnostics are off, has nothing to mark. *)
Unmarked(r) == ~IsOpen(r) \/ ~on

(* A superseded run says nothing: its refresh resolves with the newest one. *)
EndSuperseded(r) ==
    /\ refreshes[r].pc = "run" /\ refreshes[r].superseded
    /\ Released(r)
    /\ IF Unmarked(r) \/ latest = 0
       THEN Finish(r)
       ELSE /\ refreshes' = [refreshes EXCEPT ![r].pc = "await", ![r].awaits = latest]
            /\ UNCHANGED << released, waiters >>
    /\ UNCHANGED << userVars, latest, pageVars, entry, toolVars, front, overtaken >>

Awaited(r) ==
    LET p == refreshes[r] IN
    /\ p.pc = "await" /\ ~InFlight(p.awaits)
    /\ Finish(r)
    /\ UNCHANGED << userVars, latest, runVars, pageVars, entry, toolVars >>

(* The checker failed: it would not start (a prebuilt one that is gone is forgotten, the
   next check rebuilds it), ran out of time or printed no answer.  The file is not marked. *)
EndFailed(r) ==
    LET p == refreshes[r]
        gone == p.gone IN
    /\ p.pc = "run" /\ ~p.superseded
    /\ gone \/ "fail" \in may
    /\ Released(r)
    /\ tool' = IF gone /\ tool.binary = "built" THEN Invalidated([tool EXCEPT !.binary = "unresolved"]) ELSE tool
    /\ LET left == IF tool' = tool THEN refreshes ELSE UnkeepPicks(refreshes) IN
       refreshes' = [left EXCEPT ![r] = Over]
    /\ IF IsOpen(r) THEN Release(p.version) ELSE UNCHANGED << released, waiters >>
    /\ IF Unmarked(r) THEN UNCHANGED << shown, status >>
       ELSE shown' = "none" /\ status' = "failed"
    /\ UNCHANGED << userVars, latest, front, overtaken, checked, entry, build, disk, time, unseen, probed >>

(* The checker answered for the text it was given; `bazel run' has brought the binary up to
   date with the sources sampled before it.  A version 1 checker, or one whose analysis
   failed, gives no answer. *)
EndFound(r) ==
    LET p == refreshes[r]
        rebuilt == p.argv = "bazel" IN
    /\ p.pc = "run" /\ ~p.superseded /\ ~p.gone
    /\ Released(r)
    /\ IF rebuilt THEN Built /\ tool' = Invalidated([tool EXCEPT !.stamp = Max({tool.stamp, p.stamp})])
       ELSE UNCHANGED << disk, tool >>
    /\ build' = IF rebuilt THEN ensureChecker(tool) ELSE build
    /\ LET left == IF rebuilt THEN UnkeepPicks(refreshes) ELSE refreshes IN
       refreshes' = [left EXCEPT ![r] = Over]
    /\ IF Unmarked(r) THEN UNCHANGED << pageVars, entry >>
       ELSE /\ checked' = p.version /\ shown' = p.text /\ status' = "ok"
            /\ \E answer \in {TRUE, "ask" \in may} :
                 entry' = [version |-> p.version, text |-> p.text, answer |-> answer]
    /\ IF IsOpen(r) THEN Release(p.version) ELSE UNCHANGED << released, waiters >>
    /\ UNCHANGED << userVars, latest, front, overtaken, time, unseen, probed >>

-----------------------------------------------------------------------------
(* What happens around it.  There must be room for the refresh a pending timer starts. *)

Room == Len(refreshes) + (IF timer THEN 1 ELSE 0) + (IF starting THEN 1 ELSE 0) < MaxRefreshes

Edit ==
    /\ "edit" \in may /\ doc.open /\ doc.version < Len(TextOf)
    /\ timer \/ Room
    /\ doc' = [doc EXCEPT !.version = @ + 1]
    /\ timer' = TRUE                                   \* scheduleRefresh
    /\ UNCHANGED << may, on, trusted, starting, refreshes, latest, runVars, pageVars, answerVars, toolVars >>

Debounced ==
    /\ timer
    /\ timer' = FALSE
    /\ UNCHANGED << may, doc, on, trusted, starting, build >>
    /\ refresh(FALSE)

(* A save, or the command that checks now. *)
Save ==
    /\ doc.open /\ Room
    /\ UNCHANGED << userVars, build >>
    /\ \/ "save" \in may /\ refresh(FALSE)
       \/ "check" \in may /\ refresh(TRUE)

Close ==                                               \* forget
    /\ "close" \in may /\ doc.open
    /\ doc' = [doc EXCEPT !.open = FALSE]
    /\ timer' = FALSE /\ checked' = 0 /\ shown' = "none" /\ latest' = 0
    /\ entry' = NoEntry /\ released' = 0 /\ waiters' = {}
    /\ UNCHANGED << may, on, trusted, starting, refreshes, runVars, status, toolVars >>

Open ==
    /\ ~doc.open /\ doc.life < MaxLives /\ Room
    /\ doc' = [open |-> TRUE, life |-> doc.life + 1, version |-> 1]
    /\ UNCHANGED << may, on, trusted, starting, timer, build >>
    /\ refresh(FALSE)

(* ipuAsm.diagnostics is switched: the open document is checked afresh, or cleared. *)
Switch ==
    /\ "switch" \in may /\ Room
    /\ on' = ~on
    /\ UNCHANGED << may, doc, trusted, starting, timer, build >>
    /\ IF doc.open THEN refresh(TRUE)
       ELSE UNCHANGED << refreshes, latest, runVars, pageVars, answerVars, tool, disk, time, unseen, probed >>

(* Trust is granted: start() again, and once the checkouts are known, build and check. *)
Grant ==
    /\ ~trusted /\ Room
    /\ trusted' = TRUE /\ starting' = TRUE
    /\ UNCHANGED << may, doc, on, timer, refreshes, latest, runVars, pageVars, answerVars, toolVars >>

Start ==
    /\ starting
    /\ starting' = FALSE
    /\ build' = ensureChecker(tool)
    /\ UNCHANGED << may, doc, on, trusted, timer >>
    /\ IF doc.open THEN refresh(FALSE)
       ELSE UNCHANGED << refreshes, latest, runVars, pageVars, answerVars, tool, disk, time, unseen, probed >>

ChangeSource ==
    /\ "source" \in may /\ time <= MaxTime
    /\ time' = time + 1 /\ unseen' = TRUE
    /\ UNCHANGED << userVars, refreshes, latest, runVars, pageVars, answerVars, tool, build, disk, probed >>

(* A watcher reports it: the command is picked again, and asked again what it speaks. *)
Watched ==
    /\ unseen
    /\ unseen' = FALSE /\ probed' = {}
    /\ tool' = Invalidated(tool)
    /\ refreshes' = [s \in Refreshes |-> IF refreshes[s].pc \in {"pick", "probe"}
                                         THEN [refreshes[s] EXCEPT !.kept = FALSE] ELSE refreshes[s]]
    /\ UNCHANGED << userVars, latest, runVars, pageVars, answerVars, build, disk, time >>

(* bazel clean *)
Clean ==
    /\ "clean" \in may /\ disk.there
    /\ disk' = [there |-> FALSE, time |-> 0]
    /\ UNCHANGED << userVars, refreshes, latest, runVars, pageVars, answerVars, tool, build, time, unseen, probed >>

Await(r) == \/ Rooted(r) \/ Picked(r) \/ Probed(r) \/ Stamped(r)
            \/ EndSuperseded(r) \/ Awaited(r) \/ EndFailed(r) \/ EndFound(r)

Next ==
    \/ SampleSources \/ Resolve
    \/ \E r \in Refreshes : Await(r)
    \/ Ask \/ Edit \/ Debounced \/ Save \/ Close \/ Open \/ Switch \/ Grant \/ Start
    \/ ChangeSource \/ Watched \/ Clean

Spec == Init /\ [][Next]_vars

(* Every await comes to an end (a process is stopped when its time is up), and a timer fires;
   nothing is assumed of the user. *)
FairSpec ==
    /\ Spec
    /\ \A r \in 1..MaxRefreshes : WF_vars(r \in Refreshes /\ Await(r))
    /\ WF_vars(Debounced) /\ WF_vars(Start) /\ WF_vars(Watched)
    /\ WF_vars(SampleSources) /\ WF_vars(Resolve)

-----------------------------------------------------------------------------
(* Properties. *)

Busy == timer \/ starting \/ \E r \in Refreshes : InFlight(r)

(* When nothing is left to run, the diagnostics on screen are those of the text on screen,
   whatever was edited, saved, closed, opened and switched meanwhile, unless the toolchain
   failed (and the status says so) or a refresh started its process after a newer one. *)
QuietIsCurrent ==
    ~Busy /\ doc.open /\ on /\ trusted /\ ~overtaken => shown = Text \/ status = "failed"

(* What is closed or switched off stays unmarked, though checks of it still run and end. *)
OffShowsNothing == ~doc.open \/ ~on => shown = "none" /\ entry = NoEntry

(* Whoever waits for a version's analysis waits for a refresh that has still to end. *)
WaitersAreServed == waiters # {} => Busy

(* The command kept between checks is the prebuilt checker only while it is as new as the
   sources whose changes were reported. *)
KeptCommandIsFresh ==
    tool.command = "direct" /\ disk.there /\ ~unseen => tool.binary = "built" /\ isFresh(tool.stamp)

(* A refresh resolves, with its own check or with the one that superseded it. *)
Resolves(r) == (r \in Refreshes /\ InFlight(r)) ~> (r \in Refreshes /\ ~InFlight(r))
RefreshResolves == \A r \in 1..MaxRefreshes : Resolves(r)

(* It does at least as long as no refresh starts its process after a newer one. *)
ResolvesInOrder ==
    \A r \in 1..MaxRefreshes :
        (r \in Refreshes /\ InFlight(r)) ~> (overtaken \/ (r \in Refreshes /\ ~InFlight(r)))

(* A check that failed is not recorded, so the same text is checked again once the toolchain is
   back: what is recorded as checked has its diagnostics on screen. *)
FailureIsNotRecorded == doc.open /\ checked = doc.version => shown # "none"
=============================================================================
