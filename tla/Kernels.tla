------------------------------ MODULE Kernels ------------------------------
(***************************************************************************)
(* The sidebar's kernel lists (vscode-ipu-asm/kernels.js): scans of the    *)
(* open folders, one at a time, keep one KernelIndex for the checkout they *)
(* stand for; an index loads its manifest with Bazel, one load at a time,  *)
(* again for a refresh asked meanwhile.  Folders are opened and closed,    *)
(* the checkout comes and goes with the branch, and its tree changes while *)
(* scans and loads wait.                                                   *)
(***************************************************************************)
EXTENDS Naturals, Sequences, FiniteSets

CONSTANTS
    Folders,      \* workspace folders that stand for the checkout
    MaxTree,      \* bound on the versions of the tree
    Broken,       \* the versions whose manifest does not load
    MaxIndexes,   \* bound on the indexes made
    MaxMoves      \* bound on folders opened or closed and checkouts made or unmade

VARIABLES
    open,         \* the workspace's folders
    there,        \* the checkout's package is there
    tree,         \* the version of what the manifest is made of
    trusted,      \* the workspace is trusted
    indexes,      \* every KernelIndex made, disposed ones included
    current,      \* the one in the map (0: none)
    scans,        \* the scans asked for: the first is running
    scan,         \* where it is, the folders it saw open, and those it has still to add
    rescanTimer,  \* scheduleRescan's timer is set
    events,       \* file events not reported yet
    moves,        \* counts folders and checkouts that came or went
    missed        \* history: a change was ignored, since no manifest had said where the kernels are

kvars == << open, there, tree, trusted, indexes, current, scans, scan, rescanTimer, events, moves, missed >>

NewIndex(folder) == [folder |-> folder, disposed |-> FALSE, manifest |-> 0, failed |-> FALSE,
                     kernelsRoot |-> FALSE, pc |-> "idle", read |-> 0, again |-> FALSE,
                     soon |-> TRUE, timer |-> FALSE]
NoScan == [pc |-> "no", saw |-> {}, left |-> {}]

Init ==
    /\ open \in (SUBSET Folders) \ {{}}
    /\ there \in BOOLEAN
    /\ trusted \in BOOLEAN
    /\ tree = 1
    /\ indexes = << >> /\ current = 0
    /\ scans = 1                          \* start() rescans
    /\ scan = NoScan
    /\ rescanTimer = FALSE
    /\ events = {} /\ moves = 0 /\ missed = FALSE

-----------------------------------------------------------------------------
(* One checkout's manifest. *)

(* (mutant: a refresh asked for while one runs is dropped) *)
RefreshedUnlessRunning(x, mayRun) ==
    IF x.disposed \/ x.pc # "idle" THEN x
    ELSE IF ~mayRun THEN [x EXCEPT !.manifest = 0, !.failed = TRUE]
    ELSE [x EXCEPT !.pc = "run", !.read = tree]

(* A refresh asked for while one runs is run once after it; an untrusted workspace lists nothing. *)
refreshed(x, mayRun) ==
    IF x.disposed THEN x
    ELSE IF x.pc # "idle" THEN [x EXCEPT !.again = TRUE]
    ELSE IF ~mayRun THEN [x EXCEPT !.manifest = 0, !.failed = TRUE]
    ELSE [x EXCEPT !.pc = "run", !.read = tree]

Refresh(i) ==
    LET x == indexes[i] IN
    /\ \/ x.soon /\ indexes' = [indexes EXCEPT ![i] = refreshed([x EXCEPT !.soon = FALSE], trusted)]
       \/ x.timer /\ indexes' = [indexes EXCEPT ![i] = refreshed([x EXCEPT !.timer = FALSE], trusted)]
    /\ UNCHANGED << open, there, tree, trusted, current, scans, scan, rescanTimer, events, moves, missed >>

(* A load is over: then the refresh asked for meanwhile. *)
Ended(x) == LET y == [x EXCEPT !.pc = "idle", !.again = FALSE] IN
            IF x.again THEN refreshed(y, trusted) ELSE y

(* The command is over: it saw the tree at some moment since it began.  If it failed there is no
   manifest, and the kernels root of the last one stays known. *)
Ran(i) ==
    LET x == indexes[i] IN
    /\ x.pc = "run"
    /\ \E seen \in x.read..tree :
         indexes' = [indexes EXCEPT ![i] =
             IF seen \in Broken THEN Ended([x EXCEPT !.manifest = 0, !.failed = TRUE])
             ELSE [x EXCEPT !.pc = "path", !.read = seen]]
    /\ UNCHANGED << open, there, tree, trusted, current, scans, scan, rescanTimer, events, moves, missed >>

(* The workspace's real path is known: the manifest is shown.  An index disposed meanwhile keeps
   nothing, and never loads again. *)
Load(i) ==
    LET x == indexes[i] IN
    /\ x.pc = "path"
    /\ indexes' = [indexes EXCEPT ![i] =
           IF x.disposed THEN [x EXCEPT !.pc = "left"]
           ELSE Ended([x EXCEPT !.manifest = x.read, !.failed = FALSE, !.kernelsRoot = TRUE])]
    /\ UNCHANGED << open, there, tree, trusted, current, scans, scan, rescanTimer, events, moves, missed >>

-----------------------------------------------------------------------------
(* Scans of the open folders. *)

Disposed(is, i) == [is EXCEPT ![i].disposed = TRUE, ![i].manifest = 0, ![i].timer = FALSE]

(* A scan looks at the index there is: one whose folder is closed goes at once. *)
BeginScan ==
    /\ scans > 0 /\ scan.pc = "no"
    /\ LET looks == current # 0 /\ indexes[current].folder \in open
           gone == current # 0 /\ indexes[current].folder \notin open IN
       /\ scan' = [pc |-> IF looks THEN "look" ELSE "add", saw |-> open, left |-> IF looks THEN {} ELSE open]
       /\ current' = IF gone THEN 0 ELSE current
       /\ indexes' = IF gone THEN Disposed(indexes, current) ELSE indexes
    /\ UNCHANGED << open, there, tree, trusted, scans, rescanTimer, events, moves, missed >>

(* Its checkout was looked up; then the folders open now are gone through. *)
Looked ==
    /\ scan.pc = "look"
    /\ scan' = [scan EXCEPT !.pc = "add", !.left = open]
    /\ current' = IF there THEN current ELSE 0
    /\ indexes' = IF there THEN indexes ELSE Disposed(indexes, current)
    /\ UNCHANGED << open, there, tree, trusted, scans, rescanTimer, events, moves, missed >>

(* A folder's checkouts were found: a new one gets an index, which loads soon. *)
AddFolder ==
    /\ scan.pc = "add"
    /\ \E f \in scan.left :
         /\ scan' = [scan EXCEPT !.left = @ \ {f}]
         /\ IF there /\ current = 0
            THEN /\ Len(indexes) < MaxIndexes
                 /\ indexes' = Append(indexes, NewIndex(f))
                 /\ current' = Len(indexes) + 1
            ELSE UNCHANGED << indexes, current >>
    /\ UNCHANGED << open, there, tree, trusted, scans, rescanTimer, events, moves, missed >>

EndScan ==
    /\ scan.pc = "add" /\ scan.left = {}
    /\ scan' = NoScan
    /\ scans' = scans - 1
    /\ UNCHANGED << open, there, tree, trusted, indexes, current, rescanTimer, events, moves, missed >>

-----------------------------------------------------------------------------
(* What happens around them. *)

(* A folder is opened or closed: rescan at once. *)
MoveFolder ==
    /\ moves < MaxMoves /\ moves' = moves + 1
    /\ \E f \in Folders : open' = IF f \in open THEN open \ {f} ELSE open \union {f}
    /\ scans' = scans + 1
    /\ UNCHANGED << there, tree, trusted, indexes, current, scan, rescanTimer, events, missed >>

(* Another version brings the package in or takes it away; its files' events come later. *)
Switch ==
    /\ moves < MaxMoves /\ moves' = moves + 1
    /\ there' = ~there
    /\ events' = events \union {"package"}
    /\ UNCHANGED << open, tree, trusted, indexes, current, scans, scan, rescanTimer, missed >>

(* Python under the kernels changes, or a build file. *)
ChangeTree ==
    /\ tree < MaxTree /\ tree' = tree + 1
    /\ \E kind \in {"python", "build"} : events' = events \union {kind}
    /\ UNCHANGED << open, there, trusted, indexes, current, scans, scan, rescanTimer, moves, missed >>

(* A watcher reports it: to the checkout's index if it affects it, and a build file's, or one
   that came or went, is a reason to scan again. *)
onFileChange(kind) ==
    LET affects == kind = "build" \/ (kind = "python" /\ indexes[current].kernelsRoot)
        told == current # 0 /\ affects IN
    /\ kind \in events
    /\ events' = events \ {kind}
    /\ indexes' = IF told THEN [indexes EXCEPT ![current].timer = TRUE] ELSE indexes
    /\ rescanTimer' = (rescanTimer \/ kind \in {"build", "package"})
    /\ missed' = (missed \/ (kind = "python" /\ current # 0 /\ ~told))
    /\ UNCHANGED << open, there, tree, trusted, current, scans, scan, moves >>

Rescan ==
    /\ rescanTimer
    /\ rescanTimer' = FALSE
    /\ scans' = scans + 1
    /\ UNCHANGED << open, there, tree, trusted, indexes, current, scan, events, moves, missed >>

(* The Refresh button, or trust granted. *)
RefreshAll(mayRun) ==
    /\ current # 0
    /\ indexes' = [indexes EXCEPT ![current] = refreshed(@, mayRun)]
    /\ UNCHANGED << open, there, tree, current, scans, scan, rescanTimer, events, moves, missed >>

refreshKernels == RefreshAll(trusted) /\ UNCHANGED trusted

Grant ==
    /\ ~trusted /\ trusted' = TRUE
    /\ \/ RefreshAll(TRUE)
       \/ /\ current = 0
          /\ UNCHANGED << open, there, tree, indexes, current, scans, scan, rescanTimer, events, moves, missed >>

Next ==
    \/ \E i \in DOMAIN indexes : Refresh(i) \/ Ran(i) \/ Load(i)
    \/ BeginScan \/ Looked \/ AddFolder \/ EndScan
    \/ MoveFolder \/ Switch \/ ChangeTree \/ Rescan \/ refreshKernels \/ Grant
    \/ \E kind \in {"python", "build", "package"} : onFileChange(kind)

Spec == Init /\ [][Next]_kvars

-----------------------------------------------------------------------------
Quiet ==
    /\ scans = 0 /\ ~rescanTimer /\ events = {}
    /\ \A i \in DOMAIN indexes : LET x == indexes[i] IN
         x.pc \in {"idle", "left"} /\ ~x.soon /\ ~x.timer

(* Two scans never add the same checkout: whatever was asked for while one waited, one index of
   the checkout lives, the one the commands find (kernels.js addFolders, rescan). *)
OneLiveIndex == {i \in DOMAIN indexes : ~indexes[i].disposed} \subseteq {current}

(* When every scan asked for is over, the sidebar lists the checkout exactly if an open folder
   still stands for it, under such a folder (rescan, addFolders). *)
ListsOpenCheckouts ==
    Quiet => IF there /\ open # {} THEN current # 0 /\ indexes[current].folder \in open ELSE current = 0

(* The latest tree wins: when nothing is left to run, the manifest is that of the tree as it is,
   though it changed while an older one loaded; or the reason it does not load (refresh). *)
ManifestIsLatest ==
    Quiet /\ current # 0 /\ trusted /\ ~missed =>
        indexes[current].manifest = IF tree \in Broken THEN 0 ELSE tree

(* A checkout that went while it loaded shows no manifest afterwards. *)
DisposedStaysEmpty == \A i \in DOMAIN indexes : indexes[i].disposed => indexes[i].manifest = 0
=============================================================================
