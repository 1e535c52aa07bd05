----------------------------- MODULE Languages -----------------------------
(***************************************************************************)
(* The editor's language data (vscode-ipu-asm/languages.js and             *)
(* language-source.js): each window answers with the bundled ISA until it  *)
(* has the checkout's, which is generated into a cache directory the       *)
(* windows of a machine share: the data is moved in, then its stamp is     *)
(* written, and nothing locks the two.  Versions of the sources stand for  *)
(* their newest modification time and for the data generated from them.    *)
(***************************************************************************)
EXTENDS Naturals

CONSTANTS
    Windows,       \* the windows that show the checkout
    MaxSources,    \* bound on the versions of the sources
    Newer,         \* the versions whose isa.json has a newer layout
    Mishaps        \* what may go wrong or change: subsets of {"fail", "setting", "trust"}

(* A checkout has sources, and they are versioned from 1. *)
LanguagesAssumption == MaxSources \in Nat \ {0}

VARIABLES
    sources,       \* the newest modification time of the sources
    cache,         \* the shared directory: isa.json and stamp.json (0: absent)
    load,          \* of each window: the load under way
    entry,         \* of each window: result, again, and whether the last load failed
    user,          \* of each window: trusted, the setting, and the checkout found
    unseen,        \* windows whose watcher has a change to report
    stale,         \* windows whose providers were told to ask again
    shown,         \* of each window: the data its providers answered with last
    crossed        \* history: older data was moved over newer data

lvars == << sources, cache, load, entry, user, unseen, stale, shown, crossed >>

NoLoad == [pc |-> "no", newest |-> 0, fresh |-> 0]
None == 0                  \* no result yet; and what the bundled data is shown as
NewerLayout == MaxSources + 1

Init ==
    /\ sources = 1
    /\ cache = [isa |-> 0, stamp |-> 0]
    /\ load = [w \in Windows |-> NoLoad]
    /\ entry = [w \in Windows |-> [result |-> None, again |-> TRUE, failed |-> FALSE]]
    /\ user = [w \in Windows |-> [trusted |-> "trust" \notin Mishaps, bundled |-> FALSE,
                                  root |-> "unknown"]]
    /\ unseen = {}
    /\ stale = Windows
    /\ shown = [w \in Windows |-> None]
    /\ crossed = FALSE

(* Which data a document uses: its checkout's, once loaded in a layout this extension reads. *)
select(w) ==
    LET result == entry[w].result IN
    IF ~user[w].bundled /\ user[w].root = "found" /\ user[w].trusted /\ result \notin {None, NewerLayout}
    THEN result ELSE None

MayLoad(w) == user[w].trusted /\ ~user[w].bundled

(* A provider asks: the checkout is looked up once, its data loads if it has none or its
   sources changed, and the data there is answers. *)
chosen(w) ==
    LET lookUp == MayLoad(w) /\ user[w].root = "unknown"
        ensure == MayLoad(w) /\ user[w].root = "found" /\ entry[w].again /\ load[w].pc = "no" IN
    /\ w \in stale
    /\ stale' = stale \ {w}
    /\ user' = IF lookUp THEN [user EXCEPT ![w].root = "looking"] ELSE user
    /\ entry' = IF ensure THEN [entry EXCEPT ![w].again = FALSE] ELSE entry
    /\ load' = IF ensure THEN [load EXCEPT ![w].pc = "walk"] ELSE load
    /\ shown' = [shown EXCEPT ![w] = select(w)]
    /\ UNCHANGED << sources, cache, unseen, crossed >>

LookedUp(w) ==
    /\ user[w].root = "looking"
    /\ user' = [user EXCEPT ![w].root = "found"]
    /\ stale' = stale \union {w}
    /\ UNCHANGED << sources, cache, load, entry, unseen, shown, crossed >>

(* The sources' newest time is sampled before the run: an edit made during it is not credited to it. *)
Walk(w) ==
    /\ load[w].pc = "walk"
    /\ load' = [load EXCEPT ![w].pc = "check", ![w].newest = sources]
    /\ UNCHANGED << sources, cache, entry, user, unseen, stale, shown, crossed >>

Check(w) ==
    /\ load[w].pc = "check"
    /\ load' = [load EXCEPT ![w].pc = IF cache.stamp < load[w].newest THEN "run" ELSE "read"]
    /\ UNCHANGED << sources, cache, entry, user, unseen, stale, shown, crossed >>

(* The generator reads the sources at some moment of its run. *)
Generate(w) ==
    /\ load[w].pc = "run"
    /\ \E read \in load[w].newest..sources :
         load' = [load EXCEPT ![w].pc = "move", ![w].fresh = read]
    /\ UNCHANGED << sources, cache, entry, user, unseen, stale, shown, crossed >>

Move(w) ==
    /\ load[w].pc = "move"
    /\ cache' = [cache EXCEPT !.isa = load[w].fresh]
    /\ crossed' = (crossed \/ load[w].fresh < cache.isa)
    /\ load' = [load EXCEPT ![w].pc = "stamp"]
    /\ UNCHANGED << sources, entry, user, unseen, stale, shown >>

WriteStamp(w) ==
    /\ load[w].pc = "stamp"
    /\ cache' = [cache EXCEPT !.stamp = load[w].newest]
    /\ load' = [load EXCEPT ![w].pc = "read"]
    /\ UNCHANGED << sources, entry, user, unseen, stale, shown, crossed >>

(* A load is over; its documents' language may have changed. *)
Loaded(w, result) ==
    /\ load' = [load EXCEPT ![w] = NoLoad]
    /\ entry' = [entry EXCEPT ![w].result = result, ![w].failed = FALSE]
    /\ stale' = stale \union {w}

Read(w) ==
    /\ load[w].pc = "read"
    /\ Loaded(w, IF cache.isa \in Newer THEN NewerLayout ELSE cache.isa)
    /\ UNCHANGED << sources, cache, user, unseen, shown, crossed >>

(* The generation failed: data loaded before is kept, the sources are mid-edit. *)
Fail(w) ==
    /\ "fail" \in Mishaps /\ load[w].pc = "run"
    /\ load' = [load EXCEPT ![w] = NoLoad]
    /\ entry' = [entry EXCEPT ![w].failed = TRUE,
                              ![w].result = IF @ = NewerLayout THEN None ELSE @]
    /\ stale' = stale \union {w}
    /\ UNCHANGED << sources, cache, user, unseen, shown, crossed >>

(* A source changed; each window's watcher reports it in its time.  It is a change that raises the newest mtime,
   the only one that the stamp can tell (newestSourceMtime): a deletion does not.                         *)
ChangeSource ==
    /\ sources < MaxSources
    /\ sources' = sources + 1
    /\ unseen' = Windows
    /\ UNCHANGED << cache, load, entry, user, stale, shown, crossed >>

(* (mutant: a change reported while a load is under way is taken to be in it) *)
InvalidateIdle(w) ==
    /\ w \in unseen
    /\ unseen' = unseen \ {w}
    /\ entry' = IF load[w].pc = "no" THEN [entry EXCEPT ![w].again = TRUE] ELSE entry
    /\ stale' = stale \union {w}
    /\ UNCHANGED << sources, cache, load, user, shown, crossed >>

invalidate(w) ==
    /\ w \in unseen
    /\ unseen' = unseen \ {w}
    /\ entry' = [entry EXCEPT ![w].again = TRUE]
    /\ stale' = stale \union {w}
    /\ UNCHANGED << sources, cache, load, user, shown, crossed >>

Grant(w) ==
    /\ ~user[w].trusted
    /\ user' = [user EXCEPT ![w].trusted = TRUE]
    /\ stale' = stale \union {w}
    /\ UNCHANGED << sources, cache, load, entry, unseen, shown, crossed >>

(* ipuAsm.languageSource is switched between "auto" and "bundled". *)
SetSource(w) ==
    /\ "setting" \in Mishaps
    /\ user' = [user EXCEPT ![w].bundled = ~@]
    /\ stale' = stale \union {w}
    /\ UNCHANGED << sources, cache, load, entry, unseen, shown, crossed >>

LoadStep(w) == \/ chosen(w) \/ LookedUp(w) \/ Walk(w) \/ Check(w) \/ Generate(w) \/ Move(w)
               \/ WriteStamp(w) \/ Read(w) \/ Fail(w) \/ invalidate(w)
Next == \/ \E w \in Windows : LoadStep(w) \/ Grant(w) \/ SetSource(w)
        \/ ChangeSource

Spec == Init /\ [][Next]_lvars

-----------------------------------------------------------------------------
Settled(w) == w \notin unseen \union stale /\ user[w].root # "looking" /\ load[w].pc = "no"

(* A window with nothing left to report, load or ask shows the data of the sources as they are
   now, though they changed while it loaded and another window shares its cache (language-source.js
   load, languages.js ensure); unless its load failed, their layout is newer, the window is
   untrusted or set to the bundled data, or older data was moved over newer data. *)
SettledIsCurrent ==
    \A w \in Windows : Settled(w) /\ ~crossed =>
        \/ shown[w] = (IF MayLoad(w) /\ sources \notin Newer THEN sources ELSE None)
        \/ entry[w].failed

(* The cached data is at least as new as its stamp says, whichever window wrote last; so a load
   that trusts the stamp reads no older data. *)
StampIsHonest == crossed \/ cache.stamp <= cache.isa

(* "fresh while every source is no newer than what the cached data was generated against". *)
CacheIsFresh == cache.stamp <= cache.isa
=============================================================================
