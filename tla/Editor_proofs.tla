---------------------------- MODULE Editor_proofs ----------------------------
(***************************************************************************)
(* The editor extension, for every set of windows, folders and buttons and *)
(* every bound: its answers are of the text, the sources and the folders   *)
(* as they are now.                                                        *)
(***************************************************************************)
EXTENDS MCEditor, FiniteSetTheorems, WellFoundedInduction, TLAPS

-----------------------------------------------------------------------------
(* Edits. *)

EditState ==
    [pc : {"no", "command", "probe", "run", "symbols", "check"}, version : Nat, text : Nat,
     first : {"none", "found", "error"}, second : {"none", "same", "worse", "error"}]

\* A format's text was read after it was asked for; a rename's is the one it was asked in, or
\* the rename is cancelled.
EditsInv ==
    /\ text_version \in Nat
    /\ text_format \in EditState /\ text_rename \in EditState
    /\ text_format.version <= text_version
    /\ text_format.pc \in {"probe", "run"} =>
         text_format.version <= text_format.text /\ text_format.text <= text_version
    /\ text_rename.pc # "no" =>
         /\ text_rename.text = text_rename.version
         /\ text_rename.version = text_version \/ "rename" \in text_cancelled
    /\ Texts!EditsFitTheText

\* No edit is under way at first.
LEMMA EditsInit == Texts!Init => EditsInv
  BY DEF Texts!Init, EditsInv, EditState, Texts!No, Texts!NoEdit, Texts!EditsFitTheText

\* What a format gives is for the text as it is, whichever rules made it.
LEMMA AnswerFits ==
  ASSUME EditsInv, NEW lines, Texts!Answer(lines), text_version' = text_version,
         \/ lines = Texts!NoEdit
         \/ /\ lines = [by |-> "assembler", spans |-> text_format.text, text |-> text_version]
            /\ text_format.pc \in {"probe", "run"}
  PROVE  text_format' = Texts!No /\ Texts!EditsFitTheText'
  BY DEF EditsInv, EditState, Texts!Answer, Texts!EndFormat, Texts!NoEdit, Texts!OwnRules,
     Texts!EditsFitTheText

\* Every request, read, answer and change of the text keeps an edit that is not over with its text.
LEMMA EditsStepKeeps == ASSUME EditsInv, [Texts!Next]_(Texts!evars) PROVE EditsInv'
  <1> USE DEF EditsInv
  <1>n. Texts!No \in EditState /\ Texts!No.pc = "no" /\ Texts!No.version = 0
    BY DEF Texts!No, EditState
  <1>1. CASE Texts!AskFormat
    <2>1. text_format' = [Texts!No EXCEPT !.pc = "command", !.version = text_version]
      BY <1>1 DEF Texts!AskFormat
    <2>2. text_format' \in EditState /\ text_format'.version = text_version /\ text_format'.pc = "command"
      BY <2>1 DEF Texts!No, EditState
    <2> QED  BY <1>1, <2>2 DEF Texts!AskFormat, Texts!NoEdit, Texts!EditsFitTheText
  <1>2. CASE Texts!Command
    <2>1. CASE Texts!Answer(Texts!NoEdit)
      BY <1>2, <2>1, <1>n, AnswerFits DEF Texts!Command
    <2>2. ASSUME NEW pc \in {"run", "probe"},
                 text_format' = [text_format EXCEPT !.pc = pc, !.text = text_version],
                 text_applied' = Texts!NoEdit
          PROVE  EditsInv'
      <3>1. /\ text_format' \in EditState /\ text_format'.text = text_version
            /\ text_format'.version = text_format.version
        BY <2>2 DEF EditState
      <3>2. text_format.version <= text_version
        BY <1>2 DEF Texts!Command
      <3> QED  BY <1>2, <2>2, <3>1, <3>2 DEF Texts!Command, Texts!NoEdit, Texts!EditsFitTheText, EditState
    <2> QED  BY <1>2, <2>1, <2>2 DEF Texts!Command
  <1>3. CASE Texts!Probed
    <2>1. CASE Texts!Answer(Texts!NoEdit)
      BY <1>3, <2>1, <1>n, AnswerFits DEF Texts!Probed
    <2>2. CASE text_format' = [text_format EXCEPT !.pc = "run"] /\ text_applied' = Texts!NoEdit
      BY <1>3, <2>2 DEF Texts!Probed, EditState, Texts!NoEdit, Texts!EditsFitTheText
    <2> QED  BY <1>3, <2>1, <2>2 DEF Texts!Probed
  <1>4. CASE Texts!Formatted
    <2>1. text_version' = text_version /\ text_rename' = text_rename /\ text_cancelled' = text_cancelled
      BY <1>4 DEF Texts!Formatted
    <2>2. text_format' = Texts!No /\ Texts!EditsFitTheText'
      <3>1. CASE Texts!Answer([by |-> "assembler", spans |-> text_format.text, text |-> text_version])
        BY <1>4, <2>1, <3>1, AnswerFits DEF Texts!Formatted
      <3>2. CASE Texts!Answer(Texts!NoEdit)
        BY <2>1, <3>2, AnswerFits
      <3>3. CASE Texts!EndFormat(IF text_version # text_format.version /\ "format" \notin text_cancelled
                                THEN Texts!OwnRules ELSE Texts!NoEdit)
        BY <3>3 DEF Texts!EndFormat, Texts!OwnRules, Texts!NoEdit, Texts!EditsFitTheText
      <3> QED  BY <1>4, <3>1, <3>2, <3>3 DEF Texts!Formatted
    <2> QED  BY <1>n, <2>1, <2>2
  <1>5. CASE Texts!AskRename
    <2>1. text_rename' = [Texts!No EXCEPT !.pc = "symbols", !.version = text_version, !.text = text_version]
      BY <1>5 DEF Texts!AskRename
    <2>2. text_rename' \in EditState /\ text_rename'.text = text_version /\ text_rename'.version =
            text_version
      BY <2>1 DEF Texts!No, EditState
    <2> QED  BY <1>5, <2>2 DEF Texts!AskRename, Texts!NoEdit, Texts!EditsFitTheText
  <1>6. CASE Texts!Symbols
    BY <1>6, <1>n DEF Texts!Symbols, Texts!NoEdit, EditState, Texts!EditsFitTheText
  <1>7. CASE Texts!CheckedOne
    BY <1>7 DEF Texts!CheckedOne, Texts!NoEdit, EditState, Texts!EditsFitTheText
  <1>8. CASE Texts!CheckedBoth
    BY <1>8, <1>n DEF Texts!CheckedBoth, Texts!NoEdit, Texts!EditsFitTheText
  <1>9. CASE Texts!Type
    BY <1>9 DEF Texts!Type, Texts!NoEdit, Texts!EditsFitTheText, EditState
  <1>10. CASE Texts!Cancel \/ Texts!Forget \/ Texts!Retry
    BY <1>10 DEF Texts!Cancel, Texts!Forget, Texts!Retry, Texts!NoEdit, Texts!EditsFitTheText
  <1>11. CASE UNCHANGED Texts!evars
    BY <1>11 DEF Texts!evars, Texts!EditsFitTheText, EditState
  <1> QED  BY <1>1, <1>2, <1>3, <1>4, <1>5, <1>6, <1>7, <1>8, <1>9, <1>10, <1>11 DEF Texts!Next

\* A format or a rename the editor applies is of the text it replaces: a format reads the text after
\* its command was found, a rename is cancelled by any change since it was asked for, and an answer for
\* another version is dropped (formatting.js, rename.js).
THEOREM EditsFit == Texts!Spec => []Texts!EditsFitTheText
  <1>1. EditsInv => Texts!EditsFitTheText
    BY DEF EditsInv
  <1> QED  BY EditsInit, EditsStepKeeps, <1>1, PTL DEF Texts!Spec

-----------------------------------------------------------------------------
(* The language data. *)

LoadState ==
    [pc : {"no", "walk", "check", "run", "move", "stamp", "read"}, newest : Nat, fresh : Nat]
EntryState == [result : Nat, again : BOOLEAN, failed : BOOLEAN]
UserState == [trusted : BOOLEAN, bundled : BOOLEAN, root : {"unknown", "looking", "found"}]

DataTypes ==
    /\ data_sources \in 1..MaxSources
    /\ data_cache \in [isa : Nat, stamp : Nat]
    /\ data_load \in [Windows -> LoadState]
    /\ data_entry \in [Windows -> EntryState]
    /\ data_user \in [Windows -> UserState]
    /\ data_crossed \in BOOLEAN
    /\ data_shown \in [Windows -> Nat]

\* What is generated is at least as new as the sources sampled before it; so is what is in the
\* cache, as long as no older data was moved over newer data.
GeneratedIsNoOlder ==
    /\ data_cache.isa <= data_sources
    /\ ~data_crossed => data_cache.stamp <= data_cache.isa
    /\ \A w \in Windows : LET l == data_load[w] IN
         /\ l.newest <= data_sources
         /\ l.pc = "move" => l.newest <= l.fresh /\ l.fresh <= data_sources
         /\ l.pc = "stamp" /\ ~data_crossed => l.newest <= data_cache.isa

LoadedFrom(n) == IF n \in Newer THEN Data!NewerLayout ELSE n

\* A window that was told of no change since its load began loads, and has, what is there now.
OfNow(w) ==
    ~data_entry[w].again /\ w \notin data_unseen /\ ~data_crossed =>
        LET l == data_load[w] IN
        /\ l.pc \in {"check", "run", "move"} => l.newest = data_sources
        /\ l.pc = "move" => l.fresh = data_sources
        /\ l.pc \in {"stamp", "read"} => data_cache.isa = data_sources
        /\ l.pc = "no" /\ ~data_entry[w].failed => data_entry[w].result = LoadedFrom(data_sources)
LoadsAreOfNow == \A w \in Windows : OfNow(w)

\* Providers that have nothing to ask again show what is chosen now, and have begun the load it needs.
ShownNow(w) ==
    w \notin data_stale =>
        /\ data_shown[w] = Data!select(w)
        /\ Data!MayLoad(w) =>
             /\ data_user[w].root # "unknown"
             /\ data_user[w].root = "found" /\ data_load[w].pc = "no" => ~data_entry[w].again
ShownIsChosen == \A w \in Windows : ShownNow(w)

DataInv == DataTypes /\ GeneratedIsNoOlder /\ LoadsAreOfNow /\ ShownIsChosen

\* A window starts with nothing loaded and shows the bundled data.
LEMMA DataInit == Data!Init => DataInv
  <1> SUFFICES ASSUME Data!Init PROVE DataInv
    OBVIOUS
  <1>1. DataTypes
    <2>1. data_load \in [Windows -> LoadState] /\ data_entry \in [Windows -> EntryState]
      BY DEF Data!Init, Data!NoLoad, Data!None, LoadState, EntryState
    <2>2. ("trust" \notin Mishaps) \in BOOLEAN
      OBVIOUS
    <2>3. data_user \in [Windows -> UserState]
      BY <2>2, Zenon DEF Data!Init, UserState
    <2>4. data_sources \in 1..MaxSources
      BY EditorAssumption DEF Data!Init, Data!LanguagesAssumption
    <2>5. data_cache \in [isa : Nat, stamp : Nat]
      BY DEF Data!Init
    <2>6. data_crossed \in BOOLEAN
      BY DEF Data!Init
    <2>7. data_shown \in [Windows -> Nat]
      BY DEF Data!Init, Data!None
    <2> QED  BY <2>1, <2>3, <2>4, <2>5, <2>6, <2>7 DEF DataTypes
  <1>2. GeneratedIsNoOlder
    BY DEF Data!Init, Data!NoLoad, GeneratedIsNoOlder
  <1>3. LoadsAreOfNow /\ ShownIsChosen
    BY DEF Data!Init, LoadsAreOfNow, OfNow, ShownIsChosen, ShownNow
  <1> QED  BY <1>1, <1>2, <1>3 DEF DataInv

\* Every step keeps the shape of the loads, the entries and what the users chose.
LEMMA DataTypesKept == ASSUME DataTypes, [Data!Next]_(Data!lvars) PROVE DataTypes'
  <1> USE DEF DataTypes
  <1>1. ASSUME NEW w \in Windows, Data!chosen(w) PROVE DataTypes'
    <2>1. data_load' \in [Windows -> LoadState]
      BY <1>1 DEF Data!chosen, LoadState
    <2>2. data_entry' \in [Windows -> EntryState]
      BY <1>1 DEF Data!chosen, EntryState
    <2>3. data_user' \in [Windows -> UserState]
      BY <1>1 DEF Data!chosen, UserState
    <2>4. data_shown' \in [Windows -> Nat]
      <3>1. Data!select(w) \in Nat
        BY DEF Data!select, Data!None, EntryState
      <3>2. data_shown' = [data_shown EXCEPT ![w] = Data!select(w)]
        BY <1>1 DEF Data!chosen
      <3> QED  BY <3>1, <3>2
    <2> QED  BY <1>1, <2>1, <2>2, <2>3, <2>4 DEF Data!chosen
  <1>2. ASSUME NEW w \in Windows, Data!LookedUp(w) \/ Data!Grant(w) \/ Data!SetSource(w) PROVE DataTypes'
    <2>1. data_user' \in [Windows -> UserState]
      <3>1. CASE Data!LookedUp(w)
        BY <3>1 DEF Data!LookedUp, UserState
      <3>3. CASE Data!Grant(w)
        BY <3>3 DEF Data!Grant, UserState
      <3>2. CASE Data!SetSource(w)
        <4>1. PICK b \in BOOLEAN : data_user' = [data_user EXCEPT ![w].bundled = b]
          BY <3>2 DEF Data!SetSource
        <4> QED  BY <4>1 DEF UserState
      <3> QED  BY <1>2, <3>1, <3>2, <3>3
    <2> QED  BY <1>2, <2>1 DEF Data!LookedUp, Data!Grant, Data!SetSource
  <1>3. ASSUME NEW w \in Windows, Data!Walk(w) \/ Data!Check(w) PROVE DataTypes'
    <2>1. data_load' \in [Windows -> LoadState]
      BY <1>3 DEF Data!Walk, Data!Check, LoadState
    <2> QED  BY <1>3, <2>1 DEF Data!Walk, Data!Check
  <1>4. ASSUME NEW w \in Windows, Data!Generate(w) PROVE DataTypes'
    <2>1. PICK read \in data_load[w].newest..data_sources :
            data_load' = [data_load EXCEPT ![w].pc = "move", ![w].fresh = read]
      BY <1>4 DEF Data!Generate
    <2>2. read \in Nat
      BY DEF LoadState
    <2>3. data_load' \in [Windows -> LoadState]
      BY <2>1, <2>2 DEF LoadState
    <2> QED  BY <1>4, <2>3 DEF Data!Generate
  <1>5. ASSUME NEW w \in Windows, Data!Move(w) \/ Data!WriteStamp(w) PROVE DataTypes'
    <2>1. data_load' \in [Windows -> LoadState]
      BY <1>5 DEF Data!Move, Data!WriteStamp, LoadState
    <2>2. data_cache' \in [isa : Nat, stamp : Nat]
      BY <1>5 DEF Data!Move, Data!WriteStamp, LoadState
    <2> QED  BY <1>5, <2>1, <2>2 DEF Data!Move, Data!WriteStamp
  <1>6. ASSUME NEW w \in Windows, Data!Read(w) \/ Data!Fail(w) PROVE DataTypes'
    <2>1. data_load' = [data_load EXCEPT ![w] = Data!NoLoad]
      BY <1>6 DEF Data!Read, Data!Loaded, Data!Fail
    <2>2. data_load' \in [Windows -> LoadState]
      BY <2>1 DEF LoadState, Data!NoLoad
    <2>3. Data!NewerLayout \in Nat /\ Data!None \in Nat
      BY EditorAssumption DEF Data!NewerLayout, Data!None, Data!LanguagesAssumption
    <2>4. data_entry' \in [Windows -> EntryState]
      <3>1. ASSUME NEW n \in Nat, NEW b \in BOOLEAN,
                   data_entry' = [data_entry EXCEPT ![w].result = n, ![w].failed = b]
            PROVE  data_entry' \in [Windows -> EntryState]
        BY <3>1 DEF EntryState
      <3>2. CASE Data!Read(w)
        BY <2>3, <3>1, <3>2 DEF Data!Read, Data!Loaded
      <3>3. CASE Data!Fail(w)
        <4>1. data_entry[w].result \in Nat
          BY DEF EntryState
        <4>2. data_entry' = [data_entry EXCEPT ![w].result = IF data_entry[w].result =
                Data!NewerLayout THEN Data!None ELSE data_entry[w].result,
                                               ![w].failed = TRUE]
          BY <3>3 DEF Data!Fail
        <4> QED  BY <2>3, <3>1, <4>1, <4>2
      <3> QED  BY <1>6, <3>2, <3>3
    <2> QED  BY <1>6, <2>2, <2>4 DEF Data!Read, Data!Fail
  <1>7. ASSUME NEW w \in Windows, Data!invalidate(w) PROVE DataTypes'
    <2>1. data_entry' \in [Windows -> EntryState]
      BY <1>7 DEF Data!invalidate, EntryState
    <2> QED  BY <1>7, <2>1 DEF Data!invalidate
  <1>8. CASE Data!ChangeSource
    <2>1. data_sources' \in 1..MaxSources
      BY <1>8, EditorAssumption DEF Data!ChangeSource, Data!LanguagesAssumption
    <2> QED  BY <1>8, <2>1 DEF Data!ChangeSource
  <1>9. CASE UNCHANGED Data!lvars
    BY <1>9 DEF Data!lvars
  <1> QED  BY <1>1, <1>2, <1>3, <1>4, <1>5, <1>6, <1>7, <1>8, <1>9 DEF Data!Next, Data!LoadStep

\* A load's step is one of one window's, and the others' loads are as they were.
LEMMA NoOlderKept == ASSUME DataTypes, GeneratedIsNoOlder, [Data!Next]_(Data!lvars)
  PROVE GeneratedIsNoOlder'
  <1>1. /\ \A w \in Windows : data_load[w] \in LoadState
        /\ data_sources \in Nat /\ data_cache.isa \in Nat /\ data_cache.stamp \in Nat
        /\ data_load \in [Windows -> LoadState] /\ data_cache \in [isa : Nat, stamp : Nat]
    BY DEF DataTypes
  <1>2. ASSUME data_sources' = data_sources, data_cache' = data_cache, data_crossed' = data_crossed,
               NEW w \in Windows, NEW l \in LoadState, data_load' = [data_load EXCEPT ![w] = l],
               l.newest <= data_sources,
               l.pc = "move" => l.newest <= l.fresh /\ l.fresh <= data_sources,
               l.pc # "stamp"
        PROVE  GeneratedIsNoOlder'
    BY <1>1, <1>2 DEF GeneratedIsNoOlder
  <1>3. ASSUME data_sources' = data_sources, data_cache' = data_cache, data_crossed' = data_crossed,
               data_load' = data_load
        PROVE  GeneratedIsNoOlder'
    BY <1>3 DEF GeneratedIsNoOlder
  <1>4. ASSUME NEW w \in Windows, Data!chosen(w) PROVE GeneratedIsNoOlder'
    <2>1. CASE data_load' = [data_load EXCEPT ![w].pc = "walk"]
      <3>1. data_load' = [data_load EXCEPT ![w] = [data_load[w] EXCEPT !.pc = "walk"]]
        BY <2>1
      <3> QED  BY <1>1, <1>2, <1>4, <3>1 DEF Data!chosen, LoadState, GeneratedIsNoOlder
    <2> QED  BY <1>3, <1>4, <2>1 DEF Data!chosen
  <1>5. ASSUME NEW w \in Windows, Data!Walk(w) PROVE GeneratedIsNoOlder'
    <2>1. data_load' = [data_load EXCEPT ![w] = [data_load[w] EXCEPT !.pc = "check", !.newest =
            data_sources]]
      BY <1>5 DEF Data!Walk
    <2> DEFINE l == [data_load[w] EXCEPT !.pc = "check", !.newest = data_sources]
    <2>2. /\ l \in LoadState
          /\ l.newest = data_sources /\ l.newest <= data_sources
          /\ l.pc = "check"
      <3>1. data_load[w] \in LoadState /\ data_sources \in Nat
        BY <1>1
      <3>2. l \in LoadState
        BY <3>1 DEF LoadState
      <3>3. l.newest = data_sources /\ l.pc = "check"
        BY <3>1 DEF LoadState
      <3> QED  BY <3>1, <3>2, <3>3
    <2>3. data_sources' = data_sources /\ data_cache' = data_cache /\ data_crossed' = data_crossed
      BY <1>5 DEF Data!Walk
    <2> HIDE DEF l
    <2> QED  BY <1>2, <2>1, <2>2, <2>3 DEF l
  <1>6. ASSUME NEW w \in Windows, Data!Check(w) PROVE GeneratedIsNoOlder'
    <2>1. PICK pc \in {"run", "read"} :
                 data_load' = [data_load EXCEPT ![w] = [data_load[w] EXCEPT !.pc = pc]]
      BY <1>6 DEF Data!Check
    <2>2. /\ [data_load[w] EXCEPT !.pc = pc] \in LoadState
          /\ [data_load[w] EXCEPT !.pc = pc].newest = data_load[w].newest
          /\ [data_load[w] EXCEPT !.pc = pc].pc = pc
          /\ data_load[w].newest <= data_sources
      BY <1>1 DEF LoadState, GeneratedIsNoOlder
    <2> QED  BY <1>2, <1>6, <2>1, <2>2 DEF Data!Check
  <1>7. ASSUME NEW w \in Windows, Data!Generate(w) PROVE GeneratedIsNoOlder'
    <2>1. PICK read \in data_load[w].newest..data_sources :
            data_load' = [data_load EXCEPT ![w] = [data_load[w] EXCEPT !.pc = "move", !.fresh = read]]
      BY <1>7 DEF Data!Generate
    <2>2. read \in Nat /\ data_load[w].newest <= read /\ read <= data_sources
      BY <1>1 DEF LoadState
    <2>3. /\ [data_load[w] EXCEPT !.pc = "move", !.fresh = read] \in LoadState
          /\ [data_load[w] EXCEPT !.pc = "move", !.fresh = read].newest = data_load[w].newest
          /\ [data_load[w] EXCEPT !.pc = "move", !.fresh = read].pc = "move"
          /\ [data_load[w] EXCEPT !.pc = "move", !.fresh = read].fresh = read
          /\ data_load[w].newest <= data_sources
      BY <1>1, <2>2 DEF LoadState, GeneratedIsNoOlder
    <2> QED  BY <1>2, <1>7, <2>1, <2>2, <2>3 DEF Data!Generate
  <1>8. ASSUME NEW w \in Windows, Data!Move(w) PROVE GeneratedIsNoOlder'
    <2>1. /\ data_load[w].pc = "move" /\ data_sources' = data_sources
          /\ data_cache' = [data_cache EXCEPT !.isa = data_load[w].fresh]
          /\ data_crossed' = (data_crossed \/ data_load[w].fresh < data_cache.isa)
          /\ data_load' = [data_load EXCEPT ![w].pc = "stamp"]
      BY <1>8 DEF Data!Move
    <2>2. /\ data_cache'.isa = data_load[w].fresh /\ data_cache'.stamp = data_cache.stamp
          /\ data_load[w].newest <= data_load[w].fresh /\ data_load[w].fresh <= data_sources
          /\ data_load[w].fresh \in Nat
      BY <1>1, <2>1 DEF GeneratedIsNoOlder, LoadState
    <2>3. ~data_crossed' => ~data_crossed /\ data_cache.isa <= data_load[w].fresh
      <3>1. ~data_crossed' => ~data_crossed /\ ~(data_load[w].fresh < data_cache.isa)
        BY <2>1, Zenon
      <3> QED  BY <1>1, <2>2, <3>1
    <2>4. data_cache'.isa <= data_sources' /\ (~data_crossed' => data_cache'.stamp <= data_cache'.isa)
      BY <1>1, <2>1, <2>2, <2>3 DEF GeneratedIsNoOlder
    <2>5. ASSUME NEW v \in Windows
          PROVE  LET l == data_load'[v] IN
                 /\ l.newest <= data_sources'
                 /\ l.pc = "move" => l.newest <= l.fresh /\ l.fresh <= data_sources'
                 /\ l.pc = "stamp" /\ ~data_crossed' => l.newest <= data_cache'.isa
      <3>1. CASE v = w
        BY <1>1, <2>1, <2>2, <3>1 DEF GeneratedIsNoOlder, LoadState
      <3>2. CASE v # w
        BY <1>1, <2>1, <2>2, <2>3, <3>2 DEF GeneratedIsNoOlder, LoadState
      <3> QED  BY <3>1, <3>2
    <2> QED  BY <2>4, <2>5 DEF GeneratedIsNoOlder
  <1>9. ASSUME NEW w \in Windows, Data!WriteStamp(w) PROVE GeneratedIsNoOlder'
    <2>1. /\ data_load[w].pc = "stamp" /\ data_sources' = data_sources /\ data_crossed' = data_crossed
          /\ data_cache' = [data_cache EXCEPT !.stamp = data_load[w].newest]
          /\ data_load' = [data_load EXCEPT ![w].pc = "read"]
      BY <1>9 DEF Data!WriteStamp
    <2> QED  BY <1>1, <2>1 DEF GeneratedIsNoOlder, LoadState
  <1>10. ASSUME NEW w \in Windows, Data!Read(w) \/ Data!Fail(w) PROVE GeneratedIsNoOlder'
    <2>1. data_load' = [data_load EXCEPT ![w] = Data!NoLoad]
      BY <1>10 DEF Data!Read, Data!Loaded, Data!Fail
    <2>2. Data!NoLoad \in LoadState /\ Data!NoLoad.pc = "no" /\ Data!NoLoad.newest <= data_sources
      BY <1>1 DEF LoadState, Data!NoLoad
    <2> QED  BY <1>2, <1>10, <2>1, <2>2 DEF Data!Read, Data!Fail
  <1>11. ASSUME NEW w \in Windows, Data!LookedUp(w) \/ Data!Grant(w) \/ Data!SetSource(w) \/ Data!invalidate(w)
         PROVE  GeneratedIsNoOlder'
    BY <1>3, <1>11 DEF Data!LookedUp, Data!Grant, Data!SetSource, Data!invalidate
  <1>12. CASE Data!ChangeSource
    BY <1>1, <1>12 DEF Data!ChangeSource, GeneratedIsNoOlder, LoadState
  <1>13. CASE UNCHANGED Data!lvars
    BY <1>3, <1>13 DEF Data!lvars
  <1> QED  BY <1>4, <1>5, <1>6, <1>7, <1>8, <1>9, <1>10, <1>11, <1>12, <1>13 DEF Data!Next, Data!LoadStep

\* A step of one window's load leaves what is known of the others'.
LEMMA OfNowKept ==
  ASSUME DataTypes, GeneratedIsNoOlder, LoadsAreOfNow, NEW w \in Windows,
         data_sources' = data_sources, data_crossed' = data_crossed, data_cache'.isa = data_cache.isa,
         \A v \in Windows \ {w} :
            /\ data_load'[v] = data_load[v] /\ data_entry'[v] = data_entry[v]
            /\ v \in data_unseen => v \in data_unseen',
         OfNow(w)'
  PROVE  LoadsAreOfNow'
  <1> SUFFICES ASSUME NEW v \in Windows PROVE OfNow(v)'
    BY DEF LoadsAreOfNow
  <1>1. CASE v = w
    BY <1>1
  <1>2. CASE v # w
    <2>1. OfNow(v)
      BY DEF LoadsAreOfNow
    <2>2. v \in Windows \ {w}
      BY <1>2
    <2>3. data_load'[v] = data_load[v] /\ data_entry'[v] = data_entry[v]
      BY <2>2
    <2>4. v \notin data_unseen' => v \notin data_unseen
      BY <2>2
    <2>5. LoadedFrom(data_sources)' = LoadedFrom(data_sources)
      BY DEF LoadedFrom
    <2> QED  BY <2>1, <2>3, <2>4, <2>5 DEF OfNow
  <1> QED  BY <1>1, <1>2

\* A load that no change of the sources was reported during stays a load of the sources as they are.
LEMMA LoadsKept ==
  ASSUME DataTypes, GeneratedIsNoOlder, LoadsAreOfNow, [Data!Next]_(Data!lvars) PROVE LoadsAreOfNow'
  <1>1. /\ data_load \in [Windows -> LoadState] /\ data_entry \in [Windows -> EntryState]
        /\ \A w \in Windows : data_load[w] \in LoadState /\ data_entry[w] \in EntryState
        /\ data_sources \in Nat /\ data_cache.isa \in Nat /\ data_cache.stamp \in Nat
        /\ data_cache \in [isa : Nat, stamp : Nat] /\ data_crossed \in BOOLEAN
    BY DEF DataTypes
  <1>2. \A w \in Windows : OfNow(w)
    BY DEF LoadsAreOfNow
  <1>3. ASSUME UNCHANGED << data_sources, data_crossed, data_cache, data_load, data_entry, data_unseen >>
        PROVE  LoadsAreOfNow'
    BY <1>3 DEF LoadsAreOfNow, OfNow, LoadedFrom
  <1>4. ASSUME NEW w \in Windows, Data!chosen(w) PROVE LoadsAreOfNow'
    <2>1. CASE /\ data_load' = [data_load EXCEPT ![w].pc = "walk"]
               /\ data_entry' = [data_entry EXCEPT ![w].again = FALSE]
      <3>1. data_load'[w].pc = "walk"
        BY <1>1, <2>1 DEF LoadState
      <3>2. OfNow(w)'
        BY <3>1 DEF OfNow
      <3> QED  BY <1>1, <1>4, <2>1, <3>2, OfNowKept DEF Data!chosen
    <2> QED  BY <1>3, <1>4, <2>1 DEF Data!chosen
  <1>5. ASSUME NEW w \in Windows, Data!Walk(w) PROVE LoadsAreOfNow'
    <2>1. data_load' = [data_load EXCEPT ![w] = [data_load[w] EXCEPT !.pc = "check", !.newest =
            data_sources]]
      BY <1>5 DEF Data!Walk
    <2>2. data_load'[w].pc = "check" /\ data_load'[w].newest = data_sources
      BY <1>1, <2>1 DEF LoadState
    <2>3. OfNow(w)'
      BY <1>5, <2>2 DEF OfNow, Data!Walk
    <2> QED  BY <1>1, <1>5, <2>1, <2>3, OfNowKept DEF Data!Walk
  <1>6. ASSUME NEW w \in Windows, Data!Check(w) PROVE LoadsAreOfNow'
    <2>1. PICK pc \in {"run", "read"} :
             /\ data_load' = [data_load EXCEPT ![w] = [data_load[w] EXCEPT !.pc = pc]]
             /\ pc = "read" => ~(data_cache.stamp < data_load[w].newest)
      BY <1>6 DEF Data!Check
    <2>2. data_load'[w].pc = pc /\ data_load'[w].newest = data_load[w].newest
      BY <1>1, <2>1 DEF LoadState
    <2>3. ASSUME ~data_entry[w].again, w \notin data_unseen, ~data_crossed
          PROVE  data_load[w].newest = data_sources /\ (pc = "read" => data_cache.isa = data_sources)
      <3>1. data_load[w].newest = data_sources
        BY <1>2, <1>6, <2>3 DEF OfNow, Data!Check
      <3>2. data_cache.stamp <= data_cache.isa /\ data_cache.isa <= data_sources
        BY <2>3 DEF GeneratedIsNoOlder
      <3> QED  BY <1>1, <2>1, <3>1, <3>2
    <2>4. OfNow(w)'
      BY <1>6, <2>2, <2>3 DEF OfNow, Data!Check
    <2> QED  BY <1>1, <1>6, <2>1, <2>4, OfNowKept DEF Data!Check
  <1>7. ASSUME NEW w \in Windows, Data!Generate(w) PROVE LoadsAreOfNow'
    <2>1. PICK read \in data_load[w].newest..data_sources :
            data_load' = [data_load EXCEPT ![w] = [data_load[w] EXCEPT !.pc = "move", !.fresh = read]]
      BY <1>7 DEF Data!Generate
    <2>2. /\ data_load'[w].pc = "move" /\ data_load'[w].newest = data_load[w].newest
          /\ data_load'[w].fresh = read
      BY <1>1, <2>1 DEF LoadState
    <2>3. ASSUME ~data_entry[w].again, w \notin data_unseen, ~data_crossed
          PROVE  data_load[w].newest = data_sources /\ read = data_sources
      <3>1. data_load[w].newest = data_sources
        BY <1>2, <1>7, <2>3 DEF OfNow, Data!Generate
      <3> QED  BY <1>1, <3>1
    <2>4. OfNow(w)'
      BY <1>7, <2>2, <2>3 DEF OfNow, Data!Generate
    <2> QED  BY <1>1, <1>7, <2>1, <2>4, OfNowKept DEF Data!Generate
  <1>8. ASSUME NEW w \in Windows, Data!Move(w) PROVE LoadsAreOfNow'
    <2>1. /\ data_load[w].pc = "move" /\ data_sources' = data_sources
          /\ data_cache' = [data_cache EXCEPT !.isa = data_load[w].fresh]
          /\ data_crossed' = (data_crossed \/ data_load[w].fresh < data_cache.isa)
          /\ data_load' = [data_load EXCEPT ![w].pc = "stamp"]
          /\ data_entry' = data_entry /\ data_unseen' = data_unseen
      BY <1>8 DEF Data!Move
    <2>2. /\ data_cache'.isa = data_load[w].fresh /\ data_load[w].fresh <= data_sources
          /\ data_load[w].fresh \in Nat /\ data_load'[w].pc = "stamp"
      BY <1>1, <2>1 DEF GeneratedIsNoOlder, LoadState
    <2>3. ~data_crossed' => ~data_crossed /\ data_cache.isa <= data_load[w].fresh
      <3>1. ~data_crossed' => ~data_crossed /\ ~(data_load[w].fresh < data_cache.isa)
        BY <2>1, Zenon
      <3> QED  BY <1>1, <2>2, <3>1
    <2>4. OfNow(w)'
      <3>1. ASSUME ~data_entry[w].again, w \notin data_unseen, ~data_crossed'
            PROVE  data_load[w].fresh = data_sources
        BY <1>2, <2>1, <2>3, <3>1 DEF OfNow
      <3> QED  BY <2>1, <2>2, <3>1 DEF OfNow
    <2>5. ASSUME NEW v \in Windows, v # w PROVE OfNow(v)'
      <3>1. data_load'[v] = data_load[v]
        BY <1>1, <2>1, <2>5
      <3>2. ~data_crossed' /\ data_cache.isa = data_sources => data_cache'.isa = data_sources
        BY <1>1, <2>2, <2>3
      <3>3. ~data_crossed' => ~data_crossed
        BY <2>3
      <3> QED  BY <1>2, <2>1, <3>1, <3>2, <3>3 DEF OfNow
    <2> QED  BY <2>4, <2>5 DEF LoadsAreOfNow
  <1>9. ASSUME NEW w \in Windows, Data!WriteStamp(w) PROVE LoadsAreOfNow'
    <2>1. /\ data_load[w].pc = "stamp" /\ data_load' = [data_load EXCEPT ![w].pc = "read"]
          /\ data_cache' = [data_cache EXCEPT !.stamp = data_load[w].newest]
      BY <1>9 DEF Data!WriteStamp
    <2>2. data_load'[w].pc = "read" /\ data_cache'.isa = data_cache.isa
      BY <1>1, <2>1 DEF LoadState
    <2>3. OfNow(w)'
      BY <1>2, <1>9, <2>1, <2>2 DEF OfNow, Data!WriteStamp
    <2> QED  BY <1>1, <1>9, <2>1, <2>2, <2>3, OfNowKept DEF Data!WriteStamp
  <1>10. ASSUME NEW w \in Windows, Data!Read(w) PROVE LoadsAreOfNow'
    <2>1. /\ data_load' = [data_load EXCEPT ![w] = Data!NoLoad]
          /\ data_entry' = [data_entry EXCEPT ![w].result = LoadedFrom(data_cache.isa), ![w].failed = FALSE]
      BY <1>10 DEF Data!Read, Data!Loaded, LoadedFrom
    <2>2. /\ data_load'[w].pc = "no" /\ data_entry'[w].result = LoadedFrom(data_cache.isa)
          /\ data_entry'[w].again = data_entry[w].again
      BY <1>1, <2>1 DEF Data!NoLoad, EntryState
    <2>3. OfNow(w)'
      BY <1>2, <1>10, <2>2 DEF OfNow, Data!Read, LoadedFrom
    <2> QED  BY <1>1, <1>10, <2>1, <2>3, OfNowKept DEF Data!Read
  <1>11. ASSUME NEW w \in Windows, Data!Fail(w) PROVE LoadsAreOfNow'
    <2>1. /\ data_load' = [data_load EXCEPT ![w] = Data!NoLoad]
          /\ data_load'[w].pc = "no" /\ data_entry'[w].failed = TRUE
      BY <1>1, <1>11 DEF Data!Fail, Data!NoLoad, EntryState
    <2>2. OfNow(w)'
      BY <2>1 DEF OfNow
    <2> QED  BY <1>1, <1>11, <2>1, <2>2, OfNowKept DEF Data!Fail
  <1>12. ASSUME NEW w \in Windows, Data!invalidate(w) PROVE LoadsAreOfNow'
    <2>1. data_entry'[w].again = TRUE
      BY <1>1, <1>12 DEF Data!invalidate, EntryState
    <2>2. OfNow(w)'
      BY <2>1 DEF OfNow
    <2> QED  BY <1>1, <1>12, <2>2, OfNowKept DEF Data!invalidate
  <1>13. ASSUME NEW w \in Windows, Data!LookedUp(w) \/ Data!Grant(w) \/ Data!SetSource(w)
         PROVE LoadsAreOfNow'
    BY <1>3, <1>13 DEF Data!LookedUp, Data!Grant, Data!SetSource
  <1>14. CASE Data!ChangeSource
    BY <1>14 DEF Data!ChangeSource, LoadsAreOfNow, OfNow
  <1>15. CASE UNCHANGED Data!lvars
    BY <1>3, <1>15 DEF Data!lvars
  <1> QED  BY <1>4, <1>5, <1>6, <1>7, <1>8, <1>9, <1>10, <1>11, <1>12, <1>13, <1>14, <1>15
           DEF Data!Next, Data!LoadStep

\* A step of one window leaves what the others show.
LEMMA ShownNowKept ==
  ASSUME ShownIsChosen, NEW w \in Windows,
         \A v \in Windows \ {w} :
            /\ data_load'[v] = data_load[v] /\ data_entry'[v] = data_entry[v] /\ data_user'[v] =
                 data_user[v]
            /\ data_shown'[v] = data_shown[v] /\ (v \in data_stale => v \in data_stale'),
         ShownNow(w)'
  PROVE  ShownIsChosen'
  <1> SUFFICES ASSUME NEW v \in Windows PROVE ShownNow(v)'
    BY DEF ShownIsChosen
  <1>1. CASE v = w
    BY <1>1
  <1>2. CASE v # w
    <2>1. ShownNow(v)
      BY DEF ShownIsChosen
    <2>2. v \in Windows \ {w}
      BY <1>2
    <2> QED  BY <2>1, <2>2 DEF ShownNow, Data!select, Data!MayLoad
  <1> QED  BY <1>1, <1>2

\* Providers with nothing to ask again keep showing what select() chooses.
LEMMA ShownKept ==
  ASSUME DataTypes, ShownIsChosen, [Data!Next]_(Data!lvars) PROVE ShownIsChosen'
  <1>1. /\ data_load \in [Windows -> LoadState] /\ data_entry \in [Windows -> EntryState]
        /\ data_user \in [Windows -> UserState]
        /\ \A w \in Windows : data_load[w] \in LoadState /\ data_entry[w] \in EntryState
                             /\ data_user[w] \in UserState
    BY DEF DataTypes
  <1>2. \A w \in Windows : ShownNow(w)
    BY DEF ShownIsChosen
  <1>3. ASSUME NEW w \in Windows, Data!chosen(w) PROVE ShownIsChosen'
    <2>1. /\ data_shown' = [data_shown EXCEPT ![w] = Data!select(w)] /\ data_stale' = data_stale \ {w}
          /\ w \in data_stale
      BY <1>3 DEF Data!chosen
    <2>2. data_shown'[w] = Data!select(w)
      BY <1>1, <2>1 DEF DataTypes
    <2>3. CASE Data!MayLoad(w) /\ data_user[w].root = "unknown"
      <3>1. /\ data_user' = [data_user EXCEPT ![w].root = "looking"]
            /\ data_entry' = data_entry /\ data_load' = data_load
        BY <1>3, <2>3 DEF Data!chosen
      <3>2. data_user'[w].root = "looking"
        BY <1>1, <3>1 DEF UserState
      <3>3. Data!select(w) = Data!None /\ Data!select(w)' = Data!None
        BY <2>3, <3>2 DEF Data!select
      <3>4. ShownNow(w)'
        BY <2>2, <3>2, <3>3 DEF ShownNow
      <3> QED  BY <1>1, <2>1, <3>1, <3>4, ShownNowKept DEF DataTypes
    <2>4. CASE Data!MayLoad(w) /\ data_user[w].root = "found" /\ data_entry[w].again /\ data_load[w].pc = "no"
      <3>1. /\ data_user' = data_user /\ data_load' = [data_load EXCEPT ![w].pc = "walk"]
            /\ data_entry' = [data_entry EXCEPT ![w].again = FALSE]
        BY <1>3, <2>4 DEF Data!chosen
      <3>2. data_load'[w].pc = "walk" /\ data_entry'[w].result = data_entry[w].result
        BY <1>1, <3>1 DEF LoadState, EntryState
      <3>3. Data!select(w)' = Data!select(w)
        BY <3>1, <3>2 DEF Data!select
      <3>4. ShownNow(w)'
        BY <2>2, <2>4, <3>1, <3>2, <3>3 DEF ShownNow
      <3> QED  BY <1>1, <2>1, <3>1, <3>4, ShownNowKept DEF DataTypes
    <2>5. CASE /\ ~(Data!MayLoad(w) /\ data_user[w].root = "unknown")
               /\ ~(Data!MayLoad(w) /\ data_user[w].root = "found" /\ data_entry[w].again /\ data_load[w].pc = "no")
      <3>1. data_user' = data_user /\ data_load' = data_load /\ data_entry' = data_entry
        BY <1>3, <2>5 DEF Data!chosen
      <3>2. Data!select(w)' = Data!select(w) /\ (Data!MayLoad(w)' <=> Data!MayLoad(w))
        BY <3>1 DEF Data!select, Data!MayLoad
      <3>3. ShownNow(w)'
        BY <2>2, <2>5, <3>1, <3>2 DEF ShownNow
      <3> QED  BY <1>1, <2>1, <3>1, <3>3, ShownNowKept DEF DataTypes
    <2> QED  BY <2>3, <2>4, <2>5
  \* Whatever may change what is chosen has its providers asked again.
  <1>4. ASSUME NEW w \in Windows, data_stale' = data_stale \union {w}, data_shown' = data_shown,
               \A v \in Windows \ {w} : /\ data_load'[v] = data_load[v] /\ data_entry'[v] = data_entry[v]
                                        /\ data_user'[v] = data_user[v]
        PROVE  ShownIsChosen'
    <2>1. ShownNow(w)'
      BY <1>4 DEF ShownNow
    <2> QED  BY <1>4, <2>1, ShownNowKept
  <1>5. ASSUME NEW w \in Windows,
               Data!LookedUp(w) \/ Data!Read(w) \/ Data!Fail(w) \/ Data!invalidate(w) \/ Data!Grant(w)
                 \/ Data!SetSource(w)
        PROVE  ShownIsChosen'
    <2>1. \A v \in Windows \ {w} : data_user'[v] = data_user[v]
      BY <1>1, <1>5 DEF Data!LookedUp, Data!Read, Data!Fail, Data!invalidate, Data!Grant, Data!SetSource
    <2>2. \A v \in Windows \ {w} : data_load'[v] = data_load[v]
      BY <1>1, <1>5 DEF Data!LookedUp, Data!Read, Data!Loaded, Data!Fail, Data!invalidate, Data!Grant,
         Data!SetSource
    <2>3. \A v \in Windows \ {w} : data_entry'[v] = data_entry[v]
      BY <1>1, <1>5 DEF Data!LookedUp, Data!Read, Data!Loaded, Data!Fail, Data!invalidate, Data!Grant,
         Data!SetSource
    <2>4. data_stale' = data_stale \union {w} /\ data_shown' = data_shown
      BY <1>5 DEF Data!LookedUp, Data!Read, Data!Loaded, Data!Fail, Data!invalidate, Data!Grant,
         Data!SetSource
    <2> QED  BY <1>4, <2>1, <2>2, <2>3, <2>4
  <1>6. ASSUME NEW w \in Windows, NEW pc \in {"check", "run", "move", "stamp", "read"},
               data_load[w].pc # "no", data_load'[w].pc = pc,
               \A v \in Windows \ {w} : data_load'[v] = data_load[v],
               UNCHANGED << data_entry, data_user, data_stale, data_shown >>
        PROVE  ShownIsChosen'
    <2>1. ShownNow(w)'
      BY <1>2, <1>6 DEF ShownNow, Data!select, Data!MayLoad
    <2> QED  BY <1>6, <2>1, ShownNowKept
  <1>7. ASSUME NEW w \in Windows, Data!Walk(w) \/ Data!Check(w) \/ Data!Generate(w) \/ Data!Move(w) \/ Data!WriteStamp(w)
        PROVE  ShownIsChosen'
    <2>1. data_load[w].pc # "no"
      BY <1>7 DEF Data!Walk, Data!Check, Data!Generate, Data!Move, Data!WriteStamp
    <2>2. PICK l : data_load' = [data_load EXCEPT ![w] = l] /\ l.pc \in {"check", "run", "move", "stamp", "read"}
      <3> SUFFICES \E l : /\ data_load' = [data_load EXCEPT ![w] = l]
                          /\ l.pc \in {"check", "run", "move", "stamp", "read"}
        OBVIOUS
      <3>1. CASE Data!Walk(w)
        <4>1. data_load' = [data_load EXCEPT ![w] = [data_load[w] EXCEPT !.pc = "check", !.newest =
                data_sources]]
          BY <3>1 DEF Data!Walk
        <4>2. [data_load[w] EXCEPT !.pc = "check", !.newest = data_sources].pc = "check"
          BY <1>1 DEF LoadState
        <4> QED  BY <4>1, <4>2
      <3>2. CASE Data!Generate(w)
        <4>1. PICK read : data_load' = [data_load EXCEPT ![w] = [data_load[w] EXCEPT !.pc = "move", !.fresh = read]]
          BY <3>2 DEF Data!Generate
        <4>2. [data_load[w] EXCEPT !.pc = "move", !.fresh = read].pc = "move"
          BY <1>1 DEF LoadState
        <4> QED  BY <4>1, <4>2
      <3>3. CASE Data!Check(w) \/ Data!Move(w) \/ Data!WriteStamp(w)
        <4>1. PICK pc \in {"run", "read", "stamp"} :
                data_load' = [data_load EXCEPT ![w] = [data_load[w] EXCEPT !.pc = pc]]
          BY <3>3 DEF Data!Check, Data!Move, Data!WriteStamp
        <4>2. [data_load[w] EXCEPT !.pc = pc].pc = pc
          BY <1>1 DEF LoadState
        <4> QED  BY <4>1, <4>2
      <3> QED  BY <1>7, <3>1, <3>2, <3>3
    <2>3. data_load'[w].pc = l.pc /\ \A v \in Windows \ {w} : data_load'[v] = data_load[v]
      BY <1>1, <2>2
    <2>4. UNCHANGED << data_entry, data_user, data_stale, data_shown >>
      BY <1>7 DEF Data!Walk, Data!Check, Data!Generate, Data!Move, Data!WriteStamp
    <2> QED  BY <1>6, <2>1, <2>2, <2>3, <2>4
  <1>8. ASSUME UNCHANGED << data_load, data_entry, data_user, data_stale, data_shown >> PROVE ShownIsChosen'
    BY <1>8 DEF ShownIsChosen, ShownNow, Data!select, Data!MayLoad
  <1>9. CASE Data!ChangeSource
    BY <1>8, <1>9 DEF Data!ChangeSource
  <1>10. CASE UNCHANGED Data!lvars
    BY <1>8, <1>10 DEF Data!lvars
  <1> QED  BY <1>3, <1>5, <1>7, <1>9, <1>10 DEF Data!Next, Data!LoadStep

\* Every step of a window, of another window and of the checkout keeps the invariant.
LEMMA DataStepKeeps == ASSUME DataInv, [Data!Next]_(Data!lvars) PROVE DataInv'
  BY DataTypesKept, NoOlderKept, LoadsKept, ShownKept DEF DataInv

\* When all loads are over and every change is seen, what is shown is of the sources.
LEMMA DataTellsTheTruth == ASSUME DataInv PROVE Data!SettledIsCurrent /\ Data!StampIsHonest
  <1>1. Data!StampIsHonest
    BY DEF DataInv, GeneratedIsNoOlder, Data!StampIsHonest
  <1>2. ASSUME NEW w \in Windows, Data!Settled(w), ~data_crossed, ~data_entry[w].failed
        PROVE  data_shown[w] = (IF Data!MayLoad(w) /\ data_sources \notin Newer THEN data_sources
                 ELSE Data!None)
    <2>1. /\ w \notin data_unseen /\ w \notin data_stale /\ data_load[w].pc = "no"
          /\ data_user[w].root \in {"unknown", "found"}
      BY <1>2 DEF Data!Settled, DataInv, DataTypes, UserState
    <2>2. data_shown[w] = Data!select(w) /\ (Data!MayLoad(w)
            => data_user[w].root = "found" /\ ~data_entry[w].again)
      BY <2>1 DEF DataInv, ShownIsChosen, ShownNow
    <2>3. CASE Data!MayLoad(w)
      <3>1. data_entry[w].result = LoadedFrom(data_sources)
        BY <1>2, <2>1, <2>2, <2>3 DEF DataInv, LoadsAreOfNow, OfNow
      <3>2. data_sources \in Nat /\ data_sources # Data!None /\ data_sources # Data!NewerLayout
        BY EditorAssumption DEF DataInv, DataTypes, Data!None, Data!NewerLayout, Data!LanguagesAssumption
      <3> QED  BY <2>2, <2>3, <3>1, <3>2 DEF Data!select, Data!MayLoad, LoadedFrom
    <2>4. CASE ~Data!MayLoad(w)
      BY <2>2, <2>4 DEF Data!select, Data!MayLoad
    <2> QED  BY <2>3, <2>4
  <1> QED  BY <1>1, <1>2 DEF Data!SettledIsCurrent

\* For every set of windows, bound on the sources and set of newer layouts: settled windows show the
\* data generated from the sources as they are, and a stamp never names newer sources than the data
\* beside it (language-source.js, languages.js).
THEOREM DataIsCurrent == Data!Spec => [](Data!SettledIsCurrent /\ Data!StampIsHonest)
  BY DataInit, DataStepKeeps, DataTellsTheTruth, PTL DEF Data!Spec

-----------------------------------------------------------------------------
(* The terminals. *)

TermState ==
    [closed : BOOLEAN, integration : BOOLEAN, shell : {"starting", "prompt", "program", "gone"},
     waiting : Nat, ours : BOOLEAN, busy : BOOLEAN, fresh : BOOLEAN]

TermTypes ==
    /\ term_terms \in Seq(TermState) /\ term_asked \in Seq(Buttons)
    /\ term_terminalOf \in [Buttons -> Nat]
    /\ \A k \in Buttons : term_terminalOf[k] <= Len(term_terms)
    /\ term_at \in {"no", "ps", "told"}
    /\ term_at # "no" => term_asked # << >>

\* A terminal holds one command of ours, waiting or running; one that is not fresh has none waiting.
Single(x) ==
    /\ x.waiting <= 1
    /\ ~x.fresh => x.waiting = 0
    /\ x.ours => x.shell = "program" /\ x.waiting = 0

\* The terminal asked about has no command waiting, and none of ours runs in one said to be at its prompt.
AskedIsFree ==
    LET t == term_terminalOf[Head(term_asked)] IN
    t # 0 => /\ term_terms[t].waiting = 0
             /\ term_at = "told" => \/ term_prompt = "no"
                                    \/ term_prompt = "yes" /\ ~term_terms[t].ours

TermInv ==
    /\ TermTypes
    /\ term_host = {"ps"} => \A t \in DOMAIN term_terms : Single(term_terms[t])
    /\ term_host = {"ps"} /\ term_at # "no" => AskedIsFree

\* There is no terminal at first.
LEMMA TermInit == Terms!Init => TermInv
  BY DEF Terms!Init, TermInv, TermTypes

\* A shell's step of one terminal that neither sends nor starts a command where none waited.
LEMMA ShellKeeps ==
  ASSUME TermInv, NEW t \in DOMAIN term_terms, NEW x \in TermState, Terms!Shells(t, x),
         term_host = {"ps"} => Single(x),
         term_terms[t].waiting = 0 => x.waiting = 0 /\ (x.ours => term_terms[t].ours)
  PROVE  TermInv'
  <1>1. /\ term_terms' = [term_terms EXCEPT ![t] = x]
        /\ UNCHANGED << term_host, term_asked, term_at, term_prompt, term_terminalOf >>
    BY DEF Terms!Shells
  <1>2. /\ term_terms \in Seq(TermState) /\ Len(term_terms) \in Nat
        /\ DOMAIN term_terms = 1..Len(term_terms)
    BY DEF TermInv, TermTypes
  <1>3. /\ term_terms' \in Seq(TermState) /\ Len(term_terms') = Len(term_terms)
        /\ DOMAIN term_terms' = DOMAIN term_terms
        /\ term_terms'[t] = x /\ \A u \in DOMAIN term_terms : u # t => term_terms'[u] = term_terms[u]
    BY <1>1, <1>2
  <1>4. TermTypes'
    BY <1>1, <1>3 DEF TermInv, TermTypes
  <1>5. term_host = {"ps"} => \A u \in DOMAIN term_terms' : Single(term_terms'[u])
    BY <1>3 DEF TermInv
  <1>6. ASSUME term_host = {"ps"}, term_at # "no" PROVE AskedIsFree'
    <2> DEFINE a == term_terminalOf[Head(term_asked)]
    <2>1. AskedIsFree
      BY <1>6 DEF TermInv
    <2>2. a \in Nat /\ a <= Len(term_terms)
      BY <1>6 DEF TermInv, TermTypes
    <2>3. a # 0 => a \in DOMAIN term_terms
      BY <1>2, <2>2
    <2>4. CASE a = t
      BY <1>1, <1>3, <2>1, <2>4 DEF AskedIsFree
    <2>5. CASE a # t
      BY <1>1, <1>3, <2>1, <2>3, <2>5 DEF AskedIsFree
    <2> QED  BY <2>4, <2>5
  <1> QED  BY <1>1, <1>4, <1>5, <1>6 DEF TermInv

\* A command is sent to a terminal that holds none.
LEMMA SendKeeps ==
  ASSUME TermInv, NEW ts \in Seq(TermState), NEW t \in DOMAIN ts, Terms!SendTo(ts, t),
         term_asked # << >>,
         term_host = {"ps"} => \A u \in DOMAIN ts : Single(ts[u]),
         term_host = {"ps"} => ts[t].waiting = 0 /\ ~ts[t].ours,
         term_terminalOf' \in [Buttons -> Nat], \A k \in Buttons : term_terminalOf'[k] <= Len(ts)
  PROVE  TermInv'
  <1> DEFINE x == [ts[t] EXCEPT !.waiting = @ + 1, !.busy = TRUE, !.fresh = TRUE]
  <1>1. /\ term_terms' = [ts EXCEPT ![t].waiting = @ + 1, ![t].busy = TRUE, ![t].fresh = TRUE]
        /\ term_asked' = Tail(term_asked) /\ term_at' = "no" /\ term_host' = term_host
    BY DEF Terms!SendTo
  <1>2. ts[t] \in TermState
    OBVIOUS
  <1>10. ts[t].waiting + 1 \in Nat /\ x = [ts[t] EXCEPT !.waiting = ts[t].waiting + 1, !.busy = TRUE, !.fresh = TRUE]
    BY <1>2 DEF TermState
  <1>3. x \in TermState
    BY <1>2, <1>10 DEF TermState
  <1>4. x.waiting = ts[t].waiting + 1 /\ x.fresh = TRUE /\ x.ours = ts[t].ours
    BY <1>2 DEF TermState
  <1>5. term_terms' = [ts EXCEPT ![t] = x]
    BY <1>1
  <1> HIDE DEF x
  <1>6. /\ term_terms' \in Seq(TermState) /\ Len(term_terms') = Len(ts) /\ DOMAIN term_terms' = DOMAIN ts
        /\ term_terms'[t] = x /\ \A u \in DOMAIN ts : u # t => term_terms'[u] = ts[u]
    BY <1>3, <1>5
  <1>7. term_host = {"ps"} => Single(x)
    <2> SUFFICES ASSUME term_host = {"ps"} PROVE Single(x)
      OBVIOUS
    <2>1. ts[t].waiting = 0 /\ ~ts[t].ours
      OBVIOUS
    <2>2. x.waiting = 1
      BY <1>4, <2>1
    <2>3. x.fresh /\ ~x.ours
      BY <1>4, <2>1
    <2> QED  BY <2>2, <2>3 DEF Single
  <1>8. term_asked' \in Seq(Buttons)
    BY <1>1 DEF TermInv, TermTypes
  <1>9. TermTypes'
    BY <1>1, <1>6, <1>8 DEF TermTypes
  <1> QED  BY <1>1, <1>6, <1>7, <1>9 DEF TermInv

\* A terminal made for a button takes the one command it was made for.
LEMMA SendToNewKeeps ==
  ASSUME TermInv, term_asked # << >>, Terms!SendToNew PROVE TermInv'
  <1>1. PICK b \in BOOLEAN : Terms!SendTo(Append(term_terms, Terms!NewTerminal(b)), Len(term_terms) + 1)
    BY DEF Terms!SendToNew
  <1> DEFINE new == Terms!NewTerminal(b)
             ts == Append(term_terms, new)
  <1>2. new \in TermState /\ new.waiting = 0
    BY DEF Terms!NewTerminal, TermState
  <1>3. ~new.ours
    BY DEF Terms!NewTerminal
  <1>4. term_terms \in Seq(TermState) /\ Len(term_terms) \in Nat
    BY DEF TermInv, TermTypes
  <1> HIDE DEF new
  <1>5. /\ ts \in Seq(TermState) /\ Len(ts) = Len(term_terms) + 1 /\ DOMAIN ts = 1..(Len(term_terms) + 1)
        /\ ts[Len(term_terms) + 1] = new /\ \A u \in 1..Len(term_terms) : ts[u] = term_terms[u]
    BY <1>2, <1>4
  <1>6. Single(new)
    BY <1>2, <1>3 DEF Single
  <1>7. term_host = {"ps"} => \A u \in DOMAIN ts : Single(ts[u])
    BY <1>4, <1>5, <1>6 DEF TermInv
  <1>8. /\ term_terminalOf' = [term_terminalOf EXCEPT ![Head(term_asked)] = Len(term_terms) + 1]
        /\ term_terminalOf \in [Buttons -> Nat] /\ \A k \in Buttons : term_terminalOf[k] <= Len(term_terms)
    BY DEF Terms!SendToNew, TermInv, TermTypes
  <1>9. term_terminalOf' \in [Buttons -> Nat] /\ \A k \in Buttons : term_terminalOf'[k] <= Len(ts)
    <2>1. Head(term_asked) \in Buttons
      BY DEF TermInv, TermTypes
    <2> DEFINE n == Len(term_terms) + 1
    <2>2. n \in Nat /\ Len(ts) = n
      BY <1>4, <1>5
    <2> HIDE DEF n, ts
    <2>3. term_terminalOf' = [term_terminalOf EXCEPT ![Head(term_asked)] = n]
      BY <1>8 DEF n
    <2>4. term_terminalOf' \in [Buttons -> Nat]
      BY <1>8, <2>2, <2>3
    <2>5. ASSUME NEW k \in Buttons PROVE term_terminalOf'[k] <= n
      BY <1>4, <1>8, <2>2, <2>3 DEF n
    <2> QED  BY <2>2, <2>4, <2>5
  <1>10. Len(term_terms) + 1 \in DOMAIN ts
    BY <1>4, <1>5
  <1>11. Terms!SendTo(ts, Len(term_terms) + 1)
    BY <1>1 DEF new
  <1> HIDE DEF ts
  <1> QED  BY <1>2, <1>3, <1>5, <1>7, <1>9, <1>10, <1>11, SendKeeps

\* Every click, answer of ps, command that ends and terminal that closes keeps the invariant.
LEMMA TermStepKeeps == ASSUME TermInv, [Terms!Next]_(Terms!tvars) PROVE TermInv'
  <1> DEFINE a == term_terminalOf[Head(term_asked)]
  <1>1. /\ term_terms \in Seq(TermState) /\ Len(term_terms) \in Nat
        /\ DOMAIN term_terms = 1..Len(term_terms) /\ Terms!Terms = DOMAIN term_terms
        /\ \A t \in DOMAIN term_terms : term_terms[t] \in TermState
    BY DEF TermInv, TermTypes, Terms!Terms
  <1>2. term_asked # << >> => a \in Nat /\ (a # 0 => a \in DOMAIN term_terms)
    BY <1>1 DEF TermInv, TermTypes
  <1>3. CASE Terms!Ask
    <2>1. PICK k \in Buttons : term_asked' = Append(term_asked, k)
      BY <1>3 DEF Terms!Ask
    <2>2. term_asked \in Seq(Buttons)
      BY DEF TermInv, TermTypes
    <2>3. /\ term_asked' \in Seq(Buttons) /\ term_asked' # << >>
          /\ term_asked # << >> => Head(term_asked') = Head(term_asked)
      BY <2>1, <2>2
    <2>4. /\ term_host' = term_host /\ term_at' = term_at /\ term_prompt' = term_prompt
          /\ term_terms' = term_terms /\ term_terminalOf' = term_terminalOf
      BY <1>3 DEF Terms!Ask
    <2> QED  BY <2>3, <2>4 DEF TermInv, TermTypes, AskedIsFree
  <1>4. CASE Terms!Send
    <2>1. term_asked # << >>
      BY <1>4 DEF Terms!Send
    <2>2. CASE Terms!SendToNew
      BY <2>1, <2>2, SendToNewKeeps
    <2>3. CASE /\ Terms!MayBeIdle(a) /\ term_at' = "ps"
               /\ UNCHANGED << term_host, term_asked, term_prompt, term_terms, term_terminalOf >>
      <3>1. a # 0 /\ ~term_terms[a].fresh
        BY <2>3 DEF Terms!MayBeIdle
      <3>2. term_host = {"ps"} => term_terms[a].waiting = 0
        BY <1>2, <2>1, <3>1 DEF TermInv, Single
      <3> QED  BY <2>1, <2>3, <3>1, <3>2 DEF TermInv, TermTypes, AskedIsFree
    <2> QED  BY <1>4, <2>2, <2>3 DEF Terms!Send
  <1>5. CASE Terms!atPrompt
    <2>1. /\ term_at = "ps" /\ term_at' = "told"
          /\ UNCHANGED << term_host, term_asked, term_terms, term_terminalOf >>
          /\ term_prompt' = IF "ps" \notin term_host \/ a = 0 THEN "unknown"
                            ELSE IF term_terms[a].shell # "program" THEN "yes" ELSE "no"
      BY <1>5 DEF Terms!atPrompt
    <2>2. term_asked # << >>
      BY <2>1 DEF TermInv, TermTypes
    <2>3. ASSUME term_host = {"ps"}, a # 0
          PROVE  term_prompt' = "no" \/ (term_prompt' = "yes" /\ ~term_terms[a].ours)
      <3>1. "ps" \in term_host
        BY <2>3
      <3>2. Single(term_terms[a])
        BY <1>2, <2>2, <2>3 DEF TermInv
      <3> QED  BY <2>1, <2>3, <3>1, <3>2 DEF Single
    <2>4. ASSUME term_host = {"ps"}, a # 0 PROVE term_terms[a].waiting = 0
      BY <2>1, <2>4 DEF TermInv, AskedIsFree
    <2> QED  BY <2>1, <2>2, <2>3, <2>4 DEF TermInv, TermTypes, AskedIsFree
  <1>6. CASE Terms!Told
    <2>1. term_at = "told" /\ term_asked # << >>
      BY <1>6 DEF Terms!Told, TermInv, TermTypes
    <2>2. CASE Terms!isIdle(a) /\ Terms!SendTo(term_terms, a) /\ UNCHANGED term_terminalOf
      <3>1. a # 0 /\ a \in DOMAIN term_terms
        BY <1>2, <2>1, <2>2 DEF Terms!isIdle
      <3>2. ASSUME term_host = {"ps"} PROVE term_terms[a].waiting = 0 /\ ~term_terms[a].ours
        <4>1. AskedIsFree
          BY <2>1, <3>2 DEF TermInv
        <4>2. term_prompt # "no"
          BY <2>2, <3>1, <4>1, <2>1 DEF Terms!isIdle, AskedIsFree
        <4> QED  BY <2>1, <3>1, <4>1, <4>2 DEF AskedIsFree
      <3>3. /\ term_host = {"ps"} => \A u \in DOMAIN term_terms : Single(term_terms[u])
            /\ term_terminalOf' \in [Buttons -> Nat] /\ \A k \in Buttons :
                 term_terminalOf'[k] <= Len(term_terms)
        BY <2>2 DEF TermInv, TermTypes
      <3> HIDE DEF a
      <3> QED  BY <1>1, <2>1, <2>2, <3>1, <3>2, <3>3, SendKeeps
    <2>3. CASE Terms!SendToNew
      BY <2>1, <2>3, SendToNewKeeps
    <2> QED  BY <1>6, <2>2, <2>3 DEF Terms!Told
  <1>7. ASSUME NEW t \in DOMAIN term_terms,
               Terms!ShellStarts(t) \/ Terms!StartProgram(t) \/ Terms!TypeProgram(t) \/ Terms!EndProgram(t)
                 \/ Terms!Elapse(t)
        PROVE  TermInv'
    <2>1. term_terms[t] \in TermState /\ (term_host = {"ps"} => Single(term_terms[t]))
      BY <1>1 DEF TermInv
    <2>2. CASE Terms!ShellStarts(t)
      <3> DEFINE x == [term_terms[t] EXCEPT !.shell = "prompt"]
      <3>1. x \in TermState /\ x.waiting = term_terms[t].waiting /\ x.ours = term_terms[t].ours
            /\ x.fresh = term_terms[t].fresh /\ Terms!Shells(t, x) /\ term_terms[t].shell = "starting"
        BY <2>1, <2>2 DEF Terms!ShellStarts, TermState
      <3> HIDE DEF x
      <3>2. term_host = {"ps"} => Single(x)
        BY <2>1, <3>1 DEF Single
      <3> QED  BY <3>1, <3>2, ShellKeeps
    <2>3. CASE Terms!StartProgram(t)
      <3> DEFINE x == [term_terms[t] EXCEPT !.shell = "program", !.ours = TRUE, !.waiting = @ - 1]
      <3>1. /\ Terms!Shells(t, x) /\ term_terms[t].waiting > 0 /\ term_terms[t].waiting \in Nat
        BY <2>1, <2>3 DEF Terms!StartProgram, TermState
      <3>5. term_terms[t].waiting - 1 \in Nat
        BY <3>1
      <3>6. x = [term_terms[t] EXCEPT !.shell = "program", !.ours = TRUE, !.waiting =
              term_terms[t].waiting - 1]
        BY <2>1 DEF TermState
      <3>2. x.waiting = term_terms[t].waiting - 1 /\ x.shell = "program" /\ x \in TermState
        BY <2>1, <3>5, <3>6 DEF TermState
      <3> HIDE DEF x
      <3>3. term_host = {"ps"} => x.waiting = 0
        BY <2>1, <3>1, <3>2 DEF Single
      <3>4. term_host = {"ps"} => Single(x)
        BY <3>2, <3>3 DEF Single
      <3> QED  BY <3>1, <3>2, <3>4, ShellKeeps
    <2>4. CASE Terms!TypeProgram(t)
      <3> DEFINE x == [term_terms[t] EXCEPT !.shell = "program", !.ours = FALSE]
      <3>1. /\ x \in TermState /\ x.waiting = 0 /\ ~x.ours /\ Terms!Shells(t, x)
        BY <2>1, <2>4 DEF Terms!TypeProgram, TermState
      <3> HIDE DEF x
      <3> QED  BY <3>1, ShellKeeps DEF Single
    <2>5. CASE Terms!EndProgram(t)
      <3> DEFINE x == [term_terms[t] EXCEPT !.shell = "prompt", !.ours = FALSE,
                                            !.busy = IF term_terms[t].integration THEN FALSE ELSE @]
      <3>1. Terms!Shells(t, x)
        BY <2>5 DEF Terms!EndProgram
      <3>2. PICK b \in BOOLEAN : x = [term_terms[t] EXCEPT !.shell = "prompt", !.ours = FALSE, !.busy = b]
        <4>1. (IF term_terms[t].integration THEN FALSE ELSE term_terms[t].busy) \in BOOLEAN
          BY <2>1 DEF TermState
        <4> QED  BY <4>1
      <3> HIDE DEF x
      <3>3. /\ x \in TermState /\ x.waiting = term_terms[t].waiting /\ ~x.ours
            /\ x.fresh = term_terms[t].fresh
        BY <2>1, <3>2 DEF TermState
      <3>4. term_host = {"ps"} => Single(x)
        BY <2>1, <3>3 DEF Single
      <3> QED  BY <3>1, <3>3, <3>4, ShellKeeps
    <2>6. CASE Terms!Elapse(t)
      <3> DEFINE x == [term_terms[t] EXCEPT !.fresh = FALSE]
      <3>1. /\ x \in TermState /\ x.waiting = term_terms[t].waiting /\ x.ours = term_terms[t].ours
            /\ x.shell = term_terms[t].shell /\ ~x.fresh
        BY <2>1 DEF TermState
      <3>2. Terms!Shells(t, x) /\ ("slow" \in term_host \/ term_terms[t].waiting = 0)
        BY <2>6 DEF Terms!Elapse
      <3> HIDE DEF x
      <3>3. term_host = {"ps"} => Single(x)
        BY <2>1, <3>1, <3>2 DEF Single
      <3> QED  BY <3>1, <3>2, <3>3, ShellKeeps
    <2> QED  BY <1>7, <2>2, <2>3, <2>4, <2>5, <2>6
  <1>8. ASSUME NEW t \in DOMAIN term_terms, Terms!CloseTerminal(t) PROVE TermInv'
    <2> DEFINE x == [Terms!NewTerminal(term_terms[t].integration) EXCEPT !.closed = TRUE, !.shell = "gone"]
    <2>1. /\ term_terms' = [term_terms EXCEPT ![t] = x]
          /\ term_terminalOf' = [k \in Buttons |-> IF term_terminalOf[k] = t THEN 0 ELSE term_terminalOf[k]]
          /\ UNCHANGED << term_host, term_asked, term_at, term_prompt >>
      BY <1>8 DEF Terms!CloseTerminal
    <2>2. term_terms[t].integration \in BOOLEAN
      BY <1>1 DEF TermState
    <2>3. x \in TermState /\ x.waiting = 0 /\ ~x.ours
      BY <2>2 DEF Terms!NewTerminal, TermState
    <2> HIDE DEF x
    <2>4. /\ term_terms' \in Seq(TermState) /\ Len(term_terms') = Len(term_terms)
          /\ DOMAIN term_terms' = DOMAIN term_terms
          /\ term_terms'[t] = x /\ \A u \in DOMAIN term_terms : u # t => term_terms'[u] = term_terms[u]
      BY <1>1, <2>1, <2>3
    <2>5. TermTypes'
      BY <1>1, <2>1, <2>4 DEF TermInv, TermTypes
    <2>6. term_host = {"ps"} => \A u \in DOMAIN term_terms' : Single(term_terms'[u])
      BY <2>3, <2>4 DEF TermInv, Single
    <2>7. ASSUME term_host = {"ps"}, term_at # "no" PROVE AskedIsFree'
      <3>1. AskedIsFree /\ term_asked # << >> /\ Head(term_asked) \in Buttons
        BY <2>7 DEF TermInv, TermTypes
      <3>2. Head(term_asked)' = Head(term_asked) /\ term_terminalOf'[Head(term_asked)] = IF a = t
              THEN 0 ELSE a
        BY <2>1, <3>1
      <3>3. CASE a = t
        BY <2>1, <3>2, <3>3 DEF AskedIsFree
      <3>4. CASE a # t
        BY <1>2, <2>1, <2>4, <3>1, <3>2, <3>4 DEF AskedIsFree
      <3> QED  BY <3>3, <3>4
    <2> QED  BY <2>1, <2>5, <2>6, <2>7 DEF TermInv
  <1>9. CASE UNCHANGED Terms!tvars
    BY <1>9 DEF Terms!tvars, TermInv, TermTypes, AskedIsFree
  <1> QED  BY <1>1, <1>3, <1>4, <1>5, <1>6, <1>7, <1>8, <1>9 DEF Terms!Next

\* A terminal with at most one command of ours runs one at a time.
LEMMA SingleIsOne == ASSUME TermInv PROVE Terms!OneCommandAtATime
  <1> SUFFICES ASSUME NEW t \in DOMAIN term_terms, term_host = {"ps"} PROVE Terms!Unfinished(t) <= 1
    BY DEF Terms!OneCommandAtATime, Terms!Terms
  <1>1. Single(term_terms[t])
    BY DEF TermInv
  <1>2. term_terms[t] \in TermState
    BY DEF TermInv, TermTypes
  <1>5. term_terms[t].waiting \in Nat
    BY <1>2 DEF TermState
  <1>3. CASE term_terms[t].ours
    BY <1>1, <1>3 DEF Single, Terms!Unfinished
  <1>4. CASE ~term_terms[t].ours
    BY <1>1, <1>4, <1>5 DEF Single, Terms!Unfinished
  <1> QED  BY <1>3, <1>4

\* For every set of buttons, on a host where `ps' answers, a command is never sent to a terminal where
\* one of the extension's own still runs or waits (runs.js).
THEOREM OneCommandAtATime == Terms!Spec => []Terms!OneCommandAtATime
  BY TermInit, TermStepKeeps, SingleIsOne, PTL DEF Terms!Spec

-----------------------------------------------------------------------------
(* The kernel lists. *)

IndexState ==
    [folder : Folders, disposed : BOOLEAN, manifest : Nat, failed : BOOLEAN, kernelsRoot : BOOLEAN,
     pc : {"idle", "run", "path", "left"}, read : Nat, again : BOOLEAN, soon : BOOLEAN, timer : BOOLEAN]
ScanState == [pc : {"no", "look", "add"}, saw : SUBSET Folders, left : SUBSET Folders]

SideTypes ==
    /\ side_open \subseteq Folders
    /\ side_tree \in Nat /\ side_scans \in Nat
    /\ side_indexes \in Seq(IndexState)
    /\ side_current \in 0..Len(side_indexes)
    /\ side_scan \in ScanState /\ side_trusted \in BOOLEAN

\* What holds of every index ever made.
IndexOk(x) ==
    /\ x.disposed => x.manifest = 0
    /\ x.pc = "left" => x.disposed
    /\ x.pc = "idle" => ~x.again

\* An index nothing is going to refresh has, or loads, the manifest of tree n.
UpToDate(x, n) ==
    ~x.soon /\ ~x.timer /\ ~x.again =>
        /\ x.pc = "idle" => x.manifest = IF n \in Broken THEN 0 ELSE n
        /\ x.pc \in {"run", "path"} => x.read = n
        /\ x.pc = "path" => n \notin Broken

\* The index in the map is the one that lives; a scan that looks, looks at it.
OneLives ==
    /\ \A i \in DOMAIN side_indexes : ~side_indexes[i].disposed => i = side_current
    /\ side_current # 0 => ~side_indexes[side_current].disposed
    /\ side_scan.pc = "look" => side_current # 0
    /\ side_scan.pc # "no" => side_scans > 0

\* Nothing is going to start another scan: no folder or checkout came or went since this one began.
LastScan ==
    /\ side_scans <= 1 /\ ~side_rescanTimer /\ "package" \notin side_events
    /\ side_scans = 1 => side_scan.pc # "no"

ListedIsOpen == side_current # 0 => side_there /\ side_indexes[side_current].folder \in side_open

\* What the last scan has done so far.
ScanFindsOpen ==
    LastScan =>
        /\ side_scan.pc = "look" => side_indexes[side_current].folder \in side_open
        /\ side_scan.pc = "add" => /\ ListedIsOpen /\ side_scan.left \subseteq side_open
                                   /\ side_there /\ side_current = 0 => side_scan.left = side_open
        /\ side_scan.pc = "no" => /\ ListedIsOpen
                                  /\ side_there /\ side_open # {} => side_current # 0

\* A change of the tree that was reported has the index refreshed.
CurrentIsLatest ==
    side_current # 0 /\ side_trusted /\ ~side_missed /\ side_events \subseteq {"package"} =>
        UpToDate(side_indexes[side_current], side_tree)

SideInv ==
    /\ SideTypes
    /\ \A i \in DOMAIN side_indexes : IndexOk(side_indexes[i])
    /\ OneLives /\ ScanFindsOpen /\ CurrentIsLatest

\* Nothing is listed before the first scan, which is to come.
LEMMA SideInit == Sidebar!Init => SideInv
  <1> SUFFICES ASSUME Sidebar!Init PROVE SideInv
    OBVIOUS
  <1>1. /\ side_indexes = << >> /\ side_current = 0 /\ side_scans = 1 /\ side_scan = Sidebar!NoScan
        /\ side_tree = 1 /\ side_open \subseteq Folders
    BY DEF Sidebar!Init
  <1>2. Sidebar!NoScan \in ScanState /\ Sidebar!NoScan.pc = "no"
    BY DEF Sidebar!NoScan, ScanState
  <1>3. SideTypes
    <2>1. side_trusted \in BOOLEAN
      BY DEF Sidebar!Init
    <2>2. side_indexes \in Seq(IndexState) /\ Len(side_indexes) = 0
      BY <1>1
    <2> QED  BY <1>1, <1>2, <2>1, <2>2 DEF SideTypes
  <1>4. OneLives /\ ~LastScan
    BY <1>1, <1>2 DEF OneLives, LastScan
  <1> QED  BY <1>1, <1>3, <1>4 DEF SideInv, ScanFindsOpen, CurrentIsLatest

\* A refresh of a live index loads the tree as it is, at once or once the load under way is over.
LEMMA RefreshedIsLatest ==
  ASSUME NEW x \in IndexState, IndexOk(x), side_tree \in Nat, NEW b \in BOOLEAN,
         NEW y, y = Sidebar!refreshed(x, b)
  PROVE  /\ y \in IndexState /\ IndexOk(y) /\ y.folder = x.folder
         /\ y.disposed = x.disposed
         /\ b /\ ~x.disposed => UpToDate(y, side_tree)
  <1>1. CASE x.disposed
    BY <1>1 DEF Sidebar!refreshed
  <1>2. CASE ~x.disposed /\ x.pc # "idle"
    <2>1. y = [x EXCEPT !.again = TRUE]
      BY <1>2 DEF Sidebar!refreshed
    <2> QED  BY <1>2, <2>1 DEF IndexState, IndexOk, UpToDate
  <1>3. CASE ~x.disposed /\ x.pc = "idle" /\ ~b
    <2>1. y = [x EXCEPT !.manifest = 0, !.failed = TRUE]
      BY <1>3 DEF Sidebar!refreshed
    <2>5. y \in IndexState
      <3>1. [x EXCEPT !.manifest = 0, !.failed = TRUE] \in IndexState
        BY DEF IndexState
      <3> QED  BY <2>1, <3>1
    <2>2. /\ y.folder = x.folder /\ y.disposed = x.disposed /\ y.manifest = 0
          /\ y.pc = x.pc /\ y.again = x.again
      BY <2>1 DEF IndexState
    <2>3. IndexOk(y)
      BY <1>3, <2>2 DEF IndexOk
    <2>4. ~b
      BY <1>3
    <2> QED  BY <2>2, <2>3, <2>4, <2>5
  <1>4. CASE ~x.disposed /\ x.pc = "idle" /\ b
    <2>1. y = [x EXCEPT !.pc = "run", !.read = side_tree]
      BY <1>4 DEF Sidebar!refreshed
    <2> QED  BY <1>4, <2>1 DEF IndexState, IndexOk, UpToDate
  <1> QED  BY <1>1, <1>2, <1>3, <1>4

\* A load that ends has the tree's manifest, or begins the refresh asked for meanwhile.
LEMMA EndedIsLatest ==
  ASSUME NEW x \in IndexState, x.disposed => x.manifest = 0, side_tree \in Nat, side_trusted \in BOOLEAN,
         NEW y, y = Sidebar!Ended(x)
  PROVE  /\ y \in IndexState /\ IndexOk(y) /\ y.folder = x.folder
         /\ y.disposed = x.disposed
         /\ /\ ~x.soon /\ ~x.timer /\ ~x.again => x.manifest = IF side_tree \in Broken THEN 0 ELSE side_tree
            /\ side_trusted /\ ~x.disposed
            => UpToDate(y, side_tree)
  <1> DEFINE z == [x EXCEPT !.pc = "idle", !.again = FALSE]
  <1>1. /\ z \in IndexState /\ z.folder = x.folder /\ z.pc = "idle" /\ z.manifest = x.manifest
        /\ z.disposed = x.disposed
    BY DEF IndexState
  <1>2. ~z.again /\ z.soon = x.soon /\ z.timer = x.timer
    BY DEF IndexState
  <1>3. IndexOk(z)
    BY <1>1, <1>2 DEF IndexOk
  <1>4. y = IF x.again THEN Sidebar!refreshed(z, side_trusted) ELSE z
    BY DEF Sidebar!Ended
  <1> HIDE DEF z
  <1>5. CASE x.again
    BY <1>1, <1>3, <1>4, <1>5, RefreshedIsLatest
  <1>6. CASE ~x.again
    BY <1>1, <1>2, <1>3, <1>4, <1>6 DEF UpToDate
  <1> QED  BY <1>5, <1>6

\* One index goes on.
LEMMA IndexStepKeeps ==
  ASSUME SideInv, NEW i \in DOMAIN side_indexes, NEW y \in IndexState, IndexOk(y),
         y.folder = side_indexes[i].folder, y.disposed = side_indexes[i].disposed,
         side_indexes' = [side_indexes EXCEPT ![i] = y],
         UNCHANGED << side_open, side_there, side_tree, side_current, side_scans, side_scan >>,
         side_trusted' \in BOOLEAN, i # side_current => side_trusted' = side_trusted,
         LastScan' => LastScan,
         /\ i = side_current /\ side_trusted' /\ ~side_missed' /\ side_events' \subseteq {"package"}
         => UpToDate(y, side_tree),
         i # side_current /\ side_current # 0 /\ ~side_missed' /\ side_events' \subseteq {"package"}
         => ~side_missed /\ side_events \subseteq {"package"}
  PROVE  SideInv'
  <1> USE DEF SideInv
  <1>1. /\ side_indexes \in Seq(IndexState) /\ Len(side_indexes) \in Nat
        /\ DOMAIN side_indexes = 1..Len(side_indexes) /\ side_current \in 0..Len(side_indexes)
    BY DEF SideTypes
  <1>2. /\ side_indexes' \in Seq(IndexState) /\ Len(side_indexes') = Len(side_indexes)
        /\ DOMAIN side_indexes' = DOMAIN side_indexes /\ side_indexes'[i] = y
        /\ \A j \in DOMAIN side_indexes : j # i => side_indexes'[j] = side_indexes[j]
    BY <1>1
  <1>3. \A j \in DOMAIN side_indexes : /\ side_indexes'[j].folder = side_indexes[j].folder
                                       /\ side_indexes'[j].disposed = side_indexes[j].disposed
    BY <1>2
  <1>4. side_current # 0 => side_current \in DOMAIN side_indexes
    BY <1>1
  <1>5. SideTypes'
    BY <1>2 DEF SideTypes
  <1>6. \A j \in DOMAIN side_indexes' : IndexOk(side_indexes'[j])
    BY <1>2
  <1>7. OneLives'
    BY <1>2, <1>3, <1>4 DEF OneLives
  <1>8. ScanFindsOpen'
    BY <1>3, <1>4 DEF ScanFindsOpen, ListedIsOpen, OneLives
  <1>9. CurrentIsLatest'
    <2>1. CASE i = side_current
      BY <1>2, <2>1 DEF CurrentIsLatest
    <2>2. CASE i # side_current
      BY <1>2, <1>4, <2>2 DEF CurrentIsLatest
    <2> QED  BY <2>1, <2>2
  <1> QED  BY <1>5, <1>6, <1>7, <1>8, <1>9

\* An index goes on, and nothing else does.
LEMMA IndexOnly ==
  ASSUME SideInv, NEW i \in DOMAIN side_indexes, NEW y \in IndexState, IndexOk(y),
         y.folder = side_indexes[i].folder, y.disposed = side_indexes[i].disposed,
         side_indexes' = [side_indexes EXCEPT ![i] = y],
         UNCHANGED << side_open, side_there, side_tree, side_trusted, side_current, side_scans, side_scan,
                      side_rescanTimer, side_events, side_missed >>,
         i = side_current /\ side_trusted /\ UpToDate(side_indexes[i], side_tree) => UpToDate(y, side_tree)
  PROVE  SideInv'
  <1>1. LastScan' => LastScan
    BY DEF LastScan
  <1>2. side_trusted \in BOOLEAN /\ DOMAIN side_indexes = 1..Len(side_indexes) /\ Len(side_indexes) \in Nat
    BY DEF SideInv, SideTypes
  <1>3. CurrentIsLatest
    BY DEF SideInv
  <1>4. ~side_missed' => ~side_missed
    OBVIOUS
  <1>5. i = side_current /\ side_trusted' /\ ~side_missed' /\ side_events' \subseteq {"package"}
        => UpToDate(y, side_tree)
    <2> SUFFICES ASSUME i = side_current, side_trusted, ~side_missed, side_events \subseteq {"package"}
                 PROVE  UpToDate(y, side_tree)
      OBVIOUS
    <2>1. UpToDate(side_indexes[i], side_tree)
      BY <1>2, <1>3 DEF CurrentIsLatest
    <2> QED  BY <1>3, <2>1
  <1> QED  BY <1>1, <1>2, <1>4, <1>5, IndexStepKeeps

\* A load of the manifest, and what it does when it ends, keeps the invariant.
LEMMA LoadStepKeeps ==
  ASSUME SideInv, NEW i \in DOMAIN side_indexes,
         Sidebar!Refresh(i) \/ Sidebar!Ran(i) \/ Sidebar!Load(i)
  PROVE  SideInv'
  <1> DEFINE x == side_indexes[i]
  <1>1. /\ x \in IndexState /\ IndexOk(x) /\ side_tree \in Nat /\ side_trusted \in BOOLEAN
        /\ (x.disposed => x.manifest = 0)
    BY DEF SideInv, SideTypes, IndexOk
  <1>2. i = side_current => ~x.disposed
    BY DEF SideInv, SideTypes, OneLives
  <1>3. UNCHANGED << side_open, side_there, side_tree, side_trusted, side_current, side_scans, side_scan,
                     side_rescanTimer, side_events, side_missed >>
    BY DEF Sidebar!Refresh, Sidebar!Ran, Sidebar!Load
  <1>4. ASSUME NEW y \in IndexState, IndexOk(y), y.folder = x.folder, y.disposed = x.disposed,
               side_indexes' = [side_indexes EXCEPT ![i] = y],
               ~x.disposed /\ side_trusted /\ UpToDate(x, side_tree) => UpToDate(y, side_tree)
        PROVE  SideInv'
    BY <1>2, <1>3, <1>4, IndexOnly
  <1> HIDE DEF x
  <1>5. CASE Sidebar!Refresh(i)
    <2>1. PICK z \in {[x EXCEPT !.soon = FALSE], [x EXCEPT !.timer = FALSE]} :
             side_indexes' = [side_indexes EXCEPT ![i] = Sidebar!refreshed(z, side_trusted)]
      BY <1>5 DEF Sidebar!Refresh, x
    <2>2. z \in IndexState /\ z.folder = x.folder /\ z.disposed = x.disposed /\ z.manifest = x.manifest /\ z.pc = x.pc
          /\ z.again = x.again
      BY <1>1, <2>1 DEF IndexState
    <2>3. IndexOk(z)
      BY <1>1, <2>2 DEF IndexOk
    <2> DEFINE y == Sidebar!refreshed(z, side_trusted)
    <2>4. /\ y \in IndexState /\ IndexOk(y) /\ y.folder = z.folder /\ y.disposed = z.disposed
          /\ side_trusted /\ ~z.disposed => UpToDate(y, side_tree)
      BY <1>1, <2>2, <2>3, RefreshedIsLatest
    <2> HIDE DEF y
    <2>5. side_indexes' = [side_indexes EXCEPT ![i] = y]
      BY <2>1 DEF y
    <2>6. y.folder = x.folder /\ y.disposed = x.disposed
      BY <2>2, <2>4
    <2> QED  BY <1>4, <2>2, <2>4, <2>5, <2>6
  <1>6. CASE Sidebar!Ran(i)
    <2>1. PICK seen \in x.read..side_tree :
             side_indexes' = [side_indexes EXCEPT ![i] =
                IF seen \in Broken THEN Sidebar!Ended([x EXCEPT !.manifest = 0, !.failed = TRUE])
                ELSE [x EXCEPT !.pc = "path", !.read = seen]]
      BY <1>6 DEF Sidebar!Ran, x
    <2>2. x.read \in Nat
      BY <1>1 DEF IndexState
    <2>3. seen \in Nat /\ (x.read = side_tree => seen = side_tree)
      BY <1>1, <2>2
    <2>4. x.pc = "run"
      BY <1>6 DEF Sidebar!Ran, x
    <2>5. CASE seen \in Broken
      <3> DEFINE z == [x EXCEPT !.manifest = 0, !.failed = TRUE]
                 y == Sidebar!Ended(z)
      <3>1. /\ z \in IndexState /\ z.folder = x.folder /\ z.disposed = x.disposed /\ z.manifest = 0
            /\ z.soon = x.soon /\ z.timer = x.timer /\ z.again = x.again
        BY <1>1 DEF IndexState
      <3> HIDE DEF z
      <3>2. /\ y \in IndexState /\ IndexOk(y) /\ y.folder = z.folder /\ y.disposed = z.disposed
            /\ /\ ~z.soon /\ ~z.timer /\ ~z.again => z.manifest = IF side_tree \in Broken THEN 0
                    ELSE side_tree
               /\ side_trusted /\ ~z.disposed
               => UpToDate(y, side_tree)
        BY <1>1, <3>1, EndedIsLatest
      <3>3. side_indexes' = [side_indexes EXCEPT ![i] = y]
        BY <2>1, <2>5 DEF z
      <3> HIDE DEF y
      <3>4. ASSUME ~x.disposed, side_trusted, UpToDate(x, side_tree) PROVE UpToDate(y, side_tree)
        <4>1. ~z.soon /\ ~z.timer /\ ~z.again => z.manifest = IF side_tree \in Broken THEN 0 ELSE side_tree
          BY <2>3, <2>4, <2>5, <3>1, <3>4 DEF UpToDate
        <4> QED  BY <3>1, <3>2, <3>4, <4>1
      <3>5. y.folder = x.folder /\ y.disposed = x.disposed
        BY <3>1, <3>2
      <3> QED  BY <1>4, <3>2, <3>3, <3>4, <3>5
    <2>6. CASE seen \notin Broken
      <3> DEFINE y == [x EXCEPT !.pc = "path", !.read = seen]
      <3>1. /\ y \in IndexState /\ y.folder = x.folder /\ y.disposed = x.disposed /\ y.manifest = x.manifest
            /\ y.soon = x.soon /\ y.timer = x.timer /\ y.again = x.again /\ y.pc = "path" /\ y.read = seen
        BY <1>1, <2>3 DEF IndexState
      <3>2. side_indexes' = [side_indexes EXCEPT ![i] = y]
        BY <2>1, <2>6
      <3> HIDE DEF y
      <3>3. IndexOk(y)
        BY <1>1, <3>1 DEF IndexOk
      <3>4. UpToDate(x, side_tree) => UpToDate(y, side_tree)
        BY <2>3, <2>4, <2>6, <3>1 DEF UpToDate
      <3> QED  BY <1>4, <3>1, <3>2, <3>3, <3>4
    <2> QED  BY <2>5, <2>6
  <1>7. CASE Sidebar!Load(i)
    <2>1. /\ x.pc = "path"
          /\ side_indexes' = [side_indexes EXCEPT ![i] =
                IF x.disposed THEN [x EXCEPT !.pc = "left"]
                ELSE Sidebar!Ended([x EXCEPT !.manifest = x.read, !.failed = FALSE, !.kernelsRoot = TRUE])]
      BY <1>7 DEF Sidebar!Load, x
    <2>2. CASE x.disposed
      <3> DEFINE y == [x EXCEPT !.pc = "left"]
      <3>1. /\ y \in IndexState /\ y.folder = x.folder /\ y.disposed = x.disposed /\ y.manifest = x.manifest
            /\ y.pc = "left"
        BY <1>1 DEF IndexState
      <3>2. side_indexes' = [side_indexes EXCEPT ![i] = y]
        BY <2>1, <2>2
      <3> HIDE DEF y
      <3>3. IndexOk(y)
        BY <1>1, <2>2, <3>1 DEF IndexOk
      <3> QED  BY <1>4, <2>2, <3>1, <3>2, <3>3
    <2>3. CASE ~x.disposed
      <3> DEFINE z == [x EXCEPT !.manifest = x.read, !.failed = FALSE, !.kernelsRoot = TRUE]
                 y == Sidebar!Ended(z)
      <3>1. /\ z \in IndexState /\ z.folder = x.folder /\ z.disposed = x.disposed /\ z.manifest = x.read
            /\ z.soon = x.soon /\ z.timer = x.timer /\ z.again = x.again
        BY <1>1 DEF IndexState
      <3> HIDE DEF z
      <3>2. ~z.disposed
        BY <2>3, <3>1
      <3>3. /\ y \in IndexState /\ IndexOk(y) /\ y.folder = z.folder /\ y.disposed = z.disposed
            /\ /\ ~z.soon /\ ~z.timer /\ ~z.again => z.manifest = IF side_tree \in Broken THEN 0
                    ELSE side_tree
               /\ side_trusted /\ ~z.disposed
               => UpToDate(y, side_tree)
        BY <1>1, <3>1, <3>2, EndedIsLatest
      <3>4. side_indexes' = [side_indexes EXCEPT ![i] = y]
        BY <2>1, <2>3 DEF z
      <3> HIDE DEF y
      <3>5. ASSUME side_trusted, UpToDate(x, side_tree) PROVE UpToDate(y, side_tree)
        <4>1. ~z.soon /\ ~z.timer /\ ~z.again => z.manifest = IF side_tree \in Broken THEN 0 ELSE side_tree
          BY <2>1, <3>1, <3>5 DEF UpToDate
        <4> QED  BY <3>2, <3>3, <3>5, <4>1
      <3>6. y.folder = x.folder /\ y.disposed = x.disposed
        BY <3>1, <3>3
      <3> QED  BY <1>4, <3>3, <3>4, <3>5, <3>6
    <2> QED  BY <2>2, <2>3
  <1> QED  BY <1>5, <1>6, <1>7

\* A scan goes on: the map may lose its index or gain one, and the indexes not in it are as they were.
LEMMA ScanStepKeeps == 
  ASSUME SideInv, Sidebar!BeginScan \/ Sidebar!Looked \/ Sidebar!AddFolder \/ Sidebar!EndScan
  PROVE  SideInv'
  <1> USE DEF SideInv
  <1>1. /\ side_indexes \in Seq(IndexState) /\ Len(side_indexes) \in Nat
        /\ DOMAIN side_indexes = 1..Len(side_indexes) /\ side_current \in 0..Len(side_indexes)
        /\ side_scan \in ScanState /\ side_open \subseteq Folders /\ side_scans \in Nat
        /\ side_current # 0 => side_current \in DOMAIN side_indexes
    BY DEF SideTypes
  <1>2. /\ UNCHANGED << side_open, side_there, side_tree, side_trusted, side_rescanTimer, side_events, side_missed >>
    BY DEF Sidebar!BeginScan, Sidebar!Looked, Sidebar!AddFolder, Sidebar!EndScan
  \* The index of a folder that is closed, or whose checkout is gone, goes from the map.
  <1>3. ASSUME side_current # 0, side_current' = 0, side_indexes' = Sidebar!Disposed(side_indexes, side_current)
        PROVE  /\ side_indexes' \in Seq(IndexState)
               /\ \A i \in DOMAIN side_indexes' : IndexOk(side_indexes'[i]) /\ side_indexes'[i].disposed
    <2> DEFINE x == side_indexes[side_current]
               y == [x EXCEPT !.disposed = TRUE, !.manifest = 0, !.timer = FALSE]
    <2>1. x \in IndexState /\ IndexOk(x)
      BY <1>1, <1>3
    <2>2. /\ y \in IndexState /\ y.manifest = 0 /\ y.pc = x.pc /\ y.again = x.again /\ y.disposed = TRUE
      BY <2>1 DEF IndexState
    <2>3. side_indexes' = [side_indexes EXCEPT ![side_current] = y]
      BY <1>3 DEF Sidebar!Disposed
    <2> HIDE DEF y
    <2>4. IndexOk(y)
      BY <2>1, <2>2 DEF IndexOk
    <2>5. /\ side_indexes' \in Seq(IndexState) /\ DOMAIN side_indexes' = DOMAIN side_indexes
          /\ side_indexes'[side_current] = y
          /\ \A i \in DOMAIN side_indexes : i # side_current => side_indexes'[i] = side_indexes[i]
      BY <1>1, <1>3, <2>2, <2>3
    <2>6. \A i \in DOMAIN side_indexes : i # side_current => side_indexes[i].disposed
      BY DEF OneLives
    <2> QED  BY <2>2, <2>4, <2>5, <2>6
  <1>4. CASE Sidebar!BeginScan
    <2>1. /\ side_scans > 0 /\ side_scan.pc = "no" /\ side_scans' = side_scans
      BY <1>4 DEF Sidebar!BeginScan
    <2>2. CASE side_current # 0 /\ side_indexes[side_current].folder \in side_open
      <3>1. /\ side_scan' = [pc |-> "look", saw |-> side_open, left |-> {}]
            /\ side_current' = side_current /\ side_indexes' = side_indexes
        BY <1>4, <2>2 DEF Sidebar!BeginScan
      <3>2. side_scan' \in ScanState /\ side_scan'.pc = "look"
        BY <1>1, <3>1 DEF ScanState
      <3>3. SideTypes' /\ OneLives' /\ CurrentIsLatest'
        BY <1>2, <2>1, <2>2, <3>1, <3>2 DEF SideTypes, OneLives, CurrentIsLatest
      <3>4. ScanFindsOpen'
        BY <1>2, <2>2, <3>1, <3>2 DEF ScanFindsOpen
      <3> QED  BY <3>1, <3>3, <3>4
    <2>3. CASE side_current = 0
      <3>1. /\ side_scan' = [pc |-> "add", saw |-> side_open, left |-> side_open]
            /\ side_current' = side_current /\ side_indexes' = side_indexes
        BY <1>4, <2>3 DEF Sidebar!BeginScan
      <3>2. side_scan' \in ScanState /\ side_scan'.pc = "add" /\ side_scan'.left = side_open
        BY <1>1, <3>1 DEF ScanState
      <3>3. SideTypes' /\ OneLives' /\ CurrentIsLatest'
        BY <1>2, <2>1, <2>3, <3>1, <3>2 DEF SideTypes, OneLives, CurrentIsLatest
      <3>4. ScanFindsOpen'
        BY <1>2, <2>3, <3>1, <3>2 DEF ScanFindsOpen, ListedIsOpen
      <3> QED  BY <3>1, <3>3, <3>4
    <2>4. CASE side_current # 0 /\ side_indexes[side_current].folder \notin side_open
      <3>1. /\ side_scan' = [pc |-> "add", saw |-> side_open, left |-> side_open]
            /\ side_current' = 0 /\ side_indexes' = Sidebar!Disposed(side_indexes, side_current)
        BY <1>4, <2>4 DEF Sidebar!BeginScan
      <3>2. side_scan' \in ScanState /\ side_scan'.pc = "add" /\ side_scan'.left = side_open
        BY <1>1, <3>1 DEF ScanState
      <3>3. /\ side_indexes' \in Seq(IndexState) /\ side_current' \in 0..Len(side_indexes')
            /\ \A i \in DOMAIN side_indexes' : IndexOk(side_indexes'[i]) /\ side_indexes'[i].disposed
        BY <1>3, <2>4, <3>1
      <3>4. SideTypes' /\ OneLives' /\ CurrentIsLatest'
        BY <1>2, <2>1, <3>1, <3>2, <3>3 DEF SideTypes, OneLives, CurrentIsLatest
      <3>5. ScanFindsOpen'
        BY <1>2, <3>1, <3>2 DEF ScanFindsOpen, ListedIsOpen
      <3> QED  BY <3>3, <3>4, <3>5
    <2> QED  BY <2>2, <2>3, <2>4
  <1>5. CASE Sidebar!Looked
    <2>1. /\ side_scan.pc = "look" /\ side_scan' = [side_scan EXCEPT !.pc = "add", !.left = side_open]
          /\ side_scans' = side_scans
      BY <1>5 DEF Sidebar!Looked
    <2>2. side_scan' \in ScanState /\ side_scan'.pc = "add" /\ side_scan'.left = side_open
      BY <1>1, <2>1 DEF ScanState
    <2>3. side_current # 0 /\ side_scans > 0
      BY <2>1 DEF OneLives
    <2>4. CASE side_there
      <3>1. side_current' = side_current /\ side_indexes' = side_indexes
        BY <1>5, <2>4 DEF Sidebar!Looked
      <3>2. SideTypes' /\ OneLives' /\ CurrentIsLatest'
        BY <1>2, <2>1, <2>2, <2>3, <3>1 DEF SideTypes, OneLives, CurrentIsLatest
      <3>3. LastScan' => LastScan
        BY <1>2, <2>1, <2>2 DEF LastScan
      <3>4. ScanFindsOpen'
        BY <1>2, <2>1, <2>2, <2>3, <2>4, <3>1, <3>3 DEF ScanFindsOpen, ListedIsOpen
      <3> QED  BY <3>1, <3>2, <3>4
    <2>5. CASE ~side_there
      <3>1. side_current' = 0 /\ side_indexes' = Sidebar!Disposed(side_indexes, side_current)
        BY <1>5, <2>5 DEF Sidebar!Looked
      <3>2. /\ side_indexes' \in Seq(IndexState) /\ side_current' \in 0..Len(side_indexes')
            /\ \A i \in DOMAIN side_indexes' : IndexOk(side_indexes'[i]) /\ side_indexes'[i].disposed
        BY <1>3, <2>3, <3>1
      <3>3. SideTypes' /\ OneLives' /\ CurrentIsLatest'
        BY <1>2, <2>1, <2>2, <2>3, <3>1, <3>2 DEF SideTypes, OneLives, CurrentIsLatest
      <3>4. ScanFindsOpen'
        BY <1>2, <2>2, <2>5, <3>1 DEF ScanFindsOpen, ListedIsOpen
      <3> QED  BY <3>2, <3>3, <3>4
    <2> QED  BY <2>4, <2>5
  <1>6. CASE Sidebar!AddFolder
    <2>1. PICK f \in side_scan.left :
             /\ side_scan' = [side_scan EXCEPT !.left = @ \ {f}]
             /\ IF side_there /\ side_current = 0
                THEN /\ Len(side_indexes) < MaxIndexes
                     /\ side_indexes' = Append(side_indexes, Sidebar!NewIndex(f))
                     /\ side_current' = Len(side_indexes) + 1
                ELSE UNCHANGED << side_indexes, side_current >>
      BY <1>6 DEF Sidebar!AddFolder
    <2>2. side_scan.pc = "add" /\ side_scans' = side_scans /\ f \in Folders
      BY <1>1, <1>6 DEF Sidebar!AddFolder, ScanState
    <2>3. /\ side_scan' \in ScanState /\ side_scan'.pc = "add" /\ side_scan'.left = side_scan.left \ {f}
      BY <1>1, <2>1, <2>2 DEF ScanState
    <2>4. LastScan' => LastScan
      BY <1>2, <2>2, <2>3 DEF LastScan
    <2>5. CASE side_there /\ side_current = 0
      <3> DEFINE x == Sidebar!NewIndex(f)
      <3>1. x \in IndexState /\ x.folder = f /\ x.pc = "idle" /\ x.manifest = 0
        BY <2>2 DEF Sidebar!NewIndex, IndexState
      <3>2. ~x.disposed /\ ~x.again /\ x.soon
        BY DEF Sidebar!NewIndex
      <3>3. side_indexes' = Append(side_indexes, x) /\ side_current' = Len(side_indexes) + 1
        BY <2>1, <2>5
      <3> HIDE DEF x
      <3>4. /\ side_indexes' \in Seq(IndexState) /\ Len(side_indexes') = Len(side_indexes) + 1
            /\ DOMAIN side_indexes' = DOMAIN side_indexes \union {Len(side_indexes) + 1}
            /\ side_indexes'[Len(side_indexes) + 1] = x
            /\ \A i \in DOMAIN side_indexes : side_indexes'[i] = side_indexes[i]
        BY <1>1, <3>1, <3>3
      <3>5. IndexOk(x)
        BY <3>1, <3>2 DEF IndexOk
      <3>6. \A i \in DOMAIN side_indexes' : IndexOk(side_indexes'[i])
        BY <3>4, <3>5
      <3>7. SideTypes'
        BY <1>1, <1>2, <2>2, <2>3, <3>3, <3>4 DEF SideTypes
      <3>8. OneLives'
        BY <1>1, <2>2, <2>3, <2>5, <3>2, <3>3, <3>4 DEF OneLives
      <3>9. CurrentIsLatest'
        BY <3>2, <3>3, <3>4 DEF CurrentIsLatest, UpToDate
      <3>10. ScanFindsOpen'
        BY <1>1, <1>2, <2>2, <2>3, <2>4, <2>5, <3>1, <3>3, <3>4 DEF ScanFindsOpen, ListedIsOpen
      <3> QED  BY <3>6, <3>7, <3>8, <3>9, <3>10
    <2>6. CASE ~(side_there /\ side_current = 0)
      <3>1. side_indexes' = side_indexes /\ side_current' = side_current
        BY <2>1, <2>6
      <3>2. SideTypes' /\ OneLives' /\ CurrentIsLatest'
        BY <1>2, <2>2, <2>3, <3>1 DEF SideTypes, OneLives, CurrentIsLatest
      <3>3. ScanFindsOpen'
        BY <1>2, <2>2, <2>3, <2>4, <2>6, <3>1 DEF ScanFindsOpen, ListedIsOpen
      <3> QED  BY <3>1, <3>2, <3>3
    <2> QED  BY <2>5, <2>6
  <1>7. CASE Sidebar!EndScan
    <2>1. /\ side_scan.pc = "add" /\ side_scan.left = {} /\ side_scan' = Sidebar!NoScan
          /\ side_scans' = side_scans - 1 /\ side_indexes' = side_indexes /\ side_current' = side_current
      BY <1>7 DEF Sidebar!EndScan
    <2>2. side_scan' \in ScanState /\ side_scan'.pc = "no"
      BY <2>1 DEF Sidebar!NoScan, ScanState
    <2>3. side_scans > 0
      BY <2>1 DEF OneLives
    <2>4. SideTypes' /\ OneLives' /\ CurrentIsLatest'
      BY <1>1, <1>2, <2>1, <2>2, <2>3 DEF SideTypes, OneLives, CurrentIsLatest
    <2>5. LastScan' => LastScan
      BY <1>1, <1>2, <2>1, <2>2, <2>3 DEF LastScan
    <2>6. ScanFindsOpen'
      BY <1>2, <2>1, <2>2, <2>5 DEF ScanFindsOpen, ListedIsOpen
    <2> QED  BY <2>1, <2>4, <2>6
  <1> QED  BY <1>4, <1>5, <1>6, <1>7

\* A folder, a checkout or the tree changes, or another scan is asked for: the indexes are as they were.
LEMMA MoveKeeps ==
  ASSUME SideInv, Sidebar!MoveFolder \/ Sidebar!Switch \/ Sidebar!ChangeTree \/ Sidebar!Rescan
  PROVE  SideInv'
  <1> USE DEF SideInv
  <1>1. UNCHANGED << side_indexes, side_current, side_scan, side_trusted, side_missed >>
    BY DEF Sidebar!MoveFolder, Sidebar!Switch, Sidebar!ChangeTree, Sidebar!Rescan
  <1>2. side_scans \in Nat /\ side_tree \in Nat /\ side_open \subseteq Folders
    BY DEF SideTypes
  <1>3. ASSUME side_scans' = side_scans + 1 PROVE ~LastScan'
    BY <1>1, <1>2, <1>3 DEF LastScan, OneLives
  <1>4. CASE Sidebar!MoveFolder
    <2>1. PICK f \in Folders : side_open' = IF f \in side_open THEN side_open \ {f}
                 ELSE side_open \union {f}
      BY <1>4 DEF Sidebar!MoveFolder
    <2>2. side_open' \subseteq Folders
      BY <1>2, <2>1
    <2>3. side_scans' = side_scans + 1 /\ UNCHANGED << side_there, side_tree, side_rescanTimer, side_events >>
      BY <1>4 DEF Sidebar!MoveFolder
    <2>4. SideTypes' /\ OneLives' /\ CurrentIsLatest'
      BY <1>1, <1>2, <2>2, <2>3 DEF SideTypes, OneLives, CurrentIsLatest
    <2> QED  BY <1>1, <1>3, <2>3, <2>4 DEF ScanFindsOpen
  <1>5. CASE Sidebar!Switch
    <2>1. side_events' = side_events \union {"package"} /\ UNCHANGED << side_open, side_tree, side_scans, side_rescanTimer >>
      BY <1>5 DEF Sidebar!Switch
    <2>2. SideTypes' /\ OneLives' /\ CurrentIsLatest'
      BY <1>1, <2>1 DEF SideTypes, OneLives, CurrentIsLatest
    <2>3. ~LastScan'
      BY <2>1 DEF LastScan
    <2> QED  BY <1>1, <2>2, <2>3 DEF ScanFindsOpen
  <1>6. CASE Sidebar!ChangeTree
    <2>1. PICK kind \in {"python", "build"} : side_events' = side_events \union {kind}
      BY <1>6 DEF Sidebar!ChangeTree
    <2>2. side_tree' = side_tree + 1 /\ UNCHANGED << side_open, side_there, side_scans, side_rescanTimer >>
      BY <1>6 DEF Sidebar!ChangeTree
    <2>3. ~(side_events' \subseteq {"package"})
      BY <2>1
    <2>4. SideTypes' /\ OneLives' /\ CurrentIsLatest'
      BY <1>1, <1>2, <2>2, <2>3 DEF SideTypes, OneLives, CurrentIsLatest
    <2>5. LastScan' => LastScan
      BY <1>1, <2>1, <2>2 DEF LastScan
    <2> QED  BY <1>1, <2>2, <2>4, <2>5 DEF ScanFindsOpen, ListedIsOpen
  <1>7. CASE Sidebar!Rescan
    <2>1. side_scans' = side_scans + 1 /\ UNCHANGED << side_open, side_there, side_tree, side_events >>
      BY <1>7 DEF Sidebar!Rescan
    <2>2. SideTypes' /\ OneLives' /\ CurrentIsLatest'
      BY <1>1, <1>2, <2>1 DEF SideTypes, OneLives, CurrentIsLatest
    <2> QED  BY <1>1, <1>3, <2>1, <2>2 DEF ScanFindsOpen
  <1> QED  BY <1>4, <1>5, <1>6, <1>7

\* A change reported of a file has its index refreshed, or the folders scanned again.
LEMMA FileChangeKeeps ==
  ASSUME SideInv, NEW kind \in {"python", "build", "package"}, Sidebar!onFileChange(kind)
  PROVE  SideInv'
  <1> DEFINE affects == kind = "build" \/ (kind = "python" /\ side_indexes[side_current].kernelsRoot)
             told == side_current # 0 /\ affects
  <1>1. /\ kind \in side_events /\ side_events' = side_events \ {kind}
        /\ side_rescanTimer' = (side_rescanTimer \/ kind \in {"build", "package"})
        /\ side_missed' = (side_missed \/ (kind = "python" /\ side_current # 0 /\ ~told))
        /\ UNCHANGED << side_open, side_there, side_tree, side_trusted, side_current, side_scans, side_scan >>
    BY DEF Sidebar!onFileChange
  <1>2. ~side_missed' => ~side_missed
    BY <1>1, Zenon
  <1>3. LastScan' => LastScan
    <2>1. ~side_rescanTimer' => ~side_rescanTimer /\ kind # "package"
      BY <1>1, Zenon
    <2> QED  BY <1>1, <2>1 DEF LastScan
  <1>4. CASE told
    <2> DEFINE x == side_indexes[side_current]
               y == [x EXCEPT !.timer = TRUE]
    <2>1. side_indexes' = [side_indexes EXCEPT ![side_current] = y]
      BY <1>4 DEF Sidebar!onFileChange
    <2>2. side_current \in DOMAIN side_indexes /\ x \in IndexState /\ IndexOk(x) /\ side_trusted \in BOOLEAN
      BY <1>4 DEF SideInv, SideTypes
    <2>3. /\ y \in IndexState /\ y.folder = x.folder /\ y.disposed = x.disposed /\ y.manifest = x.manifest
          /\ y.pc = x.pc /\ y.again = x.again /\ y.timer
      BY <2>2 DEF IndexState
    <2> HIDE DEF y
    <2>4. IndexOk(y) /\ UpToDate(y, side_tree)
      BY <2>2, <2>3 DEF IndexOk, UpToDate
    <2> QED  BY <1>1, <1>3, <2>1, <2>2, <2>3, <2>4, IndexStepKeeps
  <1>5. CASE ~told
    <2>1. side_indexes' = side_indexes
      BY <1>5 DEF Sidebar!onFileChange
    <2>2. SideTypes' /\ OneLives'
      BY <1>1, <2>1 DEF SideInv, SideTypes, OneLives
    <2>3. ScanFindsOpen'
      BY <1>1, <1>3, <2>1 DEF SideInv, ScanFindsOpen, ListedIsOpen
    <2>4. ASSUME side_current # 0, ~side_missed', side_events' \subseteq {"package"}
          PROVE  ~side_missed /\ side_events \subseteq {"package"}
      <3>1. ~side_missed
        BY <1>2, <2>4
      <3>2. kind # "build"
        BY <1>5, <2>4
      <3>3. kind # "python"
        BY <1>1, <1>5, <2>4, Zenon
      <3> QED  BY <1>1, <2>4, <3>1, <3>2, <3>3
    <2>5. CurrentIsLatest'
      BY <1>1, <2>1, <2>4 DEF SideInv, CurrentIsLatest
    <2> QED  BY <2>1, <2>2, <2>3, <2>5 DEF SideInv
  <1> QED  BY <1>4, <1>5

\* The refresh command has the live index load again, whatever it was doing.
LEMMA RefreshAllKeeps ==
  ASSUME SideInv, NEW b \in BOOLEAN, Sidebar!RefreshAll(b), side_trusted' = b
  PROVE  SideInv'
  <1> DEFINE x == side_indexes[side_current]
             y == Sidebar!refreshed(x, b)
  <1>1. /\ side_current # 0 /\ side_indexes' = [side_indexes EXCEPT ![side_current] = y]
        /\ UNCHANGED << side_open, side_there, side_tree, side_current, side_scans, side_scan, side_rescanTimer,
                        side_events, side_missed >>
    BY DEF Sidebar!RefreshAll
  <1>2. /\ side_current \in DOMAIN side_indexes /\ x \in IndexState /\ IndexOk(x) /\ side_tree \in Nat
        /\ ~x.disposed
    BY <1>1 DEF SideInv, SideTypes, OneLives
  <1>3. /\ y \in IndexState /\ IndexOk(y) /\ y.folder = x.folder /\ y.disposed = x.disposed
        /\ b /\ ~x.disposed => UpToDate(y, side_tree)
    BY <1>2, RefreshedIsLatest
  <1>4. LastScan' => LastScan
    BY <1>1 DEF LastScan
  <1> HIDE DEF y
  <1>5. side_trusted' => UpToDate(y, side_tree)
    BY <1>2, <1>3
  <1> QED  BY <1>1, <1>2, <1>3, <1>4, <1>5, IndexStepKeeps

\* Every scan, load, report, change of the folders and grant of trust keeps the invariant.
LEMMA SideStepKeeps == ASSUME SideInv, [Sidebar!Next]_(Sidebar!kvars) PROVE SideInv'
  <1>1. CASE Sidebar!refreshKernels
    <2>1. side_trusted \in BOOLEAN
      BY DEF SideInv, SideTypes
    <2> QED  BY <1>1, <2>1, RefreshAllKeeps DEF Sidebar!refreshKernels
  <1>2. CASE Sidebar!Grant
    <2>1. CASE Sidebar!RefreshAll(TRUE)
      BY <1>2, <2>1, RefreshAllKeeps DEF Sidebar!Grant
    <2>2. CASE /\ side_current = 0
               /\ UNCHANGED << side_open, side_there, side_tree, side_indexes, side_current, side_scans, side_scan,
                               side_rescanTimer, side_events, side_missed >>
      <3>1. side_trusted' \in BOOLEAN
        BY <1>2 DEF Sidebar!Grant
      <3>2. SideTypes' /\ OneLives' /\ CurrentIsLatest'
        BY <2>2, <3>1 DEF SideInv, SideTypes, OneLives, CurrentIsLatest
      <3>3. ScanFindsOpen'
        BY <2>2 DEF SideInv, ScanFindsOpen, LastScan, ListedIsOpen
      <3> QED  BY <2>2, <3>2, <3>3 DEF SideInv
    <2> QED  BY <1>2, <2>1, <2>2 DEF Sidebar!Grant
  <1>3. CASE UNCHANGED Sidebar!kvars
    <2>1. UNCHANGED << side_open, side_there, side_tree, side_trusted, side_indexes, side_current, side_scans,
                       side_scan, side_rescanTimer, side_events, side_missed >>
      BY <1>3 DEF Sidebar!kvars
    <2> QED  BY <2>1 DEF SideInv, SideTypes, OneLives, ScanFindsOpen, LastScan, ListedIsOpen,
                CurrentIsLatest
  <1> QED  BY <1>1, <1>2, <1>3, LoadStepKeeps, ScanStepKeeps, MoveKeeps, FileChangeKeeps DEF Sidebar!Next

\* Once nothing is under way, what is listed is what is open, as it is.
LEMMA SidebarIsRight ==
  ASSUME SideInv
  PROVE  /\ Sidebar!OneLiveIndex /\ Sidebar!ListsOpenCheckouts
         /\ Sidebar!ManifestIsLatest /\ Sidebar!DisposedStaysEmpty
  <1>1. /\ side_indexes \in Seq(IndexState) /\ DOMAIN side_indexes = 1..Len(side_indexes)
        /\ side_current \in 0..Len(side_indexes) /\ side_scan \in ScanState
    BY DEF SideInv, SideTypes
  <1>2. Sidebar!OneLiveIndex
    BY DEF SideInv, OneLives, Sidebar!OneLiveIndex
  <1>3. Sidebar!DisposedStaysEmpty
    BY DEF SideInv, IndexOk, Sidebar!DisposedStaysEmpty
  <1>4. ASSUME Sidebar!Quiet PROVE side_scan.pc = "no" /\ LastScan
    BY <1>1, <1>4 DEF SideInv, OneLives, LastScan, ScanState, Sidebar!Quiet
  <1>5. Sidebar!ListsOpenCheckouts
    BY <1>4 DEF SideInv, ScanFindsOpen, ListedIsOpen, Sidebar!ListsOpenCheckouts
  <1>6. ASSUME Sidebar!Quiet, side_current # 0, side_trusted, ~side_missed
        PROVE  side_indexes[side_current].manifest = IF side_tree \in Broken THEN 0 ELSE side_tree
    <2> DEFINE x == side_indexes[side_current]
    <2>1. side_current \in DOMAIN side_indexes /\ side_events = {}
      BY <1>1, <1>6 DEF Sidebar!Quiet
    <2>2. x.pc \in {"idle", "left"} /\ ~x.soon /\ ~x.timer
      BY <1>6, <2>1 DEF Sidebar!Quiet
    <2>3. ~x.disposed /\ IndexOk(x)
      BY <1>6, <2>1 DEF SideInv, OneLives
    <2>4. x.pc = "idle" /\ ~x.again
      BY <2>2, <2>3 DEF IndexOk
    <2>5. UpToDate(x, side_tree)
      BY <1>6, <2>1 DEF SideInv, CurrentIsLatest
    <2> QED  BY <2>2, <2>4, <2>5 DEF UpToDate
  <1>7. Sidebar!ManifestIsLatest
    BY <1>6 DEF Sidebar!ManifestIsLatest
  <1> QED  BY <1>2, <1>3, <1>5, <1>7

\* One index of the checkout lives, and the sidebar lists what is open, as it is (kernels.js).
THEOREM SidebarIsCurrent ==
  Sidebar!Spec => [](/\ Sidebar!OneLiveIndex /\ Sidebar!ListsOpenCheckouts
                     /\ Sidebar!ManifestIsLatest /\ Sidebar!DisposedStaysEmpty)
  BY SideInit, SideStepKeeps, SidebarIsRight, PTL DEF Sidebar!Spec

-----------------------------------------------------------------------------
(* The checks of a document. *)

Readable == {TextOf[i] : i \in 1..Len(TextOf)} \union {"none"}
RefreshState ==
    [pc : {"root", "pick", "probe", "stamp", "run", "await", "over"}, life : Nat, force : BOOLEAN,
     version : Nat, text : Readable, argv : {"none", "direct", "bazel"}, against : Nat, kept : BOOLEAN,
     asked : Nat, turn : Nat, stamp : Nat, gone : BOOLEAN, superseded : BOOLEAN, awaits : Nat]

\* Those that have not started a process.
Before == {"root", "pick", "probe", "stamp"}

CheckTypes ==
    /\ refreshes \in Seq(RefreshState)
    /\ doc \in [open : BOOLEAN, life : Nat, version : 1..Len(TextOf)]
    /\ on \in BOOLEAN /\ trusted \in BOOLEAN /\ starting \in BOOLEAN /\ timer \in BOOLEAN
    /\ latest \in Nat /\ running \in Nat /\ front \in Nat /\ overtaken \in BOOLEAN
    /\ checked \in Nat /\ released \in Nat /\ waiters \in SUBSET Nat
    /\ tool \in [binary : {"unresolved", "built", "none"}, stamp : Nat,
                 command : {"undefined", "direct", "bazel"}]
    /\ build \in [pc : {"no", "walk", "build"}, stamp : Nat]
    /\ time \in Nat

\* A function on an initial segment of the numbers is a sequence.
LEMMA FunctionIsSeq ==
  ASSUME NEW X, NEW n \in Nat, NEW f \in [1..n -> X]
  PROVE  f \in Seq(X) /\ Len(f) = n
  OBVIOUS

\* The greater of two numbers is one of them.
LEMMA MaxTwo == ASSUME NEW a \in Nat, NEW b \in Nat
  PROVE Max({a, b}) \in Nat /\ Max({a, b}) \in {a, b} /\ Max({a, b}) >= a /\ Max({a, b}) >= b
  <1>1. \E m \in {a, b} : \A y \in {a, b} : m >= y
    OBVIOUS
  <1> QED  BY <1>1 DEF Max

\* A set of numbers that is not empty has a least one.
LEMMA LeastOf ==
  ASSUME NEW S \in SUBSET Nat, S # {}
  PROVE  \E m \in S : \A n \in S : m <= n
  <1> DEFINE Less == {p \in Nat \X Nat : p[1] < p[2]}
  <1>1. IsWellFoundedOn(Less, Nat)
    BY NatLessThanWellFounded DEF OpToRel
  <1> HIDE DEF Less
  <1>2. PICK m \in S : \A n \in S : ~(<< n, m >> \in Less)
    BY <1>1, WFMin
  <1>3. \A n \in S : ~(n < m)
    BY <1>2 DEF Less
  <1> QED  BY <1>3

\* Of finitely many refreshes one is the greatest, by whatever they are compared.
LEMMA GreatestOf ==
  ASSUME NEW n \in Nat, NEW S \in SUBSET (1..n), S # {}, NEW f, \A s \in S : f[s] \in Nat
  PROVE  \E s \in S : \A t \in S : f[t] <= f[s]
  <1> DEFINE Good(k) == \A T \in SUBSET S :
                          T # {} /\ (\A t \in T : t <= k) => \E s \in T : \A t \in T : f[t] <= f[s]
             Bad == {k \in Nat : ~Good(k)}
  <1>0. \A t \in S : t \in Nat /\ 1 <= t /\ t <= n
    OBVIOUS
  <1>1. ASSUME Bad # {} PROVE FALSE
    <2>1. PICK k \in Bad : \A j \in Bad : k <= j
      <3> HIDE DEF Bad
      <3>1. Bad \in SUBSET Nat
        BY DEF Bad
      <3> QED  BY <1>1, <3>1, LeastOf
    <2>2. PICK T \in SUBSET S : T # {} /\ (\A t \in T : t <= k) /\ ~\E s \in T : \A t \in T : f[t] <= f[s]
      OBVIOUS
    <2>3. k \in Nat \ {0} /\ k - 1 \in Nat
      <3>1. PICK t \in T : TRUE
        BY <2>2
      <3>2. t \in Nat /\ 1 <= t /\ t <= k /\ k \in Nat
        BY <1>0, <2>2, <3>1
      <3> QED  BY <3>2
    <2>4. Good(k - 1)
      <3>1. k - 1 \notin Bad
        <4> HIDE DEF Bad
        <4> QED  BY <2>1, <2>3
      <3> QED  BY <2>3, <3>1
    <2>5. \A t \in T : t # k => t <= k - 1
      BY <1>0, <2>2, <2>3
    <2>6. k \in T
      BY <2>2, <2>4, <2>5
    <2>7. CASE T \ {k} = {}
      BY <2>2, <2>6, <2>7
    <2>8. CASE T \ {k} # {}
      <3>1. PICK s \in T \ {k} : \A t \in T \ {k} : f[t] <= f[s]
        BY <2>4, <2>5, <2>8
      <3>2. f[s] \in Nat /\ f[k] \in Nat /\ s \in T /\ \A t \in T : f[t] \in Nat
        BY <2>6
      <3>3. CASE f[k] <= f[s]
        BY <2>2, <3>1, <3>2, <3>3
      <3>4. CASE f[s] <= f[k]
        BY <2>2, <2>6, <3>1, <3>2, <3>4
      <3> QED  BY <3>2, <3>3, <3>4
    <2> QED  BY <2>7, <2>8
  <1>2. Good(n)
    BY <1>1
  <1> QED  BY <1>0, <1>2

-----------------------------------------------------------------------------
\* What a step does to the refreshes: all that matters of one stays,
Stays(s) ==
    /\ refreshes'[s].pc = refreshes[s].pc /\ refreshes'[s].life = refreshes[s].life
    /\ refreshes'[s].version = refreshes[s].version /\ refreshes'[s].text = refreshes[s].text
    /\ refreshes'[s].superseded = refreshes[s].superseded
    /\ refreshes'[s].awaits = refreshes[s].awaits
    /\ refreshes'[s].against = refreshes[s].against
    /\ refreshes'[s].kept => refreshes[s].kept

Rest(S) == \A s \in Refreshes \ S : Stays(s)

\* it takes the text when it has found its checkout,
Takes(s) ==
    /\ refreshes'[s].life = refreshes[s].life /\ refreshes'[s].version = refreshes[s].version
    /\ refreshes'[s].text = IF refreshes[s].pc = "root" THEN Text ELSE refreshes[s].text

\* some go on to another await before their process starts,
Goes(S) ==
    /\ S \subseteq {s \in Refreshes : refreshes[s].pc \in Before} /\ Rest(S)
    /\ \A s \in S : /\ Takes(s) /\ refreshes'[s].pc \in {"pick", "probe", "stamp"}
                    /\ refreshes'[s].pc = "pick" =>
                         tool.binary = "built" /\ refreshes'[s].against = tool.stamp /\ tool' = tool
    /\ UNCHANGED runVars

\* some start theirs,
Spawns(S) ==
    /\ S \subseteq {s \in Refreshes : refreshes[s].pc \in Before}
    /\ Rest(S \union {running})
    /\ running' \in S /\ front' \in S \union {front}
    /\ \A s \in S \union {front} : s <= front'
    /\ \A s \in S : /\ Takes(s) /\ refreshes'[s].pc = "run"
                    /\ refreshes'[s].superseded = (s # running')
    /\ running \in Refreshes \ S =>
         /\ refreshes'[running].superseded
         /\ refreshes'[running].pc = refreshes[running].pc
         /\ refreshes'[running].life = refreshes[running].life
         /\ refreshes'[running].version = refreshes[running].version
         /\ refreshes'[running].text = refreshes[running].text
         /\ refreshes'[running].awaits = refreshes[running].awaits
         /\ refreshes'[running].against = refreshes[running].against
         /\ refreshes'[running].kept = refreshes[running].kept
    /\ ~overtaken' => ~overtaken /\ running' = front' /\ \A s \in S : front <= s

\* or one is over.
Ends(r) == refreshes'[r].pc = "over" /\ Rest({r})

Same == DOMAIN refreshes' = DOMAIN refreshes /\ Len(refreshes') = Len(refreshes)

\* Refreshes that are each rewritten are as many as they were.
LEMMA Mapped ==
  ASSUME CheckTypes, refreshes' = [s \in Refreshes |-> refreshes'[s]],
         \A s \in Refreshes : refreshes'[s] \in RefreshState
  PROVE  refreshes' \in Seq(RefreshState) /\ Same
  <1>1. Refreshes = 1..Len(refreshes) /\ Len(refreshes) \in Nat
    BY DEF CheckTypes, Refreshes
  <1>2. refreshes' \in [1..Len(refreshes) -> RefreshState]
    BY <1>1
  <1>3. refreshes' \in Seq(RefreshState) /\ Len(refreshes') = Len(refreshes)
    BY <1>1, <1>2, FunctionIsSeq, Zenon
  <1>4. DOMAIN refreshes' = 1..Len(refreshes)
    BY <1>2
  <1> QED  BY <1>1, <1>3, <1>4 DEF Same, Refreshes

\* One refresh is rewritten, the others stay.
LEMMA Edited ==
  ASSUME CheckTypes, NEW r \in Refreshes, NEW v \in RefreshState, refreshes' = [refreshes EXCEPT ![r] = v]
  PROVE  /\ refreshes' \in Seq(RefreshState) /\ Same
         /\ refreshes'[r] = v /\ \A s \in Refreshes \ {r} : refreshes'[s] = refreshes[s]
  BY DEF CheckTypes, Refreshes, Same

\* The refresh that begins, and the one that is over.
LEMMA OverType == /\ NewRefresh \in RefreshState /\ NewRefresh.pc = "root" /\ ~NewRefresh.superseded
                  /\ Over \in RefreshState /\ Over.pc = "over"
  <1>1. NewRefresh \in RefreshState
    BY DEF NewRefresh, RefreshState, Readable
  <1>2. NewRefresh.pc = "root" /\ ~NewRefresh.superseded
    BY DEF NewRefresh
  <1>3. Over \in RefreshState /\ Over.pc = "over"
    BY <1>1 DEF Over, RefreshState
  <1> QED  BY <1>1, <1>2, <1>3


RunTypes == running \in Nat /\ front \in Nat /\ overtaken \in BOOLEAN

\* Each refresh is one, numbered from 1, and the text on screen is a text of the document.
LEMMA OnesType ==
  ASSUME CheckTypes
  PROVE  /\ Refreshes = 1..Len(refreshes) /\ Len(refreshes) \in Nat
         /\ \A s \in Refreshes : refreshes[s] \in RefreshState /\ s \in Nat \ {0}
         /\ Text \in Readable
  <1>1. doc.version \in 1..Len(TextOf)
    BY DEF CheckTypes
  <1>2. Text \in Readable
    BY <1>1 DEF Text, Readable
  <1>3. /\ Refreshes = 1..Len(refreshes) /\ Len(refreshes) \in Nat
        /\ \A s \in Refreshes : refreshes[s] \in RefreshState /\ s \in Nat \ {0}
    BY DEF CheckTypes, Refreshes
  <1> QED  BY <1>2, <1>3

\* Stopping a process changes nothing else of its refresh.
LEMMA StopOne ==
  ASSUME NEW q \in RefreshState, NEW p, p = [q EXCEPT !.superseded = TRUE]
  PROVE  /\ p \in RefreshState /\ p.superseded = TRUE /\ p.pc = q.pc /\ p.life = q.life
         /\ p.version = q.version /\ p.text = q.text /\ p.awaits = q.awaits /\ p.against = q.against
         /\ p.kept = q.kept
  BY DEF RefreshState

\* A start of processes stops the one that ran, and leaves the last of them to hold the key (Spawn).
LEMMA SpawnSteps ==
  ASSUME CheckTypes, NEW S \in SUBSET {s \in Refreshes : refreshes[s].pc \in Before}, S # {}, NEW records,
         \A s \in S : /\ records[s] \in RefreshState
                      /\ records[s].life = refreshes[s].life /\ records[s].version = refreshes[s].version
                      /\ records[s].text = IF refreshes[s].pc = "root" THEN Text ELSE refreshes[s].text,
         Spawn(S, records)
  PROVE  refreshes' \in Seq(RefreshState) /\ Same /\ RunTypes' /\ Spawns(S)
  <1> DEFINE n == Len(refreshes)
             last == Last(S)
             Started(s) == [records[s] EXCEPT !.pc = "run", !.superseded = (s # last),
                                              !.gone = (records[s].argv = "direct" /\ ~disk.there)]
  <1>1. /\ Refreshes = 1..n /\ n \in Nat
        /\ \A s \in Refreshes : refreshes[s] \in RefreshState /\ s \in Nat \ {0}
    BY OnesType
  <1>2. /\ last \in S
        /\ \A s \in S : refreshes[s].turn <= refreshes[last].turn
    <2>1. PICK f : f = [s \in Refreshes |-> refreshes[s].turn]
      OBVIOUS
    <2>2. S \in SUBSET (1..n) /\ \A s \in S : f[s] \in Nat /\ f[s] = refreshes[s].turn
      BY <1>1, <2>1 DEF RefreshState
    <2>3. \E s \in S : \A t \in S : f[t] <= f[s]
      BY <1>1, <2>2, GreatestOf
    <2>4. \E s \in S : \A t \in S : refreshes[t].turn <= refreshes[s].turn
      BY <2>2, <2>3
    <2> QED  BY <2>4 DEF Last
  <1>3. /\ front' \in S \union {front}
        /\ \A s \in S \union {front} : s <= front'
    <2>1. S \union {front} \in SUBSET Nat /\ front \in Nat /\ \A s \in S : s <= n
      BY <1>1 DEF CheckTypes
    <2>2. PICK f : f = [s \in 1..n |-> s]
      OBVIOUS
    <2>3. \E s \in S : \A t \in S : f[t] <= f[s]
      <3>1. S \in SUBSET (1..n) /\ \A s \in S : f[s] \in Nat
        BY <1>1, <2>2
      <3> QED  BY <1>1, <3>1, GreatestOf
    <2>4. PICK s \in S : \A t \in S : t <= s
      BY <1>1, <2>2, <2>3
    <2>5. \E m \in S \union {front} : \A t \in S \union {front} : m >= t
      <3>1. CASE s <= front
        BY <2>1, <2>4, <3>1
      <3>2. CASE front <= s
        BY <2>1, <2>4, <3>2
      <3> QED  BY <2>1, <3>1, <3>2
    <2>6. Max(S \union {front}) \in S \union {front}
          /\ \A t \in S \union {front} : Max(S \union {front}) >= t
      BY <2>5 DEF Max
    <2> QED  BY <2>1, <2>6 DEF Spawn
  <1> HIDE DEF last
  <1>4. \A s \in S : /\ Started(s) \in RefreshState
                     /\ Started(s).pc = "run" /\ Started(s).superseded = (s # last)
                     /\ Started(s).life = refreshes[s].life /\ Started(s).version = refreshes[s].version
                     /\ Started(s).text = IF refreshes[s].pc = "root" THEN Text ELSE refreshes[s].text
    <2> SUFFICES ASSUME NEW s \in S
        PROVE /\ Started(s) \in RefreshState
              /\ Started(s).pc = "run" /\ Started(s).superseded = (s # last)
              /\ Started(s).life = refreshes[s].life /\ Started(s).version = refreshes[s].version
              /\ Started(s).text = IF refreshes[s].pc = "root" THEN Text ELSE refreshes[s].text
      BY Zenon
    <2>1. PICK b \in BOOLEAN, g \in BOOLEAN : b = (s # last) /\ g = (records[s].argv = "direct" /\ ~disk.there)
      OBVIOUS
    <2>2. PICK p : p = [records[s] EXCEPT !.pc = "run", !.superseded = b, !.gone = g]
      OBVIOUS
    <2>3. /\ p \in RefreshState /\ p.pc = "run" /\ p.superseded = b
          /\ p.life = records[s].life /\ p.version = records[s].version
          /\ p.text = records[s].text
      <3>1. records[s] \in RefreshState
        OBVIOUS
      <3> QED  BY <2>2, <3>1 DEF RefreshState
    <2>4. Started(s) = p
      BY <2>1, <2>2, Zenon
    <2> HIDE DEF Started
    <2> QED  BY <2>1, <2>3, <2>4
  <1>5. \A s \in Refreshes :
          /\ refreshes'[s] = IF s \in S THEN Started(s)
                             ELSE IF s = running THEN [refreshes[s] EXCEPT !.superseded = TRUE]
                             ELSE refreshes[s]
          /\ refreshes'[s] \in RefreshState
    <2>1. \A s \in Refreshes :
          /\ refreshes'[s] = IF s \in S THEN Started(s)
                             ELSE IF s = running THEN [refreshes[s] EXCEPT !.superseded = TRUE]
                             ELSE refreshes[s]
      BY DEF Spawn, last
    <2>2. \A s \in Refreshes : [refreshes[s] EXCEPT !.superseded = TRUE] \in RefreshState
      BY <1>1, StopOne
    <2> HIDE DEF Started
    <2> QED  BY <1>1, <1>4, <2>1, <2>2
  <1>6. refreshes' \in Seq(RefreshState) /\ Same
    <2>1. refreshes' = [s \in Refreshes |-> refreshes'[s]]
      BY DEF Spawn
    <2> QED  BY <1>5, <2>1, Mapped
  <1> HIDE DEF Started
  <1>7. running' = last /\ RunTypes'
    BY <1>1, <1>2, <1>3 DEF Spawn, last, RunTypes, CheckTypes
  <1>8. Rest(S \union {running})
    BY <1>5 DEF Rest, Stays
  <1>9. ~overtaken' => ~overtaken /\ running' = front' /\ \A s \in S : front <= s
    <2>1. overtaken' = \/ overtaken
                       \/ \E s \in S : s < front
                       \/ \E s, t \in S : s < t /\ refreshes[s].turn >= refreshes[t].turn
      BY DEF Spawn
    <2>2. front \in Nat /\ \A s \in S : s \in Nat /\ refreshes[s].turn \in Nat
      BY <1>1 DEF CheckTypes, RefreshState
    <2> SUFFICES ASSUME ~overtaken' PROVE ~overtaken /\ running' = front' /\ \A s \in S : front <= s
      OBVIOUS
    <2>3. ~overtaken /\ \A s \in S : front <= s
      BY <2>1, <2>2
    <2>4. \A s \in S : s <= last
      BY <1>2, <2>1, <2>2
    <2>5. front' = last
      BY <1>2, <1>3, <2>2, <2>3, <2>4
    <2> QED  BY <1>7, <2>3, <2>5
  <1>10. running \in Refreshes \ S =>
         /\ refreshes'[running].superseded
         /\ refreshes'[running].pc = refreshes[running].pc
         /\ refreshes'[running].life = refreshes[running].life
         /\ refreshes'[running].version = refreshes[running].version
         /\ refreshes'[running].text = refreshes[running].text
         /\ refreshes'[running].awaits = refreshes[running].awaits
         /\ refreshes'[running].against = refreshes[running].against
         /\ refreshes'[running].kept = refreshes[running].kept
    <2> SUFFICES ASSUME running \in Refreshes \ S
        PROVE /\ refreshes'[running].superseded
              /\ refreshes'[running].pc = refreshes[running].pc
              /\ refreshes'[running].life = refreshes[running].life
              /\ refreshes'[running].version = refreshes[running].version
              /\ refreshes'[running].text = refreshes[running].text
              /\ refreshes'[running].awaits = refreshes[running].awaits
              /\ refreshes'[running].against = refreshes[running].against
              /\ refreshes'[running].kept = refreshes[running].kept
      BY Zenon
    <2>1. refreshes'[running] = [refreshes[running] EXCEPT !.superseded = TRUE]
          /\ refreshes[running] \in RefreshState
      BY <1>1, <1>5
    <2> QED  BY <2>1, StopOne
  <1>11. \A s \in S : /\ Takes(s) /\ refreshes'[s].pc = "run"
                      /\ refreshes'[s].superseded = (s # running')
    BY <1>4, <1>5, <1>7 DEF Takes
  <1> QED  BY <1>2, <1>3, <1>6, <1>7, <1>8, <1>9, <1>10, <1>11 DEF Spawns

\* A refresh whose command is picked goes on to its probe, its sample or its process (Continue).
LEMMA ContinueSteps ==
  ASSUME CheckTypes, NEW r \in Refreshes, refreshes[r].pc \in {"root", "pick"},
         NEW argv \in {"direct", "bazel"}, Continue(r, argv)
  PROVE  refreshes' \in Seq(RefreshState) /\ Same /\ RunTypes' /\ (Goes({r}) \/ Spawns({r}))
  <1> DEFINE p == [refreshes[r] EXCEPT !.argv = argv, !.text = IF refreshes[r].pc = "root" THEN Text ELSE @,
                                       !.kept = TRUE, !.turn = 0]
             At(q, pc) == refreshes' = [refreshes EXCEPT ![r] = [q EXCEPT !.pc = pc]] /\ UNCHANGED runVars
             q == [p EXCEPT !.asked = Probe(r, argv), !.turn = Cardinality(Kept(argv))]
  <1>1. refreshes[r] \in RefreshState /\ Text \in Readable /\ refreshes[r].pc \in Before
    BY OnesType DEF Before
  <1>2. p \in RefreshState /\ p.life = refreshes[r].life /\ p.version = refreshes[r].version
        /\ p.text = IF refreshes[r].pc = "root" THEN Text ELSE refreshes[r].text
    BY <1>1 DEF RefreshState
  <1>3. Probe(r, argv) \in Nat /\ Cardinality(Kept(argv)) \in Nat
    <2>1. \A s \in Refreshes : refreshes[s].asked \in Nat /\ s \in Nat
      BY OnesType DEF RefreshState
    <2>2. Probe(r, argv) \in Nat
      BY <2>1 DEF Probe, Kept, Asking
    <2>3. IsFiniteSet(Kept(argv))
      <3>1. Kept(argv) \subseteq 1..Len(refreshes) /\ Len(refreshes) \in Nat
        BY OnesType DEF Kept, Asking
      <3>2. IsFiniteSet(1..Len(refreshes))
        BY <3>1, FS_Interval
      <3> QED  BY <3>1, <3>2, FS_Subset, Zenon
    <2> QED  BY <2>2, <2>3, FS_CardinalityType
  <1> HIDE DEF p
  <1>4. q \in RefreshState /\ q.life = p.life /\ q.version = p.version /\ q.text = p.text
    BY <1>2, <1>3 DEF RefreshState
  <1> HIDE DEF q
  <1>5. ASSUME NEW o \in {p, q}, NEW pc \in {"probe", "stamp"}, At(o, pc)
        PROVE  refreshes' \in Seq(RefreshState) /\ Same /\ RunTypes' /\ Goes({r})
    <2>1. PICK v : v = [o EXCEPT !.pc = pc]
      OBVIOUS
    <2>2. /\ v \in RefreshState /\ v.pc = pc /\ v.life = refreshes[r].life /\ v.version = refreshes[r].version
          /\ v.text = IF refreshes[r].pc = "root" THEN Text ELSE refreshes[r].text
      BY <1>2, <1>4, <2>1 DEF RefreshState
    <2>3. refreshes' = [refreshes EXCEPT ![r] = v] /\ UNCHANGED runVars
      BY <1>5, <2>1
    <2>4. /\ refreshes' \in Seq(RefreshState) /\ Same
          /\ refreshes'[r] = v /\ \A s \in Refreshes \ {r} : refreshes'[s] = refreshes[s]
      BY <2>2, <2>3, Edited
    <2>5. Rest({r})
      BY <2>4 DEF Rest, Stays
    <2> QED  BY <1>1, <2>2, <2>3, <2>4, <2>5 DEF Goes, Takes, runVars, RunTypes, CheckTypes
  <1>6. ASSUME Spawn({r}, [s \in {r} |-> p])
        PROVE  refreshes' \in Seq(RefreshState) /\ Same /\ RunTypes' /\ Spawns({r})
    <2>1. PICK S : S = {r}
      OBVIOUS
    <2>2. S \in SUBSET {s \in Refreshes : refreshes[s].pc \in Before} /\ S # {}
      BY <1>1, <2>1
    <2>3. PICK records : records = [s \in {r} |-> p]
      OBVIOUS
    <2>4. \A s \in S : /\ records[s] \in RefreshState
                       /\ records[s].life = refreshes[s].life /\ records[s].version = refreshes[s].version
                       /\ records[s].text = IF refreshes[s].pc = "root" THEN Text ELSE refreshes[s].text
      <3>1. records[r] = p
        BY <2>3
      <3> QED  BY <1>2, <2>1, <3>1
    <2>5. Spawn(S, records)
      BY <1>6, <2>1, <2>3
    <2>6. refreshes' \in Seq(RefreshState) /\ Same /\ RunTypes' /\ Spawns(S)
      BY <2>2, <2>4, <2>5, SpawnSteps
    <2> QED  BY <2>1, <2>6
  <1>7. \/ At(q, "probe")
        \/ At(p, "stamp")
        \/ Spawn({r}, [s \in {r} |-> p])
    BY Zenon DEF Continue, p, q
  <1> QED  BY <1>5, <1>6, <1>7

\* How a refresh that is over, or waits for another, leaves the rest.
Frees(r) == running' = (IF running = r THEN 0 ELSE running) /\ UNCHANGED << front, overtaken >>
Tells(r) == IF IsOpen(r) THEN Release(refreshes[r].version) ELSE UNCHANGED << released, waiters >>

Passes(S) ==
    /\ Goes(S) \/ Spawns(S)
    /\ UNCHANGED << userVars, latest, pageVars, answerVars >>

Waits(r) ==
    /\ refreshes[r].pc = "run" /\ refreshes[r].superseded /\ ~Unmarked(r) /\ latest # 0
    /\ refreshes'[r].pc = "await" /\ refreshes'[r].awaits = latest
    /\ refreshes'[r].life = refreshes[r].life /\ refreshes'[r].version = refreshes[r].version
    /\ refreshes'[r].text = refreshes[r].text
    /\ Rest({r}) /\ Frees(r)
    /\ UNCHANGED << userVars, latest, pageVars, answerVars >>

EndsUnseen(r) ==
    /\ Ends(r) /\ Tells(r) /\ UNCHANGED << userVars, latest, pageVars, entry >>
    /\ \/ refreshes[r].pc = "root" /\ checked = refreshes[r].version /\ UNCHANGED runVars
       \/ /\ refreshes[r].pc = "run" /\ Frees(r)
          /\ Unmarked(r) \/ latest = 0
       \/ refreshes[r].pc = "await" /\ ~InFlight(refreshes[r].awaits) /\ UNCHANGED runVars

EndsSeen(r) ==
    /\ Ends(r) /\ Tells(r) /\ Frees(r) /\ UNCHANGED << userVars, latest >>
    /\ refreshes[r].pc = "run" /\ ~refreshes[r].superseded /\ ~Unmarked(r)
    /\ \/ shown' = "none" /\ status' = "failed" /\ UNCHANGED << checked, entry >>
       \/ checked' = refreshes[r].version /\ shown' = refreshes[r].text /\ status' = "ok"

Proceeds(r) == (\E S : Passes(S)) \/ Waits(r) \/ EndsUnseen(r) \/ EndsSeen(r)

\* A refresh set to be over is over.
LEMMA OneEnds ==
  ASSUME CheckTypes, NEW r \in Refreshes, refreshes' = [refreshes EXCEPT ![r] = Over]
  PROVE  refreshes' \in Seq(RefreshState) /\ Same /\ Ends(r)
  <1>1. Over \in RefreshState /\ Over.pc = "over"
    BY OverType
  <1>2. /\ refreshes' \in Seq(RefreshState) /\ Same
        /\ refreshes'[r] = Over /\ \A s \in Refreshes \ {r} : refreshes'[s] = refreshes[s]
    BY <1>1, Edited
  <1> QED  BY <1>1, <1>2 DEF Ends, Rest, Stays

\* Giving up the picks under way changes nothing else of them (UnkeepPicks).
LEMMA UnkeptStays ==
  ASSUME CheckTypes, NEW u, u = UnkeepPicks(refreshes)
  PROVE  /\ u \in Seq(RefreshState) /\ DOMAIN u = Refreshes /\ Len(u) = Len(refreshes)
         /\ \A s \in Refreshes :
              /\ u[s] \in RefreshState
              /\ u[s].pc = refreshes[s].pc /\ u[s].life = refreshes[s].life /\ u[s].version = refreshes[s].version
              /\ u[s].text = refreshes[s].text /\ u[s].superseded = refreshes[s].superseded
              /\ u[s].awaits = refreshes[s].awaits /\ u[s].against = refreshes[s].against
              /\ u[s].kept => refreshes[s].kept /\ refreshes[s].pc # "pick"
  <1>2. u = [s \in Refreshes |-> IF refreshes[s].pc = "pick" THEN [refreshes[s] EXCEPT !.kept = FALSE]
                                 ELSE refreshes[s]]
    BY DEF UnkeepPicks, Refreshes
  <1>3. \A s \in Refreshes :
              /\ u[s] \in RefreshState
              /\ u[s].pc = refreshes[s].pc /\ u[s].life = refreshes[s].life /\ u[s].version = refreshes[s].version
              /\ u[s].text = refreshes[s].text /\ u[s].superseded = refreshes[s].superseded
              /\ u[s].awaits = refreshes[s].awaits /\ u[s].against = refreshes[s].against
              /\ u[s].kept => refreshes[s].kept /\ refreshes[s].pc # "pick"
    <2> SUFFICES ASSUME NEW s \in Refreshes
        PROVE /\ u[s] \in RefreshState
              /\ u[s].pc = refreshes[s].pc /\ u[s].life = refreshes[s].life /\ u[s].version = refreshes[s].version
              /\ u[s].text = refreshes[s].text /\ u[s].superseded = refreshes[s].superseded
              /\ u[s].awaits = refreshes[s].awaits /\ u[s].against = refreshes[s].against
              /\ u[s].kept => refreshes[s].kept /\ refreshes[s].pc # "pick"
      BY Zenon
    <2>1. PICK q : q = refreshes[s] /\ q \in RefreshState
      BY OnesType
    <2>2. PICK p : p = [q EXCEPT !.kept = FALSE]
      OBVIOUS
    <2>3. /\ p \in RefreshState /\ p.pc = q.pc /\ p.life = q.life /\ p.version = q.version
          /\ p.text = q.text /\ p.superseded = q.superseded /\ p.awaits = q.awaits /\ p.against = q.against
          /\ p.kept = FALSE /\ q.kept \in BOOLEAN
      BY <2>1, <2>2 DEF RefreshState
    <2>4. u[s] = IF q.pc = "pick" THEN p ELSE q
      BY <1>2, <2>1, <2>2
    <2>5. CASE q.pc = "pick"
      BY <2>1, <2>3, <2>4, <2>5
    <2>6. CASE q.pc # "pick"
      BY <2>1, <2>4, <2>6
    <2> QED  BY <2>5, <2>6
  <1>4. u \in [1..Len(refreshes) -> RefreshState]
    <2>1. Refreshes = 1..Len(refreshes)
      BY OnesType
    <2>2. u = [s \in Refreshes |-> u[s]]
      BY <1>2, Zenon
    <2>3. \A s \in Refreshes : u[s] \in RefreshState
      BY <1>3, Zenon
    <2>4. u \in [Refreshes -> RefreshState]
      BY <2>2, <2>3
    <2> QED  BY <2>1, <2>4, Zenon
  <1>5. u \in Seq(RefreshState) /\ Len(u) = Len(refreshes) /\ DOMAIN u = Refreshes
    <2>1. Len(refreshes) \in Nat
      BY OnesType
    <2>2. u \in Seq(RefreshState) /\ Len(u) = Len(refreshes)
      BY <1>4, <2>1, FunctionIsSeq, Zenon
    <2>3. DOMAIN u = Refreshes
      <3>1. Refreshes = 1..Len(refreshes)
        BY OnesType
      <3> QED  BY <1>4, <3>1
    <2> QED  BY <2>2, <2>3, Zenon
  <1> QED  BY <1>3, <1>5, Zenon

\* A refresh whose checkout is found goes on or is over (Rooted).
LEMMA RootedSteps ==
  ASSUME CheckTypes, NEW r \in Refreshes, Rooted(r)
  PROVE  refreshes' \in Seq(RefreshState) /\ Same /\ RunTypes' /\ Proceeds(r)
  <1>0. refreshes[r].pc = "root" /\ refreshes[r] \in RefreshState /\ Text \in Readable
    BY OnesType DEF Rooted
  <1>1. CASE ~refreshes[r].force /\ checked = refreshes[r].version
    <2>1. Finish(r) /\ UNCHANGED << userVars, latest, pageVars, entry, runVars >>
      BY <1>1 DEF Rooted
    <2>2. refreshes' \in Seq(RefreshState) /\ Same /\ Ends(r)
      BY <2>1, OneEnds DEF Finish
    <2>3. Tells(r) /\ RunTypes'
      BY <2>1 DEF Finish, Tells, RunTypes, runVars, CheckTypes
    <2> QED  BY <1>0, <1>1, <2>1, <2>2, <2>3 DEF EndsUnseen, Proceeds
  <1>2. CASE ~(~refreshes[r].force /\ checked = refreshes[r].version)
    <2>1. UNCHANGED << userVars, latest, pageVars, answerVars >>
      BY <1>2 DEF Rooted, answerVars
    <2>2. CASE tool.command # "undefined" /\ Continue(r, tool.command)
      <3>1. tool.command \in {"direct", "bazel"}
        BY <2>2 DEF CheckTypes
      <3> QED  BY <1>0, <2>1, <2>2, <3>1, ContinueSteps DEF Passes, Proceeds
    <2>3. CASE Continue(r, "bazel")
      BY <1>0, <2>1, <2>3, ContinueSteps DEF Passes, Proceeds
    <2>4. CASE /\ tool.binary = "built" /\ UNCHANGED << tool, runVars >>
               /\ refreshes' = [refreshes EXCEPT ![r] = [refreshes[r] EXCEPT !.pc = "pick", !.text = Text,
                                                                            !.against = tool.stamp]]
      <3>1. PICK v : v = [refreshes[r] EXCEPT !.pc = "pick", !.text = Text, !.against = tool.stamp]
        OBVIOUS
      <3>2. tool.stamp \in Nat
        BY DEF CheckTypes
      <3>3. /\ v \in RefreshState /\ v.pc = "pick" /\ v.life = refreshes[r].life
            /\ v.version = refreshes[r].version /\ v.text = Text /\ v.against = tool.stamp
        BY <1>0, <3>1, <3>2 DEF RefreshState
      <3>4. /\ refreshes' \in Seq(RefreshState) /\ Same
            /\ refreshes'[r] = v /\ \A s \in Refreshes \ {r} : refreshes'[s] = refreshes[s]
        BY <2>4, <3>1, <3>3, Edited
      <3>5. Goes({r})
        BY <1>0, <2>4, <3>3, <3>4 DEF Goes, Rest, Stays, Takes, Before
      <3> QED  BY <2>1, <2>4, <3>4, <3>5 DEF Passes, Proceeds, RunTypes, runVars, CheckTypes
    <2> QED  BY <1>2, <2>2, <2>3, <2>4 DEF Rooted
  <1> QED  BY <1>1, <1>2

\* A refresh whose pick, probe or sample has come goes on (Picked, Probed, Stamped).
LEMMA ProbedSteps ==
  ASSUME CheckTypes, NEW r \in Refreshes, Picked(r) \/ Probed(r) \/ Stamped(r)
  PROVE  refreshes' \in Seq(RefreshState) /\ Same /\ RunTypes' /\ Proceeds(r)
  <1>1. UNCHANGED << userVars, latest, pageVars, answerVars >>
    BY DEF Picked, Probed, Stamped
  <1>2. CASE Picked(r)
    <2>1. checkCommandFor(TRUE, refreshes[r].against) \in {"direct", "bazel"}
      BY DEF checkCommandFor
    <2>2. refreshes[r].pc = "pick" /\ Continue(r, checkCommandFor(TRUE, refreshes[r].against))
      BY <1>2 DEF Picked
    <2> QED  BY <1>1, <2>1, <2>2, ContinueSteps DEF Passes, Proceeds
  <1>3. CASE Probed(r)
    <2> DEFINE S == {s \in Asking : refreshes[s].asked = refreshes[r].asked}
    <2>1. /\ S \in SUBSET {s \in Refreshes : refreshes[s].pc \in Before} /\ S # {}
          /\ \A s \in S : refreshes[s].pc = "probe"
      BY <1>3 DEF Probed, Asking, Before
    <2>2. CASE /\ refreshes' = [s \in Refreshes |-> IF s \in S THEN [refreshes[s] EXCEPT !.pc = "stamp"]
                                                 ELSE refreshes[s]]
               /\ UNCHANGED runVars
      <3> HIDE DEF S
      <3>1. \A s \in Refreshes : \E v : v = [refreshes[s] EXCEPT !.pc = "stamp"]
        OBVIOUS
      <3>2. \A s \in Refreshes : LET v == [refreshes[s] EXCEPT !.pc = "stamp"] IN
              /\ v \in RefreshState /\ v.pc = "stamp" /\ v.life = refreshes[s].life
              /\ v.version = refreshes[s].version /\ v.text = refreshes[s].text
        <4>1. \A s \in Refreshes : refreshes[s] \in RefreshState
          BY OnesType
        <4> QED  BY <4>1 DEF RefreshState
      <3>3. /\ \A s \in S : /\ refreshes'[s] \in RefreshState /\ refreshes'[s].pc = "stamp"
                            /\ refreshes'[s].life = refreshes[s].life
                            /\ refreshes'[s].version = refreshes[s].version
                            /\ refreshes'[s].text = refreshes[s].text
            /\ \A s \in Refreshes \ S : refreshes'[s] = refreshes[s]
        BY <2>1, <2>2, <3>2
      <3>4. refreshes' \in Seq(RefreshState) /\ Same
        <4>1. refreshes' = [s \in Refreshes |-> refreshes'[s]]
          BY <2>2, Zenon
        <4>2. \A s \in Refreshes : refreshes'[s] \in RefreshState
          BY <3>3, OnesType
        <4> QED  BY <4>1, <4>2, Mapped
      <3>5. Goes(S)
        BY <2>1, <2>2, <3>3 DEF Goes, Rest, Stays, Takes
      <3> QED  BY <1>1, <2>2, <3>4, <3>5 DEF Passes, Proceeds, RunTypes, runVars, CheckTypes
    <2>3. CASE Spawn(S, refreshes)
      <3> HIDE DEF S
      <3>1. \A s \in S : /\ refreshes[s] \in RefreshState
                         /\ refreshes[s].text = IF refreshes[s].pc = "root" THEN Text ELSE refreshes[s].text
        BY <2>1, OnesType
      <3>2. refreshes' \in Seq(RefreshState) /\ Same /\ RunTypes' /\ Spawns(S)
        BY <2>1, <2>3, <3>1, SpawnSteps
      <3> QED  BY <1>1, <3>2 DEF Passes, Proceeds
    <2> QED  BY <1>3, <2>2, <2>3 DEF Probed
  <1>4. CASE Stamped(r)
    <2>1. PICK v : v = [refreshes[r] EXCEPT !.stamp = time]
      OBVIOUS
    <2>2. PICK records : records = [s \in {r} |-> v]
      OBVIOUS
    <2>3. refreshes[r].pc = "stamp" /\ Spawn({r}, records)
      BY <1>4, <2>1, <2>2 DEF Stamped
    <2>4. refreshes[r] \in RefreshState /\ time \in Nat
      BY OnesType DEF CheckTypes
    <2>5. v \in RefreshState /\ v.life = refreshes[r].life /\ v.version = refreshes[r].version
          /\ v.text = refreshes[r].text
      BY <2>1, <2>4 DEF RefreshState
    <2>6. PICK S : S = {r}
      OBVIOUS
    <2>7. /\ S \in SUBSET {s \in Refreshes : refreshes[s].pc \in Before} /\ S # {}
          /\ \A s \in S : /\ records[s] \in RefreshState
                          /\ records[s].life = refreshes[s].life /\ records[s].version = refreshes[s].version
                          /\ records[s].text = IF refreshes[s].pc = "root" THEN Text ELSE refreshes[s].text
      BY <2>2, <2>3, <2>5, <2>6 DEF Before
    <2>8. refreshes' \in Seq(RefreshState) /\ Same /\ RunTypes' /\ Spawns(S)
      BY <2>3, <2>6, <2>7, SpawnSteps
    <2> QED  BY <1>1, <2>8 DEF Passes, Proceeds
  <1> QED  BY <1>2, <1>3, <1>4

\* A refresh whose process or whose wait has ended waits or is over.
LEMMA EndSteps ==
  ASSUME CheckTypes, NEW r \in Refreshes,
         EndSuperseded(r) \/ Awaited(r) \/ EndFailed(r) \/ EndFound(r)
  PROVE  refreshes' \in Seq(RefreshState) /\ Same /\ RunTypes' /\ Proceeds(r)
  <1>1. CASE EndSuperseded(r)
    <2>1. /\ refreshes[r].pc = "run" /\ refreshes[r].superseded /\ Frees(r)
          /\ UNCHANGED << userVars, latest, pageVars, entry >> /\ RunTypes'
      BY <1>1 DEF EndSuperseded, Released, Frees, RunTypes, CheckTypes
    <2>2. CASE Unmarked(r) \/ latest = 0
      <3>1. Finish(r)
        BY <1>1, <2>2 DEF EndSuperseded
      <3>2. refreshes' \in Seq(RefreshState) /\ Same /\ Ends(r) /\ Tells(r)
        BY <3>1, OneEnds DEF Finish, Tells
      <3> QED  BY <2>1, <2>2, <3>2 DEF EndsUnseen, Proceeds
    <2>3. CASE ~(Unmarked(r) \/ latest = 0)
      <3>1. PICK q : q = [refreshes[r] EXCEPT !.pc = "await", !.awaits = latest]
        OBVIOUS
      <3>2. refreshes' = [refreshes EXCEPT ![r] = q] /\ UNCHANGED << released, waiters >>
        <4>1. refreshes' = [refreshes EXCEPT ![r].pc = "await", ![r].awaits = latest]
              /\ UNCHANGED << released, waiters >>
          BY <1>1, <2>3 DEF EndSuperseded
        <4> QED  BY <3>1, <4>1 DEF CheckTypes, Refreshes
      <3>3. refreshes[r] \in RefreshState /\ latest \in Nat
        BY OnesType DEF CheckTypes
      <3>4. /\ q \in RefreshState /\ q.pc = "await" /\ q.awaits = latest /\ q.life = refreshes[r].life
            /\ q.version = refreshes[r].version /\ q.text = refreshes[r].text
        BY <3>1, <3>3 DEF RefreshState
      <3>5. /\ refreshes' \in Seq(RefreshState) /\ Same
            /\ refreshes'[r] = q /\ \A s \in Refreshes \ {r} : refreshes'[s] = refreshes[s]
        BY <3>2, <3>4, Edited
      <3>6. Rest({r})
        BY <3>5 DEF Rest, Stays
      <3> QED  BY <2>1, <2>3, <3>2, <3>4, <3>5, <3>6 DEF Waits, Proceeds, answerVars
    <2> QED  BY <2>2, <2>3
  <1>2. CASE Awaited(r)
    <2>1. Finish(r) /\ refreshes[r].pc = "await" /\ ~InFlight(refreshes[r].awaits)
          /\ UNCHANGED << userVars, latest, pageVars, entry, runVars >>
      BY <1>2 DEF Awaited
    <2>2. refreshes' \in Seq(RefreshState) /\ Same /\ Ends(r) /\ Tells(r)
      BY <2>1, OneEnds DEF Finish, Tells
    <2> QED  BY <2>1, <2>2 DEF EndsUnseen, Proceeds, RunTypes, runVars, CheckTypes
  <1>3. ASSUME NEW left, left \in {refreshes, UnkeepPicks(refreshes)},
               refreshes' = [left EXCEPT ![r] = Over]
        PROVE  refreshes' \in Seq(RefreshState) /\ Same /\ Ends(r)
    <2>1. CASE left = refreshes
      BY <1>3, <2>1, OneEnds
    <2>2. CASE left = UnkeepPicks(refreshes)
      <3>1. /\ left \in Seq(RefreshState) /\ DOMAIN left = Refreshes /\ Len(left) = Len(refreshes)
            /\ \A s \in Refreshes :
                 /\ left[s].pc = refreshes[s].pc /\ left[s].life = refreshes[s].life
                 /\ left[s].version = refreshes[s].version
                 /\ left[s].text = refreshes[s].text /\ left[s].superseded = refreshes[s].superseded
                 /\ left[s].awaits = refreshes[s].awaits /\ left[s].against = refreshes[s].against
                 /\ left[s].kept => refreshes[s].kept
        BY <2>2, UnkeptStays
      <3>2. Over \in RefreshState /\ Over.pc = "over"
        BY OverType
      <3>3. /\ refreshes' \in Seq(RefreshState) /\ Len(refreshes') = Len(refreshes)
            /\ DOMAIN refreshes' = Refreshes
            /\ refreshes'[r] = Over /\ \A s \in Refreshes \ {r} : refreshes'[s] = left[s]
        BY <1>3, <3>1, <3>2
      <3>4. Rest({r})
        BY <3>1, <3>3 DEF Rest, Stays
      <3> QED  BY <3>2, <3>3, <3>4 DEF Same, Ends, Refreshes
    <2> QED  BY <1>3, <2>1, <2>2
  <1>4. CASE EndFailed(r)
    <2>1. /\ refreshes[r].pc = "run" /\ ~refreshes[r].superseded /\ Frees(r) /\ RunTypes' /\ Tells(r)
          /\ UNCHANGED << userVars, latest, checked, entry >>
      BY <1>4 DEF EndFailed, Released, Frees, RunTypes, CheckTypes, Tells
    <2>2. refreshes' \in Seq(RefreshState) /\ Same /\ Ends(r)
      <3>1. refreshes' = [(IF tool' = tool THEN refreshes ELSE UnkeepPicks(refreshes)) EXCEPT ![r] = Over]
        BY <1>4 DEF EndFailed
      <3> QED  BY <1>3, <3>1
    <2>3. IF Unmarked(r) THEN UNCHANGED << shown, status >> ELSE shown' = "none" /\ status' = "failed"
      BY <1>4 DEF EndFailed
    <2> QED  BY <2>1, <2>2, <2>3 DEF EndsSeen, EndsUnseen, Proceeds, pageVars
  <1>5. CASE EndFound(r)
    <2>1. /\ refreshes[r].pc = "run" /\ ~refreshes[r].superseded /\ Frees(r) /\ RunTypes' /\ Tells(r)
          /\ UNCHANGED << userVars, latest >>
      BY <1>5 DEF EndFound, Released, Frees, RunTypes, CheckTypes, Tells
    <2>2. refreshes' \in Seq(RefreshState) /\ Same /\ Ends(r)
      <3>1. refreshes' = [(IF refreshes[r].argv = "bazel" THEN UnkeepPicks(refreshes) ELSE refreshes)
                            EXCEPT ![r] = Over]
        BY <1>5 DEF EndFound
      <3> QED  BY <1>3, <3>1
    <2>3. IF Unmarked(r) THEN UNCHANGED << pageVars, entry >>
          ELSE checked' = refreshes[r].version /\ shown' = refreshes[r].text /\ status' = "ok"
      BY <1>5 DEF EndFound
    <2> QED  BY <2>1, <2>2, <2>3 DEF EndsSeen, EndsUnseen, Proceeds
  <1> QED  BY <1>1, <1>2, <1>4, <1>5

\* Every await ends in one of these ways (Await).
LEMMA AwaitSteps ==
  ASSUME CheckTypes, NEW r \in Refreshes, Await(r)
  PROVE  refreshes' \in Seq(RefreshState) /\ Same /\ RunTypes' /\ Proceeds(r)
  BY RootedSteps, ProbedSteps, EndSteps DEF Await

\* The rest of the world moves: no refresh does.
Idles ==
    /\ Rest({}) /\ Same
    /\ UNCHANGED << userVars, latest, runVars, pageVars, released, entry >>
    /\ UNCHANGED waiters \/ Ask

\* A refresh begins, is switched off or is not trusted.
Newest == Len(refreshes) + 1
Begins ==
    /\ Len(refreshes') = Newest /\ DOMAIN refreshes' = 1..Newest /\ latest' = Newest
    /\ \A s \in Refreshes : refreshes'[s] = refreshes[s]
    /\ UNCHANGED << runVars, status >>
    /\ \/ /\ trusted' /\ on' /\ UNCHANGED << checked, shown, answerVars >>
          /\ refreshes'[Newest].pc = "root" /\ refreshes'[Newest].life = doc'.life
          /\ refreshes'[Newest].version = doc'.version
       \/ /\ trusted' /\ ~on' /\ refreshes'[Newest].pc = "over"
          /\ checked' = 0 /\ shown' = "none"
          /\ entry' = NoEntry /\ released' = doc'.version /\ waiters' = {}
       \/ /\ ~trusted' /\ refreshes'[Newest].pc = "over"
          /\ Release(doc'.version) /\ UNCHANGED << checked, shown, entry >>

DocType == [open : BOOLEAN, life : Nat, version : 1..Len(TextOf)]

\* A refresh that is called for begins (refresh).
LEMMA BeginSteps ==
  ASSUME CheckTypes, doc' \in DocType, NEW force \in BOOLEAN, refresh(force)
  PROVE  refreshes' \in Seq(RefreshState) /\ Begins
  <1>1. ASSUME NEW q \in RefreshState, refreshes' = Append(refreshes, q)
        PROVE  /\ refreshes' \in Seq(RefreshState) /\ Len(refreshes') = Newest /\ DOMAIN refreshes' = 1..Newest
               /\ refreshes'[Newest] = q /\ \A s \in Refreshes : refreshes'[s] = refreshes[s]
    BY <1>1 DEF CheckTypes, Refreshes, Newest
  <1>2. latest' = Newest /\ UNCHANGED << runVars, status >>
    BY DEF refresh, Newest
  <1>3. PICK q : q = [NewRefresh EXCEPT !.life = doc'.life, !.force = force, !.version = doc'.version]
    OBVIOUS
  <1>4. q \in RefreshState /\ q.pc = "root" /\ q.life = doc'.life /\ q.version = doc'.version
    <2>1. NewRefresh \in RefreshState /\ NewRefresh.pc = "root" /\ doc'.life \in Nat /\ doc'.version \in Nat
      BY OverType DEF DocType
    <2> QED  BY <1>3, <2>1 DEF RefreshState
  <1>5. CASE /\ trusted' /\ on' /\ UNCHANGED << checked, shown, answerVars >>
             /\ refreshes' = Append(refreshes, q)
    BY <1>1, <1>2, <1>4, <1>5 DEF Begins
  <1>6. CASE /\ trusted' /\ ~on' /\ refreshes' = Append(refreshes, Over)
             /\ checked' = 0 /\ shown' = "none"
             /\ entry' = NoEntry /\ released' = doc'.version /\ waiters' = {}
    BY <1>1, <1>2, <1>6, OverType DEF Begins
  <1>7. CASE /\ ~trusted' /\ refreshes' = Append(refreshes, Over)
             /\ Release(doc'.version) /\ UNCHANGED << checked, shown, entry >>
    BY <1>1, <1>2, <1>7, OverType DEF Begins
  <1> QED  BY <1>3, <1>5, <1>6, <1>7 DEF refresh

\* What happens to the checker and its sources moves no refresh.
LEMMA IdleSteps ==
  ASSUME CheckTypes, SampleSources \/ Resolve \/ Ask \/ ChangeSource \/ Watched \/ Clean
  PROVE  refreshes' \in Seq(RefreshState) /\ Idles
  <1>1. UNCHANGED << userVars, latest, runVars, pageVars, released, entry >> /\ (UNCHANGED waiters \/ Ask)
    BY DEF SampleSources, Resolve, Ask, ChangeSource, Watched, Clean, answerVars, userVars, runVars, pageVars
  <1>2. CASE refreshes' = refreshes
    BY <1>1, <1>2 DEF Idles, Rest, Stays, Same, CheckTypes, Refreshes
  <1>3. CASE refreshes' = UnkeepPicks(refreshes)
    <2>1. PICK u : u = refreshes'
      OBVIOUS
    <2>2. /\ u \in Seq(RefreshState) /\ DOMAIN u = Refreshes /\ Len(u) = Len(refreshes)
         /\ \A s \in Refreshes :
              /\ u[s] \in RefreshState
              /\ u[s].pc = refreshes[s].pc /\ u[s].life = refreshes[s].life /\ u[s].version = refreshes[s].version
              /\ u[s].text = refreshes[s].text /\ u[s].superseded = refreshes[s].superseded
              /\ u[s].awaits = refreshes[s].awaits /\ u[s].against = refreshes[s].against
              /\ u[s].kept => refreshes[s].kept /\ refreshes[s].pc # "pick"
      BY <1>3, <2>1, UnkeptStays
    <2>3. Rest({}) /\ Same
      BY <2>1, <2>2 DEF Rest, Stays, Same, Refreshes
    <2> QED  BY <1>1, <2>1, <2>2, <2>3 DEF Idles
  <1>4. CASE Watched
    <2>1. /\ refreshes' = [s \in Refreshes |-> refreshes'[s]]
          /\ \A s \in Refreshes : \/ refreshes'[s] = refreshes[s]
                                  \/ refreshes'[s] = [refreshes[s] EXCEPT !.kept = FALSE]
      BY <1>4 DEF Watched
    <2>2. \A s \in Refreshes : refreshes'[s] \in RefreshState /\ Stays(s)
      <3> SUFFICES ASSUME NEW s \in Refreshes PROVE refreshes'[s] \in RefreshState /\ Stays(s)
        OBVIOUS
      <3>1. PICK q, p : q = refreshes[s] /\ p = refreshes'[s] /\ (p = q \/ p = [q EXCEPT !.kept = FALSE])
        BY <2>1
      <3>2. q \in RefreshState
        BY <3>1, OnesType
      <3>3. /\ p \in RefreshState /\ p.pc = q.pc /\ p.life = q.life /\ p.version = q.version
            /\ p.text = q.text /\ p.superseded = q.superseded /\ p.awaits = q.awaits /\ p.against = q.against
            /\ p = q \/ p.kept = FALSE
        BY <3>1, <3>2 DEF RefreshState
      <3> QED  BY <3>1, <3>3 DEF Stays
    <2>3. refreshes' \in Seq(RefreshState) /\ Same
      BY <2>1, <2>2, Mapped
    <2> QED  BY <1>1, <2>2, <2>3 DEF Idles, Rest
  <1> QED  BY <1>2, <1>3, <1>4 DEF SampleSources, Resolve, Ask, ChangeSource, Clean

\* What the user, the settings and the timers do.
UserSteps == Edit \/ Debounced \/ Save \/ Close \/ Open \/ Switch \/ Grant \/ Start

ToolTypes ==
    /\ tool \in [binary : {"unresolved", "built", "none"}, stamp : Nat,
                 command : {"undefined", "direct", "bazel"}]
    /\ build \in [pc : {"no", "walk", "build"}, stamp : Nat]
    /\ time \in Nat

\* What is known of the checker keeps its types.
LEMMA ToolTypesKept == ASSUME CheckTypes, Next PROVE ToolTypes'
  <1>1. ToolTypes
    BY DEF CheckTypes, ToolTypes
  <1>2. PICK t : t = ensureChecker(tool)
    OBVIOUS
  <1>3. t \in [pc : {"no", "walk", "build"}, stamp : Nat]
    BY <1>1, <1>2 DEF ensureChecker, ToolTypes
  <1>4. CASE SampleSources
    BY <1>1, <1>4 DEF SampleSources, ToolTypes
  <1>5. CASE Resolve
    <2>1. Max({tool.stamp, build.stamp}) \in Nat
      BY <1>1, MaxTwo DEF ToolTypes
    <2>2. build' \in [pc : {"no", "walk", "build"}, stamp : Nat] /\ time' = time
      BY <1>5 DEF Resolve
    <2>3. tool' \in [binary : {"unresolved", "built", "none"}, stamp : Nat,
                     command : {"undefined", "direct", "bazel"}]
      <3>1. PICK m \in Nat : m = Max({tool.stamp, build.stamp})
        BY <2>1
      <3>2. \/ tool' = tool
            \/ tool' = [binary |-> "built", stamp |-> m, command |-> "undefined"]
            \/ tool' = Invalidated([tool EXCEPT !.binary = "none"])
        BY <1>5, <3>1 DEF Resolve
      <3>3. CASE tool' = [binary |-> "built", stamp |-> m, command |-> "undefined"]
        BY <3>3
      <3>4. CASE tool' = Invalidated([tool EXCEPT !.binary = "none"])
        <4>1. PICK u : u = [tool EXCEPT !.binary = "none"]
          OBVIOUS
        <4>2. u \in [binary : {"unresolved", "built", "none"}, stamp : Nat,
                     command : {"undefined", "direct", "bazel"}]
          BY <1>1, <4>1 DEF ToolTypes
        <4>3. tool' = [u EXCEPT !.command = "undefined"]
          BY <3>4, <4>1 DEF Invalidated
        <4> QED  BY <4>2, <4>3
      <3> QED  BY <1>1, <3>2, <3>3, <3>4 DEF ToolTypes
    <2> QED  BY <1>1, <2>2, <2>3 DEF ToolTypes
  <1>6. ASSUME NEW r \in Refreshes, Rooted(r) PROVE ToolTypes'
    BY <1>1, <1>2, <1>3, <1>6 DEF Rooted, ToolTypes
  <1>7. ASSUME NEW r \in Refreshes, Picked(r) PROVE ToolTypes'
    BY <1>1, <1>7 DEF Picked, ToolTypes, checkCommandFor
  <1>8. ASSUME NEW r \in Refreshes, Probed(r) \/ Stamped(r) \/ EndSuperseded(r) \/ Awaited(r) PROVE ToolTypes'
    BY <1>1, <1>8 DEF Probed, Stamped, EndSuperseded, Awaited, toolVars, ToolTypes
  <1>9. ASSUME NEW r \in Refreshes, EndFailed(r) PROVE ToolTypes'
    BY <1>1, <1>9 DEF EndFailed, Invalidated, ToolTypes
  <1>10. ASSUME NEW r \in Refreshes, EndFound(r) PROVE ToolTypes'
    <2>1. refreshes[r].stamp \in Nat
      BY OnesType DEF RefreshState
    <2>2. Max({tool.stamp, refreshes[r].stamp}) \in Nat
      BY <1>1, <2>1, MaxTwo DEF ToolTypes
    <2>3. build' \in [pc : {"no", "walk", "build"}, stamp : Nat] /\ time' = time
      BY <1>1, <1>2, <1>3, <1>10 DEF EndFound, ToolTypes
    <2>4. tool' \in [binary : {"unresolved", "built", "none"}, stamp : Nat,
                     command : {"undefined", "direct", "bazel"}]
      <3>1. PICK m \in Nat : m = Max({tool.stamp, refreshes[r].stamp})
        BY <2>2
      <3>2. tool' = tool \/ tool' = Invalidated([tool EXCEPT !.stamp = m])
        BY <1>10, <3>1 DEF EndFound
      <3> QED  BY <1>1, <3>2 DEF Invalidated, ToolTypes
    <2> QED  BY <1>1, <2>3, <2>4 DEF ToolTypes
  <1>11. CASE UserSteps
    BY <1>1, <1>2, <1>3, <1>11
       DEF UserSteps, Edit, Debounced, Save, Close, Open, Switch, Grant, Start, refresh, toolVars, ToolTypes
  <1>12. CASE Ask \/ ChangeSource \/ Watched \/ Clean
    BY <1>1, <1>12 DEF Ask, ChangeSource, Watched, Clean, toolVars, Invalidated, ToolTypes
  <1> QED  BY <1>4, <1>5, <1>6, <1>7, <1>8, <1>9, <1>10, <1>11, <1>12 DEF Next, Await, UserSteps

\* A release takes the newer of two versions, and leaves those who wait for a newer one.
LEMMA Releases ==
  ASSUME CheckTypes, NEW v \in Nat, Release(v)
  PROVE  /\ released' \in Nat /\ released' \in {released, v} /\ released' >= released /\ released' >= v
         /\ waiters' = {w \in waiters : w > v} /\ waiters' \in SUBSET Nat
  BY MaxTwo DEF Release, CheckTypes

\* What the user and the settings are.
UserTypes ==
    /\ doc \in DocType
    /\ on \in BOOLEAN /\ trusted \in BOOLEAN /\ starting \in BOOLEAN /\ timer \in BOOLEAN

\* What a step of the user leaves, and what it begins.
Users ==
    \/ /\ Edit /\ doc' = [doc EXCEPT !.version = doc.version + 1] /\ refreshes' = refreshes
    \/ /\ timer /\ ~timer' /\ UNCHANGED << may, doc, on, trusted, starting >> /\ Begins
    \/ /\ doc.open /\ UNCHANGED userVars /\ Begins
    \/ Close /\ doc' = [doc EXCEPT !.open = FALSE] /\ refreshes' = refreshes
    \/ /\ ~doc.open /\ doc' = [open |-> TRUE, life |-> doc.life + 1, version |-> 1]
       /\ UNCHANGED << may, on, trusted, starting, timer >> /\ Begins
    \/ /\ on' = ~on /\ UNCHANGED << may, doc, trusted, starting, timer >>
       /\ IF doc.open THEN Begins ELSE UNCHANGED << refreshes, latest, runVars, pageVars, answerVars >>
    \/ Grant /\ refreshes' = refreshes
    \/ /\ starting /\ ~starting' /\ UNCHANGED << may, doc, on, trusted, timer >>
       /\ IF doc.open THEN Begins ELSE UNCHANGED << refreshes, latest, runVars, pageVars, answerVars >>

\* Each step of the user, the settings and the timers is one of these.
LEMMA UserStepsAre ==
  ASSUME CheckTypes, UserSteps
  PROVE  refreshes' \in Seq(RefreshState) /\ UserTypes' /\ Users
  <1>0. UserTypes /\ 1 \in 1..Len(TextOf) /\ refreshes \in Seq(RefreshState) /\ Len(TextOf) \in Nat
    BY CheckingAssumption DEF CheckTypes, UserTypes, DocType
  <1>1. CASE Edit
    <2>1. doc' = [doc EXCEPT !.version = doc.version + 1] /\ refreshes' = refreshes /\ doc.version < Len(TextOf)
          /\ on' = on /\ trusted' = trusted /\ starting' = starting /\ timer' = TRUE
      BY <1>1 DEF Edit
    <2>2. doc' \in DocType
      BY <1>0, <2>1 DEF UserTypes, DocType
    <2> QED  BY <1>0, <1>1, <2>1, <2>2 DEF Users, UserTypes
  <1>2. CASE Debounced
    <2>1. /\ timer /\ timer' = FALSE /\ UNCHANGED << may, doc, on, trusted, starting >> /\ refresh(FALSE)
      BY <1>2 DEF Debounced
    <2>2. refreshes' \in Seq(RefreshState) /\ Begins
      BY <1>0, <2>1, BeginSteps DEF UserTypes
    <2> QED  BY <1>0, <2>1, <2>2 DEF Users, UserTypes
  <1>3. CASE Save
    <2>1. PICK force \in BOOLEAN : doc.open /\ UNCHANGED userVars /\ refresh(force)
      BY <1>3 DEF Save, userVars
    <2>2. doc' = doc /\ on' = on /\ trusted' = trusted /\ starting' = starting /\ timer' = timer
      BY <2>1 DEF userVars
    <2>3. refreshes' \in Seq(RefreshState) /\ Begins
      BY <1>0, <2>1, <2>2, BeginSteps DEF UserTypes
    <2> QED  BY <1>0, <2>1, <2>2, <2>3 DEF Users, UserTypes
  <1>4. CASE Close
    <2>1. doc' = [doc EXCEPT !.open = FALSE] /\ refreshes' = refreshes /\ timer' = FALSE
          /\ UNCHANGED << on, trusted, starting >>
      BY <1>4 DEF Close
    <2>2. doc' \in DocType
      BY <1>0, <2>1 DEF UserTypes, DocType
    <2> QED  BY <1>0, <1>4, <2>1, <2>2 DEF Users, UserTypes
  <1>5. CASE Open
    <2>1. /\ ~doc.open /\ doc' = [open |-> TRUE, life |-> doc.life + 1, version |-> 1]
          /\ UNCHANGED << may, on, trusted, starting, timer >> /\ refresh(FALSE)
      BY <1>5 DEF Open
    <2>2. doc' \in DocType
      BY <1>0, <2>1 DEF UserTypes, DocType
    <2>3. refreshes' \in Seq(RefreshState) /\ Begins
      BY <2>1, <2>2, BeginSteps
    <2> QED  BY <1>0, <2>1, <2>2, <2>3 DEF Users, UserTypes
  <1>6. CASE Switch
    <2>1. /\ on' = ~on /\ UNCHANGED << may, doc, trusted, starting, timer >>
          /\ IF doc.open THEN refresh(TRUE)
             ELSE UNCHANGED << refreshes, latest, runVars, pageVars, answerVars >>
      BY <1>6 DEF Switch
    <2>2. doc' \in DocType /\ UserTypes'
      BY <1>0, <2>1 DEF UserTypes
    <2>3. CASE doc.open
      BY <2>1, <2>2, <2>3, BeginSteps DEF Users
    <2>4. CASE ~doc.open
      BY <1>0, <2>1, <2>2, <2>4 DEF Users
    <2> QED  BY <2>3, <2>4
  <1>7. CASE Grant
    <2>1. refreshes' = refreshes /\ trusted' = TRUE /\ starting' = TRUE /\ UNCHANGED << doc, on, timer >>
      BY <1>7 DEF Grant
    <2> QED  BY <1>0, <1>7, <2>1 DEF Users, UserTypes
  <1>8. CASE Start
    <2>1. /\ starting /\ starting' = FALSE /\ UNCHANGED << may, doc, on, trusted, timer >>
          /\ IF doc.open THEN refresh(FALSE)
             ELSE UNCHANGED << refreshes, latest, runVars, pageVars, answerVars >>
      BY <1>8 DEF Start
    <2>2. doc' \in DocType /\ UserTypes'
      BY <1>0, <2>1 DEF UserTypes
    <2>3. CASE doc.open
      BY <2>1, <2>2, <2>3, BeginSteps DEF Users
    <2>4. CASE ~doc.open
      BY <1>0, <2>1, <2>2, <2>4 DEF Users
    <2> QED  BY <2>3, <2>4
  <1> QED  BY <1>1, <1>2, <1>3, <1>4, <1>5, <1>6, <1>7, <1>8 DEF UserSteps

\* A step of the refreshes, and of what the others see of it.
Steps ==
    /\ Same
    /\ \/ Idles
       \/ \E S : Passes(S)
       \/ \E r \in Refreshes : Waits(r) \/ EndsUnseen(r) \/ EndsSeen(r)

\* What is shown, recorded and waited for keeps its types.
LEMMA PagesTypesKept ==
  ASSUME CheckTypes, Steps \/ Users, UserTypes'
  PROVE  latest' \in Nat /\ checked' \in Nat /\ released' \in Nat /\ waiters' \in SUBSET Nat
  <1>0. /\ latest \in Nat /\ checked \in Nat /\ released \in Nat /\ waiters \in SUBSET Nat
        /\ doc.version \in Nat /\ doc'.version \in Nat /\ Newest \in Nat
        /\ \A s \in Refreshes : refreshes[s].version \in Nat
    BY OnesType DEF CheckTypes, UserTypes, DocType, Newest, RefreshState
  <1>1. CASE Idles
    BY <1>0, <1>1 DEF Idles, Ask, pageVars
  <1>2. ASSUME NEW S, Passes(S)
        PROVE  latest' \in Nat /\ checked' \in Nat /\ released' \in Nat /\ waiters' \in SUBSET Nat
    BY <1>0, <1>2 DEF Passes, pageVars, answerVars
  <1>3. ASSUME NEW r \in Refreshes, Tells(r)
        PROVE  released' \in Nat /\ waiters' \in SUBSET Nat
    <2>1. CASE Release(refreshes[r].version)
      BY <1>0, <2>1, Releases
    <2> QED  BY <1>0, <1>3, <2>1 DEF Tells
  <1>4. ASSUME NEW r \in Refreshes, Waits(r) \/ EndsUnseen(r) \/ EndsSeen(r)
        PROVE  latest' \in Nat /\ checked' \in Nat /\ released' \in Nat /\ waiters' \in SUBSET Nat
    <2>1. CASE Waits(r)
      BY <1>0, <2>1 DEF Waits, pageVars, answerVars
    <2>2. CASE EndsUnseen(r)
      BY <1>0, <1>3, <2>2 DEF EndsUnseen, pageVars
    <2>3. CASE EndsSeen(r)
      BY <1>0, <1>3, <2>3 DEF EndsSeen
    <2> QED  BY <1>4, <2>1, <2>2, <2>3
  <1>5. CASE Begins
    <2>1. latest' = Newest /\ (checked' = checked \/ checked' = 0)
      BY <1>5 DEF Begins
    <2>2. PICK v \in Nat : v = doc'.version
      BY <1>0
    <2>3. \/ released' = released /\ waiters' = waiters
          \/ released' = v /\ waiters' = {}
          \/ Release(v)
      BY <1>5, <2>2 DEF Begins, answerVars
    <2>4. released' \in Nat /\ waiters' \in SUBSET Nat
      <3>1. CASE Release(v)
        BY <1>0, <3>1, Releases
      <3> QED  BY <1>0, <2>3, <3>1
    <2> QED  BY <1>0, <2>1, <2>4
  <1>6. CASE Users
    <2>1. CASE Begins
      BY <1>5, <2>1
    <2>2. CASE Edit \/ Close \/ Grant
      BY <1>0, <2>2 DEF Edit, Close, Grant, pageVars, answerVars
    <2>3. CASE UNCHANGED << refreshes, latest, runVars, pageVars, answerVars >>
      BY <1>0, <2>3 DEF pageVars, answerVars
    <2> QED  BY <1>6, <2>1, <2>2, <2>3 DEF Users
  <1> QED  BY <1>1, <1>2, <1>4, <1>6 DEF Steps

\* Every step keeps the types, and is a step of the refreshes or one of the user's.
LEMMA StepsAre ==
  ASSUME CheckTypes, Next
  PROVE  CheckTypes' /\ (Steps \/ Users)
  <1>1. ToolTypes'
    BY ToolTypesKept
  <1>2. CASE SampleSources \/ Resolve \/ Ask \/ ChangeSource \/ Watched \/ Clean
    <2>1. refreshes' \in Seq(RefreshState) /\ Idles
      BY <1>2, IdleSteps
    <2>2. Steps
      BY <2>1 DEF Steps, Idles
    <2>3. UserTypes'
      BY <2>1 DEF Idles, userVars, UserTypes, DocType, CheckTypes
    <2>4. latest' \in Nat /\ checked' \in Nat /\ released' \in Nat /\ waiters' \in SUBSET Nat
      BY <2>2, <2>3, PagesTypesKept
    <2> QED  BY <1>1, <2>1, <2>2, <2>3, <2>4 DEF ToolTypes, UserTypes, DocType, CheckTypes, Idles, runVars
  <1>3. ASSUME NEW r \in Refreshes, Await(r) PROVE CheckTypes' /\ Steps
    <2>1. refreshes' \in Seq(RefreshState) /\ Same /\ RunTypes' /\ Proceeds(r)
      BY <1>3, AwaitSteps
    <2>2. Steps
      BY <2>1 DEF Steps, Proceeds
    <2>3. UNCHANGED userVars
      BY <2>1 DEF Proceeds, Passes, Waits, EndsUnseen, EndsSeen
    <2>4. UserTypes'
      BY <2>3 DEF userVars, UserTypes, DocType, CheckTypes
    <2>5. latest' \in Nat /\ checked' \in Nat /\ released' \in Nat /\ waiters' \in SUBSET Nat
      BY <2>2, <2>4, PagesTypesKept
    <2> QED  BY <1>1, <2>1, <2>2, <2>4, <2>5 DEF ToolTypes, UserTypes, DocType, CheckTypes, RunTypes
  <1>4. CASE UserSteps
    <2>1. refreshes' \in Seq(RefreshState) /\ UserTypes' /\ Users
      BY <1>4, UserStepsAre
    <2>2. latest' \in Nat /\ checked' \in Nat /\ released' \in Nat /\ waiters' \in SUBSET Nat
      BY <2>1, PagesTypesKept
    <2>3. UNCHANGED runVars
      BY <1>4 DEF UserSteps, Edit, Debounced, Save, Close, Open, Switch, Grant, Start, refresh
    <2> QED  BY <1>1, <2>1, <2>2, <2>3 DEF ToolTypes, UserTypes, DocType, CheckTypes, runVars
  <1> QED  BY <1>2, <1>3, <1>4 DEF Next, UserSteps

-----------------------------------------------------------------------------
(* The invariant. *)

\* A refresh of the document that is open.
Ours(r) == InFlight(r) /\ refreshes[r].life = doc.life
\* No timer and no start is to come for a document that is checked.
Settled == doc.open /\ on /\ trusted /\ ~timer /\ ~starting

\* Nothing is recorded of a document that is not checked.
Standing ==
    /\ latest \in {0, Len(refreshes)} /\ running \in 0..Len(refreshes) /\ front \in 0..Len(refreshes)
    /\ timer => doc.open
    /\ ~trusted => \A r \in Refreshes : ~InFlight(r)
    /\ checked \in 0..doc.version
    /\ ~doc.open \/ ~on \/ ~trusted => shown = "none" /\ entry = NoEntry /\ checked = 0

\* A later refresh of the document is of a later version, or the same.
InOrder ==
    \A r \in Refreshes : InFlight(r) =>
        /\ refreshes[r].life <= doc.life
        /\ Ours(r) => refreshes[r].version \in 1..doc.version
        /\ \A s \in Refreshes : r <= s /\ Ours(r) /\ Ours(s) => refreshes[r].version <= refreshes[s].version

\* One process holds the document's key; unless one was overtaken it is the newest that started.
RunningIs ==
    /\ running # 0 => refreshes[running].pc = "run" /\ ~refreshes[running].superseded
    /\ \A r \in Refreshes : refreshes[r].pc = "run" /\ ~refreshes[r].superseded => r = running
    /\ ~overtaken /\ running # 0 => running = front
    /\ \A r \in Refreshes : refreshes[r].pc = "await" => refreshes[r].awaits \in r..Len(refreshes)

\* What is checked for the version on screen is the text on screen, and so is what is shown for it.
TextIs == \A r \in Refreshes :
    Ours(r) /\ refreshes[r].version = doc.version /\ refreshes[r].pc # "root" => refreshes[r].text = Text
CheckedIs == doc.open /\ on /\ checked = doc.version => shown = Text \/ status = "failed"

\* The newest refresh is of the version on screen, and no older check is recorded after it.
LatestIs == Settled => /\ latest = Len(refreshes) /\ latest # 0
                       /\ InFlight(latest) => Ours(latest) /\ refreshes[latest].version = doc.version
NotBelow == ~overtaken /\ doc.open =>
    \A r \in Refreshes : r >= front /\ Ours(r) => refreshes[r].version >= checked
OverIs == Settled /\ ~overtaken /\ ~InFlight(latest) =>
    checked = doc.version \/ (status = "failed" /\ front = latest)

\* Whoever waits, waits for a version whose refresh has still to end.
WaitIs ==
    /\ waiters # {} => doc.open /\ trusted
    /\ \A w \in waiters : released < w /\ w <= doc.version
    /\ doc.open /\ trusted /\ released < doc.version =>
         timer \/ starting \/ \E r \in Refreshes : Ours(r) /\ refreshes[r].version = doc.version

\* A pick that will be kept is made from what is known of the checker now.
PickIs == \A r \in Refreshes :
    refreshes[r].pc = "pick" /\ refreshes[r].kept => tool.binary = "built" /\ refreshes[r].against = tool.stamp

CheckInv ==
    /\ CheckTypes /\ Standing /\ InOrder /\ RunningIs /\ TextIs /\ CheckedIs /\ LatestIs /\ NotBelow
    /\ OverIs /\ WaitIs /\ PickIs /\ KeptCommandIsFresh

\* What a refresh in flight after a step was before it.
Flew(s) ==
    /\ InFlight(s)
    /\ refreshes'[s].life = refreshes[s].life /\ refreshes'[s].version = refreshes[s].version
    /\ refreshes'[s].pc # "root" =>
         refreshes'[s].text = IF refreshes[s].pc = "root" THEN Text ELSE refreshes[s].text
Fewer == /\ Same /\ UNCHANGED << userVars, latest >>
         /\ \A s \in Refreshes : refreshes'[s].pc # "over" => Flew(s)

\* A step of the refreshes puts none in flight, and takes the text only when the checkout is found.
LEMMA FewerFly == ASSUME CheckTypes, Steps PROVE Fewer
  <1>1. UNCHANGED << userVars, latest >> /\ Same
    BY DEF Steps, Idles, Passes, Waits, EndsUnseen, EndsSeen
  <1>2. \A s \in Refreshes : Stays(s) /\ refreshes'[s].pc # "over" => Flew(s)
    BY DEF Stays, InFlight, Flew
  <1>3. ASSUME Idles, NEW s \in Refreshes, refreshes'[s].pc # "over" PROVE Flew(s)
    BY <1>2, <1>3 DEF Idles, Rest
  <1>4. ASSUME NEW S, Passes(S), NEW s \in Refreshes, refreshes'[s].pc # "over" PROVE Flew(s)
    <2>1. CASE Goes(S)
      <3>1. CASE s \in S
        BY <2>1, <3>1 DEF Goes, Takes, Flew, InFlight, Before
      <3>2. CASE s \notin S
        BY <1>2, <1>4, <2>1, <3>2 DEF Goes, Rest
      <3> QED  BY <3>1, <3>2
    <2>2. CASE Spawns(S)
      <3>1. CASE s \in S
        BY <2>2, <3>1 DEF Spawns, Takes, Flew, InFlight, Before
      <3>2. CASE s \notin S /\ s # running
        BY <1>2, <1>4, <2>2, <3>2 DEF Spawns, Rest
      <3>3. CASE s \notin S /\ s = running
        BY <1>4, <2>2, <3>3 DEF Spawns, Flew, InFlight
      <3> QED  BY <3>1, <3>2, <3>3
    <2> QED  BY <1>4, <2>1, <2>2 DEF Passes
  <1>5. ASSUME NEW r \in Refreshes, Waits(r) \/ EndsUnseen(r) \/ EndsSeen(r),
               NEW s \in Refreshes, refreshes'[s].pc # "over"
        PROVE  Flew(s)
    <2>1. CASE s # r
      <3>1. Rest({r})
        BY <1>5 DEF Waits, EndsUnseen, EndsSeen, Ends
      <3> QED  BY <1>2, <1>5, <2>1, <3>1 DEF Rest
    <2>2. CASE s = r
      <3>1. Waits(r)
        BY <1>5, <2>2 DEF EndsUnseen, EndsSeen, Ends, InFlight
      <3> QED  BY <2>2, <3>1 DEF Waits, Flew, InFlight
    <2> QED  BY <2>1, <2>2
  <1>6. \A s \in Refreshes : refreshes'[s].pc # "over" => Flew(s)
    BY <1>3, <1>4, <1>5 DEF Steps
  <1> QED  BY <1>1, <1>6 DEF Fewer

\* What a step of the user leaves: a new text, a document closed, a refresh begun, or no document.
Writes == /\ doc.open /\ doc' = [doc EXCEPT !.version = doc.version + 1] /\ timer'
         /\ UNCHANGED << on, trusted, starting, refreshes, latest, runVars, pageVars, answerVars >>
Shuts == /\ doc' = [doc EXCEPT !.open = FALSE] /\ ~timer'
          /\ checked' = 0 /\ shown' = "none" /\ latest' = 0
          /\ entry' = NoEntry /\ released' = 0 /\ waiters' = {}
          /\ UNCHANGED << on, trusted, starting, refreshes, runVars, status >>
Grants == /\ trusted' /\ starting'
          /\ UNCHANGED << doc, on, timer, refreshes, latest, runVars, pageVars, answerVars >>
Opens == ~doc.open /\ doc' = [open |-> TRUE, life |-> doc.life + 1, version |-> 1]
Starts == /\ Begins /\ UNCHANGED trusted /\ (timer' => timer) /\ on' \in BOOLEAN
          /\ \/ doc.open /\ doc' = doc
             \/ Opens
Leaves == /\ ~doc.open /\ doc' = doc /\ (timer' => timer)
          /\ UNCHANGED << trusted, refreshes, latest, runVars, pageVars, answerVars >>

\* Each step of the user is an edit, a close, a grant, a refresh begun, or about no document.
LEMMA UsersAre ==
  ASSUME CheckTypes, Standing, Users
  PROVE  Writes \/ Shuts \/ Grants \/ Starts \/ Leaves
  <1>0. on \in BOOLEAN /\ timer \in BOOLEAN
    BY DEF CheckTypes
  <1>1. CASE Edit /\ doc' = [doc EXCEPT !.version = doc.version + 1] /\ refreshes' = refreshes
    BY <1>1 DEF Edit, Writes
  <1>2. CASE timer /\ ~timer' /\ UNCHANGED << may, doc, on, trusted, starting >> /\ Begins
    BY <1>0, <1>2 DEF Standing, Starts
  <1>3. CASE doc.open /\ UNCHANGED userVars /\ Begins
    BY <1>0, <1>3 DEF userVars, Starts
  <1>4. CASE Close /\ doc' = [doc EXCEPT !.open = FALSE] /\ refreshes' = refreshes
    BY <1>4 DEF Close, Shuts
  <1>5. CASE /\ ~doc.open /\ doc' = [open |-> TRUE, life |-> doc.life + 1, version |-> 1]
             /\ UNCHANGED << may, on, trusted, starting, timer >> /\ Begins
    BY <1>0, <1>5 DEF Starts, Opens
  <1>6. CASE /\ on' = ~on /\ UNCHANGED << may, doc, trusted, starting, timer >>
             /\ IF doc.open THEN Begins ELSE UNCHANGED << refreshes, latest, runVars, pageVars, answerVars >>
    <2>1. CASE doc.open
      BY <1>0, <1>6, <2>1 DEF Starts
    <2>2. CASE ~doc.open
      BY <1>0, <1>6, <2>2 DEF Leaves
    <2> QED  BY <2>1, <2>2
  <1>7. CASE Grant /\ refreshes' = refreshes
    BY <1>7 DEF Grant, Grants
  <1>8. CASE /\ starting /\ ~starting' /\ UNCHANGED << may, doc, on, trusted, timer >>
             /\ IF doc.open THEN Begins ELSE UNCHANGED << refreshes, latest, runVars, pageVars, answerVars >>
    <2>1. CASE doc.open
      BY <1>0, <1>8, <2>1 DEF Starts
    <2>2. CASE ~doc.open
      BY <1>0, <1>8, <2>2 DEF Leaves
    <2> QED  BY <2>1, <2>2
  <1> QED  BY <1>1, <1>2, <1>3, <1>4, <1>5, <1>6, <1>7, <1>8 DEF Users

\* What a step of a refresh leaves of the user's variables, and what types say of both states.
LEMMA FewerDoc ==
  ASSUME Fewer
  PROVE  /\ doc' = doc /\ on' = on /\ trusted' = trusted /\ starting' = starting /\ timer' = timer
         /\ latest' = latest /\ Refreshes' = Refreshes /\ Len(refreshes') = Len(refreshes)
         /\ \A s \in Refreshes : refreshes'[s].pc # "over" => Flew(s)
  BY DEF Fewer, userVars, Same, Refreshes

\* The numbers the invariant compares.
LEMMA Numbers ==
  ASSUME CheckTypes
  PROVE  /\ doc.version \in Nat \ {0} /\ doc.version \in 1..Len(TextOf) /\ doc.life \in Nat /\ doc.open \in BOOLEAN
         /\ Refreshes = 1..Len(refreshes) /\ Len(refreshes) \in Nat /\ Newest \in Nat \ {0}
         /\ \A s \in Refreshes : /\ s \in Nat \ {0} /\ refreshes[s].life \in Nat
                                 /\ refreshes[s].version \in Nat
         /\ checked \in Nat /\ front \in Nat /\ running \in Nat /\ latest \in Nat
  <1>1. doc.version \in Nat \ {0} /\ doc.version \in 1..Len(TextOf) /\ doc.life \in Nat /\ doc.open \in BOOLEAN
    <2>1. Len(TextOf) \in Nat
      BY CheckingAssumption
    <2> QED  BY <2>1 DEF CheckTypes
  <1>2. /\ Refreshes = 1..Len(refreshes) /\ Len(refreshes) \in Nat /\ Newest \in Nat \ {0}
        /\ \A s \in Refreshes : /\ s \in Nat \ {0} /\ refreshes[s].life \in Nat
                                /\ refreshes[s].version \in Nat
    BY OnesType DEF RefreshState, Newest
  <1> QED  BY <1>1, <1>2 DEF CheckTypes

\* The document of an edit is one version newer; the closed one keeps its life.
LEMMA NewDoc ==
  ASSUME CheckTypes
  PROVE  /\ Writes => doc'.open /\ doc'.life = doc.life /\ doc'.version = doc.version + 1
         /\ Shuts => ~doc'.open /\ doc'.life = doc.life /\ doc'.version = doc.version
         /\ Opens => doc'.open /\ doc'.life = doc.life + 1 /\ doc'.version = 1
         /\ Starts => doc'.open
  BY DEF CheckTypes, Writes, Shuts, Opens, Starts

\* A refresh that begins is the newest, of the version on screen, or over.
LEMMA Begun ==
  ASSUME CheckTypes, Begins
  PROVE  /\ Refreshes' = Refreshes \union {Newest} /\ Newest \notin Refreshes /\ Len(refreshes') = Newest
         /\ \A s \in Refreshes : s < Newest /\ refreshes'[s] = refreshes[s]
         /\ \/ refreshes'[Newest].pc = "over"
            \/ /\ trusted' /\ on' /\ refreshes'[Newest].pc = "root"
               /\ refreshes'[Newest].life = doc'.life /\ refreshes'[Newest].version = doc'.version
         /\ trusted' /\ on' => refreshes'[Newest].pc = "root"
         /\ ~trusted' => refreshes'[Newest].pc = "over"
  <1>1. Refreshes = 1..Len(refreshes) /\ Len(refreshes) \in Nat
    BY Numbers
  <1>2. Refreshes' = Refreshes \union {Newest} /\ Newest \notin Refreshes /\ \A s \in Refreshes : s < Newest
    BY <1>1 DEF Begins, Refreshes, Newest
  <1> QED  BY <1>2 DEF Begins

\* Refreshes stay in the order of the versions they are of.
LEMMA OrderKept ==
  ASSUME CheckTypes, InOrder, Steps \/ Writes \/ Shuts \/ Grants \/ Starts \/ Leaves
  PROVE  InOrder'
  <1>1. CASE Steps
    BY <1>1, FewerFly, FewerDoc DEF InOrder, Ours, InFlight, Flew
  <1>2. CASE Writes \/ Shuts \/ Grants \/ Leaves
    <2>1. refreshes' = refreshes /\ Refreshes' = Refreshes /\ doc'.life = doc.life /\ doc'.version >= doc.version
      BY <1>2, NewDoc, Numbers DEF Writes, Shuts, Grants, Leaves, Refreshes
    <2>2. doc'.version \in Nat
      BY <1>2, NewDoc, Numbers DEF Writes, Shuts, Grants, Leaves
    <2>3. \A v \in 1..doc.version : v \in 1..doc'.version
      BY <2>1, <2>2, Numbers
    <2> QED  BY <2>1, <2>3 DEF InOrder, Ours, InFlight
  <1>3. CASE Starts
    <2>1. Begins
      BY <1>3 DEF Starts
    <2>2. CASE doc' = doc
      <3> SUFFICES ASSUME NEW r \in Refreshes', refreshes'[r].pc # "over"
          PROVE /\ refreshes'[r].life <= doc'.life
                /\ refreshes'[r].life = doc'.life => refreshes'[r].version \in 1..doc'.version
                /\ \A s \in Refreshes' :
                     /\ r <= s /\ refreshes'[r].life = doc'.life
                     /\ refreshes'[s].pc # "over" /\ refreshes'[s].life = doc'.life
                     => refreshes'[r].version <= refreshes'[s].version
        BY DEF InOrder, Ours, InFlight
      <3>1. CASE r = Newest
        BY <2>1, <2>2, <3>1, Begun, Numbers
      <3>2. CASE r \in Refreshes
        <4>1. refreshes'[r] = refreshes[r] /\ InFlight(r)
          BY <2>1, <3>2, Begun DEF InFlight
        <4>2. /\ refreshes[r].life <= doc.life
              /\ refreshes[r].life = doc.life => refreshes[r].version \in 1..doc.version
              /\ \A s \in Refreshes :
                   r <= s /\ refreshes[r].life = doc.life /\ refreshes[s].pc # "over" /\ refreshes[s].life = doc.life
                   => refreshes[r].version <= refreshes[s].version
          BY <3>2, <4>1 DEF InOrder, Ours, InFlight
        <4>3. refreshes'[Newest].pc # "over" => refreshes'[Newest].version = doc.version
          BY <2>1, <2>2, Begun
        <4>4. /\ doc.version \in Nat
              /\ \A s \in Refreshes' : s = Newest \/ (s \in Refreshes /\ refreshes'[s] = refreshes[s])
          BY <2>1, Begun, Numbers
        <4>5. ASSUME NEW s \in Refreshes', refreshes'[s].pc # "over", refreshes'[s].life = doc.life, r <= s,
                     refreshes[r].life = doc.life
              PROVE  refreshes[r].version <= refreshes'[s].version
          BY <4>2, <4>3, <4>4, <4>5
        <4> QED  BY <2>2, <4>1, <4>2, <4>5
      <3> QED  BY <2>1, <3>1, <3>2, Begun
    <2>3. CASE Opens
      <3>1. doc'.life = doc.life + 1 /\ doc'.version = 1
        BY <2>3, NewDoc
      <3> SUFFICES ASSUME NEW r \in Refreshes', refreshes'[r].pc # "over"
          PROVE /\ refreshes'[r].life <= doc'.life
                /\ refreshes'[r].life = doc'.life => r = Newest
        BY <2>1, <3>1, Begun, Numbers DEF InOrder, Ours, InFlight
      <3>2. CASE r = Newest
        BY <2>1, <3>1, <3>2, Begun, Numbers
      <3>3. CASE r \in Refreshes
        BY <2>1, <3>1, <3>3, Begun, Numbers DEF InOrder, InFlight
      <3> QED  BY <2>1, <3>2, <3>3, Begun
    <2> QED  BY <1>3, <2>2, <2>3 DEF Starts
  <1> QED  BY <1>1, <1>2, <1>3

\* The text of a refresh stays that of its version.
LEMMA TextKept ==
  ASSUME CheckTypes, InOrder, TextIs, Steps \/ Writes \/ Shuts \/ Grants \/ Starts \/ Leaves
  PROVE  TextIs'
  <1>1. CASE Steps
    <2>1. Fewer
      BY <1>1, FewerFly
    <2> QED  BY <2>1, FewerDoc DEF TextIs, Ours, InFlight, Flew, Text
  <1>2. CASE Shuts \/ Grants \/ Leaves
    <2>1. refreshes' = refreshes /\ Refreshes' = Refreshes /\ doc'.life = doc.life /\ doc'.version = doc.version
      BY <1>2, NewDoc DEF Shuts, Grants, Leaves, Refreshes
    <2> QED  BY <2>1 DEF TextIs, Ours, InFlight, Text
  <1>3. CASE Writes
    <2>1. refreshes' = refreshes /\ Refreshes' = Refreshes /\ doc'.life = doc.life /\ doc'.version = doc.version + 1
      BY <1>3, NewDoc DEF Writes, Refreshes
    <2> QED  BY <2>1, Numbers DEF TextIs, Ours, InFlight, InOrder
  <1>4. CASE Starts
    <2>1. Begins
      BY <1>4 DEF Starts
    <2> SUFFICES ASSUME NEW r \in Refreshes', refreshes'[r].pc # "over", refreshes'[r].pc # "root",
                        refreshes'[r].life = doc'.life, refreshes'[r].version = doc'.version
        PROVE refreshes'[r].text = TextOf[doc'.version]
      BY DEF TextIs, Ours, InFlight, Text
    <2>2. r \in Refreshes /\ refreshes'[r] = refreshes[r]
      BY <2>1, Begun
    <2>3. doc' = doc
      <3>1. ~Opens
        BY <2>2, NewDoc, Numbers DEF InOrder, InFlight
      <3> QED  BY <1>4, <3>1 DEF Starts
    <2> QED  BY <2>2, <2>3 DEF TextIs, Ours, InFlight, Text
  <1> QED  BY <1>1, <1>2, <1>3, <1>4

\* The newest refresh stays that of the version on screen.
LEMMA LatestKept ==
  ASSUME CheckTypes, LatestIs, Steps \/ Writes \/ Shuts \/ Grants \/ Starts \/ Leaves
  PROVE  LatestIs'
  <1>1. CASE Steps
    <2>1. Fewer
      BY <1>1, FewerFly
    <2>2. Settled' => Settled
      BY <2>1, FewerDoc DEF Settled
    <2>3. latest = Len(refreshes) /\ latest # 0 => latest \in Refreshes
      BY Numbers
    <2> QED  BY <2>1, <2>2, <2>3, FewerDoc DEF LatestIs, Ours, InFlight, Flew
  <1>2. CASE Writes \/ Shuts \/ Grants \/ Leaves
    <2>1. ~Settled'
      BY <1>2, NewDoc DEF Settled, Writes, Shuts, Grants, Leaves
    <2> QED  BY <2>1 DEF LatestIs
  <1>3. CASE Starts
    <2>1. Begins /\ latest' = Newest /\ Newest # 0
      BY <1>3, Numbers DEF Starts, Begins
    <2> QED  BY <2>1, Begun DEF LatestIs, Settled, Ours, InFlight
  <1> QED  BY <1>1, <1>2, <1>3

\* Only the end of a refresh of the open document, by the process that holds its key, is shown.
LEMMA Seen ==
  ASSUME CheckTypes, RunningIs, NEW r \in Refreshes, EndsSeen(r)
  PROVE  /\ doc.open /\ on /\ Ours(r) /\ refreshes[r].pc = "run" /\ r = running /\ r # 0
         /\ running' = 0 /\ front' = front /\ overtaken' = overtaken
         /\ ~overtaken => r = front
  <1>1. doc.open /\ on /\ Ours(r) /\ refreshes[r].pc = "run" /\ ~refreshes[r].superseded
    BY DEF EndsSeen, Unmarked, IsOpen, Ours, InFlight
  <1>2. r = running /\ r # 0
    BY <1>1, Numbers DEF RunningIs
  <1> QED  BY <1>1, <1>2 DEF EndsSeen, Frees, RunningIs

\* Nothing but the end of a check that is shown changes what is on screen and recorded.
LEMMA PagesStay ==
  ASSUME Steps PROVE UNCHANGED << pageVars, entry >> \/ \E r \in Refreshes : EndsSeen(r)
  BY DEF Steps, Idles, Passes, Waits, EndsUnseen, answerVars

\* How a step of the refreshes changes what is known of the processes.
LEMMA RunsAre ==
  ASSUME CheckTypes, Standing, RunningIs, Steps
  PROVE  /\ running' \in 0..Len(refreshes) /\ front' \in 0..Len(refreshes) /\ front <= front'
         /\ ~overtaken' => ~overtaken
         /\ front' = front \/ \E S : Passes(S)
  <1>1. CASE Idles
    BY <1>1, Numbers DEF Idles, runVars, Standing
  <1>2. ASSUME NEW S, Passes(S)
        PROVE  /\ running' \in 0..Len(refreshes) /\ front' \in 0..Len(refreshes) /\ front <= front'
               /\ ~overtaken' => ~overtaken
    <2>1. CASE Goes(S)
      BY <2>1, Numbers DEF Goes, runVars, Standing
    <2>2. CASE Spawns(S)
      <3>1. S \subseteq 1..Len(refreshes) /\ running' \in S /\ front' \in S \union {front}
            /\ (\A s \in S \union {front} : s <= front') /\ (~overtaken' => ~overtaken)
        BY <2>2, Numbers DEF Spawns
      <3> QED  BY <3>1, Numbers DEF Standing
    <2> QED  BY <1>2, <2>1, <2>2 DEF Passes
  <1>3. ASSUME NEW r \in Refreshes, Waits(r) \/ EndsUnseen(r) \/ EndsSeen(r)
        PROVE  /\ running' \in 0..Len(refreshes) /\ front' = front /\ overtaken' = overtaken
    <2>1. Frees(r) \/ UNCHANGED runVars
      BY <1>3 DEF Waits, EndsUnseen, EndsSeen
    <2>2. running' \in {0, running} /\ front' = front /\ overtaken' = overtaken
      BY <2>1 DEF Frees, runVars
    <2> QED  BY <2>2, Numbers DEF Standing
  <1>4. front <= front
    BY Numbers
  <1>5. CASE \E S : Passes(S)
    BY <1>2, <1>5
  <1>6. CASE Idles \/ \E r \in Refreshes : Waits(r) \/ EndsUnseen(r) \/ EndsSeen(r)
    <2>1. front' = front
      BY <1>3, <1>6 DEF Idles, runVars
    <2> QED  BY <1>1, <1>3, <1>4, <1>6, <2>1 DEF Standing
  <1> QED  BY <1>5, <1>6 DEF Steps

\* What is closed, switched off or not trusted stays unrecorded.
LEMMA StandingKept ==
  ASSUME CheckTypes, Standing, InOrder, RunningIs, Steps \/ Writes \/ Shuts \/ Grants \/ Starts \/ Leaves
  PROVE  Standing'
  <1>0. checked \in Nat /\ checked <= doc.version /\ doc.version \in Nat
    BY Numbers DEF Standing
  <1>1. CASE Steps
    <2>1. /\ doc' = doc /\ on' = on /\ trusted' = trusted /\ timer' = timer /\ latest' = latest
          /\ Refreshes' = Refreshes /\ Len(refreshes') = Len(refreshes)
          /\ \A s \in Refreshes : refreshes'[s].pc # "over" => InFlight(s)
      BY <1>1, FewerFly, FewerDoc DEF Flew
    <2>2. running' \in 0..Len(refreshes) /\ front' \in 0..Len(refreshes)
      BY <1>1, RunsAre
    <2>3. ~trusted' => \A r \in Refreshes' : refreshes'[r].pc = "over"
      BY <2>1 DEF Standing, InFlight
    <2>4. /\ checked' \in 0..doc.version
          /\ ~doc.open \/ ~on \/ ~trusted => shown' = "none" /\ entry' = NoEntry /\ checked' = 0
      <3>1. CASE UNCHANGED << pageVars, entry >>
        BY <3>1 DEF pageVars, Standing
      <3>2. ASSUME NEW r \in Refreshes, EndsSeen(r)
            PROVE  checked' \in 0..doc.version /\ doc.open /\ on /\ trusted
        <4>1. doc.open /\ on /\ Ours(r)
          BY <3>2, Seen
        <4>2. trusted /\ refreshes[r].version \in 1..doc.version
          BY <4>1 DEF Standing, InOrder, Ours
        <4>3. checked' \in {checked, refreshes[r].version}
          BY <3>2 DEF EndsSeen
        <4> QED  BY <1>0, <4>1, <4>2, <4>3
      <3> QED  BY <1>1, <3>1, <3>2, PagesStay
    <2> QED  BY <2>1, <2>2, <2>3, <2>4 DEF Standing, InFlight
  <1>2. CASE Writes \/ Leaves \/ Grants
    <2>1. /\ refreshes' = refreshes /\ Refreshes' = Refreshes
          /\ UNCHANGED << latest, running, front, checked, shown, entry >>
      BY <1>2 DEF Writes, Leaves, Grants, runVars, pageVars, answerVars, Refreshes
    <2>2. CASE Writes
      <3>1. doc'.open /\ doc'.version = doc.version + 1 /\ on' = on /\ trusted' = trusted
        BY <2>2, NewDoc DEF Writes
      <3>2. checked \in 0..doc'.version
        BY <1>0, <3>1
      <3> QED  BY <2>1, <3>1, <3>2 DEF Standing, InFlight
    <2>3. CASE Leaves
      <3>1. ~doc.open /\ doc' = doc /\ (timer' => timer) /\ trusted' = trusted
        BY <2>3 DEF Leaves
      <3> QED  BY <2>1, <3>1 DEF Standing, InFlight
    <2>4. CASE Grants
      <3>1. doc' = doc /\ on' = on /\ timer' = timer /\ trusted'
        BY <2>4 DEF Grants
      <3> QED  BY <2>1, <3>1 DEF Standing, InFlight
    <2> QED  BY <1>2, <2>2, <2>3, <2>4
  <1>3. CASE Shuts
    <2>1. /\ ~doc'.open /\ doc'.version = doc.version
          /\ refreshes' = refreshes /\ Refreshes' = Refreshes /\ latest' = 0
          /\ UNCHANGED << running, front, trusted >>
          /\ checked' = 0 /\ shown' = "none" /\ entry' = NoEntry /\ ~timer'
      BY <1>3, NewDoc DEF Shuts, runVars, Refreshes
    <2> QED  BY <1>0, <2>1 DEF Standing, InFlight
  <1>4. CASE Starts
    <2>1. Begins /\ doc'.open /\ trusted' = trusted
      BY <1>4, NewDoc DEF Starts
    <2>2. latest' = Len(refreshes') /\ Len(refreshes') = Len(refreshes) + 1 /\ UNCHANGED << running, front >>
      BY <2>1, Begun DEF Begins, Newest, runVars
    <2>3. ~trusted' => \A r \in Refreshes' : refreshes'[r].pc = "over"
      BY <2>1, Begun DEF Standing, InFlight
    <2>4. checked' \in 0..doc'.version
      <3>1. CASE doc' = doc
        BY <1>0, <2>1, <3>1 DEF Begins
      <3>2. CASE Opens
        <4>1. checked = 0 /\ doc'.version = 1
          BY <3>2, NewDoc DEF Standing, Opens
        <4> QED  BY <2>1, <4>1 DEF Begins
      <3> QED  BY <1>4, <3>1, <3>2 DEF Starts
    <2>5. ~on' \/ ~trusted' => shown' = "none" /\ entry' = NoEntry /\ checked' = 0
      BY <2>1 DEF Begins, Standing
    <2> QED  BY <2>1, <2>2, <2>3, <2>4, <2>5, Numbers DEF Standing, InFlight
  <1> QED  BY <1>1, <1>2, <1>3, <1>4

\* One process holds the document's key.
LEMMA RunningKept ==
  ASSUME CheckTypes, Standing, RunningIs, Steps \/ Writes \/ Shuts \/ Grants \/ Starts \/ Leaves
  PROVE  RunningIs'
  <1>0. /\ Refreshes = 1..Len(refreshes) /\ Len(refreshes) \in Nat /\ running \in 0..Len(refreshes)
        /\ \A s \in Refreshes : s \in Nat \ {0}
    BY Numbers DEF Standing
  <1>1. CASE Idles /\ Same
    BY <1>0, <1>1 DEF Idles, Rest, Stays, runVars, Same, RunningIs, Refreshes
  <1>2. ASSUME NEW S, Goes(S), Same PROVE RunningIs'
    BY <1>0, <1>2 DEF Goes, Rest, Stays, runVars, Same, RunningIs, Refreshes, Before
  <1>3. ASSUME NEW S, Spawns(S), Same PROVE RunningIs'
    <2>1. Refreshes' = Refreshes /\ Len(refreshes') = Len(refreshes)
      BY <1>3 DEF Same, Refreshes
    <2>2. /\ S \subseteq Refreshes /\ running' \in S /\ running' # 0
          /\ \A s \in S : refreshes'[s].pc = "run" /\ refreshes'[s].superseded = (s # running')
      BY <1>0, <1>3 DEF Spawns
    <2>3. \A s \in Refreshes \ S : s # running => Stays(s)
      BY <1>3 DEF Spawns, Rest
    <2>4. running \in Refreshes \ S => refreshes'[running].superseded /\ refreshes'[running].pc = "run"
      BY <1>0, <1>3 DEF Spawns, RunningIs
    <2>5. refreshes'[running'].pc = "run" /\ ~refreshes'[running'].superseded
      BY <2>2
    <2>6. \A s \in Refreshes : refreshes'[s].pc = "run" /\ ~refreshes'[s].superseded => s = running'
      BY <2>2, <2>3, <2>4 DEF Stays, RunningIs
    <2>7. \A s \in Refreshes : refreshes'[s].pc = "await" => refreshes'[s].awaits \in s..Len(refreshes)
      BY <2>2, <2>3, <2>4 DEF Stays, RunningIs
    <2>8. ~overtaken' => running' = front'
      BY <1>3 DEF Spawns
    <2> QED  BY <2>1, <2>5, <2>6, <2>7, <2>8 DEF RunningIs
  <1>4. ASSUME NEW r \in Refreshes, Waits(r), Same PROVE RunningIs'
    <2>1. Refreshes' = Refreshes /\ Len(refreshes') = Len(refreshes)
      BY <1>4 DEF Same, Refreshes
    <2>2. r # running /\ running' = running /\ front' = front /\ overtaken' = overtaken
      BY <1>0, <1>4 DEF Waits, Frees, RunningIs
    <2>3. /\ refreshes'[r].pc = "await" /\ refreshes'[r].awaits \in r..Len(refreshes)
          /\ \A s \in Refreshes \ {r} : Stays(s)
      BY <1>0, <1>4 DEF Waits, Rest, Standing
    <2> QED  BY <1>0, <2>1, <2>2, <2>3 DEF RunningIs, Stays
  <1>5. ASSUME NEW r \in Refreshes, EndsUnseen(r) \/ EndsSeen(r), Same PROVE RunningIs'
    <2>1. Refreshes' = Refreshes /\ Len(refreshes') = Len(refreshes)
      BY <1>5 DEF Same, Refreshes
    <2>2. /\ refreshes'[r].pc = "over" /\ \A s \in Refreshes \ {r} : Stays(s)
      BY <1>5 DEF EndsUnseen, EndsSeen, Ends, Rest
    <2>3. running' = (IF running = r THEN 0 ELSE running) /\ front' = front /\ overtaken' = overtaken
      <3>1. CASE Frees(r)
        BY <3>1 DEF Frees
      <3>2. CASE UNCHANGED runVars /\ refreshes[r].pc # "run"
        BY <1>0, <3>2 DEF runVars, RunningIs
      <3> QED  BY <1>5, <3>1, <3>2 DEF EndsUnseen, EndsSeen
    <2> QED  BY <1>0, <2>1, <2>2, <2>3 DEF RunningIs, Stays
  <1>6. CASE Writes \/ Shuts \/ Grants \/ Leaves
    <2>1. refreshes' = refreshes /\ Refreshes' = Refreshes /\ UNCHANGED << running, front, overtaken >>
      BY <1>6 DEF Writes, Shuts, Grants, Leaves, runVars, Refreshes
    <2> QED  BY <2>1 DEF RunningIs
  <1>7. CASE Starts
    <2>1. Begins /\ UNCHANGED << running, front, overtaken >>
      BY <1>7 DEF Starts, Begins, runVars
    <2>2. /\ Refreshes' = Refreshes \union {Newest} /\ Newest \notin Refreshes /\ Len(refreshes') = Newest
          /\ \A s \in Refreshes : s < Newest /\ refreshes'[s] = refreshes[s]
          /\ refreshes'[Newest].pc \in {"over", "root"}
      BY <2>1, Begun
    <2>3. Newest = Len(refreshes) + 1
      BY DEF Newest
    <2>4. running \in Refreshes \/ running = 0
      BY <1>0
    <2>5. \A s \in Refreshes : refreshes'[s].pc = "await" => refreshes'[s].awaits \in s..Newest
      BY <1>0, <2>2, <2>3 DEF RunningIs
    <2> QED  BY <2>1, <2>2, <2>4, <2>5 DEF RunningIs
  <1> QED  BY <1>1, <1>2, <1>3, <1>4, <1>5, <1>6, <1>7 DEF Steps, Passes

\* What is recorded as checked stays what is shown.
LEMMA CheckedKept ==
  ASSUME CheckTypes, Standing, RunningIs, InOrder, TextIs, CheckedIs,
         Steps \/ Writes \/ Shuts \/ Grants \/ Starts \/ Leaves
  PROVE  CheckedIs'
  <1>0. checked \in Nat /\ checked <= doc.version /\ doc.version \in Nat \ {0}
    BY Numbers DEF Standing
  <1>1. CASE Steps
    <2>1. doc' = doc /\ on' = on
      BY <1>1, FewerFly, FewerDoc
    <2>2. CASE UNCHANGED << pageVars, entry >>
      BY <2>1, <2>2 DEF pageVars, CheckedIs, Text
    <2>3. ASSUME NEW r \in Refreshes, EndsSeen(r) PROVE CheckedIs'
      <3>1. Ours(r) /\ refreshes[r].pc # "root"
        BY <2>3, Seen
      <3>2. \/ status' = "failed"
            \/ checked' = refreshes[r].version /\ shown' = refreshes[r].text
        BY <2>3 DEF EndsSeen
      <3>3. CASE checked' = refreshes[r].version /\ shown' = refreshes[r].text
        BY <2>1, <3>1, <3>3 DEF TextIs, CheckedIs, Text
      <3> QED  BY <3>2, <3>3 DEF CheckedIs
    <2> QED  BY <1>1, <2>2, <2>3, PagesStay
  <1>2. CASE Writes
    <2>1. checked' = checked /\ doc'.version = doc.version + 1
      BY <1>2, NewDoc DEF Writes, pageVars
    <2> QED  BY <1>0, <2>1 DEF CheckedIs
  <1>3. CASE Grants
    BY <1>3 DEF Grants, pageVars, CheckedIs, Text
  <1>4. CASE Shuts \/ Leaves
    BY <1>4, NewDoc DEF Leaves, CheckedIs
  <1>5. CASE Starts
    <2>1. Begins
      BY <1>5 DEF Starts
    <2>2. doc'.version \in Nat \ {0}
      BY <1>0, <1>5, NewDoc DEF Starts
    <2>3. CASE checked' = 0
      BY <2>2, <2>3 DEF CheckedIs
    <2>4. CASE checked' = checked /\ checked # 0
      <3>1. doc.open /\ on
        BY <2>4 DEF Standing
      <3>2. doc' = doc
        BY <1>5, <3>1 DEF Starts, Opens
      <3>3. shown' = shown /\ status' = status
        BY <2>1, <2>4 DEF Begins
      <3> QED  BY <2>4, <3>1, <3>2, <3>3 DEF CheckedIs, Text
    <2>5. checked' = 0 \/ checked' = checked
      BY <2>1 DEF Begins
    <2> QED  BY <2>3, <2>4, <2>5
  <1> QED  BY <1>1, <1>2, <1>3, <1>4, <1>5

\* No older check is recorded after a newer one, unless a process overtook another.
LEMMA NotBelowKept ==
  ASSUME CheckTypes, Standing, RunningIs, InOrder, NotBelow,
         Steps \/ Writes \/ Shuts \/ Grants \/ Starts \/ Leaves
  PROVE  NotBelow'
  <1>0. /\ checked \in Nat /\ checked <= doc.version /\ front \in Nat
        /\ \A s \in Refreshes : s \in Nat /\ refreshes[s].version \in Nat
    BY Numbers DEF Standing
  <1>1. CASE Steps
    <2>1. /\ doc' = doc /\ Refreshes' = Refreshes
          /\ \A s \in Refreshes : refreshes'[s].pc # "over" => Flew(s)
      BY <1>1, FewerFly, FewerDoc
    <2>2. front' \in Nat /\ front <= front' /\ (~overtaken' => ~overtaken)
      BY <1>1, RunsAre, Numbers
    <2> SUFFICES ASSUME ~overtaken', doc.open, NEW s \in Refreshes, s >= front', refreshes'[s].pc # "over",
                        refreshes'[s].life = doc.life
        PROVE refreshes'[s].version >= checked'
      BY <2>1 DEF NotBelow, Ours, InFlight
    <2>3. Ours(s) /\ refreshes'[s].version = refreshes[s].version /\ ~overtaken /\ s >= front
      <3>1. ~overtaken /\ s >= front
        BY <1>0, <2>2
      <3> QED  BY <2>1, <3>1 DEF Flew, Ours, InFlight
    <2>4. CASE checked' = checked
      BY <2>3, <2>4 DEF NotBelow
    <2>5. ASSUME NEW r \in Refreshes, EndsSeen(r), checked' # checked
          PROVE  refreshes'[s].version >= checked'
      <3>1. Ours(r) /\ r = front /\ r <= s
        BY <2>3, <2>5, Seen, Numbers
      <3>2. refreshes[r].version <= refreshes[s].version
        BY <2>3, <3>1 DEF InOrder, Ours
      <3>3. checked' = refreshes[r].version
        BY <2>5 DEF EndsSeen
      <3> QED  BY <1>0, <2>3, <3>2, <3>3
    <2> QED  BY <1>1, <2>4, <2>5, PagesStay DEF pageVars
  <1>2. CASE Writes \/ Grants
    <2>1. /\ doc.open = doc'.open /\ doc'.life = doc.life /\ refreshes' = refreshes /\ Refreshes' = Refreshes
          /\ UNCHANGED << checked, front, overtaken >>
      BY <1>2, NewDoc DEF Writes, Grants, pageVars, runVars, Refreshes
    <2> QED  BY <2>1 DEF NotBelow, Ours, InFlight
  <1>3. CASE Shuts \/ Leaves
    BY <1>3, NewDoc DEF Leaves, NotBelow
  <1>4. CASE Starts
    <2>1. Begins /\ UNCHANGED << front, overtaken >> /\ (checked' = 0 \/ checked' = checked)
      BY <1>4 DEF Starts, Begins, runVars
    <2> SUFFICES ASSUME ~overtaken, NEW s \in Refreshes', s >= front, refreshes'[s].pc # "over",
                        refreshes'[s].life = doc'.life
        PROVE refreshes'[s].version >= checked'
      BY <2>1 DEF NotBelow, Ours, InFlight
    <2>2. refreshes'[s].version \in Nat /\ (s = Newest => refreshes'[s].version = doc'.version)
      <3>1. doc'.version \in Nat
        BY <1>4, NewDoc, Numbers DEF Starts
      <3> QED  BY <1>0, <2>1, <3>1, Begun
    <2>3. CASE checked' = 0
      BY <2>2, <2>3
    <2>4. CASE checked' = checked /\ checked # 0
      <3>1. doc.open /\ doc' = doc
        BY <1>4, <2>4 DEF Standing, Starts, Opens
      <3>2. CASE s = Newest
        BY <1>0, <2>2, <2>4, <3>1, <3>2
      <3>3. CASE s \in Refreshes
        <4>1. refreshes'[s] = refreshes[s]
          BY <2>1, <3>3, Begun
        <4> QED  BY <2>4, <3>1, <3>3, <4>1 DEF NotBelow, Ours, InFlight
      <3> QED  BY <2>1, <3>2, <3>3, Begun
    <2> QED  BY <2>1, <2>3, <2>4
  <1> QED  BY <1>1, <1>2, <1>3, <1>4

\* Once the newest refresh is over, the version on screen is checked or its check failed.
LEMMA OverKept ==
  ASSUME CheckTypes, Standing, RunningIs, InOrder, LatestIs, NotBelow, OverIs,
         Steps \/ Writes \/ Shuts \/ Grants \/ Starts \/ Leaves
  PROVE  OverIs'
  <1>0. /\ checked \in Nat /\ checked <= doc.version /\ doc.version \in Nat /\ front \in 0..Len(refreshes)
        /\ Refreshes = 1..Len(refreshes) /\ Len(refreshes) \in Nat
        /\ \A s \in Refreshes : s \in Nat /\ refreshes[s].version \in Nat
    BY Numbers DEF Standing
  <1>1. CASE Steps
    <2>1. /\ doc' = doc /\ on' = on /\ trusted' = trusted /\ starting' = starting /\ timer' = timer
          /\ latest' = latest /\ Len(refreshes') = Len(refreshes)
      BY <1>1, FewerFly, FewerDoc
    <2>2. /\ front' \in 0..Len(refreshes) /\ front <= front'
          /\ ~overtaken' => ~overtaken
          /\ front' = front \/ \E S : Passes(S)
      BY <1>1, RunsAre
    <2> SUFFICES ASSUME Settled, ~overtaken', refreshes'[latest].pc = "over"
        PROVE checked' = doc.version \/ (status' = "failed" /\ front' = latest)
      BY <2>1 DEF OverIs, Settled, InFlight
    <2>3. /\ latest \in Refreshes /\ latest = Len(refreshes) /\ latest # 0 /\ ~overtaken
          /\ doc.open /\ on
          /\ InFlight(latest) => Ours(latest) /\ refreshes[latest].version = doc.version
      BY <1>0, <2>2 DEF LatestIs, Settled
    <2>4. ~InFlight(latest) => checked = doc.version \/ (status = "failed" /\ front = latest)
      BY <2>3 DEF OverIs
    <2>5. CASE ~InFlight(latest) /\ UNCHANGED << pageVars, entry >>
      <3>1. front = latest => front' = latest
        BY <1>0, <2>2, <2>3
      <3> QED  BY <2>4, <2>5, <3>1 DEF pageVars
    <2>6. CASE Idles
      BY <2>3, <2>5, <2>6 DEF Idles, Rest, Stays, InFlight
    <2>7. ASSUME NEW S, Passes(S) PROVE ~InFlight(latest) /\ UNCHANGED << pageVars, entry >>
      <3>1. UNCHANGED << pageVars, entry >>
        BY <2>7 DEF Passes, answerVars
      <3>2. CASE Goes(S)
        BY <2>3, <3>1, <3>2 DEF Goes, Rest, Stays, InFlight
      <3>3. CASE Spawns(S)
        <4>1. latest \notin S
          BY <3>3 DEF Spawns
        <4>2. CASE latest = running
          BY <2>3, <3>1, <3>3, <4>1, <4>2 DEF Spawns, InFlight
        <4>3. CASE latest # running
          BY <2>3, <3>1, <3>3, <4>1, <4>3 DEF Spawns, Rest, Stays, InFlight
        <4> QED  BY <3>1, <4>2, <4>3
      <3> QED  BY <2>7, <3>2, <3>3 DEF Passes
    <2>8. ASSUME NEW r \in Refreshes, Waits(r) PROVE ~InFlight(latest) /\ UNCHANGED << pageVars, entry >>
      <3>1. latest # r
        BY <2>8 DEF Waits
      <3> QED  BY <2>3, <2>8, <3>1 DEF Waits, Rest, Stays, InFlight, answerVars
    <2>9. ASSUME NEW r \in Refreshes, EndsUnseen(r)
          PROVE checked' = doc.version \/ (~InFlight(latest) /\ UNCHANGED << pageVars, entry >>)
      <3>0. UNCHANGED << pageVars, entry >>
        BY <2>9 DEF EndsUnseen
      <3>1. CASE latest # r
        BY <2>3, <2>9, <3>0, <3>1 DEF EndsUnseen, Ends, Rest, Stays, InFlight
      <3>2. CASE latest = r
        <4>1. CASE ~InFlight(latest)
          BY <3>0, <4>1
        <4>2. CASE InFlight(latest)
          <5>1. Ours(r) /\ refreshes[r].version = doc.version /\ ~Unmarked(r)
            BY <2>3, <3>2, <4>2 DEF Ours, Unmarked, IsOpen
          <5>2. refreshes[r].pc # "await" \/ InFlight(refreshes[r].awaits)
            <6>1. refreshes[r].pc = "await" => refreshes[r].awaits \in r..Len(refreshes)
              BY DEF RunningIs
            <6> QED  BY <1>0, <2>3, <3>2, <4>2, <6>1
          <5>3. checked = refreshes[r].version
            BY <2>3, <2>9, <5>1, <5>2 DEF EndsUnseen
          <5> QED  BY <3>0, <5>1, <5>3 DEF pageVars
        <4> QED  BY <4>1, <4>2
      <3> QED  BY <3>1, <3>2
    <2>10. ASSUME NEW r \in Refreshes, EndsSeen(r)
           PROVE  checked' = doc.version \/ (status' = "failed" /\ front' = latest)
      <3>1. Ours(r) /\ r = front /\ front' = front
        BY <2>3, <2>10, Seen
      <3>2. \/ status' = "failed" /\ checked' = checked
            \/ checked' = refreshes[r].version
        BY <2>10 DEF EndsSeen
      <3>3. CASE r = latest
        BY <2>3, <3>1, <3>2, <3>3 DEF Ours
      <3>4. CASE r # latest
        <4>1. ~InFlight(latest)
          BY <2>3, <2>10, <3>4 DEF EndsSeen, Ends, Rest, Stays, InFlight
        <4>2. checked = doc.version
          BY <2>4, <3>1, <3>4, <4>1
        <4>3. refreshes[r].version >= checked /\ refreshes[r].version <= doc.version
          <5>1. refreshes[r].version >= checked
            BY <1>0, <2>3, <3>1 DEF NotBelow
          <5>2. refreshes[r].version \in 1..doc.version
            BY <3>1 DEF InOrder, Ours
          <5> QED  BY <1>0, <5>1, <5>2
        <4> QED  BY <1>0, <3>2, <4>2, <4>3
      <3> QED  BY <3>3, <3>4
    <2> QED  BY <1>1, <2>5, <2>6, <2>7, <2>8, <2>9, <2>10 DEF Steps
  <1>2. CASE Writes \/ Shuts \/ Grants \/ Leaves
    <2>1. ~Settled'
      BY <1>2, NewDoc DEF Settled, Writes, Shuts, Grants, Leaves
    <2> QED  BY <2>1 DEF OverIs
  <1>3. CASE Starts
    <2>1. Begins /\ latest' = Newest
      BY <1>3 DEF Starts, Begins
    <2>2. Settled' => refreshes'[Newest].pc = "root"
      BY <2>1, Begun DEF Settled
    <2> QED  BY <2>1, <2>2 DEF OverIs, InFlight
  <1> QED  BY <1>1, <1>2, <1>3

\* Whoever waits has a refresh to wait for.
LEMMA WaitKept ==
  ASSUME CheckTypes, Standing, RunningIs, WaitIs,
         Steps \/ Writes \/ Shuts \/ Grants \/ Starts \/ Leaves
  PROVE  WaitIs'
  <1>0. /\ doc.version \in Nat /\ released \in Nat /\ waiters \in SUBSET Nat
        /\ \A s \in Refreshes : refreshes[s].version \in Nat
    BY Numbers DEF CheckTypes
  <1>1. CASE Steps
    <2>1. /\ doc' = doc /\ on' = on /\ trusted' = trusted /\ starting' = starting /\ timer' = timer
          /\ Refreshes' = Refreshes
      BY <1>1, FewerFly, FewerDoc
    <2>2. \A s \in Refreshes : refreshes'[s].pc # "over" =>
             refreshes'[s].life = refreshes[s].life /\ refreshes'[s].version = refreshes[s].version
      BY <1>1, FewerFly, FewerDoc DEF Flew
    <2> DEFINE Heard ==
          /\ released' \in Nat /\ released' >= released
          /\ waiters' # {} => doc.open /\ trusted
          /\ \A w \in waiters' : released' < w /\ w <= doc.version
          /\ doc.open => \A s \in Refreshes :
               Ours(s) /\ refreshes'[s].pc = "over" => released' >= refreshes[s].version
    <2>3. ASSUME Idles PROVE Heard
      <3>1. \A s \in Refreshes : Ours(s) => refreshes'[s].pc # "over"
        BY <2>3 DEF Idles, Rest, Stays, Ours, InFlight
      <3>2. released' = released
        BY <2>3 DEF Idles
      <3>3. CASE waiters' = waiters
        BY <1>0, <3>1, <3>2, <3>3 DEF WaitIs
      <3>4. CASE Ask
        <4>1. doc.open /\ released < doc.version /\ entry.answer /\ waiters' = waiters \union {doc.version}
          BY <3>4 DEF Ask
        <4>2. NoEntry.answer = FALSE
          BY DEF NoEntry
        <4>3. trusted
          BY <4>1, <4>2 DEF Standing
        <4> QED  BY <1>0, <3>1, <3>2, <4>1, <4>3 DEF WaitIs
      <3> QED  BY <2>3, <3>3, <3>4 DEF Idles
    <2>4. ASSUME NEW S, Passes(S) PROVE Heard
      <3>1. \A s \in Refreshes : Ours(s) => refreshes'[s].pc # "over"
        <4>1. CASE Goes(S)
          BY <4>1 DEF Goes, Rest, Stays, Ours, InFlight
        <4>2. CASE Spawns(S)
          BY <4>2 DEF Spawns, Rest, Stays, Ours, InFlight
        <4> QED  BY <2>4, <4>1, <4>2 DEF Passes
      <3>2. released' = released /\ waiters' = waiters
        BY <2>4 DEF Passes, answerVars
      <3> QED  BY <1>0, <3>1, <3>2 DEF WaitIs
    <2>5. ASSUME NEW r \in Refreshes, Waits(r) PROVE Heard
      <3>1. \A s \in Refreshes : Ours(s) => refreshes'[s].pc # "over"
        BY <2>5 DEF Waits, Rest, Stays, Ours, InFlight
      <3>2. released' = released /\ waiters' = waiters
        BY <2>5 DEF Waits, answerVars
      <3> QED  BY <1>0, <3>1, <3>2 DEF WaitIs
    <2>6. ASSUME NEW r \in Refreshes, EndsUnseen(r) \/ EndsSeen(r) PROVE Heard
      <3>1. \A s \in Refreshes : Ours(s) /\ s # r => refreshes'[s].pc # "over"
        BY <2>6 DEF EndsUnseen, EndsSeen, Ends, Rest, Stays, Ours, InFlight
      <3>2. Tells(r)
        BY <2>6 DEF EndsUnseen, EndsSeen
      <3>3. CASE IsOpen(r)
        <4>1. PICK v \in Nat : v = refreshes[r].version
          BY <1>0
        <4>2. Release(v)
          BY <3>2, <3>3, <4>1 DEF Tells
        <4>3. /\ released' \in Nat /\ released' \in {released, v} /\ released' >= released /\ released' >= v
              /\ waiters' = {w \in waiters : w > v}
          BY <4>1, <4>2, Releases
        <4> QED  BY <1>0, <3>1, <4>1, <4>3 DEF WaitIs
      <3>4. CASE ~IsOpen(r)
        <4>1. released' = released /\ waiters' = waiters
          BY <3>2, <3>4 DEF Tells
        <4>2. doc.open => ~Ours(r)
          BY <3>4 DEF IsOpen, Ours
        <4>3. doc.open => \A s \in Refreshes : Ours(s) => refreshes'[s].pc # "over"
          BY <3>1, <4>2
        <4> QED  BY <1>0, <4>1, <4>3 DEF WaitIs
      <3> QED  BY <3>3, <3>4
    <2>7. Heard
      BY <1>1, <2>3, <2>4, <2>5, <2>6 DEF Steps
    <2>8. ASSUME doc.open, trusted, released' < doc.version, ~timer, ~starting
          PROVE  \E s \in Refreshes : refreshes'[s].pc # "over" /\ refreshes'[s].life = doc.life
                                      /\ refreshes'[s].version = doc.version
      <3>1. released < doc.version
        BY <1>0, <2>7, <2>8
      <3>2. PICK s \in Refreshes : Ours(s) /\ refreshes[s].version = doc.version
        BY <2>8, <3>1 DEF WaitIs
      <3>3. refreshes'[s].pc # "over"
        BY <1>0, <2>7, <2>8, <3>2
      <3> QED  BY <2>2, <3>2, <3>3 DEF Ours
    <2> HIDE DEF Heard
    <2>9. /\ waiters' # {} => doc.open /\ trusted
          /\ \A w \in waiters' : released' < w /\ w <= doc.version
      BY <2>7 DEF Heard
    <2> QED  BY <2>1, <2>8, <2>9 DEF WaitIs, Ours, InFlight
  <1>2. CASE Writes
    <2>1. doc'.open = doc.open /\ doc'.version = doc.version + 1 /\ timer' /\ trusted' = trusted
          /\ released' = released /\ waiters' = waiters
      BY <1>2, NewDoc DEF Writes, answerVars
    <2> QED  BY <1>0, <2>1 DEF WaitIs
  <1>3. CASE Shuts
    BY <1>3, NewDoc DEF Shuts, WaitIs
  <1>4. CASE Grants
    BY <1>4 DEF Grants, answerVars, WaitIs
  <1>5. CASE Leaves
    BY <1>5 DEF Leaves, answerVars, WaitIs
  <1>6. CASE Starts
    <2>1. Begins /\ doc'.open /\ trusted' = trusted /\ (doc' = doc \/ ~doc.open)
      BY <1>6, NewDoc DEF Starts, Opens
    <2>2. CASE /\ trusted' /\ on' /\ UNCHANGED answerVars
               /\ refreshes'[Newest].pc = "root" /\ refreshes'[Newest].life = doc'.life
               /\ refreshes'[Newest].version = doc'.version
      <3>1. Newest \in Refreshes'
        BY <2>1, Begun
      <3>2. released' = released /\ waiters' = waiters
        BY <2>2 DEF answerVars
      <3>3. \A w \in waiters' : released' < w /\ w <= doc'.version
        BY <2>1, <3>2 DEF WaitIs
      <3> QED  BY <2>1, <2>2, <3>1, <3>2, <3>3 DEF WaitIs, Ours, InFlight
    <2>3. CASE released' = doc'.version /\ waiters' = {}
      <3>1. doc'.version \in Nat
        BY <1>0, <1>6, NewDoc DEF Starts
      <3> QED  BY <2>3, <3>1 DEF WaitIs
    <2>4. CASE ~trusted' /\ Release(doc'.version)
      <3>1. waiters' = {}
        BY <2>1, <2>4 DEF Release, WaitIs
      <3> QED  BY <2>4, <3>1 DEF WaitIs
    <2> QED  BY <2>1, <2>2, <2>3, <2>4 DEF Begins
  <1> QED  BY <1>1, <1>2, <1>3, <1>4, <1>5, <1>6

\* What is known of the checker changes only with the picks that were made from it.
LEMMA UserLeavesTool == ASSUME UserSteps PROVE UNCHANGED << tool, disk, time, unseen >>
  <1>1. CASE Edit \/ Close \/ Grant
    BY <1>1 DEF Edit, Close, Grant, toolVars
  <1>2. CASE Debounced \/ Save \/ Open
    BY <1>2 DEF Debounced, Save, Open, refresh
  <1>3. CASE Switch
    BY <1>3 DEF Switch, refresh
  <1>4. CASE Start
    BY <1>4 DEF Start, refresh
  <1> QED  BY <1>1, <1>2, <1>3, <1>4 DEF UserSteps

\* After picks are given up none of them is kept.
LEMMA UnkeptPicks ==
  ASSUME CheckTypes, NEW u, u = UnkeepPicks(refreshes), Same,
         \A s \in Refreshes : refreshes'[s] = u[s] \/ refreshes'[s].pc = "over"
  PROVE  PickIs'
  <1>1. \A s \in Refreshes : u[s].pc = refreshes[s].pc /\ (u[s].kept => refreshes[s].pc # "pick")
    BY UnkeptStays
  <1>2. \A s \in Refreshes' : ~(refreshes'[s].pc = "pick" /\ refreshes'[s].kept)
    BY <1>1 DEF Same, Refreshes
  <1> QED  BY <1>2 DEF PickIs

\* A pick that will be kept is made from what is known of the checker (Picked, UnkeepPicks).
LEMMA PicksKept ==
  ASSUME CheckTypes, PickIs, Next PROVE PickIs'
  <1>1. CASE SampleSources \/ Ask \/ ChangeSource \/ Clean
    <2>1. refreshes' = refreshes /\ tool' = tool
      BY <1>1 DEF SampleSources, Ask, ChangeSource, Clean, toolVars
    <2> QED  BY <2>1 DEF PickIs, Refreshes
  <1>2. ASSUME NEW left, left = UnkeepPicks(refreshes), refreshes' = left
        PROVE  PickIs'
    <2>1. DOMAIN left = Refreshes /\ Len(left) = Len(refreshes)
      BY <1>2, UnkeptStays
    <2> QED  BY <1>2, <2>1, UnkeptPicks DEF Same, Refreshes
  <1>3. ASSUME NEW r \in Refreshes, NEW left, left = UnkeepPicks(refreshes), refreshes' = [left EXCEPT ![r] = Over]
        PROVE  PickIs'
    <2>1. DOMAIN left = Refreshes /\ Len(left) = Len(refreshes) /\ left \in Seq(RefreshState)
      BY <1>3, UnkeptStays
    <2>2. Same /\ \A s \in Refreshes : refreshes'[s] = left[s] \/ refreshes'[s].pc = "over"
      BY <1>3, <2>1, OverType DEF Same, Refreshes
    <2> QED  BY <1>3, <2>2, UnkeptPicks
  <1>4. CASE Resolve
    <2>1. CASE refreshes' = UnkeepPicks(refreshes)
      BY <1>2, <2>1
    <2>2. CASE refreshes' = refreshes /\ tool' = tool
      BY <2>2 DEF PickIs, Refreshes
    <2> QED  BY <1>4, <2>1, <2>2 DEF Resolve
  <1>5. CASE Watched
    <2>1. refreshes' = [s \in Refreshes |-> IF refreshes[s].pc \in {"pick", "probe"}
                                            THEN [refreshes[s] EXCEPT !.kept = FALSE] ELSE refreshes[s]]
      BY <1>5 DEF Watched
    <2>2. \A s \in Refreshes : ~(refreshes'[s].pc = "pick" /\ refreshes'[s].kept)
      <3> SUFFICES ASSUME NEW s \in Refreshes PROVE ~(refreshes'[s].pc = "pick" /\ refreshes'[s].kept)
        OBVIOUS
      <3>1. PICK q, p : q = refreshes[s] /\ p = [q EXCEPT !.kept = FALSE]
        OBVIOUS
      <3>2. q \in RefreshState
        BY <3>1, OnesType
      <3>3. p.kept = FALSE /\ p.pc = q.pc
        BY <3>1, <3>2 DEF RefreshState
      <3>4. refreshes'[s] = IF q.pc \in {"pick", "probe"} THEN p ELSE q
        BY <2>1, <3>1
      <3> QED  BY <3>3, <3>4
    <2>3. Refreshes' = Refreshes
      BY <2>1 DEF Refreshes
    <2> QED  BY <2>2, <2>3 DEF PickIs
  <1>6. CASE UserSteps
    <2>1. tool' = tool
      BY <1>6, UserLeavesTool
    <2>2. refreshes' = refreshes \/ Begins
      BY <1>6, UserStepsAre DEF Users
    <2>3. CASE refreshes' = refreshes
      BY <2>1, <2>3 DEF PickIs, Refreshes
    <2>4. CASE Begins
      <3>1. \A s \in Refreshes' : \/ refreshes'[s].pc \in {"over", "root"}
                                 \/ (s \in Refreshes /\ refreshes'[s] = refreshes[s])
        BY <2>4, Begun
      <3> QED  BY <2>1, <3>1 DEF PickIs
    <2> QED  BY <2>2, <2>3, <2>4
  <1>7. ASSUME NEW r \in Refreshes, Await(r), tool'.binary = tool.binary, tool'.stamp = tool.stamp
        PROVE  PickIs'
    <2>1. Same /\ Proceeds(r)
      BY <1>7, AwaitSteps
    <2>2. Refreshes' = Refreshes
      BY <2>1 DEF Same, Refreshes
    <2> DEFINE Was(s) == /\ refreshes[s].pc = "pick" /\ refreshes[s].kept
                         /\ refreshes'[s].against = refreshes[s].against
               Made(s) == tool.binary = "built" /\ refreshes'[s].against = tool.stamp
    <2>3. ASSUME NEW s \in Refreshes, refreshes'[s].pc = "pick", refreshes'[s].kept
          PROVE  Was(s) \/ Made(s)
      <3>0. Stays(s) => Was(s)
        BY <2>3 DEF Stays
      <3>1. ASSUME NEW S, Goes(S) PROVE Was(s) \/ Made(s)
        BY <2>3, <3>0, <3>1 DEF Goes, Rest
      <3>2. ASSUME NEW S, Spawns(S) PROVE Was(s)
        <4>1. s \notin S
          BY <2>3, <3>2 DEF Spawns
        <4>2. CASE s = running
          BY <2>3, <3>2, <4>1, <4>2 DEF Spawns
        <4>3. CASE s # running
          BY <3>0, <3>2, <4>1, <4>3 DEF Spawns, Rest
        <4> QED  BY <4>2, <4>3
      <3> HIDE DEF Was, Made
      <3> QED  BY <2>1, <2>3, <3>0, <3>1, <3>2 DEF Proceeds, Passes, Waits, EndsUnseen, EndsSeen, Ends, Rest
    <2> QED  BY <1>7, <2>2, <2>3 DEF PickIs
  <1>8. ASSUME NEW r \in Refreshes, Await(r) PROVE PickIs'
    <2>1. CASE Rooted(r) \/ Picked(r)
      <3>1. tool' = tool \/ \E c : tool' = [tool EXCEPT !.command = c]
        BY <2>1 DEF Rooted, Picked
      <3>2. tool'.binary = tool.binary /\ tool'.stamp = tool.stamp
        BY <3>1 DEF CheckTypes
      <3> QED  BY <1>7, <1>8, <3>2
    <2>2. CASE Probed(r) \/ Stamped(r) \/ EndSuperseded(r) \/ Awaited(r)
      <3>1. tool' = tool
        BY <2>2 DEF Probed, Stamped, EndSuperseded, Awaited, toolVars
      <3> QED  BY <1>7, <1>8, <3>1
    <2>3. CASE EndFailed(r)
      <3>1. refreshes' = [(IF tool' = tool THEN refreshes ELSE UnkeepPicks(refreshes)) EXCEPT ![r] = Over]
        BY <2>3 DEF EndFailed
      <3>2. CASE tool' = tool
        BY <1>7, <1>8, <3>2
      <3>3. CASE tool' # tool
        BY <1>3, <3>1, <3>3
      <3> QED  BY <3>2, <3>3
    <2>4. CASE EndFound(r)
      <3>1. CASE refreshes[r].argv = "bazel"
        <4>1. refreshes' = [UnkeepPicks(refreshes) EXCEPT ![r] = Over]
          BY <2>4, <3>1 DEF EndFound
        <4> QED  BY <1>3, <4>1
      <3>2. CASE refreshes[r].argv # "bazel"
        <4>1. tool' = tool
          BY <2>4, <3>2 DEF EndFound
        <4> QED  BY <1>7, <1>8, <4>1
      <3> QED  BY <3>1, <3>2
    <2> QED  BY <1>8, <2>1, <2>2, <2>3, <2>4 DEF Await
  <1> QED  BY <1>1, <1>4, <1>5, <1>6, <1>8 DEF Next, UserSteps

\* The kept command stays as new as the sources whose changes were reported.
LEMMA FreshKept ==
  ASSUME CheckTypes, PickIs, KeptCommandIsFresh, Next PROVE KeptCommandIsFresh'
  <1> DEFINE Known == [binary : {"unresolved", "built", "none"}, stamp : Nat,
                       command : {"undefined", "direct", "bazel"}]
  <1>0. tool \in Known
    BY DEF CheckTypes
  <1>1. CASE UNCHANGED << tool, disk, time, unseen >>
    BY <1>1 DEF KeptCommandIsFresh, isFresh
  <1>2. CASE tool'.command # "direct" \/ unseen' \/ ~disk'.there
    BY <1>2 DEF KeptCommandIsFresh
  <1>3. CASE SampleSources \/ Ask
    BY <1>1, <1>3 DEF SampleSources, Ask, toolVars
  <1>4. CASE ChangeSource \/ Clean
    BY <1>2, <1>4 DEF ChangeSource, Clean
  <1>5. \A t : Invalidated(t).command # "direct" \/ ~(t \in Known)
    BY DEF Invalidated
  <1>6. CASE Watched
    BY <1>0, <1>2, <1>5, <1>6 DEF Watched
  <1>7. CASE Resolve
    <2>1. CASE tool' = Invalidated([tool EXCEPT !.binary = "none"])
      <3>1. PICK t : t = [tool EXCEPT !.binary = "none"]
        OBVIOUS
      <3>2. t \in Known
        BY <1>0, <3>1
      <3> QED  BY <1>2, <1>5, <2>1, <3>1, <3>2
    <2>2. CASE \E m : tool' = [binary |-> "built", stamp |-> m, command |-> "undefined"]
      BY <1>2, <2>2
    <2>3. CASE UNCHANGED << tool, disk, time, unseen >>
      BY <1>1, <2>3
    <2> QED  BY <1>7, <2>1, <2>2, <2>3 DEF Resolve
  <1>8. CASE UserSteps
    BY <1>1, <1>8, UserLeavesTool
  <1>9. ASSUME NEW r \in Refreshes, Await(r) PROVE KeptCommandIsFresh'
    <2>1. CASE Rooted(r)
      <3>1. tool' = tool \/ tool' = [tool EXCEPT !.command = "bazel"]
        BY <2>1 DEF Rooted
      <3>2. UNCHANGED << disk, time, unseen >>
        BY <2>1 DEF Rooted
      <3>3. CASE tool' = [tool EXCEPT !.command = "bazel"]
        BY <1>0, <1>2, <3>3
      <3> QED  BY <1>1, <3>1, <3>2, <3>3
    <2>2. CASE Picked(r)
      <3>1. UNCHANGED << disk, time, unseen >> /\ refreshes[r].pc = "pick"
        BY <2>2 DEF Picked
      <3>2. CASE refreshes[r].kept
        <4>1. PICK argv : argv = checkCommandFor(TRUE, refreshes[r].against)
          OBVIOUS
        <4>2. tool' = [tool EXCEPT !.command = argv]
          BY <2>2, <3>2, <4>1 DEF Picked
        <4>3. tool'.command = argv /\ tool'.binary = tool.binary /\ tool'.stamp = tool.stamp
          BY <1>0, <4>2
        <4>4. tool.binary = "built" /\ refreshes[r].against = tool.stamp
          BY <3>1, <3>2 DEF PickIs
        <4>5. argv = "direct" => isFresh(tool.stamp)
          BY <4>1, <4>4 DEF checkCommandFor
        <4> QED  BY <3>1, <4>3, <4>4, <4>5 DEF KeptCommandIsFresh, isFresh
      <3>3. CASE ~refreshes[r].kept
        BY <1>1, <2>2, <3>1, <3>3 DEF Picked
      <3> QED  BY <3>2, <3>3
    <2>3. CASE Probed(r) \/ Stamped(r) \/ EndSuperseded(r) \/ Awaited(r)
      BY <1>1, <2>3 DEF Probed, Stamped, EndSuperseded, Awaited, toolVars
    <2>4. CASE EndFailed(r)
      <3>1. UNCHANGED << disk, time, unseen >>
        BY <2>4 DEF EndFailed
      <3>2. tool' = tool \/ tool' = Invalidated([tool EXCEPT !.binary = "unresolved"])
        BY <2>4 DEF EndFailed
      <3>3. CASE tool' = Invalidated([tool EXCEPT !.binary = "unresolved"])
        <4>1. PICK t : t = [tool EXCEPT !.binary = "unresolved"]
          OBVIOUS
        <4>2. t \in Known
          BY <1>0, <4>1
        <4> QED  BY <1>2, <1>5, <3>3, <4>1, <4>2
      <3> QED  BY <1>1, <3>1, <3>2, <3>3
    <2>5. CASE EndFound(r)
      <3>1. CASE refreshes[r].argv # "bazel"
        BY <1>1, <2>5, <3>1 DEF EndFound
      <3>2. CASE refreshes[r].argv = "bazel"
        <4>1. PICK m : m = Max({tool.stamp, refreshes[r].stamp})
          OBVIOUS
        <4>2. PICK t : t = [tool EXCEPT !.stamp = m]
          OBVIOUS
        <4>3. tool' = Invalidated(t)
          BY <2>5, <3>2, <4>1, <4>2 DEF EndFound
        <4>4. t = [binary |-> tool.binary, stamp |-> m, command |-> tool.command]
          BY <1>0, <4>2
        <4>5. tool'.command = "undefined"
          BY <4>3, <4>4 DEF Invalidated
        <4> QED  BY <1>2, <4>5
      <3> QED  BY <3>1, <3>2
    <2> QED  BY <1>9, <2>1, <2>2, <2>3, <2>4, <2>5 DEF Await
  <1> QED  BY <1>3, <1>4, <1>6, <1>7, <1>8, <1>9 DEF Next, UserSteps

\* The invariant of the checks: it holds at the start, and every step keeps it.
LEMMA CheckInvStarts == Init => CheckInv
  <1> SUFFICES ASSUME Init PROVE CheckInv
    OBVIOUS
  <1>1. /\ refreshes = << >> /\ Refreshes = {} /\ Len(refreshes) = 0 /\ refreshes \in Seq(RefreshState)
        /\ doc = [open |-> TRUE, life |-> 1, version |-> 1] /\ on = TRUE /\ trusted \in BOOLEAN
        /\ starting = trusted /\ timer = FALSE /\ latest = 0 /\ running = 0 /\ front = 0 /\ overtaken = FALSE
        /\ checked = 0 /\ shown = "none" /\ entry = NoEntry /\ released = 0 /\ waiters = {} /\ time = 1
        /\ build = [pc |-> "no", stamp |-> 0]
    BY DEF Init, Refreshes
  <1>2. \/ tool = [binary |-> "unresolved", stamp |-> 0, command |-> "undefined"]
        \/ /\ tool = [binary |-> "built", stamp |-> 1, command |-> "direct"]
           /\ disk = [there |-> TRUE, time |-> 0]
    BY DEF Init
  <1>3. 1 \in 1..Len(TextOf)
    BY CheckingAssumption
  <1>4. CheckTypes
    <2>1. doc \in [open : BOOLEAN, life : Nat, version : 1..Len(TextOf)]
      BY <1>1, <1>3
    <2>2. tool \in [binary : {"unresolved", "built", "none"}, stamp : Nat,
                   command : {"undefined", "direct", "bazel"}]
      BY <1>2
    <2>3. build \in [pc : {"no", "walk", "build"}, stamp : Nat]
      BY <1>1
    <2>4. trusted \in BOOLEAN
      BY <1>1
    <2>5. starting \in BOOLEAN /\ timer \in BOOLEAN /\ on \in BOOLEAN /\ overtaken \in BOOLEAN
      BY <1>1, <2>4
    <2>6. /\ latest \in Nat /\ running \in Nat /\ front \in Nat /\ checked \in Nat /\ released \in Nat
          /\ waiters \in SUBSET Nat /\ time \in Nat
      BY <1>1
    <2> QED  BY <1>1, <2>1, <2>2, <2>3, <2>4, <2>5, <2>6 DEF CheckTypes
  <1>5. Standing /\ InOrder /\ RunningIs /\ TextIs /\ CheckedIs /\ PickIs
    BY <1>1 DEF Standing, InOrder, RunningIs, TextIs, CheckedIs, PickIs
  <1>6. ~Settled
    BY <1>1 DEF Settled
  <1>7. LatestIs /\ NotBelow /\ OverIs /\ WaitIs
    BY <1>1, <1>6 DEF LatestIs, NotBelow, OverIs, WaitIs
  <1>8. KeptCommandIsFresh
    BY <1>1, <1>2 DEF KeptCommandIsFresh, isFresh
  <1> QED  BY <1>4, <1>5, <1>7, <1>8 DEF CheckInv

\* So does a step of the others.
LEMMA CheckInvStays == CheckInv /\ UNCHANGED vars => CheckInv'
  <1> SUFFICES ASSUME CheckInv, UNCHANGED vars PROVE CheckInv'
    OBVIOUS
  <1>1. /\ UNCHANGED << doc, on, trusted, starting, timer, refreshes, latest, running, checked, shown >>
        /\ UNCHANGED << status, tool, build, disk, time, unseen, entry, released, waiters, front, overtaken >>
    BY DEF vars
  <1>2. CheckTypes' /\ Standing' /\ InOrder' /\ RunningIs'
    BY <1>1 DEF CheckInv, CheckTypes, Standing, InOrder, RunningIs, Ours, InFlight, Refreshes
  <1>3. TextIs' /\ CheckedIs' /\ LatestIs' /\ NotBelow' /\ OverIs'
    BY <1>1 DEF CheckInv, TextIs, CheckedIs, LatestIs, NotBelow, OverIs, Settled, Ours, InFlight, Refreshes, Text
  <1>4. WaitIs' /\ PickIs' /\ KeptCommandIsFresh'
    BY <1>1 DEF CheckInv, WaitIs, PickIs, KeptCommandIsFresh, isFresh, Ours, InFlight, Refreshes
  <1> QED  BY <1>2, <1>3, <1>4 DEF CheckInv

\* Every step of the checks keeps it.
LEMMA CheckInvKept == CheckInv /\ [Next]_vars => CheckInv'
  <1>1. ASSUME CheckInv, Next PROVE CheckInv'
    <2>0. /\ CheckTypes /\ Standing /\ InOrder /\ RunningIs /\ TextIs /\ CheckedIs /\ LatestIs /\ NotBelow
          /\ OverIs /\ WaitIs /\ PickIs /\ KeptCommandIsFresh
      BY <1>1 DEF CheckInv
    <2>1. CheckTypes' /\ (Steps \/ Writes \/ Shuts \/ Grants \/ Starts \/ Leaves)
      BY <1>1, <2>0, StepsAre, UsersAre
    <2>2. Standing' /\ InOrder' /\ RunningIs' /\ TextIs'
      BY <2>0, <2>1, StandingKept, OrderKept, RunningKept, TextKept
    <2>3. CheckedIs' /\ LatestIs' /\ NotBelow'
      BY <2>0, <2>1, CheckedKept, LatestKept, NotBelowKept
    <2>4. OverIs' /\ WaitIs'
      BY <2>0, <2>1, OverKept, WaitKept
    <2>5. PickIs' /\ KeptCommandIsFresh'
      BY <1>1, <2>0, PicksKept, FreshKept
    <2> QED  BY <2>1, <2>2, <2>3, <2>4, <2>5 DEF CheckInv
  <1> QED  BY <1>1, CheckInvStays

\* What is known of the refreshes is enough for the four.
LEMMA CheckInvShows ==
  CheckInv => QuietIsCurrent /\ OffShowsNothing /\ WaitersAreServed /\ KeptCommandIsFresh
  <1> SUFFICES ASSUME CheckInv
      PROVE QuietIsCurrent /\ OffShowsNothing /\ WaitersAreServed /\ KeptCommandIsFresh
    OBVIOUS
  <1>0. Refreshes = 1..Len(refreshes) /\ Len(refreshes) \in Nat
    BY Numbers DEF CheckInv
  <1>1. QuietIsCurrent
    <2> SUFFICES ASSUME ~Busy, doc.open, on, trusted, ~overtaken PROVE shown = Text \/ status = "failed"
      BY DEF QuietIsCurrent
    <2>1. Settled /\ \A r \in Refreshes : ~InFlight(r)
      BY DEF Busy, Settled
    <2>2. latest \in Refreshes
      BY <1>0, <2>1 DEF CheckInv, LatestIs
    <2>3. checked = doc.version \/ status = "failed"
      BY <2>1, <2>2 DEF CheckInv, OverIs
    <2> QED  BY <2>3 DEF CheckInv, CheckedIs
  <1>2. OffShowsNothing
    BY DEF CheckInv, Standing, OffShowsNothing
  <1>3. WaitersAreServed
    <2> SUFFICES ASSUME waiters # {} PROVE Busy
      BY DEF WaitersAreServed
    <2>1. PICK w \in waiters : TRUE
      OBVIOUS
    <2>2. released < doc.version
      <3>1. w \in Nat /\ released \in Nat /\ doc.version \in Nat
        BY Numbers DEF CheckInv, CheckTypes
      <3>2. released < w /\ w <= doc.version
        BY DEF CheckInv, WaitIs
      <3> QED  BY <3>1, <3>2
    <2>3. timer \/ starting \/ \E r \in Refreshes : InFlight(r)
      BY <2>2 DEF CheckInv, WaitIs, Ours
    <2> QED  BY <2>3 DEF Busy
  <1> QED  BY <1>1, <1>2, <1>3 DEF CheckInv

\* Whatever the user and the machine do, and in whatever order the awaits of the refreshes end, what the
\* editor shows once nothing is left to run is about the text on screen, what is closed or switched off
\* stays unmarked, nobody waits for an analysis that no refresh will release, and the prebuilt checker is
\* run unasked only while it is as new as its sources (checking.js, checker.js).
THEOREM ChecksAreOfTheText ==
  Spec => [](QuietIsCurrent /\ OffShowsNothing /\ WaitersAreServed /\ KeptCommandIsFresh)
  BY CheckInvStarts, CheckInvKept, CheckInvShows, PTL DEF Spec

-----------------------------------------------------------------------------
(* The components beside each other: each goes on as it would alone. *)

\* Every component of the editor starts as it does alone.
LEMMA PartsStart == PartInit => Init /\ Data!Init /\ Sidebar!Init /\ Terms!Init /\ Texts!Init
  BY DEF PartInit

\* A component that is not the one to move keeps its variables.
LEMMA OthersStand ==
  ASSUME OthersFrozen
  PROVE  /\ part # "checking" => UNCHANGED vars
         /\ part # "languages" => UNCHANGED Data!lvars
         /\ part # "kernels" => UNCHANGED Sidebar!kvars
         /\ part # "terminals" => UNCHANGED Terms!tvars
         /\ part # "edits" => UNCHANGED Texts!evars
  <1>1. part # "languages" => UNCHANGED Data!lvars
    BY DEF OthersFrozen, dataVars, Data!lvars
  <1>2. part # "kernels" => UNCHANGED Sidebar!kvars
    BY DEF OthersFrozen, sideVars, Sidebar!kvars
  <1>3. part # "terminals" => UNCHANGED Terms!tvars
    BY DEF OthersFrozen, termVars, Terms!tvars
  <1>4. part # "edits" => UNCHANGED Texts!evars
    BY DEF OthersFrozen, textVars, Texts!evars
  <1>5. part # "checking" => UNCHANGED vars
    BY DEF OthersFrozen
  <1> QED  BY <1>1, <1>2, <1>3, <1>4, <1>5

\* A step of the editor is a step of each component or leaves it as it was.
LEMMA PartsStep ==
  ASSUME [PartNext]_partvars
  PROVE  /\ [Next]_vars /\ [Data!Next]_(Data!lvars) /\ [Sidebar!Next]_(Sidebar!kvars)
         /\ [Terms!Next]_(Terms!tvars) /\ [Texts!Next]_(Texts!evars)
  <1>1. CASE UNCHANGED partvars
    <2>1. UNCHANGED dataVars /\ UNCHANGED sideVars /\ UNCHANGED termVars /\ UNCHANGED textVars
      BY <1>1 DEF partvars
    <2>2. UNCHANGED Data!lvars
      BY <2>1 DEF dataVars, Data!lvars
    <2>3. UNCHANGED Sidebar!kvars
      BY <2>1 DEF sideVars, Sidebar!kvars
    <2>4. UNCHANGED Terms!tvars
      BY <2>1 DEF termVars, Terms!tvars
    <2>5. UNCHANGED Texts!evars
      BY <2>1 DEF textVars, Texts!evars
    <2>6. UNCHANGED vars
      BY <1>1 DEF partvars
    <2> QED  BY <2>2, <2>3, <2>4, <2>5, <2>6
  <1>2. CASE CheckingStep
    BY <1>2, OthersStand DEF CheckingStep
  <1>3. CASE LanguagesStep
    BY <1>3, OthersStand DEF LanguagesStep
  <1>4. CASE KernelsStep
    BY <1>4, OthersStand DEF KernelsStep
  <1>5. CASE TerminalsStep
    BY <1>5, OthersStand DEF TerminalsStep
  <1>6. CASE EditsStep
    BY <1>6, OthersStand DEF EditsStep
  <1> QED  BY <1>1, <1>2, <1>3, <1>4, <1>5, <1>6 DEF PartNext

\* The composition implements each of its components.
THEOREM PartsImplementTheirs == PartSpec => Spec /\ Data!Spec /\ Sidebar!Spec /\ Terms!Spec /\ Texts!Spec
  BY PartsStart, PartsStep, PTL DEF PartSpec, Spec, Data!Spec, Sidebar!Spec, Terms!Spec, Texts!Spec

\* In every run of the editor's components, for every value of their bounds, the language data, the
\* commands and the edits it gives are of the sources, the terminals and the text as they are
\* (language-source.js, runs.js, formatting.js, rename.js).
THEOREM EditorAnswersAreOfNow == PartSpec => []AnswersAreOfNow
  <1>1. Data!SettledIsCurrent /\ Data!StampIsHonest /\ Terms!OneCommandAtATime /\ Texts!EditsFitTheText
        => AnswersAreOfNow
    BY DEF AnswersAreOfNow
  <1> QED  BY PartsImplementTheirs, DataIsCurrent, OneCommandAtATime, EditsFit, <1>1, PTL

\* In every run of the editor's components, one index of the checkout lives, and the sidebar lists what
\* is open, as it is in the folders now (kernels.js).
THEOREM EditorSidebarIsOfTheFolders == PartSpec => []SidebarIsOfTheFolders
  <1>1. /\ Sidebar!OneLiveIndex /\ Sidebar!ListsOpenCheckouts
        /\ Sidebar!ManifestIsLatest /\ Sidebar!DisposedStaysEmpty
        => SidebarIsOfTheFolders
    BY DEF SidebarIsOfTheFolders
  <1> QED  BY PartsImplementTheirs, SidebarIsCurrent, <1>1, PTL

\* In every run of the editor's components, for every document and every bound: whatever the user and
\* the machine do, and in whatever order the awaits of the refreshes end, what is on screen once nothing
\* is left to run is about the text on screen, unless a check failed or a process started after a newer
\* one (checking.js, checker.js).
THEOREM EditorDiagnosticsAreOfTheText == PartSpec => []DiagnosticsAreOfTheText
  <1>1. QuietIsCurrent /\ OffShowsNothing /\ WaitersAreServed /\ KeptCommandIsFresh
        => DiagnosticsAreOfTheText
    BY DEF DiagnosticsAreOfTheText
  <1> QED  BY PartsImplementTheirs, ChecksAreOfTheText, <1>1, PTL
=============================================================================
