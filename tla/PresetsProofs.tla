---------------------------- MODULE PresetsProofs ----------------------------
(***************************************************************************)
(* Proofs about Presets, for every Hub, every number of sets and presets,  *)
(* every edit that leaves files of the declared shape, and every bound.    *)
(***************************************************************************)
EXTENDS Presets, SequenceTheorems, TLAPS

TypedConfig(c) ==
    /\ c = [manifests |-> c.manifests, docs |-> c.docs, pinned |-> c.pinned, default |-> c.default]
    /\ \A s \in DOMAIN c.manifests : c.manifests[s] \in ManifestType
    /\ \A name \in DOMAIN c.docs : c.docs[name] \in DocType

Maintain == EditManifest \/ DraftManifest \/ EditPreset \/ RemovePreset \/ EditSettings
Download == Fetch \/ Place \/ FetchEnds \/ UserRemoves

-----------------------------------------------------------------------------
\* A draft has the shape of a manifest.
LEMMA DraftTyped ==
  ASSUME NEW wanted \in Hub, Draftable(wanted)
  PROVE  Draft(wanted) \in ManifestType
<1> DEFINE n == IF IsSplit(wanted) THEN wanted.of - 1 ELSE 0
           part(i) == [wanted EXCEPT !.part = i + 1]
           rest == [i \in 1 .. n |-> Row("split", part(i))]
<1>1. wanted \in FileType
  BY PresetsAssumption
<1>2. \A file \in Hub : Row("split", file) \in RowType /\ Row("weights", file) \in RowType
  BY PresetsAssumption DEF Row, RowType
<1>3. \A i \in 1 .. n : part(i) \in Hub
  <2>1. SUFFICES ASSUME NEW i \in 1 .. n PROVE part(i) \in Hub
    OBVIOUS
  <2>2. IsSplit(wanted) /\ i + 1 \in 2 .. wanted.of
    BY <1>1, <2>1 DEF FileType
  <2> QED
    BY <2>2 DEF Draftable
<1>4. n \in Int
  BY <1>1 DEF FileType
<1>5. rest \in Seq(RowType)
  <2>1. \A i \in 1 .. n : rest[i] \in RowType
    BY <1>2, <1>3
  <2>2. PICK k \in Nat : 1 .. n = 1 .. k
    <3>1. CASE n >= 0
      BY <1>4, <3>1
    <3>2. CASE n < 0
      <4>1. 1 .. n = 1 .. 0
        BY <1>4, <3>2
      <4> QED
        BY <4>1
    <3> QED
      BY <1>4, <3>1, <3>2
  <2>3. rest \in [1 .. k -> RowType]
    BY <2>1, <2>2
  <2> HIDE DEF rest
  <2> QED
    BY <2>2, <2>3, SeqDef
<1>6. <<Row("weights", wanted)>> \in Seq(RowType)
  BY <1>2
<1>7. DraftRows(wanted) = <<Row("weights", wanted)>> \o rest
  BY DEF DraftRows
<1>8. DraftRows(wanted) \in Seq(RowType) /\ HubBase[wanted] \in Upstreams
  BY <1>5, <1>6, <1>7, PresetsAssumption
<1> QED
  BY <1>8 DEF Draft, ManifestType

LEMMA Maintaining ==
  ASSUME TypedConfig(config), Maintain
  PROVE  /\ TypedConfig(config') /\ checked' = FALSE /\ edits < MaxEdits /\ edits' = edits + 1
         /\ UNCHANGED <<library, fetching, selected, up, looks, files, torn, container, commands, faults>>
<1>1. CASE EditManifest
  <2>1. PICK s \in Sets, m \in ManifestFiles :
          Edit([config EXCEPT !.manifests = [t \in DOMAIN @ \cup {s} |-> IF t = s THEN m ELSE @[t]]])
    BY <1>1 DEF EditManifest
  <2>2. m \in ManifestType
    BY PresetsAssumption
  <2> QED
    BY <2>1, <2>2 DEF TypedConfig, Edit
<1>2. CASE DraftManifest
  <2>1. PICK s \in Sets, wanted \in Hub :
          /\ Draftable(wanted)
          /\ Edit([config EXCEPT !.manifests = [t \in DOMAIN @ \cup {s} |-> IF t = s THEN Draft(wanted) ELSE @[t]]])
    BY <1>2 DEF DraftManifest
  <2>2. Draft(wanted) \in ManifestType
    BY <2>1, DraftTyped
  <2> QED
    BY <2>1, <2>2 DEF TypedConfig, Edit
<1>3. CASE EditPreset
  <2>1. PICK name \in Names, doc \in Documents :
          Edit([config EXCEPT !.docs = [other \in DOMAIN @ \cup {name} |-> IF other = name THEN doc ELSE @[other]]])
    BY <1>3 DEF EditPreset
  <2>2. doc \in DocType
    BY PresetsAssumption
  <2> QED
    BY <2>1, <2>2 DEF TypedConfig, Edit
<1>4. CASE RemovePreset
  BY <1>4 DEF TypedConfig, Edit, RemovePreset
<1>5. CASE EditSettings
  BY <1>5 DEF TypedConfig, Edit, EditSettings
<1> QED
  BY <1>1, <1>2, <1>3, <1>4, <1>5 DEF Maintain

LEMMA MaintainFrame ==
  ASSUME Maintain
  PROVE  /\ checked' = FALSE
         /\ UNCHANGED <<library, fetching, selected, up, looks, files, torn, container, commands, faults>>
  BY DEF Maintain, EditManifest, DraftManifest, EditPreset, RemovePreset, EditSettings, Edit

LEMMA InitConfig == Init => TypedConfig(config) /\ TypedConfig(read)
  BY PresetsAssumption DEF Init, Config0, NoConfig, TypedConfig

\* The files of the maintainer, and what an `up` has read of them.
Reading == TypedConfig(config) /\ TypedConfig(read)

\* The groups of actions, and what each of them leaves alone.
LEMMA Grouped == Next => Maintain \/ Check \/ Download \/ Up \/ Down
  BY DEF Next, Maintain, Download

LEMMA Downloading ==
  ASSUME Download
  PROVE  UNCHANGED <<config, checked, up, unseen, missing, files, torn, container, edits>>
  BY DEF Download, Fetch, Place, FetchEnds, UserRemoves, Idle

LEMMA Bringing ==
  ASSUME Up
  PROVE  /\ UNCHANGED <<config, checked, library, fetching, selected, edits>>
         /\ \/ UNCHANGED <<read, vetted>>
            \/ read' = config /\ vetted' = checked /\ UpReads
            \/ read' = NoConfig /\ vetted' = FALSE
  BY DEF Up, UpReads, JudgeWaiting, JudgeFiles, LookFor, Judges, BuildConfig, WriteIni, WritePi, WriteOmp, Start, Refused, Stopped,
         AsRead, Beside, Over

LEMMA NoConfigTyped == TypedConfig(NoConfig)
  BY DEF TypedConfig, NoConfig

LEMMA ReadingStep == ASSUME Reading, Next \/ UNCHANGED vars PROVE Reading'
<1>1. CASE Maintain
  BY <1>1, Maintaining DEF Reading, up
<1>2. CASE Check
  BY <1>2 DEF Reading, Check, up
<1>3. CASE Download
  BY <1>3, Downloading DEF Reading, up
<1>4. CASE Up
  BY <1>4, Bringing, NoConfigTyped DEF Reading
<1>5. CASE Down
  BY <1>5 DEF Reading, Down, up, Beside
<1>6. CASE UNCHANGED vars
  BY <1>6 DEF Reading, vars, up
<1> QED
  BY <1>1, <1>2, <1>3, <1>4, <1>5, <1>6, Grouped

\* The files under config/, and what `up` has read of them, hold presets and
\* manifests whatever was edited, in every reachable state.
THEOREM ReadingIsTyped == Spec => []Reading
<1>1. Init => Reading
  BY InitConfig DEF Reading
<1>2. Reading /\ [Next]_vars => Reading'
  <2>1. ASSUME Reading, Next \/ UNCHANGED vars PROVE Reading'
    BY <2>1, ReadingStep
  <2> QED
    BY <2>1
<1> QED
  BY <1>1, <1>2, PTL DEF Spec

-----------------------------------------------------------------------------
\* The invariant behind CheckedIsRendered: `checked` and `vetted` speak of
\* the files as they are and as they were read, and what `up` judges loads.
Vetting ==
    /\ upc \in {"idle", "judge", "look", "ini", "pi", "omp", "start", "refused"}
    /\ checked => Validates(config)
    /\ vetted => Validates(read)
    /\ upc \in {"judge", "look"} => Loads(read) /\ RequiresDefault(read) /\ left \subseteq DOMAIN read.docs
    /\ upc \notin {"judge", "look"} => left = {}
    /\ upc = "look" => left # {} /\ ~Waits(read, Judged)
    /\ \A name \in loadable : name \in DOMAIN read.docs /\ ~Waits(read, name) /\ name \notin left
    /\ upc = "idle" => read = NoConfig
    /\ upc = "refused" => ~vetted
    /\ upc \in {"ini", "pi", "omp", "start"} => Loads(read)

Judging == JudgeWaiting \/ JudgeFiles \/ LookFor

LEMMA JudgedIsLeft ==
  ASSUME left # {}
  PROVE  Judged \in left
  BY DEF Judged

LEMMA SameJudged ==
  ASSUME left' = left
  PROVE  Judged' = Judged
  BY DEF Judged

\* A step of the judging looks, or leaves one preset behind that is offered only
\* if it does not wait.
LEMMA JudgesOne ==
  ASSUME Vetting, Judging
  PROVE  /\ upc \in {"judge", "look"} /\ upc' \in {"judge", "look"} /\ left # {}
         /\ UNCHANGED <<files, torn, container, faults>> /\ AsRead /\ Beside
         /\ \/ left' = left /\ loadable' = loadable /\ (upc' = "look" => ~Waits(read, Judged))
            \/ /\ upc' = "judge" /\ left' = left \ {Judged}
               /\ \/ loadable' = loadable
                  \/ loadable' = loadable \cup {Judged} /\ ~Waits(read, Judged)
  BY DEF Vetting, Judging, JudgeWaiting, JudgeFiles, LookFor, Judges

LEMMA VettingKept ==
  ASSUME Vetting, UNCHANGED up, checked' => Validates(config')
  PROVE  Vetting'
<1>1. Judged' = Judged
  BY SameJudged DEF up
<1> QED
  BY <1>1 DEF Vetting, up

LEMMA VettingStep == ASSUME Vetting, Next \/ UNCHANGED vars PROVE Vetting'
<1>1. CASE Maintain
  BY <1>1, MaintainFrame, VettingKept
<1>2. CASE Check
  BY <1>2, VettingKept DEF Check
<1>3. CASE Download
  BY <1>3, Downloading, VettingKept DEF Vetting
<1>4. CASE Down
  BY <1>4, VettingKept DEF Vetting, Down, Beside
<1>5. CASE UNCHANGED vars
  BY <1>5, VettingKept DEF Vetting, vars
<1>6. CASE UpReads
  BY <1>6 DEF Vetting, UpReads, Beside, Validates, NoConfig
<1>7. CASE Judging
  <2>1. read' = read /\ vetted' = vetted /\ config' = config /\ checked' = checked
    BY <1>7, JudgesOne DEF AsRead, Beside
  <2>2. CASE left' = left /\ loadable' = loadable /\ (upc' = "look" => ~Waits(read, Judged))
    <3>1. upc' = "look" => left' # {} /\ ~Waits(read', Judged')
      BY <1>7, <2>1, <2>2, JudgesOne, SameJudged
    <3>2. upc' \in {"judge", "look"} /\ upc \in {"judge", "look"}
      BY <1>7, JudgesOne
    <3> QED
      BY <2>1, <2>2, <3>1, <3>2 DEF Vetting
  <2>3. CASE upc' = "judge" /\ left' = left \ {Judged}
    <3>1. Judged \in left /\ upc \in {"judge", "look"}
      BY <1>7, JudgesOne, JudgedIsLeft
    <3>2. \A name \in loadable' : name \in DOMAIN read'.docs /\ ~Waits(read', name) /\ name \notin left'
      BY <1>7, <2>1, <2>3, <3>1, JudgesOne DEF Vetting
    <3> QED
      BY <2>1, <2>3, <3>1, <3>2 DEF Vetting
  <2> QED
    BY <1>7, <2>2, <2>3, JudgesOne
<1>8. CASE BuildConfig
  <2>1. Writable(read, {name \in DOMAIN read.docs : ~Waits(read, name)}) => Writable(read, loadable)
    BY DEF Vetting, Writable
  <2> QED
    BY <1>8, <2>1 DEF Vetting, BuildConfig, AsRead, Beside, Validates
<1>9. CASE WriteIni \/ WritePi \/ WriteOmp
  BY <1>9 DEF Vetting, WriteIni, WritePi, WriteOmp, AsRead, Beside
<1>10. CASE Start \/ Refused \/ Stopped
  <2>1. Over /\ Beside
    BY <1>10 DEF Start, Refused, Stopped
  <2> QED
    BY <2>1 DEF Vetting, Over, Beside
<1> QED
  BY <1>1, <1>2, <1>3, <1>4, <1>5, <1>6, <1>7, <1>8, <1>9, <1>10, Grouped DEF Up, Judging

LEMMA InitVetting == Init => Vetting
  BY DEF Init, Vetting

\* What `presets check` has passed, `up` never refuses over the files under
\* config/: whatever the edits, the library and the order of the steps.
THEOREM CheckHolds == Spec => []CheckedIsRendered
<1>1. Vetting /\ [Next]_vars => Vetting'
  <2>1. ASSUME Vetting, Next \/ UNCHANGED vars PROVE Vetting'
    BY <2>1, VettingStep
  <2> QED
    BY <2>1
<1>2. Vetting => CheckedIsRendered
  BY DEF Vetting, CheckedIsRendered
<1> QED
  BY InitVetting, <1>1, <1>2, PTL DEF Spec

-----------------------------------------------------------------------------
\* The invariant of a fetch: its rows are of the manifests it was given, and
\* those agree.
Merging ==
    /\ selected \subseteq ManifestType /\ Agree(selected) /\ fetching \subseteq Merged(selected)
    /\ library \in [Hub -> Nat]

LEMMA RowsTyped ==
  ASSUME NEW manifests \in SUBSET ManifestType, NEW row \in Merged(manifests)
  PROVE  row \in RowType
<1>1. PICK m \in manifests : row \in RowsOf(m)
  BY DEF Merged
<1>2. m.rows \in Seq(RowType)
  BY DEF ManifestType
<1> QED
  BY <1>1, <1>2 DEF RowsOf

LEMMA NothingMerged == Agree({}) /\ Merged({}) = {}
  BY DEF Agree, Merged

LEMMA PlaceStep ==
  ASSUME Merging, Place
  PROVE  /\ \E row \in fetching : row.file \in Hub /\ library' = [library EXCEPT ![row.file] = row.pin]
         /\ Merging'
<1>1. PICK row \in fetching :
        /\ row.file \in Hub /\ library' = [library EXCEPT ![row.file] = row.pin]
        /\ fetching' = fetching \ {row} /\ selected' = IF fetching' = {} THEN {} ELSE selected
  BY DEF Place, Becomes
<1>2. row.pin \in Nat
  BY <1>1, RowsTyped DEF Merging, RowType
<1>3. library' \in [Hub -> Nat]
  BY <1>1, <1>2 DEF Merging
<1> QED
  BY <1>1, <1>3, NothingMerged DEF Merging

LEMMA FetchStep ==
  ASSUME Merging, Reading, Fetch
  PROVE  Merging'
<1>1. PICK sets \in SUBSET DOMAIN config.manifests \ {{}} :
        /\ selected' = {config.manifests[s] : s \in sets}
        /\ Agree(selected') /\ fetching' = Merged(selected')
  BY DEF Fetch
<1>2. selected' \subseteq ManifestType
  BY <1>1 DEF Reading, TypedConfig
<1>3. library' = library
  BY DEF Fetch
<1> QED
  BY <1>1, <1>2, <1>3 DEF Merging

LEMMA MergingStep == ASSUME Merging, Reading, Next \/ UNCHANGED vars PROVE Merging'
<1>1. CASE Maintain
  BY <1>1, MaintainFrame DEF Merging
<1>2. CASE Check \/ UNCHANGED vars
  BY <1>2 DEF Merging, Check, vars
<1>3. CASE Fetch
  BY <1>3, FetchStep
<1>4. CASE Place
  BY <1>4, PlaceStep
<1>5. CASE FetchEnds
  BY <1>5, NothingMerged DEF Merging, FetchEnds
<1>6. CASE UserRemoves
  <2>1. PICK file \in Hub : library' = [library EXCEPT ![file] = NoPin]
    BY <1>6 DEF UserRemoves, Becomes
  <2>2. library' \in [Hub -> Nat]
    BY <2>1 DEF Merging, NoPin
  <2> QED
    BY <1>6, <2>2 DEF Merging, UserRemoves
<1>7. CASE Up
  BY <1>7, Bringing DEF Merging
<1>8. CASE Down
  BY <1>8 DEF Merging, Down, Beside
<1> QED
  BY <1>1, <1>2, <1>3, <1>4, <1>5, <1>6, <1>7, <1>8, Grouped DEF Download

LEMMA InitMerging == Init => Merging
<1>1. ASSUME Init PROVE Merging
  <2>1. library \in [Hub -> Nat]
    BY <1>1, PresetsAssumption DEF Init, NoPin
  <2> QED
    BY <1>1, <2>1, NothingMerged DEF Init, Merging
<1> QED
  BY <1>1

LEMMA PlacingStep ==
  ASSUME Merging, Next \/ UNCHANGED vars, NEW file \in Hub, library'[file] \notin {library[file], NoPin},
         NEW m \in selected, NEW row \in RowsOf(m), row.file = file
  PROVE  library'[file] = row.pin
<1>1. CASE Place
  <2>1. PICK placed \in fetching : placed.file \in Hub /\ library' = [library EXCEPT ![placed.file] = placed.pin]
    BY <1>1, PlaceStep
  <2>2. placed.file = file /\ library'[file] = placed.pin
    BY <2>1 DEF Merging
  <2>3. row \in Merged(selected) /\ placed \in Merged(selected)
    BY DEF Merged, Merging
  <2> QED
    BY <2>2, <2>3 DEF Merging, Agree
<1>2. CASE UserRemoves
  BY <1>2 DEF UserRemoves, Becomes, Merging
<1>3. CASE ~Place /\ ~UserRemoves
  <2>1. library' = library
    BY <1>3, MaintainFrame, Bringing, Grouped DEF Check, Download, Fetch, FetchEnds, Down, Beside, vars
  <2> QED
    BY <2>1
<1> QED
  BY <1>1, <1>2, <1>3

\* A fetch gives every selected set the bytes that it pins, whatever the
\* other selected sets say of the same file.
THEOREM PinnedIsPlaced == Spec => PlacesWhatIsPinned
<1> DEFINE Pinned == \A file \in Hub : library'[file] \notin {library[file], NoPin} =>
        \A m \in selected : \A row \in RowsOf(m) : row.file = file => library'[file] = row.pin
<1>1. Merging /\ Reading /\ [Next]_vars => Merging'
  <2>1. ASSUME Merging, Reading, Next \/ UNCHANGED vars PROVE Merging'
    BY <2>1, MergingStep
  <2> QED
    BY <2>1
<1>2. Merging /\ [Next]_vars => [Pinned]_vars
  <2>1. ASSUME Merging, Next \/ UNCHANGED vars PROVE Pinned
    BY <2>1, PlacingStep
  <2> QED
    BY <2>1
<1> QED
  BY InitMerging, <1>1, <1>2, ReadingIsTyped, PTL DEF Spec, PlacesWhatIsPinned

-----------------------------------------------------------------------------
\* A manifest that was read names every part of its model.
LEMMA WholeIsNamed ==
  ASSUME NEW m \in ManifestType, ReadsManifest(m)
  PROVE  WholeModel(Weights(m)) \subseteq FilesOf(m)
<1> DEFINE rows == m.rows
           splits == RolesOf(rows, "split")
<1>1. PICK w \in RolesOf(rows, "weights") :
        /\ RolesOf(rows, "weights") = {w}
        /\ IF IsSplit(rows[w].file)
           THEN /\ rows[w].file.part = 1
                /\ \A i \in splits : Belongs(rows[i].file, rows[w].file)
                /\ {1} \cup {rows[i].file.part : i \in splits} = 1 .. rows[w].file.of
           ELSE splits = {}
  BY DEF ReadsManifest, ValidRoles
<1>2. Weights(m) = rows[w].file
  <2>1. (CHOOSE i \in RolesOf(rows, "weights") : TRUE) = w
    BY <1>1
  <2> QED
    BY <2>1 DEF Weights
<1>3. \A i \in DOMAIN rows : rows[i].file \in FileType /\ rows[i].file \in FilesOf(m)
  <2>1. rows \in Seq(RowType)
    BY DEF ManifestType
  <2>2. \A i \in DOMAIN rows : rows[i] \in RowType /\ rows[i] \in RowsOf(m)
    BY <2>1 DEF RowsOf
  <2> QED
    BY <2>2 DEF RowType, FilesOf
<1>4. w \in DOMAIN rows /\ splits \subseteq DOMAIN rows
  BY <1>1 DEF RolesOf
<1>5. CASE ~IsSplit(rows[w].file)
  BY <1>2, <1>3, <1>4, <1>5 DEF WholeModel
<1>6. CASE IsSplit(rows[w].file)
  <2> DEFINE first == rows[w].file
  <2>1. first \in FileType /\ first.part = 1
    BY <1>1, <1>3, <1>4, <1>6
  <2>2. ASSUME NEW part \in 1 .. first.of PROVE [first EXCEPT !.part = part] \in FilesOf(m)
    <3>1. CASE part = 1
      <4>1. [first EXCEPT !.part = part] = first
        BY <2>1, <3>1 DEF FileType
      <4> QED
        BY <4>1, <1>3, <1>4
    <3>2. CASE part # 1
      <4>1. PICK i \in splits : rows[i].file.part = part
        BY <1>1, <1>6, <2>2, <3>2
      <4>2. rows[i].file \in FileType /\ rows[i].file \in FilesOf(m)
        BY <1>3, <1>4
      <4>3. Belongs(rows[i].file, first)
        BY <1>1, <1>6
      <4>4. [first EXCEPT !.part = part] = rows[i].file
        <5> HIDE DEF first
        <5> QED
          BY <2>1, <4>1, <4>2, <4>3 DEF Belongs, FileType
      <4> QED
        BY <4>2, <4>4
    <3> QED
      BY <3>1, <3>2
  <2> QED
    BY <1>2, <1>6, <2>2 DEF WholeModel, Parts
<1> QED
  BY <1>5, <1>6

LEMMA SomeFile ==
  ASSUME NEW m, ReadsManifest(m)
  PROVE  FilesOf(m) # {}
<1>1. PICK w : w \in DOMAIN m.rows
  BY DEF ReadsManifest, ValidRoles, RolesOf
<1> QED
  BY <1>1 DEF FilesOf, RowsOf

\* The set of a preset that is judged names every part of its model.
LEMMA LeftIsRead ==
  ASSUME Vetting, Reading, upc \in {"judge", "look"}, NEW name \in left
  PROVE  /\ FilesOf(SetOf(read, name)) # {}
         /\ WholeModel(Weights(SetOf(read, name))) \subseteq FilesOf(SetOf(read, name))
<1>1. name \in DOMAIN read.docs /\ Loads(read)
  BY DEF Vetting
<1>2. read.docs[name].set \in DOMAIN read.manifests
  BY <1>1 DEF Loads, ReadsPreset
<1>3. SetOf(read, name) \in ManifestType /\ ReadsManifest(SetOf(read, name))
  BY <1>1, <1>2 DEF Reading, TypedConfig, Loads, ReadsCatalog, SetOf
<1> QED
  BY <1>3, WholeIsNamed, SomeFile

\* A file that is not there, for `missing_files`.
Lost(file) == file \in Hub => library[file] = NoPin

\* The invariant of the looks: what was looked at and has not changed since is
\* as it was found.
Looking ==
    /\ upc # "look" => unseen = {} /\ missing = {} /\ changed = {}
    /\ upc = "look" =>
        /\ unseen # {} /\ unseen \subseteq FilesOf(SetOf(read, Judged))
        /\ missing \subseteq FilesOf(SetOf(read, Judged)) \ unseen
        /\ \A file \in FilesOf(SetOf(read, Judged)) \ unseen :
            file \in changed \/ (file \in missing <=> Lost(file))

LEMMA SoughtIsUnseen ==
  ASSUME unseen # {}
  PROVE  Sought \in unseen
  BY DEF Sought

LEMMA LibraryStep ==
  ASSUME Looking, NEW lib, Becomes(lib), UNCHANGED <<upc, read, left, unseen, missing>>
  PROVE  Looking'
<1>1. CASE upc # "look"
  BY <1>1 DEF Looking, Becomes
<1>2. CASE upc = "look"
  <2> DEFINE named == FilesOf(SetOf(read, Judged))
  <2>1. Judged' = Judged
    BY SameJudged
  <2>2. FilesOf(SetOf(read', Judged')) = named
    BY <2>1
  <2>3. library' = lib
        /\ changed' = changed \cup {file \in named \ unseen : file \in Hub /\ lib[file] # library[file]}
    BY <1>2 DEF Becomes
  <2>4. \A file \in named \ unseen : file \in changed \/ (file \in missing <=> Lost(file))
    BY <1>2 DEF Looking
  <2>5. \A file \in named \ unseen : file \in changed' \/ (file \in missing <=> Lost(file)')
    <3> HIDE DEF named
    <3> QED
      BY <2>3, <2>4 DEF Lost
  <2>6. unseen # {} /\ unseen \subseteq named /\ missing \subseteq named \ unseen
    BY <1>2 DEF Looking
  <2> HIDE DEF named
  <2> QED
    BY <1>2, <2>2, <2>5, <2>6 DEF Looking
<1> QED
  BY <1>1, <1>2

LEMMA LookForStep ==
  ASSUME Looking, LookFor
  PROVE  Looking'
<1> DEFINE named == FilesOf(SetOf(read, Judged))
           gone == missing \cup {file \in {Sought} : Lost(file)}
<1>1. upc = "look" /\ library' = library /\ read' = read
  BY DEF LookFor, AsRead, Beside
<1>2. /\ unseen # {} /\ unseen \subseteq named /\ missing \subseteq named \ unseen
      /\ \A file \in named \ unseen : file \in changed \/ (file \in missing <=> Lost(file))
  BY <1>1 DEF Looking
<1>3. Sought \in unseen
  BY <1>2, SoughtIsUnseen
<1>4. CASE unseen = {Sought}
  BY <1>4 DEF LookFor, Judges, NoLooks, Looking
<1>5. CASE unseen # {Sought}
  <2>1. /\ unseen' = unseen \ {Sought} /\ missing' = gone /\ upc' = "look"
        /\ left' = left /\ changed' = changed
    BY <1>1, <1>5 DEF LookFor, Lost
  <2>2. FilesOf(SetOf(read', Judged')) = named
    BY <1>1, <2>1, SameJudged
  <2>3. \A file : Lost(file)' <=> Lost(file)
    BY <1>1 DEF Lost
  <2> HIDE DEF named
  <2>4. unseen' # {} /\ unseen' \subseteq named /\ missing' \subseteq named \ unseen'
    BY <1>2, <1>3, <1>5, <2>1
  <2>5. \A file \in named \ unseen' : file \in changed' \/ (file \in missing' <=> Lost(file)')
    <3> SUFFICES ASSUME NEW file \in named \ unseen' PROVE file \in changed' \/ (file \in missing' <=> Lost(file))
      BY <2>3
    <3>1. CASE file = Sought
      BY <1>2, <1>3, <2>1, <3>1
    <3>2. CASE file # Sought
      BY <1>2, <2>1, <3>2
    <3> QED
      BY <3>1, <3>2
  <2> QED
    BY <2>1, <2>2, <2>4, <2>5 DEF Looking
<1> QED
  BY <1>4, <1>5

LEMMA LookingStep == ASSUME Looking, Vetting, Reading, Next \/ UNCHANGED vars PROVE Looking'
<1>1. ASSUME UNCHANGED <<library, upc, read, left, looks>> PROVE Looking'
  <2>1. Judged' = Judged
    BY <1>1, SameJudged
  <2>2. \A file : Lost(file)' <=> Lost(file)
    BY <1>1 DEF Lost
  <2> QED
    BY <1>1, <2>1, <2>2 DEF Looking, looks
<1>2. CASE Maintain
  BY <1>1, <1>2, MaintainFrame DEF up
<1>3. CASE Check \/ Down \/ UNCHANGED vars
  BY <1>1, <1>3 DEF Check, Down, vars, up, Beside
<1>4. CASE Download
  <2>1. UNCHANGED <<upc, read, left, unseen, missing>>
    BY <1>4, Downloading DEF up
  <2>2. CASE Fetch \/ FetchEnds
    BY <1>1, <2>1, <2>2 DEF Fetch, FetchEnds, looks
  <2>3. CASE Place \/ UserRemoves
    <3>1. \E lib : Becomes(lib)
      BY <2>3 DEF Place, UserRemoves
    <3> QED
      BY <2>1, <3>1, LibraryStep
  <2> QED
    BY <1>4, <2>2, <2>3 DEF Download
<1>5. CASE JudgeFiles
  <2>1. /\ upc = "judge" /\ upc' = "look" /\ unseen' = FilesOf(SetOf(read, Judged))
        /\ missing' = {} /\ left' = left /\ read' = read /\ left # {}
    BY <1>5 DEF JudgeFiles, AsRead
  <2>2. Judged' = Judged /\ unseen' # {}
    BY <2>1, SameJudged, JudgedIsLeft, LeftIsRead
  <2> QED
    BY <2>1, <2>2 DEF Looking
<1>6. CASE LookFor
  BY <1>6, LookForStep
<1>7. CASE UpReads \/ JudgeWaiting \/ BuildConfig \/ WriteIni \/ WritePi \/ WriteOmp
  <2>1. upc # "look" /\ upc' # "look" /\ UNCHANGED looks
    BY <1>7 DEF UpReads, JudgeWaiting, BuildConfig, WriteIni, WritePi, WriteOmp
  <2> QED
    BY <2>1 DEF Looking, looks
<1>8. CASE Start \/ Refused \/ Stopped
  <2>1. upc' = "idle" /\ NoLooks
    BY <1>8 DEF Start, Refused, Stopped, Over
  <2> QED
    BY <2>1 DEF Looking, NoLooks
<1> QED
  BY <1>2, <1>3, <1>4, <1>5, <1>6, <1>7, <1>8, Grouped DEF Up

LEMMA AlwaysLooking == Spec => []Looking
<1>1. Vetting /\ [Next]_vars => Vetting'
  <2>1. ASSUME Vetting, Next \/ UNCHANGED vars PROVE Vetting'
    BY <2>1, VettingStep
  <2> QED
    BY <2>1
<1>2. Looking /\ Vetting /\ Reading /\ [Next]_vars => Looking'
  <2>1. ASSUME Looking, Vetting, Reading, Next \/ UNCHANGED vars PROVE Looking'
    BY <2>1, LookingStep
  <2> QED
    BY <2>1
<1>3. Init => Looking
  BY DEF Init, Looking
<1> QED
  BY InitVetting, <1>1, <1>2, <1>3, ReadingIsTyped, PTL DEF Spec

LEMMA OfferedStep ==
  ASSUME Vetting, Reading, Looking, Next \/ UNCHANGED vars, NEW name \in left \ left', upc' = "judge",
         ~Waits(read, name)
  PROVE  IF name \in loadable'
         THEN \A file \in WholeModel(Weights(SetOf(read, name))) : file \in changed \/ library[file] # NoPin
         ELSE \E file \in FilesOf(SetOf(read, name)) : file \in changed \/ Lost(file)
<1>1. LookFor /\ unseen = {Sought} /\ name = Judged
  <2>1. Up
    BY MaintainFrame, Downloading, Grouped DEF Check, Down, up, vars
  <2>2. upc \in {"judge", "look"}
    BY DEF Vetting
  <2>3. ~UpReads /\ ~BuildConfig /\ ~WriteIni /\ ~WritePi /\ ~WriteOmp /\ ~Start /\ ~Refused /\ ~Stopped
    BY <2>2 DEF UpReads, BuildConfig, WriteIni, WritePi, WriteOmp, Start, Refused, Stopped, Over
  <2>4. ~JudgeWaiting /\ ~JudgeFiles
    BY DEF JudgeWaiting, JudgeFiles
  <2>5. LookFor
    BY <2>1, <2>3, <2>4 DEF Up
  <2> QED
    BY <2>5 DEF LookFor, Judges
<1> DEFINE named == FilesOf(SetOf(read, name))
           gone == missing \cup {file \in {Sought} : Lost(file)}
<1>2. upc = "look" /\ loadable' = IF gone = {} THEN loadable \cup {name} ELSE loadable
  BY <1>1 DEF LookFor, Judges, Lost
<1>3. name \notin loadable
  BY DEF Vetting
<1>4. /\ {Sought} \subseteq named /\ missing \subseteq named \ {Sought}
      /\ \A file \in named \ {Sought} : file \in changed \/ (file \in missing <=> Lost(file))
  BY <1>1, <1>2 DEF Looking
<1>5. WholeModel(Weights(SetOf(read, name))) \subseteq named
  BY <1>2, LeftIsRead
<1> HIDE DEF named
<1>6. CASE gone = {}
  <2>1. \A file \in named : file \in changed \/ ~Lost(file)
    BY <1>4, <1>6
  <2>2. \A file \in named : file \in changed \/ library[file] # NoPin
    BY <2>1 DEF Lost
  <2> QED
    BY <1>2, <1>5, <1>6, <2>2
<1>7. CASE gone # {}
  <2>1. PICK file \in gone : TRUE
    BY <1>7
  <2>2. file \in named /\ (file \in changed \/ Lost(file))
    BY <1>4, <2>1
  <2>3. name \notin loadable'
    BY <1>2, <1>3, <1>7
  <2> QED
    BY <2>2, <2>3 DEF named
<1> QED
  BY <1>6, <1>7

\* A preset that has its build is offered when every part of its model is in
\* the library, and only then, but for what came or went since it was looked at.
THEOREM WholeIsOffered == Spec => OfferedIsWhole
<1> DEFINE Whole == \A name \in left \ left' : upc' = "judge" /\ ~Waits(read, name) =>
        IF name \in loadable'
        THEN \A file \in WholeModel(Weights(SetOf(read, name))) : file \in changed \/ library[file] # NoPin
        ELSE \E file \in FilesOf(SetOf(read, name)) :
                file \in changed \/ (file \in Hub => library[file] = NoPin)
<1>1. Vetting /\ [Next]_vars => Vetting'
  <2>1. ASSUME Vetting, Next \/ UNCHANGED vars PROVE Vetting'
    BY <2>1, VettingStep
  <2> QED
    BY <2>1
<1>3. Looking /\ Vetting /\ Reading /\ [Next]_vars => [Whole]_vars
  <2>1. ASSUME Looking, Vetting, Reading, Next \/ UNCHANGED vars PROVE Whole
    BY <2>1, OfferedStep DEF Lost
  <2> QED
    BY <2>1
<1> QED
  BY InitVetting, <1>1, <1>3, AlwaysLooking, ReadingIsTyped, PTL DEF Spec, OfferedIsWhole

-----------------------------------------------------------------------------
\* The context of a slot, times the slots, is the context.
LEMMA Slots ==
  ASSUME NEW ctx \in Nat, NEW parallel \in Nat \ {0}, ctx % parallel = 0
  PROVE  (ctx \div parallel) * parallel = ctx
  OBVIOUS

Listed(list) == \A name \in DOMAIN list : list[name].efforts \subseteq Thinking

LEMMA RenderFits ==
  ASSUME Reading, Loads(read), NEW names \in SUBSET DOMAIN read.docs
  PROVE  Fits(Entries(read, names), Sections(read, names)) /\ Listed(Entries(read, names))
<1>1. SUFFICES ASSUME NEW name \in names
               PROVE  /\ Entry(read, name).context * Section(read, name).parallel = Section(read, name).ctx
                      /\ Section(read, name).effort # Off => Section(read, name).effort \in Entry(read, name).efforts
                      /\ Entry(read, name).efforts \subseteq Thinking
  <2> HIDE DEF Entry, Section
  <2> QED
    BY DEF Fits, Listed, Entries, Sections
<1>2. read.docs[name] \in DocType /\ ReadsPreset(read, name)
  BY DEF Reading, TypedConfig, Loads
<1>3. (read.docs[name].ctx \div read.docs[name].parallel) * read.docs[name].parallel = read.docs[name].ctx
  <2> DEFINE ctx == read.docs[name].ctx
             parallel == read.docs[name].parallel
  <2>1. ctx \in Nat /\ parallel \in Nat \ {0} /\ ctx % parallel = 0
    BY <1>2 DEF DocType, ReadsPreset
  <2> HIDE DEF ctx, parallel
  <2>2. (ctx \div parallel) * parallel = ctx
    BY <2>1, Slots
  <2> QED
    BY <2>2 DEF ctx, parallel
<1>4. /\ read.docs[name].effort # Off => read.docs[name].effort \in read.docs[name].efforts
      /\ read.docs[name].efforts \subseteq Thinking
  BY <1>2 DEF ReadsPreset
<1> QED
  BY <1>3, <1>4 DEF Entry, Section

\* The invariant of the three files: between the writes, the ones that are
\* written are of the configuration that was read; else they fit each other,
\* unless an `up` ended between them.
Rendering ==
    /\ torn \in BOOLEAN
    /\ Listed(pi) /\ Listed(omp)
    /\ upc \in {"pi", "omp"} => ini = Sections(read, loadable)
    /\ upc = "omp" => pi = Entries(read, loadable)
    /\ upc \notin {"pi", "omp"} /\ ~torn => Fits(pi, ini) /\ Fits(omp, ini)

LEMMA RenderingStep ==
  ASSUME Rendering, Vetting, Reading, Next \/ UNCHANGED vars
  PROVE  Rendering'
<1>1. CASE Maintain
  BY <1>1, MaintainFrame DEF Rendering, up, files
<1>2. CASE Check \/ Down \/ UNCHANGED vars
  BY <1>2 DEF Rendering, Check, Down, vars, up, files
<1>3. CASE Download
  BY <1>3, Downloading DEF Rendering, up, files
<1>4. CASE UpReads \/ BuildConfig
  BY <1>4 DEF Rendering, UpReads, BuildConfig, files
<1>5. CASE Judging
  BY <1>5, JudgesOne DEF Rendering, files
<1>6. ASSUME upc \in {"ini", "pi", "omp"}
      PROVE  Fits(Entries(read, loadable), Sections(read, loadable)) /\ Listed(Entries(read, loadable))
  <2>1. loadable \in SUBSET DOMAIN read.docs /\ Loads(read)
    BY <1>6 DEF Vetting
  <2> QED
    BY <2>1, RenderFits
<1>7. CASE WriteIni
  BY <1>7 DEF Rendering, WriteIni, AsRead
<1>8. CASE WritePi
  BY <1>8, <1>6 DEF Rendering, WritePi, AsRead
<1>9. CASE WriteOmp
  BY <1>9, <1>6 DEF Rendering, WriteOmp, AsRead
<1>10. CASE Start \/ Refused
  BY <1>10 DEF Rendering, Start, Refused, Over, files
<1>11. CASE Stopped
  BY <1>11 DEF Rendering, Stopped, Over, files
<1> QED
  BY <1>1, <1>2, <1>3, <1>4, <1>5, <1>7, <1>8, <1>9, <1>10, <1>11, Grouped DEF Up, Judging

LEMMA InitRendering == Init => Rendering
<1>1. DOMAIN <<>> = {}
  OBVIOUS
<1>2. Fits(<<>>, <<>>) /\ Listed(<<>>)
  BY <1>1 DEF Fits, Listed
<1> QED
  BY <1>2 DEF Init, Rendering

\* Every entry of the two model lists has its section in models.ini, except
\* between the three writes of `up`, and after one that ended between them.
THEOREM RendersWhole == Spec => []Rendering
<1>1. Vetting /\ [Next]_vars => Vetting'
  <2>1. ASSUME Vetting, Next \/ UNCHANGED vars PROVE Vetting'
    BY <2>1, VettingStep
  <2> QED
    BY <2>1
<1>2. Rendering /\ Vetting /\ Reading /\ [Next]_vars => Rendering'
  <2>1. ASSUME Rendering, Vetting, Reading, Next \/ UNCHANGED vars PROVE Rendering'
    BY <2>1, RenderingStep
  <2> QED
    BY <2>1
<1> QED
  BY InitVetting, InitRendering, <1>1, <1>2, ReadingIsTyped, PTL DEF Spec

\* An accepted session has a preset that the running container serves, with
\* the context and the efforts of either list, as long as no `up` ended
\* between two of the three files.
THEOREM AcceptedServed == Spec => []AcceptedIsServed
<1>1. Rendering => AcceptedIsServed
  <2> SUFFICES ASSUME Rendering, upc \notin {"pi", "omp"}, ~torn, NEW name \in Names, SessionReady(name)
               PROVE  \E sections \in container :
                        name \in DOMAIN sections /\ Fits(pi, sections) /\ Fits(omp, sections)
    BY DEF AcceptedIsServed
  <2>1. Fits(pi, ini) /\ Fits(omp, ini) /\ ini \in container /\ name \in DOMAIN pi
    BY DEF Rendering, SessionReady
  <2>2. name \in DOMAIN ini
    BY <2>1 DEF Fits
  <2> QED
    BY <2>1, <2>2
<1> QED
  BY <1>1, RendersWhole, PTL

-----------------------------------------------------------------------------
\* The ends of a set of efforts are of the set, and are its ends.
LEMMA Ends ==
  ASSUME NEW levels \in SUBSET Thinking, levels # {}
  PROVE  /\ Lowest(levels) \in levels /\ \A k \in levels : Lowest(levels) <= k
         /\ Highest(levels) \in levels /\ \A k \in levels : k <= Highest(levels)
<1>1. \A k \in levels : k \in 1 .. 6
  BY DEF Thinking
<1>2. \E l \in levels : \A k \in levels : l <= k
  <2>1. CASE 1 \in levels
    BY <1>1, <2>1
  <2>2. CASE 1 \notin levels /\ 2 \in levels
    BY <1>1, <2>2
  <2>3. CASE 1 \notin levels /\ 2 \notin levels /\ 3 \in levels
    BY <1>1, <2>3
  <2>4. CASE 1 \notin levels /\ 2 \notin levels /\ 3 \notin levels /\ 4 \in levels
    BY <1>1, <2>4
  <2>5. CASE 1 \notin levels /\ 2 \notin levels /\ 3 \notin levels /\ 4 \notin levels
    BY <1>1, <2>5
  <2> QED
    BY <2>1, <2>2, <2>3, <2>4, <2>5
<1>3. \E l \in levels : \A k \in levels : k <= l
  <2>1. CASE 6 \in levels
    BY <1>1, <2>1
  <2>2. CASE 6 \notin levels /\ 5 \in levels
    BY <1>1, <2>2
  <2>3. CASE 6 \notin levels /\ 5 \notin levels /\ 4 \in levels
    BY <1>1, <2>3
  <2>4. CASE 6 \notin levels /\ 5 \notin levels /\ 4 \notin levels /\ 3 \in levels
    BY <1>1, <2>4
  <2>5. CASE 6 \notin levels /\ 5 \notin levels /\ 4 \notin levels /\ 3 \notin levels
    BY <1>1, <2>5
  <2> QED
    BY <2>1, <2>2, <2>3, <2>4, <2>5
<1> QED
  BY <1>2, <1>3 DEF Lowest, Highest

\* pi asks for a declared effort, at every level that its picker lists.
LEMMA PiAsksForEfforts ==
  ASSUME NEW entry, entry.efforts \subseteq Thinking, NEW level \in PiShows(entry)
  PROVE  PiSends(entry, level) \subseteq entry.efforts
<1> DEFINE asked == {k \in Levels :
               \/ k = Off /\ ~entry.toggle
               \/ k \in Thinking \ entry.efforts
               \/ k \in NamedOnly \cap entry.efforts}
<1>1. DOMAIN PiMap(entry) = asked
  BY DEF PiMap
<1>2. \A l \in asked : PiMap(entry)[l] = IF l \in entry.efforts THEN {l} ELSE {}
  BY DEF PiMap
<1>3. CASE level \in asked
  BY <1>1, <1>2, <1>3 DEF PiSends
<1>4. CASE level \notin asked
  <2>1. level \in Levels
    BY DEF PiShows
  <2>2. level # Off => level \in entry.efforts
    BY <1>4, <2>1 DEF Levels
  <2> QED
    BY <1>1, <1>4, <2>2 DEF PiSends
<1> QED
  BY <1>3, <1>4

\* Of the efforts that are declared, oh-my-pi asks for the nearest from the
\* level upwards, or for the highest.
Nearest(effort, efforts, level) ==
    /\ effort \in efforts
    /\ \A other \in efforts : effort < level => other <= effort
    /\ \A other \in efforts : effort > level => other < level \/ other >= effort

LEMMA OmpMapsToTheNearest ==
  ASSUME NEW entry, entry.efforts \in SUBSET Thinking, entry.efforts # {}, NEW level \in Thinking
  PROVE  Nearest(OmpMapped(entry, level), entry.efforts, level)
<1> DEFINE efforts == entry.efforts
           higher == {k \in efforts : k > level}
<1>1. DOMAIN OmpMap(entry) = Thinking \ efforts
  BY DEF OmpMap
<1>2. \A k \in efforts : k \in Int
  BY DEF Thinking
<1>3. CASE level \in efforts
  BY <1>1, <1>2, <1>3 DEF OmpMapped, Nearest
<1>4. CASE level \notin efforts /\ higher # {}
  <2>1. OmpMapped(entry, level) = Lowest(higher)
    BY <1>1, <1>4 DEF OmpMapped, OmpMap
  <2>2. Lowest(higher) \in higher /\ \A k \in higher : Lowest(higher) <= k
    <3>1. higher \in SUBSET Thinking
      OBVIOUS
    <3> HIDE DEF higher
    <3> QED
      BY <1>4, <3>1, Ends
  <2>3. level \in Int
    BY DEF Thinking
  <2> DEFINE asked == Lowest(higher)
  <2> HIDE DEF asked
  <2>4. asked \in efforts /\ asked > level
    BY <2>2 DEF asked
  <2>5. \A other \in efforts : other > level => asked <= other
    BY <2>2 DEF asked
  <2>6. Nearest(asked, efforts, level)
    BY <1>2, <1>4, <2>3, <2>4, <2>5 DEF Nearest
  <2> QED
    BY <2>1, <2>6 DEF asked
<1>5. CASE level \notin efforts /\ higher = {}
  <2>1. OmpMapped(entry, level) = Highest(efforts)
    BY <1>1, <1>5 DEF OmpMapped, OmpMap
  <2>2. Highest(efforts) \in efforts /\ \A k \in efforts : k <= Highest(efforts)
    BY Ends
  <2>3. level \in Int
    BY DEF Thinking
  <2> QED
    BY <1>2, <1>5, <2>1, <2>2, <2>3 DEF Nearest
<1> QED
  BY <1>3, <1>4, <1>5

LEMMA OmpAsksForEfforts ==
  ASSUME NEW entry, entry.efforts \in SUBSET Thinking, entry.efforts # {}, NEW level \in Levels,
         NEW effort \in OmpSends(entry, level)
  PROVE  Nearest(effort, entry.efforts, level)
<1> DEFINE low == Lowest(entry.efforts)
           high == Highest(entry.efforts)
<1>1. /\ low \in entry.efforts /\ \A k \in entry.efforts : low <= k
      /\ high \in entry.efforts /\ \A k \in entry.efforts : k <= high
  BY Ends
<1>2. low \in 1 .. 6 /\ high \in 1 .. 6 /\ level \in 0 .. 6 /\ \A k \in entry.efforts : k \in 1 .. 6
  BY <1>1 DEF Levels, Thinking, Off
<1>3. effort = OmpMapped(entry, OmpClamped(entry, level))
  BY DEF OmpSends
<1> HIDE DEF low, high
<1>4. OmpLists(entry) = low .. high
  BY DEF OmpLists, low, high
<1>5. Lowest(low .. high) = low
  BY <1>1, <1>2 DEF Lowest
<1>6. CASE level \in low .. high
  <2>1. OmpClamped(entry, level) = level /\ level \in Thinking
    BY <1>2, <1>4, <1>6 DEF OmpClamped, Thinking
  <2> QED
    BY <1>3, <2>1, OmpMapsToTheNearest
<1>7. CASE level < low
  <2>1. OmpClamped(entry, level) = low /\ low \in Thinking
    BY <1>2, <1>4, <1>5, <1>7 DEF OmpClamped, Thinking
  <2>2. low \notin DOMAIN OmpMap(entry)
    BY <1>1 DEF OmpMap
  <2>3. effort = low
    BY <1>3, <2>1, <2>2 DEF OmpMapped
  <2> QED
    BY <1>1, <1>2, <1>7, <2>3 DEF Nearest
<1>8. CASE level > high
  <2>1. low <= high
    BY <1>1
  <2>2. {l \in low .. high : l < level} = low .. high
    BY <1>2, <1>8
  <2>3. Highest(low .. high) = high
    BY <1>2, <2>1 DEF Highest
  <2>4. OmpClamped(entry, level) = high
    <3>1. level \notin low .. high /\ ~(level < low)
      BY <1>2, <1>8, <2>1
    <3> QED
      BY <1>4, <1>5, <2>2, <2>3, <3>1, Zenon DEF OmpClamped
  <2>5. high \notin DOMAIN OmpMap(entry)
    BY <1>1 DEF OmpMap
  <2>6. effort = high
    BY <1>3, <2>4, <2>5 DEF OmpMapped
  <2> QED
    BY <1>1, <1>2, <1>8, <2>6 DEF Nearest
<1> QED
  BY <1>2, <1>6, <1>7, <1>8

\* Whatever preset is rendered, and at whatever level its user picks, either
\* agent asks the template for an effort that the preset declares.
THEOREM EffortsDeclared == Spec => []EffortsAreDeclared
<1>1. Rendering => EffortsAreDeclared
  <2>1. ASSUME Rendering, NEW name \in DOMAIN pi, NEW level \in PiShows(pi[name])
        PROVE  PiSends(pi[name], level) \subseteq pi[name].efforts
    <3>1. pi[name].efforts \subseteq Thinking
      BY <2>1 DEF Rendering, Listed
    <3> QED
      BY <2>1, <3>1, PiAsksForEfforts
  <2>2. ASSUME Rendering, NEW name \in DOMAIN omp, SpeaksEfforts(omp[name]), NEW level \in Levels,
               NEW effort \in OmpSends(omp[name], level)
        PROVE  Nearest(effort, omp[name].efforts, level)
    <3>1. omp[name].efforts \in SUBSET Thinking /\ omp[name].efforts # {}
      BY <2>2 DEF Rendering, Listed, SpeaksEfforts
    <3> QED
      BY <2>2, <3>1, OmpAsksForEfforts
  <2> QED
    BY <2>1, <2>2 DEF EffortsAreDeclared, Nearest
<1> QED
  BY <1>1, RendersWhole, PTL

-----------------------------------------------------------------------------
\* The rows of a draft: the first part, and the others in their order.
LEMMA DraftedRows ==
  ASSUME NEW wanted \in Hub, Draftable(wanted)
  PROVE  LET n == IF IsSplit(wanted) THEN wanted.of ELSE 1
             rows == DraftRows(wanted)
         IN  /\ n \in Nat \ {0} /\ DOMAIN rows = 1 .. n
             /\ rows[1] = Row("weights", wanted)
             /\ \A i \in 2 .. n : rows[i] = Row("split", [wanted EXCEPT !.part = i])
<1> DEFINE n == IF IsSplit(wanted) THEN wanted.of ELSE 1
           short == IF IsSplit(wanted) THEN wanted.of - 1 ELSE 0
           part(i) == Row("split", [wanted EXCEPT !.part = i + 1])
           rest == [i \in 1 .. short |-> part(i)]
           first == <<Row("weights", wanted)>>
<1>1. wanted.of \in Nat /\ (IsSplit(wanted) => wanted.of > 0)
  BY PresetsAssumption DEF FileType
<1>2. n \in Nat \ {0} /\ short = n - 1 /\ short \in Nat
  BY <1>1
<1>3. DraftRows(wanted) = first \o rest
  BY DEF DraftRows
<1>4. \A i \in 1 .. short : rest[i] = Row("split", [wanted EXCEPT !.part = i + 1])
  OBVIOUS
<1> DEFINE rows == {Row("weights", wanted)} \cup {part(i) : i \in 1 .. short}
<1>5. rest \in Seq(rows) /\ Len(rest) = short
  <2>1. rest \in [1 .. short -> rows]
    OBVIOUS
  <2> HIDE DEF rest, short, rows
  <2> QED
    BY <1>2, <2>1, SeqDef
<1>6. Len(first) = 1 /\ first[1] = Row("weights", wanted) /\ first \in Seq(rows)
  <2>1. Row("weights", wanted) \in rows
    OBVIOUS
  <2> HIDE DEF rows
  <2> QED
    BY <2>1
<1> HIDE DEF rest, first, n, short, rows
<1>7. /\ DOMAIN (first \o rest) = 1 .. n
      /\ (first \o rest)[1] = Row("weights", wanted)
      /\ \A i \in 2 .. n : (first \o rest)[i] = rest[i - 1]
  <2>1. /\ first \o rest \in Seq(rows) /\ Len(first \o rest) = Len(first) + Len(rest)
        /\ \A i \in 1 .. Len(first) + Len(rest) : (first \o rest)[i] =
              IF i <= Len(first) THEN first[i] ELSE rest[i - Len(first)]
    BY <1>5, <1>6, ConcatProperties
  <2>2. Len(first) + Len(rest) = n
    BY <1>2, <1>5, <1>6
  <2>3. \A i \in 1 .. n : (first \o rest)[i] = IF i <= 1 THEN first[i] ELSE rest[i - 1]
    BY <1>6, <2>1, <2>2
  <2> QED
    BY <1>2, <1>6, <2>1, <2>2, <2>3
<1>8. \A i \in 2 .. n : (first \o rest)[i] = Row("split", [wanted EXCEPT !.part = i])
  <2>1. SUFFICES ASSUME NEW i \in 2 .. n PROVE (first \o rest)[i] = Row("split", [wanted EXCEPT !.part = i])
    OBVIOUS
  <2>2. i - 1 \in 1 .. short /\ (i - 1) + 1 = i
    BY <1>2, <2>1
  <2>3. rest[i - 1] = Row("split", [wanted EXCEPT !.part = (i - 1) + 1])
    BY <1>4, <2>2
  <2> QED
    BY <1>7, <2>2, <2>3
<1> QED
  BY <1>2, <1>3, <1>7, <1>8 DEF n

LEMMA Pieces ==
  ASSUME NEW file \in FileType, NEW i \in Nat
  PROVE  LET piece == [file EXCEPT !.part = i]
         IN  /\ piece \in FileType /\ piece.part = i
             /\ piece.dir = file.dir /\ piece.stem = file.stem /\ piece.of = file.of
  BY DEF FileType

LEMMA DraftReads ==
  ASSUME NEW wanted \in Hub, Draftable(wanted), \A file \in WholeModel(wanted) : HubPin[file] # NoPin,
         HubBase[wanted] # "other"
  PROVE  ReadsManifest(Draft(wanted))
<1> DEFINE n == IF IsSplit(wanted) THEN wanted.of ELSE 1
           rows == DraftRows(wanted)
<1>1. /\ n \in Nat \ {0} /\ DOMAIN rows = 1 .. n
      /\ rows[1] = Row("weights", wanted)
      /\ \A i \in 2 .. n : rows[i] = Row("split", [wanted EXCEPT !.part = i])
  BY DraftedRows
<1>2. wanted \in FileType /\ (IsSplit(wanted) => wanted.part = 1 /\ n = wanted.of) /\ (~IsSplit(wanted) => n = 1)
  BY PresetsAssumption DEF Draftable
<1> HIDE DEF rows, n
<1>3. rows[1].role = "weights" /\ rows[1].file = wanted /\ rows[1].pin = HubPin[wanted]
  BY <1>1 DEF Row
<1> DEFINE Other(i) ==
      /\ rows[i].role = "split" /\ rows[i].pin = HubPin[rows[i].file]
      /\ IsSplit(wanted) /\ rows[i].file = [wanted EXCEPT !.part = i]
      /\ rows[i].file.part = i /\ Belongs(rows[i].file, wanted) /\ rows[i].file \in WholeModel(wanted)
<1>4. ASSUME NEW i \in 2 .. n PROVE Other(i)
  <2> DEFINE piece == [wanted EXCEPT !.part = i]
  <2>1. rows[i] = [role |-> "split", file |-> piece, pin |-> HubPin[piece]]
    BY <1>1 DEF Row
  <2>2. IsSplit(wanted) /\ i \in 1 .. wanted.of /\ i \in Nat /\ i > 0
    BY <1>1, <1>2
  <2>3. piece.part = i /\ piece.dir = wanted.dir /\ piece.stem = wanted.stem /\ piece.of = wanted.of
    BY <1>2, <2>2, Pieces
  <2>4. piece \in WholeModel(wanted)
    BY <2>2 DEF WholeModel, Parts
  <2>5. rows[i].role = "split" /\ rows[i].pin = HubPin[rows[i].file] /\ rows[i].file = piece
    BY <2>1
  <2> HIDE DEF piece
  <2>6. Belongs(piece, wanted)
    BY <2>2, <2>3 DEF Belongs, IsSplit
  <2> QED
    BY <2>2, <2>3, <2>4, <2>5, <2>6 DEF piece
<1> HIDE DEF Other
<1>5. 1 \in DOMAIN rows /\ \A i \in DOMAIN rows : i = 1 \/ i \in 2 .. n
  BY <1>1
<1>5a. \A i \in 2 .. n : i \in DOMAIN rows /\ i # 1 /\ rows[i].role = "split"
  <2>1. \A i \in 2 .. n : i \in 1 .. n /\ i # 1
    BY <1>1
  <2>2. \A i \in 2 .. n : rows[i].role = "split"
    BY <1>4 DEF Other
  <2> QED
    BY <1>1, <2>1, <2>2
<1>6. RolesOf(rows, "weights") = {1} /\ RolesOf(rows, "split") = 2 .. n
  BY <1>3, <1>5, <1>5a DEF RolesOf
<1>7. \A i \in DOMAIN rows : rows[i].pin = HubPin[rows[i].file] /\ rows[i].file \in WholeModel(wanted)
  <2>1. wanted \in WholeModel(wanted)
    <3>1. CASE IsSplit(wanted)
      <4>1. 1 \in 1 .. wanted.of /\ [wanted EXCEPT !.part = 1] = wanted
        BY <1>1, <1>2, <3>1 DEF FileType
      <4> QED
        BY <3>1, <4>1 DEF WholeModel, Parts
    <3>2. CASE ~IsSplit(wanted)
      BY <3>2 DEF WholeModel
    <3> QED
      BY <3>1, <3>2
  <2> QED
    BY <1>3, <1>4, <1>5, <2>1 DEF Other
<1>8. ReadsRows(rows)
  <2>1. \A i \in 2 .. n : rows[i].file.part = i /\ rows[i].file # wanted
    <3>1. SUFFICES ASSUME NEW i \in 2 .. n PROVE rows[i].file.part = i /\ rows[i].file # wanted
      OBVIOUS
    <3>2. rows[i].file.part = i /\ IsSplit(wanted)
      BY <1>4 DEF Other
    <3>3. wanted.part = 1 /\ i # 1
      BY <1>2, <3>2
    <3> QED
      BY <3>2, <3>3
  <2>2. \A i, j \in DOMAIN rows : rows[i].file = rows[j].file => i = j
    BY <1>3, <1>5, <2>1
  <2>3. rows # <<>>
    BY <1>5
  <2> QED
    BY <1>7, <2>2, <2>3 DEF ReadsRows
<1>9. ValidRoles(rows)
  <2>1. CASE ~IsSplit(wanted)
    <3>1. RolesOf(rows, "split") = {}
      BY <1>2, <1>6, <2>1
    <3> QED
      BY <1>3, <1>6, <2>1, <3>1 DEF ValidRoles
  <2>2. CASE IsSplit(wanted)
    <3>1. \A i \in 2 .. n : Belongs(rows[i].file, wanted) /\ rows[i].file.part = i
      BY <1>4 DEF Other
    <3>2. {rows[i].file.part : i \in 2 .. n} = 2 .. n
      BY <3>1
    <3>3. {1} \cup 2 .. n = 1 .. wanted.of
      BY <1>1, <1>2, <2>2
    <3>4. \A i \in 2 .. n : i # 1
      OBVIOUS
    <3>5. /\ \A i \in RolesOf(rows, "split") : Belongs(rows[i].file, rows[1].file)
          /\ \A i, j \in RolesOf(rows, "split") : rows[i].file.part = rows[j].file.part => i = j
          /\ \A i \in RolesOf(rows, "split") : rows[i].file.part # 1
          /\ {1} \cup {rows[i].file.part : i \in RolesOf(rows, "split")} = 1 .. rows[1].file.of
      <4>1. RolesOf(rows, "split") = 2 .. n /\ rows[1].file = wanted
        BY <1>3, <1>6
      <4>2. \A i, j \in 2 .. n : rows[i].file.part = rows[j].file.part => i = j
        BY <3>1
      <4>3. \A i \in 2 .. n : rows[i].file.part # 1
        BY <3>1, <3>4
      <4> QED
        BY <3>1, <3>2, <3>3, <4>1, <4>2, <4>3
    <3>6. rows[1].file.part = 1 /\ IsSplit(rows[1].file)
      BY <1>2, <1>3, <2>2
    <3> QED
      BY <1>6, <3>5, <3>6 DEF ValidRoles
  <2> QED
    BY <2>1, <2>2
<1> QED
  BY <1>8, <1>9 DEF ReadsManifest, Draft, rows

\* A draft of files that the Hub has digests for is read, as it came, by every
\* later command.
THEOREM DraftRead == Spec => []DraftIsRead
<1>1. DraftIsRead
  BY DraftReads DEF DraftIsRead
<1> QED
  BY <1>1, PTL

-----------------------------------------------------------------------------
\* The history flags and the bounds.
Counting ==
    /\ checked \in BOOLEAN /\ vetted \in BOOLEAN
    /\ edits \in 0 .. MaxEdits /\ commands \in 0 .. MaxCommands /\ faults \in 0 .. MaxFaults

LEMMA CountingStep == ASSUME Counting, Reading, Next \/ UNCHANGED vars PROVE Counting'
<1>b. MaxEdits \in Nat /\ MaxCommands \in Nat /\ MaxFaults \in Nat
  BY PresetsAssumption
<1>1. CASE Maintain
  BY <1>1, <1>b, Maintaining DEF Reading, Counting, up
<1>2. CASE Check \/ Down \/ UNCHANGED vars
  BY <1>2, <1>b DEF Counting, Check, Down, Beside, vars, up
<1>3. CASE Fetch \/ Place \/ FetchEnds \/ UserRemoves
  BY <1>3, <1>b DEF Counting, Fetch, Place, FetchEnds, UserRemoves, Idle, up
<1>4. CASE UpReads \/ JudgeWaiting \/ JudgeFiles \/ LookFor \/ BuildConfig
  BY <1>4, <1>b DEF Counting, UpReads, JudgeWaiting, JudgeFiles, LookFor, BuildConfig, AsRead, Beside
<1>5. CASE WriteIni \/ WritePi \/ WriteOmp
  BY <1>5, <1>b DEF Counting, WriteIni, WritePi, WriteOmp, AsRead, Beside
<1>6. CASE Start \/ Refused \/ Stopped
  <2>1. vetted' = FALSE /\ checked' = checked /\ edits' = edits /\ commands' = commands
    BY <1>6 DEF Start, Refused, Stopped, Over, Beside
  <2>2. faults' = faults \/ (faults < MaxFaults /\ faults' = faults + 1)
    BY <1>6 DEF Start, Refused, Stopped
  <2>3. faults' \in 0 .. MaxFaults
    BY <1>b, <2>2 DEF Counting
  <2> QED
    BY <2>1, <2>3, Zenon DEF Counting
<1> QED
  BY <1>1, <1>2, <1>3, <1>4, <1>5, <1>6, Grouped DEF Download, Up

\* The type of every variable, in every reachable state.
THEOREM TypeCorrect == Spec => []TypeOK
<1>1. Init => Counting
  <2>1. MaxEdits \in Nat /\ MaxCommands \in Nat /\ MaxFaults \in Nat
    BY PresetsAssumption
  <2>2. ASSUME Init PROVE edits = 0 /\ commands = 0 /\ faults = 0 /\ checked = FALSE /\ vetted = FALSE
    BY <2>2 DEF Init
  <2> QED
    BY <2>1, <2>2 DEF Counting
<1>2. Vetting /\ [Next]_vars => Vetting'
  <2>1. ASSUME Vetting, Next \/ UNCHANGED vars PROVE Vetting'
    BY <2>1, VettingStep
  <2> QED
    BY <2>1
<1>3. Merging /\ Reading /\ [Next]_vars => Merging'
  <2>1. ASSUME Merging, Reading, Next \/ UNCHANGED vars PROVE Merging'
    BY <2>1, MergingStep
  <2> QED
    BY <2>1
<1>4. Counting /\ Reading /\ [Next]_vars => Counting'
  <2>1. ASSUME Counting, Reading, Next \/ UNCHANGED vars PROVE Counting'
    BY <2>1, CountingStep
  <2> QED
    BY <2>1
<1>5. Vetting /\ Merging /\ Counting /\ Rendering /\ Looking => TypeOK
  <2> SUFFICES ASSUME Vetting, Merging, Counting, Rendering, Looking PROVE TypeOK
    OBVIOUS
  <2>1. left \subseteq DOMAIN read.docs /\ loadable \subseteq DOMAIN read.docs \ left
    BY DEF Vetting
  <2> QED
    BY <2>1 DEF Vetting, Merging, Counting, Rendering, Looking, TypeOK
<1> QED
  BY <1>1, <1>2, <1>3, <1>4, <1>5, InitVetting, InitMerging, ReadingIsTyped, RendersWhole, AlwaysLooking,
     PTL DEF Spec

=============================================================================
