------------------------------ MODULE Presets -------------------------------
(***************************************************************************)
(* From the reviewed files under config/ to what llama-server and the      *)
(* agents are given (presets.py, runtime.render): a maintainer edits       *)
(* manifests, presets, the pin and the default; `presets check` judges     *)
(* them; `models fetch` fills the library; `up` judges every preset, one   *)
(* after the other, beside a library that changes, and writes three files, *)
(* one after the other, before the container starts on the first; a        *)
(* session reads the second.  One `up` runs at a time: two of them are     *)
(* Stack's subject.                                                        *)
(***************************************************************************)
EXTENDS Manifests, AgentModels

CONSTANTS
    Names, Sets,              \* preset and model-set file names
    Manifest0, Documents0,    \* the shipped files
    ManifestFiles, Documents, \* what an edit may leave in one of them
    Builds,                   \* the llama.cpp builds a pin names
    NoDefault,
    MaxEdits, MaxCommands, MaxFaults  \* bounds: edits, fetches and ups, removed files and interrupts

DocType ==
    [set : STRING, ctx : Nat, parallel : Nat \ {0}, spec : {"none", "draft-mtp"}, bounded : BOOLEAN,
     quantized : BOOLEAN, flash : BOOLEAN, efforts : SUBSET Nat, effort : Nat, reasoning : BOOLEAN,
     toggle : BOOLEAN, clean : BOOLEAN]

ASSUME PresetsAssumption ==
    /\ Hub \subseteq FileType /\ \A file \in Hub : HubPin[file] \in Nat /\ HubBase[file] \in Upstreams
    /\ \A file \in Hub : IsSplit(file) => file.of > 0
    /\ ManifestFiles \subseteq ManifestType /\ \A s \in DOMAIN Manifest0 : Manifest0[s] \in ManifestType
    /\ Documents \subseteq DocType /\ \A name \in DOMAIN Documents0 : Documents0[name] \in DocType
    /\ NoDefault \notin Names
    /\ Builds \subseteq Nat \ {0}
    /\ MaxEdits \in Nat /\ MaxCommands \in Nat /\ MaxFaults \in Nat

VARIABLES
    config,    \* the files: manifests, docs, the pinned build, and the default in .env
    checked,   \* history: `presets check` has passed on the files as they are
    library,   \* per file, the pin its bytes have, or NoPin when it is not there
    fetching,  \* the rows a `models fetch` has still to place
    selected,  \* and the manifests it merged
    upc,       \* the next step of `up`
    read,      \* the configuration it read
    left, loadable, \* the presets it has still to judge, and those it offers
    unseen, missing, \* of the preset it judges: the files it has still to look at, those not found
    changed,   \* history: the files that came or went since it looked at them
    vetted,    \* history: `presets check` had passed on what it read
    ini, pi, omp,   \* models.ini and the two model lists
    torn,      \* history: an `up` ended between two of the three files
    container, \* the sections the running container was started with, if one runs
    edits, commands, faults

files == <<ini, pi, omp>>
looks == <<unseen, missing, changed>>
up == <<upc, read, left, loadable, vetted>>
vars == <<config, checked, library, fetching, selected, up, looks, files, torn, container, edits, commands, faults>>

Unreleased == -1
NoConfig == [manifests |-> <<>>, docs |-> <<>>, pinned |-> 0, default |-> NoDefault]
Config0 == [manifests |-> Manifest0, docs |-> Documents0, pinned |-> 1, default |-> NoDefault]

Init ==
    /\ config = Config0 /\ checked = FALSE
    /\ library \in {lib \in [Hub -> {HubPin[file] : file \in Hub} \cup {NoPin}] :
                      \A file \in Hub : lib[file] \in {NoPin, HubPin[file]}}
    /\ fetching = {} /\ selected = {}
    /\ upc = "idle" /\ read = NoConfig /\ left = {} /\ loadable = {} /\ vetted = FALSE
    /\ unseen = {} /\ missing = {} /\ changed = {}
    /\ ini = <<>> /\ pi = <<>> /\ omp = <<>> /\ torn = FALSE /\ container = {}
    /\ edits = 0 /\ commands = 0 /\ faults = 0

SetOf(c, name) == c.manifests[c.docs[name].set]

\* Variant: a default effort needs only to be a level.
ReadsPresetAnyEffort(c, name) ==
    LET doc == c.docs[name] IN
    /\ doc.set \in DOMAIN c.manifests
    /\ doc.ctx % doc.parallel = 0
    /\ doc.efforts \subseteq Thinking
    /\ IF doc.efforts = {} THEN doc.effort = Off ELSE doc.effort \in Thinking
    /\ doc.spec = "draft-mtp" => SetOf(c, name).mtp /\ doc.parallel = 1
    /\ doc.spec # "none" => doc.bounded
    /\ doc.quantized => doc.flash

\* `read_preset`: the model set, and the keys that depend on one another.
ReadsPreset(c, name) ==
    LET doc == c.docs[name] IN
    /\ doc.set \in DOMAIN c.manifests
    /\ doc.ctx % doc.parallel = 0
    /\ doc.efforts \subseteq Thinking
    /\ IF doc.efforts = {} THEN doc.effort = Off ELSE doc.effort \in doc.efforts
    /\ doc.spec = "draft-mtp" => SetOf(c, name).mtp /\ doc.parallel = 1
    /\ doc.spec # "none" => doc.bounded
    /\ doc.quantized => doc.flash

\* `catalog`, which one bad manifest refuses.
ReadsCatalog(c) == DOMAIN c.manifests # {} /\ \A s \in DOMAIN c.manifests : ReadsManifest(c.manifests[s])

\* `load`, and the templates that the sets name.
Loads(c) ==
    /\ ReadsCatalog(c) /\ \A s \in DOMAIN c.manifests : c.manifests[s].template # "lost"
    /\ DOMAIN c.docs # {} /\ \A name \in DOMAIN c.docs : ReadsPreset(c, name)

\* `build_wait`.
Waits(c, name) == SetOf(c, name).build = Unreleased \/ SetOf(c, name).build > c.pinned

\* `Configuration.require`.
Requires(c, name) == name \in DOMAIN c.docs /\ ~Waits(c, name)
RequiresDefault(c) == c.default # NoDefault => Requires(c, c.default)

\* `build_config` writes a line per key of every preset it is given, and
\* refuses a value that the router would cut short.
Writable(c, names) == \A name \in names : c.docs[name].clean

\* Variant: a check that does not build the lines.
ValidatesNoLine(c) == Loads(c) /\ RequiresDefault(c)

\* `validate`: no file is looked at, and only a preset that waits is left out.
Validates(c) == Loads(c) /\ RequiresDefault(c) /\ Writable(c, {name \in DOMAIN c.docs : ~Waits(c, name)})

\* `preset_section`: the keys of one preset that this model tells apart.
Section(c, name) ==
    LET doc == c.docs[name] IN
    [model |-> Weights(SetOf(c, name)), template |-> SetOf(c, name).template, startup |-> name = c.default,
     ctx |-> doc.ctx, parallel |-> doc.parallel, quantized |-> doc.quantized, flash |-> doc.flash,
     spec |-> doc.spec, effort |-> doc.effort, thinking |-> doc.reasoning]

\* `agent_models`.
Entry(c, name) ==
    LET doc == c.docs[name] IN
    [context |-> doc.ctx \div doc.parallel, reasoning |-> doc.reasoning,
     efforts |-> doc.efforts, toggle |-> doc.toggle]

Sections(c, names) == [name \in names |-> Section(c, name)]
Entries(c, names) == [name \in names |-> Entry(c, name)]

-----------------------------------------------------------------------------
\* The maintainer.
Edit(c) ==
    /\ edits < MaxEdits /\ edits' = edits + 1
    /\ config' = c /\ checked' = FALSE
    /\ UNCHANGED <<library, fetching, selected, up, looks, files, torn, container, commands, faults>>

EditManifest ==
    \E s \in Sets, m \in ManifestFiles :
        Edit([config EXCEPT !.manifests = [t \in DOMAIN @ \cup {s} |-> IF t = s THEN m ELSE @[t]]])

\* `models draft`, and its text saved as a manifest.
DraftManifest ==
    \E s \in Sets, wanted \in Hub :
        /\ Draftable(wanted)
        /\ Edit([config EXCEPT !.manifests = [t \in DOMAIN @ \cup {s} |-> IF t = s THEN Draft(wanted) ELSE @[t]]])

EditPreset ==
    \E name \in Names, doc \in Documents :
        Edit([config EXCEPT !.docs = [other \in DOMAIN @ \cup {name} |-> IF other = name THEN doc ELSE @[other]]])

RemovePreset ==
    \E name \in DOMAIN config.docs :
        Edit([config EXCEPT !.docs = [other \in DOMAIN @ \ {name} |-> @[other]]])

EditSettings ==
    \/ \E build \in Builds : Edit([config EXCEPT !.pinned = build])
    \/ \E name \in Names \cup {NoDefault} : Edit([config EXCEPT !.default = name])

\* `presets check`.
Check ==
    /\ Validates(config) /\ checked' = TRUE
    /\ UNCHANGED <<config, library, fetching, selected, up, looks, files, torn, container, edits, commands, faults>>

-----------------------------------------------------------------------------
Idle == UNCHANGED <<config, checked, up, unseen, missing, files, torn, container, edits>>

\* The preset that an `up` judges, one after the other, in an order that is the
\* same each time.
Judged == CHOOSE name \in left : TRUE

\* The library becomes that one, under the looks of an `up`.
Becomes(lib) ==
    /\ library' = lib
    /\ changed' = IF upc = "look"
                  THEN changed \cup {file \in FilesOf(SetOf(read, Judged)) \ unseen :
                                        file \in Hub /\ lib[file] # library[file]}
                  ELSE changed

\* Variant: the manifests of the selected sets are not compared.
FetchUnmerged ==
    /\ fetching = {} /\ ReadsCatalog(config) /\ commands < MaxCommands /\ commands' = commands + 1
    /\ \E sets \in SUBSET DOMAIN config.manifests \ {{}} :
        /\ selected' = {config.manifests[s] : s \in sets}
        /\ fetching' = Merged(selected')
    /\ UNCHANGED <<library, changed, faults>> /\ Idle

\* `models fetch` of named sets, or of all.
Fetch ==
    /\ fetching = {} /\ ReadsCatalog(config) /\ commands < MaxCommands /\ commands' = commands + 1
    /\ \E sets \in SUBSET DOMAIN config.manifests \ {{}} :
        /\ selected' = {config.manifests[s] : s \in sets}
        /\ Agree(selected') /\ fetching' = Merged(selected')
    /\ UNCHANGED <<library, changed, faults>> /\ Idle

\* A file that is there and is not the pinned one ends the fetch (Library).
Place ==
    /\ \E row \in fetching :
        /\ row.file \in Hub /\ library[row.file] \in {NoPin, row.pin}
        /\ Becomes([library EXCEPT ![row.file] = row.pin])
        /\ fetching' = fetching \ {row}
    /\ selected' = IF fetching' = {} THEN {} ELSE selected
    /\ UNCHANGED <<commands, faults>> /\ Idle

FetchEnds ==
    /\ fetching # {} /\ fetching' = {} /\ selected' = {}
    /\ UNCHANGED <<library, changed, commands, faults>> /\ Idle

UserRemoves ==
    /\ \E file \in Hub : library[file] # NoPin /\ Becomes([library EXCEPT ![file] = NoPin])
    /\ faults < MaxFaults /\ faults' = faults + 1
    /\ UNCHANGED <<fetching, selected, commands>> /\ Idle

-----------------------------------------------------------------------------
Beside == UNCHANGED <<config, checked, library, fetching, selected, edits>>
AsRead == UNCHANGED <<read, vetted, commands>>

NoLooks == unseen' = {} /\ missing' = {} /\ changed' = {}
Over == upc' = "idle" /\ read' = NoConfig /\ left' = {} /\ loadable' = {} /\ vetted' = FALSE /\ NoLooks

\* The configuration is read once per command; the default is required first.
UpReads ==
    /\ upc = "idle" /\ read' = config /\ vetted' = checked /\ loadable' = {}
    /\ commands < MaxCommands /\ commands' = commands + 1
    /\ IF Loads(config) /\ RequiresDefault(config)
       THEN upc' = "judge" /\ left' = DOMAIN config.docs
       ELSE upc' = "refused" /\ left' = {}
    /\ UNCHANGED <<looks, files, torn, container, faults>> /\ Beside

\* `evaluate`: no file is looked at of a preset that waits.
JudgeWaiting ==
    /\ upc = "judge" /\ left # {} /\ Waits(read, Judged)
    /\ left' = left \ {Judged}
    /\ UNCHANGED <<upc, loadable, looks, files, torn, container, faults>> /\ AsRead /\ Beside

JudgeFiles ==
    /\ upc = "judge" /\ left # {} /\ ~Waits(read, Judged)
    /\ upc' = "look" /\ unseen' = FilesOf(SetOf(read, Judged)) /\ missing' = {} /\ changed' = {}
    /\ UNCHANGED <<left, loadable, files, torn, container, faults>> /\ AsRead /\ Beside

Judges(gone) ==
    /\ upc' = "judge" /\ left' = left \ {Judged} /\ NoLooks
    /\ loadable' = IF gone = {} THEN loadable \cup {Judged} ELSE loadable

Sought == CHOOSE file \in unseen : TRUE

\* Variant: the look at the last file judges.
LookForLast ==
    /\ upc = "look"
    /\ LET gone == {file \in {Sought} : file \in Hub => library[file] = NoPin} IN
        \/ /\ unseen # {Sought} /\ unseen' = unseen \ {Sought} /\ missing' = gone
           /\ UNCHANGED <<upc, left, loadable, changed>>
        \/ unseen = {Sought} /\ Judges(gone)
    /\ UNCHANGED <<files, torn, container, faults>> /\ AsRead /\ Beside

\* `missing_files`, one file after the other; present is what has a file at
\* its place.  After the last one the preset is judged.
LookFor ==
    /\ upc = "look"
    /\ LET gone == missing \cup {file \in {Sought} : file \in Hub => library[file] = NoPin} IN
        \/ /\ unseen # {Sought} /\ unseen' = unseen \ {Sought} /\ missing' = gone
           /\ UNCHANGED <<upc, left, loadable, changed>>
        \/ unseen = {Sought} /\ Judges(gone)
    /\ UNCHANGED <<files, torn, container, faults>> /\ AsRead /\ Beside

BuildConfig ==
    /\ upc = "judge" /\ left = {}
    /\ upc' = IF Writable(read, loadable) THEN "ini" ELSE "refused"
    /\ UNCHANGED <<left, loadable, looks, files, torn, container, faults>> /\ AsRead /\ Beside

WriteIni ==
    /\ upc = "ini" /\ upc' = "pi" /\ ini' = Sections(read, loadable)
    /\ UNCHANGED <<left, loadable, looks, pi, omp, torn, container, faults>> /\ AsRead /\ Beside

WritePi ==
    /\ upc = "pi" /\ upc' = "omp" /\ pi' = Entries(read, loadable)
    /\ UNCHANGED <<left, loadable, looks, ini, omp, torn, container, faults>> /\ AsRead /\ Beside

WriteOmp ==
    /\ upc = "omp" /\ upc' = "start" /\ omp' = Entries(read, loadable) /\ torn' = FALSE
    /\ UNCHANGED <<left, loadable, looks, ini, pi, container, faults>> /\ AsRead /\ Beside

\* The container starts on the file, or `up` fails first, and the one that
\* runs goes on or is removed.
Start ==
    /\ upc = "start" /\ Over /\ (container' = {ini} \/ container' = container \/ container' = {})
    /\ UNCHANGED <<files, torn, commands, faults>> /\ Beside

Refused == upc = "refused" /\ Over /\ UNCHANGED <<files, torn, container, commands, faults>> /\ Beside

\* An interrupt or a crash.
Stopped ==
    /\ upc \notin {"idle", "refused"} /\ faults < MaxFaults /\ faults' = faults + 1 /\ Over
    /\ torn' = (torn \/ upc \in {"pi", "omp"})
    /\ UNCHANGED <<files, container, commands>> /\ Beside

Down ==
    /\ upc = "idle" /\ container' = {}
    /\ UNCHANGED <<up, looks, files, torn, commands, faults>> /\ Beside

Up ==
    \/ UpReads \/ JudgeWaiting \/ JudgeFiles \/ LookFor \/ BuildConfig
    \/ WriteIni \/ WritePi \/ WriteOmp \/ Start \/ Refused \/ Stopped

Next ==
    \/ EditManifest \/ DraftManifest \/ EditPreset \/ RemovePreset \/ EditSettings \/ Check
    \/ Fetch \/ Place \/ FetchEnds \/ UserRemoves
    \/ Up \/ Down

Spec == Init /\ [][Next]_vars

-----------------------------------------------------------------------------
\* `require_session_ready`, as far as it is about the preset.  The digest of
\* the file stands for its contents.
SessionReady(name) ==
    Loads(config) /\ Requires(config, name) /\ name \in DOMAIN pi /\ ini \in container

\* A list is of the sections it is offered with.
Fits(list, sections) ==
    /\ DOMAIN list = DOMAIN sections
    /\ \A name \in DOMAIN list :
        /\ list[name].context * sections[name].parallel = sections[name].ctx
        /\ sections[name].effort # Off => sections[name].effort \in list[name].efforts

\* The type invariant.
TypeOK ==
    /\ checked \in BOOLEAN /\ vetted \in BOOLEAN /\ torn \in BOOLEAN
    /\ library \in [Hub -> Nat]
    /\ upc \in {"idle", "judge", "look", "ini", "pi", "omp", "start", "refused"}
    /\ upc # "look" => unseen = {} /\ missing = {} /\ changed = {}
    /\ left \subseteq DOMAIN read.docs /\ loadable \subseteq DOMAIN read.docs \ left
    /\ upc \notin {"judge", "look"} => left = {}
    /\ upc = "idle" => read = NoConfig
    /\ fetching \subseteq Merged(selected)
    /\ edits \in 0 .. MaxEdits /\ commands \in 0 .. MaxCommands /\ faults \in 0 .. MaxFaults

\* A session that is let start, when the last render has written its three
\* files, has a preset that the running container serves, in the list of
\* either agent, with the context of one of its slots and a default effort
\* that the list declares.
AcceptedIsServed ==
    upc \notin {"pi", "omp"} /\ ~torn =>
        \A name \in Names : SessionReady(name) =>
            \E sections \in container :
                name \in DOMAIN sections /\ Fits(pi, sections) /\ Fits(omp, sections)

\* A session starts with "a preset the running llama service knows", whenever
\* no render is under way.  A render that was cut after models.ini leaves the
\* list of an earlier one beside it (presets_torn.cfg).
AcceptedIsKnown ==
    upc = "idle" => \A name \in Names :
        SessionReady(name) => \E sections \in container : name \in DOMAIN sections

\* What either agent asks a template for, at any level its user can pick, is
\* an effort the preset declares: the nearest from the level upwards, or the
\* highest.
EffortsAreDeclared ==
    /\ \A name \in DOMAIN pi : SpeaksEfforts(pi[name]) =>
        \A level \in PiShows(pi[name]) : PiSends(pi[name], level) \subseteq pi[name].efforts
    /\ \A name \in DOMAIN omp : SpeaksEfforts(omp[name]) =>
        \A level \in Levels : \A effort \in OmpSends(omp[name], level) :
            /\ effort \in omp[name].efforts
            /\ \A other \in omp[name].efforts : effort < level => other <= effort
            /\ \A other \in omp[name].efforts : effort > level => other < level \/ other >= effort

\* A preset that has the build it needs is offered when every part of its
\* model is in the library, and only then, but for files that came or went
\* since they were looked at.
OfferedIsWhole ==
    [][\A name \in left \ left' : upc' = "judge" /\ ~Waits(read, name) =>
        IF name \in loadable'
        THEN \A file \in WholeModel(Weights(SetOf(read, name))) : file \in changed \/ library[file] # NoPin
        ELSE \E file \in FilesOf(SetOf(read, name)) :
                file \in changed \/ (file \in Hub => library[file] = NoPin)]_vars

\* What `presets check` has passed, `up` does not refuse, whichever files the
\* library has.
CheckedIsRendered == upc = "refused" => ~vetted

\* A fetch of several sets gives every one of them the bytes it pins.
PlacesWhatIsPinned ==
    [][\A file \in Hub : library'[file] \notin {library[file], NoPin} =>
        \A m \in selected : \A row \in RowsOf(m) : row.file = file => library'[file] = row.pin]_vars

\* A draft that was saved as it came, of files the Hub has digests for, in a
\* repository whose card names a repository as its base or none, is a manifest
\* that every later command reads.
DraftIsRead ==
    \A s \in DOMAIN config.manifests, wanted \in Hub :
        /\ Draftable(wanted) /\ config.manifests[s] = Draft(wanted)
        /\ \A file \in WholeModel(wanted) : HubPin[file] # NoPin
        /\ HubBase[wanted] # "other"
        => ReadsManifest(config.manifests[s])

=============================================================================
