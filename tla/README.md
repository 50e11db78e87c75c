# TokenCrate in TLA+

Models of the parts of TokenCrate in which the order of steps or the
interplay of rules matters: the stack that `up` starts and `down` removes, the
lock around it, the wait for the router, the smoke run, the presets and the
files rendered from them, the settings and the start of a session, the agent
and skill directories, the model library, the browser UIs and the live sampler.
Each module is translated from the Python source. TLC checks it on small
instances; TLAPS proves the main safety properties for every size.

Paths below are relative to the repository (`src/tokencrate/...` is written
`tokencrate/...`). `PROJECT.json` maps every definition to its lines, every
property of a run to a mutant of the code that breaks it, and every known
hazard to the properties that cover it.

## 1. Inventory

TokenCrate is one command, `bin/tokencrate`, that is run many times, often at
once: each invocation is a process that reads files below the checkout, asks a
container engine (Docker or Podman), changes something, and exits. Nothing
stays resident except containers, `stats --serve`, and the metrics exporter.
Processes meet in the file system, in the engine, and on loopback ports. An
invocation may be interrupted or killed at any line.

| Component | State it keeps | Operations | Hard part | What makes it correct |
| --- | --- | --- | --- | --- |
| Stack lifecycle (`runtime.py`, `cli.py`) | the llama and dashboard containers, `build/models.ini`, the agent model lists, `build/stack.json` | `up`, `down` | minutes-long steps outside the lock, two engines, Compose calls that fail half-way or outlive their wrapper | the port judged is the port used; the label is the digest of the file the container read; the record names the stack that is there |
| Stack lock and record (`engine.py`) | `build/locks/<project>.lock`, `build/stack.json` | `lock`, `detect`, `record_stack`, `forget_stack`, `require_port`, `containers`, `remove_containers` | the flock goes with a killed process, the Compose provider does not | mutual exclusion, the record goes last, every waiter gets the lock |
| Terminal sessions and containment check (`session.py`, `agents.py`) | one `run --rm` container per session | pre-flight, `build`, `run`, `stop_container` | the pre-flight reads three things that an `up` changes | a check keeps its container; an accepted session is served |
| Browser UIs (`uis.py`) | two containers per set under engine-wide names, a published port | `ui <set>`, `ui stop`, `ui logs` | a replacement in three calls that may each fail; names shared by checkouts with different locks | only the named UI is replaced; a retry finds its names free; parts of two launches never meet |
| Agent-set render (`agentsets.py`) | `build/agents/pi/<tag>/` | `render` | no lock; parallel starts, crashes, the user | a start never sees a half-written render and removes nothing |
| Model library and download (`models/`) | the file, its stamp, the staging directory, the download lock | `fetch`, `status` | interrupted and misbehaving transfers, a cached checksum | a stamp vouches only for pinned bytes; the destination gets pinned files only; every fetch can be finished |
| Live sampler (`stats/live.py`, `stats/server.py`) | the ring of samples, the counters of the last scrape | `snapshot`, `scrape` | several request threads, a router that swaps presets and resets counters | one scrape at a time; a rate never claims tokens that were not served |
| Readiness wait (`runtime.py`) | none | `wait_until_ready`, `poll` | a load that is accepted late, refused, lost, or evicted by another client | it ends; "not loaded" is said for a reason |
| Smoke run (`probe.py`) | rows of a table | nine checks of one preset | requests that fail on their way; replies cut short; checks judged from earlier replies | a pass proves what the run is for, a failure has a reason |
| Skill sets (`skills.py`) | one directory per skill, a backup while it is replaced | `fetch`, `installed_state` | two renames with a crash or another fetch between them | the old or the new tree is there, never a mix; a repeated fetch arrives |
| Model manifests and drafts (`models/manifest.py`, `models/drafts.py`) | parsed TOML | `draft`, `read_manifest`, `merged_files` | parts of split files, several sets that name one file | a draft is read back; selected sets agree on a file |
| Presets, agent models (`presets.py`, `agentmodels.py`) | `build/models.ini` and two model lists | `load`, `evaluate`, `build_config`, `render`, `presets check` | rules across three kinds of files, a library that changes meanwhile, three writes | what is checked is rendered; what is offered is whole; what a session is let start on is served |
| Settings (`env.py`), session start (`session.py`) | parsed settings, mounts, the environment of a Compose call | `load`, `subprocess_env`, `resolve_project_directory`, `cloud_keys_file`, `require_skill_sets`, `prepare_mountpoints` | three layers and the pins; links that move between a check and the mount | Compose reads what the wrapper reads; what is mounted is what was judged |
| Metrics exporter (`services/dashboard/llama-exporter.js`) | the counters of the loaded preset | `poll`, `render` | one event loop, requests that overlap a poll | the two-listing rule of the sampler |
| Command line (`cli.py`), doctor, pin checks, bench, stats report | none of their own | parse, read and report | none | see "Not modelled" |
| Containers and entrypoints (`services/`) | inside containers | scripts | none | see "Not modelled" |

How they interact:

- `up`, `down`, `ui`, `ui stop` and `smoke --agent` share one flock per
  Compose project. `agent` takes no lock, and neither do the builds, the
  renders, the pre-flights and the waits.
- `up` writes `models.ini`, the model lists and the record; sessions and every
  `detect` read them without the lock.
- The engine is shared with other checkouts, which have locks of their own.
  Container names of UIs and loopback ports are common to all of them.
- The wait of `up`, the smoke run, the sampler and the exporter ask one router,
  whose loaded preset any client changes.
- `models fetch` fills the library that `up` judges presets by; a session reads
  one of the lists `up` has written, and the manifests and presets again.
- Starts of sessions render below `build/agents/pi` and mount `data/skills`,
  which `skills fetch` replaces.

## 2. Modules

| Module | Models | Actors | Lock |
| --- | --- | --- | --- |
| `Stack` | `start_stack`, `stop_stack`, `detect`, the lock, the record, the pre-flight and the containers of sessions | slots that run `up`, `down`, `agent`, `smoke --agent`; the engines; Compose calls that lost their wrapper | one |
| `Router` | llama.cpp's router (external) | the router, its other clients | none |
| `Readiness`, `Smoke` | `wait_until_ready`; `smoke` and its nine checks | one wait; one run | none |
| `RouterClients` | both of them with the router | as above | none |
| `Manifests`, `AgentModels` | drafts, manifests, merged files; the thinking levels of both agents | pure operators | - |
| `Presets` | the rules of `load`, `presets check`, `models fetch`, the rendering of `up`, the pre-flight's view of it | a maintainer, a fetch, one `up` at a time, a user | none |
| `Settings` | `env.load`, the storage rules, `subprocess_env` | pure operators | - |
| `Launches` | one command from its settings to its Compose call | one `up` or session start, a user who moves a link, or leaves one where a directory was | none |
| `AtomicPlaces` | what a directory promises that is filled by renames (abstract) | programs, a user | - |
| `AgentSetRender` | `agentsets.render`, implements `AtomicPlaces` | starts of sessions, the user | none |
| `Skills` | `skills.fetch`, implements `AtomicPlaces` | fetches, the user | none |
| `Library` | `file_state`, `download`, `fetch`, `status` | fetches, statuses, the user, the server | the download lock |
| `LiveSampler` | `snapshot`, `scrape` | request threads, the router, the clock | a mutex and a claim |
| `Ui` | `uis.start`, `uis.stop`, `stop_container` | slots that each run `ui` or `ui stop`, in one or several checkouts; Compose providers that outlive their client; containers that exit | one per checkout |

A slot is one place on the host where a command is run over and over: it ends
in `idle` with everything it remembered gone, and starts again. `pc` is the
next line it will execute, and a step is one call that reads or changes state
others can see; everything between two such calls is in the step. Each module
has an `MC` module with its symmetry sets (symmetry is used only in runs
without a liveness property), and a `...Proofs` module; `Launches` and
`AgentSetRender`, the two halves of a session start, share
`SessionStartProofs`, which is why the names of the latter say `Render`.

**Stack.** `llama[e]` is the project's llama container on engine `e`:
absent, created, exited or running, with the digest in its label and, while it
runs, the text of `models.ini` it read when it started. `ini`, `list` and
`record` are the three files. `UpRequirePort` to `UpDashboard` are the lines of
`start_stack` in their order; `Composed` is what Compose does with a container
that exists (kept if it runs under the same label, recreated if not), and
`FailedCompose` what a failing call may leave. `DownLock` to `DownForget` are
`stop_stack`. `SessionModels`, `SessionLabel` and `SessionCompare` are the three
reads of `require_session_ready`, one step each because an `up` may render in
between. `Detect` comes first in every command and outside the lock, as in
`cli.py`. `Fails` ends a command at any step, with its lock; `Killed` ends it
while its Compose call goes on as an orphan that lands or dies later.

**Ui.** `box[n]` is whoever bears the name `n` on the engine: the checkout it is
labelled with, its state, and the port of the launch that made it. A launch
judges the port, builds, takes the lock, judges it again, looks at both names
for another checkout's containers, lists and removes its own, runs the UI and
then the forwarder, and waits without the lock. `RunUiFails` and
`RunUiInterrupted` lead to the unwind, which stops by name whoever bears it
(`Unwind`) or finds nobody for five seconds (`UnwindDeadline`); a container that
is created and not started stays as it is. `RunForwardFails` has no unwind, as in
the code. `late` holds what the providers of clients that were interrupted or
killed have yet to do: to create a container, or to start the one they created.
They do it in whatever command comes to run then, or fail, and only the removal
of a created container keeps it from starting. `strays` is history: the names
under which such a provider has landed since the holder of a lock took it, less
those the holder has listed. A slot that has a port is launching; one without is
stopping.

**AtomicPlaces.** A place is empty or holds one whole thing; a program fills an
empty place in one step (`Publish`), may take out what it is about to replace
(`Withdraw`), and anything else is somebody working by hand (`Disturb`). Two
modules implement it, each with a refinement mapping stated in the module and
checked as a temporal property.

**AgentSetRender.** `out[t]` is `build/agents/pi/<tag>`. The two looks of
`render` are two calls each, `Write` puts one file into the start's own staging
directory (the Dockerfile first, as the code does), `Rename` is `rename(2)`.
It publishes and withdraws nothing.

**Skills.** `place[s]` and `previous[s]` are `<set>/<s>` and
`<set>/.<s>.previous`, told apart by what the tree is to the manifest. `Look` is
`installed_state`, `Stage` and `Verify` the checkout and its digest, and then
come the calls of the swap, each a step: the look for a leftover backup, its
removal, the look for an installed skill, the two renames, the removal of the
backup, and at the end the removal of what the manifest no longer names. A
fetch can fail or be killed at each, and fetches overlap freely, for no lock
is taken. The mapping takes `place` for the content and the trees with a
pinned digest for the whole things.

**Library.** Bytes are counted, and are the pinned ones or not; an identity
stands for the stat a stamp records. `Look`, `Hash` and `Stamp` are the three
calls of `file_state`; `Resume`, `Restart` and `RangeUnsatisfiable` are the
answers 206, 200 and 416; `SecondLook` judges a file that appeared during the
download. The user puts files down and takes them away between any two calls.

**LiveSampler.** `Begin` is the decision under the lock, `List`, `Metrics` and
`MetricsMissing` are `scrape`, `Release` the `finally` and `AppendSample` the
second acquisition. `served` is history: what the router served of each preset.

**Router, Readiness, Smoke.** `status[p]` is what `GET /models` says of a
preset; a load that was accepted waits in `accepted` until the router acts on
it, a request of another client may evict the loaded preset at any moment, and
a model server or the container may exit. `LookAtContainer`, `NoListing`,
`List`, `Ask` and `Clock` are one pass of the loop in `wait_until_ready`, cut
where it asks the engine or the router; the deadline is a number of polls. In
`Smoke` a check is `Request` and one of `Listing`, `Completion`, `Reply`,
`Breaks`; `JudgeReplies` is the check that looks at finish reasons kept
earlier. `RouterClients` puts either of them beside the router; to it the other
is one of the other clients.

**Manifests, AgentModels, Presets.** A Hub file is its directory, its stem and
the part its name says it is; a pin is a small number. What a Hub card names as
the base model is a repository, nothing, or a text that `manifest.py:99` refuses.
`Draft`, `ReadsManifest`, `Agree` and `Merged` are the functions of the two source files; `PiMap`,
`PiShows` and `PiSends` (and their `Omp` counterparts) say what the lists
written by `agentmodels.py` make an agent send. `Presets` holds the files of
`config/` in one variable that a maintainer edits one file at a time; `Loads`,
`Validates`, `Waits` and `Requires` are the rules, `UpReads` to `Start` the lines
of `runtime.render` and what follows, with one step per file that is looked for
in the library (`LookFor`) and one per file written; `changed` is history, the
files that came or went since they were looked at. `Place` and `UserRemoves` change the library meanwhile.

**Settings, Launches.** A value is a sequence of words and a path the sequence of
its names. `Loaded` is `env.load` with its three layers, `Storage` the list of
`Settings.storage` with the rules each entry takes part in, `SubprocessEnv` what a
Compose call is given; `Over` is the laying of one layer over another that all of
them are built from. One behaviour of `Launches` is one command, for a command
keeps nothing of an earlier one; `Load` to `Run` are the calls of a session
start in their order, each of which follows the symbolic link of the tree as it
is then. The user moves that link, or leaves one where a directory was, before any step
up to the mount (`LeaveLink`; `left` is history, the step it came before). `project`, `roots` and
`required` hold what a start found at its checks (the project, the roots it was
looked for below, the skill sets); its later steps use them and do not look
again. `KeysAreAFile` is the check that the keys file is a regular file.

## 3. Runs

`tlc -config <run>.cfg <module>` with the module `PROJECT.json` names; states
are distinct ones.

| Run | Instance | States | Shows |
| --- | --- | --- | --- |
| `stack` | 2 `up`, 1 `down`, 1 check, 2 engines, 1 kill | 1.1 M | mutual exclusion; the port holds from its judgement to Compose; the record names a stack that is there and goes last; a check keeps its container |
| `stack_serial` | 1 `up`, 1 `down`, 1 `agent`, 1 engine, 2 configurations, dashboard, 1 kill or engine restart | 0.22 M | a label comes to tell another configuration in two ways and no third; every command ends |
| `stack_preflight` | 1 `up`, 1 `agent`, 2 configurations | violation | three reads that each pass on another generation |
| `readiness` | 2 presets, 5 polls, 3 grace polls, 1 exit | 0.73 M | the verdict of a smoke run is right both ways; the wait says "not loaded" for a reason; both end |
| `presets` | 2 presets, 2 model sets, 1 edit, 2 commands, 1 fault | 0.80 M | what a session is let start on is served and fits both lists; what is checked is rendered; what is offered is whole; a fetch places what is pinned; efforts are declared; a draft is read |
| `launches` | 2 deviations from the shipped tree, 1 link, 1 move of it | 1.9 M | Compose reads what the wrapper reads; what is mounted is what was judged, apart from everything else, with Git inside |
| `render` | 3 starts, 2 tags, 2 files beside the Dockerfile, 2 touches | 0.59 M | `AgentSetRender` implements `AtomicPlaces`; refusals only over what the user touched |
| `skills` | 2 fetches, 2 skills and a retired one, 2 faults, 1 edit | 0.98 M | `Skills` implements `AtomicPlaces`; a repeated fetch arrives |
| `skills_previous` | 1 fetch, 1 skill, 1 fault | violation | an interrupted swap, repeated and interrupted, leaves no copy |
| `library` | 2 fetches, 1 status, size 3, 3 edits at any moment, 3 faults | 0.11 M | stamps and findings go stale by edits only; only pinned files appear; bytes are kept; a fetch arrives |
| `live` | 2 threads, 2 presets, clock to 3 | 0.42 M | counters are asked of the preset listed last; a rate never overstates; a claim is given back |
| `ui` | 2 slots, 2 sets, 2 ports, 1 checkout, 1 provider or its container at a time | 2.7 M | only the named UI is replaced; the port holds; a pair is of one launch; a retry finds its names free; a stop is complete |

The type invariants are proved (section 4); `launches` checks its `TypeOK` too,
because it says of a settings value what the other properties of that run build
on.

**Disagreements with comments and documents.** `stack_preflight` and
`skills_previous` are findings; `PROJECT.json` quotes the lines. Eight more
statements of the repository do not hold of its code. Each is written down as a
property of its module, and TLC finds the violation under the configuration named
here (`<name>.cfg`, of the module's `MC` module) within a minute. These eight are
not among the runs of `PROJECT.json`; the runs above and the theorems say what
does hold.

| Configuration | Property | What happens | Against |
| --- | --- | --- | --- |
| `stack_label` | `LabelTellsContent` | a second `up` renders between the digest of the first and its Compose call (`runtime.py:115`); the container reads a file its label does not tell. `LabelGoesStaleByRenderOnly` is what holds | `compose.yaml:213` |
| `stack_forget` | `ForgottenStackIsGone` | with two engines, a `down` that chose its engine before it waited for the lock (`cli.py:356`) unlinks the record of the stack that was started on the other one meanwhile. `ForgetsLast` holds of the engine it chose | `runtime.py:143` |
| `stack_orphan` | `NoComposeDuringADown` | the Compose call of a killed `up` goes on without the flock (`engine.py:239`) and brings the container up while a `down` holds it | `engine.py:231` |
| `ui_unwind` | `UnwoundUiIsStopped` | the provider of an interrupted launch needs more than five seconds, or has created the container and not started it when `stop` comes (`session.py:312`): the UI runs on. `RetryFindsNamesFree` and `StopLeavesNothing` hold of the next commands | `session.py:359` |
| `skills_conflict` | `ConflictStays` | a link or a file that the user puts at a skill's place during the checkout, after the look (`skills.py:320`), is moved aside and removed like an outdated tree | `skills.py:321` |
| `library_stamp` | `StampTellsTruth` | a file that replaces another between the hash and the `stat` of `write_stamp` (`models/library.py:131`) gets a stamp of bytes nobody hashed. `StampsGoStaleByEditOnly` holds | `models/library.py:101` |
| `library_overwrite` | `NeverOverwrites` | a file that appears between the last look and `os.replace` (`models/download.py:168`) is replaced. `PublishesPinnedOnly` holds | `docs/models.md:330` |
| `presets_torn` | `AcceptedIsKnown` | an `up` that is interrupted between `models.ini` and the model lists (`presets.py:490`) leaves the list of an earlier render beside a container that does not know the preset. `AcceptedIsServed` holds after a whole render | `session.py:205` |

Two more hold under a condition that the properties or theorems state:

- two threads of the sampler: a sample is appended after its claim was given
  back, so samples may be out of order (`stats/live.py:137`). The rates do not
  depend on it.
- two checkouts: the unwind of an interrupted launch stops by name whatever
  bears it, which may be another checkout's UI (`docs/cli.md:484`). The theorems
  about UIs that need it assume one checkout.

**Bounds.** Two actors of a kind and one of the other show every pairwise race,
and the third slot shows what two do to one that waits; in `Ui` two slots, each
of which may launch or stop, show every pair. `MaxLate = 1` lets one provider at
a time outlive its client, or one container of such a provider stand; the next
may follow when that is gone. `stack_serial` has one `up` at a time and lets a
Compose call outlive it, so that a later render meets a digest on its way; that
two `up`s at once do no other harm to a label is proved. Two engines, sets,
ports, presets, tags or configurations tell "the same" from "another". One
kill suffices for an orphan to meet every later step; `MaxKills` counts kills
and engine restarts together. `Size = 3` has an empty, a partial, a complete and
an overlong part, and a resume in the middle. Three faults cover a cut transfer,
a garbled resume and a lost lock holder in one behaviour. `MaxTime = 3` with an
interval of 1 lets three scrapes follow each other, and a rate needs three
listings. `Ring = 1` makes the ring wrap on the second sample. `MaxTokens = 1`
bounds what is served, and a reset needs one token. `MaxTouches = 2` lets the
user break a directory and repair it. `Skills` takes two faults because a
leftover backup needs one and meeting it at the wrong moment the second.
`GracePolls = 3` is the code's value, and `Timeout = 5` leaves two polls beyond
it. `Presets` allows one edit after the shipped files, two commands (a fetch and
an `up`, or two `up`s) and one fault (an interrupt or a file the user removes);
the library starts with any subset of the files, so no fetch is needed to reach
one. `MaxOdd = 2` gives every pair of deviations (two lines of `.env`, a line and
a variable of the shell, a setting and a repository, ...), and every storage
rule relates two places. Where one of these bounds is an argument of a theorem,
it is arbitrary there.

**Fairness.** `Stack!LiveSpec`: weak fairness of each step but the wait for the
lock (an engine call returns, `wait_until_ready` has a deadline, and a step may
fail), and strong fairness of taking the lock, because the kernel wakes every
waiter of an flock when it is released. Agent sessions get none: how long one
lasts is its user's choice. `RouterClients!LiveSpec`: weak fairness of the
client's next step, because every request has a timeout and the wait a
deadline; the router gets none. `LiveSampler!LiveSpec`: weak fairness of a
thread that has begun, because each of its requests has a timeout.
`Library!LiveSpec`: weak fairness of some fetch's step, which says that the user
repeats the command while the file is missing; faults are finite.
`Skills!LiveSpec`: weak fairness of each fetch that has begun and of somebody
beginning again; the property asks in addition that from some time on only one
fetch runs, since two that keep overlapping may undo each other's swap.

## 4. Proofs

Every theorem is proved from the named assumptions of its module only, which
say that slots are disjoint, that `None` is none of the values, and the types of
the constants. Conditions beyond that are stated in the theorem.

- **StackProofs.** `Typed` is the type invariant with the order of steps that
  makes it hold: a label is a digest because `up` has one before Compose does.
  `Locked` says who is between an acquisition and a release holds the lock;
  exclusion follows, and on it rest the theorems about what the lock protects.
  `Kept` is inductive only with `StackStays` and `RemovedStays`: what Compose
  just made is there until it is recorded, and what a `down` removed stays away,
  as long as no orphan lands. `LabelStale` needs no bound on the `up`s and no
  quiet: its invariant is `Typed` alone, and its step is that, while
  `LabelsAgree`, every digest on its way is of the file that is there, so a
  container that starts reads what its label will say.
- **LiveSamplerProofs.** `Claimed` (who scrapes has the claim), `Settled` (who
  asks for counters asks for what was listed last) and `Accounted` (the counter
  of the active preset and the counters remembered are below the history by
  amounts that only grow apart at a reload) make `RateNeverOverstates`
  inductive.
- **SessionStartProofs.** About `Launches`: one invariant, whose parts are what
  each check of a start found and what every later step keeps of it.
  `LoadedOnce` says the settings are those `load` makes of the lines, the shell
  and some position of the link, and the keys file has no link on its way unless
  one was left there after the look; `ProjectJudged` that the project has none
  either, that the storage rules do
  not refuse it and that no repository lies above it below a root (`GitIsClear`);
  `KeysJudged`, `SkillsRequired` and `HomeJudged` say the same of the other
  checks, `EnvGiven` that an environment is `SubprocessEnv` of those settings,
  `Mounted` that the mounts are the `Sources`. A judged path stays where it is
  while the link moves because the link is not on its way (`Settled`), and each
  part about a place holds on the condition that no link was left since the last
  look at it (`left \notin PastTheLook[...]`), which the properties take over.
  `MountsStayApart` and `GitInsideTheMount` are then facts about prefixes: of
  two places that hold one path, one holds the other. `ComposeGivenSettings`
  is a case analysis over the layers a key may come from, and that a parsed list
  names each set once rests on the least position of a name in it. The
  assumptions about constants are facts of the shipped files: they set every key
  that is looked up, and neither a pin, nor the token, nor a key the wrapper
  sets itself; no link lies on the way to `config/agents`. About
  `AgentSetRender`: `UntouchedWhole` (a directory the user did not touch is
  empty or whole), `FoundSomething` (a start that goes to refuse has seen
  something there, which is whole unless touched), and the refinement, in which
  each step is one of `AtomicPlaces` or a stutter.
- **SkillsProofs.** `SwapAtomically` is the refinement, from the type invariant
  alone, whose last conjunct says that who is past `Verify` holds a pinned tree.
  `InPlace` follows: the agent finds a whole pinned tree or none where the user
  has not worked. `LosesStaleCopiesOnly` draws the line around
  the finding of `skills_previous`: while fetches do not overlap, no step loses
  the last whole copy of a skill but the removal of a leftover backup
  (`skills.py:341`); it rests on `SwapDone`, that who removes the copy of a swap
  has the pinned tree in place.
- **RouterClientsProofs.** `WaitInv` accounts for the load that was asked for: it
  is pending, or has been acted on and its preset is loading or loaded, or its
  server has ended. `FailsForAReason` and the single load request follow.
  `SmokeInv` says what the rows written so far show of the abilities; at the end
  of the checks it is `VerdictIsRight`.
- **PresetsProofs.** One invariant per question, stacked on `Reading` (what was
  read has the types of a configuration): `Vetting` gives `CheckedIsRendered`,
  `Merging` gives `PlacesWhatIsPinned`, the manifest's rules and `Looking` (which
  files of the preset in hand have been looked for, and what was found of each
  that has not changed since) give `OfferedIsWhole`, `Rendering` (what the three files have to do with one
  another at each step of the three writes) gives `AcceptedIsServed`, and from
  the two lemmas on how the maps send a level follows `EffortsAreDeclared`.
  `DraftIsRead` is about the operators of `Manifests` alone. The assumption that
  a split file of the Hub counts at least one part is used for the drafts only.
- **LibraryProofs.** `Base` is the types, the lock and what a fetch knows of its
  own staging directory, whatever the user does: with it no command ever puts
  anything but the pinned file at the destination (`PlacesPinned`). The user
  moves files at any moment in every theorem. With `Identities` (no identity is
  given twice), every step but an edit keeps `Looks`, which says that what each
  run found still holds when it acts (`FindingsHold`) and that the stamp tells the
  truth, and no edit breaks the latter by itself; that is `StampTrue`, and
  `PublishesPinned` follows. From where an edit has made a finding old they
  promise nothing, and TLC finds that `write_stamp`, which stats the file anew,
  and `os.replace`, which cannot refuse, go wrong there.
  `KeepsPinned` adds `OneDownload`: no part lies beside a download that is
  complete, and staging is removed only when the file is in place.
- **UiProofs.** `Control` says who holds which lock at which step, `Data` what
  the containers are and that what a command listed stays its checkout's; the
  type theorem, `LockIsInUse` and `RemovedByOwn` follow for any number of
  checkouts. The others
  assume one checkout, where `Serial` is inductive: what the holder of the lock
  judged and listed is all there is, but for the strays, and a stray is a
  container that a provider without a client has created or started. Any number
  of providers may be under way. With two checkouts they are false, as section 3
  says.

**Liveness** (`EveryCommandEnds`, `BothEnd`, `SamplerGoesOn`, and `FetchArrives`
of both fetches) is only model-checked: the provers reach neither fairness nor
ENABLED. What it rests on is proved as far as it can be said without them. A
held lock or claim is held by somebody at work under it (`LockIsInUse` of the
stack and of the UIs, `LockIsAFetchs`, `ClaimIsSomeones`), so no waiter waits
for nobody; and who works gets somewhere:
`NeverGoesBack` orders the lines of `up`, `down` and the sessions, and
`EveryStepCounts` bounds the steps of a wait and of a smoke run by a number that
each of them lowers. The violations of section 3 are model-checked, too.

## 5. What the models leave out

- A dashboard that Compose starts half-way counts as started; a real one may
  have one of its containers.
- A Compose call that is not cut off creates and starts a container in one step.
  In `Stack` a call that is cut off does, too, whenever it lands; in `Ui` it
  takes two. A session whose interrupt leaves its container running ends in
  `Stack` like one that was killed (`SessionKilled`).
- A user who removes containers by hand; other programs that take a port
  (a run that fails for any reason stands for them).
- `down` removes the UI containers too; `Stack` and `Ui` are checked apart, and
  `wait_for_ui`, which asks a port that may be another UI's by then
  (`uis.py:191`), only ends a launch.
- A selection of several model files is one file after the other in `Library`;
  what several sets together pin is in `Presets`. Path checks, redirects and the
  disk-space check are failures.
- A container that the engine starts again reads a file that may have changed
  (`RestartsItself`); it is the second of the two ways in
  `LabelGoesStaleByRenderOnly`.
- An interrupt between Compose and the record leaves a stack that runs and is
  not recorded. No document promises otherwise.
- `GET /metrics` of a preset that was just swapped out makes the router load it;
  `Metrics` models it and no property forbids it.
- `Presets` has one `up` at a time; what two do to each other is `Stack`'s
  subject, where a configuration is a model value. Sampling values and other
  preset keys on which no other one depends are left out, and so are licence
  rows, wording and URLs.
- `Launches` has one symbolic link, which may come to be where a directory was.
  What is replaced by a link after the last look at it is mounted where the link
  leads, for the code looks at the project and the keys file once; the properties
  say of each place until which step the check protects it (`PastTheLook`). What
  is replaced between the mount's resolution by the engine and its use is the
  engine's affair. One entry of `LLM_PROJECT_ROOTS` stands for the list, and the agents directory for the
  models and skills directories, which take part in the same rules. The link's
  target is neither below the link nor above it, and the link is not on the way
  to `config/agents`. The storage directories exist, so a keys file above one of
  them is a directory, and refused. The agents directory may lie below the
  configuration that is mounted, for `load` refuses only what is or contains the
  checkout (`env.py:388`); `MountsAreApart` does not exclude it. The grammar
  of a line, the syntax of pins and ports, and `require_isolated_networks` are
  refusals without a cause.
- The rows of the containment check are assertions of a script inside the
  container; `Stack` models the container they are asked in.

## 6. Not modelled

- **Metrics exporter and query gate** (`services/dashboard`): JavaScript in one
  event loop. Its rule of two listings is the sampler's, which is modelled and
  proved; what its overlapping requests add is not.
- **Command line**: the commands are the actions of the other modules, and the
  order of calls in them is taken from `cli.py`. The flag grammar has no state.
- **Doctor**: reads the host once and prints rows; it changes nothing, and no
  other part reads what it prints.
- **Pin checks**: lookups of upstream releases and comparisons of versions, over
  the network, without state.
- **Stats report and page**: tables made of finished transcripts; **bench**:
  arithmetic on timings.
- **Containers and entrypoints**: shell scripts that run once, and a relay of
  bytes.
