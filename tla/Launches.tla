------------------------------ MODULE Launches ------------------------------
(***************************************************************************)
(* One command of the wrapper, from its settings to what Compose is given  *)
(* (session.py, engine.compose): `up` and an agent start load the settings *)
(* once; a start resolves the project, checks the keys file, requires the  *)
(* skill sets, makes its mount points, and runs the container, while the   *)
(* user moves a link of the tree.  A command keeps nothing of an earlier   *)
(* one, so one command is a behaviour.                                     *)
(***************************************************************************)
EXTENDS Settings

CONSTANTS
    Lines,       \* the lines `.env` may hold
    Shell0, ShellKeys, \* the shell's variables, and those one command may add
    LinkTargets, \* where the link may point
    GitFacts,    \* [at, kind] of a `.git` in the tree
    Requests,    \* the directories a start may be asked for; "/" is one
    CompleteSets,\* the skill sets the catalog lists that are fetched and whole
    MaxOdd,      \* bound: lines, variables, repositories and bad modes beside the shipped tree
    MaxMoves     \* bound: moves of the link during the command

ASSUME LaunchesAssumption ==
    /\ \A line \in Lines \cup ShellKeys : line.value \in Seq(Words)
    /\ Shell0 \in [DOMAIN Shell0 -> Seq(Words)]
    /\ \A fact \in GitFacts : IsAbsolute(fact.at) /\ fact.kind \in {"dir", "file", "worktree"}
    \* A link into itself has no real path, and one to a place above it has no end.
    /\ \A target \in LinkTargets : IsAbsolute(target) /\ ~Within(target, LinkAt) /\ ~Within(LinkAt, target)
    /\ NoLink \notin LinkTargets
    /\ "pi" \in Words /\ \A dir \in Requests : IsAbsolute(dir)
    /\ MaxOdd \in Nat /\ MaxMoves \in Nat

VARIABLES
    lines, shell, \* `.env` and the environment of the command
    bared,     \* the credential files whose mode or owner is wrong
    git,       \* what is called `.git`, where
    link,      \* what is at LinkAt
    request,   \* the command: "up", or the directory a start asks for, and --cloud
    pc,        \* its next step
    settings,  \* what it loaded
    project,   \* the resolved project
    roots,     \* and the roots it was looked for below
    required,  \* the skill sets the pre-flight required, as parsed
    env,       \* the environment of its Compose call
    mounts,    \* what the start mounts, at the place each source is at
    moves,
    left       \* history: the step before which the user left a link, or "no"

command == <<settings, project, roots, required, env, mounts>>
tree == <<lines, shell, bared, git, request>>
moved == <<moves, left>>
vars == <<tree, link, pc, command, moved>>

NoSettings == [values |-> <<>>, file |-> <<>>, environ |-> <<>>, token |-> <<>>]

UntilMounted == {"load", "resolve", "keys", "require", "mountpoints", "run"}

\* What makes a tree differ from the shipped one, at most MaxOdd of it at a time.
Odd ==
    [what : {"line"}, is : Lines] \cup [what : {"variable"}, is : ShellKeys]
    \cup [what : {"git"}, is : GitFacts] \cup [what : {"bared"}, is : {".env", "keys"}]
Oddities == UNION {{Range(choice) : choice \in [1..n -> Odd]} : n \in 0..MaxOdd}
OfKind(odd, what) == {one.is : one \in {one \in odd : one.what = what}}

Init ==
    /\ \E odd \in Oddities :
          /\ lines = OfKind(odd, "line") /\ git = OfKind(odd, "git") /\ bared = OfKind(odd, "bared")
          /\ \A one, other \in git : one.at = other.at => one = other
          /\ Parses(OfKind(odd, "variable")) /\ shell = Over(Parsed(OfKind(odd, "variable")), Shell0)
    /\ link \in LinkTargets \cup {NoLink}
    /\ request \in [dir : Requests, cloud : BOOLEAN] \cup {[dir |-> <<>>, cloud |-> FALSE]}
    /\ pc = "load" /\ moves = 0 /\ left = "no"
    /\ settings = NoSettings /\ project = <<>> /\ roots = {} /\ required = <<>> /\ env = <<>> /\ mounts = {}

IsUp == request.dir = <<>>
Refuse == pc' = "refused" /\ UNCHANGED <<tree, link, command, moved>>

\* settings = load(root)
Load ==
    /\ pc = "load"
    /\ ".env" \notin bared /\ Loads(lines, shell, link)
    /\ settings' = Loaded(lines, shell, link)
    /\ pc' = IF IsUp THEN "up" ELSE "resolve"
    /\ UNCHANGED <<tree, link, project, roots, required, env, mounts, moved>>

LoadRefused == pc = "load" /\ (".env" \in bared \/ ~Loads(lines, shell, link)) /\ Refuse

\* `up`: Compose gets the settings with nothing beside them.
Up ==
    /\ pc = "up"
    /\ env' = SubprocessEnv(settings, <<>>)
    /\ pc' = "up done"
    /\ UNCHANGED <<tree, link, settings, project, roots, required, mounts, moved>>

\* The home directory and the entries of LLM_PROJECT_ROOTS (one here, which exists), real.
HomeRoots == IF "HOME" \in DOMAIN settings.environ THEN {Real(settings.environ["HOME"], link)} ELSE {}
NamedRoot == settings.values["LLM_PROJECT_ROOTS"]
Roots == HomeRoots \cup (IF NamedRoot = <<>> THEN {} ELSE {Real(NamedRoot, link)})

\* Variant: the walk to the roots looks at the project alone.
WalkProject(dir) == {dir}
\* The directories that are looked at for Git metadata, from the project upwards.
Walk(dir) ==
    {up \in {SubSeq(dir, 1, n) : n \in 1..Len(dir)} : ~\E root \in Roots : Within(dir, root) /\ Within(root, up)}

GitAt(dir) == {fact.kind : fact \in {fact \in git : fact.at = dir}}
GitOutside(dir) == "dir" \notin GitAt(dir) /\ \E up \in Walk(dir) : GitAt(up) # {}

\* Variant: only a project inside a storage place is refused.
RefusedInside(dir) == \E place \in Storage(settings.values) : "projects" \in place.rules /\ Within(dir, place.path)
RefusedByStorage(dir) ==
    \E place \in Storage(settings.values) :
        "projects" \in place.rules /\ (Within(dir, place.path) \/ Within(place.path, dir))

Resolves(dir) ==
    /\ dir # <<"/">> /\ Range(dir) \cap UnsafeNames = {}
    /\ ~RefusedByStorage(dir)
    /\ NamedRoot # <<>> => Head(NamedRoot) = "/"
    /\ dir \notin Roots /\ \E root \in Roots : Within(dir, root)
    /\ ~GitOutside(dir)

\* project = resolve_project_directory(settings, requested)
Resolve ==
    /\ pc = "resolve"
    /\ LET dir == Real(request.dir, link) IN Resolves(dir) /\ project' = dir
    /\ roots' = Roots
    /\ pc' = "keys"
    /\ UNCHANGED <<tree, link, settings, required, env, mounts, moved>>

ResolveRefused == pc = "resolve" /\ ~Resolves(Real(request.dir, link)) /\ Refuse

KeysFile == settings.values["LLM_CLOUD_KEYS_FILE"]

KeysLieInside ==
    \/ Within(KeysFile, project)
    \/ \E place \in Storage(settings.values) : "keys" \in place.rules /\ Within(KeysFile, place.path)

\* A regular file has nothing below it; these directories exist.
KeysAreAFile == \A place \in {ShippedConfig, settings.values["LLM_AGENTS_DIR"]} : ~Within(place, KeysFile)

KeysPass ==
    request.cloud =>
        KeysAreAFile /\ "keys" \notin bared /\ Range(KeysFile) \cap UnsafeNames = {} /\ ~KeysLieInside

\* keys = cloud_keys_file(settings, project) if cloud else None
CheckKeys ==
    /\ pc = "keys" /\ KeysPass
    /\ pc' = "require"
    /\ UNCHANGED <<tree, link, command, moved>>

KeysRefused == pc = "keys" /\ ~KeysPass /\ Refuse

\* A comma-separated list, each name once and in order: at the place where it first stands.
ParsedList(value) ==
    LET firsts == {n \in DOMAIN value : \A m \in 1..n - 1 : value[m] # value[n]} IN Restrict(value, firsts)

SkillSets == ParsedList(settings.values["LLM_SKILL_SETS"])

\* skill_sets = require_session_ready(...): the rest of it is Stack's and Presets'.
Require ==
    /\ pc = "require" /\ Range(SkillSets) \subseteq CompleteSets
    /\ required' = SkillSets
    /\ pc' = "mountpoints"
    /\ UNCHANGED <<tree, link, settings, project, roots, env, mounts, moved>>

RequireRefused == pc = "require" /\ ~(Range(SkillSets) \subseteq CompleteSets) /\ Refuse

AgentHome == settings.values["LLM_AGENTS_DIR"] \o <<"pi", Last(project)>>
HomeIsLinked == link # NoLink /\ Within(AgentHome, LinkAt)

\* prepare_mountpoints(home, agent)
PrepareMountpoints ==
    /\ pc = "mountpoints" /\ ~HomeIsLinked
    /\ pc' = "run"
    /\ UNCHANGED <<tree, link, command, moved>>

MountpointsRefused == pc = "mountpoints" /\ HomeIsLinked /\ Refuse

Sources ==
    [kind : {"project"}, path : {project}] \cup [kind : {"home"}, path : {AgentHome}]
    \cup [kind : {"config"}, path : {AgentConfig}]
    \cup (IF request.cloud THEN [kind : {"keys"}, path : {KeysFile}] ELSE {})

SessionVariables ==
    [LLM_AGENT_PROJECT_DIR |-> project, TOKENCRATE_AGENT_HOME |-> AgentHome, LLM_SKILL_SETS |-> required]

\* launch.run: the engine follows the links that are there when it mounts.
Run ==
    /\ pc = "run"
    /\ env' = SubprocessEnv(settings, SessionVariables)
    /\ mounts' = {[source EXCEPT !.path = Real(source.path, link)] : source \in Sources}
    /\ pc' = "running"
    /\ UNCHANGED <<tree, link, settings, project, roots, required, moved>>

\* The user points the link elsewhere at any time.
MoveLink ==
    /\ moves < MaxMoves /\ link # NoLink
    /\ link' \in LinkTargets \ {link}
    /\ moves' = moves + 1
    /\ UNCHANGED <<tree, pc, command, left>>

\* Or moves a directory elsewhere and leaves a link, before any step to the mount.
LeaveLink ==
    /\ moves < MaxMoves /\ link = NoLink /\ pc \in UntilMounted
    /\ link' \in LinkTargets
    /\ moves' = moves + 1 /\ left' = pc
    /\ UNCHANGED <<tree, pc, command>>

Next ==
    \/ Load \/ LoadRefused \/ Up \/ Resolve \/ ResolveRefused \/ CheckKeys \/ KeysRefused
    \/ Require \/ RequireRefused \/ PrepareMountpoints \/ MountpointsRefused \/ Run \/ MoveLink \/ LeaveLink

Spec == Init /\ [][Next]_vars
-----------------------------------------------------------------------------
\* Every value has its type; a loaded path is absolute, whichever directory the command runs in.
TypeOK ==
    /\ lines \subseteq Lines /\ git \subseteq GitFacts /\ bared \subseteq {".env", "keys"}
    /\ link \in LinkTargets \cup {NoLink} /\ moves \in 0..MaxMoves /\ left \in UntilMounted \cup {"no"}
    /\ pc \in {"load", "up", "up done", "resolve", "keys", "require", "mountpoints", "run", "running", "refused"}
    /\ settings # NoSettings => \A key \in PathKeys : Head(settings.values[key]) = "/"
    /\ pc \in {"keys", "require", "mountpoints", "run", "running"} => Head(project) = "/"
    /\ Range(required) \subseteq CompleteSets

\* Every key the wrapper defaults has for Compose the value the wrapper works with, whichever layers
\* set it; a pin has the value of pins.env; the container's user is the caller (subprocess_env).
ReadsWhatTheWrapperReads ==
    /\ \A key \in DOMAIN Example \ {"LLM_SKILL_SETS"} : ComposeReads(env, key) = settings.values[key]
    /\ \A key \in DOMAIN PinFile : ComposeReads(env, key) = PinFile[key]
    /\ ComposeReads(env, "HOST_UID") = Caller

\* The variables are the shell's and the settings that are documented: no pin, never the Hugging Face
\* token, and no key of `.env` that was reported as ignored (load, subprocess_env).
ExportsTheSettings ==
    DOMAIN env \ OwnKeys =
        (DOMAIN shell \cup DOMAIN Example \cup ({line.key : line \in lines} \cap DocumentedKeys))
            \ ({TokenKey} \cup DOMAIN PinFile \cup OwnKeys)

\* Every Compose call is given the settings the wrapper works with, all of them and nothing beside
\* them, whatever the shell, `.env` and the defaults say of a key.
ComposeIsGivenTheSettings == env # <<>> => ReadsWhatTheWrapperReads /\ ExportsTheSettings

\* The sets a session links are those the setting names, each once, and each was whole when the
\* pre-flight looked: the list that is checked is the one that is passed (require_skill_sets).
LinksWhatWasRequired ==
    LET linked == env["LLM_SKILL_SETS"]
    IN  /\ IsInjective(linked) /\ Range(linked) \subseteq CompleteSets
        /\ Range(linked) = Range(settings.values["LLM_SKILL_SETS"])

\* The steps after the last look at a place: the path of the keys file is resolved by `load` alone, the
\* project's by its own step, the home's by prepare_mountpoints; the configuration is in the checkout.
PastTheLook ==
    [keys |-> UntilMounted \ {"load"}, project |-> UntilMounted \ {"load", "resolve"}, home |-> {"run"},
     config |-> {}]

\* Of some places, those that no directory was replaced by a link for after the last look at them.
AsLookedAt(places) == {place \in places : left \notin PastTheLook[place.kind]}

\* What a session runs on is what the pre-flight has judged: the engine mounts the places the rules
\* were checked on, though a link of the tree moved between the check and the start (realpath in load
\* and in resolve_project_directory), or was left for a directory until the last look at it; and the
\* container links the skill sets that were looked at.
RunsWhatWasChecked ==
    pc = "running" => AsLookedAt(mounts) = AsLookedAt(Sources) /\ LinksWhatWasRequired

\* The project shares no directory with the checkout, the agents directory or the keys file, nothing
\* that is mounted holds the checkout, and a mounted keys file lies in nothing else a container reads.
\* (The agents directory may lie below the mounted configuration: `load` refuses only what holds the
\* checkout.)  Of the places that are as they were looked at.
MountsAreApart ==
    pc = "running" =>
        /\ \A one, other \in AsLookedAt(mounts) :
              one.kind # other.kind /\ {one.kind, other.kind} # {"home", "config"} => ~Within(one.path, other.path)
        /\ \A source \in AsLookedAt(mounts) :
              /\ source.kind # "keys" => ~Within(Root, source.path)
              /\ source.kind = "keys" => ~Within(source.path, settings.values["LLM_AGENTS_DIR"])
              /\ source.kind = "project" =>
                    /\ ~Within(source.path, Root) /\ ~Within(KeysFile, source.path)
                    /\ ~Within(settings.values["LLM_AGENTS_DIR"], source.path)

\* The repository Git finds from the mounted project, below the home directory or a project root, is
\* the project's own, whole inside the mount: no worktree, submodule or repository above it.
GitStaysInside ==
    pc = "running" =>
        \A source \in AsLookedAt(mounts) : source.kind = "project" =>
            LET owners == {fact \in git : Within(source.path, fact.at)}
                nearest == {fact \in owners : \A other \in owners : Len(other.at) <= Len(fact.at)}
            IN  \A fact \in nearest :
                  \/ \E root \in roots : Within(source.path, root) /\ Within(root, fact.at)
                  \/ fact.at = source.path /\ fact.kind = "dir"
==============================================================================
