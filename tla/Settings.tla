------------------------------ MODULE Settings ------------------------------
(***************************************************************************)
(* Local settings (env.py): the shell over `.env` over `.env.example`, the *)
(* pins above all three, the real paths of the directories that settings   *)
(* name, and the environment handed to Compose.  A value is a sequence of  *)
(* words; a path is its names, and starts with "/" when it is absolute.    *)
(***************************************************************************)
EXTENDS SequencesExt

CONSTANTS
    Words,      \* what values and paths are made of
    Example,    \* the keys `.env.example` sets, with their values
    Commented,  \* the keys it only documents
    PinFile,    \* pins.env
    Root,       \* the real path of the checkout
    LinkAt,     \* the one place of the tree that may be a symbolic link
    NoLink,     \* and what it holds when it is a directory
    Caller,     \* the calling user, as HOST_UID
    UnsafeNames \* names with a character a mount argument cannot carry

TokenKey == "HF_TOKEN"
PathKeys == {"LLM_AGENTS_DIR", "LLM_CLOUD_KEYS_FILE"}
Within(path, place) == IsPrefix(place, path)
IsAbsolute(path) == path \in Seq(Words) /\ path # <<>> /\ Head(path) = "/"
Without(layer, keys) == Restrict(layer, DOMAIN layer \ keys)
\* The values of a layer, and those of the one below it where it has none.
Over(upper, lower) ==
    [key \in DOMAIN upper \cup DOMAIN lower |-> IF key \in DOMAIN upper THEN upper[key] ELSE lower[key]]

\* What the wrapper itself tells Compose; no file of the checkout sets these.
OwnKeys == {"TOKENCRATE_ROOT", "HOST_UID", "LLM_AGENT_PROJECT_DIR", "TOKENCRATE_AGENT_HOME"}
ShippedConfig == Root \o <<"config">>
AgentConfig == ShippedConfig \o <<"agents">>

\* The shipped files set what the wrapper looks up, and no key twice; the link
\* is not on the way to the configuration that sessions mount.
ASSUME SettingsAssumption ==
    /\ Example \in [DOMAIN Example -> Seq(Words)]
    /\ PathKeys \cup {"LLM_PROJECT_ROOTS", "LLM_SKILL_SETS", "LLM_GPU", "COMPOSE_PROJECT_NAME"} \subseteq DOMAIN Example
    /\ DOMAIN Example \cap (Commented \cup {TokenKey} \cup DOMAIN PinFile) = {}
    /\ OwnKeys \cap (DOMAIN Example \cup DOMAIN PinFile) = {}
    /\ {"config", "agents"} \subseteq Words
    /\ IsAbsolute(Root) /\ IsAbsolute(LinkAt) /\ ~Within(AgentConfig, LinkAt)

\* The file system's answer to realpath; a link's target is a real path.
Real(path, link) ==
    IF link # NoLink /\ Within(path, LinkAt) THEN link \o SubSeq(path, Len(LinkAt) + 1, Len(path)) ELSE path

\* A line is a key and a value; the key of a line that is refused is empty.
Parses(lines) == \A one, other \in lines : one.key # "" /\ (one.key = other.key => one = other)
Parsed(lines) == [key \in {line.key : line \in lines} |-> (CHOOSE line \in lines : line.key = key).value]

DocumentedKeys == DOMAIN Example \cup Commented

FileValues(lines) == LET file == Parsed(lines) IN Restrict(file, (DOMAIN file \cap DocumentedKeys) \ {TokenKey})
Environ(shell) == Without(shell, {TokenKey})
\* An empty token in the shell suppresses the file's.
TokenIn(lines, shell) ==
    LET layers == Over(shell, Parsed(lines)) IN IF TokenKey \in DOMAIN layers THEN layers[TokenKey] ELSE <<>>

Anchored(value) == IF Head(value) = "/" THEN value ELSE Root \o value
\* Variant: an absolute path is taken as it is written.
ResolvedAsWritten(value, link) == Anchored(value)
\* Variant: a relative path stays relative.
ResolvedWhereItRuns(value, link) == Real(value, link)
Resolved(value, link) == Real(Anchored(value), link)

Layered(lines, shell) == Over(Environ(shell), Over(FileValues(lines), Example))

EffectiveValues(layers, link) ==
    [key \in DOMAIN layers |->
        IF key \in PathKeys THEN Resolved(layers[key], link)
        ELSE IF key = "COMPOSE_PROJECT_NAME" /\ layers[key] = <<>> THEN Example[key]
        ELSE layers[key]]

\* The storage list: each path with the rules that apply to it.  The models and
\* skills directories have the rules of the agents directory, which stands for
\* them; the checkout's own directories that builds read stand below "config".
Storage(values) ==
    {[path |-> Root, rules |-> {"projects"}],
     [path |-> values["LLM_AGENTS_DIR"], rules |-> {"mounted", "projects", "keys"}],
     [path |-> ShippedConfig, rules |-> {"keys"}],
     [path |-> values["LLM_CLOUD_KEYS_FILE"], rules |-> {"projects"}]}

\* What `load` refuses, and the settings it returns.
Loads(lines, shell, link) ==
    LET layers == Layered(lines, shell)
        values == EffectiveValues(layers, link)
    IN  /\ Parses(lines)
        /\ Len(values["COMPOSE_PROJECT_NAME"]) = 1
        /\ \A key \in PathKeys : layers[key] # <<>>
        /\ values["LLM_GPU"] \in {<<"true">>, <<"false">>}
        /\ \A place \in Storage(values) : "mounted" \in place.rules => ~Within(Root, place.path)

Loaded(lines, shell, link) ==
    [values |-> EffectiveValues(Layered(lines, shell), link), file |-> FileValues(lines),
     environ |-> Environ(shell), token |-> TokenIn(lines, shell)]

Identity == [TOKENCRATE_ROOT |-> Root, HOST_UID |-> Caller]
\* Documented lines and the shell, without the pins.
Inherited(settings) == Without(Over(settings.environ, settings.file), DOMAIN PinFile)

\* Variant: a key that only the defaults set is left to Compose.
SubprocessEnvUnfilled(settings, extra) == Over(extra, Over(Identity, Inherited(settings)))
SubprocessEnv(settings, extra) ==
    Over(extra, Over(Identity, Over(Restrict(settings.values, DOMAIN Example), Inherited(settings))))

\* Compose itself: its environment, and pins.env (--env-file) where that is silent.
ComposeReads(env, key) ==
    IF key \in DOMAIN env THEN env[key] ELSE IF key \in DOMAIN PinFile THEN PinFile[key] ELSE <<>>
==============================================================================
