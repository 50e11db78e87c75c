---------------------------- MODULE MCLaunches ------------------------------
\* A tree of two roots (the home /h and /srv), a checkout /h/tc, a project /h/p,
\* and one place, /h/l, that is a directory or a link.
EXTENDS Launches

H == <<"/", "h">>
MCWords == STRING
MCRoot == H \o <<"tc">>
MCLinkAt == H \o <<"l">>
MCNoLink == <<>>
MCCaller == <<"1000">>
MCUnsafeNames == {"a:b"}

MCExample ==
    [LLM_AGENTS_DIR |-> <<"data", "agents">>, LLM_CLOUD_KEYS_FILE |-> <<"local", "keys">>,
     LLM_PROJECT_ROOTS |-> <<>>, LLM_SKILL_SETS |-> <<"core">>, LLM_GPU |-> <<"true">>,
     UMASK |-> <<"0002">>, COMPOSE_PROJECT_NAME |-> <<"tokencrate">>]
MCCommented == {"GIT_AUTHOR_NAME", "HF_TOKEN"}
MCPinFile == [NODE_TAG |-> <<"26">>]

Settable ==
    [key : {"LLM_AGENTS_DIR"}, value : {<<>>, H, H \o <<"p", "agents">>, MCLinkAt \o <<"agents">>,
                                        MCRoot \o <<"config", "agents", "x">>}]
    \cup [key : {"LLM_CLOUD_KEYS_FILE"},
          value : {H, MCRoot \o <<"data", "agents", "keys">>, H \o <<"p", "keys">>, MCLinkAt \o <<"keys">>, H \o <<"a:b">>}]
    \cup [key : {"LLM_SKILL_SETS"}, value : {<<>>, <<"core", "core">>, <<"more", "core">>, <<"half">>}]
    \cup [key : {"UMASK", "GIT_AUTHOR_NAME", "NODE_TAG", "HF_TOKEN", "HOST_UID"}, value : {<<"x">>}]
    \cup [key : {"COMPOSE_PROJECT_NAME"}, value : {<<>>, <<"not", "one">>}]
MCLines ==
    Settable \cup [key : {""}, value : {<<>>}] \cup [key : {"LLM_GPU"}, value : {<<"maybe">>}]
    \cup [key : {"LLM_PROJECT_ROOTS"}, value : {<<"srv">>, <<"/", "srv">>, H \o <<"w">>}]
MCShell0 == [HOME |-> H]
MCShellKeys == Settable \cup [key : {"HOME"}, value : {<<"/", "root">>}] \cup [key : {"HF_TOKEN"}, value : {<<>>}]

MCLinkTargets == {MCRoot, H \o <<"w">>, H \o <<"p">>}
MCGitFacts == [at : {H, H \o <<"p">>, H \o <<"p", "sub">>}, kind : {"dir", "file", "worktree"}]
MCRequests ==
    {<<"/">>, H, H \o <<"p">>, H \o <<"p", "sub">>, H \o <<"w", "q">>, MCLinkAt \o <<"q">>, MCRoot \o <<"src">>,
     <<"/", "srv">>, <<"/", "srv", "q">>, H \o <<"a:b">>}
MCCompleteSets == {"core", "more"}
==============================================================================
