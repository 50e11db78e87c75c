---------------------------- MODULE AgentModels -----------------------------
(***************************************************************************)
(* How the two coding agents spell the efforts of a preset                 *)
(* (agentmodels.py), and what each of them then sends for a level its user *)
(* picks (external: pi and oh-my-pi, as the comments of the renderer       *)
(* describe them).  A thinking level is its position in                    *)
(* AGENT_THINKING_LEVELS; what may be null or left out is a set of at most *)
(* one level.                                                              *)
(***************************************************************************)
EXTENDS Integers

Off == 0
Thinking == 1 .. 6      \* minimal, low, medium, high, xhigh, max
Levels == {Off} \cup Thinking
NamedOnly == {5, 6}     \* pi lists xhigh and max only when the map names them

Lowest(levels) == CHOOSE l \in levels : \A k \in levels : l <= k
Highest(levels) == CHOOSE l \in levels : \A k \in levels : k <= l

\* An entry of the list, as `agent_models` builds it for both dialects.
SpeaksEfforts(entry) == entry.reasoning /\ entry.efforts # {}

\* `thinking_level_map` for pi: a level the template does not know is null.
PiMap(entry) ==
    [l \in {k \in Levels :
               \/ k = Off /\ ~entry.toggle
               \/ k \in Thinking \ entry.efforts
               \/ k \in NamedOnly \cap entry.efforts}
        |-> IF l \in entry.efforts THEN {l} ELSE {}]

\* The levels pi's picker lists.
PiShows(entry) ==
    {l \in Levels : IF l \in DOMAIN PiMap(entry) THEN PiMap(entry)[l] # {} ELSE l \notin NamedOnly}

\* `thinking.effort`, omitted when thinking is off.
PiSends(entry, level) ==
    IF level = Off THEN {} ELSE IF level \in DOMAIN PiMap(entry) THEN PiMap(entry)[level] ELSE {level}

\* `thinking_level_map` for oh-my-pi: the nearest effort above, or below.
OmpMap(entry) ==
    [l \in Thinking \ entry.efforts |->
        LET higher == {k \in entry.efforts : k > l}
        IN  IF higher # {} THEN Lowest(higher) ELSE Highest(entry.efforts)]

\* Variant: only the declared efforts are listed, so that oh-my-pi clamps
\* before the map applies.
OmpListsDeclared(entry) == entry.efforts

\* `thinking.efforts`: from the lowest declared to the highest.
OmpLists(entry) == Lowest(entry.efforts) .. Highest(entry.efforts)

OmpMapped(entry, level) == IF level \in DOMAIN OmpMap(entry) THEN OmpMap(entry)[level] ELSE level

\* oh-my-pi clamps a level it does not list to the nearest that it lists.
OmpClamped(entry, level) ==
    IF level \in OmpLists(entry) THEN level
    ELSE IF level < Lowest(OmpLists(entry)) THEN Lowest(OmpLists(entry))
    ELSE Highest({l \in OmpLists(entry) : l < level})

\* Off is sent as no thinking when the entry has the switch, and is clamped
\* like any level when it has none.
OmpSends(entry, level) ==
    IF level = Off /\ entry.toggle THEN {} ELSE {OmpMapped(entry, OmpClamped(entry, level))}

=============================================================================
