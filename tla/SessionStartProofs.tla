------------------------- MODULE SessionStartProofs -------------------------
(***************************************************************************)
(* Proofs about the start of a session.  Launches: whatever the layers of  *)
(* settings say, wherever the link points, however often it moves and      *)
(* however many repositories there are.  AgentSetRender: for every number  *)
(* of starts, selections and files.                                        *)
(***************************************************************************)
EXTENDS Launches, AgentSetRender, WellFoundedInduction, TLAPS

\* A path lies within a place when it begins with the names of the place.
LEMMA WithinElements ==
  ASSUME NEW path \in Seq(Words), NEW place \in Seq(Words)
  PROVE  Within(path, place) <=> Len(place) <= Len(path) /\ \A n \in 1..Len(place) : place[n] = path[n]
  BY DEF Within, IsPrefix

LEMMA WithinTransitive ==
  ASSUME NEW one \in Seq(Words), NEW two \in Seq(Words), NEW three \in Seq(Words),
         Within(one, two), Within(two, three)
  PROVE  Within(one, three)
  BY WithinElements

\* Of two places that hold one path, one holds the other.
LEMMA WithinComparable ==
  ASSUME NEW path \in Seq(Words), NEW one \in Seq(Words), NEW two \in Seq(Words),
         Within(path, one), Within(path, two)
  PROVE  Within(one, two) \/ Within(two, one)
  BY WithinElements

\* What is below a place lies within it, and the place does not lie within that.
LEMMA BelowIsWithin ==
  ASSUME NEW place \in Seq(Words), NEW rest \in Seq(Words)
  PROVE  /\ place \o rest \in Seq(Words)
         /\ Within(place \o rest, place)
         /\ rest # <<>> => ~Within(place, place \o rest)
<1> DEFINE below == place \o rest
<1>1. below \in Seq(Words) /\ Len(below) = Len(place) + Len(rest)
  OBVIOUS
<1>2. \A n \in 1..Len(place) : below[n] = place[n]
  OBVIOUS
<1>3. Len(place) \in Nat /\ Len(rest) \in Nat /\ (rest # <<>> => Len(rest) > 0)
  OBVIOUS
<1> HIDE DEF below
<1>4. Within(below, place)
  BY <1>1, <1>2, <1>3, WithinElements
<1>5. rest # <<>> => ~Within(place, below)
  BY <1>1, <1>3, WithinElements
<1> QED
  BY <1>1, <1>4, <1>5 DEF below

LEMMA WithinIsBeginning ==
  ASSUME NEW path \in Seq(Words), NEW place \in Seq(Words), Within(path, place)
  PROVE  place = SubSeq(path, 1, Len(place))
  BY WithinElements

LEMMA WithinMutually ==
  ASSUME NEW one \in Seq(Words), NEW two \in Seq(Words), Within(one, two), Len(one) <= Len(two)
  PROVE  one = two
  BY WithinElements

LEMMA AbsoluteBelow ==
  ASSUME NEW place, IsAbsolute(place), NEW rest \in Seq(Words)
  PROVE  IsAbsolute(place \o rest)
  BY DEF IsAbsolute

\* No way leads to the link: it is a directory, or the path is elsewhere.
Links == LinkTargets \cup {NoLink}
Settled(path, at) == at # NoLink => ~Within(path, LinkAt)

\* A real path is absolute and has no link on its way, and it is its own real path.
LEMMA RealIsSettled ==
  ASSUME NEW path, IsAbsolute(path), NEW at \in Links
  PROVE  IsAbsolute(Real(path, at)) /\ Settled(Real(path, at), at)
<1>1. CASE at # NoLink /\ Within(path, LinkAt)
  <2> DEFINE rest == SubSeq(path, Len(LinkAt) + 1, Len(path))
             real == at \o rest
  <2>1. rest \in Seq(Words)
    BY SettingsAssumption DEF IsAbsolute
  <2>2. IsAbsolute(at) /\ ~Within(at, LinkAt) /\ ~Within(LinkAt, at)
    BY <1>1, LaunchesAssumption DEF Links
  <2>3. Real(path, at) = real
    BY <1>1 DEF Real
  <2> HIDE DEF rest
  <2>4. IsAbsolute(real) /\ Within(real, at)
    BY <2>1, <2>2, AbsoluteBelow, BelowIsWithin DEF IsAbsolute
  <2> HIDE DEF real
  <2>5. ~Within(real, LinkAt)
    BY <2>2, <2>4, WithinComparable, SettingsAssumption DEF IsAbsolute
  <2> QED
    BY <2>3, <2>4, <2>5 DEF Settled
<1>2. CASE ~(at # NoLink /\ Within(path, LinkAt))
  BY <1>2 DEF Real, Settled
<1> QED
  BY <1>1, <1>2

LEMMA SettledIsReal ==
  ASSUME NEW path, NEW at, Settled(path, at)
  PROVE  Real(path, at) = path
  BY DEF Settled, Real

-----------------------------------------------------------------------------
\* A layer of settings gives each of its keys a value.
IsLayer(layer) == layer \in [DOMAIN layer -> Seq(Words)]

LEMMA OverIsLayer ==
  ASSUME NEW upper, NEW lower, IsLayer(upper), IsLayer(lower)
  PROVE  IsLayer(Over(upper, lower)) /\ DOMAIN Over(upper, lower) = DOMAIN upper \cup DOMAIN lower
  BY DEF IsLayer, Over

LEMMA RestrictIsLayer ==
  ASSUME NEW layer, IsLayer(layer), NEW keys, keys \subseteq DOMAIN layer
  PROVE  IsLayer(Restrict(layer, keys)) /\ DOMAIN Restrict(layer, keys) = keys
  BY DEF IsLayer, Restrict

LEMMA ParsedIsLayer ==
  ASSUME NEW some, \A line \in some : line.value \in Seq(Words)
  PROVE  IsLayer(Parsed(some)) /\ DOMAIN Parsed(some) = {line.key : line \in some}
<1>1. ASSUME NEW key \in {line.key : line \in some}
      PROVE  (CHOOSE line \in some : line.key = key).value \in Seq(Words)
  <2>1. \E line \in some : line.key = key
    OBVIOUS
  <2>2. (CHOOSE line \in some : line.key = key) \in some
    BY <2>1
  <2> QED
    BY <2>2
<1> QED
  BY <1>1 DEF IsLayer, Parsed

\* The layers `load` puts over one another, and which keys they have.
LEMMA LayersAreLayers ==
  ASSUME NEW some, some \subseteq Lines, NEW own, IsLayer(own)
  PROVE  /\ IsLayer(Environ(own)) /\ DOMAIN Environ(own) = DOMAIN own \ {TokenKey}
         /\ IsLayer(FileValues(some))
         /\ DOMAIN FileValues(some) = ({line.key : line \in some} \cap DocumentedKeys) \ {TokenKey}
         /\ IsLayer(Layered(some, own)) /\ DOMAIN Example \subseteq DOMAIN Layered(some, own)
<1>1. IsLayer(Environ(own)) /\ DOMAIN Environ(own) = DOMAIN own \ {TokenKey}
  BY RestrictIsLayer DEF Environ, Without
<1>2. IsLayer(Parsed(some)) /\ DOMAIN Parsed(some) = {line.key : line \in some}
  BY ParsedIsLayer, LaunchesAssumption
<1>3. /\ IsLayer(FileValues(some))
      /\ DOMAIN FileValues(some) = ({line.key : line \in some} \cap DocumentedKeys) \ {TokenKey}
  BY <1>2, RestrictIsLayer DEF FileValues
<1>4. IsLayer(Example)
  BY SettingsAssumption DEF IsLayer
<1>5. /\ IsLayer(Over(FileValues(some), Example))
      /\ DOMAIN Over(FileValues(some), Example) = DOMAIN FileValues(some) \cup DOMAIN Example
  BY <1>3, <1>4, OverIsLayer
<1> DEFINE files == Over(FileValues(some), Example)
           all == Over(Environ(own), files)
<1>6. IsLayer(files) /\ DOMAIN Example \subseteq DOMAIN files
  BY <1>5
<1> HIDE DEF files
<1>7. IsLayer(all) /\ DOMAIN all = DOMAIN Environ(own) \cup DOMAIN files
  BY <1>1, <1>6, OverIsLayer
<1>8. Layered(some, own) = all
  BY DEF Layered, files
<1> HIDE DEF all
<1>9. IsLayer(Layered(some, own)) /\ DOMAIN Example \subseteq DOMAIN Layered(some, own)
  BY <1>6, <1>7, <1>8
<1> QED
  BY <1>1, <1>3, <1>9

\* What `load` returns: every default has a value, and the paths are real.
LEMMA ValuesAreTyped ==
  ASSUME NEW some, some \subseteq Lines, NEW own, IsLayer(own), NEW at \in Links, Loads(some, own, at)
  PROVE  LET values == Loaded(some, own, at).values
         IN  /\ IsLayer(values) /\ DOMAIN Example \subseteq DOMAIN values
             /\ \A key \in PathKeys : IsAbsolute(values[key]) /\ Settled(values[key], at)
<1> DEFINE layers == Layered(some, own)
           values == EffectiveValues(layers, at)
<1>1. IsLayer(layers) /\ DOMAIN Example \subseteq DOMAIN layers
  BY LayersAreLayers
<1>2. \A key \in PathKeys : layers[key] # <<>>
  BY DEF Loads
<1> HIDE DEF layers
<1>3. ASSUME NEW key \in PathKeys
      PROVE  IsAbsolute(values[key]) /\ Settled(values[key], at) /\ values[key] \in Seq(Words)
  <2>1. key \in DOMAIN layers /\ layers[key] \in Seq(Words) /\ layers[key] # <<>>
    BY <1>1, <1>2, SettingsAssumption DEF IsLayer
  <2>2. IsAbsolute(Anchored(layers[key]))
    <3>1. CASE Head(layers[key]) = "/"
      BY <2>1, <3>1 DEF Anchored, IsAbsolute
    <3>2. CASE Head(layers[key]) # "/"
      BY <2>1, <3>2, AbsoluteBelow, SettingsAssumption DEF Anchored
    <3> QED
      BY <3>1, <3>2
  <2>3. values[key] = Real(Anchored(layers[key]), at)
    BY <2>1 DEF EffectiveValues, Resolved
  <2> QED
    BY <2>2, <2>3, RealIsSettled DEF IsAbsolute
<1>4. ASSUME NEW key \in DOMAIN layers PROVE values[key] \in Seq(Words)
  BY <1>1, <1>3, SettingsAssumption DEF EffectiveValues, IsLayer
<1>5. DOMAIN values = DOMAIN layers /\ IsLayer(values)
  BY <1>4 DEF EffectiveValues, IsLayer
<1>6. Loaded(some, own, at).values = values
  BY DEF Loaded, layers
<1> HIDE DEF values
<1> QED
  BY <1>1, <1>3, <1>5, <1>6

-----------------------------------------------------------------------------
\* The settings are what `load` returned over the link that was there.
HasLoaded == \E at \in Links : Loads(lines, shell, at) /\ settings = Loaded(lines, shell, at)

After(step) ==
    CASE step = "resolve" -> {"keys", "require", "mountpoints", "run", "running"}
      [] step = "keys" -> {"require", "mountpoints", "run", "running"}
      [] step = "require" -> {"mountpoints", "run", "running"}
      [] step = "mountpoints" -> {"run", "running"}
Steps == {"load", "up", "up done", "resolve", "refused"} \cup After("resolve")

TreeTyped ==
    /\ lines \subseteq Lines /\ IsLayer(shell) /\ git \subseteq GitFacts /\ bared \subseteq {".env", "keys"}
    /\ \A one, other \in git : one.at = other.at => one = other
    /\ request \in [dir : Requests \cup {<<>>}, cloud : BOOLEAN]
    /\ link \in Links /\ moves \in 0..MaxMoves /\ left \in UntilMounted \cup {"no"}
    /\ pc \in Steps /\ (pc = "resolve" => ~IsUp)

\* Every step but the first has settings, and the keys file has no link on its way but one that was left since.
LoadedOnce ==
    /\ pc = "load" => settings = NoSettings
    /\ settings # NoSettings \/ pc \notin {"load", "refused"} =>
          HasLoaded /\ (left \notin PastTheLook["keys"] => Settled(KeysFile, link))

\* Above the project there is no repository, up to a root.
GitIsClear ==
    \/ "dir" \in GitAt(project)
    \/ \A n \in 1..Len(project) :
          LET up == SubSeq(project, 1, n)
          IN  GitAt(up) = {} \/ \E root \in roots : Within(project, root) /\ Within(root, up)

\* What each check of a start has found out still holds at every later step.
ProjectJudged ==
    pc \in After("resolve") =>
        /\ IsAbsolute(project) /\ ~RefusedByStorage(project) /\ GitIsClear
        /\ left \notin PastTheLook["project"] => Settled(project, link)
KeysJudged == pc \in After("keys") => KeysPass
SkillsRequired == Range(required) \subseteq CompleteSets /\ (pc \in After("require") => required = SkillSets)
HomeJudged ==
    pc \in After("mountpoints") => (left \notin PastTheLook["home"] => Settled(AgentHome, link))

\* What Compose was given, and what it mounted.
EnvGiven ==
    env # <<>> =>
        /\ HasLoaded /\ pc \in {"up done", "running"}
        /\ env = SubprocessEnv(settings, <<>>) \/ env = SubprocessEnv(settings, SessionVariables)
Mounted ==
    pc = "running" =>
        env = SubprocessEnv(settings, SessionVariables) /\ AsLookedAt(mounts) = AsLookedAt(Sources)

Inv ==
    /\ TreeTyped /\ LoadedOnce /\ ProjectJudged /\ KeysJudged /\ SkillsRequired /\ HomeJudged
    /\ EnvGiven /\ Mounted

LEMMA SettingsAreTyped ==
  ASSUME TreeTyped, HasLoaded
  PROVE  /\ settings # NoSettings
         /\ IsLayer(settings.values) /\ DOMAIN Example \subseteq DOMAIN settings.values
         /\ \A key \in PathKeys : IsAbsolute(settings.values[key])
<1>1. PICK at \in Links : Loads(lines, shell, at) /\ settings = Loaded(lines, shell, at)
  BY DEF HasLoaded
<1>2. /\ IsLayer(settings.values) /\ DOMAIN Example \subseteq DOMAIN settings.values
      /\ \A key \in PathKeys : IsAbsolute(settings.values[key])
  BY <1>1, ValuesAreTyped DEF TreeTyped
<1>3. DOMAIN settings.values # {}
  BY <1>2, SettingsAssumption DEF PathKeys
<1>4. DOMAIN NoSettings.values = {}
  BY DEF NoSettings
<1> QED
  BY <1>2, <1>3, <1>4

LEMMA InitInv == Init => Inv
<1> SUFFICES ASSUME Init PROVE Inv
  OBVIOUS
<1>1. PICK odd \in Oddities :
        /\ lines = OfKind(odd, "line") /\ git = OfKind(odd, "git") /\ bared = OfKind(odd, "bared")
        /\ \A one, other \in git : one.at = other.at => one = other
        /\ shell = Over(Parsed(OfKind(odd, "variable")), Shell0)
  BY DEF Init
<1>2. odd \subseteq Odd
  BY DEF Oddities, Range
<1>3. /\ OfKind(odd, "line") \subseteq Lines /\ OfKind(odd, "git") \subseteq GitFacts
      /\ OfKind(odd, "bared") \subseteq {".env", "keys"} /\ OfKind(odd, "variable") \subseteq ShellKeys
  BY <1>2 DEF OfKind, Odd
<1>4. IsLayer(Parsed(OfKind(odd, "variable"))) /\ IsLayer(Shell0)
  BY <1>3, ParsedIsLayer, LaunchesAssumption DEF IsLayer
<1>5. IsLayer(shell)
  BY <1>1, <1>4, OverIsLayer
<1>6. request \in [dir : Requests \cup {<<>>}, cloud : BOOLEAN]
  <2>1. request \in [dir : Requests, cloud : BOOLEAN] \cup {[dir |-> <<>>, cloud |-> FALSE]}
    BY DEF Init
  <2>2. [dir |-> <<>>, cloud |-> FALSE] \in [dir : Requests \cup {<<>>}, cloud : BOOLEAN]
    OBVIOUS
  <2>3. [dir : Requests, cloud : BOOLEAN] \subseteq [dir : Requests \cup {<<>>}, cloud : BOOLEAN]
    OBVIOUS
  <2> QED
    BY <2>1, <2>2, <2>3
<1>7. link \in Links /\ moves \in 0..MaxMoves /\ left = "no" /\ pc \in Steps /\ (pc = "resolve" => ~IsUp)
  BY LaunchesAssumption DEF Init, Links, Steps
<1>8. TreeTyped
  BY <1>1, <1>3, <1>5, <1>6, <1>7 DEF TreeTyped
<1>9. ProjectJudged /\ KeysJudged /\ SkillsRequired /\ HomeJudged /\ LoadedOnce /\ EnvGiven /\ Mounted
  BY DEF Init, ProjectJudged, KeysJudged, SkillsRequired, HomeJudged, LoadedOnce, EnvGiven, Mounted, After, Range
<1> QED
  BY <1>8, <1>9 DEF Inv

-----------------------------------------------------------------------------
\* Which steps change what.
LEMMA WhoChanges ==
  ASSUME [Next]_vars
  PROVE  /\ UNCHANGED tree
         /\ Load \/ settings' = settings
         /\ Resolve \/ UNCHANGED <<project, roots>>
         /\ Require \/ required' = required
         /\ Up \/ Run \/ env' = env
         /\ Run \/ mounts' = mounts
         /\ MoveLink \/ LeaveLink \/ UNCHANGED <<link, moves>>
         /\ LeaveLink \/ left' = left
  BY DEF Next, vars, moved, tree, command, Refuse, Load, LoadRefused, Up, Resolve, ResolveRefused, CheckKeys, KeysRefused,
     Require, RequireRefused, PrepareMountpoints, MountpointsRefused, Run, MoveLink, LeaveLink

\* Which steps lead where.
LEMMA WhoLeads ==
  ASSUME [Next]_vars
  PROVE  /\ pc' \notin {"load", "refused"} => Load \/ pc \notin {"load", "refused"}
         /\ pc' \in After("resolve") => Resolve \/ pc \in After("resolve")
         /\ pc' \in After("keys") => CheckKeys \/ pc \in After("keys")
         /\ pc' \in After("require") => Require \/ pc \in After("require")
         /\ pc' \in After("mountpoints") => PrepareMountpoints \/ pc \in After("mountpoints")
         /\ pc' = "running" => Run \/ pc = "running"
  BY DEF Next, vars, moved, command, Refuse, Load, LoadRefused, Up, Resolve, ResolveRefused, CheckKeys, KeysRefused,
     Require, RequireRefused, PrepareMountpoints, MountpointsRefused, Run, MoveLink, LeaveLink, After

LEMMA TreeTypedStep == ASSUME Inv, [Next]_vars PROVE TreeTyped'
<1>1. UNCHANGED tree
  BY WhoChanges
<1>2. link' \in Links /\ moves' \in 0..MaxMoves /\ left' \in UntilMounted \cup {"no"}
  <2>1. link \in Links /\ moves \in 0..MaxMoves /\ left \in UntilMounted \cup {"no"}
    BY DEF Inv, TreeTyped
  <2>2. CASE MoveLink \/ LeaveLink
    BY <2>1, <2>2, LaunchesAssumption DEF MoveLink, LeaveLink, Links
  <2>3. CASE UNCHANGED <<link, moves, left>>
    BY <2>1, <2>3
  <2> QED
    BY <2>2, <2>3, WhoChanges
<1>3. pc' \in Steps /\ (pc' = "resolve" => ~IsUp)
  BY DEF Inv, TreeTyped, Next, vars, moved, command, Steps, After, Refuse, Load, LoadRefused, Up, Resolve, ResolveRefused,
     CheckKeys, KeysRefused, Require, RequireRefused, PrepareMountpoints, MountpointsRefused, Run, MoveLink, LeaveLink
<1> QED
  BY <1>1, <1>2, <1>3 DEF Inv, TreeTyped, tree, IsUp

\* A path that is off the link stays off it when the link is pointed elsewhere.
LEMMA MoveKeepsSettled ==
  ASSUME NEW path, MoveLink, Settled(path, link)
  PROVE  Settled(path, link')
  BY DEF MoveLink, Settled

LEMMA LoadedOnceStep == ASSUME Inv, [Next]_vars PROVE LoadedOnce'
<1>1. UNCHANGED <<lines, shell>>
  BY WhoChanges DEF tree
<1>2. ASSUME Load
      PROVE  (HasLoaded /\ (left \notin PastTheLook["keys"] => Settled(KeysFile, link)))'
  <2>1. link \in Links /\ Loads(lines, shell, link) /\ settings' = Loaded(lines, shell, link) /\ link' = link
    BY <1>2 DEF Load, Inv, TreeTyped
  <2>2. HasLoaded'
    BY <1>1, <2>1 DEF HasLoaded
  <2>3. Settled(Loaded(lines, shell, link).values["LLM_CLOUD_KEYS_FILE"], link)
    BY <2>1, ValuesAreTyped DEF Inv, TreeTyped, PathKeys
  <2> QED
    BY <2>1, <2>2, <2>3 DEF KeysFile
<1>3. ASSUME ~Load, settings' # NoSettings \/ pc' \notin {"load", "refused"}
      PROVE  (HasLoaded /\ (left \notin PastTheLook["keys"] => Settled(KeysFile, link)))'
  <2>1. settings' = settings /\ (settings # NoSettings \/ pc \notin {"load", "refused"})
    BY <1>3, WhoChanges, WhoLeads
  <2>2. HasLoaded /\ (left \notin PastTheLook["keys"] => Settled(KeysFile, link))
    BY <2>1 DEF Inv, LoadedOnce
  <2>3. HasLoaded'
    BY <1>1, <2>1, <2>2 DEF HasLoaded
  <2>4. settings # NoSettings
    BY <2>2, SettingsAreTyped DEF Inv
  <2>5. ASSUME left' \notin PastTheLook["keys"] PROVE Settled(KeysFile, link')
    <3>1. CASE MoveLink
      BY <2>2, <2>5, <3>1, MoveKeepsSettled DEF MoveLink
    <3>2. CASE LeaveLink
      <4>1. pc # "load"
        BY <2>4 DEF Inv, LoadedOnce
      <4> QED
        BY <2>5, <3>2, <4>1 DEF LeaveLink, PastTheLook
    <3>3. CASE UNCHANGED <<link, left>>
      BY <2>2, <2>5, <3>3
    <3> QED
      BY <3>1, <3>2, <3>3, WhoChanges
  <2> QED
    BY <2>1, <2>3, <2>5 DEF KeysFile
<1>4. pc' = "load" => settings' = NoSettings
  <2>1. pc' = "load" => pc = "load" /\ ~Load
    BY DEF Next, vars, moved, command, Refuse, Load, LoadRefused, Up, Resolve, ResolveRefused, CheckKeys, KeysRefused,
       Require, RequireRefused, PrepareMountpoints, MountpointsRefused, Run, MoveLink, LeaveLink
  <2> QED
    BY <2>1, WhoChanges DEF Inv, LoadedOnce
<1> QED
  BY <1>2, <1>3, <1>4 DEF LoadedOnce

LEMMA ProjectJudgedStep == ASSUME Inv, [Next]_vars PROVE ProjectJudged'
<1> SUFFICES ASSUME pc' \in After("resolve")
    PROVE  /\ (IsAbsolute(project) /\ ~RefusedByStorage(project) /\ GitIsClear)'
           /\ (left \notin PastTheLook["project"] => Settled(project, link))'
  BY DEF ProjectJudged
<1>1. CASE Resolve
  <2> DEFINE dir == Real(request.dir, link)
  <2>1. /\ Resolves(dir) /\ project' = dir /\ roots' = Roots
        /\ UNCHANGED <<link, settings, git>>
    BY <1>1 DEF Resolve, tree
  <2>2. IsAbsolute(dir) /\ Settled(dir, link)
    <3>1. request.dir \in Requests /\ link \in Links
      BY <1>1 DEF Resolve, Inv, TreeTyped, IsUp
    <3> QED
      BY <3>1, RealIsSettled, LaunchesAssumption
  <2> HIDE DEF dir
  <2>3. ~RefusedByStorage(dir) /\ ~GitOutside(dir)
    BY <2>1 DEF Resolves
  <2>4. (IsAbsolute(project) /\ Settled(project, link))'
    BY <2>1, <2>2 DEF Settled
  <2>5. (~RefusedByStorage(project))'
    BY <2>1, <2>3 DEF RefusedByStorage
  <2>6. GitIsClear'
    <3>1. CASE "dir" \in GitAt(dir)
      BY <2>1, <3>1 DEF GitIsClear, GitAt
    <3>2. CASE "dir" \notin GitAt(dir)
      <4>1. \A up \in Walk(dir) : GitAt(up) = {}
        BY <2>3, <3>2 DEF GitOutside
      <4>2. ASSUME NEW n \in 1..Len(dir)
            PROVE  LET up == SubSeq(dir, 1, n)
                   IN  GitAt(up) = {} \/ \E root \in Roots : Within(dir, root) /\ Within(root, up)
        BY <4>1 DEF Walk
      <4> QED
        BY <2>1, <4>2 DEF GitIsClear, GitAt
    <3> QED
      BY <3>1, <3>2
  <2> QED
    BY <2>4, <2>5, <2>6
<1>2. CASE ~Resolve
  <2>1. pc \in After("resolve") /\ UNCHANGED <<project, roots, git>>
    BY <1>2, WhoLeads, WhoChanges DEF tree
  <2>2. settings' = settings
    BY <2>1, WhoChanges DEF Load, After
  <2>3. /\ IsAbsolute(project) /\ ~RefusedByStorage(project) /\ GitIsClear
        /\ left \notin PastTheLook["project"] => Settled(project, link)
    BY <2>1 DEF Inv, ProjectJudged
  <2>4. ASSUME left' \notin PastTheLook["project"] PROVE Settled(project, link')
    <3>1. CASE MoveLink
      BY <2>3, <2>4, <3>1, MoveKeepsSettled DEF MoveLink
    <3>2. CASE LeaveLink
      BY <2>1, <2>4, <3>2 DEF LeaveLink, PastTheLook, UntilMounted, After
    <3>3. CASE UNCHANGED <<link, left>>
      BY <2>3, <2>4, <3>3
    <3> QED
      BY <3>1, <3>2, <3>3, WhoChanges
  <2>5. (~RefusedByStorage(project))'
    BY <2>1, <2>2, <2>3 DEF RefusedByStorage
  <2>6. GitIsClear'
    BY <2>1, <2>3 DEF GitIsClear, GitAt
  <2> QED
    BY <2>1, <2>3, <2>4, <2>5, <2>6
<1> QED
  BY <1>1, <1>2

LEMMA KeysJudgedStep == ASSUME Inv, [Next]_vars PROVE KeysJudged'
<1> SUFFICES ASSUME pc' \in After("keys") PROVE KeysPass'
  BY DEF KeysJudged
<1>1. KeysPass
  BY WhoLeads DEF Inv, KeysJudged, CheckKeys
<1>2. pc \in {"keys"} \cup After("keys")
  BY WhoLeads DEF CheckKeys
<1>3. UNCHANGED <<settings, project, request, bared>>
  BY <1>2, WhoChanges DEF After, Load, Resolve, tree
<1> QED
  BY <1>1, <1>3 DEF KeysPass, KeysAreAFile, KeysLieInside, KeysFile

LEMMA SkillsRequiredStep == ASSUME Inv, [Next]_vars PROVE SkillsRequired'
<1>1. CASE Require
  BY <1>1 DEF Require, SkillsRequired, SkillSets
<1>2. CASE ~Require
  <2>1. required' = required /\ (pc' \in After("require") => pc \in After("require"))
    BY <1>2, WhoChanges, WhoLeads
  <2>2. pc \in After("require") => settings' = settings
    BY WhoChanges DEF Load, After
  <2> QED
    BY <2>1, <2>2 DEF Inv, SkillsRequired, SkillSets
<1> QED
  BY <1>1, <1>2

LEMMA HomeJudgedStep == ASSUME Inv, [Next]_vars PROVE HomeJudged'
<1> SUFFICES ASSUME pc' \in After("mountpoints"), left' \notin PastTheLook["home"]
    PROVE  Settled(AgentHome, link)'
  BY DEF HomeJudged
<1>1. UNCHANGED <<settings, project>>
  BY WhoLeads, WhoChanges DEF After, Load, Resolve, PrepareMountpoints
<1>2. Settled(AgentHome, link')
  <2>1. CASE PrepareMountpoints
    BY <2>1 DEF PrepareMountpoints, HomeIsLinked, Settled
  <2>2. CASE ~PrepareMountpoints
    <3>1. pc \in After("mountpoints") /\ (left \notin PastTheLook["home"] => Settled(AgentHome, link))
      BY <2>2, WhoLeads DEF Inv, HomeJudged
    <3>2. CASE MoveLink
      BY <3>1, <3>2, MoveKeepsSettled DEF MoveLink
    <3>3. ~LeaveLink
      BY <3>1 DEF LeaveLink, UntilMounted, After, PastTheLook
    <3>4. CASE UNCHANGED <<link, left>>
      BY <3>1, <3>4
    <3> QED
      BY <3>2, <3>3, <3>4, WhoChanges
  <2> QED
    BY <2>1, <2>2
<1> QED
  BY <1>1, <1>2 DEF AgentHome

LEMMA EnvGivenStep == ASSUME Inv, [Next]_vars PROVE EnvGiven'
<1> SUFFICES ASSUME env' # <<>>
    PROVE  /\ (HasLoaded /\ pc \in {"up done", "running"})'
           /\ (env = SubprocessEnv(settings, <<>>) \/ env = SubprocessEnv(settings, SessionVariables))'
  BY DEF EnvGiven
<1>1. UNCHANGED <<lines, shell>>
  BY WhoChanges DEF tree
<1>2. CASE Up \/ Run
  <2>1. HasLoaded /\ UNCHANGED <<settings, project, required>>
    BY <1>2 DEF Up, Run, Inv, LoadedOnce
  <2>2. /\ pc' \in {"up done", "running"}
        /\ env' = SubprocessEnv(settings, <<>>) \/ env' = SubprocessEnv(settings, SessionVariables)
    BY <1>2 DEF Up, Run
  <2> QED
    BY <1>1, <2>1, <2>2 DEF HasLoaded, SubprocessEnv, Inherited, SessionVariables, AgentHome
<1>3. CASE ~(Up \/ Run)
  <2>1. env' = env
    BY <1>3, WhoChanges
  <2>2. /\ HasLoaded /\ pc \in {"up done", "running"}
        /\ env = SubprocessEnv(settings, <<>>) \/ env = SubprocessEnv(settings, SessionVariables)
    BY <2>1 DEF Inv, EnvGiven
  <2>3. pc' = pc /\ UNCHANGED <<settings, project, required>>
    BY <1>3, <2>2
    DEF Next, vars, moved, command, Refuse, Load, LoadRefused, Resolve, ResolveRefused, CheckKeys, KeysRefused, Require,
        RequireRefused, PrepareMountpoints, MountpointsRefused, MoveLink, LeaveLink
  <2> QED
    BY <1>1, <2>1, <2>2, <2>3 DEF HasLoaded, SubprocessEnv, Inherited, SessionVariables, AgentHome
<1> QED
  BY <1>2, <1>3

\* The engine finds at the mount every place where the last look at it has found it.
LEMMA RunMounts ==
  ASSUME Inv, Run
  PROVE  {mount \in mounts' : left \notin PastTheLook[mount.kind]} = AsLookedAt(Sources)
<1> DEFINE Found(source) == [source EXCEPT !.path = Real(source.path, link)]
<1>1. /\ HasLoaded /\ (left \notin PastTheLook["keys"] => Settled(KeysFile, link))
      /\ left \notin PastTheLook["project"] => Settled(project, link)
      /\ left \notin PastTheLook["home"] => Settled(AgentHome, link)
  BY DEF Run, Inv, LoadedOnce, ProjectJudged, HomeJudged, After
<1>2. Settled(AgentConfig, link)
  BY SettingsAssumption DEF Settled
<1>3. ASSUME NEW source \in Sources
      PROVE  Found(source).kind = source.kind
  BY DEF Sources
<1>4. ASSUME NEW source \in Sources, left \notin PastTheLook[source.kind]
      PROVE  Found(source) = source
  <2>1. \/ source.kind = "project" /\ source.path = project
        \/ source.kind = "home" /\ source.path = AgentHome
        \/ source.kind = "config" /\ source.path = AgentConfig
        \/ source.kind = "keys" /\ source.path = KeysFile
    BY DEF Sources
  <2>2. Settled(source.path, link)
    BY <1>1, <1>2, <1>4, <2>1
  <2>3. Real(source.path, link) = source.path
    BY <2>2, SettledIsReal
  <2> QED
    BY <2>3 DEF Sources
<1>5. mounts' = {Found(source) : source \in Sources}
  BY DEF Run
<1> HIDE DEF Found
<1> QED
  BY <1>3, <1>4, <1>5 DEF AsLookedAt

LEMMA MountedStep == ASSUME Inv, [Next]_vars PROVE Mounted'
<1> SUFFICES ASSUME pc' = "running"
    PROVE  (env = SubprocessEnv(settings, SessionVariables) /\ AsLookedAt(mounts) = AsLookedAt(Sources))'
  BY DEF Mounted
<1>1. UNCHANGED <<settings, project, required, request>>
  BY WhoLeads, WhoChanges DEF Run, Load, Resolve, Require, tree
<1>2. left' = left
  BY WhoLeads, WhoChanges DEF LeaveLink, UntilMounted, Run
<1>3. Sources' = Sources
  BY <1>1 DEF Sources, KeysFile, AgentHome
<1>4. env' = SubprocessEnv(settings, SessionVariables) /\ AsLookedAt(mounts)' = AsLookedAt(Sources)
  <2>1. CASE Run
    BY <1>2, <2>1, RunMounts DEF Run, AsLookedAt
  <2>2. CASE ~Run
    <3>1. pc = "running"
      BY <2>2, WhoLeads
    <3>2. UNCHANGED <<env, mounts>>
      BY <2>2, <3>1, WhoChanges DEF Up
    <3> QED
      BY <1>2, <3>1, <3>2 DEF Inv, Mounted, AsLookedAt
  <2> QED
    BY <2>1, <2>2
<1>5. AsLookedAt(Sources)' = AsLookedAt(Sources)
  BY <1>2, <1>3 DEF AsLookedAt
<1> QED
  BY <1>1, <1>4, <1>5 DEF AgentHome, SubprocessEnv, Inherited, SessionVariables

LEMMA StepInv == Inv /\ [Next]_vars => Inv'
  BY TreeTypedStep, LoadedOnceStep, ProjectJudgedStep, KeysJudgedStep, SkillsRequiredStep, HomeJudgedStep,
     EnvGivenStep, MountedStep DEF Inv

LEMMA AlwaysInv == Spec => []Inv
  BY InitInv, StepInv, PTL DEF Spec

-----------------------------------------------------------------------------
\* Every value has its type; a loaded path is absolute.
THEOREM LaunchTypeCorrect == Spec => []TypeOK
<1>1. Inv => TypeOK
  <2> SUFFICES ASSUME Inv PROVE TypeOK
    OBVIOUS
  <2>1. settings # NoSettings => \A key \in PathKeys : Head(settings.values[key]) = "/"
    BY SettingsAreTyped DEF Inv, LoadedOnce, IsAbsolute
  <2>2. pc \in {"keys", "require", "mountpoints", "run", "running"} => Head(project) = "/"
    BY DEF Inv, ProjectJudged, After, IsAbsolute
  <2> QED
    BY <2>1, <2>2 DEF Inv, TreeTyped, SkillsRequired, TypeOK, Links, Steps, After
<1> QED
  BY AlwaysInv, <1>1, PTL

-----------------------------------------------------------------------------
LEMMA LeastNatural ==
  ASSUME NEW some \in SUBSET Nat, some # {}
  PROVE  \E least \in some : \A other \in some : least <= other
<1>1. PICK least \in some : \A other \in some : <<other, least>> \notin OpToRel(<, Nat)
  BY WFMin, NatLessThanWellFounded, Zenon
<1>2. ASSUME NEW other \in some PROVE ~(other < least)
  BY <1>1, Zenon DEF OpToRel
<1> QED
  BY <1>2

\* The parsed list names what the setting names, and nothing twice.
LEMMA ParsedListNamesEachOnce ==
  ASSUME NEW value \in Seq(Words)
  PROVE  IsInjective(ParsedList(value)) /\ Range(ParsedList(value)) = Range(value)
<1> DEFINE firsts == {n \in DOMAIN value : \A m \in 1..n - 1 : value[m] # value[n]}
<1>1. DOMAIN value = 1..Len(value) /\ Len(value) \in Nat
  OBVIOUS
<1>2. ParsedList(value) = [n \in firsts |-> value[n]]
  BY DEF ParsedList, Restrict
<1>3. ASSUME NEW one \in firsts, NEW other \in firsts, value[one] = value[other]
      PROVE  one = other
  BY <1>1, <1>3
<1>4. ASSUME NEW n \in DOMAIN value PROVE \E first \in firsts : value[first] = value[n]
  <2> DEFINE same == {m \in DOMAIN value : value[m] = value[n]}
  <2>1. same \in SUBSET Nat /\ same # {}
    BY <1>1
  <2>2. PICK first \in same : \A other \in same : first <= other
    BY <2>1, LeastNatural
  <2>3. \A m \in 1..first - 1 : m \in DOMAIN value /\ m \notin same
    BY <1>1, <2>2
  <2>4. first \in firsts
    BY <2>2, <2>3
  <2> QED
    BY <2>2, <2>4
<1> HIDE DEF firsts
<1>5. IsInjective(ParsedList(value))
  BY <1>2, <1>3 DEF IsInjective
<1>6. firsts \subseteq DOMAIN value
  BY DEF firsts
<1>7. Range(ParsedList(value)) = Range(value)
  BY <1>2, <1>4, <1>6 DEF Range
<1> QED
  BY <1>5, <1>7

-----------------------------------------------------------------------------
\* What Compose is given of each key, and which keys it is given at all.
IsExtra(extra) == DOMAIN extra \subseteq {"LLM_AGENT_PROJECT_DIR", "TOKENCRATE_AGENT_HOME", "LLM_SKILL_SETS"}
HasDefaults(made) == DOMAIN Example \subseteq DOMAIN made.values
IsGiven(given, made, extra) ==
    /\ DOMAIN given = DOMAIN extra \cup {"TOKENCRATE_ROOT", "HOST_UID"} \cup DOMAIN Example
                        \cup ((DOMAIN made.environ \cup DOMAIN made.file) \ DOMAIN PinFile)
    /\ \A key \in DOMAIN extra : given[key] = extra[key]
    /\ \A key \in DOMAIN Example \ DOMAIN extra : given[key] = made.values[key]
    /\ given["HOST_UID"] = Caller

LEMMA SubprocessEnvValues ==
  ASSUME NEW made, NEW extra, IsExtra(extra), HasDefaults(made)
  PROVE  IsGiven(SubprocessEnv(made, extra), made, extra)
<1> DEFINE defaults == Restrict(made.values, DOMAIN Example)
           lowest == Over(defaults, Inherited(made))
           below == Over(Identity, lowest)
<1>1. DOMAIN Inherited(made) = (DOMAIN made.environ \cup DOMAIN made.file) \ DOMAIN PinFile
  BY DEF Inherited, Without, Over, Restrict
<1>2. DOMAIN defaults = DOMAIN Example /\ \A key \in DOMAIN Example : defaults[key] = made.values[key]
  BY DEF Restrict, HasDefaults
<1> HIDE DEF defaults
<1>3. /\ DOMAIN lowest = DOMAIN Example \cup DOMAIN Inherited(made)
      /\ \A key \in DOMAIN Example : lowest[key] = made.values[key]
  BY <1>2 DEF Over
<1> HIDE DEF lowest
<1>4. DOMAIN Identity = {"TOKENCRATE_ROOT", "HOST_UID"} /\ Identity["HOST_UID"] = Caller
  BY DEF Identity
<1>5. DOMAIN Identity \cap DOMAIN Example = {} /\ DOMAIN Identity \cap DOMAIN extra = {}
  BY <1>4, SettingsAssumption DEF OwnKeys, IsExtra
<1>6. /\ DOMAIN below = DOMAIN Identity \cup DOMAIN lowest
      /\ \A key \in DOMAIN Example : below[key] = made.values[key]
      /\ below["HOST_UID"] = Caller
  BY <1>3, <1>4, <1>5 DEF Over
<1> HIDE DEF below
<1>7. SubprocessEnv(made, extra) = Over(extra, below)
  BY DEF SubprocessEnv, below, lowest, defaults
<1>8. /\ DOMAIN Over(extra, below) = DOMAIN extra \cup DOMAIN below
      /\ \A key \in DOMAIN extra : Over(extra, below)[key] = extra[key]
      /\ \A key \in DOMAIN below \ DOMAIN extra : Over(extra, below)[key] = below[key]
  BY DEF Over
<1>9. DOMAIN below = {"TOKENCRATE_ROOT", "HOST_UID"} \cup DOMAIN Example
                        \cup ((DOMAIN made.environ \cup DOMAIN made.file) \ DOMAIN PinFile)
  BY <1>1, <1>3, <1>4, <1>6
<1>10. \A key \in DOMAIN Example \ DOMAIN extra : Over(extra, below)[key] = made.values[key]
  BY <1>6, <1>8, <1>9
<1>11. Over(extra, below)["HOST_UID"] = Caller
  BY <1>4, <1>5, <1>6, <1>8, <1>9
<1> QED
  BY <1>7, <1>8, <1>9, <1>10, <1>11 DEF IsGiven

LEMMA EnvIsTheSettings == Inv => ComposeIsGivenTheSettings
<1> SUFFICES ASSUME Inv, env # <<>> PROVE ReadsWhatTheWrapperReads /\ ExportsTheSettings
  BY DEF ComposeIsGivenTheSettings
<1>1. HasLoaded /\ (env = SubprocessEnv(settings, <<>>) \/ env = SubprocessEnv(settings, SessionVariables))
  BY DEF Inv, EnvGiven
<1>2. /\ settings.environ = Environ(shell) /\ settings.file = FileValues(lines)
      /\ DOMAIN Example \subseteq DOMAIN settings.values
  BY <1>1, SettingsAreTyped DEF Inv, HasLoaded, Loaded
<1>3. PICK extra : /\ env = SubprocessEnv(settings, extra)
                   /\ DOMAIN extra \subseteq {"LLM_AGENT_PROJECT_DIR", "TOKENCRATE_AGENT_HOME", "LLM_SKILL_SETS"}
  <2>1. DOMAIN <<>> = {}
    OBVIOUS
  <2>2. DOMAIN SessionVariables = {"LLM_AGENT_PROJECT_DIR", "TOKENCRATE_AGENT_HOME", "LLM_SKILL_SETS"}
    BY DEF SessionVariables
  <2> QED
    BY <1>1, <2>1, <2>2
<1>4. IsExtra(extra) /\ HasDefaults(settings)
  BY <1>2, <1>3 DEF IsExtra, HasDefaults
<1>5. IsGiven(env, settings, extra)
  BY <1>3, <1>4, SubprocessEnvValues
<1>6. /\ DOMAIN settings.environ = DOMAIN shell \ {TokenKey}
      /\ DOMAIN settings.file = ({line.key : line \in lines} \cap DocumentedKeys) \ {TokenKey}
  BY <1>2, LayersAreLayers DEF Inv, TreeTyped
<1>7. "LLM_SKILL_SETS" \in DOMAIN Example
  BY SettingsAssumption
<1>8. ReadsWhatTheWrapperReads
  <2>1. ASSUME NEW key \in DOMAIN Example \ {"LLM_SKILL_SETS"} PROVE ComposeReads(env, key) = settings.values[key]
    <3>1. key \notin DOMAIN extra
      BY <1>3, SettingsAssumption DEF OwnKeys
    <3> QED
      BY <1>5, <3>1 DEF ComposeReads, IsGiven
  <2>2. ASSUME NEW key \in DOMAIN PinFile PROVE ComposeReads(env, key) = PinFile[key]
    <3>1. key \notin DOMAIN Example /\ key \notin OwnKeys
      BY SettingsAssumption
    <3>2. key \notin DOMAIN env
      BY <1>3, <1>5, <1>7, <3>1 DEF OwnKeys, IsGiven
    <3> QED
      BY <3>2 DEF ComposeReads
  <2>3. ComposeReads(env, "HOST_UID") = Caller
    BY <1>5 DEF ComposeReads, IsGiven
  <2> QED
    BY <2>1, <2>2, <2>3 DEF ReadsWhatTheWrapperReads
<1>9. ExportsTheSettings
  <2>1. DOMAIN Example \cap ({TokenKey} \cup DOMAIN PinFile \cup OwnKeys) = {}
    BY SettingsAssumption
  <2>2. /\ DOMAIN extra \subseteq OwnKeys \cup DOMAIN Example
        /\ {"TOKENCRATE_ROOT", "HOST_UID"} \subseteq OwnKeys
    BY <1>3, <1>7 DEF OwnKeys
  <2> QED
    BY <1>5, <1>6, <2>1, <2>2 DEF ExportsTheSettings, IsGiven
<1> QED
  BY <1>8, <1>9

\* Every Compose call is given the settings the wrapper works with, all of them and nothing
\* beside them, whatever the shell, `.env` and the defaults say.
THEOREM ComposeGivenSettings == Spec => []ComposeIsGivenTheSettings
  BY AlwaysInv, EnvIsTheSettings, PTL

LEMMA RunsTheJudged == Inv => RunsWhatWasChecked
<1> SUFFICES ASSUME Inv, pc = "running"
    PROVE  AsLookedAt(mounts) = AsLookedAt(Sources) /\ LinksWhatWasRequired
  BY DEF RunsWhatWasChecked
<1>1. env = SubprocessEnv(settings, SessionVariables) /\ AsLookedAt(mounts) = AsLookedAt(Sources)
  BY DEF Inv, Mounted
<1>2. HasLoaded /\ required = SkillSets /\ Range(required) \subseteq CompleteSets
  BY DEF Inv, LoadedOnce, SkillsRequired, After
<1>3. /\ DOMAIN Example \subseteq DOMAIN settings.values
      /\ settings.values["LLM_SKILL_SETS"] \in Seq(Words)
  BY <1>2, SettingsAreTyped, SettingsAssumption DEF Inv, IsLayer
<1>4. IsExtra(SessionVariables) /\ HasDefaults(settings)
  BY <1>3 DEF SessionVariables, IsExtra, HasDefaults
<1>5. env["LLM_SKILL_SETS"] = required
  <2>1. IsGiven(env, settings, SessionVariables)
    BY <1>1, <1>4, SubprocessEnvValues
  <2>2. "LLM_SKILL_SETS" \in DOMAIN SessionVariables /\ SessionVariables["LLM_SKILL_SETS"] = required
    BY DEF SessionVariables
  <2> QED
    BY <2>1, <2>2 DEF IsGiven
<1>6. IsInjective(required) /\ Range(required) = Range(settings.values["LLM_SKILL_SETS"])
  BY <1>2, <1>3, ParsedListNamesEachOnce DEF SkillSets
<1> QED
  BY <1>1, <1>2, <1>5, <1>6 DEF LinksWhatWasRequired

\* A session mounts the places its checks judged, and links the skill sets they looked at.
THEOREM RunsJudged == Spec => []RunsWhatWasChecked
  BY AlwaysInv, RunsTheJudged, PTL

-----------------------------------------------------------------------------
\* Neither path lies within the other.
Apart(one, other) == ~Within(one, other) /\ ~Within(other, one)

\* What is apart from a place is apart from everything below it.
LEMMA ApartFromBelow ==
  ASSUME NEW path \in Seq(Words), NEW place \in Seq(Words), NEW below \in Seq(Words),
         Within(below, place), Apart(path, place)
  PROVE  Apart(path, below)
  BY WithinTransitive, WithinComparable DEF Apart

\* What the checks of a start have judged of the places it mounts.
LEMMA SourcesAreApart ==
  ASSUME Inv, pc = "running"
  PROVE  LET agents == settings.values["LLM_AGENTS_DIR"]
         IN  /\ Apart(project, Root) /\ Apart(project, agents) /\ Apart(project, KeysFile)
             /\ ~Within(Root, agents)
             /\ request.cloud => Apart(KeysFile, agents) /\ Apart(KeysFile, ShippedConfig)
<1> DEFINE agents == settings.values["LLM_AGENTS_DIR"]
<1>1. HasLoaded /\ ~RefusedByStorage(project) /\ KeysPass
  BY DEF Inv, LoadedOnce, ProjectJudged, KeysJudged, After
<1>2. /\ [path |-> Root, rules |-> {"projects"}] \in Storage(settings.values)
      /\ [path |-> agents, rules |-> {"mounted", "projects", "keys"}] \in Storage(settings.values)
      /\ [path |-> ShippedConfig, rules |-> {"keys"}] \in Storage(settings.values)
      /\ [path |-> KeysFile, rules |-> {"projects"}] \in Storage(settings.values)
  BY DEF Storage, KeysFile
<1> HIDE DEF agents
<1>3. Apart(project, Root) /\ Apart(project, agents) /\ Apart(project, KeysFile)
  BY <1>1, <1>2 DEF RefusedByStorage, Apart
<1>4. ~Within(Root, agents)
  <2>1. PICK at \in Links : Loads(lines, shell, at) /\ settings = Loaded(lines, shell, at)
    BY <1>1 DEF HasLoaded
  <2>2. \A place \in Storage(settings.values) : "mounted" \in place.rules => ~Within(Root, place.path)
    BY <2>1 DEF Loads, Loaded
  <2> QED
    BY <1>2, <2>2
<1>5. ASSUME request.cloud PROVE Apart(KeysFile, agents) /\ Apart(KeysFile, ShippedConfig)
  <2>1. KeysAreAFile /\ ~KeysLieInside
    BY <1>1, <1>5 DEF KeysPass
  <2>2. ~Within(KeysFile, agents) /\ ~Within(KeysFile, ShippedConfig)
    BY <1>2, <2>1 DEF KeysLieInside
  <2>3. ~Within(agents, KeysFile) /\ ~Within(ShippedConfig, KeysFile)
    BY <2>1 DEF KeysAreAFile, agents
  <2> QED
    BY <2>2, <2>3 DEF Apart
<1> QED
  BY <1>3, <1>4, <1>5 DEF agents

LEMMA PlacesAreBelow ==
  ASSUME Inv, pc = "running"
  PROVE  LET agents == settings.values["LLM_AGENTS_DIR"]
         IN  /\ project \in Seq(Words) /\ KeysFile \in Seq(Words) /\ agents \in Seq(Words)
             /\ Root \in Seq(Words) /\ ShippedConfig \in Seq(Words)
             /\ AgentHome \in Seq(Words) /\ Within(AgentHome, agents)
             /\ AgentConfig \in Seq(Words) /\ Within(AgentConfig, ShippedConfig)
             /\ Within(AgentConfig, Root) /\ ~Within(Root, AgentConfig)
<1> DEFINE agents == settings.values["LLM_AGENTS_DIR"]
<1>1. HasLoaded /\ IsAbsolute(project)
  BY DEF Inv, LoadedOnce, ProjectJudged, After
<1>2. agents \in Seq(Words) /\ KeysFile \in Seq(Words)
  BY <1>1, SettingsAreTyped DEF Inv, KeysFile, PathKeys, IsAbsolute
<1>3. project \in Seq(Words) /\ Last(project) \in Words
  BY <1>1 DEF IsAbsolute, Last
<1>4. AgentHome \in Seq(Words) /\ Within(AgentHome, agents)
  <2> DEFINE rest == <<"pi", Last(project)>>
  <2>1. rest \in Seq(Words)
    BY <1>3, LaunchesAssumption
  <2>2. AgentHome = agents \o rest
    BY DEF AgentHome
  <2> HIDE DEF rest
  <2>3. agents \o rest \in Seq(Words) /\ Within(agents \o rest, agents)
    BY <1>2, <2>1, BelowIsWithin, Zenon
  <2> QED
    BY <2>2, <2>3
<1>5. Root \in Seq(Words)
  BY SettingsAssumption DEF IsAbsolute
<1>6. ShippedConfig \in Seq(Words) /\ Within(ShippedConfig, Root) /\ ~Within(Root, ShippedConfig)
  <2> DEFINE rest == <<"config">>
  <2>1. rest \in Seq(Words) /\ rest # <<>>
    BY SettingsAssumption
  <2>2. ShippedConfig = Root \o rest
    BY DEF ShippedConfig
  <2> HIDE DEF rest
  <2>3. Root \o rest \in Seq(Words) /\ Within(Root \o rest, Root) /\ ~Within(Root, Root \o rest)
    BY <1>5, <2>1, BelowIsWithin, Zenon
  <2> QED
    BY <2>2, <2>3
<1>7. AgentConfig \in Seq(Words) /\ Within(AgentConfig, ShippedConfig)
  <2> DEFINE rest == <<"agents">>
  <2>1. rest \in Seq(Words) /\ rest # <<>>
    BY SettingsAssumption
  <2>2. AgentConfig = ShippedConfig \o rest
    BY DEF AgentConfig
  <2> HIDE DEF rest
  <2>3. ShippedConfig \o rest \in Seq(Words) /\ Within(ShippedConfig \o rest, ShippedConfig) /\ ~Within(ShippedConfig, ShippedConfig \o rest)
    BY <1>6, <2>1, BelowIsWithin, Zenon
  <2> QED
    BY <2>2, <2>3
<1>8. Within(AgentConfig, Root) /\ ~Within(Root, AgentConfig)
  BY <1>5, <1>6, <1>7, WithinTransitive
<1> QED
  BY <1>2, <1>3, <1>4, <1>5, <1>6, <1>7, <1>8

LEMMA MountsApart == Inv => MountsAreApart
<1> SUFFICES ASSUME Inv, pc = "running"
    PROVE  /\ \A one, other \in AsLookedAt(mounts) :
                 one.kind # other.kind /\ {one.kind, other.kind} # {"home", "config"} => ~Within(one.path, other.path)
           /\ \A source \in AsLookedAt(mounts) :
                 /\ source.kind # "keys" => ~Within(Root, source.path)
                 /\ source.kind = "keys" => ~Within(source.path, settings.values["LLM_AGENTS_DIR"])
                 /\ source.kind = "project" =>
                       /\ ~Within(source.path, Root) /\ ~Within(KeysFile, source.path)
                       /\ ~Within(settings.values["LLM_AGENTS_DIR"], source.path)
  BY DEF MountsAreApart
<1> DEFINE agents == settings.values["LLM_AGENTS_DIR"]
<1>1. AsLookedAt(mounts) \subseteq Sources
  BY DEF Inv, Mounted, AsLookedAt
<1>2. /\ Apart(project, Root) /\ Apart(project, agents) /\ Apart(project, KeysFile)
      /\ ~Within(Root, agents)
      /\ request.cloud => Apart(KeysFile, agents) /\ Apart(KeysFile, ShippedConfig)
  BY SourcesAreApart
<1>3. /\ project \in Seq(Words) /\ KeysFile \in Seq(Words) /\ agents \in Seq(Words)
      /\ Root \in Seq(Words) /\ ShippedConfig \in Seq(Words)
      /\ AgentHome \in Seq(Words) /\ Within(AgentHome, agents)
      /\ AgentConfig \in Seq(Words) /\ Within(AgentConfig, ShippedConfig)
      /\ Within(AgentConfig, Root) /\ ~Within(Root, AgentConfig)
  BY PlacesAreBelow
<1> HIDE DEF agents
<1>4. Apart(project, AgentHome) /\ Apart(project, AgentConfig)
  BY <1>2, <1>3, ApartFromBelow
<1>5. request.cloud => Apart(KeysFile, AgentHome) /\ Apart(KeysFile, AgentConfig)
  BY <1>2, <1>3, ApartFromBelow
<1>6. ~Within(Root, AgentHome)
  BY <1>2, <1>3, WithinComparable, WithinTransitive
<1>7. ASSUME NEW source \in Sources
      PROVE  \/ source.kind = "project" /\ source.path = project
             \/ source.kind = "home" /\ source.path = AgentHome
             \/ source.kind = "config" /\ source.path = AgentConfig
             \/ source.kind = "keys" /\ source.path = KeysFile /\ request.cloud
  BY DEF Sources
<1>8. ASSUME NEW one \in Sources, NEW other \in Sources,
             one.kind # other.kind, {one.kind, other.kind} # {"home", "config"}
      PROVE  ~Within(one.path, other.path)
  BY <1>2, <1>4, <1>5, <1>7, <1>8 DEF Apart
<1>9. ASSUME NEW source \in Sources
      PROVE  /\ source.kind # "keys" => ~Within(Root, source.path)
             /\ source.kind = "keys" => ~Within(source.path, agents)
             /\ source.kind = "project" =>
                   ~Within(source.path, Root) /\ ~Within(KeysFile, source.path) /\ ~Within(agents, source.path)
  BY <1>2, <1>3, <1>6, <1>7 DEF Apart
<1> QED
  BY <1>1, <1>8, <1>9 DEF agents

\* What a session mounts is apart: the project from all of the wrapper's, the keys from what is read.
THEOREM MountsStayApart == Spec => []MountsAreApart
  BY AlwaysInv, MountsApart, PTL

-----------------------------------------------------------------------------
LEMMA GitInside == Inv => GitStaysInside
<1>0. ASSUME pc = "running", Inv, NEW source \in AsLookedAt(mounts), source.kind = "project"
      PROVE  source.path = project
  BY <1>0 DEF Inv, Mounted, AsLookedAt, Sources
<1> SUFFICES ASSUME Inv, pc = "running",
                    NEW fact \in git, Within(project, fact.at),
                    \A other \in git : Within(project, other.at) => Len(other.at) <= Len(fact.at)
    PROVE  \/ \E root \in roots : Within(project, root) /\ Within(root, fact.at)
           \/ fact.at = project /\ fact.kind = "dir"
  BY <1>0 DEF GitStaysInside
<1>1. IsAbsolute(project) /\ GitIsClear
  BY DEF Inv, ProjectJudged, After
<1>2. IsAbsolute(fact.at)
  BY LaunchesAssumption DEF Inv, TreeTyped
<1>3. CASE "dir" \in GitAt(project)
  <2>1. PICK own \in git : own.at = project /\ own.kind = "dir"
    BY <1>3 DEF GitAt
  <2>2. Len(project) <= Len(fact.at)
    <3>1. Within(project, project)
      BY <1>1, WithinElements DEF IsAbsolute
    <3> QED
      BY <2>1, <3>1
  <2>3. fact.at = project
    BY <1>1, <1>2, <2>2, WithinMutually DEF IsAbsolute
  <2>4. fact = own
    BY <2>1, <2>3 DEF Inv, TreeTyped
  <2> QED
    BY <2>1, <2>3, <2>4
<1>4. CASE "dir" \notin GitAt(project)
  <2> DEFINE n == Len(fact.at)
  <2>1. n \in 1..Len(project) /\ fact.at = SubSeq(project, 1, n)
    BY <1>1, <1>2, WithinElements, WithinIsBeginning DEF IsAbsolute
  <2>2. GitAt(fact.at) # {}
    BY DEF GitAt
  <2> HIDE DEF n
  <2> QED
    BY <1>1, <1>4, <2>1, <2>2 DEF GitIsClear
<1> QED
  BY <1>3, <1>4

\* The repository Git finds from a project is the project's own, inside the mount.
THEOREM GitInsideTheMount == Spec => []GitStaysInside
  BY AlwaysInv, GitInside, PTL

-----------------------------------------------------------------------------
(***************************************************************************)
(* AgentSetRender.                                                         *)
(***************************************************************************)
\* A directory nobody touched by hand is not there or whole, and a start
\* that found something in it found the whole.
UntouchedWhole ==
    \A t \in Tags \ touched : out[t] = NoDirectory \/ out[t].files = Files

FoundSomething ==
    \A p \in Starts :
        rpc[p] \in {"look2", "lost", "rendered"} /\ tag[p] \notin touched
            => out[tag[p]].files = Files

RenderKept == RenderTypeOK /\ UntouchedWhole /\ FoundSomething /\ RefusesOnlyTheTouched

LEMMA FilesOfDirectories ==
  /\ NoDirectory \in Directories
  /\ \A files \in SUBSET (Files \cup Theirs) :
        Directory(files) \in Directories /\ Directory(files).files = files
  /\ \A d \in Directories : d.files \subseteq Files \cup Theirs
<1>1. NoDirectory \in Directories
  BY DEF Directories
<1>2. ASSUME NEW files \in SUBSET (Files \cup Theirs)
      PROVE  Directory(files) \in Directories /\ Directory(files).files = files
  BY DEF Directories, Directory
<1>3. ASSUME NEW d \in Directories PROVE d.files \subseteq Files \cup Theirs
  <2>1. CASE d = NoDirectory
    BY <2>1 DEF NoDirectory
  <2>2. ASSUME NEW files \in SUBSET (Files \cup Theirs), d = Directory(files)
        PROVE  d.files \subseteq Files \cup Theirs
    BY <2>2 DEF Directory
  <2> QED
    BY <2>1, <2>2 DEF Directories
<1> QED
  BY <1>1, <1>2, <1>3

LEMMA RenderInitKept == RenderInit => RenderKept
<1> SUFFICES ASSUME RenderInit PROVE RenderKept
  OBVIOUS
<1>1. RenderTypeOK
  BY FilesOfDirectories, RenderAssumption DEF RenderInit, RenderTypeOK, RenderSteps
<1>2. UntouchedWhole /\ FoundSomething /\ RefusesOnlyTheTouched
  BY DEF RenderInit, UntouchedWhole, FoundSomething, RefusesOnlyTheTouched
<1> QED
  BY <1>1, <1>2 DEF RenderKept

LEMMA RenderStepKept ==
  ASSUME RenderKept, NEW p \in Starts, Render(p)
  PROVE  RenderKept'
<1> USE RenderAssumption
  DEF RenderKept, RenderTypeOK, UntouchedWhole, FoundSomething, RefusesOnlyTheTouched, At, To, Ends,
      RenderSteps, HasDockerfile
<1>1. ASSUME NEW t \in Tags, Select(p, t) PROVE RenderKept'
  BY <1>1 DEF Select
<1>2. CASE Look(p)
  BY <1>2 DEF Look, NoDirectory
<1>3. CASE LookAtEntries(p)
  BY <1>3 DEF LookAtEntries, NoDirectory
<1>4. CASE LookAgain(p)
  BY <1>4 DEF LookAgain, Files
<1>5. CASE Write(p)
  BY <1>5 DEF Write
<1>6. CASE Rename(p)
  <2>1. Directory(Files) \in Directories /\ Directory(Files).files = Files /\ tag[p] \in Tags
    BY <1>6, FilesOfDirectories DEF Rename
  <2>2. CASE out[tag[p]].files = {}
    BY <1>6, <2>1, <2>2 DEF Rename
  <2>3. CASE out[tag[p]].files # {}
    <3>1. out' = out /\ rpc' = [rpc EXCEPT ![p] = "lost"]
      BY <1>6, <2>3 DEF Rename
    <3>2. tag[p] \notin touched => out[tag[p]].files = Files
      BY <2>1, <2>3 DEF NoDirectory
    <3> QED
      BY <1>6, <3>1, <3>2 DEF Rename
  <2> QED
    BY <2>2, <2>3
<1>7. CASE LookAfterLoss(p)
  BY <1>7 DEF LookAfterLoss, Files
<1>8. CASE RefuseRender(p) \/ Build(p) \/ Stops(p)
  BY <1>8 DEF RefuseRender, Build, Stops
<1> QED
  BY <1>1, <1>2, <1>3, <1>4, <1>5, <1>6, <1>7, <1>8 DEF Render

LEMMA RenderNextKept == RenderKept /\ [RenderNext]_renderVars => RenderKept'
<1> SUFFICES ASSUME RenderKept, [RenderNext]_renderVars PROVE RenderKept'
  OBVIOUS
<1>1. ASSUME NEW t \in Tags, UserTouches(t) PROVE RenderKept'
  <2>1. RenderTypeOK'
    BY <1>1, RenderAssumption DEF UserTouches, RenderKept, RenderTypeOK
  <2>2. UntouchedWhole' /\ FoundSomething' /\ RefusesOnlyTheTouched'
    BY <1>1 DEF UserTouches, RenderKept, RenderTypeOK, UntouchedWhole, FoundSomething, RefusesOnlyTheTouched
  <2> QED
    BY <2>1, <2>2 DEF RenderKept
<1>2. CASE UNCHANGED renderVars
  BY <1>2 DEF renderVars, RenderKept, RenderTypeOK, UntouchedWhole, FoundSomething, RefusesOnlyTheTouched
<1> QED
  BY <1>1, <1>2, RenderStepKept DEF RenderNext

LEMMA RenderAlwaysKept == RenderSpec => []RenderKept
  BY RenderInitKept, RenderNextKept, PTL DEF RenderSpec

\* What a start goes on to build is the whole render of its selection.
THEOREM Whole == RenderSpec => []RenderedIsWhole
<1>1. RenderKept => RenderedIsWhole
  BY DEF RenderKept, FoundSomething, RenderedIsWhole
<1> QED
  BY RenderAlwaysKept, <1>1, PTL

\* A start is refused only over a directory the user touched.
THEOREM RefusesTouched == RenderSpec => []RefusesOnlyTheTouched
<1>1. RenderKept => RefusesOnlyTheTouched
  BY DEF RenderKept
<1> QED
  BY RenderAlwaysKept, <1>1, PTL

\* No start removes a file from a render directory.
THEOREM RemoveNothing == RenderSpec => StartsRemoveNothing
<1> DEFINE Keeps == touches' = touches => \A t \in Tags : out[t].files \subseteq out'[t].files
<1>1. RenderKept /\ [RenderNext]_renderVars => [Keeps]_renderVars
  <2> SUFFICES ASSUME RenderKept, [RenderNext]_renderVars PROVE Keeps
    OBVIOUS
  <2>1. ASSUME NEW p \in Starts, Render(p) PROVE Keeps
    <3>1. CASE Rename(p)
      BY <3>1 DEF Rename, RenderKept, RenderTypeOK
    <3>2. CASE ~Rename(p)
      BY <2>1, <3>2 DEF Render, Select, Look, LookAtEntries, LookAgain, Write, LookAfterLoss,
         RefuseRender, Build, Stops
    <3> QED
      BY <3>1, <3>2
  <2>2. ASSUME NEW t \in Tags, UserTouches(t) PROVE Keeps
    BY <2>2, RenderAssumption DEF UserTouches, RenderKept, RenderTypeOK
  <2>3. CASE UNCHANGED renderVars
    BY <2>3 DEF renderVars
  <2> QED
    BY <2>1, <2>2, <2>3 DEF RenderNext
<1> QED
  BY RenderAlwaysKept, <1>1, PTL DEF RenderSpec, StartsRemoveNothing

\* The starts implement AtomicPlaces: a whole render appears in one step where
\* nothing was, and nothing else happens that the user does not do.
THEOREM RenderAtomically == RenderSpec => RendersAtomically
<1> DEFINE now == [t \in Tags |-> out[t].files]
           then == [t \in Tags |-> out'[t].files]
<1>1. RenderInit => Appears!Init
  BY DEF RenderInit, Appears!Init, NoDirectory
<1>2. RenderKept /\ [RenderNext]_renderVars => [Appears!Next]_(Appears!vars)
  <2> SUFFICES ASSUME RenderKept, [RenderNext]_renderVars PROVE [Appears!Next]_(Appears!vars)
    OBVIOUS
  <2>1. ASSUME then = now, touches' = touches PROVE UNCHANGED Appears!vars
    BY <2>1 DEF Appears!vars
  <2>2. ASSUME NEW p \in Starts, Render(p) PROVE [Appears!Next]_(Appears!vars)
    <3>1. CASE out' = out
      BY <2>1, <2>2, <3>1
      DEF Render, Select, Look, LookAtEntries, LookAgain, Write, Rename, LookAfterLoss, RefuseRender, Build, Stops
    <3>2. CASE out' # out
      <4>1. Rename(p) /\ tag[p] \in Tags
        BY <2>2, <3>2
        DEF Render, Select, Look, LookAtEntries, LookAgain, Write, LookAfterLoss, RefuseRender, Build, Stops,
            Rename, At, RenderKept, RenderTypeOK
      <4>2. PICK t \in Tags : t = tag[p]
        BY <4>1
      <4>3. now[t] = {} /\ out' = [out EXCEPT ![t] = Directory(Files)] /\ touches' = touches
        BY <3>2, <4>1, <4>2 DEF Rename
      <4>4. then[t] = Files /\ \A u \in Tags \ {t} : then[u] = now[u]
        BY <4>3, FilesOfDirectories DEF RenderKept, RenderTypeOK
      <4>5. then = [now EXCEPT ![t] = Files]
        BY <4>4
      <4>6. Appears!Publish(t)
        BY <4>3, <4>5 DEF Appears!Publish
      <4> QED
        BY <4>6 DEF Appears!Next
    <3> QED
      BY <3>1, <3>2
  <2>3. ASSUME NEW t \in Tags, UserTouches(t) PROVE Appears!Next
    <3>1. Appears!Disturb(t)
      BY <2>3 DEF UserTouches, Appears!Disturb, RenderKept, RenderTypeOK
    <3> QED
      BY <3>1 DEF Appears!Next
  <2>4. CASE UNCHANGED renderVars
    BY <2>1, <2>4 DEF renderVars
  <2> QED
    BY <2>2, <2>3, <2>4 DEF RenderNext
<1> QED
  BY <1>1, <1>2, RenderAlwaysKept, PTL DEF RenderSpec, RendersAtomically, Appears!Spec

\* The render directories and the starts are well typed.
THEOREM RenderTypeCorrect == RenderSpec => []RenderTypeOK
<1>1. RenderKept => RenderTypeOK
  BY DEF RenderKept
<1> QED
  BY RenderAlwaysKept, <1>1, PTL
=============================================================================
