\* Two `up`s and a `down` on a host with two engines.
SPECIFICATION Spec
CONSTANTS
    None = None
    Ups = {u1, u2}
    Downs = {d1}
    Agents = {}
    Checks = {c1}
    Engines = {e1, e2}
    Configs = {A}
    Offering = {A}
    Dashboard = FALSE
    RestartsItself = FALSE
    MaxKills = 1
SYMMETRY SlotEngineSymmetry
INVARIANTS MutualExclusion PortHeldThroughUp CheckKeepsItsContainer
PROPERTIES ForgetsLast RecordNamesTheStack
