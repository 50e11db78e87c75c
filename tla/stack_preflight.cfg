\* A pre-flight while an `up` renders another configuration.
SPECIFICATION Spec
CONSTANTS
    None = None
    Ups = {u1}
    Downs = {}
    Agents = {a1}
    Checks = {}
    Engines = {e1}
    Configs = {A, B}
    Offering = {A}
    Dashboard = FALSE
    RestartsItself = FALSE
    MaxKills = 0
PROPERTIES AcceptedPresetIsServed
