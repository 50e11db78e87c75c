\* An `up` that is killed while its Compose call runs, beside a `down`.
SPECIFICATION Spec
CONSTANTS
    None = None
    Ups = {u1}
    Downs = {d1}
    Agents = {}
    Checks = {}
    Engines = {e1}
    Configs = {A}
    Offering = {A}
    Dashboard = FALSE
    RestartsItself = FALSE
    MaxKills = 1
PROPERTIES NoComposeDuringADown
