\* Two `up`s: the second renders while the first is between its digest and
\* its Compose call.
SPECIFICATION Spec
CONSTANTS
    None = None
    Ups = {u1, u2}
    Downs = {}
    Agents = {}
    Checks = {}
    Engines = {e1}
    Configs = {A, B}
    Offering = {A}
    Dashboard = FALSE
    RestartsItself = FALSE
    MaxKills = 0
INVARIANTS LabelTellsContent
