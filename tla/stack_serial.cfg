\* An `up` with a dashboard, over a configuration that changes, a `down` and a
\* session on one engine, with a Compose call that outlives its `up` or an engine
\* that restarts.
SPECIFICATION LiveSpec
CONSTANTS
    None = None
    Ups = {u1}
    Downs = {d1}
    Agents = {a1}
    Checks = {}
    Engines = {e1}
    Configs = {A, B}
    Offering = {A}
    Dashboard = TRUE
    RestartsItself = TRUE
    MaxKills = 1
PROPERTIES LabelGoesStaleByRenderOnly EveryCommandEnds
