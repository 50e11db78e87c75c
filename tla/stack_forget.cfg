\* An `up` and a `down` on a host with two engines: the `down` chose its engine
\* before it waited for the lock.
SPECIFICATION Spec
CONSTANTS
    None = None
    Ups = {u1}
    Downs = {d1}
    Agents = {}
    Checks = {}
    Engines = {e1, e2}
    Configs = {A}
    Offering = {A}
    Dashboard = FALSE
    RestartsItself = FALSE
    MaxKills = 0
PROPERTIES ForgottenStackIsGone
