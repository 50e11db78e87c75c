\* Two slots that launch and stop two UI sets on two ports in one checkout, with
\* a provider that outlives its client.
SPECIFICATION Spec
CONSTANTS
    None = None
    All = All
    Kills = TRUE
    MaxLate = 1
    Checkout1 = c1
    Procs = {s1, s2}
    Checkouts = {c1}
    CheckoutOf <- OneCheckout
    Sets = {paseo, web}
    Ports = {p1, p2}
SYMMETRY Symmetric
INVARIANTS PortHeldThroughStart PairIsOfOneLaunch RetryFindsNamesFree StopLeavesNothing
PROPERTIES RemovedByItsOwn
