\* A launch that is interrupted while Compose creates its UI, and no kill.
SPECIFICATION Spec
CONSTANTS
    None = None
    All = All
    Kills = FALSE
    MaxLate = 1
    Checkout1 = c1
    Procs = {s1}
    Checkouts = {c1}
    CheckoutOf <- OneCheckout
    Sets = {paseo}
    Ports = {p1}
INVARIANTS UnwoundUiIsStopped
