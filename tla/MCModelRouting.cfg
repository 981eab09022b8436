SPECIFICATION Spec
CONSTANTS
    r1 = r1
    r2 = r2
    c1 = c1
    c2 = c2
    d1 = d1
    None = None
    Runs = {r1, r2}
    Route <- MCRoute
    DomainOf <- SharedDomain
    Small = {c1}
    Enabled = TRUE
    Threshold = 2
    Recovery = 1
    MaxRetries = 1
    MaxDelay = 0
    MaxErrors = 2
    Errors <- MCErrors
SYMMETRY RunSymmetry
INVARIANT ProbesHeld
PROPERTY SwitchAuthorized
CHECK_DEADLOCK FALSE
