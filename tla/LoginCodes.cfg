CONSTANTS
    Tiers <- MCTiers
    Limit <- MCLimit
    Window <- MCWindow
    MaxTime = 4
    Requests = {r1, r2}
    MaxRequests = 5
    Allowed = 2
    Lock = 2
    Validity = 2
    Cooldown = 1
    MaxCodes = 2
SPECIFICATION Spec
SYMMETRY Symmetry
INVARIANTS
    CodesInv
    WindowsHold
    CodeWorksOnce
    
