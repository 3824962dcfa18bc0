CONSTANTS
    Nobody = Nobody
    Users = {u1}
    Workers = {w1, w2}
    Grace = 1
    Idle = 0
    Lifetime = 1
    ResetLifetime = 1
    MaxResets = 1
    MaxStall = 0
    MaxTokens = 3
    MaxTime = 3
SPECIFICATION Spec
SYMMETRY Symmetry
CHECK_DEADLOCK FALSE
INVARIANTS
    
    IdleSessionsEnd
    LinkWorksOnce
    EndedStaysEnded
PROPERTY
    DeadFamilyStaysDead
