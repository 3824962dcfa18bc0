CONSTANTS
    Agents = {abi, bem}
    Supers = {bem}
    Clients = {c1, c2, c3}
    AtOnce = 3
    MaxChats = 2
    Nobody = Nobody
SPECIFICATION Spec
SYMMETRY Symmetry
INVARIANTS
    SupportInv
    PresenceIsTrue
    OneOpenChat
    ClosedStaysClosed
