CONSTANTS
    Customers = {ada, bola}
    Ips = {ip1, ip2}
    Requests = {r1, r2, r3}
    AtOnce = 2
    Nobody = Nobody
SPECIFICATION Spec
SYMMETRY Symmetry
INVARIANTS
    AccessInv
    
    OneHolderPerAddress
PROPERTIES
    ImplementsSwitch
