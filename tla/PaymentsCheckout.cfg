CONSTANTS
    p1 = p1  p2 = p2
    i1 = i1  i2 = i2
    s1 = s1
    None = None
    Invoices = {i1, i2}
    Payments = {p1, p2}
    Subscribers = {s1}
    SubscriberOf <- MCSubscriberOf
    Workers = {w1, w2, w3}
    InvoiceOf <- MCInvoiceOf
    Method <- RenewAndCash
    Provider <- AllPaystack
    MaxAttempts = 2
    CanCrash = TRUE
SPECIFICATION Spec
CHECK_DEADLOCK FALSE
SYMMETRY Symmetry
INVARIANTS
    TypeOK
    AppliedAtMostOnce
    SettledIsClosed
    
PROPERTIES
    
    DraftIsIssuedFirst
