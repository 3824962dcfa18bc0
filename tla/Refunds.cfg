CONSTANTS
    p1 = p1  p2 = p2
    i1 = i1
    s1 = s1
    None = None
    Invoices = {i1}
    Payments = {p1, p2}
    Subscribers = {s1}
    SubscriberOf <- MCSubscriberOf
    Workers = {w1}
    Desks = {d1, d2}
    InvoiceOf <- MCInvoiceOf
    Method <- InvoiceAndAdmin
    Provider <- FlutterwaveAndGeneric
    MaxAttempts = 1
    MaxCalls = 4
    CanCrash = TRUE
SPECIFICATION RefundsSpec
CHECK_DEADLOCK FALSE
SYMMETRY Symmetry
INVARIANTS
    
    CompletedIsReceipted
PROPERTIES
    
    TransitionsHold
