CONSTANTS
    p1 = p1
    i1 = i1  i2 = i2
    s1 = s1  s2 = s2
    None = None
    Invoices = {i1, i2}
    Payments = {p1}
    Subscribers = {s1, s2}
    Workers = {w1}
    InvoiceOf <- MCInvoiceOf
    SubscriberOf <- MCSubscriberOf
    Method <- AtTheCounter
    Provider <- ByPaystack
    MaxAttempts = 1
    MaxFailures = 1
    CanCrash = TRUE
SPECIFICATION FairJobsSpec
CHECK_DEADLOCK FALSE
INVARIANTS
    JobsInv
PROPERTIES
    CutForDebt
    DueIsFollowedUp
    LateIsSuspended
