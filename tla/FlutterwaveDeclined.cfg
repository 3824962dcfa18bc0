CONSTANTS
    p1 = p1  p2 = p2
    i1 = i1  i2 = i2
    s1 = s1
    None = None
    Invoices = {i1, i2}
    Payments = {p1, p2}
    Subscribers = {s1}
    SubscriberOf <- MCSubscriberOf
    Workers = {w1, w2}
    InvoiceOf <- MCInvoiceOf
    Method <- RenewAndAdmin
    Provider <- AllFlutterwave
    MaxAttempts = 2
    CanCrash = FALSE
SPECIFICATION Spec
CHECK_DEADLOCK FALSE
INVARIANT NothingForFree
