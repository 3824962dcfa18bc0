CONSTANTS
    p1 = p1  p2 = p2
    i1 = i1  i2 = i2
    s1 = s1
    None = None
    Invoices = {i1}
    Payments = {p1, p2}
    Subscribers = {s1}
    SubscriberOf <- OneSubscriberOf
    Workers = {w1, w2}
    InvoiceOf <- OneInvoice
    Method <- PayAndAdmin
    Provider <- FlutterwaveAndGeneric
    MaxAttempts = 2
    CanCrash = FALSE
SPECIFICATION FairSpec
CHECK_DEADLOCK FALSE
PROPERTIES
    RequestsEnd
    CapturedIsBooked
