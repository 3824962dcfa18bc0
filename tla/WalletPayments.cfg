CONSTANTS
    None = None
    Invoices = {i1}
    Payments = {p1}
    Subscribers = {s1}
    Workers = {w1}
    Desks = {d1, d2}
    InvoiceOf <- MCInvoiceOf
    SubscriberOf <- MCSubscriberOf
    Method <- AtTheCounter
    Provider <- ByPaystack
    Price <- MCPrice
    Amounts = {1, 2}
    MaxAttempts = 1
    MaxRows = 7
    CanCrash = TRUE
SPECIFICATION WalletSpec
CHECK_DEADLOCK FALSE
SYMMETRY Symmetry
INVARIANTS
    WalletInv
    MoneyBackOrPaid
    
