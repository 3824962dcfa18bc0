CONSTANTS
    Customers = {ada}
    Requests = {r1, r2}
    Charges = {c1, c2}
    Month = 1
    Window = 1
    Tries = 2
    Attempts = 2
    MaxSubs = 2
    MaxDay = 2
    Nothing = Nothing
SPECIFICATION Spec
SYMMETRY Symmetry
INVARIANTS
    
    
    MonthsAreInvoiced
    OneReminderADay
