------------------------------- MODULE Renewals -------------------------------
(***************************************************************************)
(* How a subscription's expiry moves and what is billed for it: the daily  *)
(* invoice generator, the daily expiry reminder, the customer portal's     *)
(* subscription action, and the numbering of invoices they share with the  *)
(* payments service's checkout.                                            *)
(*   apps/billing-service/src/jobs/invoice-generator.processor.ts          *)
(*   apps/billing-service/src/jobs/expiry-reminder.processor.ts            *)
(*   apps/customer-service/src/modules/customer/customer.service.ts        *)
(*   apps/payments-service/src/modules/payments/payments.service.ts        *)
(* A job works on the rows it listed when its run began.  Time is counted  *)
(* in days; the length of a month is a constant.                           *)
(***************************************************************************)
EXTENDS Naturals, FiniteSets, FiniteSetsExt

CONSTANTS
    Customers,
    Requests,   \* bound: portal actions and checkouts, each made once
    Charges,    \* references of charges that Paystack calls successful
    Month,      \* days the generator and a renewal add
    Window,     \* REMINDER_WINDOW_DAYS
    Tries,      \* attempts of createInvoiceWithUniqueNumber (5)
    Attempts,   \* attempts of a job run (3)
    MaxSubs,    \* bound on the subscriptions
    MaxDay,     \* bound on the calendar
    Nothing

ASSUME RenewalsAssumption ==
    /\ {Month, Window, Tries, Attempts, MaxSubs, MaxDay} \subseteq Nat
    /\ Month > 0 /\ Attempts > 0
    /\ IsFiniteSet(Customers) /\ IsFiniteSet(Requests)
    /\ Cardinality(Customers) <= MaxSubs

VARIABLES
    subs,       \* Subscription rows
    invoices,   \* Invoice rows of this year; number is unique
    payments,   \* Payment rows; the reference is unique
    receipts,   \* Receipt rows; number is unique
    today,
    gen,        \* the invoice generator's run
    rem,        \* the expiry reminder's run
    req,        \* portal actions and checkouts
    floor,      \* history: the expiry each subscription was billed up to
    given,      \* history: how many months each customer was given
    clobbered,  \* history: subscriptions written from a stale read
    mails,      \* history: reminders of the run under way, by subscription
    cutMails    \* history: its attempts cut off between mail and stamp

rows == <<subs, invoices, payments, receipts>>
history == <<floor, given, clobbered, mails, cutMails>>
vars == <<rows, today, gen, rem, req, history>>

Sub == [id : Nat \ {0}, customer : Customers, expires : Nat,
        cancelled : BOOLEAN, reminded : Nat]
Invoice == [number : Nat \ {0}, customer : Customers,
            status : {"DRAFT", "ISSUED", "PAID"}]

Ids == {s.id : s \in subs}
SubsOf(c) == {s \in subs : s.customer = c}
Last(numbers) == Max(numbers \cup {0})

\* findFirst ... orderBy invoiceNumber desc.
LastInvoice == Last({i.number : i \in invoices})
Taken(n) == \E i \in invoices : i.number = n

\* What a job or a request keeps of a row it has read.
Seen(s) == [id |-> s.id, expires |-> s.expires]
Put(s) == subs' = {x \in subs : x.id # s.id} \cup {s}
Row(id) == CHOOSE s \in subs : s.id = id

IdleJob == [pc |-> "idle", list |-> {}, cur |-> Nothing, last |-> 0,
            tries |-> 0, day |-> 0]
IdleRequest == [pc |-> "idle", kind |-> "none", customer |-> Nothing,
                sub |-> Nothing, charge |-> Nothing, at |-> 0, last |-> 0,
                attempt |-> 0, number |-> 0, seen |-> 0]

\* A request that broke off, before or after it had an invoice.
BrokenAt(pc) ==
    CASE pc = "apply" -> "broken"
      [] pc \in {"number", "invoice"} -> "brokenUnbilled"
      [] OTHER -> "brokenBilled"
At(r, pc) == req[r].pc = pc
Over(r) == req[r].pc \in {"done", "gaveUp", "broken", "brokenUnbilled",
                          "brokenBilled"}

Init ==
    /\ \E id \in [Customers -> 1..Cardinality(Customers)] :
          /\ \A c, d \in Customers : c # d => id[c] # id[d]
          /\ subs = {[id |-> id[c], customer |-> c, expires |-> Window + 1,
                      cancelled |-> FALSE, reminded |-> 0] : c \in Customers}
    /\ invoices = {}
    /\ payments = {}
    /\ receipts = {}
    /\ today = 1
    /\ gen = IdleJob
    /\ rem = IdleJob
    /\ req = [r \in Requests |-> IdleRequest]
    /\ floor = [s \in 1..MaxSubs |-> IF s \in Ids THEN Window + 1 ELSE 0]
    /\ given = [c \in Customers |-> 0]
    /\ clobbered = {}
    /\ mails = [s \in 1..MaxSubs |-> 0]
    /\ cutMails = 0

-----------------------------------------------------------------------------
(* The invoice generator: 02:00, every day.                                *)

Give(c) == given' = [given EXCEPT ![c] = @ + 1]

\* A row is written on the strength of what an earlier read said of it.
Overwrites(id, seen) == Row(id).expires # seen
Note(id, seen) ==
    clobbered' = IF Overwrites(id, seen) THEN clobbered \cup {id} ELSE clobbered

Due == {Seen(s) : s \in {t \in subs : ~t.cancelled /\ t.expires <= today}}

StartGenerator ==
    /\ gen.pc = "idle" /\ gen.day < today
    /\ gen' = [IdleJob EXCEPT !.pc = "loop", !.list = Due, !.tries = 1,
                              !.day = today]
    /\ UNCHANGED <<rows, today, rem, req, history>>

\* The transaction of one subscription reads the last number ...
ReadNumber ==
    /\ gen.pc = "loop"
    /\ \E s \in gen.list :
          gen' = [gen EXCEPT !.pc = "bill", !.cur = s, !.last = LastInvoice]
    /\ UNCHANGED <<rows, today, rem, req, history>>

\* Mutant: a taken number costs the invoice, not the extension.
BillRegardless ==
    LET s == gen.cur
        customer == Row(s.id).customer
    IN
    /\ gen.pc = "bill"
    /\ invoices' = IF Taken(gen.last + 1) THEN invoices ELSE invoices \cup
          {[number |-> gen.last + 1, customer |-> customer, status |-> "DRAFT"]}
    /\ Put([Row(s.id) EXCEPT !.expires = s.expires + Month])
    /\ floor' = [floor EXCEPT ![s.id] = @ + Month]
    /\ Give(customer)
    /\ Note(s.id, s.expires)
    /\ gen' = [gen EXCEPT !.pc = "loop", !.list = @ \ {s}, !.cur = Nothing,
                          !.last = 0]
    /\ UNCHANGED <<payments, receipts, today, rem, req, mails, cutMails>>

\* ... and commits a draft invoice and the expiry one month after the one
\* that was listed.
Bill ==
    LET s == gen.cur
        customer == Row(s.id).customer
    IN
    /\ gen.pc = "bill" /\ ~Taken(gen.last + 1)
    /\ invoices' = invoices \cup
          {[number |-> gen.last + 1, customer |-> customer, status |-> "DRAFT"]}
    /\ Put([Row(s.id) EXCEPT !.expires = s.expires + Month])
    /\ floor' = [floor EXCEPT ![s.id] = @ + Month]
    /\ Give(customer)
    /\ Note(s.id, s.expires)
    /\ gen' = [gen EXCEPT !.pc = "loop", !.list = @ \ {s}, !.cur = Nothing,
                          !.last = 0]
    /\ UNCHANGED <<payments, receipts, today, rem, req, mails, cutMails>>

Again(job) ==
    IF job.tries < Attempts
      THEN [IdleJob EXCEPT !.pc = "retry", !.tries = job.tries, !.day = job.day]
      ELSE [IdleJob EXCEPT !.day = job.day]

\* The number is taken, a statement fails or the process stops: the run is
\* over, and the queue tries it again.
GeneratorFails ==
    /\ gen.pc \in {"loop", "bill"}
    /\ gen' = Again(gen)
    /\ UNCHANGED <<rows, today, rem, req, history>>

RetryGenerator ==
    /\ gen.pc = "retry"
    /\ gen' = [gen EXCEPT !.pc = "loop", !.list = Due, !.tries = @ + 1]
    /\ UNCHANGED <<rows, today, rem, req, history>>

EndGenerator ==
    /\ gen.pc = "loop" /\ gen.list = {}
    /\ gen' = [IdleJob EXCEPT !.day = gen.day]
    /\ UNCHANGED <<rows, today, rem, req, history>>

-----------------------------------------------------------------------------
(* The expiry reminder: 08:00, every day.                                  *)

\* Mutant: the stamp of an earlier run is not looked at.
ExpiringAlways ==
    {s.id : s \in {t \in subs : /\ ~t.cancelled
                                /\ t.expires \in today..(today + Window)}}

\* A stamp is at least a day old, more than REMINDER_DEDUPE_HOURS (20).
Expiring ==
    {s.id : s \in {t \in subs : /\ ~t.cancelled
                                /\ t.expires \in today..(today + Window)
                                /\ t.reminded < today}}

\* Bounds: the generator's run of 02:00 is over at 08:00, and no request is
\* under way while the reminder, alone to write expiryReminderSentAt, runs.
StartReminder ==
    /\ rem.pc = "idle" /\ rem.day < today
    /\ gen.pc = "idle" /\ gen.day = today
    /\ \A r \in Requests : At(r, "idle") \/ Over(r)
    /\ rem' = [IdleJob EXCEPT !.pc = "loop", !.list = Expiring, !.tries = 1,
                              !.day = today]
    /\ UNCHANGED <<rows, today, gen, req, history>>

\* The mail is delivered, or it is not and the customer is passed over.
SendReminder ==
    /\ rem.pc = "loop"
    /\ \E s \in rem.list :
          \/ /\ rem' = [rem EXCEPT !.pc = "stamp", !.cur = s]
             /\ mails' = [mails EXCEPT ![s] = @ + 1]
          \/ /\ rem' = [rem EXCEPT !.list = @ \ {s}]
             /\ UNCHANGED mails
    /\ UNCHANGED <<rows, today, gen, req, floor, given, clobbered, cutMails>>

StampReminder ==
    /\ rem.pc = "stamp"
    /\ Put([Row(rem.cur) EXCEPT !.reminded = rem.day])
    /\ rem' = [rem EXCEPT !.pc = "loop", !.list = @ \ {rem.cur}, !.cur = Nothing]
    /\ UNCHANGED <<invoices, payments, receipts, today, gen, req, history>>

ForgetMails == mails' = [s \in 1..MaxSubs |-> 0] /\ cutMails' = 0

ReminderFails ==
    /\ rem.pc \in {"loop", "stamp"}
    /\ rem' = Again(rem)
    /\ IF rem'.pc = "idle"
         THEN ForgetMails
         ELSE /\ cutMails' = IF rem.pc = "stamp" THEN cutMails + 1 ELSE cutMails
              /\ UNCHANGED mails
    /\ UNCHANGED <<rows, today, gen, req, floor, given, clobbered>>

RetryReminder ==
    /\ rem.pc = "retry"
    /\ rem' = [rem EXCEPT !.pc = "loop", !.list = Expiring, !.tries = @ + 1]
    /\ UNCHANGED <<rows, today, gen, req, history>>

EndReminder ==
    /\ rem.pc = "loop" /\ rem.list = {}
    /\ rem' = [IdleJob EXCEPT !.day = rem.day]
    /\ ForgetMails
    /\ UNCHANGED <<rows, today, gen, req, floor, given, clobbered>>

-----------------------------------------------------------------------------
(* The customer portal: change_plan, renew and add_plan, charged before    *)
(* the request (handleSubscriptionAction).                                 *)

Go(r, pc) == req' = [req EXCEPT ![r].pc = pc]
\* What is left of a request that is over.
End(r, pc, number) ==
    req' = [req EXCEPT ![r] = [IdleRequest EXCEPT
               !.pc = pc, !.kind = req[r].kind, !.customer = req[r].customer,
               !.charge = IF pc = "done" THEN req[r].charge ELSE Nothing,
               !.number = number]]
Unmoved == UNCHANGED <<today, gen, rem, mails, cutMails>>

\* The charge is verified, and one of the customer's subscriptions was read
\* before that.  Nothing asks whether the charge was used already.
AskAction(r, c, kind, charge) ==
    /\ At(r, "idle") /\ rem.pc = "idle"
    /\ \E s \in SubsOf(c) :
          req' = [req EXCEPT ![r] = [IdleRequest EXCEPT
                    !.pc = "apply", !.kind = kind, !.customer = c,
                    !.sub = IF kind = "add" THEN Nothing ELSE Seen(s),
                    !.charge = charge, !.at = today]]
    /\ UNCHANGED <<rows, today, gen, rem, history>>

Later(a, b) == Max({a, b})

\* Mutant: a renewal counts from today, not from the end of what is paid.
RenewFromToday(r) ==
    LET s == req[r].sub IN
    /\ At(r, "apply") /\ req[r].kind = "renew"
    /\ Put([Row(s.id) EXCEPT !.expires = req[r].at + Month])
    /\ floor' = [floor EXCEPT ![s.id] = Later(@, req[r].at) + Month]
    /\ Give(req[r].customer)
    /\ Note(s.id, s.expires)
    /\ req' = [req EXCEPT ![r].pc = "number", ![r].sub = Nothing, ![r].at = 0]
    /\ UNCHANGED <<invoices, payments, receipts>> /\ Unmoved

\* A month after the expiry that was read, or after today.
Renew(r) ==
    LET s == req[r].sub IN
    /\ At(r, "apply") /\ req[r].kind = "renew"
    /\ Put([Row(s.id) EXCEPT !.expires = Later(s.expires, req[r].at) + Month])
    /\ floor' = [floor EXCEPT ![s.id] = Later(@, req[r].at) + Month]
    /\ Give(req[r].customer)
    /\ Note(s.id, s.expires)
    /\ req' = [req EXCEPT ![r].pc = "number", ![r].sub = Nothing, ![r].at = 0]
    /\ UNCHANGED <<invoices, payments, receipts>> /\ Unmoved

\* The new plan runs from today: what was left of the old one is not kept.
ChangePlan(r) ==
    LET s == req[r].sub IN
    /\ At(r, "apply") /\ req[r].kind = "change"
    /\ Put([Row(s.id) EXCEPT !.expires = req[r].at + Month])
    /\ floor' = [floor EXCEPT ![s.id] = req[r].at + Month]
    /\ Give(req[r].customer)
    /\ Note(s.id, s.expires)
    /\ req' = [req EXCEPT ![r].pc = "number", ![r].sub = Nothing, ![r].at = 0]
    /\ UNCHANGED <<invoices, payments, receipts>> /\ Unmoved

AddPlan(r) ==
    LET id == Last(Ids) + 1 IN
    /\ At(r, "apply") /\ req[r].kind = "add"
    /\ Cardinality(subs) < MaxSubs
    /\ subs' = subs \cup {[id |-> id, customer |-> req[r].customer,
                           expires |-> req[r].at + Month,
                           cancelled |-> FALSE, reminded |-> 0]}
    /\ floor' = [floor EXCEPT ![id] = req[r].at + Month]
    /\ Give(req[r].customer)
    /\ req' = [req EXCEPT ![r].pc = "number", ![r].sub = Nothing, ![r].at = 0]
    /\ UNCHANGED <<invoices, payments, receipts, clobbered>> /\ Unmoved

\* nextInvoiceSeq, here and in the payments service.
ReadInvoiceNumber(r) ==
    /\ At(r, "number")
    /\ req' = [req EXCEPT ![r].pc = "invoice", ![r].last = LastInvoice]
    /\ UNCHANGED <<rows, today, gen, rem, history>>

\* The invoice is created PAID ...
CreatePaidInvoice(r) ==
    LET n == req[r].last + 1 IN
    /\ At(r, "invoice") /\ req[r].kind # "checkout"
    /\ ~Taken(n)
    /\ invoices' = invoices \cup {[number |-> n, customer |-> req[r].customer,
                                   status |-> "PAID"]}
    /\ req' = [req EXCEPT ![r].pc = "payment", ![r].number = n, ![r].last = 0]
    /\ UNCHANGED <<subs, payments, receipts, today, gen, rem, history>>

\* Mutant: a payment of that reference is taken for this one.
CreatePaymentAgain(r) ==
    /\ At(r, "payment")
    /\ payments' = payments \cup {[charge |-> req[r].charge,
                                   invoice |-> req[r].number]}
    /\ Go(r, "receipt")
    /\ UNCHANGED <<subs, invoices, receipts, today, gen, rem, history>>

\* ... then its payment, whose reference is unique ...
CreatePayment(r) ==
    /\ At(r, "payment")
    /\ \A p \in payments : p.charge # req[r].charge
    /\ payments' = payments \cup {[charge |-> req[r].charge,
                                   invoice |-> req[r].number]}
    /\ Go(r, "receipt")
    /\ UNCHANGED <<subs, invoices, receipts, today, gen, rem, history>>

ReadReceiptNumber(r) ==
    /\ At(r, "receipt")
    /\ req' = [req EXCEPT ![r].pc = "receive",
                          ![r].last = Last({x.number : x \in receipts})]
    /\ UNCHANGED <<rows, today, gen, rem, history>>

\* ... then its receipt, and the answer.
CreateReceipt(r) ==
    LET n == req[r].last + 1 IN
    /\ At(r, "receive")
    /\ \A x \in receipts : x.number # n
    /\ receipts' = receipts \cup {[number |-> n, invoice |-> req[r].number]}
    /\ End(r, "done", req[r].number)
    /\ UNCHANGED <<subs, invoices, payments, today, gen, rem, history>>

\* A row is refused for its unique key, or the process stops: what is
\* already written stays, and the customer sees an error.
Break(r) ==
    /\ ~Over(r) /\ ~At(r, "idle")
    /\ End(r, BrokenAt(req[r].pc), 0)
    /\ UNCHANGED <<rows, today, gen, rem, history>>

-----------------------------------------------------------------------------
(* The payments service's checkout, for its invoice number only.           *)

BeginCheckout(r, c) ==
    /\ At(r, "idle") /\ rem.pc = "idle"
    /\ req' = [req EXCEPT ![r] = [IdleRequest EXCEPT
                  !.pc = "number", !.kind = "checkout", !.customer = c,
                  !.seen = Cardinality(invoices)]]
    /\ UNCHANGED <<rows, today, gen, rem, history>>

IssueInvoice(r) ==
    LET n == req[r].last + 1 + req[r].attempt IN
    /\ At(r, "invoice") /\ req[r].kind = "checkout"
    /\ ~Taken(n)
    /\ invoices' = invoices \cup {[number |-> n, customer |-> req[r].customer,
                                   status |-> "ISSUED"]}
    /\ End(r, "done", n)
    /\ UNCHANGED <<subs, payments, receipts, today, gen, rem, history>>

\* A collision: read again, and skip one number more at each attempt.
TryNextNumber(r) ==
    /\ At(r, "invoice") /\ req[r].kind = "checkout"
    /\ Taken(req[r].last + 1 + req[r].attempt)
    /\ req' = [req EXCEPT ![r].pc = IF req[r].attempt + 1 < Tries
                                      THEN "number" ELSE "gaveUp",
                          ![r].attempt = @ + 1]
    /\ UNCHANGED <<rows, today, gen, rem, history>>

-----------------------------------------------------------------------------

\* removeSubscription.
Cancel(s) ==
    /\ ~s.cancelled /\ rem.pc = "idle"
    /\ Put([s EXCEPT !.cancelled = TRUE])
    /\ UNCHANGED <<invoices, payments, receipts, today, gen, rem, req, history>>

\* Bound: both jobs end the day they began.
NextDay ==
    /\ today < MaxDay
    /\ gen.pc = "idle" /\ rem.pc = "idle"
    /\ today' = today + 1
    /\ UNCHANGED <<rows, gen, rem, req, history>>

Generator ==
    StartGenerator \/ ReadNumber \/ Bill \/ GeneratorFails \/ RetryGenerator
    \/ EndGenerator

Reminder ==
    StartReminder \/ SendReminder \/ StampReminder \/ ReminderFails
    \/ RetryReminder \/ EndReminder

Portal(r) ==
    \/ \E c \in Customers, charge \in Charges, kind \in {"renew", "change", "add"} :
          AskAction(r, c, kind, charge)
    \/ Renew(r) \/ ChangePlan(r) \/ AddPlan(r)
    \/ ReadInvoiceNumber(r) \/ CreatePaidInvoice(r) \/ CreatePayment(r)
    \/ ReadReceiptNumber(r) \/ CreateReceipt(r) \/ Break(r)

Checkout(r) ==
    (\E c \in Customers : BeginCheckout(r, c)) \/ IssueInvoice(r)
    \/ TryNextNumber(r)

\* The last day's jobs and every request are over.
Finished ==
    /\ today = MaxDay
    /\ \A job \in {gen, rem} : job.pc = "idle" /\ job.day = today
    /\ \A r \in Requests : Over(r)
    /\ UNCHANGED vars

Next ==
    \/ Finished
    \/ Generator \/ Reminder \/ NextDay
    \/ \E r \in Requests : Portal(r) \/ Checkout(r)
    \/ \E s \in subs : Cancel(s)

Spec == Init /\ [][Next]_vars

-----------------------------------------------------------------------------

\* Rows are well formed, numbers and references are used once, and the jobs
\* are never tried more often than the queue allows (jobs.module.ts:9-15).
RenewalsTypeOK ==
    /\ subs \subseteq Sub /\ invoices \subseteq Invoice
    /\ \A s, t \in subs : s.id = t.id => s = t
    /\ \A i, j \in invoices : i.number = j.number => i = j
    /\ gen.tries <= Attempts /\ rem.tries <= Attempts

\* A month that was billed or paid is not lost: a subscription runs at least
\* as long as its invoices say, unless a job or a request wrote the expiry
\* from a row that had changed since it was read
\* (invoice-generator.processor.ts:30-74, customer.service.ts:230-243).
BilledTimeIsKept ==
    \A s \in subs : s.expires < floor[s.id] => s.id \in clobbered

\* Service is extended only against an invoice: every month a customer was
\* given has one, except those of portal requests that have moved the expiry
\* and not yet, or never, reached their invoice (customer.service.ts:256-285).
MonthsAreInvoiced ==
    \A c \in Customers :
        LET owing == {r \in Requests : /\ req[r].customer = c
                                       /\ req[r].kind # "checkout"
                                       /\ req[r].pc \in {"number", "invoice",
                                                         "brokenUnbilled"}}
            billed == {i \in invoices : /\ i.customer = c
                                        /\ i.status # "ISSUED"}
        IN given[c] = Cardinality(billed) + Cardinality(owing)

\* A charge is booked once: of the requests that present one reference, one
\* at most is answered, with a payment and a receipt for the invoice it
\* created (customer.service.ts:288-308).
ChargeBooksOnce ==
    \A r \in Requests :
        req[r].pc = "done" /\ req[r].kind # "checkout" =>
            /\ \E x \in receipts : x.invoice = req[r].number
            /\ [charge |-> req[r].charge, invoice |-> req[r].number] \in payments
            /\ \A q \in Requests \ {r} : /\ req[q].pc = "done"
                                         /\ req[q].kind # "checkout"
                                         => req[q].charge # req[r].charge

\* A checkout gives up on its invoice number only when, while it tried, at
\* least as many other invoices were created as it had attempts
\* (payments.service.ts:1027-1055).
GivesUpInACrowd ==
    \A r \in Requests :
        req[r].pc = "gaveUp" => Cardinality(invoices) - req[r].seen >= Tries

\* The rows are well formed, a charge is booked once, and an invoice number is
\* given up on only in a crowd (customer.service.ts:256-308,
\* payments.service.ts:1027-1055).
RenewalsInv == RenewalsTypeOK /\ ChargeBooksOnce /\ GivesUpInACrowd

\* A customer is reminded once a day, and once more for each run that was cut
\* off between the mail and its stamp (expiry-reminder.processor.ts:39-78).
OneReminderADay ==
    \A s \in 1..MaxSubs : mails[s] <= 1 + cutMails
===============================================================================
