------------------------------- MODULE Payments -------------------------------
(***************************************************************************)
(* The payments and billing services on their shared tables: every request *)
(* handler is cut at its awaits, so that handlers running at the same time *)
(* interleave exactly where the code lets them.                            *)
(*   apps/payments-service/src/modules/payments/payments.service.ts        *)
(*   apps/payments-service/src/modules/billing/billing.service.ts          *)
(* A worker is one request in flight (HTTP call, webhook delivery).  A     *)
(* single Prisma call and a $transaction are atomic, two of them are not.  *)
(***************************************************************************)
EXTENDS Naturals, Sequences

CONSTANTS
    Invoices,       \* invoice rows
    Payments,       \* payment references (Payment.reference is unique)
    Subscribers,
    Workers,        \* requests that can be in flight at the same time
    InvoiceOf,      \* the invoice a reference is for
    SubscriberOf,   \* the subscriber of an invoice
    Method,         \* how the reference comes about, see Methods
    Provider,       \* who reports on the reference, see Providers
    MaxAttempts,    \* the retry limit of markPaid (5 in the code)
    CanCrash,       \* may a request be cut off between two awaits
    None

\* Customer checkouts (attempt meta has an action), POST payments/initialize
\* (no meta) and POST payments/record-offline.
Checkouts == {"renew", "change_plan", "add_plan", "pay_invoice"}
Methods == Checkouts \cup {"admin", "offline"}

Providers == {"PAYSTACK", "FLUTTERWAVE", "GENERIC"}

ASSUME ConstantsAssumption ==
    /\ InvoiceOf \in [Payments -> Invoices]
    /\ SubscriberOf \in [Invoices -> Subscribers]
    /\ Method \in [Payments -> Methods]
    /\ Provider \in [Payments -> Providers]
    /\ MaxAttempts \in Nat \ {0}
    /\ CanCrash \in BOOLEAN
    /\ None \notin Payments \cup Invoices

InvoiceStatus == {"DRAFT", "ISSUED", "PAID", "OVERDUE", "VOID"}
PaymentStatus == {"PENDING", "SUCCESSFUL", "FAILED", "REFUNDED"}

VARIABLES
    inv,        \* Invoice.status, "NONE" while the row does not exist
    pay,        \* Payment.status, "NONE" while the row does not exist
    attempts,   \* references with a PENDING PaymentAttempt row
    receipts,   \* Receipt rows in the order of createdAt
    applied,    \* how often the plan action of a reference was applied
    access,     \* does radius-service accept the subscriber
    captured,   \* gateway: references it holds the money of
    declined,   \* gateway: references with a declined charge
    proc        \* the requests in flight

tables  == <<inv, pay, attempts, receipts, applied, access>>
gateway == <<captured, declined>>
vars    == <<tables, gateway, proc>>

Cash == {p \in Payments : Method[p] = "offline"}

(***************************************************************************)
(* Requests in flight.                                                     *)
(***************************************************************************)
PC == {"idle",
       "create", "provider",                        \* initialize
       "verify",                                    \* finalize
       "fail", "settle", "claim", "apply",          \* payment row, plan
       "markPaid", "number", "commit",              \* BillingService.markPaid
       "notify",                                    \* notifyRadiusActivation
       "write"}                                     \* issue, void, overdue

Goals == {"ISSUED", "VOID", "OVERDUE", "none"}

Request == [pc : PC, ref : Payments \cup {None}, doc : Invoices \cup {None},
            goal : Goals, num : Nat, tries : Nat]

Idle == [pc |-> "idle", ref |-> None, doc |-> None,
         goal |-> "none", num |-> 0, tries |-> 0]

At(w, l) == proc[w].pc = l
Goto(w, l) == proc' = [proc EXCEPT ![w].pc = l]
Done(w) == proc' = [proc EXCEPT ![w] = Idle]

\* A request about reference p starts at location l.
Start(w, p, l) ==
    /\ At(w, "idle")
    /\ proc' = [proc EXCEPT ![w] = [Idle EXCEPT !.pc = l, !.ref = p,
                                               !.doc = InvoiceOf[p]]]

(***************************************************************************)
(* Billing: the transition table and the receipt series.                   *)
(***************************************************************************)
\* Variant: what is overdue cannot be paid any more.
TransitionsInTime ==
    [NONE    |-> {},
     DRAFT   |-> {"ISSUED", "VOID"},
     ISSUED  |-> {"OVERDUE", "VOID", "PAID"},
     PAID    |-> {},
     OVERDUE |-> {"VOID"},
     VOID    |-> {}]

TRANSITIONS ==
    [NONE    |-> {},
     DRAFT   |-> {"ISSUED", "VOID"},
     ISSUED  |-> {"OVERDUE", "VOID", "PAID"},
     PAID    |-> {},
     OVERDUE |-> {"PAID", "VOID"},
     VOID    |-> {}]

HasReceipt(p) == \E k \in DOMAIN receipts : receipts[k].ref = p
NumberTaken(n) == \E k \in DOMAIN receipts : receipts[k].number = n

\* Variant: the series starts from zero.
NextReceiptNumberFromZero ==
    IF receipts = << >> THEN 0 ELSE receipts[Len(receipts)].number + 1

NextReceiptNumber ==
    IF receipts = << >> THEN 1 ELSE receipts[Len(receipts)].number + 1

Init ==
    /\ inv = [i \in Invoices |-> "NONE"]
    /\ pay = [p \in Payments |-> "NONE"]
    /\ attempts = {}
    /\ receipts = << >>
    /\ applied = [p \in Payments |-> 0]
    /\ access = [s \in Subscribers |-> FALSE]
    /\ captured = {}
    /\ declined = {}
    /\ proc = [w \in Workers |-> Idle]

(***************************************************************************)
(* Opening a payment: initialize and initializeCustomerPayment.  The       *)
(* reference is random, so nobody else uses it.                            *)
(***************************************************************************)
Fresh(p) == pay[p] = "NONE" /\ \A w \in Workers : proc[w].ref # p

\* initialize refuses a PAID invoice only.
Initialize(w, p) ==
    /\ Method[p] = "admin"
    /\ Fresh(p)
    /\ inv[InvoiceOf[p]] \notin {"NONE", "PAID"}
    /\ Start(w, p, "create")
    /\ UNCHANGED <<tables, gateway>>

\* action = pay_invoice: an invoice that is ISSUED or OVERDUE.
PayInvoice(w, p) ==
    /\ Method[p] = "pay_invoice"
    /\ Fresh(p)
    /\ inv[InvoiceOf[p]] \in {"ISSUED", "OVERDUE"}
    /\ Start(w, p, "create")
    /\ UNCHANGED <<tables, gateway>>

\* renew, change_plan, add_plan: the checkout creates an ISSUED invoice.
OrderPlan(w, p) ==
    /\ Method[p] \in Checkouts \ {"pay_invoice"}
    /\ Fresh(p)
    /\ inv[InvoiceOf[p]] = "NONE"
    /\ inv' = [inv EXCEPT ![InvoiceOf[p]] = "ISSUED"]
    /\ Start(w, p, "create")
    /\ UNCHANGED <<pay, attempts, receipts, applied, access, gateway>>

CreatePayment(w) ==
    /\ At(w, "create")
    /\ pay' = [pay EXCEPT ![proc[w].ref] = "PENDING"]
    /\ Goto(w, "provider")
    /\ UNCHANGED <<inv, attempts, receipts, applied, access, gateway>>

\* The gateway hands out a payment page and the attempt row is written.
ProviderAccepts(w) ==
    /\ At(w, "provider")
    /\ attempts' = attempts \cup {proc[w].ref}
    /\ Done(w)
    /\ UNCHANGED <<inv, pay, receipts, applied, access, gateway>>

ProviderRejects(w) ==
    /\ At(w, "provider")
    /\ pay' = [pay EXCEPT ![proc[w].ref] = "FAILED"]
    /\ Done(w)
    /\ UNCHANGED <<inv, attempts, receipts, applied, access, gateway>>

(***************************************************************************)
(* The gateway (external).  A declined charge may be tried again; captured *)
(* money stays captured.                                                   *)
(***************************************************************************)
Capture(p) ==
    /\ p \in attempts \ captured
    /\ captured' = captured \cup {p}
    /\ UNCHANGED <<tables, declined, proc>>

Decline(p) ==
    /\ p \in attempts \ (captured \cup declined)
    /\ declined' = declined \cup {p}
    /\ UNCHANGED <<tables, captured, proc>>

(***************************************************************************)
(* Webhooks.  A gateway may deliver any notification it has reason to      *)
(* send, any number of times and in any order.                             *)
(***************************************************************************)

\* The attempt's meta.action decides between the customer flow and the plain
\* one.
OnSuccess(p) == IF Method[p] \in Checkouts THEN "claim" ELSE "settle"

\* charge.success, ignored when the payment is already SUCCESSFUL.
PaystackSuccess(w, p) ==
    /\ Provider[p] = "PAYSTACK"
    /\ p \in captured
    /\ pay[p] # "SUCCESSFUL"
    /\ Start(w, p, OnSuccess(p))
    /\ UNCHANGED <<tables, gateway>>

\* charge.failed, whatever the state of the payment.
PaystackFailed(w, p) ==
    /\ Provider[p] = "PAYSTACK"
    /\ p \in declined
    /\ Start(w, p, "fail")
    /\ UNCHANGED <<tables, gateway>>

\* status = 'successful', or event = 'charge.completed' with any status.
FlutterwaveCompleted(w, p) ==
    /\ Provider[p] = "FLUTTERWAVE"
    /\ p \in captured \cup declined
    /\ pay[p] # "SUCCESSFUL"
    /\ Start(w, p, OnSuccess(p))
    /\ UNCHANGED <<tables, gateway>>

\* status = 'failed' in a notification that is not 'charge.completed'.
FlutterwaveFailed(w, p) ==
    /\ Provider[p] = "FLUTTERWAVE"
    /\ p \in declined
    /\ pay[p] # "SUCCESSFUL"
    /\ Start(w, p, "fail")
    /\ UNCHANGED <<tables, gateway>>

\* handleGenericWebhook looks at neither the payment's status nor the meta.
GenericWebhook(w, p) ==
    /\ Provider[p] = "GENERIC"
    /\ \/ p \in captured /\ Start(w, p, "settle")
       \/ p \in declined /\ Start(w, p, "fail")
    /\ UNCHANGED <<tables, gateway>>

FailPayment(w) ==
    /\ At(w, "fail")
    /\ pay' = [pay EXCEPT ![proc[w].ref] = "FAILED"]
    /\ Done(w)
    /\ UNCHANGED <<inv, attempts, receipts, applied, access, gateway>>

SettlePayment(w) ==
    /\ At(w, "settle")
    /\ pay' = [pay EXCEPT ![proc[w].ref] = "SUCCESSFUL"]
    /\ Goto(w, "markPaid")
    /\ UNCHANGED <<inv, attempts, receipts, applied, access, gateway>>

(***************************************************************************)
(* GET payments/customer/verify: finalizeCustomerPayment.                  *)
(***************************************************************************)
Verify(w, p) ==
    /\ pay[p] \notin {"NONE", "SUCCESSFUL"}
    /\ Start(w, p, "verify")
    /\ UNCHANGED <<tables, gateway>>

VerifySuccess(w) ==
    /\ At(w, "verify")
    /\ proc[w].ref \in captured
    /\ Goto(w, "claim")
    /\ UNCHANGED <<tables, gateway>>

VerifyFailed(w) ==
    /\ At(w, "verify")
    /\ proc[w].ref \in declined \ captured
    /\ Goto(w, "fail")
    /\ UNCHANGED <<tables, gateway>>

\* Variants: an inconclusive answer is a failure; it puts the payment back to
\* PENDING.
VerifyGivesUp(w) ==
    /\ At(w, "verify")
    /\ Goto(w, "fail")
    /\ UNCHANGED <<tables, gateway>>

VerifyReopens(w) ==
    /\ At(w, "verify")
    /\ pay' = [pay EXCEPT ![proc[w].ref] = "PENDING"]
    /\ Done(w)
    /\ UNCHANGED <<inv, attempts, receipts, applied, access, gateway>>

\* Abandoned or still open, an error of the gateway or another amount than
\* expected: nothing is written.
VerifyInconclusive(w) ==
    /\ At(w, "verify")
    /\ Done(w)
    /\ UNCHANGED <<tables, gateway>>

(***************************************************************************)
(* completeCustomerPayment: the conditional update that only one caller    *)
(* wins, then the plan.  A reference without meta is applied as 'renew'.   *)
(***************************************************************************)

\* Variant: find, then update without the condition on PENDING.
ClaimUnconditionally(w) ==
    /\ At(w, "claim")
    /\ pay' = [pay EXCEPT ![proc[w].ref] = "SUCCESSFUL"]
    /\ Goto(w, "apply")
    /\ UNCHANGED <<inv, attempts, receipts, applied, access, gateway>>

ClaimPayment(w) ==
    LET p == proc[w].ref IN
    /\ At(w, "claim")
    /\ \/ /\ pay[p] = "PENDING"
          /\ pay' = [pay EXCEPT ![p] = "SUCCESSFUL"]
          /\ Goto(w, "apply")
       \/ /\ pay[p] # "PENDING"
          /\ pay' = pay
          /\ Done(w)
    /\ UNCHANGED <<inv, attempts, receipts, applied, access, gateway>>

ApplyPlan(w) ==
    LET p == proc[w].ref IN
    /\ At(w, "apply")
    /\ applied' = IF Method[p] = "pay_invoice"
                  THEN applied ELSE [applied EXCEPT ![p] = @ + 1]
    /\ Goto(w, "markPaid")
    /\ UNCHANGED <<inv, pay, attempts, receipts, access, gateway>>

(***************************************************************************)
(* recordOfflinePayment: refuses a PAID invoice, then markPaid.            *)
(***************************************************************************)
RecordOffline(w, p) ==
    /\ Method[p] = "offline"
    /\ inv[InvoiceOf[p]] \notin {"NONE", "PAID"}
    /\ Start(w, p, "markPaid")
    /\ UNCHANGED <<tables, gateway>>

(***************************************************************************)
(* BillingService.markPaid with payment data: read and check the invoice,  *)
(* read the last receipt number, then one transaction that is repeated     *)
(* while the receipt number collides.                                      *)
(***************************************************************************)

\* Variant: without assertTransition, PAID excepted.
MarkPaidUnchecked(w) ==
    /\ At(w, "markPaid")
    /\ IF inv[proc[w].doc] # "PAID" THEN Goto(w, "number") ELSE Done(w)
    /\ UNCHANGED <<tables, gateway>>

MarkPaidRead(w) ==
    /\ At(w, "markPaid")
    /\ IF "PAID" \in TRANSITIONS[inv[proc[w].doc]]
       THEN Goto(w, "number")
       ELSE Done(w)
    /\ UNCHANGED <<tables, gateway>>

ReadReceiptNumber(w) ==
    /\ At(w, "number")
    /\ proc' = [proc EXCEPT ![w].pc = "commit", ![w].num = NextReceiptNumber]
    /\ UNCHANGED <<tables, gateway>>

\* Variant: no look at the receipts of the reference.
AddReceiptAlways(w) ==
    receipts' = Append(receipts, [number |-> proc[w].num,
                                  ref |-> proc[w].ref])

\* The receipt is created unless the reference has one.
AddReceipt(w) ==
    receipts' = IF HasReceipt(proc[w].ref) THEN receipts
                ELSE Append(receipts, [number |-> proc[w].num,
                                       ref |-> proc[w].ref])

Collides(w) == ~HasReceipt(proc[w].ref) /\ NumberTaken(proc[w].num)

MarkPaidCommit(w) ==
    /\ At(w, "commit")
    /\ ~Collides(w)
    /\ pay' = [pay EXCEPT ![proc[w].ref] = "SUCCESSFUL"]
    /\ AddReceipt(w)
    /\ inv' = [inv EXCEPT ![proc[w].doc] = "PAID"]
    /\ Goto(w, "notify")
    /\ UNCHANGED <<attempts, applied, access, gateway>>

\* Variants: the invoice update outside the transaction; a retry with the
\* number that has just collided.
PaidDespiteCollision(w) ==
    /\ At(w, "commit")
    /\ Collides(w)
    /\ inv' = [inv EXCEPT ![proc[w].doc] = "PAID"]
    /\ Goto(w, "number")
    /\ UNCHANGED <<pay, attempts, receipts, applied, access, gateway>>

RetryStaleNumber(w) ==
    /\ At(w, "commit")
    /\ Collides(w)
    /\ Goto(w, "commit")
    /\ UNCHANGED <<tables, gateway>>

MarkPaidCollision(w) ==
    /\ At(w, "commit")
    /\ Collides(w)
    /\ IF proc[w].tries + 1 < MaxAttempts
       THEN proc' = [proc EXCEPT ![w].pc = "number", ![w].tries = @ + 1]
       ELSE Done(w)
    /\ UNCHANGED <<tables, gateway>>

\* notifyRadiusActivation: the call may be lost, nobody is told.
NotifyRadius(w) ==
    LET s == SubscriberOf[proc[w].doc] IN
    /\ At(w, "notify")
    /\ access' \in {access, [access EXCEPT ![s] = TRUE]}
    /\ Done(w)
    /\ UNCHANGED <<inv, pay, attempts, receipts, applied, gateway>>

(***************************************************************************)
(* BillingService.create, issue, voidInvoice, markOverdue: read, check the *)
(* transition, write.                                                      *)
(***************************************************************************)
CreateInvoice(i) ==
    /\ inv[i] = "NONE"
    /\ inv' = [inv EXCEPT ![i] = "DRAFT"]
    /\ UNCHANGED <<pay, attempts, receipts, applied, access, gateway, proc>>

ChangeStatus(w, i, target) ==
    /\ At(w, "idle")
    /\ target \in TRANSITIONS[inv[i]]
    /\ proc' = [proc EXCEPT ![w] = [Idle EXCEPT !.pc = "write", !.doc = i,
                                               !.goal = target]]
    /\ UNCHANGED <<tables, gateway>>

WriteStatus(w) ==
    /\ At(w, "write")
    /\ inv' = [inv EXCEPT ![proc[w].doc] = proc[w].goal]
    /\ Done(w)
    /\ UNCHANGED <<pay, attempts, receipts, applied, access, gateway>>

\* The service stops between two awaits; the request is never resumed.
Crash(w) ==
    /\ CanCrash
    /\ ~At(w, "idle")
    /\ Done(w)
    /\ UNCHANGED <<tables, gateway>>

(***************************************************************************)
(* The specification.                                                      *)
(***************************************************************************)
Arrive(w, p) ==
    \/ Initialize(w, p) \/ PayInvoice(w, p) \/ OrderPlan(w, p)
    \/ PaystackSuccess(w, p) \/ PaystackFailed(w, p)
    \/ FlutterwaveCompleted(w, p) \/ FlutterwaveFailed(w, p)
    \/ GenericWebhook(w, p)
    \/ Verify(w, p) \/ RecordOffline(w, p)

\* The next step of a request that is in flight.
Continue(w) ==
    \/ CreatePayment(w) \/ ProviderAccepts(w) \/ ProviderRejects(w)
    \/ FailPayment(w) \/ SettlePayment(w)
    \/ VerifySuccess(w) \/ VerifyFailed(w) \/ VerifyInconclusive(w)
    \/ ClaimPayment(w) \/ ApplyPlan(w)
    \/ MarkPaidRead(w) \/ ReadReceiptNumber(w)
    \/ MarkPaidCommit(w) \/ MarkPaidCollision(w)
    \/ NotifyRadius(w) \/ WriteStatus(w)

Next ==
    \/ \E w \in Workers, p \in Payments : Arrive(w, p)
    \/ \E w \in Workers, i \in Invoices :
          \E target \in {"ISSUED", "VOID", "OVERDUE"} :
             ChangeStatus(w, i, target)
    \/ \E w \in Workers : Continue(w) \/ Crash(w)
    \/ \E p \in Payments : Capture(p) \/ Decline(p)
    \/ \E i \in Invoices : CreateInvoice(i)

Spec == Init /\ [][Next]_vars

-------------------------------------------------------------------------------
(***************************************************************************)
(* Properties.                                                             *)
(***************************************************************************)
ReceiptRow == [number : Nat \ {0}, ref : Payments]

\* Every table and every request in flight has the shape of its rows.
TypeOK ==
    /\ inv \in [Invoices -> InvoiceStatus \cup {"NONE"}]
    /\ pay \in [Payments -> PaymentStatus \cup {"NONE"}]
    /\ attempts \subseteq Payments
    /\ receipts \in Seq(ReceiptRow)
    /\ applied \in [Payments -> Nat]
    /\ access \in [Subscribers -> BOOLEAN]
    /\ captured \subseteq Payments
    /\ declined \subseteq Payments
    /\ proc \in [Workers -> Request]

\* completeCustomerPayment's claim: however webhook deliveries, redirects to
\* verify and restarts interleave, a reference changes the plan at most once.
AppliedAtMostOnce == \A p \in Payments : applied[p] <= 1

\* markPaid's receipts: one per transactionRef, although the column is not
\* unique and two requests can be inside markPaid for the same reference.
OneReceiptPerReference ==
    \A j, k \in DOMAIN receipts : receipts[j].ref = receipts[k].ref => j = k

\* The receipt series read outside the transaction has no gap and no repeat:
\* the k-th receipt carries number k.
ReceiptsNumberedInOrder ==
    \A k \in DOMAIN receipts : receipts[k].number = k

\* Nobody gets a receipt or a plan change for money that was never received:
\* every path into markPaid or the plan starts from captured money or cash.
NothingForFree ==
    /\ \A k \in DOMAIN receipts : receipts[k].ref \in captured \cup Cash
    /\ \A p \in Payments : applied[p] > 0 => p \in captured

\* A receipt or a plan change is never written for a payment that is still
\* open: whoever settles a payment takes it out of PENDING first, and nothing
\* reopens it, so no later delivery can settle it again.
SettledIsClosed ==
    \A p \in Payments :
        applied[p] > 0 \/ HasReceipt(p) => pay[p] \notin {"NONE", "PENDING"}

\* An invoice is PAID only with the receipt of one of its own payments, even
\* when a stale status write and two payments meet on it.  (The callers that
\* mark an invoice PAID without payment data write no receipt: module Wallet.)
PaidHasReceipt ==
    \A i \in Invoices :
        inv[i] = "PAID" => \E p \in Payments : InvoiceOf[p] = i /\ HasReceipt(p)

\* However stale the status a request has read, an invoice leaves DRAFT only
\* by being issued or voided: it is never paid or overdue unissued.
DraftIsIssuedFirst ==
    [][\A i \in Invoices :
         inv[i] = "DRAFT" => inv'[i] \in {"DRAFT", "ISSUED", "VOID"}]_inv

(***************************************************************************)
(* The abstract specification, over the tables of this one.                *)
(***************************************************************************)
S == INSTANCE Settlement WITH applied <- {p \in Payments : applied[p] > 0}

\* The handlers implement the settlement promise: money first, then at most
\* one plan change and one receipt per reference, numbered in order.
ImplementsSettlement == S!Spec

(***************************************************************************)
(* Liveness.  A request runs on while the service is up, and the gateway   *)
(* repeats a success notification until it is accepted.                    *)
(***************************************************************************)
SuccessNotice(w, p) ==
    \/ PaystackSuccess(w, p)
    \/ FlutterwaveCompleted(w, p)
    \/ p \in captured /\ GenericWebhook(w, p)

FairSpec ==
    /\ Spec
    /\ \A w \in Workers : WF_vars(Continue(w))
    /\ \A p \in Payments : SF_vars(\E w \in Workers : SuccessNotice(w, p))

\* Every request ends: the retry loop on receipt numbers always gets through
\* or gives up.
RequestsEnd == \A w \in Workers : ~At(w, "idle") ~> At(w, "idle")

\* Captured money is booked although webhooks, redirects to verify and other
\* requests compete for the reference, unless a charge of it was declined.
CapturedIsBooked ==
    \A p \in Payments :
        p \in captured ~> pay[p] = "SUCCESSFUL" \/ p \in declined

(***************************************************************************)
(* What the code and the documents say and the code does not keep.         *)
(***************************************************************************)

\* completeCustomerPayment, on a lost claim: "Customer payment already
\* completed elsewhere".
LostClaimIsCompleted ==
    [][\A w \in Workers :
         At(w, "claim") /\ At(w, "idle")' =>
            pay[proc[w].ref] \in {"SUCCESSFUL", "REFUNDED"}]_vars
===============================================================================
