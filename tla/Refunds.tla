-------------------------------- MODULE Refunds --------------------------------
(***************************************************************************)
(* Refunds of payments, beside all of Payments.                            *)
(*   apps/payments-service/src/modules/payments/payments.service.ts        *)
(* A desk is one request about refunds in flight.  Approval and processing *)
(* read the refund and write it by id; a rejection only writes.            *)
(***************************************************************************)
EXTENDS Payments

CONSTANTS
    Desks,
    MaxCalls        \* bound on the requests about refunds

ASSUME RefundsAssumption == MaxCalls \in Nat /\ Workers \cap Desks = {}

VARIABLES
    refunds,    \* Refund rows in the order of createdAt
    desk,       \* requests about refunds
    calls,      \* how many there have been
    refused,    \* history: refunds that were rejected
    paidOut,    \* history: refunds that were processed after a rejection
    argued,     \* history: refunds two requests were about at once
    crowded,    \* history: invoices two requests were about at once
    cut         \* history: completed references a request of which was cut off
                \* or gave up on the receipt number

refundTables == <<refunds, refused, paidOut>>
refundVars == <<vars, refundTables, desk, calls, argued, crowded, cut>>

About(pc, ref, id) == [pc |-> pc, ref |-> ref, id |-> id, num |-> 0, tries |-> 0]
Away == About("idle", None, 0)
DeskAt(d, l) == desk[d].pc = l
Leave(d) == desk' = [desk EXCEPT ![d] = Away]
Proceed(d, request) == desk' = [desk EXCEPT ![d] = request]
Write(d, status) == refunds' = [refunds EXCEPT ![desk[d].id].status = status]
Untouched == UNCHANGED <<vars, cut>>
Called(d) == DeskAt(d, "idle") /\ calls < MaxCalls /\ calls' = calls + 1

RefundsInit ==
    /\ Init
    /\ refunds = << >>
    /\ desk = [d \in Desks |-> Away]
    /\ calls = 0
    /\ refused = {} /\ paidOut = {} /\ argued = {} /\ crowded = {} /\ cut = {}

NextRefundNumber ==
    IF refunds = << >> THEN 1 ELSE refunds[Len(refunds)].number + 1

RefundNumberTaken(n) == \E k \in DOMAIN refunds : refunds[k].number = n

-----------------------------------------------------------------------------
(* requestRefund.                                                          *)

RequestRefund(d, p) ==
    /\ Called(d)
    /\ pay[p] = "SUCCESSFUL"
    /\ Proceed(d, About("number", p, 0))
    /\ UNCHANGED refundTables /\ Untouched

ReadRefundNumber(d) ==
    /\ DeskAt(d, "number")
    /\ desk' = [desk EXCEPT ![d].pc = "create", ![d].num = NextRefundNumber]
    /\ UNCHANGED <<refundTables, calls>> /\ Untouched

CreateRefund(d) ==
    /\ DeskAt(d, "create") /\ ~RefundNumberTaken(desk[d].num)
    /\ refunds' = Append(refunds, [number |-> desk[d].num, payment |-> desk[d].ref,
                                   status |-> "PENDING"])
    /\ Leave(d)
    /\ UNCHANGED <<refused, paidOut, calls>> /\ Untouched

\* refundNumber is unique: once more with a fresh one, or an error.
RefundCollision(d) ==
    /\ DeskAt(d, "create") /\ RefundNumberTaken(desk[d].num)
    /\ IF desk[d].tries + 1 < MaxAttempts
         THEN desk' = [desk EXCEPT ![d].pc = "number", ![d].tries = @ + 1]
         ELSE Leave(d)
    /\ UNCHANGED <<refundTables, calls>> /\ Untouched

-----------------------------------------------------------------------------
(* approveRefund, processRefund, rejectRefund.                             *)

Consider(d, k, l) ==
    /\ Called(d)
    /\ Proceed(d, About(l, refunds[k].payment, k))
    /\ UNCHANGED refundTables /\ Untouched

\* Mutant: a rejected refund can be approved.
ApproveUnlessProcessed(d, k) ==
    refunds[k].status # "PROCESSED" /\ Consider(d, k, "approve")

ApproveRefund(d, k) == refunds[k].status = "PENDING" /\ Consider(d, k, "approve")

WriteApproval(d) ==
    /\ DeskAt(d, "approve")
    /\ Write(d, "APPROVED")
    /\ Leave(d)
    /\ UNCHANGED <<refused, paidOut, calls>> /\ Untouched

ProcessRefund(d, k) == refunds[k].status = "APPROVED" /\ Consider(d, k, "process")

RefundPayment(p) == pay' = [pay EXCEPT ![p] = "REFUNDED"]

\* One transaction: the refund, the payment, the invoice.
WriteRefund(d) ==
    LET k == desk[d].id
        p == desk[d].ref IN
    /\ DeskAt(d, "process")
    /\ Write(d, "PROCESSED")
    /\ RefundPayment(p)
    /\ inv' = [inv EXCEPT ![InvoiceOf[p]] = "VOID"]
    /\ paidOut' = IF k \in refused THEN paidOut \cup {k} ELSE paidOut
    /\ Leave(d)
    /\ UNCHANGED <<attempts, receipts, applied, access, gateway, proc, refused, calls, cut>>

\* A rejection reads nothing.
RejectRefund(d, k) ==
    /\ Called(d)
    /\ refunds' = [refunds EXCEPT ![k].status = "REJECTED"]
    /\ refused' = refused \cup {k}
    /\ UNCHANGED <<desk, paidOut>> /\ Untouched

RefundCut(d) ==
    /\ CanCrash /\ ~DeskAt(d, "idle")
    /\ Leave(d)
    /\ UNCHANGED <<refundTables, calls>> /\ Untouched

-----------------------------------------------------------------------------

Decide(d, k) == ApproveRefund(d, k) \/ ProcessRefund(d, k) \/ RejectRefund(d, k)

DeskStep(d) ==
    \/ \E p \in Payments : RequestRefund(d, p)
    \/ \E k \in DOMAIN refunds : Decide(d, k)
    \/ ReadRefundNumber(d) \/ CreateRefund(d) \/ RefundCollision(d)
    \/ WriteApproval(d) \/ WriteRefund(d) \/ RefundCut(d)

\* Checkouts that have been claimed and have no receipt.
Completed ==
    {p \in Payments : Method[p] \in Checkouts /\ pay[p] = "SUCCESSFUL" /\ ~HasReceipt(p)}

\* markPaid has tried as many receipt numbers as it may.
OutOfNumbers(w) ==
    At(w, "commit") /\ Collides(w) /\ proc[w].tries + 1 >= MaxAttempts

Unreceipted(w) == Completed \cap {proc[w].ref}

PaymentStep ==
    /\ \/ /\ \/ \E w \in Workers, p \in Payments : Arrive(w, p)
             \/ \E w \in Workers, i \in Invoices :
                   \E target \in {"ISSUED", "VOID", "OVERDUE"} : ChangeStatus(w, i, target)
             \/ \E p \in Payments : Capture(p) \/ Decline(p)
             \/ \E i \in Invoices : CreateInvoice(i)
          /\ UNCHANGED cut
       \/ \E w \in Workers :
             /\ Continue(w)
             /\ cut' = IF OutOfNumbers(w) THEN cut \cup Unreceipted(w) ELSE cut
       \/ \E w \in Workers : Crash(w) /\ cut' = cut \cup Unreceipted(w)
    /\ UNCHANGED <<refundTables, desk, calls>>

\* Requests about a refund, and all requests about an invoice.
AboutRefund(k) == {d \in Desks : desk[d].id = k}
AboutInvoice(i) ==
    {w \in Workers : proc[w].doc = i}
    \cup {d \in Desks : DeskAt(d, "process") /\ InvoiceOf[desk[d].ref] = i}

Crowd(requests) == \E a, b \in requests : a # b

Record ==
    /\ argued' = argued \cup {k \in DOMAIN refunds' : Crowd(AboutRefund(k)')}
                        \cup {k \in refused' \ refused : AboutRefund(k) # {}}
    /\ crowded' = crowded \cup {i \in Invoices : Crowd(AboutInvoice(i)')}

RefundsNext == (PaymentStep \/ \E d \in Desks : DeskStep(d)) /\ Record

RefundsSpec == RefundsInit /\ [][RefundsNext]_refundVars

-----------------------------------------------------------------------------

RefundStatus == {"PENDING", "APPROVED", "REJECTED", "PROCESSED"}

\* Rows have the shape of the schema, and the series of refund numbers, read
\* outside the insert, has neither gap nor repeat (payments.service.ts:731-749).
RefundsTypeOK ==
    \A k \in DOMAIN refunds :
        /\ refunds[k].number = k
        /\ refunds[k].payment \in Payments /\ refunds[k].status \in RefundStatus

\* Money is given back that was received: every refund is of a payment the
\* gateway holds or that was cash, whatever came in between.  Flutterwave's
\* are left out: its notifications of declined charges settle as well
\* (payments.service.ts:726 and 931).
RefundsAreFunded ==
    \A k \in DOMAIN refunds :
        LET p == refunds[k].payment IN
        Provider[p] # "FLUTTERWAVE" => p \in captured \cup Cash

\* A refund that was rejected is not paid out afterwards, unless another
\* request about it was under way (payments.service.ts:755 and 767).
RejectedIsNotPaidOut == paidOut \subseteq argued

\* The refunds are numbered in order, are of money that was received, and none
\* is paid out after its rejection (payments.service.ts:724-794).
RefundsInv == RefundsTypeOK /\ RefundsAreFunded /\ RejectedIsNotPaidOut

\* A refunded checkout stays refunded although its notification is delivered
\* again and the customer verifies again, unless a request about the invoice
\* was under way at the time of the refund, a charge was declined, or the
\* generic webhook reports on it (payments.service.ts:357-366, 421 and 840).
RefundStands ==
    [][\A p \in Payments :
          /\ Method[p] \in Checkouts /\ Provider[p] # "GENERIC"
          /\ p \notin declined /\ InvoiceOf[p] \notin crowded
          /\ pay[p] = "REFUNDED"
          => pay'[p] = "REFUNDED"]_refundVars

\* The status of an invoice follows the transition table, and PAID becomes
\* VOID by a refund only, unless requests about the invoice overlapped
\* (billing.service.ts:12-18 and 309-316, payments.service.ts:778-781).
TransitionsHold ==
    [][\A i \in Invoices \ crowded' :
          inv[i] \notin {"NONE", inv'[i]} =>
             \/ inv'[i] \in TRANSITIONS[inv[i]]
             \/ refunds' # refunds /\ inv'[i] = "VOID"]_refundVars

\* A completed checkout has its receipt, unless the invoice was voided or paid
\* with another reference before, requests about it overlapped, or its request
\* was cut off or found every receipt number it tried taken
\* (payments.service.ts:357-398, billing.service.ts:309-354).
CompletedIsReceipted ==
    \A p \in Payments :
        LET i == InvoiceOf[p] IN
        /\ p \in Completed \ cut /\ i \notin crowded
        /\ \A w \in Workers : proc[w].ref # p
        => \/ \E q \in Payments : InvoiceOf[q] = i /\ HasReceipt(q)
           \/ inv[i] = "VOID"
===============================================================================
