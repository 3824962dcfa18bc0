---------------------------- MODULE PaymentsProofs ----------------------------
(***************************************************************************)
(* Theorems about Payments, for any number of invoices, payments and       *)
(* requests in flight.                                                     *)
(***************************************************************************)
EXTENDS Payments, TLAPS

(***************************************************************************)
(* The requests in flight, by what they may still do.                      *)
(***************************************************************************)
MarkingPaid == {"markPaid", "number", "commit", "notify"}
OnPayment == {"create", "provider", "verify", "fail", "settle", "claim",
              "apply"} \cup MarkingPaid

\* A request on a payment works on that payment's invoice; a status change
\* has an invoice and a goal.
RequestInv ==
    \A w \in Workers :
        /\ proc[w].pc \in OnPayment =>
              /\ proc[w].ref \in Payments
              /\ proc[w].doc = InvoiceOf[proc[w].ref]
        /\ proc[w].pc = "write" =>
              /\ proc[w].doc \in Invoices
              /\ proc[w].goal \in {"ISSUED", "VOID", "OVERDUE"}
        /\ proc[w].pc = "commit" => proc[w].num > 0

\* The types as they are inductive.
TypeInv == TypeOK /\ RequestInv

\* A worker without a request has a well-formed record.
LEMMA IdleType == Idle \in Request
BY DEF Idle, Request, PC, Goals

\* A request that starts on a payment, moves on or ends keeps its shape.
LEMMA StartType ==
    ASSUME TypeInv, NEW w \in Workers, NEW p \in Payments,
           NEW l \in OnPayment \ {"commit"}, Start(w, p, l)
    PROVE  proc' \in [Workers -> Request] /\ RequestInv'
BY ConstantsAssumption
   DEF TypeInv, TypeOK, RequestInv, Start, At, Idle, Request, PC, Goals,
       OnPayment, MarkingPaid

\* A request that moves on within its handler keeps its shape.
LEMMA GotoType ==
    ASSUME TypeInv, NEW w \in Workers, NEW l \in OnPayment, Goto(w, l),
           proc[w].pc \in OnPayment, l # "commit"
    PROVE  proc' \in [Workers -> Request] /\ RequestInv'
<1>1. proc \in [Workers -> Request] /\ l \in PC
  BY DEF TypeInv, TypeOK, OnPayment, MarkingPaid, PC
<1>2. [proc[w] EXCEPT !.pc = l] \in Request
  BY <1>1 DEF Request
<1>3. proc' = [proc EXCEPT ![w] = [proc[w] EXCEPT !.pc = l]]
  BY <1>1 DEF Goto
<1>4. proc' \in [Workers -> Request]
  BY <1>1, <1>2, <1>3
<1>5. RequestInv'
  BY <1>1, <1>3 DEF TypeInv, RequestInv, Request, OnPayment, MarkingPaid
<1> QED BY <1>4, <1>5

\* A request that ends leaves a well-formed record behind.
LEMMA DoneType ==
    ASSUME TypeInv, NEW w \in Workers, Done(w)
    PROVE  proc' \in [Workers -> Request] /\ RequestInv'
BY IdleType
   DEF TypeInv, TypeOK, RequestInv, Done, Idle, OnPayment, MarkingPaid

\* nextReceiptNumber yields a number from 1 on.
LEMMA ReceiptNumberType ==
    ASSUME receipts \in Seq(ReceiptRow)
    PROVE  NextReceiptNumber \in Nat \ {0}
<1>1. CASE receipts = << >>
  BY <1>1 DEF NextReceiptNumber
<1>2. CASE receipts # << >>
  <2>1. receipts[Len(receipts)] \in ReceiptRow
    BY <1>2, Len(receipts) \in 1..Len(receipts)
  <2> QED BY <1>2, <2>1 DEF NextReceiptNumber, ReceiptRow
<1> QED BY <1>1, <1>2

\* The tables and the requests keep their types.  TypeOK alone is not
\* inductive: a write takes its row from the request.
LEMMA TypeStep == TypeInv /\ [Next]_vars => TypeInv'
<1> SUFFICES ASSUME TypeInv, [Next]_vars PROVE TypeInv'
  OBVIOUS
<1> USE DEF tables, gateway
<1>1. ASSUME NEW w \in Workers, NEW p \in Payments, Arrive(w, p)
      PROVE  TypeInv'
  <2>1. CASE OrderPlan(w, p)
    <3>1. inv' \in [Invoices -> InvoiceStatus \cup {"NONE"}]
      BY <2>1, ConstantsAssumption
         DEF OrderPlan, TypeInv, TypeOK, InvoiceStatus
    <3>2. proc' \in [Workers -> Request] /\ RequestInv'
      BY <2>1, StartType DEF OrderPlan, OnPayment
    <3> QED BY <2>1, <3>1, <3>2 DEF OrderPlan, TypeInv, TypeOK
  <2>2. CASE ~OrderPlan(w, p)
    <3>1. UNCHANGED <<tables, gateway>>
      BY <1>1, <2>2 DEF Arrive, Initialize, PayInvoice, PaystackSuccess,
         PaystackFailed, FlutterwaveCompleted, FlutterwaveFailed,
         GenericWebhook, Verify, RecordOffline
    <3>2. \E l \in OnPayment \ {"commit"} : Start(w, p, l)
      BY <1>1, <2>2 DEF Arrive, Initialize, PayInvoice, PaystackSuccess,
         PaystackFailed, FlutterwaveCompleted, FlutterwaveFailed,
         GenericWebhook, Verify, RecordOffline, OnSuccess, OnPayment,
         MarkingPaid
    <3>3. proc' \in [Workers -> Request] /\ RequestInv'
      BY <3>2, StartType
    <3> QED BY <3>1, <3>3 DEF TypeInv, TypeOK
  <2> QED BY <2>1, <2>2
<1>2. ASSUME NEW w \in Workers, NEW i \in Invoices,
             NEW target \in {"ISSUED", "VOID", "OVERDUE"},
             ChangeStatus(w, i, target)
      PROVE  TypeInv'
  BY <1>2 DEF ChangeStatus, TypeInv, TypeOK, RequestInv, Idle, Request, PC,
     Goals, OnPayment, MarkingPaid
<1>3. ASSUME NEW w \in Workers, Continue(w)
      PROVE  TypeInv'
  <2>1. CASE CreatePayment(w)
    BY <2>1, GotoType DEF CreatePayment, At, TypeInv, TypeOK, RequestInv,
       OnPayment, PaymentStatus
  <2>2. CASE ProviderAccepts(w)
    BY <2>2, DoneType DEF ProviderAccepts, At, TypeInv, TypeOK, RequestInv,
       OnPayment
  <2>3. CASE ProviderRejects(w)
    BY <2>3, DoneType DEF ProviderRejects, At, TypeInv, TypeOK, RequestInv,
       OnPayment, PaymentStatus
  <2>4. CASE FailPayment(w)
    BY <2>4, DoneType DEF FailPayment, At, TypeInv, TypeOK, RequestInv,
       OnPayment, PaymentStatus
  <2>5. CASE SettlePayment(w)
    BY <2>5, GotoType DEF SettlePayment, At, TypeInv, TypeOK, RequestInv,
       OnPayment, MarkingPaid, PaymentStatus
  <2>6. CASE VerifySuccess(w)
    BY <2>6, GotoType DEF VerifySuccess, At, TypeInv, TypeOK, OnPayment
  <2>7. CASE VerifyFailed(w)
    BY <2>7, GotoType DEF VerifyFailed, At, TypeInv, TypeOK, OnPayment
  <2>8. CASE VerifyInconclusive(w)
    BY <2>8, DoneType DEF VerifyInconclusive, TypeInv, TypeOK
  <2>9. CASE ClaimPayment(w)
    <3>1. proc[w].pc \in OnPayment /\ proc[w].ref \in Payments
      BY <2>9 DEF ClaimPayment, At, TypeInv, RequestInv, OnPayment
    <3>2. proc' \in [Workers -> Request] /\ RequestInv'
      BY <2>9, <3>1, GotoType, DoneType DEF ClaimPayment, OnPayment
    <3>3. pay' \in [Payments -> PaymentStatus \cup {"NONE"}]
      BY <2>9, <3>1 DEF ClaimPayment, TypeInv, TypeOK, PaymentStatus
    <3> QED BY <2>9, <3>2, <3>3 DEF ClaimPayment, TypeInv, TypeOK
  <2>10. CASE ApplyPlan(w)
    <3>1. proc[w].pc \in OnPayment /\ proc[w].ref \in Payments
      BY <2>10 DEF ApplyPlan, At, TypeInv, RequestInv, OnPayment
    <3>2. proc' \in [Workers -> Request] /\ RequestInv'
      BY <2>10, <3>1, GotoType DEF ApplyPlan, OnPayment, MarkingPaid
    <3>3. applied' \in [Payments -> Nat]
      BY <2>10, <3>1 DEF ApplyPlan, TypeInv, TypeOK
    <3> QED BY <2>10, <3>2, <3>3 DEF ApplyPlan, TypeInv, TypeOK
  <2>11. CASE MarkPaidRead(w)
    <3>1. proc[w].pc \in OnPayment
      BY <2>11 DEF MarkPaidRead, At, OnPayment, MarkingPaid
    <3>2. proc' \in [Workers -> Request] /\ RequestInv'
      BY <2>11, <3>1, GotoType, DoneType DEF MarkPaidRead, OnPayment, MarkingPaid
    <3> QED BY <2>11, <3>2 DEF MarkPaidRead, TypeInv, TypeOK
  <2>12. CASE ReadReceiptNumber(w)
    <3>1. NextReceiptNumber \in Nat \ {0}
      BY ReceiptNumberType DEF TypeInv, TypeOK
    <3>2. proc' = [proc EXCEPT ![w] = [proc[w] EXCEPT !.pc = "commit",
                                                     !.num = NextReceiptNumber]]
      BY <2>12 DEF ReadReceiptNumber, TypeInv, TypeOK
    <3>3. proc' \in [Workers -> Request]
      <4>1. proc[w] \in Request
        BY DEF TypeInv, TypeOK
      <4>2. [proc[w] EXCEPT !.pc = "commit",
                            !.num = NextReceiptNumber] \in Request
        BY <3>1, <4>1 DEF Request, PC
      <4> QED BY <3>2, <4>2 DEF TypeInv, TypeOK
    <3>4. RequestInv'
      <4>1. /\ proc[w].pc = "number"
            /\ proc'[w].pc = "commit" /\ proc'[w].num > 0
            /\ proc'[w].ref = proc[w].ref /\ proc'[w].doc = proc[w].doc
        BY <2>12, <3>1, <3>2 DEF ReadReceiptNumber, At, TypeInv, TypeOK, Request
      <4>2. \A v \in Workers \ {w} : proc'[v] = proc[v]
        BY <3>2 DEF TypeInv, TypeOK
      <4> QED BY <4>1, <4>2 DEF TypeInv, RequestInv, OnPayment, MarkingPaid
    <3> QED BY <2>12, <3>3, <3>4 DEF ReadReceiptNumber, TypeInv, TypeOK
  <2>13. CASE MarkPaidCommit(w)
    <3>1. /\ proc[w].pc \in OnPayment /\ proc[w].ref \in Payments
          /\ proc[w].doc = InvoiceOf[proc[w].ref] /\ proc[w].num > 0
      BY <2>13 DEF MarkPaidCommit, At, TypeInv, RequestInv, OnPayment,
         MarkingPaid
    <3>6. proc[w].doc \in Invoices /\ proc[w].num \in Nat \ {0}
      BY <3>1, ConstantsAssumption DEF TypeInv, TypeOK, Request
    <3>2. proc' \in [Workers -> Request] /\ RequestInv'
      BY <2>13, <3>1, GotoType DEF MarkPaidCommit, OnPayment, MarkingPaid
    <3>3. pay' \in [Payments -> PaymentStatus \cup {"NONE"}]
      BY <2>13, <3>1 DEF MarkPaidCommit, TypeInv, TypeOK, PaymentStatus
    <3>4. inv' \in [Invoices -> InvoiceStatus \cup {"NONE"}]
      BY <2>13, <3>6 DEF MarkPaidCommit, TypeInv, TypeOK, InvoiceStatus
    <3>5. receipts' \in Seq(ReceiptRow)
      <4>1. [number |-> proc[w].num, ref |-> proc[w].ref] \in ReceiptRow
        BY <3>1, <3>6 DEF ReceiptRow
      <4> QED BY <2>13, <4>1 DEF MarkPaidCommit, AddReceipt, TypeInv, TypeOK
    <3> QED BY <2>13, <3>2, <3>3, <3>4, <3>5 DEF MarkPaidCommit, TypeInv, TypeOK
  <2>14. CASE MarkPaidCollision(w)
    <3>1. CASE Done(w)
      BY <2>14, <3>1, DoneType DEF MarkPaidCollision, TypeInv, TypeOK
    <3>2. CASE ~Done(w)
      <4>1. proc' = [proc EXCEPT ![w] = [proc[w] EXCEPT !.pc = "number",
                                                !.tries = proc[w].tries + 1]]
        BY <2>14, <3>2 DEF MarkPaidCollision, TypeInv, TypeOK
      <4>2. proc' \in [Workers -> Request]
        <5>1. proc[w] \in Request /\ proc[w].tries + 1 \in Nat
          BY DEF TypeInv, TypeOK, Request
        <5>2. [proc[w] EXCEPT !.pc = "number",
                              !.tries = proc[w].tries + 1] \in Request
          BY <5>1 DEF Request, PC
        <5> QED BY <4>1, <5>2 DEF TypeInv, TypeOK
      <4>3. RequestInv'
        BY <2>14, <4>1 DEF MarkPaidCollision, At, TypeInv, TypeOK, RequestInv,
           Request, OnPayment, MarkingPaid
      <4> QED BY <2>14, <4>2, <4>3 DEF MarkPaidCollision, TypeInv, TypeOK
    <3> QED BY <3>1, <3>2
  <2>15. CASE NotifyRadius(w)
    <3>1. access' \in [Subscribers -> BOOLEAN]
      BY <2>15, ConstantsAssumption DEF NotifyRadius, TypeInv, TypeOK
    <3> QED BY <2>15, <3>1, DoneType DEF NotifyRadius, TypeInv, TypeOK
  <2>16. CASE WriteStatus(w)
    <3>1. inv' \in [Invoices -> InvoiceStatus \cup {"NONE"}]
      BY <2>16 DEF WriteStatus, At, TypeInv, TypeOK, RequestInv, InvoiceStatus
    <3> QED BY <2>16, <3>1, DoneType DEF WriteStatus, TypeInv, TypeOK
  <2> QED BY <1>3, <2>1, <2>2, <2>3, <2>4, <2>5, <2>6, <2>7, <2>8, <2>9,
             <2>10, <2>11, <2>12, <2>13, <2>14, <2>15, <2>16 DEF Continue
<1>4. ASSUME NEW w \in Workers, Crash(w)
      PROVE  TypeInv'
  BY <1>4, DoneType DEF Crash, TypeInv, TypeOK
<1>5. ASSUME NEW p \in Payments, Capture(p) \/ Decline(p)
      PROVE  TypeInv'
  BY <1>5 DEF Capture, Decline, TypeInv, TypeOK, RequestInv
<1>6. ASSUME NEW i \in Invoices, CreateInvoice(i)
      PROVE  TypeInv'
  BY <1>6 DEF CreateInvoice, TypeInv, TypeOK, RequestInv, InvoiceStatus
<1>7. CASE UNCHANGED vars
  BY <1>7 DEF vars, TypeInv, TypeOK, RequestInv
<1> QED BY <1>1, <1>2, <1>3, <1>4, <1>5, <1>6, <1>7 DEF Next

\* Type correctness: whatever the handlers and the gateway do, every row and
\* every request in flight is one the schema and the code allow.
THEOREM TypeCorrect == Spec => []TypeOK
<1>1. Init => TypeInv
  BY IdleType DEF Init, TypeInv, TypeOK, RequestInv, Idle, OnPayment,
     MarkingPaid
<1>2. TypeInv => TypeOK
  BY DEF TypeInv
<1> QED BY <1>1, <1>2, TypeStep, PTL DEF Spec

-------------------------------------------------------------------------------
(***************************************************************************)
(* The claim.  A reference can be settled only after it was opened, and    *)
(* the request that won the claim is alone with it until the plan is       *)
(* applied.                                                                *)
(***************************************************************************)

\* Rows the gateway knows about were opened by initialize.
OpenedInv ==
    /\ captured \cup declined \subseteq attempts
    /\ \A p \in attempts : pay[p] # "NONE" /\ Method[p] # "offline"

\* The request that opens a reference is the only one that knows it.
CreateInv ==
    \A w \in Workers :
        /\ proc[w].pc = "create" =>
              /\ pay[proc[w].ref] = "NONE"
              /\ Method[proc[w].ref] # "offline"
              /\ \A v \in Workers : v # w => proc[v].ref # proc[w].ref
        /\ proc[w].pc = "provider" =>
              /\ pay[proc[w].ref] # "NONE"
              /\ Method[proc[w].ref] # "offline"

\* The request that won the claim.
ApplyInv ==
    \A w \in Workers :
        proc[w].pc = "apply" =>
            /\ applied[proc[w].ref] = 0
            /\ pay[proc[w].ref] \notin {"NONE", "PENDING"}
            /\ \A v \in Workers :
                  v # w => ~(proc[v].pc = "apply" /\ proc[v].ref = proc[w].ref)

\* The inductive invariant of the claim.
ClaimInv ==
    /\ OpenedInv
    /\ CreateInv
    /\ ApplyInv
    /\ AppliedAtMostOnce
    /\ SettledIsClosed

\* What a commit does to the receipts.
LEMMA ReceiptsAfterCommit ==
    ASSUME TypeInv, NEW w \in Workers, MarkPaidCommit(w)
    PROVE  \A p \in Payments : HasReceipt(p)' <=> HasReceipt(p) \/ p = proc[w].ref
<1>1. CASE HasReceipt(proc[w].ref)
  BY <1>1 DEF MarkPaidCommit, AddReceipt, HasReceipt
<1>2. CASE ~HasReceipt(proc[w].ref)
  <2> DEFINE r == [number |-> proc[w].num, ref |-> proc[w].ref]
  <2>1. /\ receipts \in Seq(ReceiptRow)
        /\ receipts' = Append(receipts, r)
    BY <1>2 DEF MarkPaidCommit, AddReceipt, TypeInv, TypeOK
  <2>2. /\ proc[w].pc \in OnPayment /\ proc[w].ref \in Payments
        /\ proc[w].num > 0 /\ proc[w] \in Request
    BY DEF MarkPaidCommit, At, TypeInv, TypeOK, RequestInv, OnPayment,
       MarkingPaid
  <2>3. r \in ReceiptRow
    BY <2>2 DEF ReceiptRow, Request
  <2> HIDE DEF r
  <2>4. /\ Len(receipts') = Len(receipts) + 1
        /\ DOMAIN receipts = 1..Len(receipts)
        /\ DOMAIN receipts' = 1..Len(receipts')
        /\ Len(receipts) \in Nat
        /\ receipts'[Len(receipts) + 1] = r
        /\ \A k \in DOMAIN receipts : receipts'[k] = receipts[k]
    BY <2>1, <2>3
  <2>5. r.ref = proc[w].ref
    BY DEF r
  <2> QED BY <2>4, <2>5 DEF HasReceipt
<1> QED BY <1>1, <1>2

\* At most one request stands between the claim of a reference and its plan
\* change, and none once the plan has changed.
LEMMA ClaimStep == TypeInv /\ ClaimInv /\ [Next]_vars => ClaimInv'
<1> SUFFICES ASSUME TypeInv, ClaimInv, [Next]_vars PROVE ClaimInv'
  OBVIOUS
<1>0. /\ proc \in [Workers -> Request] /\ pay \in [Payments -> PaymentStatus \cup {"NONE"}]
      /\ applied \in [Payments -> Nat]
      /\ RequestInv
      /\ None \notin Payments
  BY ConstantsAssumption DEF TypeInv, TypeOK
<1> USE DEF tables, gateway
<1>1. ASSUME NEW w \in Workers, NEW p \in Payments, Arrive(w, p)
      PROVE  ClaimInv'
  <2>1. /\ UNCHANGED <<pay, attempts, receipts, applied, captured, declined>>
        /\ proc[w].pc = "idle"
        /\ \E l \in OnPayment : Start(w, p, l)
    BY <1>1 DEF Arrive, Initialize, PayInvoice, OrderPlan, PaystackSuccess,
       PaystackFailed, FlutterwaveCompleted, FlutterwaveFailed, GenericWebhook,
       Verify, RecordOffline, Start, At, OnSuccess, OnPayment, MarkingPaid
  <2>2. PICK l \in OnPayment \ {"apply", "provider"} : Start(w, p, l)
    BY <1>1 DEF Arrive, Initialize, PayInvoice, OrderPlan, PaystackSuccess,
       PaystackFailed, FlutterwaveCompleted, FlutterwaveFailed, GenericWebhook,
       Verify, RecordOffline, OnSuccess, OnPayment, MarkingPaid
  <2>5. /\ \A v \in Workers \ {w} : proc'[v] = proc[v]
        /\ proc'[w].ref = p
        /\ proc'[w].pc = l
    BY <1>0, <2>2 DEF Start, Idle
  <2>3. CASE Initialize(w, p) \/ PayInvoice(w, p) \/ OrderPlan(w, p)
    <3>1. Fresh(p) /\ Method[p] # "offline"
      BY <2>3 DEF Initialize, PayInvoice, OrderPlan, Checkouts
    <3>2. CreateInv'
      BY <2>1, <2>2, <2>5, <3>1, <1>0 DEF ClaimInv, CreateInv, Fresh
    <3> QED BY <2>1, <2>2, <2>5, <3>2 DEF ClaimInv, OpenedInv, ApplyInv,
            AppliedAtMostOnce, SettledIsClosed, HasReceipt
  <2>4. CASE ~(Initialize(w, p) \/ PayInvoice(w, p) \/ OrderPlan(w, p))
    <3>1. pay[p] # "NONE" \/ Method[p] = "offline"
      BY <1>1, <2>4 DEF Arrive, PaystackSuccess, PaystackFailed,
         FlutterwaveCompleted, FlutterwaveFailed, GenericWebhook, Verify,
         RecordOffline, ClaimInv, OpenedInv
    <3>3. \E m \in OnPayment \ {"create"} : Start(w, p, m)
      BY <1>1, <2>4 DEF Arrive, PaystackSuccess, PaystackFailed,
         FlutterwaveCompleted, FlutterwaveFailed, GenericWebhook, Verify,
         RecordOffline, OnSuccess, OnPayment, MarkingPaid
    <3>4. proc'[w].pc # "create"
      BY <1>0, <3>3 DEF Start, Idle
    <3>2. CreateInv'
      BY <2>1, <2>2, <2>5, <3>1, <3>4 DEF ClaimInv, CreateInv
    <3> QED BY <2>1, <2>2, <2>5, <3>2 DEF ClaimInv, OpenedInv, ApplyInv,
            AppliedAtMostOnce, SettledIsClosed, HasReceipt
  <2> QED BY <2>3, <2>4
<1>2. ASSUME NEW w \in Workers, NEW i \in Invoices,
             NEW target \in {"ISSUED", "VOID", "OVERDUE"},
             ChangeStatus(w, i, target)
      PROVE  ClaimInv'
  <2>1. /\ \A v \in Workers \ {w} : proc'[v] = proc[v]
        /\ proc'[w].ref = None /\ proc'[w].pc = "write"
    BY <1>0, <1>2 DEF ChangeStatus, Idle
  <2> QED BY <1>0, <1>2, <2>1 DEF ChangeStatus, ClaimInv, OpenedInv, CreateInv,
          ApplyInv, AppliedAtMostOnce, SettledIsClosed, HasReceipt, RequestInv,
          OnPayment
<1>3. ASSUME NEW w \in Workers, Continue(w)
      PROVE  ClaimInv'
  <2> DEFINE p == proc[w].ref
  <2>1. CASE CreatePayment(w)
    <3>1. /\ proc[w].pc = "create" /\ p \in Payments
          /\ pay' = [pay EXCEPT ![p] = "PENDING"]
          /\ proc'[w].pc = "provider" /\ proc'[w].ref = p
          /\ \A v \in Workers \ {w} : proc'[v] = proc[v]
          /\ UNCHANGED <<attempts, receipts, applied, captured, declined>>
      BY <1>0, <2>1 DEF CreatePayment, At, Goto, RequestInv, OnPayment, Request
    <3>2. pay[p] = "NONE" /\ \A v \in Workers \ {w} : proc[v].ref # p
      BY <3>1 DEF ClaimInv, CreateInv
    <3> QED BY <1>0, <3>1, <3>2 DEF ClaimInv, OpenedInv, CreateInv, ApplyInv,
            AppliedAtMostOnce, SettledIsClosed, HasReceipt, RequestInv,
            OnPayment
  <2>2. CASE ProviderAccepts(w)
    <3>1. /\ proc[w].pc = "provider" /\ p \in Payments
          /\ attempts' = attempts \cup {p}
          /\ proc'[w] = Idle
          /\ \A v \in Workers \ {w} : proc'[v] = proc[v]
          /\ UNCHANGED <<pay, receipts, applied, captured, declined>>
      BY <1>0, <2>2 DEF ProviderAccepts, At, Done, RequestInv, OnPayment
    <3> QED BY <1>0, <3>1 DEF ClaimInv, OpenedInv, CreateInv, ApplyInv, Idle,
            AppliedAtMostOnce, SettledIsClosed, HasReceipt, RequestInv,
            OnPayment
  <2>3. CASE ProviderRejects(w) \/ FailPayment(w)
    <3>1. /\ proc[w].pc \in OnPayment \ {"create"} /\ p \in Payments
          /\ pay' = [pay EXCEPT ![p] = "FAILED"]
          /\ proc'[w] = Idle
          /\ \A v \in Workers \ {w} : proc'[v] = proc[v]
          /\ UNCHANGED <<attempts, receipts, applied, captured, declined>>
      BY <1>0, <2>3 DEF ProviderRejects, FailPayment, At, Done, RequestInv,
         OnPayment
    <3> QED BY <1>0, <3>1 DEF ClaimInv, OpenedInv, CreateInv, ApplyInv, Idle,
            AppliedAtMostOnce, SettledIsClosed, HasReceipt, RequestInv,
            OnPayment
  <2>4. CASE SettlePayment(w)
    <3>1. /\ proc[w].pc = "settle" /\ p \in Payments
          /\ pay' = [pay EXCEPT ![p] = "SUCCESSFUL"]
          /\ proc'[w].pc = "markPaid" /\ proc'[w].ref = p
          /\ \A v \in Workers \ {w} : proc'[v] = proc[v]
          /\ UNCHANGED <<attempts, receipts, applied, captured, declined>>
      BY <1>0, <2>4 DEF SettlePayment, At, Goto, RequestInv, OnPayment, Request
    <3> QED BY <1>0, <3>1 DEF ClaimInv, OpenedInv, CreateInv, ApplyInv,
            AppliedAtMostOnce, SettledIsClosed, HasReceipt, RequestInv,
            OnPayment
  <2>5. CASE VerifySuccess(w) \/ VerifyFailed(w)
    <3>1. /\ proc'[w].pc \in {"claim", "fail"} /\ proc'[w].ref = p
          /\ \A v \in Workers \ {w} : proc'[v] = proc[v]
          /\ UNCHANGED <<pay, attempts, receipts, applied, captured, declined>>
      BY <1>0, <2>5 DEF VerifySuccess, VerifyFailed, Goto, Request
    <3> QED BY <1>0, <3>1 DEF ClaimInv, OpenedInv, CreateInv, ApplyInv,
            AppliedAtMostOnce, SettledIsClosed, HasReceipt
  <2>6. CASE VerifyInconclusive(w) \/ NotifyRadius(w) \/ WriteStatus(w)
    <3>1. /\ proc'[w] = Idle
          /\ \A v \in Workers \ {w} : proc'[v] = proc[v]
          /\ UNCHANGED <<pay, attempts, receipts, applied, captured, declined>>
      BY <1>0, <2>6 DEF VerifyInconclusive, NotifyRadius, WriteStatus, Done
    <3> QED BY <1>0, <3>1 DEF ClaimInv, OpenedInv, CreateInv, ApplyInv, Idle,
            AppliedAtMostOnce, SettledIsClosed, HasReceipt, RequestInv,
            OnPayment, MarkingPaid
  <2>7. CASE ClaimPayment(w)
    <3>1. /\ proc[w].pc = "claim" /\ p \in Payments
          /\ \A v \in Workers \ {w} : proc'[v] = proc[v]
          /\ UNCHANGED <<attempts, receipts, applied, captured, declined>>
      BY <1>0, <2>7 DEF ClaimPayment, At, Goto, Done, RequestInv, OnPayment
    <3>2. CASE pay[p] = "PENDING"
      <4>1. /\ pay' = [pay EXCEPT ![p] = "SUCCESSFUL"]
            /\ proc'[w].pc = "apply" /\ proc'[w].ref = p
        BY <1>0, <2>7, <3>2 DEF ClaimPayment, Goto, Request
      <4>2. applied[p] = 0
        BY <1>0, <3>1, <3>2 DEF ClaimInv, SettledIsClosed
      <4>3. \A v \in Workers : ~(proc[v].pc = "apply" /\ proc[v].ref = p)
        BY <3>2 DEF ClaimInv, ApplyInv
      <4> QED BY <1>0, <3>1, <4>1, <4>2, <4>3 DEF ClaimInv, OpenedInv,
              CreateInv, ApplyInv, AppliedAtMostOnce, SettledIsClosed,
              HasReceipt, RequestInv, OnPayment
    <3>3. CASE pay[p] # "PENDING"
      <4>1. pay' = pay /\ proc'[w] = Idle
        BY <1>0, <2>7, <3>3 DEF ClaimPayment, Done
      <4> QED BY <1>0, <3>1, <4>1 DEF ClaimInv, OpenedInv, CreateInv, ApplyInv,
              Idle, AppliedAtMostOnce, SettledIsClosed, HasReceipt, RequestInv,
              OnPayment, MarkingPaid
    <3> QED BY <3>2, <3>3
  <2>8. CASE ApplyPlan(w)
    <3>1. /\ proc[w].pc = "apply" /\ p \in Payments
          /\ applied' = applied \/ applied' = [applied EXCEPT ![p] = @ + 1]
          /\ proc'[w].pc = "markPaid" /\ proc'[w].ref = p
          /\ \A v \in Workers \ {w} : proc'[v] = proc[v]
          /\ UNCHANGED <<pay, attempts, receipts, captured, declined>>
      BY <1>0, <2>8 DEF ApplyPlan, At, Goto, RequestInv, OnPayment, Request
    <3>2. /\ applied[p] = 0 /\ pay[p] \notin {"NONE", "PENDING"}
          /\ \A v \in Workers \ {w} : ~(proc[v].pc = "apply" /\ proc[v].ref = p)
      BY <3>1 DEF ClaimInv, ApplyInv
    <3> QED BY <1>0, <3>1, <3>2 DEF ClaimInv, OpenedInv, CreateInv, ApplyInv,
            AppliedAtMostOnce, SettledIsClosed, HasReceipt, RequestInv,
            OnPayment
  <2>9. CASE MarkPaidRead(w) \/ ReadReceiptNumber(w) \/ MarkPaidCollision(w)
    <3>1. /\ \/ proc'[w] = Idle
             \/ proc'[w].pc \in MarkingPaid /\ proc'[w].ref = p
          /\ \A v \in Workers \ {w} : proc'[v] = proc[v]
          /\ UNCHANGED <<pay, attempts, receipts, applied, captured, declined>>
      BY <1>0, <2>9 DEF MarkPaidRead, ReadReceiptNumber, MarkPaidCollision,
         Goto, Done, Request, MarkingPaid
    <3> QED BY <1>0, <3>1 DEF ClaimInv, OpenedInv, CreateInv, ApplyInv, Idle,
            AppliedAtMostOnce, SettledIsClosed, HasReceipt, RequestInv,
            OnPayment, MarkingPaid
  <2>10. CASE MarkPaidCommit(w)
    <3>1. /\ proc[w].pc = "commit" /\ p \in Payments
          /\ pay' = [pay EXCEPT ![p] = "SUCCESSFUL"]
          /\ proc'[w].pc = "notify" /\ proc'[w].ref = p
          /\ \A v \in Workers \ {w} : proc'[v] = proc[v]
          /\ UNCHANGED <<attempts, applied, captured, declined>>
      BY <1>0, <2>10 DEF MarkPaidCommit, At, Goto, RequestInv, OnPayment,
         MarkingPaid, Request
    <3>2. \A q \in Payments : HasReceipt(q)' <=> HasReceipt(q) \/ q = p
      BY <2>10, ReceiptsAfterCommit
    <3>3. SettledIsClosed'
      BY <1>0, <3>1, <3>2 DEF ClaimInv, SettledIsClosed
    <3> QED BY <1>0, <3>1, <3>3 DEF ClaimInv, OpenedInv, CreateInv, ApplyInv,
            AppliedAtMostOnce, RequestInv, OnPayment
  <2> QED BY <1>3, <2>1, <2>2, <2>3, <2>4, <2>5, <2>6, <2>7, <2>8, <2>9, <2>10
          DEF Continue
<1>4. ASSUME NEW w \in Workers, Crash(w)
      PROVE  ClaimInv'
  <2>1. proc'[w] = Idle /\ \A v \in Workers \ {w} : proc'[v] = proc[v]
    BY <1>0, <1>4 DEF Crash, Done
  <2> QED BY <1>0, <1>4, <2>1 DEF Crash, ClaimInv, OpenedInv, CreateInv,
          ApplyInv, Idle, AppliedAtMostOnce, SettledIsClosed, HasReceipt,
          RequestInv, OnPayment, MarkingPaid
<1>5. ASSUME NEW p \in Payments, Capture(p) \/ Decline(p)
      PROVE  ClaimInv'
  BY <1>5 DEF Capture, Decline, ClaimInv, OpenedInv, CreateInv, ApplyInv,
     AppliedAtMostOnce, SettledIsClosed, HasReceipt
<1>6. ASSUME NEW i \in Invoices, CreateInvoice(i)
      PROVE  ClaimInv'
  BY <1>6 DEF CreateInvoice, ClaimInv, OpenedInv, CreateInv, ApplyInv,
     AppliedAtMostOnce, SettledIsClosed, HasReceipt
<1>7. CASE UNCHANGED vars
  BY <1>7 DEF vars, ClaimInv, OpenedInv, CreateInv, ApplyInv,
     AppliedAtMostOnce, SettledIsClosed, HasReceipt
<1> QED BY <1>1, <1>2, <1>3, <1>4, <1>5, <1>6, <1>7 DEF Next

\* Empty tables and idle workers satisfy both invariants.
LEMMA InitInv == Init => TypeInv /\ ClaimInv
BY IdleType DEF Init, TypeInv, TypeOK, RequestInv, Idle, OnPayment, MarkingPaid,
   ClaimInv, OpenedInv, CreateInv, ApplyInv, AppliedAtMostOnce,
   SettledIsClosed, HasReceipt

\* The conditional update of completeCustomerPayment is claimed by one caller:
\* however webhooks, redirects and crashes interleave, a reference changes the
\* subscriber's plan at most once.
THEOREM PlanAppliedAtMostOnce == Spec => []AppliedAtMostOnce
<1>1. TypeInv /\ ClaimInv => AppliedAtMostOnce
  BY DEF ClaimInv
<1> QED BY <1>1, InitInv, TypeStep, ClaimStep, PTL DEF Spec

\* A payment whose plan was applied or whose receipt was written is never
\* PENDING again, so no later delivery can claim it.
THEOREM SettledStaysClosed == Spec => []SettledIsClosed
<1>1. TypeInv /\ ClaimInv => SettledIsClosed
  BY DEF ClaimInv
<1> QED BY <1>1, InitInv, TypeStep, ClaimStep, PTL DEF Spec

-------------------------------------------------------------------------------
(***************************************************************************)
(* The receipt series, the money behind a receipt or a plan change, the    *)
(* refinement of Settlement, and the invoices.                             *)
(***************************************************************************)

\* Only a commit writes receipts.
LEMMA ReceiptFrame ==
    ASSUME [Next]_vars
    PROVE  UNCHANGED receipts \/ \E w \in Workers : MarkPaidCommit(w)
<1> USE DEF tables, gateway
<1>1. CASE UNCHANGED vars
  BY <1>1 DEF vars
<1>2. ASSUME NEW w \in Workers, NEW p \in Payments, Arrive(w, p)
      PROVE  UNCHANGED receipts
  BY <1>2 DEF Arrive, Initialize, PayInvoice, OrderPlan, PaystackSuccess,
     PaystackFailed, FlutterwaveCompleted, FlutterwaveFailed, GenericWebhook,
     Verify, RecordOffline
<1>3. ASSUME NEW w \in Workers, Continue(w)
      PROVE  UNCHANGED receipts \/ MarkPaidCommit(w)
  BY <1>3 DEF Continue, CreatePayment, ProviderAccepts, ProviderRejects,
     FailPayment, SettlePayment, VerifySuccess, VerifyFailed,
     VerifyInconclusive, ClaimPayment, ApplyPlan, MarkPaidRead,
     ReadReceiptNumber, MarkPaidCollision, NotifyRadius, WriteStatus
<1> QED BY <1>1, <1>2, <1>3
        DEF Next, ChangeStatus, Crash, Capture, Decline, CreateInvoice

\* A step moves one request, and it reaches a location inside markPaid only
\* from the location before.
LEMMA RequestFrame ==
    ASSUME TypeInv, [Next]_vars, NEW w \in Workers, proc'[w] # proc[w]
    PROVE  /\ proc'[w].pc = "commit" => ReadReceiptNumber(w)
           /\ proc'[w].pc = "notify" => MarkPaidCommit(w)
           /\ proc'[w].pc = "apply" => ClaimPayment(w) /\ pay[proc[w].ref] = "PENDING"
           /\ proc'[w].pc = "number" => MarkPaidRead(w) \/ MarkPaidCollision(w)
           /\ proc'[w].pc = "write" =>
                 \E i \in Invoices, target \in {"ISSUED", "VOID", "OVERDUE"} :
                    ChangeStatus(w, i, target)
           /\ proc'[w].pc = "markPaid" =>
                 \/ SettlePayment(w) \/ ApplyPlan(w)
                 \/ \E p \in Payments : RecordOffline(w, p)
           /\ proc'[w].pc = "claim" =>
                 \/ VerifySuccess(w)
                 \/ \E p \in Payments : PaystackSuccess(w, p)
                                        \/ FlutterwaveCompleted(w, p)
           /\ proc'[w].pc = "settle" =>
                 \E p \in Payments : \/ PaystackSuccess(w, p)
                                     \/ FlutterwaveCompleted(w, p)
                                     \/ GenericWebhook(w, p)
<1>0. proc \in [Workers -> Request]
  BY DEF TypeInv, TypeOK
<1>1. ASSUME NEW v \in Workers, NEW p \in Payments, Arrive(v, p)
      PROVE  v = w /\ \E l \in OnPayment : Start(w, p, l)
  <2>1. \E l \in OnPayment : Start(v, p, l)
    BY <1>1 DEF Arrive, Initialize, PayInvoice, OrderPlan, PaystackSuccess,
       PaystackFailed, FlutterwaveCompleted, FlutterwaveFailed, GenericWebhook,
       Verify, RecordOffline, OnSuccess, OnPayment, MarkingPaid
  <2> QED BY <1>0, <2>1 DEF Start
<1>2. ASSUME NEW p \in Payments, NEW l, Start(w, p, l)
      PROVE  proc'[w].pc = l
  BY <1>0, <1>2 DEF Start, Idle
<1>3. ASSUME NEW v \in Workers, Continue(v) \/ Crash(v)
      PROVE  v = w
  BY <1>0, <1>3 DEF Continue, CreatePayment, ProviderAccepts, ProviderRejects,
     FailPayment, SettlePayment, VerifySuccess, VerifyFailed,
     VerifyInconclusive, ClaimPayment, ApplyPlan, MarkPaidRead,
     ReadReceiptNumber, MarkPaidCommit, MarkPaidCollision, NotifyRadius,
     WriteStatus, Crash, Goto, Done
<1>4. ASSUME NEW l, Goto(w, l)
      PROVE  proc'[w].pc = l
  BY <1>0, <1>4 DEF Goto, Request
<1>5. ASSUME Done(w)
      PROVE  proc'[w].pc = "idle"
  BY <1>0, <1>5 DEF Done, Idle
<1>6. ASSUME NEW p \in Payments, Arrive(w, p)
      PROVE  \/ proc'[w].pc \in {"create", "fail", "verify"}
             \/ proc'[w].pc = "markPaid" /\ RecordOffline(w, p)
             \/ /\ proc'[w].pc \in {"claim", "settle"}
                /\ PaystackSuccess(w, p) \/ FlutterwaveCompleted(w, p)
             \/ proc'[w].pc = "settle" /\ GenericWebhook(w, p)
  BY <1>2, <1>6 DEF Arrive, Initialize, PayInvoice, OrderPlan, PaystackSuccess,
     PaystackFailed, FlutterwaveCompleted, FlutterwaveFailed, GenericWebhook,
     Verify, RecordOffline, OnSuccess
<1>7. ASSUME NEW i \in Invoices, NEW target \in {"ISSUED", "VOID", "OVERDUE"},
             NEW v \in Workers, ChangeStatus(v, i, target)
      PROVE  v = w /\ proc'[w].pc = "write"
  BY <1>0, <1>7 DEF ChangeStatus, Idle
<1>8. ASSUME Continue(w) \/ Crash(w)
      PROVE  \/ proc'[w].pc \in {"idle", "provider", "fail"}
             \/ proc'[w].pc = "commit" /\ ReadReceiptNumber(w)
             \/ proc'[w].pc = "notify" /\ MarkPaidCommit(w)
             \/ proc'[w].pc = "apply" /\ ClaimPayment(w) /\ pay[proc[w].ref] = "PENDING"
             \/ proc'[w].pc = "number" /\ (MarkPaidRead(w) \/ MarkPaidCollision(w))
             \/ proc'[w].pc = "markPaid" /\ (SettlePayment(w) \/ ApplyPlan(w))
             \/ proc'[w].pc = "claim" /\ VerifySuccess(w)
  <2>1. CASE ReadReceiptNumber(w) \/ MarkPaidCollision(w)
    BY <1>0, <1>5, <2>1 DEF ReadReceiptNumber, MarkPaidCollision, Request
  <2>2. CASE ~(ReadReceiptNumber(w) \/ MarkPaidCollision(w))
    BY <1>4, <1>5, <1>8, <2>2 DEF Continue, CreatePayment, ProviderAccepts,
       ProviderRejects, FailPayment, SettlePayment, VerifySuccess, VerifyFailed,
       VerifyInconclusive, ClaimPayment, ApplyPlan, MarkPaidRead,
       MarkPaidCommit, NotifyRadius, WriteStatus, Crash
  <2> QED BY <2>1, <2>2
<1>9. \/ \E p \in Payments : Arrive(w, p)
      \/ \E i \in Invoices, target \in {"ISSUED", "VOID", "OVERDUE"} :
            ChangeStatus(w, i, target)
      \/ Continue(w) \/ Crash(w)
  BY <1>1, <1>3, <1>7 DEF Next, Capture, Decline, CreateInvoice, vars
<1> QED BY <1>6, <1>7, <1>8, <1>9

-------------------------------------------------------------------------------
(***************************************************************************)
(* The receipt series.  A number read before the transaction is at most    *)
(* the next one; a smaller one collides.                                   *)
(***************************************************************************)
NumberInv ==
    \A w \in Workers : proc[w].pc = "commit" => proc[w].num <= Len(receipts) + 1

\* The inductive invariant of the series.
ReceiptInv == ReceiptsNumberedInOrder /\ OneReceiptPerReference /\ NumberInv

\* The number a request has read is at most the next one.
LEMMA NumberRead ==
    ASSUME TypeInv, ReceiptsNumberedInOrder
    PROVE  NextReceiptNumber = Len(receipts) + 1
<1>1. receipts \in Seq(ReceiptRow)
  BY DEF TypeInv, TypeOK
<1>2. CASE receipts = << >>
  BY <1>2 DEF NextReceiptNumber
<1>3. CASE receipts # << >>
  <2>1. Len(receipts) \in DOMAIN receipts
    BY <1>1, <1>3
  <2> QED BY <1>3, <2>1 DEF NextReceiptNumber, ReceiptsNumberedInOrder
<1> QED BY <1>2, <1>3

\* A commit adds the receipt with the next number, or none.
LEMMA CommitWrites ==
    ASSUME TypeInv, ReceiptInv, NEW w \in Workers, MarkPaidCommit(w)
    PROVE  \/ HasReceipt(proc[w].ref) /\ UNCHANGED receipts
           \/ /\ ~HasReceipt(proc[w].ref)
              /\ receipts' = Append(receipts, [number |-> Len(receipts) + 1,
                                               ref |-> proc[w].ref])
<1>1. CASE HasReceipt(proc[w].ref)
  BY <1>1 DEF MarkPaidCommit, AddReceipt
<1>2. CASE ~HasReceipt(proc[w].ref)
  <2>1. /\ receipts' = Append(receipts, [number |-> proc[w].num,
                                         ref |-> proc[w].ref])
        /\ ~NumberTaken(proc[w].num)
        /\ proc[w].pc = "commit"
    BY <1>2 DEF MarkPaidCommit, AddReceipt, Collides, At
  <2>2. /\ receipts \in Seq(ReceiptRow)
        /\ proc[w].num \in Nat
        /\ proc[w].num > 0
        /\ proc[w].num <= Len(receipts) + 1
    BY <2>1 DEF TypeInv, TypeOK, RequestInv, Request, ReceiptInv, NumberInv
  <2>3. proc[w].num \notin 1..Len(receipts)
    BY <2>1, <2>2 DEF NumberTaken, ReceiptInv, ReceiptsNumberedInOrder
  <2>4. proc[w].num = Len(receipts) + 1
    BY <2>2, <2>3
  <2> QED BY <1>2, <2>1, <2>4
<1> QED BY <1>1, <1>2

\* The series and the numbers that were read stay in step.
LEMMA ReceiptStep == TypeInv /\ ReceiptInv /\ [Next]_vars => ReceiptInv'
<1> SUFFICES ASSUME TypeInv, ReceiptInv, [Next]_vars PROVE ReceiptInv'
  OBVIOUS
<1>0. receipts \in Seq(ReceiptRow) /\ Len(receipts) \in Nat
  BY DEF TypeInv, TypeOK
<1>1. \A w \in Workers :
         proc'[w] # proc[w] /\ proc'[w].pc = "commit" =>
            proc'[w].num = Len(receipts) + 1 /\ UNCHANGED receipts
  <2> SUFFICES ASSUME NEW w \in Workers, proc'[w] # proc[w],
                      proc'[w].pc = "commit"
               PROVE  proc'[w].num = Len(receipts) + 1 /\ UNCHANGED receipts
    OBVIOUS
  <2>1. ReadReceiptNumber(w)
    BY RequestFrame
  <2> QED BY <2>1, NumberRead
          DEF ReadReceiptNumber, ReceiptInv, TypeInv, TypeOK, Request, tables
<1>2. CASE UNCHANGED receipts
  <2>1. NumberInv'
    BY <1>0, <1>1, <1>2 DEF ReceiptInv, NumberInv
  <2> QED BY <1>2, <2>1
          DEF ReceiptInv, ReceiptsNumberedInOrder, OneReceiptPerReference
<1>3. ASSUME NEW w \in Workers, MarkPaidCommit(w), ~ UNCHANGED receipts
      PROVE  ReceiptInv'
  <2> DEFINE n == Len(receipts) + 1
             r == [number |-> n, ref |-> proc[w].ref]
  <2>1. ~HasReceipt(proc[w].ref) /\ receipts' = Append(receipts, r)
    BY <1>3, CommitWrites
  <2>2. proc[w].ref \in Payments
    BY <1>3 DEF MarkPaidCommit, At, TypeInv, RequestInv, OnPayment, MarkingPaid
  <2>3. r \in ReceiptRow
    BY <1>0, <2>2 DEF ReceiptRow
  <2>4. r.number = n /\ r.ref = proc[w].ref
    OBVIOUS
  <2> HIDE DEF r
  <2>5. /\ Len(receipts') = n
        /\ DOMAIN receipts = 1..Len(receipts)
        /\ DOMAIN receipts' = 1..n
        /\ receipts'[n] = r
        /\ \A k \in 1..Len(receipts) : receipts'[k] = receipts[k]
    BY <1>0, <2>1, <2>3
  <2>6. ReceiptsNumberedInOrder'
    BY <1>0, <2>4, <2>5 DEF ReceiptInv, ReceiptsNumberedInOrder
  <2>7. OneReceiptPerReference'
    BY <1>0, <2>1, <2>4, <2>5
       DEF ReceiptInv, OneReceiptPerReference, HasReceipt
  <2>8. NumberInv'
    <3> SUFFICES ASSUME NEW v \in Workers, proc'[v].pc = "commit"
                 PROVE  proc'[v].num <= Len(receipts') + 1
      BY DEF NumberInv
    <3>1. proc'[v] = proc[v]
      BY <1>1, <1>3
    <3>2. proc[v].num \in Nat /\ proc[v].num <= Len(receipts) + 1
      BY <3>1 DEF ReceiptInv, NumberInv, TypeInv, TypeOK, Request
    <3> QED BY <1>0, <2>5, <3>1, <3>2
  <2> QED BY <2>6, <2>7, <2>8 DEF ReceiptInv
<1> QED BY <1>2, <1>3, ReceiptFrame

\* markPaid reads the next number before its transaction; the unique number
\* column and the retry keep the series without a gap or a repeat.
THEOREM SeriesIsGapless == Spec => []ReceiptsNumberedInOrder
<1>1. Init => ReceiptInv
  BY DEF Init, Idle, ReceiptInv, ReceiptsNumberedInOrder,
     OneReceiptPerReference, NumberInv
<1>2. ReceiptInv => ReceiptsNumberedInOrder
  BY DEF ReceiptInv
<1> QED BY <1>1, <1>2, InitInv, TypeStep, ReceiptStep, PTL DEF Spec

\* markPaid finds the payment and its receipt again inside the transaction:
\* however often it runs for a reference, there is one receipt.
THEOREM ReceiptIsUnique == Spec => []OneReceiptPerReference
<1>1. Init => ReceiptInv
  BY DEF Init, Idle, ReceiptInv, ReceiptsNumberedInOrder,
     OneReceiptPerReference, NumberInv
<1>2. ReceiptInv => OneReceiptPerReference
  BY DEF ReceiptInv
<1> QED BY <1>1, <1>2, InitInv, TypeStep, ReceiptStep, PTL DEF Spec

-------------------------------------------------------------------------------
(***************************************************************************)
(* The money.                                                              *)
(***************************************************************************)
\* Flutterwave's handler settles what was not captured; the other gateways'
\* handlers do not.
ConfirmedOnly == \A p \in Payments : Provider[p] # "FLUTTERWAVE"

\* Captured money stays, and a request at a paying location has it.
FundedInv ==
    /\ \A w \in Workers :
          /\ proc[w].pc \in {"settle", "claim", "apply"} => proc[w].ref \in captured
          /\ proc[w].pc \in MarkingPaid => proc[w].ref \in captured \cup Cash
    /\ NothingForFree

\* Only the plan step changes what is applied, and only capture adds money.
LEMMA AppliedFrame ==
    ASSUME [Next]_vars
    PROVE  /\ UNCHANGED applied \/ \E w \in Workers : ApplyPlan(w)
           /\ UNCHANGED captured \/ \E p \in Payments : Capture(p)
<1> USE DEF tables, gateway
<1>1. CASE UNCHANGED vars
  BY <1>1 DEF vars
<1>2. ASSUME NEW w \in Workers, NEW p \in Payments, Arrive(w, p)
      PROVE  UNCHANGED <<applied, captured>>
  BY <1>2 DEF Arrive, Initialize, PayInvoice, OrderPlan, PaystackSuccess,
     PaystackFailed, FlutterwaveCompleted, FlutterwaveFailed, GenericWebhook,
     Verify, RecordOffline
<1>3. ASSUME NEW w \in Workers, Continue(w)
      PROVE  UNCHANGED captured /\ (UNCHANGED applied \/ ApplyPlan(w))
  BY <1>3 DEF Continue, CreatePayment, ProviderAccepts, ProviderRejects,
     FailPayment, SettlePayment, VerifySuccess, VerifyFailed,
     VerifyInconclusive, ClaimPayment, ApplyPlan, MarkPaidRead,
     ReadReceiptNumber, MarkPaidCommit, MarkPaidCollision, NotifyRadius,
     WriteStatus
<1> QED BY <1>1, <1>2, <1>3
        DEF Next, ChangeStatus, Crash, Capture, Decline, CreateInvoice

\* A request that reaches a paying location is about received money.
LEMMA FundedRequest ==
    ASSUME ConfirmedOnly, TypeInv, FundedInv, [Next]_vars,
           NEW w \in Workers, proc'[w] # proc[w]
    PROVE  /\ proc'[w].pc \in {"settle", "claim", "apply"} => proc'[w].ref \in captured
           /\ proc'[w].pc \in MarkingPaid => proc'[w].ref \in captured \cup Cash
<1>0. proc \in [Workers -> Request]
  BY DEF TypeInv, TypeOK
<1>1. ASSUME NEW p \in Payments, NEW l, Start(w, p, l)
      PROVE  proc'[w].ref = p
  BY <1>0, <1>1 DEF Start, Idle
<1>2. ASSUME NEW l, Goto(w, l)
      PROVE  proc'[w].ref = proc[w].ref
  BY <1>0, <1>2 DEF Goto, Request
<1>3. CASE proc'[w].pc = "claim"
  <2>1. \/ VerifySuccess(w)
        \/ \E p \in Payments : PaystackSuccess(w, p) \/ FlutterwaveCompleted(w, p)
    BY <1>3, RequestFrame
  <2> QED BY <1>1, <1>2, <1>3, <2>1
          DEF VerifySuccess, PaystackSuccess, FlutterwaveCompleted,
              ConfirmedOnly, MarkingPaid
<1>4. CASE proc'[w].pc = "settle"
  <2>1. \E p \in Payments :
           PaystackSuccess(w, p) \/ FlutterwaveCompleted(w, p) \/ GenericWebhook(w, p)
    BY <1>4, RequestFrame
  <2>2. ASSUME NEW p \in Payments, Start(w, p, "fail")
        PROVE  proc'[w].pc = "fail"
    BY <1>0, <2>2 DEF Start, Idle
  <2> QED BY <1>1, <1>4, <2>1, <2>2
          DEF PaystackSuccess, FlutterwaveCompleted, GenericWebhook,
              ConfirmedOnly, MarkingPaid
<1>5. CASE proc'[w].pc = "apply"
  <2>1. ClaimPayment(w) /\ pay[proc[w].ref] = "PENDING"
    BY <1>5, RequestFrame
  <2> QED BY <1>2, <1>5, <2>1 DEF ClaimPayment, At, FundedInv, MarkingPaid
<1>6. CASE proc'[w].pc = "markPaid"
  <2>1. \/ SettlePayment(w) \/ ApplyPlan(w)
        \/ \E p \in Payments : RecordOffline(w, p)
    BY <1>6, RequestFrame
  <2> QED BY <1>1, <1>2, <1>6, <2>1
          DEF SettlePayment, ApplyPlan, RecordOffline, At, FundedInv, Cash,
              MarkingPaid
<1>7. CASE proc'[w].pc \in {"number", "commit", "notify"}
  <2>1. MarkPaidRead(w) \/ MarkPaidCollision(w) \/ ReadReceiptNumber(w) \/ MarkPaidCommit(w)
    BY <1>7, RequestFrame
  <2>2. proc'[w].ref = proc[w].ref \/ proc'[w] = Idle
    BY <1>0, <1>2, <2>1
       DEF MarkPaidRead, MarkPaidCollision, ReadReceiptNumber, MarkPaidCommit,
           Done, Request
  <2> QED BY <1>7, <2>1, <2>2
          DEF MarkPaidRead, MarkPaidCollision, ReadReceiptNumber,
              MarkPaidCommit, At, FundedInv, MarkingPaid, Idle
<1> QED BY <1>3, <1>4, <1>5, <1>6, <1>7 DEF MarkingPaid

\* The money stays behind what was settled.
LEMMA FundedStep ==
    ConfirmedOnly /\ TypeInv /\ ReceiptInv /\ FundedInv /\ [Next]_vars => FundedInv'
<1> SUFFICES ASSUME ConfirmedOnly, TypeInv, ReceiptInv, FundedInv, [Next]_vars
             PROVE  FundedInv'
  OBVIOUS
<1>1. captured \subseteq captured'
  BY AppliedFrame DEF Capture
<1>2. \A w \in Workers :
         /\ proc'[w].pc \in {"settle", "claim", "apply"} => proc'[w].ref \in captured'
         /\ proc'[w].pc \in MarkingPaid => proc'[w].ref \in captured' \cup Cash
  BY <1>1, FundedRequest DEF FundedInv
<1>3. \A k \in DOMAIN receipts' : receipts'[k].ref \in captured' \cup Cash
  <2>1. CASE UNCHANGED receipts
    BY <1>1, <2>1 DEF FundedInv, NothingForFree
  <2>2. ASSUME NEW w \in Workers, MarkPaidCommit(w), ~ UNCHANGED receipts
        PROVE  \A k \in DOMAIN receipts' : receipts'[k].ref \in captured' \cup Cash
    <3> DEFINE r == [number |-> Len(receipts) + 1, ref |-> proc[w].ref]
    <3>1. receipts' = Append(receipts, r) /\ receipts \in Seq(ReceiptRow)
      BY <2>2, CommitWrites DEF TypeInv, TypeOK
    <3>2. proc[w].ref \in captured \cup Cash
      BY <2>2 DEF MarkPaidCommit, At, FundedInv, MarkingPaid
    <3>3. r.ref = proc[w].ref /\ r \in ReceiptRow
      BY <2>2, <3>1 DEF ReceiptRow, MarkPaidCommit, At, TypeInv, RequestInv,
         OnPayment, MarkingPaid
    <3> HIDE DEF r
    <3>4. \A k \in DOMAIN receipts' :
             receipts'[k] = r \/ (k \in DOMAIN receipts /\ receipts'[k] = receipts[k])
      BY <3>1, <3>3
    <3> QED BY <1>1, <3>2, <3>3, <3>4 DEF FundedInv, NothingForFree
  <2> QED BY <2>1, <2>2, ReceiptFrame
<1>4. \A p \in Payments : applied'[p] > 0 => p \in captured'
  <2>1. CASE UNCHANGED applied
    BY <1>1, <2>1 DEF FundedInv, NothingForFree
  <2>2. ASSUME NEW w \in Workers, ApplyPlan(w)
        PROVE  \A p \in Payments : applied'[p] > 0 => p \in captured'
    <3>1. /\ proc[w].ref \in captured
          /\ \A p \in Payments : p # proc[w].ref => applied'[p] = applied[p]
      BY <2>2 DEF ApplyPlan, At, FundedInv, TypeInv, TypeOK
    <3> QED BY <1>1, <3>1 DEF FundedInv, NothingForFree
  <2> QED BY <2>1, <2>2, AppliedFrame
<1>5. NothingForFree'
  BY <1>3, <1>4 DEF NothingForFree, Cash
<1> QED BY <1>2, <1>5 DEF FundedInv, Cash

\* Nothing is settled, and nothing is in flight, at the start.
LEMMA FundedInit == Init => ReceiptInv /\ FundedInv
BY DEF Init, Idle, ReceiptInv, ReceiptsNumberedInOrder, OneReceiptPerReference,
   NumberInv, FundedInv, NothingForFree, MarkingPaid

\* The handlers look at the reported status before they settle, all but the
\* Flutterwave one: where no payment goes through Flutterwave, a receipt or a
\* plan change has captured money behind it.
THEOREM NothingIsFree == ConfirmedOnly /\ Spec => []NothingForFree
<1>1. FundedInv => NothingForFree
  BY DEF FundedInv
<1>2. ConfirmedOnly => ConfirmedOnly'
  BY DEF ConfirmedOnly
<1> QED BY <1>1, <1>2, InitInv, FundedInit, TypeStep, ReceiptStep, FundedStep,
        PTL DEF Spec

-------------------------------------------------------------------------------
(***************************************************************************)
(* The handlers implement Settlement.                                      *)
(***************************************************************************)
\* Every step captures, applies a plan, writes a receipt or changes nothing
\* Settlement speaks of.
LEMMA SettlementStep ==
    ASSUME ConfirmedOnly, TypeInv, ClaimInv, ReceiptInv, FundedInv, [Next]_vars
    PROVE  [S!Next]_(S!vars)
<1>0. /\ applied \in [Payments -> Nat]
      /\ proc \in [Workers -> Request]
  BY DEF TypeInv, TypeOK
<1> USE DEF S!vars, tables, gateway
<1>1. ASSUME NEW p \in Payments, Capture(p)
      PROVE  S!Capture(p)
  BY <1>1 DEF Capture, S!Capture
<1>2. ASSUME NEW w \in Workers, ApplyPlan(w)
      PROVE  (\E p \in Payments : S!Apply(p)) \/ UNCHANGED S!vars
  <2> DEFINE p == proc[w].ref
  <2>1. /\ p \in Payments /\ p \in captured /\ applied[p] = 0
        /\ UNCHANGED <<captured, receipts>>
    BY <1>2 DEF ApplyPlan, At, TypeInv, RequestInv, OnPayment, ClaimInv,
       ApplyInv, FundedInv
  <2>2. CASE Method[p] = "pay_invoice"
    BY <1>2, <2>1, <2>2 DEF ApplyPlan
  <2>3. CASE Method[p] # "pay_invoice"
    <3>1. applied' = [applied EXCEPT ![p] = @ + 1]
      BY <1>2, <2>3 DEF ApplyPlan
    <3>2. {q \in Payments : applied'[q] > 0} = {q \in Payments : applied[q] > 0} \cup {p}
      BY <1>0, <2>1, <3>1
    <3>3. p \notin {q \in Payments : applied[q] > 0}
      BY <2>1
    <3> QED BY <2>1, <3>2, <3>3 DEF S!Apply
  <2> QED BY <2>2, <2>3
<1>3. ASSUME NEW w \in Workers, MarkPaidCommit(w)
      PROVE  (\E p \in Payments : S!WriteReceipt(p)) \/ UNCHANGED S!vars
  <2> DEFINE p == proc[w].ref
  <2>1. /\ p \in Payments /\ p \in captured \cup Cash
        /\ UNCHANGED <<captured, applied>>
    BY <1>3 DEF MarkPaidCommit, At, TypeInv, RequestInv, OnPayment, MarkingPaid,
       FundedInv
  <2>2. CASE HasReceipt(p) /\ UNCHANGED receipts
    BY <2>1, <2>2
  <2>3. CASE /\ ~HasReceipt(p)
             /\ receipts' = Append(receipts, [number |-> Len(receipts) + 1,
                                              ref |-> p])
    <3>1. S!WriteReceipt(p)
      BY <2>1, <2>3 DEF S!WriteReceipt, S!Funded, S!Receipted, HasReceipt
    <3> QED BY <2>1, <3>1
  <2> QED BY <1>3, <2>2, <2>3, CommitWrites
<1>4. ASSUME NEW p \in Payments, Capture(p)
      PROVE  UNCHANGED <<applied, receipts>>
  BY <1>4 DEF Capture
<1>5. CASE UNCHANGED <<applied, captured, receipts>>
  BY <1>5
<1> QED BY <1>1, <1>2, <1>3, <1>5, AppliedFrame, ReceiptFrame DEF S!Next

\* The webhooks, the verification, the claim and markPaid, cut into their
\* awaits, implement the atomic ledger of Settlement wherever the gateways
\* confirm what they report.
THEOREM PaymentsImplementsSettlement == ConfirmedOnly /\ Spec => ImplementsSettlement
<1>1. Init => S!Init
  BY DEF Init, S!Init
<1>2. ConfirmedOnly => ConfirmedOnly'
  BY DEF ConfirmedOnly
<1> QED BY <1>1, <1>2, InitInv, FundedInit, TypeStep, ClaimStep, ReceiptStep,
        FundedStep, SettlementStep, PTL
        DEF Spec, S!Spec, ImplementsSettlement

-------------------------------------------------------------------------------
(***************************************************************************)
(* The invoices.                                                           *)
(***************************************************************************)

\* A request that is about to pay an invoice has seen it leave DRAFT, and one
\* that is about to change a draft issues or voids it.
IssuedInv ==
    \A w \in Workers :
        /\ proc[w].pc \in {"number", "commit"} =>
              inv[proc[w].doc] \notin {"NONE", "DRAFT"}
        /\ proc[w].pc = "write" =>
              /\ inv[proc[w].doc] # "NONE"
              /\ inv[proc[w].doc] = "DRAFT" => proc[w].goal \in {"ISSUED", "VOID"}

\* How an invoice can change.
LEMMA InvoiceFrame ==
    ASSUME TypeInv, IssuedInv, [Next]_vars, NEW i \in Invoices, inv'[i] # inv[i]
    PROVE  \/ inv[i] = "NONE" /\ inv'[i] \in {"DRAFT", "ISSUED"}
           \/ /\ inv[i] = "DRAFT"
              /\ inv'[i] \in {"ISSUED", "VOID"}
           \/ /\ inv[i] \notin {"NONE", "DRAFT"}
              /\ inv'[i] \in {"ISSUED", "VOID", "OVERDUE"}
           \/ /\ inv[i] \notin {"NONE", "DRAFT"}
              /\ inv'[i] = "PAID"
              /\ \E w \in Workers : MarkPaidCommit(w) /\ proc[w].doc = i
<1>0. inv \in [Invoices -> InvoiceStatus \cup {"NONE"}]
  BY DEF TypeInv, TypeOK
<1> USE DEF tables, gateway
<1>1. ASSUME NEW w \in Workers, NEW p \in Payments, Arrive(w, p)
      PROVE  inv[i] = "NONE" /\ inv'[i] = "ISSUED"
  BY <1>0, <1>1 DEF Arrive, Initialize, PayInvoice, OrderPlan, PaystackSuccess,
     PaystackFailed, FlutterwaveCompleted, FlutterwaveFailed, GenericWebhook,
     Verify, RecordOffline
<1>2. ASSUME NEW w \in Workers, Continue(w)
      PROVE  MarkPaidCommit(w) \/ WriteStatus(w)
  BY <1>2 DEF Continue, CreatePayment, ProviderAccepts, ProviderRejects,
     FailPayment, SettlePayment, VerifySuccess, VerifyFailed,
     VerifyInconclusive, ClaimPayment, ApplyPlan, MarkPaidRead,
     ReadReceiptNumber, MarkPaidCollision, NotifyRadius
<1>3. ASSUME NEW w \in Workers, MarkPaidCommit(w)
      PROVE  /\ proc[w].doc = i /\ inv'[i] = "PAID"
             /\ inv[i] \notin {"NONE", "DRAFT"}
  BY <1>0, <1>3 DEF MarkPaidCommit, At, IssuedInv
<1>4. ASSUME NEW w \in Workers, WriteStatus(w)
      PROVE  /\ inv[i] # "NONE"
             /\ inv'[i] \in {"ISSUED", "VOID", "OVERDUE"}
             /\ inv[i] = "DRAFT" => inv'[i] \in {"ISSUED", "VOID"}
  BY <1>0, <1>4 DEF WriteStatus, At, IssuedInv, TypeInv, RequestInv
<1>5. ASSUME NEW j \in Invoices, CreateInvoice(j)
      PROVE  inv[i] = "NONE" /\ inv'[i] = "DRAFT"
  BY <1>0, <1>5 DEF CreateInvoice
<1> QED BY <1>1, <1>2, <1>3, <1>4, <1>5
        DEF Next, ChangeStatus, Crash, Capture, Decline, vars

\* No step takes a request past an invoice it has not seen issued.
LEMMA IssuedStep == TypeInv /\ IssuedInv /\ [Next]_vars => IssuedInv'
<1> SUFFICES ASSUME TypeInv, IssuedInv, [Next]_vars, NEW w \in Workers
             PROVE  /\ proc'[w].pc \in {"number", "commit"} =>
                          inv'[proc'[w].doc] \notin {"NONE", "DRAFT"}
                    /\ proc'[w].pc = "write" =>
                          /\ inv'[proc'[w].doc] # "NONE"
                          /\ inv'[proc'[w].doc] = "DRAFT" =>
                                proc'[w].goal \in {"ISSUED", "VOID"}
  BY DEF IssuedInv
<1>0. proc \in [Workers -> Request]
  BY DEF TypeInv, TypeOK
<1>1. CASE proc'[w] = proc[w]
  <2>1. proc[w].pc \in {"number", "commit", "write"} => proc[w].doc \in Invoices
    BY ConstantsAssumption DEF TypeInv, RequestInv, OnPayment, MarkingPaid
  <2> QED BY <1>1, <2>1, InvoiceFrame DEF IssuedInv
<1>2. CASE proc'[w] # proc[w] /\ proc'[w].pc = "number"
  <2>1. MarkPaidRead(w) \/ MarkPaidCollision(w)
    BY <1>2, RequestFrame
  <2>2. UNCHANGED inv /\ (proc'[w].doc = proc[w].doc \/ proc'[w] = Idle)
    BY <1>0, <2>1 DEF MarkPaidRead, MarkPaidCollision, Goto, Done, Request,
       tables
  <2>3. inv[proc[w].doc] \notin {"NONE", "DRAFT"} \/ proc'[w] = Idle
    <3>1. CASE MarkPaidCollision(w)
      BY <3>1 DEF MarkPaidCollision, At, IssuedInv
    <3>2. CASE MarkPaidRead(w)
      <4>1. proc[w].doc \in Invoices
        BY <3>2, ConstantsAssumption
           DEF MarkPaidRead, At, TypeInv, RequestInv, OnPayment, MarkingPaid
      <4>2. inv[proc[w].doc] \in InvoiceStatus \cup {"NONE"}
        BY <4>1 DEF TypeInv, TypeOK
      <4>3. CASE "PAID" \in TRANSITIONS[inv[proc[w].doc]]
        BY <4>2, <4>3 DEF TRANSITIONS, InvoiceStatus
      <4>4. CASE "PAID" \notin TRANSITIONS[inv[proc[w].doc]]
        BY <1>0, <3>2, <4>4 DEF MarkPaidRead, Done
      <4> QED BY <4>3, <4>4
    <3> QED BY <2>1, <3>1, <3>2
  <2> QED BY <1>2, <2>2, <2>3 DEF Idle
<1>3. CASE proc'[w] # proc[w] /\ proc'[w].pc = "commit"
  <2>1. ReadReceiptNumber(w)
    BY <1>3, RequestFrame
  <2> QED BY <1>0, <1>3, <2>1
          DEF ReadReceiptNumber, At, IssuedInv, tables, Request
<1>4. CASE proc'[w] # proc[w] /\ proc'[w].pc = "write"
  <2>1. PICK i \in Invoices, target \in {"ISSUED", "VOID", "OVERDUE"} :
           ChangeStatus(w, i, target)
    BY <1>4, RequestFrame
  <2>2. proc'[w].doc = i /\ proc'[w].goal = target /\ UNCHANGED inv
    BY <1>0, <2>1 DEF ChangeStatus, Idle, tables
  <2>3. target \in TRANSITIONS[inv[i]]
    BY <2>1 DEF ChangeStatus
  <2>4. inv[i] # "NONE" /\ (inv[i] = "DRAFT" => target \in {"ISSUED", "VOID"})
    BY <2>3 DEF TRANSITIONS
  <2> QED BY <1>4, <2>2, <2>4
<1> QED BY <1>1, <1>2, <1>3, <1>4

\* An invoice leaves DRAFT only by being issued or voided, although the status
\* requests and markPaid write a status they have read earlier.
THEOREM DraftsAreIssuedFirst == Spec => DraftIsIssuedFirst
<1>1. Init => IssuedInv
  BY DEF Init, Idle, IssuedInv
<1>2. TypeInv /\ IssuedInv /\ [Next]_vars =>
         [\A i \in Invoices :
             inv[i] = "DRAFT" => inv'[i] \in {"DRAFT", "ISSUED", "VOID"}]_inv
  BY InvoiceFrame
<1> QED BY <1>1, <1>2, InitInv, TypeStep, IssuedStep, PTL
        DEF Spec, DraftIsIssuedFirst

\* An invoice becomes PAID only in the transaction that writes the receipt,
\* and receipts stay.
LEMMA PaidStep ==
    TypeInv /\ IssuedInv /\ PaidHasReceipt /\ [Next]_vars => PaidHasReceipt'
<1> SUFFICES ASSUME TypeInv, IssuedInv, PaidHasReceipt, [Next]_vars
             PROVE  PaidHasReceipt'
  OBVIOUS
<1>1. \A p \in Payments : HasReceipt(p) => HasReceipt(p)'
  BY ReceiptFrame, ReceiptsAfterCommit DEF HasReceipt
<1>2. ASSUME NEW i \in Invoices, inv'[i] = "PAID"
      PROVE  \E p \in Payments : InvoiceOf[p] = i /\ HasReceipt(p)'
  <2>1. CASE inv[i] = "PAID"
    BY <1>1, <2>1 DEF PaidHasReceipt
  <2>2. CASE inv[i] # "PAID"
    <3>1. PICK w \in Workers : MarkPaidCommit(w) /\ proc[w].doc = i
      BY <1>2, <2>2, InvoiceFrame
    <3>2. proc[w].ref \in Payments /\ InvoiceOf[proc[w].ref] = i
      BY <3>1 DEF MarkPaidCommit, At, TypeInv, RequestInv, OnPayment,
         MarkingPaid
    <3> QED BY <3>1, <3>2, ReceiptsAfterCommit
  <2> QED BY <2>1, <2>2
<1> QED BY <1>2 DEF PaidHasReceipt, HasReceipt

\* markPaid writes PAID and the receipt in one transaction: a PAID invoice has
\* the receipt of one of its own payments.
THEOREM PaidIsReceipted == Spec => []PaidHasReceipt
<1>1. Init => PaidHasReceipt /\ IssuedInv
  BY DEF Init, Idle, IssuedInv, PaidHasReceipt
<1> QED BY <1>1, InitInv, TypeStep, IssuedStep, PaidStep, PTL DEF Spec
===============================================================================
