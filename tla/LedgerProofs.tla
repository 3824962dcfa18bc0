----------------------------- MODULE LedgerProofs ------------------------------
(***************************************************************************)
(* Theorems about what runs on the tables of Payments beside its requests, *)
(* for any number of invoices, payments, subscribers and requests:         *)
(*   the hourly jobs of BillingJobs, in the first part;                    *)
(*   the refunds of Refunds, in the second.                                *)
(* Both rest on the types of Payments.                                     *)
(*                                                                         *)
(* What is said of an invoice and its refunds is said while no two         *)
(* requests about it have overlapped: then whoever read its status or a    *)
(* payment of its own finds them as they were read.                        *)
(***************************************************************************)
EXTENDS BillingJobs, Refunds, PaymentsProofs

-------------------------------------------------------------------------------
(***************************************************************************)
(* The hourly jobs.                                                        *)
(***************************************************************************)

\* The rows of the two jobs in flight.
OverdueRun ==
    [pc : {"idle", "mark", "cut"}, due : SUBSET Invoices, cut : SUBSET Subscribers]

SuspensionRun ==
    [pc : {"idle", "suspend", "write"}, todo : SUBSET Invoices,
     doc : Invoices \cup {None}]

\* What the lists of the jobs remember of the time they were read: whoever is
\* on the list of the overdue job left an invoice unpaid, and what is on the
\* list of the suspension job was late and overdue.
ListsInv ==
    /\ overdueJob.cut \subseteq owed
    /\ suspensionJob.todo \subseteq late \cap wasOverdue
    /\ suspensionJob.pc = "write" => suspensionJob.doc \in suspensionJob.todo
    /\ \A i \in Invoices : inv[i] = "OVERDUE" => i \in wasOverdue

\* The tables of Payments are shared: their types are part of the invariant.
JobsIInv == TypeInv /\ JobsInv /\ ListsInv

\* The history variables only grow, and they see every step.
LEMMA RememberGrows ==
    ASSUME JobsIInv, Remember, TypeInv', due' \subseteq Invoices
    PROVE  /\ wasOverdue \subseteq wasOverdue' /\ wasOverdue' \subseteq Invoices
           /\ owed \subseteq owed' /\ owed' \subseteq Subscribers
           /\ \A i \in Invoices : inv'[i] = "OVERDUE" => i \in wasOverdue'
           /\ \A i \in due' : inv'[i] = "ISSUED" => SubscriberOf[i] \in owed'
BY ConstantsAssumption DEF JobsIInv, JobsInv, JobsTypeOK, Remember

\* What a step has to show: invoices do not get younger, whoever is suspended
\* by it owes, and what it puts on a list belongs there.
LEMMA JobsFrame ==
    ASSUME JobsIInv, Remember, TypeInv',
           late \subseteq late' /\ late' \subseteq due' /\ due' \subseteq Invoices,
           standing' \in [Subscribers -> {"ACTIVE", "SUSPENDED"}],
           \A s \in Subscribers :
              standing'[s] = "SUSPENDED" =>
                 \/ standing[s] = "SUSPENDED"
                 \/ \E i \in late \cap wasOverdue : SubscriberOf[i] = s,
           overdueJob' \in OverdueRun, overdueJob'.cut \subseteq owed',
           suspensionJob' \in SuspensionRun,
           suspensionJob'.todo \subseteq late \cap wasOverdue,
           suspensionJob'.pc = "write" => suspensionJob'.doc \in suspensionJob'.todo,
           failures' \in 0..MaxFailures
    PROVE  JobsIInv'
<1>1. /\ wasOverdue \subseteq wasOverdue' /\ wasOverdue' \subseteq Invoices
      /\ owed \subseteq owed' /\ owed' \subseteq Subscribers
      /\ \A i \in Invoices : inv'[i] = "OVERDUE" => i \in wasOverdue'
  BY RememberGrows
<1>2. JobsTypeOK'
  BY <1>1 DEF JobsTypeOK, OverdueRun, SuspensionRun
<1>3. SuspendedForDebt'
  BY <1>1 DEF JobsIInv, JobsInv, SuspendedForDebt
<1>4. ListsInv'
  BY <1>1 DEF ListsInv
<1> QED BY <1>2, <1>3, <1>4 DEF JobsIInv, JobsInv

\* A step that leaves the jobs, the clock and the subscribers' status alone.
LEMMA JobsUntouched ==
    ASSUME JobsIInv, Remember, TypeInv',
           UNCHANGED <<clock, standing, overdueJob, suspensionJob, failures>>
    PROVE  JobsIInv'
<1>1. owed \subseteq owed'
  BY DEF Remember
<1> QED
  BY <1>1, JobsFrame DEF clock, JobsIInv, JobsInv, JobsTypeOK, SuspendedForDebt,
     ListsInv, OverdueRun, SuspensionRun

\* A step that leaves the tables of Payments alone keeps their types.
LEMMA TablesUntouched == TypeInv /\ UNCHANGED vars => TypeInv'
BY DEF vars, tables, gateway, TypeInv, TypeOK, RequestInv

\* The steps of the overdue job.
LEMMA OverdueKeeps ==
    ASSUME JobsIInv, OverdueStep, Remember
    PROVE  JobsIInv'
<1> USE DEF clock, tables, gateway
<1>0. /\ late \subseteq due /\ due \subseteq Invoices
      /\ standing \in [Subscribers -> {"ACTIVE", "SUSPENDED"}]
      /\ overdueJob \in OverdueRun /\ overdueJob.cut \subseteq owed
      /\ suspensionJob \in SuspensionRun /\ failures \in 0..MaxFailures
      /\ suspensionJob.todo \subseteq late \cap wasOverdue
      /\ suspensionJob.pc = "write" => suspensionJob.doc \in suspensionJob.todo
      /\ owed \subseteq owed'
  BY DEF JobsIInv, JobsInv, JobsTypeOK, ListsInv, OverdueRun, SuspensionRun,
     Remember
<1>1. CASE OverdueFind
  <2>1. TypeInv' /\ UNCHANGED <<due, late, standing, suspensionJob, failures>>
    BY <1>1, TablesUntouched DEF OverdueFind, JobsIInv
  <2>2. inv' = inv /\ \A i \in due' : inv'[i] = "ISSUED" => SubscriberOf[i] \in owed'
    BY <1>0, <1>1, <2>1, RememberGrows DEF OverdueFind, vars
  <2>3. overdueJob' \in OverdueRun /\ overdueJob'.cut \subseteq owed'
    BY <1>0, <1>1, <2>1, <2>2, ConstantsAssumption
       DEF OverdueFind, OverdueRun, Unpaid
  <2> QED BY <1>0, <2>1, <2>3, JobsFrame
<1>2. CASE OverdueMark
  <2>1. UNCHANGED <<due, late, standing, suspensionJob, failures>>
    BY <1>2 DEF OverdueMark
  <2>2. TypeInv'
    BY <1>2 DEF OverdueMark, JobsIInv, TypeInv, TypeOK, RequestInv, InvoiceStatus
  <2>3. overdueJob' \in OverdueRun /\ overdueJob'.cut \subseteq overdueJob.cut
    BY <1>0, <1>2 DEF OverdueMark, NoOverdueRun, OverdueRun
  <2> QED BY <1>0, <2>1, <2>2, <2>3, JobsFrame
<1>3. ASSUME NEW s \in Subscribers, OverdueCut(s)
      PROVE  JobsIInv'
  <2>1. UNCHANGED <<due, late, standing, suspensionJob, failures>>
    BY <1>3 DEF OverdueCut
  <2>2. TypeInv'
    BY <1>3 DEF OverdueCut, JobsIInv, TypeInv, TypeOK, RequestInv
  <2>3. overdueJob' \in OverdueRun /\ overdueJob'.cut \subseteq overdueJob.cut
    BY <1>0, <1>3 DEF OverdueCut, NoOverdueRun, OverdueRun
  <2> QED BY <1>0, <2>1, <2>2, <2>3, JobsFrame
<1> QED BY <1>1, <1>2, <1>3 DEF OverdueStep

\* The steps of the suspension job.  It writes to the invoice it has read
\* earlier, whose subscriber owes whatever has become of the invoice.
LEMMA SuspensionKeeps ==
    ASSUME JobsIInv, SuspensionStep, Remember
    PROVE  JobsIInv'
<1> USE DEF clock, tables, gateway
<1>0. /\ late \subseteq due /\ due \subseteq Invoices
      /\ standing \in [Subscribers -> {"ACTIVE", "SUSPENDED"}]
      /\ overdueJob \in OverdueRun /\ overdueJob.cut \subseteq owed'
      /\ suspensionJob \in SuspensionRun /\ failures \in 0..MaxFailures
      /\ suspensionJob.todo \subseteq late \cap wasOverdue
      /\ suspensionJob.pc = "write" => suspensionJob.doc \in suspensionJob.todo
      /\ \A i \in late : inv[i] = "OVERDUE" => i \in wasOverdue
  BY DEF JobsIInv, JobsInv, JobsTypeOK, ListsInv, OverdueRun, SuspensionRun,
     Remember
<1>1. CASE SuspensionFind
  <2>1. TypeInv' /\ UNCHANGED <<due, late, standing, overdueJob, failures>>
    BY <1>1, TablesUntouched DEF SuspensionFind, JobsIInv
  <2>2. /\ suspensionJob' \in SuspensionRun /\ suspensionJob'.pc = "suspend"
        /\ suspensionJob'.todo \subseteq late \cap wasOverdue
    BY <1>0, <1>1 DEF SuspensionFind, NoSuspensionRun, SuspensionRun
  <2> QED BY <1>0, <2>1, <2>2, JobsFrame
<1>2. ASSUME NEW i \in Invoices, Suspend(i)
      PROVE  JobsIInv'
  <2>1. TypeInv' /\ UNCHANGED <<due, late, overdueJob, failures>>
    BY <1>2, TablesUntouched DEF Suspend, JobsIInv
  <2>2. i \in late \cap wasOverdue /\ i \in suspensionJob.todo
    BY <1>0, <1>2 DEF Suspend
  <2>3. /\ standing' \in [Subscribers -> {"ACTIVE", "SUSPENDED"}]
        /\ \A s \in Subscribers :
              standing'[s] = "SUSPENDED" =>
                 standing[s] = "SUSPENDED" \/ SubscriberOf[i] = s
    BY <1>0, <1>2 DEF Suspend
  <2>4. /\ suspensionJob' \in SuspensionRun /\ suspensionJob'.doc = i
        /\ suspensionJob'.todo = suspensionJob.todo
    BY <1>0, <1>2 DEF Suspend, SuspensionRun
  <2> QED BY <1>0, <2>1, <2>2, <2>3, <2>4, JobsFrame
<1>3. CASE SuspensionWrite
  <2>1. UNCHANGED <<due, late, standing, overdueJob, failures>>
    BY <1>3 DEF SuspensionWrite
  <2>2. TypeInv'
    BY <1>0, <1>3
       DEF SuspensionWrite, JobsIInv, TypeInv, TypeOK, RequestInv, InvoiceStatus
  <2>3. /\ suspensionJob' \in SuspensionRun /\ suspensionJob'.pc # "write"
        /\ suspensionJob'.todo \subseteq suspensionJob.todo
    BY <1>0, <1>3 DEF SuspensionWrite, NoSuspensionRun, SuspensionRun
  <2> QED BY <1>0, <2>1, <2>2, <2>3, JobsFrame
<1> QED BY <1>1, <1>2, <1>3 DEF SuspensionStep

\* A run that fails, the clock and the staff.
LEMMA OthersKeep ==
    ASSUME JobsIInv, Remember,
           \/ JobFails
           \/ \E i \in Invoices : FallDue(i) \/ GraceEnds(i)
           \/ \E s \in Subscribers : Unsuspend(s)
    PROVE  JobsIInv'
<1> USE DEF clock
<1>0. /\ late \subseteq due /\ due \subseteq Invoices
      /\ standing \in [Subscribers -> {"ACTIVE", "SUSPENDED"}]
      /\ overdueJob \in OverdueRun /\ overdueJob.cut \subseteq owed'
      /\ suspensionJob \in SuspensionRun /\ failures \in 0..MaxFailures
      /\ suspensionJob.todo \subseteq late \cap wasOverdue
      /\ suspensionJob.pc = "write" => suspensionJob.doc \in suspensionJob.todo
  BY DEF JobsIInv, JobsInv, JobsTypeOK, ListsInv, OverdueRun, SuspensionRun,
     Remember
<1>1. TypeInv'
  BY TablesUntouched DEF JobFails, FallDue, GraceEnds, Unsuspend, JobsIInv
<1>2. CASE JobFails
  <2>1. failures' \in 0..MaxFailures /\ UNCHANGED <<due, late, standing>>
    BY <1>0, <1>2, JobsAssumption DEF JobFails
  <2>2. \/ overdueJob' = NoOverdueRun /\ UNCHANGED suspensionJob
        \/ suspensionJob' = NoSuspensionRun /\ UNCHANGED overdueJob
    BY <1>2 DEF JobFails
  <2>3. /\ overdueJob' \in OverdueRun /\ overdueJob'.cut \subseteq owed'
        /\ suspensionJob' \in SuspensionRun
        /\ suspensionJob'.todo \subseteq late \cap wasOverdue
        /\ suspensionJob'.pc = "write" => suspensionJob'.doc \in suspensionJob'.todo
    BY <1>0, <2>2 DEF NoOverdueRun, NoSuspensionRun, OverdueRun, SuspensionRun
  <2> QED BY <1>0, <1>1, <2>1, <2>3, JobsFrame
<1>3. ASSUME NEW i \in Invoices, FallDue(i) \/ GraceEnds(i)
      PROVE  JobsIInv'
  <2>1. /\ late \subseteq late' /\ late' \subseteq due' /\ due' \subseteq Invoices
        /\ UNCHANGED <<standing, overdueJob, suspensionJob, failures>>
    BY <1>0, <1>3 DEF FallDue, GraceEnds
  <2> QED BY <1>0, <1>1, <2>1, JobsFrame
<1>4. ASSUME NEW s \in Subscribers, Unsuspend(s)
      PROVE  JobsIInv'
  <2>1. UNCHANGED <<due, late, overdueJob, suspensionJob, failures>>
    BY <1>4 DEF Unsuspend
  <2>2. /\ standing' \in [Subscribers -> {"ACTIVE", "SUSPENDED"}]
        /\ \A v \in Subscribers :
              standing'[v] = "SUSPENDED" => standing[v] = "SUSPENDED"
    BY <1>0, <1>4 DEF Unsuspend
  <2> QED BY <1>0, <1>1, <2>1, <2>2, JobsFrame
<1> QED BY <1>2, <1>3, <1>4

\* Every step keeps the invariant, whatever the requests of Payments do.
LEMMA JobsStep == JobsIInv /\ [JobsNext]_systemVars => JobsIInv'
<1> SUFFICES ASSUME JobsIInv, [JobsNext]_systemVars PROVE JobsIInv'
  OBVIOUS
<1>1. CASE UNCHANGED systemVars
  <2>1. TypeInv' /\ UNCHANGED jobVars
    BY <1>1, TablesUntouched DEF systemVars, JobsIInv
  <2> QED
    BY <1>1, <2>1 DEF systemVars, vars, tables, jobVars, clock, JobsIInv, JobsInv,
       JobsTypeOK, SuspendedForDebt, ListsInv
<1>2. CASE /\ Next /\ Remember
           /\ UNCHANGED <<clock, standing, overdueJob, suspensionJob, failures>>
  BY <1>2, TypeStep, JobsUntouched DEF JobsIInv
<1> QED
  BY <1>1, <1>2, OverdueKeeps, SuspensionKeeps, OthersKeep DEF JobsNext

\* Nothing is billed, listed or in flight at the start.
LEMMA JobsStart == JobsInit => JobsIInv
<1> SUFFICES ASSUME JobsInit PROVE JobsIInv
  OBVIOUS
<1>1. TypeInv /\ \A i \in Invoices : inv[i] = "NONE"
  BY InitInv DEF JobsInit, Init
<1>2. JobsTypeOK
  BY JobsAssumption DEF JobsInit, JobsTypeOK, NoOverdueRun, NoSuspensionRun
<1> QED
  BY <1>1, <1>2 DEF JobsInit, JobsIInv, JobsInv, SuspendedForDebt, ListsInv,
     NoOverdueRun, NoSuspensionRun

\* The jobs' lists are well formed and nobody is suspended who had no invoice
\* overdue beyond the grace period, for any number of invoices and requests.
THEOREM JobsAreRight == JobsSpec => []JobsInv
<1>1. JobsIInv => JobsInv
  BY DEF JobsIInv
<1> QED BY <1>1, JobsStart, JobsStep, PTL DEF JobsSpec

\* The requests of Payments never take access away.
LEMMA RequestsOnlyGrant ==
    ASSUME TypeInv, [Next]_vars
    PROVE  \A s \in Subscribers : access[s] => access'[s]
<1> USE DEF tables, gateway
<1>1. ASSUME NEW w \in Workers, NotifyRadius(w)
      PROVE  \A s \in Subscribers : access[s] => access'[s]
  BY <1>1 DEF NotifyRadius, TypeInv, TypeOK
<1>2. ASSUME NEW w \in Workers, Continue(w), ~NotifyRadius(w)
      PROVE  access' = access
  BY <1>2 DEF Continue, CreatePayment, ProviderAccepts, ProviderRejects,
     FailPayment, SettlePayment, VerifySuccess, VerifyFailed,
     VerifyInconclusive, ClaimPayment, ApplyPlan, MarkPaidRead,
     ReadReceiptNumber, MarkPaidCommit, MarkPaidCollision, WriteStatus
<1>3. ASSUME NEW w \in Workers, NEW p \in Payments, Arrive(w, p)
      PROVE  access' = access
  BY <1>3 DEF Arrive, Initialize, PayInvoice, OrderPlan, PaystackSuccess,
     PaystackFailed, FlutterwaveCompleted, FlutterwaveFailed, GenericWebhook,
     Verify, RecordOffline
<1>4. CASE \/ \E w \in Workers : Crash(w)
           \/ \E w \in Workers, i \in Invoices :
                 \E target \in {"ISSUED", "VOID", "OVERDUE"} :
                    ChangeStatus(w, i, target)
           \/ \E p \in Payments : Capture(p) \/ Decline(p)
           \/ \E i \in Invoices : CreateInvoice(i)
           \/ UNCHANGED vars
  <2>1. access' = access
    BY <1>4 DEF Crash, ChangeStatus, Capture, Decline, CreateInvoice, vars
  <2> QED BY <2>1
<1> QED BY <1>1, <1>2, <1>3, <1>4 DEF Next

\* The overdue job cuts nobody off who left no invoice unpaid beyond its date,
\* although it works on a list that payments have overtaken.
THEOREM OnlyDebtorsAreCut == JobsSpec => CutForDebt
<1>1. ASSUME JobsIInv, [JobsNext]_systemVars
      PROVE  [\A s \in Subscribers : access[s] /\ ~access'[s] => s \in owed]_systemVars
  <2> SUFFICES ASSUME NEW s \in Subscribers, access[s], ~access'[s]
               PROVE  s \in owed
    OBVIOUS
  <2>1. ~[Next]_vars
    BY <1>1, RequestsOnlyGrant DEF JobsIInv
  <2>2. access' # access /\ ~UNCHANGED vars
    BY <2>1
  <2>3. PICK t \in Subscribers : OverdueCut(t)
    BY <1>1, <2>1, <2>2 DEF JobsNext, OverdueStep, OverdueFind, OverdueMark,
       SuspensionStep, SuspensionFind, Suspend, SuspensionWrite, JobFails,
       FallDue, GraceEnds, Unsuspend, systemVars
  <2>4. t = s /\ s \in overdueJob.cut
    BY <1>1, <2>3 DEF OverdueCut, JobsIInv, TypeInv, TypeOK
  <2> QED BY <1>1, <2>4 DEF JobsIInv, ListsInv
<1> QED BY <1>1, JobsStart, JobsStep, PTL DEF JobsSpec, CutForDebt

-------------------------------------------------------------------------------
(***************************************************************************)
(* The refunds: the inductive invariant.                                   *)
(***************************************************************************)

\* The shape of the rows and of the requests about them.
RefundRow == [number : Nat, payment : Payments, status : RefundStatus]

DeskRow == [pc : {"idle", "number", "create", "approve", "process"},
            ref : Payments \cup {None}, id : Nat, num : Nat, tries : Nat]

\* Refunds are numbered in order, and a request about one is about its payment.
DeskTypes ==
    /\ refunds \in Seq(RefundRow)
    /\ desk \in [Desks -> DeskRow]
    /\ \A k \in DOMAIN refunds : refunds[k].number = k
    /\ \A d \in Desks :
          /\ desk[d].pc \in {"number", "create"} => desk[d].ref \in Payments
          /\ desk[d].pc = "create" => desk[d].num \in 1..(Len(refunds) + 1)
          /\ desk[d].pc \in {"approve", "process"} =>
                /\ desk[d].id \in DOMAIN refunds
                /\ desk[d].ref = refunds[desk[d].id].payment
          /\ desk[d].pc \notin {"approve", "process"} => desk[d].id = 0

\* A refund that was rejected while no other request was about it stays so.
Rejected(k) ==
    /\ k \in DOMAIN refunds
    /\ refunds[k].status = "REJECTED"
    /\ AboutRefund(k) = {}

\* Whatever was paid out after its rejection was argued about.
RejectInv ==
    /\ \A k \in refused \ argued : Rejected(k)
    /\ RejectedIsNotPaidOut

\* The money is there: a request that settles a payment, a payment that is
\* SUCCESSFUL, and the refunds of it.
Backed(p) ==
    \/ p \in captured \cup Cash
    \/ /\ pay[p] # "SUCCESSFUL"
       /\ \A w \in Workers :
             proc[w].pc \in {"settle", "claim", "apply"} \cup MarkingPaid =>
                 proc[w].ref # p
       /\ \A d \in Desks : desk[d].pc \in {"number", "create"} => desk[d].ref # p
       /\ \A k \in DOMAIN refunds : refunds[k].payment # p

\* So it is for every payment the gateway has to confirm.
MoneyInv == \A p \in Payments : Provider[p] = "FLUTTERWAVE" \/ Backed(p)

\* A checkout has a payment row before anybody settles it, and its invoice was
\* issued before that.
CheckoutInv ==
    /\ captured \cup declined \subseteq attempts
    /\ \A p \in attempts : pay[p] # "NONE"
    /\ \A w \in Workers :
          /\ proc[w].pc \in OnPayment \ {"create"} /\ Method[proc[w].ref] \in Checkouts =>
                pay[proc[w].ref] # "NONE"
          /\ proc[w].pc = "create" /\ Method[proc[w].ref] \in Checkouts =>
                inv[proc[w].doc] \notin {"NONE", "DRAFT"}
          /\ proc[w].pc = "fail" => proc[w].ref \in declined
          /\ proc[w].pc = "provider" => pay[proc[w].ref] # "NONE"
    /\ \A p \in Payments :
          pay[p] # "NONE" /\ Method[p] \in Checkouts =>
              inv[InvoiceOf[p]] \notin {"NONE", "DRAFT"}

\* What the requests about one invoice have read is still so.
Current(i) ==
    /\ ~Crowd(AboutInvoice(i))
    /\ \A w \in Workers :
          proc[w].doc = i =>
              /\ proc[w].pc = "write" => proc[w].goal \in TRANSITIONS[inv[i]]
              /\ proc[w].pc \in {"number", "commit"} => "PAID" \in TRANSITIONS[inv[i]]
    /\ \A d \in Desks :
          desk[d].pc = "process" /\ InvoiceOf[desk[d].ref] = i =>
              refunds[desk[d].id].status # "PROCESSED"

\* Nobody is about to settle or reopen a refunded checkout.
Standing(p) ==
    Method[p] \in Checkouts /\ Provider[p] # "GENERIC" /\ pay[p] = "REFUNDED" =>
        \A w \in Workers :
            proc[w].pc \in OnPayment \ {"verify", "fail", "claim"} => proc[w].ref # p

\* A completed checkout is on its way to a receipt, or its invoice is closed.
Handled(p) ==
    \E w \in Workers :
        proc[w].ref = p /\ proc[w].pc \in {"apply", "markPaid", "number", "commit"}

\* A closed invoice is one that was paid with a receipt, or is VOID.
Closed(i) ==
    \/ \E q \in Payments : InvoiceOf[q] = i /\ HasReceipt(q)
    \/ inv[i] = "VOID"

\* A completed checkout whose request was not cut off is one or the other.
Receipted(p) == p \in Completed \ cut => Handled(p) \/ Closed(InvoiceOf[p])

\* What is said of invoices nobody has crowded, and of their payments.
InvoicesInv ==
    /\ \A i \in Invoices \ crowded : Current(i)
    /\ \A p \in Payments : InvoiceOf[p] \notin crowded => Standing(p) /\ Receipted(p)

\* What is said of Payments alone.
PaidInv == TypeInv /\ IssuedInv /\ PaidHasReceipt

\* The inductive invariant.
RefundsIInv ==
    /\ PaidInv /\ CheckoutInv
    /\ DeskTypes /\ RejectInv /\ MoneyInv
    /\ InvoicesInv

-------------------------------------------------------------------------------
(***************************************************************************)
(* The steps of the payments.                                              *)
(***************************************************************************)

\* A step of the payments is one of Payments, and leaves the refunds alone.
LEMMA PaymentIsNext ==
    ASSUME PaymentStep
    PROVE  Next /\ UNCHANGED <<refunds, refused, paidOut, desk, calls>> /\ cut \subseteq cut'
BY DEF PaymentStep, Next, refundTables

\* How the status of a payment changes, and that no step of Payments refunds.
LEMMA PayFrame ==
    ASSUME TypeInv, [Next]_vars, NEW p \in Payments, pay'[p] # pay[p]
    PROVE  \E w \in Workers :
              /\ proc[w].ref = p /\ proc[w].pc \in OnPayment
              /\ \/ CreatePayment(w) /\ pay'[p] = "PENDING"
                 \/ ProviderRejects(w) /\ pay'[p] = "FAILED"
                 \/ FailPayment(w) /\ pay'[p] = "FAILED"
                 \/ SettlePayment(w) /\ pay'[p] = "SUCCESSFUL"
                 \/ ClaimPayment(w) /\ pay[p] = "PENDING" /\ pay'[p] = "SUCCESSFUL"
                 \/ MarkPaidCommit(w) /\ pay'[p] = "SUCCESSFUL"
<1>0. pay \in [Payments -> PaymentStatus \cup {"NONE"}]
  BY DEF TypeInv, TypeOK
<1> USE DEF tables, gateway
<1>1. ASSUME NEW w \in Workers, NEW q \in Payments, Arrive(w, q)
      PROVE  UNCHANGED pay
  BY <1>1 DEF Arrive, Initialize, PayInvoice, OrderPlan, PaystackSuccess,
     PaystackFailed, FlutterwaveCompleted, FlutterwaveFailed, GenericWebhook,
     Verify, RecordOffline
<1>2. ASSUME NEW w \in Workers, Continue(w)
      PROVE  /\ proc[w].ref = p /\ proc[w].pc \in OnPayment
             /\ \/ CreatePayment(w) /\ pay'[p] = "PENDING"
                \/ ProviderRejects(w) /\ pay'[p] = "FAILED"
                \/ FailPayment(w) /\ pay'[p] = "FAILED"
                \/ SettlePayment(w) /\ pay'[p] = "SUCCESSFUL"
                \/ ClaimPayment(w) /\ pay[p] = "PENDING" /\ pay'[p] = "SUCCESSFUL"
                \/ MarkPaidCommit(w) /\ pay'[p] = "SUCCESSFUL"
  <2>1. \/ CreatePayment(w) \/ ProviderRejects(w) \/ FailPayment(w)
        \/ SettlePayment(w) \/ ClaimPayment(w) \/ MarkPaidCommit(w)
    BY <1>2 DEF Continue, ProviderAccepts, VerifySuccess, VerifyFailed,
       VerifyInconclusive, ApplyPlan, MarkPaidRead, ReadReceiptNumber,
       MarkPaidCollision, NotifyRadius, WriteStatus
  <2>2. ASSUME NEW status, pay' = [pay EXCEPT ![proc[w].ref] = status]
        PROVE  proc[w].ref = p /\ pay'[p] = status
    BY <1>0, <2>2
  <2>3. CASE CreatePayment(w) \/ ProviderRejects(w) \/ FailPayment(w)
             \/ SettlePayment(w) \/ MarkPaidCommit(w)
    BY <2>2, <2>3 DEF CreatePayment, ProviderRejects, FailPayment, SettlePayment,
       MarkPaidCommit, At, OnPayment, MarkingPaid
  <2>4. CASE ClaimPayment(w)
    BY <2>2, <2>4 DEF ClaimPayment, At, OnPayment
  <2> QED
    BY <2>1, <2>3, <2>4
<1> QED
  BY <1>1, <1>2 DEF Next, ChangeStatus, Crash, Capture, Decline, CreateInvoice, vars

\* The request that moves: it arrives, goes on, or is cut off.
LEMMA MoveFrame ==
    ASSUME TypeInv, PaymentStep, NEW w \in Workers, proc'[w] # proc[w]
    PROVE  \/ \E p \in Payments : Arrive(w, p)
           \/ \E i \in Invoices, target \in {"ISSUED", "VOID", "OVERDUE"} :
                 ChangeStatus(w, i, target)
           \/ Continue(w) /\ cut' = IF OutOfNumbers(w) THEN cut \cup Unreceipted(w) ELSE cut
           \/ Crash(w) /\ cut' = cut \cup Unreceipted(w)
<1>0. proc \in [Workers -> Request]
  BY DEF TypeInv, TypeOK
<1> USE DEF tables, gateway
<1>1. ASSUME NEW v \in Workers, v # w,
             \/ \E l : Goto(v, l)
             \/ Done(v)
             \/ \E p, l : Start(v, p, l)
      PROVE  FALSE
  BY <1>0, <1>1 DEF Goto, Done, Start
<1>2. ASSUME NEW v \in Workers, v # w, NEW p \in Payments, Arrive(v, p)
      PROVE  FALSE
  BY <1>1, <1>2 DEF Arrive, Initialize, PayInvoice, OrderPlan, PaystackSuccess,
     PaystackFailed, FlutterwaveCompleted, FlutterwaveFailed, GenericWebhook,
     Verify, RecordOffline
<1>3. ASSUME NEW v \in Workers, v # w, Continue(v)
      PROVE  FALSE
  <2>1. CASE ReadReceiptNumber(v) \/ MarkPaidCollision(v)
    BY <1>0, <1>1, <1>3, <2>1 DEF ReadReceiptNumber, MarkPaidCollision
  <2>2. CASE ~(ReadReceiptNumber(v) \/ MarkPaidCollision(v))
    BY <1>1, <1>3, <2>2 DEF Continue, CreatePayment, ProviderAccepts, ProviderRejects,
       FailPayment, SettlePayment, VerifySuccess, VerifyFailed,
       VerifyInconclusive, ClaimPayment, ApplyPlan, MarkPaidRead,
       MarkPaidCommit, NotifyRadius, WriteStatus
  <2> QED
    BY <2>1, <2>2
<1>4. ASSUME NEW v \in Workers, v # w, NEW i \in Invoices,
             NEW target \in {"ISSUED", "VOID", "OVERDUE"}, ChangeStatus(v, i, target)
      PROVE  FALSE
  BY <1>0, <1>4 DEF ChangeStatus
<1>5. ASSUME NEW v \in Workers, v # w, Crash(v)
      PROVE  FALSE
  BY <1>1, <1>5 DEF Crash
<1> QED
  BY <1>2, <1>3, <1>4, <1>5 DEF PaymentStep, Capture, Decline, CreateInvoice

\* Where the gateway's word for a payment comes from.
Reported(p) == p \in captured \/ (Provider[p] = "FLUTTERWAVE" /\ p \in declined)

\* A request about a payment comes in.
Comes(w, p) ==
    /\ proc[w].pc = "idle"
    /\ proc'[w].ref = p /\ proc'[w].doc = InvoiceOf[p]
    /\ \/ /\ proc'[w].pc = "create" /\ pay[p] = "NONE"
          /\ Method[p] \in Checkouts => inv'[InvoiceOf[p]] \in {"ISSUED", "OVERDUE"}
       \/ proc'[w].pc = "fail" /\ p \in declined
       \/ proc'[w].pc = "verify" /\ pay[p] # "NONE"
       \/ proc'[w].pc = "claim" /\ Reported(p)
       \/ /\ proc'[w].pc = "settle" /\ Reported(p)
          /\ Method[p] \notin Checkouts \/ Provider[p] = "GENERIC"
       \/ proc'[w].pc = "markPaid" /\ Method[p] = "offline"

\* A change of an invoice's status is checked.
Checks(w) ==
    /\ proc[w].pc = "idle" /\ proc'[w].pc = "write" /\ proc'[w].ref = None
    /\ proc'[w].doc \in Invoices
    /\ proc'[w].goal \in TRANSITIONS[inv[proc'[w].doc]]
    /\ UNCHANGED inv

\* A request goes on with its payment.
GoesOn(w) ==
    /\ proc'[w].ref = proc[w].ref /\ proc'[w].doc = proc[w].doc
    /\ \/ proc'[w].pc = "provider" /\ CreatePayment(w)
       \/ proc'[w].pc = "markPaid" /\ SettlePayment(w)
       \/ proc'[w].pc = "apply" /\ ClaimPayment(w) /\ pay[proc[w].ref] = "PENDING"
       \/ proc'[w].pc = "markPaid" /\ ApplyPlan(w)
       \/ /\ proc'[w].pc = "number" /\ MarkPaidRead(w)
          /\ "PAID" \in TRANSITIONS[inv[proc[w].doc]]
       \/ proc'[w].pc = "commit" /\ ReadReceiptNumber(w)
       \/ proc'[w].pc = "number" /\ MarkPaidCollision(w)
       \/ proc'[w].pc = "notify" /\ MarkPaidCommit(w)
       \/ proc'[w].pc = "claim" /\ VerifySuccess(w)
       \/ proc'[w].pc = "fail" /\ VerifyFailed(w)

\* A request ends; one that has settled a payment ends because the invoice is
\* closed to it, or is counted as cut off.
Ends(w) ==
    /\ proc'[w] = Idle
    /\ \/ cut' = cut \cup Unreceipted(w)
       \/ proc[w].pc \in {"create", "provider", "verify", "fail", "claim", "notify", "write"}
       \/ /\ proc[w].pc = "markPaid" /\ UNCHANGED inv
          /\ "PAID" \notin TRANSITIONS[inv[proc[w].doc]]

\* A request about a payment that comes in is one of these.
LEMMA ArriveComes ==
    ASSUME TypeInv, NEW w \in Workers, NEW p \in Payments, Arrive(w, p)
    PROVE  Comes(w, p)
<1>0. /\ proc \in [Workers -> Request] /\ inv \in [Invoices -> InvoiceStatus \cup {"NONE"}]
      /\ InvoiceOf[p] \in Invoices
  BY ConstantsAssumption DEF TypeInv, TypeOK
<1>1. ASSUME NEW l, Start(w, p, l)
      PROVE  /\ proc[w].pc = "idle"
             /\ proc'[w].pc = l /\ proc'[w].ref = p /\ proc'[w].doc = InvoiceOf[p]
  BY <1>0, <1>1 DEF Start, At, Idle
<1> USE DEF tables, gateway
<1>2. CASE Initialize(w, p) \/ PayInvoice(w, p) \/ OrderPlan(w, p)
  <2>1. Start(w, p, "create") /\ pay[p] = "NONE"
    BY <1>2 DEF Initialize, PayInvoice, OrderPlan, Fresh
  <2>2. Method[p] \in Checkouts => inv'[InvoiceOf[p]] \in {"ISSUED", "OVERDUE"}
    BY <1>0, <1>2 DEF Initialize, PayInvoice, OrderPlan, Checkouts
  <2> QED
    BY <1>1, <2>1, <2>2 DEF Comes
<1>3. CASE PaystackSuccess(w, p) \/ FlutterwaveCompleted(w, p)
  <2>1. Reported(p) /\ Start(w, p, OnSuccess(p))
    BY <1>3 DEF PaystackSuccess, FlutterwaveCompleted, Reported
  <2> QED
    BY <1>1, <2>1 DEF Comes, OnSuccess
<1>4. CASE PaystackFailed(w, p) \/ FlutterwaveFailed(w, p)
  BY <1>1, <1>4 DEF PaystackFailed, FlutterwaveFailed, Comes
<1>5. CASE GenericWebhook(w, p)
  BY <1>1, <1>5 DEF GenericWebhook, Comes, Reported
<1>6. CASE Verify(w, p)
  BY <1>1, <1>6 DEF Verify, Comes
<1>7. CASE RecordOffline(w, p)
  BY <1>1, <1>7 DEF RecordOffline, Comes
<1> QED
  BY <1>2, <1>3, <1>4, <1>5, <1>6, <1>7 DEF Arrive

\* Every move of a request is one of these.
LEMMA WorkerMoves ==
    ASSUME TypeInv, PaymentStep, NEW w \in Workers, proc'[w] # proc[w]
    PROVE  (\E p \in Payments : Comes(w, p)) \/ Checks(w) \/ GoesOn(w) \/ Ends(w)
<1>0. proc \in [Workers -> Request]
  BY DEF TypeInv, TypeOK
<1> USE DEF tables, gateway
<1>1. ASSUME NEW l, Goto(w, l)
      PROVE  proc'[w].pc = l /\ proc'[w].ref = proc[w].ref /\ proc'[w].doc = proc[w].doc
  BY <1>0, <1>1 DEF Goto, Request
<1>2. ASSUME Done(w)
      PROVE  proc'[w] = Idle
  BY <1>0, <1>2 DEF Done
<1>3. ASSUME NEW i \in Invoices, NEW target \in {"ISSUED", "VOID", "OVERDUE"},
             ChangeStatus(w, i, target)
      PROVE  Checks(w)
  BY <1>0, <1>3 DEF ChangeStatus, Checks, At, Idle
<1>4. CASE Crash(w) /\ cut' = cut \cup Unreceipted(w)
  BY <1>2, <1>4 DEF Crash, Ends
<1>5. ASSUME Continue(w), cut' = IF OutOfNumbers(w) THEN cut \cup Unreceipted(w) ELSE cut
      PROVE  GoesOn(w) \/ Ends(w)
  <2>1. CASE CreatePayment(w) \/ SettlePayment(w) \/ ApplyPlan(w)
             \/ VerifySuccess(w) \/ VerifyFailed(w) \/ MarkPaidCommit(w)
    BY <1>1, <2>1 DEF GoesOn, CreatePayment, SettlePayment, ApplyPlan, VerifySuccess,
       VerifyFailed, MarkPaidCommit
  <2>2. CASE ProviderAccepts(w) \/ ProviderRejects(w) \/ FailPayment(w)
             \/ VerifyInconclusive(w) \/ NotifyRadius(w) \/ WriteStatus(w)
    BY <1>2, <2>2 DEF Ends, ProviderAccepts, ProviderRejects, FailPayment,
       VerifyInconclusive, NotifyRadius, WriteStatus, At
  <2>3. CASE ClaimPayment(w)
    BY <1>1, <1>2, <2>3 DEF GoesOn, Ends, ClaimPayment, At
  <2>4. CASE MarkPaidRead(w)
    BY <1>1, <1>2, <2>4 DEF GoesOn, Ends, MarkPaidRead, At
  <2>5. CASE ReadReceiptNumber(w)
    BY <1>0, <2>5 DEF GoesOn, ReadReceiptNumber, Request
  <2>6. CASE MarkPaidCollision(w)
    <3>1. CASE proc[w].tries + 1 < MaxAttempts
      BY <1>0, <2>6, <3>1 DEF GoesOn, MarkPaidCollision, Request
    <3>2. CASE ~(proc[w].tries + 1 < MaxAttempts)
      <4>1. proc[w].tries \in Nat /\ MaxAttempts \in Nat
        BY <1>0, ConstantsAssumption DEF Request
      <4>2. OutOfNumbers(w) /\ Done(w)
        BY <2>6, <3>2, <4>1 DEF MarkPaidCollision, OutOfNumbers
      <4> QED
        BY <1>2, <1>5, <4>2 DEF Ends
    <3> QED
      BY <3>1, <3>2
  <2> QED
    BY <1>5, <2>1, <2>2, <2>3, <2>4, <2>5, <2>6 DEF Continue
<1> QED
  BY <1>3, <1>4, <1>5, MoveFrame, ArriveComes

-------------------------------------------------------------------------------
(***************************************************************************)
(* Payments, their invoices and their money.                               *)
(***************************************************************************)

\* The gateway takes money only for what was opened, and forgets nothing.
LEMMA GatewayFrame ==
    ASSUME [Next]_vars
    PROVE  /\ attempts \subseteq attempts'
           /\ \A p \in attempts' \ attempts :
                 \E w \in Workers : proc[w].pc = "provider" /\ proc[w].ref = p
           /\ captured \subseteq captured' /\ captured' \subseteq captured \cup attempts
           /\ declined \subseteq declined' /\ declined' \subseteq declined \cup attempts
<1> USE DEF tables, gateway
<1>1. ASSUME NEW w \in Workers, NEW p \in Payments, Arrive(w, p)
      PROVE  UNCHANGED <<attempts, captured, declined>>
  BY <1>1 DEF Arrive, Initialize, PayInvoice, OrderPlan, PaystackSuccess,
     PaystackFailed, FlutterwaveCompleted, FlutterwaveFailed, GenericWebhook,
     Verify, RecordOffline
<1>2. ASSUME NEW w \in Workers, Continue(w)
      PROVE  /\ UNCHANGED <<captured, declined>>
             /\ UNCHANGED attempts \/ ProviderAccepts(w)
  BY <1>2 DEF Continue, CreatePayment, ProviderRejects,
     FailPayment, SettlePayment, VerifySuccess, VerifyFailed,
     VerifyInconclusive, ClaimPayment, ApplyPlan, MarkPaidRead,
     ReadReceiptNumber, MarkPaidCommit, MarkPaidCollision, NotifyRadius,
     WriteStatus, ProviderAccepts
<1>3. ASSUME NEW w \in Workers, ProviderAccepts(w)
      PROVE  attempts' = attempts \cup {proc[w].ref} /\ proc[w].pc = "provider"
  BY <1>3 DEF ProviderAccepts, At
<1> QED
  BY <1>1, <1>2, <1>3 DEF Next, ChangeStatus, Crash, Capture, Decline, CreateInvoice, vars

\* A payment row and an issued invoice stay.
LEMMA RowsStay ==
    ASSUME TypeInv, IssuedInv, [Next]_vars
    PROVE  /\ \A p \in Payments : pay[p] # "NONE" => pay'[p] # "NONE"
           /\ \A i \in Invoices : inv[i] \notin {"NONE", "DRAFT"} =>
                                      inv'[i] \notin {"NONE", "DRAFT"}
           /\ \A p \in Payments : HasReceipt(p) => HasReceipt(p)'
<1>1. ASSUME NEW p \in Payments, pay[p] # "NONE"
      PROVE  pay'[p] # "NONE"
  BY <1>1, PayFrame
<1>2. ASSUME NEW i \in Invoices, inv[i] \notin {"NONE", "DRAFT"}
      PROVE  inv'[i] \notin {"NONE", "DRAFT"}
  BY <1>2, InvoiceFrame
<1>3. \A p \in Payments : HasReceipt(p) => HasReceipt(p)'
  BY ReceiptFrame, ReceiptsAfterCommit DEF HasReceipt
<1> QED
  BY <1>1, <1>2, <1>3

\* A checkout stays one of an issued invoice.
LEMMA CheckoutStep ==
    ASSUME TypeInv, IssuedInv, CheckoutInv, PaymentStep
    PROVE  CheckoutInv'
<1>0. /\ [Next]_vars /\ RequestInv /\ attempts \subseteq Payments
      /\ captured \subseteq Payments /\ declined \subseteq Payments
      /\ pay \in [Payments -> PaymentStatus \cup {"NONE"}]
      /\ "offline" \notin Checkouts
      /\ \A p \in Payments : InvoiceOf[p] \in Invoices
  BY PaymentIsNext, ConstantsAssumption DEF TypeInv, TypeOK, Checkouts
<1>1. captured' \cup declined' \subseteq attempts'
  BY <1>0, GatewayFrame DEF CheckoutInv
<1>2. \A p \in attempts' : pay'[p] # "NONE"
  <2> SUFFICES ASSUME NEW p \in attempts'
               PROVE  pay'[p] # "NONE"
    OBVIOUS
  <2>1. CASE p \in attempts
    BY <1>0, <2>1, RowsStay DEF CheckoutInv
  <2>2. CASE p \notin attempts
    <3>1. PICK w \in Workers : proc[w].pc = "provider" /\ proc[w].ref = p
      BY <1>0, <2>2, GatewayFrame
    <3>2. p \in Payments /\ pay[p] # "NONE"
      BY <1>0, <3>1 DEF CheckoutInv, RequestInv, OnPayment
    <3> QED
      BY <1>0, <3>2, RowsStay
  <2> QED
    BY <2>1, <2>2
<1>3. \A p : Reported(p) \/ p \in declined => p \in attempts /\ pay[p] # "NONE"
  BY DEF Reported, CheckoutInv
<1>4. ASSUME NEW w \in Workers
      PROVE  /\ proc'[w].pc \in OnPayment \ {"create"} /\ Method[proc'[w].ref] \in Checkouts =>
                   pay'[proc'[w].ref] # "NONE"
             /\ proc'[w].pc = "create" /\ Method[proc'[w].ref] \in Checkouts =>
                   inv'[proc'[w].doc] \notin {"NONE", "DRAFT"}
             /\ proc'[w].pc = "fail" => proc'[w].ref \in declined'
             /\ proc'[w].pc = "provider" => pay'[proc'[w].ref] # "NONE"
  <2>1. CASE proc'[w] = proc[w]
    <3>1. proc[w].pc \in OnPayment =>
              proc[w].ref \in Payments /\ proc[w].doc \in Invoices
      BY <1>0 DEF RequestInv
    <3>2. {"create", "provider", "fail"} \subseteq OnPayment
      BY DEF OnPayment
    <3> QED
      BY <1>0, <2>1, <3>1, <3>2, RowsStay, GatewayFrame DEF CheckoutInv
  <2>2. ASSUME NEW p \in Payments, Comes(w, p)
        PROVE  /\ proc'[w].ref = p /\ proc'[w].doc = InvoiceOf[p]
               /\ proc'[w].pc \in {"create", "fail", "verify", "claim", "settle", "markPaid"}
               /\ proc'[w].pc # "create" /\ Method[p] \in Checkouts => pay'[p] # "NONE"
               /\ proc'[w].pc = "create" /\ Method[p] \in Checkouts =>
                     inv'[InvoiceOf[p]] \notin {"NONE", "DRAFT"}
               /\ proc'[w].pc = "fail" => p \in declined'
    <3>1. proc'[w].pc # "create" /\ Method[p] \in Checkouts => pay[p] # "NONE"
      BY <1>0, <1>3, <2>2 DEF Comes
    <3> QED
      BY <1>0, <2>2, <3>1, RowsStay, GatewayFrame DEF Comes
  <2>3. ASSUME GoesOn(w)
        PROVE  /\ proc'[w].ref = proc[w].ref /\ proc[w].ref \in Payments
               /\ proc'[w].pc # "create"
               /\ Method[proc[w].ref] \in Checkouts => pay'[proc[w].ref] # "NONE"
               /\ proc'[w].pc = "fail" => proc[w].ref \in declined'
               /\ proc'[w].pc = "provider" => pay'[proc[w].ref] # "NONE"
    <3>1. /\ proc'[w].ref = proc[w].ref /\ proc[w].ref \in Payments
          /\ proc'[w].pc # "create" /\ proc[w].pc \in OnPayment
          /\ proc[w].pc = "create" <=> CreatePayment(w)
          /\ proc'[w].pc = "provider" => CreatePayment(w)
          /\ proc'[w].pc = "fail" => VerifyFailed(w)
      BY <1>0, <2>3 DEF GoesOn, RequestInv, OnPayment, MarkingPaid, CreatePayment,
         SettlePayment, ClaimPayment, ApplyPlan, MarkPaidRead, ReadReceiptNumber,
         MarkPaidCollision, MarkPaidCommit, VerifySuccess, VerifyFailed, At
    <3>2. CreatePayment(w) => pay'[proc[w].ref] = "PENDING"
      BY <1>0, <3>1 DEF CreatePayment
    <3>3. VerifyFailed(w) => proc[w].ref \in declined
      BY DEF VerifyFailed
    <3>4. ~CreatePayment(w) /\ Method[proc[w].ref] \in Checkouts => pay[proc[w].ref] # "NONE"
      BY <3>1 DEF CheckoutInv
    <3> QED
      BY <1>0, <3>1, <3>2, <3>3, <3>4, RowsStay, GatewayFrame
  <2>4. CASE Checks(w) \/ Ends(w)
    <3>1. proc'[w].pc \in {"idle", "write"}
      BY <2>4 DEF Checks, Ends, Idle
    <3> QED
      BY <3>1 DEF OnPayment, MarkingPaid
  <2>5. CASE \E p \in Payments : Comes(w, p)
    BY <2>2, <2>5
  <2>6. CASE GoesOn(w)
    BY <2>3, <2>6
  <2> QED
    BY <2>1, <2>4, <2>5, <2>6, WorkerMoves
<1>5. ASSUME NEW p \in Payments, pay'[p] # "NONE", Method[p] \in Checkouts
      PROVE  inv'[InvoiceOf[p]] \notin {"NONE", "DRAFT"}
  <2>1. CASE pay[p] # "NONE"
    BY <1>0, <1>5, <2>1, RowsStay DEF CheckoutInv
  <2>2. CASE pay[p] = "NONE"
    <3>1. PICK w \in Workers : proc[w].ref = p /\ proc[w].pc \in OnPayment
      BY <1>0, <1>5, <2>2, PayFrame
    <3>2. inv[InvoiceOf[p]] \notin {"NONE", "DRAFT"}
      BY <1>0, <1>5, <2>2, <3>1 DEF CheckoutInv, RequestInv
    <3> QED
      BY <1>0, <3>2, RowsStay
  <2> QED
    BY <2>1, <2>2
<1> QED
  BY <1>1, <1>2, <1>4, <1>5 DEF CheckoutInv

\* Money stays behind what is settled, if the gateway has confirmed it.
LEMMA MoneyStep ==
    ASSUME TypeInv, MoneyInv, PaymentStep
    PROVE  MoneyInv'
<1> SUFFICES ASSUME NEW p \in Payments, Provider[p] # "FLUTTERWAVE"
             PROVE  Backed(p)'
  BY DEF MoneyInv
<1>0. [Next]_vars /\ RequestInv /\ UNCHANGED <<refunds, desk>> /\ captured \subseteq captured'
  BY PaymentIsNext, GatewayFrame DEF TypeInv
<1>1. Backed(p)
  BY DEF MoneyInv
<1>2. CASE p \in captured' \cup Cash
  BY <1>2 DEF Backed
<1>3. CASE p \notin captured' \cup Cash
  <2>1. /\ pay[p] # "SUCCESSFUL"
        /\ \A w \in Workers :
              proc[w].pc \in {"settle", "claim", "apply"} \cup MarkingPaid =>
                  proc[w].ref # p
        /\ \A d \in Desks : desk[d].pc \in {"number", "create"} => desk[d].ref # p
        /\ \A k \in DOMAIN refunds : refunds[k].payment # p
        /\ ~Reported(p) /\ Method[p] # "offline" /\ p \notin captured
    BY <1>0, <1>1, <1>3 DEF Backed, Reported, Cash
  <2>2. pay'[p] # "SUCCESSFUL"
    BY <1>0, <2>1, PayFrame DEF SettlePayment, ClaimPayment, MarkPaidCommit, At, MarkingPaid
  <2>3. ASSUME NEW w \in Workers, proc'[w].ref = p,
               proc'[w].pc \in {"settle", "claim", "apply"} \cup MarkingPaid
        PROVE  FALSE
    <3>1. proc'[w] # proc[w]
      BY <2>1, <2>3
    <3>2. \A q \in Payments : ~Comes(w, q)
      BY <2>1, <2>3 DEF Comes, MarkingPaid
    <3>3. ~Checks(w) /\ ~Ends(w)
      BY <2>3 DEF Checks, Ends, Idle, MarkingPaid
    <3>4. GoesOn(w)
      BY <3>1, <3>2, <3>3, WorkerMoves
    <3>5. proc[w].ref = p
      BY <2>3, <3>4 DEF GoesOn
    <3>6. \/ proc[w].pc \in {"settle", "claim", "apply"} \cup MarkingPaid
          \/ VerifySuccess(w)
      BY <2>3, <3>4 DEF GoesOn, MarkingPaid, SettlePayment, ClaimPayment, ApplyPlan,
         MarkPaidRead, ReadReceiptNumber, MarkPaidCollision, MarkPaidCommit, At
    <3>7. VerifySuccess(w) => p \in captured
      BY <3>5 DEF VerifySuccess
    <3> QED
      BY <2>1, <3>5, <3>6, <3>7
  <2> QED
    BY <1>0, <2>1, <2>2, <2>3 DEF Backed
<1> QED
  BY <1>2, <1>3

-------------------------------------------------------------------------------
(***************************************************************************)
(* The invoices, while no two requests about one overlap.                  *)
(***************************************************************************)

\* Whoever changes an invoice that exists is a request about it.
LEMMA InvoiceSource ==
    ASSUME TypeInv, IssuedInv, [Next]_vars,
           NEW i \in Invoices, inv'[i] # inv[i], inv[i] # "NONE"
    PROVE  \E w \in Workers :
              /\ proc[w].doc = i /\ proc'[w] # proc[w]
              /\ \/ proc[w].pc = "commit" /\ inv'[i] = "PAID"
                 \/ proc[w].pc = "write" /\ inv'[i] = proc[w].goal
<1>0. /\ inv \in [Invoices -> InvoiceStatus \cup {"NONE"}]
      /\ proc \in [Workers -> Request]
  BY DEF TypeInv, TypeOK
<1> USE DEF tables, gateway
<1>1. ASSUME NEW w \in Workers, NEW p \in Payments, Arrive(w, p)
      PROVE  FALSE
  BY <1>0, <1>1 DEF Arrive, Initialize, PayInvoice, OrderPlan, PaystackSuccess,
     PaystackFailed, FlutterwaveCompleted, FlutterwaveFailed, GenericWebhook,
     Verify, RecordOffline
<1>2. ASSUME NEW w \in Workers, Continue(w)
      PROVE  MarkPaidCommit(w) \/ WriteStatus(w)
  BY <1>2 DEF Continue, CreatePayment, ProviderAccepts, ProviderRejects,
     FailPayment, SettlePayment, VerifySuccess, VerifyFailed,
     VerifyInconclusive, ClaimPayment, ApplyPlan, MarkPaidRead,
     ReadReceiptNumber, MarkPaidCollision, NotifyRadius
<1>3. ASSUME NEW w \in Workers, MarkPaidCommit(w)
      PROVE  /\ proc[w].doc = i /\ inv'[i] = "PAID" /\ proc[w].pc = "commit"
             /\ proc'[w].pc = "notify"
  BY <1>0, <1>3 DEF MarkPaidCommit, At, Goto, Request
<1>4. ASSUME NEW w \in Workers, WriteStatus(w)
      PROVE  /\ proc[w].doc = i /\ inv'[i] = proc[w].goal /\ proc[w].pc = "write"
             /\ proc'[w].pc = "idle"
  BY <1>0, <1>4 DEF WriteStatus, At, Done, Idle
<1>5. ASSUME NEW j \in Invoices, CreateInvoice(j)
      PROVE  FALSE
  BY <1>0, <1>5 DEF CreateInvoice
<1>6. ASSUME NEW w \in Workers, Continue(w)
      PROVE  \E v \in Workers :
                /\ proc[v].doc = i /\ proc'[v] # proc[v]
                /\ \/ proc[v].pc = "commit" /\ inv'[i] = "PAID"
                   \/ proc[v].pc = "write" /\ inv'[i] = proc[v].goal
  <2>1. CASE MarkPaidCommit(w)
    BY <1>3, <2>1
  <2>2. CASE WriteStatus(w)
    BY <1>4, <2>2
  <2> QED
    BY <1>2, <1>6, <2>1, <2>2
<1> QED
  BY <1>1, <1>5, <1>6 DEF Next, ChangeStatus, Crash, Capture, Decline, vars

\* There is one request about an invoice, or none.
LEMMA AloneAtInvoice ==
    ASSUME NEW i \in Invoices, Current(i), NEW w \in Workers, proc[w].doc = i
    PROVE  /\ \A v \in Workers : proc[v].doc = i => v = w
           /\ \A d \in Desks : desk[d].pc = "process" => InvoiceOf[desk[d].ref] # i
BY RefundsAssumption DEF Current, Crowd, AboutInvoice, DeskAt

\* A step about an invoice that is not crowded takes a transition of the table.
LEMMA PayTransition ==
    ASSUME TypeInv, IssuedInv, [Next]_vars, NEW i \in Invoices, Current(i),
           inv'[i] # inv[i], inv[i] # "NONE"
    PROVE  inv'[i] \in TRANSITIONS[inv[i]]
<1>1. PICK w \in Workers :
         /\ proc[w].doc = i
         /\ \/ proc[w].pc = "commit" /\ inv'[i] = "PAID"
            \/ proc[w].pc = "write" /\ inv'[i] = proc[w].goal
  BY InvoiceSource
<1> QED
  BY <1>1 DEF Current

\* What the request about an invoice has read is still so.
LEMMA CurrentStep ==
    ASSUME TypeInv, IssuedInv, PaymentStep, NEW i \in Invoices, Current(i),
           ~Crowd(AboutInvoice(i)')
    PROVE  Current(i)'
<1>0. /\ [Next]_vars /\ UNCHANGED <<refunds, desk>>
      /\ inv \in [Invoices -> InvoiceStatus \cup {"NONE"}]
  BY PaymentIsNext DEF TypeInv, TypeOK
<1>1. ASSUME NEW w \in Workers, proc'[w].doc = i
      PROVE  /\ proc'[w].pc = "write" => proc'[w].goal \in TRANSITIONS[inv'[i]]
             /\ proc'[w].pc \in {"number", "commit"} => "PAID" \in TRANSITIONS[inv'[i]]
  <2>1. CASE proc'[w] = proc[w]
    <3>1. CASE inv'[i] = inv[i]
      BY <1>1, <2>1, <3>1 DEF Current
    <3>2. CASE inv'[i] # inv[i] /\ inv[i] = "NONE"
      <4>1. TRANSITIONS[inv[i]] = {}
        BY <3>2 DEF TRANSITIONS
      <4> QED
        BY <1>1, <2>1, <4>1 DEF Current
    <3>3. CASE inv'[i] # inv[i] /\ inv[i] # "NONE"
      <4>1. PICK v \in Workers : proc[v].doc = i /\ proc'[v] # proc[v]
        BY <1>0, <3>3, InvoiceSource
      <4> QED
        BY <1>1, <2>1, <4>1, AloneAtInvoice
    <3> QED
      BY <3>1, <3>2, <3>3
  <2>2. CASE \E p \in Payments : Comes(w, p)
    BY <2>2 DEF Comes
  <2>3. CASE Checks(w)
    BY <1>1, <2>3 DEF Checks
  <2>4. CASE GoesOn(w)
    <3>1. /\ proc[w].doc = i /\ proc'[w].pc # "write"
          /\ proc'[w].pc \in {"number", "commit"} =>
                /\ UNCHANGED inv
                /\ \/ "PAID" \in TRANSITIONS[inv[i]]
                   \/ proc[w].pc \in {"number", "commit"}
      BY <1>1, <2>4 DEF GoesOn, MarkPaidRead, ReadReceiptNumber, MarkPaidCollision,
         At, tables
    <3> QED
      BY <3>1 DEF Current
  <2>5. CASE Ends(w)
    BY <2>5 DEF Ends, Idle
  <2> QED
    BY <2>1, <2>2, <2>3, <2>4, <2>5, WorkerMoves
<1> QED
  BY <1>0, <1>1 DEF Current, Crowd, AboutInvoice, DeskAt

\* Nobody comes to settle a refunded checkout.
LEMMA StandingStep ==
    ASSUME TypeInv, PaymentStep, NEW p \in Payments, Standing(p)
    PROVE  Standing(p)'
<1> SUFFICES ASSUME Method[p] \in Checkouts, Provider[p] # "GENERIC",
                    pay'[p] = "REFUNDED", NEW w \in Workers,
                    proc'[w].pc \in OnPayment \ {"verify", "fail", "claim"},
                    proc'[w].ref = p
             PROVE  FALSE
  BY DEF Standing
<1>0. [Next]_vars /\ Method[p] # "offline" /\ p # None
  BY PaymentIsNext, ConstantsAssumption DEF Checkouts
<1>1. pay[p] = "REFUNDED"
  BY <1>0, PayFrame
<1>2. \A v \in Workers :
         proc[v].pc \in OnPayment \ {"verify", "fail", "claim"} => proc[v].ref # p
  BY <1>1 DEF Standing
<1>3. \A q \in Payments : ~Comes(w, q)
  BY <1>0, <1>1 DEF Comes
<1>4. ~Checks(w) /\ ~Ends(w)
  BY <1>0 DEF Checks, Ends, Idle
<1>5. proc'[w] # proc[w]
  BY <1>2
<1>6. GoesOn(w)
  BY <1>3, <1>4, <1>5, WorkerMoves
<1>7. /\ proc[w].ref = p
      /\ proc[w].pc \in {"create", "settle", "apply"} \cup MarkingPaid
  BY <1>1, <1>6 DEF GoesOn, CreatePayment, SettlePayment, ApplyPlan, MarkPaidRead,
     ReadReceiptNumber, MarkPaidCollision, MarkPaidCommit, MarkingPaid, At
<1> QED
  BY <1>2, <1>7 DEF OnPayment, MarkingPaid

\* An invoice that is closed stays closed.
LEMMA ClosedStep ==
    ASSUME TypeInv, IssuedInv, [Next]_vars, NEW i \in Invoices, Current(i), Closed(i)
    PROVE  Closed(i)'
<1>1. CASE \E q \in Payments : InvoiceOf[q] = i /\ HasReceipt(q)
  BY <1>1, RowsStay DEF Closed
<1>2. CASE inv[i] = "VOID"
  <2>1. TRANSITIONS["VOID"] = {}
    BY DEF TRANSITIONS
  <2>2. inv'[i] = inv[i]
    BY <1>2, <2>1, PayTransition
  <2> QED
    BY <1>2, <2>2 DEF Closed
<1> QED
  BY <1>1, <1>2 DEF Closed

\* An invoice that cannot be paid any more, and that was issued, is closed.
LEMMA ClosedToPayment ==
    ASSUME TypeInv, PaidHasReceipt, NEW i \in Invoices,
           inv[i] \notin {"NONE", "DRAFT"}, "PAID" \notin TRANSITIONS[inv[i]]
    PROVE  Closed(i)
<1>1. inv[i] \in {"PAID", "VOID"}
  BY DEF TypeInv, TypeOK, InvoiceStatus, TRANSITIONS
<1> QED
  BY <1>1 DEF Closed, PaidHasReceipt

\* A checkout that is completed is taken on to its receipt.
LEMMA ReceiptedStep ==
    ASSUME PaidInv, CheckoutInv, PaymentStep, NEW p \in Payments,
           Current(InvoiceOf[p]), Receipted(p)
    PROVE  Receipted(p)'
<1> DEFINE i == InvoiceOf[p]
<1> SUFFICES ASSUME p \in Completed', p \notin cut'
             PROVE  Handled(p)' \/ Closed(i)'
  BY DEF Receipted
<1>0. /\ TypeInv /\ IssuedInv /\ PaidHasReceipt /\ [Next]_vars /\ RequestInv
      /\ i \in Invoices /\ proc \in [Workers -> Request] /\ p # None
      /\ p \notin cut
  BY PaymentIsNext, ConstantsAssumption DEF PaidInv, TypeInv, TypeOK
<1>1. /\ Method[p] \in Checkouts /\ Method[p] # "offline"
      /\ pay'[p] = "SUCCESSFUL" /\ ~HasReceipt(p)' /\ ~HasReceipt(p)
  BY <1>0, RowsStay DEF Completed, Checkouts
<1>2. CASE pay[p] # "SUCCESSFUL"
  <2>1. PICK w \in Workers :
           /\ proc[w].ref = p
           /\ \/ SettlePayment(w) \/ MarkPaidCommit(w)
              \/ ClaimPayment(w) /\ pay[p] = "PENDING"
    BY <1>0, <1>1, <1>2, PayFrame
  <2>2. ~MarkPaidCommit(w)
    BY <1>0, <1>1, <2>1, ReceiptsAfterCommit
  <2>3. proc'[w].ref = p /\ proc'[w].pc \in {"markPaid", "apply"}
    BY <1>0, <2>1, <2>2 DEF SettlePayment, ClaimPayment, Goto, Request
  <2> QED
    BY <2>3 DEF Handled
<1>3. CASE pay[p] = "SUCCESSFUL"
  <2>1. p \in Completed /\ (Handled(p) \/ Closed(i))
    BY <1>0, <1>1, <1>3 DEF Completed, Receipted
  <2>2. CASE Closed(i)
    BY <1>0, <2>2, ClosedStep
  <2>3. ASSUME NEW w \in Workers, proc[w].ref = p,
               proc[w].pc \in {"apply", "markPaid", "number", "commit"}
        PROVE  Handled(p)' \/ Closed(i)'
    <3>1. CASE proc'[w] = proc[w]
      BY <2>3, <3>1 DEF Handled
    <3>2. ~Checks(w) /\ \A q \in Payments : ~Comes(w, q)
      BY <2>3 DEF Checks, Comes
    <3>3. CASE GoesOn(w)
      <4>1. ~MarkPaidCommit(w)
        BY <1>0, <1>1, <2>3, ReceiptsAfterCommit
      <4>2. /\ proc'[w].ref = p
            /\ proc'[w].pc \in {"apply", "markPaid", "number", "commit"}
        BY <2>3, <3>3, <4>1 DEF GoesOn, CreatePayment, VerifySuccess, VerifyFailed, At
      <4> QED
        BY <4>2 DEF Handled
    <3>4. CASE Ends(w)
      <4>1. cut' # cut \cup Unreceipted(w)
        BY <2>1, <2>3 DEF Unreceipted
      <4>2. UNCHANGED inv /\ "PAID" \notin TRANSITIONS[inv[proc[w].doc]]
        BY <2>3, <3>4, <4>1 DEF Ends
      <4>3. proc[w].doc = i
        BY <1>0, <2>3 DEF RequestInv, OnPayment, MarkingPaid
      <4>4. inv[i] \notin {"NONE", "DRAFT"}
        BY <1>1, <1>3 DEF CheckoutInv
      <4>5. Closed(i)
        BY <1>0, <4>2, <4>3, <4>4, ClosedToPayment
      <4> QED
        BY <1>0, <4>5, ClosedStep
    <3> QED
      BY <3>1, <3>2, <3>3, <3>4, WorkerMoves, <1>0
  <2> QED
    BY <2>1, <2>2, <2>3 DEF Handled
<1> QED
  BY <1>2, <1>3

\* No step of the payments takes a refund back.
LEMMA PayStands ==
    ASSUME TypeInv, CheckoutInv, [Next]_vars, NEW p \in Payments, Standing(p),
           Method[p] \in Checkouts, Provider[p] # "GENERIC", p \notin declined,
           pay[p] = "REFUNDED"
    PROVE  pay'[p] = "REFUNDED"
<1> SUFFICES ASSUME pay'[p] # pay[p]
             PROVE  FALSE
  OBVIOUS
<1>1. PICK w \in Workers :
         /\ proc[w].ref = p /\ proc[w].pc \in OnPayment
         /\ \/ CreatePayment(w) \/ ProviderRejects(w) \/ FailPayment(w)
            \/ SettlePayment(w) \/ MarkPaidCommit(w)
  BY PayFrame
<1>2. proc[w].pc \in {"create", "provider", "fail", "settle", "commit"}
  BY <1>1 DEF CreatePayment, ProviderRejects, FailPayment, SettlePayment,
     MarkPaidCommit, At
<1>3. proc[w].pc # "fail"
  BY <1>1 DEF CheckoutInv
<1> QED
  BY <1>1, <1>2, <1>3 DEF Standing

-------------------------------------------------------------------------------
(***************************************************************************)
(* The steps of the refunds.                                               *)
(***************************************************************************)

\* A write of a refund changes the status of one row.
LEMMA RowWritten ==
    ASSUME DeskTypes, NEW k \in DOMAIN refunds, NEW status \in RefundStatus,
           refunds' = [refunds EXCEPT ![k].status = status]
    PROVE  /\ refunds' \in Seq(RefundRow)
           /\ DOMAIN refunds' = DOMAIN refunds /\ Len(refunds') = Len(refunds)
           /\ refunds'[k].status = status
           /\ \A j \in DOMAIN refunds :
                 /\ refunds'[j].number = refunds[j].number
                 /\ refunds'[j].payment = refunds[j].payment
                 /\ j # k => refunds'[j] = refunds[j]
<1> DEFINE r == [refunds[k] EXCEPT !.status = status]
<1>0. refunds \in Seq(RefundRow) /\ refunds[k] \in RefundRow
  BY DEF DeskTypes
<1>1. /\ r \in RefundRow /\ r.status = status
      /\ r.number = refunds[k].number /\ r.payment = refunds[k].payment
  BY <1>0 DEF RefundRow
<1>2. refunds' = [refunds EXCEPT ![k] = r]
  BY <1>0
<1> HIDE DEF r
<1> QED
  BY <1>0, <1>1, <1>2

\* A new refund is the next row.
LEMMA RowAdded ==
    ASSUME DeskTypes, NEW d \in Desks, CreateRefund(d)
    PROVE  /\ refunds' \in Seq(RefundRow)
           /\ DOMAIN refunds \subseteq DOMAIN refunds'
           /\ Len(refunds') = Len(refunds) + 1
           /\ \A k \in DOMAIN refunds : refunds'[k] = refunds[k]
           /\ \A k \in DOMAIN refunds' \ DOMAIN refunds :
                 refunds'[k].number = k /\ refunds'[k].payment = desk[d].ref
<1> DEFINE r == [number |-> desk[d].num, payment |-> desk[d].ref, status |-> "PENDING"]
<1>0. /\ refunds \in Seq(RefundRow) /\ DOMAIN refunds = 1..Len(refunds)
      /\ Len(refunds) \in Nat
      /\ desk[d].ref \in Payments /\ desk[d].num \in 1..(Len(refunds) + 1)
      /\ refunds' = Append(refunds, r) /\ ~RefundNumberTaken(desk[d].num)
  BY DEF DeskTypes, CreateRefund, DeskAt
<1>1. desk[d].num = Len(refunds) + 1
  <2>1. desk[d].num \notin DOMAIN refunds
    BY <1>0 DEF RefundNumberTaken, DeskTypes
  <2> QED
    BY <1>0, <2>1
<1>2. r \in RefundRow /\ r.number = Len(refunds) + 1 /\ r.payment = desk[d].ref
  BY <1>0, <1>1 DEF RefundRow, RefundStatus
<1> HIDE DEF r
<1> QED
  BY <1>0, <1>2

\* Nothing changes for the payments and the invoices, and no refund becomes
\* PROCESSED.
Quiet ==
    /\ UNCHANGED <<vars, cut>>
    /\ \A k \in DOMAIN refunds :
          refunds'[k].status = "PROCESSED" => refunds[k].status = "PROCESSED"
    /\ \A d \in Desks : desk'[d].pc = "process" =>
          /\ desk'[d].id \in DOMAIN refunds
          /\ desk'[d] = desk[d] \/ refunds[desk'[d].id].status = "APPROVED"

\* Then what is said of the invoices goes on to hold.
LEMMA QuietInvoices ==
    ASSUME InvoicesInv, Quiet, Record
    PROVE  InvoicesInv'
<1>0. UNCHANGED <<inv, pay, receipts, proc, cut>>
  BY DEF Quiet, vars, tables
<1>1. ASSUME NEW i \in Invoices, i \notin crowded'
      PROVE  Current(i)'
  <2>1. Current(i) /\ ~Crowd(AboutInvoice(i)')
    BY <1>1 DEF Record, InvoicesInv
  <2>2. ASSUME NEW d \in Desks, desk'[d].pc = "process", InvoiceOf[desk'[d].ref] = i
        PROVE  refunds'[desk'[d].id].status # "PROCESSED"
    BY <2>1, <2>2 DEF Quiet, Current
  <2> QED
    BY <1>0, <2>1, <2>2 DEF Current, Crowd, AboutInvoice, DeskAt
<1>2. ASSUME NEW p \in Payments, InvoiceOf[p] \notin crowded'
      PROVE  Standing(p)' /\ Receipted(p)'
  <2>1. Standing(p) /\ Receipted(p)
    BY <1>2 DEF Record, InvoicesInv
  <2> QED
    BY <1>0, <2>1 DEF Standing, Receipted, Completed, HasReceipt, Handled, Closed
<1> QED
  BY <1>1, <1>2 DEF InvoicesInv

\* The number a request reads is one that exists or the next one.
LEMMA NextRefund ==
    ASSUME DeskTypes
    PROVE  NextRefundNumber \in 1..(Len(refunds) + 1)
<1>0. refunds \in Seq(RefundRow) /\ Len(refunds) \in Nat
  BY DEF DeskTypes
<1>1. CASE refunds = << >>
  BY <1>0, <1>1 DEF NextRefundNumber
<1>2. CASE refunds # << >>
  <2>1. Len(refunds) \in DOMAIN refunds
    BY <1>0, <1>2
  <2>2. refunds[Len(refunds)].number = Len(refunds)
    BY <2>1 DEF DeskTypes
  <2> QED
    BY <1>0, <1>2, <2>2 DEF NextRefundNumber
<1> QED
  BY <1>1, <1>2

\* The state of a request about a refund after a step of its own that writes
\* no table.
Moved(d) ==
    \/ desk'[d] = Away
    \/ /\ desk'[d].pc \in {"number", "create"}
       /\ desk'[d].ref \in Payments /\ desk'[d].id = 0
       /\ desk'[d].pc = "create" => desk'[d].num \in 1..(Len(refunds) + 1)
       /\ \/ pay[desk'[d].ref] = "SUCCESSFUL"
          \/ desk[d].pc \in {"number", "create"} /\ desk[d].ref = desk'[d].ref
    \/ /\ desk'[d].pc \in {"approve", "process"} /\ desk'[d].id \in DOMAIN refunds
       /\ desk'[d].ref = refunds[desk'[d].id].payment
       /\ refunds[desk'[d].id].status \in {"PENDING", "APPROVED"}
       /\ desk'[d].pc = "process" => refunds[desk'[d].id].status = "APPROVED"

\* Such a step moves nothing but its request.
DeskMoves(d) ==
    /\ UNCHANGED <<vars, cut, refunds, refused, paidOut>>
    /\ desk' \in [Desks -> DeskRow]
    /\ \A e \in Desks : e # d => desk'[e] = desk[e]
    /\ Moved(d)

\* What these steps are.
LEMMA MovesOfDesk ==
    ASSUME DeskTypes, NEW d \in Desks,
           \/ \E p \in Payments : RequestRefund(d, p)
           \/ \E k \in DOMAIN refunds : ApproveRefund(d, k) \/ ProcessRefund(d, k)
           \/ ReadRefundNumber(d) \/ RefundCollision(d) \/ RefundCut(d)
    PROVE  DeskMoves(d)
<1>0. /\ refunds \in Seq(RefundRow) /\ desk \in [Desks -> DeskRow]
      /\ Away \in DeskRow
  BY DEF DeskTypes, DeskRow, Away, About
<1> USE DEF refundTables, Untouched
<1>1. ASSUME NEW p \in Payments, RequestRefund(d, p)
      PROVE  DeskMoves(d)
  <2>1. desk' = [desk EXCEPT ![d] = About("number", p, 0)]
    BY <1>1 DEF RequestRefund, Proceed
  <2>2. /\ About("number", p, 0) \in DeskRow
        /\ About("number", p, 0).pc = "number" /\ About("number", p, 0).ref = p
        /\ About("number", p, 0).id = 0
    BY DEF About, DeskRow
  <2> QED
    BY <1>0, <1>1, <2>1, <2>2 DEF RequestRefund, DeskMoves, Moved
<1>2. ASSUME NEW k \in DOMAIN refunds, NEW l \in {"approve", "process"}, Consider(d, k, l),
             refunds[k].status \in {"PENDING", "APPROVED"},
             l = "process" => refunds[k].status = "APPROVED"
      PROVE  DeskMoves(d)
  <2> DEFINE p == refunds[k].payment
  <2>1. desk' = [desk EXCEPT ![d] = About(l, p, k)]
    BY <1>2 DEF Consider, Proceed
  <2>2. refunds[k] \in RefundRow /\ k \in Nat
    BY <1>0
  <2>3. p \in Payments
    BY <2>2 DEF RefundRow
  <2>4. /\ About(l, p, k) \in DeskRow
        /\ About(l, p, k).pc = l /\ About(l, p, k).ref = p /\ About(l, p, k).id = k
    BY <2>2, <2>3 DEF About, DeskRow
  <2> QED
    BY <1>0, <1>2, <2>1, <2>4 DEF Consider, DeskMoves, Moved
<1>3. CASE ReadRefundNumber(d)
  <2>1. /\ desk[d].pc = "number" /\ desk[d].id = 0 /\ desk[d].ref \in Payments
        /\ NextRefundNumber \in 1..(Len(refunds) + 1) /\ NextRefundNumber \in Nat
        /\ desk' = [desk EXCEPT ![d].pc = "create", ![d].num = NextRefundNumber]
    BY <1>0, <1>3, NextRefund DEF ReadRefundNumber, DeskAt, DeskTypes
  <2>2. /\ desk' \in [Desks -> DeskRow] /\ \A e \in Desks : e # d => desk'[e] = desk[e]
        /\ desk'[d].pc = "create" /\ desk'[d].id = 0 /\ desk'[d].ref = desk[d].ref
        /\ desk'[d].num = NextRefundNumber
    BY <1>0, <2>1 DEF DeskRow
  <2>3. UNCHANGED <<vars, cut, refunds, refused, paidOut>>
    BY <1>3 DEF ReadRefundNumber
  <2> QED
    BY <2>1, <2>2, <2>3 DEF DeskMoves, Moved
<1>4. ASSUME Leave(d), UNCHANGED <<vars, cut, refunds, refused, paidOut>>
      PROVE  DeskMoves(d)
  BY <1>0, <1>4 DEF Leave, DeskMoves, Moved
<1>5. CASE RefundCut(d)
  BY <1>4, <1>5 DEF RefundCut
<1>6. CASE RefundCollision(d)
  <2>1. CASE Leave(d)
    BY <1>4, <1>6, <2>1 DEF RefundCollision
  <2>2. CASE desk' = [desk EXCEPT ![d].pc = "number", ![d].tries = @ + 1]
    <3>1. /\ desk[d].pc = "create" /\ desk[d].id = 0 /\ desk[d].ref \in Payments
          /\ desk[d].tries + 1 \in Nat
      BY <1>0, <1>6 DEF RefundCollision, DeskAt, DeskTypes, DeskRow
    <3>2. /\ desk' \in [Desks -> DeskRow] /\ \A e \in Desks : e # d => desk'[e] = desk[e]
          /\ desk'[d].pc = "number" /\ desk'[d].id = 0 /\ desk'[d].ref = desk[d].ref
      BY <1>0, <2>2, <3>1 DEF DeskRow
    <3>3. UNCHANGED <<vars, cut, refunds, refused, paidOut>>
      BY <1>6 DEF RefundCollision
    <3> QED
      BY <3>1, <3>2, <3>3 DEF DeskMoves, Moved
  <2> QED
    BY <1>6, <2>1, <2>2 DEF RefundCollision
<1> QED
  BY <1>1, <1>2, <1>3, <1>5, <1>6 DEF ApproveRefund, ProcessRefund

\* They keep what is said of the refunds.
LEMMA DeskMovesKeep ==
    ASSUME DeskTypes, RejectInv, MoneyInv, Record, NEW d \in Desks, DeskMoves(d)
    PROVE  DeskTypes' /\ RejectInv' /\ MoneyInv' /\ Quiet
<1>0. /\ UNCHANGED <<pay, proc, captured, refunds, refused, paidOut>>
      /\ argued \subseteq argued' /\ 0 \notin DOMAIN refunds
      /\ refunds \in Seq(RefundRow)
      /\ Away.pc = "idle" /\ Away.id = 0
  BY DEF DeskMoves, vars, tables, gateway, Record, DeskTypes, Away, About
<1>1. DeskTypes'
  BY <1>0 DEF DeskMoves, Moved, DeskTypes
<1>2. \A k \in refused : Rejected(k) => Rejected(k)'
  BY <1>0 DEF Rejected, AboutRefund, DeskMoves, Moved, DeskTypes
<1>3. RejectInv'
  BY <1>0, <1>2 DEF RejectInv, RejectedIsNotPaidOut
<1>4. MoneyInv'
  BY <1>0 DEF MoneyInv, Backed, DeskMoves, Moved
<1>5. Quiet
  BY <1>0 DEF Quiet, DeskMoves, Moved, DeskTypes
<1> QED
  BY <1>1, <1>3, <1>4, <1>5

\* A new refund is of the payment of its request.
LEMMA CreateKeeps ==
    ASSUME DeskTypes, RejectInv, MoneyInv, Record, NEW d \in Desks, CreateRefund(d)
    PROVE  DeskTypes' /\ RejectInv' /\ MoneyInv' /\ Quiet
<1>0. /\ UNCHANGED <<vars, cut, refused, paidOut, pay, proc, captured>>
      /\ argued \subseteq argued'
      /\ refunds \in Seq(RefundRow) /\ Len(refunds) \in Nat
      /\ DOMAIN refunds = 1..Len(refunds) /\ 0 \notin DOMAIN refunds
      /\ desk[d].pc = "create"
  BY DEF CreateRefund, Untouched, DeskAt, vars, tables, gateway, Record, DeskTypes
<1>1. /\ refunds' \in Seq(RefundRow) /\ DOMAIN refunds \subseteq DOMAIN refunds'
      /\ Len(refunds') = Len(refunds) + 1
      /\ \A k \in DOMAIN refunds : refunds'[k] = refunds[k]
      /\ \A k \in DOMAIN refunds' \ DOMAIN refunds :
            refunds'[k].number = k /\ refunds'[k].payment = desk[d].ref
  BY RowAdded
<1>2. /\ desk' \in [Desks -> DeskRow]
      /\ desk'[d].pc = "idle" /\ desk'[d].id = 0
      /\ \A e \in Desks : e # d => desk'[e] = desk[e]
  BY DEF CreateRefund, Leave, Away, About, DeskTypes, DeskRow
<1>3. DeskTypes'
  BY <1>0, <1>1, <1>2 DEF DeskTypes
<1>4. \A k \in refused : Rejected(k) => Rejected(k)'
  BY <1>0, <1>1, <1>2 DEF Rejected, AboutRefund
<1>5. RejectInv'
  BY <1>0, <1>4 DEF RejectInv, RejectedIsNotPaidOut
<1>6. MoneyInv'
  <2> SUFFICES ASSUME NEW p \in Payments, Backed(p)
               PROVE  Backed(p)'
    BY DEF MoneyInv
  <2>1. CASE p \in captured \cup Cash
    BY <1>0, <2>1 DEF Backed, Cash
  <2>2. CASE p \notin captured \cup Cash
    <3>1. /\ desk[d].ref # p
          /\ \A k \in DOMAIN refunds : refunds[k].payment # p
          /\ \A e \in Desks : desk[e].pc \in {"number", "create"} => desk[e].ref # p
      BY <1>0, <2>2 DEF Backed
    <3>2. \A k \in DOMAIN refunds' : refunds'[k].payment # p
      BY <1>1, <3>1
    <3>3. \A e \in Desks : desk'[e].pc \in {"number", "create"} => desk'[e].ref # p
      BY <1>2, <3>1
    <3> QED
      BY <1>0, <2>2, <3>2, <3>3 DEF Backed
  <2> QED
    BY <2>1, <2>2
<1>7. Quiet
  BY <1>0, <1>1, <1>2 DEF Quiet, DeskTypes
<1> QED
  BY <1>3, <1>5, <1>6, <1>7

\* A write of a status that leaves the desks in their places, or one of them.
Writes(k, status) ==
    /\ refunds' = [refunds EXCEPT ![k].status = status]
    /\ desk' \in [Desks -> DeskRow]
    /\ \A e \in Desks : desk'[e] = desk[e] \/ desk'[e] = Away
    /\ UNCHANGED <<proc, captured, declined>>

\* It keeps the numbers and the money.
LEMMA WriteKeeps ==
    ASSUME DeskTypes, MoneyInv, NEW k \in DOMAIN refunds, NEW status \in RefundStatus,
           Writes(k, status), \A p \in Payments : pay'[p] = "SUCCESSFUL" => pay[p] = "SUCCESSFUL"
    PROVE  /\ DeskTypes' /\ MoneyInv'
           /\ \A j \in DOMAIN refunds : j # k /\ Rejected(j) => Rejected(j)'
<1>0. /\ refunds \in Seq(RefundRow) /\ 0 \notin DOMAIN refunds
      /\ Away.pc = "idle" /\ Away.id = 0
      /\ UNCHANGED <<proc, captured>>
  BY DEF DeskTypes, Away, About, Writes
<1>1. /\ refunds' \in Seq(RefundRow)
      /\ DOMAIN refunds' = DOMAIN refunds /\ Len(refunds') = Len(refunds)
      /\ \A j \in DOMAIN refunds :
            /\ refunds'[j].number = refunds[j].number
            /\ refunds'[j].payment = refunds[j].payment
            /\ j # k => refunds'[j] = refunds[j]
  BY RowWritten DEF Writes
<1>2. /\ desk' \in [Desks -> DeskRow]
      /\ \A e \in Desks : desk'[e] = desk[e] \/ (desk'[e].pc = "idle" /\ desk'[e].id = 0)
  BY <1>0 DEF Writes
<1>3. DeskTypes'
  BY <1>0, <1>1, <1>2 DEF DeskTypes
<1>4. MoneyInv'
  BY <1>0, <1>1, <1>2 DEF MoneyInv, Backed
<1>5. \A j \in DOMAIN refunds : j # k /\ Rejected(j) => Rejected(j)'
  BY <1>0, <1>1, <1>2 DEF Rejected, AboutRefund
<1> QED
  BY <1>3, <1>4, <1>5

\* An approval is written to a refund its request is about.
LEMMA ApprovalKeeps ==
    ASSUME DeskTypes, RejectInv, MoneyInv, Record, NEW d \in Desks, WriteApproval(d)
    PROVE  DeskTypes' /\ RejectInv' /\ MoneyInv' /\ Quiet
<1> DEFINE k == desk[d].id
<1>0. /\ UNCHANGED <<vars, cut, refused, paidOut, pay, proc, captured, declined>>
      /\ argued \subseteq argued' /\ k \in DOMAIN refunds
      /\ "APPROVED" \in RefundStatus
  BY DEF WriteApproval, Untouched, DeskAt, vars, tables, gateway, Record, DeskTypes,
     RefundStatus
<1>1. Writes(k, "APPROVED")
  BY <1>0 DEF WriteApproval, Write, Leave, Writes, DeskTypes, Away, About, DeskRow
<1>2. /\ DeskTypes' /\ MoneyInv'
      /\ \A j \in DOMAIN refunds : j # k /\ Rejected(j) => Rejected(j)'
  BY <1>0, <1>1, WriteKeeps
<1>3. ~Rejected(k)
  BY DEF Rejected, AboutRefund
<1>4. RejectInv'
  <2>1. \A j \in refused \ argued' : Rejected(j)'
    BY <1>0, <1>2, <1>3 DEF RejectInv, Rejected
  <2> QED
    BY <1>0, <2>1 DEF RejectInv, RejectedIsNotPaidOut
<1>5. Quiet
  <2>1. \A j \in DOMAIN refunds :
           refunds'[j].status = "APPROVED" \/ refunds'[j] = refunds[j]
    BY <1>0, <1>1, RowWritten DEF Writes
  <2>2. \A e \in Desks : desk'[e].pc = "process" => desk'[e] = desk[e]
    BY <1>1 DEF Writes, Away, About
  <2> QED
    BY <1>0, <2>1, <2>2 DEF Quiet, DeskTypes
<1> QED
  BY <1>2, <1>4, <1>5

\* A rejection is written whatever else is under way, and is then counted.
LEMMA RejectionKeeps ==
    ASSUME DeskTypes, RejectInv, MoneyInv, Record, NEW d \in Desks,
           NEW k \in DOMAIN refunds, RejectRefund(d, k)
    PROVE  DeskTypes' /\ RejectInv' /\ MoneyInv' /\ Quiet
<1>0. /\ UNCHANGED <<vars, cut, desk, paidOut, pay, proc, captured, declined>>
      /\ refused' = refused \cup {k}
      /\ argued \subseteq argued'
      /\ k \in refused' \ (refused \cup argued') => AboutRefund(k) = {}
      /\ "REJECTED" \in RefundStatus
  BY DEF RejectRefund, Untouched, vars, tables, gateway, Record, RefundStatus
<1>1. Writes(k, "REJECTED")
  BY <1>0 DEF RejectRefund, Writes, DeskTypes
<1>2. /\ DeskTypes' /\ MoneyInv'
      /\ \A j \in DOMAIN refunds : j # k /\ Rejected(j) => Rejected(j)'
  BY <1>0, <1>1, WriteKeeps
<1>3. refunds'[k].status = "REJECTED" /\ DOMAIN refunds' = DOMAIN refunds
  BY <1>0, <1>1, RowWritten DEF Writes
<1>4. RejectInv'
  <2>1. k \notin argued' => AboutRefund(k) = {}
    BY <1>0 DEF RejectInv, Rejected
  <2>2. k \notin argued' => Rejected(k)'
    BY <1>0, <1>3, <2>1 DEF Rejected, AboutRefund
  <2>3. \A j \in refused' \ argued' : Rejected(j)'
    BY <1>0, <1>2, <2>2 DEF RejectInv, Rejected
  <2> QED
    BY <1>0, <2>3 DEF RejectInv, RejectedIsNotPaidOut
<1>5. Quiet
  <2>1. \A j \in DOMAIN refunds :
           refunds'[j].status = "REJECTED" \/ refunds'[j] = refunds[j]
    BY <1>0, <1>1, RowWritten DEF Writes
  <2> QED
    BY <1>0, <2>1 DEF Quiet, DeskTypes
<1> QED
  BY <1>2, <1>4, <1>5

\* A refund is paid out: its payment becomes REFUNDED and its invoice VOID.
LEMMA PayOutFrame ==
    ASSUME TypeInv, DeskTypes, NEW d \in Desks, WriteRefund(d)
    PROVE  /\ desk[d].id \in DOMAIN refunds /\ desk[d].ref \in Payments
           /\ InvoiceOf[desk[d].ref] \in Invoices
           /\ Writes(desk[d].id, "PROCESSED") /\ desk'[d] = Away
           /\ \A e \in Desks : e # d => desk'[e] = desk[e]
           /\ \A p \in Payments : pay'[p] = IF p = desk[d].ref THEN "REFUNDED" ELSE pay[p]
           /\ \A i \in Invoices :
                 inv'[i] = IF i = InvoiceOf[desk[d].ref] THEN "VOID" ELSE inv[i]
           /\ UNCHANGED <<attempts, receipts, captured, declined, proc, refused, cut>>
           /\ TypeInv'
<1>0. /\ refunds \in Seq(RefundRow) /\ desk[d].pc = "process"
      /\ desk \in [Desks -> DeskRow] /\ Away \in DeskRow
      /\ inv \in [Invoices -> InvoiceStatus \cup {"NONE"}]
      /\ pay \in [Payments -> PaymentStatus \cup {"NONE"}]
      /\ UNCHANGED <<attempts, receipts, applied, access, gateway, proc, refused, cut>>
  BY DEF DeskTypes, WriteRefund, DeskAt, TypeInv, TypeOK, Away, About, DeskRow
<1>1. desk[d].id \in DOMAIN refunds /\ desk[d].ref \in Payments
  <2>1. /\ desk[d].id \in DOMAIN refunds
        /\ desk[d].ref = refunds[desk[d].id].payment
    BY <1>0 DEF DeskTypes
  <2>2. refunds[desk[d].id] \in RefundRow
    BY <1>0, <2>1
  <2> QED
    BY <2>1, <2>2 DEF RefundRow
<1>2. InvoiceOf[desk[d].ref] \in Invoices
  BY <1>1, ConstantsAssumption
<1>3. /\ Writes(desk[d].id, "PROCESSED") /\ desk'[d] = Away
      /\ \A e \in Desks : e # d => desk'[e] = desk[e]
  BY <1>0 DEF WriteRefund, Write, Leave, Writes, gateway
<1>4. /\ pay' = [pay EXCEPT ![desk[d].ref] = "REFUNDED"]
      /\ inv' = [inv EXCEPT ![InvoiceOf[desk[d].ref]] = "VOID"]
  BY DEF WriteRefund, RefundPayment
<1>5. /\ pay' \in [Payments -> PaymentStatus \cup {"NONE"}]
      /\ inv' \in [Invoices -> InvoiceStatus \cup {"NONE"}]
  BY <1>0, <1>1, <1>2, <1>4 DEF PaymentStatus, InvoiceStatus
<1>6. TypeInv'
  BY <1>0, <1>5 DEF TypeInv, TypeOK, RequestInv, gateway
<1> QED
  BY <1>0, <1>1, <1>2, <1>3, <1>4, <1>6 DEF gateway

\* That keeps the invoices issued and receipted.
LEMMA PayOutPaid ==
    ASSUME PaidInv, CheckoutInv, DeskTypes, NEW d \in Desks, WriteRefund(d)
    PROVE  PaidInv' /\ CheckoutInv'
<1>0. TypeInv /\ IssuedInv /\ PaidHasReceipt /\ TypeInv' /\ RequestInv
  BY PayOutFrame DEF PaidInv, TypeInv
<1>1. /\ \A p \in Payments : pay'[p] = pay[p] \/ pay'[p] = "REFUNDED"
      /\ \A i \in Invoices : inv'[i] = inv[i] \/ inv'[i] = "VOID"
      /\ UNCHANGED <<attempts, receipts, captured, declined, proc>>
  BY <1>0, PayOutFrame
<1>2. \A p \in Payments : pay'[p] # "NONE" <=> pay[p] # "NONE" \/ pay'[p] = "REFUNDED"
  BY <1>1
<1>3. \A w \in Workers : proc[w].pc \in OnPayment =>
         proc[w].ref \in Payments /\ proc[w].doc \in Invoices
  BY <1>0, ConstantsAssumption DEF RequestInv
<1>4. IssuedInv'
  BY <1>0, <1>1, <1>3 DEF IssuedInv, RequestInv, OnPayment, MarkingPaid
<1>5. PaidHasReceipt'
  BY <1>0, <1>1 DEF PaidHasReceipt, HasReceipt
<1>6. CheckoutInv'
  <2>1. attempts \subseteq Payments
    BY <1>0 DEF TypeInv, TypeOK
  <2>2. \A p \in attempts : pay'[p] # "NONE"
    BY <1>1, <2>1 DEF CheckoutInv
  <2>3. \A w \in Workers :
          /\ proc[w].pc \in OnPayment \ {"create"} /\ Method[proc[w].ref] \in Checkouts =>
                pay'[proc[w].ref] # "NONE"
          /\ proc[w].pc = "create" /\ Method[proc[w].ref] \in Checkouts =>
                inv'[proc[w].doc] \notin {"NONE", "DRAFT"}
          /\ proc[w].pc = "fail" => proc[w].ref \in declined
          /\ proc[w].pc = "provider" => pay'[proc[w].ref] # "NONE"
    <3>1. "create" \in OnPayment /\ "provider" \in OnPayment
      BY DEF OnPayment
    <3> QED
      BY <1>1, <1>3, <3>1 DEF CheckoutInv
  <2>4. ASSUME NEW p \in Payments, pay'[p] # "NONE", Method[p] \in Checkouts
        PROVE  inv'[InvoiceOf[p]] \notin {"NONE", "DRAFT"}
    <3>1. CASE pay[p] # "NONE"
      BY <1>1, <2>4, <3>1, ConstantsAssumption DEF CheckoutInv
    <3>2. CASE pay[p] = "NONE"
      <4>1. p = desk[d].ref
        BY <1>0, <2>4, <3>2, PayOutFrame
      <4> QED
        BY <1>0, <4>1, PayOutFrame
    <3> QED
      BY <3>1, <3>2
  <2> QED
    BY <1>1, <2>2, <2>3, <2>4 DEF CheckoutInv
<1> QED
  BY <1>0, <1>4, <1>5, <1>6 DEF PaidInv

\* Nobody else is about an invoice whose refund is paid out, unless it is
\* crowded; so the refund was not PROCESSED before.
LEMMA AloneAtPayOut ==
    ASSUME TypeInv, DeskTypes, NEW d \in Desks, WriteRefund(d),
           Current(InvoiceOf[desk[d].ref])
    PROVE  /\ \A w \in Workers : proc[w].doc # InvoiceOf[desk[d].ref]
           /\ \A e \in Desks :
                 desk[e].pc = "process" /\ desk[e].id = desk[d].id => e = d
           /\ refunds[desk[d].id].status # "PROCESSED"
<1>1. desk[d].pc = "process"
  BY DEF WriteRefund, DeskAt
<1>2. ASSUME NEW e \in Desks, desk[e].pc = "process", desk[e].id = desk[d].id
      PROVE  desk[e].ref = desk[d].ref
  BY <1>1, <1>2 DEF DeskTypes
<1> QED
  BY <1>1, <1>2, RefundsAssumption DEF Current, Crowd, AboutInvoice, DeskAt

\* What is said of the invoices goes on to hold when a refund is paid out.
LEMMA PayOutInvoices ==
    ASSUME TypeInv, DeskTypes, InvoicesInv, Record, NEW d \in Desks, WriteRefund(d)
    PROVE  InvoicesInv'
<1> DEFINE p0 == desk[d].ref
           i0 == InvoiceOf[p0]
           k0 == desk[d].id
<1>0. /\ k0 \in DOMAIN refunds /\ p0 \in Payments /\ i0 \in Invoices
      /\ Writes(k0, "PROCESSED") /\ desk'[d] = Away
      /\ \A e \in Desks : e # d => desk'[e] = desk[e]
      /\ \A p \in Payments : pay'[p] = IF p = p0 THEN "REFUNDED" ELSE pay[p]
      /\ \A i \in Invoices : inv'[i] = IF i = i0 THEN "VOID" ELSE inv[i]
      /\ UNCHANGED <<receipts, proc, cut>> /\ RequestInv
  BY PayOutFrame DEF TypeInv
<1>1. \A j \in DOMAIN refunds : j # k0 => refunds'[j] = refunds[j]
  <2>1. "PROCESSED" \in RefundStatus
    BY DEF RefundStatus
  <2> QED
    BY <1>0, <2>1, RowWritten DEF Writes
<1>2. i0 \notin crowded' =>
         /\ \A w \in Workers : proc[w].doc # i0
         /\ \A e \in Desks : desk[e].pc = "process" /\ desk[e].id = k0 => e = d
  BY <1>0, AloneAtPayOut DEF InvoicesInv, Record
<1>3. ASSUME NEW i \in Invoices, i \notin crowded'
      PROVE  Current(i)'
  <2>1. Current(i) /\ ~Crowd(AboutInvoice(i)')
    BY <1>3 DEF Record, InvoicesInv
  <2>2. ASSUME NEW w \in Workers, proc[w].doc = i
        PROVE  inv'[i] = inv[i]
    BY <1>0, <1>2, <1>3, <2>2
  <2>3. ASSUME NEW e \in Desks, desk'[e].pc = "process", InvoiceOf[desk'[e].ref] = i
        PROVE  refunds'[desk'[e].id].status # "PROCESSED"
    <3>1. e # d /\ desk'[e] = desk[e]
      BY <1>0, <2>3 DEF Away, About
    <3>2. desk[e].id \in DOMAIN refunds /\ desk[e].ref = refunds[desk[e].id].payment
      BY <2>3, <3>1 DEF DeskTypes
    <3>3. desk[e].id # k0
      <4>1. CASE desk[e].id = k0
        <5>1. p0 = refunds[k0].payment
          BY DEF WriteRefund, DeskAt, DeskTypes
        <5>2. i = i0
          BY <2>3, <3>1, <3>2, <4>1, <5>1
        <5> QED
          BY <1>2, <1>3, <2>3, <3>1, <4>1, <5>2
      <4> QED
        BY <4>1
    <3> QED
      BY <1>1, <2>1, <2>3, <3>1, <3>2, <3>3 DEF Current
  <2> QED
    BY <1>0, <2>1, <2>2, <2>3 DEF Current, Crowd, AboutInvoice, DeskAt
<1>4. ASSUME NEW p \in Payments, InvoiceOf[p] \notin crowded'
      PROVE  Standing(p)' /\ Receipted(p)'
  <2>1. Standing(p) /\ Receipted(p) /\ InvoiceOf[p] \in Invoices
    BY <1>4, ConstantsAssumption DEF Record, InvoicesInv
  <2>2. Standing(p)'
    <3>1. CASE p # p0
      BY <1>0, <2>1, <3>1 DEF Standing
    <3>2. CASE p = p0
      BY <1>0, <1>2, <1>4, <3>2 DEF Standing, RequestInv
    <3> QED
      BY <3>1, <3>2
  <2>3. ASSUME p \in Completed', p \notin cut'
        PROVE  Handled(p)' \/ Closed(InvoiceOf[p])'
    <3>1. p \in Completed /\ p \notin cut
      BY <1>0, <2>3 DEF Completed, HasReceipt
    <3>2. Handled(p) \/ Closed(InvoiceOf[p])
      BY <2>1, <3>1 DEF Receipted
    <3> QED
      BY <1>0, <2>1, <3>2 DEF Handled, Closed, HasReceipt
  <2>4. Receipted(p)'
    BY <2>3 DEF Receipted
  <2> QED
    BY <2>2, <2>4
<1> QED
  BY <1>3, <1>4 DEF InvoicesInv

\* A refund that is paid out was not rejected before, unless two requests were
\* about it.
LEMMA PayOutKeeps ==
    ASSUME TypeInv, DeskTypes, RejectInv, MoneyInv, Record, NEW d \in Desks, WriteRefund(d)
    PROVE  DeskTypes' /\ RejectInv' /\ MoneyInv'
<1> DEFINE k == desk[d].id
<1>0. /\ k \in DOMAIN refunds /\ Writes(k, "PROCESSED")
      /\ \A p \in Payments : pay'[p] = IF p = desk[d].ref THEN "REFUNDED" ELSE pay[p]
      /\ UNCHANGED refused /\ argued \subseteq argued'
      /\ paidOut' \subseteq paidOut \cup (refused \cap {k})
      /\ "PROCESSED" \in RefundStatus
  BY PayOutFrame DEF Record, WriteRefund, RefundStatus
<1>1. \A p \in Payments : pay'[p] = "SUCCESSFUL" => pay[p] = "SUCCESSFUL"
  BY <1>0
<1>2. /\ DeskTypes' /\ MoneyInv'
      /\ \A j \in DOMAIN refunds : j # k /\ Rejected(j) => Rejected(j)'
  BY <1>0, <1>1, WriteKeeps
<1>3. ~Rejected(k)
  BY DEF Rejected, AboutRefund
<1>4. k \in refused => k \in argued
  BY <1>3 DEF RejectInv
<1>5. \A j \in refused \ argued' : Rejected(j)'
  BY <1>0, <1>2, <1>3 DEF RejectInv, Rejected
<1>6. paidOut' \subseteq argued'
  BY <1>0, <1>4 DEF RejectInv, RejectedIsNotPaidOut
<1> QED
  BY <1>0, <1>2, <1>5, <1>6 DEF RejectInv, RejectedIsNotPaidOut

-------------------------------------------------------------------------------
(***************************************************************************)
(* All steps.                                                              *)
(***************************************************************************)

\* A step of the payments keeps the invariant.
LEMMA PaymentKeeps ==
    ASSUME RefundsIInv, PaymentStep, Record
    PROVE  RefundsIInv'
<1>0. /\ TypeInv /\ IssuedInv /\ PaidHasReceipt /\ CheckoutInv /\ [Next]_vars
      /\ UNCHANGED <<refunds, refused, paidOut, desk>>
      /\ argued \subseteq argued' /\ crowded \subseteq crowded'
  BY PaymentIsNext DEF RefundsIInv, PaidInv, Record
<1>1. PaidInv'
  BY <1>0, TypeStep, IssuedStep, PaidStep DEF PaidInv
<1>2. CheckoutInv'
  BY <1>0, CheckoutStep
<1>3. DeskTypes'
  BY <1>0 DEF RefundsIInv, DeskTypes
<1>4. RejectInv'
  BY <1>0 DEF RefundsIInv, RejectInv, Rejected, AboutRefund, RejectedIsNotPaidOut
<1>5. MoneyInv'
  BY <1>0, MoneyStep DEF RefundsIInv
<1>6. \A i \in Invoices \ crowded' : Current(i)'
  BY <1>0, CurrentStep DEF RefundsIInv, InvoicesInv, Record
<1>7. ASSUME NEW p \in Payments, InvoiceOf[p] \notin crowded'
      PROVE  Standing(p)' /\ Receipted(p)'
  <2>1. Standing(p) /\ Receipted(p) /\ Current(InvoiceOf[p])
    BY <1>0, <1>7, ConstantsAssumption DEF RefundsIInv, InvoicesInv
  <2> QED
    BY <1>0, <2>1, StandingStep, ReceiptedStep DEF RefundsIInv
<1> QED
  BY <1>1, <1>2, <1>3, <1>4, <1>5, <1>6, <1>7 DEF RefundsIInv, InvoicesInv

\* So does a step of a request about refunds.
LEMMA DeskKeeps ==
    ASSUME RefundsIInv, NEW d \in Desks, DeskStep(d), Record
    PROVE  RefundsIInv'
<1>0. /\ TypeInv /\ PaidInv /\ CheckoutInv /\ DeskTypes /\ RejectInv /\ MoneyInv
      /\ InvoicesInv
  BY DEF RefundsIInv, PaidInv
<1>1. ASSUME DeskTypes' /\ RejectInv' /\ MoneyInv' /\ Quiet
      PROVE  RefundsIInv'
  <2>1. PaidInv'
    BY <1>0, <1>1 DEF Quiet, PaidInv, TypeInv, TypeOK, RequestInv, IssuedInv,
       PaidHasReceipt, HasReceipt, vars, tables, gateway
  <2>2. CheckoutInv'
    BY <1>0, <1>1 DEF Quiet, CheckoutInv, vars, tables, gateway
  <2> QED
    BY <1>0, <1>1, <2>1, <2>2, QuietInvoices DEF RefundsIInv
<1>2. CASE WriteRefund(d)
  BY <1>0, <1>2, PayOutPaid, PayOutKeeps, PayOutInvoices DEF RefundsIInv
<1>3. CASE CreateRefund(d)
  BY <1>0, <1>1, <1>3, CreateKeeps
<1>4. CASE WriteApproval(d)
  BY <1>0, <1>1, <1>4, ApprovalKeeps
<1>5. ASSUME NEW k \in DOMAIN refunds, RejectRefund(d, k)
      PROVE  RefundsIInv'
  BY <1>0, <1>1, <1>5, RejectionKeeps
<1>6. CASE \/ \E p \in Payments : RequestRefund(d, p)
           \/ \E k \in DOMAIN refunds : ApproveRefund(d, k) \/ ProcessRefund(d, k)
           \/ ReadRefundNumber(d) \/ RefundCollision(d) \/ RefundCut(d)
  BY <1>0, <1>1, <1>6, MovesOfDesk, DeskMovesKeep
<1> QED
  BY <1>2, <1>3, <1>4, <1>5, <1>6 DEF DeskStep, Decide

\* The invariant holds at the start.
LEMMA RefundsStart == RefundsInit => RefundsIInv
<1> SUFFICES ASSUME RefundsInit
             PROVE  RefundsIInv
  OBVIOUS
<1> USE DEF RefundsInit
<1>0. /\ refunds = << >> /\ Init /\ refused = {} /\ paidOut = {}
      /\ desk = [d \in Desks |-> Away] /\ Away \in DeskRow
      /\ Away.pc = "idle" /\ Away.id = 0
      /\ \A w \in Workers : proc[w] = Idle
  BY DEF Init, Away, About, DeskRow
<1>1. TypeInv
  BY InitInv
<1>2. IssuedInv /\ PaidHasReceipt /\ CheckoutInv
  BY <1>0 DEF Init, Idle, IssuedInv, PaidHasReceipt, CheckoutInv, OnPayment,
     MarkingPaid
<1>3. DeskTypes
  BY <1>0 DEF DeskTypes
<1>4. RejectInv
  BY <1>0 DEF RejectInv, RejectedIsNotPaidOut
<1>5. MoneyInv
  BY <1>0 DEF Init, Idle, MoneyInv, Backed, MarkingPaid
<1>6. InvoicesInv
  <2>1. ASSUME NEW i \in Invoices
        PROVE  Current(i)
    <3>1. AboutInvoice(i) = {}
      BY <1>0, ConstantsAssumption DEF AboutInvoice, DeskAt, Idle
    <3> QED
      BY <1>0, <3>1 DEF Current, Crowd, Idle
  <2>2. ASSUME NEW p \in Payments
        PROVE  Standing(p) /\ Receipted(p)
    BY <1>0 DEF Init, Standing, Receipted, Completed
  <2> QED
    BY <2>1, <2>2 DEF InvoicesInv
<1> QED
  BY <1>1, <1>2, <1>3, <1>4, <1>5, <1>6 DEF RefundsIInv, PaidInv

\* Every step keeps it.
LEMMA RefundsStep == RefundsIInv /\ [RefundsNext]_refundVars => RefundsIInv'
<1> SUFFICES ASSUME RefundsIInv, [RefundsNext]_refundVars
             PROVE  RefundsIInv'
  OBVIOUS
<1>1. CASE UNCHANGED refundVars
  BY <1>1 DEF refundVars, refundTables, vars, tables, gateway, RefundsIInv, PaidInv,
     TypeInv, TypeOK, RequestInv, IssuedInv, PaidHasReceipt, HasReceipt, CheckoutInv,
     DeskTypes, RejectInv, Rejected, AboutRefund, RejectedIsNotPaidOut, MoneyInv,
     Backed, InvoicesInv, Current, Crowd, AboutInvoice, DeskAt, Standing, Receipted,
     Completed, Handled, Closed
<1>2. CASE PaymentStep /\ Record
  BY <1>2, PaymentKeeps
<1>3. ASSUME NEW d \in Desks, DeskStep(d), Record
      PROVE  RefundsIInv'
  BY <1>3, DeskKeeps
<1> QED
  BY <1>1, <1>2, <1>3 DEF RefundsNext

\* However webhooks, verifications, cash payments, status changes and requests
\* about refunds interleave and are cut off, refunds are numbered in order, are
\* of money that was received, and none is paid out after its rejection.
THEOREM RefundsAreRight == RefundsSpec => []RefundsInv
<1>1. RefundsIInv => RefundsInv
  <2> SUFFICES ASSUME RefundsIInv
               PROVE  RefundsInv
    OBVIOUS
  <2>0. /\ refunds \in Seq(RefundRow) /\ RejectedIsNotPaidOut
        /\ \A k \in DOMAIN refunds : refunds[k].number = k
    BY DEF RefundsIInv, DeskTypes, RejectInv
  <2>1. ASSUME NEW k \in DOMAIN refunds
        PROVE  refunds[k].payment \in Payments /\ refunds[k].status \in RefundStatus
    <3>1. refunds[k] \in RefundRow
      BY <2>0
    <3> QED
      BY <3>1 DEF RefundRow
  <2>2. RefundsTypeOK
    BY <2>0, <2>1 DEF RefundsTypeOK
  <2>3. RefundsAreFunded
    BY <2>1 DEF RefundsAreFunded, RefundsIInv, MoneyInv, Backed
  <2> QED
    BY <2>0, <2>2, <2>3 DEF RefundsInv
<1> QED
  BY <1>1, RefundsStart, RefundsStep, PTL DEF RefundsSpec

\* The claim on PENDING and the last look at the request that holds it: every
\* completed checkout gets its receipt, finds its invoice closed, or is one of
\* the exceptions the property names.
THEOREM CompletedOnesAreReceipted == RefundsSpec => []CompletedIsReceipted
<1>1. RefundsIInv => CompletedIsReceipted
  BY DEF RefundsIInv, InvoicesInv, Receipted, Handled, Closed, CompletedIsReceipted
<1> QED
  BY <1>1, RefundsStart, RefundsStep, PTL DEF RefundsSpec

\* The claim wants PENDING, so neither a repeated notification nor another
\* verification settles a refunded checkout.
THEOREM RefundsStand == RefundsSpec => RefundStands
<1>1. ASSUME RefundsIInv, [RefundsNext]_refundVars, NEW p \in Payments,
             Method[p] \in Checkouts, Provider[p] # "GENERIC",
             p \notin declined, InvoiceOf[p] \notin crowded, pay[p] = "REFUNDED"
      PROVE  pay'[p] = "REFUNDED"
  <2>0. TypeInv /\ CheckoutInv /\ DeskTypes /\ Standing(p)
    BY <1>1 DEF RefundsIInv, PaidInv, InvoicesInv
  <2>1. CASE UNCHANGED pay
    BY <1>1, <2>1
  <2>2. CASE PaymentStep
    BY <1>1, <2>0, <2>2, PaymentIsNext, PayStands
  <2>3. ASSUME NEW d \in Desks, DeskStep(d)
        PROVE  UNCHANGED pay \/ WriteRefund(d)
    BY <2>3 DEF DeskStep, Decide, RequestRefund, ApproveRefund, ProcessRefund, Consider,
       RejectRefund, ReadRefundNumber, CreateRefund, RefundCollision, WriteApproval,
       RefundCut, Untouched, vars, tables
  <2>4. ASSUME NEW d \in Desks, WriteRefund(d)
        PROVE  pay'[p] = "REFUNDED"
    BY <1>1, <2>0, <2>4, PayOutFrame
  <2> QED
    BY <1>1, <2>1, <2>2, <2>3, <2>4 DEF RefundsNext, refundVars, vars, tables
<1>2. RefundsIInv /\ [RefundsNext]_refundVars =>
         [\A p \in Payments :
            /\ Method[p] \in Checkouts /\ Provider[p] # "GENERIC"
            /\ p \notin declined /\ InvoiceOf[p] \notin crowded
            /\ pay[p] = "REFUNDED"
            => pay'[p] = "REFUNDED"]_refundVars
  BY <1>1
<1> QED
  BY <1>2, RefundsStart, RefundsStep, PTL DEF RefundsSpec, RefundStands

\* The transition is checked when the status is read and written later; where
\* no two requests about the invoice overlap, it holds when it is written.
THEOREM TransitionsAreKept == RefundsSpec => TransitionsHold
<1>1. ASSUME RefundsIInv, [RefundsNext]_refundVars, NEW i \in Invoices \ crowded',
             inv[i] \notin {"NONE", inv'[i]}
      PROVE  \/ inv'[i] \in TRANSITIONS[inv[i]]
             \/ refunds' # refunds /\ inv'[i] = "VOID"
  <2>0. TypeInv /\ IssuedInv /\ DeskTypes
    BY <1>1 DEF RefundsIInv, PaidInv
  <2>1. (PaymentStep \/ \E d \in Desks : DeskStep(d)) /\ Record
    BY <1>1 DEF RefundsNext, refundVars, vars, tables
  <2>2. Current(i)
    BY <1>1, <2>1 DEF Record, RefundsIInv, InvoicesInv
  <2>3. CASE PaymentStep
    BY <1>1, <2>0, <2>2, <2>3, PaymentIsNext, PayTransition
  <2>4. ASSUME NEW d \in Desks, DeskStep(d)
        PROVE  UNCHANGED inv \/ WriteRefund(d)
    BY <2>4 DEF DeskStep, Decide, RequestRefund, ApproveRefund, ProcessRefund, Consider,
       RejectRefund, ReadRefundNumber, CreateRefund, RefundCollision, WriteApproval,
       RefundCut, Untouched, vars, tables
  <2>5. ASSUME NEW d \in Desks, WriteRefund(d)
        PROVE  refunds' # refunds /\ inv'[i] = "VOID"
    <3>1. i = InvoiceOf[desk[d].ref] /\ inv'[i] = "VOID"
      BY <1>1, <2>0, <2>5, PayOutFrame
    <3>2. refunds[desk[d].id].status # "PROCESSED"
      BY <2>0, <2>2, <2>5, <3>1, AloneAtPayOut
    <3>3. refunds'[desk[d].id].status = "PROCESSED"
      <4>1. /\ desk[d].id \in DOMAIN refunds /\ Writes(desk[d].id, "PROCESSED")
            /\ "PROCESSED" \in RefundStatus
        BY <2>0, <2>5, PayOutFrame DEF RefundStatus
      <4> QED
        BY <2>0, <4>1, RowWritten DEF Writes
    <3> QED
      BY <3>1, <3>2, <3>3
  <2> QED
    BY <1>1, <2>1, <2>3, <2>4, <2>5
<1>2. RefundsIInv /\ [RefundsNext]_refundVars =>
         [\A i \in Invoices \ crowded' :
            inv[i] \notin {"NONE", inv'[i]} =>
               \/ inv'[i] \in TRANSITIONS[inv[i]]
               \/ refunds' # refunds /\ inv'[i] = "VOID"]_refundVars
  BY <1>1
<1> QED
  BY <1>2, RefundsStart, RefundsStep, PTL DEF RefundsSpec, TransitionsHold

===============================================================================
