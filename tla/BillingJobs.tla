----------------------------- MODULE BillingJobs -----------------------------
(***************************************************************************)
(* The hourly jobs that follow up unpaid invoices, on the tables of        *)
(* Payments.tla and next to its requests.                                  *)
(*   apps/billing-service/src/jobs/overdue.processor.ts                    *)
(*   apps/api/src/jobs/suspension.processor.ts                             *)
(* A queue runs one job of a kind at a time.  A run that fails is started  *)
(* again from the beginning, by the queue or at the next hour.             *)
(***************************************************************************)
EXTENDS Payments

CONSTANT MaxFailures    \* bound on the runs that fail

ASSUME JobsAssumption == MaxFailures \in Nat

VARIABLES
    due,            \* invoices past dueAt
    late,           \* ... by more than INVOICE_GRACE_PERIOD_DAYS
    standing,       \* Subscriber.status
    overdueJob, suspensionJob,
    failures,
    wasOverdue,     \* history: invoices that have been OVERDUE
    owed            \* history: subscribers with an ISSUED invoice past dueAt

clock == <<due, late>>
jobVars == <<clock, standing, overdueJob, suspensionJob, failures,
             wasOverdue, owed>>
systemVars == <<vars, jobVars>>

NoOverdueRun == [pc |-> "idle", due |-> {}, cut |-> {}]
NoSuspensionRun == [pc |-> "idle", todo |-> {}, doc |-> None]

JobsInit ==
    /\ Init
    /\ due = {}
    /\ late = {}
    /\ standing = [s \in Subscribers |-> "ACTIVE"]
    /\ overdueJob = NoOverdueRun
    /\ suspensionJob = NoSuspensionRun
    /\ failures = 0
    /\ wasOverdue = {}
    /\ owed = {}

(***************************************************************************)
(* Time passes.                                                            *)
(***************************************************************************)
FallDue(i) ==
    /\ i \notin due
    /\ due' = due \cup {i}
    /\ UNCHANGED <<vars, late, standing, overdueJob, suspensionJob, failures>>

GraceEnds(i) ==
    /\ i \in due \ late
    /\ late' = late \cup {i}
    /\ UNCHANGED <<vars, due, standing, overdueJob, suspensionJob, failures>>

(***************************************************************************)
(* The overdue job: find the subscribers, mark the invoices with one       *)
(* conditional update, cut off the subscribers that were found.            *)
(***************************************************************************)
\* Variant: only the invoices within the grace period.
UnpaidWithinGrace(D) == {i \in D \ late : inv[i] = "ISSUED"}

Unpaid(D) == {i \in D : inv[i] = "ISSUED"}

\* Variant: the list holds the subscribers of all invoices past dueAt.
OverdueFindAll ==
    /\ overdueJob.pc = "idle"
    /\ overdueJob' = [pc |-> "mark", due |-> due,
                      cut |-> {SubscriberOf[i] : i \in due}]
    /\ UNCHANGED <<vars, clock, standing, suspensionJob, failures>>

OverdueFind ==
    /\ overdueJob.pc = "idle"
    /\ overdueJob' = [pc |-> "mark", due |-> due,
                      cut |-> {SubscriberOf[i] : i \in Unpaid(due)}]
    /\ UNCHANGED <<vars, clock, standing, suspensionJob, failures>>

OverdueMark ==
    LET marked == Unpaid(overdueJob.due) IN
    /\ overdueJob.pc = "mark"
    /\ inv' = [i \in Invoices |-> IF i \in marked THEN "OVERDUE" ELSE inv[i]]
    /\ overdueJob' = IF marked = {} \/ overdueJob.cut = {} THEN NoOverdueRun
                     ELSE [overdueJob EXCEPT !.pc = "cut"]
    /\ UNCHANGED <<pay, attempts, receipts, applied, access, gateway, proc,
                   clock, standing, suspensionJob, failures>>

\* RadiusClientService.deactivate: an error is logged and swallowed.
OverdueCut(s) ==
    /\ overdueJob.pc = "cut"
    /\ s \in overdueJob.cut
    /\ access' \in {access, [access EXCEPT ![s] = FALSE]}
    /\ overdueJob' = IF overdueJob.cut = {s} THEN NoOverdueRun
                     ELSE [overdueJob EXCEPT !.cut = @ \ {s}]
    /\ UNCHANGED <<inv, pay, attempts, receipts, applied, gateway, proc,
                   clock, standing, suspensionJob, failures>>

(***************************************************************************)
(* The suspension job: find the late invoices, then for each of them       *)
(* suspend the subscriber and write OVERDUE, whatever has happened since.  *)
(* A run that finds nothing changes nothing.                               *)
(***************************************************************************)

\* Variant: the grace period is forgotten.
SuspensionFindDue ==
    LET found == {i \in due : inv[i] = "OVERDUE"} IN
    /\ suspensionJob.pc = "idle" /\ found # {}
    /\ suspensionJob' = [NoSuspensionRun EXCEPT !.pc = "suspend", !.todo = found]
    /\ UNCHANGED <<vars, clock, standing, overdueJob, failures>>

SuspensionFind ==
    LET found == {i \in late : inv[i] = "OVERDUE"} IN
    /\ suspensionJob.pc = "idle" /\ found # {}
    /\ suspensionJob' = [NoSuspensionRun EXCEPT !.pc = "suspend", !.todo = found]
    /\ UNCHANGED <<vars, clock, standing, overdueJob, failures>>

\* Variant: the invoice is written, the subscriber forgotten.
SuspendNobody(i) ==
    /\ suspensionJob.pc = "suspend" /\ i \in suspensionJob.todo
    /\ suspensionJob' = [suspensionJob EXCEPT !.pc = "write", !.doc = i]
    /\ UNCHANGED <<vars, clock, standing, overdueJob, failures>>

Suspend(i) ==
    /\ suspensionJob.pc = "suspend" /\ i \in suspensionJob.todo
    /\ standing' = [standing EXCEPT ![SubscriberOf[i]] = "SUSPENDED"]
    /\ suspensionJob' = [suspensionJob EXCEPT !.pc = "write", !.doc = i]
    /\ UNCHANGED <<vars, clock, overdueJob, failures>>

SuspensionWrite ==
    LET i == suspensionJob.doc
        rest == suspensionJob.todo \ {i}
    IN
    /\ suspensionJob.pc = "write"
    /\ inv' = [inv EXCEPT ![i] = "OVERDUE"]
    /\ suspensionJob' = IF rest = {} THEN NoSuspensionRun
                        ELSE [pc |-> "suspend", todo |-> rest, doc |-> None]
    /\ UNCHANGED <<pay, attempts, receipts, applied, access, gateway, proc,
                   clock, standing, overdueJob, failures>>

\* A job stops between two awaits.
JobFails ==
    /\ failures < MaxFailures
    /\ failures' = failures + 1
    /\ \/ /\ overdueJob.pc # "idle"
          /\ overdueJob' = NoOverdueRun
          /\ UNCHANGED suspensionJob
       \/ /\ suspensionJob.pc # "idle"
          /\ suspensionJob' = NoSuspensionRun
          /\ UNCHANGED overdueJob
    /\ UNCHANGED <<vars, clock, standing>>

\* POST subscribers/:id/unsuspend.
Unsuspend(s) ==
    /\ standing[s] = "SUSPENDED"
    /\ standing' = [standing EXCEPT ![s] = "ACTIVE"]
    /\ UNCHANGED <<vars, clock, overdueJob, suspensionJob, failures>>

(***************************************************************************)
(* The specification.  Both queues are fired every hour.                   *)
(***************************************************************************)
OverdueStep ==
    OverdueFind \/ OverdueMark \/ \E s \in Subscribers : OverdueCut(s)

SuspensionStep ==
    SuspensionFind \/ (\E i \in Invoices : Suspend(i)) \/ SuspensionWrite

Remember ==
    /\ wasOverdue' = wasOverdue \cup {i \in Invoices : inv'[i] = "OVERDUE"}
    /\ owed' = owed \cup {SubscriberOf[i] : i \in {j \in due' : inv'[j] = "ISSUED"}}

JobsNext ==
    /\ \/ Next /\ UNCHANGED <<clock, standing, overdueJob, suspensionJob, failures>>
       \/ OverdueStep
       \/ SuspensionStep
       \/ JobFails
       \/ \E i \in Invoices : FallDue(i) \/ GraceEnds(i)
       \/ \E s \in Subscribers : Unsuspend(s)
    /\ Remember

JobsSpec == JobsInit /\ [][JobsNext]_systemVars

FairJobsSpec ==
    /\ JobsSpec
    /\ WF_systemVars(OverdueStep /\ Remember)
    /\ WF_systemVars(SuspensionStep /\ Remember)

-------------------------------------------------------------------------------
(***************************************************************************)
(* Properties.                                                             *)
(***************************************************************************)

\* The clock, the jobs' lists and the subscribers' status have their types: the
\* list of the overdue job holds subscribers, that of the suspension job
\* invoices.
JobsTypeOK ==
    /\ late \subseteq due /\ due \subseteq Invoices
    /\ standing \in [Subscribers -> {"ACTIVE", "SUSPENDED"}]
    /\ overdueJob \in [pc : {"idle", "mark", "cut"}, due : SUBSET Invoices,
                       cut : SUBSET Subscribers]
    /\ suspensionJob \in [pc : {"idle", "suspend", "write"},
                          todo : SUBSET Invoices, doc : Invoices \cup {None}]
    /\ failures \in 0..MaxFailures
    /\ wasOverdue \subseteq Invoices
    /\ owed \subseteq Subscribers

\* refined-spec, section 3: the suspension job fires for OVERDUE "past a
\* configurable grace period, not immediately on due date".  However stale
\* its list, nobody is suspended without such an invoice.
SuspendedForDebt ==
    \A s \in Subscribers :
        standing[s] = "SUSPENDED" =>
            \E i \in late \cap wasOverdue : SubscriberOf[i] = s

\* The lists of the jobs are well formed, and whom they have suspended owed
\* (suspension.processor.ts:16-40).
JobsInv == JobsTypeOK /\ SuspendedForDebt

\* The job cuts by the list it read first (overdue.processor.ts:40), so one who
\* has paid since may be cut; but never a subscriber who left no invoice unpaid
\* beyond its date, however the runs fail and the payments race with them.
CutForDebt ==
    [][\A s \in Subscribers : access[s] /\ ~access'[s] => s \in owed]_systemVars

\* The hourly job misses no invoice: one that is due does not stay ISSUED,
\* although runs fail and requests keep writing statuses.
DueIsFollowedUp ==
    \A i \in Invoices : i \in due /\ inv[i] = "ISSUED" ~> inv[i] # "ISSUED"

\* Whoever stays overdue past the grace period is suspended.
LateIsSuspended ==
    \A i \in Invoices :
        i \in late /\ inv[i] = "OVERDUE" ~>
            inv[i] # "OVERDUE" \/ standing[SubscriberOf[i]] = "SUSPENDED"
===============================================================================
