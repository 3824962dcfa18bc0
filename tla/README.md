# Verification of the ISP billing platform

TLA+ models of the services under `src/apps`, the TLC instances that check
them, and TLAPS proofs of the central results. Paths below are relative to
`src/`. Short names: **PS** = `apps/payments-service/src/modules/payments/payments.service.ts`,
**BS** = `apps/payments-service/src/modules/billing/billing.service.ts` (the billing
service carries an identical copy), **AS** = `apps/auth-service/src/modules/auth/auth.service.ts`.

    tlc -workers 2 -config PaymentsCheckout.cfg MCPayments     # a run
    tlapm PaymentsProofs.tla                                   # a proof module

## 1. The system

Nine applications around one PostgreSQL database. Each request is an `async`
handler: it is cut at every `await`, and two requests — of one process or of
two — interleave there. Almost nothing locks; what protects the data are
conditional updates, unique columns and short transactions.

| Component | State | Operations | Talks to |
|---|---|---|---|
| payments: checkout and settlement (PS) | Payment, PaymentAttempt | initialize, customer checkout, 3 webhooks, verify, offline, claim | gateways (HTTP both ways), billing (call), subscriptions (rows), radius-service (fire and forget) |
| payments: wallet, partial payments (PS) | Wallet, WalletTransaction, Payment | credit, debit, pay, partial | billing |
| payments: refunds (PS) | Refund, Payment, Invoice | request, approve, process, reject | billing |
| billing (BS) | Invoice, Receipt | create, issue, void, mark overdue, markPaid | payments, jobs |
| overdue and suspension jobs | a run's list of rows | hourly runs, retried by the queue | Invoice, Subscriber, radius-service |
| invoice generator, expiry reminder | a run's list | hourly and daily runs | Subscription, Invoice, mail |
| auth: sessions (AS) | RefreshToken, PasswordResetToken | login, refresh, logout, change and reset password | clients, mail |
| auth: one-time codes (AS) | code on the user, counters in memory | login code, resend, verify | mail |
| radius-service | RadCheck, RadReply rows | activate, deactivate, change plan | payments, jobs |
| customer: subscriptions | Subscription, Subscriber.status | assign, change, unsuspend, older checkout | billing rows |
| support | ChatSession, ChatMessage, presence in memory | start, pick up, reassign, close, convert | sockets |
| api: users, KYC, routers | User, KYC status, queued actions | approve, reject, queue | router I/O |
| packages: cache, rate limit, prisma | Redis keys, soft-delete hooks | get/refill, consume | every service |
| api settings, reports, notifications, mail, gateway; web applications | rows behind forms | CRUD, screens | — |

What is hard in this code, and the properties that answer it:

* *One charge, many reports.* A gateway delivers a webhook again and again, the
  customer's redirect calls verify, and all complete the same reference. The
  conditional update PENDING → SUCCESSFUL is the only guard. → `AppliedAtMostOnce`,
  `SettledIsClosed`, `ImplementsSettlement`, `CapturedIsBooked`; after a refund: `RefundStands`.
* *Work in three commits.* Claim, plan, `markPaid`; a restart or a second
  reference can come in between. → `ImplementsSettlement`, `PaidHasReceipt`,
  `CompletedIsReceipted`.
* *A number read outside its transaction.* Receipts, refunds, invoices. →
  `ImplementsSettlement`, `RequestsEnd`, `RefundsInv`, `RenewalsInv`.
* *Check, await, write.* Every status change of an invoice, a chat, a code, a
  subscription. → `DraftIsIssuedFirst`, `TransitionsHold`, `SupportInv`, `NewCodeStands`,
  `BilledTimeIsKept`.
* *Find, then create, without a unique key.* RADIUS rows, chats, fixed addresses. →
  `AccessInv`, `OneOpenChat`, `OneHolderPerAddress`.
* *Money moved without a gateway.* → `WalletInv`, `MoneyBackOrPaid`, `PaidInFull`, `RefundsInv`.
* *Jobs on stale lists, cut off and run again.* → `JobsInv`, `CutForDebt`,
  `DueIsFollowedUp`, `LateIsSuspended`, `MonthsAreInvoiced`, `OneReminderADay`.
* *A request of several statements that fails in the middle.* → `LastRequestHolds`,
  `ImplementsSwitch`.
* *Rotation by read, revoke, create.* → `DeadFamilyStaysDead`, `IdleSessionsEnd`,
  `SessionsInv`, `LinkWorksOnce`, `EndedStaysEnded`.
* *Attempts counted in memory, hits counted in a shared key.* → `CodesInv`,
  `CodeWorksOnce`, `WindowsHold`.
* *A connection whose two handlers overlap.* → `PresenceIsTrue`.

`PROJECT.json` lists the hazards with their lines, and why one has no property yet.

**Properties with an exception.** Many handlers promise something only to those who
come one at a time. Such a property names the one way in which it can fail, as a
history variable: `contested` (two requests about one session, link or chat
overlapped), `crowded` (... about one invoice), `argued` (... about one refund),
`raced` (... about one customer's rows), `clobbered` (a row was written from a stale
read), `shared` and `disturbed` (two verifications, or a verification and a sending,
overlapped), `muddled` (writes of one presence overlapped or failed). No guard reads
these variables. What remains is the claim that *nothing else* can break it: no
restart, retry, repetition, or long sequence of separate requests. What happens in
the excepted cases is written down in section 5.

## 2. Modules

| Module | Models | Builds on |
|---|---|---|
| `Settlement` | what the payments service promises about a reference (abstract) | — |
| `Payments` | PS checkout, webhooks, verify, claim; BS status changes, markPaid | — ; refines `Settlement` |
| `Refunds` | PS refunds, beside all of `Payments` | EXTENDS `Payments` |
| `Wallet` | PS wallet and partial payments, beside all of `Payments` | EXTENDS `Payments` |
| `BillingJobs` | overdue and suspension job, beside all of `Payments` | EXTENDS `Payments` |
| `Renewals` | invoice generator, expiry reminder, portal actions, invoice numbers | — |
| `Switch` | what radius-service promises about a customer's service (abstract) | — |
| `Access` | the RADIUS rows of radius-service | — ; refines `Switch` |
| `Support` | chats and agents' presence | — |
| `Sessions` | AS refresh-token families and password reset links | — |
| `RateLimiter` | the sliding window of `packages/isp-rate-limit` with the tiers of the auth service | — |
| `LoginCodes` | AS one-time codes, behind the limiter | EXTENDS `RateLimiter` |
| `PaymentsProofs` | theorems about `Payments`, and that it implements `Settlement` | `Payments` |
| `LedgerProofs` | theorems about `Refunds` and `BillingJobs`, which rest on those about `Payments` | both, `PaymentsProofs` |
| `WalletProofs`, `RenewalsProofs`, `SupportProofs`, `SessionsProofs` | theorems about the module they name | it |
| `AccessProofs` | theorems about `Access`, and that it implements `Switch` | `Access` |
| `LoginCodesProofs` | theorems about `LoginCodes` and about the limiter | `LoginCodes` |
| `MC…` | instances for TLC | the module they name |

A definition marked *Variant* or *Mutant* is a wrong version of the one after it; the
`mutants` of `PROJECT.json` use it to show that a property would notice.

### Payments

`inv`, `pay` are `Invoice.status` and `Payment.status` (`"NONE"`: no row yet),
`attempts` the PaymentAttempt rows, `receipts` the Receipt rows in the order of
`createdAt`, `applied[p]` how often the plan action of reference `p` was carried
out, `access` what radius-service answers. `captured` and `declined` are the
gateway's: they change by `Capture` and `Decline` only. `proc[w]` is a request in
flight: its location, its reference, its invoice and what it has read.

A location is the gap before an `await`; each action is the code up to the next:

* `Initialize`, `PayInvoice`, `OrderPlan` → `create` → `provider`: opening a payment
  (the checkout creates its ISSUED invoice on the way).
* `PaystackSuccess/Failed`, `FlutterwaveCompleted/Failed`, `GenericWebhook`: a
  delivery, possible as long as the gateway has a reason for it, so repetition,
  delay and any order are covered. What the handler compares is its guard:
  Paystack and Flutterwave skip a SUCCESSFUL payment, the generic handler looks
  at nothing, Flutterwave accepts `charge.completed` with any status.
* `Verify…`: the redirect; the gateway answers with success, failure or something
  inconclusive (pending, an error, another amount).
* `ClaimPayment` → `ApplyPlan` → `MarkPaidRead` → `ReadReceiptNumber` →
  `MarkPaidCommit` or `MarkPaidCollision` → `NotifyRadius`.
* `ChangeStatus` → `WriteStatus`: issue, void, mark overdue, with the gap between
  their read and their write.
* `Crash`: a request is cut off between two awaits and never resumed. The
  gateway's state and the tables survive; in-memory state does not exist.

A method is how the reference came about (`renew`, `change_plan`, `add_plan`,
`pay_invoice`: checkout; `admin`: POST payments/initialize; `offline`: cash).

### Wallet

`wallets`, `balance`, `ledger` are the Wallet rows, `balanceKobo` and the
WalletTransaction rows; `rows` the Payment rows of this part, all written as
SUCCESSFUL. `getWallet` is two steps (find, create; `subscriberId` is unique). A
wallet payment goes `find → debit → row → markPaid → paid → notify`; any error
after the debit leads to `GiveBack`, which starts a credit — a request of several
steps that can itself fail or be cut off. These requests call `markPaid` *without*
payment data, so it writes PAID and no receipt. `settled` and `cutOff` are history
variables for the properties; no guard reads them. A request that was opened by
`recordPartialPayment` sums the payments before it writes its own row.

### Refunds

A desk is a request about refunds. `requestRefund` checks the payment, reads a number
and inserts, with the retry of the unique column; approving and processing read the
status and write it by id an await later; rejecting only writes. Processing sets the
payment REFUNDED and, in the same transaction, its invoice VOID, whatever it is.
Nothing takes back the plan or the access.

### BillingJobs

`due` and `late` are the clock: invoices past `dueAt`, and past it by more than the
grace period. `overdueJob` and `suspensionJob` hold the place and the list of a
run; the queue runs one of a kind at a time. `JobFails` ends a run at any await;
the next one starts from the beginning, as a retried job does. `wasOverdue` and `owed` are
history. Unsuspending is the staff's `POST subscribers/:id/unsuspend`.

### Renewals

`subs`, `invoices`, `payments`, `receipts` are the rows, `today` the calendar, a month
being `Month` days. `gen` and `rem` are the runs of the two jobs with the rows they
listed; a run can stop between any two awaits and is tried again up to `Attempts`
times. The generator bills a subscription and moves its expiry in one transaction but
by the row it listed. `req` are portal actions (renew, change, add: move the expiry,
take a number, insert invoice, payment, receipt in separate statements) and checkouts
(the number with its retry). `floor` and `given` are history: the expiry that has been
billed, and the months handed out.

### Access

A request is the list of statements it has left (`todo`); each is one step, and each may fail
and leave the ones before it. `rows` are radcheck and radreply, `group` radusergroup,
`staticIp` the column of the subscriber. The NAS is external: `Connect` admits a
customer when the rows do, and a Disconnect-Request (`kick`) arrives or is lost.
`settled` remembers the request whose effect should stand: the last one of a customer and
side (login or profile) that ran alone to its end. `Switch` sees of it whether the service
is on, off or open (nothing has settled), who may log in, who is online, and the packet.

### Support

`req` are HTTP requests or messages: read the chat, some awaits, write it by id.
`socket` are the gateway's two handlers: `handleConnection` (authenticate, register,
write ONLINE) and `handleDisconnect` (unregister, write OFFLINE), which overlap
when a client goes away early. `conns` is the gateway's memory and is lost in
`Restart`; `presence` are rows and is not.

### Sessions

`tokens` are the RefreshToken rows (user, family, creation, revocation). A refresh
reads its row once; that read selects rotation, the idle rule, the grace period or
reuse detection, and what follows works on the read. `revokeOne` is unconditional,
as in the code. `resets` are the PasswordResetToken rows; resetting a password checks
the link, hashes (a gap), consumes the link with the write of the password, and
only then revokes the user's tokens. `changes`, the times a link has changed the
password, `ended`, the families a request has ended, and `contested`, what requests shared,
are history.

### RateLimiter and LoginCodes

The sorted set of a client address is the number of its members at each time; one
evaluation of the script is one step, as in Redis. A request passes the tier of its
route and then the handler. `otp` is the code in the user's row, `attempts` and
`resendAt` are in the memory of the process and are lost in a restart. A verification
reads the row, compares, and on failure counts, voids the code and locks again after
an await; on success it nulls the code.

## 3. Runs

| Run | Instance | Shows | Distinct states |
|---|---|---|---|
| `payments_checkout` | a Paystack renewal and a cash payment for two invoices, 3 requests in flight, crashes | no second plan change, nothing paid without a receipt, no draft paid; implements `Settlement` (one receipt per reference, no hole in the series, nothing for free) | 358 000 |
| `payments_liveness` | a Flutterwave payment in the portal and an administrator's generic payment for one invoice, 2 requests in flight, no crash, fairness | requests end; captured money is booked | 189 000 |
| `refunds` | a Flutterwave checkout and an administrator's generic payment for one invoice, one request in flight, 4 calls about refunds, two at a time, crashes | what is refunded was received; rejections and refunds stand; the transition table of an invoice | 2 240 000 |
| `wallet_payments` | one wallet, one invoice of price 2, amounts 1 and 2, two wallet or partial payments, a cash payment, one billing request, crashes | wallet and ledger | 538 000 |
| `billing_jobs` | two subscribers with an invoice each, one paid in cash, one failed run, fairness | the two hourly jobs | 351 000 |
| `renewals` | one customer, two subscriptions at most, two days, two requests, both jobs, failures | paid time, months, charges, invoice numbers, reminders | 3 700 000 |
| `access` | two customers, two addresses, three requests of which two overlap, failures, lost packets | the last undisturbed decision holds; implements `Switch` | 1 000 000 |
| `support` | two agents (one super admin), three clients at once, two chats, a restart | chats and presence | 275 000 |
| `sessions` | one user, 2 requests, 3 tokens, a reset link, 3 time units, crashes | rotation and what ends a session | 1 110 000 |
| `login_codes` | one user, three tiers, five requests, two at once, 4 time units, failing writes, a restart | guesses, codes, locks, windows | 1 100 000 |

Runs that TLC must refute, each the counterexample to a sentence of the
repository (quoted under "findings" in `PROJECT.json`):

| Run | What happens |
|---|---|
| `lost_claim` | a declined charge makes the payment FAILED; the customer's next charge on the reference succeeds; its claim needs PENDING, is lost and logged as "already completed elsewhere". The money stays unbooked. |
| `flutterwave_declined` | `charge.completed` with a failed status is settled like a success. |

The invariants `…Inv` join a module's type invariant with the basic facts about its
tables; each part is a definition of its own.

**Why the bounds are enough.** Two references meet either on one invoice (`refunds`)
or on the receipt series (`payments_checkout`), and nowhere else. Every race in these
handlers is between two requests on one row; the third worker of
`payments_checkout` lets a request from outside come between two that collide.
`MaxAttempts` is 2 instead of 5 there: one collision that is retried and one that
gives up. One collision per request needs one other request in the gap, so 5 adds
repetitions, not cases. In `refunds` it is 1, so a colliding refund number gives up
(2 passes as well, with half as many states again); four calls are the
life of one refund (request, approve, process) and one that interferes, or two
refunds of one payment. A wallet of balance 2 against a price of 2 lets two payments
compete for the same money, and `MaxRows = 7` fits two competing payments, one
credit-back and another movement. `Renewals`: a month of one day makes a renewal and a
bill collide with the jobs on both days; `Tries` and `Attempts` are 2, one failure
and one last attempt. Both daily jobs end on the day they begin, the 02:00 run is over
by 08:00, and no request is under way while reminders are sent — the reminder reads
no row that requests write but the expiry. `Access`: one request that is over and two
that overlap are enough for any claim about the last one; two addresses let
two customers ask for the same or for different ones. `Support`: two clients can
be the two sockets of one agent or the two requests about one chat, and the third
interferes. `Sessions`: three token rows are one login and two rotations (the
shortest double rotation), Grace = Lifetime = 1, Idle = MaxStall = 0 let a token be
rotated, repeated within the grace period, idle and expired inside three units;
`MaxStall` bounds how long a request takes, in clock units. `LoginCodes`: two wrong
codes lock, five requests are a code, two guesses, another code and a guess; a
request ends within its time unit, a lock is as long as a code is valid (in the code
it is longer, which separates them more). The limiter has a tier
with a long window and a limit that short ones can push out, as in the auth service.

`CHECK_DEADLOCK FALSE` stands where the instance is finite and may really stop: with
every reference settled, every invoice closed or every token spent. The other
modules say with an explicit `Finished` step when they are through, and deadlock is
checked.

**Symmetry** permutes requests, desks, clients, customers, addresses or users, which
no constant distinguishes, and only in runs without liveness.

**Fairness.** `FairSpec`: weak fairness of each request's next step (`Continue`) —
Node runs a pending continuation as long as the process is up; this is used in a
run without crashes. Strong fairness of `SuccessNotice` for each reference — a
gateway repeats the notification of a charge until it is answered with 200, and the
handler accepts it only at times when a worker is free, so weak fairness would not
do. None for the customer, the notifications of failure, the clock or the staff.
The run is on the two gateways and the two methods `payments_checkout` leaves out;
Paystack's handler has Flutterwave's shape.
`CapturedIsBooked` excludes references with a declined charge: there the code does
lose the money (`lost_claim`). `FairJobsSpec`: weak fairness of both jobs, which
the module's start-up registers as hourly repeatable jobs; failures are bounded by
`MaxFailures`, as one that failed for ever would follow up nothing.

## 4. Proofs

For every number of references, invoices, wallets, customers, requests, tokens and
clients, and for every bound: what the runs of section 3 check on one instance. The modules are named
after the one they are about, with `Proofs` appended; those about `Refunds` and
`BillingJobs` are in `LedgerProofs`.

| Module | Theorem | Statement |
|---|---|---|
| Payments | `TypeCorrect` | `Spec => []TypeOK` |
| | `PlanAppliedAtMostOnce` | `Spec => []AppliedAtMostOnce` |
| | `SettledStaysClosed` | `Spec => []SettledIsClosed` |
| | `SeriesIsGapless` | `Spec => []ReceiptsNumberedInOrder` |
| | `ReceiptIsUnique` | `Spec => []OneReceiptPerReference` |
| | `NothingIsFree` | `ConfirmedOnly /\ Spec => []NothingForFree` |
| | `PaymentsImplementsSettlement` | `ConfirmedOnly /\ Spec => ImplementsSettlement` |
| | `DraftsAreIssuedFirst` | `Spec => DraftIsIssuedFirst` |
| | `PaidIsReceipted` | `Spec => []PaidHasReceipt` |
| Refunds | `RefundsAreRight` | `RefundsSpec => []RefundsInv` |
| | `RefundsStand` | `RefundsSpec => RefundStands` |
| | `TransitionsAreKept` | `RefundsSpec => TransitionsHold` |
| | `CompletedOnesAreReceipted` | `RefundsSpec => []CompletedIsReceipted` |
| Wallet | `BooksAreRight` | `WalletSpec => []WalletInv` |
| | `MoneyIsBackOrPaid` | `WalletSpec => []MoneyBackOrPaid` |
| | `PaidMeansInFull` | `ConfirmedOnly /\ WalletSpec => []PaidInFull` |
| BillingJobs | `JobsAreRight` | `JobsSpec => []JobsInv` |
| | `OnlyDebtorsAreCut` | `JobsSpec => CutForDebt` |
| Renewals | `RenewalsAreRight` | `Spec => []RenewalsInv` |
| | `BilledTimeStays` | `Spec => []BilledTimeIsKept` |
| | `MonthsAreAccounted` | `Spec => []MonthsAreInvoiced` |
| | `RemindersAreCounted` | `Spec => []OneReminderADay` |
| Access | `RowsAreRight` | `Spec => []AccessInv` |
| | `DecisionsHold` | `Spec => []LastDecisionHolds` |
| | `AssignmentsHold` | `Spec => []LastProfileHolds` |
| | `LastRequestsHold` | `Spec => []LastRequestHolds` |
| | `AddressesAreHeldOnce` | `Spec => []OneHolderPerAddress` |
| | `AccessImplementsSwitch` | `Spec => ImplementsSwitch` |
| Support | `ChatsAreInOrder` | `Spec => []SupportInv` |
| | `OneChatIsOpen` | `Spec => []OneOpenChat` |
| | `EndedChatsStay` | `Spec => []ClosedStaysClosed` |
| | `PresenceFollows` | `Spec => []PresenceIsTrue` |
| Sessions | `SessionsAreRight` | `Spec => []SessionsInv` |
| | `DeadStaysDead` | `Spec => DeadFamilyStaysDead` |
| | `IdleOnesEnd` | `Spec => []IdleSessionsEnd` |
| | `LinksWorkOnce` | `Spec => []LinkWorksOnce` |
| | `EndedStay` | `Spec => []EndedStaysEnded` |
| LoginCodes | `CodesAreGuarded` | `Spec => []CodesInv` |
| | `CodesWorkOnce` | `Spec => []CodeWorksOnce` |
| | `NewCodesStand` | `Spec => []NewCodeStands` |
| | `LimitsHold` | `Spec => []WindowsHold` |

`SeriesIsGapless`, `ReceiptIsUnique` and `NothingIsFree` state properties that the runs check as
part of `ImplementsSettlement`.

**Assumptions.** Each module names one (`ConstantsAssumption`, `RefundsAssumption`,
`WalletAssumption`, `JobsAssumption`, `AccessAssumption`, `SupportAssumption`, ...): the shape
of the constants, that "nobody" is none of them, and in `Wallet` that the requests and the
references are finite, as their amounts are added up. `RenewalsAssumption` has the
customers and requests finite, a month longer than no days, at least one attempt of a
job, and room in the bound `MaxSubs` for each customer's subscription. `ConfirmedOnly` says that no payment
goes through Flutterwave; without it the theorems that name it are false
(`flutterwave_declined`): an invoice is then paid by a declined charge.

### The arguments

None of the properties is inductive, because a step acts on what a request has read
before. Each invariant therefore says what a request may rely on at each location;
TLC has checked every one of them on the instance of its run before the proof.

**Payments.**

* `TypeInv`: `TypeOK`, and a request that is about a payment is about that payment's invoice.
* `ClaimInv`: at most one request stands between the claim of a reference and its
  plan change, the reference is then closed and not yet applied, and a request
  further on has a closed reference. Nothing puts a payment back to PENDING, so a
  second claim is impossible: `AppliedAtMostOnce` and `SettledIsClosed`.
* `ReceiptInv`: the k-th receipt has number k, and a number in flight is at most
  the next one. At commit it is either the next (append) or taken (collision, as
  the series has no gap), which gives the series and its uniqueness without a
  lock.
* `FundedInv`: a request at a location from which the payment can be settled is
  about captured money or cash. With `ReceiptInv` every step of `Payments` is a
  step of `Settlement` or leaves its variables alone.
* `IssuedInv`: a request that will write PAID or OVERDUE, or is past markPaid's
  check, is about an invoice that is no longer a draft; drafts are never restored, so
  the stale write is harmless in that direction.

**Refunds** (`RefundsIInv`). `PaidInv` carries over what `Payments` says. `CheckoutInv`: a
checkout has its payment row, on an issued invoice, before anybody settles it.
`MoneyInv`: a payment that is SUCCESSFUL, in the hands of a request that settles it, or
refunded was captured or cash, wherever the gateway confirms. `RejectInv`: a refund that was
rejected while nobody else was about it stays so. `Current`: on an invoice nobody
`crowded`, what a request has read still allows what it will write; with `Standing` (nobody is
about to settle a refunded checkout) and `Receipted` (a completed checkout is on its way
to a receipt, or its invoice is closed) this carries the other three theorems.

**Wallet** (`BooksIInv`). The books are a sum over the ledger, so the first part of the
module is about sums: over a sequence that grows, over a set of references. They are
proved by induction written out with a least counterexample, as the library's induction
theorems take an operator. `TakenInv`: until an invoice is PAID or a request of its was
cut off, what wallet payments have taken for it is its price times the number of requests
that hold the money, so when none is in flight nothing is missing. `ReceivedInv`: a
payment that counts was received, and a request about to write PAID has seen the price
received; what is received only grows, so the stale sum is a lower bound.

**BillingJobs** (`ListsInv`). Whoever is on the list of a run left an invoice unpaid, and what
is on the other list was late and overdue, when the list was read; a subscriber is cut off
only from a list.

**Renewals** (`RenewalsIInv`). Numbers are looked up by a maximum, so `Capped` says of each
table that it has one: it does when it is empty and when a row is added, which needs no
induction.

* `BilledTimeIsKept` and `MonthsAreInvoiced` are inductive with the shapes of `TypeInv`: who writes
  an expiry from a row that has changed marks it as clobbered, and the expiry moves in the
  step that inserts the generator's invoice, or in one after which a portal request owes
  it, so the months given are those billed and those owed. The proof counts both sets
  before and after each step.
* `CrowdInv`: a checkout that lost `k` numbers since it looked first has `k` more invoices
  beside it, each at or below the last number it read; losing the next one means that there
  is an invoice beyond that, so the count goes on. A retry with the number that collided
  would lose every attempt to one invoice.
* `ChargesInv`: a request past its payment row owns the row of its charge, and the unique
  reference stops the second one.
* `MailsInv`: whoever is on the list of a reminder run has not been stamped today; who
  is not stamped has had the mails of runs that were cut between mail and stamp, and
  one more while the stamp of a mail is awaited.

**Access** (`AccessIInv`). A request is a list of statements, so its invariant is about lists:
`Orders` says in which order statements stand (a row is looked for just before it is
written, an expiry is dropped before it is written), `Reached`, for each effect of a request
that is alone on its side of a customer, that it is there or its statement is still
due. When nothing is due everything is there (`Done`), and nobody is at work where
something has settled, so it stands until the next request begins there. What a search
found is a row of that customer and attribute or is gone, and is there for a request that
is alone: looking before writing keeps rows single for requests in sequence, and only
for those. For `AccessImplementsSwitch` every statement is sorted into a step of `Switch`:
one of a request about the profile, or about another customer, is none, as it leaves the
login rows alone (`Kept`); one of a request that is not the last, or was not alone, lets
an undecided service waver; the last one of a request that was alone turns it on or off,
and the list's order makes that of a deactivation its packet.

**Support** (`DeskInv`, `GatewayInv`). What a request has read of a chat is still its row,
unless two requests overlapped on that chat (`Purpose`, `Reading`, `Overlaps`). At the
gateway, for an agent whose handlers did not overlap: a socket that comes online is still
there, none comes while one leaves, and who is not shown as offline is served or leaving
(`PresenceOf`).

**Sessions** (`SessionsIInv`). `Alone`: on a family or a link that is not contested one request
is under way at most. For such a family (`FamilyInv`): one live token at most, none once
it is ended or while a rotation is between its revoke and its issue; a live token is
younger than every revoke; the rotation began in time after the row it replaces. For
such a link (`LinkInv`): it has not changed the password while a request is about to use
it. `DeadStaysDead` needs none of this and holds whatever overlapped: what is presented of
a dead family is revoked, so it is not rotated, and the grace period finds no live token.

**LoginCodes** (`CodesIInv`, `LimiterIInv`). A code is made, stored, read, and never comes
back, so each statement about it is for as long as it is on that way: wrong guesses at it
are among the attempts that are counted, and once those are too many the lock outlasts it
(`GuessedAt`); used once it is nowhere any more (`UsedUp`); the code in force is in the row
while nobody disturbs it (`Quiet`, `Stands`). The limiter: what a tier that was never
shortened accepted in its current window is in the shared set, which outlasts the hits of
the shortest windows (`InSet`).

### What the proofs corrected

Three properties held on TLC's instances and are false in larger ones; each was found where
its proof failed, confirmed by TLC on a larger instance, and is stated now as the code keeps it:

* `IdleSessionsEnd`: of a family on which two requests overlapped, several old live tokens
  can be handed out one after the other, each by presenting within the grace period the one
  that a lost request revoked; so it excepts `contested` families.
* `CompletedIsReceipted`: a checkout is also left without a receipt when every number
  its `markPaid` tried was taken, which needs two invoices and two workers.
* `OneHolderPerAddress`: it is enough for a request that assigns no address (a change of
  plan) to come last after an assignment that failed between saving the address and
  writing its row (section 5); so both last requests must be assignments.

One assumption was missing: with no attempt at all (`Attempts = 0`) a run of the generator
still begins and counts as one too many. The queue's options say 3, and
`RenewalsAssumption` says at least one.

One definition had no meaning of its own: two guards of a `CASE` in `Access` overlapped,
where TLC takes the first and TLA+ leaves the choice open. They exclude each other now.

**Only model-checked**: `RequestsEnd`, `CapturedIsBooked`, `DueIsFollowedUp` and
`LateIsSuspended`: liveness, as fairness and ENABLED are beyond the prover. Every safety
property of a passing run has its theorem.

## 5. What the models leave out

* Amounts of gateway payments and of refunds (a mismatch is an inconclusive answer; no
  code compares a refund's amount), formatting of numbers and the turn of the year in
  a series; two receipts never have the same `createdAt`.
* Manual bank transfers, POST payments/direct, virtual accounts (disabled), receipts
  written by the customer service's portal actions into the series of billing
  (`Renewals` models them in a table of their own).
* Signature checks of the webhooks: an unsigned call changes nothing.
* The details of plan changes in `Payments`: `applied` counts them; `Renewals` has the
  dates.
* The access token of a session (it is not a row), and the clocks' skew.
* Chat messages as such, files, ticket handling after the conversion, and what sockets
  are told: `Support` keeps what a message does to its chat.
* That a paid subscriber gets access: radius-service is told without waiting and errors are
  swallowed (PS:44), so nothing ensures it.

**Not modelled**, each with its reason in `PROJECT.json`: customer KYC and user
management (forms over single rows; the hazards are in the list), the caches (a stale
value until its TTL ends is all that can happen, and nothing promises more), the hooks
of the Prisma client, router actions (a queue without a consumer), settings, reports,
mail and the gateway. The web applications are most of the repository's lines:
screens without a protocol between steps, whose requests are the actions of the
models above. The modelled services are a small part of the lines for that reason.

### Behaviour met while modelling that no run of its own shows

Payments and billing:

* Void, issue and mark overdue read a status and write by id. A payment committed in
  between is overwritten: PAID becomes VOID or OVERDUE, which the transition table and
  `billing.service.spec.ts:269` exclude. `TransitionsHold` shows it takes an overlap.
* Of two checkouts of one invoice the second is claimed as SUCCESSFUL and only then
  refused by `markPaid`: money without a receipt. `CompletedIsReceipted` excepts
  invoices that were voided or paid with another reference. The money of a request whose
  `markPaid` finds every number taken five times is SUCCESSFUL without a receipt, too.
* An administrator's payment that the customer verifies is completed as a renewal:
  `finalizeCustomerPayment` takes a missing action for `'renew'` (PS:452), the webhook
  does not (PS:841).
* Two refund requests for one payment can both be processed, one after the other; a
  PROCESSED refund can be rejected; a refund takes back neither the plan nor the
  access.
* A redelivered notification of a refunded administrator's payment, or any report of the
  generic webhook, makes a REFUNDED payment SUCCESSFUL again: those paths have no
  claim. `RefundStands` is therefore about checkouts.
* The SUCCESSFUL row of a wallet payment stays after the amount is given back
  (PS:650-673) and counts in later partial payments; `PaidInFull` is therefore about
  recorded, not about kept, money.
* Two concurrent `payWithWallet` for one invoice can both debit before either
  writes PAID, and both writes succeed; two concurrent partial payments may each
  miss the other's row, so that the invoice stays open although its whole amount
  was paid.

Jobs and subscriptions:

* The suspension job writes OVERDUE by id over an invoice that was paid since its
  read (`apps/api/src/jobs/suspension.processor.ts:35`).
* The overdue job cuts off the subscribers it read first, also one who has paid
  meanwhile, and a run that fails after marking never cuts them, as the retry finds
  no ISSUED invoice.
* The generator writes an expiry computed from the row it listed over a renewal made
  since; `change_plan` starts a new month today and drops the time that was left; a
  reference that is presented again renews again before the unique key of the payment
  refuses it (so a month is owed without an invoice for the repeated charge).
* `suspendedAt` is cleared by renewals and set by nobody. The invoice generator in
  `apps/api` is not registered.

Sessions and codes:

* A refresh has revoked its token and not yet created the next; logout revokes the
  family; the refresh creates a live token (AS:326-334). A password change has the
  same gap (AS:417). Two refreshes of one live token both get a successor (AS:317),
  so a family can have two live tokens. A reset link is checked before the new
  password is hashed and consumed after (AS:379-393), so two requests can both use it.
  These are the overlaps in `contested`.
* A restart between the write of a password and the revocation (AS:416-418, AS:393-396)
  leaves the old sessions alive, and the reset link is used up.
* The count of wrong codes is not reset when a lock ends: the next wrong code locks
  again at once. A verification that fails voids the code and sets the lock after an
  await, so it can wipe a code sent meanwhile and lock its user again; one that
  succeeds nulls whichever code stands; one that read a code before it was voided
  still compares with it.
* All tiers of the limiter share the key of the client address: a request of a 60 s
  tier trims and expires hits the hourly account tier still needs, so the hourly
  limit is not enforced for an address that also makes short requests.

Access and support:

* Both checks of a fixed address can be passed by two customers' requests. The unique column
  stops the second, but only after its group and rate have changed; and a customer who
  saves another address and fails before writing the row keeps the old row, which the
  first customer's request has not seen. A change of plan then ends well on top of it: two
  customers with the same address in the reply rows.
* Overlapping activations leave two rows for one attribute, and an update then reaches
  one of them; a deletion removes both.
* An agent with two sockets is shown as OFFLINE when one of them closes; a client that
  goes away while it is authenticated stays registered until the gateway restarts.
* A reassignment opens a closed chat again; an answer writes ACTIVE over a chat that was
  closed meanwhile, and its agent over a pick-up made meanwhile.
* Actions put into the router queue have no consumer
  (`apps/api/src/modules/routeros/action-queue.service.ts`).

## 6. Plan

Done: the modules of section 2, the runs of section 3, and the proofs of every safety
property of every run, with two refinements of abstract specifications.

What could follow: KYC decisions and the unique phone and e-mail of a user; the same
`createdAt` of two receipts and the turn of the year in a series; the portal's receipts
and billing's in one series.
