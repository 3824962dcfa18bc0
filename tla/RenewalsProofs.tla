---------------------------- MODULE RenewalsProofs ----------------------------
(***************************************************************************)
(* The subscriptions, invoices, charges and reminders of Renewals, for any *)
(* number of customers, requests, charges, days and attempts: what its run *)
(* checks on a small instance.                                             *)
(*                                                                         *)
(* A step rests on what a job or a request remembers of the rows: the      *)
(* subscription it listed is still there, the number it read was the last  *)
(* one, and whoever is on the list of reminders was not reminded today.    *)
(***************************************************************************)
EXTENDS Renewals, FiniteSetTheorems, TLAPS

-------------------------------------------------------------------------------
(***************************************************************************)
(* The invariant.                                                          *)
(***************************************************************************)

\* A set of numbers has a last one.
Capped(numbers) ==
    \E m \in numbers \cup {0} : \A n \in numbers \cup {0} : n <= m

\* Subscriptions are numbered one by one and never deleted.
RowsInv ==
    /\ subs \subseteq Sub
    /\ \A s, t \in subs : s.id = t.id => s = t
    /\ IsFiniteSet(subs) /\ Cardinality(subs) <= MaxSubs
    /\ Ids = 1..Cardinality(subs)

\* What was written is well formed, and invoices and receipts have a last one.
BooksInv ==
    /\ invoices \subseteq Invoice
    /\ \A i, j \in invoices : i.number = j.number => i = j
    /\ IsFiniteSet(invoices) /\ Capped({i.number : i \in invoices})
    /\ payments \subseteq [charge : Charges, invoice : Nat]
    /\ receipts \subseteq [number : Nat \ {0}, invoice : Nat]
    /\ Capped({x.number : x \in receipts})

\* The shape of the jobs and the requests.
SeenRow == [id : Nat \ {0}, expires : Nat]

GeneratorRun ==
    [pc : {"idle", "loop", "bill", "retry"}, list : SUBSET SeenRow,
     cur : SeenRow \cup {Nothing}, last : Nat, tries : 0..Attempts, day : Nat]

ReminderRun ==
    [pc : {"idle", "loop", "stamp", "retry"}, list : SUBSET Nat,
     cur : Nat \cup {Nothing}, last : Nat, tries : 0..Attempts, day : Nat]

PortalKinds == {"renew", "change", "add"}
Working == {"apply", "number", "invoice", "payment", "receipt", "receive"}
Ended == {"done", "gaveUp", "broken", "brokenUnbilled", "brokenBilled"}

RequestRow ==
    [pc : {"idle"} \cup Working \cup Ended,
     kind : {"none", "checkout"} \cup PortalKinds,
     customer : Customers \cup {Nothing}, sub : SeenRow \cup {Nothing},
     charge : Charges \cup {Nothing}, at : Nat, last : Nat, attempt : Nat,
     number : Nat, seen : Nat]

\* What a job has listed is there, and it is tried as often as it may be.
GeneratorInv ==
    /\ gen \in GeneratorRun
    /\ \A s \in gen.list : s.id \in Ids
    /\ gen.pc = "bill" => gen.cur \in gen.list
    /\ gen.pc = "retry" => gen.tries < Attempts

ReminderInv ==
    /\ rem \in ReminderRun
    /\ rem.list \subseteq Ids
    /\ rem.pc = "stamp" => rem.cur \in rem.list
    /\ rem.pc = "retry" => rem.tries < Attempts

\* A request under way knows its customer, its charge and its subscription.
Fits(q, ids) ==
    /\ q.pc \in Working =>
          /\ q.customer \in Customers
          /\ q.kind # "none"
          /\ q.kind = "checkout" => q.pc \in {"number", "invoice"}
          /\ q.kind \in PortalKinds => q.charge \in Charges
    /\ q.pc = "apply" /\ q.kind # "add" => q.sub \in SeenRow /\ q.sub.id \in ids

RequestsInv ==
    /\ req \in [Requests -> RequestRow]
    /\ \A r \in Requests : Fits(req[r], Ids)

\* The history variables.
HistoryInv ==
    /\ today \in Nat
    /\ floor \in [1..MaxSubs -> Nat]
    /\ given \in [Customers -> Nat]
    /\ mails \in [1..MaxSubs -> Nat]
    /\ cutMails \in Nat

TypeInv ==
    /\ RowsInv /\ BooksInv /\ GeneratorInv /\ ReminderInv /\ RequestsInv
    /\ HistoryInv

\* A charge has one payment; a request that has written its payment, or was
\* answered, is the only one of its charge.
Booked == {r \in Requests : /\ req[r].kind # "checkout"
                            /\ req[r].pc \in {"receipt", "receive", "done"}}

ChargesInv ==
    /\ \A r \in Booked :
          [charge |-> req[r].charge, invoice |-> req[r].number] \in payments
    /\ \A r, q \in Booked : req[r].charge = req[q].charge => r = q
    /\ \A r \in Booked : req[r].pc = "done" =>
          \E x \in receipts : x.invoice = req[r].number

\* While a checkout tries, every number it lost has its invoice: they are
\* beyond what there was at the beginning, and the number it holds is the last
\* there was at its last look.
Lost(r) == req[r].seen + req[r].attempt

CrowdInv ==
    \A r \in Requests :
        /\ req[r].pc \in {"number", "invoice"} /\ req[r].kind = "checkout" =>
              Lost(r) <= Cardinality(invoices)
        /\ req[r].pc = "invoice" /\ req[r].kind = "checkout" =>
              Lost(r) <= Cardinality({i \in invoices : i.number <= req[r].last})
        /\ req[r].pc = "gaveUp" =>
              /\ Lost(r) <= Cardinality(invoices)
              /\ req[r].attempt >= Tries

\* The reminder runs alone; a subscription it may still mail today has had the
\* mails of cut runs only, and one more while its stamp is awaited.
MailsInv ==
    /\ rem.pc = "idle" =>
          rem.list = {} /\ mails = [s \in 1..MaxSubs |-> 0] /\ cutMails = 0
    /\ rem.pc # "idle" =>
          /\ rem.day = today /\ gen.pc = "idle" /\ gen.day = today
          /\ \A r \in Requests : At(r, "idle") \/ Over(r)
    /\ \A s \in subs : s.id \in rem.list => s.reminded < today
    /\ \A s \in subs :
          /\ s.reminded < today
          /\ ~(rem.pc = "stamp" /\ rem.cur = s.id)
          => mails[s.id] <= cutMails
    /\ \A s \in 1..MaxSubs : mails[s] <= 1 + cutMails

RenewalsIInv ==
    /\ TypeInv /\ ChargesInv /\ CrowdInv /\ MailsInv
    /\ BilledTimeIsKept /\ MonthsAreInvoiced

-------------------------------------------------------------------------------
(***************************************************************************)
(* The operators.                                                          *)
(***************************************************************************)

\* Max is there when a set has a member no other exceeds.
LEMMA MaxIs ==
    ASSUME NEW S \in SUBSET Nat, \E m \in S : \A n \in S : n <= m
    PROVE  /\ Max(S) \in S
           /\ \A n \in S : n <= Max(S)
<1>1. PICK m \in S : \A n \in S : n <= m
  OBVIOUS
<1>2. \E x \in S : \A y \in S : x >= y
  BY <1>1
<1>3. DEFINE M == CHOOSE x \in S : \A y \in S : x >= y
<1>4. M \in S /\ \A y \in S : M >= y
  BY <1>2
<1>5. Max(S) = M
  BY DEF Max
<1> QED
  BY <1>4, <1>5

\* The later of two days.
LEMMA LaterIs ==
    ASSUME NEW a \in Nat, NEW b \in Nat
    PROVE  Later(a, b) \in Nat /\ Later(a, b) >= a /\ Later(a, b) >= b
           /\ Later(a, b) \in {a, b}
<1>1. \E m \in {a, b} : \A n \in {a, b} : n <= m
  <2>1. CASE a <= b
    BY <2>1
  <2>2. CASE b <= a
    BY <2>2
  <2> QED BY <2>1, <2>2
<1> QED
  BY <1>1, MaxIs DEF Later

\* The last of a set of numbers that has one.
LEMMA LastIs ==
    ASSUME NEW S \in SUBSET Nat, Capped(S)
    PROVE  /\ Last(S) \in S \cup {0} /\ Last(S) \in Nat
           /\ \A n \in S : n <= Last(S)
<1>1. S \cup {0} \in SUBSET Nat
  OBVIOUS
<1> QED
  BY <1>1, MaxIs DEF Last, Capped

\* It still has one with one number more.
LEMMA CappedGrows ==
    ASSUME NEW S \in SUBSET Nat, Capped(S), NEW n \in Nat
    PROVE  Capped(S \cup {n})
<1>1. PICK m \in S \cup {0} : \A k \in S \cup {0} : k <= m
  BY DEF Capped
<1>2. CASE n <= m
  BY <1>1, <1>2 DEF Capped
<1>3. CASE m <= n
  <2>1. \A k \in S \cup {0} : k <= n
    BY <1>1, <1>3
  <2> QED BY <2>1 DEF Capped
<1> QED
  BY <1>1, <1>2, <1>3

LEMMA CappedEmpty == Capped({})
BY DEF Capped

\* 1..n has its last number.
LEMMA CappedInterval == ASSUME NEW n \in Nat PROVE Capped(1..n) /\ Last(1..n) = n
<1>1. n \in (1..n) \cup {0} /\ \A k \in (1..n) \cup {0} : k <= n
  OBVIOUS
<1>2. Capped(1..n)
  BY <1>1 DEF Capped
<1>3. /\ Last(1..n) \in (1..n) \cup {0}
      /\ \A k \in 1..n : k <= Last(1..n)
  BY <1>2, LastIs
<1>4. Last(1..n) = n
  <2>1. CASE n = 0
    BY <1>3, <2>1
  <2>2. CASE n > 0
    BY <1>3, <2>2
  <2> QED BY <2>1, <2>2
<1> QED BY <1>2, <1>4

\* The row of an id.
LEMMA RowIs ==
    ASSUME RowsInv, NEW id \in Ids
    PROVE  /\ Row(id) \in subs /\ Row(id).id = id /\ Row(id) \in Sub
           /\ \A s \in subs : s.id = id => s = Row(id)
<1>1. \E s \in subs : s.id = id
  BY DEF Ids
<1>2. Row(id) \in subs /\ Row(id).id = id
  BY <1>1 DEF Row
<1> QED
  BY <1>2 DEF RowsInv

LEMMA RowOf ==
    ASSUME RowsInv, NEW s \in subs
    PROVE  s.id \in Ids /\ Row(s.id) = s
BY RowIs DEF Ids

LEMMA IdsBound == RowsInv => Ids \subseteq 1..MaxSubs
<1> SUFFICES ASSUME RowsInv PROVE Ids \subseteq 1..MaxSubs
  OBVIOUS
<1>1. Cardinality(subs) \in Nat /\ MaxSubs \in Nat /\ Cardinality(subs) <= MaxSubs
      /\ Ids = 1..Cardinality(subs)
  BY FS_CardinalityType, RenewalsAssumption DEF RowsInv
<1> QED
  BY <1>1

\* Writing a row leaves the others.
LEMMA PutKeeps ==
    ASSUME RowsInv, NEW s \in Sub, s.id \in Ids, Put(s)
    PROVE  /\ RowsInv' /\ Ids' = Ids
           /\ s \in subs'
           /\ \A x \in subs' : x = s \/ (x \in subs /\ x.id # s.id)
<1> DEFINE old == Row(s.id)
<1>1. old \in subs /\ old.id = s.id /\ \A x \in subs : x.id = s.id => x = old
  BY RowIs
<1>2. subs' = {x \in subs : x.id # s.id} \cup {s}
  BY DEF Put
<1>3. subs' = (subs \ {old}) \cup {s}
  BY <1>1, <1>2
<1>4. /\ s \in subs'
      /\ \A x \in subs' : x = s \/ (x \in subs /\ x.id # s.id)
      /\ subs' \subseteq Sub
  BY <1>2 DEF RowsInv
<1>5. \A x, y \in subs' : x.id = y.id => x = y
  BY <1>4 DEF RowsInv
<1>6. Ids' = Ids
  <2>1. Ids' \subseteq Ids
    BY <1>4 DEF Ids
  <2>2. ASSUME NEW x \in subs PROVE x.id \in Ids'
    BY <1>2 DEF Ids
  <2>3. Ids \subseteq Ids'
    BY <2>2 DEF Ids
  <2> QED BY <2>1, <2>3
<1>7. IsFiniteSet(subs') /\ Cardinality(subs') = Cardinality(subs)
  <2>0. IsFiniteSet(subs) /\ Cardinality(subs) \in Nat
    BY FS_CardinalityType DEF RowsInv
  <2>1. /\ IsFiniteSet(subs \ {old})
        /\ Cardinality(subs \ {old}) = Cardinality(subs) - 1
    BY <2>0, <1>1, FS_RemoveElement
  <2>2. s \notin subs \ {old}
    BY <1>1
  <2>3. /\ IsFiniteSet((subs \ {old}) \cup {s})
        /\ Cardinality((subs \ {old}) \cup {s}) = Cardinality(subs \ {old}) + 1
    BY <2>1, <2>2, FS_AddElement
  <2> QED BY <2>0, <2>1, <2>3, <1>3
<1> QED
  BY <1>4, <1>5, <1>6, <1>7 DEF RowsInv

\* Adding a row numbers it next.
LEMMA AddKeeps ==
    ASSUME RowsInv, Cardinality(subs) < MaxSubs, NEW s \in Sub,
           s.id = Last(Ids) + 1, subs' = subs \cup {s}
    PROVE  /\ RowsInv' /\ Ids \subseteq Ids'
           /\ s.id \in Ids' /\ s.id \notin Ids /\ s.id \in 1..MaxSubs
<1>0. /\ IsFiniteSet(subs) /\ Cardinality(subs) \in Nat
      /\ Ids = 1..Cardinality(subs)
  BY FS_CardinalityType DEF RowsInv
<1> DEFINE n == Cardinality(subs)
<1>1. s.id = n + 1
  BY <1>0, CappedInterval
<1>2. s.id \notin Ids /\ s \notin subs
  BY <1>0, <1>1 DEF Ids
<1>3. IsFiniteSet(subs') /\ Cardinality(subs') = n + 1
  BY <1>0, <1>2, FS_AddElement
<1>4. Ids' = Ids \cup {s.id}
  BY DEF Ids
<1>5. Ids' = 1..(n + 1)
  BY <1>0, <1>1, <1>4
<1>6. subs' \subseteq Sub /\ \A x, y \in subs' : x.id = y.id => x = y
  BY <1>2 DEF RowsInv, Ids
<1>7. MaxSubs \in Nat
  BY RenewalsAssumption
<1>8. RowsInv'
  <2>1. n + 1 <= MaxSubs
    BY <1>0, <1>7
  <2>2. IsFiniteSet(subs)' /\ (Cardinality(subs) <= MaxSubs)'
        /\ (Ids = 1..Cardinality(subs))'
    BY <1>3, <1>5, <2>1
  <2> QED BY <1>6, <2>2 DEF RowsInv
<1> QED
  BY <1>0, <1>1, <1>2, <1>4, <1>7, <1>8

\* A new number of an invoice is one more invoice.
LEMMA InvoiceKeeps ==
    ASSUME BooksInv, NEW i \in Invoice, ~Taken(i.number),
           invoices' = invoices \cup {i}, UNCHANGED <<payments, receipts>>
    PROVE  /\ BooksInv' /\ i \notin invoices
           /\ Cardinality(invoices') = Cardinality(invoices) + 1
<1>1. i \notin invoices
  BY DEF Taken
<1>2. /\ IsFiniteSet(invoices')
      /\ Cardinality(invoices') = Cardinality(invoices) + 1
  BY <1>1, FS_AddElement DEF BooksInv
<1>3. invoices' \subseteq Invoice
  BY DEF BooksInv
<1>4. \A x, y \in invoices' : x.number = y.number => x = y
  BY DEF BooksInv, Taken
<1> DEFINE old == {x.number : x \in invoices}
<1>5. old \in SUBSET Nat /\ i.number \in Nat /\ Capped(old)
  BY DEF BooksInv, Invoice
<1>6. Capped(old \cup {i.number})
  BY <1>5, CappedGrows
<1>7. {x.number : x \in invoices'} = old \cup {i.number}
  OBVIOUS
<1>8. Capped({x.number : x \in invoices})'
  BY <1>6, <1>7
<1> QED
  BY <1>1, <1>2, <1>3, <1>4, <1>8 DEF BooksInv

\* The number that was read is the last.
LEMMA LastInvoiceIs ==
    ASSUME BooksInv
    PROVE  /\ LastInvoice \in Nat
           /\ \A i \in invoices : i.number \in Nat /\ i.number <= LastInvoice
<1> DEFINE S == {i.number : i \in invoices}
<1>1. S \in SUBSET Nat /\ Capped(S)
  BY DEF BooksInv, Invoice
<1>2. Last(S) \in Nat /\ \A n \in S : n <= Last(S)
  BY <1>1, LastIs
<1> QED
  BY <1>1, <1>2 DEF LastInvoice

LEMMA LastReceiptIs ==
    ASSUME BooksInv
    PROVE  Last({x.number : x \in receipts}) \in Nat
<1>1. {x.number : x \in receipts} \in SUBSET Nat
  BY DEF BooksInv
<1> QED
  BY <1>1, LastIs DEF BooksInv

LEMMA ReceiptKeeps ==
    ASSUME BooksInv, NEW x \in [number : Nat \ {0}, invoice : Nat],
           receipts' = receipts \cup {x}, UNCHANGED <<invoices, payments>>
    PROVE  BooksInv'
<1> DEFINE old == {y.number : y \in receipts}
<1>1. old \in SUBSET Nat /\ x.number \in Nat /\ Capped(old)
  BY DEF BooksInv
<1>2. Capped(old \cup {x.number})
  BY <1>1, CappedGrows
<1>3. {y.number : y \in receipts'} = old \cup {x.number}
  OBVIOUS
<1>4. Capped({y.number : y \in receipts})'
  BY <1>2, <1>3
<1> QED
  BY <1>4 DEF BooksInv

\* What a job lists is there.
LEMMA DueIs ==
    ASSUME RowsInv
    PROVE  Due \in SUBSET SeenRow /\ \A s \in Due : s.id \in Ids
BY DEF RowsInv, Due, Seen, SeenRow, Sub, Ids

LEMMA ExpiringIs ==
    ASSUME RowsInv
    PROVE  /\ Expiring \in SUBSET Nat /\ Expiring \subseteq Ids
           /\ \A s \in subs : s.id \in Expiring => s.reminded < today
BY DEF RowsInv, Expiring, Sub, Ids

-------------------------------------------------------------------------------
(***************************************************************************)
(* The types are inductive.                                                *)
(***************************************************************************)

LEMMA RowsSame == RowsInv /\ subs' = subs => RowsInv' /\ Ids' = Ids
BY DEF RowsInv, Ids

LEMMA BooksSame ==
    BooksInv /\ UNCHANGED <<invoices, payments, receipts>> => BooksInv'
BY DEF BooksInv

LEMMA GeneratorSame ==
    GeneratorInv /\ Ids \subseteq Ids' /\ gen' = gen => GeneratorInv'
BY DEF GeneratorInv

LEMMA ReminderSame ==
    ReminderInv /\ Ids \subseteq Ids' /\ rem' = rem => ReminderInv'
BY DEF ReminderInv

LEMMA RequestsSame ==
    RequestsInv /\ Ids \subseteq Ids' /\ req' = req => RequestsInv'
BY DEF RequestsInv, Fits

\* A request that becomes a well-formed one.
LEMMA RequestKeeps ==
    ASSUME RequestsInv, Ids \subseteq Ids', NEW r \in Requests,
           NEW q \in RequestRow, Fits(q, Ids'), req' = [req EXCEPT ![r] = q]
    PROVE  /\ RequestsInv' /\ req'[r] = q
           /\ \A x \in Requests \ {r} : req'[x] = req[x]
<1>1. /\ req' \in [Requests -> RequestRow] /\ req'[r] = q
      /\ \A x \in Requests \ {r} : req'[x] = req[x]
  BY DEF RequestsInv
<1>2. ASSUME NEW x \in Requests \ {r} PROVE Fits(req'[x], Ids')
  BY <1>1 DEF RequestsInv, Fits
<1> QED
  BY <1>1, <1>2 DEF RequestsInv

\* Idle jobs, and runs that are over or tried again.
LEMMA IdleJobIs == IdleJob \in GeneratorRun /\ IdleJob \in ReminderRun
BY RenewalsAssumption DEF IdleJob, GeneratorRun, ReminderRun

LEMMA IdleRequestIs == IdleRequest \in RequestRow
BY DEF IdleRequest, RequestRow

LEMMA AgainIs ==
    ASSUME NEW job \in GeneratorRun \cup ReminderRun
    PROVE  /\ Again(job) \in GeneratorRun /\ Again(job) \in ReminderRun
           /\ Again(job).list = {} /\ Again(job).pc \in {"idle", "retry"}
           /\ Again(job).pc = "retry" => Again(job).tries < Attempts
           /\ Again(job).day = job.day
<1>1. /\ job.tries \in 0..Attempts /\ job.day \in Nat /\ Attempts \in Nat
      /\ IdleJob \in GeneratorRun /\ IdleJob \in ReminderRun
  BY IdleJobIs, RenewalsAssumption DEF GeneratorRun, ReminderRun
<1>2. CASE job.tries < Attempts
  <2>1. Again(job) = [pc |-> "retry", list |-> {}, cur |-> Nothing, last |-> 0,
                      tries |-> job.tries, day |-> job.day]
    BY <1>2 DEF Again, IdleJob
  <2> QED BY <1>1, <1>2, <2>1 DEF GeneratorRun, ReminderRun
<1>3. CASE ~(job.tries < Attempts)
  <2>1. Again(job) = [pc |-> "idle", list |-> {}, cur |-> Nothing, last |-> 0,
                      tries |-> 0, day |-> job.day]
    BY <1>3 DEF Again, IdleJob
  <2> QED BY <1>1, <2>1 DEF GeneratorRun, ReminderRun
<1> QED BY <1>2, <1>3

\* The steps of the invoice generator.
LEMMA GeneratorTypes ==
    ASSUME TypeInv, Generator
    PROVE  TypeInv'
<1>0. /\ gen \in GeneratorRun /\ RowsInv /\ BooksInv /\ GeneratorInv
      /\ ReminderInv /\ RequestsInv /\ HistoryInv /\ Attempts \in Nat
      /\ Attempts > 0 /\ Month \in Nat /\ MaxSubs \in Nat
  BY RenewalsAssumption DEF TypeInv, GeneratorInv
<1>1. ASSUME UNCHANGED <<rows, today, rem, req, history>>,
             gen' \in GeneratorRun, \A s \in gen'.list : s.id \in Ids,
             gen'.pc = "bill" => gen'.cur \in gen'.list,
             gen'.pc = "retry" => gen'.tries < Attempts
      PROVE  TypeInv'
  <2>1. RowsInv' /\ Ids' = Ids /\ BooksInv' /\ ReminderInv' /\ RequestsInv'
    BY <1>0, <1>1, RowsSame, BooksSame, ReminderSame, RequestsSame DEF rows
  <2>2. GeneratorInv'
    BY <1>1, <2>1 DEF GeneratorInv
  <2>3. HistoryInv'
    BY <1>0, <1>1 DEF HistoryInv, history
  <2> QED BY <2>1, <2>2, <2>3 DEF TypeInv
<1>2. CASE StartGenerator
  <2>1. gen' = [pc |-> "loop", list |-> Due, cur |-> Nothing, last |-> 0,
                tries |-> 1, day |-> today]
    BY <1>2 DEF StartGenerator, IdleJob
  <2>2. Due \in SUBSET SeenRow /\ (\A s \in Due : s.id \in Ids) /\ today \in Nat
    BY <1>0, DueIs DEF HistoryInv
  <2>3. gen' \in GeneratorRun
    BY <1>0, <2>1, <2>2 DEF GeneratorRun
  <2> QED BY <1>1, <1>2, <2>1, <2>2, <2>3 DEF StartGenerator
<1>3. CASE ReadNumber
  <2>1. PICK s \in gen.list :
           gen' = [gen EXCEPT !.pc = "bill", !.cur = s, !.last = LastInvoice]
    BY <1>3 DEF ReadNumber
  <2>2. LastInvoice \in Nat /\ s \in SeenRow
    BY <1>0, LastInvoiceIs DEF GeneratorRun
  <2>3. gen' \in GeneratorRun /\ gen'.list = gen.list /\ gen'.cur = s
        /\ gen'.pc = "bill"
    BY <1>0, <2>1, <2>2 DEF GeneratorRun
  <2> QED BY <1>0, <1>1, <1>3, <2>3 DEF ReadNumber, GeneratorInv
<1>4. CASE Bill
  <2> DEFINE s == gen.cur
             i == [number |-> gen.last + 1, customer |-> Row(s.id).customer,
                   status |-> "DRAFT"]
             t == [Row(s.id) EXCEPT !.expires = s.expires + Month]
  <2>1. /\ gen.pc = "bill" /\ ~Taken(gen.last + 1) /\ Put(t)
        /\ invoices' = invoices \cup {i}
        /\ floor' = [floor EXCEPT ![s.id] = @ + Month]
        /\ Give(Row(s.id).customer)
        /\ gen' = [gen EXCEPT !.pc = "loop", !.list = @ \ {s}, !.cur = Nothing,
                              !.last = 0]
        /\ UNCHANGED <<payments, receipts, today, rem, req, mails, cutMails>>
    BY <1>4 DEF Bill
  <2>2. s \in gen.list /\ s \in SeenRow /\ s.id \in Ids
    BY <1>0, <2>1 DEF GeneratorInv, GeneratorRun
  <2>3. /\ Row(s.id) \in Sub /\ Row(s.id).id = s.id
    BY <1>0, <2>2, RowIs
  <2>4. t \in Sub /\ t.id = s.id
    BY <1>0, <2>2, <2>3 DEF Sub, SeenRow
  <2>5. RowsInv' /\ Ids' = Ids
    BY <1>0, <2>1, <2>2, <2>4, PutKeeps
  <2>6. i \in Invoice /\ i.number = gen.last + 1
    BY <1>0, <2>3 DEF Invoice, Sub, GeneratorRun
  <2>7. BooksInv'
    BY <1>0, <2>1, <2>6, InvoiceKeeps
  <2>8. gen' \in GeneratorRun /\ gen'.list \subseteq gen.list /\ gen'.pc = "loop"
    BY <1>0, <2>1 DEF GeneratorRun
  <2>9. GeneratorInv'
    BY <1>0, <2>5, <2>8 DEF GeneratorInv
  <2>10. ReminderInv' /\ RequestsInv'
    BY <1>0, <2>1, <2>5, ReminderSame, RequestsSame
  <2>11. HistoryInv'
    <3>1. floor' \in [1..MaxSubs -> Nat]
      <4>1. floor \in [1..MaxSubs -> Nat] /\ s.id \in 1..MaxSubs
        BY <1>0, <2>2, IdsBound DEF HistoryInv
      <4> QED BY <1>0, <2>1, <4>1
    <3>2. given' \in [Customers -> Nat]
      <4>1. given \in [Customers -> Nat] /\ Row(s.id).customer \in Customers
        BY <1>0, <2>3 DEF HistoryInv, Sub
      <4> QED BY <2>1, <4>1 DEF Give
    <3> QED BY <1>0, <2>1, <3>1, <3>2 DEF HistoryInv
  <2> QED BY <2>5, <2>7, <2>9, <2>10, <2>11 DEF TypeInv
<1>5. CASE GeneratorFails
  BY <1>0, <1>1, <1>5, AgainIs DEF GeneratorFails
<1>6. CASE RetryGenerator
  <2>1. gen' = [gen EXCEPT !.pc = "loop", !.list = Due, !.tries = @ + 1]
        /\ gen.tries < Attempts /\ gen.tries \in 0..Attempts
    BY <1>0, <1>6 DEF RetryGenerator, GeneratorInv, GeneratorRun
  <2>2. Due \in SUBSET SeenRow /\ (\A s \in Due : s.id \in Ids)
    BY <1>0, DueIs
  <2>3. gen' = [pc |-> "loop", list |-> Due, cur |-> gen.cur,
                last |-> gen.last, tries |-> gen.tries + 1, day |-> gen.day]
    BY <1>0, <2>1 DEF GeneratorRun
  <2>4. gen.tries + 1 \in 0..Attempts
    BY <1>0, <2>1
  <2>5. gen' \in GeneratorRun /\ gen'.list = Due /\ gen'.pc = "loop"
    BY <1>0, <2>2, <2>3, <2>4 DEF GeneratorRun
  <2> QED BY <1>1, <1>6, <2>2, <2>5 DEF RetryGenerator
<1>7. CASE EndGenerator
  <2>1. gen' = [pc |-> "idle", list |-> {}, cur |-> Nothing, last |-> 0,
                tries |-> 0, day |-> gen.day]
    BY <1>7 DEF EndGenerator, IdleJob
  <2>2. gen' \in GeneratorRun
    BY <1>0, <2>1 DEF GeneratorRun
  <2> QED BY <1>1, <1>7, <2>1, <2>2 DEF EndGenerator
<1> QED
  BY <1>2, <1>3, <1>4, <1>5, <1>6, <1>7 DEF Generator

\* The steps of the expiry reminder.
LEMMA ReminderTypes ==
    ASSUME TypeInv, Reminder
    PROVE  TypeInv'
<1>0. /\ rem \in ReminderRun /\ RowsInv /\ BooksInv /\ GeneratorInv
      /\ ReminderInv /\ RequestsInv /\ HistoryInv /\ Attempts \in Nat
      /\ Attempts > 0 /\ MaxSubs \in Nat
  BY RenewalsAssumption DEF TypeInv, ReminderInv
<1>1. ASSUME UNCHANGED <<rows, today, gen, req, floor, given>>,
             mails' \in [1..MaxSubs -> Nat], cutMails' \in Nat,
             rem' \in ReminderRun, rem'.list \subseteq Ids,
             rem'.pc = "stamp" => rem'.cur \in rem'.list,
             rem'.pc = "retry" => rem'.tries < Attempts
      PROVE  TypeInv'
  <2>1. RowsInv' /\ Ids' = Ids /\ BooksInv' /\ GeneratorInv' /\ RequestsInv'
    BY <1>0, <1>1, RowsSame, BooksSame, GeneratorSame, RequestsSame DEF rows
  <2>2. ReminderInv'
    BY <1>1, <2>1 DEF ReminderInv
  <2>3. HistoryInv'
    BY <1>0, <1>1 DEF HistoryInv
  <2> QED BY <2>1, <2>2, <2>3 DEF TypeInv
<1>2. mails \in [1..MaxSubs -> Nat] /\ cutMails \in Nat /\ today \in Nat
  BY <1>0 DEF HistoryInv
<1>3. CASE StartReminder
  <2>1. rem' = [pc |-> "loop", list |-> Expiring, cur |-> Nothing, last |-> 0,
                tries |-> 1, day |-> today]
    BY <1>3 DEF StartReminder, IdleJob
  <2>2. Expiring \in SUBSET Nat /\ Expiring \subseteq Ids
    BY <1>0, ExpiringIs
  <2>3. rem' \in ReminderRun
    BY <1>0, <1>2, <2>1, <2>2 DEF ReminderRun
  <2> QED BY <1>1, <1>2, <1>3, <2>1, <2>2, <2>3 DEF StartReminder, history
<1>4. CASE SendReminder
  <2>1. PICK s \in rem.list :
          \/ /\ rem' = [rem EXCEPT !.pc = "stamp", !.cur = s]
             /\ mails' = [mails EXCEPT ![s] = @ + 1]
          \/ /\ rem' = [rem EXCEPT !.list = @ \ {s}]
             /\ UNCHANGED mails
    BY <1>4 DEF SendReminder
  <2>2. rem.pc = "loop"
    BY <1>4 DEF SendReminder
  <2>3. /\ rem' \in ReminderRun /\ rem'.list \subseteq rem.list
        /\ rem'.pc = "stamp" => rem'.cur \in rem'.list
        /\ rem'.pc # "retry"
    BY <1>0, <2>1, <2>2 DEF ReminderRun
  <2>4. mails' \in [1..MaxSubs -> Nat]
    BY <1>2, <2>1
  <2> QED BY <1>0, <1>1, <1>2, <1>4, <2>3, <2>4 DEF SendReminder, ReminderInv
<1>5. CASE StampReminder
  <2> DEFINE t == [Row(rem.cur) EXCEPT !.reminded = rem.day]
  <2>1. /\ rem.pc = "stamp" /\ Put(t)
        /\ rem' = [rem EXCEPT !.pc = "loop", !.list = @ \ {rem.cur},
                              !.cur = Nothing]
        /\ UNCHANGED <<invoices, payments, receipts, today, gen, req, history>>
    BY <1>5 DEF StampReminder
  <2>2. rem.cur \in Ids
    BY <1>0, <2>1 DEF ReminderInv
  <2>3. t \in Sub /\ t.id = rem.cur
    BY <1>0, <2>2, RowIs DEF Sub, ReminderRun
  <2>4. RowsInv' /\ Ids' = Ids
    BY <1>0, <2>1, <2>2, <2>3, PutKeeps
  <2>5. BooksInv' /\ GeneratorInv' /\ RequestsInv'
    BY <1>0, <2>1, <2>4, BooksSame, GeneratorSame, RequestsSame
  <2>6. /\ rem' \in ReminderRun /\ rem'.list \subseteq rem.list
        /\ rem'.pc = "loop"
    BY <1>0, <2>1 DEF ReminderRun
  <2>7. ReminderInv'
    BY <1>0, <2>4, <2>6 DEF ReminderInv
  <2>8. HistoryInv'
    BY <1>0, <2>1 DEF HistoryInv, history
  <2> QED BY <2>4, <2>5, <2>7, <2>8 DEF TypeInv
<1>6. CASE ReminderFails
  <2>1. /\ rem' \in ReminderRun /\ rem'.list = {}
        /\ rem'.pc \in {"idle", "retry"}
        /\ rem'.pc = "retry" => rem'.tries < Attempts
    BY <1>0, <1>6, AgainIs DEF ReminderFails
  <2>2. mails' \in [1..MaxSubs -> Nat] /\ cutMails' \in Nat
    BY <1>2, <1>6 DEF ReminderFails, ForgetMails
  <2> QED BY <1>1, <1>6, <2>1, <2>2 DEF ReminderFails
<1>7. CASE RetryReminder
  <2>1. rem' = [rem EXCEPT !.pc = "loop", !.list = Expiring, !.tries = @ + 1]
        /\ rem.tries < Attempts /\ rem.tries \in 0..Attempts
    BY <1>0, <1>7 DEF RetryReminder, ReminderInv, ReminderRun
  <2>2. Expiring \in SUBSET Nat /\ Expiring \subseteq Ids
    BY <1>0, ExpiringIs
  <2>3. rem' = [pc |-> "loop", list |-> Expiring, cur |-> rem.cur,
                last |-> rem.last, tries |-> rem.tries + 1, day |-> rem.day]
    BY <1>0, <2>1 DEF ReminderRun
  <2>4. rem.tries + 1 \in 0..Attempts
    BY <1>0, <2>1
  <2>5. rem' \in ReminderRun /\ rem'.list = Expiring /\ rem'.pc = "loop"
    BY <1>0, <2>2, <2>3, <2>4 DEF ReminderRun
  <2> QED BY <1>1, <1>2, <1>7, <2>2, <2>5 DEF RetryReminder, history
<1>8. CASE EndReminder
  <2>1. rem' = [pc |-> "idle", list |-> {}, cur |-> Nothing, last |-> 0,
                tries |-> 0, day |-> rem.day]
    BY <1>8 DEF EndReminder, IdleJob
  <2>2. rem' \in ReminderRun
    BY <1>0, <2>1 DEF ReminderRun
  <2>3. mails' \in [1..MaxSubs -> Nat] /\ cutMails' \in Nat
    BY <1>8 DEF EndReminder, ForgetMails
  <2> QED BY <1>1, <1>8, <2>1, <2>2, <2>3 DEF EndReminder
<1> QED
  BY <1>3, <1>4, <1>5, <1>6, <1>7, <1>8 DEF Reminder

\* The three steps that move an expiry, of a request that is to be billed.
LEMMA GivenKeeps ==
    ASSUME HistoryInv, NEW c \in Customers, Give(c)
    PROVE  given' \in [Customers -> Nat]
BY DEF HistoryInv, Give

LEMMA FloorKeeps ==
    ASSUME HistoryInv, NEW s \in 1..MaxSubs, NEW n \in Nat,
           floor' = [floor EXCEPT ![s] = n]
    PROVE  floor' \in [1..MaxSubs -> Nat]
BY DEF HistoryInv

\* What the three leave behind, request by request.
BilledNext(r) ==
    req' = [req EXCEPT ![r].pc = "number", ![r].sub = Nothing, ![r].at = 0]

LEMMA BilledNextKeeps ==
    ASSUME RequestsInv, Ids \subseteq Ids', NEW r \in Requests, At(r, "apply"),
           BilledNext(r)
    PROVE  /\ RequestsInv' /\ req'[r].pc = "number"
           /\ req'[r].kind = req[r].kind /\ req[r].kind \in PortalKinds
           /\ req'[r].customer = req[r].customer /\ req[r].customer \in Customers
           /\ \A x \in Requests \ {r} : req'[x] = req[x]
<1> DEFINE q == [req[r] EXCEPT !.pc = "number", !.sub = Nothing, !.at = 0]
<1>1. req[r] \in RequestRow /\ Fits(req[r], Ids) /\ req[r].pc = "apply"
  BY DEF RequestsInv, At
<1>2. q \in RequestRow /\ q.pc = "number" /\ q.kind = req[r].kind
      /\ q.customer = req[r].customer /\ q.charge = req[r].charge
  BY <1>1 DEF RequestRow, Working
<1>3. req[r].kind \in PortalKinds /\ req[r].customer \in Customers
  BY <1>1 DEF Fits, RequestRow, Working
<1>4. Fits(q, Ids')
  BY <1>1, <1>2, <1>3 DEF Fits, Working, PortalKinds
<1>5. req' = [req EXCEPT ![r] = q]
  BY DEF BilledNext, RequestsInv
<1> QED
  BY <1>2, <1>3, <1>4, <1>5, RequestKeeps

\* The steps of the portal that write no row but the request's own.
LEMMA RequestOnly ==
    ASSUME TypeInv, NEW r \in Requests, NEW q \in RequestRow, Fits(q, Ids),
           req' = [req EXCEPT ![r] = q],
           UNCHANGED <<rows, today, gen, rem, history>>
    PROVE  TypeInv'
<1>1. RowsInv' /\ Ids' = Ids /\ BooksInv' /\ GeneratorInv' /\ ReminderInv'
  BY RowsSame, BooksSame, GeneratorSame, ReminderSame DEF TypeInv, rows
<1>2. Fits(q, Ids')
  BY <1>1
<1>3. RequestsInv'
  BY <1>1, <1>2, RequestKeeps DEF TypeInv
<1>4. HistoryInv'
  BY DEF TypeInv, HistoryInv, history
<1> QED
  BY <1>1, <1>3, <1>4 DEF TypeInv

\* The expiry is written, and the request goes on to its invoice.
LEMMA MoveTypes ==
    ASSUME TypeInv, NEW r \in Requests, At(r, "apply"), BilledNext(r),
           Give(req[r].customer), RowsInv', Ids \subseteq Ids',
           floor' \in [1..MaxSubs -> Nat],
           UNCHANGED <<invoices, payments, receipts>>, Unmoved
    PROVE  TypeInv'
<1>1. RequestsInv' /\ req[r].customer \in Customers
  BY BilledNextKeeps DEF TypeInv
<1>2. BooksInv' /\ GeneratorInv' /\ ReminderInv'
  BY BooksSame, GeneratorSame, ReminderSame DEF TypeInv, Unmoved
<1>3. HistoryInv'
  BY <1>1, GivenKeeps DEF TypeInv, HistoryInv, Unmoved
<1> QED
  BY <1>1, <1>2, <1>3 DEF TypeInv

\* What a request to change or renew has read.
LEMMA SubIs ==
    ASSUME TypeInv, NEW r \in Requests, At(r, "apply"), req[r].kind # "add"
    PROVE  /\ req[r].sub \in SeenRow /\ req[r].sub.id \in Ids
           /\ req[r].sub.id \in 1..MaxSubs
           /\ Row(req[r].sub.id) \in Sub /\ Row(req[r].sub.id).id = req[r].sub.id
           /\ req[r].at \in Nat /\ Month \in Nat
<1>1. req[r] \in RequestRow /\ req[r].sub \in SeenRow /\ req[r].sub.id \in Ids
  BY DEF TypeInv, RequestsInv, Fits, At
<1> QED
  BY <1>1, IdsBound, RowIs, RenewalsAssumption DEF TypeInv, RequestRow

LEMMA RenewTypes ==
    ASSUME TypeInv, NEW r \in Requests, Renew(r)
    PROVE  TypeInv'
<1> DEFINE s == req[r].sub
           e == Later(s.expires, req[r].at) + Month
           t == [Row(s.id) EXCEPT !.expires = e]
<1>1. /\ At(r, "apply") /\ req[r].kind = "renew" /\ Put(t)
      /\ floor' = [floor EXCEPT ![s.id] = Later(@, req[r].at) + Month]
      /\ Give(req[r].customer) /\ BilledNext(r)
      /\ UNCHANGED <<invoices, payments, receipts>> /\ Unmoved
  BY DEF Renew, BilledNext
<1>2. /\ s \in SeenRow /\ s.id \in Ids /\ s.id \in 1..MaxSubs
      /\ Row(s.id) \in Sub /\ Row(s.id).id = s.id
      /\ req[r].at \in Nat /\ Month \in Nat
  BY <1>1, SubIs
<1>3. s.expires \in Nat
  BY <1>2 DEF SeenRow
<1>4. e \in Nat
  <2>1. Later(s.expires, req[r].at) \in Nat
    BY <1>2, <1>3, LaterIs
  <2> QED BY <1>2, <2>1
<1>5. t \in Sub /\ t.id = s.id
  BY <1>2, <1>4 DEF Sub
<1>6. RowsInv' /\ Ids' = Ids
  BY <1>1, <1>2, <1>5, PutKeeps DEF TypeInv
<1>7. floor[s.id] \in Nat
  BY <1>2 DEF TypeInv, HistoryInv
<1>8. Later(floor[s.id], req[r].at) + Month \in Nat
  <2>1. Later(floor[s.id], req[r].at) \in Nat
    BY <1>2, <1>7, LaterIs
  <2> QED BY <1>2, <2>1
<1>9. floor' \in [1..MaxSubs -> Nat]
  BY <1>1, <1>2, <1>8, FloorKeeps DEF TypeInv
<1> QED
  BY <1>1, <1>6, <1>9, MoveTypes

LEMMA ChangePlanTypes ==
    ASSUME TypeInv, NEW r \in Requests, ChangePlan(r)
    PROVE  TypeInv'
<1> DEFINE s == req[r].sub
           t == [Row(s.id) EXCEPT !.expires = req[r].at + Month]
<1>1. /\ At(r, "apply") /\ req[r].kind = "change" /\ Put(t)
      /\ floor' = [floor EXCEPT ![s.id] = req[r].at + Month]
      /\ Give(req[r].customer) /\ BilledNext(r)
      /\ UNCHANGED <<invoices, payments, receipts>> /\ Unmoved
  BY DEF ChangePlan, BilledNext
<1>2. /\ s.id \in Ids /\ s.id \in 1..MaxSubs
      /\ Row(s.id) \in Sub /\ Row(s.id).id = s.id
      /\ req[r].at \in Nat /\ Month \in Nat
  BY <1>1, SubIs
<1>3. req[r].at + Month \in Nat
  BY <1>2
<1>4. t \in Sub /\ t.id = s.id
  BY <1>2, <1>3 DEF Sub
<1>5. RowsInv' /\ Ids' = Ids
  BY <1>1, <1>2, <1>4, PutKeeps DEF TypeInv
<1>6. floor' \in [1..MaxSubs -> Nat]
  BY <1>1, <1>2, <1>3, FloorKeeps DEF TypeInv
<1> QED
  BY <1>1, <1>5, <1>6, MoveTypes

LEMMA AddPlanTypes ==
    ASSUME TypeInv, NEW r \in Requests, AddPlan(r)
    PROVE  TypeInv'
<1> DEFINE id == Last(Ids) + 1
           t == [id |-> id, customer |-> req[r].customer,
                 expires |-> req[r].at + Month, cancelled |-> FALSE,
                 reminded |-> 0]
<1>1. /\ At(r, "apply") /\ req[r].kind = "add"
      /\ Cardinality(subs) < MaxSubs /\ subs' = subs \cup {t}
      /\ floor' = [floor EXCEPT ![id] = req[r].at + Month]
      /\ Give(req[r].customer) /\ BilledNext(r)
      /\ UNCHANGED <<invoices, payments, receipts>> /\ Unmoved
  BY DEF AddPlan, BilledNext
<1>2. /\ req[r].at \in Nat /\ Month \in Nat /\ req[r].customer \in Customers
  BY <1>1, RenewalsAssumption DEF TypeInv, RequestsInv, RequestRow, Fits, At, Working
<1>3. id \in Nat \ {0}
  <2>1. Cardinality(subs) \in Nat /\ Ids = 1..Cardinality(subs)
    BY FS_CardinalityType DEF TypeInv, RowsInv
  <2>2. Last(Ids) = Cardinality(subs)
    BY <2>1, CappedInterval
  <2> QED BY <2>1, <2>2
<1>4. t \in Sub /\ t.id = id
  BY <1>2, <1>3 DEF Sub
<1>5. RowsInv' /\ Ids \subseteq Ids' /\ id \in 1..MaxSubs
  BY <1>1, <1>4, AddKeeps DEF TypeInv
<1>6. req[r].at + Month \in Nat
  BY <1>2
<1>7. floor' \in [1..MaxSubs -> Nat]
  BY <1>1, <1>5, <1>6, FloorKeeps DEF TypeInv
<1> QED
  BY <1>1, <1>5, <1>7, MoveTypes

LEMMA AskActionTypes ==
    ASSUME TypeInv, NEW r \in Requests, NEW c \in Customers,
           NEW charge \in Charges, NEW kind \in PortalKinds,
           AskAction(r, c, kind, charge)
    PROVE  TypeInv'
<1>1. PICK s \in SubsOf(c) :
         req' = [req EXCEPT ![r] = [IdleRequest EXCEPT
                   !.pc = "apply", !.kind = kind, !.customer = c,
                   !.sub = IF kind = "add" THEN Nothing ELSE Seen(s),
                   !.charge = charge, !.at = today]]
  BY DEF AskAction
<1> DEFINE q == [IdleRequest EXCEPT
                   !.pc = "apply", !.kind = kind, !.customer = c,
                   !.sub = IF kind = "add" THEN Nothing ELSE Seen(s),
                   !.charge = charge, !.at = today]
<1>2. req' = [req EXCEPT ![r] = q]
  BY <1>1
<1>3. Seen(s) \in SeenRow /\ Seen(s).id \in Ids /\ today \in Nat
  BY DEF TypeInv, HistoryInv, RowsInv, SubsOf, Seen, SeenRow, Sub, Ids
<1>4. /\ q \in RequestRow
      /\ q.pc = "apply" /\ q.kind = kind /\ q.customer = c /\ q.charge = charge
      /\ kind # "add" => q.sub = Seen(s)
  BY <1>3, IdleRequestIs DEF RequestRow, PortalKinds, Working
<1>5. Fits(q, Ids)
  BY <1>3, <1>4 DEF Fits, PortalKinds, Working
<1> QED
  BY <1>2, <1>4, <1>5, RequestOnly DEF AskAction

LEMMA ReadInvoiceNumberTypes ==
    ASSUME TypeInv, NEW r \in Requests, ReadInvoiceNumber(r)
    PROVE  TypeInv'
<1> DEFINE q == [req[r] EXCEPT !.pc = "invoice", !.last = LastInvoice]
<1>1. req[r] \in RequestRow /\ Fits(req[r], Ids) /\ req[r].pc = "number"
      /\ LastInvoice \in Nat
  BY LastInvoiceIs DEF TypeInv, RequestsInv, At, ReadInvoiceNumber
<1>2. req' = [req EXCEPT ![r] = q]
  BY DEF ReadInvoiceNumber, TypeInv, RequestsInv
<1>3. q \in RequestRow
  BY <1>1 DEF RequestRow, Working
<1>4. Fits(q, Ids)
  BY <1>1 DEF RequestRow, Fits, Working
<1> QED
  BY <1>2, <1>3, <1>4, RequestOnly DEF ReadInvoiceNumber

LEMMA CreatePaidInvoiceTypes ==
    ASSUME TypeInv, NEW r \in Requests, CreatePaidInvoice(r)
    PROVE  TypeInv'
<1> DEFINE n == req[r].last + 1
           i == [number |-> n, customer |-> req[r].customer, status |-> "PAID"]
           q == [req[r] EXCEPT !.pc = "payment", !.number = n, !.last = 0]
<1>1. /\ req[r] \in RequestRow /\ Fits(req[r], Ids) /\ req[r].pc = "invoice"
      /\ req[r].kind # "checkout" /\ ~Taken(n) /\ invoices' = invoices \cup {i}
      /\ UNCHANGED <<subs, payments, receipts, today, gen, rem, history>>
  BY DEF TypeInv, RequestsInv, At, CreatePaidInvoice
<1>2. req' = [req EXCEPT ![r] = q]
  BY DEF CreatePaidInvoice, TypeInv, RequestsInv
<1>3. n \in Nat \ {0} /\ req[r].customer \in Customers
  BY <1>1 DEF RequestRow, Fits, Working
<1>4. q \in RequestRow
  BY <1>1, <1>3 DEF RequestRow, Working
<1>5. Fits(q, Ids)
  BY <1>1 DEF RequestRow, Fits, Working
<1>6. RowsInv' /\ Ids' = Ids /\ GeneratorInv' /\ ReminderInv'
  BY <1>1, RowsSame, GeneratorSame, ReminderSame DEF TypeInv
<1>7. Fits(q, Ids')
  BY <1>5, <1>6
<1>8. RequestsInv'
  BY <1>2, <1>4, <1>6, <1>7, RequestKeeps DEF TypeInv
<1>9. i \in Invoice /\ i.number = n
  BY <1>3 DEF Invoice
<1>10. BooksInv'
  BY <1>1, <1>9, InvoiceKeeps DEF TypeInv
<1>11. HistoryInv'
  BY <1>1 DEF TypeInv, HistoryInv, history
<1> QED
  BY <1>6, <1>8, <1>10, <1>11 DEF TypeInv

LEMMA CreatePaymentTypes ==
    ASSUME TypeInv, NEW r \in Requests, CreatePayment(r)
    PROVE  TypeInv'
<1> DEFINE p == [charge |-> req[r].charge, invoice |-> req[r].number]
           q == [req[r] EXCEPT !.pc = "receipt"]
<1>1. /\ req[r] \in RequestRow /\ Fits(req[r], Ids) /\ req[r].pc = "payment"
      /\ payments' = payments \cup {p}
      /\ UNCHANGED <<subs, invoices, receipts, today, gen, rem, history>>
  BY DEF TypeInv, RequestsInv, At, CreatePayment
<1>2. req' = [req EXCEPT ![r] = q]
  BY DEF CreatePayment, Go, TypeInv, RequestsInv
<1>3. q \in RequestRow
  BY <1>1 DEF RequestRow, Working
<1>4. req[r].kind \in PortalKinds /\ req[r].charge \in Charges
      /\ req[r].number \in Nat
  BY <1>1 DEF RequestRow, Fits, Working
<1>5. Fits(q, Ids)
  BY <1>1 DEF RequestRow, Fits, Working
<1>6. RowsInv' /\ Ids' = Ids /\ GeneratorInv' /\ ReminderInv'
  BY <1>1, RowsSame, GeneratorSame, ReminderSame DEF TypeInv
<1>7. Fits(q, Ids')
  BY <1>5, <1>6
<1>8. RequestsInv'
  BY <1>2, <1>3, <1>6, <1>7, RequestKeeps DEF TypeInv
<1>9. BooksInv'
  BY <1>1, <1>4 DEF TypeInv, BooksInv
<1>10. HistoryInv'
  BY <1>1 DEF TypeInv, HistoryInv, history
<1> QED
  BY <1>6, <1>8, <1>9, <1>10 DEF TypeInv

LEMMA ReadReceiptNumberTypes ==
    ASSUME TypeInv, NEW r \in Requests, ReadReceiptNumber(r)
    PROVE  TypeInv'
<1> DEFINE n == Last({x.number : x \in receipts})
           q == [req[r] EXCEPT !.pc = "receive", !.last = n]
<1>1. req[r] \in RequestRow /\ Fits(req[r], Ids) /\ req[r].pc = "receipt"
      /\ n \in Nat
  BY LastReceiptIs DEF TypeInv, RequestsInv, At, ReadReceiptNumber
<1>2. req' = [req EXCEPT ![r] = q]
  BY DEF ReadReceiptNumber, TypeInv, RequestsInv
<1>3. q \in RequestRow
  BY <1>1 DEF RequestRow, Working
<1>4. Fits(q, Ids)
  BY <1>1 DEF RequestRow, Fits, Working
<1> QED
  BY <1>2, <1>3, <1>4, RequestOnly DEF ReadReceiptNumber

\* A request that ends.
LEMMA EndIs ==
    ASSUME RequestsInv, NEW r \in Requests, NEW pc \in Ended, NEW n \in Nat,
           End(r, pc, n)
    PROVE  \E q \in RequestRow :
              /\ req' = [req EXCEPT ![r] = q]
              /\ q.pc = pc /\ q.kind = req[r].kind
              /\ q.customer = req[r].customer /\ q.number = n
              /\ pc = "done" => q.charge = req[r].charge
              /\ Fits(q, Ids)
<1> DEFINE q == [IdleRequest EXCEPT
                   !.pc = pc, !.kind = req[r].kind,
                   !.customer = req[r].customer,
                   !.charge = IF pc = "done" THEN req[r].charge ELSE Nothing,
                   !.number = n]
<1>1. req' = [req EXCEPT ![r] = q]
  BY DEF End
<1>2. /\ q \in RequestRow /\ q.pc = pc /\ q.kind = req[r].kind
      /\ q.customer = req[r].customer /\ q.number = n
      /\ pc = "done" => q.charge = req[r].charge
  BY IdleRequestIs DEF RequestsInv, RequestRow
<1>3. Fits(q, Ids)
  BY <1>2 DEF Fits, Working, Ended
<1> QED BY <1>1, <1>2, <1>3

LEMMA CreateReceiptTypes ==
    ASSUME TypeInv, NEW r \in Requests, CreateReceipt(r)
    PROVE  TypeInv'
<1> DEFINE n == req[r].last + 1
           x == [number |-> n, invoice |-> req[r].number]
<1>1. /\ req[r] \in RequestRow
      /\ receipts' = receipts \cup {x} /\ End(r, "done", req[r].number)
      /\ UNCHANGED <<subs, invoices, payments, today, gen, rem, history>>
  BY DEF TypeInv, RequestsInv, CreateReceipt
<1>2. req[r].number \in Nat /\ req[r].last \in Nat
  BY <1>1 DEF RequestRow
<1>3. PICK q \in RequestRow : req' = [req EXCEPT ![r] = q] /\ Fits(q, Ids)
  BY <1>1, <1>2, EndIs DEF TypeInv, Ended
<1>4. RowsInv' /\ Ids' = Ids /\ GeneratorInv' /\ ReminderInv'
  BY <1>1, RowsSame, GeneratorSame, ReminderSame DEF TypeInv
<1>5. Fits(q, Ids')
  BY <1>3, <1>4
<1>6. RequestsInv'
  BY <1>3, <1>4, <1>5, RequestKeeps DEF TypeInv
<1>7. x \in [number : Nat \ {0}, invoice : Nat]
  BY <1>2
<1>8. BooksInv'
  BY <1>1, <1>7, ReceiptKeeps DEF TypeInv
<1>9. HistoryInv'
  BY <1>1 DEF TypeInv, HistoryInv, history
<1> QED
  BY <1>4, <1>6, <1>8, <1>9 DEF TypeInv

LEMMA BreakTypes ==
    ASSUME TypeInv, NEW r \in Requests, Break(r)
    PROVE  TypeInv'
<1>1. BrokenAt(req[r].pc) \in Ended /\ End(r, BrokenAt(req[r].pc), 0)
      /\ UNCHANGED <<rows, today, gen, rem, history>>
  BY DEF BrokenAt, Ended, Break
<1>2. PICK q \in RequestRow : req' = [req EXCEPT ![r] = q] /\ Fits(q, Ids)
  BY <1>1, EndIs DEF TypeInv
<1> QED
  BY <1>1, <1>2, RequestOnly

LEMMA BeginCheckoutTypes ==
    ASSUME TypeInv, NEW r \in Requests, NEW c \in Customers, BeginCheckout(r, c)
    PROVE  TypeInv'
<1> DEFINE q == [IdleRequest EXCEPT
                   !.pc = "number", !.kind = "checkout", !.customer = c,
                   !.seen = Cardinality(invoices)]
<1>1. req' = [req EXCEPT ![r] = q]
  BY DEF BeginCheckout
<1>2. Cardinality(invoices) \in Nat
  BY FS_CardinalityType DEF TypeInv, BooksInv
<1>3. /\ q \in RequestRow
      /\ q.pc = "number" /\ q.kind = "checkout" /\ q.customer = c
  BY <1>2, IdleRequestIs DEF RequestRow, Working
<1>4. Fits(q, Ids)
  BY <1>3 DEF Fits, Working, PortalKinds
<1> QED
  BY <1>1, <1>3, <1>4, RequestOnly DEF BeginCheckout

LEMMA IssueInvoiceTypes ==
    ASSUME TypeInv, NEW r \in Requests, IssueInvoice(r)
    PROVE  TypeInv'
<1> DEFINE n == req[r].last + 1 + req[r].attempt
           i == [number |-> n, customer |-> req[r].customer, status |-> "ISSUED"]
<1>1. /\ req[r] \in RequestRow /\ Fits(req[r], Ids) /\ req[r].pc = "invoice"
      /\ ~Taken(n) /\ invoices' = invoices \cup {i} /\ End(r, "done", n)
      /\ UNCHANGED <<subs, payments, receipts, today, gen, rem, history>>
  BY DEF TypeInv, RequestsInv, At, IssueInvoice
<1>2. n \in Nat \ {0} /\ req[r].customer \in Customers
  BY <1>1 DEF RequestRow, Fits, Working
<1>3. PICK q \in RequestRow : req' = [req EXCEPT ![r] = q] /\ Fits(q, Ids)
  BY <1>1, <1>2, EndIs DEF TypeInv, Ended
<1>4. RowsInv' /\ Ids' = Ids /\ GeneratorInv' /\ ReminderInv'
  BY <1>1, RowsSame, GeneratorSame, ReminderSame DEF TypeInv
<1>5. Fits(q, Ids')
  BY <1>3, <1>4
<1>6. RequestsInv'
  BY <1>3, <1>4, <1>5, RequestKeeps DEF TypeInv
<1>7. i \in Invoice /\ i.number = n
  BY <1>2 DEF Invoice
<1>8. BooksInv'
  BY <1>1, <1>7, InvoiceKeeps DEF TypeInv
<1>9. HistoryInv'
  BY <1>1 DEF TypeInv, HistoryInv, history
<1> QED
  BY <1>4, <1>6, <1>8, <1>9 DEF TypeInv

LEMMA TryNextNumberTypes ==
    ASSUME TypeInv, NEW r \in Requests, TryNextNumber(r)
    PROVE  TypeInv'
<1> DEFINE pc == IF req[r].attempt + 1 < Tries THEN "number" ELSE "gaveUp"
           q == [req[r] EXCEPT !.pc = pc, !.attempt = @ + 1]
<1>1. req[r] \in RequestRow /\ Fits(req[r], Ids) /\ req[r].pc = "invoice"
  BY DEF TypeInv, RequestsInv, At, TryNextNumber
<1>2. req' = [req EXCEPT ![r] = q]
  BY DEF TryNextNumber, TypeInv, RequestsInv
<1>3. req[r].attempt + 1 \in Nat /\ pc \in {"number", "gaveUp"}
  BY <1>1 DEF RequestRow
<1>4. q \in RequestRow
  BY <1>1, <1>3 DEF RequestRow, Working, Ended
<1>5. Fits(q, Ids)
  BY <1>1, <1>3 DEF RequestRow, Fits, Working
<1> QED
  BY <1>2, <1>4, <1>5, RequestOnly DEF TryNextNumber

LEMMA CancelTypes ==
    ASSUME TypeInv, NEW s \in subs, Cancel(s)
    PROVE  TypeInv'
<1> DEFINE t == [s EXCEPT !.cancelled = TRUE]
<1>1. /\ s \in Sub /\ s.id \in Ids /\ Put(t)
      /\ UNCHANGED <<invoices, payments, receipts, today, gen, rem, req, history>>
  BY DEF TypeInv, RowsInv, Ids, Cancel
<1>2. t \in Sub /\ t.id = s.id
  BY <1>1 DEF Sub
<1>3. RowsInv' /\ Ids' = Ids
  BY <1>1, <1>2, PutKeeps DEF TypeInv
<1>4. BooksInv' /\ GeneratorInv' /\ ReminderInv' /\ RequestsInv'
  BY <1>1, <1>3, BooksSame, GeneratorSame, ReminderSame, RequestsSame DEF TypeInv
<1>5. HistoryInv'
  BY <1>1 DEF TypeInv, HistoryInv, history
<1> QED
  BY <1>3, <1>4, <1>5 DEF TypeInv

LEMMA NextDayTypes == TypeInv /\ NextDay => TypeInv'
<1> SUFFICES ASSUME TypeInv, NextDay PROVE TypeInv'
  OBVIOUS
<1>1. UNCHANGED <<rows, gen, rem, req, history>> /\ today' = today + 1
  BY DEF NextDay
<1>2. RowsInv' /\ Ids' = Ids /\ BooksInv'
  BY <1>1, RowsSame, BooksSame DEF TypeInv, rows
<1>3. GeneratorInv' /\ ReminderInv' /\ RequestsInv'
  BY <1>1, <1>2, GeneratorSame, ReminderSame, RequestsSame DEF TypeInv
<1>4. HistoryInv'
  BY <1>1 DEF TypeInv, HistoryInv, history
<1> QED
  BY <1>2, <1>3, <1>4 DEF TypeInv

LEMMA StutterTypes == TypeInv /\ UNCHANGED vars => TypeInv'
<1> SUFFICES ASSUME TypeInv, UNCHANGED vars PROVE TypeInv'
  OBVIOUS
<1>1. RowsInv' /\ Ids' = Ids /\ BooksInv'
  BY RowsSame, BooksSame DEF TypeInv, vars, rows
<1>2. GeneratorInv' /\ ReminderInv' /\ RequestsInv'
  BY <1>1, GeneratorSame, ReminderSame, RequestsSame DEF TypeInv, vars
<1>3. HistoryInv'
  BY DEF TypeInv, HistoryInv, vars, history
<1> QED
  BY <1>1, <1>2, <1>3 DEF TypeInv

\* Every step of a request.
LEMMA RequestTypes ==
    ASSUME TypeInv, NEW r \in Requests, Portal(r) \/ Checkout(r)
    PROVE  TypeInv'
BY AskActionTypes, RenewTypes, ChangePlanTypes, AddPlanTypes,
   ReadInvoiceNumberTypes, CreatePaidInvoiceTypes, CreatePaymentTypes,
   ReadReceiptNumberTypes, CreateReceiptTypes, BreakTypes, BeginCheckoutTypes,
   IssueInvoiceTypes, TryNextNumberTypes DEF Portal, Checkout, PortalKinds

LEMMA StepTypes == TypeInv /\ [Next]_vars => TypeInv'
BY GeneratorTypes, ReminderTypes, NextDayTypes, RequestTypes, CancelTypes,
   StutterTypes DEF Next, Finished

-------------------------------------------------------------------------------
(***************************************************************************)
(* What each step of a request does to it.                                 *)
(***************************************************************************)

Others(r) == \A x \in Requests \ {r} : req'[x] = req[x]

LEMMA AskActionDoes ==
    ASSUME TypeInv, NEW r \in Requests, NEW c \in Customers,
           NEW charge \in Charges, NEW kind \in PortalKinds,
           AskAction(r, c, kind, charge)
    PROVE  req[r].pc = "idle" /\ req'[r].pc = "apply" /\ Others(r)
BY IdleRequestIs DEF AskAction, At, TypeInv, RequestsInv, RequestRow, Others

LEMMA MovesDo ==
    ASSUME TypeInv, NEW r \in Requests, Renew(r) \/ ChangePlan(r) \/ AddPlan(r)
    PROVE  /\ req[r].pc = "apply" /\ req'[r].pc = "number" /\ Others(r)
           /\ req'[r].kind = req[r].kind /\ req[r].kind \in PortalKinds
           /\ req'[r].customer = req[r].customer /\ req[r].customer \in Customers
           /\ Give(req[r].customer)
           /\ UNCHANGED <<invoices, payments, receipts>> /\ Unmoved
<1>1. /\ At(r, "apply") /\ BilledNext(r) /\ Give(req[r].customer)
      /\ UNCHANGED <<invoices, payments, receipts>> /\ Unmoved
  BY DEF Renew, ChangePlan, AddPlan, BilledNext
<1>2. Ids \subseteq Ids'
  <2>1. CASE Renew(r)
    <3> DEFINE t == [Row(req[r].sub.id) EXCEPT
                       !.expires = Later(req[r].sub.expires, req[r].at) + Month]
    <3>1. Put(t) /\ req[r].kind # "add"
      BY <2>1 DEF Renew
    <3>2. t.id = req[r].sub.id /\ req[r].sub.id \in Ids
      BY <1>1, <3>1, SubIs DEF Sub
    <3>3. t \in subs' /\ \A x \in subs : x.id # t.id => x \in subs'
      BY <3>1 DEF Put
    <3> QED BY <3>2, <3>3 DEF Ids
  <2>2. CASE ChangePlan(r)
    <3> DEFINE t == [Row(req[r].sub.id) EXCEPT !.expires = req[r].at + Month]
    <3>1. Put(t) /\ req[r].kind # "add"
      BY <2>2 DEF ChangePlan
    <3>2. t.id = req[r].sub.id /\ req[r].sub.id \in Ids
      BY <1>1, <3>1, SubIs DEF Sub
    <3>3. t \in subs' /\ \A x \in subs : x.id # t.id => x \in subs'
      BY <3>1 DEF Put
    <3> QED BY <3>2, <3>3 DEF Ids
  <2>3. CASE AddPlan(r)
    <3>1. subs \subseteq subs'
      BY <2>3 DEF AddPlan
    <3> QED BY <3>1 DEF Ids
  <2> QED BY <2>1, <2>2, <2>3
<1>3. req[r].pc = "apply"
  BY <1>1 DEF At
<1> QED
  BY <1>1, <1>2, <1>3, BilledNextKeeps DEF TypeInv, Others

LEMMA ReadInvoiceNumberDoes ==
    ASSUME TypeInv, NEW r \in Requests, ReadInvoiceNumber(r)
    PROVE  /\ req[r].pc = "number" /\ req'[r].pc = "invoice" /\ Others(r)
           /\ req'[r].kind = req[r].kind /\ req'[r].customer = req[r].customer
           /\ req'[r].attempt = req[r].attempt /\ req'[r].seen = req[r].seen
           /\ req'[r].last = LastInvoice
BY DEF ReadInvoiceNumber, At, TypeInv, RequestsInv, RequestRow, Others

LEMMA CreatePaidInvoiceDoes ==
    ASSUME TypeInv, NEW r \in Requests, CreatePaidInvoice(r)
    PROVE  /\ req[r].pc = "invoice" /\ req[r].kind # "checkout"
           /\ req'[r].pc = "payment" /\ req'[r].kind = req[r].kind /\ Others(r)
BY DEF CreatePaidInvoice, At, TypeInv, RequestsInv, RequestRow, Others

LEMMA CreatePaymentDoes ==
    ASSUME TypeInv, NEW r \in Requests, CreatePayment(r)
    PROVE  /\ req[r].pc = "payment" /\ req'[r].pc = "receipt" /\ Others(r)
           /\ req'[r].kind = req[r].kind /\ req'[r].charge = req[r].charge
           /\ req'[r].number = req[r].number
BY DEF CreatePayment, Go, At, TypeInv, RequestsInv, RequestRow, Others

LEMMA ReadReceiptNumberDoes ==
    ASSUME TypeInv, NEW r \in Requests, ReadReceiptNumber(r)
    PROVE  /\ req[r].pc = "receipt" /\ req'[r].pc = "receive" /\ Others(r)
           /\ req'[r].kind = req[r].kind /\ req'[r].charge = req[r].charge
           /\ req'[r].number = req[r].number
BY DEF ReadReceiptNumber, At, TypeInv, RequestsInv, RequestRow, Others

LEMMA EndDoes ==
    ASSUME TypeInv, NEW r \in Requests, NEW pc \in Ended, NEW n \in Nat,
           End(r, pc, n)
    PROVE  /\ req'[r].pc = pc /\ req'[r].kind = req[r].kind
           /\ req'[r].customer = req[r].customer /\ req'[r].number = n
           /\ pc = "done" => req'[r].charge = req[r].charge
           /\ Others(r)
<1>1. PICK q \in RequestRow :
              /\ req' = [req EXCEPT ![r] = q]
              /\ q.pc = pc /\ q.kind = req[r].kind
              /\ q.customer = req[r].customer /\ q.number = n
              /\ pc = "done" => q.charge = req[r].charge
  BY EndIs DEF TypeInv
<1> QED
  BY <1>1 DEF TypeInv, RequestsInv, Others

LEMMA CreateReceiptDoes ==
    ASSUME TypeInv, NEW r \in Requests, CreateReceipt(r)
    PROVE  /\ req[r].pc = "receive" /\ req'[r].pc = "done" /\ Others(r)
           /\ req'[r].kind = req[r].kind /\ req'[r].charge = req[r].charge
           /\ req'[r].number = req[r].number
           /\ \E x \in receipts' : x.invoice = req[r].number
<1>1. req[r].number \in Nat
  BY DEF TypeInv, RequestsInv, RequestRow
<1>2. End(r, "done", req[r].number) /\ req[r].pc = "receive"
  BY DEF CreateReceipt, At
<1>3. [number |-> req[r].last + 1, invoice |-> req[r].number] \in receipts'
  BY DEF CreateReceipt
<1> QED
  BY <1>1, <1>2, <1>3, EndDoes DEF Ended

LEMMA BreakDoes ==
    ASSUME TypeInv, NEW r \in Requests, Break(r)
    PROVE  /\ req[r].pc \in Working
           /\ req'[r].pc = BrokenAt(req[r].pc) /\ Others(r)
           /\ req'[r].pc \in {"broken", "brokenUnbilled", "brokenBilled"}
           /\ req'[r].kind = req[r].kind /\ req'[r].customer = req[r].customer
<1>1. /\ BrokenAt(req[r].pc) \in {"broken", "brokenUnbilled", "brokenBilled"}
      /\ BrokenAt(req[r].pc) \in Ended
      /\ End(r, BrokenAt(req[r].pc), 0)
  BY DEF BrokenAt, Ended, Break
<1>2. req[r].pc \in Working
  BY DEF TypeInv, RequestsInv, RequestRow, Break, At, Over, Ended
<1> QED
  BY <1>1, <1>2, EndDoes

LEMMA BeginCheckoutDoes ==
    ASSUME TypeInv, NEW r \in Requests, NEW c \in Customers, BeginCheckout(r, c)
    PROVE  /\ req[r].pc = "idle" /\ req'[r].pc = "number" /\ Others(r)
           /\ req'[r].kind = "checkout"
           /\ req'[r].attempt = 0 /\ req'[r].seen = Cardinality(invoices)
<1>1. IdleRequest.attempt = 0
  BY DEF IdleRequest
<1> QED
  BY <1>1, IdleRequestIs
     DEF BeginCheckout, At, TypeInv, RequestsInv, RequestRow, Others

LEMMA IssueInvoiceDoes ==
    ASSUME TypeInv, NEW r \in Requests, IssueInvoice(r)
    PROVE  /\ req[r].pc = "invoice" /\ req[r].kind = "checkout"
           /\ req'[r].pc = "done" /\ req'[r].kind = "checkout" /\ Others(r)
<1> DEFINE n == req[r].last + 1 + req[r].attempt
<1>1. n \in Nat
  BY DEF TypeInv, RequestsInv, RequestRow
<1>2. End(r, "done", n) /\ req[r].pc = "invoice" /\ req[r].kind = "checkout"
  BY DEF IssueInvoice, At
<1> QED
  BY <1>1, <1>2, EndDoes DEF Ended

LEMMA TryNextNumberDoes ==
    ASSUME TypeInv, NEW r \in Requests, TryNextNumber(r)
    PROVE  /\ req[r].pc = "invoice" /\ req[r].kind = "checkout"
           /\ req'[r].pc = IF req[r].attempt + 1 < Tries
                             THEN "number" ELSE "gaveUp"
           /\ req'[r].kind = "checkout" /\ Others(r)
           /\ req'[r].attempt = req[r].attempt + 1 /\ req'[r].seen = req[r].seen
BY DEF TryNextNumber, At, TypeInv, RequestsInv, RequestRow, Others

-------------------------------------------------------------------------------
(***************************************************************************)
(* A charge is booked once.                                                *)
(***************************************************************************)

BookedAt(q) == q.kind # "checkout" /\ q.pc \in {"receipt", "receive", "done"}

\* The request that moved is not among the booked ones.
LEMMA ChargesElse ==
    ASSUME ChargesInv, NEW r \in Requests, Others(r), ~BookedAt(req'[r]),
           payments \subseteq payments', receipts \subseteq receipts'
    PROVE  ChargesInv'
<1>1. Booked' \subseteq Booked \ {r}
  BY DEF Booked, BookedAt, Others
<1>2. \A x \in Booked' : x \in Booked /\ req'[x] = req[x]
  BY <1>1 DEF Booked, Others
<1> QED
  BY <1>2 DEF ChargesInv

\* The request that moved was booked already.
LEMMA ChargesStay ==
    ASSUME ChargesInv, NEW r \in Booked, Others(r),
           req'[r].kind = req[r].kind, req'[r].charge = req[r].charge,
           req'[r].number = req[r].number,
           req'[r].pc = "done" => \E x \in receipts' : x.invoice = req[r].number,
           payments \subseteq payments', receipts \subseteq receipts'
    PROVE  ChargesInv'
<1>1. \A x \in Booked' : /\ x \in Booked
                         /\ req'[x].charge = req[x].charge
                         /\ req'[x].number = req[x].number
                         /\ x # r => req'[x] = req[x]
  BY DEF Booked, Others
<1> QED
  BY <1>1 DEF ChargesInv

LEMMA ChargesSame ==
    ChargesInv /\ UNCHANGED <<req, payments, receipts>> => ChargesInv'
BY DEF ChargesInv, Booked

LEMMA ChargesOfRequest ==
    ASSUME TypeInv, ChargesInv, NEW r \in Requests, Portal(r) \/ Checkout(r)
    PROVE  ChargesInv'
<1>1. ASSUME NEW c \in Customers, NEW charge \in Charges,
             NEW kind \in PortalKinds, AskAction(r, c, kind, charge)
      PROVE  ChargesInv'
  <2>1. req'[r].pc = "apply" /\ Others(r)
    BY <1>1, AskActionDoes
  <2>2. UNCHANGED rows
    BY <1>1 DEF AskAction
  <2> QED BY <2>1, <2>2, ChargesElse DEF BookedAt, rows
<1>2. CASE Renew(r) \/ ChangePlan(r) \/ AddPlan(r)
  BY <1>2, MovesDo, ChargesElse DEF BookedAt
<1>3. CASE ReadInvoiceNumber(r)
  BY <1>3, ReadInvoiceNumberDoes, ChargesElse DEF BookedAt, ReadInvoiceNumber, rows
<1>4. CASE CreatePaidInvoice(r)
  BY <1>4, CreatePaidInvoiceDoes, ChargesElse DEF BookedAt, CreatePaidInvoice
<1>5. CASE CreatePayment(r)
  <2>1. /\ req'[r].pc = "receipt" /\ Others(r) /\ req'[r].charge = req[r].charge
        /\ req'[r].number = req[r].number
    BY <1>5, CreatePaymentDoes
  <2>2. /\ \A p \in payments : p.charge # req[r].charge
        /\ [charge |-> req[r].charge, invoice |-> req[r].number] \in payments'
        /\ payments \subseteq payments' /\ receipts' = receipts
    BY <1>5 DEF CreatePayment
  <2>3. \A x \in Booked : req[x].charge # req[r].charge
    BY <2>2 DEF ChargesInv
  <2>4. \A x \in Booked' : x # r => x \in Booked /\ req'[x] = req[x]
    BY <2>1 DEF Booked, Others
  <2> QED BY <2>1, <2>2, <2>3, <2>4 DEF ChargesInv
<1>6. CASE ReadReceiptNumber(r)
  <2>1. /\ req[r].pc = "receipt" /\ req'[r].pc = "receive" /\ Others(r)
        /\ req'[r].kind = req[r].kind /\ req'[r].charge = req[r].charge
        /\ req'[r].number = req[r].number
    BY <1>6, ReadReceiptNumberDoes
  <2>2. r \in Booked
    BY <2>1 DEF Booked, TypeInv, RequestsInv, Fits, Working
  <2> QED BY <1>6, <2>1, <2>2, ChargesStay DEF ReadReceiptNumber, rows
<1>7. CASE CreateReceipt(r)
  <2>1. /\ req[r].pc = "receive" /\ req'[r].pc = "done" /\ Others(r)
        /\ req'[r].kind = req[r].kind /\ req'[r].charge = req[r].charge
        /\ req'[r].number = req[r].number
        /\ \E x \in receipts' : x.invoice = req[r].number
    BY <1>7, CreateReceiptDoes
  <2>2. r \in Booked
    BY <2>1 DEF Booked, TypeInv, RequestsInv, Fits, Working
  <2> QED BY <1>7, <2>1, <2>2, ChargesStay DEF CreateReceipt
<1>8. CASE Break(r)
  BY <1>8, BreakDoes, ChargesElse DEF BookedAt, Break, rows
<1>9. ASSUME NEW c \in Customers, BeginCheckout(r, c) PROVE ChargesInv'
  BY <1>9, BeginCheckoutDoes, ChargesElse DEF BookedAt, BeginCheckout, rows
<1>10. CASE IssueInvoice(r)
  BY <1>10, IssueInvoiceDoes, ChargesElse DEF BookedAt, IssueInvoice
<1>11. CASE TryNextNumber(r)
  BY <1>11, TryNextNumberDoes, ChargesElse DEF BookedAt, TryNextNumber, rows
<1> QED
  BY <1>1, <1>2, <1>3, <1>4, <1>5, <1>6, <1>7, <1>8, <1>9, <1>10, <1>11
     DEF Portal, Checkout, PortalKinds

\* The jobs, a cancellation and the next day leave requests and books of the
\* portal alone.
LEMMA ElsewhereSame ==
    ASSUME Generator \/ Reminder \/ NextDay \/ UNCHANGED vars
           \/ \E s \in subs : Cancel(s)
    PROVE  UNCHANGED <<req, payments, receipts>>
BY DEF Generator, StartGenerator, ReadNumber, Bill, GeneratorFails,
   RetryGenerator, EndGenerator, Reminder, StartReminder, SendReminder,
   StampReminder, ReminderFails, RetryReminder, EndReminder, NextDay, Cancel,
   vars, rows

LEMMA StepCharges == TypeInv /\ ChargesInv /\ [Next]_vars => ChargesInv'
BY ChargesOfRequest, ChargesSame, ElsewhereSame DEF Next, Finished

-------------------------------------------------------------------------------
(***************************************************************************)
(* A checkout gives up in a crowd only.                                    *)
(***************************************************************************)

CrowdOf(r) ==
    /\ req[r].pc \in {"number", "invoice"} /\ req[r].kind = "checkout" =>
          Lost(r) <= Cardinality(invoices)
    /\ req[r].pc = "invoice" /\ req[r].kind = "checkout" =>
          Lost(r) <= Cardinality({i \in invoices : i.number <= req[r].last})
    /\ req[r].pc = "gaveUp" =>
          /\ Lost(r) <= Cardinality(invoices)
          /\ req[r].attempt >= Tries

\* Invoices are added, one at a time or none.
More == invoices \subseteq invoices' /\ IsFiniteSet(invoices')

\* What was there is still there.
LEMMA CrowdGrows ==
    ASSUME More, NEW n
    PROVE  /\ Cardinality(invoices) \in Nat /\ Cardinality(invoices') \in Nat
           /\ Cardinality(invoices) <= Cardinality(invoices')
           /\ Cardinality({i \in invoices : i.number <= n}) \in Nat
           /\ Cardinality({i \in invoices' : i.number <= n}) \in Nat
           /\ Cardinality({i \in invoices : i.number <= n})
                 <= Cardinality({i \in invoices' : i.number <= n})
<1> DEFINE S == {i \in invoices : i.number <= n}
           T == {i \in invoices' : i.number <= n}
<1>1. /\ IsFiniteSet(invoices) /\ IsFiniteSet(invoices')
      /\ Cardinality(invoices) <= Cardinality(invoices')
  BY FS_Subset DEF More
<1>2. T \in SUBSET invoices' /\ S \in SUBSET T
  BY DEF More
<1>3. IsFiniteSet(T)
  BY <1>1, <1>2, FS_Subset
<1>4. IsFiniteSet(S) /\ Cardinality(S) <= Cardinality(T)
  BY <1>2, <1>3, FS_Subset
<1> QED
  BY <1>1, <1>3, <1>4, FS_CardinalityType

LEMMA LostIs ==
    ASSUME RequestsInv, NEW r \in Requests
    PROVE  Lost(r) \in Nat /\ req[r].attempt \in Nat /\ req[r].seen \in Nat
BY DEF RequestsInv, RequestRow, Lost

\* A request that does not move keeps its crowd.
LEMMA CrowdStays ==
    ASSUME RequestsInv, More, NEW r \in Requests, CrowdOf(r), req'[r] = req[r]
    PROVE  CrowdOf(r)'
<1>1. Lost(r)' = Lost(r) /\ Lost(r) \in Nat
  BY LostIs DEF Lost
<1>2. /\ Cardinality(invoices) \in Nat /\ Cardinality(invoices') \in Nat
      /\ Cardinality(invoices) <= Cardinality(invoices')
  BY CrowdGrows
<1> DEFINE n == req[r].last
<1>3. /\ Cardinality({i \in invoices : i.number <= n}) \in Nat
      /\ Cardinality({i \in invoices' : i.number <= n}) \in Nat
      /\ Cardinality({i \in invoices : i.number <= n})
            <= Cardinality({i \in invoices' : i.number <= n})
  BY CrowdGrows
<1>4. CrowdOf(r) =>
        /\ req[r].pc \in {"number", "invoice"} /\ req[r].kind = "checkout" =>
              Lost(r) <= Cardinality(invoices')
        /\ req[r].pc = "invoice" /\ req[r].kind = "checkout" =>
              Lost(r) <= Cardinality({i \in invoices' : i.number <= n})
        /\ req[r].pc = "gaveUp" =>
              Lost(r) <= Cardinality(invoices') /\ req[r].attempt >= Tries
  BY <1>1, <1>2, <1>3 DEF CrowdOf
<1> QED
  BY <1>1, <1>4 DEF CrowdOf

\* A step of one request, after which that request has its crowd.
LEMMA CrowdOthers ==
    ASSUME RequestsInv, CrowdInv, More, NEW r \in Requests, Others(r), CrowdOf(r)'
    PROVE  CrowdInv'
<1>1. ASSUME NEW x \in Requests \ {r} PROVE CrowdOf(x)'
  BY CrowdStays DEF CrowdInv, CrowdOf, Others
<1>2. \A x \in Requests : CrowdOf(x)'
  BY <1>1
<1> QED
  BY <1>2 DEF CrowdInv, CrowdOf

LEMMA CrowdSame ==
    ASSUME RequestsInv, CrowdInv, More, req' = req
    PROVE  CrowdInv'
<1>1. \A x \in Requests : CrowdOf(x)'
  BY CrowdStays DEF CrowdInv, CrowdOf
<1> QED
  BY <1>1 DEF CrowdInv, CrowdOf

\* A request that is no checkout, or tries no more.
LEMMA CrowdElse ==
    ASSUME RequestsInv, CrowdInv, More, NEW r \in Requests, Others(r),
           req'[r].pc # "gaveUp",
           req'[r].kind # "checkout" \/ req'[r].pc \notin {"number", "invoice"}
    PROVE  CrowdInv'
BY CrowdOthers DEF CrowdOf

\* Every step adds invoices, or leaves them.
LEMMA InvoicesStay == [Next]_vars => invoices \subseteq invoices'
BY DEF Next, Finished, Generator, StartGenerator, ReadNumber, Bill,
   GeneratorFails, RetryGenerator, EndGenerator, Reminder, StartReminder,
   SendReminder, StampReminder, ReminderFails, RetryReminder, EndReminder,
   NextDay, Cancel, Portal, AskAction, Renew, ChangePlan, AddPlan,
   ReadInvoiceNumber, CreatePaidInvoice, CreatePayment, ReadReceiptNumber,
   CreateReceipt, Break, Checkout, BeginCheckout, IssueInvoice, TryNextNumber,
   vars, rows

LEMMA CrowdOfRequest ==
    ASSUME TypeInv, TypeInv', CrowdInv, More, NEW r \in Requests,
           Portal(r) \/ Checkout(r)
    PROVE  CrowdInv'
<1>0. RequestsInv /\ RequestsInv' /\ Tries \in Nat
  BY RenewalsAssumption DEF TypeInv
<1>1. ASSUME NEW c \in Customers, NEW charge \in Charges,
             NEW kind \in PortalKinds, AskAction(r, c, kind, charge)
      PROVE  CrowdInv'
  <2>1. req'[r].pc = "apply" /\ Others(r)
    BY <1>1, AskActionDoes
  <2> QED BY <1>0, <2>1, CrowdElse
<1>2. CASE Renew(r) \/ ChangePlan(r) \/ AddPlan(r)
  <2>1. /\ req'[r].pc = "number" /\ Others(r) /\ req'[r].kind = req[r].kind
        /\ req[r].kind \in PortalKinds
    BY <1>2, MovesDo
  <2> QED BY <1>0, <2>1, CrowdElse DEF PortalKinds
<1>3. CASE ReadInvoiceNumber(r)
  <2>1. /\ req[r].pc = "number" /\ req'[r].pc = "invoice" /\ Others(r)
        /\ req'[r].kind = req[r].kind
        /\ req'[r].attempt = req[r].attempt /\ req'[r].seen = req[r].seen
        /\ req'[r].last = LastInvoice
    BY <1>3, ReadInvoiceNumberDoes
  <2>2. Lost(r)' = Lost(r) /\ invoices' = invoices
    BY <1>3, <2>1 DEF Lost, ReadInvoiceNumber, rows
  <2>3. req[r].kind = "checkout" => Lost(r) <= Cardinality(invoices)
    BY <2>1 DEF CrowdInv
  <2>4. {i \in invoices : i.number <= LastInvoice} = invoices
    BY LastInvoiceIs DEF TypeInv
  <2>5. CrowdOf(r)'
    BY <2>1, <2>2, <2>3, <2>4 DEF CrowdOf
  <2> QED BY <1>0, <2>1, <2>5, CrowdOthers
<1>4. CASE CreatePaidInvoice(r)
  <2>1. req'[r].pc = "payment" /\ Others(r)
    BY <1>4, CreatePaidInvoiceDoes
  <2> QED BY <1>0, <2>1, CrowdElse
<1>5. CASE CreatePayment(r)
  <2>1. req'[r].pc = "receipt" /\ Others(r)
    BY <1>5, CreatePaymentDoes
  <2> QED BY <1>0, <2>1, CrowdElse
<1>6. CASE ReadReceiptNumber(r)
  <2>1. req'[r].pc = "receive" /\ Others(r)
    BY <1>6, ReadReceiptNumberDoes
  <2> QED BY <1>0, <2>1, CrowdElse
<1>7. CASE CreateReceipt(r)
  <2>1. req'[r].pc = "done" /\ Others(r)
    BY <1>7, CreateReceiptDoes
  <2> QED BY <1>0, <2>1, CrowdElse
<1>8. CASE Break(r)
  <2>1. req'[r].pc \in {"broken", "brokenUnbilled", "brokenBilled"} /\ Others(r)
    BY <1>8, BreakDoes
  <2> QED BY <1>0, <2>1, CrowdElse
<1>9. ASSUME NEW c \in Customers, BeginCheckout(r, c) PROVE CrowdInv'
  <2>1. /\ req'[r].pc = "number" /\ Others(r)
        /\ req'[r].attempt = 0 /\ req'[r].seen = Cardinality(invoices)
    BY <1>9, BeginCheckoutDoes
  <2>2. invoices' = invoices /\ Cardinality(invoices) \in Nat
    BY <1>9, FS_CardinalityType DEF BeginCheckout, rows, TypeInv, BooksInv
  <2>3. Lost(r)' <= Cardinality(invoices')
    BY <2>1, <2>2 DEF Lost
  <2>4. CrowdOf(r)'
    BY <2>1, <2>3 DEF CrowdOf
  <2> QED BY <1>0, <2>1, <2>4, CrowdOthers
<1>10. CASE IssueInvoice(r)
  <2>1. req'[r].pc = "done" /\ Others(r)
    BY <1>10, IssueInvoiceDoes
  <2> QED BY <1>0, <2>1, CrowdElse
<1>11. CASE TryNextNumber(r)
  <2>1. /\ req[r].pc = "invoice" /\ req[r].kind = "checkout"
        /\ req'[r].pc = IF req[r].attempt + 1 < Tries
                          THEN "number" ELSE "gaveUp"
        /\ req'[r].kind = "checkout" /\ Others(r)
        /\ req'[r].attempt = req[r].attempt + 1 /\ req'[r].seen = req[r].seen
    BY <1>11, TryNextNumberDoes
  <2>2. /\ invoices' = invoices
        /\ Taken(req[r].last + 1 + req[r].attempt)
    BY <1>11 DEF TryNextNumber, rows
  <2>3. /\ Lost(r) \in Nat /\ Lost(r)' = Lost(r) + 1
        /\ req[r].attempt \in Nat /\ req[r].last \in Nat
    BY <1>0, <2>1, LostIs DEF Lost, RequestsInv, RequestRow
  <2> DEFINE S == {i \in invoices : i.number <= req[r].last}
  <2>4. Lost(r) <= Cardinality(S)
    BY <2>1 DEF CrowdInv
  <2>5. PICK i \in invoices : i.number = req[r].last + 1 + req[r].attempt
    BY <2>2 DEF Taken
  <2>6. ~(i.number <= req[r].last)
    BY <2>3, <2>5
  <2>7. /\ S \in SUBSET invoices /\ S # invoices /\ IsFiniteSet(invoices)
        /\ i \notin S
    BY <2>6 DEF TypeInv, BooksInv
  <2>8. /\ Cardinality(S) \in Nat /\ Cardinality(invoices) \in Nat
        /\ Cardinality(S) <= Cardinality(invoices)
        /\ Cardinality(S) # Cardinality(invoices)
    BY <2>7, FS_Subset, FS_CardinalityType
  <2>9. Lost(r)' <= Cardinality(invoices')
    BY <2>2, <2>3, <2>4, <2>8
  <2>10. req'[r].pc = "gaveUp" => req'[r].attempt >= Tries
    BY <1>0, <2>1, <2>3
  <2>11. CrowdOf(r)'
    BY <2>1, <2>9, <2>10 DEF CrowdOf
  <2> QED BY <1>0, <2>1, <2>11, CrowdOthers
<1> QED
  BY <1>1, <1>2, <1>3, <1>4, <1>5, <1>6, <1>7, <1>8, <1>9, <1>10, <1>11
     DEF Portal, Checkout, PortalKinds

LEMMA StepCrowd == TypeInv /\ TypeInv' /\ CrowdInv /\ [Next]_vars => CrowdInv'
<1> SUFFICES ASSUME TypeInv, TypeInv', CrowdInv, [Next]_vars PROVE CrowdInv'
  OBVIOUS
<1>1. More
  BY InvoicesStay DEF TypeInv, BooksInv, More
<1>2. RequestsInv
  BY DEF TypeInv
<1>3. CASE \E r \in Requests : Portal(r) \/ Checkout(r)
  BY <1>1, <1>3, CrowdOfRequest
<1>4. CASE ~\E r \in Requests : Portal(r) \/ Checkout(r)
  <2>1. req' = req
    BY <1>4, ElsewhereSame DEF Next, Finished
  <2> QED BY <1>1, <1>2, <2>1, CrowdSame
<1> QED
  BY <1>3, <1>4

-------------------------------------------------------------------------------
(***************************************************************************)
(* Time that was billed is kept.                                           *)
(***************************************************************************)

LEMMA KeptSame ==
    BilledTimeIsKept /\ UNCHANGED <<subs, floor, clobbered>> => BilledTimeIsKept'
BY DEF BilledTimeIsKept

\* One row is written; its new expiry is what was billed, or it is on record.
LEMMA KeptPut ==
    ASSUME TypeInv, BilledTimeIsKept, NEW t \in Sub, t.id \in Ids, Put(t),
           clobbered \subseteq clobbered',
           \A x \in 1..MaxSubs : x # t.id => floor'[x] = floor[x],
           t.expires < floor'[t.id] => t.id \in clobbered'
    PROVE  BilledTimeIsKept'
<1>1. \A x \in subs' : x = t \/ (x \in subs /\ x.id # t.id)
  BY PutKeeps DEF TypeInv
<1>2. \A x \in subs : x.id \in 1..MaxSubs
  BY IdsBound DEF TypeInv, Ids
<1> QED
  BY <1>1, <1>2 DEF BilledTimeIsKept

\* What is written on the strength of a row that is still the same.
LEMMA NoteIs ==
    ASSUME NEW id, NEW seen, Note(id, seen)
    PROVE  /\ clobbered \subseteq clobbered'
           /\ id \in clobbered' \/ Row(id).expires = seen
BY DEF Note, Overwrites

LEMMA KeptByBill ==
    ASSUME TypeInv, BilledTimeIsKept, Bill
    PROVE  BilledTimeIsKept'
<1> DEFINE s == gen.cur
           t == [Row(s.id) EXCEPT !.expires = s.expires + Month]
<1>1. /\ gen.pc = "bill" /\ Put(t) /\ Note(s.id, s.expires)
      /\ floor' = [floor EXCEPT ![s.id] = @ + Month]
  BY DEF Bill
<1>2. s \in SeenRow /\ s.id \in Ids /\ Month \in Nat
  BY <1>1, RenewalsAssumption DEF TypeInv, GeneratorInv, GeneratorRun
<1>3. Row(s.id) \in subs /\ Row(s.id) \in Sub /\ Row(s.id).id = s.id
  BY <1>2, RowIs DEF TypeInv
<1>4. t \in Sub /\ t.id = s.id /\ t.expires = s.expires + Month
  BY <1>2, <1>3 DEF Sub, SeenRow
<1>5. s.id \in 1..MaxSubs /\ floor \in [1..MaxSubs -> Nat]
  BY <1>2, IdsBound DEF TypeInv, HistoryInv
<1>6. /\ floor'[s.id] = floor[s.id] + Month
      /\ \A x \in 1..MaxSubs : x # s.id => floor'[x] = floor[x]
  BY <1>1, <1>5
<1>7. /\ clobbered \subseteq clobbered'
      /\ s.id \in clobbered' \/ Row(s.id).expires = s.expires
  BY <1>1, NoteIs
<1>8. Row(s.id).expires < floor[s.id] => s.id \in clobbered
  BY <1>3 DEF BilledTimeIsKept
<1>9. t.expires < floor'[s.id] => s.id \in clobbered'
  <2>1. CASE s.id \in clobbered'
    BY <2>1
  <2>2. CASE Row(s.id).expires = s.expires /\ s.id \notin clobbered
    <3>1. s.expires \in Nat /\ floor[s.id] \in Nat /\ ~(s.expires < floor[s.id])
      BY <1>2, <1>5, <1>8, <2>2 DEF SeenRow
    <3> QED BY <1>2, <1>4, <1>6, <3>1
  <2> QED BY <1>7, <2>1, <2>2
<1> QED
  BY <1>1, <1>2, <1>4, <1>6, <1>7, <1>9, KeptPut

LEMMA KeptByStamp ==
    ASSUME TypeInv, BilledTimeIsKept, StampReminder
    PROVE  BilledTimeIsKept'
<1> DEFINE t == [Row(rem.cur) EXCEPT !.reminded = rem.day]
<1>1. rem.pc = "stamp" /\ Put(t) /\ UNCHANGED history
  BY DEF StampReminder
<1>2. rem.cur \in Ids /\ rem.day \in Nat
  BY <1>1 DEF TypeInv, ReminderInv, ReminderRun
<1>3. Row(rem.cur) \in subs /\ Row(rem.cur) \in Sub /\ Row(rem.cur).id = rem.cur
  BY <1>2, RowIs DEF TypeInv
<1>4. t \in Sub /\ t.id = rem.cur /\ t.expires = Row(rem.cur).expires
  BY <1>2, <1>3 DEF Sub
<1>5. t.expires < floor[rem.cur] => rem.cur \in clobbered
  BY <1>3, <1>4 DEF BilledTimeIsKept
<1>6. floor' = floor /\ clobbered' = clobbered
  BY <1>1 DEF history
<1>7. t.expires < floor'[t.id] => t.id \in clobbered'
  BY <1>4, <1>5, <1>6
<1> QED
  BY <1>1, <1>2, <1>4, <1>6, <1>7, KeptPut

LEMMA KeptByCancel ==
    ASSUME TypeInv, BilledTimeIsKept, NEW s \in subs, Cancel(s)
    PROVE  BilledTimeIsKept'
<1> DEFINE t == [s EXCEPT !.cancelled = TRUE]
<1>1. s \in Sub /\ s.id \in Ids /\ Put(t) /\ UNCHANGED history
  BY DEF Cancel, TypeInv, RowsInv, Ids
<1>2. t \in Sub /\ t.id = s.id /\ t.expires = s.expires
  BY <1>1 DEF Sub
<1>3. floor' = floor /\ clobbered' = clobbered
  BY <1>1 DEF history
<1>4. t.expires < floor'[t.id] => t.id \in clobbered'
  BY <1>2, <1>3 DEF BilledTimeIsKept
<1> QED
  BY <1>1, <1>2, <1>3, <1>4, KeptPut

LEMMA KeptByRenew ==
    ASSUME TypeInv, BilledTimeIsKept, NEW r \in Requests, Renew(r)
    PROVE  BilledTimeIsKept'
<1> DEFINE s == req[r].sub
           e == Later(s.expires, req[r].at) + Month
           t == [Row(s.id) EXCEPT !.expires = e]
<1>1. /\ At(r, "apply") /\ req[r].kind = "renew" /\ Put(t)
      /\ floor' = [floor EXCEPT ![s.id] = Later(@, req[r].at) + Month]
      /\ Note(s.id, s.expires)
  BY DEF Renew
<1>2. /\ s \in SeenRow /\ s.id \in Ids /\ s.id \in 1..MaxSubs
      /\ req[r].at \in Nat /\ Month \in Nat
  BY <1>1, SubIs
<1>3. Row(s.id) \in subs /\ Row(s.id) \in Sub /\ Row(s.id).id = s.id
  BY <1>2, RowIs DEF TypeInv
<1>4. s.expires \in Nat /\ floor \in [1..MaxSubs -> Nat] /\ floor[s.id] \in Nat
  BY <1>2 DEF SeenRow, TypeInv, HistoryInv
<1> DEFINE a == Later(s.expires, req[r].at)
           b == Later(floor[s.id], req[r].at)
<1>5. /\ a \in Nat /\ a >= s.expires /\ a >= req[r].at
      /\ b \in Nat /\ b \in {floor[s.id], req[r].at}
  BY <1>2, <1>4, LaterIs
<1>6. t \in Sub /\ t.id = s.id /\ t.expires = e /\ e = a + Month
  <2>1. e = a + Month /\ e \in Nat
    BY <1>2, <1>5
  <2> QED BY <1>3, <2>1 DEF Sub
<1>7. /\ floor'[s.id] = b + Month
      /\ \A x \in 1..MaxSubs : x # s.id => floor'[x] = floor[x]
  BY <1>1, <1>2, <1>4
<1>8. /\ clobbered \subseteq clobbered'
      /\ s.id \in clobbered' \/ Row(s.id).expires = s.expires
  BY <1>1, NoteIs
<1>9. Row(s.id).expires < floor[s.id] => s.id \in clobbered
  BY <1>3 DEF BilledTimeIsKept
<1>10. t.expires < floor'[s.id] => s.id \in clobbered'
  <2>1. CASE s.id \in clobbered'
    BY <2>1
  <2>2. CASE Row(s.id).expires = s.expires /\ s.id \notin clobbered
    <3>1. ~(s.expires < floor[s.id])
      BY <1>9, <2>2
    <3>2. a >= b
      BY <1>2, <1>4, <1>5, <3>1
    <3>3. ~(a + Month < b + Month)
      BY <1>2, <1>5, <3>2
    <3> QED BY <1>6, <1>7, <3>3
  <2> QED BY <1>8, <2>1, <2>2
<1> QED
  BY <1>1, <1>2, <1>6, <1>7, <1>8, <1>10, KeptPut

LEMMA KeptByChangePlan ==
    ASSUME TypeInv, BilledTimeIsKept, NEW r \in Requests, ChangePlan(r)
    PROVE  BilledTimeIsKept'
<1> DEFINE s == req[r].sub
           t == [Row(s.id) EXCEPT !.expires = req[r].at + Month]
<1>1. /\ At(r, "apply") /\ req[r].kind = "change" /\ Put(t)
      /\ floor' = [floor EXCEPT ![s.id] = req[r].at + Month]
      /\ Note(s.id, s.expires)
  BY DEF ChangePlan
<1>2. /\ s.id \in Ids /\ s.id \in 1..MaxSubs
      /\ Row(s.id) \in Sub /\ Row(s.id).id = s.id
      /\ req[r].at \in Nat /\ Month \in Nat
  BY <1>1, SubIs
<1>3. req[r].at + Month \in Nat /\ floor \in [1..MaxSubs -> Nat]
  BY <1>2 DEF TypeInv, HistoryInv
<1>4. t \in Sub /\ t.id = s.id /\ t.expires = req[r].at + Month
  BY <1>2, <1>3 DEF Sub
<1>5. /\ floor'[s.id] = req[r].at + Month
      /\ \A x \in 1..MaxSubs : x # s.id => floor'[x] = floor[x]
  BY <1>1, <1>2, <1>3
<1>6. ~(t.expires < floor'[s.id])
  BY <1>3, <1>4, <1>5
<1>7. clobbered \subseteq clobbered'
  BY <1>1, NoteIs
<1> QED
  BY <1>1, <1>2, <1>4, <1>5, <1>6, <1>7, KeptPut

LEMMA KeptByAddPlan ==
    ASSUME TypeInv, BilledTimeIsKept, NEW r \in Requests, AddPlan(r)
    PROVE  BilledTimeIsKept'
<1> DEFINE id == Last(Ids) + 1
           t == [id |-> id, customer |-> req[r].customer,
                 expires |-> req[r].at + Month, cancelled |-> FALSE,
                 reminded |-> 0]
<1>1. /\ At(r, "apply") /\ Cardinality(subs) < MaxSubs /\ subs' = subs \cup {t}
      /\ floor' = [floor EXCEPT ![id] = req[r].at + Month]
      /\ clobbered' = clobbered
  BY DEF AddPlan
<1>2. /\ req[r].at \in Nat /\ Month \in Nat
  BY RenewalsAssumption DEF TypeInv, RequestsInv, RequestRow
<1>3. /\ Cardinality(subs) \in Nat /\ Ids = 1..Cardinality(subs)
      /\ id = Cardinality(subs) + 1 /\ MaxSubs \in Nat
  <2>1. Cardinality(subs) \in Nat /\ Ids = 1..Cardinality(subs)
    BY FS_CardinalityType DEF TypeInv, RowsInv
  <2>2. Last(Ids) = Cardinality(subs)
    BY <2>1, CappedInterval
  <2> QED BY <2>1, <2>2, RenewalsAssumption
<1>4. id \in 1..MaxSubs /\ id \notin Ids
  BY <1>1, <1>3
<1>5. floor \in [1..MaxSubs -> Nat]
  BY DEF TypeInv, HistoryInv
<1>6. /\ floor'[id] = req[r].at + Month
      /\ \A x \in 1..MaxSubs : x # id => floor'[x] = floor[x]
  BY <1>1, <1>4, <1>5
<1>7. \A x \in subs : x.id \in 1..MaxSubs /\ x.id # id
  BY <1>4, IdsBound DEF TypeInv, Ids
<1>8. t.id = id /\ ~(t.expires < floor'[id])
  <2>1. req[r].at + Month \in Nat
    BY <1>2
  <2> QED BY <1>6, <2>1
<1> QED
  BY <1>1, <1>6, <1>7, <1>8 DEF BilledTimeIsKept

LEMMA StepKept == TypeInv /\ BilledTimeIsKept /\ [Next]_vars => BilledTimeIsKept'
<1> SUFFICES ASSUME TypeInv, BilledTimeIsKept, [Next]_vars
             PROVE  BilledTimeIsKept'
  OBVIOUS
<1>1. \/ UNCHANGED <<subs, floor, clobbered>>
      \/ Bill \/ StampReminder \/ \E s \in subs : Cancel(s)
      \/ \E r \in Requests : Renew(r) \/ ChangePlan(r) \/ AddPlan(r)
  BY DEF Next, Finished, Generator, StartGenerator, ReadNumber,
     GeneratorFails, RetryGenerator, EndGenerator, Reminder, StartReminder,
     SendReminder, ReminderFails, RetryReminder, EndReminder, NextDay, Portal,
     AskAction, ReadInvoiceNumber, CreatePaidInvoice, CreatePayment,
     ReadReceiptNumber, CreateReceipt, Break, Checkout, BeginCheckout,
     IssueInvoice, TryNextNumber, vars, rows, history
<1> QED
  BY <1>1, KeptSame, KeptByBill, KeptByStamp, KeptByCancel, KeptByRenew,
     KeptByChangePlan, KeptByAddPlan

-------------------------------------------------------------------------------
(***************************************************************************)
(* The months that were given are invoiced.                                *)
(***************************************************************************)

\* The customer has been given a month and the request has no invoice for it.
Owes(q, c) ==
    /\ q.customer = c /\ q.kind # "checkout"
    /\ q.pc \in {"number", "invoice", "brokenUnbilled"}

Owing(c) == {r \in Requests : Owes(req[r], c)}
Billed(c) == {i \in invoices : i.customer = c /\ i.status # "ISSUED"}

LEMMA MonthsAre ==
    MonthsAreInvoiced <=>
        \A c \in Customers : given[c] = Cardinality(Billed(c)) + Cardinality(Owing(c))
<1>1. ASSUME NEW c \in Customers
      PROVE  /\ Owing(c) = {r \in Requests :
                               /\ req[r].customer = c
                               /\ req[r].kind # "checkout"
                               /\ req[r].pc \in {"number", "invoice",
                                                 "brokenUnbilled"}}
             /\ Billed(c) = {i \in invoices : /\ i.customer = c
                                              /\ i.status # "ISSUED"}
  BY DEF Owing, Owes, Billed
<1> QED
  BY <1>1 DEF MonthsAreInvoiced

LEMMA MonthsAreNext ==
    MonthsAreInvoiced' <=>
        \A c \in Customers :
            given'[c] = Cardinality(Billed(c)') + Cardinality(Owing(c)')
<1>1. ASSUME NEW c \in Customers
      PROVE  /\ Owing(c)' = {r \in Requests :
                               /\ req'[r].customer = c
                               /\ req'[r].kind # "checkout"
                               /\ req'[r].pc \in {"number", "invoice",
                                                  "brokenUnbilled"}}
             /\ Billed(c)' = {i \in invoices' : /\ i.customer = c
                                               /\ i.status # "ISSUED"}
  BY DEF Owing, Owes, Billed
<1> QED
  BY <1>1 DEF MonthsAreInvoiced

\* What is counted is finite.
LEMMA CountsAre ==
    ASSUME TypeInv, NEW c
    PROVE  /\ IsFiniteSet(Billed(c)) /\ Cardinality(Billed(c)) \in Nat
           /\ IsFiniteSet(Owing(c)) /\ Cardinality(Owing(c)) \in Nat
<1>1. IsFiniteSet(invoices) /\ IsFiniteSet(Requests)
  BY RenewalsAssumption DEF TypeInv, BooksInv
<1>2. Billed(c) \in SUBSET invoices /\ Owing(c) \in SUBSET Requests
  BY DEF Billed, Owing
<1>3. IsFiniteSet(Billed(c)) /\ IsFiniteSet(Owing(c))
  BY <1>1, <1>2, FS_Subset
<1> QED
  BY <1>3, FS_CardinalityType

\* The request that moved owes what it owed.
LEMMA OwingSame ==
    ASSUME NEW r \in Requests, Others(r), NEW c,
           Owes(req'[r], c) <=> Owes(req[r], c)
    PROVE  Owing(c)' = Owing(c)
BY DEF Owing, Others

\* Nobody is given a month, and no invoice but of a checkout is added.
LEMMA MonthsSame ==
    ASSUME MonthsAreInvoiced, given' = given, NEW r \in Requests, Others(r),
           \A c \in Customers : Owes(req'[r], c) <=> Owes(req[r], c),
           \A c \in Customers : Billed(c)' = Billed(c)
    PROVE  MonthsAreInvoiced'
<1>1. \A c \in Customers : Owing(c)' = Owing(c)
  BY OwingSame
<1>2. \A c \in Customers :
         given[c] = Cardinality(Billed(c)) + Cardinality(Owing(c))
  BY MonthsAre
<1>3. \A c \in Customers :
         given'[c] = Cardinality(Billed(c)') + Cardinality(Owing(c)')
  BY <1>1, <1>2
<1> QED
  BY <1>3, MonthsAreNext

LEMMA MonthsElsewhere ==
    ASSUME MonthsAreInvoiced, UNCHANGED <<given, req, invoices>>
    PROVE  MonthsAreInvoiced'
BY DEF MonthsAreInvoiced

\* One invoice more, of customer c.
LEMMA BilledMore ==
    ASSUME TypeInv, NEW i \in Invoice, i \notin invoices,
           invoices' = invoices \cup {i}, i.status # "ISSUED",
           NEW c \in Customers
    PROVE  Cardinality(Billed(c)') =
             IF c = i.customer THEN Cardinality(Billed(c)) + 1
                               ELSE Cardinality(Billed(c))
<1>1. CASE c = i.customer
  <2>1. Billed(c)' = Billed(c) \cup {i} /\ i \notin Billed(c)
    BY <1>1 DEF Billed
  <2> QED BY <1>1, <2>1, CountsAre, FS_AddElement
<1>2. CASE c # i.customer
  <2>1. Billed(c)' = Billed(c)
    BY <1>2 DEF Billed
  <2> QED BY <1>2, <2>1
<1> QED
  BY <1>1, <1>2

LEMMA MonthsByBill ==
    ASSUME TypeInv, MonthsAreInvoiced, Bill
    PROVE  MonthsAreInvoiced'
<1> DEFINE s == gen.cur
           d == Row(s.id).customer
           i == [number |-> gen.last + 1, customer |-> d, status |-> "DRAFT"]
<1>1. /\ gen.pc = "bill" /\ ~Taken(gen.last + 1)
      /\ invoices' = invoices \cup {i} /\ Give(d) /\ req' = req
  BY DEF Bill
<1>2. s.id \in Ids /\ gen.last \in Nat
  BY <1>1 DEF TypeInv, GeneratorInv, GeneratorRun
<1>3. d \in Customers
  BY <1>2, RowIs DEF TypeInv, Sub
<1>4. i \in Invoice /\ i \notin invoices
  BY <1>1, <1>2, <1>3 DEF Invoice, Taken
<1>5. ASSUME NEW c \in Customers
      PROVE  given'[c] = Cardinality(Billed(c)') + Cardinality(Owing(c)')
  <2>1. Owing(c)' = Owing(c)
    BY <1>1 DEF Owing
  <2>2. given[c] = Cardinality(Billed(c)) + Cardinality(Owing(c))
    BY MonthsAre
  <2>3. given'[c] = IF c = d THEN given[c] + 1 ELSE given[c]
    BY <1>1 DEF Give, TypeInv, HistoryInv
  <2>4. Cardinality(Billed(c)') = IF c = d THEN Cardinality(Billed(c)) + 1
                                           ELSE Cardinality(Billed(c))
    BY <1>1, <1>4, BilledMore
  <2>5. Cardinality(Billed(c)) \in Nat /\ Cardinality(Owing(c)) \in Nat
    BY CountsAre
  <2> QED BY <2>1, <2>2, <2>3, <2>4, <2>5
<1> QED
  BY <1>5, MonthsAreNext

LEMMA MonthsByMoves ==
    ASSUME TypeInv, MonthsAreInvoiced, NEW r \in Requests,
           Renew(r) \/ ChangePlan(r) \/ AddPlan(r)
    PROVE  MonthsAreInvoiced'
<1> DEFINE d == req[r].customer
<1>1. /\ req[r].pc = "apply" /\ req'[r].pc = "number" /\ Others(r)
      /\ req'[r].kind = req[r].kind /\ req[r].kind # "checkout"
      /\ req'[r].customer = d /\ d \in Customers /\ Give(d)
      /\ invoices' = invoices
  BY MovesDo DEF PortalKinds
<1>2. ASSUME NEW c \in Customers
      PROVE  given'[c] = Cardinality(Billed(c)') + Cardinality(Owing(c)')
  <2>1. Billed(c)' = Billed(c)
    BY <1>1 DEF Billed
  <2>2. given[c] = Cardinality(Billed(c)) + Cardinality(Owing(c))
    BY MonthsAre
  <2>3. given'[c] = IF c = d THEN given[c] + 1 ELSE given[c]
    BY <1>1 DEF Give, TypeInv, HistoryInv
  <2>4. /\ IsFiniteSet(Owing(c))
        /\ Cardinality(Billed(c)) \in Nat /\ Cardinality(Owing(c)) \in Nat
    BY CountsAre
  <2>5. CASE c = d
    <3>1. Owing(c)' = Owing(c) \cup {r} /\ r \notin Owing(c)
      BY <1>1, <2>5 DEF Owing, Owes, Others
    <3>2. Cardinality(Owing(c)') = Cardinality(Owing(c)) + 1
      BY <2>4, <3>1, FS_AddElement
    <3> QED BY <2>1, <2>2, <2>3, <2>4, <2>5, <3>2
  <2>6. CASE c # d
    <3>1. Owing(c)' = Owing(c)
      BY <1>1, <2>6 DEF Owing, Owes, Others
    <3> QED BY <2>1, <2>2, <2>3, <2>6, <3>1
  <2> QED BY <2>5, <2>6
<1> QED
  BY <1>2, MonthsAreNext

LEMMA MonthsByPaidInvoice ==
    ASSUME TypeInv, MonthsAreInvoiced, NEW r \in Requests, CreatePaidInvoice(r)
    PROVE  MonthsAreInvoiced'
<1> DEFINE d == req[r].customer
           i == [number |-> req[r].last + 1, customer |-> d, status |-> "PAID"]
<1>1. /\ req[r].pc = "invoice" /\ req[r].kind # "checkout"
      /\ req'[r].pc = "payment" /\ Others(r)
  BY CreatePaidInvoiceDoes
<1>2. /\ ~Taken(req[r].last + 1) /\ invoices' = invoices \cup {i}
      /\ given' = given
  BY DEF CreatePaidInvoice, history
<1>3. d \in Customers /\ req[r].last \in Nat
  BY <1>1 DEF TypeInv, RequestsInv, RequestRow, Fits, Working
<1>4. i \in Invoice /\ i \notin invoices
  BY <1>2, <1>3 DEF Invoice, Taken
<1>5. ASSUME NEW c \in Customers
      PROVE  given'[c] = Cardinality(Billed(c)') + Cardinality(Owing(c)')
  <2>1. given[c] = Cardinality(Billed(c)) + Cardinality(Owing(c))
    BY MonthsAre
  <2>2. /\ IsFiniteSet(Owing(c))
        /\ Cardinality(Billed(c)) \in Nat /\ Cardinality(Owing(c)) \in Nat
    BY CountsAre
  <2>3. Cardinality(Billed(c)') = IF c = d THEN Cardinality(Billed(c)) + 1
                                           ELSE Cardinality(Billed(c))
    BY <1>2, <1>4, BilledMore
  <2>4. CASE c = d
    <3>1. Owing(c)' = Owing(c) \ {r} /\ r \in Owing(c)
      BY <1>1, <2>4 DEF Owing, Owes, Others
    <3>2. Cardinality(Owing(c)') = Cardinality(Owing(c)) - 1
      BY <2>2, <3>1, FS_RemoveElement
    <3> QED BY <1>2, <2>1, <2>2, <2>3, <2>4, <3>2
  <2>5. CASE c # d
    <3>1. Owing(c)' = Owing(c)
      BY <1>1, <2>5 DEF Owing, Owes, Others
    <3> QED BY <1>2, <2>1, <2>3, <2>5, <3>1
  <2> QED BY <2>4, <2>5
<1> QED
  BY <1>5, MonthsAreNext

\* The other steps of a request leave what it owes.
LEMMA OwesElse ==
    ASSUME TypeInv, NEW r \in Requests,
           ~(Renew(r) \/ ChangePlan(r) \/ AddPlan(r) \/ CreatePaidInvoice(r)),
           Portal(r) \/ Checkout(r)
    PROVE  Others(r) /\ \A c \in Customers : Owes(req'[r], c) <=> Owes(req[r], c)
<1>1. ASSUME NEW c \in Customers, NEW charge \in Charges,
             NEW kind \in PortalKinds, AskAction(r, c, kind, charge)
      PROVE  Others(r) /\ \A x \in Customers : Owes(req'[r], x) <=> Owes(req[r], x)
  <2>1. req[r].pc = "idle" /\ req'[r].pc = "apply" /\ Others(r)
    BY <1>1, AskActionDoes
  <2> QED BY <2>1 DEF Owes
<1>2. CASE ReadInvoiceNumber(r)
  BY <1>2, ReadInvoiceNumberDoes DEF Owes
<1>3. CASE CreatePayment(r)
  BY <1>3, CreatePaymentDoes DEF Owes
<1>4. CASE ReadReceiptNumber(r)
  BY <1>4, ReadReceiptNumberDoes DEF Owes
<1>5. CASE CreateReceipt(r)
  BY <1>5, CreateReceiptDoes DEF Owes
<1>6. CASE Break(r)
  <2>1. /\ req[r].pc \in Working /\ req'[r].pc = BrokenAt(req[r].pc) /\ Others(r)
        /\ req'[r].kind = req[r].kind /\ req'[r].customer = req[r].customer
    BY <1>6, BreakDoes
  <2>2. BrokenAt(req[r].pc) = "brokenUnbilled" <=> req[r].pc \in {"number", "invoice"}
    BY <2>1 DEF BrokenAt, Working
  <2>3. BrokenAt(req[r].pc) \notin {"number", "invoice"}
    BY DEF BrokenAt
  <2> QED BY <2>1, <2>2, <2>3 DEF Owes, Working
<1>7. ASSUME NEW c \in Customers, BeginCheckout(r, c)
      PROVE  Others(r) /\ \A x \in Customers : Owes(req'[r], x) <=> Owes(req[r], x)
  <2>1. /\ req[r].pc = "idle" /\ req'[r].kind = "checkout" /\ Others(r)
    BY <1>7, BeginCheckoutDoes
  <2> QED BY <2>1 DEF Owes
<1>8. CASE IssueInvoice(r)
  BY <1>8, IssueInvoiceDoes DEF Owes
<1>9. CASE TryNextNumber(r)
  BY <1>9, TryNextNumberDoes DEF Owes
<1> QED
  BY <1>1, <1>2, <1>3, <1>4, <1>5, <1>6, <1>7, <1>8, <1>9
     DEF Portal, Checkout, PortalKinds

LEMMA BilledElse ==
    ASSUME TypeInv, NEW r \in Requests,
           ~(Renew(r) \/ ChangePlan(r) \/ AddPlan(r) \/ CreatePaidInvoice(r)),
           Portal(r) \/ Checkout(r)
    PROVE  given' = given /\ \A c \in Customers : Billed(c)' = Billed(c)
<1>1. CASE IssueInvoice(r)
  <2> DEFINE i == [number |-> req[r].last + 1 + req[r].attempt,
                   customer |-> req[r].customer, status |-> "ISSUED"]
  <2>1. invoices' = invoices \cup {i} /\ i.status = "ISSUED" /\ given' = given
    BY <1>1 DEF IssueInvoice, history
  <2> QED BY <2>1 DEF Billed
<1>2. CASE ~IssueInvoice(r)
  <2>1. invoices' = invoices /\ given' = given
    BY <1>2 DEF Portal, Checkout, AskAction, ReadInvoiceNumber, CreatePayment,
       ReadReceiptNumber, CreateReceipt, Break, BeginCheckout, TryNextNumber,
       rows, history
  <2> QED BY <2>1 DEF Billed
<1> QED
  BY <1>1, <1>2

LEMMA StepMonths == TypeInv /\ MonthsAreInvoiced /\ [Next]_vars => MonthsAreInvoiced'
<1> SUFFICES ASSUME TypeInv, MonthsAreInvoiced, [Next]_vars
             PROVE  MonthsAreInvoiced'
  OBVIOUS
<1>1. CASE Bill
  BY <1>1, MonthsByBill
<1>2. ASSUME NEW r \in Requests, Portal(r) \/ Checkout(r)
      PROVE  MonthsAreInvoiced'
  <2>1. CASE Renew(r) \/ ChangePlan(r) \/ AddPlan(r)
    BY <2>1, MonthsByMoves
  <2>2. CASE CreatePaidInvoice(r)
    BY <2>2, MonthsByPaidInvoice
  <2>3. CASE ~(Renew(r) \/ ChangePlan(r) \/ AddPlan(r) \/ CreatePaidInvoice(r))
    BY <1>2, <2>3, OwesElse, BilledElse, MonthsSame
  <2> QED BY <2>1, <2>2, <2>3
<1>3. CASE /\ ~Bill
           /\ \/ Generator \/ Reminder \/ NextDay \/ UNCHANGED vars
              \/ \E s \in subs : Cancel(s)
  <2>1. UNCHANGED <<given, req, invoices>>
    BY <1>3 DEF Generator, StartGenerator, ReadNumber, GeneratorFails,
       RetryGenerator, EndGenerator, Reminder, StartReminder, SendReminder,
       StampReminder, ReminderFails, RetryReminder, EndReminder, NextDay,
       Cancel, vars, rows, history
  <2> QED BY <2>1, MonthsElsewhere
<1> QED
  BY <1>1, <1>2, <1>3 DEF Next, Finished

-------------------------------------------------------------------------------
(***************************************************************************)
(* One reminder a day, and one more for each run that was cut.             *)
(***************************************************************************)

\* When the reminder has no run, no mail is on record.
LEMMA MailsIdle ==
    ASSUME TypeInv', rem'.pc = "idle", rem'.list = {},
           mails' = [s \in 1..MaxSubs |-> 0], cutMails' = 0
    PROVE  MailsInv'
<1>1. \A s \in subs' : s.id \in 1..MaxSubs
  <2>1. (Ids \subseteq 1..MaxSubs)'
    BY IdsBound, PTL DEF TypeInv
  <2> QED BY <2>1 DEF Ids
<1> QED
  BY <1>1 DEF MailsInv

\* While it has one, nobody else moves.
LEMMA ElsewhereIdle ==
    ASSUME TypeInv, MailsInv,
           \/ Generator \/ NextDay \/ \E s \in subs : Cancel(s)
           \/ \E r \in Requests : Portal(r) \/ Checkout(r)
    PROVE  rem.pc = "idle" /\ UNCHANGED <<rem, mails, cutMails>>
<1>1. CASE Generator
  <2>1. UNCHANGED <<rem, mails, cutMails>>
    BY <1>1 DEF Generator, StartGenerator, ReadNumber, Bill, GeneratorFails,
       RetryGenerator, EndGenerator, history
  <2>2. gen.pc # "idle" \/ gen.day < today
    BY <1>1 DEF Generator, StartGenerator, ReadNumber, Bill, GeneratorFails,
       RetryGenerator, EndGenerator
  <2>3. gen.day \in Nat /\ today \in Nat
    BY DEF TypeInv, GeneratorInv, GeneratorRun, HistoryInv
  <2> QED BY <2>1, <2>2, <2>3 DEF MailsInv
<1>2. CASE NextDay \/ \E s \in subs : Cancel(s)
  BY <1>2 DEF NextDay, Cancel, history
<1>3. ASSUME NEW r \in Requests, Portal(r) \/ Checkout(r)
      PROVE  rem.pc = "idle" /\ UNCHANGED <<rem, mails, cutMails>>
  <2>1. UNCHANGED <<rem, mails, cutMails>>
    BY <1>3 DEF Portal, Checkout, AskAction, Renew, ChangePlan, AddPlan,
       ReadInvoiceNumber, CreatePaidInvoice, CreatePayment, ReadReceiptNumber,
       CreateReceipt, Break, BeginCheckout, IssueInvoice, TryNextNumber,
       Unmoved, history
  <2>2. rem.pc = "idle" \/ ~(At(r, "idle") \/ Over(r))
    BY <1>3 DEF Portal, Checkout, AskAction, Renew, ChangePlan, AddPlan,
       ReadInvoiceNumber, CreatePaidInvoice, CreatePayment, ReadReceiptNumber,
       CreateReceipt, Break, BeginCheckout, IssueInvoice, TryNextNumber,
       At, Over
  <2> QED BY <2>1, <2>2 DEF MailsInv
<1> QED
  BY <1>1, <1>2, <1>3

\* The reminder's own steps.
LEMMA MailsByReminder ==
    ASSUME TypeInv, TypeInv', MailsInv, Reminder
    PROVE  MailsInv'
<1>0. /\ rem \in ReminderRun /\ mails \in [1..MaxSubs -> Nat]
      /\ cutMails \in Nat /\ today \in Nat
      /\ \A s \in subs : s.id \in 1..MaxSubs /\ s.reminded \in Nat
  BY IdsBound DEF TypeInv, ReminderInv, HistoryInv, RowsInv, Sub, Ids
<1>1. CASE StartReminder
  <2>1. /\ rem.pc = "idle" /\ gen.pc = "idle" /\ gen.day = today
        /\ \A r \in Requests : At(r, "idle") \/ Over(r)
        /\ UNCHANGED <<rows, today, gen, req, history>>
    BY <1>1 DEF StartReminder
  <2>2. rem'.pc = "loop" /\ rem'.list = Expiring /\ rem'.day = today
    BY <1>1 DEF StartReminder, IdleJob
  <2>3. subs' = subs /\ mails' = [s \in 1..MaxSubs |-> 0] /\ cutMails' = 0
    BY <2>1 DEF rows, history, MailsInv
  <2>4. \A s \in subs : s.id \in Expiring => s.reminded < today
    BY ExpiringIs DEF TypeInv
  <2>5. \A r \in Requests : At(r, "idle")' \/ Over(r)'
    BY <2>1 DEF At, Over
  <2> QED BY <1>0, <2>1, <2>2, <2>3, <2>4, <2>5 DEF MailsInv
<1>2. CASE SendReminder
  <2>1. PICK s \in rem.list :
          \/ /\ rem' = [rem EXCEPT !.pc = "stamp", !.cur = s]
             /\ mails' = [mails EXCEPT ![s] = @ + 1]
          \/ /\ rem' = [rem EXCEPT !.list = @ \ {s}]
             /\ UNCHANGED mails
    BY <1>2 DEF SendReminder
  <2>2. rem.pc = "loop" /\ UNCHANGED <<subs, today, gen, req, cutMails>>
    BY <1>2 DEF SendReminder, rows
  <2>3. /\ rem.day = today /\ gen.pc = "idle" /\ gen.day = today
        /\ \A r \in Requests : At(r, "idle")' \/ Over(r)'
    BY <2>2 DEF MailsInv, At, Over
  <2>4. \A x \in subs : x.reminded < today => mails[x.id] <= cutMails
    BY <2>2 DEF MailsInv
  <2>5. \A x \in subs : x.id \in rem.list => x.reminded < today
    BY DEF MailsInv
  <2>6. CASE /\ rem' = [rem EXCEPT !.pc = "stamp", !.cur = s]
             /\ mails' = [mails EXCEPT ![s] = @ + 1]
    <3>1. PICK x \in subs : x.id = s
      BY DEF TypeInv, ReminderInv, Ids
    <3>2. s \in 1..MaxSubs /\ mails[s] <= cutMails
      BY <1>0, <2>4, <2>5, <3>1
    <3>3. /\ rem'.pc = "stamp" /\ rem'.cur = s /\ rem'.list = rem.list
          /\ rem'.day = today
      BY <1>0, <2>3, <2>6 DEF ReminderRun
    <3>4. /\ mails'[s] <= 1 + cutMails
          /\ \A y \in 1..MaxSubs : y # s => mails'[y] = mails[y]
      BY <1>0, <2>6, <3>2
    <3>5. \A y \in 1..MaxSubs : mails'[y] <= 1 + cutMails
      BY <3>4 DEF MailsInv
    <3>6. \A y \in subs : y.reminded < today /\ y.id # s => mails'[y.id] <= cutMails
      BY <1>0, <2>4, <3>4
    <3> QED BY <2>2, <2>3, <2>5, <3>3, <3>5, <3>6 DEF MailsInv
  <2>7. CASE rem' = [rem EXCEPT !.list = @ \ {s}] /\ UNCHANGED mails
    <3>1. /\ rem'.pc = "loop" /\ rem'.list = rem.list \ {s} /\ rem'.day = today
      BY <1>0, <2>2, <2>3, <2>7 DEF ReminderRun
    <3>2. \A y \in 1..MaxSubs : mails'[y] <= 1 + cutMails
      BY <2>7 DEF MailsInv
    <3> QED BY <2>2, <2>3, <2>4, <2>5, <2>7, <3>1, <3>2 DEF MailsInv
  <2> QED BY <2>1, <2>6, <2>7
<1>3. CASE StampReminder
  <2> DEFINE t == [Row(rem.cur) EXCEPT !.reminded = rem.day]
  <2>1. /\ rem.pc = "stamp" /\ Put(t)
        /\ rem' = [rem EXCEPT !.pc = "loop", !.list = @ \ {rem.cur},
                              !.cur = Nothing]
        /\ UNCHANGED <<today, gen, req, mails, cutMails>>
    BY <1>3 DEF StampReminder, history
  <2>2. /\ rem.day = today /\ gen.pc = "idle" /\ gen.day = today
        /\ \A r \in Requests : At(r, "idle")' \/ Over(r)'
    BY <2>1 DEF MailsInv, At, Over
  <2>3. rem.cur \in Ids
    BY <2>1 DEF TypeInv, ReminderInv
  <2>4. t \in Sub /\ t.id = rem.cur /\ t.reminded = today
    BY <1>0, <2>2, <2>3, RowIs DEF TypeInv, Sub
  <2>5. \A x \in subs' : x = t \/ (x \in subs /\ x.id # rem.cur)
    BY <2>1, <2>3, <2>4, PutKeeps DEF TypeInv
  <2>6. rem'.pc = "loop" /\ rem'.list = rem.list \ {rem.cur} /\ rem'.day = today
    BY <1>0, <2>1, <2>2 DEF ReminderRun
  <2>7. ~(t.reminded < today)
    BY <1>0, <2>4
  <2>8. \A x \in subs' : x.id \in rem'.list => x.reminded < today
    BY <2>4, <2>5, <2>6 DEF MailsInv
  <2>9. \A x \in subs' : x.reminded < today => mails[x.id] <= cutMails
    BY <2>5, <2>7 DEF MailsInv
  <2>10. \A y \in 1..MaxSubs : mails[y] <= 1 + cutMails
    BY DEF MailsInv
  <2> QED BY <2>1, <2>2, <2>6, <2>8, <2>9, <2>10 DEF MailsInv
<1>4. CASE ReminderFails
  <2>1. /\ rem' = Again(rem) /\ rem.pc \in {"loop", "stamp"}
        /\ UNCHANGED <<subs, today, gen, req>>
    BY <1>4 DEF ReminderFails, rows
  <2>2. /\ rem'.list = {} /\ rem'.pc \in {"idle", "retry"} /\ rem'.day = rem.day
    BY <1>0, <2>1, AgainIs
  <2>3. CASE rem'.pc = "idle"
    <3>1. ForgetMails
      BY <1>4, <2>3 DEF ReminderFails
    <3> QED BY <2>2, <2>3, <3>1, MailsIdle DEF ForgetMails
  <2>4. CASE rem'.pc = "retry"
    <3>1. /\ cutMails' = IF rem.pc = "stamp" THEN cutMails + 1 ELSE cutMails
          /\ mails' = mails
      BY <1>4, <2>4 DEF ReminderFails
    <3>2. /\ rem.day = today /\ gen.pc = "idle" /\ gen.day = today
          /\ \A r \in Requests : At(r, "idle")' \/ Over(r)'
      BY <2>1 DEF MailsInv, At, Over
    <3>3. /\ cutMails' >= cutMails /\ cutMails' \in Nat
          /\ rem.pc = "stamp" => cutMails' = 1 + cutMails
      BY <1>0, <3>1
    <3>4. \A y \in 1..MaxSubs : mails[y] <= 1 + cutMails
      BY DEF MailsInv
    <3>5. \A y \in 1..MaxSubs : mails[y] <= 1 + cutMails'
      <4>1. \A y \in 1..MaxSubs : mails[y] \in Nat
        BY <1>0
      <4>2. cutMails \in Nat
        BY <1>0
      <4> QED BY <3>3, <3>4, <4>1, <4>2
    <3>6. ASSUME NEW x \in subs, x.reminded < today
          PROVE  mails[x.id] <= cutMails'
      <4>1. mails[x.id] \in Nat /\ mails[x.id] <= 1 + cutMails
        BY <1>0, <3>4
      <4>2. CASE rem.pc = "stamp"
        BY <1>0, <3>3, <4>1, <4>2
      <4>3. CASE rem.pc # "stamp"
        <5>1. mails[x.id] <= cutMails
          BY <3>6, <4>3 DEF MailsInv
        <5> QED BY <1>0, <3>3, <4>1, <5>1
      <4> QED BY <4>2, <4>3
    <3> QED BY <2>1, <2>2, <2>4, <3>1, <3>2, <3>5, <3>6 DEF MailsInv
  <2> QED BY <2>2, <2>3, <2>4
<1>5. CASE RetryReminder
  <2>1. /\ rem.pc = "retry"
        /\ rem' = [rem EXCEPT !.pc = "loop", !.list = Expiring, !.tries = @ + 1]
        /\ UNCHANGED <<subs, today, gen, req, mails, cutMails>>
    BY <1>5 DEF RetryReminder, rows, history
  <2>2. /\ rem.day = today /\ gen.pc = "idle" /\ gen.day = today
        /\ \A r \in Requests : At(r, "idle")' \/ Over(r)'
    BY <2>1 DEF MailsInv, At, Over
  <2>3. rem'.pc = "loop" /\ rem'.list = Expiring /\ rem'.day = today
    BY <1>0, <2>1, <2>2 DEF ReminderRun
  <2>4. \A s \in subs : s.id \in Expiring => s.reminded < today
    BY ExpiringIs DEF TypeInv
  <2>5. \A x \in subs : x.reminded < today => mails[x.id] <= cutMails
    BY <2>1 DEF MailsInv
  <2>6. \A y \in 1..MaxSubs : mails[y] <= 1 + cutMails
    BY DEF MailsInv
  <2> QED BY <2>1, <2>2, <2>3, <2>4, <2>5, <2>6 DEF MailsInv
<1>6. CASE EndReminder
  <2>1. rem'.pc = "idle" /\ rem'.list = {} /\ ForgetMails
    BY <1>6 DEF EndReminder, IdleJob
  <2> QED BY <2>1, MailsIdle DEF ForgetMails
<1> QED
  BY <1>1, <1>2, <1>3, <1>4, <1>5, <1>6 DEF Reminder

LEMMA StepMails == TypeInv /\ TypeInv' /\ MailsInv /\ [Next]_vars => MailsInv'
<1> SUFFICES ASSUME TypeInv, TypeInv', MailsInv, [Next]_vars PROVE MailsInv'
  OBVIOUS
<1>1. CASE Reminder
  BY <1>1, MailsByReminder
<1>2. CASE UNCHANGED vars
  <2>1. UNCHANGED <<rem, mails, cutMails, today, gen, req, subs>>
    BY <1>2 DEF vars, rows, history
  <2> QED BY <2>1 DEF MailsInv, At, Over
<1>3. CASE \/ Generator \/ NextDay \/ \E s \in subs : Cancel(s)
           \/ \E r \in Requests : Portal(r) \/ Checkout(r)
  <2>1. rem.pc = "idle" /\ UNCHANGED <<rem, mails, cutMails>>
    BY <1>3, ElsewhereIdle
  <2> QED BY <2>1, MailsIdle DEF MailsInv
<1> QED
  BY <1>1, <1>2, <1>3 DEF Next, Finished

-------------------------------------------------------------------------------
(***************************************************************************)
(* The beginning.                                                          *)
(***************************************************************************)

\* One subscription a customer, numbered one by one.
LEMMA InitRows == Init => RowsInv
<1> SUFFICES ASSUME Init PROVE RowsInv
  OBVIOUS
<1> DEFINE n == Cardinality(Customers)
<1>1. PICK id \in [Customers -> 1..n] :
          /\ \A c, d \in Customers : c # d => id[c] # id[d]
          /\ subs = {[id |-> id[c], customer |-> c, expires |-> Window + 1,
                      cancelled |-> FALSE, reminded |-> 0] : c \in Customers}
  BY DEF Init
<1>2. IsFiniteSet(Customers) /\ n \in Nat /\ Window \in Nat /\ n <= MaxSubs
  BY RenewalsAssumption, FS_CardinalityType
<1> DEFINE row == [c \in Customers |->
                     [id |-> id[c], customer |-> c, expires |-> Window + 1,
                      cancelled |-> FALSE, reminded |-> 0]]
<1>3. row \in Bijection(Customers, subs)
  <2>1. row \in [Customers -> subs]
    BY <1>1
  <2>2. \A c, d \in Customers : row[c] = row[d] => c = d
    BY <1>1
  <2>3. \A s \in subs : \E c \in Customers : row[c] = s
    BY <1>1
  <2> QED BY <2>1, <2>2, <2>3 DEF Bijection, Injection, Surjection, IsInjective
<1>4. IsFiniteSet(subs) /\ Cardinality(subs) = n
  BY <1>2, <1>3, FS_Bijection DEF ExistsBijection
<1>5. id \in Injection(Customers, 1..n)
  BY <1>1 DEF Injection, IsInjective
<1>6. IsFiniteSet(1..n) /\ Cardinality(1..n) = n
  BY <1>2, FS_Interval
<1>7. id \in Surjection(Customers, 1..n)
  BY <1>5, <1>6, FS_Injection
<1>8. Ids = 1..n
  <2>1. Ids = {id[c] : c \in Customers}
    <3>1. \A s \in subs : \E c \in Customers : s.id = id[c]
      BY <1>1
    <3>2. ASSUME NEW c \in Customers PROVE \E s \in subs : s.id = id[c]
      <4>1. row[c] \in subs /\ row[c].id = id[c]
        BY <1>1
      <4> QED BY <4>1
    <3> QED BY <3>1, <3>2 DEF Ids
  <2>2. \A k \in 1..n : \E c \in Customers : id[c] = k
    BY <1>7 DEF Surjection
  <2> QED BY <1>1, <2>1, <2>2
<1>9. subs \subseteq Sub /\ \A s, t \in subs : s.id = t.id => s = t
  <2>1. \A s \in subs : \E c \in Customers :
           s = [id |-> id[c], customer |-> c, expires |-> Window + 1,
                cancelled |-> FALSE, reminded |-> 0]
    BY <1>1
  <2>2. \A c \in Customers : id[c] \in Nat \ {0}
    BY <1>2
  <2>3. Window + 1 \in Nat
    BY <1>2
  <2>4. ASSUME NEW s \in subs PROVE s \in Sub
    <3>1. PICK c \in Customers :
             s = [id |-> id[c], customer |-> c, expires |-> Window + 1,
                  cancelled |-> FALSE, reminded |-> 0]
      BY <2>1
    <3> QED BY <2>2, <2>3, <3>1 DEF Sub
  <2>5. ASSUME NEW s \in subs, NEW t \in subs, s.id = t.id PROVE s = t
    <3>1. PICK c \in Customers :
             s = [id |-> id[c], customer |-> c, expires |-> Window + 1,
                  cancelled |-> FALSE, reminded |-> 0]
      BY <2>1
    <3>2. PICK d \in Customers :
             t = [id |-> id[d], customer |-> d, expires |-> Window + 1,
                  cancelled |-> FALSE, reminded |-> 0]
      BY <2>1
    <3>3. id[c] = id[d]
      BY <2>5, <3>1, <3>2
    <3> QED BY <1>1, <3>1, <3>2, <3>3
  <2> QED BY <2>4, <2>5
<1> QED
  BY <1>2, <1>4, <1>8, <1>9 DEF RowsInv

LEMMA InitTypes == Init => TypeInv
<1> SUFFICES ASSUME Init PROVE TypeInv
  OBVIOUS
<1>1. RowsInv
  BY InitRows
<1>2. BooksInv
  <2>1. /\ {i.number : i \in invoices} = {} /\ {x.number : x \in receipts} = {}
    BY DEF Init
  <2>2. IsFiniteSet(invoices)
    BY FS_EmptySet DEF Init
  <2> QED BY <2>1, <2>2, CappedEmpty DEF Init, BooksInv
<1>3. GeneratorInv /\ ReminderInv
  <2>1. IdleJob.pc = "idle" /\ IdleJob.list = {}
    BY DEF IdleJob
  <2> QED BY <2>1, IdleJobIs DEF Init, GeneratorInv, ReminderInv
<1>4. RequestsInv
  <2>1. IdleRequest.pc = "idle"
    BY DEF IdleRequest
  <2> QED BY <2>1, IdleRequestIs DEF Init, RequestsInv, Fits, Working
<1>5. HistoryInv
  BY RenewalsAssumption DEF Init, HistoryInv
<1> QED
  BY <1>1, <1>2, <1>3, <1>4, <1>5 DEF TypeInv

LEMMA InitInv == Init => RenewalsIInv
<1> SUFFICES ASSUME Init PROVE RenewalsIInv
  OBVIOUS
<1>1. TypeInv
  BY InitTypes
<1>2. \A r \in Requests : req[r].pc = "idle"
  BY DEF Init, IdleRequest
<1>3. ChargesInv /\ CrowdInv
  BY <1>2 DEF ChargesInv, Booked, CrowdInv
<1>4. \A s \in subs : s.id \in 1..MaxSubs
  BY <1>1, IdsBound DEF TypeInv, Ids
<1>5. MailsInv
  <2>1. rem.pc = "idle" /\ rem.list = {}
    BY DEF Init, IdleJob
  <2> QED BY <1>4, <2>1 DEF Init, MailsInv
<1>6. BilledTimeIsKept
  <2>1. \A s \in subs : s.expires = Window + 1
    BY DEF Init
  <2>2. \A s \in subs : floor[s.id] = Window + 1
    BY <1>4 DEF Init, Ids
  <2>3. Window \in Nat
    BY RenewalsAssumption
  <2> QED BY <2>1, <2>2, <2>3 DEF BilledTimeIsKept
<1>7. MonthsAreInvoiced
  <2>1. ASSUME NEW c \in Customers
        PROVE  given[c] = Cardinality(Billed(c)) + Cardinality(Owing(c))
    <3>1. Billed(c) = {} /\ Owing(c) = {} /\ given[c] = 0
      BY <1>2 DEF Init, Billed, Owing, Owes
    <3> QED BY <3>1, FS_EmptySet
  <2> QED BY <2>1, MonthsAre
<1> QED
  BY <1>1, <1>3, <1>5, <1>6, <1>7 DEF RenewalsIInv

LEMMA StepInv == RenewalsIInv /\ [Next]_vars => RenewalsIInv'
BY StepTypes, StepCharges, StepCrowd, StepMails, StepKept, StepMonths
   DEF RenewalsIInv

\* The invariant says what the run checks.
LEMMA InvSays ==
    ASSUME RenewalsIInv
    PROVE  RenewalsInv /\ BilledTimeIsKept /\ MonthsAreInvoiced /\ OneReminderADay
<1>1. RenewalsTypeOK
  BY RenewalsAssumption DEF RenewalsIInv, TypeInv, RowsInv, BooksInv,
     GeneratorInv, GeneratorRun, ReminderInv, ReminderRun, RenewalsTypeOK
<1>2. ChargeBooksOnce
  BY DEF RenewalsIInv, ChargesInv, Booked, ChargeBooksOnce
<1>3. GivesUpInACrowd
  <2>1. ASSUME NEW r \in Requests, req[r].pc = "gaveUp"
        PROVE  Cardinality(invoices) - req[r].seen >= Tries
    <3>1. Lost(r) <= Cardinality(invoices) /\ req[r].attempt >= Tries
      BY <2>1 DEF RenewalsIInv, CrowdInv
    <3>2. req[r].seen \in Nat /\ req[r].attempt \in Nat /\ Tries \in Nat
          /\ Cardinality(invoices) \in Nat
      BY RenewalsAssumption, LostIs, FS_CardinalityType
         DEF RenewalsIInv, TypeInv, BooksInv
    <3> QED BY <3>1, <3>2 DEF Lost
  <2> QED BY <2>1 DEF GivesUpInACrowd
<1>4. OneReminderADay
  BY DEF RenewalsIInv, MailsInv, OneReminderADay
<1> QED
  BY <1>1, <1>2, <1>3, <1>4 DEF RenewalsIInv, RenewalsInv

LEMMA RenewalsHold == Spec => []RenewalsIInv
BY InitInv, StepInv, PTL DEF Spec

-------------------------------------------------------------------------------
(***************************************************************************)
(* The theorems.                                                           *)
(***************************************************************************)

\* Whatever the requests present and wherever they break off: rows are well
\* formed and numbers are used once, a charge is booked once, and a checkout
\* gives up on its number only in a crowd (customer.service.ts:256-308,
\* payments.service.ts:1027-1055).
THEOREM RenewalsAreRight == Spec => []RenewalsInv
BY RenewalsHold, InvSays, PTL

\* A month that was billed or paid is not lost, unless a job or a request
\* wrote the expiry from a row that had changed since it was read
\* (invoice-generator.processor.ts:30-74, customer.service.ts:230-243).
THEOREM BilledTimeStays == Spec => []BilledTimeIsKept
BY RenewalsHold, InvSays, PTL

\* Every month a customer was given has its invoice, except those of portal
\* requests that have not, or never, reached theirs
\* (customer.service.ts:256-285).
THEOREM MonthsAreAccounted == Spec => []MonthsAreInvoiced
BY RenewalsHold, InvSays, PTL

\* A customer is reminded once a day, and once more for each run that was cut
\* off between the mail and its stamp (expiry-reminder.processor.ts:39-78).
THEOREM RemindersAreCounted == Spec => []OneReminderADay
BY RenewalsHold, InvSays, PTL

===============================================================================
