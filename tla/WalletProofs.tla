----------------------------- MODULE WalletProofs -----------------------------
(***************************************************************************)
(* Theorems about Wallet, for any number of subscribers, invoices,         *)
(* requests and ledger rows.                                               *)
(***************************************************************************)
EXTENDS Wallet, PaymentsProofs, FiniteSetTheorems, WellFoundedInduction

-------------------------------------------------------------------------------
(***************************************************************************)
(* Sums.                                                                   *)
(***************************************************************************)

\* Induction over the natural numbers, on a set of them.
LEMMA SetInduction ==
    ASSUME NEW N, 0 \in N, \A n \in Nat : n \in N => n + 1 \in N
    PROVE  Nat \subseteq N
<1> SUFFICES ASSUME Nat \ N # {} PROVE FALSE
  OBVIOUS
<1>1. PICK m \in Nat \ N : \A y \in Nat \ N : ~(<<y, m>> \in OpToRel(<, Nat))
  <2>1. Nat \ N \subseteq Nat
    OBVIOUS
  <2> QED BY <2>1, NatLessThanWellFounded, WFMin
<1>2. \A y \in Nat \ N : ~(y < m)
  BY <1>1 DEF OpToRel
<1>3. m # 0 /\ m - 1 \in Nat /\ m - 1 < m
  OBVIOUS
<1>4. m - 1 \in N
  BY <1>2, <1>3
<1> QED BY <1>3, <1>4

\* f is the sum of the first values of g, up to n of them.
Sums(f, g, n) ==
    /\ f \in [0..n -> Int]
    /\ f[0] = 0
    /\ \A k \in 1..n : f[k] = f[k - 1] + g[k]

\* Such an f exists for every n, and any two of them agree.
LEMMA SumsExist ==
    ASSUME NEW g \in [Nat -> Int]
    PROVE  \A n \in Nat : \E f : Sums(f, g, n)
<1> DEFINE N == {n \in Nat : \E f : Sums(f, g, n)}
<1>1. 0 \in N
  <2>1. Sums([k \in 0..0 |-> 0], g, 0)
    BY DEF Sums
  <2> QED BY <2>1
<1>2. ASSUME NEW n \in Nat, n \in N
      PROVE  n + 1 \in N
  <2>1. PICK f : Sums(f, g, n)
    BY <1>2
  <2> DEFINE h == [k \in 0..(n + 1) |-> IF k <= n THEN f[k] ELSE f[n] + g[n + 1]]
  <2>2. h \in [0..(n + 1) -> Int] /\ h[0] = 0
    BY <2>1 DEF Sums
  <2>3. ASSUME NEW k \in 1..(n + 1)
        PROVE  h[k] = h[k - 1] + g[k]
    <3>1. CASE k <= n
      <4>1. k \in 1..n /\ k - 1 \in 0..n /\ k - 1 <= n /\ k \in 0..(n + 1) /\ k - 1 \in 0..(n + 1)
        BY <3>1
      <4> QED BY <2>1, <3>1, <4>1 DEF Sums
    <3>2. CASE k = n + 1
      BY <3>2
    <3> QED BY <3>1, <3>2
  <2>4. Sums(h, g, n + 1)
    BY <2>2, <2>3 DEF Sums
  <2> QED BY <2>4
<1>3. Nat \subseteq N
  <2> HIDE DEF N
  <2> QED BY <1>1, <1>2, SetInduction
<1> QED BY <1>3

\* A function has one sum of its first values.
LEMMA SumsAgree ==
    ASSUME NEW g \in [Nat -> Int], NEW f, NEW h, NEW n \in Nat, NEW m \in Nat,
           Sums(f, g, n), Sums(h, g, m), n <= m
    PROVE  f[n] = h[n]
<1> DEFINE N == {k \in Nat : k <= n => f[k] = h[k]}
<1>1. 0 \in N
  BY DEF Sums
<1>2. ASSUME NEW k \in Nat, k \in N
      PROVE  k + 1 \in N
  <2> SUFFICES ASSUME k + 1 <= n PROVE f[k + 1] = h[k + 1]
    OBVIOUS
  <2>1. k + 1 \in 1..n /\ k + 1 \in 1..m /\ (k + 1) - 1 = k /\ f[k] = h[k]
    BY <1>2
  <2> QED BY <2>1 DEF Sums
<1>3. Nat \subseteq N
  <2> HIDE DEF N
  <2> QED BY <1>1, <1>2, SetInduction
<1> QED BY <1>3

\* Total is well defined: it adds one value after the other.
LEMMA TotalSteps ==
    ASSUME NEW g \in [Nat -> Int]
    PROVE  /\ Total(g, 0) = 0
           /\ \A n \in Nat : Total(g, n + 1) = Total(g, n) + g[n + 1]
<1> DEFINE Rec(f) == f = [k \in Nat |-> IF k = 0 THEN 0 ELSE f[k - 1] + g[k]]
           sum(n) == CHOOSE f : Sums(f, g, n)
           F == [k \in Nat |-> sum(k)[k]]
           upTo == CHOOSE f : Rec(f)
<1>1. \A n \in Nat : Sums(sum(n), g, n)
  BY SumsExist
<1>2. F[0] = 0
  BY <1>1 DEF Sums
<1>3. ASSUME NEW k \in Nat, k # 0
      PROVE  F[k] = F[k - 1] + g[k]
  <2>1. k - 1 \in Nat /\ k \in 1..k /\ k - 1 <= k
    BY <1>3
  <2>2. Sums(sum(k), g, k) /\ Sums(sum(k - 1), g, k - 1)
    BY <1>1, <2>1
  <2>3. ASSUME NEW f, NEW h, Sums(f, g, k - 1), Sums(h, g, k)
        PROVE  f[k - 1] = h[k - 1]
    <3> HIDE DEF sum, F, upTo
    <3> DEFINE j == k - 1
    <3>1. j \in Nat /\ j <= k /\ Sums(f, g, j)
      BY <2>1, <2>3
    <3> HIDE DEF j
    <3>2. f[j] = h[j]
      BY <2>3, <3>1, SumsAgree
    <3> QED BY <3>2 DEF j
  <2> HIDE DEF sum
  <2>4. sum(k)[k] = sum(k)[k - 1] + g[k]
    BY <2>1, <2>2 DEF Sums
  <2> QED BY <2>1, <2>2, <2>3, <2>4
<1>4. Rec(F)
  <2> HIDE DEF F
  <2>1. F = [k \in Nat |-> F[k]]
    BY DEF F
  <2> QED BY <1>2, <1>3, <2>1
<1>5. Rec(upTo)
  <2> HIDE DEF F
  <2> QED BY <1>4
<1>6. \A n : Total(g, n) = upTo[n]
  BY DEF Total
<1> HIDE DEF upTo
<1>7. upTo[0] = 0
  BY <1>5
<1>8. \A n \in Nat : upTo[n + 1] = upTo[n] + g[n + 1]
  <2> SUFFICES ASSUME NEW n \in Nat PROVE upTo[n + 1] = upTo[n] + g[n + 1]
    OBVIOUS
  <2>1. n + 1 \in Nat /\ n + 1 # 0 /\ (n + 1) - 1 = n
    OBVIOUS
  <2> QED BY <1>5, <2>1
<1> QED BY <1>6, <1>7, <1>8
\* Totals of integers are integers, and depend on the values added alone.
LEMMA TotalType ==
    ASSUME NEW g \in [Nat -> Int]
    PROVE  \A n \in Nat : Total(g, n) \in Int
<1> DEFINE N == {n \in Nat : Total(g, n) \in Int}
<1>1. 0 \in N
  BY TotalSteps
<1>2. \A n \in Nat : n \in N => n + 1 \in N
  BY TotalSteps
<1>3. Nat \subseteq N
  <2> HIDE DEF N
  <2> QED BY <1>1, <1>2, SetInduction
<1> QED BY <1>3

\* The total depends on the values that are added, and on no other.
LEMMA TotalAgree ==
    ASSUME NEW g \in [Nat -> Int], NEW h \in [Nat -> Int], NEW n \in Nat,
           \A k \in 1..n : g[k] = h[k]
    PROVE  Total(g, n) = Total(h, n)
<1> DEFINE N == {m \in Nat : m <= n => Total(g, m) = Total(h, m)}
<1>1. 0 \in N
  BY TotalSteps
<1>2. ASSUME NEW m \in Nat, m \in N
      PROVE  m + 1 \in N
  <2> SUFFICES ASSUME m + 1 <= n PROVE Total(g, m + 1) = Total(h, m + 1)
    OBVIOUS
  <2>1. g[m + 1] = h[m + 1] /\ Total(g, m) = Total(h, m)
    BY <1>2
  <2> QED BY <2>1, TotalSteps
<1>3. Nat \subseteq N
  <2> HIDE DEF N
  <2> QED BY <1>1, <1>2, SetInduction
<1> QED BY <1>3

\* Totals of amounts are natural numbers.
LEMMA TotalOfAmounts ==
    ASSUME NEW g \in [Nat -> Nat]
    PROVE  \A n \in Nat : Total(g, n) \in Nat
<1> DEFINE N == {n \in Nat : Total(g, n) \in Nat}
<1>0. g \in [Nat -> Int]
  OBVIOUS
<1>1. 0 \in N
  BY <1>0, TotalSteps
<1>2. ASSUME NEW n \in Nat, n \in N
      PROVE  n + 1 \in N
  <2>1. Total(g, n) \in Nat /\ g[n + 1] \in Nat /\ n + 1 \in Nat
    BY <1>2
  <2>2. Total(g, n + 1) = Total(g, n) + g[n + 1]
    BY <1>0, TotalSteps
  <2>3. Total(g, n + 1) \in Nat
    BY <2>1, <2>2
  <2> QED BY <2>1, <2>3
<1>3. Nat \subseteq N
  <2> HIDE DEF N
  <2> QED BY <1>1, <1>2, SetInduction
<1> QED BY <1>3

\* One more value.
LEMMA TotalOfOneMore ==
    ASSUME NEW g \in [Nat -> Int], NEW h \in [Nat -> Int], NEW n \in Nat,
           \A k \in 1..n : g[k] = h[k]
    PROVE  Total(h, n + 1) = Total(g, n) + h[n + 1]
BY TotalAgree, TotalSteps

-------------------------------------------------------------------------------
(***************************************************************************)
(* The books of the wallets.                                               *)
(***************************************************************************)
MoneyTypeOK ==
    /\ wallets \subseteq Subscribers
    /\ balance \in [Subscribers -> Int]
    /\ ledger \in Seq(LedgerRow)
    /\ \A k \in DOMAIN ledger : ledger[k].sub \in wallets

\* The books of the wallets.
Books == MoneyTypeOK /\ NeverOverdrawn /\ LedgerExplainsBalance

\* Ledger rows move integers, rows of payments natural numbers.
LEMMA MovesType ==
    ASSUME MoneyTypeOK
    PROVE  /\ \A s : Moves(s) \in [Nat -> Int]
           /\ \A i : MovesFor(i) \in [Nat -> Int]
<1>1. \A e \in LedgerRow : Signed(e) \in Int
  BY DEF LedgerRow, Signed
<1>2. \A k \in DOMAIN ledger : ledger[k] \in LedgerRow
  BY DEF MoneyTypeOK
<1> QED BY <1>1, <1>2 DEF Moves, MovesFor

\* What one more ledger row adds to the totals.
LEMMA LedgerGrows ==
    ASSUME MoneyTypeOK, MoneyTypeOK', NEW e \in LedgerRow,
           ledger' = Append(ledger, e)
    PROVE  /\ Len(ledger') = Len(ledger) + 1 /\ DOMAIN ledger' = 1..(Len(ledger) + 1)
           /\ \A k \in DOMAIN ledger : ledger'[k] = ledger[k]
           /\ ledger'[Len(ledger) + 1] = e
           /\ \A s : /\ \A n \in DOMAIN ledger : Total(Moves(s)', n) = Total(Moves(s), n)
                     /\ Total(Moves(s)', Len(ledger')) =
                           Total(Moves(s), Len(ledger)) + (IF e.sub = s THEN Signed(e) ELSE 0)
           /\ \A i : Total(MovesFor(i)', Len(ledger')) =
                        Total(MovesFor(i), Len(ledger)) + (IF e.doc = i THEN Signed(e) ELSE 0)
<1> DEFINE n == Len(ledger)
<1>1. /\ n \in Nat /\ Len(ledger') = n + 1 /\ DOMAIN ledger = 1..n
      /\ DOMAIN ledger' = 1..(n + 1)
      /\ \A k \in 1..n : ledger'[k] = ledger[k]
      /\ ledger'[n + 1] = e
  BY DEF MoneyTypeOK
<1>2. /\ \A s : Moves(s) \in [Nat -> Int] /\ Moves(s)' \in [Nat -> Int]
      /\ \A i : MovesFor(i) \in [Nat -> Int] /\ MovesFor(i)' \in [Nat -> Int]
  <2>1. \A r \in LedgerRow : Signed(r) \in Int
    BY DEF LedgerRow, Signed
  <2>2. \A k \in DOMAIN ledger' : ledger'[k] \in LedgerRow
    BY DEF MoneyTypeOK
  <2>3. /\ \A s : Moves(s)' \in [Nat -> Int]
        /\ \A i : MovesFor(i)' \in [Nat -> Int]
    BY <2>1, <2>2 DEF Moves, MovesFor
  <2> QED BY <2>3, MovesType
<1> HIDE DEF n
<1>3. ASSUME NEW s
      PROVE  /\ \A k \in 1..n : Moves(s)[k] = Moves(s)'[k]
             /\ Moves(s)'[n + 1] = IF e.sub = s THEN Signed(e) ELSE 0
  BY <1>1 DEF Moves
<1>4. ASSUME NEW i
      PROVE  /\ \A k \in 1..n : MovesFor(i)[k] = MovesFor(i)'[k]
             /\ MovesFor(i)'[n + 1] = IF e.doc = i THEN Signed(e) ELSE 0
  BY <1>1 DEF MovesFor
<1>5. ASSUME NEW s, NEW m \in 1..n
      PROVE  Total(Moves(s)', m) = Total(Moves(s), m)
  <2>1. m \in Nat /\ \A k \in 1..m : Moves(s)[k] = Moves(s)'[k]
    BY <1>1, <1>3
  <2> QED BY <1>2, <2>1, TotalAgree
<1>6. ASSUME NEW s
      PROVE  Total(Moves(s)', n + 1) = Total(Moves(s), n) + (IF e.sub = s THEN Signed(e) ELSE 0)
  <2> DEFINE g == Moves(s)
             h == Moves(s)'
  <2>1. /\ g \in [Nat -> Int] /\ h \in [Nat -> Int] /\ n \in Nat
        /\ \A k \in 1..n : g[k] = h[k]
    BY <1>1, <1>2, <1>3
  <2>2. h[n + 1] = IF e.sub = s THEN Signed(e) ELSE 0
    BY <1>3
  <2> HIDE DEF g, h
  <2>3. Total(h, n + 1) = Total(g, n) + h[n + 1]
    BY <2>1, TotalOfOneMore
  <2> QED BY <2>2, <2>3 DEF g, h
<1>7. ASSUME NEW i
      PROVE  Total(MovesFor(i)', n + 1) = Total(MovesFor(i), n) + (IF e.doc = i THEN Signed(e) ELSE 0)
  <2> DEFINE g == MovesFor(i)
             h == MovesFor(i)'
  <2>1. /\ g \in [Nat -> Int] /\ h \in [Nat -> Int] /\ n \in Nat
        /\ \A k \in 1..n : g[k] = h[k]
    BY <1>1, <1>2, <1>4
  <2>2. h[n + 1] = IF e.doc = i THEN Signed(e) ELSE 0
    BY <1>4
  <2> HIDE DEF g, h
  <2>3. Total(h, n + 1) = Total(g, n) + h[n + 1]
    BY <2>1, TotalOfOneMore
  <2> QED BY <2>2, <2>3 DEF g, h
<1> QED BY <1>1, <1>5, <1>6, <1>7 DEF n

\* A credit, or a debit of no more than the balance, keeps the books.
LEMMA MoveKeepsBooks ==
    ASSUME Books, NEW s \in wallets, NEW type \in {"CREDIT", "DEBIT"},
           NEW amount \in Nat \ {0}, NEW i \in Invoices \cup {None},
           type = "DEBIT" => balance[s] >= amount,
           Move(s, type, amount, i)
    PROVE  /\ Books'
           /\ \A j \in Invoices :
                 Taken(j)' = Taken(j) + (IF i # j THEN 0
                                         ELSE IF type = "CREDIT" THEN -amount ELSE amount)
<1> DEFINE step == IF type = "CREDIT" THEN amount ELSE -amount
           e == Entry(type, s, amount, i, balance[s] + step)
<1>1. /\ s \in Subscribers /\ balance \in [Subscribers -> Int] /\ step \in Int
      /\ balance' = [balance EXCEPT ![s] = balance[s] + step]
      /\ ledger' = Append(ledger, e) /\ wallets' = wallets
  BY DEF Books, MoneyTypeOK, Move
<1>2. e \in LedgerRow /\ e.sub = s /\ e.doc = i /\ Signed(e) = step
      /\ e.balance = balance[s] + step
  BY <1>1 DEF Entry, LedgerRow, Signed
<1>3. balance'[s] >= 0
  BY <1>1 DEF Books, NeverOverdrawn
<1> HIDE DEF e
<1>4. MoneyTypeOK'
  BY <1>1, <1>2 DEF Books, MoneyTypeOK
<1>5. NeverOverdrawn'
  BY <1>1, <1>3 DEF Books, NeverOverdrawn
<1>6. /\ Len(ledger') = Len(ledger) + 1 /\ DOMAIN ledger' = 1..(Len(ledger) + 1)
      /\ \A k \in DOMAIN ledger : ledger'[k] = ledger[k]
      /\ ledger'[Len(ledger) + 1] = e
      /\ \A t : /\ \A n \in DOMAIN ledger : Total(Moves(t)', n) = Total(Moves(t), n)
                /\ Total(Moves(t)', Len(ledger')) =
                      Total(Moves(t), Len(ledger)) + (IF e.sub = t THEN Signed(e) ELSE 0)
      /\ \A j : Total(MovesFor(j)', Len(ledger')) =
                   Total(MovesFor(j), Len(ledger)) + (IF e.doc = j THEN Signed(e) ELSE 0)
  BY <1>1, <1>2, <1>4, LedgerGrows DEF Books
<1>7. /\ ledger \in Seq(LedgerRow) /\ Len(ledger) \in Nat
      /\ \A t : Total(Moves(t), Len(ledger)) \in Int
      /\ \A j : Total(MovesFor(j), Len(ledger)) \in Int
  BY MovesType, TotalType DEF Books, MoneyTypeOK
<1>8. LedgerExplainsBalance'
  <2> SUFFICES ASSUME NEW t \in Subscribers
               PROVE  /\ balance'[t] = Total(Moves(t)', Len(ledger'))
                      /\ \A n \in DOMAIN ledger' :
                            ledger'[n].sub = t => ledger'[n].balance = Total(Moves(t)', n)
    BY DEF LedgerExplainsBalance
  <2> HIDE DEF step
  <2>1. balance[t] = Total(Moves(t), Len(ledger))
    BY DEF Books, LedgerExplainsBalance
  <2>2. balance'[t] = Total(Moves(t)', Len(ledger'))
    BY <1>1, <1>2, <1>6, <1>7, <2>1
  <2>3. ASSUME NEW n \in DOMAIN ledger', ledger'[n].sub = t
        PROVE  ledger'[n].balance = Total(Moves(t)', n)
    <3>1. CASE n = Len(ledger')
      BY <1>1, <1>2, <1>6, <2>2, <2>3, <3>1
    <3>2. CASE n # Len(ledger')
      <4>1. n \in DOMAIN ledger
        BY <1>6, <1>7, <3>2
      <4> QED BY <1>6, <2>3, <4>1 DEF Books, LedgerExplainsBalance
    <3> QED BY <3>1, <3>2
  <2> QED BY <2>2, <2>3
<1>9. ASSUME NEW j \in Invoices
      PROVE  Taken(j)' = Taken(j) + (IF i # j THEN 0
                                     ELSE IF type = "CREDIT" THEN -amount ELSE amount)
  BY <1>2, <1>6, <1>7 DEF Taken
<1> QED BY <1>4, <1>5, <1>8, <1>9 DEF Books

-------------------------------------------------------------------------------
(***************************************************************************)
(* What has been paid for an invoice.                                      *)
(***************************************************************************)
PartRow == [doc : Invoices, amount : Nat \ {0}]

\* The amounts of the rows are natural numbers, and so is what is paid.
LEMMA PaidType ==
    ASSUME rows \in Seq(PartRow), NEW i \in Invoices, NEW P \in SUBSET Payments
    PROVE  /\ Parts(i) \in [Nat -> Nat] /\ Parts(i) \in [Nat -> Int]
           /\ Total(Parts(i), Len(rows)) \in Nat
           /\ Cardinality({p \in P : InvoiceOf[p] = i}) \in Nat
           /\ Paid(P, i) \in Nat
<1>1. \A k \in DOMAIN rows : rows[k] \in PartRow
  OBVIOUS
<1>2. Parts(i) \in [Nat -> Nat]
  BY <1>1 DEF Parts, PartRow
<1>3. Total(Parts(i), Len(rows)) \in Nat
  BY <1>2, TotalOfAmounts
<1>4. Cardinality({p \in P : InvoiceOf[p] = i}) \in Nat
  BY WalletAssumption, FS_Subset, FS_CardinalityType
<1>5. Price[i] \in Nat
  BY WalletAssumption
<1>6. Price[i] * Cardinality({p \in P : InvoiceOf[p] = i}) \in Nat
  BY <1>4, <1>5
<1>7. \A x, y \in Nat : x + y \in Nat
  OBVIOUS
<1>8. Paid(P, i) \in Nat
  BY <1>3, <1>6, <1>7 DEF Paid
<1>9. Parts(i) \in [Nat -> Int]
  BY <1>2
<1> QED BY <1>2, <1>3, <1>4, <1>8, <1>9

\* More payments are not less money.
LEMMA PaidGrows ==
    ASSUME rows \in Seq(PartRow), NEW i \in Invoices,
           NEW P \in SUBSET Payments, NEW Q \in SUBSET Payments, P \subseteq Q
    PROVE  Paid(P, i) <= Paid(Q, i)
<1> DEFINE c == Cardinality({p \in P : InvoiceOf[p] = i})
           e == Cardinality({p \in Q : InvoiceOf[p] = i})
<1>1. IsFiniteSet({p \in Q : InvoiceOf[p] = i})
  BY WalletAssumption, FS_Subset
<1>2. {p \in P : InvoiceOf[p] = i} \subseteq {p \in Q : InvoiceOf[p] = i}
  OBVIOUS
<1>3. c <= e
  BY <1>1, <1>2, FS_Subset
<1>4. c \in Nat /\ e \in Nat /\ Total(Parts(i), Len(rows)) \in Nat
  BY PaidType
<1>5. Price[i] \in Nat
  BY WalletAssumption
<1> HIDE DEF c, e
<1>6. Price[i] * c <= Price[i] * e
  <2>1. \A x, y, z \in Nat : x <= y => z * x <= z * y
    OBVIOUS
  <2> QED BY <1>3, <1>4, <1>5, <2>1
<1>7. \A x, y, z \in Int : x <= y => x + z <= y + z
  OBVIOUS
<1>8. Price[i] * c \in Int /\ Price[i] * e \in Int
  BY <1>4, <1>5
<1>9. Price[i] * c + Total(Parts(i), Len(rows)) <= Price[i] * e + Total(Parts(i), Len(rows))
  BY <1>4, <1>6, <1>7, <1>8
<1> QED BY <1>9 DEF Paid, c, e

\* One payment is the price.
LEMMA PaidOnce ==
    ASSUME rows \in Seq(PartRow), NEW P \in SUBSET Payments, NEW p \in P
    PROVE  Paid(P, InvoiceOf[p]) >= Price[InvoiceOf[p]]
<1> DEFINE i == InvoiceOf[p]
<1>0. i \in Invoices /\ Price[i] \in Nat /\ {p} \in SUBSET Payments
  BY WalletAssumption, ConstantsAssumption
<1>1. {q \in {p} : InvoiceOf[q] = i} = {p}
  OBVIOUS
<1>2. Cardinality({p}) = 1
  BY FS_Singleton
<1>3. Paid({p}, i) = Price[i] * 1 + Total(Parts(i), Len(rows))
  BY <1>1, <1>2 DEF Paid
<1>4. Total(Parts(i), Len(rows)) \in Nat /\ Paid(P, i) \in Nat
  BY <1>0, PaidType
<1>5. Paid({p}, i) <= Paid(P, i)
  BY <1>0, PaidGrows
<1> HIDE DEF i
<1>6. Paid(P, i) >= Price[i]
  BY <1>0, <1>3, <1>4, <1>5
<1> QED BY <1>6 DEF i

\* What one more row adds.
LEMMA RowsGrow ==
    ASSUME rows \in Seq(PartRow), NEW r \in PartRow, rows' = Append(rows, r)
    PROVE  /\ rows' \in Seq(PartRow)
           /\ \A i \in Invoices :
                 Total(Parts(i)', Len(rows')) =
                    Total(Parts(i), Len(rows)) + (IF r.doc = i THEN r.amount ELSE 0)
<1> DEFINE n == Len(rows)
<1>1. /\ n \in Nat /\ Len(rows') = n + 1 /\ DOMAIN rows = 1..n
      /\ DOMAIN rows' = 1..(n + 1)
      /\ \A k \in 1..n : rows'[k] = rows[k]
      /\ rows'[n + 1] = r /\ rows' \in Seq(PartRow)
  OBVIOUS
<1> HIDE DEF n
<1>2. ASSUME NEW i \in Invoices
      PROVE  Total(Parts(i)', n + 1) = Total(Parts(i), n) + (IF r.doc = i THEN r.amount ELSE 0)
  <2> DEFINE g == Parts(i)
             h == Parts(i)'
  <2>1. \A k \in DOMAIN rows' : rows'[k] \in PartRow
    BY <1>1
  <2>2. g \in [Nat -> Int]
    BY PaidType
  <2>3. h \in [Nat -> Int]
    BY <2>1 DEF Parts, PartRow
  <2>4. /\ \A k \in 1..n : g[k] = h[k]
        /\ h[n + 1] = IF r.doc = i THEN r.amount ELSE 0
    BY <1>1 DEF Parts
  <2> HIDE DEF g, h
  <2>5. Total(h, n + 1) = Total(g, n) + h[n + 1]
    BY <1>1, <2>2, <2>3, <2>4, TotalOfOneMore
  <2> QED BY <2>4, <2>5 DEF g, h
<1> QED BY <1>1, <1>2 DEF n

-------------------------------------------------------------------------------
(***************************************************************************)
(* The requests of the wallet module.                                      *)
(***************************************************************************)
Paying == {"row", "markPaid", "paid", "notify"}

\* A request is where its job takes it, works on the amount and the subscriber
\* of its invoice, moves money only in a wallet that exists, and tells of
\* payments that were made.
Fits(r, W, P) ==
    /\ r.job = "none" => r.pc = "idle"
    /\ r.job = "credit" =>
          /\ r.pc \in {"find", "create", "credit"}
          /\ r.sub \in Subscribers /\ r.amount \in Amounts /\ r.doc = None
    /\ r.job = "pay" => r.pc \in {"find", "create", "debit"} \cup Paying
    /\ r.job = "back" => r.pc \in {"find", "credit"} /\ r.sub \in W
    /\ r.job = "partial" => r.pc \in {"sum"} \cup Paying /\ r.amount \in Amounts
    /\ r.job \in {"pay", "back"} => r.amount = Price[r.doc]
    /\ r.job \in {"pay", "back", "partial"} =>
          r.doc \in Invoices /\ r.sub = SubscriberOf[r.doc]
    /\ r.pc \in {"credit", "debit"} => r.sub \in W
    /\ r.job = "pay" /\ r.pc \in Paying => r.sub \in W
    /\ r.pc = "notify" => r.doc \in P

\* So has every request in flight.
DeskInv ==
    /\ desk \in [Desks -> DeskRequest]
    /\ \A d \in Desks : Fits(desk[d], wallets, settled)

\* No invoice becomes PAID unseen.
HistoryInv ==
    /\ settled \subseteq Invoices /\ cutOff \subseteq Invoices
    /\ \A i \in Invoices : inv[i] = "PAID" => i \in settled

\* The inductive invariant of the books.
BooksIInv ==
    /\ TypeInv /\ Books /\ DeskInv /\ HistoryInv
    /\ rows \in Seq(PartRow)

\* What a step of one request has to show.
LEMMA DeskFrame ==
    ASSUME DeskInv, NEW d \in Desks, NEW r \in DeskRequest,
           desk' = [desk EXCEPT ![d] = r],
           wallets \subseteq wallets', settled \subseteq settled',
           Fits(r, wallets', settled')
    PROVE  DeskInv'
<1>1. desk' \in [Desks -> DeskRequest]
  BY DEF DeskInv
<1>2. ASSUME NEW c \in Desks
      PROVE  Fits(desk'[c], wallets', settled')
  <2>1. CASE c = d
    BY <2>1 DEF DeskInv
  <2>2. CASE c # d
    BY <2>2 DEF DeskInv, Fits
  <2> QED BY <2>1, <2>2
<1> QED BY <1>1, <1>2 DEF DeskInv

\* A request that ends, and one that moves on.
LEMMA LeaveKeeps ==
    ASSUME DeskInv, NEW d \in Desks, Leave(d),
           wallets \subseteq wallets', settled \subseteq settled'
    PROVE  DeskInv'
<1>1. Nothing \in DeskRequest /\ Fits(Nothing, wallets', settled')
  BY DEF Nothing, DeskRequest, Jobs, Fits
<1> QED BY <1>1, DeskFrame DEF Leave

\* A request that moves on keeps its shape.
LEMMA ServeKeeps ==
    ASSUME DeskInv, NEW d \in Desks, NEW l, Serve(d, l),
           wallets \subseteq wallets', settled \subseteq settled',
           l \in {"create", "credit", "debit", "row", "markPaid", "paid", "notify"},
           Fits([desk[d] EXCEPT !.pc = l], wallets', settled')
    PROVE  DeskInv'
<1> DEFINE r == [desk[d] EXCEPT !.pc = l]
<1>1. desk[d] \in DeskRequest
  BY DEF DeskInv
<1>2. r \in DeskRequest
  BY <1>1 DEF DeskRequest
<1>3. desk' = [desk EXCEPT ![d] = r]
  BY <1>1 DEF Serve, DeskInv
<1> QED BY <1>2, <1>3, DeskFrame

\* A request that fails gives back what it has debited.
LEMMA FailKeeps ==
    ASSUME DeskInv, NEW d \in Desks, Fail(d), desk[d].pc \in Paying,
           wallets \subseteq wallets', settled \subseteq settled'
    PROVE  DeskInv'
<1>1. CASE desk[d].job = "pay"
  <2> DEFINE r == [desk[d] EXCEPT !.pc = "find", !.job = "back"]
  <2>1. desk[d] \in DeskRequest /\ Fits(desk[d], wallets, settled)
    BY DEF DeskInv
  <2>2. r \in DeskRequest
    BY <2>1 DEF DeskRequest, Jobs
  <2>3. desk' = [desk EXCEPT ![d] = r]
    BY <1>1, <2>1 DEF Fail, GiveBack, DeskInv
  <2>4. Fits(r, wallets', settled')
    BY <1>1, <2>1 DEF Fits, DeskRequest
  <2> QED BY <2>2, <2>3, <2>4, DeskFrame
<1>2. CASE desk[d].job # "pay"
  BY <1>2, LeaveKeeps DEF Fail
<1> QED BY <1>1, <1>2

\* The requests keep their shape at every step of one of them.
LEMMA DeskStep ==
    ASSUME DeskInv, Books, WalletStep, settled \subseteq settled',
           \A i \in Invoices : inv'[i] = "PAID" => i \in settled',
           inv \in [Invoices -> InvoiceStatus \cup {"NONE"}],
           rows \in Seq(PartRow)
    PROVE  DeskInv' /\ wallets \subseteq wallets' /\ wallets' \subseteq Subscribers
<1>0. /\ \A d \in Desks : desk[d] \in DeskRequest /\ Fits(desk[d], wallets, settled)
      /\ wallets \subseteq Subscribers
  BY DEF DeskInv, Books, MoneyTypeOK
<1> USE DEF money
<1>1. ASSUME NEW d \in Desks, NEW r \in DeskRequest,
             desk' = [desk EXCEPT ![d] = r], Fits(r, wallets, settled),
             UNCHANGED money
      PROVE  DeskInv'
  BY <1>1, DeskFrame DEF Fits
<1>2. ASSUME NEW d \in Desks, NEW s \in Subscribers, NEW a \in Amounts, Credit(d, s, a)
      PROVE  DeskInv' /\ UNCHANGED wallets
  <2> DEFINE r == [Nothing EXCEPT !.pc = "find", !.job = "credit", !.sub = s,
                                  !.amount = a]
  <2>1. r \in DeskRequest /\ Fits(r, wallets, settled)
    BY WalletAssumption DEF Nothing, DeskRequest, Jobs, Fits, Paying
  <2>2. desk' = [desk EXCEPT ![d] = r] /\ UNCHANGED money
    BY <1>2 DEF Credit
  <2> QED BY <1>1, <2>1, <2>2
<1>3. ASSUME NEW d \in Desks, NEW i \in Invoices, PayWithWallet(d, i)
      PROVE  DeskInv' /\ UNCHANGED wallets
  <2> DEFINE r == [Nothing EXCEPT !.pc = "find", !.job = "pay",
                                  !.sub = SubscriberOf[i], !.doc = i,
                                  !.amount = Price[i]]
  <2>1. r \in DeskRequest /\ Fits(r, wallets, settled)
    BY WalletAssumption, ConstantsAssumption
       DEF Nothing, DeskRequest, Jobs, Fits, Paying
  <2>2. desk' = [desk EXCEPT ![d] = r] /\ UNCHANGED money
    BY <1>3 DEF PayWithWallet
  <2> QED BY <1>1, <2>1, <2>2
<1>4. ASSUME NEW d \in Desks, NEW i \in Invoices, NEW a \in Amounts,
             PartialPayment(d, i, a)
      PROVE  DeskInv' /\ UNCHANGED wallets
  <2> DEFINE r == [Nothing EXCEPT !.pc = "sum", !.job = "partial",
                                  !.sub = SubscriberOf[i], !.doc = i,
                                  !.amount = a]
  <2>1. r \in DeskRequest /\ Fits(r, wallets, settled)
    BY WalletAssumption, ConstantsAssumption
       DEF Nothing, DeskRequest, Jobs, Fits, Paying
  <2>2. desk' = [desk EXCEPT ![d] = r] /\ UNCHANGED money
    BY <1>4 DEF PartialPayment
  <2> QED BY <1>1, <2>1, <2>2
<1>5. ASSUME NEW s \in Subscribers, NEW a \in Amounts, Debit(s, a)
      PROVE  DeskInv' /\ UNCHANGED wallets
  BY <1>5, <1>0 DEF Debit, Move, DeskInv, Fits
<1>6. ASSUME NEW d \in Desks, FindWallet(d)
      PROVE  DeskInv' /\ UNCHANGED wallets
  <2>1. UNCHANGED wallets
    BY <1>6 DEF FindWallet
  <2>2. CASE Leave(d)
    BY <2>1, <2>2, LeaveKeeps
  <2>3. CASE Serve(d, "create") /\ desk[d].sub \notin wallets
    BY <1>0, <1>6, <2>1, <2>3, ServeKeeps DEF FindWallet, AtDesk, Fits, DeskRequest, Jobs, Paying
  <2>4. CASE Serve(d, "credit") /\ desk[d].sub \in wallets /\ desk[d].job \in {"credit", "back"}
    BY <1>0, <1>6, <2>1, <2>4, ServeKeeps DEF FindWallet, AtDesk, Fits, DeskRequest, Jobs, Paying
  <2>5. CASE Serve(d, "debit") /\ desk[d].sub \in wallets /\ desk[d].job = "pay"
    BY <1>0, <1>6, <2>1, <2>5, ServeKeeps DEF FindWallet, AtDesk, Fits, DeskRequest, Jobs, Paying
  <2> QED BY <1>6, <2>1, <2>2, <2>3, <2>4, <2>5 DEF FindWallet
<1>7. ASSUME NEW d \in Desks, CreateWallet(d)
      PROVE  DeskInv' /\ wallets \subseteq wallets' /\ wallets' \subseteq Subscribers
  <2>1. wallets' = wallets \cup {desk[d].sub} /\ desk[d].sub \in Subscribers
    BY <1>0, <1>7, ConstantsAssumption
       DEF CreateWallet, AtDesk, Fits, DeskRequest, Jobs
  <2>2. CASE Leave(d)
    BY <1>0, <2>1, <2>2, LeaveKeeps
  <2>3. CASE Serve(d, "credit") /\ desk[d].job # "pay"
    BY <1>0, <1>7, <2>1, <2>3, ServeKeeps
       DEF CreateWallet, AtDesk, Fits, DeskRequest, Jobs, Paying
  <2> QED BY <1>0, <1>7, <2>1, <2>2, <2>3 DEF CreateWallet
<1>8. ASSUME NEW d \in Desks, CreditTx(d) \/ NotifyPaid(d)
      PROVE  DeskInv' /\ UNCHANGED wallets
  BY <1>8, LeaveKeeps DEF CreditTx, NotifyPaid, Move
<1>9. ASSUME NEW d \in Desks, DebitTx(d)
      PROVE  DeskInv' /\ UNCHANGED wallets
  <2>1. UNCHANGED wallets /\ (Leave(d) \/ Serve(d, "row"))
    BY <1>9 DEF DebitTx, Move
  <2>2. CASE Serve(d, "row")
    BY <1>0, <1>9, <2>1, <2>2, ServeKeeps DEF DebitTx, AtDesk, Fits, DeskRequest, Jobs, Paying
  <2> QED BY <2>1, <2>2, LeaveKeeps
<1>10. ASSUME NEW d \in Desks, SumPayments(d)
       PROVE  DeskInv' /\ UNCHANGED wallets
  <2> DEFINE P == {p \in Payments : pay[p] = "SUCCESSFUL"}
             r == [desk[d] EXCEPT !.pc = "row", !.sofar = Paid(P, desk[d].doc)]
  <2>1. desk[d].doc \in Invoices /\ desk[d].pc = "sum" /\ desk[d].job = "partial"
    BY <1>0, <1>10 DEF SumPayments, AtDesk, Fits, DeskRequest, Jobs, Paying
  <2>2. Paid(P, desk[d].doc) \in Nat
    BY <2>1, PaidType
  <2>3. r \in DeskRequest /\ Fits(r, wallets, settled)
    BY <1>0, <2>1, <2>2 DEF DeskRequest, Fits, Paying
  <2>4. desk' = [desk EXCEPT ![d] = r] /\ UNCHANGED money
    BY <1>0, <1>10 DEF SumPayments
  <2> QED BY <1>1, <2>3, <2>4
<1>11. ASSUME NEW d \in Desks, PaymentRow(d)
       PROVE  DeskInv' /\ UNCHANGED wallets
  <2>1. UNCHANGED wallets /\ (Leave(d) \/ Serve(d, "markPaid") \/ Fail(d))
    BY <1>11 DEF PaymentRow
  <2>2. CASE Serve(d, "markPaid")
    BY <1>0, <1>11, <2>1, <2>2, ServeKeeps DEF PaymentRow, AtDesk, Fits, DeskRequest, Jobs, Paying
  <2> QED BY <1>11, <2>1, <2>2, LeaveKeeps, FailKeeps DEF PaymentRow, AtDesk, Paying
<1>12. ASSUME NEW d \in Desks, CheckPaid(d)
       PROVE  DeskInv' /\ UNCHANGED wallets
  <2>1. UNCHANGED wallets /\ (Serve(d, "paid") \/ Fail(d))
    BY <1>12 DEF CheckPaid
  <2>2. CASE Serve(d, "paid")
    BY <1>0, <1>12, <2>1, <2>2, ServeKeeps DEF CheckPaid, AtDesk, Fits, DeskRequest, Jobs, Paying
  <2> QED BY <1>12, <2>1, <2>2, FailKeeps DEF CheckPaid, AtDesk, Paying
<1>13. ASSUME NEW d \in Desks, WritePaid(d)
       PROVE  DeskInv' /\ UNCHANGED wallets
  <2>1. desk[d].doc \in Invoices
    BY <1>0, <1>13 DEF WritePaid, AtDesk, Fits, DeskRequest, Jobs
  <2>2. desk[d].doc \in settled' /\ UNCHANGED wallets
    BY <1>13, <2>1 DEF WritePaid
  <2> QED BY <1>0, <1>13, <2>1, <2>2, ServeKeeps
          DEF WritePaid, AtDesk, Fits, DeskRequest, Jobs, Paying
<1> QED BY <1>0, <1>2, <1>3, <1>4, <1>5, <1>6, <1>7, <1>8, <1>9, <1>10, <1>11, <1>12,
        <1>13 DEF WalletStep

\* A step that moves no money keeps the books.
LEMMA SameMoney ==
    ASSUME Books, UNCHANGED <<balance, ledger>>, wallets \subseteq wallets',
           wallets' \subseteq Subscribers
    PROVE  Books' /\ \A i : Taken(i)' = Taken(i)
<1>1. \A i : Moves(i)' = Moves(i) /\ MovesFor(i)' = MovesFor(i)
  BY DEF Moves, MovesFor
<1>2. Books'
  BY <1>1 DEF Books, MoneyTypeOK, NeverOverdrawn, LedgerExplainsBalance
<1>3. \A i : Taken(i)' = Taken(i)
  BY <1>1 DEF Taken
<1> QED BY <1>2, <1>3

\* The steps that give back and take money for an invoice.
GivesBack(d) == CreditTx(d) /\ desk[d].job = "back"
Takes(d) == DebitTx(d) /\ Serve(d, "row")

\* What the steps do to the books, and what they take for an invoice.
LEMMA MoneyStep ==
    ASSUME Books, DeskInv, WalletStep, wallets \subseteq wallets',
           wallets' \subseteq Subscribers
    PROVE  /\ Books'
           /\ \/ /\ ~ \E d \in Desks : GivesBack(d) \/ Takes(d)
                 /\ \A i \in Invoices : Taken(i)' = Taken(i)
              \/ \E d \in Desks :
                    /\ GivesBack(d)
                    /\ \A i \in Invoices :
                          Taken(i)' = Taken(i) - (IF desk[d].doc = i THEN Price[i] ELSE 0)
              \/ \E d \in Desks :
                    /\ Takes(d) /\ desk[d].job = "pay"
                    /\ \A i \in Invoices :
                          Taken(i)' = Taken(i) + (IF desk[d].doc = i THEN Price[i] ELSE 0)
<1>0. /\ \A d \in Desks : desk[d] \in DeskRequest /\ Fits(desk[d], wallets, settled)
      /\ \A i \in Invoices : Taken(i) \in Int
  <2>1. Len(ledger) \in Nat
    BY DEF Books, MoneyTypeOK
  <2>2. \A i \in Invoices : Taken(i) \in Int
    BY <2>1, MovesType, TotalType DEF Taken, Books
  <2> QED BY <2>2 DEF DeskInv
<1>1. ASSUME UNCHANGED <<balance, ledger>>
      PROVE  Books' /\ \A i \in Invoices : Taken(i)' = Taken(i)
  BY <1>1, SameMoney
<1>2. ASSUME NEW d \in Desks, CreditTx(d), desk[d].job = "credit"
      PROVE  Books' /\ \A i \in Invoices : Taken(i)' = Taken(i)
  <2> DEFINE s == desk[d].sub
             a == desk[d].amount
  <2>1. /\ s \in wallets /\ a \in Nat \ {0} /\ desk[d].doc = None
        /\ Move(s, "CREDIT", a, None)
    BY <1>0, <1>2, WalletAssumption DEF CreditTx, AtDesk, Fits
  <2>2. None \notin Invoices
    BY ConstantsAssumption
  <2> HIDE DEF s, a
  <2>3. /\ Books'
        /\ \A j \in Invoices : Taken(j)' = Taken(j) + (IF None # j THEN 0 ELSE -a)
    BY <2>1, MoveKeepsBooks
  <2> QED BY <1>0, <2>2, <2>3
<1>3. ASSUME NEW d \in Desks, CreditTx(d), desk[d].job = "back"
      PROVE  /\ Books'
             /\ \A i \in Invoices :
                   Taken(i)' = Taken(i) - (IF desk[d].doc = i THEN Price[i] ELSE 0)
  <2> DEFINE s == desk[d].sub
             j == desk[d].doc
  <2>1. /\ s \in wallets /\ j \in Invoices /\ Price[j] \in Nat \ {0}
        /\ Move(s, "CREDIT", Price[j], j)
    BY <1>0, <1>3, WalletAssumption DEF CreditTx, AtDesk, Fits
  <2> HIDE DEF s, j
  <2>2. /\ Books'
        /\ \A i \in Invoices : Taken(i)' = Taken(i) + (IF j # i THEN 0 ELSE -Price[j])
    BY <2>1, MoveKeepsBooks
  <2>3. \A i \in Invoices : Taken(i)' = Taken(i) - (IF j = i THEN Price[i] ELSE 0)
    BY <1>0, <2>1, <2>2
  <2> QED BY <2>2, <2>3 DEF j
<1>4. ASSUME NEW d \in Desks, Takes(d)
      PROVE  /\ Books' /\ desk[d].job = "pay"
             /\ \A i \in Invoices :
                   Taken(i)' = Taken(i) + (IF desk[d].doc = i THEN Price[i] ELSE 0)
  <2> DEFINE s == desk[d].sub
             j == desk[d].doc
  <2>1. /\ s \in wallets /\ j \in Invoices /\ Price[j] \in Nat \ {0}
        /\ desk[d].job = "pay"
        /\ balance[s] >= Price[j] /\ Move(s, "DEBIT", Price[j], j)
    <3>1. ~ Leave(d)
      BY <1>4 DEF Takes, Serve, Leave, Nothing, DeskInv
    <3> QED BY <1>0, <1>4, <3>1, WalletAssumption
            DEF Takes, DebitTx, AtDesk, Fits, DeskRequest, Jobs, Paying
  <2> HIDE DEF s, j
  <2>2. /\ Books'
        /\ \A i \in Invoices : Taken(i)' = Taken(i) + (IF j # i THEN 0 ELSE Price[j])
    BY <2>1, MoveKeepsBooks
  <2>3. \A i \in Invoices : Taken(i)' = Taken(i) + (IF j = i THEN Price[i] ELSE 0)
    BY <1>0, <2>1, <2>2
  <2> QED BY <2>1, <2>2, <2>3 DEF j
<1>5. ASSUME NEW s \in Subscribers, NEW a \in Amounts, Debit(s, a)
      PROVE  Books' /\ \A i \in Invoices : Taken(i)' = Taken(i)
  <2>1. /\ s \in wallets /\ a \in Nat \ {0} /\ balance[s] >= a
        /\ Move(s, "DEBIT", a, None)
    BY <1>5, WalletAssumption DEF Debit
  <2>2. None \notin Invoices
    BY ConstantsAssumption
  <2>3. /\ Books'
        /\ \A j \in Invoices : Taken(j)' = Taken(j) + (IF None # j THEN 0 ELSE a)
    BY <2>1, MoveKeepsBooks
  <2> QED BY <1>0, <2>2, <2>3
<1>6. \/ UNCHANGED <<balance, ledger>>
      \/ \E d \in Desks : CreditTx(d) \/ Takes(d)
      \/ \E s \in Subscribers, a \in Amounts : Debit(s, a)
  BY DEF WalletStep, Credit, PayWithWallet, PartialPayment, FindWallet,
     CreateWallet, SumPayments, PaymentRow, CheckPaid, WritePaid, NotifyPaid,
     DebitTx, Takes, money
<1>7. \A d \in Desks : CreditTx(d) => desk[d].job \in {"credit", "back"}
  BY <1>0 DEF CreditTx, AtDesk, Fits, DeskRequest, Jobs, Paying
<1>8. CASE \E d \in Desks : GivesBack(d)
  BY <1>3, <1>8 DEF GivesBack
<1>9. CASE \E d \in Desks : Takes(d)
  BY <1>4, <1>9
<1>10. CASE ~ \E d \in Desks : GivesBack(d) \/ Takes(d)
  BY <1>1, <1>2, <1>5, <1>6, <1>7, <1>10 DEF GivesBack
<1> QED BY <1>8, <1>9, <1>10

\* The rows of payments: at most one more, with the amount of a request.
LEMMA RowsStep ==
    ASSUME DeskInv, WalletStep
    PROVE  \/ UNCHANGED rows
           \/ \E d \in Desks :
                 /\ PaymentRow(d) /\ desk[d].pc = "row"
                 /\ [doc |-> desk[d].doc, amount |-> desk[d].amount] \in PartRow
                 /\ rows' = Append(rows, [doc |-> desk[d].doc, amount |-> desk[d].amount])
<1>1. UNCHANGED rows \/ \E d \in Desks : PaymentRow(d)
  BY DEF WalletStep, Credit, Debit, PayWithWallet, PartialPayment, FindWallet,
     CreateWallet, CreditTx, DebitTx, SumPayments, CheckPaid, WritePaid,
     NotifyPaid
<1>2. ASSUME NEW d \in Desks, PaymentRow(d)
      PROVE  [doc |-> desk[d].doc, amount |-> desk[d].amount] \in PartRow
  <2>1. desk[d].doc \in Invoices /\ desk[d].amount \in Nat \ {0}
    BY <1>2, WalletAssumption
       DEF PaymentRow, AtDesk, DeskInv, Fits, DeskRequest, Jobs, Paying
  <2> QED BY <2>1 DEF PartRow
<1> QED BY <1>1, <1>2 DEF PaymentRow, AtDesk

\* Of the tables of Payments the requests write PAID and access only.
LEMMA TablesStep ==
    ASSUME TypeInv, DeskInv, WalletStep
    PROVE  /\ TypeInv'
           /\ UNCHANGED <<pay, attempts, receipts, applied, captured, declined, proc>>
           /\ UNCHANGED inv \/ \E d \in Desks : WritePaid(d) /\ desk[d].doc \in Invoices
<1> USE DEF vars, tables, gateway
<1>0. \A d \in Desks : desk[d] \in DeskRequest /\ Fits(desk[d], wallets, settled)
  BY DEF DeskInv
<1>1. CASE UNCHANGED vars
  BY <1>1 DEF TypeInv, TypeOK, RequestInv
<1>2. ASSUME NEW d \in Desks, WritePaid(d)
      PROVE  /\ TypeInv' /\ desk[d].doc \in Invoices
             /\ UNCHANGED <<pay, attempts, receipts, applied, captured, declined, proc>>
  BY <1>0, <1>2
     DEF WritePaid, AtDesk, Fits, DeskRequest, Jobs, TypeInv, TypeOK, RequestInv,
         InvoiceStatus
<1>3. ASSUME NEW d \in Desks, NotifyPaid(d)
      PROVE  /\ TypeInv'
             /\ UNCHANGED <<inv, pay, attempts, receipts, applied, captured, declined, proc>>
  BY <1>0, <1>3
     DEF NotifyPaid, AtDesk, Fits, DeskRequest, Jobs, TypeInv, TypeOK, RequestInv
<1>4. UNCHANGED vars \/ \E d \in Desks : WritePaid(d) \/ NotifyPaid(d)
  BY DEF WalletStep, Credit, Debit, PayWithWallet, PartialPayment, FindWallet,
     CreateWallet, CreditTx, DebitTx, SumPayments, PaymentRow, CheckPaid
<1> QED BY <1>1, <1>2, <1>3, <1>4

\* The history variable settled sees every step.
Seen == settled' = settled \cup {i \in Invoices : inv'[i] = "PAID"}

\* A step outside this module's tables and requests.
LEMMA BooksUntouched ==
    ASSUME BooksIInv, TypeInv', Seen, UNCHANGED <<money, rows, desk>>,
           cutOff' \subseteq Invoices
    PROVE  BooksIInv'
<1>1. Books'
  BY SameMoney DEF money, BooksIInv, Books, MoneyTypeOK
<1>2. settled \subseteq settled'
  BY DEF Seen
<1>3. DeskInv'
  BY <1>2 DEF money, BooksIInv, DeskInv, Fits
<1> QED BY <1>1, <1>3 DEF BooksIInv, HistoryInv, Seen

\* Every step of the combined system keeps the books.
LEMMA BooksStep == BooksIInv /\ [WalletNext]_allVars => BooksIInv'
<1> SUFFICES ASSUME BooksIInv, [WalletNext]_allVars PROVE BooksIInv'
  OBVIOUS
<1>0. /\ TypeInv /\ Books /\ DeskInv /\ HistoryInv /\ rows \in Seq(PartRow)
      /\ inv \in [Invoices -> InvoiceStatus \cup {"NONE"}]
  BY DEF BooksIInv, TypeInv, TypeOK
<1>1. CASE UNCHANGED allVars
  <2>1. TypeInv' /\ UNCHANGED <<money, rows, desk, settled, cutOff, inv>>
    BY <1>0, <1>1 DEF allVars, walletVars, vars, tables, gateway, TypeInv,
       TypeOK, RequestInv
  <2>2. Books' /\ DeskInv' /\ HistoryInv'
    BY <1>0, <2>1, SameMoney DEF money, Books, MoneyTypeOK, DeskInv, HistoryInv
  <2> QED BY <1>0, <2>1, <2>2 DEF BooksIInv
<1>2. CASE WalletStep /\ UNCHANGED cutOff /\ Seen
  <2>1. TypeInv'
    BY <1>0, <1>2, TablesStep
  <2>2. /\ settled \subseteq settled'
        /\ \A i \in Invoices : inv'[i] = "PAID" => i \in settled'
    BY <1>2 DEF Seen
  <2>3. DeskInv' /\ wallets \subseteq wallets' /\ wallets' \subseteq Subscribers
    BY <1>0, <1>2, <2>2, DeskStep
  <2>4. Books'
    BY <1>0, <1>2, <2>3, MoneyStep
  <2>5. rows' \in Seq(PartRow)
    BY <1>0, <1>2, RowsStep, RowsGrow
  <2>6. HistoryInv'
    BY <1>0, <1>2, <2>2 DEF HistoryInv, Seen
  <2> QED BY <2>1, <2>3, <2>4, <2>5, <2>6 DEF BooksIInv
<1>3. ASSUME NEW d \in Desks, DeskCrash(d), Seen
      PROVE  BooksIInv'
  <2>1. TypeInv' /\ UNCHANGED <<money, rows, inv>> /\ Leave(d)
    BY <1>0, <1>3 DEF DeskCrash, vars, tables, gateway, TypeInv, TypeOK, RequestInv
  <2>2. cutOff' \subseteq Invoices
    BY <1>0, <1>3 DEF DeskCrash, HistoryInv, DeskInv, DeskRequest
  <2>3. settled \subseteq settled'
    BY <1>3 DEF Seen
  <2>4. DeskInv'
    BY <1>0, <2>1, <2>3, LeaveKeeps DEF money
  <2>5. Books'
    BY <1>0, <2>1, SameMoney DEF money, Books, MoneyTypeOK
  <2> QED BY <1>0, <1>3, <2>1, <2>2, <2>4, <2>5 DEF BooksIInv, HistoryInv, Seen
<1>4. CASE Next /\ UNCHANGED <<money, rows, desk, cutOff>> /\ Seen
  <2>1. TypeInv' /\ cutOff' \subseteq Invoices
    BY <1>0, <1>4, TypeStep DEF HistoryInv
  <2> QED BY <1>4, <2>1, BooksUntouched
<1> QED BY <1>1, <1>2, <1>3, <1>4 DEF WalletNext, Seen

\* At the start nothing was moved and nobody is served.
LEMMA BooksInit ==
    ASSUME WalletInit
    PROVE  BooksIInv /\ \A i \in Invoices : Taken(i) = 0
<1>1. TypeInv /\ \A i \in Invoices : inv[i] = "NONE"
  BY InitInv DEF WalletInit, Init
<1>2. MoneyTypeOK /\ NeverOverdrawn /\ ledger = << >> /\ Len(ledger) = 0
  BY DEF WalletInit, MoneyTypeOK, NeverOverdrawn
<1>3. /\ \A s : Total(Moves(s), 0) = 0
      /\ \A i : Total(MovesFor(i), 0) = 0
  BY <1>2, MovesType, TotalSteps
<1>4. LedgerExplainsBalance
  BY <1>2, <1>3 DEF WalletInit, LedgerExplainsBalance
<1>5. Nothing \in DeskRequest /\ Fits(Nothing, wallets, settled)
  BY DEF Nothing, DeskRequest, Jobs, Fits
<1>6. DeskInv /\ HistoryInv /\ rows \in Seq(PartRow)
  BY <1>1, <1>5 DEF WalletInit, DeskInv, HistoryInv
<1>7. \A i \in Invoices : Taken(i) = 0
  BY <1>2, <1>3 DEF Taken
<1> QED BY <1>1, <1>2, <1>4, <1>6, <1>7 DEF BooksIInv, Books

\* However creations, credits, debits, payments and give-backs race, fail and
\* are cut off, no wallet is overdrawn and the ledger explains every balance.
THEOREM BooksAreRight == WalletSpec => []WalletInv
<1>1. BooksIInv => WalletInv
  BY DEF BooksIInv, Books, MoneyTypeOK, DeskInv, HistoryInv, WalletInv,
     WalletTypeOK, PartRow
<1>2. WalletInit => BooksIInv
  BY BooksInit
<1> QED BY <1>1, <1>2, BooksStep, PTL DEF WalletSpec

-------------------------------------------------------------------------------
(***************************************************************************)
(* Money back or paid.                                                     *)
(***************************************************************************)

\* The request r has debited the price of invoice i and not given it back.
Holds(r, i) ==
    /\ r.doc = i
    /\ \/ r.job = "pay" /\ r.pc \in {"row", "markPaid", "paid"}
       \/ r.job = "back"

\* The requests that hold money of an invoice.
Holders(i) == {d \in Desks : Holds(desk[d], i)}

\* Until an invoice is PAID or one of its requests is cut off, what the wallet
\* payments have taken for it is the price times the requests that hold it.
TakenInv ==
    \A i \in Invoices \ (settled \cup cutOff) :
        Taken(i) = Price[i] * Cardinality(Holders(i))

\* Besides taking and giving back, no step changes who holds what.
LEMMA HoldersFrame ==
    ASSUME DeskInv, inv \in [Invoices -> InvoiceStatus \cup {"NONE"}], WalletStep, Seen,
           ~ \E d \in Desks : GivesBack(d) \/ Takes(d),
           NEW i \in Invoices \ settled'
    PROVE  Holders(i)' = Holders(i)
<1>0. /\ desk \in [Desks -> DeskRequest]
      /\ \A d \in Desks : Fits(desk[d], wallets, settled)
      /\ None \notin Invoices
  BY ConstantsAssumption DEF DeskInv
<1>1. ASSUME NEW d \in Desks, \A c \in Desks \ {d} : desk'[c] = desk[c],
             Holds(desk'[d], i) <=> Holds(desk[d], i)
      PROVE  Holders(i)' = Holders(i)
  BY <1>1 DEF Holders
<1>2. ASSUME NEW d \in Desks, NEW s \in Subscribers, NEW a \in Amounts, Credit(d, s, a)
      PROVE  Holders(i)' = Holders(i)
  BY <1>0, <1>1, <1>2 DEF Credit, AtDesk, Fits, Nothing, Holds, DeskRequest
<1>3. ASSUME NEW d \in Desks, NEW j \in Invoices, PayWithWallet(d, j)
      PROVE  Holders(i)' = Holders(i)
  BY <1>0, <1>1, <1>3 DEF PayWithWallet, AtDesk, Fits, Nothing, Holds, DeskRequest, Jobs, Paying
<1>4. ASSUME NEW d \in Desks, NEW j \in Invoices, NEW a \in Amounts,
             PartialPayment(d, j, a)
      PROVE  Holders(i)' = Holders(i)
  BY <1>0, <1>1, <1>4 DEF PartialPayment, AtDesk, Fits, Nothing, Holds, DeskRequest, Jobs, Paying
<1>5. ASSUME NEW s \in Subscribers, NEW a \in Amounts, Debit(s, a)
      PROVE  Holders(i)' = Holders(i)
  BY <1>5 DEF Debit, Holders
<1>6. ASSUME NEW d \in Desks, Leave(d), ~Holds(desk[d], i)
      PROVE  Holders(i)' = Holders(i)
  BY <1>0, <1>1, <1>6 DEF Leave, Nothing, Holds
<1>7. ASSUME NEW d \in Desks, NEW l, Serve(d, l),
             Holds([desk[d] EXCEPT !.pc = l], i) <=> Holds(desk[d], i)
      PROVE  Holders(i)' = Holders(i)
  <2>1. desk'[d] = [desk[d] EXCEPT !.pc = l] /\ \A c \in Desks \ {d} : desk'[c] = desk[c]
    BY <1>0, <1>7 DEF Serve
  <2> QED BY <1>1, <1>7, <2>1
<1>8. ASSUME NEW d \in Desks, Fail(d), desk[d].pc \in {"row", "markPaid"}
      PROVE  Holders(i)' = Holders(i)
  <2>1. CASE desk[d].job = "pay"
    <3>1. /\ desk'[d] = [desk[d] EXCEPT !.pc = "find", !.job = "back"]
          /\ \A c \in Desks \ {d} : desk'[c] = desk[c]
      BY <1>0, <1>8, <2>1 DEF Fail, GiveBack
    <3>2. Holds(desk'[d], i) <=> Holds(desk[d], i)
      BY <1>0, <1>8, <2>1, <3>1 DEF Holds, DeskRequest
    <3> QED BY <1>1, <3>1, <3>2
  <2>2. CASE desk[d].job # "pay"
    BY <1>0, <1>6, <1>8, <2>2 DEF Fail, Holds, Fits
  <2> QED BY <2>1, <2>2
<1>9. ASSUME NEW d \in Desks, FindWallet(d)
      PROVE  Holders(i)' = Holders(i)
  <2>1. desk[d].pc = "find"
    BY <1>9 DEF FindWallet, AtDesk
  <2>2. CASE Serve(d, "create") \/ Serve(d, "credit") \/ Serve(d, "debit")
    BY <1>0, <1>7, <2>1, <2>2 DEF Holds, DeskRequest
  <2>3. CASE Leave(d) /\ desk[d].job = "pay"
    BY <1>0, <1>6, <2>1, <2>3 DEF Holds
  <2> QED BY <1>9, <2>2, <2>3 DEF FindWallet
<1>10. ASSUME NEW d \in Desks, CreateWallet(d)
       PROVE  Holders(i)' = Holders(i)
  <2>1. desk[d].pc = "create"
    BY <1>10 DEF CreateWallet, AtDesk
  <2>2. ~Holds(desk[d], i)
    BY <1>0, <2>1 DEF Holds, Fits
  <2>3. CASE Serve(d, "credit")
    BY <1>0, <1>7, <2>1, <2>3 DEF Holds, DeskRequest
  <2> QED BY <1>6, <1>10, <2>2, <2>3 DEF CreateWallet
<1>11. ASSUME NEW d \in Desks, CreditTx(d)
       PROVE  Holders(i)' = Holders(i)
  <2>1. desk[d].pc = "credit" /\ desk[d].job # "back" /\ Leave(d)
    BY <1>11 DEF CreditTx, AtDesk, GivesBack
  <2> QED BY <1>0, <1>6, <2>1 DEF Holds
<1>12. ASSUME NEW d \in Desks, DebitTx(d)
       PROVE  Holders(i)' = Holders(i)
  <2>1. desk[d].pc = "debit" /\ Leave(d)
    BY <1>12 DEF DebitTx, AtDesk, Takes
  <2> QED BY <1>0, <1>6, <2>1 DEF Holds, Fits
<1>13. ASSUME NEW d \in Desks, SumPayments(d)
       PROVE  Holders(i)' = Holders(i)
  <2>1. desk[d].job = "partial" /\ \A c \in Desks \ {d} : desk'[c] = desk[c]
    BY <1>0, <1>13 DEF SumPayments, AtDesk, Fits, DeskRequest, Jobs, Paying
  <2>2. desk'[d].job = "partial"
    BY <1>0, <1>13, <2>1 DEF SumPayments, DeskRequest
  <2> QED BY <1>1, <2>1, <2>2 DEF Holds
<1>14. ASSUME NEW d \in Desks, PaymentRow(d)
       PROVE  Holders(i)' = Holders(i)
  <2>1. desk[d].pc = "row"
    BY <1>14 DEF PaymentRow, AtDesk
  <2>2. CASE Serve(d, "markPaid")
    BY <1>0, <1>7, <2>1, <2>2 DEF Holds, DeskRequest
  <2>3. CASE Leave(d) /\ desk[d].job # "pay"
    BY <1>0, <1>6, <2>1, <2>3 DEF Holds, Fits
  <2> QED BY <1>8, <1>14, <2>1, <2>2, <2>3 DEF PaymentRow
<1>15. ASSUME NEW d \in Desks, CheckPaid(d)
       PROVE  Holders(i)' = Holders(i)
  <2>1. desk[d].pc = "markPaid"
    BY <1>15 DEF CheckPaid, AtDesk
  <2>2. CASE Serve(d, "paid")
    BY <1>0, <1>7, <2>1, <2>2 DEF Holds, DeskRequest
  <2> QED BY <1>8, <1>15, <2>1, <2>2 DEF CheckPaid
<1>16. ASSUME NEW d \in Desks, WritePaid(d)
       PROVE  Holders(i)' = Holders(i)
  <2>1. desk[d].pc = "paid" /\ desk[d].doc # i /\ Serve(d, "notify")
    BY <1>16 DEF WritePaid, AtDesk, Seen
  <2> QED BY <1>0, <1>7, <2>1 DEF Holds, DeskRequest
<1>17. ASSUME NEW d \in Desks, NotifyPaid(d)
       PROVE  Holders(i)' = Holders(i)
  <2>1. desk[d].pc = "notify" /\ Leave(d)
    BY <1>17 DEF NotifyPaid, AtDesk
  <2> QED BY <1>0, <1>6, <2>1 DEF Holds, Fits
<1> QED BY <1>2, <1>3, <1>4, <1>5, <1>9, <1>10, <1>11, <1>12, <1>13, <1>14, <1>15,
        <1>16, <1>17 DEF WalletStep

\* Taking adds a holder, giving back removes one.
LEMMA HoldersChange ==
    ASSUME DeskInv, NEW d \in Desks, NEW i \in Invoices
    PROVE  /\ Takes(d) /\ desk[d].job = "pay" =>
                 /\ d \notin Holders(i)
                 /\ Holders(i)' = IF desk[d].doc = i THEN Holders(i) \cup {d} ELSE Holders(i)
           /\ GivesBack(d) =>
                 /\ desk[d].doc = i => d \in Holders(i)
                 /\ Holders(i)' = IF desk[d].doc = i THEN Holders(i) \ {d} ELSE Holders(i)
<1>0. desk \in [Desks -> DeskRequest] /\ None \notin Invoices
  BY ConstantsAssumption DEF DeskInv
<1>1. ASSUME Takes(d), desk[d].job = "pay"
      PROVE  /\ d \notin Holders(i)
             /\ Holders(i)' = IF desk[d].doc = i THEN Holders(i) \cup {d} ELSE Holders(i)
  <2>1. /\ desk[d].pc = "debit" /\ desk'[d] = [desk[d] EXCEPT !.pc = "row"]
        /\ \A c \in Desks \ {d} : desk'[c] = desk[c]
    BY <1>0, <1>1 DEF Takes, DebitTx, AtDesk, Serve
  <2>2. ~Holds(desk[d], i) /\ (Holds(desk'[d], i) <=> desk[d].doc = i)
    BY <1>0, <1>1, <2>1 DEF Holds, DeskRequest
  <2> QED BY <2>1, <2>2 DEF Holders
<1>2. ASSUME GivesBack(d)
      PROVE  /\ desk[d].doc = i => d \in Holders(i)
             /\ Holders(i)' = IF desk[d].doc = i THEN Holders(i) \ {d} ELSE Holders(i)
  <2>1. /\ desk[d].job = "back" /\ desk'[d] = Nothing
        /\ \A c \in Desks \ {d} : desk'[c] = desk[c]
    BY <1>0, <1>2 DEF GivesBack, CreditTx, Leave
  <2>2. (Holds(desk[d], i) <=> desk[d].doc = i) /\ ~Holds(desk'[d], i)
    BY <1>0, <2>1 DEF Holds, Nothing
  <2> QED BY <2>1, <2>2 DEF Holders
<1> QED BY <1>1, <1>2

\* One holder more, one price more.
LEMMA OneHolderMore ==
    ASSUME NEW H \in SUBSET Desks, NEW d \in Desks \ H, NEW i \in Invoices
    PROVE  /\ Price[i] * Cardinality(H) \in Int
           /\ Price[i] * Cardinality(H \cup {d}) = Price[i] * Cardinality(H) + Price[i]
<1>1. IsFiniteSet(H)
  BY WalletAssumption, FS_Subset
<1>2. Cardinality(H) \in Nat /\ Cardinality(H \cup {d}) = Cardinality(H) + 1
  BY <1>1, FS_CardinalityType, FS_AddElement
<1>3. Price[i] \in Nat
  BY WalletAssumption
<1>4. \A x, y \in Nat : x * y \in Int /\ x * (y + 1) = x * y + x
  OBVIOUS
<1> QED BY <1>2, <1>3, <1>4

\* The steps keep the account of what was taken.
LEMMA TakenStep == BooksIInv /\ TakenInv /\ [WalletNext]_allVars => TakenInv'
<1> SUFFICES ASSUME BooksIInv, TakenInv, [WalletNext]_allVars,
                    NEW i \in Invoices, i \notin settled', i \notin cutOff'
             PROVE  Taken(i)' = Price[i] * Cardinality(Holders(i)')
  BY DEF TakenInv
<1>0. /\ TypeInv /\ Books /\ DeskInv /\ HistoryInv
      /\ inv \in [Invoices -> InvoiceStatus \cup {"NONE"}]
      /\ wallets \subseteq Subscribers
  BY DEF BooksIInv, TypeInv, TypeOK, Books, MoneyTypeOK
<1>1. CASE UNCHANGED <<money, desk, settled, cutOff>>
  <2>1. Taken(i)' = Taken(i) /\ Holders(i)' = Holders(i)
    BY <1>0, <1>1, SameMoney DEF money, Holders
  <2> QED BY <1>1, <2>1 DEF TakenInv
<1>2. ASSUME WalletNext
      PROVE  i \notin settled /\ i \notin cutOff
  BY <1>2 DEF WalletNext, DeskCrash
<1>3. CASE WalletStep /\ UNCHANGED cutOff /\ Seen /\ WalletNext
  <2>1. Taken(i) = Price[i] * Cardinality(Holders(i))
    BY <1>2, <1>3 DEF TakenInv
  <2>2. DeskInv' /\ wallets \subseteq wallets' /\ wallets' \subseteq Subscribers
    <3>1. /\ settled \subseteq settled' /\ rows \in Seq(PartRow)
          /\ \A j \in Invoices : inv'[j] = "PAID" => j \in settled'
      BY <1>3 DEF Seen, BooksIInv
    <3> QED BY <1>0, <1>3, <3>1, DeskStep
  <2>3. Holders(i) \in SUBSET Desks
    BY DEF Holders
  <2>4. CASE /\ ~ \E d \in Desks : GivesBack(d) \/ Takes(d)
             /\ \A j \in Invoices : Taken(j)' = Taken(j)
    <3>1. Holders(i)' = Holders(i)
      BY <1>0, <1>3, <2>4, HoldersFrame
    <3> QED BY <2>1, <2>4, <3>1
  <2>5. ASSUME NEW d \in Desks, GivesBack(d),
               \A j \in Invoices :
                  Taken(j)' = Taken(j) - (IF desk[d].doc = j THEN Price[j] ELSE 0)
        PROVE  Taken(i)' = Price[i] * Cardinality(Holders(i)')
    <3> DEFINE H == Holders(i)'
    <3>1. CASE desk[d].doc = i
      <4>1. H \in SUBSET Desks /\ d \in Desks \ H /\ Holders(i) = H \cup {d}
        BY <1>0, <2>3, <2>5, <3>1, HoldersChange
      <4> HIDE DEF H
      <4>2. /\ Price[i] * Cardinality(H) \in Int
            /\ Price[i] * Cardinality(H \cup {d}) = Price[i] * Cardinality(H) + Price[i]
        BY <4>1, OneHolderMore
      <4>3. Price[i] \in Int /\ Taken(i)' = Taken(i) - Price[i]
        BY <2>5, <3>1, WalletAssumption
      <4> DEFINE x == Price[i] * Cardinality(H)
      <4>4. x \in Int /\ Taken(i) = x + Price[i]
        BY <2>1, <4>1, <4>2
      <4> HIDE DEF x
      <4>5. Taken(i)' = x
        BY <4>3, <4>4
      <4> QED BY <4>5 DEF H, x
    <3>2. CASE desk[d].doc # i
      <4>1. Holders(i)' = Holders(i)
        BY <1>0, <2>5, <3>2, HoldersChange
      <4>2. Taken(i) \in Int /\ Taken(i)' = Taken(i) - 0
        BY <1>0, <2>5, <3>2, MovesType, TotalType DEF Taken, Books, MoneyTypeOK
      <4>3. Taken(i)' = Taken(i)
        BY <4>2
      <4> QED BY <2>1, <4>1, <4>3
    <3> QED BY <3>1, <3>2
  <2>6. ASSUME NEW d \in Desks, Takes(d), desk[d].job = "pay",
               \A j \in Invoices :
                  Taken(j)' = Taken(j) + (IF desk[d].doc = j THEN Price[j] ELSE 0)
        PROVE  Taken(i)' = Price[i] * Cardinality(Holders(i)')
    <3>1. CASE desk[d].doc = i
      <4>1. d \in Desks \ Holders(i) /\ Holders(i)' = Holders(i) \cup {d}
        BY <1>0, <2>6, <3>1, HoldersChange
      <4>2. Price[i] * Cardinality(Holders(i) \cup {d}) = Price[i] * Cardinality(Holders(i)) + Price[i]
        BY <2>3, <4>1, OneHolderMore
      <4>3. Taken(i)' = Taken(i) + Price[i]
        BY <2>6, <3>1
      <4> QED BY <2>1, <4>1, <4>2, <4>3
    <3>2. CASE desk[d].doc # i
      <4>1. Holders(i)' = Holders(i)
        BY <1>0, <2>6, <3>2, HoldersChange
      <4>2. Taken(i) \in Int /\ Taken(i)' = Taken(i) + 0
        BY <1>0, <2>6, <3>2, MovesType, TotalType DEF Taken, Books, MoneyTypeOK
      <4>3. Taken(i)' = Taken(i)
        BY <4>2
      <4> QED BY <2>1, <4>1, <4>3
    <3> QED BY <3>1, <3>2
  <2> QED BY <1>0, <1>3, <2>2, <2>4, <2>5, <2>6, MoneyStep
<1>4. ASSUME NEW d \in Desks, DeskCrash(d), WalletNext
      PROVE  Taken(i)' = Price[i] * Cardinality(Holders(i)')
  <2>1. Taken(i)' = Taken(i)
    BY <1>0, <1>4, SameMoney DEF DeskCrash, money
  <2>2. /\ desk'[d] = Nothing /\ \A c \in Desks \ {d} : desk'[c] = desk[c]
        /\ desk[d].doc # i
    BY <1>0, <1>4, ConstantsAssumption DEF DeskCrash, Leave, DeskInv
  <2>3. Holders(i)' = Holders(i)
    BY <2>2, ConstantsAssumption DEF Holders, Holds, Nothing
  <2> QED BY <1>2, <1>4, <2>1, <2>3 DEF TakenInv
<1>5. CASE UNCHANGED <<money, desk, cutOff>> /\ WalletNext
  <2>1. Taken(i)' = Taken(i) /\ Holders(i)' = Holders(i)
    BY <1>0, <1>5, SameMoney DEF money, Holders
  <2> QED BY <1>2, <1>5, <2>1 DEF TakenInv
<1> QED BY <1>1, <1>3, <1>4, <1>5 DEF WalletNext, Seen, allVars, walletVars

\* Money that a wallet payment took is held by a request that still works on
\* the invoice, or the invoice was PAID, unless a request was cut off; no
\* interleaving of payments, failures and give-backs loses or doubles it.
THEOREM MoneyIsBackOrPaid == WalletSpec => []MoneyBackOrPaid
<1>1. BooksIInv /\ TakenInv => MoneyBackOrPaid
  <2> SUFFICES ASSUME TakenInv, NEW i \in Invoices \ (settled \cup cutOff),
                      ~ \E d \in Serving : desk[d].doc = i /\ desk[d].job # "partial",
                      DeskInv
               PROVE  Taken(i) = 0
    BY DEF MoneyBackOrPaid, BooksIInv
  <2>1. Holders(i) = {}
    BY DEF Holders, Holds, Serving, AtDesk, DeskInv, Fits
  <2>2. Cardinality(Holders(i)) = 0
    BY <2>1, FS_EmptySet
  <2>3. Price[i] \in Nat /\ Taken(i) = Price[i] * 0
    BY <2>2, WalletAssumption DEF TakenInv
  <2> QED BY <2>3
<1>2. WalletInit => BooksIInv /\ TakenInv
  <2> SUFFICES ASSUME WalletInit, NEW i \in Invoices
               PROVE  Taken(i) = Price[i] * Cardinality(Holders(i))
    BY BooksInit DEF TakenInv
  <2>1. Holders(i) = {}
    BY ConstantsAssumption DEF Holders, Holds, WalletInit, Nothing
  <2>2. Cardinality(Holders(i)) = 0 /\ Price[i] \in Nat
    BY <2>1, FS_EmptySet, WalletAssumption
  <2> QED BY <2>2, BooksInit
<1> QED BY <1>1, <1>2, BooksStep, TakenStep, PTL DEF WalletSpec

-------------------------------------------------------------------------------
(***************************************************************************)
(* Paid in full.                                                           *)
(***************************************************************************)
Backed == {p \in Payments : p \in captured \/ HasReceipt(p)}

\* What was really received for invoice i, and what the requests that are
\* about to pay it know of that.
Received(i) == Paid(Backed, i)

\* A payment that is SUCCESSFUL was received, and a request that is about to
\* mark an invoice PAID has seen its price received.
ReceivedInv ==
    /\ \A p \in Payments : pay[p] = "SUCCESSFUL" => p \in Backed
    /\ \A d \in Desks, i \in Invoices :
          desk[d].doc = i =>
             /\ desk[d].pc \in {"markPaid", "paid"} => Received(i) >= Price[i]
             /\ desk[d].pc = "row" /\ desk[d].job = "partial" =>
                   desk[d].sofar <= Received(i)

\* What PaymentsProofs says of the receipts and the money.
LedgersInv == ReceiptInv /\ FundedInv /\ IssuedInv

\* A payment becomes SUCCESSFUL when it is settled, claimed or receipted.
LEMMA SuccessFrame ==
    ASSUME TypeInv, [Next]_vars, NEW p \in Payments,
           pay'[p] = "SUCCESSFUL", pay[p] # "SUCCESSFUL"
    PROVE  \E w \in Workers :
              /\ proc[w].ref = p
              /\ MarkPaidCommit(w) \/ proc[w].pc \in {"settle", "claim"}
<1> USE DEF tables, gateway
<1>0. pay \in [Payments -> PaymentStatus \cup {"NONE"}]
  BY DEF TypeInv, TypeOK
<1>1. ASSUME NEW w \in Workers, NEW q \in Payments, Arrive(w, q)
      PROVE  pay'[p] # "SUCCESSFUL"
  BY <1>0, <1>1 DEF Arrive, Initialize, PayInvoice, OrderPlan, PaystackSuccess,
     PaystackFailed, FlutterwaveCompleted, FlutterwaveFailed, GenericWebhook,
     Verify, RecordOffline
<1>2. ASSUME NEW w \in Workers, Continue(w)
      PROVE  /\ proc[w].ref = p
             /\ MarkPaidCommit(w) \/ proc[w].pc \in {"settle", "claim"}
  <2>1. MarkPaidCommit(w) \/ SettlePayment(w) \/ ClaimPayment(w)
    BY <1>0, <1>2 DEF Continue, CreatePayment, ProviderAccepts, ProviderRejects,
       FailPayment, VerifySuccess, VerifyFailed, VerifyInconclusive, ApplyPlan,
       MarkPaidRead, ReadReceiptNumber, MarkPaidCollision, NotifyRadius,
       WriteStatus
  <2> QED BY <1>0, <2>1 DEF MarkPaidCommit, SettlePayment, ClaimPayment, At
<1>3. ~ (\/ UNCHANGED vars
         \/ \E w \in Workers : Crash(w)
         \/ \E w \in Workers, i \in Invoices :
               \E target \in {"ISSUED", "VOID", "OVERDUE"} : ChangeStatus(w, i, target)
         \/ \E q \in Payments : Capture(q) \/ Decline(q)
         \/ \E i \in Invoices : CreateInvoice(i))
  BY DEF vars, Crash, ChangeStatus, Capture, Decline, CreateInvoice
<1> QED BY <1>1, <1>2, <1>3 DEF Next

\* What was received is not lost, and a row adds its amount.
LEMMA ReceivedGrows ==
    ASSUME rows \in Seq(PartRow), Backed \subseteq Backed', NEW i \in Invoices
    PROVE  /\ Received(i) \in Nat
           /\ UNCHANGED rows => Received(i)' \in Nat /\ Received(i) <= Received(i)'
           /\ \A r \in PartRow :
                 rows' = Append(rows, r) =>
                    /\ Received(i)' \in Nat
                    /\ Received(i) + (IF r.doc = i THEN r.amount ELSE 0) <= Received(i)'
<1> DEFINE money1 == Price[i] * Cardinality({p \in Backed' : InvoiceOf[p] = i})
           parts == Total(Parts(i), Len(rows))
           was == Paid(Backed, i)
<1>1. Backed \in SUBSET Payments /\ Backed' \in SUBSET Payments
  BY DEF Backed
<1>2. /\ was \in Nat /\ Paid(Backed', i) \in Nat /\ parts \in Nat
      /\ Cardinality({p \in Backed' : InvoiceOf[p] = i}) \in Nat
  BY <1>1, PaidType
<1>3. was <= Paid(Backed', i)
  BY <1>1, PaidGrows
<1>4. Price[i] \in Nat /\ \A x, y \in Nat : x * y \in Nat
  BY WalletAssumption
<1>5. money1 \in Nat
  BY <1>2, <1>4
<1>6. Paid(Backed', i) = money1 + parts
  BY DEF Paid
<1>7. Received(i)' = money1 + Total(Parts(i)', Len(rows'))
  BY DEF Received, Paid
<1>8. Received(i) = was
  BY DEF Received
<1>9. ASSUME UNCHANGED rows
      PROVE  Total(Parts(i)', Len(rows')) = parts
  BY <1>9 DEF Parts
<1>10. ASSUME NEW r \in PartRow, rows' = Append(rows, r)
       PROVE  /\ Total(Parts(i)', Len(rows')) = parts + (IF r.doc = i THEN r.amount ELSE 0)
              /\ r.amount \in Nat
  BY <1>10, RowsGrow DEF PartRow
<1> HIDE DEF money1, parts, was
<1> QED BY <1>2, <1>3, <1>5, <1>6, <1>7, <1>8, <1>9, <1>10

\* How a request comes to pay an invoice.
LEMMA PayingFrame ==
    ASSUME DeskInv, WalletStep, NEW d \in Desks, desk'[d] # desk[d]
    PROVE  /\ desk'[d].pc = "markPaid" =>
                 /\ PaymentRow(d) /\ desk'[d].doc = desk[d].doc
                 /\ rows' = Append(rows, [doc |-> desk[d].doc, amount |-> desk[d].amount])
                 /\ \/ desk[d].job = "pay"
                    \/ desk[d].sofar + desk[d].amount >= Price[desk[d].doc]
           /\ desk'[d].pc = "paid" =>
                 desk[d].pc = "markPaid" /\ desk'[d].doc = desk[d].doc
           /\ desk'[d].pc = "row" /\ desk'[d].job = "partial" =>
                 /\ SumPayments(d) /\ desk'[d].doc = desk[d].doc /\ desk[d].doc \in Invoices
                 /\ desk'[d].sofar = Paid({p \in Payments : pay[p] = "SUCCESSFUL"}, desk[d].doc)
<1>0. /\ desk \in [Desks -> DeskRequest]
      /\ \A c \in Desks : desk[c] \in DeskRequest /\ Fits(desk[c], wallets, settled)
  BY DEF DeskInv
<1>1. ASSUME NEW c \in Desks, NEW l, Serve(c, l)
      PROVE  /\ c = d /\ desk'[d].pc = l
             /\ desk'[d].doc = desk[d].doc /\ desk'[d].job = desk[d].job
  BY <1>0, <1>1 DEF Serve, DeskRequest
<1>2. ASSUME NEW c \in Desks, Leave(c)
      PROVE  c = d /\ desk'[d].pc = "idle"
  BY <1>0, <1>2 DEF Leave, Nothing
<1>3. ASSUME NEW c \in Desks, Fail(c)
      PROVE  c = d /\ desk'[d].pc \in {"idle", "find"}
  <2>1. CASE desk[c].job = "pay"
    BY <1>0, <1>3, <2>1 DEF Fail, GiveBack, DeskRequest
  <2>2. CASE desk[c].job # "pay"
    BY <1>2, <1>3, <2>2 DEF Fail
  <2> QED BY <2>1, <2>2
<1>4. ASSUME NEW c \in Desks, PaymentRow(c)
      PROVE  /\ c = d /\ desk'[d].pc \in {"idle", "find", "markPaid"}
             /\ desk'[d].pc = "markPaid" =>
                   /\ desk'[d].doc = desk[d].doc
                   /\ rows' = Append(rows, [doc |-> desk[d].doc, amount |-> desk[d].amount])
                   /\ \/ desk[d].job = "pay"
                      \/ desk[d].sofar + desk[d].amount >= Price[desk[d].doc]
  <2>1. CASE Serve(c, "markPaid")
    <3>1. c = d /\ desk'[d].pc = "markPaid" /\ desk'[d].doc = desk[d].doc
      BY <1>1, <2>1
    <3>2. ~Leave(d) /\ ~Fail(d)
      BY <1>2, <1>3, <3>1
    <3> QED BY <1>4, <3>1, <3>2 DEF PaymentRow
  <2>2. CASE Leave(c) \/ Fail(c)
    BY <1>2, <1>3, <2>2
  <2> QED BY <1>4, <2>1, <2>2 DEF PaymentRow
<1>5. ASSUME NEW c \in Desks, CheckPaid(c)
      PROVE  /\ c = d /\ desk'[d].pc \in {"idle", "find", "paid"}
             /\ desk[d].pc = "markPaid"
             /\ desk'[d].pc = "paid" => desk'[d].doc = desk[d].doc
  BY <1>1, <1>3, <1>5 DEF CheckPaid, AtDesk
<1>6. ASSUME NEW c \in Desks, SumPayments(c)
      PROVE  /\ c = d /\ desk'[d].pc = "row" /\ desk'[d].doc = desk[d].doc
             /\ desk[d].doc \in Invoices
             /\ desk'[d].sofar = Paid({p \in Payments : pay[p] = "SUCCESSFUL"}, desk[d].doc)
  BY <1>0, <1>6 DEF SumPayments, AtDesk, Fits, DeskRequest, Jobs, Paying
<1>7. ASSUME NEW c \in Desks, DebitTx(c)
      PROVE  c = d /\ desk'[d].pc \in {"idle", "row"} /\ (desk'[d].pc = "row" => desk'[d].job = "pay")
  <2>1. desk[c].job = "pay"
    BY <1>0, <1>7 DEF DebitTx, AtDesk, Fits, DeskRequest, Jobs, Paying
  <2> QED BY <1>1, <1>2, <1>7, <2>1 DEF DebitTx
<1>8. ASSUME NEW c \in Desks, \/ FindWallet(c) \/ CreateWallet(c) \/ CreditTx(c)
                               \/ WritePaid(c) \/ NotifyPaid(c)
      PROVE  desk'[d].pc \notin {"markPaid", "paid", "row"}
  <2>1. \/ Leave(c) \/ Serve(c, "create") \/ Serve(c, "credit") \/ Serve(c, "debit")
        \/ Serve(c, "notify")
    BY <1>8 DEF FindWallet, CreateWallet, CreditTx, WritePaid, NotifyPaid
  <2> QED BY <1>1, <1>2, <2>1
<1>9. ASSUME \/ \E c \in Desks, t \in Subscribers, a \in Amounts : Credit(c, t, a)
             \/ \E t \in Subscribers, a \in Amounts : Debit(t, a)
             \/ \E c \in Desks, i \in Invoices : PayWithWallet(c, i)
             \/ \E c \in Desks, i \in Invoices, a \in Amounts : PartialPayment(c, i, a)
      PROVE  desk'[d].pc \notin {"markPaid", "paid", "row"}
  BY <1>0, <1>9 DEF Credit, Debit, PayWithWallet, PartialPayment, Nothing
<1> QED BY <1>4, <1>5, <1>6, <1>7, <1>8, <1>9 DEF WalletStep

\* What is received stays received.
LEMMA BackedGrows ==
    ASSUME TypeInv, [Next]_vars
    PROVE  Backed \subseteq Backed'
<1>1. captured \subseteq captured'
  BY AppliedFrame DEF Capture
<1>2. \A p \in Payments : HasReceipt(p) => HasReceipt(p)'
  BY ReceiptFrame, ReceiptsAfterCommit DEF HasReceipt
<1> QED BY <1>1, <1>2 DEF Backed

\* The requests of this module leave the receipts and the gateways' money
\* alone, and a PAID invoice has been issued.
LEMMA LedgersUntouched ==
    ASSUME TypeInv, LedgersInv,
           UNCHANGED <<receipts, applied, captured, proc>>,
           \A i \in Invoices : inv'[i] = inv[i] \/ inv'[i] = "PAID"
    PROVE  LedgersInv' /\ Backed' = Backed
<1>1. ReceiptInv'
  BY DEF LedgersInv, ReceiptInv, ReceiptsNumberedInOrder, OneReceiptPerReference,
     NumberInv
<1>2. FundedInv'
  BY DEF LedgersInv, FundedInv, NothingForFree
<1>3. IssuedInv'
  <2>1. \A w \in Workers :
           proc[w].pc \in {"number", "commit", "write"} => proc[w].doc \in Invoices
    BY ConstantsAssumption DEF TypeInv, RequestInv, OnPayment, MarkingPaid
  <2> QED BY <2>1 DEF LedgersInv, IssuedInv
<1>4. Backed' = Backed
  BY DEF Backed, HasReceipt
<1> QED BY <1>1, <1>2, <1>3, <1>4 DEF LedgersInv

\* The steps of Payments' requests.
LEMMA ReceivedByPayments ==
    ASSUME ConfirmedOnly, BooksIInv, LedgersInv, ReceivedInv, PaidInFull,
           Next, UNCHANGED <<rows, desk>>
    PROVE  LedgersInv' /\ ReceivedInv' /\ PaidInFull'
<1>0. /\ TypeInv /\ DeskInv /\ rows \in Seq(PartRow)
      /\ ReceiptInv /\ FundedInv /\ IssuedInv /\ [Next]_vars
  BY DEF BooksIInv, LedgersInv
<1>1. LedgersInv'
  BY <1>0, ReceiptStep, FundedStep, IssuedStep DEF LedgersInv
<1>2. Backed \subseteq Backed'
  BY <1>0, BackedGrows
<1>3. ASSUME NEW i \in Invoices
      PROVE  /\ Received(i) \in Nat /\ Received(i)' \in Nat
             /\ Received(i) <= Received(i)' /\ Price[i] \in Nat
  BY <1>0, <1>2, ReceivedGrows, WalletAssumption
<1>4. ASSUME NEW p \in Payments, pay'[p] = "SUCCESSFUL"
      PROVE  p \in Backed'
  <2>1. CASE pay[p] = "SUCCESSFUL"
    BY <1>2, <2>1 DEF ReceivedInv
  <2>2. ASSUME NEW w \in Workers, proc[w].ref = p, MarkPaidCommit(w)
        PROVE  p \in Backed'
    <3>1. HasReceipt(p)'
      BY <1>0, <2>2, ReceiptsAfterCommit
    <3> QED BY <3>1 DEF Backed
  <2>3. ASSUME NEW w \in Workers, proc[w].ref = p, proc[w].pc \in {"settle", "claim"}
        PROVE  p \in Backed'
    <3>1. p \in captured
      BY <1>0, <2>3 DEF FundedInv
    <3> QED BY <1>2, <3>1 DEF Backed
  <2> QED BY <1>0, <1>4, <2>1, <2>2, <2>3, SuccessFrame
<1>5. ReceivedInv'
  <2> SUFFICES ASSUME NEW d \in Desks, NEW i \in Invoices, desk[d].doc = i
               PROVE  /\ desk[d].pc \in {"markPaid", "paid"} => Received(i)' >= Price[i]
                      /\ desk[d].pc = "row" /\ desk[d].job = "partial" =>
                            desk[d].sofar <= Received(i)'
    BY <1>4 DEF ReceivedInv
  <2>1. desk[d].sofar \in Nat
    BY <1>0 DEF DeskInv, DeskRequest
  <2>2. /\ desk[d].pc \in {"markPaid", "paid"} => Received(i) >= Price[i]
        /\ desk[d].pc = "row" /\ desk[d].job = "partial" =>
              desk[d].sofar <= Received(i)
    BY DEF ReceivedInv
  <2> QED BY <1>3, <2>1, <2>2
<1>6. PaidInFull'
  <2> SUFFICES ASSUME NEW i \in Invoices, inv'[i] = "PAID"
               PROVE  Received(i)' >= Price[i]
    BY DEF PaidInFull, Received, Backed
  <2>1. CASE inv[i] = "PAID"
    <3>1. Received(i) >= Price[i]
      BY <2>1 DEF PaidInFull, Received, Backed
    <3> QED BY <1>3, <3>1
  <2>2. CASE inv[i] # "PAID"
    <3>1. PICK w \in Workers : MarkPaidCommit(w) /\ proc[w].doc = i
      BY <1>0, <2>2, InvoiceFrame
    <3>2. proc[w].ref \in Payments /\ InvoiceOf[proc[w].ref] = i
      BY <1>0, <3>1 DEF MarkPaidCommit, At, TypeInv, RequestInv, OnPayment,
         MarkingPaid
    <3>3. proc[w].ref \in Backed' /\ Backed' \in SUBSET Payments
      BY <1>0, <3>1, <3>2, ReceiptsAfterCommit DEF Backed
    <3>4. Paid(Backed', i) >= Price[i]
      BY <1>0, <3>2, <3>3, PaidOnce
    <3>5. Received(i)' = Paid(Backed', i)
      BY DEF Received, Paid, Parts
    <3> QED BY <3>4, <3>5
  <2> QED BY <2>1, <2>2
<1> QED BY <1>1, <1>5, <1>6

\* The steps of this module's requests.
LEMMA ReceivedByDesks ==
    ASSUME BooksIInv, LedgersInv, ReceivedInv, PaidInFull, WalletStep
    PROVE  LedgersInv' /\ ReceivedInv' /\ PaidInFull'
<1>0. /\ TypeInv /\ DeskInv /\ rows \in Seq(PartRow)
      /\ desk \in [Desks -> DeskRequest]
      /\ inv \in [Invoices -> InvoiceStatus \cup {"NONE"}]
  BY DEF BooksIInv, DeskInv, TypeInv, TypeOK
<1>1. /\ UNCHANGED <<pay, receipts, applied, captured, proc>>
      /\ UNCHANGED inv \/ \E d \in Desks : WritePaid(d) /\ desk[d].doc \in Invoices
  BY <1>0, TablesStep
<1>2. \A i \in Invoices :
         inv'[i] = inv[i] \/ (inv'[i] = "PAID" /\ \E d \in Desks : WritePaid(d) /\ desk[d].doc = i)
  BY <1>0, <1>1 DEF WritePaid
<1>3. LedgersInv' /\ Backed' = Backed
  BY <1>0, <1>1, <1>2, LedgersUntouched
<1>4. \/ UNCHANGED rows
      \/ \E d \in Desks :
            /\ [doc |-> desk[d].doc, amount |-> desk[d].amount] \in PartRow
            /\ rows' = Append(rows, [doc |-> desk[d].doc, amount |-> desk[d].amount])
  BY <1>0, RowsStep
<1>5. ASSUME NEW i \in Invoices
      PROVE  /\ Received(i) \in Nat /\ Received(i)' \in Nat
             /\ Received(i) <= Received(i)' /\ Price[i] \in Nat
  <2>1. Price[i] \in Nat /\ Received(i) \in Nat
    BY <1>0, <1>3, ReceivedGrows, WalletAssumption
  <2>2. CASE UNCHANGED rows
    BY <1>0, <1>3, <2>1, <2>2, ReceivedGrows
  <2>3. ASSUME NEW r \in PartRow, rows' = Append(rows, r)
        PROVE  Received(i)' \in Nat /\ Received(i) <= Received(i)'
    <3>1. /\ Received(i)' \in Nat
          /\ Received(i) + (IF r.doc = i THEN r.amount ELSE 0) <= Received(i)'
      BY <1>0, <1>3, <2>3, ReceivedGrows
    <3>2. r.amount \in Nat
      BY DEF PartRow
    <3> QED BY <2>1, <3>1, <3>2
  <2> QED BY <1>4, <2>1, <2>2, <2>3
<1>6. ASSUME NEW d \in Desks, NEW i \in Invoices, PaymentRow(d), desk[d].doc = i,
             rows' = Append(rows, [doc |-> desk[d].doc, amount |-> desk[d].amount]),
             \/ desk[d].job = "pay"
             \/ desk[d].sofar + desk[d].amount >= Price[desk[d].doc]
      PROVE  Received(i)' >= Price[i]
  <2> DEFINE r == [doc |-> desk[d].doc, amount |-> desk[d].amount]
  <2>1. /\ desk[d].pc = "row" /\ desk[d].job \in {"pay", "partial"}
        /\ desk[d].amount \in Nat \ {0} /\ desk[d].sofar \in Nat
        /\ desk[d].job = "pay" => desk[d].amount = Price[i]
    BY <1>0, <1>6, WalletAssumption
       DEF PaymentRow, AtDesk, DeskInv, Fits, DeskRequest, Jobs, Paying
  <2>2. r \in PartRow /\ r.doc = i /\ r.amount = desk[d].amount
    BY <1>6, <2>1 DEF PartRow
  <2>3. rows' = Append(rows, r)
    BY <1>6
  <2> HIDE DEF r
  <2>4. /\ Received(i)' \in Nat
        /\ Received(i) + (IF r.doc = i THEN r.amount ELSE 0) <= Received(i)'
    BY <1>0, <1>3, <2>2, <2>3, ReceivedGrows
  <2>5. CASE desk[d].job = "pay"
    BY <1>5, <2>1, <2>2, <2>4, <2>5
  <2>6. CASE desk[d].job = "partial"
    <3>1. desk[d].sofar <= Received(i) /\ desk[d].sofar + desk[d].amount >= Price[i]
      BY <1>6, <2>1, <2>6 DEF ReceivedInv
    <3> QED BY <1>5, <2>1, <2>2, <2>4, <3>1
  <2> QED BY <2>1, <2>5, <2>6
<1>7. ASSUME NEW d \in Desks, NEW i \in Invoices, desk'[d].doc = i
      PROVE  /\ desk'[d].pc \in {"markPaid", "paid"} => Received(i)' >= Price[i]
             /\ desk'[d].pc = "row" /\ desk'[d].job = "partial" =>
                   desk'[d].sofar <= Received(i)'
  <2>1. CASE desk'[d] = desk[d]
    <3>1. /\ desk[d].pc \in {"markPaid", "paid"} => Received(i) >= Price[i]
          /\ desk[d].pc = "row" /\ desk[d].job = "partial" =>
                desk[d].sofar <= Received(i)
      BY <1>7, <2>1 DEF ReceivedInv
    <3>2. desk[d].sofar \in Nat
      BY <1>0 DEF DeskRequest
    <3> QED BY <1>5, <2>1, <3>1, <3>2
  <2>2. CASE desk'[d] # desk[d] /\ desk'[d].pc = "markPaid"
    <3>1. /\ PaymentRow(d) /\ desk'[d].doc = desk[d].doc
          /\ rows' = Append(rows, [doc |-> desk[d].doc, amount |-> desk[d].amount])
          /\ \/ desk[d].job = "pay"
             \/ desk[d].sofar + desk[d].amount >= Price[desk[d].doc]
      BY <1>0, <2>2, PayingFrame
    <3>2. Received(i)' >= Price[i]
      BY <1>6, <1>7, <3>1
    <3> QED BY <2>2, <3>2
  <2>3. CASE desk'[d] # desk[d] /\ desk'[d].pc = "paid"
    <3>1. desk[d].pc = "markPaid" /\ desk[d].doc = i
      BY <1>0, <1>7, <2>3, PayingFrame
    <3>2. Received(i) >= Price[i]
      BY <3>1 DEF ReceivedInv
    <3> QED BY <1>5, <2>3, <3>2
  <2>4. CASE desk'[d] # desk[d] /\ desk'[d].pc = "row" /\ desk'[d].job = "partial"
    <3> DEFINE P == {p \in Payments : pay[p] = "SUCCESSFUL"}
    <3>1. desk'[d].sofar = Paid(P, i)
      BY <1>0, <1>7, <2>4, PayingFrame
    <3>2. P \in SUBSET Payments /\ Backed \in SUBSET Payments /\ P \subseteq Backed
      BY DEF ReceivedInv, Backed
    <3> HIDE DEF P
    <3>3. Paid(P, i) \in Nat /\ Paid(P, i) <= Received(i)
      BY <1>0, <3>2, PaidGrows, PaidType DEF Received
    <3>4. desk'[d].sofar <= Received(i)'
      BY <1>5, <3>1, <3>3
    <3> QED BY <2>4, <3>4
  <2> QED BY <2>1, <2>2, <2>3, <2>4
<1>8. ReceivedInv'
  BY <1>1, <1>3, <1>7 DEF ReceivedInv
<1>9. PaidInFull'
  <2> SUFFICES ASSUME NEW i \in Invoices, inv'[i] = "PAID"
               PROVE  Received(i)' >= Price[i]
    BY DEF PaidInFull, Received, Backed
  <2>1. Received(i) >= Price[i]
    <3>1. CASE inv[i] = "PAID"
      BY <3>1 DEF PaidInFull, Received, Backed
    <3>2. ASSUME NEW d \in Desks, WritePaid(d), desk[d].doc = i
          PROVE  Received(i) >= Price[i]
      BY <3>2 DEF WritePaid, AtDesk, ReceivedInv
    <3> QED BY <1>2, <3>1, <3>2
  <2> QED BY <1>5, <2>1
<1> QED BY <1>3, <1>8, <1>9

\* Every step of the combined system.
LEMMA ReceivedStep ==
    ConfirmedOnly /\ BooksIInv /\ LedgersInv /\ ReceivedInv /\ PaidInFull
    /\ [WalletNext]_allVars => LedgersInv' /\ ReceivedInv' /\ PaidInFull'
<1> SUFFICES ASSUME ConfirmedOnly, BooksIInv, LedgersInv, ReceivedInv, PaidInFull,
                    [WalletNext]_allVars
             PROVE  LedgersInv' /\ ReceivedInv' /\ PaidInFull'
  OBVIOUS
<1>1. CASE WalletStep
  BY <1>1, ReceivedByDesks
<1>2. CASE Next /\ UNCHANGED <<rows, desk>>
  BY <1>2, ReceivedByPayments
<1>3. ASSUME UNCHANGED <<vars, rows>>,
             desk' = desk \/ \E d \in Desks : Leave(d)
      PROVE  LedgersInv' /\ ReceivedInv' /\ PaidInFull'
  <2> USE DEF vars, tables, gateway
  <2>1. LedgersInv' /\ Backed' = Backed
    BY <1>3, LedgersUntouched DEF BooksIInv
  <2>2. \A i : Received(i)' = Received(i)
    BY <1>3, <2>1 DEF Received, Paid, Parts
  <2>3. \A d \in Desks : desk'[d] = desk[d] \/ desk'[d].pc = "idle"
    BY <1>3 DEF Leave, Nothing, BooksIInv, DeskInv
  <2>4. ReceivedInv'
    BY <1>3, <2>1, <2>2, <2>3 DEF ReceivedInv
  <2>5. PaidInFull'
    <3>1. \A i \in Invoices : inv[i] = "PAID" => Received(i) >= Price[i]
      BY DEF PaidInFull, Received, Backed
    <3>2. \A i \in Invoices : inv'[i] = "PAID" => Received(i)' >= Price[i]
      BY <1>3, <2>2, <3>1
    <3> QED BY <3>2 DEF PaidInFull, Received, Backed
  <2> QED BY <2>1, <2>4, <2>5
<1> QED BY <1>1, <1>2, <1>3 DEF WalletNext, DeskCrash, allVars, walletVars

\* Where the gateways confirm what they report, an invoice is PAID only with
\* payments of its whole amount behind it, whatever parts, wallet debits and
\* gateway payments race for it.
THEOREM PaidMeansInFull == ConfirmedOnly /\ WalletSpec => []PaidInFull
<1>1. ConfirmedOnly => ConfirmedOnly'
  BY DEF ConfirmedOnly
<1>2. WalletInit => BooksIInv /\ LedgersInv /\ ReceivedInv /\ PaidInFull
  <2> SUFFICES ASSUME WalletInit
               PROVE  BooksIInv /\ LedgersInv /\ ReceivedInv /\ PaidInFull
    OBVIOUS
  <2>1. BooksIInv /\ Init
    BY BooksInit DEF WalletInit
  <2>2. LedgersInv
    BY <2>1, FundedInit DEF LedgersInv, IssuedInv, Init, Idle
  <2>3. ReceivedInv /\ PaidInFull
    BY DEF WalletInit, Init, Nothing, ReceivedInv, PaidInFull
  <2> QED BY <2>1, <2>2, <2>3
<1> QED BY <1>1, <1>2, BooksStep, ReceivedStep, PTL DEF WalletSpec
===============================================================================
