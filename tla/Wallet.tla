------------------------------- MODULE Wallet -------------------------------
(***************************************************************************)
(* Money of an invoice that does not come through a gateway: the wallet of *)
(* a subscriber and partial payments, on the tables of Payments.tla, whose *)
(* requests run at the same time.                                          *)
(*   apps/payments-service/src/modules/payments/payments.service.ts        *)
(* These requests call markPaid without payment data: it writes PAID and   *)
(* no receipt.                                                             *)
(***************************************************************************)
EXTENDS Payments, Integers, FiniteSets

CONSTANTS
    Desks,      \* requests of this module that can be in flight
    Amounts,    \* what may be credited, debited or paid in part
    Price,      \* the amount of an invoice (every payment of Payments is for it)
    MaxRows     \* bound on the rows of this module

ASSUME WalletAssumption ==
    /\ Amounts \subseteq Nat \ {0}
    /\ Price \in [Invoices -> Nat \ {0}]
    /\ MaxRows \in Nat
    /\ IsFiniteSet(Desks) /\ IsFiniteSet(Payments)

VARIABLES
    wallets,    \* subscribers that have a Wallet row
    balance,    \* Wallet.balanceKobo
    ledger,     \* WalletTransaction rows in the order of createdAt
    rows,       \* Payment rows of wallet and partial payments, all SUCCESSFUL
    desk,       \* requests in flight
    settled,    \* history: invoices that have been PAID
    cutOff      \* history: invoices with a request that was cut off

\* The sum of the first n values of g.
Total(g, n) ==
    LET upTo[k \in Nat] == IF k = 0 THEN 0 ELSE upTo[k - 1] + g[k]
    IN  upTo[n]

money == <<wallets, balance, ledger>>
walletVars == <<money, rows, desk, settled, cutOff>>
allVars == <<vars, walletVars>>

Jobs == {"credit", "pay", "back", "partial", "none"}

DeskRequest ==
    [pc : {"idle", "find", "create", "credit", "debit", "sum", "row",
           "markPaid", "paid", "notify"},
     job : Jobs, sub : Subscribers \cup {None}, doc : Invoices \cup {None},
     amount : Nat, sofar : Nat]

Nothing == [pc |-> "idle", job |-> "none", sub |-> None, doc |-> None,
            amount |-> 0, sofar |-> 0]

AtDesk(d, l) == desk[d].pc = l
Serve(d, l) == desk' = [desk EXCEPT ![d].pc = l]
Leave(d) == desk' = [desk EXCEPT ![d] = Nothing]

\* The catch clause of payWithWallet: credit the amount back.
GiveBack(d) == desk' = [desk EXCEPT ![d].pc = "find", ![d].job = "back"]

\* Variant: an error is only reported.
OnlyReport(d) == Leave(d)

\* The request fails: what was debited is given back, nothing else is undone.
Fail(d) == IF desk[d].job = "pay" THEN GiveBack(d) ELSE Leave(d)

Entry(type, s, amount, i, after) ==
    [type |-> type, sub |-> s, amount |-> amount, doc |-> i, balance |-> after]

Signed(e) == IF e.type = "CREDIT" THEN e.amount ELSE -e.amount

\* What the ledger rows moved, in and out of the wallet of s and for invoice i.
Moves(s) == [k \in Nat |-> IF k \in DOMAIN ledger /\ ledger[k].sub = s
                            THEN Signed(ledger[k]) ELSE 0]
MovesFor(i) == [k \in Nat |-> IF k \in DOMAIN ledger /\ ledger[k].doc = i
                               THEN Signed(ledger[k]) ELSE 0]

Serving == {d \in Desks : ~AtDesk(d, "idle")}

\* A request writes at most two ledger rows and a payment row.
Room == Len(ledger) + Len(rows) + 3 * Cardinality(Serving) + 3 <= MaxRows

WalletInit ==
    /\ Init
    /\ wallets = {}
    /\ balance = [s \in Subscribers |-> 0]
    /\ ledger = << >>
    /\ rows = << >>
    /\ desk = [d \in Desks |-> Nothing]
    /\ settled = {}
    /\ cutOff = {}

(***************************************************************************)
(* getWallet finds the row or creates it.                                  *)
(***************************************************************************)
FindWallet(d) ==
    LET r == desk[d] IN
    /\ AtDesk(d, "find")
    /\ \/ /\ r.sub \notin wallets
          /\ Serve(d, "create")
       \/ /\ r.sub \in wallets
          /\ r.job \in {"credit", "back"}
          /\ Serve(d, "credit")
       \/ /\ r.sub \in wallets
          /\ r.job = "pay"
          /\ IF balance[r.sub] < r.amount THEN Leave(d) ELSE Serve(d, "debit")
    /\ UNCHANGED <<money, rows, vars>>

\* subscriberId is unique: the second create is an error.  A new wallet is
\* empty, so a payment from it is refused.
CreateWallet(d) ==
    LET r == desk[d] IN
    /\ AtDesk(d, "create")
    /\ wallets' = wallets \cup {r.sub}
    /\ IF r.sub \in wallets \/ r.job = "pay" THEN Leave(d) ELSE Serve(d, "credit")
    /\ UNCHANGED <<balance, ledger, rows, vars>>

(***************************************************************************)
(* creditWallet and debitWallet: one transaction for the balance and the   *)
(* ledger row.                                                             *)
(***************************************************************************)

Move(s, type, amount, i) ==
    LET after == balance[s] + (IF type = "CREDIT" THEN amount ELSE -amount) IN
    /\ balance' = [balance EXCEPT ![s] = after]
    /\ ledger' = Append(ledger, Entry(type, s, amount, i, after))
    /\ UNCHANGED wallets

Credit(d, s, amount) ==
    /\ AtDesk(d, "idle")
    /\ Room
    /\ desk' = [desk EXCEPT ![d] = [Nothing EXCEPT !.pc = "find",
                    !.job = "credit", !.sub = s, !.amount = amount]]
    /\ UNCHANGED <<money, rows, vars>>

CreditTx(d) ==
    /\ AtDesk(d, "credit")
    /\ Move(desk[d].sub, "CREDIT", desk[d].amount, desk[d].doc)
    /\ Leave(d)
    /\ UNCHANGED <<rows, vars>>

\* POST wallet/:id/debit.
Debit(s, amount) ==
    /\ Room
    /\ s \in wallets
    /\ balance[s] >= amount
    /\ Move(s, "DEBIT", amount, None)
    /\ UNCHANGED <<rows, desk, vars>>

(***************************************************************************)
(* payWithWallet.  It refuses a PAID invoice only, and once more the       *)
(* balance is looked at before the transaction that does so.               *)
(***************************************************************************)
PayWithWallet(d, i) ==
    /\ AtDesk(d, "idle")
    /\ Room
    /\ inv[i] \notin {"NONE", "PAID"}
    /\ desk' = [desk EXCEPT ![d] = [Nothing EXCEPT !.pc = "find",
                    !.job = "pay", !.sub = SubscriberOf[i], !.doc = i,
                    !.amount = Price[i]]]
    /\ UNCHANGED <<money, rows, vars>>

\* Variant: the balance is only looked at before the transaction.
DebitBlindly(d) ==
    /\ AtDesk(d, "debit")
    /\ Move(desk[d].sub, "DEBIT", desk[d].amount, desk[d].doc)
    /\ Serve(d, "row")
    /\ UNCHANGED <<rows, vars>>

DebitTx(d) ==
    LET r == desk[d] IN
    /\ AtDesk(d, "debit")
    /\ \/ /\ balance[r.sub] >= r.amount
          /\ Move(r.sub, "DEBIT", r.amount, r.doc)
          /\ Serve(d, "row")
       \/ /\ balance[r.sub] < r.amount
          /\ Leave(d)
          /\ UNCHANGED money
    /\ UNCHANGED <<rows, vars>>

(***************************************************************************)
(* recordPartialPayment refuses a PAID invoice and adds up what has been   *)
(* paid before it writes its own row.                                      *)
(***************************************************************************)
PartialPayment(d, i, amount) ==
    /\ AtDesk(d, "idle")
    /\ Room
    /\ inv[i] \notin {"NONE", "PAID"}
    /\ desk' = [desk EXCEPT ![d] = [Nothing EXCEPT !.pc = "sum",
                    !.job = "partial", !.sub = SubscriberOf[i], !.doc = i,
                    !.amount = amount]]
    /\ UNCHANGED <<money, rows, vars>>

Parts(i) == [k \in Nat |-> IF k \in DOMAIN rows /\ rows[k].doc = i
                            THEN rows[k].amount ELSE 0]

\* The amounts of the payments P and of this module's rows for invoice i.
Paid(P, i) ==
    Price[i] * Cardinality({p \in P : InvoiceOf[p] = i})
    + Total(Parts(i), Len(rows))

SumPayments(d) ==
    /\ AtDesk(d, "sum")
    /\ desk' = [desk EXCEPT ![d].pc = "row",
                    ![d].sofar = Paid({p \in Payments : pay[p] = "SUCCESSFUL"},
                                      desk[d].doc)]
    /\ UNCHANGED <<money, rows, vars>>

\* Variant: the part is taken for the whole.
RowAndPaid(d) ==
    /\ AtDesk(d, "row")
    /\ rows' = Append(rows, [doc |-> desk[d].doc, amount |-> desk[d].amount])
    /\ Serve(d, "markPaid")
    /\ UNCHANGED <<money, vars>>

\* The reference, for a wallet payment the time in milliseconds, may be taken
\* by another row.
PaymentRow(d) ==
    LET r == desk[d] IN
    /\ AtDesk(d, "row")
    /\ \/ /\ rows' = Append(rows, [doc |-> r.doc, amount |-> r.amount])
          /\ IF r.job = "pay" \/ r.sofar + r.amount >= Price[r.doc]
             THEN Serve(d, "markPaid") ELSE Leave(d)
       \/ /\ rows # << >>
          /\ rows' = rows
          /\ Fail(d)
    /\ UNCHANGED <<money, vars>>

(***************************************************************************)
(* markPaid without payment data.                                          *)
(***************************************************************************)
CheckPaid(d) ==
    /\ AtDesk(d, "markPaid")
    /\ IF "PAID" \in TRANSITIONS[inv[desk[d].doc]] THEN Serve(d, "paid") ELSE Fail(d)
    /\ UNCHANGED <<money, rows, vars>>

WritePaid(d) ==
    /\ AtDesk(d, "paid")
    /\ inv' = [inv EXCEPT ![desk[d].doc] = "PAID"]
    /\ Serve(d, "notify")
    /\ UNCHANGED <<money, rows, pay, attempts, receipts, applied, access,
                   gateway, proc>>

NotifyPaid(d) ==
    /\ AtDesk(d, "notify")
    /\ access' \in {access, [access EXCEPT ![desk[d].sub] = TRUE]}
    /\ Leave(d)
    /\ UNCHANGED <<money, rows, inv, pay, attempts, receipts, applied,
                   gateway, proc>>

DeskCrash(d) ==
    /\ CanCrash
    /\ ~AtDesk(d, "idle")
    /\ Leave(d)
    /\ cutOff' = cutOff \cup ({desk[d].doc} \ {None})
    /\ UNCHANGED <<money, rows, vars>>

WalletStep ==
    \/ \E d \in Desks, s \in Subscribers, a \in Amounts : Credit(d, s, a)
    \/ \E s \in Subscribers, a \in Amounts : Debit(s, a)
    \/ \E d \in Desks, i \in Invoices : PayWithWallet(d, i)
    \/ \E d \in Desks, i \in Invoices, a \in Amounts : PartialPayment(d, i, a)
    \/ \E d \in Desks :
          \/ FindWallet(d) \/ CreateWallet(d) \/ CreditTx(d) \/ DebitTx(d)
          \/ SumPayments(d) \/ PaymentRow(d)
          \/ CheckPaid(d) \/ WritePaid(d) \/ NotifyPaid(d)

WalletNext ==
    /\ \/ WalletStep /\ UNCHANGED cutOff
       \/ \E d \in Desks : DeskCrash(d)
       \/ Next /\ UNCHANGED <<money, rows, desk, cutOff>>
    /\ settled' = settled \cup {i \in Invoices : inv'[i] = "PAID"}

WalletSpec == WalletInit /\ [][WalletNext]_allVars

-------------------------------------------------------------------------------
(***************************************************************************)
(* Properties.                                                             *)
(***************************************************************************)

LedgerRow == [type : {"CREDIT", "DEBIT"}, sub : Subscribers, amount : Nat \ {0},
              doc : Invoices \cup {None}, balance : Int]

\* The tables and the requests of this module have the shape of their rows.
WalletTypeOK ==
    /\ wallets \subseteq Subscribers
    /\ balance \in [Subscribers -> Int]
    /\ ledger \in Seq(LedgerRow)
    /\ \A k \in DOMAIN ledger : ledger[k].sub \in wallets
    /\ rows \in Seq([doc : Invoices, amount : Nat \ {0}])
    /\ desk \in [Desks -> DeskRequest]
    /\ settled \subseteq Invoices
    /\ cutOff \subseteq Invoices

\* "prevents a TOCTOU double-spend": however credits, debits and payments
\* race, no wallet is overdrawn.
NeverOverdrawn == \A s \in Subscribers : balance[s] >= 0

\* The ledger explains the balance: every row carries the sum of the rows up
\* to it, and the last one is the balance.
LedgerExplainsBalance ==
    \A s \in Subscribers :
        /\ balance[s] = Total(Moves(s), Len(ledger))
        /\ \A n \in DOMAIN ledger :
              ledger[n].sub = s => ledger[n].balance = Total(Moves(s), n)

\* The books of the wallets: their rows are well formed, no wallet is
\* overdrawn, and the ledger explains every balance, however creations, credits,
\* debits and give-backs race and fail (payments.service.ts:571-648).
WalletInv == WalletTypeOK /\ NeverOverdrawn /\ LedgerExplainsBalance

\* What the wallet payments of invoice i have taken and not given back.
Taken(i) == -Total(MovesFor(i), Len(ledger))

\* payWithWallet's catch: money is taken for an invoice only while a request
\* works on it or when the invoice has been PAID, unless such a request was
\* cut off.
MoneyBackOrPaid ==
    \A i \in Invoices \ (settled \cup cutOff) :
        Taken(i) = 0 \/ \E d \in Serving : desk[d].doc = i /\ desk[d].job # "partial"

\* An invoice is PAID only when payments of its whole amount were recorded
\* for it, whatever mixture of parts, wallet and gateway they come from.  (The
\* row of a wallet payment that was given back stays and counts.)
PaidInFull ==
    \A i \in Invoices :
        inv[i] = "PAID" =>
            Paid({p \in Payments : p \in captured \/ HasReceipt(p)}, i) >= Price[i]
===============================================================================
