------------------------------- MODULE MCWallet -------------------------------
(***************************************************************************)
(* Instances of Wallet for TLC: one subscriber, one invoice.               *)
(***************************************************************************)
EXTENDS Wallet, TLC

MCInvoiceOf == [p \in Payments |-> CHOOSE i \in Invoices : TRUE]
MCSubscriberOf == [i \in Invoices |-> CHOOSE s \in Subscribers : TRUE]
MCPrice == [i \in Invoices |-> 2]
AtTheCounter == [p \in Payments |-> "offline"]
ByPaystack == [p \in Payments |-> "PAYSTACK"]

Symmetry == Permutations(Desks)
===============================================================================
