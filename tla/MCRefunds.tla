------------------------------ MODULE MCRefunds ------------------------------
(***************************************************************************)
(* Instances of Refunds for TLC: two references for one invoice.           *)
(***************************************************************************)
EXTENDS Refunds, TLC

CONSTANTS p1, p2, i1, s1

MCInvoiceOf == p1 :> i1 @@ p2 :> i1
MCSubscriberOf == i1 :> s1
InvoiceAndAdmin == p1 :> "pay_invoice" @@ p2 :> "admin"
FlutterwaveAndGeneric == p1 :> "FLUTTERWAVE" @@ p2 :> "GENERIC"

Symmetry == Permutations(Desks)
===============================================================================
