------------------------------ MODULE MCPayments ------------------------------
(***************************************************************************)
(* Instances of Payments for TLC.  Every reference is for one of the       *)
(* invoices of one subscriber.                                             *)
(***************************************************************************)
EXTENDS Payments, TLC

CONSTANTS p1, p2, i1, i2, s1

MCInvoiceOf == p1 :> i1 @@ p2 :> i2
OneInvoice == p1 :> i1 @@ p2 :> i1
MCSubscriberOf == i1 :> s1 @@ i2 :> s1
OneSubscriberOf == i1 :> s1

\* A renewal by checkout and an invoice paid at the counter.
RenewAndCash == p1 :> "renew" @@ p2 :> "offline"
RenewAndAdmin == p1 :> "renew" @@ p2 :> "admin"
\* The customer in the portal and an administrator.
PayAndAdmin == p1 :> "pay_invoice" @@ p2 :> "admin"

AllPaystack == p1 :> "PAYSTACK" @@ p2 :> "PAYSTACK"
AllFlutterwave == p1 :> "FLUTTERWAVE" @@ p2 :> "FLUTTERWAVE"
FlutterwaveAndGeneric == p1 :> "FLUTTERWAVE" @@ p2 :> "GENERIC"

Symmetry == Permutations(Workers)
===============================================================================
