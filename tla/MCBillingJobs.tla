----------------------------- MODULE MCBillingJobs -----------------------------
(***************************************************************************)
(* Instances of BillingJobs for TLC: two subscribers with an invoice each, *)
(* one of them is paid at the counter.                                     *)
(***************************************************************************)
EXTENDS BillingJobs, TLC

CONSTANTS p1, i1, i2, s1, s2

MCInvoiceOf == p1 :> i1
MCSubscriberOf == i1 :> s1 @@ i2 :> s2
AtTheCounter == p1 :> "offline"
ByPaystack == p1 :> "PAYSTACK"
===============================================================================
