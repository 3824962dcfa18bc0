------------------------------ MODULE Settlement ------------------------------
(***************************************************************************)
(* What the payments service promises about one payment reference, without *)
(* handlers, retries or races: money is captured by the gateway (or handed *)
(* over at the counter), and only then is the reference settled: at most   *)
(* one receipt, with the next number of the series, and at most one change *)
(* of the subscription.  Payments.tla is shown to implement it.            *)
(***************************************************************************)
EXTENDS Naturals, Sequences

CONSTANTS
    Payments,   \* payment references
    Cash        \* the references whose money a cashier has already received

VARIABLES
    captured,   \* references whose money the gateway holds
    applied,    \* references whose subscription change has been made
    receipts    \* the receipts, in the order they were written

vars == <<captured, applied, receipts>>

\* Money has changed hands for reference p.
Funded(p) == p \in captured \cup Cash

Receipted(p) == \E k \in DOMAIN receipts : receipts[k].ref = p

Init ==
    /\ captured = {}
    /\ applied = {}
    /\ receipts = << >>

Capture(p) ==
    /\ p \notin captured
    /\ captured' = captured \cup {p}
    /\ UNCHANGED <<applied, receipts>>

Apply(p) ==
    /\ p \in captured
    /\ p \notin applied
    /\ applied' = applied \cup {p}
    /\ UNCHANGED <<captured, receipts>>

WriteReceipt(p) ==
    /\ Funded(p)
    /\ ~Receipted(p)
    /\ receipts' = Append(receipts, [number |-> Len(receipts) + 1, ref |-> p])
    /\ UNCHANGED <<captured, applied>>

Next == \E p \in Payments : Capture(p) \/ Apply(p) \/ WriteReceipt(p)

Spec == Init /\ [][Next]_vars
===============================================================================
