------------------------------ MODULE MCRenewals ------------------------------
EXTENDS Renewals, TLC

\* Customers, requests and charges are interchangeable.
Symmetry == Permutations(Requests) \cup Permutations(Charges)
               \cup Permutations(Customers)
===============================================================================
