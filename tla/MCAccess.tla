------------------------------- MODULE MCAccess -------------------------------
EXTENDS Access, TLC

\* Requests, addresses and customers are interchangeable.
Symmetry == Permutations(Requests) \cup Permutations(Ips)
               \cup Permutations(Customers)
===============================================================================
