------------------------------- MODULE MCSupport -------------------------------
EXTENDS Support, TLC

\* Clients are interchangeable; agents are not, as some are super admins.
Symmetry == Permutations(Clients)
===============================================================================
