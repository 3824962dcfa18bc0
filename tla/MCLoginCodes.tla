------------------------------ MODULE MCLoginCodes ------------------------------
EXTENDS LoginCodes, TLC

MCTiers == {"login", "account", "global"}

\* The login and global windows are 60 s, the account window is longer.
MCWindow == [x \in MCTiers |-> IF x = "account" THEN 3 ELSE 1]
MCLimit == [login |-> 3, account |-> 1, global |-> 4]

\* Requests are interchangeable.
Symmetry == Permutations(Requests)
===============================================================================
