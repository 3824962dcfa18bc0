-------------------------------- MODULE Switch --------------------------------
(***************************************************************************)
(* What radius-service promises about a customer's service, without rows,  *)
(* statements or failures.  While it is being turned on or off, whether    *)
(* the customer may log in can change in any way.  Once it has been, it    *)
(* stays so until the next request about it, and turning it off ends the   *)
(* session unless the packet is lost.  Access.tla is shown to implement    *)
(* it.                                                                     *)
(***************************************************************************)
CONSTANT
    Customers

VARIABLES
    decided,    \* whether service is on or off, or open while it changes
    admitted,   \* the customers who may log in
    online,     \* the customers who are logged in
    kick        \* the last Disconnect-Request sent for the customer

vars == <<decided, admitted, online, kick>>

Init ==
    /\ decided = [u \in Customers |-> "open"]
    /\ admitted = {}
    /\ online = [u \in Customers |-> FALSE]
    /\ kick = [u \in Customers |-> "none"]

\* A request about the service of u begins.
Ask(u) ==
    /\ decided' = [decided EXCEPT ![u] = "open"]
    /\ UNCHANGED <<admitted, online, kick>>

Waver(u) ==
    /\ decided[u] = "open"
    /\ admitted' \in {admitted \cup {u}, admitted \ {u}}
    /\ UNCHANGED <<decided, online, kick>>

TurnOn(u) ==
    /\ decided[u] = "open"
    /\ decided' = [decided EXCEPT ![u] = "on"]
    /\ admitted' = admitted \cup {u}
    /\ UNCHANGED <<online, kick>>

\* Whoever is turned off can no longer log in by the time the packet is sent.
TurnOff(u) ==
    /\ decided[u] = "open"
    /\ decided' = [decided EXCEPT ![u] = "off"]
    /\ admitted' = admitted \ {u}
    /\ kick' = [kick EXCEPT ![u] = "sent"]
    /\ UNCHANGED online

\* A packet of a request that met another one.
Send(u) ==
    /\ decided[u] = "open"
    /\ kick' = [kick EXCEPT ![u] = "sent"]
    /\ UNCHANGED <<decided, admitted, online>>

Login(u) ==
    /\ u \in admitted
    /\ ~online[u]
    /\ online' = [online EXCEPT ![u] = TRUE]
    /\ UNCHANGED <<decided, admitted, kick>>

Arrive(u) ==
    /\ kick[u] = "sent"
    /\ kick' = [kick EXCEPT ![u] = "arrived"]
    /\ online' = [online EXCEPT ![u] = FALSE]
    /\ UNCHANGED <<decided, admitted>>

Lose(u) ==
    /\ kick[u] = "sent"
    /\ kick' = [kick EXCEPT ![u] = "lost"]
    /\ UNCHANGED <<decided, admitted, online>>

Next ==
    \E u \in Customers :
        \/ Ask(u) \/ Waver(u) \/ TurnOn(u) \/ TurnOff(u) \/ Send(u)
        \/ Login(u) \/ Arrive(u) \/ Lose(u)

Spec == Init /\ [][Next]_vars
===============================================================================
