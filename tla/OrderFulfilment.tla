---------------------------- MODULE OrderFulfilment ----------------------------
(***************************************************************************)
(* What the store promises a buyer: an order is owed only for money that   *)
(* arrived or that an administrator vouched for, it is served only when    *)
(* it is owed, and what is owed is served in the end.                      *)
(***************************************************************************)

CONSTANTS
    Orders,   \* the orders of the store
    Gifts     \* those of them with nothing to pay

VARIABLES
    money,    \* orders whose payment arrived or was vouched for
    owed,     \* orders the store has promised to serve
    served    \* orders whose goods were provisioned at least once

vars == <<money, owed, served>>

Init == money = Gifts /\ owed = {} /\ served = {}

\* The gateway takes the buyer's money.
Receive(o) ==
    /\ money' = money \cup {o}
    /\ UNCHANGED <<owed, served>>

\* An administrator vouches for a transfer, which makes the order owed.
Vouch(o) ==
    /\ money' = money \cup {o}
    /\ owed' = owed \cup {o}
    /\ UNCHANGED served

\* The store learns of the money.
Owe(o) ==
    /\ o \in money
    /\ owed' = owed \cup {o}
    /\ UNCHANGED <<money, served>>

Serve(o) ==
    /\ o \in owed
    /\ served' = served \cup {o}
    /\ UNCHANGED <<money, owed>>

Next == \E o \in Orders : Receive(o) \/ Vouch(o) \/ Owe(o) \/ Serve(o)

Safe == Init /\ [][Next]_vars

Spec == Safe /\ \A o \in Orders : WF_vars(Serve(o))
=============================================================================
