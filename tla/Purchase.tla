------------------------------ MODULE Purchase ------------------------------
(***************************************************************************)
(* What a checkout promises for one purchase, without its rows, leases,    *)
(* sessions and retries: stock is set aside, at most one payment is taken  *)
(* for it, and it ends either as an order or as a release, the release     *)
(* only once no payment can be taken any more.                             *)
(***************************************************************************)
EXTENDS Naturals

CONSTANT Purchases

VARIABLES
    state,   \* "none", "reserved", "placed" or "released"
    money    \* "none", "payable", "paid" or "void"

Init ==
    /\ state = [p \in Purchases |-> "none"]
    /\ money = [p \in Purchases |-> "none"]

\* Cash on delivery: the order is placed at once and nothing is charged.
PlaceUnpaid(p) ==
    /\ state[p] = "none"
    /\ state' = [state EXCEPT ![p] = "placed"]
    /\ UNCHANGED money

Reserve(p) ==
    /\ state[p] = "none"
    /\ state' = [state EXCEPT ![p] = "reserved"]
    /\ UNCHANGED money

\* A payment page opens, once, and only for a purchase with stock set aside.
OpenPayment(p) ==
    /\ state[p] = "reserved"
    /\ money[p] = "none"
    /\ money' = [money EXCEPT ![p] = "payable"]
    /\ UNCHANGED state

\* The page ends paid or void.
ClosePayment(p, end) ==
    /\ state[p] = "reserved"
    /\ money[p] = "payable"
    /\ money' = [money EXCEPT ![p] = end]
    /\ UNCHANGED state

PlacePaid(p) ==
    /\ state[p] = "reserved"
    /\ money[p] = "paid"
    /\ state' = [state EXCEPT ![p] = "placed"]
    /\ UNCHANGED money

Release(p) ==
    /\ state[p] = "reserved"
    /\ money[p] \in {"none", "void"}
    /\ state' = [state EXCEPT ![p] = "released"]
    /\ UNCHANGED money

Next ==
    \E p \in Purchases :
        \/ PlaceUnpaid(p) \/ Reserve(p) \/ OpenPayment(p)
        \/ \E end \in {"paid", "void"} : ClosePayment(p, end)
        \/ PlacePaid(p) \/ Release(p)

Spec == Init /\ [][Next]_<<state, money>>

=============================================================================
