------------------------------ MODULE MCOrders ------------------------------
(***************************************************************************)
(* Instances of Orders for TLC.                                            *)
(***************************************************************************)
EXTENDS Orders, TLC

\* One order buys one unit of every variant, the others of one variant only.
FirstAndBoth ==
    LET all == CHOOSE o \in Orders : TRUE
        one == CHOOSE v \in Variants : TRUE
    IN  [o \in Orders |-> [v \in Variants |->
            IF o = all \/ v = one THEN 1 ELSE 0]]

=============================================================================
