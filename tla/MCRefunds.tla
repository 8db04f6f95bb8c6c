----------------------------- MODULE MCRefunds ------------------------------
(***************************************************************************)
(* Instances of Refunds for TLC.                                           *)
(***************************************************************************)
EXTENDS Refunds, TLC

\* Orders of goods that are not counted: the stock is the matter of MCOrders.
Uncounted == [o \in Orders |-> [v \in Variants |-> 1]]

WorkerSymmetry == Permutations(Workers)

=============================================================================
