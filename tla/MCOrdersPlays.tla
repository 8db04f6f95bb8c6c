---------------------------- MODULE MCOrdersPlays ---------------------------
(***************************************************************************)
(* A behaviour of this instance of Orders is one of two plays.  "stock":   *)
(* orders paid on delivery, placed and moved by one caller who knows the   *)
(* version, while the merchant edits the stock.  "commands": one order of  *)
(* one variant, paid either way, callers with stale versions and used      *)
(* keys, and edits of the stock before the order is placed.                *)
(***************************************************************************)
EXTENDS MCOrders

VARIABLE play

TheOrder == CHOOSE o \in Orders : Cardinality({v \in Variants : Lines[o][v] > 0}) = 1
TheVariant == CHOOSE v \in Variants : Lines[TheOrder][v] > 0
TheCaller == CHOOSE c \in Callers : TRUE
TheKey == CHOOSE k \in Keys : TRUE

PlaysInit == OrdersInit /\ play \in {"stock", "commands"}

\* What the callers asked for, by the versions they were behind.
AsksOnly(S) == \A c \in Callers : call'[c] = call[c] \/ call'[c] \in {NoCall} \cup S
AnswersOnly(S) == \A c \in Callers \ S : call'[c] = call[c] /\ reply'[c] = reply[c]

StockPlay ==
    /\ (\E o \in Orders : PlaceCashOnDelivery(o)) \/ Stocking \/ Commanding
    /\ AnswersOnly({TheCaller})
    /\ AsksOnly({r \in [op : Operations, order : Orders, key : {TheKey},
                        version : 1..9] : r.version = order[r.order].version})

CommandsPlay ==
    /\ Placing \/ Commanding \/ (Stocking /\ hold[TheOrder] = "none")
    /\ \A o \in Orders \ {TheOrder} : hold'[o] = "none"
    /\ \A v \in Variants \ {TheVariant} :
          v \in counted' /\ onHand'[v] = onHand[v]

PlaysNext ==
    /\ \/ play = "stock" /\ StockPlay
       \/ play = "commands" /\ CommandsPlay
    /\ UNCHANGED play

PlaysSpec == PlaysInit /\ [][PlaysNext]_<<orderVars, play>>

=============================================================================
