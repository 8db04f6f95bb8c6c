---------------------------- MODULE MCRefundsRace ---------------------------
(***************************************************************************)
(* A behaviour of this instance of Refunds is one of two plays: a          *)
(* cancelled order whose refund is retried, or an order on its way to the  *)
(* customer whose money goes back at Stripe.  A retried refund meets one    *)
(* refund by hand, or a crash or lost lease, and not both.                 *)
(***************************************************************************)
EXTENDS MCRefunds

VARIABLE play

Asked == {call'[c].op : c \in {c \in Callers : call'[c] # NoCall}}

ByHand == {o \in Orders : external[o] > 0}
OneDisturbance ==
    /\ \A o \in ByHand : external'[o] = external[o]
    /\ mishaps' = 0 \/ ByHand' = {}

RaceInit == Init /\ play \in {"refund", "fulfilment"}

RaceNext ==
    /\ \/ play = "refund" /\ (Ordering \/ Working \/ Time \/ Stripe)
          /\ OneDisturbance /\ Asked \subseteq {"staff-cancel", "refund-retry"}
       \/ play = "fulfilment" /\ Next
          /\ Asked \cap {"shopper-cancel", "staff-cancel", "refund-retry"} = {}
    /\ UNCHANGED play

RaceSpec == RaceInit /\ [][RaceNext]_<<vars, play>>

=============================================================================
