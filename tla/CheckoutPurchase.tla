-------------------------- MODULE CheckoutPurchase --------------------------
(***************************************************************************)
(* Checkout implements Purchase: the attempt row is the purchase's state,  *)
(* and the Sessions Stripe holds for it are its payment page.              *)
(***************************************************************************)
EXTENDS Checkout

PurchaseState ==
    [q \in Quotes |->
        CASE attempt[q].status = "none"       -> "none"
          [] attempt[q].status \in Active     -> "reserved"
          [] attempt[q].status = "succeeded"  -> "placed"
          [] OTHER                            -> "released"]

InSession(q, state) == \E i \in Sessions : session[q][i] = state

PurchaseMoney ==
    [q \in Quotes |->
        CASE InSession(q, "paid")    -> "paid"
          [] ~InSession(q, "paid") /\ InSession(q, "open") -> "payable"
          [] ~InSession(q, "paid") /\ ~InSession(q, "open")
                                   /\ InSession(q, "expired") -> "void"
          [] OTHER -> "none"]

P == INSTANCE Purchase WITH
         Purchases <- Quotes, state <- PurchaseState, money <- PurchaseMoney

\* Every behaviour of the checkout, whatever crashes, races and provider
\* failures it goes through, is one of the simple purchase: stock is released
\* only after the payment page is void, an online order is placed only after
\* it is paid, and no second page is ever opened.
ImplementsPurchase == P!Spec

=============================================================================
