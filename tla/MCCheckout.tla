----------------------------- MODULE MCCheckout -----------------------------
(***************************************************************************)
(* Instances of Checkout for TLC.  Symmetry is used by safety runs only.   *)
(***************************************************************************)
EXTENDS CheckoutInvariant, TLC

WorkerSymmetry == Permutations(Workers)

ShopSymmetry ==
    Permutations(Quotes) \cup Permutations(Keys) \cup Permutations(Shoppers)

\* Two may pay online at once, but then for a single unit each; an order paid
\* on delivery takes up to MaxQty.
OnlineBuysOne ==
    \A q \in Quotes : quote[q] # NoQuote /\ quote[q].method = "online" =>
        \A v \in Variants : quote[q].items[v] <= 1

StockSpec == Init /\ [][Next /\ OnlineBuysOne']_vars

\* Attempts end, through crashes and lost leases: those whose Session is known,
\* and those cancelled before any request to Stripe.
AttemptsAreSettled == KnownSessionIsSettled /\ EarlyCancellationIsSettled

=============================================================================
