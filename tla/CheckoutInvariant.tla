-------------------------- MODULE CheckoutInvariant --------------------------
(***************************************************************************)
(* The inductive invariant of Checkout: what the rows, Stripe and each     *)
(* worker's copy know of one another at every moment.                      *)
(***************************************************************************)
EXTENDS CheckoutPurchase

Started(q) == attempt[q].status # "none"

\* No request for a Session was sent, and none can be any more.
Unsendable(q) ==
    /\ attempt[q].dispatched = "no"
    /\ attempt[q].status \notin {"none", "creating"}

\* The attempt row against the quote, its reservations and its order.
RowsAgree(q) ==
    /\ Started(q) => quote[q] # NoQuote /\ quote[q].consumed
    /\ ~Started(q) => attempt[q] = NoAttempt /\ order[q] = "none"
    /\ IsActive(q) => /\ quote[q].method = "online"
                      /\ hold[q] = "held"
                      /\ order[q] = "none"
    /\ attempt[q].status = "succeeded" =>
          \/ order[q] = "unpaid" /\ hold[q] = "held" /\ quote[q].method = "cod"
          \/ order[q] = "paid" /\ hold[q] = "consumed"
                               /\ quote[q].method = "online"
    /\ attempt[q].status \in Released => order[q] = "none"

\* The attempt row against Stripe.
ProviderAgrees(q) ==
    /\ session[q][2] = "none"
    /\ keyed[q] \in {0, 1} /\ attempt[q].session \in {0, 1} /\ link[q] \in {0, 1}
    /\ keyed[q] = 1 \/ attempt[q].session = 1 \/ link[q] = 1
          => session[q][1] # "none"
    /\ attempt[q].dispatched = "no" => session[q][1] = "none"
    /\ keyed[q] = 0 /\ session[q][1] # "none" => attempt[q].dispatched = "old"
    /\ attempt[q].status \in Released =>
          Unsendable(q) \/ session[q][1] = "expired"
    /\ order[q] = "paid" => session[q][1] = "paid"

\* A worker that would still dispatch with its lease knows whether it is the
\* first to do so.
FirstDispatchKnown(w, q) ==
    Holds(w, q) /\ worker[w].seen.dispatched = "no"
        => attempt[q].dispatched = "no"

\* What a worker's step and copy guarantee, however old the copy is.
WorkerAgrees(w) ==
    worker[w].step # "idle" =>
        LET q == worker[w].on  seen == worker[w].seen IN
        /\ q \in Quotes
        /\ Started(q)
        /\ quote[q].method = "online"
        /\ seen.session \in {0, 1}
        /\ seen.session = 1 => session[q][1] # "none"
        /\ seen.dispatched # "no" => attempt[q].dispatched # "no"
        /\ worker[w].step = "create" => FirstDispatchKnown(w, q)
        /\ worker[w].step = "call" =>
              /\ attempt[q].dispatched # "no"
              /\ keyed[q] = 0 => session[q][1] = "none"
        /\ worker[w].step = "save" =>
              worker[w].got = 1 /\ session[q][1] # "none"
        /\ worker[w].step = "reconcile" /\ ReleasableUnsent(seen) => Unsendable(q)
        /\ worker[w].step = "withdraw" => Unsendable(q)
        /\ worker[w].step = "release" =>
              Unsendable(q) \/ session[q][1] = "expired"
        /\ worker[w].step \in {"verify", "place"} => session[q][1] = "paid"
        /\ worker[w].step = "expire" => seen.session = 1

\* Holds in every reachable state, and every step preserves it.
Consistent ==
    /\ TypeOK
    /\ \A q \in Quotes : RowsAgree(q) /\ ProviderAgrees(q)
    /\ \A w \in Workers : WorkerAgrees(w)

=============================================================================
