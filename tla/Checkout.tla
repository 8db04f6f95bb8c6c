------------------------------ MODULE Checkout ------------------------------
(***************************************************************************)
(* Purchase checkout: carts, quotes, purchase attempts, stock reservations *)
(* and the recovery of online payments, as CheckoutRepository and          *)
(* CartsRepository implement them over PostgreSQL and Stripe Checkout.     *)
(*                                                                         *)
(* A database transaction, and a single UPDATE ... WHERE outside one, is   *)
(* one action: the rows it decides on are locked.  A call to Stripe is an  *)
(* action of its own between two of them.  The code running in the API     *)
(* processes and in the scheduler is a set of Workers; each holds the copy *)
(* of the attempt row that its claim returned and may crash at any point.  *)
(*                                                                         *)
(* A quote starts at most one attempt (checkout_attempts_quote_uidx), so   *)
(* an attempt, its order and its reservations are named by the quote, and  *)
(* the quote row is also the snapshot the attempt froze.                   *)
(***************************************************************************)
EXTENDS Integers, FiniteSets, FiniteSetsExt

CONSTANTS
    Shoppers,            \* the users buying from one Store
    Variants,            \* the Store's product variants
    Tracked,             \* the variants whose stock is counted
    Quotes,              \* ids of checkout_quotes rows
    Keys,                \* Idempotency-Key header values
    Workers,             \* concurrent executions of the repository's code
    Offers,              \* versions of everything else a snapshot freezes
    NoOffer,             \* the Store is not selling
    NoCart, NoQuote, NoWorker,
    ProviderMaxAttempts, \* PROVIDER_MAX_ATTEMPTS
    MaxQty,              \* bound: units of one variant in a cart
    MaxStock,            \* bound: units on hand
    MaxCartVersion,      \* bound: cart edits stop at this revision
    MaxMishaps           \* bound: crashes, and leases lost by a live worker

ASSUME CheckoutAssumption ==
    /\ Tracked \subseteq Variants
    /\ NoOffer \notin Offers
    /\ NoQuote \notin Quotes
    /\ NoWorker \notin Workers
    /\ ProviderMaxAttempts \in Nat \ {0}
    /\ {MaxQty, MaxStock, MaxCartVersion, MaxMishaps} \subseteq Nat

VARIABLES
    cart,      \* carts and cart_items: the cart of each shopper
    cartSeq,   \* cart_version_sequence: the last revision allocated
    offer,     \* what the Store offers now
    onHand, reserved,   \* product_variants.on_hand and .reserved
    quote,     \* checkout_quotes
    command,   \* commerce_commands of operation 'start-checkout'
    attempt,   \* checkout_attempts
    hold,      \* disposition of the attempt's checkout_reservations
    order,     \* payment status of the order the attempt placed
    session,   \* Stripe: the state of each Checkout Session of an attempt
    keyed,     \* Stripe: the Session its idempotency key answers with
    link,      \* the Session whose payment URL the shopper has seen
    worker,    \* what each worker is doing
    mishaps    \* crashes and lost leases so far

shopVars     == <<cart, cartSeq, quote, command>>
stockVars    == <<onHand, reserved, hold, order>>
providerVars == <<session, keyed, link>>
vars == <<cart, cartSeq, offer, onHand, reserved, quote, command, attempt,
          hold, order, session, keyed, link, worker, mishaps>>

-----------------------------------------------------------------------------
(* Rows *)

Active   == {"creating", "pending", "cancelling"}
Released == {"cancelled", "expired"}
Terminal == Released \cup {"succeeded"}

Contents == [Variants -> 0..MaxQty]
Carts    == [version : Nat, items : Contents]

\* The snapshot of a checkout_quotes row and its two lifecycle columns.
QuoteRows == [shopper : Shoppers, version : Nat, items : Contents,
              method : {"cod", "online"}, offer : Offers,
              expired : BOOLEAN, consumed : BOOLEAN]

ASSUME NullAssumption == NoCart \notin Carts /\ NoQuote \notin QuoteRows

\* Checkout Sessions of one attempt; 0 is the null checkout_session_id.
Sessions == 1..2

\* due: next_retry_at has passed.  dispatched: provider_dispatched_at is null,
\* at most 23 hours old, or older.  leaseOld: lease_expires_at has passed.
\* urls: the return URLs frozen in provider_request are complete.
AttemptRows ==
    [status : {"none"} \cup Active \cup Terminal, urls : BOOLEAN,
     session : {0} \cup Sessions, dispatched : {"no", "recent", "old"},
     tries : Nat, due : BOOLEAN, lease : Workers \cup {NoWorker},
     leaseOld : BOOLEAN, review : BOOLEAN]

NoAttempt ==
    [status |-> "none", urls |-> FALSE, session |-> 0, dispatched |-> "no",
     tries |-> 0, due |-> FALSE, lease |-> NoWorker, leaseOld |-> FALSE,
     review |-> FALSE]

\* The steps a worker can stand before.  "withdraw" is the release that
\* cancelAttempt makes itself, outside any lease.
Steps == {"idle", "create", "call", "save", "reconcile", "verify", "expire",
          "release", "place", "finish", "failed", "withdraw"}

\* on: the attempt worked on; seen: the row the claim returned;
\* got: the Session that sessions.create answered with.
WorkerStates == [step : Steps, on : Quotes \cup {NoQuote},
                 seen : AttemptRows, got : {0} \cup Sessions]

Idle == [step |-> "idle", on |-> NoQuote, seen |-> NoAttempt, got |-> 0]

ShopTypes ==
    /\ cart \in [Shoppers -> Carts \cup {NoCart}]
    /\ cartSeq \in Nat
    /\ quote \in [Quotes -> QuoteRows \cup {NoQuote}]
    /\ command \in [Shoppers -> [Keys -> Quotes \cup {NoQuote}]]
    /\ offer \in Offers \cup {NoOffer}

StockTypes ==
    /\ onHand \in [Variants -> Nat]
    /\ reserved \in [Variants -> Nat]
    /\ hold \in [Quotes -> {"none", "held", "consumed", "released"}]
    /\ order \in [Quotes -> {"none", "unpaid", "paid"}]

ProviderTypes ==
    /\ session \in [Quotes -> [Sessions -> {"none", "open", "paid", "expired"}]]
    /\ keyed \in [Quotes -> {0} \cup Sessions]
    /\ link \in [Quotes -> {0} \cup Sessions]

TypeOK ==
    /\ ShopTypes
    /\ StockTypes
    /\ ProviderTypes
    /\ attempt \in [Quotes -> AttemptRows]
    /\ worker \in [Workers -> WorkerStates]
    /\ mishaps \in Nat

Init ==
    /\ cart = [s \in Shoppers |-> NoCart]
    /\ cartSeq = 0
    /\ offer \in Offers
    /\ onHand = [v \in Variants |-> IF v \in Tracked THEN MaxStock ELSE 0]
    /\ reserved = [v \in Variants |-> 0]
    /\ quote = [q \in Quotes |-> NoQuote]
    /\ command = [s \in Shoppers |-> [k \in Keys |-> NoQuote]]
    /\ attempt = [q \in Quotes |-> NoAttempt]
    /\ hold = [q \in Quotes |-> "none"]
    /\ order = [q \in Quotes |-> "none"]
    /\ session = [q \in Quotes |-> [i \in Sessions |-> "none"]]
    /\ keyed = [q \in Quotes |-> 0]
    /\ link = [q \in Quotes |-> 0]
    /\ worker = [w \in Workers |-> Idle]
    /\ mishaps = 0

-----------------------------------------------------------------------------
(* Carts and stock around a checkout *)

IsActive(q) == attempt[q].status \in Active

\* assertCartUnlocked, and the same query in start and in the cleanup task.
\* A cart with an active attempt is never deleted, so the shopper's cart is
\* the cart of the shopper's active attempt.
CartNeverLocked(s) == TRUE   \* slip: the query is forgotten

CartUnlocked(s) ==
    \A q \in Quotes : IsActive(q) => quote[q].shopper # s

IgnoresReserved(v, n) == v \in Tracked => onHand[v] >= n   \* slip

Available(v, n) == v \in Tracked => onHand[v] - reserved[v] >= n

Empty == [v \in Variants |-> 0]

\* PUT an item.  The caller's version is the current one, or the call is
\* refused.  An unchanged quantity is a no-op; a new cart is created.  A put
\* that the catalogue refuses is one that does not happen.
PutItem(s, v, n) ==
    LET items == IF cart[s] = NoCart THEN Empty ELSE cart[s].items IN
    /\ cartSeq < MaxCartVersion
    /\ cart[s] # NoCart => CartUnlocked(s)
    /\ items[v] # n
    /\ Available(v, n)
    /\ cart' = [cart EXCEPT ![s] = [version |-> cartSeq + 1,
                                    items   |-> [items EXCEPT ![v] = n]]]
    /\ cartSeq' = cartSeq + 1
    /\ UNCHANGED <<offer, onHand, reserved, quote, command, attempt, hold,
                   order, providerVars, worker, mishaps>>

\* DELETE an item; removing the last one deletes the cart.
RemoveItem(s, v) ==
    /\ cartSeq < MaxCartVersion
    /\ cart[s] # NoCart
    /\ CartUnlocked(s)
    /\ cart[s].items[v] > 0
    /\ LET items == [cart[s].items EXCEPT ![v] = 0] IN
       IF items = Empty
       THEN /\ cart' = [cart EXCEPT ![s] = NoCart]
            /\ UNCHANGED cartSeq
       ELSE /\ cart' = [cart EXCEPT ![s] = [version |-> cartSeq + 1,
                                            items   |-> items]]
            /\ cartSeq' = cartSeq + 1
    /\ UNCHANGED <<offer, onHand, reserved, quote, command, attempt, hold,
                   order, providerVars, worker, mishaps>>

\* DELETE the cart, by the shopper or by the cleanup of inactive carts.
DeleteCart(s) ==
    /\ cart[s] # NoCart
    /\ CartUnlocked(s)
    /\ cart' = [cart EXCEPT ![s] = NoCart]
    /\ UNCHANGED <<cartSeq, offer, onHand, reserved, quote, command, attempt,
                   hold, order, providerVars, worker, mishaps>>

\* A merchant sets the stock on hand, never below what is reserved.
SetOnHand(v, n) ==
    /\ v \in Tracked
    /\ n # onHand[v]
    /\ reserved[v] <= n
    /\ onHand' = [onHand EXCEPT ![v] = n]
    /\ UNCHANGED <<shopVars, offer, reserved, attempt, hold, order,
                   providerVars, worker, mishaps>>

\* Prices, settings, addresses or eligibility change.
ChangeOffer(o) ==
    /\ o # offer
    /\ offer' = o
    /\ UNCHANGED <<shopVars, stockVars, attempt, providerVars, worker, mishaps>>

-----------------------------------------------------------------------------
(* Quotes and the start of an attempt *)

\* buildSnapshot accepts the shopper's cart at this revision.
Quotable(s, version) ==
    /\ cart[s] # NoCart
    /\ cart[s].version = version
    /\ offer # NoOffer
    /\ \A v \in Variants : Available(v, cart[s].items[v])

CreateQuote(q, s, method) ==
    /\ quote[q] = NoQuote
    /\ cart[s] # NoCart
    /\ Quotable(s, cart[s].version)
    /\ quote' = [quote EXCEPT ![q] =
           [shopper |-> s, version |-> cart[s].version,
            items |-> cart[s].items, method |-> method, offer |-> offer,
            expired |-> FALSE, consumed |-> FALSE]]
    /\ UNCHANGED <<cart, cartSeq, command, offer, stockVars, attempt,
                   providerVars, worker, mishaps>>

\* Five minutes pass; nobody looks at the expiry of a consumed quote again.
QuoteExpires(q) ==
    /\ quote[q] # NoQuote
    /\ ~quote[q].expired
    /\ ~quote[q].consumed
    /\ quote' = [quote EXCEPT ![q].expired = TRUE]
    /\ UNCHANGED <<cart, cartSeq, command, offer, stockVars, attempt,
                   providerVars, worker, mishaps>>

\* What both starts require: a command key not used before, a live quote, a
\* snapshot that still hashes to the quoted one, and an unlocked cart.
Startable(q, k) ==
    /\ quote[q] # NoQuote
    /\ command[quote[q].shopper][k] = NoQuote
    /\ ~quote[q].consumed
    /\ ~quote[q].expired
    /\ Quotable(quote[q].shopper, quote[q].version)
    /\ cart[quote[q].shopper].items = quote[q].items
    /\ offer = quote[q].offer
    /\ CartUnlocked(quote[q].shopper)

\* Units of v that the snapshot of q takes from the counted stock.
Units(q, v) == IF v \in Tracked THEN quote[q].items[v] ELSE 0

\* Slip: the counter is set to this attempt's units.
ReserveOverwrites(q) ==
    /\ \A v \in Variants : Available(v, quote[q].items[v])
    /\ reserved' = [v \in Variants |-> Units(q, v)]
    /\ hold' = [hold EXCEPT ![q] = "held"]

\* reserve: every line's variant is re-read under its lock.
Reserve(q) ==
    /\ \A v \in Variants : Available(v, quote[q].items[v])
    /\ reserved' = [v \in Variants |-> reserved[v] + Units(q, v)]
    /\ hold' = [hold EXCEPT ![q] = "held"]

RecordStart(q, k) ==
    /\ quote' = [quote EXCEPT ![q].consumed = TRUE]
    /\ command' = [command EXCEPT ![quote[q].shopper][k] = q]

\* Cash on delivery: one transaction reserves, places and ends the attempt.
StartCashOnDelivery(q, k) ==
    /\ Startable(q, k)
    /\ quote[q].method = "cod"
    /\ Reserve(q)
    /\ RecordStart(q, k)
    /\ attempt' = [attempt EXCEPT ![q] = [NoAttempt EXCEPT !.status = "succeeded"]]
    /\ order' = [order EXCEPT ![q] = "unpaid"]
    /\ cart' = [cart EXCEPT ![quote[q].shopper] = NoCart]
    /\ UNCHANGED <<cartSeq, offer, onHand, providerVars, worker, mishaps>>

\* Online: the transaction that persists the attempt.  The eager processing
\* that follows it is a forced claim, which ProcessOnlineAttempt allows.
StartOnline(q, k, urls) ==
    /\ Startable(q, k)
    /\ quote[q].method = "online"
    /\ Reserve(q)
    /\ RecordStart(q, k)
    /\ attempt' = [attempt EXCEPT ![q] =
           [NoAttempt EXCEPT !.status = "creating", !.urls = urls, !.due = TRUE]]
    /\ UNCHANGED <<cart, cartSeq, offer, onHand, order, providerVars, worker,
                   mishaps>>

-----------------------------------------------------------------------------
(* Cancellation by the shopper *)

\* The transaction of cancelAttempt.  Without frozen URLs nothing can have
\* been sent, and the same request goes on to release the attempt itself.
\* On any other attempt the call changes nothing and forces a claim.
CancelAttempt(w, q) ==
    /\ worker[w].step = "idle"
    /\ order[q] = "none"
    /\ attempt[q].status \in {"creating", "pending"}
    /\ attempt' = [attempt EXCEPT ![q].status = "cancelling", ![q].due = TRUE]
    /\ worker' =
           IF /\ attempt[q].session = 0
              /\ attempt[q].dispatched = "no"
              /\ ~attempt[q].urls
           THEN [worker EXCEPT ![w] =
                    [Idle EXCEPT !.step = "withdraw", !.on = q]]
           ELSE worker
    /\ UNCHANGED <<shopVars, offer, stockVars, providerVars, mishaps>>

-----------------------------------------------------------------------------
(* The lease *)

Holds(w, q) == attempt[q].lease = w

\* The columns every step that ends the work under a lease sets.
Unleased(row) == [row EXCEPT !.lease = NoWorker, !.leaseOld = FALSE]

Done(w) == worker' = [worker EXCEPT ![w] = Idle]

Proceed(w, step) == worker' = [worker EXCEPT ![w].step = step]

\* A claim: by the scheduler when the attempt is due, forced by a start, a
\* cancellation, a Connect event or an operator.
ProcessOnlineAttempt(w, q, force) ==
    /\ worker[w].step = "idle"
    /\ IsActive(q)
    /\ ~attempt[q].review
    /\ attempt[q].lease = NoWorker \/ attempt[q].leaseOld
    /\ force \/ attempt[q].due
    /\ attempt' = [attempt EXCEPT ![q].lease = w, ![q].leaseOld = FALSE]
    /\ worker' = [worker EXCEPT ![w] =
           [step |-> IF attempt[q].status = "creating" THEN "create"
                                                       ELSE "reconcile",
            on |-> q, seen |-> attempt'[q], got |-> 0]]
    /\ UNCHANGED <<shopVars, offer, stockVars, providerVars, mishaps>>

\* finishAttemptWork: ends the work if the lease is still this worker's.
FinishAttemptWork(w, due) ==
    LET q == worker[w].on IN
    /\ attempt' = IF Holds(w, q)
                  THEN [attempt EXCEPT ![q] =
                            [Unleased(attempt[q]) EXCEPT !.due = due]]
                  ELSE attempt
    /\ Done(w)

\* markAttemptForReview: stops automatic work; the row keeps its status.
MarkAttemptForReview(w) ==
    LET q == worker[w].on IN
    /\ attempt' = IF Holds(w, q)
                  THEN [attempt EXCEPT ![q] =
                            [Unleased(attempt[q]) EXCEPT !.review = TRUE]]
                  ELSE attempt
    /\ Done(w)

\* Slip: a failure is recorded without being counted.
UncountedFailure(w) == worker[w].seen.tries

\* Failures are counted from the copy the claim returned.
FailedAttempts(w) == worker[w].seen.tries + 1

RecordProviderFailure(w) ==
    LET q     == worker[w].on
        tries == FailedAttempts(w)
    IN  /\ worker[w].step = "failed"
        /\ attempt' = IF Holds(w, q)
                      THEN [attempt EXCEPT ![q] =
                               [Unleased(attempt[q]) EXCEPT
                                    !.tries = tries, !.due = FALSE,
                                    !.review = tries >= ProviderMaxAttempts]]
                      ELSE attempt
        /\ Done(w)
        /\ UNCHANGED <<shopVars, offer, stockVars, providerVars, mishaps>>

-----------------------------------------------------------------------------
(* Creating the Checkout Session *)

WindowNeverOver(w) == FALSE   \* slip: the 23 hours are not checked

WindowOver(w) ==
    /\ worker[w].seen.dispatched # "no"
    /\ attempt[worker[w].on].dispatched = "old"

\* createProviderSession refuses: URLs are missing, or Stripe may have
\* forgotten the idempotency key.
RefuseToCreate(w) ==
    /\ worker[w].step = "create"
    /\ ~worker[w].seen.urls \/ WindowOver(w)
    /\ MarkAttemptForReview(w)
    /\ UNCHANGED <<shopVars, offer, stockVars, providerVars, mishaps>>

\* Slip: the creation is sent whether or not the UPDATE found its row.
DispatchUnfenced(w, q) == TRUE

\* The dispatch UPDATE, fenced by the status and by the lease.
MayDispatch(w, q) == attempt[q].status = "creating" /\ Holds(w, q)

DispatchCreate(w) ==
    LET q == worker[w].on IN
    /\ worker[w].step = "create"
    /\ worker[w].seen.urls
    /\ ~WindowOver(w)
    /\ IF MayDispatch(w, q)
       THEN /\ attempt' = [attempt EXCEPT
                   ![q].dispatched = IF worker[w].seen.dispatched = "no"
                                     THEN "recent" ELSE @,
                   ![q].tries = worker[w].seen.tries + 1]
            /\ Proceed(w, "call")
       ELSE FinishAttemptWork(w, TRUE)
    /\ UNCHANGED <<shopVars, offer, stockVars, providerVars, mishaps>>

\* Stripe answers a known idempotency key with the Session it made for it,
\* and makes a new Session otherwise.
CreateCheckoutSession(w) ==
    LET q     == worker[w].on
        fresh == CHOOSE i \in Sessions :
                     /\ session[q][i] = "none"
                     /\ \A j \in Sessions : j < i => session[q][j] # "none"
        got   == IF keyed[q] # 0 THEN keyed[q] ELSE fresh
    IN  /\ worker[w].step = "call"
        /\ keyed[q] # 0 \/ \E i \in Sessions : session[q][i] = "none"
        /\ session' = IF keyed[q] # 0 THEN session
                      ELSE [session EXCEPT ![q][fresh] = "open"]
        /\ keyed' = [keyed EXCEPT ![q] = got]
        /\ worker' = [worker EXCEPT ![w] = [@ EXCEPT !.step = "save", !.got = got]]
        /\ UNCHANGED <<shopVars, offer, stockVars, attempt, link, mishaps>>

\* The UPDATE is fenced by the lease alone: a cancellation in the meantime
\* keeps its status and gains the Session to expire.
SaveProviderSession(w) ==
    LET q == worker[w].on IN
    /\ worker[w].step = "save"
    /\ attempt' = IF Holds(w, q)
                  THEN [attempt EXCEPT ![q] =
                           [Unleased(attempt[q]) EXCEPT
                                !.status = IF @ = "creating" THEN "pending" ELSE @,
                                !.session = worker[w].got, !.due = FALSE]]
                  ELSE attempt
    /\ Done(w)
    /\ UNCHANGED <<shopVars, offer, stockVars, providerVars, mishaps>>

-----------------------------------------------------------------------------
(* Reconciling with the Checkout Session *)

ReleasableUnsent(seen) ==
    seen.status = "cancelling" /\ seen.dispatched = "no"

\* No Session on the claimed row: release only a cancellation that nothing
\* was dispatched for, and otherwise look again in a minute.
ReconcileWithoutSession(w) ==
    /\ worker[w].step = "reconcile"
    /\ worker[w].seen.session = 0
    /\ IF ReleasableUnsent(worker[w].seen)
       THEN Proceed(w, "release") /\ UNCHANGED attempt
       ELSE FinishAttemptWork(w, FALSE)
    /\ UNCHANGED <<shopVars, offer, stockVars, providerVars, mishaps>>

\* Slip: a Session that is no longer open counts as paid.
ClosedIsPaid(state, seen) ==
    CASE state \in {"paid", "expired"} -> "verify"
      [] OTHER -> IF seen.status = "cancelling" THEN "expire" ELSE "finish"

\* Slip: a cancelled attempt is released without expiring its Session.
ReleaseAtOnce(state, seen) ==
    CASE state = "paid"    -> "verify"
      [] state = "expired" -> "release"
      [] OTHER -> IF seen.status = "cancelling" THEN "release" ELSE "finish"

\* What the rest of the procedure does with the Session Stripe returned.
NextStep(state, seen) ==
    CASE state = "paid"    -> "verify"
      [] state = "expired" -> "release"
      [] OTHER -> IF seen.status = "cancelling" THEN "expire" ELSE "finish"

RetrieveCheckoutSession(w) ==
    LET seen == worker[w].seen IN
    /\ worker[w].step = "reconcile"
    /\ seen.session # 0
    /\ Proceed(w, NextStep(session[worker[w].on][seen.session], seen))
    /\ UNCHANGED <<shopVars, offer, stockVars, attempt, providerVars, mishaps>>

\* The PaymentIntent either matches the frozen snapshot or needs a person.
VerifyPaymentIntent(w, matches) ==
    /\ worker[w].step = "verify"
    /\ IF matches THEN Proceed(w, "place") /\ UNCHANGED attempt
                  ELSE MarkAttemptForReview(w)
    /\ UNCHANGED <<shopVars, offer, stockVars, providerVars, mishaps>>

\* Stripe expires an open Session and rejects the call for any other.
ExpireCheckoutSession(w) ==
    LET q == worker[w].on
        i == worker[w].seen.session
    IN  /\ worker[w].step = "expire"
        /\ IF session[q][i] = "open"
           THEN /\ session' = [session EXCEPT ![q][i] = "expired"]
                /\ Proceed(w, "release")
           ELSE /\ UNCHANGED session
                /\ Proceed(w, "failed")
        /\ UNCHANGED <<shopVars, offer, stockVars, attempt, keyed, link, mishaps>>

FinishReconcile(w) ==
    /\ worker[w].step = "finish"
    /\ FinishAttemptWork(w, FALSE)
    /\ UNCHANGED <<shopVars, offer, stockVars, providerVars, mishaps>>

-----------------------------------------------------------------------------
(* The two outcomes of an online attempt *)

Lower(n, m) == IF n > m THEN n - m ELSE 0

NeverFinished(q) == FALSE   \* slip: a second release is not a no-op

Finished(q) == attempt[q].status \in Terminal

\* Slip: an expired Session is recorded as a failure.
ExpiryIsFailure(w) ==
    IF worker[w].step = "withdraw" \/ worker[w].seen.status = "cancelling"
    THEN "cancelled" ELSE "failed"

ReleaseStatus(w) ==
    IF worker[w].step = "withdraw" \/ worker[w].seen.status = "cancelling"
    THEN "cancelled" ELSE "expired"

KeepsRevision(s) == UNCHANGED <<cart, cartSeq>>   \* slip: no fresh revision

RenewRevision(s) ==
    IF cart[s] = NoCart
    THEN UNCHANGED <<cart, cartSeq>>
    ELSE /\ cart' = [cart EXCEPT ![s].version = cartSeq + 1]
         /\ cartSeq' = cartSeq + 1

\* releaseUnpaidAttempt: gives back the held stock, ends the attempt and
\* moves the cart to a fresh revision.  No lease is checked.
ReleaseUnpaidAttempt(w) ==
    LET q == worker[w].on IN
    /\ worker[w].step \in {"release", "withdraw"}
    /\ IF Finished(q)
       THEN UNCHANGED <<reserved, hold, attempt, cart, cartSeq>>
       ELSE /\ reserved' = IF hold[q] = "held"
                           THEN [v \in Variants |-> Lower(reserved[v], Units(q, v))]
                           ELSE reserved
            /\ hold' = [hold EXCEPT ![q] = IF @ = "held" THEN "released" ELSE @]
            /\ attempt' = [attempt EXCEPT ![q] =
                   [Unleased(attempt[q]) EXCEPT !.status = ReleaseStatus(w)]]
            /\ RenewRevision(quote[q].shopper)
    /\ Done(w)
    /\ UNCHANGED <<quote, command, offer, onHand, order, providerVars, mishaps>>

\* A payment for an attempt that was released is left to a person.
PaidTooLate(q) == order[q] = "none" /\ attempt[q].status \in Released

\* placePaidOnlineOrder: no lease is checked; an attempt whose order exists
\* is only marked succeeded again.
PlacePaidOnlineOrder(w) ==
    LET q == worker[w].on IN
    /\ worker[w].step = "place"
    /\ attempt' = [attempt EXCEPT ![q] =
           IF PaidTooLate(q)
           THEN [Unleased(attempt[q]) EXCEPT !.review = TRUE]
           ELSE [Unleased(attempt[q]) EXCEPT !.status = "succeeded"]]
    /\ IF order[q] = "none" /\ ~PaidTooLate(q)
       THEN /\ order' = [order EXCEPT ![q] = "paid"]
            /\ hold' = [hold EXCEPT ![q] = IF @ = "held" THEN "consumed" ELSE @]
            /\ cart' = [cart EXCEPT ![quote[q].shopper] = NoCart]
       ELSE UNCHANGED <<order, hold, cart>>
    /\ Done(w)
    /\ UNCHANGED <<cartSeq, quote, command, offer, onHand, reserved,
                   providerVars, mishaps>>

-----------------------------------------------------------------------------
(* Failures and time *)

\* A call to Stripe or a transaction throws, with or without its effect: the
\* effect of a lost answer is the step before.
ProviderFails(w) ==
    /\ worker[w].step \in {"call", "save", "reconcile", "verify", "expire",
                           "release", "place"}
    /\ Proceed(w, "failed")
    /\ UNCHANGED <<shopVars, offer, stockVars, attempt, providerVars, mishaps>>

\* The process dies; what it left in the database and at Stripe stays.
Crash(w) ==
    /\ worker[w].step # "idle"
    /\ mishaps < MaxMishaps
    /\ mishaps' = mishaps + 1
    /\ Done(w)
    /\ UNCHANGED <<shopVars, offer, stockVars, attempt, providerVars>>

WorksOn(w, q) == worker[w].step # "idle" /\ worker[w].on = q

\* Five minutes pass.  A live worker loses its lease only MaxMishaps times.
LeaseExpires(q) ==
    LET w == attempt[q].lease IN
    /\ w # NoWorker
    /\ ~attempt[q].leaseOld
    /\ IF WorksOn(w, q)
       THEN mishaps < MaxMishaps /\ mishaps' = mishaps + 1
       ELSE UNCHANGED mishaps
    /\ attempt' = [attempt EXCEPT ![q].leaseOld = TRUE]
    /\ UNCHANGED <<shopVars, offer, stockVars, providerVars, worker>>

RetryComesDue(q) ==
    /\ IsActive(q)
    /\ ~attempt[q].due
    /\ attempt' = [attempt EXCEPT ![q].due = TRUE]
    /\ UNCHANGED <<shopVars, offer, stockVars, providerVars, worker, mishaps>>

\* 23 hours after the dispatch.
DispatchAges(q) ==
    /\ IsActive(q)
    /\ attempt[q].dispatched = "recent"
    /\ attempt' = [attempt EXCEPT ![q].dispatched = "old"]
    /\ UNCHANGED <<shopVars, offer, stockVars, providerVars, worker, mishaps>>

\* Stripe drops idempotency keys some time later; no request that was sent
\* inside the window is still on its way by then.
KeyForgotten(q) ==
    /\ keyed[q] # 0
    /\ attempt[q].dispatched = "old"
    /\ \A w \in Workers : ~(worker[w].on = q /\ worker[w].step = "call")
    /\ keyed' = [keyed EXCEPT ![q] = 0]
    /\ UNCHANGED <<shopVars, offer, stockVars, attempt, session, link, worker,
                   mishaps>>

\* attemptResponse hands out the payment URL of a pending attempt.
ReadAttempt(q) ==
    /\ attempt[q].status = "pending"
    /\ ~attempt[q].review
    /\ attempt[q].session # 0
    /\ session[q][attempt[q].session] = "open"
    /\ link[q] # attempt[q].session
    /\ link' = [link EXCEPT ![q] = attempt[q].session]
    /\ UNCHANGED <<shopVars, offer, stockVars, attempt, session, keyed, worker,
                   mishaps>>

\* The shopper pays by card on the page the URL leads to.
Pay(q) ==
    /\ link[q] # 0
    /\ session[q][link[q]] = "open"
    /\ session' = [session EXCEPT ![q][link[q]] = "paid"]
    /\ UNCHANGED <<shopVars, offer, stockVars, attempt, keyed, link, worker,
                   mishaps>>

SessionTimesOut(q, i) ==
    /\ session[q][i] = "open"
    /\ session' = [session EXCEPT ![q][i] = "expired"]
    /\ UNCHANGED <<shopVars, offer, stockVars, attempt, keyed, link, worker,
                   mishaps>>

-----------------------------------------------------------------------------

Shopping ==
    \/ \E s \in Shoppers, v \in Variants :
          \/ \E n \in 1..MaxQty : PutItem(s, v, n)
          \/ RemoveItem(s, v)
    \/ \E s \in Shoppers : DeleteCart(s)
    \/ \E q \in Quotes, s \in Shoppers, m \in {"cod", "online"} :
          CreateQuote(q, s, m)
    \/ \E q \in Quotes, k \in Keys :
          \/ StartCashOnDelivery(q, k)
          \/ \E urls \in BOOLEAN : StartOnline(q, k, urls)
    \/ \E w \in Workers, q \in Quotes : CancelAttempt(w, q)
    \/ \E q \in Quotes : ReadAttempt(q) \/ Pay(q)

Merchant ==
    \/ \E v \in Variants, n \in 0..MaxStock : SetOnHand(v, n)
    \/ \E o \in Offers \cup {NoOffer} : ChangeOffer(o)

\* The step a worker that holds a claim takes next.
Work(w) ==
    \/ RefuseToCreate(w) \/ DispatchCreate(w) \/ CreateCheckoutSession(w)
    \/ SaveProviderSession(w) \/ ReconcileWithoutSession(w)
    \/ RetrieveCheckoutSession(w)
    \/ \E matches \in BOOLEAN : VerifyPaymentIntent(w, matches)
    \/ ExpireCheckoutSession(w) \/ FinishReconcile(w)
    \/ ReleaseUnpaidAttempt(w) \/ PlacePaidOnlineOrder(w)
    \/ RecordProviderFailure(w)

Working ==
    \/ \E w \in Workers, q \in Quotes, force \in BOOLEAN :
          ProcessOnlineAttempt(w, q, force)
    \/ \E w \in Workers : Work(w) \/ ProviderFails(w) \/ Crash(w)

Time ==
    \E q \in Quotes :
        \/ QuoteExpires(q) \/ LeaseExpires(q) \/ RetryComesDue(q)
        \/ DispatchAges(q) \/ KeyForgotten(q)
        \/ \E i \in Sessions : SessionTimesOut(q, i)

Next == Shopping \/ Merchant \/ Working \/ Time

Spec == Init /\ [][Next]_vars

-----------------------------------------------------------------------------
(* Properties *)

\* Every unit counted as reserved is claimed by exactly the reservations that
\* are held or that back a placed online order: no path (start, release after
\* expiry, cancellation, crash and retry, two workers on one attempt) reserves
\* or gives back the same units twice.
ReservedMatchesClaims ==
    \A v \in Tracked :
        reserved[v] = MapThenSumSet(LAMBDA q : Units(q, v),
                          {q \in Quotes : hold[q] \in {"held", "consumed"}})

\* Shoppers, stock edits and expiries together never promise a unit that is
\* not on hand.
NothingOversold == \A v \in Tracked : reserved[v] <= onHand[v]

\* While an attempt can still take money its shopper's cart stays, line for
\* line and revision for revision, what the quote priced; so there is one such
\* attempt per cart, and the cart a placed order deletes is what it sold.
CartFrozenWhileActive ==
    \A q \in Quotes : IsActive(q) =>
        /\ cart[quote[q].shopper] # NoCart
        /\ cart[quote[q].shopper].version = quote[q].version
        /\ cart[quote[q].shopper].items = quote[q].items
        /\ \A p \in Quotes \ {q} :
              IsActive(p) => quote[p].shopper # quote[q].shopper

\* One revision of a cart is bought at most once: a released attempt moves the
\* cart to a fresh revision, a placed order deletes it, and a cart created
\* again never reuses a revision that an old quote still names.
OneAttemptPerCartRevision ==
    \A p, q \in Quotes :
        /\ attempt[p].status # "none" /\ attempt[q].status # "none"
        /\ p # q
        => quote[p].version # quote[q].version

\* Whatever was lost, retried or taken over by another worker, Stripe holds at
\* most one Checkout Session for an attempt.
OneSessionPerAttempt == \A q \in Quotes : session[q][2] = "none"

\* Stock is given back only when no money can come any more: every Session of
\* a released attempt is expired, and none will be opened.
ReleasedCannotBePaid ==
    \A q \in Quotes : attempt[q].status \in Released =>
        \A i \in Sessions : session[q][i] \in {"none", "expired"}

\* An order and the attempt's outcome agree, an online order has a payment
\* behind it, and the order keeps the units the attempt reserved.
OrdersAreBacked ==
    \A q \in Quotes :
        /\ attempt[q].status = "succeeded" <=> order[q] # "none"
        /\ order[q] = "paid" =>
              /\ quote[q].method = "online"
              /\ hold[q] = "consumed"
              /\ \E i \in Sessions : session[q][i] = "paid"
        /\ order[q] = "unpaid" => quote[q].method = "cod" /\ hold[q] = "held"

\* A finished attempt stays as it ended, whichever stale worker, event or
\* retry touches it afterwards.
OutcomeIsFinal ==
    [][\A q \in Quotes : attempt[q].status \in Terminal =>
          /\ attempt'[q].status = attempt[q].status
          /\ hold'[q] = hold[q]
          /\ order'[q] = order[q]]_vars

\* The scheduler runs every minute in a process that is restarted when it
\* dies, each claim runs to its end unless its process dies, and time passes.
\* Nothing obliges shoppers, merchants, Stripe's answers or crashes.
Fairness ==
    /\ \A w \in Workers : WF_vars(Work(w))
    /\ \A q \in Quotes :
          /\ WF_vars(\E w \in Workers : ProcessOnlineAttempt(w, q, FALSE))
          /\ WF_vars(LeaseExpires(q))
          /\ WF_vars(RetryComesDue(q))
          /\ \A i \in Sessions : WF_vars(SessionTimesOut(q, i))

FairSpec == Spec /\ Fairness

Settled(q) == ~IsActive(q) \/ attempt[q].review

\* Once Stripe's Session is recorded the attempt ends, or asks for a person,
\* through crashes, lost leases and failing calls: a payment is never left
\* without an order or a review, and stock is never held for ever.
KnownSessionIsSettled ==
    \A q \in Quotes :
        IsActive(q) /\ attempt[q].session # 0 ~> Settled(q)

\* A cancellation that reached the attempt before any request to Stripe
\* releases it in the end, even if the cancelling request dies half way.
EarlyCancellationIsSettled ==
    \A q \in Quotes :
        attempt[q].status = "cancelling" /\ attempt[q].dispatched = "no"
            ~> Settled(q)

\* What the comment at the eager call in startOnline promises of every attempt:
\* "an outage or crash leaves the attempt recoverable".
EveryAttemptIsSettled ==
    \A q \in Quotes : IsActive(q) ~> Settled(q)

=============================================================================
