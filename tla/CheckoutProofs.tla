--------------------------- MODULE CheckoutProofs ---------------------------
(***************************************************************************)
(* Consistent is an invariant of Checkout for every set of shoppers,       *)
(* variants, quotes and workers and every bound; what holds of the attempt *)
(* follows from it.  CheckoutCartProofs builds on it for carts, for the    *)
(* implementation of Purchase and for the counters of stock.               *)
(***************************************************************************)
EXTENDS CheckoutInvariant, TLAPS

-----------------------------------------------------------------------------
(* Rows *)

LEMMA NewRowType ==
    ASSUME NEW u \in BOOLEAN
    PROVE  /\ NoAttempt \in AttemptRows
           /\ [NoAttempt EXCEPT !.status = "succeeded"] \in AttemptRows
           /\ [NoAttempt EXCEPT !.status = "creating", !.urls = u, !.due = TRUE]
                  \in AttemptRows
  BY DEF NoAttempt, AttemptRows, Active, Terminal

\* Ending the work under a lease changes nothing else of the row.
LEMMA UnleasedRow ==
    ASSUME NEW r \in AttemptRows
    PROVE  /\ Unleased(r) \in AttemptRows
           /\ Unleased(r).status = r.status
           /\ Unleased(r).session = r.session
           /\ Unleased(r).dispatched = r.dispatched
           /\ Unleased(r).lease = NoWorker
  BY DEF Unleased, AttemptRows

LEMMA IdleType == Idle \in WorkerStates /\ Idle.step = "idle"
  BY NewRowType DEF Idle, WorkerStates, Steps

-----------------------------------------------------------------------------
(* What a step may do to an attempt that other workers rely on *)

Evolves(q) ==
    /\ Started(q) => Started(q)' /\ quote'[q].method = quote[q].method
    /\ session[q][1] # "none" => session'[q][1] # "none"
    /\ \A s \in {"paid", "expired"} :
          session[q][1] = s => session'[q][1] = s
    /\ attempt[q].dispatched # "no" => attempt'[q].dispatched # "no"
    /\ Unsendable(q) => Unsendable(q)'

\* The lease of v, if it survives the step, still vouches for the dispatch.
LeaseEvolves(v, q) ==
    attempt'[q].lease = v =>
        /\ attempt[q].lease = v
        /\ attempt[q].dispatched = "no" => attempt'[q].dispatched = "no"

\* A request on its way still meets either no Session or a known key.
CallEvolves(v, q) ==
    /\ worker[v].step = "call" /\ worker[v].on = q
    /\ keyed[q] = 0 => session[q][1] = "none"
    => (keyed'[q] = 0 => session'[q][1] = "none")

\* A worker that does not move keeps what it knows.
LEMMA Bystander ==
    ASSUME NEW v \in Workers, WorkerAgrees(v), worker'[v] = worker[v],
           \A q \in Quotes : /\ Evolves(q)
                             /\ LeaseEvolves(v, q)
                             /\ CallEvolves(v, q)
    PROVE  WorkerAgrees(v)'
  BY DEF WorkerAgrees, Evolves, LeaseEvolves, CallEvolves, FirstDispatchKnown,
         Holds, Started, Unsendable, ReleasableUnsent

LEMMA IdleAgrees ==
    ASSUME NEW v \in Workers, worker'[v] = Idle
    PROVE  WorkerAgrees(v)'
  BY IdleType DEF WorkerAgrees

\* Steps that leave the attempts, their rows and Stripe alone.
LEMMA Untouched ==
    ASSUME Consistent, TypeOK',
           UNCHANGED <<attempt, hold, order, providerVars, worker>>,
           \A q \in Quotes :
              quote[q] # NoQuote =>
                 /\ quote'[q] # NoQuote
                 /\ quote'[q].method = quote[q].method
                 /\ quote'[q].consumed = quote[q].consumed
    PROVE  Consistent'
  <1>1. ASSUME NEW q \in Quotes
        PROVE  RowsAgree(q)' /\ ProviderAgrees(q)' /\ Evolves(q)
    <2>1. RowsAgree(q) /\ ProviderAgrees(q)
      BY DEF Consistent
    <2>2. Started(q) => quote[q] # NoQuote
      BY <2>1 DEF RowsAgree
    <2>. QED
      BY <2>1, <2>2 DEF RowsAgree, ProviderAgrees, Evolves, Started, IsActive,
                        Unsendable, providerVars, Active
  <1>2. ASSUME NEW v \in Workers, NEW q \in Quotes
        PROVE  LeaseEvolves(v, q) /\ CallEvolves(v, q)
    BY DEF LeaseEvolves, CallEvolves, providerVars
  <1>3. ASSUME NEW v \in Workers PROVE WorkerAgrees(v)'
    BY <1>1, <1>2, Bystander DEF Consistent
  <1>. QED
    BY <1>1, <1>3 DEF Consistent

-----------------------------------------------------------------------------
(* Carts, stock, quotes: no attempt is touched *)

LEMMA EmptyType == Empty \in Contents
  BY CheckoutAssumption DEF Contents, Empty

LEMMA ContentsType ==
    ASSUME NEW items \in Contents, NEW v \in Variants, NEW n \in 0..MaxQty
    PROVE  [items EXCEPT ![v] = n] \in Contents
  BY DEF Contents

LEMMA CartType ==
    ASSUME NEW n \in Nat, NEW items \in Contents
    PROVE  [version |-> n, items |-> items] \in Carts
  BY DEF Carts

LEMMA PutItemPreserves ==
    ASSUME Consistent, NEW s \in Shoppers, NEW v \in Variants,
           NEW n \in 1..MaxQty, PutItem(s, v, n)
    PROVE  Consistent'
  <1> DEFINE items == IF cart[s] = NoCart THEN Empty ELSE cart[s].items
  <1>1. TypeOK
    BY DEF Consistent
  <1>2. items \in Contents
    BY <1>1, EmptyType DEF TypeOK, ShopTypes, Carts
  <1>3. [version |-> cartSeq + 1, items |-> [items EXCEPT ![v] = n]] \in Carts
    <2>1. n \in 0..MaxQty /\ cartSeq + 1 \in Nat
      BY <1>1, CheckoutAssumption DEF TypeOK, ShopTypes
    <2>. HIDE DEF items
    <2>. QED
      BY <1>2, <2>1, ContentsType, CartType
  <1>4. cart' = [cart EXCEPT ![s] = [version |-> cartSeq + 1,
                                     items |-> [items EXCEPT ![v] = n]]]
        /\ cartSeq' = cartSeq + 1
        /\ UNCHANGED <<offer, onHand, reserved, quote, command, attempt, hold,
                       order, providerVars, worker, mishaps>>
    BY DEF PutItem
  <1> HIDE DEF items
  <1>5. TypeOK'
    BY <1>1, <1>3, <1>4
       DEF TypeOK, ShopTypes, StockTypes, ProviderTypes, providerVars
  <1>. QED
    BY <1>4, <1>5, Untouched

LEMMA RemoveItemPreserves ==
    ASSUME Consistent, NEW s \in Shoppers, NEW v \in Variants, RemoveItem(s, v)
    PROVE  Consistent'
  <1> DEFINE items == [cart[s].items EXCEPT ![v] = 0]
  <1>1. TypeOK
    BY DEF Consistent
  <1>2. items \in Contents
    <2>1. cart[s].items \in Contents
      BY <1>1 DEF RemoveItem, TypeOK, ShopTypes, Carts
    <2>2. 0 \in 0..MaxQty
      BY CheckoutAssumption
    <2>. QED
      BY <2>1, <2>2, ContentsType
  <1>3. [version |-> cartSeq + 1, items |-> items] \in Carts
    <2>1. cartSeq + 1 \in Nat
      BY <1>1 DEF TypeOK, ShopTypes
    <2>. HIDE DEF items
    <2>. QED
      BY <1>2, <2>1, CartType
  <1>4. /\ \/ cart' = [cart EXCEPT ![s] = NoCart] /\ cartSeq' = cartSeq
           \/ /\ cart' = [cart EXCEPT ![s] = [version |-> cartSeq + 1,
                                              items |-> items]]
              /\ cartSeq' = cartSeq + 1
        /\ UNCHANGED <<offer, onHand, reserved, quote, command, attempt, hold,
                       order, providerVars, worker, mishaps>>
    BY DEF RemoveItem
  <1> HIDE DEF items
  <1>5. TypeOK'
    BY <1>1, <1>3, <1>4
       DEF TypeOK, ShopTypes, StockTypes, ProviderTypes, providerVars
  <1>. QED
    BY <1>4, <1>5, Untouched

LEMMA DeleteCartPreserves ==
    ASSUME Consistent, NEW s \in Shoppers, DeleteCart(s)
    PROVE  Consistent'
  <1>1. TypeOK'
    BY DEF Consistent, DeleteCart, TypeOK, ShopTypes, StockTypes,
           ProviderTypes, providerVars
  <1>. QED
    BY <1>1, Untouched DEF DeleteCart

LEMMA MerchantPreserves ==
    ASSUME Consistent, Merchant
    PROVE  Consistent'
  <1>1. ASSUME NEW v \in Variants, NEW n \in 0..MaxStock, SetOnHand(v, n)
        PROVE  Consistent'
    <2>1. TypeOK'
      BY <1>1, CheckoutAssumption
         DEF Consistent, SetOnHand, TypeOK, ShopTypes, StockTypes,
             ProviderTypes, providerVars, shopVars
    <2>. QED
      BY <1>1, <2>1, Untouched DEF SetOnHand, shopVars
  <1>2. ASSUME NEW o \in Offers \cup {NoOffer}, ChangeOffer(o)
        PROVE  Consistent'
    <2>1. TypeOK'
      BY <1>2 DEF Consistent, ChangeOffer, TypeOK, ShopTypes, StockTypes,
                  ProviderTypes, providerVars, shopVars, stockVars
    <2>. QED
      BY <1>2, <2>1, Untouched DEF ChangeOffer, shopVars, stockVars
  <1>. QED
    BY <1>1, <1>2 DEF Merchant

LEMMA CreateQuotePreserves ==
    ASSUME Consistent, NEW q \in Quotes, NEW s \in Shoppers,
           NEW m \in {"cod", "online"}, CreateQuote(q, s, m)
    PROVE  Consistent'
  <1> DEFINE row == [shopper |-> s, version |-> cart[s].version,
                     items |-> cart[s].items, method |-> m, offer |-> offer,
                     expired |-> FALSE, consumed |-> FALSE]
  <1>1. TypeOK
    BY DEF Consistent
  <1>2. row \in QuoteRows
    <2>1. cart[s] \in Carts /\ offer \in Offers
      BY <1>1 DEF CreateQuote, Quotable, TypeOK, ShopTypes
    <2>. QED
      BY <2>1 DEF QuoteRows, Carts
  <1>3. /\ quote' = [quote EXCEPT ![q] = row]
        /\ quote[q] = NoQuote
        /\ UNCHANGED <<cart, cartSeq, command, offer, stockVars, attempt,
                       providerVars, worker, mishaps>>
    BY DEF CreateQuote
  <1> HIDE DEF row
  <1>4. TypeOK'
    BY <1>1, <1>2, <1>3 DEF TypeOK, ShopTypes, StockTypes, ProviderTypes,
                            providerVars, stockVars
  <1>. QED
    BY <1>1, <1>3, <1>4, Untouched DEF stockVars, TypeOK, ShopTypes

LEMMA QuoteExpiresPreserves ==
    ASSUME Consistent, NEW q \in Quotes, QuoteExpires(q)
    PROVE  Consistent'
  <1> DEFINE row == [quote[q] EXCEPT !.expired = TRUE]
  <1>1. TypeOK
    BY DEF Consistent
  <1>2. /\ row \in QuoteRows
        /\ row.method = quote[q].method
        /\ row.consumed = quote[q].consumed
        /\ row # NoQuote
    BY <1>1, NullAssumption DEF QuoteExpires, TypeOK, ShopTypes, QuoteRows
  <1>3. /\ quote' = [quote EXCEPT ![q] = row]
        /\ UNCHANGED <<cart, cartSeq, command, offer, stockVars, attempt,
                       providerVars, worker, mishaps>>
    BY DEF QuoteExpires
  <1> HIDE DEF row
  <1>4. TypeOK'
    BY <1>1, <1>2, <1>3 DEF TypeOK, ShopTypes, StockTypes, ProviderTypes,
                            providerVars, stockVars
  <1>. QED
    BY <1>1, <1>2, <1>3, <1>4, Untouched DEF stockVars, TypeOK, ShopTypes

-----------------------------------------------------------------------------
(* Assembling a step *)

\* Everything about the attempt p, and what others rely on.
LEMMA SameAttempt ==
    ASSUME Consistent, NEW p \in Quotes,
           attempt'[p] = attempt[p], hold'[p] = hold[p], order'[p] = order[p],
           session'[p] = session[p], keyed'[p] = keyed[p], link'[p] = link[p],
           quote'[p] = quote[p]
    PROVE  /\ RowsAgree(p)' /\ ProviderAgrees(p)' /\ Evolves(p)
           /\ \A v \in Workers : LeaseEvolves(v, p) /\ CallEvolves(v, p)
  BY DEF Consistent, RowsAgree, ProviderAgrees, Evolves, LeaseEvolves,
         CallEvolves, Started, IsActive, Unsendable

\* A step of worker w is a step of the system if it keeps what the rows and
\* the other workers know.
LEMMA Assemble ==
    ASSUME Consistent, TypeOK', NEW w,
           \A v \in Workers \ {w} : worker'[v] = worker[v],
           \A p \in Quotes :
              /\ RowsAgree(p)' /\ ProviderAgrees(p)' /\ Evolves(p)
              /\ \A v \in Workers \ {w} : LeaseEvolves(v, p) /\ CallEvolves(v, p),
           w \in Workers => WorkerAgrees(w)'
    PROVE  Consistent'
  <1>1. ASSUME NEW v \in Workers PROVE WorkerAgrees(v)'
    <2>1. CASE v = w
      BY <2>1
    <2>2. CASE v # w
      BY <2>2, Bystander DEF Consistent
    <2>. QED
      BY <2>1, <2>2
  <1>. QED
    BY <1>1 DEF Consistent

\* A step that writes only lease, timing, counting or review columns.
LEMMA SoftRow ==
    ASSUME Consistent, NEW q \in Quotes, NEW row \in AttemptRows, Started(q),
           attempt' = [attempt EXCEPT ![q] = row],
           row.status = attempt[q].status, row.session = attempt[q].session,
           row.dispatched = attempt[q].dispatched,
           UNCHANGED <<shopVars, stockVars, providerVars>>
    PROVE  /\ attempt' \in [Quotes -> AttemptRows]
           /\ \A p \in Quotes :
                 /\ RowsAgree(p)' /\ ProviderAgrees(p)' /\ Evolves(p)
                 /\ \A v \in Workers :
                       /\ CallEvolves(v, p)
                       /\ row.lease # v \/ row.lease = attempt[q].lease
                             => LeaseEvolves(v, p)
  <1>1. attempt \in [Quotes -> AttemptRows]
    BY DEF Consistent, TypeOK
  <1>2. attempt' \in [Quotes -> AttemptRows] /\ attempt'[q] = row
    BY <1>1
  <1>3. ASSUME NEW p \in Quotes
        PROVE  /\ RowsAgree(p)' /\ ProviderAgrees(p)' /\ Evolves(p)
               /\ \A v \in Workers :
                     /\ CallEvolves(v, p)
                     /\ row.lease # v \/ row.lease = attempt[q].lease
                           => LeaseEvolves(v, p)
    <2>1. CASE p # q
      <3>1. attempt'[p] = attempt[p]
        BY <1>1, <2>1
      <3>. QED
        BY <3>1, SameAttempt DEF shopVars, stockVars, providerVars
    <2>2. CASE p = q
      <3>1. RowsAgree(q) /\ ProviderAgrees(q)
        BY DEF Consistent
      <3>. QED
        BY <1>2, <2>2, <3>1
           DEF RowsAgree, ProviderAgrees, Evolves, LeaseEvolves, CallEvolves,
               Started, IsActive, Unsendable, shopVars, stockVars, providerVars
    <2>. QED
      BY <2>1, <2>2
  <1>. QED
    BY <1>2, <1>3

\* What holds of the attempt a busy worker is on.
LEMMA Busy ==
    ASSUME Consistent, NEW w \in Workers, worker[w].step # "idle"
    PROVE  /\ worker[w].on \in Quotes
           /\ Started(worker[w].on)
           /\ attempt[worker[w].on] \in AttemptRows
           /\ worker[w].seen \in AttemptRows
           /\ worker[w] \in WorkerStates
  BY DEF Consistent, WorkerAgrees, TypeOK, WorkerStates

\* A worker goes idle, writing at most lease, timing, counting or review
\* columns, and those only under its own lease.
LEMMA EndWork ==
    ASSUME Consistent, NEW w \in Workers, worker[w].step # "idle",
           NEW row \in AttemptRows,
           row.lease = NoWorker,
           row.status = attempt[worker[w].on].status,
           row.session = attempt[worker[w].on].session,
           row.dispatched = attempt[worker[w].on].dispatched,
           attempt' = IF Holds(w, worker[w].on)
                      THEN [attempt EXCEPT ![worker[w].on] = row]
                      ELSE attempt,
           Done(w),
           UNCHANGED <<shopVars, offer, stockVars, providerVars, mishaps>>
    PROVE  Consistent'
  <1> DEFINE q == worker[w].on
  <1>1. q \in Quotes /\ Started(q)
    BY Busy
  <1>2. /\ attempt' \in [Quotes -> AttemptRows]
        /\ \A p \in Quotes :
              /\ RowsAgree(p)' /\ ProviderAgrees(p)' /\ Evolves(p)
              /\ \A v \in Workers : LeaseEvolves(v, p) /\ CallEvolves(v, p)
    <2>1. CASE Holds(w, q)
      <3>1. attempt' = [attempt EXCEPT ![q] = row]
        BY <2>1
      <3>2. UNCHANGED <<shopVars, stockVars, providerVars>>
        OBVIOUS
      <3>3. \A v \in Workers : row.lease # v
        BY CheckoutAssumption
      <3>4. /\ row.status = attempt[q].status
            /\ row.session = attempt[q].session
            /\ row.dispatched = attempt[q].dispatched
        OBVIOUS
      <3>. HIDE DEF q
      <3>5. /\ attempt' \in [Quotes -> AttemptRows]
            /\ \A p \in Quotes :
                  /\ RowsAgree(p)' /\ ProviderAgrees(p)' /\ Evolves(p)
                  /\ \A v \in Workers :
                        /\ CallEvolves(v, p)
                        /\ row.lease # v \/ row.lease = attempt[q].lease
                              => LeaseEvolves(v, p)
        BY <1>1, <3>1, <3>2, <3>4, SoftRow
      <3>. QED
        BY <3>3, <3>5
    <2>2. CASE ~Holds(w, q)
      <3>1. attempt' = attempt
        BY <2>2
      <3>2. UNCHANGED <<quote, hold, order, session, keyed, link>>
        BY DEF shopVars, stockVars, providerVars
      <3>. QED
        BY <3>1, <3>2, SameAttempt DEF Consistent, TypeOK
    <2>. QED
      BY <2>1, <2>2
  <1>3. worker' = [worker EXCEPT ![w] = Idle]
    BY DEF Done
  <1>4. worker' \in [Workers -> WorkerStates] /\ worker'[w] = Idle
    BY <1>3, IdleType DEF Consistent, TypeOK
  <1>5. TypeOK'
    BY <1>2, <1>4 DEF Consistent, TypeOK, ShopTypes, StockTypes, ProviderTypes,
                      shopVars, stockVars, providerVars
  <1>6. WorkerAgrees(w)'
    BY <1>4, IdleAgrees
  <1>7. \A v \in Workers \ {w} : worker'[v] = worker[v]
    BY <1>3 DEF Consistent, TypeOK
  <1>. QED
    BY <1>2, <1>5, <1>6, <1>7, Assemble

LEMMA FinishPreserves ==
    ASSUME Consistent, NEW w \in Workers, worker[w].step # "idle",
           NEW due \in BOOLEAN, FinishAttemptWork(w, due),
           UNCHANGED <<shopVars, offer, stockVars, providerVars, mishaps>>
    PROVE  Consistent'
  <1> DEFINE q == worker[w].on
             row == [Unleased(attempt[q]) EXCEPT !.due = due]
  <1>1. attempt[q] \in AttemptRows
    BY Busy
  <1>2. /\ row \in AttemptRows /\ row.lease = NoWorker
        /\ row.status = attempt[q].status
        /\ row.session = attempt[q].session
        /\ row.dispatched = attempt[q].dispatched
    BY <1>1, UnleasedRow DEF AttemptRows
  <1>3. /\ attempt' = IF Holds(w, q) THEN [attempt EXCEPT ![q] = row] ELSE attempt
        /\ Done(w)
    BY DEF FinishAttemptWork
  <1> HIDE DEF row
  <1>. QED
    BY <1>2, <1>3, EndWork

LEMMA ReviewPreserves ==
    ASSUME Consistent, NEW w \in Workers, worker[w].step # "idle",
           MarkAttemptForReview(w),
           UNCHANGED <<shopVars, offer, stockVars, providerVars, mishaps>>
    PROVE  Consistent'
  <1> DEFINE q == worker[w].on
             row == [Unleased(attempt[q]) EXCEPT !.review = TRUE]
  <1>1. attempt[q] \in AttemptRows
    BY Busy
  <1>2. /\ row \in AttemptRows /\ row.lease = NoWorker
        /\ row.status = attempt[q].status
        /\ row.session = attempt[q].session
        /\ row.dispatched = attempt[q].dispatched
    BY <1>1, UnleasedRow DEF AttemptRows
  <1>3. /\ attempt' = IF Holds(w, q) THEN [attempt EXCEPT ![q] = row] ELSE attempt
        /\ Done(w)
    BY DEF MarkAttemptForReview
  <1> HIDE DEF row
  <1>. QED
    BY <1>2, <1>3, EndWork

LEMMA RecordFailurePreserves ==
    ASSUME Consistent, NEW w \in Workers, RecordProviderFailure(w)
    PROVE  Consistent'
  <1> DEFINE q == worker[w].on
             tries == FailedAttempts(w)
             review == tries >= ProviderMaxAttempts
             row == [Unleased(attempt[q]) EXCEPT
                        !.tries = tries, !.due = FALSE, !.review = review]
  <1>1. worker[w].step # "idle"
    BY DEF RecordProviderFailure
  <1>2. attempt[q] \in AttemptRows /\ tries \in Nat /\ review \in BOOLEAN
    BY <1>1, Busy DEF FailedAttempts, AttemptRows
  <1> HIDE DEF tries, review
  <1>3. /\ row \in AttemptRows /\ row.lease = NoWorker
        /\ row.status = attempt[q].status
        /\ row.session = attempt[q].session
        /\ row.dispatched = attempt[q].dispatched
    BY <1>2, UnleasedRow DEF AttemptRows
  <1>4. /\ attempt' = IF Holds(w, q) THEN [attempt EXCEPT ![q] = row] ELSE attempt
        /\ Done(w)
        /\ UNCHANGED <<shopVars, offer, stockVars, providerVars, mishaps>>
    BY DEF RecordProviderFailure, tries, review
  <1> HIDE DEF row
  <1>. QED
    BY <1>1, <1>3, <1>4, EndWork

-----------------------------------------------------------------------------
(* Steps of a worker that write no row *)

LEMMA ProceedFacts ==
    ASSUME Consistent, NEW w \in Workers, NEW step \in Steps, Proceed(w, step)
    PROVE  /\ worker' \in [Workers -> WorkerStates]
           /\ worker'[w].step = step
           /\ worker'[w].on = worker[w].on
           /\ worker'[w].seen = worker[w].seen
           /\ worker'[w].got = worker[w].got
           /\ \A v \in Workers \ {w} : worker'[v] = worker[v]
  <1>1. worker[w] \in WorkerStates
    BY DEF Consistent, TypeOK
  <1>2. [worker[w] EXCEPT !.step = step] \in WorkerStates
    BY <1>1 DEF WorkerStates
  <1>. QED
    BY <1>1, <1>2 DEF Proceed, Consistent, TypeOK, WorkerStates

LEMMA Move ==
    ASSUME Consistent, NEW w \in Workers,
           worker' \in [Workers -> WorkerStates],
           \A v \in Workers \ {w} : worker'[v] = worker[v],
           mishaps' \in Nat,
           UNCHANGED <<shopVars, offer, stockVars, attempt, providerVars>>,
           WorkerAgrees(w)'
    PROVE  Consistent'
  <1>1. UNCHANGED <<cart, cartSeq, offer, quote, command, onHand, reserved,
                    hold, order, attempt, session, keyed, link>>
    BY DEF shopVars, stockVars, providerVars
  <1>2. TypeOK'
    BY <1>1 DEF Consistent, TypeOK, ShopTypes, StockTypes, ProviderTypes
  <1>3. \A p \in Quotes :
           /\ RowsAgree(p)' /\ ProviderAgrees(p)' /\ Evolves(p)
           /\ \A v \in Workers : LeaseEvolves(v, p) /\ CallEvolves(v, p)
    BY <1>1, SameAttempt
  <1>. QED
    BY <1>2, <1>3, Assemble

LEMMA ReconcileWithoutSessionPreserves ==
    ASSUME Consistent, NEW w \in Workers, ReconcileWithoutSession(w)
    PROVE  Consistent'
  <1>1. CASE ReleasableUnsent(worker[w].seen)
    <2>1. /\ Proceed(w, "release")
          /\ UNCHANGED <<shopVars, offer, stockVars, attempt, providerVars, mishaps>>
          /\ worker[w].step = "reconcile"
      BY <1>1 DEF ReconcileWithoutSession
    <2>2. WorkerAgrees(w)
      BY DEF Consistent
    <2>3. "release" \in Steps
      BY DEF Steps
    <2>4. WorkerAgrees(w)'
      BY <1>1, <2>1, <2>2, <2>3, ProceedFacts
         DEF WorkerAgrees, Started, Unsendable, providerVars, shopVars
    <2>. QED
      BY <2>1, <2>3, <2>4, ProceedFacts, Move DEF Consistent, TypeOK
  <1>2. CASE ~ReleasableUnsent(worker[w].seen)
    BY <1>2, FinishPreserves DEF ReconcileWithoutSession
  <1>. QED
    BY <1>1, <1>2

LEMMA RetrievePreserves ==
    ASSUME Consistent, NEW w \in Workers, RetrieveCheckoutSession(w)
    PROVE  Consistent'
  <1> DEFINE q == worker[w].on
             state == session[q][1]
             step == NextStep(state, worker[w].seen)
  <1>1. /\ worker[w].step = "reconcile"
        /\ UNCHANGED <<shopVars, offer, stockVars, attempt, providerVars, mishaps>>
    BY DEF RetrieveCheckoutSession
  <1>2. WorkerAgrees(w)
    BY DEF Consistent
  <1>3. worker[w].seen.session = 1
    BY <1>1, <1>2 DEF WorkerAgrees, RetrieveCheckoutSession
  <1>4. Proceed(w, step)
    BY <1>3 DEF RetrieveCheckoutSession
  <1>5. /\ step \in {"verify", "release", "expire", "finish"}
        /\ step = "verify" => state = "paid"
        /\ step = "release" => state = "expired"
    BY DEF NextStep
  <1> HIDE DEF step
  <1>6. step \in Steps
    BY <1>5 DEF Steps
  <1>7. WorkerAgrees(w)'
    BY <1>1, <1>2, <1>3, <1>4, <1>5, <1>6, ProceedFacts
       DEF WorkerAgrees, Started, Unsendable, providerVars, shopVars
  <1>. QED
    BY <1>1, <1>4, <1>6, <1>7, ProceedFacts, Move DEF Consistent, TypeOK

LEMMA VerifyPreserves ==
    ASSUME Consistent, NEW w \in Workers, NEW matches \in BOOLEAN,
           VerifyPaymentIntent(w, matches)
    PROVE  Consistent'
  <1>1. CASE matches
    <2>1. /\ Proceed(w, "place")
          /\ UNCHANGED <<shopVars, offer, stockVars, attempt, providerVars, mishaps>>
          /\ worker[w].step = "verify"
      BY <1>1 DEF VerifyPaymentIntent
    <2>2. WorkerAgrees(w)
      BY DEF Consistent
    <2>3. "place" \in Steps
      BY DEF Steps
    <2>4. WorkerAgrees(w)'
      BY <2>1, <2>2, <2>3, ProceedFacts
         DEF WorkerAgrees, Started, Unsendable, providerVars, shopVars
    <2>. QED
      BY <2>1, <2>3, <2>4, ProceedFacts, Move DEF Consistent, TypeOK
  <1>2. CASE ~matches
    BY <1>2, ReviewPreserves DEF VerifyPaymentIntent
  <1>. QED
    BY <1>1, <1>2

LEMMA FailsPreserves ==
    ASSUME Consistent, NEW w \in Workers, ProviderFails(w)
    PROVE  Consistent'
  <1>1. /\ Proceed(w, "failed")
        /\ UNCHANGED <<shopVars, offer, stockVars, attempt, providerVars, mishaps>>
        /\ worker[w].step # "idle"
    BY DEF ProviderFails
  <1>2. WorkerAgrees(w)
    BY DEF Consistent
  <1>3. "failed" \in Steps
    BY DEF Steps
  <1>4. WorkerAgrees(w)'
    BY <1>1, <1>2, <1>3, ProceedFacts
       DEF WorkerAgrees, Started, Unsendable, providerVars, shopVars
  <1>. QED
    BY <1>1, <1>3, <1>4, ProceedFacts, Move DEF Consistent, TypeOK

LEMMA DoneFacts ==
    ASSUME Consistent, NEW w \in Workers, Done(w)
    PROVE  /\ worker' \in [Workers -> WorkerStates]
           /\ worker'[w] = Idle
           /\ \A v \in Workers \ {w} : worker'[v] = worker[v]
           /\ WorkerAgrees(w)'
  <1>1. worker' = [worker EXCEPT ![w] = Idle]
    BY DEF Done
  <1>2. worker' \in [Workers -> WorkerStates] /\ worker'[w] = Idle
    BY <1>1, IdleType DEF Consistent, TypeOK
  <1>. QED
    BY <1>1, <1>2, IdleAgrees DEF Consistent, TypeOK

LEMMA CrashPreserves ==
    ASSUME Consistent, NEW w \in Workers, Crash(w)
    PROVE  Consistent'
  <1>1. /\ Done(w)
        /\ mishaps' = mishaps + 1
        /\ UNCHANGED <<shopVars, offer, stockVars, attempt, providerVars>>
    BY DEF Crash
  <1>2. mishaps' \in Nat
    BY <1>1 DEF Consistent, TypeOK
  <1>. QED
    BY <1>1, <1>2, DoneFacts, Move

LEMMA RefusePreserves ==
    ASSUME Consistent, NEW w \in Workers, RefuseToCreate(w)
    PROVE  Consistent'
  BY ReviewPreserves DEF RefuseToCreate

LEMMA FinishReconcilePreserves ==
    ASSUME Consistent, NEW w \in Workers, FinishReconcile(w)
    PROVE  Consistent'
  BY FinishPreserves DEF FinishReconcile

-----------------------------------------------------------------------------
(* Claims, dispatches and saves *)

LEMMA ClaimPreserves ==
    ASSUME Consistent, NEW w \in Workers, NEW q \in Quotes,
           NEW force \in BOOLEAN, ProcessOnlineAttempt(w, q, force)
    PROVE  Consistent'
  <1> DEFINE row == [attempt[q] EXCEPT !.lease = w, !.leaseOld = FALSE]
             step == IF attempt[q].status = "creating" THEN "create"
                                                       ELSE "reconcile"
             busy == [step |-> step, on |-> q, seen |-> row, got |-> 0]
  <1>1. attempt \in [Quotes -> AttemptRows] /\ worker \in [Workers -> WorkerStates]
    BY DEF Consistent, TypeOK
  <1>2. attempt[q] \in AttemptRows /\ IsActive(q) /\ Started(q)
    BY <1>1 DEF ProcessOnlineAttempt, IsActive, Started, Active
  <1>3. /\ row \in AttemptRows
        /\ row.lease = w
        /\ row.status = attempt[q].status
        /\ row.session = attempt[q].session
        /\ row.dispatched = attempt[q].dispatched
    BY <1>2 DEF AttemptRows
  <1>4. attempt' = [attempt EXCEPT ![q] = row]
    BY <1>1 DEF ProcessOnlineAttempt
  <1> HIDE DEF row
  <1>5. attempt'[q] = row
    BY <1>1, <1>4
  <1>6. worker' = [worker EXCEPT ![w] = busy]
    BY <1>5 DEF ProcessOnlineAttempt
  <1>7. busy \in WorkerStates
    BY <1>3 DEF WorkerStates, Steps
  <1>8. /\ worker' \in [Workers -> WorkerStates]
        /\ worker'[w] = busy
        /\ \A v \in Workers \ {w} : worker'[v] = worker[v]
    BY <1>1, <1>6, <1>7
  <1>9. UNCHANGED <<shopVars, offer, stockVars, providerVars, mishaps>>
    BY DEF ProcessOnlineAttempt
  <1>10. /\ attempt' \in [Quotes -> AttemptRows]
         /\ \A p \in Quotes :
               /\ RowsAgree(p)' /\ ProviderAgrees(p)' /\ Evolves(p)
               /\ \A v \in Workers :
                     /\ CallEvolves(v, p)
                     /\ row.lease # v \/ row.lease = attempt[q].lease
                           => LeaseEvolves(v, p)
    BY <1>2, <1>3, <1>4, <1>9, SoftRow
  <1>11. TypeOK'
    BY <1>8, <1>9, <1>10 DEF Consistent, TypeOK, ShopTypes, StockTypes,
                             ProviderTypes, shopVars, stockVars, providerVars
  <1>12. WorkerAgrees(w)'
    <2>1. RowsAgree(q)' /\ ProviderAgrees(q)'
      BY <1>10
    <2>2. quote'[q].method = "online" /\ Started(q)'
      BY <1>2, <1>3, <1>5, <2>1 DEF RowsAgree, IsActive, Started
    <2>. QED
      BY <1>2, <1>3, <1>5, <1>8, <2>1, <2>2
         DEF WorkerAgrees, ProviderAgrees, FirstDispatchKnown, Unsendable,
             ReleasableUnsent, Started
  <1>. QED
    BY <1>3, <1>8, <1>10, <1>11, <1>12, Assemble

LEMMA CancelPreserves ==
    ASSUME Consistent, NEW w \in Workers, NEW q \in Quotes, CancelAttempt(w, q)
    PROVE  Consistent'
  <1> DEFINE row == [attempt[q] EXCEPT !.status = "cancelling", !.due = TRUE]
             busy == [Idle EXCEPT !.step = "withdraw", !.on = q]
  <1>1. attempt \in [Quotes -> AttemptRows] /\ worker \in [Workers -> WorkerStates]
    BY DEF Consistent, TypeOK
  <1>2. attempt[q] \in AttemptRows /\ IsActive(q) /\ Started(q)
    BY <1>1 DEF CancelAttempt, IsActive, Started, Active
  <1>3. /\ row \in AttemptRows
        /\ row.status = "cancelling"
        /\ row.session = attempt[q].session
        /\ row.lease = attempt[q].lease
        /\ row.dispatched = attempt[q].dispatched
    BY <1>2 DEF AttemptRows, Active
  <1>4. attempt' = [attempt EXCEPT ![q] = row]
    BY <1>1 DEF CancelAttempt
  <1> HIDE DEF row
  <1>5. attempt' \in [Quotes -> AttemptRows] /\ attempt'[q] = row
    BY <1>1, <1>3, <1>4
  <1>6. UNCHANGED <<shopVars, offer, stockVars, providerVars, mishaps>>
    BY DEF CancelAttempt
  <1>7. ASSUME NEW p \in Quotes
        PROVE  /\ RowsAgree(p)' /\ ProviderAgrees(p)' /\ Evolves(p)
               /\ \A v \in Workers : LeaseEvolves(v, p) /\ CallEvolves(v, p)
    <2>1. CASE p # q
      <3>1. attempt'[p] = attempt[p]
        BY <1>1, <1>4, <2>1
      <3>. QED
        BY <1>6, <3>1, SameAttempt DEF shopVars, stockVars, providerVars
    <2>2. CASE p = q
      <3>1. RowsAgree(q) /\ ProviderAgrees(q)
        BY DEF Consistent
      <3>. QED
        BY <1>2, <1>3, <1>5, <1>6, <2>2, <3>1
           DEF RowsAgree, ProviderAgrees, Evolves, LeaseEvolves, CallEvolves,
               Started, IsActive, Active, Released, Unsendable,
               shopVars, stockVars, providerVars
    <2>. QED
      BY <2>1, <2>2
  <1>8. /\ worker' \in [Workers -> WorkerStates]
        /\ \A v \in Workers \ {w} : worker'[v] = worker[v]
        /\ WorkerAgrees(w)'
    <2>1. CASE worker' = worker
      BY <1>1, <1>7, <2>1, Bystander DEF Consistent
    <2>2. CASE worker' # worker
      <3>1. /\ worker' = [worker EXCEPT ![w] = busy]
            /\ attempt[q].dispatched = "no"
        BY <2>2 DEF CancelAttempt
      <3>2. /\ busy \in WorkerStates
            /\ busy.step = "withdraw" /\ busy.on = q /\ busy.seen = NoAttempt
        BY NewRowType DEF Idle, WorkerStates, Steps
      <3> HIDE DEF busy
      <3>3. /\ worker' \in [Workers -> WorkerStates]
            /\ worker'[w] = busy
            /\ \A v \in Workers \ {w} : worker'[v] = worker[v]
        BY <1>1, <3>1, <3>2
      <3>4. /\ Started(q)' /\ Unsendable(q)'
            /\ NoAttempt.session = 0 /\ NoAttempt.dispatched = "no"
        BY <1>3, <1>5, <3>1 DEF Started, Unsendable, NoAttempt
      <3>5. quote'[q].method = "online"
        BY <1>2, <1>6 DEF Consistent, RowsAgree, shopVars
      <3>. QED
        BY <3>2, <3>3, <3>4, <3>5 DEF WorkerAgrees
    <2>. QED
      BY <2>1, <2>2
  <1>9. TypeOK'
    BY <1>5, <1>6, <1>8 DEF Consistent, TypeOK, ShopTypes, StockTypes,
                            ProviderTypes, shopVars, stockVars, providerVars
  <1>. QED
    BY <1>7, <1>8, <1>9, Assemble

LEMMA DispatchPreserves ==
    ASSUME Consistent, NEW w \in Workers, DispatchCreate(w)
    PROVE  Consistent'
  <1> DEFINE q == worker[w].on
             sent == IF worker[w].seen.dispatched = "no" THEN "recent"
                     ELSE attempt[q].dispatched
             tries == worker[w].seen.tries + 1
             row == [attempt[q] EXCEPT !.dispatched = sent, !.tries = tries]
  <1>1. /\ worker[w].step = "create"
        /\ ~WindowOver(w)
        /\ UNCHANGED <<shopVars, offer, stockVars, providerVars, mishaps>>
    BY DEF DispatchCreate
  <1>2. CASE ~MayDispatch(w, q)
    BY <1>1, <1>2, FinishPreserves DEF DispatchCreate
  <1>3. CASE MayDispatch(w, q)
    <2>1. /\ q \in Quotes
          /\ attempt[q] \in AttemptRows
          /\ worker[w].seen \in AttemptRows
          /\ attempt \in [Quotes -> AttemptRows]
          /\ WorkerAgrees(w)
      BY <1>1, Busy DEF Consistent, TypeOK
    <2>2. /\ attempt[q].status = "creating"
          /\ attempt[q].lease = w
          /\ worker[w].seen.dispatched = "no" => attempt[q].dispatched = "no"
      BY <1>1, <1>3, <2>1
         DEF MayDispatch, Holds, WorkerAgrees, FirstDispatchKnown
    <2>3. /\ attempt' = [attempt EXCEPT ![q] = row]
          /\ Proceed(w, "call")
      BY <1>3, <2>1 DEF DispatchCreate
    <2>4. /\ sent # "no"
          /\ sent \in {"recent", "old"}
          /\ attempt[q].dispatched # "old"
      <3>1. /\ attempt[q].dispatched \in {"no", "recent", "old"}
            /\ worker[w].seen.dispatched # "no" => attempt[q].dispatched # "no"
        BY <1>1, <2>1 DEF AttemptRows, WorkerAgrees
      <3>2. worker[w].seen.dispatched # "no" => attempt[q].dispatched # "old"
        BY <1>1 DEF WindowOver
      <3>. QED
        BY <2>2, <3>1, <3>2
    <2>5. tries \in Nat
      BY <2>1 DEF AttemptRows
    <2> HIDE DEF sent, tries
    <2>6. /\ row \in AttemptRows
          /\ row.status = "creating" /\ row.lease = w
          /\ row.session = attempt[q].session
          /\ row.dispatched = sent
      BY <2>1, <2>2, <2>4, <2>5 DEF AttemptRows
    <2> HIDE DEF row
    <2>7. attempt' \in [Quotes -> AttemptRows] /\ attempt'[q] = row
      BY <2>1, <2>3, <2>6
    <2>8. RowsAgree(q) /\ ProviderAgrees(q)
      BY <2>1 DEF Consistent
    <2>9. keyed[q] = 0 => session[q][1] = "none"
      BY <2>4, <2>8 DEF ProviderAgrees
    <2>10. ASSUME NEW p \in Quotes
           PROVE  /\ RowsAgree(p)' /\ ProviderAgrees(p)' /\ Evolves(p)
                  /\ \A v \in Workers \ {w} :
                        LeaseEvolves(v, p) /\ CallEvolves(v, p)
      <3>1. CASE p # q
        <4>1. attempt'[p] = attempt[p]
          BY <2>1, <2>3, <3>1
        <4>. QED
          BY <1>1, <4>1, SameAttempt DEF shopVars, stockVars, providerVars
      <3>2. CASE p = q
        BY <1>1, <2>2, <2>4, <2>6, <2>7, <2>8, <2>9, <3>2
           DEF RowsAgree, ProviderAgrees, Evolves, LeaseEvolves, CallEvolves,
               Started, IsActive, Active, Released, Unsendable,
               shopVars, stockVars, providerVars
      <3>. QED
        BY <3>1, <3>2
    <2>11. "call" \in Steps
      BY DEF Steps
    <2>12. WorkerAgrees(w)'
      BY <1>1, <2>1, <2>3, <2>4, <2>6, <2>7, <2>9, <2>11, ProceedFacts
         DEF WorkerAgrees, Started, shopVars, providerVars
    <2>13. TypeOK'
      BY <1>1, <2>3, <2>7, <2>11, ProceedFacts
         DEF Consistent, TypeOK, ShopTypes, StockTypes, ProviderTypes,
             shopVars, stockVars, providerVars
    <2>. QED
      BY <2>3, <2>10, <2>11, <2>12, <2>13, ProceedFacts, Assemble
  <1>. QED
    BY <1>2, <1>3

LEMMA SavePreserves ==
    ASSUME Consistent, NEW w \in Workers, SaveProviderSession(w)
    PROVE  Consistent'
  <1> DEFINE q == worker[w].on
             status == IF attempt[q].status = "creating" THEN "pending"
                                                         ELSE attempt[q].status
             base == Unleased(attempt[q])
             row == [base EXCEPT
                        !.status = status, !.session = 1, !.due = FALSE]
  <1>1. /\ worker[w].step = "save"
        /\ Done(w)
        /\ UNCHANGED <<shopVars, offer, stockVars, providerVars, mishaps>>
    BY DEF SaveProviderSession
  <1>2. /\ q \in Quotes
        /\ Started(q)
        /\ attempt[q] \in AttemptRows
        /\ attempt \in [Quotes -> AttemptRows]
    BY <1>1, Busy DEF Consistent, TypeOK
  <1>3. worker[w].got = 1 /\ session[q][1] # "none"
    BY <1>1 DEF Consistent, WorkerAgrees
  <1>4. status \in {"none"} \cup Active \cup Terminal
    BY <1>2 DEF AttemptRows, Active
  <1>5. /\ attempt' = IF Holds(w, q) THEN [attempt EXCEPT ![q] = row]
                                     ELSE attempt
        /\ base \in AttemptRows /\ base.lease = NoWorker
        /\ base.dispatched = attempt[q].dispatched
    BY <1>2, <1>3, UnleasedRow DEF SaveProviderSession
  <1>6. /\ status = "none" <=> attempt[q].status = "none"
        /\ status \in Active <=> attempt[q].status \in Active
        /\ status # "creating"
        /\ attempt[q].status # "creating" => status = attempt[q].status
    BY DEF Active
  <1> HIDE DEF status, base
  <1>7. /\ row \in AttemptRows
        /\ row.status = status /\ row.session = 1 /\ row.lease = NoWorker
        /\ row.dispatched = attempt[q].dispatched
    <2>1. 1 \in {0} \cup Sessions
      BY DEF Sessions
    <2>2. /\ row.status = status /\ row.session = 1 /\ row.lease = NoWorker
          /\ row.dispatched = attempt[q].dispatched
      BY <1>5 DEF AttemptRows
    <2>3. row \in AttemptRows
      BY <1>4, <1>5, <2>1 DEF AttemptRows
    <2>. QED
      BY <2>2, <2>3
  <1> HIDE DEF row
  <1>8. /\ attempt' \in [Quotes -> AttemptRows]
        /\ attempt'[q] = row \/ attempt'[q] = attempt[q]
        /\ \A p \in Quotes \ {q} : attempt'[p] = attempt[p]
    BY <1>2, <1>5, <1>7
  <1>9. ASSUME NEW p \in Quotes
        PROVE  /\ RowsAgree(p)' /\ ProviderAgrees(p)' /\ Evolves(p)
               /\ \A v \in Workers : LeaseEvolves(v, p) /\ CallEvolves(v, p)
    <2>1. CASE attempt'[p] = attempt[p]
      BY <1>1, <2>1, SameAttempt DEF shopVars, stockVars, providerVars
    <2>2. CASE p = q /\ attempt'[q] = row
      <3>1. RowsAgree(q) /\ ProviderAgrees(q)
        BY <1>2 DEF Consistent
      <3>. QED
        BY <1>1, <1>2, <1>3, <1>6, <1>7, <2>2, <3>1, CheckoutAssumption
           DEF RowsAgree, ProviderAgrees, Evolves, LeaseEvolves, CallEvolves,
               Started, IsActive, Active, Released, Unsendable,
               shopVars, stockVars, providerVars
    <2>. QED
      BY <1>8, <2>1, <2>2
  <1>10. TypeOK'
    BY <1>1, <1>8, DoneFacts DEF Consistent, TypeOK, ShopTypes, StockTypes,
             ProviderTypes, shopVars, stockVars, providerVars
  <1>. QED
    BY <1>1, <1>9, <1>10, DoneFacts, Assemble

-----------------------------------------------------------------------------
(* Stripe's side *)

\* One Session of q changes state.
LEMMA SessionType ==
    ASSUME Consistent, NEW q \in Quotes, NEW st \in {"open", "paid", "expired"},
           session' = [session EXCEPT ![q][1] = st]
    PROVE  /\ session' \in [Quotes -> [Sessions -> {"none", "open", "paid", "expired"}]]
           /\ session'[q][1] = st
           /\ session'[q][2] = "none"
           /\ \A p \in Quotes \ {q} : session'[p] = session[p]
  <1>1. /\ session \in [Quotes -> [Sessions -> {"none", "open", "paid", "expired"}]]
        /\ session[q][2] = "none"
    BY DEF Consistent, TypeOK, ProviderTypes, ProviderAgrees
  <1>2. 1 \in Sessions /\ 2 \in Sessions
    BY DEF Sessions
  <1> DEFINE states == [session[q] EXCEPT ![1] = st]
  <1>3. /\ states \in [Sessions -> {"none", "open", "paid", "expired"}]
        /\ states[1] = st /\ states[2] = "none"
    BY <1>1, <1>2
  <1>4. session' = [session EXCEPT ![q] = states]
    OBVIOUS
  <1> HIDE DEF states
  <1>. QED
    BY <1>1, <1>3, <1>4

\* An open Session is paid or expires.
LEMMA SessionCloses ==
    ASSUME Consistent, NEW q \in Quotes, NEW st \in {"paid", "expired"},
           session[q][1] = "open",
           session' = [session EXCEPT ![q][1] = st],
           UNCHANGED <<shopVars, stockVars, attempt, keyed, link>>
    PROVE  \A p \in Quotes :
              /\ RowsAgree(p)' /\ ProviderAgrees(p)' /\ Evolves(p)
              /\ \A v \in Workers : LeaseEvolves(v, p) /\ CallEvolves(v, p)
  <1>1. SUFFICES ASSUME NEW p \in Quotes
                 PROVE  /\ RowsAgree(p)' /\ ProviderAgrees(p)' /\ Evolves(p)
                        /\ \A v \in Workers : LeaseEvolves(v, p) /\ CallEvolves(v, p)
    OBVIOUS
  <1>2. CASE p # q
    BY <1>2, SessionType, SameAttempt DEF shopVars, stockVars
  <1>3. CASE p = q
    <2>1. RowsAgree(q) /\ ProviderAgrees(q)
      BY DEF Consistent
    <2>2. session'[q][1] = st /\ session'[q][2] = "none"
      BY SessionType
    <2>. QED
      BY <1>3, <2>1, <2>2
         DEF RowsAgree, ProviderAgrees, Evolves, LeaseEvolves, CallEvolves,
             Started, IsActive, Unsendable, shopVars, stockVars
  <1>. QED
    BY <1>2, <1>3

\* Stripe answers a creation with the first Session of the attempt, made now
\* or known by its key.
LEMMA SessionAnswer ==
    ASSUME Consistent, NEW w \in Workers, CreateCheckoutSession(w)
    PROVE  LET q == worker[w].on IN
           /\ keyed' = [keyed EXCEPT ![q] = 1]
           /\ worker' = [worker EXCEPT ![w] =
                  [worker[w] EXCEPT !.step = "save", !.got = 1]]
           /\ \/ keyed[q] = 1 /\ session' = session
              \/ /\ keyed[q] = 0 /\ session[q][1] = "none"
                 /\ session' = [session EXCEPT ![q][1] = "open"]
  <1> DEFINE q == worker[w].on
             fresh == CHOOSE i \in Sessions :
                          /\ session[q][i] = "none"
                          /\ \A j \in Sessions : j < i => session[q][j] # "none"
             got == IF keyed[q] # 0 THEN keyed[q] ELSE fresh
  <1>1. /\ worker[w].step = "call"
        /\ session' = IF keyed[q] # 0 THEN session
                      ELSE [session EXCEPT ![q][fresh] = "open"]
        /\ keyed' = [keyed EXCEPT ![q] = got]
        /\ worker' = [worker EXCEPT ![w] =
                          [worker[w] EXCEPT !.step = "save", !.got = got]]
    BY DEF CreateCheckoutSession
  <1>2. WorkerAgrees(w) /\ ProviderAgrees(q)
    BY <1>1, Busy DEF Consistent
  <1>3. keyed[q] = 0 => fresh = 1 /\ session[q][1] = "none"
    <2>1. SUFFICES ASSUME keyed[q] = 0 PROVE fresh = 1 /\ session[q][1] = "none"
      OBVIOUS
    <2>2. session[q][1] = "none"
      BY <1>1, <1>2, <2>1 DEF WorkerAgrees
    <2>3. \E i \in Sessions : /\ session[q][i] = "none"
                             /\ \A j \in Sessions : j < i => session[q][j] # "none"
      <3>1. 1 \in Sessions /\ \A j \in Sessions : ~(j < 1)
        BY DEF Sessions
      <3>. QED
        BY <2>2, <3>1
    <2>4. /\ fresh \in Sessions
          /\ \A j \in Sessions : j < fresh => session[q][j] # "none"
      BY <2>3
    <2>5. fresh = 1
      <3> HIDE DEF fresh
      <3>. QED
        BY <2>2, <2>4 DEF Sessions
    <2>. QED
      BY <2>2, <2>5
  <1>4. got = 1
    BY <1>2, <1>3 DEF ProviderAgrees
  <1>. QED
    BY <1>1, <1>2, <1>3, <1>4 DEF ProviderAgrees

LEMMA CreateSessionPreserves ==
    ASSUME Consistent, NEW w \in Workers, CreateCheckoutSession(w)
    PROVE  Consistent'
  <1> DEFINE q == worker[w].on
             busy == [worker[w] EXCEPT !.step = "save", !.got = 1]
  <1>1. /\ worker[w].step = "call"
        /\ UNCHANGED <<shopVars, offer, stockVars, attempt, link, mishaps>>
    BY DEF CreateCheckoutSession
  <1>2. /\ q \in Quotes /\ Started(q) /\ worker[w] \in WorkerStates
        /\ WorkerAgrees(w) /\ RowsAgree(q) /\ ProviderAgrees(q)
    BY <1>1, Busy DEF Consistent
  <1>3. /\ keyed' = [keyed EXCEPT ![q] = 1]
        /\ worker' = [worker EXCEPT ![w] = busy]
        /\ \/ keyed[q] = 1 /\ session' = session
           \/ /\ keyed[q] = 0 /\ session[q][1] = "none"
              /\ session' = [session EXCEPT ![q][1] = "open"]
    BY SessionAnswer
  <1>4. /\ busy \in WorkerStates
        /\ busy.step = "save" /\ busy.got = 1
        /\ busy.on = q /\ busy.seen = worker[w].seen
    <2>1. 1 \in {0} \cup Sessions /\ "save" \in Steps
      BY DEF Sessions, Steps
    <2>. QED
      BY <1>2, <2>1 DEF WorkerStates
  <1> HIDE DEF busy
  <1>5. /\ worker' \in [Workers -> WorkerStates]
        /\ worker'[w] = busy
        /\ \A v \in Workers \ {w} : worker'[v] = worker[v]
    BY <1>3, <1>4 DEF Consistent, TypeOK
  <1>6. /\ keyed' \in [Quotes -> {0} \cup Sessions]
        /\ keyed'[q] = 1
        /\ \A p \in Quotes \ {q} : keyed'[p] = keyed[p]
    BY <1>2, <1>3 DEF Consistent, TypeOK, ProviderTypes, Sessions
  <1>7. /\ session' \in [Quotes -> [Sessions -> {"none", "open", "paid", "expired"}]]
        /\ session'[q][2] = "none" /\ session'[q][1] # "none"
        /\ session[q][1] # "none" => session'[q][1] = session[q][1]
        /\ \A p \in Quotes \ {q} : session'[p] = session[p]
    BY <1>2, <1>3, SessionType DEF Consistent, TypeOK, ProviderTypes, ProviderAgrees
  <1>8. ASSUME NEW p \in Quotes
         PROVE  /\ RowsAgree(p)' /\ ProviderAgrees(p)' /\ Evolves(p)
                /\ \A v \in Workers : LeaseEvolves(v, p) /\ CallEvolves(v, p)
    <2>1. CASE p # q
      BY <1>1, <1>6, <1>7, <2>1, SameAttempt DEF shopVars, stockVars
    <2>2. CASE p = q
      <3>1. attempt[q].dispatched # "no"
        BY <1>1, <1>2 DEF WorkerAgrees
      <3>. QED
        BY <1>1, <1>2, <1>6, <1>7, <2>2, <3>1
           DEF RowsAgree, ProviderAgrees, Evolves, LeaseEvolves, CallEvolves,
               Started, IsActive, Unsendable, shopVars, stockVars
    <2>. QED
      BY <2>1, <2>2
  <1>9. WorkerAgrees(w)'
    BY <1>1, <1>2, <1>4, <1>5, <1>7
       DEF WorkerAgrees, Started, Unsendable, shopVars
  <1>10. TypeOK'
    BY <1>1, <1>5, <1>6, <1>7 DEF Consistent, TypeOK, ShopTypes, StockTypes,
                                  ProviderTypes, shopVars, stockVars
  <1>. QED
    BY <1>5, <1>8, <1>9, <1>10, Assemble

LEMMA ExpirePreserves ==
    ASSUME Consistent, NEW w \in Workers, ExpireCheckoutSession(w)
    PROVE  Consistent'
  <1> DEFINE q == worker[w].on
  <1>1. /\ worker[w].step = "expire"
        /\ UNCHANGED <<shopVars, offer, stockVars, attempt, keyed, link, mishaps>>
    BY DEF ExpireCheckoutSession
  <1>2. /\ q \in Quotes /\ Started(q) /\ WorkerAgrees(w)
        /\ worker[w].seen.session = 1
    BY <1>1, Busy DEF Consistent, WorkerAgrees
  <1>3. CASE session[q][1] = "open"
    <2>1. /\ session' = [session EXCEPT ![q][1] = "expired"]
          /\ Proceed(w, "release")
      BY <1>2, <1>3 DEF ExpireCheckoutSession
    <2>2. "release" \in Steps
      BY DEF Steps
    <2>3. \A p \in Quotes :
             /\ RowsAgree(p)' /\ ProviderAgrees(p)' /\ Evolves(p)
             /\ \A v \in Workers : LeaseEvolves(v, p) /\ CallEvolves(v, p)
      BY <1>1, <1>2, <1>3, <2>1, SessionCloses
    <2>4. session'[q][1] = "expired"
      BY <1>2, <2>1, SessionType
    <2>5. WorkerAgrees(w)'
      BY <1>1, <1>2, <2>1, <2>2, <2>4, ProceedFacts
         DEF WorkerAgrees, Started, Unsendable, shopVars
    <2>6. TypeOK'
      BY <1>1, <1>2, <2>1, <2>2, ProceedFacts, SessionType
         DEF Consistent, TypeOK, ShopTypes, StockTypes, ProviderTypes,
             shopVars, stockVars
    <2>. QED
      BY <2>1, <2>2, <2>3, <2>5, <2>6, ProceedFacts, Assemble
  <1>4. CASE session[q][1] # "open"
    <2>1. /\ UNCHANGED <<shopVars, offer, stockVars, attempt, providerVars, mishaps>>
          /\ Proceed(w, "failed")
      BY <1>1, <1>2, <1>4 DEF ExpireCheckoutSession, providerVars
    <2>2. "failed" \in Steps
      BY DEF Steps
    <2>3. WorkerAgrees(w)'
      BY <1>1, <1>2, <2>1, <2>2, ProceedFacts
         DEF WorkerAgrees, Started, Unsendable, providerVars, shopVars
    <2>. QED
      BY <2>1, <2>2, <2>3, ProceedFacts, Move DEF Consistent, TypeOK
  <1>. QED
    BY <1>3, <1>4

-----------------------------------------------------------------------------
(* Time and the shopper at Stripe: no worker moves *)

LEMMA NobodyMoves ==
    ASSUME Consistent, TypeOK', UNCHANGED worker,
           \A p \in Quotes :
              /\ RowsAgree(p)' /\ ProviderAgrees(p)' /\ Evolves(p)
              /\ \A v \in Workers : LeaseEvolves(v, p) /\ CallEvolves(v, p)
    PROVE  Consistent'
  BY Bystander DEF Consistent

LEMMA PayPreserves ==
    ASSUME Consistent, NEW q \in Quotes, Pay(q)
    PROVE  Consistent'
  <1>1. ProviderAgrees(q)
    BY DEF Consistent
  <1>2. /\ session[q][1] = "open"
        /\ session' = [session EXCEPT ![q][1] = "paid"]
        /\ UNCHANGED <<shopVars, offer, stockVars, attempt, keyed, link, worker,
                       mishaps>>
    BY <1>1 DEF Pay, ProviderAgrees
  <1>3. TypeOK'
    BY <1>2, SessionType DEF Consistent, TypeOK, ShopTypes, StockTypes,
                             ProviderTypes, shopVars, stockVars
  <1>. QED
    BY <1>2, <1>3, SessionCloses, NobodyMoves

LEMMA SessionTimesOutPreserves ==
    ASSUME Consistent, NEW q \in Quotes, NEW i \in Sessions,
           SessionTimesOut(q, i)
    PROVE  Consistent'
  <1>1. ProviderAgrees(q)
    BY DEF Consistent
  <1>2. i = 1
    BY <1>1 DEF SessionTimesOut, ProviderAgrees, Sessions
  <1>3. /\ session[q][1] = "open"
        /\ session' = [session EXCEPT ![q][1] = "expired"]
        /\ UNCHANGED <<shopVars, offer, stockVars, attempt, keyed, link, worker,
                       mishaps>>
    BY <1>2 DEF SessionTimesOut
  <1>4. TypeOK'
    BY <1>3, SessionType DEF Consistent, TypeOK, ShopTypes, StockTypes,
                             ProviderTypes, shopVars, stockVars
  <1>. QED
    BY <1>3, <1>4, SessionCloses, NobodyMoves

LEMMA KeyForgottenPreserves ==
    ASSUME Consistent, NEW q \in Quotes, KeyForgotten(q)
    PROVE  Consistent'
  <1>1. /\ keyed' = [keyed EXCEPT ![q] = 0]
        /\ attempt[q].dispatched = "old"
        /\ \A v \in Workers : ~(worker[v].on = q /\ worker[v].step = "call")
        /\ UNCHANGED <<shopVars, offer, stockVars, attempt, session, link,
                       worker, mishaps>>
    BY DEF KeyForgotten
  <1>2. /\ keyed' \in [Quotes -> {0} \cup Sessions]
        /\ keyed'[q] = 0
        /\ \A p \in Quotes \ {q} : keyed'[p] = keyed[p]
    BY <1>1 DEF Consistent, TypeOK, ProviderTypes
  <1>3. ASSUME NEW p \in Quotes
        PROVE  /\ RowsAgree(p)' /\ ProviderAgrees(p)' /\ Evolves(p)
               /\ \A v \in Workers : LeaseEvolves(v, p) /\ CallEvolves(v, p)
    <2>1. CASE p # q
      BY <1>1, <1>2, <2>1, SameAttempt DEF shopVars, stockVars
    <2>2. CASE p = q
      <3>1. RowsAgree(q) /\ ProviderAgrees(q)
        BY DEF Consistent
      <3>. QED
        BY <1>1, <1>2, <2>2, <3>1
           DEF RowsAgree, ProviderAgrees, Evolves, LeaseEvolves, CallEvolves,
               Started, IsActive, Unsendable, shopVars, stockVars
    <2>. QED
      BY <2>1, <2>2
  <1>4. TypeOK'
    BY <1>1, <1>2 DEF Consistent, TypeOK, ShopTypes, StockTypes,
                      ProviderTypes, shopVars, stockVars
  <1>. QED
    BY <1>1, <1>3, <1>4, NobodyMoves

LEMMA ReadAttemptPreserves ==
    ASSUME Consistent, NEW q \in Quotes, ReadAttempt(q)
    PROVE  Consistent'
  <1>1. RowsAgree(q) /\ ProviderAgrees(q)
    BY DEF Consistent
  <1>2. /\ attempt[q].session = 1
        /\ link' = [link EXCEPT ![q] = 1]
        /\ UNCHANGED <<shopVars, offer, stockVars, attempt, session, keyed,
                       worker, mishaps>>
    BY <1>1 DEF ReadAttempt, ProviderAgrees
  <1>3. /\ link' \in [Quotes -> {0} \cup Sessions]
        /\ link'[q] = 1
        /\ \A p \in Quotes \ {q} : link'[p] = link[p]
    BY <1>2 DEF Consistent, TypeOK, ProviderTypes, Sessions
  <1>4. ASSUME NEW p \in Quotes
        PROVE  /\ RowsAgree(p)' /\ ProviderAgrees(p)' /\ Evolves(p)
               /\ \A v \in Workers : LeaseEvolves(v, p) /\ CallEvolves(v, p)
    <2>1. CASE p # q
      BY <1>2, <1>3, <2>1, SameAttempt DEF shopVars, stockVars
    <2>2. CASE p = q
      BY <1>1, <1>2, <1>3, <2>2
         DEF RowsAgree, ProviderAgrees, Evolves, LeaseEvolves, CallEvolves,
             Started, IsActive, Unsendable, shopVars, stockVars
    <2>. QED
      BY <2>1, <2>2
  <1>5. TypeOK'
    BY <1>2, <1>3 DEF Consistent, TypeOK, ShopTypes, StockTypes,
                      ProviderTypes, shopVars, stockVars
  <1>. QED
    BY <1>2, <1>4, <1>5, NobodyMoves

\* Timers that set a column no other worker relies on.
LEMMA TimerPreserves ==
    ASSUME Consistent, NEW q \in Quotes, NEW row \in AttemptRows, Started(q),
           attempt' = [attempt EXCEPT ![q] = row],
           row.status = attempt[q].status, row.session = attempt[q].session,
           row.dispatched = attempt[q].dispatched,
           row.lease = attempt[q].lease, mishaps' \in Nat,
           UNCHANGED <<shopVars, offer, stockVars, providerVars, worker>>
    PROVE  Consistent'
  <1>1. /\ attempt' \in [Quotes -> AttemptRows]
        /\ \A p \in Quotes :
              /\ RowsAgree(p)' /\ ProviderAgrees(p)' /\ Evolves(p)
              /\ \A v \in Workers : LeaseEvolves(v, p) /\ CallEvolves(v, p)
    BY SoftRow
  <1>2. TypeOK'
    BY <1>1 DEF Consistent, TypeOK, ShopTypes, StockTypes, ProviderTypes,
                shopVars, stockVars, providerVars
  <1>. QED
    BY <1>1, <1>2, NobodyMoves

LEMMA LeaseExpiresPreserves ==
    ASSUME Consistent, NEW q \in Quotes, LeaseExpires(q)
    PROVE  Consistent'
  <1> DEFINE row == [attempt[q] EXCEPT !.leaseOld = TRUE]
  <1>1. attempt[q] \in AttemptRows /\ mishaps \in Nat /\ RowsAgree(q)
    BY DEF Consistent, TypeOK
  <1>2. Started(q)
    BY <1>1 DEF LeaseExpires, RowsAgree, NoAttempt
  <1>3. /\ row \in AttemptRows
        /\ row.status = attempt[q].status /\ row.session = attempt[q].session
        /\ row.dispatched = attempt[q].dispatched
        /\ row.lease = attempt[q].lease
    BY <1>1 DEF AttemptRows
  <1>4. /\ attempt' = [attempt EXCEPT ![q] = row]
        /\ mishaps' = mishaps + 1 \/ mishaps' = mishaps
        /\ UNCHANGED <<shopVars, offer, stockVars, providerVars, worker>>
    BY DEF LeaseExpires
  <1> HIDE DEF row
  <1>5. mishaps' \in Nat
    BY <1>1, <1>4
  <1>. QED
    BY <1>2, <1>3, <1>4, <1>5, TimerPreserves

LEMMA RetryComesDuePreserves ==
    ASSUME Consistent, NEW q \in Quotes, RetryComesDue(q)
    PROVE  Consistent'
  <1> DEFINE row == [attempt[q] EXCEPT !.due = TRUE]
  <1>1. attempt[q] \in AttemptRows /\ mishaps \in Nat
    BY DEF Consistent, TypeOK
  <1>2. Started(q)
    BY DEF RetryComesDue, IsActive, Active, Started
  <1>3. /\ row \in AttemptRows
        /\ row.status = attempt[q].status /\ row.session = attempt[q].session
        /\ row.dispatched = attempt[q].dispatched
        /\ row.lease = attempt[q].lease
    BY <1>1 DEF AttemptRows
  <1>4. /\ attempt' = [attempt EXCEPT ![q] = row]
        /\ UNCHANGED <<shopVars, offer, stockVars, providerVars, worker, mishaps>>
    BY DEF RetryComesDue
  <1> HIDE DEF row
  <1>. QED
    BY <1>1, <1>2, <1>3, <1>4, TimerPreserves

LEMMA DispatchAgesPreserves ==
    ASSUME Consistent, NEW q \in Quotes, DispatchAges(q)
    PROVE  Consistent'
  <1> DEFINE row == [attempt[q] EXCEPT !.dispatched = "old"]
  <1>1. /\ attempt[q] \in AttemptRows /\ RowsAgree(q) /\ ProviderAgrees(q)
        /\ attempt \in [Quotes -> AttemptRows]
    BY DEF Consistent, TypeOK
  <1>2. /\ row \in AttemptRows
        /\ row.status = attempt[q].status /\ row.session = attempt[q].session
        /\ row.lease = attempt[q].lease /\ row.dispatched = "old"
    BY <1>1 DEF AttemptRows
  <1>3. /\ attempt' = [attempt EXCEPT ![q] = row]
        /\ attempt[q].dispatched = "recent" /\ IsActive(q)
        /\ UNCHANGED <<shopVars, offer, stockVars, providerVars, worker, mishaps>>
    BY DEF DispatchAges
  <1> HIDE DEF row
  <1>4. /\ attempt' \in [Quotes -> AttemptRows]
        /\ attempt'[q] = row
        /\ \A p \in Quotes \ {q} : attempt'[p] = attempt[p]
    BY <1>1, <1>2, <1>3
  <1>5. ASSUME NEW p \in Quotes
        PROVE  /\ RowsAgree(p)' /\ ProviderAgrees(p)' /\ Evolves(p)
               /\ \A v \in Workers : LeaseEvolves(v, p) /\ CallEvolves(v, p)
    <2>1. CASE p # q
      BY <1>3, <1>4, <2>1, SameAttempt DEF shopVars, stockVars, providerVars
    <2>2. CASE p = q
      BY <1>1, <1>2, <1>3, <1>4, <2>2
         DEF RowsAgree, ProviderAgrees, Evolves, LeaseEvolves, CallEvolves,
             Started, IsActive, Active, Released, Unsendable,
             shopVars, stockVars, providerVars
    <2>. QED
      BY <2>1, <2>2
  <1>6. TypeOK'
    BY <1>3, <1>4 DEF Consistent, TypeOK, ShopTypes, StockTypes,
                      ProviderTypes, shopVars, stockVars, providerVars
  <1>. QED
    BY <1>3, <1>5, <1>6, NobodyMoves

-----------------------------------------------------------------------------
(* The two outcomes *)

LEMMA UnitsType ==
    ASSUME Consistent, NEW q \in Quotes, NEW v \in Variants, quote[q] # NoQuote
    PROVE  Units(q, v) \in Nat
  <1>1. quote[q] \in QuoteRows
    BY DEF Consistent, TypeOK, ShopTypes
  <1>2. quote[q].items[v] \in 0..MaxQty
    BY <1>1 DEF QuoteRows, Contents
  <1>. QED
    BY <1>2, CheckoutAssumption DEF Units

LEMMA RevisionType ==
    ASSUME Consistent, NEW s \in Shoppers, RenewRevision(s)
    PROVE  cart' \in [Shoppers -> Carts \cup {NoCart}] /\ cartSeq' \in Nat
  <1>1. /\ cart \in [Shoppers -> Carts \cup {NoCart}]
        /\ cartSeq \in Nat
    BY DEF Consistent, TypeOK, ShopTypes
  <1>2. CASE cart[s] = NoCart
    BY <1>1, <1>2 DEF RenewRevision
  <1>3. CASE cart[s] # NoCart
    <2> DEFINE new == [cart[s] EXCEPT !.version = cartSeq + 1]
    <2>1. new \in Carts
      BY <1>1, <1>3 DEF Carts
    <2>2. cart' = [cart EXCEPT ![s] = new] /\ cartSeq' = cartSeq + 1
      BY <1>3 DEF RenewRevision
    <2> HIDE DEF new
    <2>. QED
      BY <1>1, <2>1, <2>2
  <1>. QED
    BY <1>2, <1>3

LEMMA ReleasePreserves ==
    ASSUME Consistent, NEW w \in Workers, ReleaseUnpaidAttempt(w)
    PROVE  Consistent'
  <1> DEFINE q == worker[w].on
             base == Unleased(attempt[q])
             status == ReleaseStatus(w)
             row == [base EXCEPT !.status = status]
  <1>1. /\ worker[w].step \in {"release", "withdraw"}
        /\ Done(w)
        /\ UNCHANGED <<quote, command, offer, onHand, order, providerVars, mishaps>>
    BY DEF ReleaseUnpaidAttempt
  <1>2. /\ q \in Quotes /\ Started(q) /\ attempt[q] \in AttemptRows
        /\ attempt \in [Quotes -> AttemptRows]
        /\ WorkerAgrees(w) /\ RowsAgree(q) /\ ProviderAgrees(q)
    BY <1>1, Busy DEF Consistent, TypeOK
  <1>3. CASE Finished(q)
    <2>1. UNCHANGED <<shopVars, offer, stockVars, attempt, providerVars, mishaps>>
      BY <1>1, <1>3 DEF ReleaseUnpaidAttempt, shopVars, stockVars
    <2>. QED
      BY <1>1, <2>1, DoneFacts, IdleAgrees, Move DEF Consistent, TypeOK
  <1>4. CASE ~Finished(q)
    <2>1. /\ reserved' = IF hold[q] = "held"
                         THEN [v \in Variants |-> Lower(reserved[v], Units(q, v))]
                         ELSE reserved
          /\ hold' = [hold EXCEPT ![q] = IF @ = "held" THEN "released" ELSE @]
          /\ attempt' = [attempt EXCEPT ![q] = row]
          /\ RenewRevision(quote[q].shopper)
      BY <1>4 DEF ReleaseUnpaidAttempt
    <2>2. /\ IsActive(q) /\ order[q] = "none" /\ quote[q] # NoQuote
          /\ quote[q].shopper \in Shoppers
      <3>1. IsActive(q)
        BY <1>2, <1>4 DEF Finished, IsActive, Started, AttemptRows
      <3>2. quote[q] \in QuoteRows
        BY <1>2, NullAssumption DEF RowsAgree, Consistent, TypeOK, ShopTypes
      <3>. QED
        BY <1>2, <3>1, <3>2 DEF RowsAgree, QuoteRows
    <2>3. Unsendable(q) \/ session[q][1] = "expired"
      BY <1>1, <1>2 DEF WorkerAgrees
    <2>4. status \in Released
      BY DEF ReleaseStatus, Released
    <2> HIDE DEF status
    <2>5. /\ base \in AttemptRows /\ base.lease = NoWorker
          /\ base.session = attempt[q].session
          /\ base.dispatched = attempt[q].dispatched
      BY <1>2, UnleasedRow
    <2> HIDE DEF base
    <2>6. /\ row \in AttemptRows
          /\ row.status = status /\ row.lease = NoWorker
          /\ row.session = attempt[q].session
          /\ row.dispatched = attempt[q].dispatched
      BY <2>4, <2>5 DEF AttemptRows, Terminal
    <2> HIDE DEF row
    <2>7. /\ attempt' \in [Quotes -> AttemptRows] /\ attempt'[q] = row
          /\ \A p \in Quotes \ {q} : attempt'[p] = attempt[p]
      BY <1>2, <2>1, <2>6
    <2>8. /\ hold' \in [Quotes -> {"none", "held", "consumed", "released"}]
          /\ \A p \in Quotes \ {q} : hold'[p] = hold[p]
      BY <2>1 DEF Consistent, TypeOK, StockTypes
    <2>9. reserved' \in [Variants -> Nat]
      <3>1. reserved \in [Variants -> Nat]
        BY DEF Consistent, TypeOK, StockTypes
      <3>2. \A v \in Variants : Lower(reserved[v], Units(q, v)) \in Nat
        BY <1>2, <2>2, <3>1, UnitsType DEF Lower
      <3>. QED
        BY <2>1, <3>1, <3>2
    <2>10. cart' \in [Shoppers -> Carts \cup {NoCart}] /\ cartSeq' \in Nat
      BY <2>1, <2>2, RevisionType
    <2>11. ASSUME NEW p \in Quotes
           PROVE  /\ RowsAgree(p)' /\ ProviderAgrees(p)' /\ Evolves(p)
                  /\ \A v \in Workers : LeaseEvolves(v, p) /\ CallEvolves(v, p)
      <3>1. CASE p # q
        BY <1>1, <2>7, <2>8, <3>1, SameAttempt DEF providerVars
      <3>2. CASE p = q
        BY <1>1, <1>2, <2>2, <2>3, <2>4, <2>6, <2>7, <3>2, CheckoutAssumption
           DEF RowsAgree, ProviderAgrees, Evolves, LeaseEvolves, CallEvolves,
               Started, IsActive, Active, Released, Unsendable, providerVars
      <3>. QED
        BY <3>1, <3>2
    <2>12. TypeOK'
      BY <1>1, <2>7, <2>8, <2>9, <2>10, DoneFacts
         DEF Consistent, TypeOK, ShopTypes, StockTypes, ProviderTypes,
             providerVars
    <2>. QED
      BY <1>1, <2>11, <2>12, DoneFacts, Assemble
  <1>. QED
    BY <1>3, <1>4

LEMMA PlacePreserves ==
    ASSUME Consistent, NEW w \in Workers, PlacePaidOnlineOrder(w)
    PROVE  Consistent'
  <1> DEFINE q == worker[w].on
             base == Unleased(attempt[q])
             row == [base EXCEPT !.status = "succeeded"]
  <1>1. /\ worker[w].step = "place"
        /\ Done(w)
        /\ UNCHANGED <<cartSeq, quote, command, offer, onHand, reserved,
                       providerVars, mishaps>>
    BY DEF PlacePaidOnlineOrder
  <1>2. /\ q \in Quotes /\ Started(q) /\ attempt[q] \in AttemptRows
        /\ attempt \in [Quotes -> AttemptRows]
        /\ WorkerAgrees(w) /\ RowsAgree(q) /\ ProviderAgrees(q)
    BY <1>1, Busy DEF Consistent, TypeOK
  <1>3. session[q][1] = "paid" /\ quote[q].method = "online"
    BY <1>1, <1>2 DEF WorkerAgrees
  <1>4. attempt[q].status \notin Released
    BY <1>2, <1>3 DEF ProviderAgrees, Unsendable
  <1>5. ~PaidTooLate(q)
    BY <1>4 DEF PaidTooLate
  <1>6. /\ attempt' = [attempt EXCEPT ![q] = row]
        /\ IF order[q] = "none"
           THEN /\ order' = [order EXCEPT ![q] = "paid"]
                /\ hold' = [hold EXCEPT ![q] = IF @ = "held" THEN "consumed" ELSE @]
                /\ cart' = [cart EXCEPT ![quote[q].shopper] = NoCart]
           ELSE UNCHANGED <<order, hold, cart>>
    BY <1>5 DEF PlacePaidOnlineOrder
  <1>7. /\ base \in AttemptRows /\ base.lease = NoWorker
        /\ base.session = attempt[q].session
        /\ base.dispatched = attempt[q].dispatched
    BY <1>2, UnleasedRow
  <1> HIDE DEF base
  <1>8. /\ row \in AttemptRows
        /\ row.status = "succeeded" /\ row.lease = NoWorker
        /\ row.session = attempt[q].session
        /\ row.dispatched = attempt[q].dispatched
    BY <1>7 DEF AttemptRows, Terminal
  <1> HIDE DEF row
  <1>9. /\ attempt' \in [Quotes -> AttemptRows] /\ attempt'[q] = row
        /\ \A p \in Quotes \ {q} : attempt'[p] = attempt[p]
    BY <1>2, <1>6, <1>8
  <1>10. /\ hold' \in [Quotes -> {"none", "held", "consumed", "released"}]
         /\ order' \in [Quotes -> {"none", "unpaid", "paid"}]
         /\ cart' \in [Shoppers -> Carts \cup {NoCart}]
         /\ \A p \in Quotes \ {q} : hold'[p] = hold[p] /\ order'[p] = order[p]
    BY <1>6 DEF Consistent, TypeOK, StockTypes, ShopTypes
  <1>11. order'[q] = "paid" /\ hold'[q] = "consumed"
    <2>1. CASE order[q] = "none"
      <3>1. hold[q] = "held"
        BY <1>2, <1>4, <2>1
           DEF RowsAgree, IsActive, Started, AttemptRows, Terminal
      <3>. QED
        BY <1>2, <1>6, <2>1, <3>1 DEF Consistent, TypeOK, StockTypes
    <2>2. CASE order[q] # "none"
      BY <1>2, <1>3, <1>4, <1>6, <2>2
         DEF RowsAgree, IsActive, Started, AttemptRows, Terminal
    <2>. QED
      BY <2>1, <2>2
  <1>12. ASSUME NEW p \in Quotes
         PROVE  /\ RowsAgree(p)' /\ ProviderAgrees(p)' /\ Evolves(p)
                /\ \A v \in Workers : LeaseEvolves(v, p) /\ CallEvolves(v, p)
    <2>1. CASE p # q
      BY <1>1, <1>9, <1>10, <2>1, SameAttempt DEF providerVars
    <2>2. CASE p = q
      BY <1>1, <1>2, <1>3, <1>8, <1>9, <1>11, <2>2, CheckoutAssumption
         DEF RowsAgree, ProviderAgrees, Evolves, LeaseEvolves, CallEvolves,
             Started, IsActive, Active, Released, Unsendable, providerVars
    <2>. QED
      BY <2>1, <2>2
  <1>13. TypeOK'
    BY <1>1, <1>9, <1>10, DoneFacts
       DEF Consistent, TypeOK, ShopTypes, StockTypes, ProviderTypes, providerVars
  <1>. QED
    BY <1>1, <1>12, <1>13, DoneFacts, Assemble

-----------------------------------------------------------------------------
(* The start of an attempt *)

\* What both starts write of quotes, commands and stock.
LEMMA StartFacts ==
    ASSUME Consistent, NEW q \in Quotes, NEW k \in Keys, Startable(q, k),
           Reserve(q), RecordStart(q, k)
    PROVE  /\ ~Started(q) /\ attempt[q] = NoAttempt
           /\ quote[q].shopper \in Shoppers
           /\ quote' \in [Quotes -> QuoteRows \cup {NoQuote}]
           /\ quote'[q] # NoQuote /\ quote'[q].consumed
           /\ quote'[q].method = quote[q].method
           /\ \A p \in Quotes \ {q} : quote'[p] = quote[p]
           /\ command' \in [Shoppers -> [Keys -> Quotes \cup {NoQuote}]]
           /\ reserved' \in [Variants -> Nat]
           /\ hold' \in [Quotes -> {"none", "held", "consumed", "released"}]
           /\ hold'[q] = "held"
           /\ \A p \in Quotes \ {q} : hold'[p] = hold[p]
  <1> DEFINE row == [quote[q] EXCEPT !.consumed = TRUE]
             keys == [command[quote[q].shopper] EXCEPT ![k] = q]
  <1>1. /\ TypeOK /\ RowsAgree(q)
        /\ quote[q] \in QuoteRows /\ ~quote[q].consumed
    BY DEF Consistent, TypeOK, ShopTypes, Startable
  <1>2. ~Started(q) /\ attempt[q] = NoAttempt
    BY <1>1 DEF RowsAgree
  <1>3. quote[q].shopper \in Shoppers
    BY <1>1 DEF QuoteRows
  <1>4. /\ row \in QuoteRows /\ row # NoQuote /\ row.consumed
        /\ row.method = quote[q].method
    BY <1>1, NullAssumption DEF QuoteRows
  <1>5. keys \in [Keys -> Quotes \cup {NoQuote}]
    BY <1>1, <1>3 DEF TypeOK, ShopTypes
  <1>6. /\ quote' = [quote EXCEPT ![q] = row]
        /\ command' = [command EXCEPT ![quote[q].shopper] = keys]
    BY DEF RecordStart
  <1> HIDE DEF row, keys
  <1>7. /\ quote' \in [Quotes -> QuoteRows \cup {NoQuote}]
        /\ quote'[q] = row
        /\ \A p \in Quotes \ {q} : quote'[p] = quote[p]
    BY <1>1, <1>4, <1>6 DEF TypeOK, ShopTypes
  <1>8. command' \in [Shoppers -> [Keys -> Quotes \cup {NoQuote}]]
    BY <1>1, <1>3, <1>5, <1>6 DEF TypeOK, ShopTypes
  <1>9. reserved' \in [Variants -> Nat]
    <2>1. \A v \in Variants : reserved[v] + Units(q, v) \in Nat
      BY <1>1, UnitsType DEF TypeOK, StockTypes, Startable
    <2>. QED
      BY <2>1 DEF Reserve
  <1>10. /\ hold' \in [Quotes -> {"none", "held", "consumed", "released"}]
         /\ hold'[q] = "held"
         /\ \A p \in Quotes \ {q} : hold'[p] = hold[p]
    BY <1>1 DEF Reserve, TypeOK, StockTypes
  <1>. QED
    BY <1>2, <1>3, <1>4, <1>7, <1>8, <1>9, <1>10

LEMMA StartCashOnDeliveryPreserves ==
    ASSUME Consistent, NEW q \in Quotes, NEW k \in Keys,
           StartCashOnDelivery(q, k)
    PROVE  Consistent'
  <1> DEFINE row == [NoAttempt EXCEPT !.status = "succeeded"]
  <1>1. /\ Startable(q, k) /\ Reserve(q) /\ RecordStart(q, k)
        /\ quote[q].method = "cod"
        /\ attempt' = [attempt EXCEPT ![q] = row]
        /\ order' = [order EXCEPT ![q] = "unpaid"]
        /\ cart' = [cart EXCEPT ![quote[q].shopper] = NoCart]
        /\ UNCHANGED <<cartSeq, offer, onHand, providerVars, worker, mishaps>>
    BY DEF StartCashOnDelivery
  <1>2. /\ row \in AttemptRows
        /\ row.status = "succeeded" /\ row.lease = NoWorker
        /\ row.session = 0 /\ row.dispatched = "no"
    BY NewRowType DEF NoAttempt
  <1> HIDE DEF row
  <1>3. /\ attempt' \in [Quotes -> AttemptRows] /\ attempt'[q] = row
        /\ \A p \in Quotes \ {q} : attempt'[p] = attempt[p]
    BY <1>1, <1>2 DEF Consistent, TypeOK
  <1>4. /\ order' \in [Quotes -> {"none", "unpaid", "paid"}]
        /\ order'[q] = "unpaid"
        /\ \A p \in Quotes \ {q} : order'[p] = order[p]
    BY <1>1 DEF Consistent, TypeOK, StockTypes
  <1>5. cart' \in [Shoppers -> Carts \cup {NoCart}]
    BY <1>1 DEF Consistent, TypeOK, ShopTypes
  <1>6. attempt[q].dispatched = "no" /\ ProviderAgrees(q)
    BY <1>1, StartFacts DEF NoAttempt, Consistent
  <1>7. ASSUME NEW p \in Quotes
        PROVE  /\ RowsAgree(p)' /\ ProviderAgrees(p)' /\ Evolves(p)
               /\ \A v \in Workers : LeaseEvolves(v, p) /\ CallEvolves(v, p)
    <2>1. CASE p # q
      BY <1>1, <1>3, <1>4, <2>1, StartFacts, SameAttempt DEF providerVars
    <2>2. CASE p = q
      BY <1>1, <1>2, <1>3, <1>4, <1>6, <2>2, StartFacts, CheckoutAssumption
         DEF RowsAgree, ProviderAgrees, Evolves, LeaseEvolves, CallEvolves,
             Started, IsActive, Active, Released, Unsendable, providerVars
    <2>. QED
      BY <2>1, <2>2
  <1>8. TypeOK'
    BY <1>1, <1>3, <1>4, <1>5, StartFacts
       DEF Consistent, TypeOK, ShopTypes, StockTypes, ProviderTypes, providerVars
  <1>. QED
    BY <1>1, <1>7, <1>8, NobodyMoves

LEMMA StartOnlinePreserves ==
    ASSUME Consistent, NEW q \in Quotes, NEW k \in Keys, NEW urls \in BOOLEAN,
           StartOnline(q, k, urls)
    PROVE  Consistent'
  <1> DEFINE row == [NoAttempt EXCEPT !.status = "creating", !.urls = urls,
                                      !.due = TRUE]
  <1>1. /\ Startable(q, k) /\ Reserve(q) /\ RecordStart(q, k)
        /\ quote[q].method = "online"
        /\ attempt' = [attempt EXCEPT ![q] = row]
        /\ UNCHANGED <<cart, cartSeq, offer, onHand, order, providerVars, worker,
                       mishaps>>
    BY DEF StartOnline
  <1>2. /\ row \in AttemptRows
        /\ row.status = "creating" /\ row.lease = NoWorker
        /\ row.session = 0 /\ row.dispatched = "no"
    BY NewRowType DEF NoAttempt
  <1> HIDE DEF row
  <1>3. /\ attempt' \in [Quotes -> AttemptRows] /\ attempt'[q] = row
        /\ \A p \in Quotes \ {q} : attempt'[p] = attempt[p]
    BY <1>1, <1>2 DEF Consistent, TypeOK
  <1>4. /\ attempt[q].dispatched = "no" /\ order[q] = "none"
        /\ RowsAgree(q) /\ ProviderAgrees(q)
    <2>1. RowsAgree(q) /\ ProviderAgrees(q)
      BY DEF Consistent
    <2>2. ~Started(q) /\ attempt[q] = NoAttempt
      BY <1>1, StartFacts
    <2>. QED
      BY <2>1, <2>2 DEF NoAttempt, RowsAgree
  <1>5. ASSUME NEW p \in Quotes
        PROVE  /\ RowsAgree(p)' /\ ProviderAgrees(p)' /\ Evolves(p)
               /\ \A v \in Workers : LeaseEvolves(v, p) /\ CallEvolves(v, p)
    <2>1. CASE p # q
      BY <1>1, <1>3, <2>1, StartFacts, SameAttempt DEF providerVars
    <2>2. CASE p = q
      BY <1>1, <1>2, <1>3, <1>4, <2>2, StartFacts, CheckoutAssumption
         DEF RowsAgree, ProviderAgrees, Evolves, LeaseEvolves, CallEvolves,
             Started, IsActive, Active, Released, Unsendable, providerVars
    <2>. QED
      BY <2>1, <2>2
  <1>6. TypeOK'
    BY <1>1, <1>3, StartFacts
       DEF Consistent, TypeOK, ShopTypes, StockTypes, ProviderTypes, providerVars
  <1>. QED
    BY <1>1, <1>5, <1>6, NobodyMoves

-----------------------------------------------------------------------------
(* The invariant *)

LEMMA InitConsistent == Init => Consistent
  <1>1. SUFFICES ASSUME Init PROVE Consistent
    OBVIOUS
  <1>2. ShopTypes
    BY <1>1 DEF Init, ShopTypes
  <1>3. StockTypes
    BY <1>1, CheckoutAssumption DEF Init, StockTypes
  <1>4. ProviderTypes
    BY <1>1 DEF Init, ProviderTypes
  <1>5. attempt \in [Quotes -> AttemptRows] /\ worker \in [Workers -> WorkerStates]
    BY <1>1, NewRowType, IdleType DEF Init
  <1>6. TypeOK
    BY <1>1, <1>2, <1>3, <1>4, <1>5 DEF Init, TypeOK
  <1>7. ASSUME NEW q \in Quotes PROVE RowsAgree(q) /\ ProviderAgrees(q)
    <2>1. attempt[q] = NoAttempt /\ order[q] = "none" /\ keyed[q] = 0
          /\ link[q] = 0 /\ session[q][1] = "none" /\ session[q][2] = "none"
      BY <1>1 DEF Init, Sessions
    <2>. QED
      BY <2>1 DEF RowsAgree, ProviderAgrees, NoAttempt, Started, IsActive,
                  Active, Released, Unsendable
  <1>8. ASSUME NEW w \in Workers PROVE WorkerAgrees(w)
    BY <1>1, IdleType DEF Init, WorkerAgrees
  <1>. QED
    BY <1>6, <1>7, <1>8 DEF Consistent

LEMMA ShoppingPreserves ==
    ASSUME Consistent, Shopping
    PROVE  Consistent'
  BY PutItemPreserves, RemoveItemPreserves, DeleteCartPreserves,
     CreateQuotePreserves, StartCashOnDeliveryPreserves, StartOnlinePreserves,
     CancelPreserves, ReadAttemptPreserves, PayPreserves DEF Shopping

LEMMA WorkPreserves ==
    ASSUME Consistent, NEW w \in Workers, Work(w)
    PROVE  Consistent'
  BY RefusePreserves, DispatchPreserves, CreateSessionPreserves, SavePreserves,
     ReconcileWithoutSessionPreserves, RetrievePreserves, VerifyPreserves,
     ExpirePreserves, FinishReconcilePreserves, ReleasePreserves,
     PlacePreserves, RecordFailurePreserves DEF Work

LEMMA WorkingPreserves ==
    ASSUME Consistent, Working
    PROVE  Consistent'
  BY ClaimPreserves, WorkPreserves, FailsPreserves, CrashPreserves DEF Working

LEMMA TimePreserves ==
    ASSUME Consistent, Time
    PROVE  Consistent'
  BY QuoteExpiresPreserves, LeaseExpiresPreserves, RetryComesDuePreserves,
     DispatchAgesPreserves, KeyForgottenPreserves, SessionTimesOutPreserves
     DEF Time

\* Nothing happens.
LEMMA StutterPreserves ==
    ASSUME Consistent, UNCHANGED vars
    PROVE  Consistent'
  <1>1. TypeOK'
    BY DEF Consistent, TypeOK, ShopTypes, StockTypes, ProviderTypes, vars,
           providerVars
  <1>. QED
    BY <1>1, Untouched DEF vars, providerVars

\* For every set of shoppers, variants, quotes, keys and workers, and however
\* many crashes and lost leases: rows, Stripe and workers' copies agree.
THEOREM Consistency == Spec => []Consistent
  <1>1. Consistent /\ [Next]_vars => Consistent'
    BY ShoppingPreserves, MerchantPreserves, WorkingPreserves, TimePreserves,
       StutterPreserves DEF Next
  <1>. QED
    BY InitConsistent, <1>1, PTL DEF Spec

-----------------------------------------------------------------------------
(* The safety properties *)

\* Every variable keeps its type.
THEOREM TypeCorrectness == Spec => []TypeOK
  <1>1. Consistent => TypeOK
    BY DEF Consistent
  <1>. QED
    BY <1>1, Consistency, PTL

\* Stripe never holds a second Checkout Session for an attempt.
THEOREM SingleSession == Spec => []OneSessionPerAttempt
  <1>1. Consistent => OneSessionPerAttempt
    BY DEF Consistent, ProviderAgrees, OneSessionPerAttempt
  <1>. QED
    BY <1>1, Consistency, PTL

\* Stock is given back only when no money can come any more.
THEOREM ReleaseIsSafe == Spec => []ReleasedCannotBePaid
  <1>1. Consistent => ReleasedCannotBePaid
    <2>1. SUFFICES ASSUME Consistent, NEW q \in Quotes,
                          attempt[q].status \in Released, NEW i \in Sessions
                   PROVE  session[q][i] \in {"none", "expired"}
      BY DEF ReleasedCannotBePaid
    <2>2. ProviderAgrees(q)
      BY <2>1 DEF Consistent
    <2>3. i = 1 \/ i = 2
      BY DEF Sessions
    <2>. QED
      BY <2>1, <2>2, <2>3 DEF ProviderAgrees, Unsendable
  <1>. QED
    BY <1>1, Consistency, PTL

\* An order and the attempt's outcome agree, and a paid order has a payment.
THEOREM OrderBacking == Spec => []OrdersAreBacked
  <1>1. Consistent => OrdersAreBacked
    <2>1. SUFFICES ASSUME Consistent, NEW q \in Quotes
                   PROVE  /\ attempt[q].status = "succeeded" <=> order[q] # "none"
                          /\ order[q] = "paid" =>
                                /\ quote[q].method = "online"
                                /\ hold[q] = "consumed"
                                /\ \E i \in Sessions : session[q][i] = "paid"
                          /\ order[q] = "unpaid" =>
                                quote[q].method = "cod" /\ hold[q] = "held"
      BY DEF OrdersAreBacked
    <2>2. /\ RowsAgree(q) /\ ProviderAgrees(q)
          /\ attempt[q].status \in {"none"} \cup Active \cup Terminal
      BY <2>1 DEF Consistent, TypeOK, AttemptRows
    <2>3. attempt[q].status = "succeeded" <=> order[q] # "none"
      BY <2>2 DEF RowsAgree, Started, IsActive, Terminal
    <2>4. 1 \in Sessions
      BY DEF Sessions
    <2>. QED
      BY <2>2, <2>3, <2>4 DEF RowsAgree, ProviderAgrees
  <1>. QED
    BY <1>1, Consistency, PTL

-----------------------------------------------------------------------------
(* A finished attempt stays finished *)

StatusKept(q) == attempt'[q].status = attempt[q].status

Kept(q) == StatusKept(q) /\ hold'[q] = hold[q] /\ order'[q] = order[q]

LEMMA OtherKept ==
    ASSUME Consistent, NEW q \in Quotes, NEW x, NEW row,
           attempt' = [attempt EXCEPT ![x] = row],
           x = q => row.status = attempt[q].status
    PROVE  StatusKept(q)
  BY DEF Consistent, TypeOK, StatusKept

\* The ends of work that write no status.
LEMMA EndOfWorkKeeps ==
    ASSUME Consistent, NEW w \in Workers, NEW q \in Quotes,
           worker[w].step # "idle"
    PROVE  /\ \A due \in BOOLEAN : FinishAttemptWork(w, due) => StatusKept(q)
           /\ MarkAttemptForReview(w) => StatusKept(q)
           /\ RecordProviderFailure(w) => StatusKept(q)
  <1> DEFINE x == worker[w].on
             base == Unleased(attempt[x])
  <1>1. attempt[x] \in AttemptRows
    BY Busy
  <1>2. base \in AttemptRows /\ base.status = attempt[x].status
    BY <1>1, UnleasedRow
  <1>3. ASSUME NEW due \in BOOLEAN, FinishAttemptWork(w, due)
        PROVE  StatusKept(q)
    <2> DEFINE row == [base EXCEPT !.due = due]
    <2>1. attempt' = [attempt EXCEPT ![x] = row] \/ attempt' = attempt
      BY <1>3 DEF FinishAttemptWork
    <2>2. row.status = attempt[x].status
      BY <1>2 DEF AttemptRows
    <2> HIDE DEF row
    <2>3. CASE attempt' = [attempt EXCEPT ![x] = row]
      BY <2>2, <2>3, OtherKept
    <2>4. CASE attempt' = attempt
      BY <2>4 DEF StatusKept
    <2>. QED
      BY <2>1, <2>3, <2>4
  <1>4. ASSUME MarkAttemptForReview(w)
        PROVE  StatusKept(q)
    <2> DEFINE row == [base EXCEPT !.review = TRUE]
    <2>1. attempt' = [attempt EXCEPT ![x] = row] \/ attempt' = attempt
      BY <1>4 DEF MarkAttemptForReview
    <2>2. row.status = attempt[x].status
      BY <1>2 DEF AttemptRows
    <2> HIDE DEF row
    <2>3. CASE attempt' = [attempt EXCEPT ![x] = row]
      BY <2>2, <2>3, OtherKept
    <2>4. CASE attempt' = attempt
      BY <2>4 DEF StatusKept
    <2>. QED
      BY <2>1, <2>3, <2>4
  <1>5. ASSUME RecordProviderFailure(w)
        PROVE  StatusKept(q)
    <2> DEFINE tries == FailedAttempts(w)
               review == tries >= ProviderMaxAttempts
               row == [base EXCEPT !.tries = tries, !.due = FALSE,
                                   !.review = review]
    <2>1. attempt' = [attempt EXCEPT ![x] = row] \/ attempt' = attempt
      BY <1>5 DEF RecordProviderFailure
    <2> HIDE DEF tries, review
    <2>2. row.status = attempt[x].status
      BY <1>2 DEF AttemptRows
    <2> HIDE DEF row
    <2>3. CASE attempt' = [attempt EXCEPT ![x] = row]
      BY <2>2, <2>3, OtherKept
    <2>4. CASE attempt' = attempt
      BY <2>4 DEF StatusKept
    <2>. QED
      BY <2>1, <2>3, <2>4
  <1>. QED
    BY <1>3, <1>4, <1>5

LEMMA ShoppingKeeps ==
    ASSUME Consistent, NEW q \in Quotes, attempt[q].status \in Terminal,
           Shopping
    PROVE  Kept(q)
  <1>1. Started(q)
    BY DEF Started, Terminal, Released
  <1>2. ASSUME NEW x \in Quotes, NEW k \in Keys, StartCashOnDelivery(x, k)
        PROVE  Kept(q)
    <2>1. x # q
      BY <1>1, <1>2, StartFacts DEF StartCashOnDelivery
    <2>. QED
      BY <1>2, <2>1, StartFacts DEF StartCashOnDelivery, Kept, StatusKept,
         Consistent, TypeOK, StockTypes
  <1>3. ASSUME NEW x \in Quotes, NEW k \in Keys, NEW urls \in BOOLEAN,
               StartOnline(x, k, urls)
        PROVE  Kept(q)
    <2>1. x # q
      BY <1>1, <1>3, StartFacts DEF StartOnline
    <2>. QED
      BY <1>3, <2>1, StartFacts DEF StartOnline, Kept, StatusKept,
         Consistent, TypeOK, StockTypes
  <1>4. ASSUME NEW w \in Workers, NEW x \in Quotes, CancelAttempt(w, x)
        PROVE  Kept(q)
    <2> DEFINE row == [attempt[x] EXCEPT !.status = "cancelling", !.due = TRUE]
    <2>1. x # q
      BY <1>4 DEF CancelAttempt, Terminal, Released
    <2>2. attempt' = [attempt EXCEPT ![x] = row]
      BY <1>4 DEF CancelAttempt, Consistent, TypeOK
    <2> HIDE DEF row
    <2>. QED
      BY <1>4, <2>1, <2>2, OtherKept DEF CancelAttempt, Kept, stockVars
  <1>5. ASSUME UNCHANGED <<attempt, hold, order>>
        PROVE  Kept(q)
    BY <1>5 DEF Kept, StatusKept
  <1>6. ASSUME NEW s \in Shoppers, NEW v \in Variants
        PROVE  /\ \A n \in 1..MaxQty : PutItem(s, v, n) => Kept(q)
               /\ RemoveItem(s, v) => Kept(q)
    BY <1>5 DEF PutItem, RemoveItem
  <1>7. ASSUME NEW s \in Shoppers
        PROVE  DeleteCart(s) => Kept(q)
    BY <1>5 DEF DeleteCart
  <1>8. ASSUME NEW x \in Quotes
        PROVE  /\ \A s \in Shoppers, m \in {"cod", "online"} :
                     CreateQuote(x, s, m) => Kept(q)
               /\ ReadAttempt(x) => Kept(q)
               /\ Pay(x) => Kept(q)
    BY <1>5 DEF CreateQuote, ReadAttempt, Pay, stockVars
  <1>. QED
    BY <1>2, <1>3, <1>4, <1>6, <1>7, <1>8 DEF Shopping

LEMMA WorkKeeps ==
    ASSUME Consistent, NEW q \in Quotes, attempt[q].status \in Terminal,
           NEW w \in Workers, Work(w)
    PROVE  Kept(q)
  <1> DEFINE x == worker[w].on
  <1>1. ASSUME UNCHANGED stockVars, StatusKept(q)
        PROVE  Kept(q)
    BY <1>1 DEF Kept, stockVars
  <1>2. ASSUME UNCHANGED <<attempt, stockVars>>
        PROVE  Kept(q)
    BY <1>2 DEF Kept, StatusKept, stockVars
  <1>3. RefuseToCreate(w) => Kept(q)
    BY <1>1, EndOfWorkKeeps DEF RefuseToCreate
  <1>4. DispatchCreate(w) => Kept(q)
    <2>1. SUFFICES ASSUME DispatchCreate(w) PROVE Kept(q)
      OBVIOUS
    <2>2. CASE MayDispatch(w, x)
      <3> DEFINE sent == IF worker[w].seen.dispatched = "no"
                         THEN "recent" ELSE attempt[x].dispatched
                 tries == worker[w].seen.tries + 1
                 row == [attempt[x] EXCEPT !.dispatched = sent, !.tries = tries]
      <3>1. x # q
        BY <2>2 DEF MayDispatch, Terminal, Released
      <3>2. attempt' = [attempt EXCEPT ![x] = row]
        BY <2>1, <2>2, Busy DEF DispatchCreate, Consistent, TypeOK
      <3> HIDE DEF row
      <3>. QED
        BY <1>1, <2>1, <3>1, <3>2, OtherKept DEF DispatchCreate
    <2>3. CASE ~MayDispatch(w, x)
      BY <1>1, <2>1, <2>3, EndOfWorkKeeps DEF DispatchCreate
    <2>. QED
      BY <2>2, <2>3
  <1>5. CreateCheckoutSession(w) => Kept(q)
    BY <1>2 DEF CreateCheckoutSession
  <1>6. SaveProviderSession(w) => Kept(q)
    <2>1. SUFFICES ASSUME SaveProviderSession(w) PROVE Kept(q)
      OBVIOUS
    <2> DEFINE base == Unleased(attempt[x])
               status == IF attempt[x].status = "creating" THEN "pending"
                                                           ELSE attempt[x].status
               row == [base EXCEPT !.status = status,
                                   !.session = worker[w].got, !.due = FALSE]
    <2>2. base \in AttemptRows /\ base.status = attempt[x].status
      BY <2>1, Busy, UnleasedRow DEF SaveProviderSession
    <2>3. attempt' = [attempt EXCEPT ![x] = row] \/ attempt' = attempt
      BY <2>1, <2>2 DEF SaveProviderSession
    <2>4. row.status = status
      BY <2>2 DEF AttemptRows
    <2> HIDE DEF row, base
    <2>5. x = q => status = attempt[q].status
      BY DEF Terminal, Released
    <2>6. StatusKept(q)
      BY <2>3, <2>4, <2>5, OtherKept DEF StatusKept
    <2>. QED
      BY <1>1, <2>1, <2>6 DEF SaveProviderSession
  <1>7. ReconcileWithoutSession(w) => Kept(q)
    BY <1>1, <1>2, EndOfWorkKeeps DEF ReconcileWithoutSession
  <1>8. RetrieveCheckoutSession(w) => Kept(q)
    BY <1>2 DEF RetrieveCheckoutSession
  <1>9. ASSUME NEW matches \in BOOLEAN
        PROVE  VerifyPaymentIntent(w, matches) => Kept(q)
    BY <1>1, <1>2, EndOfWorkKeeps DEF VerifyPaymentIntent
  <1>10. ExpireCheckoutSession(w) => Kept(q)
    BY <1>2 DEF ExpireCheckoutSession
  <1>11. FinishReconcile(w) => Kept(q)
    BY <1>1, EndOfWorkKeeps DEF FinishReconcile
  <1>12. RecordProviderFailure(w) => Kept(q)
    BY <1>1, EndOfWorkKeeps DEF RecordProviderFailure
  <1>13. ReleaseUnpaidAttempt(w) => Kept(q)
    <2>1. SUFFICES ASSUME ReleaseUnpaidAttempt(w) PROVE Kept(q)
      OBVIOUS
    <2>2. CASE Finished(x)
      BY <2>1, <2>2 DEF ReleaseUnpaidAttempt, Kept, StatusKept
    <2>3. CASE ~Finished(x)
      <3>1. x # q
        BY <2>3 DEF Finished
      <3>. QED
        BY <2>1, <2>3, <3>1 DEF ReleaseUnpaidAttempt, Kept, StatusKept,
           Consistent, TypeOK, StockTypes
    <2>. QED
      BY <2>2, <2>3
  <1>14. PlacePaidOnlineOrder(w) => Kept(q)
    <2>1. SUFFICES ASSUME PlacePaidOnlineOrder(w) PROVE Kept(q)
      OBVIOUS
    <2>2. CASE x # q
      BY <2>1, <2>2 DEF PlacePaidOnlineOrder, Kept, StatusKept,
         Consistent, TypeOK, StockTypes
    <2>3. CASE x = q
      <3>1. /\ session[q][1] = "paid" /\ RowsAgree(q) /\ ProviderAgrees(q)
            /\ attempt[q] \in AttemptRows
        BY <2>1, <2>3 DEF PlacePaidOnlineOrder, Consistent, WorkerAgrees, TypeOK
      <3>2. attempt[q].status = "succeeded" /\ order[q] # "none"
        BY <3>1 DEF ProviderAgrees, Unsendable, RowsAgree, Terminal, Released
      <3> DEFINE base == Unleased(attempt[q])
                 row == [base EXCEPT !.status = "succeeded"]
      <3>3. /\ attempt' = [attempt EXCEPT ![q] = row]
            /\ UNCHANGED <<order, hold>>
        BY <2>1, <2>3, <3>2 DEF PlacePaidOnlineOrder, PaidTooLate
      <3>4. row.status = "succeeded"
        BY <3>1, UnleasedRow DEF AttemptRows
      <3> HIDE DEF row
      <3>. QED
        BY <3>2, <3>3, <3>4, OtherKept DEF Kept
    <2>. QED
      BY <2>2, <2>3
  <1>. QED
    BY <1>3, <1>4, <1>5, <1>6, <1>7, <1>8, <1>9, <1>10, <1>11, <1>12, <1>13,
       <1>14 DEF Work

LEMMA WorkingKeeps ==
    ASSUME Consistent, NEW q \in Quotes, attempt[q].status \in Terminal,
           Working
    PROVE  Kept(q)
  <1>1. ASSUME NEW w \in Workers, NEW x \in Quotes, NEW force \in BOOLEAN,
               ProcessOnlineAttempt(w, x, force)
        PROVE  Kept(q)
    <2> DEFINE row == [attempt[x] EXCEPT !.lease = w, !.leaseOld = FALSE]
    <2>1. x # q
      BY <1>1 DEF ProcessOnlineAttempt, IsActive, Active, Terminal, Released
    <2>2. attempt' = [attempt EXCEPT ![x] = row]
      BY <1>1 DEF ProcessOnlineAttempt, Consistent, TypeOK
    <2> HIDE DEF row
    <2>. QED
      BY <1>1, <2>1, <2>2, OtherKept DEF ProcessOnlineAttempt, Kept, stockVars
  <1>2. ASSUME NEW w \in Workers
        PROVE  /\ ProviderFails(w) => Kept(q)
               /\ Crash(w) => Kept(q)
    BY DEF ProviderFails, Crash, Kept, StatusKept, stockVars
  <1>. QED
    BY <1>1, <1>2, WorkKeeps DEF Working

LEMMA TimeKeeps ==
    ASSUME Consistent, NEW q \in Quotes, attempt[q].status \in Terminal,
           Time
    PROVE  Kept(q)
  <1>1. ASSUME NEW x \in Quotes, LeaseExpires(x)
        PROVE  Kept(q)
    <2> DEFINE row == [attempt[x] EXCEPT !.leaseOld = TRUE]
    <2>1. attempt' = [attempt EXCEPT ![x] = row]
      BY <1>1 DEF LeaseExpires
    <2>2. row.status = attempt[x].status
      BY <1>1 DEF Consistent, TypeOK, AttemptRows
    <2> HIDE DEF row
    <2>. QED
      BY <1>1, <2>1, <2>2, OtherKept DEF LeaseExpires, Kept, stockVars
  <1>2. ASSUME NEW x \in Quotes, RetryComesDue(x)
        PROVE  Kept(q)
    <2> DEFINE row == [attempt[x] EXCEPT !.due = TRUE]
    <2>1. attempt' = [attempt EXCEPT ![x] = row]
      BY <1>2 DEF RetryComesDue
    <2>2. x # q
      BY <1>2 DEF RetryComesDue, IsActive, Active, Terminal, Released
    <2> HIDE DEF row
    <2>. QED
      BY <1>2, <2>1, <2>2, OtherKept DEF RetryComesDue, Kept, stockVars
  <1>3. ASSUME NEW x \in Quotes, DispatchAges(x)
        PROVE  Kept(q)
    <2> DEFINE row == [attempt[x] EXCEPT !.dispatched = "old"]
    <2>1. attempt' = [attempt EXCEPT ![x] = row]
      BY <1>3 DEF DispatchAges
    <2>2. x # q
      BY <1>3 DEF DispatchAges, IsActive, Active, Terminal, Released
    <2> HIDE DEF row
    <2>. QED
      BY <1>3, <2>1, <2>2, OtherKept DEF DispatchAges, Kept, stockVars
  <1>4. ASSUME NEW x \in Quotes
        PROVE  /\ QuoteExpires(x) => Kept(q)
               /\ KeyForgotten(x) => Kept(q)
               /\ \A i \in Sessions : SessionTimesOut(x, i) => Kept(q)
    BY DEF QuoteExpires, KeyForgotten, SessionTimesOut, Kept, StatusKept,
           stockVars
  <1>. QED
    BY <1>1, <1>2, <1>3, <1>4 DEF Time

\* A finished attempt stays as it ended, whoever touches it afterwards.
THEOREM Finality == Spec => OutcomeIsFinal
  <1>1. Consistent /\ [Next]_vars =>
            [\A q \in Quotes : attempt[q].status \in Terminal =>
                /\ attempt'[q].status = attempt[q].status
                /\ hold'[q] = hold[q]
                /\ order'[q] = order[q]]_vars
    <2>1. SUFFICES ASSUME Consistent, Next, NEW q \in Quotes,
                          attempt[q].status \in Terminal
                   PROVE  Kept(q)
      BY DEF Kept, StatusKept
    <2>2. CASE Merchant
      BY <2>2 DEF Merchant, SetOnHand, ChangeOffer, Kept, StatusKept, stockVars
    <2>. QED
      BY <2>1, <2>2, ShoppingKeeps, WorkingKeeps, TimeKeeps DEF Next
  <1>. QED
    BY <1>1, Consistency, PTL DEF Spec, OutcomeIsFinal

=============================================================================
