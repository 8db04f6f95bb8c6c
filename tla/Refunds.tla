------------------------------- MODULE Refunds ------------------------------
(***************************************************************************)
(* Refunds of online orders: the work on refund operations under a lease,  *)
(* refunds and disputes made at Stripe behind the Store's back, and the    *)
(* Connect events that tell of them.  It adds to Orders the provider, the  *)
(* workers and the handlers of OrdersRepository that run without a caller. *)
(*                                                                         *)
(* A transaction is one action and a call to Stripe is one action; between *)
(* them a worker keeps what it read.  The payment of a placed order was    *)
(* verified when it was placed and its amount never changes at Stripe, so  *)
(* the comparisons of amounts and currencies are not modelled.             *)
(***************************************************************************)
EXTENDS Orders

CONSTANTS
    RefundMaxAttempts,   \* failures after which a person is asked (10)
    MaxVersion,          \* bound: no dispute is raised from this version on
    MaxMishaps           \* bound: crashes, and leases lost by a live worker

ASSUME RefundsAssumption ==
    /\ RefundMaxAttempts \in Nat \ {0}
    /\ MaxGenerations >= 1 /\ Orders # {}
    /\ {MaxVersion, MaxMishaps} \subseteq Nat

VARIABLES
    refund,    \* Stripe: the refunds the Store's code made for each order
    keyed,     \* Stripe: the refund the key of each operation answers with
    external,  \* Stripe: what was refunded by hand, per order
    worker,    \* what each worker is doing
    mishaps    \* crashes and lost leases so far

providerVars == <<refund, keyed, external>>
vars == <<orderVars, providerVars, worker, mishaps>>

-----------------------------------------------------------------------------
(* Stripe and the workers *)

Generations == 1..MaxGenerations

RefundRows == [generation : Generations,
               status : {"pending", "succeeded", "failed"}]

\* The steps a worker can stand before.
Steps == {"idle", "retrieve", "charge", "settle", "close", "refuse",
          "dispatch", "create", "apply", "failed"}

\* gen: the operation worked on, 0 for a Connect event; seen: the row the
\* claim returned; ended: the order was cancelled or returned when read;
\* amount: refunded of the charge; got, answer: a refund and its status.
WorkerStates ==
    [step : Steps, on : Orders, gen : {0} \cup Generations,
     seen : OperationRows, ended : BOOLEAN, amount : 0..Full, got : Nat,
     answer : {"none", "pending", "succeeded", "failed"}]

AnyOrder == CHOOSE o \in Orders : TRUE

Idle == [step |-> "idle", on |-> AnyOrder, gen |-> 0, seen |-> NewOperation,
         ended |-> FALSE, amount |-> 0, got |-> 0, answer |-> "none"]

TypeOK ==
    /\ OrdersTypeOK
    /\ refund \in [Orders -> Seq(RefundRows)]
    /\ keyed \in [Orders -> [Generations -> Nat]]
    /\ external \in [Orders -> 0..Full]
    /\ worker \in [Workers -> WorkerStates]
    /\ mishaps \in Nat

Init ==
    /\ OrdersInit
    /\ refund = [o \in Orders |-> <<>>]
    /\ keyed = [o \in Orders |-> [g \in Generations |-> 0]]
    /\ external = [o \in Orders |-> 0]
    /\ worker = [w \in Workers |-> Idle]
    /\ mishaps = 0

Paying == {o \in Orders : order[o].status # "none" /\ order[o].method = "online"}

WithStatus(o, statuses) ==
    {i \in 1..Len(refund[o]) : refund[o][i].status \in statuses}

\* amount_refunded of the charge, and what no other refund can take.
Refunded(o) == external[o] + Full * Cardinality(WithStatus(o, {"succeeded"}))
Committed(o) ==
    external[o] + Full * Cardinality(WithStatus(o, {"pending", "succeeded"}))

Proceed(w, step) == worker' = [worker EXCEPT ![w].step = step]

Done(w) == worker' = [worker EXCEPT ![w] = Idle]

Row(w) == operation[worker[w].on][worker[w].gen]

Holds(w) == worker[w].gen # 0 /\ Row(w).lease = w

Unleased(row) == [row EXCEPT !.lease = NoWorker, !.leaseOld = FALSE]

Update(w, row) ==
    operation' = [operation EXCEPT ![worker[w].on][worker[w].gen] = row]

\* An UPDATE of the operation that finds it only under this worker's lease.
UpdateLeased(w, row) ==
    IF Holds(w) THEN Update(w, row) ELSE UNCHANGED operation

KeepOrders == UNCHANGED <<order, holdVars, stockVars, requestVars, intent>>

-----------------------------------------------------------------------------
(* Claims *)

\* processRefund: by the minute's sweep, the outbox dispatcher, a Connect
\* event that names the refund, or an operator.
ClaimRefund(w, o, g) ==
    LET row == operation[o][g] IN
    /\ worker[w].step = "idle"
    /\ row.status = "pending"
    /\ row.lease = NoWorker \/ row.leaseOld
    /\ operation' = [operation EXCEPT
           ![o][g] = [row EXCEPT !.lease = w, !.leaseOld = FALSE]]
    /\ worker' = [worker EXCEPT ![w] =
           [Idle EXCEPT !.step = IF row.id # 0 THEN "retrieve" ELSE "charge",
                        !.on = o, !.gen = g, !.seen = operation'[o][g],
                        !.ended = order[o].status \in Ended]]
    /\ KeepOrders /\ UNCHANGED <<providerVars, mishaps>>

\* A Connect event about a refund no operation knows: it only makes the
\* handler look at the charge.  Events come late, twice and in any order.
ProcessPurchaseEvent(w, o) ==
    /\ worker[w].step = "idle"
    /\ o \in Paying
    /\ external[o] > 0 \/ refund[o] # <<>>
    /\ worker' = [worker EXCEPT ![w] =
           [Idle EXCEPT !.step = "charge", !.on = o,
                        !.ended = order[o].status \in Ended]]
    /\ KeepOrders /\ UNCHANGED <<operation, providerVars, mishaps>>

-----------------------------------------------------------------------------
(* The truth of the charge *)

NeverStale(w) == FALSE   \* slip: the 23 hours are not checked

WindowOver(w) == worker[w].seen.dispatched # "no" /\ Row(w).dispatched = "old"

\* reconcileRefundedCharge retrieves the charge: nothing refunded lets a
\* refund go on and ends an event, anything else is written to the order.
RetrieveCharge(w) ==
    LET o == worker[w].on IN
    /\ worker[w].step = "charge"
    /\ CASE Refunded(o) > 0 ->
              worker' = [worker EXCEPT ![w] = [@ EXCEPT
                            !.step = "settle", !.amount = Refunded(o)]]
         [] Refunded(o) = 0 /\ worker[w].gen = 0 -> Done(w)
         [] OTHER ->
              Proceed(w, IF WindowOver(w) THEN "refuse" ELSE "dispatch")
    /\ KeepOrders /\ UNCHANGED <<operation, providerVars, mishaps>>

\* Slip: a refund of the whole charge clears the review, open order or not.
ReviewPartialOnly(w) == worker[w].amount # Full

\* A refund of part of the charge, or of an order that still goes on, is for
\* a person to look at.
NeedsReview(w) == worker[w].amount # Full \/ ~worker[w].ended

AnnounceRefund(o) ==
    intent' = intent \cup {[type |-> "refunded", order |-> o,
                            version |-> order[o].version + 1]}

\* applyExternalPaymentTruth; no lease is checked.
ApplyExternalPaymentTruth(w) ==
    LET o    == worker[w].on
        row  == order[o]
        full == worker[w].amount = Full
        unchanged == /\ row.refunded = worker[w].amount
                     /\ row.review = NeedsReview(w)
                     /\ full => row.payment = "refunded"
    IN  /\ worker[w].step = "settle"
        /\ IF unchanged
           THEN UNCHANGED <<order, intent>>
           ELSE /\ order' = [order EXCEPT ![o] =
                       [row EXCEPT !.refunded = worker[w].amount,
                                   !.review = NeedsReview(w),
                                   !.payment = IF full THEN "refunded" ELSE @,
                                   !.version = @ + 1]]
                /\ IF full THEN AnnounceRefund(o) ELSE UNCHANGED intent
        /\ IF worker[w].gen = 0 THEN Done(w) ELSE Proceed(w, "close")
        /\ UNCHANGED <<holdVars, stockVars, requestVars, operation,
                       providerVars, mishaps>>

\* What the charge says ends the operation too.
CloseOperation(w) ==
    /\ worker[w].step = "close"
    /\ UpdateLeased(w, [Unleased(Row(w)) EXCEPT
           !.status = IF worker[w].amount = Full THEN "succeeded"
                                                 ELSE "review_required"])
    /\ Done(w)
    /\ KeepOrders /\ UNCHANGED <<providerVars, mishaps>>

\* Slip: the operation is parked and the order does not say so.
ReviewOperationOnly(w) ==
    /\ UpdateLeased(w, [Unleased(Row(w)) EXCEPT !.status = "review_required"])
    /\ UNCHANGED order

\* markRefundForReview, under the lease.
MarkRefundForReview(w) ==
    LET o == worker[w].on IN
    /\ UpdateLeased(w, [Unleased(Row(w)) EXCEPT !.status = "review_required"])
    /\ order' = IF Holds(w) /\ ~order[o].review
                THEN [order EXCEPT ![o].review = TRUE, ![o].version = @ + 1]
                ELSE order

\* Stripe may have forgotten the key the refund was requested under.
RefuseToCreate(w) ==
    /\ worker[w].step = "refuse"
    /\ MarkRefundForReview(w)
    /\ Done(w)
    /\ UNCHANGED <<holdVars, stockVars, requestVars, intent, providerVars,
                   mishaps>>

-----------------------------------------------------------------------------
(* Asking Stripe for the refund *)

\* The UPDATE before the request.  Nobody looks whether it found the row, so
\* a worker that lost its lease sends the request as well.
DispatchRefund(w) ==
    /\ worker[w].step = "dispatch"
    /\ UpdateLeased(w, [Row(w) EXCEPT
           !.dispatched = IF worker[w].seen.dispatched = "no" THEN "recent" ELSE @,
           !.tries = worker[w].seen.tries + 1])
    /\ Proceed(w, "create")
    /\ KeepOrders /\ UNCHANGED <<providerVars, mishaps>>

Got(w, i, status) ==
    worker' = [worker EXCEPT ![w] =
        [@ EXCEPT !.step = "apply", !.got = i, !.answer = status]]

\* A known key is answered with the refund it made, as it was then or is now.
\* A new refund cannot take more than is left of the charge.
CreateRefund(w, status) ==
    LET o == worker[w].on
        g == worker[w].gen
        i == keyed[o][g]
    IN  /\ worker[w].step = "create"
        /\ CASE i # 0 ->
                  /\ status \in {"pending", refund[o][i].status}
                  /\ Got(w, i, status)
                  /\ UNCHANGED <<refund, keyed>>
             [] i = 0 /\ Committed(o) > 0 ->
                  Proceed(w, "failed") /\ UNCHANGED <<refund, keyed>>
             [] OTHER ->
                  /\ refund' = [refund EXCEPT ![o] = Append(@,
                         [generation |-> g, status |-> status])]
                  /\ keyed' = [keyed EXCEPT ![o][g] = Len(refund[o]) + 1]
                  /\ Got(w, Len(refund[o]) + 1, status)
        /\ KeepOrders /\ UNCHANGED <<operation, external, mishaps>>

RetrieveRefund(w) ==
    LET o == worker[w].on
        i == worker[w].seen.id
    IN  /\ worker[w].step = "retrieve"
        /\ Got(w, i, refund[o][i].status)
        /\ KeepOrders /\ UNCHANGED <<operation, providerVars, mishaps>>

\* applyProviderRefund, the refund succeeded: order and operation together.
ApplySucceeded(w) ==
    LET o == worker[w].on IN
    /\ worker[w].step = "apply" /\ worker[w].answer = "succeeded"
    /\ IF Holds(w)
       THEN /\ order' = [order EXCEPT ![o] =
                   [order[o] EXCEPT !.payment = "refunded", !.refunded = Full,
                                    !.version = @ + 1]]
            /\ Update(w, [Unleased(Row(w)) EXCEPT !.status = "succeeded",
                                                  !.id = worker[w].got])
            /\ AnnounceRefund(o)
       ELSE UNCHANGED <<order, operation, intent>>
    /\ Done(w)
    /\ UNCHANGED <<holdVars, stockVars, requestVars, providerVars, mishaps>>

\* markRefundFailed.
ApplyFailed(w) ==
    LET o == worker[w].on IN
    /\ worker[w].step = "apply" /\ worker[w].answer = "failed"
    /\ IF Holds(w)
       THEN /\ order' = [order EXCEPT ![o] =
                   [order[o] EXCEPT !.payment = "refund_failed",
                                    !.version = @ + 1]]
            /\ Update(w, [Unleased(Row(w)) EXCEPT !.status = "failed",
                                                  !.id = worker[w].got])
       ELSE UNCHANGED <<order, operation>>
    /\ Done(w)
    /\ UNCHANGED <<holdVars, stockVars, requestVars, intent, providerVars,
                   mishaps>>

\* Not decided yet: remember the refund and look again in a minute.
ApplyPending(w) ==
    /\ worker[w].step = "apply" /\ worker[w].answer = "pending"
    /\ UpdateLeased(w, [Unleased(Row(w)) EXCEPT !.id = worker[w].got])
    /\ Done(w)
    /\ KeepOrders /\ UNCHANGED <<providerVars, mishaps>>

\* Slip: failures are not counted.
UncountedFailure(w) == worker[w].seen.tries

FailedAttempts(w) == worker[w].seen.tries + 1

\* recordRefundFailure: counted from the copy the claim returned.
RecordRefundFailure(w) ==
    /\ worker[w].step = "failed"
    /\ IF FailedAttempts(w) >= RefundMaxAttempts
       THEN MarkRefundForReview(w)
       ELSE /\ UpdateLeased(w, [Unleased(Row(w)) EXCEPT
                                   !.tries = FailedAttempts(w)])
            /\ UNCHANGED order
    /\ Done(w)
    /\ UNCHANGED <<holdVars, stockVars, requestVars, intent, providerVars,
                   mishaps>>

-----------------------------------------------------------------------------
(* Failures, time and Stripe *)

\* A call to Stripe or a transaction throws.  An event that fails is
\* delivered again later.
ProviderFails(w) ==
    /\ worker[w].step \notin {"idle", "failed"}
    /\ IF worker[w].gen = 0 THEN Done(w) ELSE Proceed(w, "failed")
    /\ KeepOrders /\ UNCHANGED <<operation, providerVars, mishaps>>

Crash(w) ==
    /\ worker[w].step # "idle" /\ worker[w].gen # 0
    /\ mishaps < MaxMishaps
    /\ mishaps' = mishaps + 1
    /\ Done(w)
    /\ KeepOrders /\ UNCHANGED <<operation, providerVars>>

WorksOn(w, o, g) ==
    worker[w].step # "idle" /\ worker[w].on = o /\ worker[w].gen = g

\* Five minutes pass.  A live worker loses its lease only MaxMishaps times.
LeaseExpires(o, g) ==
    LET row == operation[o][g] IN
    /\ row.lease # NoWorker
    /\ ~row.leaseOld
    /\ IF WorksOn(row.lease, o, g)
       THEN mishaps < MaxMishaps /\ mishaps' = mishaps + 1
       ELSE UNCHANGED mishaps
    /\ operation' = [operation EXCEPT ![o][g].leaseOld = TRUE]
    /\ KeepOrders /\ UNCHANGED <<providerVars, worker>>

\* 23 hours after the dispatch; no execution lasts that long.
DispatchAges(o, g) ==
    /\ operation[o][g].dispatched = "recent"
    /\ \A w \in Workers : ~WorksOn(w, o, g)
    /\ operation' = [operation EXCEPT ![o][g].dispatched = "old"]
    /\ KeepOrders /\ UNCHANGED <<providerVars, worker, mishaps>>

\* Stripe drops idempotency keys some time later; a request that found the
\* window open has been sent by then.
KeyForgotten(o, g) ==
    /\ operation[o][g].dispatched = "old"
    /\ keyed[o][g] # 0
    /\ \A w \in Workers :
          WorksOn(w, o, g) => worker[w].step \notin {"dispatch", "create"}
    /\ keyed' = [keyed EXCEPT ![o][g] = 0]
    /\ KeepOrders /\ UNCHANGED <<operation, refund, external, worker, mishaps>>

RefundSettles(o, i, status) ==
    /\ refund[o][i].status = "pending"
    /\ refund' = [refund EXCEPT ![o][i].status = status]
    /\ KeepOrders /\ UNCHANGED <<operation, keyed, external, worker, mishaps>>

\* The merchant refunds in Stripe's dashboard.
RefundByHand(o, n) ==
    /\ o \in Paying
    /\ Committed(o) + n <= Full
    /\ external' = [external EXCEPT ![o] = @ + n]
    /\ KeepOrders /\ UNCHANGED <<operation, refund, keyed, worker, mishaps>>

\* markOrderReview, on a charge.dispute event.
MarkOrderReview(o) ==
    /\ o \in Paying
    /\ ~order[o].review
    /\ order[o].version < MaxVersion
    /\ order' = [order EXCEPT ![o].review = TRUE, ![o].version = @ + 1]
    /\ UNCHANGED <<holdVars, stockVars, operation, requestVars, intent,
                   providerVars, worker, mishaps>>

-----------------------------------------------------------------------------

\* The step a worker that has begun takes next.
Work(w) ==
    \/ RetrieveCharge(w) \/ ApplyExternalPaymentTruth(w) \/ CloseOperation(w)
    \/ RefuseToCreate(w) \/ DispatchRefund(w)
    \/ \E status \in {"pending", "succeeded", "failed"} : CreateRefund(w, status)
    \/ RetrieveRefund(w)
    \/ ApplySucceeded(w) \/ ApplyFailed(w) \/ ApplyPending(w)
    \/ RecordRefundFailure(w)

Working ==
    \E w \in Workers :
        \/ \E o \in Orders :
              \/ \E g \in 1..Len(operation[o]) : ClaimRefund(w, o, g)
              \/ ProcessPurchaseEvent(w, o)
        \/ Work(w) \/ ProviderFails(w) \/ Crash(w)

Time ==
    \E o \in Orders : \E g \in 1..Len(operation[o]) :
        LeaseExpires(o, g) \/ DispatchAges(o, g) \/ KeyForgotten(o, g)

Stripe ==
    \E o \in Orders :
        \/ \E i \in 1..Len(refund[o]), status \in {"succeeded", "failed"} :
              RefundSettles(o, i, status)
        \/ \E n \in 1..Full : RefundByHand(o, n)

Disputes == \E o \in Orders : MarkOrderReview(o)

Ordering == OrdersNext /\ UNCHANGED <<providerVars, worker, mishaps>>

Next == Ordering \/ Working \/ Time \/ Stripe \/ Disputes

Spec == Init /\ [][Next]_vars

-----------------------------------------------------------------------------
(* Properties *)

\* Money goes back only for orders that were cancelled or returned, and never
\* by two requests at once: an operation makes at most one refund at Stripe,
\* whatever was lost, repeated or taken over, and the next operation asks only
\* after the refund before it failed.
OneRefundAtATime ==
    \A o \in Orders :
        /\ refund[o] # <<>> => order[o].status \in Ended
        /\ \A i, j \in 1..Len(refund[o]) : i < j =>
              /\ refund[o][i].generation < refund[o][j].generation
              /\ refund[o][i].status = "failed"

\* The payment status, the last operation and Stripe tell one story: refunded
\* means all of it went back, a pending refund is being worked on or waits
\* for a person, and a failed one failed at Stripe.
PaymentTellsTheTruth ==
    \A o \in Paying :
        /\ order[o].payment = "refunded" => Refunded(o) = Full
        /\ order[o].payment = "refund_pending" =>
              order[o].review \/ Last(o).status = "pending"
        /\ order[o].payment = "refund_failed" =>
              /\ Last(o).status = "failed"
              /\ refund[o][Last(o).id].status = "failed"
        /\ \A g \in 1..Len(operation[o]) :
              operation[o][g].status = "succeeded" =>
                  order[o].payment = "refunded"

\* An order that goes on while its money has gone back, in part or in full, is
\* held for a person, so that nothing is shipped unpaid.
MoneyBackStopsTheOrder ==
    \A o \in Paying :
        order[o].refunded > 0 /\ order[o].status \notin Ended => order[o].review

\* The minute's sweep runs in a process that is restarted when it dies, code
\* that runs takes its next step, time passes, and Stripe decides on refunds.
\* Nothing is assumed of callers, events or the success of any call.  The sweep
\* does not wait for event handlers: that Workers are few is the model's bound,
\* so a claim that is possible again and again is made (SF).
Fairness ==
    /\ \A w \in Workers : WF_vars(Work(w))
    /\ \A o \in Orders :
          /\ \A g \in Generations :
                /\ SF_vars(\E w \in Workers :
                       g <= Len(operation[o]) /\ ClaimRefund(w, o, g))
                /\ WF_vars(g <= Len(operation[o]) /\ LeaseExpires(o, g))
          /\ \A i \in Generations :
                WF_vars(\E status \in {"succeeded", "failed"} :
                    i <= Len(refund[o]) /\ RefundSettles(o, i, status))

FairSpec == Spec /\ Fairness

Pending(o) == operation[o] # <<>> /\ Last(o).status = "pending"

\* Every refund that was asked for ends: succeeded, failed for good, or in the
\* hands of a person, through crashes, lost leases and failing calls.
EveryRefundEnds == \A o \in Orders : Pending(o) ~> ~Pending(o)

\* README of notifications: "Stable source keys and lifetime milestones prevent
\* duplicates."  A customer is told once that an order was refunded.
RefundAnnouncedOnce ==
    \A a, b \in intent :
        a.type = "refunded" /\ b.type = "refunded" /\ a.order = b.order => a = b

\* Comment at processPurchaseEvent: "Connect events are hints only; provider
\* retrieval remains authoritative."  What Stripe said of a full refund is
\* never overwritten by something retrieved before it.
FullRefundStands ==
    [][\A o \in Orders :
          order[o].payment = "refunded" /\ Refunded(o) = Full =>
              /\ order'[o].payment = "refunded"
              /\ order'[o].refunded >= order[o].refunded]_vars

=============================================================================
