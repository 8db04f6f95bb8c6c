-------------------------------- MODULE Plans -------------------------------
(***************************************************************************)
(* A plan of the platform and its provisioning at Stripe (modules/plans,   *)
(* infrastructure/queue/plan-provisioning): the outbox row written with    *)
(* the plan, the job that creates product and prices, the reconciler that  *)
(* starts lost jobs again, and prices that are added and withdrawn later.  *)
(* PlanPrices are those of one currency and interval; price 1 comes with   *)
(* the plan.  The version of a plan is never changed by the code.          *)
(***************************************************************************)
EXTENDS Outbox

CONSTANTS PlanPrices,            \* plan_prices in the order of creation: 1..n
          Amounts,
          Provisioners, NoProvisioner,
          Sellers,               \* administrators adding a price
          JobMaxAttempts,        \* 8
          MaxPlanFaults          \* crashes, stalled jobs, failing calls

ASSUME PlansAssumption == JobMaxAttempts \in Nat \ {0}

VARIABLES plan,           \* plans
          planIntent,     \* its outbox row, and what the dispatcher did
          provisionJob,   \* the BullMQ job of the plan
          provisioner,    \* what each worker is doing
          prices,         \* plan_prices
          seller,         \* what each addition of a price is doing
          catalog,        \* Stripe: the product, and whether it is on sale
          planFaults

planVars == <<plan, planIntent, provisionJob, provisioner, prices, seller,
              catalog, planFaults>>

NoPrice == [row |-> "none", amount |-> 0, active |-> FALSE]
NotSelling == [at |-> "idle", price |-> 0]

PlansInit ==
    /\ plan = [status |-> "none", product |-> 0, active |-> FALSE, stale |-> FALSE]
    /\ planIntent = [row |-> NoIntent, at |-> "no"]
    /\ provisionJob = [state |-> "none", tries |-> 0, owner |-> NoProvisioner]
    /\ provisioner = [w \in Provisioners |-> "idle"]
    /\ prices = [p \in PlanPrices |-> NoPrice]
    /\ seller = [s \in Sellers |-> NotSelling]
    /\ catalog = [product |-> 0, onSale |-> FALSE]
    /\ planFaults = 0

PlanFault == planFaults < MaxPlanFaults /\ planFaults' = planFaults + 1

PlanIs(status) == [plan EXCEPT !.status = status, !.active = FALSE, !.stale = FALSE]

-----------------------------------------------------------------------------
(* Creation, the outbox and the job *)

CreatePendingWithPrices(amount) ==
    /\ plan.status = "none"
    /\ plan' = PlanIs("pending")
    /\ prices' = [prices EXCEPT ![1] =
            [row |-> "pending", amount |-> amount, active |-> FALSE]]
    /\ planIntent' = [planIntent EXCEPT !.row = Write(@)]
    /\ UNCHANGED <<provisionJob, provisioner, seller, catalog, planFaults>>

OnlyIntent ==
    UNCHANGED <<plan, provisioner, prices, seller, catalog>>

\* A job id that exists, in whatever state, is not added again.
AddedJob == IF provisionJob.state = "none"
            THEN [provisionJob EXCEPT !.state = "waiting"] ELSE provisionJob

DispatchPending ==
    \/ /\ planIntent.at = "no" /\ Claimable(planIntent.row)
       /\ planIntent' = [row |-> Claim(planIntent.row), at |-> "claimed"]
       /\ UNCHANGED <<provisionJob, planFaults>> /\ OnlyIntent
    \/ /\ planIntent.at = "claimed"
       /\ \/ /\ provisionJob' = AddedJob
             /\ planIntent' = [planIntent EXCEPT !.at = "queued"]
             /\ UNCHANGED planFaults
          \/ /\ planIntent' = [row |-> RescheduleIntent(planIntent.row), at |-> "no"]
             /\ PlanFault /\ UNCHANGED provisionJob
       /\ OnlyIntent
    \/ /\ planIntent.at = "queued"
       /\ planIntent' = [row |-> MarkPublished(planIntent.row), at |-> "no"]
       /\ UNCHANGED <<provisionJob, planFaults>> /\ OnlyIntent

PlanDispatcherDies ==
    /\ planIntent.at # "no" /\ PlanFault
    /\ planIntent' = [planIntent EXCEPT !.at = "no"]
    /\ UNCHANGED provisionJob /\ OnlyIntent

RetriedJob ==
    IF provisionJob.state \in {"failed", "completed"}
    THEN [state |-> "waiting", tries |-> 0, owner |-> NoProvisioner]
    ELSE AddedJob

ProvisioningRecoveryCandidate ==
    plan.status \in {"pending", "processing"} /\ plan.stale

Reconcile ==
    /\ ProvisioningRecoveryCandidate /\ RetriedJob # provisionJob
    /\ provisionJob' = RetriedJob
    /\ UNCHANGED <<planIntent, planFaults>> /\ OnlyIntent

\* The request of an administrator may die between the row and the job.
RetryProvisioning ==
    /\ plan.status \notin {"none", "ready"}
    /\ PlanFault
    /\ plan' = PlanIs("pending")
    /\ provisionJob' \in {RetriedJob, provisionJob}
    /\ UNCHANGED <<planIntent, provisioner, prices, seller, catalog>>

PlanAges ==
    /\ plan.status \in {"pending", "processing"} /\ ~plan.stale
    /\ plan' = [plan EXCEPT !.stale = TRUE]
    /\ UNCHANGED <<planIntent, provisionJob, provisioner, prices, seller,
                   catalog, planFaults>>

IntentWakesUp ==
    /\ Asleep(planIntent.row)
    /\ planIntent' = [planIntent EXCEPT !.row = Wake(@)]
    /\ UNCHANGED <<provisionJob, planFaults>> /\ OnlyIntent

-----------------------------------------------------------------------------
(* The worker *)

OnlyWorker == UNCHANGED <<planIntent, seller>>

\* BullMQ ends the job of a worker that still holds its lock.
JobEnds(w, state) ==
    provisionJob' = IF provisionJob.owner # w THEN provisionJob
                    ELSE [provisionJob EXCEPT !.state = state,
                                              !.owner = NoProvisioner]

FindForProvisioning(w) ==
    /\ provisioner[w] = "idle" /\ provisionJob.state = "waiting"
    /\ provisionJob' = IF plan.status = "ready"
                       THEN [provisionJob EXCEPT !.state = "completed"]
                       ELSE [state |-> "active", tries |-> provisionJob.tries + 1,
                             owner |-> w]
    /\ provisioner' = [provisioner EXCEPT ![w] =
            IF plan.status = "ready" THEN "idle" ELSE "loaded"]
    /\ UNCHANGED <<plan, prices, catalog, planFaults>> /\ OnlyWorker

MarkProvisioningProcessing(w) ==
    /\ provisioner[w] = "loaded"
    /\ IF plan.status # "ready"
       THEN /\ plan' = [plan EXCEPT !.status = "processing", !.stale = FALSE]
            /\ provisioner' = [provisioner EXCEPT ![w] = "claimed"]
            /\ UNCHANGED provisionJob
       ELSE /\ provisioner' = [provisioner EXCEPT ![w] = "idle"]
            /\ JobEnds(w, "completed") /\ UNCHANGED plan
    /\ UNCHANGED <<prices, catalog, planFaults>> /\ OnlyWorker

\* Product, then prices, each under a key of the plan: a repetition finds them.
CreateProductWithPrices(w) ==
    /\ provisioner[w] = "claimed"
    /\ \/ /\ provisioner' = [provisioner EXCEPT ![w] = "created"]
          /\ catalog' = [catalog EXCEPT !.product = 1]
          /\ UNCHANGED planFaults
       \/ /\ provisioner' = [provisioner EXCEPT ![w] = "failed"] /\ PlanFault
          /\ \/ catalog' = [catalog EXCEPT !.product = 1]
             \/ UNCHANGED catalog
    /\ UNCHANGED <<plan, prices, provisionJob>> /\ OnlyWorker

CompleteProvisioning(w) ==
    /\ provisioner[w] = "created"
    /\ IF plan.status = "processing"
       THEN /\ plan' = [PlanIs("ready") EXCEPT !.product = catalog.product]
            /\ prices' = [prices EXCEPT ![1] =
                    [@ EXCEPT !.row = "provisioned", !.active = TRUE]]
            /\ provisioner' = [provisioner EXCEPT ![w] = "idle"]
            /\ JobEnds(w, "completed")
       ELSE /\ provisioner' = [provisioner EXCEPT ![w] = "failed"]
            /\ UNCHANGED <<plan, prices, provisionJob>>
    /\ UNCHANGED <<catalog, planFaults>> /\ OnlyWorker

NotReady == plan.status # "ready"

\* recordFailure may fail itself; the job is tried again or fails for good.
RecordFailure(w) ==
    /\ provisioner[w] = "failed"
    /\ \/ /\ plan' = IF NotReady THEN PlanIs("failed") ELSE plan
          /\ UNCHANGED planFaults
       \/ UNCHANGED plan /\ PlanFault
    /\ JobEnds(w, IF provisionJob.tries >= JobMaxAttempts THEN "failed"
                  ELSE "waiting")
    /\ provisioner' = [provisioner EXCEPT ![w] = "idle"]
    /\ UNCHANGED <<prices, catalog>> /\ OnlyWorker

\* A worker dies, or loses the lock of its job and goes on.
WorkerStalls(w) ==
    /\ provisioner[w] # "idle" /\ PlanFault
    /\ \E state \in {"waiting", "failed"} : JobEnds(w, state)
    /\ \/ provisioner' = [provisioner EXCEPT ![w] = "idle"]
       \/ provisionJob.owner = w /\ UNCHANGED provisioner
    /\ UNCHANGED <<plan, prices, catalog>> /\ OnlyWorker

-----------------------------------------------------------------------------
(* Prices and sale of a ready plan *)

OnlySale == UNCHANGED <<planIntent, provisionJob, provisioner, planFaults>>

\* Slip: what another request left pending is ignored.
NonePending == {}

PendingPrices == {p \in PlanPrices : prices[p].row = "pending"}

\* Under the lock of the plan: the pending price is shared, if it is the same.
CreateOrFindPendingPrice(s, amount) ==
    /\ seller[s].at = "idle" /\ plan.status = "ready"
    /\ \A p \in PlanPrices : ~prices[p].active
    /\ \/ \E p \in PendingPrices :
             /\ prices[p].amount = amount
             /\ seller' = [seller EXCEPT ![s] = [at |-> "priced", price |-> p]]
             /\ UNCHANGED prices
       \/ \E p \in PlanPrices :
             /\ PendingPrices = {} /\ prices[p].row = "none"
             /\ \A o \in PlanPrices : o < p => prices[o].row # "none"
             /\ prices' = [prices EXCEPT ![p] =
                    [row |-> "pending", amount |-> amount, active |-> FALSE]]
             /\ seller' = [seller EXCEPT ![s] = [at |-> "priced", price |-> p]]
    /\ UNCHANGED <<plan, catalog>> /\ OnlySale

\* The price was made at Stripe; the row is written if it is still pending.
ActivatePendingPrice(s) ==
    LET p == seller[s].price IN
    /\ seller[s].at = "priced"
    /\ prices' = [prices EXCEPT ![p] =
            IF @.row = "pending" /\ ~@.active
            THEN [@ EXCEPT !.row = "provisioned", !.active = TRUE] ELSE @]
    /\ seller' = [seller EXCEPT ![s] = NotSelling]
    /\ UNCHANGED <<plan, catalog>> /\ OnlySale

\* The call to Stripe failed, or the request died.
PriceFails(s) ==
    /\ seller[s].at = "priced" /\ PlanFault
    /\ seller' = [seller EXCEPT ![s] = NotSelling]
    /\ UNCHANGED <<plan, planIntent, provisionJob, provisioner, prices, catalog>>

DeactivatePrice(p) ==
    /\ prices[p].row = "provisioned" /\ prices[p].active
    /\ prices' = [prices EXCEPT ![p].active = FALSE]
    /\ UNCHANGED <<plan, seller, catalog>> /\ OnlySale

\* Stripe first, then the row, which looks at the prices again.
ActivatePlan ==
    /\ plan.status = "ready" /\ ~plan.active
    /\ \E p \in PlanPrices : prices[p].active
    /\ catalog' = [catalog EXCEPT !.onSale = TRUE]
    /\ plan' \in {[plan EXCEPT !.active = TRUE], plan}
    /\ UNCHANGED <<prices, seller>> /\ OnlySale

DeactivatePlan ==
    /\ plan.status = "ready" /\ plan.active
    /\ plan' = [plan EXCEPT !.active = FALSE]
    /\ catalog' \in {[catalog EXCEPT !.onSale = FALSE], catalog}
    /\ UNCHANGED <<prices, seller>> /\ OnlySale

-----------------------------------------------------------------------------
ProvisionStep(w) ==
    \/ FindForProvisioning(w) \/ MarkProvisioningProcessing(w)
    \/ CreateProductWithPrices(w) \/ CompleteProvisioning(w) \/ RecordFailure(w)

PlanClock == PlanAges \/ IntentWakesUp

PlansNext ==
    \/ \E amount \in Amounts : CreatePendingWithPrices(amount)
    \/ DispatchPending \/ PlanDispatcherDies \/ Reconcile \/ RetryProvisioning
    \/ PlanClock \/ ActivatePlan \/ DeactivatePlan
    \/ \E w \in Provisioners : ProvisionStep(w) \/ WorkerStalls(w)
    \/ \E s \in Sellers :
          \/ \E amount \in Amounts : CreateOrFindPendingPrice(s, amount)
          \/ ActivatePendingPrice(s) \/ PriceFails(s)
    \/ \E p \in PlanPrices : DeactivatePrice(p)

PlansSpec == PlansInit /\ [][PlansNext]_planVars

-----------------------------------------------------------------------------
(* Properties *)

\* What is offered can be bought: an active plan is provisioned, an active
\* price is known to Stripe, and requests that add prices at the same time
\* never leave two of one currency and interval on offer.
OfferIsProvisioned ==
    /\ plan.status = "ready" => plan.product = catalog.product /\ plan.product # 0
    /\ plan.active => plan.status = "ready"
    /\ \A p \in PlanPrices : prices[p].active => prices[p].row = "provisioned"
    /\ Cardinality({p \in PlanPrices : prices[p].active}) <= 1

\* A provisioned plan stays so, whichever worker that lost its job still fails.
ReadyStaysReady ==
    [][plan.status = "ready" => plan'.status = "ready"]_plan

\* Every plan is provisioned, or marked failed for a person: so it is in the end,
\* also when its outbox row is given up, its job lost or its worker dead.
EveryPlanHasSettled == plan.status \in {"none", "ready", "failed"}

=============================================================================
