--------------------------- MODULE BackgroundProofs ---------------------------
(***************************************************************************)
(* Proofs about the work behind the requests that concerns money: the      *)
(* connected account of a store and the inbox of its events, the           *)
(* subscription of a store, and the plans it can subscribe to.  Each part  *)
(* has an inductive invariant of its own and shares no state with another. *)
(***************************************************************************)
EXTENDS Background, FiniteSetTheorems, TLAPS

\* A set in which any two elements are equal has at most one.
LEMMA OneAtMost ==
    ASSUME NEW S, \A a, b \in S : a = b
    PROVE  IsFiniteSet(S) /\ Cardinality(S) <= 1
  <1>1. CASE S = {}
    BY <1>1, FS_EmptySet
  <1>2. CASE S # {}
    <2>1. PICK a \in S : S = {a}
      BY <1>2
    <2>2. IsFiniteSet({a}) /\ Cardinality({a}) = 1
      BY FS_Singleton
    <2>3. IsFiniteSet(S) /\ Cardinality(S) = 1
      BY <2>1, <2>2
    <2>. QED
      BY <2>3
  <1>. QED
    BY <1>1, <1>2

\* And a set with at most one element has no two.
LEMMA NoTwo ==
    ASSUME NEW S, IsFiniteSet(S), Cardinality(S) <= 1
    PROVE  \A a, b \in S : a = b
  <1> SUFFICES ASSUME NEW a \in S, NEW b \in S, a # b
               PROVE  FALSE
    OBVIOUS
  <1>1. IsFiniteSet(S \ {a}) /\ Cardinality(S \ {a}) = Cardinality(S) - 1
    BY FS_RemoveElement
  <1>2. Cardinality(S \ {a}) \in Nat /\ Cardinality(S) \in Nat
    BY <1>1, FS_CardinalityType
  <1>3. Cardinality(S \ {a}) = 0
    BY <1>1, <1>2
  <1>. QED
    BY <1>1, <1>3, FS_EmptySet

(***************************************************************************)
(* Plans                                                                   *)
(***************************************************************************)
PlanRows ==
    [status : {"none", "pending", "processing", "ready", "failed"}, product : {0, 1},
     active : BOOLEAN, stale : BOOLEAN]

PriceRows ==
    [row : {"none", "pending", "provisioned"}, amount : Amounts \cup {0}, active : BOOLEAN]

CatalogRows == [product : {0, 1}, onSale : BOOLEAN]

PlanTypeOK ==
    /\ plan \in PlanRows /\ catalog \in CatalogRows
    /\ prices \in [PlanPrices -> PriceRows]
    /\ seller \in [Sellers -> [at : {"idle", "priced"}, price : PlanPrices \cup {0}]]
    /\ provisioner \in [Provisioners -> {"idle", "loaded", "claimed", "created", "failed"}]

Ready == plan.status = "ready"

\* Before a plan is ready it has its first price, which nobody can buy, and no
\* administrator adds another.
OnlyTheFirstPrice ==
    ~Ready => /\ \A p \in PlanPrices : ~prices[p].active /\ (p # 1 => prices[p].row = "none")
              /\ \A s \in Sellers : seller[s].at = "idle"

PricesAreFew ==
    /\ \A p \in PlanPrices : prices[p].active => prices[p].row = "provisioned"
    /\ \A p, q \in PlanPrices : prices[p].active /\ prices[q].active => p = q
    /\ \A p, q \in PlanPrices : prices[p].row = "pending" /\ prices[q].row = "pending" => p = q
    /\ \A p, q \in PlanPrices : Ready /\ prices[p].row = "pending" => ~prices[q].active

PlanIsBacked ==
    /\ Ready => plan.product = catalog.product /\ plan.product = 1
    /\ plan.active => Ready
    /\ \A w \in Provisioners : provisioner[w] = "created" => catalog.product = 1

PlanAgrees == PlanTypeOK /\ OnlyTheFirstPrice /\ PricesAreFew /\ PlanIsBacked

LEMMA PlanIsType ==
    ASSUME PlanTypeOK, NEW status \in {"none", "pending", "processing", "ready", "failed"}
    PROVE  /\ PlanIs(status) \in PlanRows /\ PlanIs(status).status = status
           /\ ~PlanIs(status).active /\ PlanIs(status).product = plan.product
  BY DEF PlanIs, PlanTypeOK, PlanRows

\* A step that touches no price.
LEMMA PlanMoves ==
    ASSUME PlanAgrees, UNCHANGED <<prices, seller>>,
           plan' \in PlanRows, catalog' \in CatalogRows,
           provisioner' \in [Provisioners -> {"idle", "loaded", "claimed", "created", "failed"}],
           catalog'.product \in {catalog.product, 1},
           Ready' <=> Ready, plan'.active => Ready',
           Ready => plan'.product = plan.product,
           \A w \in Provisioners : provisioner'[w] = "created" => catalog'.product = 1
    PROVE  PlanAgrees'
  <1>1. PlanTypeOK'
    BY DEF PlanAgrees, PlanTypeOK
  <1>2. OnlyTheFirstPrice' /\ PricesAreFew'
    BY DEF PlanAgrees, OnlyTheFirstPrice, PricesAreFew
  <1>3. PlanIsBacked'
    BY DEF PlanAgrees, PlanIsBacked
  <1>. QED
    BY <1>1, <1>2, <1>3 DEF PlanAgrees

LEMMA PlanDispatchStep ==
    ASSUME PlanAgrees,
           DispatchPending \/ PlanDispatcherDies \/ Reconcile \/ IntentWakesUp
    PROVE  PlanAgrees'
  <1>1. UNCHANGED <<plan, provisioner, prices, seller, catalog>>
    BY DEF DispatchPending, PlanDispatcherDies, Reconcile, IntentWakesUp, OnlyIntent
  <1>. QED
    BY <1>1, PlanMoves DEF PlanAgrees, PlanTypeOK, PlanIsBacked, Ready

LEMMA RetryStep ==
    ASSUME PlanAgrees, RetryProvisioning
    PROVE  PlanAgrees'
  <1>1. plan' = PlanIs("pending") /\ ~Ready /\ UNCHANGED <<provisioner, prices, seller, catalog>>
    BY DEF RetryProvisioning, Ready
  <1>2. PlanTypeOK
    BY DEF PlanAgrees
  <1>3. plan' \in PlanRows /\ ~plan'.active /\ plan'.status # "ready"
    BY <1>1, <1>2, PlanIsType
  <1>. QED
    BY <1>1, <1>3, PlanMoves DEF PlanAgrees, PlanTypeOK, PlanIsBacked, Ready

LEMMA PlanAgesStep ==
    ASSUME PlanAgrees, PlanAges
    PROVE  PlanAgrees'
  <1>1. plan' \in PlanRows /\ plan'.status = plan.status /\ plan'.active = plan.active
        /\ plan'.product = plan.product
    BY DEF PlanAges, PlanAgrees, PlanTypeOK, PlanRows
  <1>2. UNCHANGED <<provisioner, prices, seller, catalog>>
    BY DEF PlanAges
  <1>. QED
    BY <1>1, <1>2, PlanMoves DEF PlanAgrees, PlanTypeOK, PlanIsBacked, Ready

LEMMA SaleStep ==
    ASSUME PlanAgrees, ActivatePlan \/ DeactivatePlan
    PROVE  PlanAgrees'
  <1>1. Ready /\ UNCHANGED <<provisioner, prices, seller>>
    BY DEF ActivatePlan, DeactivatePlan, OnlySale, Ready
  <1>2. plan' \in PlanRows /\ plan'.status = plan.status /\ plan'.product = plan.product
    BY DEF ActivatePlan, DeactivatePlan, PlanAgrees, PlanTypeOK, PlanRows
  <1>3. catalog' \in CatalogRows /\ catalog'.product = catalog.product
    BY DEF ActivatePlan, DeactivatePlan, PlanAgrees, PlanTypeOK, CatalogRows
  <1>. QED
    BY <1>1, <1>2, <1>3, PlanMoves DEF PlanAgrees, PlanTypeOK, PlanIsBacked, Ready

LEMMA FindStep ==
    ASSUME PlanAgrees, NEW w \in Provisioners, FindForProvisioning(w) \/ WorkerStalls(w)
    PROVE  PlanAgrees'
  <1>1. UNCHANGED <<plan, prices, seller, catalog>>
    BY DEF FindForProvisioning, WorkerStalls, OnlyWorker
  <1>2. provisioner' \in {provisioner, [provisioner EXCEPT ![w] = "idle"],
                          [provisioner EXCEPT ![w] = "loaded"]}
    BY DEF FindForProvisioning, WorkerStalls
  <1>3. /\ provisioner' \in [Provisioners -> {"idle", "loaded", "claimed", "created", "failed"}]
        /\ \A v \in Provisioners : provisioner'[v] = "created" => provisioner[v] = "created"
    BY <1>2 DEF PlanAgrees, PlanTypeOK
  <1>. QED
    BY <1>1, <1>3, PlanMoves DEF PlanAgrees, PlanTypeOK, PlanIsBacked, Ready

LEMMA MarkProcessingStep ==
    ASSUME PlanAgrees, NEW w \in Provisioners, MarkProvisioningProcessing(w)
    PROVE  PlanAgrees'
  <1>1. UNCHANGED <<prices, seller, catalog>>
    BY DEF MarkProvisioningProcessing, OnlyWorker
  <1>2. /\ provisioner' \in [Provisioners -> {"idle", "loaded", "claimed", "created", "failed"}]
        /\ \A v \in Provisioners : provisioner'[v] = "created" => provisioner[v] = "created"
    BY DEF MarkProvisioningProcessing, PlanAgrees, PlanTypeOK
  <1>3. CASE Ready
    BY <1>1, <1>2, <1>3, PlanMoves
       DEF PlanAgrees, PlanTypeOK, PlanIsBacked, Ready, MarkProvisioningProcessing
  <1>4. CASE ~Ready
    <2>1. plan' \in PlanRows /\ plan'.status = "processing" /\ plan'.active = plan.active
      BY <1>4 DEF MarkProvisioningProcessing, PlanAgrees, PlanTypeOK, PlanRows, Ready
    <2>. QED
      BY <1>1, <1>2, <1>4, <2>1, PlanMoves DEF PlanAgrees, PlanTypeOK, PlanIsBacked, Ready
  <1>. QED
    BY <1>3, <1>4

LEMMA CreateProductStep ==
    ASSUME PlanAgrees, NEW w \in Provisioners, CreateProductWithPrices(w)
    PROVE  PlanAgrees'
  <1>1. UNCHANGED <<plan, prices, seller>>
    BY DEF CreateProductWithPrices, OnlyWorker
  <1>2. catalog' \in CatalogRows /\ catalog'.product \in {catalog.product, 1}
    BY DEF CreateProductWithPrices, PlanAgrees, PlanTypeOK, CatalogRows
  <1>3. /\ provisioner' \in [Provisioners -> {"idle", "loaded", "claimed", "created", "failed"}]
        /\ \A v \in Provisioners : provisioner'[v] = "created" =>
              provisioner[v] = "created" \/ catalog'.product = 1
    BY DEF CreateProductWithPrices, PlanAgrees, PlanTypeOK, CatalogRows
  <1>. QED
    BY <1>1, <1>2, <1>3, PlanMoves DEF PlanAgrees, PlanTypeOK, PlanIsBacked, Ready

LEMMA RecordFailureStep ==
    ASSUME PlanAgrees, NEW w \in Provisioners, RecordFailure(w)
    PROVE  PlanAgrees'
  <1>1. UNCHANGED <<prices, seller, catalog>>
    BY DEF RecordFailure, OnlyWorker
  <1>2. /\ provisioner' \in [Provisioners -> {"idle", "loaded", "claimed", "created", "failed"}]
        /\ \A v \in Provisioners : provisioner'[v] = "created" => provisioner[v] = "created"
    BY DEF RecordFailure, PlanAgrees, PlanTypeOK
  <1>3. \/ plan' = plan
        \/ plan' = PlanIs("failed") /\ ~Ready
    BY DEF RecordFailure, NotReady, Ready
  <1>4. PlanTypeOK
    BY DEF PlanAgrees
  <1>5. PlanIs("failed") \in PlanRows /\ ~PlanIs("failed").active
        /\ PlanIs("failed").status # "ready"
    BY <1>4, PlanIsType
  <1>. QED
    BY <1>1, <1>2, <1>3, <1>5, PlanMoves DEF PlanAgrees, PlanTypeOK, PlanIsBacked, Ready

\* The plan is ready: its first price, and no other, can be bought.
LEMMA CompleteProvisioningStep ==
    ASSUME PlanAgrees, NEW w \in Provisioners, CompleteProvisioning(w)
    PROVE  PlanAgrees'
  <1>1. UNCHANGED <<seller, catalog>> /\ catalog.product = 1
    BY DEF CompleteProvisioning, OnlyWorker, PlanAgrees, PlanIsBacked
  <1>2. /\ provisioner' \in [Provisioners -> {"idle", "loaded", "claimed", "created", "failed"}]
        /\ \A v \in Provisioners : provisioner'[v] = "created" => provisioner[v] = "created"
    BY DEF CompleteProvisioning, PlanAgrees, PlanTypeOK
  <1>3. CASE plan.status # "processing"
    BY <1>1, <1>2, <1>3, PlanMoves
       DEF CompleteProvisioning, PlanAgrees, PlanTypeOK, PlanIsBacked, Ready
  <1>4. CASE plan.status = "processing"
    <2>1. plan' = [PlanIs("ready") EXCEPT !.product = catalog.product]
          /\ prices' = [prices EXCEPT ![1] = [@ EXCEPT !.row = "provisioned", !.active = TRUE]]
      BY <1>4 DEF CompleteProvisioning
    <2>2. PlanIs("ready") \in PlanRows /\ PlanIs("ready").status = "ready"
      BY PlanIsType DEF PlanAgrees
    <2>3. plan' \in PlanRows /\ plan'.status = "ready" /\ plan'.product = 1
      BY <1>1, <2>1, <2>2 DEF PlanRows
    <2>4. prices' \in [PlanPrices -> PriceRows]
      BY <2>1 DEF PlanAgrees, PlanTypeOK, PriceRows
    <2>5. \A p \in PlanPrices : IF p = 1 THEN prices'[p].row = "provisioned"
                                ELSE prices'[p].row = "none" /\ ~prices'[p].active
      BY <1>4, <2>1 DEF PlanAgrees, PlanTypeOK, PriceRows, OnlyTheFirstPrice, Ready
    <2>6. PlanTypeOK'
      BY <1>1, <1>2, <2>3, <2>4 DEF PlanAgrees, PlanTypeOK
    <2>7. OnlyTheFirstPrice' /\ PlanIsBacked'
      BY <1>1, <1>2, <2>3 DEF PlanAgrees, OnlyTheFirstPrice, PlanIsBacked, Ready
    <2>8. PricesAreFew'
      BY <2>5 DEF PricesAreFew
    <2>. QED
      BY <2>6, <2>7, <2>8 DEF PlanAgrees
  <1>. QED
    BY <1>3, <1>4

LEMMA CreatePlanStep ==
    ASSUME PlanAgrees, NEW amount \in Amounts, CreatePendingWithPrices(amount)
    PROVE  PlanAgrees'
  <1>1. ~Ready /\ plan' = PlanIs("pending") /\ UNCHANGED <<provisioner, seller, catalog>>
    BY DEF CreatePendingWithPrices, Ready
  <1>2. plan' \in PlanRows /\ plan'.status = "pending" /\ ~plan'.active
    BY <1>1, PlanIsType DEF PlanAgrees
  <1> DEFINE first == [row |-> "pending", amount |-> amount, active |-> FALSE]
  <1>3. first \in PriceRows /\ first.row = "pending" /\ ~first.active
    BY DEF PriceRows
  <1>4. prices' = [prices EXCEPT ![1] = first]
    BY DEF CreatePendingWithPrices
  <1> HIDE DEF first
  <1>5. prices' \in [PlanPrices -> PriceRows]
        /\ \A p \in PlanPrices : prices'[p] = IF p = 1 THEN first ELSE prices[p]
    BY <1>3, <1>4 DEF PlanAgrees, PlanTypeOK
  <1>6. PlanTypeOK'
    BY <1>1, <1>2, <1>5 DEF PlanAgrees, PlanTypeOK
  <1>7. OnlyTheFirstPrice' /\ PricesAreFew'
    BY <1>1, <1>2, <1>3, <1>5 DEF PlanAgrees, OnlyTheFirstPrice, PricesAreFew, Ready
  <1>8. PlanIsBacked'
    BY <1>1, <1>2 DEF PlanAgrees, PlanIsBacked, Ready
  <1>. QED
    BY <1>6, <1>7, <1>8 DEF PlanAgrees

\* A step of those who sell leaves the plan alone.
LEMMA PricesMove ==
    ASSUME PlanAgrees, Ready, UNCHANGED <<plan, catalog, provisioner>>,
           prices' \in [PlanPrices -> PriceRows],
           seller' \in [Sellers -> [at : {"idle", "priced"}, price : PlanPrices \cup {0}]],
           PricesAreFew'
    PROVE  PlanAgrees'
  <1>1. PlanTypeOK'
    BY DEF PlanAgrees, PlanTypeOK
  <1>2. OnlyTheFirstPrice' /\ PlanIsBacked'
    BY DEF PlanAgrees, OnlyTheFirstPrice, PlanIsBacked, Ready
  <1>. QED
    BY <1>1, <1>2 DEF PlanAgrees

LEMMA CreateOrFindStep ==
    ASSUME PlanAgrees, NEW s \in Sellers, NEW amount \in Amounts,
           CreateOrFindPendingPrice(s, amount)
    PROVE  PlanAgrees'
  <1>1. Ready /\ UNCHANGED <<plan, catalog, provisioner>>
    BY DEF CreateOrFindPendingPrice, OnlySale, Ready
  <1>2. PICK p \in PlanPrices : seller' = [seller EXCEPT ![s] = [at |-> "priced", price |-> p]]
    BY DEF CreateOrFindPendingPrice, PendingPrices
  <1>3. seller' \in [Sellers -> [at : {"idle", "priced"}, price : PlanPrices \cup {0}]]
    BY <1>2 DEF PlanAgrees, PlanTypeOK
  <1>4. CASE UNCHANGED prices
    <2>1. PricesAreFew'
      BY <1>1, <1>4 DEF PlanAgrees, PricesAreFew, Ready
    <2>. QED
      BY <1>1, <1>3, <1>4, <2>1, PricesMove DEF PlanAgrees, PlanTypeOK
  <1>5. ASSUME NEW q \in PlanPrices, PendingPrices = {},
               prices' = [prices EXCEPT ![q] =
                    [row |-> "pending", amount |-> amount, active |-> FALSE]]
        PROVE  PlanAgrees'
    <2> DEFINE new == [row |-> "pending", amount |-> amount, active |-> FALSE]
    <2>1. new \in PriceRows /\ new.row = "pending" /\ ~new.active
      BY DEF PriceRows
    <2>2. prices' = [prices EXCEPT ![q] = new]
      BY <1>5
    <2> HIDE DEF new
    <2>3. prices' \in [PlanPrices -> PriceRows]
          /\ \A x \in PlanPrices : prices'[x] = IF x = q THEN new ELSE prices[x]
      BY <2>1, <2>2 DEF PlanAgrees, PlanTypeOK
    <2>4. \A x \in PlanPrices : ~prices[x].active /\ prices[x].row # "pending"
      BY <1>5 DEF CreateOrFindPendingPrice, PendingPrices
    <2>5. PricesAreFew'
      BY <2>1, <2>3, <2>4 DEF PricesAreFew
    <2>. QED
      BY <1>1, <1>3, <2>3, <2>5, PricesMove
  <1>. QED
    BY <1>4, <1>5 DEF CreateOrFindPendingPrice

LEMMA ActivatePriceStep ==
    ASSUME PlanAgrees, NEW s \in Sellers, ActivatePendingPrice(s)
    PROVE  PlanAgrees'
  <1> DEFINE p == seller[s].price
  <1>1. UNCHANGED <<plan, catalog, provisioner>> /\ Ready
    BY DEF ActivatePendingPrice, OnlySale, PlanAgrees, OnlyTheFirstPrice
  <1>2. seller' \in [Sellers -> [at : {"idle", "priced"}, price : PlanPrices \cup {0}]]
    BY DEF ActivatePendingPrice, PlanAgrees, PlanTypeOK, NotSelling
  <1>3. prices' \in [PlanPrices -> PriceRows]
        /\ \A x \in PlanPrices : prices'[x] =
              IF x = p /\ prices[x].row = "pending" /\ ~prices[x].active
              THEN [prices[x] EXCEPT !.row = "provisioned", !.active = TRUE] ELSE prices[x]
    <2> DEFINE new == IF prices[p].row = "pending" /\ ~prices[p].active
                      THEN [prices[p] EXCEPT !.row = "provisioned", !.active = TRUE]
                      ELSE prices[p]
    <2>1. prices' = [prices EXCEPT ![p] = new]
      BY DEF ActivatePendingPrice
    <2>2. prices \in [PlanPrices -> PriceRows]
      BY DEF PlanAgrees, PlanTypeOK
    <2>3. p \in PlanPrices => new \in PriceRows
      BY <2>2 DEF PriceRows
    <2> HIDE DEF new, p
    <2>4. prices' \in [PlanPrices -> PriceRows]
          /\ \A x \in PlanPrices : prices'[x] = IF x = p THEN new ELSE prices[x]
      BY <2>1, <2>2, <2>3
    <2>. QED
      BY <2>4 DEF new
  <1> HIDE DEF p
  <1>4. \A x \in PlanPrices :
           \/ prices'[x] = prices[x]
           \/ /\ x = p /\ prices[x].row = "pending"
              /\ prices'[x].row = "provisioned" /\ prices'[x].active
    BY <1>3 DEF PlanAgrees, PlanTypeOK, PriceRows
  <1>5. PricesAreFew'
    BY <1>1, <1>4 DEF PlanAgrees, PricesAreFew, Ready
  <1>. QED
    BY <1>1, <1>2, <1>3, <1>5, PricesMove

LEMMA PriceFailsStep ==
    ASSUME PlanAgrees, NEW s \in Sellers, PriceFails(s)
    PROVE  PlanAgrees'
  <1>1. UNCHANGED <<plan, catalog, provisioner, prices>> /\ Ready
    BY DEF PriceFails, PlanAgrees, OnlyTheFirstPrice
  <1>2. seller' \in [Sellers -> [at : {"idle", "priced"}, price : PlanPrices \cup {0}]]
    BY DEF PriceFails, PlanAgrees, PlanTypeOK, NotSelling
  <1>3. PricesAreFew'
    BY <1>1 DEF PlanAgrees, PricesAreFew, Ready
  <1>. QED
    BY <1>1, <1>2, <1>3, PricesMove DEF PlanAgrees, PlanTypeOK

LEMMA DeactivatePriceStep ==
    ASSUME PlanAgrees, NEW p \in PlanPrices, DeactivatePrice(p)
    PROVE  PlanAgrees'
  <1>1. UNCHANGED <<plan, catalog, provisioner, seller>> /\ Ready
    BY DEF DeactivatePrice, OnlySale, PlanAgrees, OnlyTheFirstPrice
  <1>2. prices' \in [PlanPrices -> PriceRows]
        /\ \A x \in PlanPrices : /\ prices'[x].row = prices[x].row
                                 /\ prices'[x].active => prices[x].active
    BY DEF DeactivatePrice, PlanAgrees, PlanTypeOK, PriceRows
  <1>3. PricesAreFew'
    BY <1>1, <1>2 DEF PlanAgrees, PricesAreFew, Ready
  <1>. QED
    BY <1>1, <1>2, <1>3, PricesMove DEF PlanAgrees, PlanTypeOK

LEMMA PlansBegin ==
    ASSUME PlansInit
    PROVE  PlanAgrees
  <1>1. PlanTypeOK
    BY DEF PlansInit, PlanTypeOK, PlanRows, PriceRows, CatalogRows, NoPrice, NotSelling
  <1>2. OnlyTheFirstPrice /\ PricesAreFew /\ PlanIsBacked
    BY DEF PlansInit, OnlyTheFirstPrice, PricesAreFew, PlanIsBacked, Ready, NoPrice, NotSelling
  <1>. QED
    BY <1>1, <1>2 DEF PlanAgrees

LEMMA PlansStep ==
    ASSUME PlanAgrees, [PlansNext]_planVars
    PROVE  PlanAgrees'
  <1>1. CASE UNCHANGED planVars
    BY <1>1 DEF planVars, PlanAgrees, PlanTypeOK, OnlyTheFirstPrice, PricesAreFew, PlanIsBacked,
                Ready
  <1>2. CASE PlansNext
    BY <1>2, CreatePlanStep, PlanDispatchStep, RetryStep, PlanAgesStep, SaleStep, FindStep,
       MarkProcessingStep, CreateProductStep, CompleteProvisioningStep, RecordFailureStep,
       CreateOrFindStep, ActivatePriceStep, PriceFailsStep, DeactivatePriceStep
       DEF PlansNext, PlanClock, ProvisionStep
  <1>. QED
    BY <1>1, <1>2

\* The inductive invariant of plans: before a plan is ready it has one price
\* that nobody can buy; afterwards one price at a time is pending or on offer.
THEOREM PlansConsistency == PlansSpec => []PlanAgrees
  <1>1. PlansInit => PlanAgrees
    BY PlansBegin
  <1>2. PlanAgrees /\ [PlansNext]_planVars => PlanAgrees'
    BY PlansStep
  <1>. QED
    BY <1>1, <1>2, PTL DEF PlansSpec

\* What is offered can be bought, for any number of workers that lose their
\* job and of administrators that add prices at once.
THEOREM OffersAreProvisioned == PlansSpec => []OfferIsProvisioned
  <1>1. ASSUME PlanAgrees
        PROVE  OfferIsProvisioned
    <2>1. Cardinality({p \in PlanPrices : prices[p].active}) <= 1
      BY <1>1, OneAtMost DEF PlanAgrees, PricesAreFew
    <2>. QED
      BY <1>1, <2>1 DEF PlanAgrees, PricesAreFew, PlanIsBacked, Ready, OfferIsProvisioned
  <1>. QED
    BY <1>1, PlansConsistency, PTL

(***************************************************************************)
(* The inbox of events and the connected account                           *)
(***************************************************************************)
HandlerRows ==
    [event : Events \cup {"none"}, at : {"idle", "claimed", "retrieved", "handled", "failed"},
     saw : BOOLEAN]

\* The attempts of a receipt count the starts of its handler.
InboxAgrees ==
    /\ receipts \in [Events -> ReceiptRows]
    /\ handler \in [Handlers -> HandlerRows]
    /\ handled \in [Events -> Nat]
    /\ \A e \in Events :
          /\ receipts[e].status = "processing" <=> receipts[e].token # NoHandler
          /\ handled[e] = receipts[e].attempts

MakerRows ==
    [at : {"idle", "claimed", "dispatched", "created", "failed"}, retries : Nat, got : Nat]

StripeRows == [made : {0, 1}, key : {0, 1}, enabled : BOOLEAN, revoked : BOOLEAN]

AccountRowIsSound(row) ==
    /\ row \in AccountRows
    /\ row.status = "creating" <=> row.token # NoMaker
    /\ row.id # 0 => row.status \in {"created", "review_required"}
    /\ row.status = "created" => row.id # 0
    /\ row.ready => row.id # 0 /\ ~row.deauthorized
    /\ row.status \in {"none", "not_started", "creating"} => row.retries < CreationMaxRetries

\* A maker that holds the creation has read the retries of the row.
MakerIsSound(k, m, row) ==
    /\ m.at = "created" => m.got # 0
    /\ m.at # "idle" /\ row.status = "creating" /\ row.token = k => m.retries = row.retries

\* Stripe forgets the key only when no request under it can come any more.
KeyIsKnown ==
    /\ stripe.key # 0 => stripe.made = 1
    /\ stripe.made = 1 /\ stripe.key = 0 =>
          account.dispatched = "old" /\ \A k \in Makers : maker[k].at # "dispatched"

AccountAgrees ==
    /\ AccountRowIsSound(account)
    /\ maker \in [Makers -> MakerRows] /\ stripe \in StripeRows
    /\ KeyIsKnown
    /\ \A k \in Makers : MakerIsSound(k, maker[k], account)

ConnectAgrees == InboxAgrees /\ AccountAgrees

LEMMA InboxRests ==
    ASSUME InboxAgrees, UNCHANGED <<receipts, handled>>, handler' \in [Handlers -> HandlerRows]
    PROVE  InboxAgrees'
  BY DEF InboxAgrees

\* One receipt moves and no handler starts.
LEMMA ReceiptMoves ==
    ASSUME InboxAgrees, NEW e \in Events, NEW row \in ReceiptRows,
           receipts' = [receipts EXCEPT ![e] = row], UNCHANGED handled,
           handler' \in [Handlers -> HandlerRows],
           row.attempts = receipts[e].attempts,
           row.status = "processing" <=> row.token # NoHandler
    PROVE  InboxAgrees'
  <1>1. receipts' \in [Events -> ReceiptRows]
        /\ \A d \in Events : receipts'[d] = IF d = e THEN row ELSE receipts[d]
    BY DEF InboxAgrees
  <1>. QED
    BY <1>1 DEF InboxAgrees

LEMMA ReceiveStep ==
    ASSUME InboxAgrees, NEW e \in Events, Receive(e)
    PROVE  InboxAgrees'
  <1> PICK old \in ReceiptRows :
          old = receipts[e] /\ (old.status = "processing" <=> old.token # NoHandler)
    BY DEF InboxAgrees
  <1> DEFINE status == CASE old.status = "none" /\ Awaited(e) -> "pending"
                         [] old.status \in {"none", "pending"} /\ ~Awaited(e) -> "completed"
                         [] OTHER -> old.status
             row == [old EXCEPT !.status = status]
  <1>1. \/ status = old.status
        \/ status \in {"pending", "completed"} /\ old.status \in {"none", "pending"}
    OBVIOUS
  <1>2. receipts' = [receipts EXCEPT ![e] = row] /\ UNCHANGED <<handler, handled>>
    BY DEF Receive, InboxAgrees
  <1> HIDE DEF status
  <1>3. /\ row \in ReceiptRows /\ row.attempts = old.attempts /\ row.status = status
        /\ row.token = old.token
    BY <1>1 DEF ReceiptRows
  <1> HIDE DEF row
  <1>4. handler' \in [Handlers -> HandlerRows]
    BY <1>2 DEF InboxAgrees
  <1>5. row.status = "processing" <=> row.token # NoHandler
    BY <1>1, <1>3
  <1>. QED
    BY <1>2, <1>3, <1>4, <1>5, ReceiptMoves

LEMMA ClaimReceiptStep ==
    ASSUME InboxAgrees, NEW w \in Handlers, NEW e \in Events, ClaimReceipt(w, e)
    PROVE  InboxAgrees'
  <1> PICK old \in ReceiptRows :
          /\ old = receipts[e] /\ (old.status = "processing" <=> old.token # NoHandler)
          /\ old.attempts = handled[e] /\ old.attempts \in Nat
    BY ConnectAssumption DEF InboxAgrees, ReceiptRows
  <1>1. ASSUME UNCHANGED <<handler, handled>>,
               receipts' = [receipts EXCEPT ![e] =
                    [@ EXCEPT !.status = "dead_letter", !.token = NoHandler,
                              !.leased = FALSE]]
        PROVE  InboxAgrees'
    <2> DEFINE row == [old EXCEPT !.status = "dead_letter", !.token = NoHandler,
                                  !.leased = FALSE]
    <2>1. /\ row \in ReceiptRows /\ row.attempts = old.attempts /\ row.status = "dead_letter"
          /\ row.token = NoHandler
      BY DEF ReceiptRows
    <2>2. receipts' = [receipts EXCEPT ![e] = row]
      BY <1>1 DEF InboxAgrees
    <2> HIDE DEF row
    <2>3. handler' \in [Handlers -> HandlerRows]
      BY <1>1 DEF InboxAgrees
    <2>. QED
      BY <1>1, <2>1, <2>2, <2>3, ReceiptMoves
  <1>2. ASSUME ~Spent(old),
               receipts' = [receipts EXCEPT ![e] =
                    [status |-> "processing", attempts |-> receipts[e].attempts + 1,
                     due |-> FALSE, token |-> w, leased |-> TRUE]],
               handler' = [handler EXCEPT ![w] =
                    [event |-> e, at |-> "claimed", saw |-> FALSE]],
               handled' = [handled EXCEPT ![e] = @ + 1]
        PROVE  InboxAgrees'
    <2> DEFINE row == [status |-> "processing", attempts |-> old.attempts + 1,
                       due |-> FALSE, token |-> w, leased |-> TRUE]
    <2>1. old.attempts + 1 \in 0..ReceiptMaxAttempts
      BY <1>2, ConnectAssumption DEF Spent
    <2>2. /\ row \in ReceiptRows /\ row.attempts = old.attempts + 1 /\ row.status = "processing"
          /\ row.token = w
      BY <2>1 DEF ReceiptRows
    <2>3. receipts' = [receipts EXCEPT ![e] = row]
      BY <1>2 DEF InboxAgrees
    <2> HIDE DEF row
    <2>4. receipts' \in [Events -> ReceiptRows]
          /\ \A d \in Events : receipts'[d] = IF d = e THEN row ELSE receipts[d]
      BY <2>2, <2>3 DEF InboxAgrees
    <2>5. handler' \in [Handlers -> HandlerRows]
      BY <1>2 DEF InboxAgrees, HandlerRows
    <2>6. handled' \in [Events -> Nat]
          /\ \A d \in Events : handled'[d] = IF d = e THEN handled[d] + 1 ELSE handled[d]
      BY <1>2 DEF InboxAgrees
    <2>7. w # NoHandler
      BY ConnectAssumption
    <2>. QED
      BY <2>2, <2>4, <2>5, <2>6, <2>7 DEF InboxAgrees
  <1>3. CASE UNCHANGED <<receipts, handler, handled>>
    BY <1>3, InboxRests DEF InboxAgrees
  <1>. QED
    BY <1>1, <1>2, <1>3 DEF ClaimReceipt

\* The worker that owns a receipt settles it; one that lost it changes nothing.
LEMMA SettleReceiptStep ==
    ASSUME InboxAgrees, NEW w \in Handlers, CompleteReceipt(w) \/ FailReceipt(w)
    PROVE  InboxAgrees'
  <1> DEFINE e == handler[w].event
  <1>1. handler' \in [Handlers -> HandlerRows] /\ UNCHANGED handled
    <2>1. AtRest \in HandlerRows
      BY DEF AtRest, HandlerRows
    <2>2. handler' = [handler EXCEPT ![w] = AtRest] /\ UNCHANGED handled
      BY DEF CompleteReceipt, FailReceipt
    <2>. QED
      BY <2>1, <2>2 DEF InboxAgrees
  <1>2. CASE e \notin Events
    <2>1. receipts' = receipts
      BY <1>2 DEF CompleteReceipt, FailReceipt, InboxAgrees
    <2>. QED
      BY <1>1, <2>1, InboxRests
  <1>3. CASE e \in Events
    <2> PICK old \in ReceiptRows :
            old = receipts[e] /\ (old.status = "processing" <=> old.token # NoHandler)
      BY <1>3 DEF InboxAgrees
    <2>1. CASE ~Owns(w, e)
      <3>1. receipts' = receipts
        BY <1>3, <2>1 DEF CompleteReceipt, FailReceipt, InboxAgrees
      <3>. QED
        BY <1>1, <3>1, InboxRests
    <2>2. CASE Owns(w, e)
      <3>1. PICK status \in {"completed", "dead_letter", "failed"} :
                receipts' = [receipts EXCEPT ![e] = [old EXCEPT
                    !.status = status, !.token = NoHandler, !.leased = FALSE]]
        <4>1. CASE CompleteReceipt(w)
          BY <1>3, <2>2, <4>1 DEF CompleteReceipt, InboxAgrees, ReceiptRows
        <4>2. CASE FailReceipt(w)
          BY <1>3, <2>2, <4>2 DEF FailReceipt, InboxAgrees, ReceiptRows
        <4>. QED
          BY <4>1, <4>2
      <3> DEFINE row == [old EXCEPT !.status = status, !.token = NoHandler, !.leased = FALSE]
      <3>2. /\ row \in ReceiptRows /\ row.attempts = old.attempts /\ row.status = status
            /\ row.token = NoHandler
        BY DEF ReceiptRows
      <3>3. receipts' = [receipts EXCEPT ![e] = row]
        BY <3>1
      <3> HIDE DEF row
      <3>. QED
        BY <1>1, <1>3, <3>2, <3>3, ReceiptMoves
    <2>. QED
      BY <2>1, <2>2
  <1>. QED
    BY <1>2, <1>3

LEMMA ReceiptTimeStep ==
    ASSUME InboxAgrees, NEW e \in Events, ReceiptTime(e)
    PROVE  InboxAgrees'
  <1> PICK old \in ReceiptRows :
          old = receipts[e] /\ (old.status = "processing" <=> old.token # NoHandler)
    BY DEF InboxAgrees
  <1>1. UNCHANGED <<handler, handled>> /\ handler' \in [Handlers -> HandlerRows]
    BY DEF ReceiptTime, InboxAgrees
  <1>2. PICK row \in ReceiptRows :
            /\ receipts' = [receipts EXCEPT ![e] = row] /\ row.attempts = old.attempts
            /\ row.status = old.status /\ row.token = old.token
    <2>1. \/ receipts' = [receipts EXCEPT ![e] = [old EXCEPT !.due = TRUE]]
          \/ receipts' = [receipts EXCEPT ![e] = [old EXCEPT !.leased = FALSE]]
      BY DEF ReceiptTime, InboxAgrees
    <2>2. CASE receipts' = [receipts EXCEPT ![e] = [old EXCEPT !.due = TRUE]]
      <3> DEFINE row == [old EXCEPT !.due = TRUE]
      <3>1. /\ row \in ReceiptRows /\ row.attempts = old.attempts
            /\ row.status = old.status /\ row.token = old.token
        BY DEF ReceiptRows
      <3> HIDE DEF row
      <3>2. receipts' = [receipts EXCEPT ![e] = row]
        BY <2>2 DEF row
      <3>. QED
        BY <3>1, <3>2
    <2>3. CASE receipts' = [receipts EXCEPT ![e] = [old EXCEPT !.leased = FALSE]]
      <3> DEFINE row == [old EXCEPT !.leased = FALSE]
      <3>1. /\ row \in ReceiptRows /\ row.attempts = old.attempts
            /\ row.status = old.status /\ row.token = old.token
        BY DEF ReceiptRows
      <3> HIDE DEF row
      <3>2. receipts' = [receipts EXCEPT ![e] = row]
        BY <2>3 DEF row
      <3>. QED
        BY <3>1, <3>2
    <2>. QED
      BY <2>1, <2>2, <2>3
  <1>. QED
    BY <1>1, <1>2, ReceiptMoves

LEMMA AccountBounds ==
    ASSUME NEW row \in AccountRows
    PROVE  /\ row.id \in Nat /\ row.retries \in Nat /\ row.retries <= CreationMaxRetries
           /\ row.token \in Makers \cup {NoMaker} /\ row.ready \in BOOLEAN
           /\ row.deauthorized \in BOOLEAN /\ row.leased \in BOOLEAN
           /\ row.dispatched \in {"no", "recent", "old"}
           /\ CreationMaxRetries \in Nat
  BY AccountAssumption DEF AccountRows

\* The row changes while nobody starts to hold the creation.
LEMMA RowMoves ==
    ASSUME AccountAgrees, UNCHANGED <<maker, stripe>>, AccountRowIsSound(account'),
           account.dispatched = "old" => account'.dispatched = "old",
           account'.status = "creating" =>
               /\ account.status = "creating" /\ account'.token = account.token
               /\ account'.retries = account.retries
    PROVE  AccountAgrees'
  <1>1. KeyIsKnown'
    BY DEF AccountAgrees, KeyIsKnown
  <1>2. \A k \in Makers : MakerIsSound(k, maker[k], account')
    BY DEF AccountAgrees, MakerIsSound
  <1>. QED
    BY <1>1, <1>2 DEF AccountAgrees

\* One maker moves, and the row with it or not.
LEMMA MakerMoves ==
    ASSUME AccountAgrees, NEW k \in Makers, NEW m \in MakerRows,
           maker' = [maker EXCEPT ![k] = m], UNCHANGED stripe,
           AccountRowIsSound(account'), MakerIsSound(k, m, account'),
           account.dispatched = "old" => account'.dispatched = "old" /\ m.at # "dispatched",
           account'.status = "creating" /\ account'.token # k =>
               /\ account.status = "creating" /\ account'.token = account.token
               /\ account'.retries = account.retries
    PROVE  AccountAgrees'
  <1>1. maker' \in [Makers -> MakerRows]
        /\ \A j \in Makers : maker'[j] = IF j = k THEN m ELSE maker[j]
    BY DEF AccountAgrees
  <1>2. KeyIsKnown'
    BY <1>1 DEF AccountAgrees, KeyIsKnown
  <1>3. \A j \in Makers : MakerIsSound(j, maker'[j], account')
    BY <1>1 DEF AccountAgrees, MakerIsSound
  <1>. QED
    BY <1>1, <1>2, <1>3 DEF AccountAgrees

LEMMA IdleMakerType ==
    IdleMaker \in MakerRows /\ IdleMaker.at = "idle"
  BY DEF IdleMaker, MakerRows

LEMMA IdleIsSound ==
    ASSUME NEW k, NEW row
    PROVE  MakerIsSound(k, IdleMaker, row)
  BY IdleMakerType DEF MakerIsSound

LEMMA IntentStep ==
    ASSUME AccountAgrees, EnsureCreationIntent
    PROVE  AccountAgrees'
  <1> PICK old \in AccountRows : old = account /\ AccountRowIsSound(old) /\ old.status = "none"
    BY DEF AccountAgrees, AccountRowIsSound, EnsureCreationIntent
  <1> DEFINE row == [old EXCEPT !.status = "not_started"]
  <1>1. account' = row /\ UNCHANGED <<maker, stripe>>
    BY DEF EnsureCreationIntent, OnlyAccount
  <1>2. /\ row \in AccountRows /\ row.status = "not_started" /\ row.token = old.token
        /\ row.id = old.id /\ row.ready = old.ready /\ row.deauthorized = old.deauthorized
        /\ row.retries = old.retries /\ row.dispatched = old.dispatched
    BY DEF AccountRows
  <1> HIDE DEF row
  <1>3. AccountRowIsSound(row)
    BY <1>2 DEF AccountRowIsSound
  <1>. QED
    BY <1>1, <1>2, <1>3, RowMoves

LEMMA ClaimCreationStep ==
    ASSUME AccountAgrees, NEW k \in Makers, ClaimCreation(k)
    PROVE  AccountAgrees'
  <1> PICK old \in AccountRows :
          old = account /\ AccountRowIsSound(old) /\ old.status \in {"not_started", "creating"}
          /\ old.id = 0
    BY DEF AccountAgrees, AccountRowIsSound, ClaimCreation, ClaimableCreation
  <1> DEFINE row == [old EXCEPT !.status = "creating", !.token = k, !.leased = TRUE]
             m == [at |-> "claimed", retries |-> old.retries, got |-> 0]
  <1>1. account' = row /\ maker' = [maker EXCEPT ![k] = m] /\ UNCHANGED stripe
    BY DEF ClaimCreation, OnlyAccount
  <1>2. /\ row \in AccountRows /\ row.status = "creating" /\ row.token = k
        /\ row.id = old.id /\ row.ready = old.ready /\ row.deauthorized = old.deauthorized
        /\ row.retries = old.retries /\ row.dispatched = old.dispatched
    BY DEF AccountRows
  <1>3. m \in MakerRows /\ m.at = "claimed" /\ m.retries = old.retries
    BY AccountBounds DEF MakerRows
  <1> HIDE DEF row, m
  <1>4. AccountRowIsSound(row)
    BY <1>2, AccountAssumption DEF AccountRowIsSound
  <1>5. MakerIsSound(k, m, row)
    BY <1>2, <1>3 DEF MakerIsSound
  <1>. QED
    BY <1>1, <1>2, <1>3, <1>4, <1>5, MakerMoves

\* A maker goes on, or gives up, and leaves the row as it is.
LEMMA MakerAlone ==
    ASSUME AccountAgrees, NEW k \in Makers, NEW m \in MakerRows,
           maker' = [maker EXCEPT ![k] = m], UNCHANGED <<account, stripe>>,
           m.at = "idle" \/ (m.retries = maker[k].retries /\ maker[k].at # "idle"),
           m.at # "dispatched", m.at = "created" => m.got # 0
    PROVE  AccountAgrees'
  <1>1. MakerIsSound(k, m, account)
    BY DEF AccountAgrees, MakerIsSound
  <1>2. AccountRowIsSound(account)
    BY DEF AccountAgrees
  <1>. QED
    BY <1>1, <1>2, MakerMoves

LEMMA CreationReviewStep ==
    ASSUME AccountAgrees, NEW k \in Makers, CreationReview(k)
    PROVE  AccountAgrees'
  <1> PICK old \in AccountRows : old = account /\ AccountRowIsSound(old)
    BY DEF AccountAgrees, AccountRowIsSound
  <1>1. maker' = [maker EXCEPT ![k] = IdleMaker] /\ UNCHANGED stripe
    BY DEF CreationReview, OnlyAccount
  <1>2. CASE account' = account
    BY <1>1, <1>2, IdleMakerType, MakerAlone
  <1>3. CASE HoldsCreation(k) /\ account.id = 0
    <2> DEFINE row == [old EXCEPT !.status = "review_required",
                                  !.token = NoMaker, !.leased = FALSE, !.ready = FALSE]
    <2>1. account' = row
      BY <1>3 DEF CreationReview
    <2>2. /\ row \in AccountRows /\ row.status = "review_required" /\ row.token = NoMaker
          /\ row.id = old.id /\ row.ready = FALSE /\ row.dispatched = old.dispatched
      BY DEF AccountRows
    <2> HIDE DEF row
    <2>3. AccountRowIsSound(row)
      BY <2>2 DEF AccountRowIsSound
    <2>4. MakerIsSound(k, IdleMaker, row)
      BY IdleIsSound
    <2>. QED
      BY <1>1, <2>1, <2>2, <2>3, <2>4, IdleMakerType, MakerMoves
  <1>. QED
    BY <1>2, <1>3 DEF CreationReview

LEMMA MarkDispatchedStep ==
    ASSUME AccountAgrees, NEW k \in Makers, MarkCreationDispatched(k)
    PROVE  AccountAgrees'
  <1> PICK old \in AccountRows :
          old = account /\ AccountRowIsSound(old) /\ old.dispatched # "old"
    BY DEF AccountAgrees, AccountRowIsSound, MarkCreationDispatched, KeyMayBeGone
  <1> PICK had \in MakerRows : had = maker[k] /\ had.at = "claimed" /\ MakerIsSound(k, had, old)
    BY DEF AccountAgrees, MarkCreationDispatched
  <1>1. UNCHANGED stripe
    BY DEF MarkCreationDispatched, OnlyAccount
  <1>2. CASE ~HoldsCreation(k)
    <2>1. maker' = [maker EXCEPT ![k] = IdleMaker] /\ UNCHANGED account
      BY <1>2 DEF MarkCreationDispatched
    <2>. QED
      BY <1>1, <2>1, IdleMakerType, MakerAlone
  <1>3. CASE HoldsCreation(k)
    <2> DEFINE row == [old EXCEPT !.dispatched = IF old.dispatched = "no" THEN "recent"
                                                 ELSE old.dispatched]
               m == [had EXCEPT !.at = "dispatched"]
    <2>1. account' = row /\ maker' = [maker EXCEPT ![k] = m]
      BY <1>3 DEF MarkCreationDispatched, AccountAgrees, AccountRows
    <2>2. /\ row \in AccountRows /\ row.status = old.status /\ row.token = old.token
          /\ row.id = old.id /\ row.ready = old.ready /\ row.deauthorized = old.deauthorized
          /\ row.retries = old.retries
      BY DEF AccountRows
    <2>3. m \in MakerRows /\ m.at = "dispatched" /\ m.retries = had.retries
      BY DEF MakerRows
    <2> HIDE DEF row, m
    <2>4. AccountRowIsSound(row)
      BY <2>2 DEF AccountRowIsSound
    <2>5. MakerIsSound(k, m, row)
      BY <2>2, <2>3 DEF MakerIsSound
    <2>. QED
      BY <1>1, <2>1, <2>2, <2>3, <2>4, <2>5, MakerMoves
  <1>. QED
    BY <1>2, <1>3

\* While Stripe keeps the key it answers with the first account; once it has
\* forgotten it no request is on its way.
LEMMA CreateAccountStep ==
    ASSUME AccountAgrees, NEW k \in Makers, CreateConnectedAccount(k)
    PROVE  AccountAgrees'
  <1> PICK had \in MakerRows :
          had = maker[k] /\ had.at = "dispatched" /\ MakerIsSound(k, had, account)
    BY DEF AccountAgrees, CreateConnectedAccount
  <1> PICK s \in StripeRows : s = stripe
    BY DEF AccountAgrees
  <1>1. UNCHANGED account
    BY DEF CreateConnectedAccount
  <1> DEFINE answered == IF s.key # 0 THEN s ELSE [s EXCEPT !.made = s.made + 1, !.key = s.made + 1]
  <1>2. /\ answered \in StripeRows /\ answered.key = 1
        /\ answered = s \/ (answered.made = 1 /\ answered.key = 1)
    <2>1. CASE s.key # 0
      BY <2>1 DEF StripeRows
    <2>2. CASE s.key = 0
      <3>1. s.made = 0 /\ s.made + 1 = 1
        BY <2>2 DEF AccountAgrees, KeyIsKnown, StripeRows
      <3>2. answered = [s EXCEPT !.made = 1, !.key = 1]
        BY <2>2, <3>1
      <3> HIDE DEF answered
      <3>. QED
        BY <3>2 DEF StripeRows
    <2>. QED
      BY <2>1, <2>2
  <1>3. stripe' \in {stripe, answered}
        /\ \/ maker' = [maker EXCEPT ![k].at = "failed"]
           \/ /\ maker' = [maker EXCEPT ![k].at = "created", ![k].got = stripe'.key]
              /\ stripe' = answered
    BY DEF CreateConnectedAccount
  <1> HIDE DEF answered
  <1>4. stripe' \in StripeRows /\ (stripe' = stripe \/ (stripe'.made = 1 /\ stripe'.key = 1))
    BY <1>2, <1>3
  <1>5. PICK m \in MakerRows :
            /\ maker' = [maker EXCEPT ![k] = m] /\ m.retries = had.retries
            /\ m.at = "failed" \/ (m.at = "created" /\ m.got # 0)
    <2>1. CASE maker' = [maker EXCEPT ![k].at = "failed"]
      <3> DEFINE m == [had EXCEPT !.at = "failed"]
      <3>1. m \in MakerRows /\ m.retries = had.retries /\ m.at = "failed"
        BY DEF MakerRows
      <3>2. maker' = [maker EXCEPT ![k] = m]
        BY <2>1
      <3> HIDE DEF m
      <3>. QED
        BY <3>1, <3>2
    <2>2. CASE /\ maker' = [maker EXCEPT ![k].at = "created", ![k].got = stripe'.key]
               /\ stripe' = answered
      <3> DEFINE m == [had EXCEPT !.at = "created", !.got = 1]
      <3>1. m \in MakerRows /\ m.retries = had.retries /\ m.at = "created" /\ m.got = 1
        BY DEF MakerRows
      <3>2. maker' = [maker EXCEPT ![k].at = "created", ![k].got = 1]
        BY <1>2, <2>2
      <3>3. maker' = [maker EXCEPT ![k] = m]
        BY <3>2 DEF AccountAgrees
      <3>4. m.got # 0
        BY <3>1
      <3> HIDE DEF m
      <3>. QED
        BY <3>1, <3>3, <3>4
    <2>. QED
      BY <1>3, <2>1, <2>2
  <1>6. maker' \in [Makers -> MakerRows]
        /\ \A j \in Makers : maker'[j] = IF j = k THEN m ELSE maker[j]
    BY <1>5 DEF AccountAgrees
  <1>7. KeyIsKnown'
    BY <1>1, <1>6, <1>4, <1>5 DEF AccountAgrees, KeyIsKnown
  <1>8. \A j \in Makers : MakerIsSound(j, maker'[j], account')
    BY <1>1, <1>6, <1>5 DEF AccountAgrees, MakerIsSound
  <1>. QED
    BY <1>1, <1>6, <1>7, <1>8, <1>4 DEF AccountAgrees

LEMMA CreationSucceededStep ==
    ASSUME AccountAgrees, NEW k \in Makers, MarkCreationSucceeded(k)
    PROVE  AccountAgrees'
  <1> PICK old \in AccountRows : old = account /\ AccountRowIsSound(old)
    BY DEF AccountAgrees, AccountRowIsSound
  <1> PICK had \in MakerRows : had = maker[k] /\ had.at = "created" /\ had.got # 0
    BY DEF AccountAgrees, MarkCreationSucceeded, MakerIsSound
  <1>1. UNCHANGED stripe
    BY DEF MarkCreationSucceeded, OnlyAccount
  <1>2. CASE ~(HoldsCreation(k) /\ account.id = 0)
    <2> DEFINE m == [had EXCEPT !.at = "failed"]
    <2>1. m \in MakerRows /\ m.at = "failed" /\ m.retries = had.retries
      BY DEF MakerRows
    <2>2. account' = account /\ (maker' = [maker EXCEPT ![k] = IdleMaker]
                                  \/ maker' = [maker EXCEPT ![k] = m])
      BY <1>2 DEF MarkCreationSucceeded
    <2> HIDE DEF m
    <2>3. CASE maker' = [maker EXCEPT ![k] = IdleMaker]
      BY <1>1, <2>2, <2>3, IdleMakerType, MakerAlone
    <2>4. CASE maker' = [maker EXCEPT ![k] = m]
      BY <1>1, <2>1, <2>2, <2>4, MakerAlone
    <2>. QED
      BY <2>2, <2>3, <2>4
  <1>3. CASE HoldsCreation(k) /\ account.id = 0
    <2> DEFINE row == [old EXCEPT !.id = had.got, !.status = "created",
                            !.token = NoMaker, !.leased = FALSE, !.ready = FALSE]
    <2>1. account' = row /\ maker' = [maker EXCEPT ![k] = IdleMaker]
      BY <1>3 DEF MarkCreationSucceeded
    <2>2. /\ row \in AccountRows /\ row.status = "created" /\ row.token = NoMaker
          /\ row.id = had.got /\ row.ready = FALSE /\ row.dispatched = old.dispatched
      BY DEF AccountRows, MakerRows
    <2> HIDE DEF row
    <2>3. AccountRowIsSound(row)
      BY <2>2 DEF AccountRowIsSound
    <2>4. MakerIsSound(k, IdleMaker, row)
      BY IdleIsSound
    <2>. QED
      BY <1>1, <2>1, <2>2, <2>3, <2>4, IdleMakerType, MakerMoves
  <1>. QED
    BY <1>2, <1>3

LEMMA CreationFailureStep ==
    ASSUME AccountAgrees, NEW k \in Makers, MarkCreationFailure(k)
    PROVE  AccountAgrees'
  <1> PICK old \in AccountRows : old = account /\ AccountRowIsSound(old)
    BY DEF AccountAgrees, AccountRowIsSound
  <1> PICK had \in MakerRows : had = maker[k] /\ had.at = "failed" /\ MakerIsSound(k, had, old)
    BY DEF AccountAgrees, MarkCreationFailure
  <1>1. maker' = [maker EXCEPT ![k] = IdleMaker] /\ UNCHANGED stripe
    BY DEF MarkCreationFailure, OnlyAccount
  <1>2. CASE ~HoldsCreation(k)
    <2>1. account' = account
      BY <1>2 DEF MarkCreationFailure
    <2>. QED
      BY <1>1, <2>1, IdleMakerType, MakerAlone
  <1>3. CASE HoldsCreation(k)
    <2>1. old.status = "creating" /\ old.token = k /\ had.retries = old.retries
      BY <1>3 DEF HoldsCreation, MakerIsSound
    <2>2. old.retries \in Nat /\ old.retries < CreationMaxRetries /\ CreationMaxRetries \in Nat
          /\ old.id = 0
      BY <2>1, AccountBounds DEF AccountRowIsSound
    <2> DEFINE last == old.retries + 1 >= CreationMaxRetries
               row == [old EXCEPT !.retries = old.retries + 1,
                            !.token = IF last THEN NoMaker ELSE k,
                            !.leased = ~last,
                            !.status = IF last THEN "review_required" ELSE old.status]
    <2>3. account' = row
      BY <1>3, <2>1 DEF MarkCreationFailure
    <2>4. old.retries + 1 \in 0..CreationMaxRetries
      BY <2>2
    <2>5. /\ row \in AccountRows /\ row.retries = old.retries + 1 /\ row.id = old.id
          /\ row.dispatched = old.dispatched /\ row.ready = old.ready
          /\ row.deauthorized = old.deauthorized
          /\ row.status = IF last THEN "review_required" ELSE "creating"
          /\ row.token = IF last THEN NoMaker ELSE k
      BY <2>1, <2>4 DEF AccountRows
    <2>6. ~last => old.retries + 1 < CreationMaxRetries
      BY <2>2
    <2> HIDE DEF row, last
    <2>7. AccountRowIsSound(row)
      BY <2>2, <2>5, <2>6, AccountAssumption DEF AccountRowIsSound
    <2>8. MakerIsSound(k, IdleMaker, row)
      BY IdleIsSound
    <2>9. row.status = "creating" /\ row.token # k => FALSE
      BY <2>5, AccountAssumption
    <2>. QED
      BY <1>1, <2>3, <2>5, <2>7, <2>8, <2>9, IdleMakerType, MakerMoves
  <1>. QED
    BY <1>2, <1>3

LEMMA MakerDiesStep ==
    ASSUME AccountAgrees, NEW k \in Makers, MakerDies(k)
    PROVE  AccountAgrees'
  <1>1. maker' = [maker EXCEPT ![k] = IdleMaker] /\ UNCHANGED <<account, stripe>>
    BY DEF MakerDies
  <1>. QED
    BY <1>1, IdleMakerType, MakerAlone

LEMMA UpdateReadinessStep ==
    ASSUME AccountAgrees, NEW saw \in BOOLEAN, UpdateReadiness(saw), UNCHANGED <<maker, stripe>>
    PROVE  AccountAgrees'
  <1> PICK old \in AccountRows : old = account /\ AccountRowIsSound(old)
    BY DEF AccountAgrees, AccountRowIsSound
  <1>1. CASE ~StillOpen
    BY <1>1, RowMoves DEF UpdateReadiness, AccountAgrees
  <1>2. CASE StillOpen
    <2> DEFINE row == [old EXCEPT !.status = "created", !.ready = saw]
    <2>1. account' = row /\ old.id # 0 /\ ~old.deauthorized
      BY <1>2 DEF UpdateReadiness, StillOpen
    <2>2. /\ row \in AccountRows /\ row.status = "created" /\ row.token = old.token
          /\ row.id = old.id /\ row.deauthorized = old.deauthorized
          /\ row.dispatched = old.dispatched
      BY DEF AccountRows
    <2>3. old.token = NoMaker
      BY <2>1 DEF AccountRowIsSound
    <2> HIDE DEF row
    <2>4. AccountRowIsSound(row)
      BY <2>1, <2>2, <2>3 DEF AccountRowIsSound
    <2>. QED
      BY <2>1, <2>2, <2>4, RowMoves
  <1>. QED
    BY <1>1, <1>2

LEMMA ReadinessReviewStep ==
    ASSUME AccountAgrees, ReadinessReview, UNCHANGED <<maker, stripe>>
    PROVE  AccountAgrees'
  <1> PICK old \in AccountRows : old = account /\ AccountRowIsSound(old)
    BY DEF AccountAgrees, AccountRowIsSound
  <1>1. CASE account' = account
    BY <1>1, RowMoves DEF AccountAgrees
  <1>2. CASE account.status = "created" /\ ~account.deauthorized
    <2> DEFINE row == [old EXCEPT !.status = "review_required",
                         !.token = NoMaker, !.leased = FALSE, !.ready = FALSE]
    <2>1. account' = row
      BY <1>2 DEF ReadinessReview
    <2>2. /\ row \in AccountRows /\ row.status = "review_required" /\ row.token = NoMaker
          /\ row.id = old.id /\ row.ready = FALSE /\ row.dispatched = old.dispatched
      BY DEF AccountRows
    <2> HIDE DEF row
    <2>3. AccountRowIsSound(row)
      BY <2>2 DEF AccountRowIsSound
    <2>. QED
      BY <2>1, <2>2, <2>3, RowMoves
  <1>. QED
    BY <1>1, <1>2 DEF ReadinessReview

LEMMA DeauthorizedStep ==
    ASSUME AccountAgrees, NEW w \in Handlers, ProcessAccountDeauthorized(w)
    PROVE  AccountAgrees'
  <1> PICK old \in AccountRows : old = account /\ AccountRowIsSound(old)
    BY DEF AccountAgrees, AccountRowIsSound
  <1>1. UNCHANGED <<maker, stripe>>
    BY DEF ProcessAccountDeauthorized
  <1>2. CASE account' = account
    BY <1>1, <1>2, RowMoves DEF AccountAgrees
  <1>3. CASE account.id # 0
    <2> DEFINE row == [old EXCEPT !.deauthorized = TRUE, !.ready = FALSE]
    <2>1. account' = row
      BY <1>3 DEF ProcessAccountDeauthorized
    <2>2. /\ row \in AccountRows /\ row.status = old.status /\ row.token = old.token
          /\ row.id = old.id /\ row.ready = FALSE /\ row.dispatched = old.dispatched
          /\ row.retries = old.retries
      BY DEF AccountRows
    <2> HIDE DEF row
    <2>3. AccountRowIsSound(row)
      BY <2>2 DEF AccountRowIsSound
    <2>. QED
      BY <1>1, <2>1, <2>2, <2>3, RowMoves
  <1>. QED
    BY <1>2, <1>3 DEF ProcessAccountDeauthorized

LEMMA RefreshAccountStep ==
    ASSUME AccountAgrees, RefreshStep
    PROVE  AccountAgrees'
  <1>1. UNCHANGED <<maker, stripe>>
    BY DEF RefreshStep
  <1>2. CASE UNCHANGED account
    BY <1>1, <1>2, RowMoves DEF AccountAgrees
  <1>3. CASE ReadinessReview
    BY <1>1, <1>3, ReadinessReviewStep
  <1>4. CASE UpdateReadiness(refresher = "on")
    BY <1>1, <1>4, UpdateReadinessStep
  <1>. QED
    BY <1>2, <1>3, <1>4 DEF RefreshStep, Refresh

\* The clock: a lease ends, and the first request becomes old.
LEMMA AccountClockStep ==
    ASSUME AccountAgrees, CreationLeaseOver \/ DispatchAges
    PROVE  AccountAgrees'
  <1> PICK old \in AccountRows : old = account /\ AccountRowIsSound(old)
    BY DEF AccountAgrees, AccountRowIsSound
  <1>1. UNCHANGED <<maker, stripe>>
    BY DEF CreationLeaseOver, DispatchAges, OnlyAccount
  <1>2. CASE account' = [account EXCEPT !.leased = FALSE]
    <2> DEFINE row == [old EXCEPT !.leased = FALSE]
    <2>1. /\ row \in AccountRows /\ row.status = old.status /\ row.token = old.token
          /\ row.id = old.id /\ row.ready = old.ready /\ row.dispatched = old.dispatched
          /\ row.retries = old.retries /\ row.deauthorized = old.deauthorized
      BY DEF AccountRows
    <2>2. account' = row
      BY <1>2
    <2> HIDE DEF row
    <2>3. AccountRowIsSound(row)
      BY <2>1 DEF AccountRowIsSound
    <2>. QED
      BY <1>1, <2>1, <2>2, <2>3, RowMoves
  <1>3. CASE account' = [account EXCEPT !.dispatched = "old"]
    <2> DEFINE row == [old EXCEPT !.dispatched = "old"]
    <2>1. /\ row \in AccountRows /\ row.status = old.status /\ row.token = old.token
          /\ row.id = old.id /\ row.ready = old.ready /\ row.dispatched = "old"
          /\ row.retries = old.retries /\ row.deauthorized = old.deauthorized
      BY DEF AccountRows
    <2>2. account' = row
      BY <1>3
    <2> HIDE DEF row
    <2>3. AccountRowIsSound(row)
      BY <2>1 DEF AccountRowIsSound
    <2>. QED
      BY <1>1, <2>1, <2>2, <2>3, RowMoves
  <1>. QED
    BY <1>2, <1>3 DEF CreationLeaseOver, DispatchAges

LEMMA StripeSideStep ==
    ASSUME AccountAgrees, StripeSide
    PROVE  AccountAgrees'
  <1> PICK s \in StripeRows : s = stripe
    BY DEF AccountAgrees
  <1>1. UNCHANGED <<account, maker>>
    BY DEF StripeSide
  <1>2. \/ stripe' = [s EXCEPT !.enabled = ~s.enabled]
        \/ stripe' = [s EXCEPT !.revoked = TRUE]
        \/ /\ stripe' = [s EXCEPT !.key = 0] /\ account.dispatched = "old"
           /\ \A k \in Makers : maker[k].at # "dispatched"
    BY DEF StripeSide
  <1>3. /\ stripe' \in StripeRows /\ stripe'.made = s.made
        /\ \/ stripe'.key = s.key
           \/ /\ stripe'.key = 0 /\ account.dispatched = "old"
              /\ \A k \in Makers : maker[k].at # "dispatched"
    BY <1>2 DEF StripeRows
  <1>4. KeyIsKnown'
    BY <1>1, <1>3 DEF AccountAgrees, KeyIsKnown
  <1>. QED
    BY <1>1, <1>3, <1>4 DEF AccountAgrees

LEMMA ConnectBegins ==
    ASSUME ConnectInit
    PROVE  ConnectAgrees
  <1>1. InboxAgrees
    <2>1. NoReceipt \in ReceiptRows /\ NoReceipt.attempts = 0 /\ NoReceipt.status = "none"
          /\ NoReceipt.token = NoHandler
      BY ConnectAssumption DEF NoReceipt, ReceiptRows
    <2>2. AtRest \in HandlerRows
      BY DEF AtRest, HandlerRows
    <2>. QED
      BY <2>1, <2>2 DEF ConnectInit, InboxInit, InboxAgrees
  <1>2. AccountRowIsSound(account)
    BY AccountAssumption DEF ConnectInit, AccountInit, AccountRowIsSound, AccountRows
  <1>3. maker \in [Makers -> MakerRows] /\ \A k \in Makers : maker[k].at = "idle"
    BY IdleMakerType DEF ConnectInit, AccountInit
  <1>4. stripe \in StripeRows /\ stripe.made = 0 /\ stripe.key = 0
    BY DEF ConnectInit, AccountInit, StripeRows
  <1>5. AccountAgrees
    BY <1>2, <1>3, <1>4 DEF AccountAgrees, KeyIsKnown, MakerIsSound
  <1>. QED
    BY <1>1, <1>5 DEF ConnectAgrees

LEMMA HandlerMoves ==
    ASSUME InboxAgrees, NEW w \in Handlers,
           NEW to \in {"idle", "claimed", "retrieved", "handled", "failed"}, NEW saw \in BOOLEAN,
           HandlerGoes(w, to, saw), UNCHANGED <<receipts, handled>>
    PROVE  InboxAgrees'
  <1>1. handler' \in [Handlers -> HandlerRows]
    BY DEF HandlerGoes, InboxAgrees, HandlerRows
  <1>. QED
    BY <1>1, InboxRests

LEMMA SameAccount ==
    ASSUME AccountAgrees, UNCHANGED <<account, maker, stripe>>
    PROVE  AccountAgrees'
  BY DEF AccountAgrees, KeyIsKnown

LEMMA ConnectStep ==
    ASSUME ConnectAgrees, [ConnectNext]_connectVars
    PROVE  ConnectAgrees'
  <1>1. InboxAgrees /\ AccountAgrees
    BY DEF ConnectAgrees
  <1>2. ASSUME UNCHANGED <<receipts, handler, handled>>
        PROVE  InboxAgrees'
    BY <1>1, <1>2 DEF InboxAgrees
  <1>3. CASE UNCHANGED connectVars
    BY <1>1, <1>2, <1>3, SameAccount DEF connectVars, inboxVars, accountVars, ConnectAgrees
  <1>4. CASE EnsureCreationIntent
    BY <1>1, <1>2, <1>4, IntentStep
       DEF EnsureCreationIntent, OnlyAccount, inboxVars, ConnectAgrees
  <1>5. CASE RefreshStep
    BY <1>1, <1>2, <1>5, RefreshAccountStep DEF RefreshStep, ConnectAgrees
  <1>6. CASE StripeSide
    BY <1>1, <1>2, <1>6, StripeSideStep DEF StripeSide, ConnectAgrees
  <1>7. CASE CreationLeaseOver \/ DispatchAges
    BY <1>1, <1>2, <1>7, AccountClockStep
       DEF CreationLeaseOver, DispatchAges, OnlyAccount, inboxVars, ConnectAgrees
  <1>8. ASSUME NEW k \in Makers, MakerStep(k) \/ MakerDies(k)
        PROVE  ConnectAgrees'
    <2>1. UNCHANGED <<receipts, handler, handled>>
      BY <1>8 DEF MakerStep, MakerDies, ClaimCreation, CreationReview, MarkCreationDispatched,
                  CreateConnectedAccount, MarkCreationSucceeded, MarkCreationFailure,
                  OnlyAccount, inboxVars
    <2>2. AccountAgrees'
      BY <1>1, <1>8, ClaimCreationStep, CreationReviewStep, MarkDispatchedStep,
         CreateAccountStep, CreationSucceededStep, CreationFailureStep, MakerDiesStep
         DEF MakerStep
    <2>. QED
      BY <1>2, <2>1, <2>2 DEF ConnectAgrees
  <1>9. ASSUME NEW e \in Events, Receive(e) \/ RecoverDueEvents(e) \/ ReceiptTime(e),
               UNCHANGED accountVars
        PROVE  ConnectAgrees'
    <2>1. CASE RecoverDueEvents(e)
      BY <1>1, <1>2, <1>9, <2>1, SameAccount DEF RecoverDueEvents, ConnectAgrees, accountVars
    <2>. QED
      BY <1>1, <1>9, <2>1, ReceiveStep, ReceiptTimeStep, SameAccount
         DEF ConnectAgrees, accountVars
  <1>10. ASSUME NEW w \in Handlers, InboxStep(w), UNCHANGED accountVars
         PROVE  ConnectAgrees'
    BY <1>1, <1>10, ClaimReceiptStep, SettleReceiptStep, SameAccount
       DEF InboxStep, ConnectAgrees, accountVars
  <1>11. ASSUME NEW w \in Handlers, HandlerDies(w), UNCHANGED accountVars
         PROVE  ConnectAgrees'
    <2>1. handler' \in [Handlers -> HandlerRows] /\ UNCHANGED <<receipts, handled>>
      <3>1. AtRest \in HandlerRows
        BY DEF AtRest, HandlerRows
      <3>. QED
        BY <1>1, <1>11, <3>1 DEF HandlerDies, InboxAgrees
    <2>. QED
      BY <1>1, <1>11, <2>1, InboxRests, SameAccount DEF ConnectAgrees, accountVars
  <1>12. ASSUME NEW w \in Handlers, ProcessAccountUpdated(w)
         PROVE  ConnectAgrees'
    <2>1. /\ UNCHANGED <<receipts, handled, account, maker, stripe>>
          /\ \/ HandlerGoes(w, "handled", FALSE)
             \/ HandlerGoes(w, "retrieved", stripe.enabled)
             \/ HandlerGoes(w, "failed", FALSE)
      BY <1>12 DEF ProcessAccountUpdated, accountVars
    <2>2. stripe.enabled \in BOOLEAN
      BY <1>1 DEF AccountAgrees, StripeRows
    <2>. QED
      BY <1>1, <2>1, <2>2, HandlerMoves, SameAccount DEF ConnectAgrees
  <1>13. ASSUME NEW w \in Handlers, WriteReadiness(w)
         PROVE  ConnectAgrees'
    <2>1. /\ UNCHANGED <<receipts, handled, maker, stripe>> /\ HandlerGoes(w, "handled", FALSE)
          /\ UpdateReadiness(handler[w].saw)
      BY <1>13 DEF WriteReadiness
    <2>2. handler[w].saw \in BOOLEAN
      BY <1>1 DEF InboxAgrees, HandlerRows
    <2>. QED
      BY <1>1, <2>1, <2>2, HandlerMoves, UpdateReadinessStep DEF ConnectAgrees
  <1>14. ASSUME NEW w \in Handlers, ProcessAccountDeauthorized(w)
         PROVE  ConnectAgrees'
    <2>1. UNCHANGED <<receipts, handled>> /\ HandlerGoes(w, "handled", FALSE)
      BY <1>14 DEF ProcessAccountDeauthorized
    <2>. QED
      BY <1>1, <1>14, <2>1, HandlerMoves, DeauthorizedStep DEF ConnectAgrees
  <1>. QED
    BY <1>3, <1>4, <1>5, <1>6, <1>7, <1>8, <1>9, <1>10, <1>11, <1>12, <1>13, <1>14
       DEF ConnectNext, HandlerStep

\* The inductive invariant of the connected account and of its inbox: who
\* holds the creation knows its retries, Stripe forgets the key only when no
\* request under it can come, and a receipt counts the starts of its handler.
THEOREM ConnectConsistency == ConnectSpec => []ConnectAgrees
  <1>1. ConnectInit => ConnectAgrees
    BY ConnectBegins
  <1>2. ConnectAgrees /\ [ConnectNext]_connectVars => ConnectAgrees'
    BY ConnectStep
  <1>. QED
    BY <1>1, <1>2, PTL DEF ConnectSpec

\* One account for a store, closed for good when it was deauthorized, and no
\* event handled beyond its attempts: for any number of makers and handlers,
\* and whatever dies, is taken over or delivered again.
THEOREM ConnectBooksAreKept == ConnectSpec => []ConnectKeepsItsBooks
  <1>1. ASSUME ConnectAgrees
        PROVE  ConnectKeepsItsBooks
    <2>1. InboxIsBounded
      <3>1. \A e \in Events : receipts[e].attempts <= ReceiptMaxAttempts
        BY <1>1, ConnectAssumption DEF ConnectAgrees, InboxAgrees, ReceiptRows
      <3>. QED
        BY <1>1, <3>1 DEF ConnectAgrees, InboxAgrees, InboxIsBounded
    <2>2. OneAccountPerStore
      BY <1>1 DEF ConnectAgrees, AccountAgrees, StripeRows, OneAccountPerStore
    <2>3. DeauthorizedStaysClosed
      BY <1>1 DEF ConnectAgrees, AccountAgrees, AccountRowIsSound, DeauthorizedStaysClosed
    <2>. QED
      BY <2>1, <2>2, <2>3 DEF ConnectKeepsItsBooks
  <1>. QED
    BY <1>1, ConnectConsistency, PTL

(***************************************************************************)
(* The subscription of a store                                             *)
(***************************************************************************)
AttemptRows ==
    [status : {"none", "pending", "completed", "expired"}, saved : BOOLEAN, overdue : BOOLEAN]

Subscriptions == {"none", "active", "canceled"}
SessionStates == {"none", "open", "complete", "expired"}

NoticeRows ==
    [status : {"none", "pending", "processing", "completed", "failed", "dead_letter"},
     attempts : Nat, due : BOOLEAN, owner : Billers \cup {NoBiller}, leased : BOOLEAN,
     payload : BOOLEAN]

BillerRows ==
    [notice : Kinds \X (Attempts \cup {0}), at : {"idle", "claimed", "retrieved", "failed"},
     saw : Subscriptions]

BillingTypeOK ==
    /\ checkouts \in [Attempts -> AttemptRows]
    /\ request \in [Requests -> [at : {"idle", "checked", "reserved", "created"},
                                 attempt : Attempts \cup {0}]]
    /\ checkoutSessions \in [Attempts -> SessionStates]
    /\ paidFor \in [Attempts -> Subscriptions] /\ projection \in [Attempts -> Subscriptions]
    /\ notices \in [Notices -> NoticeRows]
    /\ biller \in [Billers -> BillerRows]
    /\ overlapped \in BOOLEAN

RequestsHaveTheirAttempt ==
    \A r \in Requests : request[r].at \in {"reserved", "created"} => request[r].attempt \in Attempts

\* What the row of an attempt, its Session and its subscription say together.
AttemptIsSound(row, session, paid) ==
    /\ session = "open" => row.status = "pending" /\ ~row.overdue
    /\ session = "expired" => row.overdue
    /\ session # "none" => row.status # "none"
    /\ session = "complete" <=> paid # "none"

SessionsFollowAttempts ==
    /\ \A a \in Attempts : AttemptIsSound(checkouts[a], checkoutSessions[a], paidFor[a])
    /\ \A a, b \in Attempts : checkouts[a].status = "pending" /\ checkouts[b].status = "pending"
                                => a = b

NoticesHappened == \A n \in Notices : notices[n].status # "none" => Happened(n)

\* A worker that is busy has a stored event, and read the subscription after it.
BillerIsSound(row) ==
    row # BillerRests =>
        /\ row.at # "idle" /\ row.notice \in Notices /\ notices[row.notice].status # "none"
        /\ row.at = "retrieved" =>
              /\ row.notice[1] # "expired" /\ row.saw # "none"
              /\ row.notice[1] = "deleted" => row.saw = "canceled"

\* What a completed event wrote is still there.
EffectsStay ==
    /\ \A n \in Notices : notices[n].status = "completed" =>
          /\ n[1] = "completed" => projection[n[2]] # "none"
          /\ n[1] = "expired" => ~(checkouts[n[2]].status = "pending" /\ checkouts[n[2]].saved)
    /\ \A a \in Attempts : checkouts[a].status = "completed" => projection[a] # "none"
    /\ \A a, b \in Attempts : projection[a] = "active" /\ projection[b] = "active" => a = b

\* As long as no two workers were busy, nobody who goes on has seen a
\* subscription as it was before its cancellation was recorded.
WorkWasSerial ==
    ~overlapped =>
        /\ \A v, w \in Billers : biller[v] # BillerRests /\ biller[w] # BillerRests => v = w
        /\ \A n \in Notices : notices[n].status = "completed" /\ n[1] = "deleted" =>
              /\ projection[n[2]] = "canceled"
              /\ \A w \in Billers : biller[w].at = "retrieved" /\ biller[w].notice[2] = n[2]
                                      => biller[w].saw = "canceled"

BillingAgrees ==
    /\ BillingTypeOK /\ RequestsHaveTheirAttempt
    /\ SessionsFollowAttempts /\ NoticesHappened
    /\ \A w \in Billers : BillerIsSound(biller[w])
    /\ EffectsStay /\ WorkWasSerial

LEMMA NoticeParts ==
    ASSUME NEW n \in Notices
    PROVE  n[1] \in Kinds /\ n[2] \in Attempts
  BY DEF Notices

\* Stripe and the attempts move, the events and their workers do not.
LEMMA CheckoutsMove ==
    ASSUME BillingAgrees, UNCHANGED <<projection, notices, biller, overlapped>>,
           BillingTypeOK', RequestsHaveTheirAttempt', SessionsFollowAttempts',
           \A a \in Attempts :
               /\ checkoutSessions[a] \in {"complete", "expired"} =>
                      checkoutSessions'[a] = checkoutSessions[a]
               /\ paidFor[a] = "canceled" => paidFor'[a] = "canceled"
               /\ checkouts'[a].status = "completed" => checkouts[a].status = "completed"
               /\ checkoutSessions[a] = "expired" /\ checkouts'[a].status = "pending"
                     /\ checkouts'[a].saved => checkouts[a].status = "pending" /\ checkouts[a].saved
    PROVE  BillingAgrees'
  <1>1. \A n \in Notices : Happened(n) => Happened(n)'
    BY NoticeParts DEF Happened, Kinds
  <1>2. NoticesHappened'
    BY <1>1 DEF BillingAgrees, NoticesHappened
  <1>3. (\A w \in Billers : BillerIsSound(biller[w]))' /\ WorkWasSerial'
    BY DEF BillingAgrees, BillerIsSound, WorkWasSerial
  <1>4. \A n \in Notices : notices[n].status = "completed" /\ n[1] = "expired" =>
            n[2] \in Attempts /\ checkoutSessions[n[2]] = "expired"
    BY NoticeParts DEF BillingAgrees, NoticesHappened, Happened
  <1>5. EffectsStay'
    BY <1>4, NoticeParts DEF BillingAgrees, EffectsStay
  <1>. QED
    BY <1>2, <1>3, <1>5 DEF BillingAgrees

\* One attempt moves.
LEMMA AttemptMoves ==
    ASSUME BillingAgrees, UNCHANGED <<projection, notices, biller, overlapped>>,
           request' \in [Requests -> [at : {"idle", "checked", "reserved", "created"},
                                      attempt : Attempts \cup {0}]],
           RequestsHaveTheirAttempt',
           NEW a \in Attempts, NEW row \in AttemptRows, NEW session \in SessionStates,
           NEW paid \in Subscriptions,
           checkouts' = [checkouts EXCEPT ![a] = row],
           checkoutSessions' = [checkoutSessions EXCEPT ![a] = session],
           paidFor' = [paidFor EXCEPT ![a] = paid],
           AttemptIsSound(row, session, paid),
           checkoutSessions[a] \in {"complete", "expired"} => session = checkoutSessions[a],
           paidFor[a] = "canceled" => paid = "canceled",
           row.status = "pending" => checkouts[a].status = "pending" \/ Pending = {},
           row.status = "completed" => checkouts[a].status = "completed",
           checkoutSessions[a] = "expired" /\ row.status = "pending" /\ row.saved =>
               checkouts[a].status = "pending" /\ checkouts[a].saved
    PROVE  BillingAgrees'
  <1>1. /\ \A b \in Attempts : checkouts'[b] = IF b = a THEN row ELSE checkouts[b]
        /\ \A b \in Attempts :
              checkoutSessions'[b] = IF b = a THEN session ELSE checkoutSessions[b]
        /\ \A b \in Attempts : paidFor'[b] = IF b = a THEN paid ELSE paidFor[b]
    BY DEF BillingAgrees, BillingTypeOK
  <1>2. BillingTypeOK'
    BY DEF BillingAgrees, BillingTypeOK
  <1>3. \A b \in Attempts : AttemptIsSound(checkouts'[b], checkoutSessions'[b], paidFor'[b])
    BY <1>1 DEF BillingAgrees, SessionsFollowAttempts
  <1>4. \A b, c \in Attempts :
            checkouts'[b].status = "pending" /\ checkouts'[c].status = "pending" => b = c
    BY <1>1 DEF BillingAgrees, SessionsFollowAttempts, Pending
  <1>5. SessionsFollowAttempts'
    BY <1>3, <1>4 DEF SessionsFollowAttempts
  <1>. QED
    BY <1>1, <1>2, <1>5, CheckoutsMove

LEMMA RequestMoves ==
    ASSUME BillingAgrees, NEW r \in Requests,
           NEW at \in {"idle", "checked", "reserved", "created"}, NEW a \in Attempts \cup {0},
           OnlyRequest(r, at, a), at \in {"reserved", "created"} => a \in Attempts
    PROVE  /\ UNCHANGED <<projection, notices, biller, overlapped>>
           /\ request' \in [Requests -> [at : {"idle", "checked", "reserved", "created"},
                                         attempt : Attempts \cup {0}]]
           /\ RequestsHaveTheirAttempt'
  <1> DEFINE row == [at |-> at, attempt |-> a]
  <1>1. /\ row \in [at : {"idle", "checked", "reserved", "created"}, attempt : Attempts \cup {0}]
        /\ row.at = at /\ row.attempt = a
    OBVIOUS
  <1>2. request' = [request EXCEPT ![r] = row] /\ UNCHANGED <<projection, notices, biller, overlapped>>
    BY DEF OnlyRequest
  <1> HIDE DEF row
  <1>3. \A q \in Requests : request'[q] = IF q = r THEN row ELSE request[q]
    BY <1>2 DEF BillingAgrees, BillingTypeOK
  <1>4. RequestsHaveTheirAttempt'
    BY <1>1, <1>3 DEF BillingAgrees, RequestsHaveTheirAttempt
  <1>. QED
    BY <1>1, <1>2, <1>4 DEF BillingAgrees, BillingTypeOK

\* Only requests move.
LEMMA RequestAlone ==
    ASSUME BillingAgrees, NEW r \in Requests,
           NEW at \in {"idle", "checked", "reserved", "created"}, NEW a \in Attempts \cup {0},
           OnlyRequest(r, at, a), at \in {"reserved", "created"} => a \in Attempts,
           UNCHANGED <<checkouts, checkoutSessions, paidFor>>
    PROVE  BillingAgrees'
  <1>1. /\ UNCHANGED <<projection, notices, biller, overlapped>>
        /\ request' \in [Requests -> [at : {"idle", "checked", "reserved", "created"},
                                      attempt : Attempts \cup {0}]]
        /\ RequestsHaveTheirAttempt'
    BY RequestMoves
  <1>2. BillingTypeOK' /\ SessionsFollowAttempts'
    BY <1>1 DEF BillingAgrees, BillingTypeOK, SessionsFollowAttempts
  <1>. QED
    BY <1>1, <1>2, CheckoutsMove

LEMMA CheckStep ==
    ASSUME BillingAgrees, NEW r \in Requests, HasNonTerminalSubscription(r)
    PROVE  BillingAgrees'
  BY RequestAlone DEF HasNonTerminalSubscription, stripeBillingVars

LEMMA ReserveStep ==
    ASSUME BillingAgrees, NEW r \in Requests, ReservePendingCheckoutAttempt(r)
    PROVE  BillingAgrees'
  <1>1. UNCHANGED <<checkoutSessions, paidFor>>
    BY DEF ReservePendingCheckoutAttempt, stripeBillingVars
  <1>2. CASE OnlyRequest(r, "idle", 0) /\ UNCHANGED checkouts
    BY <1>1, <1>2, RequestAlone
  <1>3. ASSUME NEW a \in ReservedAttempt, OnlyRequest(r, "reserved", a),
               checkouts' = [checkouts EXCEPT ![a].status = "pending"]
        PROVE  BillingAgrees'
    <2>1. a \in Attempts /\ (checkouts[a].status = "pending" \/ (Pending = {} /\ checkouts[a].status = "none"))
      BY DEF ReservedAttempt, Pending
    <2> PICK old \in AttemptRows, session \in SessionStates, paid \in Subscriptions :
            /\ old = checkouts[a] /\ session = checkoutSessions[a] /\ paid = paidFor[a]
            /\ AttemptIsSound(old, session, paid)
      BY <2>1 DEF BillingAgrees, BillingTypeOK, SessionsFollowAttempts
    <2> DEFINE row == [old EXCEPT !.status = "pending"]
    <2>2. /\ row \in AttemptRows /\ row.status = "pending" /\ row.saved = old.saved
          /\ row.overdue = old.overdue
      BY DEF AttemptRows
    <2>3. checkouts' = [checkouts EXCEPT ![a] = row]
      BY <1>3
    <2> HIDE DEF row
    <2>4. checkoutSessions' = [checkoutSessions EXCEPT ![a] = session]
          /\ paidFor' = [paidFor EXCEPT ![a] = paid]
      BY <1>1, <2>1 DEF BillingAgrees, BillingTypeOK
    <2>5. AttemptIsSound(row, session, paid)
      BY <2>2 DEF AttemptIsSound
    <2>6. session = "expired" => old.status = "pending"
      BY <2>1 DEF AttemptIsSound
    <2>7. /\ UNCHANGED <<projection, notices, biller, overlapped>>
          /\ request' \in [Requests -> [at : {"idle", "checked", "reserved", "created"},
                                        attempt : Attempts \cup {0}]]
          /\ RequestsHaveTheirAttempt'
      BY <1>3, <2>1, RequestMoves
    <2>. QED
      BY <2>1, <2>2, <2>3, <2>4, <2>5, <2>6, <2>7, AttemptMoves
  <1>. QED
    BY <1>2, <1>3 DEF ReservePendingCheckoutAttempt

\* A Session is opened for the one attempt that is pending and in time.
LEMMA CreateSessionStep ==
    ASSUME BillingAgrees, NEW r \in Requests, CreateOrReuseCheckoutSession(r)
    PROVE  BillingAgrees'
  <1> DEFINE a == request[r].attempt
  <1>1. a \in Attempts /\ UNCHANGED <<checkouts, paidFor>>
    BY DEF CreateOrReuseCheckoutSession, BillingAgrees, RequestsHaveTheirAttempt
  <1>2. CASE OnlyRequest(r, "idle", 0) /\ UNCHANGED checkoutSessions
    BY <1>1, <1>2, RequestAlone
  <1>3. ASSUME checkouts[a].status = "pending",
               checkoutSessions[a] # "none" \/ ~checkouts[a].overdue,
               checkoutSessions' = [checkoutSessions EXCEPT ![a] = IF @ = "none" THEN "open" ELSE @],
               OnlyRequest(r, "created", a) \/ OnlyRequest(r, "idle", 0)
        PROVE  BillingAgrees'
    <2> PICK row \in AttemptRows, was \in SessionStates, paid \in Subscriptions :
            /\ row = checkouts[a] /\ was = checkoutSessions[a] /\ paid = paidFor[a]
            /\ AttemptIsSound(row, was, paid)
      BY <1>1 DEF BillingAgrees, BillingTypeOK, SessionsFollowAttempts
    <2> DEFINE session == IF was = "none" THEN "open" ELSE was
    <2>1. session \in SessionStates /\ checkoutSessions' = [checkoutSessions EXCEPT ![a] = session]
      BY <1>3 DEF SessionStates
    <2>2. AttemptIsSound(row, session, paid)
      BY <1>3 DEF AttemptIsSound
    <2>3. was \in {"complete", "expired"} => session = was
      OBVIOUS
    <2> HIDE DEF session
    <2>4. checkouts' = [checkouts EXCEPT ![a] = row] /\ paidFor' = [paidFor EXCEPT ![a] = paid]
      BY <1>1 DEF BillingAgrees, BillingTypeOK
    <2>5. /\ UNCHANGED <<projection, notices, biller, overlapped>>
          /\ request' \in [Requests -> [at : {"idle", "checked", "reserved", "created"},
                                        attempt : Attempts \cup {0}]]
          /\ RequestsHaveTheirAttempt'
      BY <1>1, <1>3, RequestMoves
    <2> HIDE DEF a
    <2>. QED
      BY <1>1, <2>1, <2>2, <2>3, <2>4, <2>5, AttemptMoves
  <1>. QED
    BY <1>2, <1>3 DEF CreateOrReuseCheckoutSession

\* A Session is saved only while the attempt is pending and in time.
LEMMA SaveSessionStep ==
    ASSUME BillingAgrees, NEW r \in Requests, SaveSession(r)
    PROVE  BillingAgrees'
  <1> DEFINE a == request[r].attempt
  <1>1. a \in Attempts /\ UNCHANGED <<checkoutSessions, paidFor>>
    BY DEF SaveSession, BillingAgrees, RequestsHaveTheirAttempt, stripeBillingVars
  <1> PICK old \in AttemptRows, session \in SessionStates, paid \in Subscriptions :
          /\ old = checkouts[a] /\ session = checkoutSessions[a] /\ paid = paidFor[a]
          /\ AttemptIsSound(old, session, paid)
    BY <1>1 DEF BillingAgrees, BillingTypeOK, SessionsFollowAttempts
  <1> PICK saved \in BOOLEAN : saved = (old.saved \/ (old.status = "pending" /\ ~old.overdue))
    BY DEF AttemptRows
  <1> DEFINE row == [old EXCEPT !.saved = saved]
  <1>2. /\ row \in AttemptRows /\ row.status = old.status /\ row.saved = saved
        /\ row.overdue = old.overdue
    BY DEF AttemptRows
  <1>3. checkouts' = [checkouts EXCEPT ![a] = row]
    BY DEF SaveSession, BillingAgrees, BillingTypeOK, AttemptRows
  <1> HIDE DEF row
  <1>4. checkoutSessions' = [checkoutSessions EXCEPT ![a] = session]
        /\ paidFor' = [paidFor EXCEPT ![a] = paid]
    BY <1>1 DEF BillingAgrees, BillingTypeOK
  <1>5. AttemptIsSound(row, session, paid)
    BY <1>2 DEF AttemptIsSound
  <1>6. session = "expired" /\ row.saved => old.saved
    BY <1>2 DEF AttemptIsSound
  <1>7. OnlyRequest(r, "idle", 0)
    BY DEF SaveSession
  <1>8. /\ UNCHANGED <<projection, notices, biller, overlapped>>
        /\ request' \in [Requests -> [at : {"idle", "checked", "reserved", "created"},
                                      attempt : Attempts \cup {0}]]
        /\ RequestsHaveTheirAttempt'
    BY <1>7, RequestMoves
  <1> HIDE DEF a
  <1>. QED
    BY <1>1, <1>2, <1>3, <1>4, <1>5, <1>6, <1>8, AttemptMoves

LEMMA StripeAndClockStep ==
    ASSUME BillingAgrees, NEW a \in Attempts, Pay(a) \/ Cancel(a) \/ HourPasses(a)
    PROVE  BillingAgrees'
  <1> PICK old \in AttemptRows, was \in SessionStates, had \in Subscriptions :
          /\ old = checkouts[a] /\ was = checkoutSessions[a] /\ had = paidFor[a]
          /\ AttemptIsSound(old, was, had)
    BY DEF BillingAgrees, BillingTypeOK, SessionsFollowAttempts
  <1>1. /\ UNCHANGED <<projection, notices, biller, overlapped>>
        /\ request' \in [Requests -> [at : {"idle", "checked", "reserved", "created"},
                                      attempt : Attempts \cup {0}]]
        /\ RequestsHaveTheirAttempt'
    BY DEF Pay, Cancel, HourPasses, OnlyStripe, BillingAgrees, BillingTypeOK,
           RequestsHaveTheirAttempt
  <1>2. /\ checkouts = [checkouts EXCEPT ![a] = old]
        /\ checkoutSessions = [checkoutSessions EXCEPT ![a] = was]
        /\ paidFor = [paidFor EXCEPT ![a] = had]
    BY DEF BillingAgrees, BillingTypeOK
  <1>3. CASE Pay(a)
    <2> DEFINE session == "complete"
               paid == "active"
    <2>1. session \in SessionStates /\ paid \in Subscriptions /\ was = "open"
      BY <1>3 DEF SessionStates, Subscriptions, Pay
    <2>2. /\ checkouts' = [checkouts EXCEPT ![a] = old]
          /\ checkoutSessions' = [checkoutSessions EXCEPT ![a] = session]
          /\ paidFor' = [paidFor EXCEPT ![a] = paid]
      BY <1>2, <1>3 DEF Pay
    <2>3. AttemptIsSound(old, session, paid) /\ had = "none"
      BY <2>1 DEF AttemptIsSound
    <2>. QED
      BY <1>1, <2>1, <2>2, <2>3, AttemptMoves
  <1>4. CASE Cancel(a)
    <2> DEFINE paid == "canceled"
    <2>1. paid \in Subscriptions /\ had = "active"
      BY <1>4 DEF Subscriptions, Cancel
    <2>2. /\ checkouts' = [checkouts EXCEPT ![a] = old]
          /\ checkoutSessions' = [checkoutSessions EXCEPT ![a] = was]
          /\ paidFor' = [paidFor EXCEPT ![a] = paid]
      BY <1>2, <1>4 DEF Cancel
    <2>3. AttemptIsSound(old, was, paid)
      BY <2>1 DEF AttemptIsSound
    <2>. QED
      BY <1>1, <2>1, <2>2, <2>3, AttemptMoves
  <1>5. CASE HourPasses(a)
    <2> DEFINE session == IF was = "open" THEN "expired" ELSE was
               row == [old EXCEPT !.overdue = TRUE]
    <2>1. session \in SessionStates /\ (was \in {"complete", "expired"} => session = was)
          /\ session # "open" /\ (session = "complete" <=> was = "complete")
          /\ (session # "none" => was # "none")
      BY DEF SessionStates
    <2>2. row \in AttemptRows /\ row.status = old.status /\ row.saved = old.saved
          /\ row.overdue = TRUE
      BY DEF AttemptRows
    <2>3. /\ checkouts' = [checkouts EXCEPT ![a] = row]
          /\ checkoutSessions' = [checkoutSessions EXCEPT ![a] = session]
          /\ paidFor' = [paidFor EXCEPT ![a] = had]
      BY <1>2, <1>5 DEF HourPasses
    <2> HIDE DEF session, row
    <2>4. AttemptIsSound(row, session, had)
      BY <2>1, <2>2 DEF AttemptIsSound
    <2>. QED
      BY <1>1, <2>1, <2>2, <2>3, <2>4, AttemptMoves
  <1>. QED
    BY <1>3, <1>4, <1>5

\* The sweep ends attempts whose hour, and so whose Session, is over.
LEMMA SweepStep ==
    ASSUME BillingAgrees, ExpireAbandonedCheckoutAttempts
    PROVE  BillingAgrees'
  <1>1. UNCHANGED <<checkoutSessions, paidFor, request, projection, notices, biller, overlapped>>
    BY DEF ExpireAbandonedCheckoutAttempts, stripeBillingVars, OnlyStripe
  <1>2. ASSUME NEW a \in Attempts
        PROVE  /\ checkouts'[a] \in AttemptRows
               /\ AttemptIsSound(checkouts'[a], checkoutSessions[a], paidFor[a])
               /\ \/ checkouts'[a] = checkouts[a]
                  \/ checkouts'[a].status = "expired"
    <2> PICK old \in AttemptRows, was \in SessionStates, had \in Subscriptions :
            /\ old = checkouts[a] /\ was = checkoutSessions[a] /\ had = paidFor[a]
            /\ AttemptIsSound(old, was, had)
      BY DEF BillingAgrees, BillingTypeOK, SessionsFollowAttempts
    <2>1. CASE a \notin Abandoned
      BY <2>1 DEF ExpireAbandonedCheckoutAttempts
    <2>2. CASE a \in Abandoned
      <3> DEFINE row == [old EXCEPT !.status = "expired"]
      <3>1. row \in AttemptRows /\ row.status = "expired" /\ row.overdue = old.overdue
            /\ old.overdue
        BY <2>2 DEF AttemptRows, Abandoned
      <3>2. checkouts'[a] = row
        BY <2>2 DEF ExpireAbandonedCheckoutAttempts
      <3> HIDE DEF row
      <3>3. AttemptIsSound(row, was, had)
        BY <3>1 DEF AttemptIsSound
      <3>. QED
        BY <3>1, <3>2, <3>3
    <2>. QED
      BY <2>1, <2>2
  <1>3. checkouts' \in [Attempts -> AttemptRows]
    BY <1>2 DEF ExpireAbandonedCheckoutAttempts
  <1>4. BillingTypeOK' /\ RequestsHaveTheirAttempt'
    BY <1>1, <1>3 DEF BillingAgrees, BillingTypeOK, RequestsHaveTheirAttempt
  <1>5. SessionsFollowAttempts'
    BY <1>1, <1>2 DEF BillingAgrees, SessionsFollowAttempts
  <1>. QED
    BY <1>1, <1>2, <1>4, <1>5, CheckoutsMove

\* Events and their workers move; none is completed, and no worker reads.
LEMMA NoticesMove ==
    ASSUME BillingAgrees,
           UNCHANGED <<checkouts, request, checkoutSessions, paidFor, projection>>,
           notices' \in [Notices -> NoticeRows], biller' \in [Billers -> BillerRows],
           overlapped' \in BOOLEAN, overlapped => overlapped',
           \A n \in Notices :
               /\ notices'[n].status # "none" => notices[n].status # "none" \/ Happened(n)
               /\ notices[n].status # "none" => notices'[n].status # "none"
               /\ notices'[n].status = "completed" => notices[n].status = "completed",
           \A w \in Billers :
               \/ biller'[w] \in {biller[w], BillerRests}
               \/ /\ biller'[w].at \in {"claimed", "failed"} /\ biller'[w].notice \in Notices
                  /\ notices'[biller'[w].notice].status # "none",
           ~overlapped' =>
               \A v, w \in Billers : biller'[v] # BillerRests /\ biller'[w] # BillerRests => v = w
    PROVE  BillingAgrees'
  <1>1. \A n \in Notices : Happened(n)' <=> Happened(n)
    BY DEF Happened
  <1>2. BillingTypeOK' /\ RequestsHaveTheirAttempt' /\ SessionsFollowAttempts'
    BY DEF BillingAgrees, BillingTypeOK, RequestsHaveTheirAttempt, SessionsFollowAttempts
  <1>3. NoticesHappened'
    BY <1>1 DEF BillingAgrees, NoticesHappened
  <1>4. ASSUME NEW w \in Billers
        PROVE  BillerIsSound(biller[w])'
    <2>1. CASE biller'[w] = biller[w]
      BY <2>1 DEF BillingAgrees, BillerIsSound
    <2>2. CASE biller'[w] = BillerRests
      BY <2>2 DEF BillerIsSound
    <2>3. CASE /\ biller'[w].at \in {"claimed", "failed"} /\ biller'[w].notice \in Notices
               /\ notices'[biller'[w].notice].status # "none"
      BY <2>3 DEF BillerIsSound
    <2>. QED
      BY <2>1, <2>2, <2>3
  <1>5. EffectsStay'
    BY DEF BillingAgrees, EffectsStay
  <1>6. \A w \in Billers : biller'[w].at = "retrieved" => biller'[w] = biller[w]
    BY DEF BillerRests
  <1>7. WorkWasSerial'
    BY <1>6 DEF BillingAgrees, WorkWasSerial
  <1>. QED
    BY <1>2, <1>3, <1>4, <1>5, <1>7 DEF BillingAgrees

LEMMA BillerRestsType ==
    BillerRests \in BillerRows /\ BillerRests.at = "idle"
  BY DEF BillerRests, BillerRows, Kinds, Subscriptions

LEMMA NoNoticeType ==
    NoNotice \in NoticeRows /\ NoNotice.status = "none"
  BY DEF NoNotice, NoticeRows

\* One event moves while its workers rest or go on as they were.
LEMMA NoticeAlone ==
    ASSUME BillingAgrees, NEW n \in Notices, NEW row \in NoticeRows,
           UNCHANGED <<checkouts, request, checkoutSessions, paidFor, projection, overlapped>>,
           notices' \in {notices, [notices EXCEPT ![n] = row]},
           row.status # "none", notices[n].status # "none" \/ Happened(n),
           row.status = "completed" => notices[n].status = "completed",
           biller' \in [Billers -> BillerRows],
           \A w \in Billers : biller'[w] \in {biller[w], BillerRests}
    PROVE  BillingAgrees'
  <1>1. /\ notices' \in [Notices -> NoticeRows]
        /\ \A m \in Notices : notices'[m] \in {notices[m], IF m = n THEN row ELSE notices[m]}
    BY DEF BillingAgrees, BillingTypeOK
  <1>2. \A m \in Notices :
               /\ notices'[m].status # "none" => notices[m].status # "none" \/ Happened(m)
               /\ notices[m].status # "none" => notices'[m].status # "none"
               /\ notices'[m].status = "completed" => notices[m].status = "completed"
    BY <1>1
  <1>3. overlapped' \in BOOLEAN /\ (overlapped => overlapped')
    BY DEF BillingAgrees, BillingTypeOK
  <1>4. ~overlapped' =>
            \A v, w \in Billers : biller'[v] # BillerRests /\ biller'[w] # BillerRests => v = w
    BY DEF BillingAgrees, WorkWasSerial
  <1>. QED
    BY <1>1, <1>2, <1>3, <1>4, NoticesMove

LEMMA StoreEventStep ==
    ASSUME BillingAgrees, NEW n \in Notices, StoreWebhookEvent(n)
    PROVE  BillingAgrees'
  <1> PICK old \in NoticeRows : old = notices[n]
    BY DEF BillingAgrees, BillingTypeOK
  <1> DEFINE row == [old EXCEPT !.status = "pending"]
  <1>1. row \in NoticeRows /\ row.status = "pending"
    BY DEF NoticeRows
  <1>2. notices' = [notices EXCEPT ![n] = row] /\ Happened(n)
    BY DEF StoreWebhookEvent
  <1> HIDE DEF row
  <1>3. UNCHANGED <<checkouts, request, checkoutSessions, paidFor, projection, overlapped, biller>>
    BY DEF StoreWebhookEvent, OnlyNotices, stripeBillingVars
  <1>4. biller' \in [Billers -> BillerRows] /\ \A w \in Billers : biller'[w] \in {biller[w], BillerRests}
    BY <1>3 DEF BillingAgrees, BillingTypeOK
  <1>. QED
    BY <1>1, <1>2, <1>3, <1>4, NoticeAlone

LEMMA OperatorAndClockStep ==
    ASSUME BillingAgrees, NEW n \in Notices,
           ReplayWebhookEvent(n) \/ PurgeExpiredWebhookPayloads(n) \/ NoticeTime(n)
    PROVE  BillingAgrees'
  <1> PICK old \in NoticeRows : old = notices[n]
    BY DEF BillingAgrees, BillingTypeOK
  <1>1. UNCHANGED <<checkouts, request, checkoutSessions, paidFor, projection, overlapped, biller>>
    BY DEF ReplayWebhookEvent, PurgeExpiredWebhookPayloads, NoticeTime, OnlyNotices,
           stripeBillingVars
  <1>2. biller' \in [Billers -> BillerRows] /\ \A w \in Billers : biller'[w] \in {biller[w], BillerRests}
    BY <1>1 DEF BillingAgrees, BillingTypeOK
  <1>3. CASE ReplayWebhookEvent(n)
    <2> DEFINE row == [NoNotice EXCEPT !.status = "pending"]
    <2>1. row \in NoticeRows /\ row.status = "pending"
      BY NoNoticeType DEF NoticeRows
    <2>2. notices' = [notices EXCEPT ![n] = row] /\ notices[n].status # "none"
      BY <1>3 DEF ReplayWebhookEvent
    <2> HIDE DEF row
    <2>. QED
      BY <1>1, <1>2, <2>1, <2>2, NoticeAlone
  <1>4. ASSUME NEW row \in NoticeRows, notices' = [notices EXCEPT ![n] = row],
               row.status = old.status, old.status # "none"
        PROVE  BillingAgrees'
    BY <1>1, <1>2, <1>4, NoticeAlone
  <1>5. CASE PurgeExpiredWebhookPayloads(n)
    <2> DEFINE row == [old EXCEPT !.payload = FALSE]
    <2>1. row \in NoticeRows /\ row.status = old.status
      BY DEF NoticeRows
    <2>2. notices' = [notices EXCEPT ![n] = row] /\ old.status # "none"
      BY <1>5 DEF PurgeExpiredWebhookPayloads
    <2> HIDE DEF row
    <2>. QED
      BY <1>4, <2>1, <2>2
  <1>6. CASE NoticeTime(n)
    <2>1. CASE notices' = [notices EXCEPT ![n].due = TRUE] /\ old.status = "failed"
      <3> DEFINE row == [old EXCEPT !.due = TRUE]
      <3>1. row \in NoticeRows /\ row.status = old.status
        BY DEF NoticeRows
      <3>2. notices' = [notices EXCEPT ![n] = row]
        BY <2>1
      <3> HIDE DEF row
      <3>. QED
        BY <1>4, <2>1, <3>1, <3>2
    <2>2. CASE notices' = [notices EXCEPT ![n].leased = FALSE] /\ old.status = "none"
      <3> DEFINE row == [old EXCEPT !.leased = FALSE]
      <3>1. \A m \in Notices : notices'[m].status = notices[m].status
        BY <2>2 DEF BillingAgrees, BillingTypeOK, NoticeRows
      <3>2. notices' \in [Notices -> NoticeRows]
        BY <2>2 DEF BillingAgrees, BillingTypeOK, NoticeRows
      <3>3. overlapped' \in BOOLEAN /\ (overlapped => overlapped')
        BY <1>1 DEF BillingAgrees, BillingTypeOK
      <3>4. ~overlapped' => \A v, w \in Billers :
                biller'[v] # BillerRests /\ biller'[w] # BillerRests => v = w
        BY <1>1 DEF BillingAgrees, WorkWasSerial
      <3>. QED
        BY <1>1, <1>2, <3>1, <3>2, <3>3, <3>4, NoticesMove
    <2>3. CASE notices' = [notices EXCEPT ![n].leased = FALSE] /\ old.status # "none"
      <3> DEFINE row == [old EXCEPT !.leased = FALSE]
      <3>1. row \in NoticeRows /\ row.status = old.status
        BY DEF NoticeRows
      <3>2. notices' = [notices EXCEPT ![n] = row]
        BY <2>3
      <3> HIDE DEF row
      <3>. QED
        BY <1>4, <2>3, <3>1, <3>2
    <2>. QED
      BY <1>6, <2>1, <2>2, <2>3 DEF NoticeTime
  <1>. QED
    BY <1>3, <1>5, <1>6

LEMMA ClaimStep ==
    ASSUME BillingAgrees, NEW w \in Billers, NEW n \in Notices, ClaimWebhookEvent(w, n)
    PROVE  BillingAgrees'
  <1> PICK old \in NoticeRows : old = notices[n]
    BY DEF BillingAgrees, BillingTypeOK
  <1>1. UNCHANGED <<checkouts, request, checkoutSessions, paidFor, projection>>
    BY DEF ClaimWebhookEvent, stripeBillingVars
  <1>2. overlapped' = (overlapped \/ \E v \in Billers : biller[v] # BillerRests)
    BY DEF ClaimWebhookEvent
  <1>3. overlapped' \in BOOLEAN /\ (overlapped => overlapped')
    BY <1>2 DEF BillingAgrees, BillingTypeOK
  <1>4. CASE /\ StaleOrFailed(old)
             /\ notices' = [notices EXCEPT ![n] = [@ EXCEPT
                  !.status = "dead_letter", !.owner = NoBiller, !.leased = FALSE]]
             /\ UNCHANGED biller
    <2> DEFINE row == [old EXCEPT !.status = "dead_letter", !.owner = NoBiller, !.leased = FALSE]
    <2>1. row \in NoticeRows /\ row.status = "dead_letter" /\ old.status # "none"
      BY <1>4 DEF NoticeRows, StaleOrFailed
    <2>2. notices' = [notices EXCEPT ![n] = row]
      BY <1>4
    <2> HIDE DEF row
    <2>3. /\ notices' \in [Notices -> NoticeRows]
          /\ \A m \in Notices : notices'[m] = IF m = n THEN row ELSE notices[m]
      BY <2>1, <2>2 DEF BillingAgrees, BillingTypeOK
    <2>4. biller' \in [Billers -> BillerRows] /\ \A v \in Billers : biller'[v] = biller[v]
      BY <1>4 DEF BillingAgrees, BillingTypeOK
    <2>5. ~overlapped' => \A v, u \in Billers :
              biller'[v] # BillerRests /\ biller'[u] # BillerRests => v = u
      BY <1>2, <2>4
    <2>. QED
      BY <1>1, <1>3, <2>1, <2>3, <2>4, <2>5, NoticesMove
  <1>5. CASE /\ old.status = "pending" \/ StaleOrFailed(old)
             /\ notices' = [notices EXCEPT ![n] =
                  [status |-> "processing", attempts |-> old.attempts + 1,
                   due |-> FALSE, owner |-> w, leased |-> TRUE, payload |-> TRUE]]
             /\ biller' = [biller EXCEPT ![w] =
                  [notice |-> n, at |-> "claimed", saw |-> "none"]]
    <2> DEFINE row == [status |-> "processing", attempts |-> old.attempts + 1,
                       due |-> FALSE, owner |-> w, leased |-> TRUE, payload |-> TRUE]
               busy == [notice |-> n, at |-> "claimed", saw |-> "none"]
    <2>1. row \in NoticeRows /\ row.status = "processing" /\ old.status # "none"
      BY <1>5 DEF NoticeRows, StaleOrFailed
    <2>2. busy \in BillerRows /\ busy.at = "claimed" /\ busy.notice = n
      BY DEF BillerRows, Notices, Subscriptions
    <2>3. notices' = [notices EXCEPT ![n] = row] /\ biller' = [biller EXCEPT ![w] = busy]
      BY <1>5
    <2> HIDE DEF row, busy
    <2>4. /\ notices' \in [Notices -> NoticeRows]
          /\ \A m \in Notices : notices'[m] = IF m = n THEN row ELSE notices[m]
      BY <2>1, <2>3 DEF BillingAgrees, BillingTypeOK
    <2>5. /\ biller' \in [Billers -> BillerRows]
          /\ \A v \in Billers : biller'[v] = IF v = w THEN busy ELSE biller[v]
      BY <2>2, <2>3 DEF BillingAgrees, BillingTypeOK
    <2>6. ~overlapped' => \A v, u \in Billers :
              biller'[v] # BillerRests /\ biller'[u] # BillerRests => v = u
      BY <1>2, <2>5
    <2>. QED
      BY <1>1, <1>3, <2>1, <2>2, <2>4, <2>5, <2>6, NoticesMove
  <1>. QED
    BY <1>4, <1>5 DEF ClaimWebhookEvent

\* A worker that is busy has stored its event.
LEMMA BusyWorker ==
    ASSUME BillingAgrees, NEW w \in Billers, biller[w].at # "idle"
    PROVE  /\ biller[w] # BillerRests /\ biller[w].notice \in Notices
           /\ biller[w] \in BillerRows
           /\ notices[biller[w].notice].status # "none" /\ Happened(biller[w].notice)
           /\ biller[w].at = "retrieved" =>
                 /\ biller[w].notice[1] # "expired" /\ biller[w].saw # "none"
                 /\ biller[w].notice[1] = "deleted" => biller[w].saw = "canceled"
  <1>1. biller[w] # BillerRests
    BY BillerRestsType
  <1>. QED
    BY <1>1 DEF BillingAgrees, BillingTypeOK, BillerIsSound, NoticesHappened

LEMMA WorkerRests ==
    ASSUME BillingAgrees, NEW w \in Billers, Sleeps(w)
    PROVE  /\ biller' \in [Billers -> BillerRows]
           /\ \A v \in Billers : biller'[v] = IF v = w THEN BillerRests ELSE biller[v]
  BY BillerRestsType DEF BillingAgrees, BillingTypeOK, Sleeps

LEMMA FailEventStep ==
    ASSUME BillingAgrees, NEW w \in Billers, FailWebhookEvent(w) \/ BillerDies(w)
    PROVE  BillingAgrees'
  <1>1. UNCHANGED <<checkouts, request, checkoutSessions, paidFor, projection, overlapped>>
        /\ Sleeps(w)
    BY DEF FailWebhookEvent, BillerDies, OnlyNotices, stripeBillingVars
  <1>2. /\ biller' \in [Billers -> BillerRows]
        /\ \A v \in Billers : biller'[v] \in {biller[v], BillerRests}
    BY <1>1, WorkerRests
  <1>3. ASSUME UNCHANGED notices
        PROVE  BillingAgrees'
    <2>1. overlapped' \in BOOLEAN /\ (overlapped => overlapped')
      BY <1>1 DEF BillingAgrees, BillingTypeOK
    <2>2. ~overlapped' => \A v, u \in Billers :
              biller'[v] # BillerRests /\ biller'[u] # BillerRests => v = u
      BY <1>1, <1>2 DEF BillingAgrees, WorkWasSerial
    <2>3. notices' \in [Notices -> NoticeRows]
      BY <1>3 DEF BillingAgrees, BillingTypeOK
    <2>. QED
      BY <1>1, <1>2, <1>3, <2>1, <2>2, <2>3, NoticesMove
  <1>4. CASE FailWebhookEvent(w) /\ OwnedClaim(w, biller[w].notice)
    <2> DEFINE n == biller[w].notice
    <2>1. n \in Notices
      BY <1>4, BusyWorker DEF FailWebhookEvent
    <2> PICK old \in NoticeRows : old = notices[n]
      BY <2>1 DEF BillingAgrees, BillingTypeOK
    <2> PICK status \in {"dead_letter", "failed"} : notices' = ClosedAs(n, status)
      BY <1>4 DEF FailWebhookEvent
    <2> DEFINE row == [old EXCEPT !.status = status, !.owner = NoBiller, !.leased = FALSE]
    <2>2. row \in NoticeRows /\ row.status = status /\ old.status = "processing"
      BY <1>4 DEF NoticeRows, OwnedClaim
    <2>3. notices' = [notices EXCEPT ![n] = row]
      BY DEF ClosedAs
    <2> HIDE DEF row, n
    <2>. QED
      BY <1>1, <1>2, <2>1, <2>2, <2>3, NoticeAlone
  <1>. QED
    BY <1>3, <1>4 DEF FailWebhookEvent, BillerDies

LEMMA RetrieveStep ==
    ASSUME BillingAgrees, NEW w \in Billers, RetrieveSubscription(w)
    PROVE  BillingAgrees'
  <1> DEFINE n == biller[w].notice
  <1> PICK old \in BillerRows : old = biller[w]
    BY DEF BillingAgrees, BillingTypeOK
  <1>1. UNCHANGED <<checkouts, request, checkoutSessions, paidFor, projection, overlapped, notices>>
    BY DEF RetrieveSubscription, OnlyNotices, stripeBillingVars
  <1>2. /\ old.at = "claimed" /\ old # BillerRests /\ n \in Notices /\ n[1] # "expired"
        /\ notices[n].status # "none" /\ Happened(n)
    BY BusyWorker DEF RetrieveSubscription
  <1>3. overlapped' \in BOOLEAN /\ notices' \in [Notices -> NoticeRows]
    BY <1>1 DEF BillingAgrees, BillingTypeOK
  <1>4. CASE biller' = [biller EXCEPT ![w].at = "failed"]
    <2> DEFINE row == [old EXCEPT !.at = "failed"]
    <2>1. row \in BillerRows /\ row.at = "failed" /\ row.notice = n
      BY DEF BillerRows
    <2>2. biller' = [biller EXCEPT ![w] = row]
      BY <1>4
    <2> HIDE DEF row, n
    <2>3. /\ biller' \in [Billers -> BillerRows]
          /\ \A v \in Billers : biller'[v] = IF v = w THEN row ELSE biller[v]
      BY <2>1, <2>2 DEF BillingAgrees, BillingTypeOK
    <2>4. ~overlapped' => \A v, u \in Billers :
              biller'[v] # BillerRests /\ biller'[u] # BillerRests => v = u
      BY <1>1, <1>2, <2>3 DEF BillingAgrees, WorkWasSerial
    <2>. QED
      BY <1>1, <1>2, <1>3, <2>1, <2>3, <2>4, NoticesMove
  <1>5. CASE biller' = [biller EXCEPT ![w].at = "retrieved", ![w].saw = Retrieved(n)]
    <2> PICK saw \in Subscriptions : saw = paidFor[n[2]]
      BY <1>2, NoticeParts DEF BillingAgrees, BillingTypeOK
    <2>1. saw # "none" /\ (n[1] = "deleted" => saw = "canceled")
      BY <1>2, NoticeParts DEF Happened, Kinds, BillingAgrees, SessionsFollowAttempts, AttemptIsSound
    <2> DEFINE row == [old EXCEPT !.at = "retrieved", !.saw = saw]
    <2>2. row \in BillerRows /\ row.at = "retrieved" /\ row.notice = n /\ row.saw = saw
      BY DEF BillerRows
    <2>3. biller' = [biller EXCEPT ![w] = row]
      BY <1>5 DEF Retrieved
    <2> HIDE DEF row, n
    <2>4. /\ biller' \in [Billers -> BillerRows]
          /\ \A v \in Billers : biller'[v] = IF v = w THEN row ELSE biller[v]
      BY <2>2, <2>3 DEF BillingAgrees, BillingTypeOK
    <2>5. BillingTypeOK' /\ RequestsHaveTheirAttempt' /\ SessionsFollowAttempts' /\ EffectsStay'
      BY <1>1, <2>4 DEF BillingAgrees, BillingTypeOK, RequestsHaveTheirAttempt,
            SessionsFollowAttempts, EffectsStay
    <2>6. NoticesHappened'
      BY <1>1 DEF BillingAgrees, NoticesHappened, Happened
    <2>7. (\A v \in Billers : BillerIsSound(biller[v]))'
      BY <1>1, <1>2, <2>1, <2>2, <2>4 DEF BillingAgrees, BillerIsSound
    <2>8. \A m \in Notices : notices[m].status = "completed" /\ m[1] = "deleted" =>
              paidFor[m[2]] = "canceled"
      BY DEF BillingAgrees, NoticesHappened, Happened
    <2>9. WorkWasSerial'
      BY <1>1, <1>2, <2>2, <2>4, <2>8 DEF BillingAgrees, WorkWasSerial
    <2>. QED
      BY <2>5, <2>6, <2>7, <2>9 DEF BillingAgrees
  <1>. QED
    BY <1>4, <1>5 DEF RetrieveSubscription

CancellationIsDone(a) ==
    \E m \in Notices : notices[m].status = "completed" /\ m[1] = "deleted" /\ m[2] = a

\* What a worker that completes event n may do to its attempt and to the
\* record of its subscription.
EffectIsSound(n, a, row, known) ==
    /\ AttemptIsSound(row, checkoutSessions[a], paidFor[a])
    /\ row.status = "pending" => row = checkouts[a]
    /\ row.status = "completed" => known # "none"
    /\ projection[a] # "none" => known # "none"
    /\ n[1] = "completed" => known # "none"
    /\ n[1] = "expired" => ~(row.status = "pending" /\ row.saved)
    /\ known = "active" => NonTerminal \ {a} = {}
    /\ ~overlapped /\ (n[1] = "deleted" \/ CancellationIsDone(a)) => known = "canceled"

\* A worker completes its event: the attempt and the record of its
\* subscription change in the same transaction.
LEMMA EventCompletes ==
    ASSUME BillingAgrees, NEW w \in Billers, NEW n, NEW a \in Attempts,
           n = biller[w].notice, a = n[2], biller[w].at # "idle",
           Sleeps(w), OwnedClaim(w, n), notices' = ClosedAs(n, "completed"),
           UNCHANGED <<request, checkoutSessions, paidFor, overlapped>>,
           NEW row \in AttemptRows, NEW known \in Subscriptions,
           checkouts' = [checkouts EXCEPT ![a] = row],
           projection' = [projection EXCEPT ![a] = known],
           EffectIsSound(n, a, row, known)
    PROVE  BillingAgrees'
  <1>1. n \in Notices /\ biller[w] # BillerRests /\ Happened(n)
    BY BusyWorker
  <1> USE DEF EffectIsSound
  <1> PICK old \in NoticeRows : old = notices[n]
    BY <1>1 DEF BillingAgrees, BillingTypeOK
  <1> DEFINE closed == [old EXCEPT !.status = "completed", !.owner = NoBiller, !.leased = FALSE]
  <1>2. closed \in NoticeRows /\ closed.status = "completed" /\ old.status = "processing"
    BY DEF NoticeRows, OwnedClaim
  <1>3. notices' = [notices EXCEPT ![n] = closed]
    BY DEF ClosedAs
  <1> HIDE DEF closed
  <1>4. /\ notices' \in [Notices -> NoticeRows]
        /\ \A m \in Notices : notices'[m] = IF m = n THEN closed ELSE notices[m]
    BY <1>1, <1>2, <1>3 DEF BillingAgrees, BillingTypeOK
  <1>5. /\ checkouts' \in [Attempts -> AttemptRows]
        /\ \A b \in Attempts : checkouts'[b] = IF b = a THEN row ELSE checkouts[b]
    BY DEF BillingAgrees, BillingTypeOK
  <1>6. /\ projection' \in [Attempts -> Subscriptions]
        /\ \A b \in Attempts : projection'[b] = IF b = a THEN known ELSE projection[b]
    BY DEF BillingAgrees, BillingTypeOK
  <1>7. /\ biller' \in [Billers -> BillerRows]
        /\ \A v \in Billers : biller'[v] = IF v = w THEN BillerRests ELSE biller[v]
    BY WorkerRests
  <1>8. BillingTypeOK' /\ RequestsHaveTheirAttempt'
    BY <1>4, <1>5, <1>6, <1>7 DEF BillingAgrees, BillingTypeOK, RequestsHaveTheirAttempt
  <1>9. SessionsFollowAttempts'
    BY <1>5 DEF BillingAgrees, SessionsFollowAttempts
  <1>10. NoticesHappened'
    BY <1>1, <1>4 DEF BillingAgrees, NoticesHappened, Happened
  <1>11. (\A v \in Billers : BillerIsSound(biller[v]))'
    <2>1. \A m \in Notices : notices[m].status # "none" => notices'[m].status # "none"
      BY <1>2, <1>4
    <2>. QED
      BY <1>7, <2>1 DEF BillingAgrees, BillerIsSound
  <1>12. EffectsStay'
    <2>1. ASSUME NEW m \in Notices, notices'[m].status = "completed"
          PROVE  /\ m[1] = "completed" => projection'[m[2]] # "none"
                 /\ m[1] = "expired" => ~(checkouts'[m[2]].status = "pending" /\ checkouts'[m[2]].saved)
      <3>1. m[2] \in Attempts
        BY NoticeParts
      <3>2. CASE m = n
        BY <1>5, <1>6, <3>1, <3>2
      <3>3. CASE m # n
        BY <1>4, <1>5, <1>6, <2>1, <3>1, <3>3 DEF BillingAgrees, EffectsStay
      <3>. QED
        BY <3>2, <3>3
    <2>2. \A b \in Attempts : checkouts'[b].status = "completed" => projection'[b] # "none"
      BY <1>5, <1>6 DEF BillingAgrees, EffectsStay
    <2>3. \A b, c \in Attempts : projection'[b] = "active" /\ projection'[c] = "active" => b = c
      BY <1>6 DEF BillingAgrees, EffectsStay, NonTerminal
    <2>. QED
      BY <2>1, <2>2, <2>3 DEF EffectsStay
  <1>13. WorkWasSerial'
    <2> SUFFICES ASSUME ~overlapped
                 PROVE  WorkWasSerial'
      BY DEF WorkWasSerial
    <2>1. \A v \in Billers : biller'[v] = BillerRests
      BY <1>1, <1>7 DEF BillingAgrees, WorkWasSerial
    <2>2. \A m \in Notices : notices'[m].status = "completed" /\ m[1] = "deleted" =>
              projection'[m[2]] = "canceled"
      <3> SUFFICES ASSUME NEW m \in Notices, notices'[m].status = "completed", m[1] = "deleted"
                   PROVE  projection'[m[2]] = "canceled"
        OBVIOUS
      <3>1. m[2] \in Attempts
        BY NoticeParts
      <3>2. CASE m = n
        BY <1>6, <3>1, <3>2
      <3>3. CASE m # n /\ m[2] = a
        BY <1>4, <1>6, <3>3 DEF CancellationIsDone
      <3>4. CASE m # n /\ m[2] # a
        BY <1>4, <1>6, <3>1, <3>4 DEF BillingAgrees, WorkWasSerial
      <3>. QED
        BY <3>2, <3>3, <3>4
    <2>. QED
      BY <2>1, <2>2, BillerRestsType DEF WorkWasSerial
  <1>. QED
    BY <1>8, <1>9, <1>10, <1>11, <1>12, <1>13 DEF BillingAgrees

\* A worker whose claim is gone, or whose call failed, changes no event.
LEMMA WorkerGoesOn ==
    ASSUME BillingAgrees, NEW w \in Billers,
           UNCHANGED <<checkouts, request, checkoutSessions, paidFor, projection, overlapped, notices>>,
           \/ Sleeps(w)
           \/ biller[w].at # "idle" /\ biller' = [biller EXCEPT ![w].at = "failed"]
    PROVE  BillingAgrees'
  <1>1. overlapped' \in BOOLEAN /\ notices' \in [Notices -> NoticeRows]
    BY DEF BillingAgrees, BillingTypeOK
  <1>2. CASE Sleeps(w)
    <2>1. ~overlapped' => \A v, u \in Billers :
              biller'[v] # BillerRests /\ biller'[u] # BillerRests => v = u
      BY <1>2, WorkerRests DEF BillingAgrees, WorkWasSerial
    <2>2. /\ biller' \in [Billers -> BillerRows]
          /\ \A v \in Billers : biller'[v] \in {biller[v], BillerRests}
      BY <1>2, WorkerRests
    <2>. QED
      BY <1>1, <2>1, <2>2, NoticesMove
  <1>3. CASE biller[w].at # "idle" /\ biller' = [biller EXCEPT ![w].at = "failed"]
    <2> PICK old \in BillerRows : old = biller[w]
      BY DEF BillingAgrees, BillingTypeOK
    <2> DEFINE row == [old EXCEPT !.at = "failed"]
    <2>1. /\ row \in BillerRows /\ row.at = "failed" /\ row.notice = old.notice
          /\ old # BillerRests /\ old.notice \in Notices /\ notices[old.notice].status # "none"
      BY <1>3, BusyWorker DEF BillerRows
    <2>2. biller' = [biller EXCEPT ![w] = row]
      BY <1>3
    <2> HIDE DEF row
    <2>3. /\ biller' \in [Billers -> BillerRows]
          /\ \A v \in Billers : biller'[v] = IF v = w THEN row ELSE biller[v]
      BY <2>1, <2>2 DEF BillingAgrees, BillingTypeOK
    <2>4. ~overlapped' => \A v, u \in Billers :
              biller'[v] # BillerRests /\ biller'[u] # BillerRests => v = u
      BY <2>1, <2>3 DEF BillingAgrees, WorkWasSerial
    <2>. QED
      BY <1>1, <2>1, <2>3, <2>4, NoticesMove
  <1>. QED
    BY <1>2, <1>3

LEMMA ExpireEventStep ==
    ASSUME BillingAgrees, NEW w \in Billers, ExpireCheckoutAttemptAndCompleteEvent(w)
    PROVE  BillingAgrees'
  <1> DEFINE n == biller[w].notice
             a == n[2]
  <1>1. /\ UNCHANGED <<request, checkoutSessions, paidFor, projection, overlapped>>
        /\ Sleeps(w) /\ biller[w].at = "claimed" /\ n[1] = "expired"
    BY DEF ExpireCheckoutAttemptAndCompleteEvent, stripeBillingVars
  <1>2. n \in Notices /\ a \in Attempts /\ Happened(n)
    BY <1>1, BusyWorker, NoticeParts
  <1>3. CASE ~OwnedClaim(w, n)
    <2>1. UNCHANGED <<checkouts, notices>>
      BY <1>3 DEF ExpireCheckoutAttemptAndCompleteEvent
    <2>. QED
      BY <1>1, <2>1, WorkerGoesOn
  <1>4. CASE OwnedClaim(w, n)
    <2> PICK old \in AttemptRows, known \in Subscriptions :
            /\ old = checkouts[a] /\ known = projection[a]
            /\ AttemptIsSound(old, checkoutSessions[a], paidFor[a])
            /\ old.status = "completed" => known # "none"
      BY <1>2 DEF BillingAgrees, BillingTypeOK, SessionsFollowAttempts, EffectsStay
    <2> DEFINE status == IF old.status = "pending" /\ old.saved THEN "expired" ELSE old.status
               row == [old EXCEPT !.status = status]
    <2>1. /\ row \in AttemptRows /\ row.saved = old.saved /\ row.overdue = old.overdue
          /\ row.status = status
      BY DEF AttemptRows
    <2>2. row.status = "pending" => row = old
      BY DEF AttemptRows
    <2>3. checkouts' = [checkouts EXCEPT ![a] = row] /\ notices' = ClosedAs(n, "completed")
      BY <1>4 DEF ExpireCheckoutAttemptAndCompleteEvent
    <2>4. projection' = [projection EXCEPT ![a] = known]
      BY <1>1, <1>2 DEF BillingAgrees, BillingTypeOK
    <2>5. checkoutSessions[a] = "expired"
      BY <1>1, <1>2 DEF Happened
    <2> HIDE DEF row
    <2>6. AttemptIsSound(row, checkoutSessions[a], paidFor[a])
      BY <2>1, <2>5 DEF AttemptIsSound
    <2>7. known = "active" => NonTerminal \ {a} = {}
      BY <1>2 DEF NonTerminal, BillingAgrees, EffectsStay
    <2>8. ASSUME ~overlapped, n[1] = "deleted" \/ CancellationIsDone(a)
          PROVE  known = "canceled"
      BY <1>1, <2>8 DEF BillingAgrees, WorkWasSerial, CancellationIsDone
    <2>9. ~(row.status = "pending" /\ row.saved) /\ (row.status = "completed" => known # "none")
      BY <2>1
    <2> HIDE DEF status
    <2>10. n[1] # "completed" /\ (projection[a] # "none" => known # "none")
      BY <1>1
    <2>11. EffectIsSound(n, a, row, known)
      BY <1>1, <1>2, <2>2, <2>9, <2>10, <2>6, <2>7, <2>8 DEF EffectIsSound
    <2>12. /\ OwnedClaim(w, n) /\ notices' = ClosedAs(n, "completed") /\ row \in AttemptRows
           /\ checkouts' = [checkouts EXCEPT ![a] = row]
           /\ projection' = [projection EXCEPT ![a] = known] /\ Sleeps(w)
           /\ biller[w].at # "idle" /\ a \in Attempts
      BY <1>1, <1>2, <1>4, <2>1, <2>3, <2>4
    <2>13. UNCHANGED <<request, checkoutSessions, paidFor, overlapped>>
      BY <1>1
    <2> HIDE DEF status
    <2>. QED
      BY <2>11, <2>12, <2>13, EventCompletes
  <1>. QED
    BY <1>3, <1>4

LEMMA ReconcileStep ==
    ASSUME BillingAgrees, NEW w \in Billers, ReconcileSubscriptionAndCompleteEvent(w)
    PROVE  BillingAgrees'
  <1> DEFINE n == biller[w].notice
             a == n[2]
  <1>1. /\ UNCHANGED <<request, checkoutSessions, paidFor, overlapped>>
        /\ biller[w].at = "retrieved"
    BY DEF ReconcileSubscriptionAndCompleteEvent, stripeBillingVars
  <1>2. /\ n \in Notices /\ a \in Attempts /\ Happened(n) /\ biller[w] # BillerRests
        /\ n[1] # "expired" /\ biller[w].saw # "none" /\ (n[1] = "deleted" => biller[w].saw = "canceled")
        /\ biller[w] \in BillerRows
    BY <1>1, BusyWorker, NoticeParts
  <1>3. CASE ~OwnedClaim(w, n) \/ IsSecond(w)
    <2>1. UNCHANGED <<projection, checkouts, notices>>
          /\ (Sleeps(w) \/ biller' = [biller EXCEPT ![w].at = "failed"])
      BY <1>3 DEF ReconcileSubscriptionAndCompleteEvent
    <2>. QED
      BY <1>1, <2>1, WorkerGoesOn
  <1>4. CASE OwnedClaim(w, n) /\ ~IsSecond(w)
    <2> PICK old \in AttemptRows, known \in Subscriptions :
            /\ old = checkouts[a] /\ known = biller[w].saw
            /\ AttemptIsSound(old, checkoutSessions[a], paidFor[a])
      BY <1>2 DEF BillingAgrees, BillingTypeOK, SessionsFollowAttempts, BillerRows
    <2> DEFINE status == IF n[1] = "completed" /\ old.saved /\ old.status = "pending"
                         THEN "completed" ELSE old.status
               row == [old EXCEPT !.status = status]
    <2>1. /\ row \in AttemptRows /\ row.saved = old.saved /\ row.overdue = old.overdue
          /\ row.status = status
      BY DEF AttemptRows
    <2>2. row.status = "pending" => row = old
      BY DEF AttemptRows
    <2>3. /\ checkouts' = [checkouts EXCEPT ![a] = row] /\ notices' = ClosedAs(n, "completed")
          /\ projection' = [projection EXCEPT ![a] = known] /\ Sleeps(w)
      BY <1>4 DEF ReconcileSubscriptionAndCompleteEvent
    <2>5. n[1] = "completed" => checkoutSessions[a] = "complete"
      BY <1>2 DEF Happened
    <2> HIDE DEF row
    <2>6. AttemptIsSound(row, checkoutSessions[a], paidFor[a])
      BY <2>1, <2>5 DEF AttemptIsSound
    <2>7. known = "active" => NonTerminal \ {a} = {}
      BY <1>4 DEF IsSecond
    <2>8. ASSUME ~overlapped, n[1] = "deleted" \/ CancellationIsDone(a)
          PROVE  known = "canceled"
      BY <1>1, <1>2, <2>8 DEF BillingAgrees, WorkWasSerial, CancellationIsDone
    <2>11. EffectIsSound(n, a, row, known)
      BY <1>1, <1>2, <2>2, <2>6, <2>7, <2>8 DEF EffectIsSound
    <2>12. /\ OwnedClaim(w, n) /\ notices' = ClosedAs(n, "completed") /\ row \in AttemptRows
           /\ checkouts' = [checkouts EXCEPT ![a] = row]
           /\ projection' = [projection EXCEPT ![a] = known] /\ Sleeps(w)
           /\ biller[w].at # "idle" /\ a \in Attempts
      BY <1>1, <1>2, <1>4, <2>1, <2>3, <2>3
    <2> HIDE DEF status
    <2>. QED
      BY <1>1, <2>11, <2>12, EventCompletes
  <1>. QED
    BY <1>3, <1>4

LEMMA BillingBegins ==
    ASSUME BillingInit
    PROVE  BillingAgrees
  <1>1. \A r \in Requests : request[r].at = "idle"
    BY DEF BillingInit
  <1>2. BillingTypeOK
    BY BillerRestsType, NoNoticeType
       DEF BillingInit, BillingTypeOK, AttemptRows, SessionStates, Subscriptions
  <1>3. SessionsFollowAttempts
    BY DEF BillingInit, SessionsFollowAttempts, AttemptIsSound
  <1>4. NoticesHappened /\ EffectsStay /\ (\A w \in Billers : BillerIsSound(biller[w]))
    BY NoNoticeType, NoticeParts DEF BillingInit, NoticesHappened, EffectsStay, BillerIsSound
  <1>5. WorkWasSerial
    BY NoNoticeType DEF BillingInit, WorkWasSerial
  <1>. QED
    BY <1>1, <1>2, <1>3, <1>4, <1>5 DEF BillingAgrees, RequestsHaveTheirAttempt

LEMMA BillingStep ==
    ASSUME BillingAgrees, [BillingNext]_billingVars
    PROVE  BillingAgrees'
  <1>1. CASE UNCHANGED billingVars
    BY <1>1 DEF billingVars, BillingAgrees, BillingTypeOK, RequestsHaveTheirAttempt,
          SessionsFollowAttempts, NoticesHappened, Happened, BillerIsSound, EffectsStay,
          WorkWasSerial
  <1>2. ASSUME NEW r \in Requests, RequestStep(r)
        PROVE  BillingAgrees'
    BY <1>2, CheckStep, ReserveStep, CreateSessionStep, SaveSessionStep DEF RequestStep
  <1>3. ASSUME NEW a \in Attempts, Pay(a) \/ Cancel(a) \/ HourPasses(a)
        PROVE  BillingAgrees'
    BY <1>3, StripeAndClockStep
  <1>4. CASE ExpireAbandonedCheckoutAttempts
    BY <1>4, SweepStep
  <1>5. ASSUME NEW n \in Notices,
               \/ StoreWebhookEvent(n) \/ ReplayWebhookEvent(n)
               \/ PurgeExpiredWebhookPayloads(n) \/ NoticeTime(n)
        PROVE  BillingAgrees'
    BY <1>5, StoreEventStep, OperatorAndClockStep
  <1>6. ASSUME NEW w \in Billers, BillerStep(w) \/ BillerDies(w)
        PROVE  BillingAgrees'
    BY <1>6, ClaimStep, ExpireEventStep, RetrieveStep, ReconcileStep, FailEventStep
       DEF BillerStep
  <1>. QED
    BY <1>1, <1>2, <1>3, <1>4, <1>5, <1>6 DEF BillingNext

\* Whatever order requests, Stripe, the sweep and the workers take, the rows of
\* the attempts, their Sessions, the events and the recorded subscriptions
\* agree: at most one attempt is pending and only it has an open Session, an
\* event is stored only after what it tells of happened, and what a completed
\* event wrote is never lost (billing-checkout.service.ts, billing-webhook*.ts).
THEOREM BillingConsistency == BillingSpec => []BillingAgrees
  <1>1. BillingInit => BillingAgrees
    BY BillingBegins
  <1>2. BillingAgrees /\ [BillingNext]_billingVars => BillingAgrees'
    BY BillingStep
  <1>. QED
    BY <1>1, <1>2, PTL DEF BillingSpec

\* A Store has one Session open at most, a completed event has its effect, a
\* Store has one current subscription at most; and while no two workers were
\* busy at a time, a late or reordered event does not bring back a cancelled
\* subscription.
THEOREM BillingIsTrue == BillingSpec => []BillingTellsTheTruth
  <1>1. ASSUME BillingAgrees
        PROVE  BillingTellsTheTruth
    <2>1. OneSessionOpen
      <3>1. \A a, b \in {c \in Attempts : checkoutSessions[c] = "open"} : a = b
        BY <1>1 DEF BillingAgrees, SessionsFollowAttempts, AttemptIsSound
      <3>. QED
        BY <3>1, OneAtMost DEF OneSessionOpen
    <2>2. FinishedEventsTookEffect
      <3>1. \A a, b \in NonTerminal : a = b
        BY <1>1 DEF NonTerminal, BillingAgrees, EffectsStay
      <3>2. Cardinality(NonTerminal) <= 1
        BY <3>1, OneAtMost
      <3>3. ASSUME NEW a \in Attempts
            PROVE  /\ <<"completed", a>> \in Notices /\ <<"completed", a>>[1] = "completed"
                   /\ <<"completed", a>>[2] = a
                   /\ <<"expired", a>> \in Notices /\ <<"expired", a>>[1] = "expired"
                   /\ <<"expired", a>>[2] = a
        BY DEF Notices, Kinds
      <3>4. ASSUME NEW a \in Attempts
            PROVE  /\ notices[<<"completed", a>>].status = "completed" => projection[a] # "none"
                   /\ notices[<<"expired", a>>].status = "completed" =>
                         ~(checkouts[a].status = "pending" /\ checkouts[a].saved)
        BY <1>1, <3>3 DEF BillingAgrees, EffectsStay
      <3>5. ASSUME NEW a \in Attempts
            PROVE  /\ checkouts[a].status = "completed" => projection[a] # "none"
                   /\ checkouts[a].status = "expired" => checkoutSessions[a] # "open"
        BY <1>1 DEF BillingAgrees, EffectsStay, SessionsFollowAttempts, AttemptIsSound
      <3>. QED
        BY <3>2, <3>4, <3>5 DEF FinishedEventsTookEffect
    <2>3. DelayedEventsDoNotOverwrite
      <3> SUFFICES ASSUME NEW a \in Attempts, ~overlapped,
                          notices[<<"deleted", a>>].status = "completed"
                   PROVE  projection[a] = paidFor[a]
        BY DEF DelayedEventsDoNotOverwrite
      <3>1. <<"deleted", a>> \in Notices /\ <<"deleted", a>>[1] = "deleted" /\ <<"deleted", a>>[2] = a
        BY DEF Notices, Kinds
      <3>2. projection[a] = "canceled"
        BY <1>1, <3>1 DEF BillingAgrees, WorkWasSerial
      <3>3. paidFor[a] = "canceled"
        BY <1>1, <3>1 DEF BillingAgrees, NoticesHappened, Happened
      <3>. QED
        BY <3>2, <3>3
    <2>. QED
      BY <2>1, <2>2, <2>3 DEF BillingTellsTheTruth
  <1>. QED
    BY <1>1, BillingConsistency, PTL

(***************************************************************************)
(* Rows of the outbox                                                      *)
(***************************************************************************)
\* A row that is not settled has an attempt left.
IntentIsSound(row) ==
    row.state \in {"absent", "waiting"} => row.attempts < OutboxMaxAttempts

LEMMA NoIntentType ==
    NoIntent \in OutboxRow /\ NoIntent.state = "absent" /\ IntentIsSound(NoIntent)
  BY OutboxAssumption DEF NoIntent, OutboxRow, IntentIsSound

\* What the operations of the outbox do to one row.
LEMMA IntentMoves ==
    ASSUME NEW row \in OutboxRow, IntentIsSound(row)
    PROVE  /\ Write(row) \in OutboxRow /\ IntentIsSound(Write(row))
           /\ Write(row).state = IF row.state = "absent" THEN "waiting" ELSE row.state
           /\ Claim(row) \in OutboxRow /\ IntentIsSound(Claim(row)) /\ Claim(row).state = row.state
           /\ Wake(row) \in OutboxRow /\ IntentIsSound(Wake(row)) /\ Wake(row).state = row.state
           /\ MarkPublished(row) \in OutboxRow /\ IntentIsSound(MarkPublished(row))
           /\ MarkPublished(row).state =
                 IF row.state = "waiting" THEN "published" ELSE row.state
           /\ RescheduleIntent(row) \in OutboxRow /\ IntentIsSound(RescheduleIntent(row))
           /\ \/ RescheduleIntent(row).state = row.state
              \/ row.state = "waiting" /\ RescheduleIntent(row).state = "dead"
  <1> USE OutboxAssumption DEF OutboxRow, IntentIsSound
  <1>1. /\ Write(row) \in OutboxRow /\ IntentIsSound(Write(row))
        /\ Write(row).state = IF row.state = "absent" THEN "waiting" ELSE row.state
    BY DEF Write
  <1>2. Claim(row) \in OutboxRow /\ IntentIsSound(Claim(row)) /\ Claim(row).state = row.state
    BY DEF Claim
  <1>3. Wake(row) \in OutboxRow /\ IntentIsSound(Wake(row)) /\ Wake(row).state = row.state
    BY DEF Wake
  <1>4. /\ MarkPublished(row) \in OutboxRow /\ IntentIsSound(MarkPublished(row))
        /\ MarkPublished(row).state = IF row.state = "waiting" THEN "published" ELSE row.state
    BY DEF MarkPublished
  <1>5. /\ RescheduleIntent(row) \in OutboxRow /\ IntentIsSound(RescheduleIntent(row))
        /\ \/ RescheduleIntent(row).state = row.state
           \/ row.state = "waiting" /\ RescheduleIntent(row).state = "dead"
    BY DEF RescheduleIntent
  <1>. QED
    BY <1>1, <1>2, <1>3, <1>4, <1>5

(***************************************************************************)
(* E-mails of orders                                                       *)
(***************************************************************************)
\* One step of Postbox on one mail, or none.
PostMoves(before, after, had, has) ==
    \/ after = before /\ has = had
    \/ before = "none" /\ after = "waiting" /\ has = had
    \/ before # "none" /\ after = before /\ had = 0 /\ has = 1
    \/ before = "waiting" /\ after = "sent" /\ had = 1 /\ has = 1
    \/ before \in {"none", "waiting"} /\ after = "stopped" /\ has = had

OutcomeOf(intent, row) ==
    CASE intent.state = "absent" -> "none"
      [] row.status = "sent" -> "sent"
      [] row.status \in {"suppressed", "dead_lettered"} -> "stopped"
      [] OTHER -> "waiting"

\* Intent, delivery row and provider of one e-mail agree; only a delivery that
\* is being sent has a token.
MailIsSound(intent, row, taken) ==
    /\ IntentIsSound(intent) /\ taken \in {0, 1}
    /\ intent.state = "published" => row.status # "none"
    /\ row.status # "none" => intent.state # "absent"
    /\ row.status \in Open \cup {"none"} => row.attempts < MailMaxAttempts
    /\ row.token # NoSender => row.status = "sending"
    /\ row.status = "sent" => taken = 1

\* What a dispatcher knows of an e-mail it is dealing with.
StageIsSound(stage, intent, row) ==
    /\ stage # "no" => intent.state # "absent"
    /\ stage \in {"ensured", "queued", "marked", "due", "requeued"} => row.status # "none"

\* What a sender knows of the e-mail it is sending.
JobIsSound(job) ==
    job.at # "idle" =>
        /\ job.mail \in Transitions /\ deliveries[job.mail].status # "none"
        /\ job.at = "accepted" => accepted[job.mail] = 1

OrderMailsAgree ==
    /\ OrderEmailsTypeOK
    /\ \A m \in Transitions : MailIsSound(intents[m], deliveries[m], accepted[m])
    /\ \A d \in Dispatchers, m \in Transitions :
          StageIsSound(handling[d][m], intents[m], deliveries[m])
    /\ \A w \in Senders : JobIsSound(sending[w])

OrderPostStep == [OrderPost!PostNext]_<<OrderOutcome, accepted>>

LEMMA OutcomeIs ==
    \A m \in Transitions : OrderOutcome[m] = OutcomeOf(intents[m], deliveries[m])
  BY DEF OrderOutcome, OutcomeOf

\* Whoever deals with e-mail m is dealing with what it has become.
HandsFollow(m, intent, row, taken) ==
    /\ emailQueue' \subseteq Transitions
    /\ handling' \in [Dispatchers -> [Transitions -> Stages]]
    /\ \A d \in Dispatchers, n \in Transitions :
          \/ handling'[d][n] \in {handling[d][n], "no"}
          \/ n = m /\ StageIsSound(handling'[d][n], intent, row)
    /\ sending' \in [Senders -> Job]
    /\ \A w \in Senders :
          \/ sending'[w] \in {sending[w], IdleSender}
          \/ /\ sending'[w].mail = m /\ row.status # "none"
             /\ sending'[w].at = "accepted" => taken = 1

\* One e-mail moves: its intent, its delivery, or the provider.
LEMMA MailMoves ==
    ASSUME OrderMailsAgree, NEW m \in Transitions,
           NEW intent \in OutboxRow, NEW row \in OrderEmailRows, NEW taken \in Nat,
           intents' = [intents EXCEPT ![m] = intent],
           deliveries' = [deliveries EXCEPT ![m] = row],
           accepted' = [accepted EXCEPT ![m] = taken],
           MailIsSound(intent, row, taken),
           PostMoves(OutcomeOf(intents[m], deliveries[m]), OutcomeOf(intent, row),
                     accepted[m], taken),
           intents[m].state # "absent" => intent.state # "absent",
           deliveries[m].status # "none" => row.status # "none",
           HandsFollow(m, intent, row, taken)
    PROVE  OrderMailsAgree' /\ OrderPostStep
  <1> USE DEF HandsFollow
  <1>1. /\ \A n \in Transitions : intents'[n] = IF n = m THEN intent ELSE intents[n]
        /\ \A n \in Transitions : deliveries'[n] = IF n = m THEN row ELSE deliveries[n]
        /\ \A n \in Transitions : accepted'[n] = IF n = m THEN taken ELSE accepted[n]
    BY DEF OrderMailsAgree, OrderEmailsTypeOK
  <1>2. OrderEmailsTypeOK'
    BY DEF OrderMailsAgree, OrderEmailsTypeOK
  <1>3. (\A n \in Transitions : MailIsSound(intents[n], deliveries[n], accepted[n]))'
    BY <1>1 DEF OrderMailsAgree
  <1>4. (\A d \in Dispatchers, n \in Transitions :
            StageIsSound(handling[d][n], intents[n], deliveries[n]))'
    <2> SUFFICES ASSUME NEW d \in Dispatchers, NEW n \in Transitions
                 PROVE  StageIsSound(handling[d][n], intents[n], deliveries[n])'
      OBVIOUS
    <2>1. StageIsSound(handling[d][n], intents[n], deliveries[n])
      BY DEF OrderMailsAgree
    <2>. QED
      BY <1>1, <2>1 DEF StageIsSound
  <1>5. (\A w \in Senders : JobIsSound(sending[w]))'
    <2> SUFFICES ASSUME NEW w \in Senders
                 PROVE  JobIsSound(sending[w])'
      OBVIOUS
    <2>1. \A n \in Transitions : accepted[n] = 1 => accepted'[n] = 1
      BY <1>1 DEF PostMoves
    <2>2. \A n \in Transitions : deliveries[n].status # "none" => deliveries'[n].status # "none"
      BY <1>1
    <2>3. CASE sending'[w] = sending[w]
      BY <2>1, <2>2, <2>3 DEF OrderMailsAgree, JobIsSound
    <2>4. CASE sending'[w] = IdleSender
      BY <2>4 DEF JobIsSound, IdleSender
    <2>5. CASE /\ sending'[w].mail = m /\ row.status # "none"
               /\ sending'[w].at = "accepted" => taken = 1
      BY <1>1, <2>5 DEF JobIsSound
    <2>. QED
      BY <2>3, <2>4, <2>5
  <1>6. OrderPostStep
    <2> DEFINE after == OutcomeOf(intent, row)
    <2>1. \A n \in Transitions :
              OrderOutcome'[n] = IF n = m THEN after ELSE OrderOutcome[n]
      BY <1>1 DEF OrderOutcome, OutcomeOf
    <2>2. OrderOutcome = [n \in Transitions |-> OrderOutcome[n]]
          /\ OrderOutcome' = [n \in Transitions |-> OrderOutcome'[n]]
      BY DEF OrderOutcome
    <2> HIDE DEF after
    <2>3. OrderOutcome' = [OrderOutcome EXCEPT ![m] = after]
      BY <2>1, <2>2
    <2>4. OrderOutcome[m] = OutcomeOf(intents[m], deliveries[m])
      BY OutcomeIs
    <2>5. PostMoves(OrderOutcome[m], after, accepted[m], taken)
      BY <2>4 DEF after
    <2>6. accepted \in [Transitions -> Nat]
      BY DEF OrderMailsAgree, OrderEmailsTypeOK
    <2>7. CASE after = OrderOutcome[m] /\ taken = accepted[m]
      BY <2>2, <2>3, <2>6, <2>7 DEF OrderPostStep
    <2>8. CASE OrderOutcome[m] = "none" /\ after = "waiting" /\ taken = accepted[m]
      <3>1. OrderPost!Commit(m)
        BY <2>3, <2>6, <2>8 DEF OrderPost!Commit
      <3>. QED
        BY <3>1 DEF OrderPostStep, OrderPost!PostNext
    <2>9. CASE OrderOutcome[m] # "none" /\ after = OrderOutcome[m] /\ accepted[m] = 0 /\ taken = 1
      <3>1. OrderPost!Accept(m)
        BY <2>2, <2>3, <2>6, <2>9 DEF OrderPost!Accept
      <3>. QED
        BY <3>1 DEF OrderPostStep, OrderPost!PostNext
    <2>10. CASE OrderOutcome[m] = "waiting" /\ after = "sent" /\ accepted[m] = 1 /\ taken = 1
      <3>1. OrderPost!RecordSent(m)
        BY <2>3, <2>6, <2>10 DEF OrderPost!RecordSent
      <3>. QED
        BY <3>1 DEF OrderPostStep, OrderPost!PostNext
    <2>11. CASE OrderOutcome[m] \in {"none", "waiting"} /\ after = "stopped" /\ taken = accepted[m]
      <3>1. OrderPost!Stop(m)
        BY <2>3, <2>6, <2>11 DEF OrderPost!Stop
      <3>. QED
        BY <3>1 DEF OrderPostStep, OrderPost!PostNext
    <2>. QED
      BY <2>5, <2>7, <2>8, <2>9, <2>10, <2>11 DEF PostMoves
  <1>. QED
    BY <1>2, <1>3, <1>4, <1>5, <1>6 DEF OrderMailsAgree

LEMMA MailRows ==
    ASSUME OrderMailsAgree, NEW m \in Transitions
    PROVE  /\ intents[m] \in OutboxRow /\ deliveries[m] \in OrderEmailRows
           /\ accepted[m] \in Nat /\ MailIsSound(intents[m], deliveries[m], accepted[m])
           /\ intents = [intents EXCEPT ![m] = intents[m]]
           /\ deliveries = [deliveries EXCEPT ![m] = deliveries[m]]
           /\ accepted = [accepted EXCEPT ![m] = accepted[m]]
  BY DEF OrderMailsAgree, OrderEmailsTypeOK, MailIsSound

\* Which e-mails are queued, and who works on what, but no e-mail.
LEMMA HandsMove ==
    ASSUME OrderMailsAgree, NEW m \in Transitions, UNCHANGED <<intents, deliveries, accepted>>,
           HandsFollow(m, intents[m], deliveries[m], accepted[m])
    PROVE  OrderMailsAgree' /\ OrderPostStep
  <1> DEFINE intent == intents[m]
             row == deliveries[m]
             taken == accepted[m]
  <1>1. /\ intent \in OutboxRow /\ row \in OrderEmailRows /\ taken \in Nat
        /\ MailIsSound(intent, row, taken)
        /\ intents' = [intents EXCEPT ![m] = intent] /\ deliveries' = [deliveries EXCEPT ![m] = row]
        /\ accepted' = [accepted EXCEPT ![m] = taken]
    BY MailRows
  <1>2. PostMoves(OutcomeOf(intent, row), OutcomeOf(intent, row), taken, taken)
    BY DEF PostMoves
  <1>. QED
    BY <1>1, <1>2, MailMoves

\* An intent, and the dispatcher that deals with it.
LEMMA IntentAlone ==
    ASSUME OrderMailsAgree, NEW m \in Transitions, NEW intent \in OutboxRow,
           intents' = [intents EXCEPT ![m] = intent],
           UNCHANGED <<deliveries, accepted>>,
           IntentIsSound(intent),
           \/ intent.state = intents[m].state
           \/ intents[m].state = "absent" /\ intent.state = "waiting"
           \/ intents[m].state = "waiting" /\ intent.state = "dead"
           \/ /\ intents[m].state = "waiting" /\ intent.state = "published"
              /\ deliveries[m].status # "none",
           HandsFollow(m, intent, deliveries[m], accepted[m])
    PROVE  OrderMailsAgree' /\ OrderPostStep
  <1> PICK old \in OutboxRow, row \in OrderEmailRows, taken \in Nat :
          /\ old = intents[m] /\ row = deliveries[m] /\ taken = accepted[m]
          /\ MailIsSound(old, row, taken)
    BY MailRows
  <1>1. MailIsSound(intent, row, taken) /\ (old.state # "absent" => intent.state # "absent")
    BY DEF MailIsSound
  <1>2. PostMoves(OutcomeOf(old, row), OutcomeOf(intent, row), taken, taken)
    BY DEF PostMoves, OutcomeOf, MailIsSound
  <1>3. /\ deliveries' = [deliveries EXCEPT ![m] = row] /\ accepted' = [accepted EXCEPT ![m] = taken]
    BY MailRows
  <1>. QED
    BY <1>1, <1>2, <1>3, MailMoves

\* A delivery, and whoever deals with it.
LEMMA DeliveryMoves ==
    ASSUME OrderMailsAgree, NEW m \in Transitions, NEW row \in OrderEmailRows,
           deliveries' = [deliveries EXCEPT ![m] = row],
           UNCHANGED <<intents, accepted>>,
           row.status \in Open \cup {"none"} => row.attempts < MailMaxAttempts,
           row.token # NoSender => row.status = "sending",
           \/ row.status = deliveries[m].status
           \/ deliveries[m].status = "none" /\ row.status = "pending" /\ intents[m].state # "absent"
           \/ /\ deliveries[m].status \in Open
              /\ row.status \in Open \cup {"suppressed", "dead_lettered"}
           \/ deliveries[m].status \in Open /\ row.status = "sent" /\ accepted[m] = 1,
           HandsFollow(m, intents[m], row, accepted[m])
    PROVE  OrderMailsAgree' /\ OrderPostStep
  <1> PICK intent \in OutboxRow, old \in OrderEmailRows, taken \in Nat :
          /\ intent = intents[m] /\ old = deliveries[m] /\ taken = accepted[m]
          /\ MailIsSound(intent, old, taken)
    BY MailRows
  <1>1. MailIsSound(intent, row, taken) /\ (old.status # "none" => row.status # "none")
    BY DEF MailIsSound, Open
  <1>2. PostMoves(OutcomeOf(intent, old), OutcomeOf(intent, row), taken, taken)
    BY DEF PostMoves, OutcomeOf, MailIsSound, Open
  <1>3. intents' = [intents EXCEPT ![m] = intent] /\ accepted' = [accepted EXCEPT ![m] = taken]
    BY MailRows
  <1>. QED
    BY <1>1, <1>2, <1>3, MailMoves

LEMMA HandsRest ==
    ASSUME OrderMailsAgree
    PROVE  /\ emailQueue \subseteq Transitions /\ sending \in [Senders -> Job]
           /\ handling \in [Dispatchers -> [Transitions -> Stages]]
           /\ IdleSender \in Job /\ IdleSender.at = "idle"
  BY DEF OrderMailsAgree, OrderEmailsTypeOK, IdleSender, Job

LEMMA StageMoves ==
    ASSUME OrderMailsAgree, NEW d \in Dispatchers, NEW m \in Transitions, NEW from,
           NEW to \in Stages, Stage(d, m, from, to)
    PROVE  /\ handling[d][m] = from
           /\ handling' \in [Dispatchers -> [Transitions -> Stages]]
           /\ \A e \in Dispatchers, n \in Transitions :
                 handling'[e][n] = IF e = d /\ n = m THEN to ELSE handling[e][n]
           /\ StageIsSound(from, intents[m], deliveries[m])
  BY HandsRest DEF Stage, OrderMailsAgree

LEMMA StageFollows ==
    ASSUME OrderMailsAgree, NEW d \in Dispatchers, NEW m \in Transitions, NEW from,
           NEW to \in Stages, Stage(d, m, from, to), UNCHANGED sending,
           emailQueue' \subseteq Transitions, NEW intent, NEW row, NEW taken,
           to = "no" \/ StageIsSound(to, intent, row)
    PROVE  HandsFollow(m, intent, row, taken)
  BY StageMoves, HandsRest DEF HandsFollow

\* All that deal with the e-mails go on as they were.
LEMMA HandsStay ==
    ASSUME OrderMailsAgree, UNCHANGED <<emailQueue, handling, sending>>,
           NEW m, NEW intent, NEW row, NEW taken
    PROVE  HandsFollow(m, intent, row, taken)
  BY HandsRest DEF HandsFollow

LEMMA SenderFollows ==
    ASSUME OrderMailsAgree, NEW w \in Senders, NEW job \in Job,
           sending' = [sending EXCEPT ![w] = job], UNCHANGED handling,
           emailQueue' \subseteq Transitions, NEW m, NEW intent, NEW row, NEW taken,
           \/ job = IdleSender
           \/ /\ job.mail = m /\ row.status # "none"
              /\ job.at = "accepted" => taken = 1
    PROVE  HandsFollow(m, intent, row, taken)
  <1>1. /\ sending' \in [Senders -> Job]
        /\ \A v \in Senders : sending'[v] = IF v = w THEN job ELSE sending[v]
    BY HandsRest
  <1>. QED
    BY <1>1, HandsRest DEF HandsFollow

LEMMA StageNames ==
    /\ "no" \in Stages /\ "claimed" \in Stages /\ "ensured" \in Stages /\ "queued" \in Stages
    /\ "marked" \in Stages /\ "due" \in Stages /\ "requeued" \in Stages
  BY DEF Stages

LEMMA RecordIntentStep ==
    ASSUME OrderMailsAgree, NEW m \in Transitions, RecordTransition(m) \/ IntentWakes(m)
    PROVE  OrderMailsAgree' /\ OrderPostStep
  <1> PICK old \in OutboxRow : old = intents[m] /\ IntentIsSound(old)
    BY MailRows DEF MailIsSound
  <1>1. UNCHANGED <<deliveries, accepted, emailQueue, handling, sending>>
    BY DEF RecordTransition, IntentWakes
  <1>2. HandsFollow(m, Write(old), deliveries[m], accepted[m])
        /\ HandsFollow(m, Wake(old), deliveries[m], accepted[m])
    BY <1>1, HandsStay
  <1>3. CASE RecordTransition(m)
    <2>1. intents' = [intents EXCEPT ![m] = Write(old)] /\ old.state = "absent"
      BY <1>3 DEF RecordTransition
    <2>2. Write(old) \in OutboxRow /\ IntentIsSound(Write(old)) /\ Write(old).state = "waiting"
      BY <2>1, IntentMoves
    <2>. QED
      BY <1>1, <1>2, <2>1, <2>2, IntentAlone
  <1>4. CASE IntentWakes(m)
    <2>1. intents' = [intents EXCEPT ![m] = Wake(old)]
      BY <1>4 DEF IntentWakes
    <2>2. Wake(old) \in OutboxRow /\ IntentIsSound(Wake(old)) /\ Wake(old).state = old.state
      BY <2>1, IntentMoves
    <2>. QED
      BY <1>1, <1>2, <2>1, <2>2, IntentAlone
  <1>. QED
    BY <1>3, <1>4

LEMMA ClaimIntentStep ==
    ASSUME OrderMailsAgree, NEW d \in Dispatchers, NEW m \in Transitions, ClaimIntent(d, m)
    PROVE  OrderMailsAgree' /\ OrderPostStep
  <1> PICK old \in OutboxRow : old = intents[m] /\ IntentIsSound(old)
    BY MailRows DEF MailIsSound
  <1>1. /\ UNCHANGED <<deliveries, accepted, emailQueue, sending>> /\ old.state = "waiting"
        /\ intents' = [intents EXCEPT ![m] = Claim(old)] /\ Stage(d, m, "no", "claimed")
    BY DEF ClaimIntent, Claimable
  <1>2. Claim(old) \in OutboxRow /\ IntentIsSound(Claim(old)) /\ Claim(old).state = old.state
    BY IntentMoves
  <1>3. StageIsSound("claimed", Claim(old), deliveries[m])
    BY <1>1, <1>2 DEF StageIsSound
  <1>4. HandsFollow(m, Claim(old), deliveries[m], accepted[m])
    BY <1>1, <1>3, StageFollows, HandsRest, StageNames
  <1>. QED
    BY <1>1, <1>2, <1>4, IntentAlone

LEMMA EnsurePendingStep ==
    ASSUME OrderMailsAgree, NEW d \in Dispatchers, NEW m \in Transitions, EnsurePending(d, m)
    PROVE  OrderMailsAgree' /\ OrderPostStep
  <1> PICK old \in OrderEmailRows : old = deliveries[m]
    BY MailRows
  <1> DEFINE row == IF old.status = "none" THEN [old EXCEPT !.status = "pending", !.due = TRUE]
                    ELSE old
  <1>1. /\ UNCHANGED <<intents, accepted, emailQueue, sending>>
        /\ deliveries' = [deliveries EXCEPT ![m] = row] /\ Stage(d, m, "claimed", "ensured")
    BY DEF EnsurePending
  <1>2. /\ row \in OrderEmailRows /\ row.status # "none" /\ row.token = old.token
        /\ row.attempts = old.attempts
        /\ row.status = old.status \/ (old.status = "none" /\ row.status = "pending")
    BY DEF OrderEmailRows, Open
  <1> HIDE DEF row
  <1>3. intents[m].state # "absent"
    BY <1>1, StageMoves, StageNames DEF StageIsSound
  <1>4. StageIsSound("ensured", intents[m], row)
    BY <1>2, <1>3 DEF StageIsSound
  <1>5. HandsFollow(m, intents[m], row, accepted[m])
    BY <1>1, <1>4, StageFollows, HandsRest, StageNames
  <1>6. /\ row.status \in Open \cup {"none"} => row.attempts < MailMaxAttempts
        /\ row.token # NoSender => row.status = "sending"
    <2>1. MailIsSound(intents[m], old, accepted[m])
      BY MailRows
    <2>2. old.status = "none" => old.token = NoSender
      BY <2>1 DEF MailIsSound
    <2>. QED
      BY <1>2, <2>1, <2>2 DEF MailIsSound, Open
  <1>. QED
    BY <1>1, <1>2, <1>3, <1>5, <1>6, DeliveryMoves

LEMMA FindDueStep ==
    ASSUME OrderMailsAgree, NEW d \in Dispatchers, NEW m \in Transitions,
           FindDue(d, m) \/ Enqueue(d, m)
    PROVE  OrderMailsAgree' /\ OrderPostStep
  <1>1. MailIsSound(intents[m], deliveries[m], accepted[m])
    BY MailRows
  <1>2. UNCHANGED <<intents, deliveries, accepted, sending>>
    BY DEF FindDue, Enqueue
  <1>3. CASE FindDue(d, m)
    <2>1. /\ Stage(d, m, "no", "due") /\ emailQueue' = emailQueue
          /\ deliveries[m].status \in Open
      BY <1>3 DEF FindDue, DueForEnqueue
    <2>2. StageIsSound("due", intents[m], deliveries[m])
      BY <1>1, <2>1 DEF StageIsSound, MailIsSound, Open
    <2>3. HandsFollow(m, intents[m], deliveries[m], accepted[m])
      BY <1>2, <2>1, <2>2, StageFollows, HandsRest, StageNames
    <2>. QED
      BY <1>2, <2>3, HandsMove
  <1>4. ASSUME Stage(d, m, "ensured", "queued") \/ Stage(d, m, "due", "requeued"),
               emailQueue' = emailQueue \cup {m}
        PROVE  OrderMailsAgree' /\ OrderPostStep
    <2>1. emailQueue' \subseteq Transitions
      BY <1>4, HandsRest
    <2>2. deliveries[m].status # "none" /\ intents[m].state # "absent"
      BY <1>4, StageMoves, StageNames DEF StageIsSound
    <2>3. /\ StageIsSound("queued", intents[m], deliveries[m])
          /\ StageIsSound("requeued", intents[m], deliveries[m])
      BY <2>2 DEF StageIsSound
    <2>4. HandsFollow(m, intents[m], deliveries[m], accepted[m])
      BY <1>2, <1>4, <2>1, <2>3, StageFollows, StageNames
    <2>. QED
      BY <1>2, <2>4, HandsMove
  <1>. QED
    BY <1>3, <1>4 DEF Enqueue

LEMMA MarkEnqueuedStep ==
    ASSUME OrderMailsAgree, NEW d \in Dispatchers, NEW m \in Transitions, MarkEnqueued(d, m)
    PROVE  OrderMailsAgree' /\ OrderPostStep
  <1> PICK old \in OrderEmailRows :
          old = deliveries[m] /\ MailIsSound(intents[m], old, accepted[m])
    BY MailRows
  <1> PICK queued \in BOOLEAN : queued = (old.queued \/ old.status # "sent")
    OBVIOUS
  <1> DEFINE row == [old EXCEPT !.queued = queued]
  <1>1. /\ UNCHANGED <<intents, accepted, emailQueue, sending>>
        /\ deliveries' = [deliveries EXCEPT ![m] = row]
        /\ Stage(d, m, "queued", "marked") \/ Stage(d, m, "requeued", "no")
    BY DEF MarkEnqueued
  <1>2. /\ row \in OrderEmailRows /\ row.status = old.status /\ row.token = old.token
        /\ row.attempts = old.attempts
    BY DEF OrderEmailRows
  <1> HIDE DEF row
  <1>3. Stage(d, m, "queued", "marked") => StageIsSound("marked", intents[m], row)
    BY <1>2, StageMoves, StageNames DEF StageIsSound
  <1>4. HandsFollow(m, intents[m], row, accepted[m])
    BY <1>1, <1>3, StageFollows, HandsRest, StageNames
  <1>5. /\ row.status \in Open \cup {"none"} => row.attempts < MailMaxAttempts
        /\ row.token # NoSender => row.status = "sending"
    BY <1>2 DEF MailIsSound
  <1>. QED
    BY <1>1, <1>2, <1>4, <1>5, DeliveryMoves

LEMMA PublishIntentStep ==
    ASSUME OrderMailsAgree, NEW d \in Dispatchers, NEW m \in Transitions, PublishIntent(d, m)
    PROVE  OrderMailsAgree' /\ OrderPostStep
  <1> PICK old \in OutboxRow : old = intents[m] /\ IntentIsSound(old)
    BY MailRows DEF MailIsSound
  <1>1. /\ UNCHANGED <<deliveries, accepted, emailQueue, sending>>
        /\ intents' = [intents EXCEPT ![m] = MarkPublished(old)] /\ Stage(d, m, "marked", "no")
    BY DEF PublishIntent
  <1>2. /\ MarkPublished(old) \in OutboxRow /\ IntentIsSound(MarkPublished(old))
        /\ MarkPublished(old).state = IF old.state = "waiting" THEN "published" ELSE old.state
    BY IntentMoves
  <1>3. deliveries[m].status # "none"
    BY <1>1, StageMoves, StageNames DEF StageIsSound
  <1>4. HandsFollow(m, MarkPublished(old), deliveries[m], accepted[m])
    BY <1>1, StageFollows, HandsRest, StageNames
  <1>. QED
    BY <1>1, <1>2, <1>3, <1>4, IntentAlone

LEMMA DispatchFailsStep ==
    ASSUME OrderMailsAgree, NEW d \in Dispatchers, NEW m \in Transitions, DispatchFails(d, m)
    PROVE  OrderMailsAgree' /\ OrderPostStep
  <1> PICK old \in OutboxRow : old = intents[m] /\ IntentIsSound(old)
    BY MailRows DEF MailIsSound
  <1>1. UNCHANGED <<deliveries, accepted, emailQueue, sending>>
    BY DEF DispatchFails
  <1>2. ASSUME NEW from, Stage(d, m, from, "no")
        PROVE  /\ HandsFollow(m, intents[m], deliveries[m], accepted[m])
               /\ HandsFollow(m, RescheduleIntent(old), deliveries[m], accepted[m])
    BY <1>1, <1>2, StageFollows, HandsRest, StageNames
  <1>3. CASE /\ \E from \in {"claimed", "ensured", "queued", "marked"} : Stage(d, m, from, "no")
             /\ intents' = [intents EXCEPT ![m] = RescheduleIntent(old)]
    <2>1. HandsFollow(m, RescheduleIntent(old), deliveries[m], accepted[m])
      BY <1>2, <1>3
    <2>2. /\ RescheduleIntent(old) \in OutboxRow /\ IntentIsSound(RescheduleIntent(old))
          /\ \/ RescheduleIntent(old).state = old.state
             \/ old.state = "waiting" /\ RescheduleIntent(old).state = "dead"
      BY IntentMoves
    <2>. QED
      BY <1>1, <1>3, <2>1, <2>2, IntentAlone
  <1>4. CASE (Stage(d, m, "due", "no") \/ Stage(d, m, "requeued", "no")) /\ UNCHANGED intents
    BY <1>1, <1>2, <1>4, HandsMove
  <1>. QED
    BY <1>3, <1>4 DEF DispatchFails

LEMMA DispatcherDiesStep ==
    ASSUME OrderMailsAgree, NEW d \in Dispatchers, DispatcherDies(d)
    PROVE  OrderMailsAgree' /\ OrderPostStep
  <1> PICK m \in Transitions : handling[d][m] # "no"
    BY DEF DispatcherDies
  <1>1. UNCHANGED <<intents, deliveries, accepted, emailQueue, sending>>
    BY DEF DispatcherDies
  <1>2. /\ handling' \in [Dispatchers -> [Transitions -> Stages]]
        /\ \A e \in Dispatchers, n \in Transitions : handling'[e][n] \in {handling[e][n], "no"}
    BY HandsRest, StageNames DEF DispatcherDies
  <1>3. HandsFollow(m, intents[m], deliveries[m], accepted[m])
    BY <1>1, <1>2, HandsRest DEF HandsFollow
  <1>. QED
    BY <1>1, <1>3, HandsMove

LEMMA JobParts ==
    ASSUME OrderMailsAgree, NEW w \in Senders, sending[w].at # "idle"
    PROVE  /\ sending[w] \in Job /\ sending[w].mail \in Transitions
           /\ deliveries[sending[w].mail].status # "none"
           /\ sending[w].at = "accepted" => accepted[sending[w].mail] = 1
  BY DEF OrderMailsAgree, OrderEmailsTypeOK, JobIsSound

LEMMA UnleasedType ==
    ASSUME NEW row \in OrderEmailRows
    PROVE  /\ Unleased(row) \in OrderEmailRows /\ Unleased(row).token = NoSender
           /\ Unleased(row).status = row.status /\ Unleased(row).attempts = row.attempts
  BY DEF Unleased, OrderEmailRows

LEMMA ClaimForSendStep ==
    ASSUME OrderMailsAgree, NEW w \in Senders, NEW m \in Transitions, ClaimForSend(w, m)
    PROVE  OrderMailsAgree' /\ OrderPostStep
  <1> PICK old \in OrderEmailRows :
          old = deliveries[m] /\ MailIsSound(intents[m], old, accepted[m])
    BY MailRows
  <1>1. UNCHANGED <<intents, accepted, handling>> /\ emailQueue' \subseteq Transitions
    BY HandsRest DEF ClaimForSend
  <1>2. CASE /\ Sendable(old)
             /\ deliveries' = [deliveries EXCEPT ![m] =
                  [old EXCEPT !.status = "sending", !.token = w, !.leased = TRUE]]
             /\ sending' = [sending EXCEPT ![w] = [mail |-> m, at |-> "claimed"]]
    <2> DEFINE row == [old EXCEPT !.status = "sending", !.token = w, !.leased = TRUE]
               job == [mail |-> m, at |-> "claimed"]
    <2>1. /\ row \in OrderEmailRows /\ row.status = "sending" /\ row.attempts = old.attempts
          /\ old.status \in Open /\ row.attempts < MailMaxAttempts
      BY <1>2 DEF OrderEmailRows, Open, Sendable, MailIsSound
    <2>2. job \in Job /\ job.mail = m /\ job.at = "claimed"
      BY DEF Job
    <2>3. deliveries' = [deliveries EXCEPT ![m] = row] /\ sending' = [sending EXCEPT ![w] = job]
      BY <1>2
    <2> HIDE DEF row, job
    <2>4. HandsFollow(m, intents[m], row, accepted[m])
      BY <1>1, <2>1, <2>2, <2>3, SenderFollows
    <2>5. row.status \in Open
      BY <2>1 DEF Open
    <2>. QED
      BY <1>1, <2>1, <2>3, <2>4, <2>5, DeliveryMoves
  <1>3. CASE /\ Sendable(old) /\ UNCHANGED sending
             /\ deliveries' = [deliveries EXCEPT ![m] =
                  [Unleased(old) EXCEPT !.status = "suppressed"]]
    <2> DEFINE row == [Unleased(old) EXCEPT !.status = "suppressed"]
    <2>1. /\ row \in OrderEmailRows /\ row.status = "suppressed" /\ row.token = NoSender
          /\ old.status \in Open /\ row.status \notin Open \cup {"none"}
      BY <1>3, UnleasedType DEF OrderEmailRows, Open, Sendable
    <2>2. deliveries' = [deliveries EXCEPT ![m] = row]
      BY <1>3
    <2> HIDE DEF row
    <2>3. HandsFollow(m, intents[m], row, accepted[m])
      BY <1>1, <1>3, HandsRest DEF HandsFollow
    <2>. QED
      BY <1>1, <2>1, <2>2, <2>3, DeliveryMoves
  <1>4. CASE UNCHANGED <<deliveries, sending>>
    <2>1. HandsFollow(m, intents[m], deliveries[m], accepted[m])
      BY <1>1, <1>4, HandsRest DEF HandsFollow
    <2>. QED
      BY <1>1, <1>4, <2>1, HandsMove
  <1>. QED
    BY <1>2, <1>3, <1>4 DEF ClaimForSend

LEMMA ProviderStep ==
    ASSUME OrderMailsAgree, NEW w \in Senders, ProviderAccepts(w)
    PROVE  OrderMailsAgree' /\ OrderPostStep
  <1> DEFINE m == sending[w].mail
  <1>1. /\ m \in Transitions /\ sending[w] \in Job /\ deliveries[m].status # "none"
        /\ UNCHANGED <<intents, deliveries, emailQueue, handling>>
    BY JobParts DEF ProviderAccepts
  <1> PICK intent \in OutboxRow, row \in OrderEmailRows, taken \in Nat :
          /\ intent = intents[m] /\ row = deliveries[m] /\ taken = accepted[m]
          /\ MailIsSound(intent, row, taken)
    BY <1>1, MailRows
  <1>2. accepted' = [accepted EXCEPT ![m] = 1]
    <2>1. accepted' = [accepted EXCEPT ![m] = taken + IF taken > 0 THEN 0 ELSE 1]
      BY DEF ProviderAccepts, SentBefore
    <2>2. taken + (IF taken > 0 THEN 0 ELSE 1) = 1
      BY DEF MailIsSound
    <2>. QED
      BY <2>1, <2>2
  <1> PICK at \in {"accepted", "failed"} : sending' = [sending EXCEPT ![w].at = at]
    BY DEF ProviderAccepts
  <1> DEFINE job == [sending[w] EXCEPT !.at = at]
  <1>3. job \in Job /\ job.mail = m
    BY <1>1 DEF Job
  <1>4. sending' = [sending EXCEPT ![w] = job]
    OBVIOUS
  <1>5. MailIsSound(intent, row, 1)
    BY DEF MailIsSound
  <1>6. intent.state # "absent"
    BY <1>1 DEF MailIsSound
  <1>7. PostMoves(OutcomeOf(intent, row), OutcomeOf(intent, row), taken, 1)
    BY <1>6 DEF PostMoves, OutcomeOf, MailIsSound
  <1>8. intents' = [intents EXCEPT ![m] = intent] /\ deliveries' = [deliveries EXCEPT ![m] = row]
    BY <1>1, MailRows
  <1> HIDE DEF job, m
  <1>9. HandsFollow(m, intent, row, 1)
    BY <1>1, <1>3, <1>4, SenderFollows, HandsRest
  <1>. QED
    BY <1>1, <1>2, <1>5, <1>7, <1>8, <1>9, MailMoves

\* A sender that is stopped, or that goes on without an answer.
LEMMA SenderStopsStep ==
    ASSUME OrderMailsAgree, NEW w \in Senders,
           ProviderRefuses(w) \/ MarkSentFails(w) \/ SenderDies(w)
    PROVE  OrderMailsAgree' /\ OrderPostStep
  <1> DEFINE m == sending[w].mail
  <1>1. UNCHANGED <<intents, deliveries, accepted, handling>>
    BY DEF ProviderRefuses, MarkSentFails, SenderDies
  <1>2. CASE ProviderRefuses(w) \/ MarkSentFails(w)
    <2>1. /\ m \in Transitions /\ sending[w] \in Job /\ deliveries[m].status # "none"
          /\ emailQueue' = emailQueue
      BY <1>2, JobParts DEF ProviderRefuses, MarkSentFails
    <2> PICK at \in {"failed", "refused"} : sending' = [sending EXCEPT ![w].at = at]
      BY <1>2 DEF ProviderRefuses, MarkSentFails
    <2> DEFINE job == [sending[w] EXCEPT !.at = at]
    <2>2. job \in Job /\ job.mail = m /\ job.at # "accepted"
      BY <2>1 DEF Job
    <2>3. sending' = [sending EXCEPT ![w] = job]
      OBVIOUS
    <2> HIDE DEF job, m
    <2>4. HandsFollow(m, intents[m], deliveries[m], accepted[m])
      BY <1>1, <2>1, <2>2, <2>3, SenderFollows, HandsRest
    <2>. QED
      BY <1>1, <2>1, <2>4, HandsMove
  <1>3. CASE SenderDies(w)
    <2>1. sending[w].at # "idle" \/ sending[w].mail \in Transitions
      BY <1>3 DEF SenderDies, OrderMailsAgree, OrderEmailsTypeOK, Job, IdleSender
    <2>2. m \in Transitions
      BY <2>1, JobParts
    <2>3. sending' = [sending EXCEPT ![w] = IdleSender] /\ emailQueue' \subseteq Transitions
      BY <1>3, <2>2, HandsRest DEF SenderDies
    <2>4. HandsFollow(m, intents[m], deliveries[m], accepted[m])
      BY <1>1, <2>3, SenderFollows, HandsRest
    <2> HIDE DEF m
    <2>. QED
      BY <1>1, <2>2, <2>4, HandsMove
  <1>. QED
    BY <1>2, <1>3

LEMMA MarkSentStep ==
    ASSUME OrderMailsAgree, NEW w \in Senders, MarkSent(w) \/ RescheduleAfterFailure(w)
    PROVE  OrderMailsAgree' /\ OrderPostStep
  <1> DEFINE m == sending[w].mail
  <1>1. /\ m \in Transitions /\ UNCHANGED <<intents, accepted, emailQueue, handling>>
        /\ sending' = [sending EXCEPT ![w] = IdleSender]
        /\ sending[w].at = "accepted" => accepted[m] = 1
    BY JobParts DEF MarkSent, RescheduleAfterFailure
  <1> PICK old \in OrderEmailRows :
          old = deliveries[m] /\ MailIsSound(intents[m], old, accepted[m])
    BY <1>1, MailRows
  <1>2. ASSUME NEW row
        PROVE  HandsFollow(m, intents[m], row, accepted[m])
    BY <1>1, SenderFollows, HandsRest
  <1>3. w # NoSender
    BY MailAssumption
  <1>4. CASE ~Holds(w, m)
    <2>1. deliveries' = [deliveries EXCEPT ![m] = deliveries[m]]
      BY <1>4 DEF MarkSent, RescheduleAfterFailure
    <2>2. UNCHANGED deliveries
      BY <1>1, <2>1, MailRows
    <2> HIDE DEF m
    <2>. QED
      BY <1>1, <1>2, <2>2, HandsMove
  <1>5. CASE Holds(w, m) /\ MarkSent(w)
    <2> DEFINE row == [Unleased(old) EXCEPT !.status = "sent"]
    <2>1. /\ row \in OrderEmailRows /\ row.status = "sent" /\ row.token = NoSender
          /\ row.status \notin Open \cup {"none"}
      BY UnleasedType DEF OrderEmailRows, Open
    <2>2. old.status \in Open /\ accepted[m] = 1
      BY <1>1, <1>3, <1>5 DEF Holds, MailIsSound, MarkSent, Open
    <2>3. deliveries' = [deliveries EXCEPT ![m] = row]
      BY <1>5 DEF MarkSent
    <2> HIDE DEF m, row
    <2>. QED
      BY <1>1, <1>2, <2>1, <2>2, <2>3, DeliveryMoves
  <1>6. CASE Holds(w, m) /\ RescheduleAfterFailure(w)
    <2> DEFINE dead == sending[w].at = "refused" \/ old.attempts + 1 >= MailMaxAttempts
               status == IF dead THEN "dead_lettered" ELSE "pending"
    <2> DEFINE row == [Unleased(old) EXCEPT !.attempts = old.attempts + 1, !.due = FALSE,
                                            !.status = status]
    <2>1. old.status \in Open /\ old.attempts < MailMaxAttempts /\ old.attempts \in Nat
      BY <1>3, <1>6 DEF Holds, MailIsSound, Open, OrderEmailRows
    <2>2. ~dead => old.attempts + 1 < MailMaxAttempts
      BY <2>1, MailAssumption
    <2>3. /\ row \in OrderEmailRows /\ row.status = status /\ row.token = NoSender
          /\ row.attempts = old.attempts + 1
      <3>1. status \in {"dead_lettered", "pending"} /\ old.attempts + 1 \in 0..MailMaxAttempts
        BY <2>1, MailAssumption
      <3>2. Unleased(old) \in OrderEmailRows /\ Unleased(old).token = NoSender
        BY UnleasedType
      <3> HIDE DEF status
      <3>. QED
        BY <3>1, <3>2 DEF OrderEmailRows, Open
    <2>4. /\ status \in Open \cup {"suppressed", "dead_lettered"} /\ status # "sending"
          /\ status \in Open \cup {"none"} => row.attempts < MailMaxAttempts
      BY <2>2, <2>3 DEF Open
    <2>5. deliveries' = [deliveries EXCEPT ![m] = row]
      BY <1>6 DEF RescheduleAfterFailure, GivenUp
    <2> HIDE DEF m, row, status, dead
    <2>. QED
      BY <1>1, <1>2, <2>1, <2>3, <2>4, <2>5, DeliveryMoves
  <1>. QED
    BY <1>4, <1>5, <1>6

LEMMA MailClockStep ==
    ASSUME OrderMailsAgree, NEW m \in Transitions,
           \/ RetryDelayOver(m) \/ QueueMarkOver(m) \/ DeadLeaseOver(m)
           \/ LeaseRunsOut(m) \/ AccountChanges(m)
    PROVE  OrderMailsAgree' /\ OrderPostStep
  <1> PICK old \in OrderEmailRows :
          old = deliveries[m] /\ MailIsSound(intents[m], old, accepted[m])
    BY MailRows
  <1>1. UNCHANGED <<intents, accepted, emailQueue, handling, sending>>
    BY DEF RetryDelayOver, QueueMarkOver, DeadLeaseOver, LeaseRunsOut, AccountChanges
  <1>2. ASSUME NEW row \in OrderEmailRows, deliveries' = [deliveries EXCEPT ![m] = row],
               row.status = old.status, row.token = old.token, row.attempts = old.attempts
        PROVE  OrderMailsAgree' /\ OrderPostStep
    <2>1. HandsFollow(m, intents[m], row, accepted[m])
      BY <1>1, HandsStay
    <2>2. /\ row.status \in Open \cup {"none"} => row.attempts < MailMaxAttempts
          /\ row.token # NoSender => row.status = "sending"
      BY <1>2 DEF MailIsSound
    <2>. QED
      BY <1>1, <1>2, <2>1, <2>2, DeliveryMoves
  <1>3. CASE RetryDelayOver(m)
    <2>1. [old EXCEPT !.due = TRUE] \in OrderEmailRows
      BY DEF OrderEmailRows
    <2>. QED
      BY <1>2, <1>3, <2>1 DEF RetryDelayOver, OrderEmailRows
  <1>4. CASE QueueMarkOver(m)
    <2>1. [old EXCEPT !.queued = FALSE] \in OrderEmailRows
      BY DEF OrderEmailRows
    <2>. QED
      BY <1>2, <1>4, <2>1 DEF QueueMarkOver, OrderEmailRows
  <1>5. CASE DeadLeaseOver(m) \/ LeaseRunsOut(m)
    <2>1. [old EXCEPT !.leased = FALSE] \in OrderEmailRows
      BY DEF OrderEmailRows
    <2>. QED
      BY <1>2, <1>5, <2>1 DEF DeadLeaseOver, LeaseRunsOut, OrderEmailRows
  <1>6. CASE AccountChanges(m)
    <2>1. UNCHANGED deliveries /\ HandsFollow(m, intents[m], deliveries[m], accepted[m])
      BY <1>1, <1>6, HandsStay DEF AccountChanges
    <2>. QED
      BY <1>1, <2>1, HandsMove
  <1>. QED
    BY <1>3, <1>4, <1>5, <1>6

LEMMA OrderMailsBegin ==
    ASSUME OrderEmailsInit
    PROVE  OrderMailsAgree /\ OrderPost!PostInit
  <1>1. /\ NoDelivery \in OrderEmailRows /\ NoDelivery.status = "none" /\ NoDelivery.attempts = 0
        /\ NoDelivery.token = NoSender
    BY MailAssumption DEF NoDelivery, OrderEmailRows
  <1>2. OrderEmailsTypeOK
    <2>1. handling \in [Dispatchers -> [Transitions -> Stages]]
      BY StageNames DEF OrderEmailsInit
    <2>2. sending \in [Senders -> Job] /\ emailQueue \subseteq Transitions
      BY DEF OrderEmailsInit, IdleSender, Job
    <2>. QED
      BY <1>1, <2>1, <2>2, NoIntentType DEF OrderEmailsInit, OrderEmailsTypeOK
  <1>3. \A m \in Transitions : MailIsSound(intents[m], deliveries[m], accepted[m])
    BY <1>1, NoIntentType, MailAssumption DEF OrderEmailsInit, MailIsSound
  <1>4. /\ \A d \in Dispatchers, m \in Transitions :
              StageIsSound(handling[d][m], intents[m], deliveries[m])
        /\ \A w \in Senders : JobIsSound(sending[w])
    BY DEF OrderEmailsInit, StageIsSound, JobIsSound, IdleSender
  <1>5. OrderOutcome = [m \in Transitions |-> "none"]
    <2>1. \A m \in Transitions : intents[m].state = "absent"
      BY NoIntentType DEF OrderEmailsInit
    <2>2. \A m \in Transitions : deliveries[m].status = "none"
      BY <1>1 DEF OrderEmailsInit
    <2>3. \A m \in Transitions : OutcomeOf(intents[m], deliveries[m]) = "none"
      BY <2>1, <2>2 DEF OutcomeOf
    <2>. QED
      BY <2>3, OutcomeIs DEF OrderOutcome
  <1>6. OrderPost!PostInit
    BY <1>5 DEF OrderEmailsInit, OrderPost!PostInit
  <1>. QED
    BY <1>2, <1>3, <1>4, <1>6 DEF OrderMailsAgree

LEMMA OrderMailsStep ==
    ASSUME OrderMailsAgree, [OrderEmailsNext]_orderEmailVars
    PROVE  OrderMailsAgree' /\ OrderPostStep
  <1>1. CASE UNCHANGED orderEmailVars
    <2>1. OrderMailsAgree'
      BY <1>1 DEF orderEmailVars, OrderMailsAgree, OrderEmailsTypeOK, MailIsSound, StageIsSound,
            JobIsSound
    <2>. QED
      BY <1>1, <2>1 DEF orderEmailVars, OrderPostStep, OrderOutcome
  <1>2. ASSUME NEW m \in Transitions,
               \/ RecordTransition(m) \/ IntentWakes(m) \/ RetryDelayOver(m)
               \/ QueueMarkOver(m) \/ DeadLeaseOver(m)
               \/ LeaseRunsOut(m) \/ AccountChanges(m)
        PROVE  OrderMailsAgree' /\ OrderPostStep
    BY <1>2, RecordIntentStep, MailClockStep
  <1>3. ASSUME NEW m \in Transitions, NEW d \in Dispatchers,
               DispatchStep(d, m) \/ DispatchFails(d, m)
        PROVE  OrderMailsAgree' /\ OrderPostStep
    BY <1>3, ClaimIntentStep, EnsurePendingStep, FindDueStep, MarkEnqueuedStep,
       PublishIntentStep, DispatchFailsStep DEF DispatchStep
  <1>4. ASSUME NEW d \in Dispatchers, DispatcherDies(d)
        PROVE  OrderMailsAgree' /\ OrderPostStep
    BY <1>4, DispatcherDiesStep
  <1>5. ASSUME NEW w \in Senders,
               SenderStep(w) \/ ProviderRefuses(w) \/ MarkSentFails(w) \/ SenderDies(w)
        PROVE  OrderMailsAgree' /\ OrderPostStep
    BY <1>5, ClaimForSendStep, ProviderStep, SenderStopsStep, MarkSentStep DEF SenderStep
  <1>. QED
    BY <1>1, <1>2, <1>3, <1>4, <1>5 DEF OrderEmailsNext

\* However dispatchers, queue and senders crash, lose leases and repeat each
\* other, intent, delivery row and provider agree on every e-mail of an order:
\* a published intent has its row, an open row has an attempt left, only the
\* holder of a token is sending, and a message the row calls sent was taken
\* (order-email-outbox.dispatcher.ts, order-email-delivery.repository.ts).
THEOREM OrderMailsConsistency == OrderEmailsSpec => []OrderMailsAgree
  <1>1. OrderEmailsInit => OrderMailsAgree
    BY OrderMailsBegin
  <1>2. OrderMailsAgree /\ [OrderEmailsNext]_orderEmailVars => OrderMailsAgree'
    BY OrderMailsStep
  <1>. QED
    BY <1>1, <1>2, PTL DEF OrderEmailsSpec

\* The pipeline of order e-mails implements Postbox: every step of a
\* dispatcher, a sender or the provider is one step of the promise or none.
THEOREM OrderMailsAreDelivered == OrderEmailsSpec => OrderEmailsKeepTheirPromise
  <1>1. OrderEmailsInit => OrderPost!PostInit
    BY OrderMailsBegin
  <1>2. OrderMailsAgree /\ [OrderEmailsNext]_orderEmailVars
            => [OrderPost!PostNext]_<<OrderOutcome, accepted>>
    BY OrderMailsStep DEF OrderPostStep
  <1>. QED
    BY <1>1, <1>2, OrderMailsConsistency, PTL
       DEF OrderEmailsSpec, OrderEmailsKeepTheirPromise, OrderPost!PostSpec, OrderPost!postVars

(***************************************************************************)
(* E-mails of notifications                                                *)
(***************************************************************************)
PosterPlaces ==
    {"idle", "claimed", "checked", "begun", "taken", "failed", "refused", "ambiguous"}

PosterTasks == [letter : Letters \cup {Nobody}, at : PosterPlaces]

LetterEnd(row) ==
    CASE row.status = "none" -> "none"
      [] row.status \in Unfinished -> "waiting"
      [] row.status = "sent" -> "sent"
      [] OTHER -> "stopped"

\* Delivery row and provider agree; a message whose key the provider has
\* forgotten is one whose first request is too old to be repeated.
LetterIsSound(row, taken, known) ==
    /\ taken \in {0, 1}
    /\ known => taken = 1
    /\ taken = 1 /\ ~known => row.dispatched = "aged"
    /\ row.status \in Unfinished \cup {"none"} => row.attempts < PostMaxAttempts
    /\ row.token # Nobody => row.status = "sending"
    /\ row.status = "sent" => taken = 1

\* What a sender knows: a request goes out under a key that is known or new.
TaskIsSound(task) ==
    task.at # "idle" =>
        /\ task.letter \in Letters /\ letters[task.letter].status # "none"
        /\ task.at = "taken" => posted[task.letter] = 1
        /\ task.at \in {"checked", "begun"} =>
              keyKnown[task.letter] \/ posted[task.letter] = 0

LettersAgree ==
    /\ LettersTypeOK /\ keyKnown \in [Letters -> BOOLEAN]
    /\ postQueue \subseteq Letters
    /\ recovering \in [Recoverers -> Letters \cup {Nobody}]
    /\ posting \in [Posters -> PosterTasks]
    /\ \A l \in Letters : LetterIsSound(letters[l], posted[l], keyKnown[l])
    /\ \A w \in Posters : TaskIsSound(posting[w])

LetterPostStep == [LetterPost!PostNext]_<<LetterOutcome, posted>>

\* Whoever works on letter l works on what it has become.
PostersFollow(l, row, taken, known) ==
    /\ postQueue' \subseteq Letters
    /\ recovering' \in [Recoverers -> Letters \cup {Nobody}]
    /\ posting' \in [Posters -> PosterTasks]
    /\ \A w \in Posters :
          \/ /\ posting'[w] = posting[w]
             /\ posting[w].letter = l /\ posting[w].at \in {"checked", "begun"} =>
                   known \/ taken = 0
          \/ posting'[w] = PosterIdle
          \/ /\ posting'[w].letter = l /\ row.status # "none"
             /\ posting'[w].at = "taken" => taken = 1
             /\ posting'[w].at \in {"checked", "begun"} => known \/ taken = 0

LEMMA LetterRowTypes ==
    ASSUME LettersAgree, NEW l \in Letters
    PROVE  /\ letters[l] \in LetterRows /\ posted[l] \in Nat /\ keyKnown[l] \in BOOLEAN
           /\ LetterIsSound(letters[l], posted[l], keyKnown[l])
           /\ letters = [letters EXCEPT ![l] = letters[l]]
           /\ posted = [posted EXCEPT ![l] = posted[l]]
           /\ keyKnown = [keyKnown EXCEPT ![l] = keyKnown[l]]
  BY DEF LettersAgree, LettersTypeOK

\* One letter moves: its row, or what the provider knows of it.
LetterBecomes(l, row, taken, known) ==
    /\ letters' = [letters EXCEPT ![l] = row]
    /\ posted' = [posted EXCEPT ![l] = taken]
    /\ keyKnown' = [keyKnown EXCEPT ![l] = known]
    /\ LetterIsSound(row, taken, known)
    /\ PostMoves(LetterEnd(letters[l]), LetterEnd(row), posted[l], taken)
    /\ letters[l].status # "none" => row.status # "none"
    /\ PostersFollow(l, row, taken, known)

LEMMA LetterMoves ==
    ASSUME LettersAgree, NEW l \in Letters,
           NEW row \in LetterRows, NEW taken \in Nat, NEW known \in BOOLEAN,
           LetterBecomes(l, row, taken, known)
    PROVE  LettersAgree' /\ LetterPostStep
  <1> USE DEF PostersFollow, LetterBecomes
  <1>1. /\ \A n \in Letters : letters'[n] = IF n = l THEN row ELSE letters[n]
        /\ \A n \in Letters : posted'[n] = IF n = l THEN taken ELSE posted[n]
        /\ \A n \in Letters : keyKnown'[n] = IF n = l THEN known ELSE keyKnown[n]
    BY DEF LettersAgree, LettersTypeOK
  <1>2. LettersTypeOK' /\ (keyKnown \in [Letters -> BOOLEAN])'
    BY DEF LettersAgree, LettersTypeOK
  <1>3. (\A n \in Letters : LetterIsSound(letters[n], posted[n], keyKnown[n]))'
    BY <1>1 DEF LettersAgree
  <1>4. (\A w \in Posters : TaskIsSound(posting[w]))'
    <2> SUFFICES ASSUME NEW w \in Posters
                 PROVE  TaskIsSound(posting[w])'
      OBVIOUS
    <2>1. \A n \in Letters : posted[n] = 1 => posted'[n] = 1
      BY <1>1 DEF PostMoves
    <2>2. \A n \in Letters : letters[n].status # "none" => letters'[n].status # "none"
      BY <1>1
    <2>3. CASE /\ posting'[w] = posting[w]
               /\ posting[w].letter = l /\ posting[w].at \in {"checked", "begun"} =>
                     known \/ taken = 0
      <3>1. TaskIsSound(posting[w])
        BY DEF LettersAgree
      <3>. QED
        BY <1>1, <2>1, <2>2, <2>3, <3>1 DEF TaskIsSound
    <2>4. CASE posting'[w] = PosterIdle
      BY <2>4 DEF TaskIsSound, PosterIdle
    <2>5. CASE /\ posting'[w].letter = l /\ row.status # "none"
               /\ posting'[w].at = "taken" => taken = 1
               /\ posting'[w].at \in {"checked", "begun"} => known \/ taken = 0
      BY <1>1, <2>5 DEF TaskIsSound
    <2>. QED
      BY <2>3, <2>4, <2>5
  <1>5. LetterPostStep
    <2> DEFINE after == LetterEnd(row)
    <2>1. \A n \in Letters : LetterOutcome'[n] = IF n = l THEN after ELSE LetterOutcome[n]
      BY <1>1 DEF LetterOutcome, LetterEnd
    <2>2. LetterOutcome = [n \in Letters |-> LetterOutcome[n]]
          /\ LetterOutcome' = [n \in Letters |-> LetterOutcome'[n]]
      BY DEF LetterOutcome
    <2>3. LetterOutcome[l] = LetterEnd(letters[l])
      BY DEF LetterOutcome, LetterEnd
    <2> HIDE DEF after
    <2>4. LetterOutcome' = [LetterOutcome EXCEPT ![l] = after]
      BY <2>1, <2>2
    <2>5. PostMoves(LetterOutcome[l], after, posted[l], taken)
      BY <2>3 DEF after
    <2>6. posted \in [Letters -> Nat]
      BY DEF LettersAgree, LettersTypeOK
    <2>7. CASE after = LetterOutcome[l] /\ taken = posted[l]
      BY <2>2, <2>4, <2>6, <2>7 DEF LetterPostStep
    <2>8. CASE LetterOutcome[l] = "none" /\ after = "waiting" /\ taken = posted[l]
      <3>1. LetterPost!Commit(l)
        BY <2>4, <2>6, <2>8 DEF LetterPost!Commit
      <3>. QED
        BY <3>1 DEF LetterPostStep, LetterPost!PostNext
    <2>9. CASE LetterOutcome[l] # "none" /\ after = LetterOutcome[l] /\ posted[l] = 0 /\ taken = 1
      <3>1. LetterPost!Accept(l)
        BY <2>2, <2>4, <2>6, <2>9 DEF LetterPost!Accept
      <3>. QED
        BY <3>1 DEF LetterPostStep, LetterPost!PostNext
    <2>10. CASE LetterOutcome[l] = "waiting" /\ after = "sent" /\ posted[l] = 1 /\ taken = 1
      <3>1. LetterPost!RecordSent(l)
        BY <2>4, <2>6, <2>10 DEF LetterPost!RecordSent
      <3>. QED
        BY <3>1 DEF LetterPostStep, LetterPost!PostNext
    <2>11. CASE LetterOutcome[l] \in {"none", "waiting"} /\ after = "stopped" /\ taken = posted[l]
      <3>1. LetterPost!Stop(l)
        BY <2>4, <2>6, <2>11 DEF LetterPost!Stop
      <3>. QED
        BY <3>1 DEF LetterPostStep, LetterPost!PostNext
    <2>. QED
      BY <2>5, <2>7, <2>8, <2>9, <2>10, <2>11 DEF PostMoves
  <1>. QED
    BY <1>2, <1>3, <1>4, <1>5 DEF LettersAgree

\* Who works on what, and which letters are queued, but no letter.
LEMMA PostersMove ==
    ASSUME LettersAgree, NEW l \in Letters, UNCHANGED <<letters, posted, keyKnown>>,
           PostersFollow(l, letters[l], posted[l], keyKnown[l])
    PROVE  LettersAgree' /\ LetterPostStep
  <1> DEFINE row == letters[l]
             taken == posted[l]
             known == keyKnown[l]
  <1>1. /\ row \in LetterRows /\ taken \in Nat /\ known \in BOOLEAN
        /\ LetterIsSound(row, taken, known)
        /\ letters' = [letters EXCEPT ![l] = row] /\ posted' = [posted EXCEPT ![l] = taken]
        /\ keyKnown' = [keyKnown EXCEPT ![l] = known]
    BY LetterRowTypes
  <1>2. PostMoves(LetterEnd(row), LetterEnd(row), taken, taken)
    BY DEF PostMoves
  <1>3. LetterBecomes(l, row, taken, known)
    BY <1>1, <1>2, Zenon DEF LetterBecomes
  <1> HIDE DEF row, taken, known
  <1>. QED
    BY <1>1, <1>3, LetterMoves

\* The row of a letter, and whoever works on it.
LEMMA LetterRowMoves ==
    ASSUME LettersAgree, NEW l \in Letters, NEW row \in LetterRows,
           letters' = [letters EXCEPT ![l] = row], UNCHANGED <<posted, keyKnown>>,
           row.status \in Unfinished \cup {"none"} => row.attempts < PostMaxAttempts,
           row.token # Nobody => row.status = "sending",
           letters[l].dispatched = "aged" => row.dispatched = "aged",
           \/ row.status = letters[l].status
           \/ letters[l].status = "none" /\ row.status = "pending"
           \/ /\ letters[l].status \in Unfinished
              /\ row.status \in Unfinished \cup
                    {"suppressed", "dead_lettered", "review_required"}
           \/ letters[l].status \in Unfinished /\ row.status = "sent" /\ posted[l] = 1,
           PostersFollow(l, row, posted[l], keyKnown[l])
    PROVE  LettersAgree' /\ LetterPostStep
  <1> PICK old \in LetterRows, taken \in Nat, known \in BOOLEAN :
          /\ old = letters[l] /\ taken = posted[l] /\ known = keyKnown[l]
          /\ LetterIsSound(old, taken, known)
    BY LetterRowTypes
  <1>1. LetterIsSound(row, taken, known) /\ (old.status # "none" => row.status # "none")
    BY DEF LetterIsSound, Unfinished
  <1>2. PostMoves(LetterEnd(old), LetterEnd(row), taken, taken)
    BY DEF PostMoves, LetterEnd, LetterIsSound, Unfinished
  <1>3. posted' = [posted EXCEPT ![l] = taken] /\ keyKnown' = [keyKnown EXCEPT ![l] = known]
    BY LetterRowTypes
  <1>4. LetterBecomes(l, row, taken, known)
    BY <1>1, <1>2, <1>3 DEF LetterBecomes
  <1>. QED
    BY <1>4, LetterMoves

LEMMA PostersRest ==
    ASSUME LettersAgree
    PROVE  /\ postQueue \subseteq Letters
           /\ recovering \in [Recoverers -> Letters \cup {Nobody}]
           /\ posting \in [Posters -> PosterTasks]
           /\ PosterIdle \in PosterTasks /\ PosterIdle.at = "idle"
           /\ \A w \in Posters : posting[w].at \in {"checked", "begun"} =>
                 keyKnown[posting[w].letter] \/ posted[posting[w].letter] = 0
  BY DEF LettersAgree, PosterIdle, PosterTasks, PosterPlaces, TaskIsSound

\* The queue and the recovery tasks move, the senders go on as they were.
LEMMA PostersStay ==
    ASSUME LettersAgree, NEW l \in Letters, NEW row, UNCHANGED posting,
           postQueue' \subseteq Letters,
           recovering' \in [Recoverers -> Letters \cup {Nobody}]
    PROVE  PostersFollow(l, row, posted[l], keyKnown[l])
  BY PostersRest DEF PostersFollow

LEMMA PosterFollows ==
    ASSUME LettersAgree, NEW w \in Posters, NEW task \in PosterTasks, NEW l \in Letters,
           posting' = [posting EXCEPT ![w] = task], UNCHANGED recovering,
           postQueue' \subseteq Letters, NEW row, NEW taken, NEW known,
           \/ taken = posted[l] /\ known = keyKnown[l]
           \/ known,
           \/ task = PosterIdle
           \/ /\ task.letter = l /\ row.status # "none"
              /\ task.at = "taken" => taken = 1
              /\ task.at \in {"checked", "begun"} => known \/ taken = 0
    PROVE  PostersFollow(l, row, taken, known)
  <1>1. /\ posting' \in [Posters -> PosterTasks]
        /\ \A v \in Posters : posting'[v] = IF v = w THEN task ELSE posting[v]
    BY PostersRest
  <1>. QED
    BY <1>1, PostersRest DEF PostersFollow

LEMMA TaskParts ==
    ASSUME LettersAgree, NEW w \in Posters, posting[w].at # "idle"
    PROVE  /\ posting[w] \in PosterTasks /\ posting[w].letter \in Letters
           /\ letters[posting[w].letter].status # "none"
           /\ posting[w].at = "taken" => posted[posting[w].letter] = 1
           /\ posting[w].at \in {"checked", "begun"} =>
                 keyKnown[posting[w].letter] \/ posted[posting[w].letter] = 0
  BY DEF LettersAgree, TaskIsSound

LEMMA ReleasedType ==
    ASSUME NEW row \in LetterRows
    PROVE  /\ Released(row) \in LetterRows /\ Released(row).token = Nobody
           /\ Released(row).status = row.status /\ Released(row).attempts = row.attempts
           /\ Released(row).dispatched = row.dispatched
  BY DEF Released, LetterRows

\* Steps that write a row but hand no letter to or from a sender.
LEMMA LetterRowStep ==
    ASSUME LettersAgree, NEW l \in Letters,
           \/ InsertDelivery(l) \/ LetterDelayOver(l) \/ LetterMarkOver(l)
           \/ LetterLeaseOver(l) \/ HeartbeatMissed(l) \/ WindowCloses(l)
           \/ \E r \in Recoverers : ReserveDue(r, l)
    PROVE  LettersAgree' /\ LetterPostStep
  <1> PICK old \in LetterRows :
          old = letters[l] /\ LetterIsSound(old, posted[l], keyKnown[l])
    BY LetterRowTypes
  <1>1. /\ UNCHANGED <<posted, keyKnown, posting, postQueue>>
        /\ recovering' \in [Recoverers -> Letters \cup {Nobody}]
    BY PostersRest DEF InsertDelivery, LetterDelayOver, LetterMarkOver, LetterLeaseOver,
       HeartbeatMissed, WindowCloses, ReserveDue, SetLetter
  <1>2. ASSUME NEW row \in LetterRows, letters' = [letters EXCEPT ![l] = row],
               row.attempts = old.attempts, row.token = old.token,
               \/ row.status = old.status
               \/ old.status = "none" /\ row.status = "pending" /\ row.token = Nobody,
               old.dispatched = "aged" => row.dispatched = "aged"
        PROVE  LettersAgree' /\ LetterPostStep
    <2>1. PostersFollow(l, row, posted[l], keyKnown[l])
      BY <1>1, PostersStay, PostersRest
    <2>2. /\ row.status \in Unfinished \cup {"none"} => row.attempts < PostMaxAttempts
          /\ row.token # Nobody => row.status = "sending"
      BY <1>2 DEF LetterIsSound
    <2>. QED
      BY <1>1, <1>2, <2>1, <2>2, LetterRowMoves
  <1>3. CASE InsertDelivery(l)
    <2> DEFINE row == [old EXCEPT !.status = "pending", !.due = TRUE]
    <2>1. row \in LetterRows /\ row.status = "pending" /\ old.status = "none"
          /\ row.attempts = old.attempts /\ row.token = old.token
          /\ row.dispatched = old.dispatched
      BY <1>3 DEF InsertDelivery, LetterRows, Unfinished
    <2>2. letters' = [letters EXCEPT ![l] = row]
      BY <1>3 DEF InsertDelivery
    <2>3. row.token = Nobody
      BY <2>1 DEF LetterIsSound
    <2> HIDE DEF row
    <2>. QED
      BY <1>2, <2>1, <2>2, <2>3
  <1>4. CASE LetterDelayOver(l)
    <2>1. [old EXCEPT !.due = TRUE] \in LetterRows
      BY DEF LetterRows
    <2>. QED
      BY <1>2, <1>4, <2>1 DEF LetterDelayOver, SetLetter, LetterRows
  <1>5. CASE LetterMarkOver(l)
    <2>1. [old EXCEPT !.queuedBy = Nobody] \in LetterRows
      BY DEF LetterRows
    <2>. QED
      BY <1>2, <1>5, <2>1 DEF LetterMarkOver, SetLetter, LetterRows
  <1>6. CASE LetterLeaseOver(l) \/ HeartbeatMissed(l)
    <2>1. [old EXCEPT !.leased = FALSE] \in LetterRows
      BY DEF LetterRows
    <2>. QED
      BY <1>2, <1>6, <2>1 DEF LetterLeaseOver, HeartbeatMissed, SetLetter, LetterRows
  <1>7. CASE WindowCloses(l)
    <2>1. [old EXCEPT !.dispatched = "aged"] \in LetterRows
      BY DEF LetterRows, Ages
    <2>. QED
      BY <1>2, <1>7, <2>1 DEF WindowCloses, SetLetter, LetterRows
  <1>8. CASE \E r \in Recoverers : ReserveDue(r, l)
    <2> PICK r \in Recoverers : ReserveDue(r, l)
      BY <1>8
    <2>1. [old EXCEPT !.queuedBy = r] \in LetterRows
      BY DEF LetterRows
    <2>. QED
      BY <1>2, <2>1 DEF ReserveDue, LetterRows
  <1>. QED
    BY <1>3, <1>4, <1>5, <1>6, <1>7, <1>8

\* Recovery tasks that queue a letter, undo a reservation, or die.
LEMMA RecoverersStep ==
    ASSUME LettersAgree, NEW r \in Recoverers,
           AddNotificationJob(r) \/ ReleaseEnqueue(r) \/ RecovererDies(r)
    PROVE  LettersAgree' /\ LetterPostStep
  <1> DEFINE l == recovering[r]
  <1>1. /\ l \in Letters /\ UNCHANGED <<posted, keyKnown, posting>>
        /\ postQueue' \subseteq Letters
        /\ recovering' \in [Recoverers -> Letters \cup {Nobody}]
    BY PostersRest DEF AddNotificationJob, ReleaseEnqueue, RecovererDies
  <1> PICK old \in LetterRows :
          old = letters[l] /\ LetterIsSound(old, posted[l], keyKnown[l])
    BY <1>1, LetterRowTypes
  <1>2. ASSUME NEW row
        PROVE  PostersFollow(l, row, posted[l], keyKnown[l])
    BY <1>1, PostersStay
  <1>3. CASE AddNotificationJob(r) \/ RecovererDies(r)
    <2>1. UNCHANGED letters
      BY <1>3 DEF AddNotificationJob, RecovererDies
    <2> HIDE DEF l
    <2>. QED
      BY <1>1, <1>2, <2>1, PostersMove
  <1>4. CASE ReleaseEnqueue(r)
    <2> DEFINE row == [old EXCEPT !.queuedBy = IF old.queuedBy = r THEN Nobody ELSE old.queuedBy]
    <2>1. /\ row \in LetterRows /\ row.status = old.status /\ row.attempts = old.attempts
          /\ row.token = old.token /\ row.dispatched = old.dispatched
      BY DEF LetterRows
    <2>2. letters' = [letters EXCEPT ![l] = row]
      BY <1>4 DEF ReleaseEnqueue
    <2>3. /\ row.status \in Unfinished \cup {"none"} => row.attempts < PostMaxAttempts
          /\ row.token # Nobody => row.status = "sending"
      BY <2>1 DEF LetterIsSound
    <2> HIDE DEF l, row
    <2>. QED
      BY <1>1, <1>2, <2>1, <2>2, <2>3, LetterRowMoves
  <1>. QED
    BY <1>3, <1>4

LEMMA ClaimLetterStep ==
    ASSUME LettersAgree, NEW w \in Posters, NEW l \in Letters, ClaimLetter(w, l)
    PROVE  LettersAgree' /\ LetterPostStep
  <1> PICK old \in LetterRows :
          old = letters[l] /\ LetterIsSound(old, posted[l], keyKnown[l])
    BY LetterRowTypes
  <1>1. UNCHANGED <<posted, keyKnown, recovering>> /\ postQueue' \subseteq Letters
    BY PostersRest DEF ClaimLetter
  <1>2. CASE /\ DueToSend(old)
             /\ letters' = [letters EXCEPT ![l] =
                  [old EXCEPT !.status = "sending", !.token = w, !.leased = TRUE]]
             /\ posting' = [posting EXCEPT ![w] = [letter |-> l, at |-> "claimed"]]
    <2> DEFINE row == [old EXCEPT !.status = "sending", !.token = w, !.leased = TRUE]
               task == [letter |-> l, at |-> "claimed"]
    <2>1. /\ row \in LetterRows /\ row.status = "sending" /\ row.attempts = old.attempts
          /\ row.dispatched = old.dispatched
          /\ old.status \in Unfinished /\ row.attempts < PostMaxAttempts
      BY <1>2 DEF LetterRows, Unfinished, DueToSend, LetterIsSound
    <2>2. task \in PosterTasks /\ task.letter = l /\ task.at = "claimed"
      BY DEF PosterTasks, PosterPlaces
    <2>3. letters' = [letters EXCEPT ![l] = row] /\ posting' = [posting EXCEPT ![w] = task]
      BY <1>2
    <2>4. row.status \in Unfinished
      BY <2>1 DEF Unfinished
    <2> HIDE DEF row, task
    <2>5. PostersFollow(l, row, posted[l], keyKnown[l])
      BY <1>1, <2>1, <2>2, <2>3, PosterFollows
    <2>. QED
      BY <1>1, <2>1, <2>3, <2>4, <2>5, LetterRowMoves
  <1>3. CASE UNCHANGED <<letters, posting>>
    <2>1. PostersFollow(l, letters[l], posted[l], keyKnown[l])
      BY <1>1, <1>3, PostersStay, PostersRest
    <2>. QED
      BY <1>1, <1>3, <2>1, PostersMove
  <1>. QED
    BY <1>2, <1>3 DEF ClaimLetter

\* A sender goes on, or leaves, and no row is written.
LEMMA PosterGoesOn ==
    ASSUME LettersAgree, NEW w \in Posters,
           CheckWindow(w) \/ PostFails(w) \/ PosterDies(w)
    PROVE  LettersAgree' /\ LetterPostStep
  <1> DEFINE l == posting[w].letter
  <1>1. UNCHANGED <<letters, posted, keyKnown, recovering>>
    BY DEF CheckWindow, PostFails, PosterDies
  <1>2. CASE CheckWindow(w) \/ PostFails(w)
    <2>1. /\ l \in Letters /\ posting[w] \in PosterTasks /\ letters[l].status # "none"
          /\ UNCHANGED postQueue
      BY <1>2, TaskParts DEF CheckWindow, PostFails
    <2> PICK at \in {"ambiguous", "checked", "failed", "refused"} :
            /\ posting' = [posting EXCEPT ![w].at = at]
            /\ at = "checked" => ~TooOld(l)
      BY <1>2 DEF CheckWindow, PostFails, Goes
    <2> DEFINE task == [posting[w] EXCEPT !.at = at]
    <2>2. task \in PosterTasks /\ task.letter = l /\ task.at = at
      BY <2>1 DEF PosterTasks, PosterPlaces
    <2>3. posting' = [posting EXCEPT ![w] = task]
      OBVIOUS
    <2>4. at = "checked" => keyKnown[l] \/ posted[l] = 0
      BY <2>1, LetterRowTypes DEF TooOld, LetterIsSound
    <2> HIDE DEF task, l
    <2>5. PostersFollow(l, letters[l], posted[l], keyKnown[l])
      BY <1>1, <2>1, <2>2, <2>3, <2>4, PosterFollows, PostersRest
    <2>. QED
      BY <1>1, <2>1, <2>5, PostersMove
  <1>3. CASE PosterDies(w)
    <2>1. posting[w].at # "idle" \/ posting[w].letter \in Letters
      BY <1>3, PostersRest DEF PosterDies, PosterTasks, PosterIdle
    <2>2. l \in Letters
      BY <2>1, TaskParts
    <2>3. posting' = [posting EXCEPT ![w] = PosterIdle] /\ postQueue' \subseteq Letters
      BY <1>3, <2>2, PostersRest DEF PosterDies, Leaves
    <2>4. PostersFollow(l, letters[l], posted[l], keyKnown[l])
      BY <1>1, <2>2, <2>3, PosterFollows, PostersRest
    <2> HIDE DEF l
    <2>. QED
      BY <1>1, <2>2, <2>4, PostersMove
  <1>. QED
    BY <1>2, <1>3

LEMMA BeginRequestStep ==
    ASSUME LettersAgree, NEW w \in Posters, BeginProviderRequest(w)
    PROVE  LettersAgree' /\ LetterPostStep
  <1> DEFINE l == posting[w].letter
  <1>1. /\ l \in Letters /\ posting[w] \in PosterTasks /\ letters[l].status # "none"
        /\ keyKnown[l] \/ posted[l] = 0
        /\ UNCHANGED <<postQueue, recovering, posted, keyKnown>>
    BY TaskParts DEF BeginProviderRequest
  <1> PICK old \in LetterRows :
          old = letters[l] /\ LetterIsSound(old, posted[l], keyKnown[l])
    BY <1>1, LetterRowTypes
  <1>2. CASE /\ letters' = [letters EXCEPT ![l].dispatched =
                                IF old.dispatched = "never" THEN "recent" ELSE old.dispatched]
             /\ Goes(w, "begun")
    <2> DEFINE dispatched == IF old.dispatched = "never" THEN "recent" ELSE old.dispatched
               row == [old EXCEPT !.dispatched = dispatched]
               task == [posting[w] EXCEPT !.at = "begun"]
    <2>1. dispatched \in Ages /\ (old.dispatched = "aged" => dispatched = "aged")
      BY DEF Ages, LetterRows
    <2>2. letters' = [letters EXCEPT ![l] = row] /\ posting' = [posting EXCEPT ![w] = task]
      BY <1>2 DEF Goes
    <2> HIDE DEF dispatched
    <2>3. /\ row \in LetterRows /\ row.status = old.status /\ row.attempts = old.attempts
          /\ row.token = old.token /\ row.dispatched = dispatched
      BY <2>1 DEF LetterRows
    <2>4. task \in PosterTasks /\ task.letter = l /\ task.at = "begun"
      BY <1>1 DEF PosterTasks, PosterPlaces
    <2>5. /\ row.status \in Unfinished \cup {"none"} => row.attempts < PostMaxAttempts
          /\ row.token # Nobody => row.status = "sending"
      BY <2>3 DEF LetterIsSound
    <2> HIDE DEF l, row, task
    <2>6. PostersFollow(l, row, posted[l], keyKnown[l])
      BY <1>1, <2>2, <2>3, <2>4, PosterFollows, PostersRest
    <2>. QED
      BY <1>1, <2>1, <2>2, <2>3, <2>5, <2>6, LetterRowMoves
  <1>3. CASE Leaves(w) /\ UNCHANGED letters
    <2>1. PostersFollow(l, letters[l], posted[l], keyKnown[l])
      BY <1>1, <1>3, PosterFollows, PostersRest DEF Leaves
    <2> HIDE DEF l
    <2>. QED
      BY <1>1, <1>3, <2>1, PostersMove
  <1>. QED
    BY <1>2, <1>3 DEF BeginProviderRequest

\* The provider takes a message once: its key is new, or known and answered.
LEMMA ProviderTakesStep ==
    ASSUME LettersAgree, NEW w \in Posters, ProviderTakes(w)
    PROVE  LettersAgree' /\ LetterPostStep
  <1> DEFINE l == posting[w].letter
  <1>1. /\ l \in Letters /\ posting[w] \in PosterTasks /\ letters[l].status # "none"
        /\ keyKnown[l] \/ posted[l] = 0
        /\ UNCHANGED <<letters, postQueue, recovering>>
        /\ keyKnown' = [keyKnown EXCEPT ![l] = TRUE]
    BY TaskParts DEF ProviderTakes
  <1> PICK row \in LetterRows, taken \in Nat, known \in BOOLEAN :
          /\ row = letters[l] /\ taken = posted[l] /\ known = keyKnown[l]
          /\ LetterIsSound(row, taken, known)
    BY <1>1, LetterRowTypes
  <1>2. posted' = [posted EXCEPT ![l] = 1]
    <2>1. posted' = [posted EXCEPT ![l] = taken + IF known THEN 0 ELSE 1]
      BY DEF ProviderTakes
    <2>2. taken + (IF known THEN 0 ELSE 1) = 1
      BY <1>1 DEF LetterIsSound
    <2>. QED
      BY <2>1, <2>2
  <1> PICK at \in {"taken", "failed"} : posting' = [posting EXCEPT ![w].at = at]
    BY DEF ProviderTakes, Goes
  <1> DEFINE task == [posting[w] EXCEPT !.at = at]
  <1>3. task \in PosterTasks /\ task.letter = l /\ task.at = at
    BY <1>1 DEF PosterTasks, PosterPlaces
  <1>4. posting' = [posting EXCEPT ![w] = task]
    OBVIOUS
  <1>5. LetterIsSound(row, 1, TRUE)
    BY DEF LetterIsSound
  <1>6. LetterEnd(row) # "none"
    BY <1>1 DEF LetterEnd, Unfinished
  <1>7. PostMoves(LetterEnd(row), LetterEnd(row), taken, 1)
    BY <1>6 DEF PostMoves, LetterIsSound
  <1>8. letters' = [letters EXCEPT ![l] = row]
    BY <1>1, LetterRowTypes
  <1> HIDE DEF task, l
  <1>9. PostersFollow(l, row, 1, TRUE)
    BY <1>1, <1>3, <1>4, PosterFollows, PostersRest
  <1>10. LetterBecomes(l, row, 1, TRUE)
    BY <1>1, <1>2, <1>5, <1>7, <1>8, <1>9 DEF LetterBecomes
  <1>. QED
    BY <1>1, <1>10, LetterMoves

\* A key is forgotten when nobody is about to use it.
LEMMA ProviderForgetsStep ==
    ASSUME LettersAgree, NEW l \in Letters, ProviderForgets(l)
    PROVE  LettersAgree' /\ LetterPostStep
  <1> PICK row \in LetterRows, taken \in Nat, known \in BOOLEAN :
          /\ row = letters[l] /\ taken = posted[l] /\ known = keyKnown[l]
          /\ LetterIsSound(row, taken, known)
    BY LetterRowTypes
  <1>1. LetterIsSound(row, taken, FALSE)
    BY DEF LetterIsSound, ProviderForgets
  <1>2. PostMoves(LetterEnd(row), LetterEnd(row), taken, taken)
    BY DEF PostMoves
  <1>3. PostersFollow(l, row, taken, FALSE)
    BY PostersRest DEF PostersFollow, ProviderForgets
  <1>4. /\ letters' = [letters EXCEPT ![l] = row] /\ posted' = [posted EXCEPT ![l] = taken]
        /\ keyKnown' = [keyKnown EXCEPT ![l] = FALSE]
    BY LetterRowTypes DEF ProviderForgets
  <1>5. LetterBecomes(l, row, taken, FALSE)
    BY <1>1, <1>2, <1>3, <1>4 DEF LetterBecomes
  <1>. QED
    BY <1>5, LetterMoves

LEMMA RecipientStep ==
    ASSUME LettersAgree, NEW l \in Letters, RecipientChanges(l)
    PROVE  LettersAgree' /\ LetterPostStep
  <1>1. /\ UNCHANGED <<letters, posted, keyKnown, posting>>
        /\ postQueue' \subseteq Letters
        /\ recovering' \in [Recoverers -> Letters \cup {Nobody}]
    BY PostersRest DEF RecipientChanges
  <1>2. PostersFollow(l, letters[l], posted[l], keyKnown[l])
    BY <1>1, PostersStay
  <1>. QED
    BY <1>1, <1>2, PostersMove

\* The outcome a sender records, if the letter is still its own.
LEMMA LetterEndsStep ==
    ASSUME LettersAgree, NEW w \in Posters,
           SuppressLetter(w) \/ LetterSent(w) \/ FailLetter(w)
    PROVE  LettersAgree' /\ LetterPostStep
  <1> DEFINE l == posting[w].letter
  <1>1. /\ l \in Letters /\ UNCHANGED <<posted, keyKnown, postQueue, recovering>>
        /\ posting' = [posting EXCEPT ![w] = PosterIdle]
        /\ posting[w].at = "taken" => posted[l] = 1
    BY TaskParts DEF SuppressLetter, LetterSent, FailLetter, Leaves
  <1> PICK old \in LetterRows :
          old = letters[l] /\ LetterIsSound(old, posted[l], keyKnown[l])
    BY <1>1, LetterRowTypes
  <1>2. ASSUME NEW row
        PROVE  PostersFollow(l, row, posted[l], keyKnown[l])
    BY <1>1, PosterFollows, PostersRest
  <1>3. w # Nobody
    BY LetterAssumption
  <1>4. CASE ~HasToken(w, l)
    <2>1. letters' = [letters EXCEPT ![l] = letters[l]]
      BY <1>4 DEF SuppressLetter, LetterSent, FailLetter
    <2>2. UNCHANGED letters
      BY <1>1, <2>1, LetterRowTypes
    <2> HIDE DEF l
    <2>. QED
      BY <1>1, <1>2, <2>2, PostersMove
  <1>5. ASSUME HasToken(w, l)
        PROVE  old.status = "sending" /\ old.attempts \in Nat /\ old.attempts < PostMaxAttempts
    BY <1>3, <1>5 DEF HasToken, LetterIsSound, Unfinished, LetterRows
  <1>6. CASE HasToken(w, l) /\ SuppressLetter(w)
    <2> DEFINE row == [Released(old) EXCEPT !.status = "suppressed"]
    <2>1. /\ row \in LetterRows /\ row.status = "suppressed" /\ row.token = Nobody
          /\ row.dispatched = old.dispatched /\ row.status \notin Unfinished \cup {"none"}
      BY ReleasedType DEF LetterRows, Unfinished
    <2>2. letters' = [letters EXCEPT ![l] = row]
      BY <1>6 DEF SuppressLetter
    <2>3. old.status \in Unfinished
      BY <1>5, <1>6 DEF Unfinished
    <2> HIDE DEF l, row
    <2>. QED
      BY <1>1, <1>2, <2>1, <2>2, <2>3, LetterRowMoves
  <1>7. CASE HasToken(w, l) /\ LetterSent(w)
    <2> DEFINE row == [Released(old) EXCEPT !.status = "sent"]
    <2>1. /\ row \in LetterRows /\ row.status = "sent" /\ row.token = Nobody
          /\ row.dispatched = old.dispatched /\ row.status \notin Unfinished \cup {"none"}
      BY ReleasedType DEF LetterRows, Unfinished
    <2>2. letters' = [letters EXCEPT ![l] = row]
      BY <1>7 DEF LetterSent
    <2>3. old.status \in Unfinished /\ posted[l] = 1
      BY <1>1, <1>5, <1>7 DEF Unfinished, LetterSent
    <2> HIDE DEF l, row
    <2>. QED
      BY <1>1, <1>2, <2>1, <2>2, <2>3, LetterRowMoves
  <1>8. CASE HasToken(w, l) /\ FailLetter(w)
    <2> DEFINE status == AfterFailure(old, posting[w].at)
               row == [Released(old) EXCEPT !.status = status, !.attempts = old.attempts + 1,
                                            !.due = FALSE, !.queuedBy = Nobody]
    <2>1. /\ status \in {"review_required", "dead_lettered", "pending"}
          /\ status = "pending" => ~(old.attempts + 1 >= PostMaxAttempts)
      BY DEF AfterFailure
    <2>2. /\ old.attempts + 1 \in 0..PostMaxAttempts
          /\ status = "pending" => old.attempts + 1 < PostMaxAttempts
      BY <1>5, <1>8, <2>1, LetterAssumption
    <2>3. letters' = [letters EXCEPT ![l] = row]
      BY <1>8 DEF FailLetter
    <2>4. Released(old) \in LetterRows /\ Released(old).token = Nobody
          /\ Released(old).dispatched = old.dispatched
      BY ReleasedType
    <2> HIDE DEF status
    <2>5. /\ row \in LetterRows /\ row.status = status /\ row.token = Nobody
          /\ row.attempts = old.attempts + 1 /\ row.dispatched = old.dispatched
      BY <2>1, <2>2, <2>4 DEF LetterRows, Unfinished
    <2>6. old.status \in Unfinished /\ (status \in Unfinished \cup {"none"} => status = "pending")
      BY <1>5, <1>8, <2>1 DEF Unfinished
    <2>7. status \in Unfinished \cup {"suppressed", "dead_lettered", "review_required"}
      BY <2>1 DEF Unfinished
    <2> HIDE DEF l, row
    <2>. QED
      BY <1>1, <1>2, <2>2, <2>3, <2>5, <2>6, <2>7, LetterRowMoves
  <1>. QED
    BY <1>4, <1>6, <1>7, <1>8

LEMMA LettersBegin ==
    ASSUME LettersInit
    PROVE  LettersAgree /\ LetterPost!PostInit
  <1>1. /\ NoLetter \in LetterRows /\ NoLetter.status = "none" /\ NoLetter.attempts = 0
        /\ NoLetter.token = Nobody
    BY LetterAssumption DEF NoLetter, LetterRows, Ages
  <1>2. PosterIdle \in PosterTasks /\ PosterIdle.at = "idle"
    BY DEF PosterIdle, PosterTasks, PosterPlaces
  <1>3. /\ LettersTypeOK /\ keyKnown \in [Letters -> BOOLEAN] /\ postQueue \subseteq Letters
        /\ recovering \in [Recoverers -> Letters \cup {Nobody}]
        /\ posting \in [Posters -> PosterTasks]
    BY <1>1, <1>2 DEF LettersInit, LettersTypeOK
  <1>4. \A l \in Letters : LetterIsSound(letters[l], posted[l], keyKnown[l])
    BY <1>1, LetterAssumption DEF LettersInit, LetterIsSound
  <1>5. \A w \in Posters : TaskIsSound(posting[w])
    BY <1>2 DEF LettersInit, TaskIsSound
  <1>6. \A l \in Letters : letters[l].status = "none"
    BY <1>1 DEF LettersInit
  <1>7. LetterOutcome = [l \in Letters |-> "none"]
    <2>1. \A l \in Letters : LetterOutcome[l] = "none"
      BY <1>6 DEF LetterOutcome, Unfinished
    <2>2. LetterOutcome = [l \in Letters |-> LetterOutcome[l]]
      BY DEF LetterOutcome
    <2>. QED
      BY <2>1, <2>2
  <1>8. LetterPost!PostInit
    BY <1>7 DEF LettersInit, LetterPost!PostInit
  <1>. QED
    BY <1>3, <1>4, <1>5, <1>8 DEF LettersAgree

LEMMA LettersStep ==
    ASSUME LettersAgree, [LettersNext]_letterVars
    PROVE  LettersAgree' /\ LetterPostStep
  <1>1. CASE UNCHANGED letterVars
    <2>1. LettersAgree'
      BY <1>1 DEF letterVars, LettersAgree, LettersTypeOK, LetterIsSound, TaskIsSound
    <2>. QED
      BY <1>1, <2>1 DEF letterVars, LetterPostStep, LetterOutcome
  <1>2. ASSUME NEW l \in Letters,
               \/ InsertDelivery(l) \/ LetterDelayOver(l) \/ LetterMarkOver(l)
               \/ LetterLeaseOver(l) \/ HeartbeatMissed(l) \/ WindowCloses(l)
               \/ ProviderForgets(l) \/ RecipientChanges(l)
        PROVE  LettersAgree' /\ LetterPostStep
    BY <1>2, LetterRowStep, ProviderForgetsStep, RecipientStep
  <1>3. ASSUME NEW r \in Recoverers,
               RecoverStep(r) \/ ReleaseEnqueue(r) \/ RecovererDies(r)
        PROVE  LettersAgree' /\ LetterPostStep
    BY <1>3, LetterRowStep, RecoverersStep DEF RecoverStep
  <1>4. ASSUME NEW w \in Posters, PostStep(w) \/ PostFails(w) \/ PosterDies(w)
        PROVE  LettersAgree' /\ LetterPostStep
    BY <1>4, ClaimLetterStep, LetterEndsStep, PosterGoesOn, BeginRequestStep,
       ProviderTakesStep DEF PostStep
  <1>. QED
    BY <1>1, <1>2, <1>3, <1>4 DEF LettersNext

\* However recovery tasks, queue and senders crash, lose their leases and
\* repeat each other, and although the provider forgets a key after a day:
\* row and provider agree on every e-mail of a notification, a request only
\* goes out under a key that is known or was never used, and only the holder
\* of a token is sending (notification-email-delivery.repository.ts).
THEOREM LettersConsistency == LettersSpec => []LettersAgree
  <1>1. LettersInit => LettersAgree
    BY LettersBegin
  <1>2. LettersAgree /\ [LettersNext]_letterVars => LettersAgree'
    BY LettersStep
  <1>. QED
    BY <1>1, <1>2, PTL DEF LettersSpec

\* The pipeline of notification e-mails implements Postbox too.
THEOREM LettersAreDelivered == LettersSpec => LettersKeepTheirPromise
  <1>1. LettersInit => LetterPost!PostInit
    BY LettersBegin
  <1>2. LettersAgree /\ [LettersNext]_letterVars
            => [LetterPost!PostNext]_<<LetterOutcome, posted>>
    BY LettersStep DEF LetterPostStep
  <1>. QED
    BY <1>1, <1>2, LettersConsistency, PTL
       DEF LettersSpec, LettersKeepTheirPromise, LetterPost!PostSpec, LetterPost!postVars

\* One message per transition of an order and per delivery of a notification,
\* a final outcome, and "sent" only for what the provider took: both pipelines
\* implement Postbox, beside everything else that goes on.
THEOREM MailIsDelivered == BackgroundSpec => MailKeepsItsPromise
  BY OrderMailsAreDelivered, LettersAreDelivered, PTL DEF BackgroundSpec, MailKeepsItsPromise

(***************************************************************************)
(* The fan-out of notifications                                            *)
(***************************************************************************)
Batches ==
    [at : {"idle", "ensuring", "queueing"}, todo : SUBSET Sources,
     mine : SUBSET Sources, batch : SUBSET Sources]

\* An event knows how far it has come: everyone up to its progress has a
\* state row, and only one that is being processed has a token.
EventIsSound(s, row, state) ==
    /\ row.status \in Live \cup {"none"} => row.attempts < EventMaxAttempts
    /\ row.token # NoFanner => row.status = "processing"
    /\ row.progress <= Len(Recipients[s])
    /\ \A i \in 1..row.progress : state[Recipients[s][i]] # "none"
    /\ row.status = "processed" => row.progress = Len(Recipients[s])

SourcesAreSound ==
    /\ sources \in [Sources -> OutboxRow]
    /\ \A s \in Sources : IntentIsSound(sources[s])

EventsAreSound ==
    /\ events \in [Sources -> EventRows]
    /\ \A s \in Sources : EventIsSound(s, events[s], states[s])

FannersAreSound ==
    /\ fanQueue \subseteq Sources
    /\ fanDispatch \in [FanDispatchers -> Batches]
    /\ fanning \in [Fanners -> Sources \cup {NoFanner}]

\* What a state row leaves to be seen of a notification.
SeenFits(outcome, seen) ==
    CASE outcome = "materialized" -> seen \in {"shown", "gone"}
      [] outcome = "deleted" -> seen \in {"deleted", "gone"}
      [] OTHER -> seen = "none"

Invitations ==
    [status : {"pending", "closed"}, bound : BOOLEAN, holds : BOOLEAN, reminded : BOOLEAN]

InboxIsSound ==
    /\ states \in [Sources -> [People -> Outcomes]]
    /\ inbox \in [Sources -> [People -> {"none", "shown", "deleted", "gone"}]]
    /\ age \in [Sources -> {"fresh", "old", "ancient"}]
    /\ invitation \in Invitations
    /\ InboxAgreesWithStates

FanAgrees ==
    /\ SourcesAreSound /\ EventsAreSound /\ FannersAreSound /\ InboxIsSound
    /\ BindingLeavesNothingBehind

EventsStay ==
    \A s \in Sources :
        events[s].status \in Settled => events'[s].status = events[s].status

LEMMA SourceMoves ==
    ASSUME SourcesAreSound, NEW s \in Sources, NEW row \in OutboxRow, IntentIsSound(row),
           sources' = [sources EXCEPT ![s] = row]
    PROVE  SourcesAreSound'
  BY DEF SourcesAreSound

LEMMA RecipientsKnown ==
    ASSUME NEW s \in Sources
    PROVE  /\ Len(Recipients[s]) \in Nat
           /\ \A i \in 1..Len(Recipients[s]) : Recipients[s][i] \in People
           /\ DOMAIN Recipients[s] = 1..Len(Recipients[s])
  <1>1. Recipients[s] \in Seq(People)
    BY FanAssumption
  <1>. QED
    BY <1>1

LEMMA EventMoves ==
    ASSUME EventsAreSound, NEW s \in Sources, NEW row \in EventRows,
           events' = [events EXCEPT ![s] = row], UNCHANGED states,
           EventIsSound(s, row, states[s]),
           events[s].status \in Settled => row.status = events[s].status
    PROVE  EventsAreSound' /\ EventsStay
  <1>1. \A t \in Sources : events'[t] = IF t = s THEN row ELSE events[t]
    BY DEF EventsAreSound
  <1>. QED
    BY <1>1 DEF EventsAreSound, EventsStay

LEMMA EventsRest ==
    ASSUME EventsAreSound, UNCHANGED <<events, states>>
    PROVE  EventsAreSound' /\ EventsStay
  BY DEF EventsAreSound, EventsStay

\* Whoever has a state row keeps one.
LEMMA StatesGrow ==
    ASSUME EventsAreSound, UNCHANGED events,
           \A s \in Sources, p \in People : states[s][p] # "none" => states'[s][p] # "none"
    PROVE  EventsAreSound' /\ EventsStay
  <1>1. ASSUME NEW s \in Sources
        PROVE  EventIsSound(s, events'[s], states'[s])
    <2>1. EventIsSound(s, events[s], states[s]) /\ events[s] \in EventRows
      BY DEF EventsAreSound
    <2>2. events[s].progress \in Nat
      BY <2>1 DEF EventRows
    <2>3. \A i \in 1..events[s].progress : Recipients[s][i] \in People
      BY <2>1, <2>2, RecipientsKnown DEF EventIsSound
    <2>. QED
      BY <2>1, <2>3 DEF EventIsSound
  <1>. QED
    BY <1>1 DEF EventsAreSound, EventsStay

LEMMA RecipientsRest ==
    ASSUME InboxIsSound, BindingLeavesNothingBehind,
           UNCHANGED <<states, inbox, age, invitation, missed>>
    PROVE  InboxIsSound' /\ BindingLeavesNothingBehind'
  BY DEF InboxIsSound, InboxAgreesWithStates, BindingLeavesNothingBehind

LEMMA EventParts ==
    ASSUME EventsAreSound, NEW s \in Sources
    PROVE  /\ events[s] \in EventRows /\ EventIsSound(s, events[s], states[s])
           /\ events = [events EXCEPT ![s] = events[s]]
  BY DEF EventsAreSound

\* Intents: recorded, waking, claimed, retried.
LEMMA SourceStep ==
    ASSUME FanAgrees, NEW s \in Sources, RecordIntent(s) \/ SourceWakes(s)
    PROVE  FanAgrees' /\ EventsStay
  <1>1. UNCHANGED <<events, fanQueue, fanDispatch, fanning, states, inbox, age, invitation, missed>>
    BY DEF RecordIntent, SourceWakes, recipientVars
  <1> PICK old \in OutboxRow : old = sources[s] /\ IntentIsSound(old)
    BY DEF FanAgrees, SourcesAreSound
  <1>2. SourcesAreSound'
    BY IntentMoves, SourceMoves DEF RecordIntent, SourceWakes, FanAgrees
  <1>3. EventsAreSound' /\ EventsStay
    BY <1>1, EventsRest DEF FanAgrees
  <1>4. InboxIsSound' /\ BindingLeavesNothingBehind'
    BY <1>1, RecipientsRest DEF FanAgrees
  <1>5. FannersAreSound'
    BY <1>1 DEF FanAgrees, FannersAreSound
  <1>. QED
    BY <1>2, <1>3, <1>4, <1>5 DEF FanAgrees

LEMMA BatchTypes ==
    ASSUME FannersAreSound, NEW d \in FanDispatchers
    PROVE  /\ fanDispatch[d] \in Batches /\ IdleDispatch \in Batches
           /\ \A b \in Batches : [fanDispatch EXCEPT ![d] = b] \in [FanDispatchers -> Batches]
  BY DEF FannersAreSound, Batches, IdleDispatch

LEMMA ClaimSourcesStep ==
    ASSUME FanAgrees, NEW d \in FanDispatchers, ClaimSources(d)
    PROVE  FanAgrees' /\ EventsStay
  <1> DEFINE due == {s \in Sources : Claimable(sources[s])}
  <1>1. UNCHANGED <<events, fanQueue, fanning, states, inbox, age, invitation, missed>>
    BY DEF ClaimSources, recipientVars
  <1>2. SourcesAreSound'
    <2>1. sources' = [s \in Sources |-> IF s \in due THEN Claim(sources[s]) ELSE sources[s]]
      BY DEF ClaimSources
    <2>2. \A s \in Sources : sources[s] \in OutboxRow /\ IntentIsSound(sources[s])
      BY DEF FanAgrees, SourcesAreSound
    <2>3. \A s \in Sources : Claim(sources[s]) \in OutboxRow /\ IntentIsSound(Claim(sources[s]))
      BY <2>2, IntentMoves
    <2> HIDE DEF due
    <2>. QED
      BY <2>1, <2>2, <2>3 DEF SourcesAreSound
  <1>3. EventsAreSound' /\ EventsStay
    BY <1>1, EventsRest DEF FanAgrees
  <1>4. InboxIsSound' /\ BindingLeavesNothingBehind'
    BY <1>1, RecipientsRest DEF FanAgrees
  <1>5. FannersAreSound'
    <2>1. fanDispatch' = [fanDispatch EXCEPT ![d] =
              [IdleDispatch EXCEPT !.at = "ensuring", !.todo = due]]
      BY DEF ClaimSources
    <2>2. [IdleDispatch EXCEPT !.at = "ensuring", !.todo = due] \in Batches
      BY DEF IdleDispatch, Batches
    <2> HIDE DEF due
    <2>. QED
      BY <1>1, <2>1, <2>2 DEF FanAgrees, FannersAreSound
  <1>. QED
    BY <1>2, <1>3, <1>4, <1>5 DEF FanAgrees

LEMMA EnsureEventStep ==
    ASSUME FanAgrees, NEW d \in FanDispatchers, NEW s \in Sources,
           EnsureEvent(d, s) \/ EnsureFails(d, s)
    PROVE  FanAgrees' /\ EventsStay
  <1>1. UNCHANGED <<fanQueue, fanning, states, inbox, age, invitation, missed>>
    BY DEF EnsureEvent, EnsureFails, recipientVars
  <1>2. SourcesAreSound'
    <2> PICK old \in OutboxRow : old = sources[s] /\ IntentIsSound(old)
      BY DEF FanAgrees, SourcesAreSound
    <2> PICK row \in {old, MarkPublished(old), RescheduleIntent(old)} :
            sources' = [sources EXCEPT ![s] = row]
      BY DEF EnsureEvent, EnsureFails
    <2>1. row \in OutboxRow /\ IntentIsSound(row)
      BY IntentMoves
    <2>. QED
      BY <2>1, SourceMoves DEF FanAgrees
  <1>3. EventsAreSound' /\ EventsStay
    <2> PICK old \in EventRows :
            /\ old = events[s] /\ EventIsSound(s, old, states[s])
            /\ events = [events EXCEPT ![s] = old]
      BY EventParts DEF FanAgrees
    <2>1. CASE UNCHANGED events
      BY <1>1, <2>1, EventsRest DEF FanAgrees
    <2>2. CASE /\ old.status = "none"
               /\ events' = [events EXCEPT ![s] = [old EXCEPT !.status = "pending", !.due = TRUE]]
      <3> DEFINE row == [old EXCEPT !.status = "pending", !.due = TRUE]
      <3>1. /\ row \in EventRows /\ row.status = "pending" /\ row.attempts = old.attempts
            /\ row.token = old.token /\ row.progress = old.progress
        BY DEF EventRows, Live
      <3>2. EventIsSound(s, row, states[s])
        BY <2>2, <3>1 DEF EventIsSound, Live
      <3>3. old.status \notin Settled /\ events' = [events EXCEPT ![s] = row]
        BY <2>2 DEF Settled
      <3> HIDE DEF row
      <3>. QED
        BY <1>1, <3>1, <3>2, <3>3, EventMoves DEF FanAgrees
    <2>3. \/ UNCHANGED events
          \/ /\ old.status = "none"
             /\ events' = [events EXCEPT ![s] = [old EXCEPT !.status = "pending", !.due = TRUE]]
      BY DEF EnsureEvent, EnsureFails
    <2>. QED
      BY <2>1, <2>2, <2>3
  <1>4. InboxIsSound' /\ BindingLeavesNothingBehind'
    BY <1>1, RecipientsRest DEF FanAgrees
  <1>5. FannersAreSound'
    <2> PICK batch \in Batches : batch = fanDispatch[d]
      BY BatchTypes DEF FanAgrees
    <2> PICK mine \in {batch.mine, batch.mine \cup {s}} :
            fanDispatch' = [fanDispatch EXCEPT ![d] =
                [batch EXCEPT !.todo = batch.todo \ {s}, !.mine = mine]]
      <3>1. CASE EnsureEvent(d, s)
        <4> DEFINE mine == IF events[s].status \in Settled THEN batch.mine
                           ELSE batch.mine \cup {s}
        <4>1. fanDispatch' = [fanDispatch EXCEPT ![d].todo = batch.todo \ {s}, ![d].mine = mine]
          BY <3>1 DEF EnsureEvent
        <4> HIDE DEF mine
        <4>2. fanDispatch' = [fanDispatch EXCEPT ![d] =
                [batch EXCEPT !.todo = batch.todo \ {s}, !.mine = mine]]
          BY <4>1 DEF FanAgrees, FannersAreSound, Batches
        <4>. QED
          BY <4>2 DEF mine
      <3>2. CASE EnsureFails(d, s)
        <4>1. fanDispatch' = [fanDispatch EXCEPT ![d].todo = batch.todo \ {s}]
          BY <3>2 DEF EnsureFails
        <4>2. fanDispatch' = [fanDispatch EXCEPT ![d] =
                [batch EXCEPT !.todo = batch.todo \ {s}, !.mine = batch.mine]]
          BY <4>1 DEF FanAgrees, FannersAreSound, Batches
        <4>. QED
          BY <4>2
      <3>. QED
        BY <3>1, <3>2
    <2>1. [batch EXCEPT !.todo = batch.todo \ {s}, !.mine = mine] \in Batches
      BY DEF Batches
    <2>. QED
      BY <1>1, <2>1 DEF FanAgrees, FannersAreSound
  <1>. QED
    BY <1>2, <1>3, <1>4, <1>5 DEF FanAgrees

LEMMA ReserveEventsStep ==
    ASSUME FanAgrees, NEW d \in FanDispatchers, ReserveEvents(d)
    PROVE  FanAgrees' /\ EventsStay
  <1> DEFINE batch == {s \in Sources : Reservable(events[s])}
  <1>1. UNCHANGED <<sources, fanQueue, fanning, states, inbox, age, invitation, missed>>
    BY DEF ReserveEvents, recipientVars
  <1>2. SourcesAreSound'
    BY <1>1 DEF FanAgrees, SourcesAreSound
  <1>3. EventsAreSound' /\ EventsStay
    <2>1. events' = [s \in Sources |-> IF s \in batch THEN [events[s] EXCEPT !.queuedBy = d]
                                       ELSE events[s]]
      BY DEF ReserveEvents
    <2>2. ASSUME NEW s \in Sources
          PROVE  /\ events'[s] \in EventRows /\ events'[s].status = events[s].status
                 /\ EventIsSound(s, events'[s], states[s])
      <3>1. events[s] \in EventRows /\ EventIsSound(s, events[s], states[s])
        BY EventParts DEF FanAgrees
      <3> DEFINE row == [events[s] EXCEPT !.queuedBy = d]
      <3>2. /\ row \in EventRows /\ row.status = events[s].status
            /\ row.attempts = events[s].attempts /\ row.token = events[s].token
            /\ row.progress = events[s].progress
        BY <3>1 DEF EventRows
      <3>3. EventIsSound(s, row, states[s])
        BY <3>1, <3>2 DEF EventIsSound
      <3>4. events'[s] = row \/ events'[s] = events[s]
        BY <2>1
      <3> HIDE DEF row
      <3>. QED
        BY <3>1, <3>2, <3>3, <3>4
    <2> HIDE DEF batch
    <2>3. events' \in [Sources -> EventRows]
      BY <2>1, <2>2
    <2>. QED
      BY <1>1, <2>2, <2>3 DEF EventsAreSound, EventsStay
  <1>4. InboxIsSound' /\ BindingLeavesNothingBehind'
    BY <1>1, RecipientsRest DEF FanAgrees
  <1>5. FannersAreSound'
    <2> PICK old \in Batches : old = fanDispatch[d]
      BY BatchTypes DEF FanAgrees
    <2> PICK new \in {IdleDispatch, [old EXCEPT !.at = "queueing", !.batch = batch]} :
            fanDispatch' = [fanDispatch EXCEPT ![d] = new]
      BY DEF ReserveEvents
    <2>1. batch \subseteq Sources
      OBVIOUS
    <2> HIDE DEF batch
    <2>2. [old EXCEPT !.at = "queueing", !.batch = batch] \in Batches
      BY <2>1 DEF Batches
    <2>3. new \in Batches
      BY <2>2, BatchTypes DEF FanAgrees
    <2>. QED
      BY <1>1, <2>3 DEF FanAgrees, FannersAreSound
  <1>. QED
    BY <1>2, <1>3, <1>4, <1>5 DEF FanAgrees

LEMMA EnqueueEventStep ==
    ASSUME FanAgrees, NEW d \in FanDispatchers, NEW s \in Sources,
           EnqueueEvent(d, s) \/ ReleaseEvent(d, s)
    PROVE  FanAgrees' /\ EventsStay
  <1>1. UNCHANGED <<fanning, states, inbox, age, invitation, missed>>
    BY DEF EnqueueEvent, ReleaseEvent, recipientVars
  <1>2. SourcesAreSound'
    <2> PICK old \in OutboxRow :
            old = sources[s] /\ IntentIsSound(old) /\ sources = [sources EXCEPT ![s] = old]
      BY DEF FanAgrees, SourcesAreSound
    <2> PICK row \in {old, MarkPublished(old)} : sources' = [sources EXCEPT ![s] = row]
      BY DEF EnqueueEvent, ReleaseEvent
    <2>1. row \in OutboxRow /\ IntentIsSound(row)
      BY IntentMoves
    <2>. QED
      BY <2>1, SourceMoves DEF FanAgrees
  <1>3. EventsAreSound' /\ EventsStay
    <2> PICK old \in EventRows :
            /\ old = events[s] /\ EventIsSound(s, old, states[s])
            /\ events = [events EXCEPT ![s] = old]
      BY EventParts DEF FanAgrees
    <2>1. CASE UNCHANGED events
      BY <1>1, <2>1, EventsRest DEF FanAgrees
    <2>2. CASE ReleaseEvent(d, s)
      <3> DEFINE by == IF old.queuedBy = d THEN NoFanner ELSE old.queuedBy
                 row == [old EXCEPT !.queuedBy = by]
      <3>1. by \in FanDispatchers \cup {NoFanner} /\ events' = [events EXCEPT ![s] = row]
        BY <2>2 DEF ReleaseEvent, EventRows
      <3> HIDE DEF by
      <3>2. /\ row \in EventRows /\ row.status = old.status /\ row.attempts = old.attempts
            /\ row.token = old.token /\ row.progress = old.progress
        BY <3>1 DEF EventRows
      <3>3. EventIsSound(s, row, states[s])
        BY <3>2 DEF EventIsSound
      <3> HIDE DEF row
      <3>. QED
        BY <1>1, <3>1, <3>2, <3>3, EventMoves DEF FanAgrees
    <2>. QED
      BY <2>1, <2>2 DEF EnqueueEvent
  <1>4. InboxIsSound' /\ BindingLeavesNothingBehind'
    BY <1>1, RecipientsRest DEF FanAgrees
  <1>5. FannersAreSound'
    <2> PICK old \in Batches : old = fanDispatch[d]
      BY BatchTypes DEF FanAgrees
    <2> PICK new \in {IdleDispatch, [old EXCEPT !.batch = old.batch \ {s}]} :
            fanDispatch' = [fanDispatch EXCEPT ![d] = new]
      BY DEF EnqueueEvent, ReleaseEvent, Scheduled
    <2>1. new \in Batches
      BY DEF Batches, IdleDispatch
    <2>2. fanQueue' \subseteq Sources
      BY DEF EnqueueEvent, ReleaseEvent, FanAgrees, FannersAreSound
    <2>. QED
      BY <1>1, <2>1, <2>2 DEF FanAgrees, FannersAreSound
  <1>. QED
    BY <1>2, <1>3, <1>4, <1>5 DEF FanAgrees

\* A process that dies, of either kind.
LEMMA FanDeathStep ==
    ASSUME FanAgrees,
           \/ \E d \in FanDispatchers : FanDispatcherDies(d)
           \/ \E w \in Fanners : FannerDies(w)
    PROVE  FanAgrees' /\ EventsStay
  <1>1. UNCHANGED <<sources, events, states, inbox, age, invitation, missed>>
    BY DEF FanDispatcherDies, FannerDies, recipientVars
  <1>2. SourcesAreSound'
    BY <1>1 DEF FanAgrees, SourcesAreSound
  <1>3. EventsAreSound' /\ EventsStay
    BY <1>1, EventsRest DEF FanAgrees
  <1>4. InboxIsSound' /\ BindingLeavesNothingBehind'
    BY <1>1, RecipientsRest DEF FanAgrees
  <1>5. FannersAreSound'
    <2>1. CASE \E d \in FanDispatchers : FanDispatcherDies(d)
      BY <2>1, BatchTypes DEF FanAgrees, FannersAreSound, FanDispatcherDies
    <2>2. CASE \E w \in Fanners : FannerDies(w)
      <3> PICK w \in Fanners : FannerDies(w)
        BY <2>2
      <3>1. fanQueue' \subseteq Sources
        BY DEF FanAgrees, FannersAreSound, FannerDies
      <3>2. fanning' \in [Fanners -> Sources \cup {NoFanner}] /\ UNCHANGED fanDispatch
        BY DEF FanAgrees, FannersAreSound, FannerDies
      <3>. QED
        BY <3>1, <3>2 DEF FanAgrees, FannersAreSound
    <2>. QED
      BY <2>1, <2>2
  <1>. QED
    BY <1>2, <1>3, <1>4, <1>5 DEF FanAgrees

LEMMA ClaimEventStep ==
    ASSUME FanAgrees, NEW w \in Fanners, NEW s \in Sources, ClaimEvent(w, s)
    PROVE  FanAgrees' /\ EventsStay
  <1>1. UNCHANGED <<sources, fanDispatch, states, inbox, age, invitation, missed>>
    BY DEF ClaimEvent, recipientVars
  <1>2. SourcesAreSound'
    BY <1>1 DEF FanAgrees, SourcesAreSound
  <1>3. EventsAreSound' /\ EventsStay
    <2> PICK old \in EventRows : old = events[s] /\ EventIsSound(s, old, states[s])
      BY EventParts DEF FanAgrees
    <2>1. CASE UNCHANGED events
      BY <1>1, <2>1, EventsRest DEF FanAgrees
    <2>2. CASE /\ DueEvent(old)
               /\ events' = [events EXCEPT ![s] =
                    [old EXCEPT !.status = "processing", !.token = w, !.leased = TRUE]]
      <3> DEFINE row == [old EXCEPT !.status = "processing", !.token = w, !.leased = TRUE]
      <3>1. /\ row \in EventRows /\ row.status = "processing" /\ row.attempts = old.attempts
            /\ row.progress = old.progress /\ old.status \in Live
        BY <2>2 DEF EventRows, Live, DueEvent
      <3>2. EventIsSound(s, row, states[s]) /\ old.status \notin Settled
        BY <3>1 DEF EventIsSound, Live, Settled
      <3>3. events' = [events EXCEPT ![s] = row]
        BY <2>2
      <3> HIDE DEF row
      <3>. QED
        BY <1>1, <3>1, <3>2, <3>3, EventMoves DEF FanAgrees
    <2>. QED
      BY <2>1, <2>2 DEF ClaimEvent
  <1>4. InboxIsSound' /\ BindingLeavesNothingBehind'
    BY <1>1, RecipientsRest DEF FanAgrees
  <1>5. FannersAreSound'
    BY <1>1 DEF ClaimEvent, FanAgrees, FannersAreSound
  <1>. QED
    BY <1>2, <1>3, <1>4, <1>5 DEF FanAgrees

LEMMA FailFanStep ==
    ASSUME FanAgrees, NEW w \in Fanners, FailEvent(w)
    PROVE  FanAgrees' /\ EventsStay
  <1> DEFINE s == fanning[w]
  <1>1. s \in Sources /\ UNCHANGED <<sources, fanQueue, fanDispatch, states, inbox, age, invitation, missed>>
    BY DEF FailEvent, recipientVars, FanAgrees, FannersAreSound
  <1>2. SourcesAreSound'
    BY <1>1 DEF FanAgrees, SourcesAreSound
  <1>3. EventsAreSound' /\ EventsStay
    <2> PICK old \in EventRows :
            /\ old = events[s] /\ EventIsSound(s, old, states[s])
            /\ events = [events EXCEPT ![s] = old]
      BY <1>1, EventParts DEF FanAgrees
    <2>1. CASE ~TokenOf(w, s)
      <3>1. UNCHANGED events
        BY <2>1 DEF FailEvent
      <3>. QED
        BY <1>1, <3>1, EventsRest DEF FanAgrees
    <2>2. CASE TokenOf(w, s)
      <3> DEFINE status == IF age[s] = "ancient" \/ old.attempts + 1 >= EventMaxAttempts
                           THEN "dead_lettered" ELSE "pending"
                 row == [old EXCEPT !.attempts = old.attempts + 1, !.due = FALSE,
                            !.queuedBy = NoFanner, !.token = NoFanner, !.leased = FALSE,
                            !.status = status]
      <3>1. events' = [events EXCEPT ![s] = row]
        BY <2>2 DEF FailEvent
      <3>2. old.status = "processing" /\ old.attempts \in Nat /\ old.attempts < EventMaxAttempts
        BY <2>2, FanAssumption DEF TokenOf, EventIsSound, EventRows, Live
      <3>3. /\ old.attempts + 1 \in 0..EventMaxAttempts /\ status \in {"dead_lettered", "pending"}
            /\ status = "pending" => old.attempts + 1 < EventMaxAttempts
        BY <3>2, FanAssumption
      <3> HIDE DEF status
      <3>4. /\ row \in EventRows /\ row.status = status /\ row.attempts = old.attempts + 1
            /\ row.token = NoFanner /\ row.progress = old.progress
        BY <3>3 DEF EventRows, Live, Settled
      <3>5. EventIsSound(s, row, states[s]) /\ old.status \notin Settled
        BY <3>2, <3>3, <3>4 DEF EventIsSound, Live, Settled
      <3> HIDE DEF row, s
      <3>. QED
        BY <1>1, <3>1, <3>4, <3>5, EventMoves DEF FanAgrees
    <2>. QED
      BY <2>1, <2>2
  <1>4. InboxIsSound' /\ BindingLeavesNothingBehind'
    BY <1>1, RecipientsRest DEF FanAgrees
  <1>5. FannersAreSound'
    BY <1>1 DEF FailEvent, FanAgrees, FannersAreSound
  <1>. QED
    BY <1>2, <1>3, <1>4, <1>5 DEF FanAgrees

\* Timers of events.
LEMMA EventClockStep ==
    ASSUME FanAgrees, NEW s \in Sources, EventDelayOver(s) \/ FanMarkOver(s) \/ FanLeaseOver(s)
    PROVE  FanAgrees' /\ EventsStay
  <1>1. UNCHANGED <<sources, fanQueue, fanDispatch, fanning, states, inbox, age, invitation, missed>>
    BY DEF EventDelayOver, FanMarkOver, FanLeaseOver, recipientVars
  <1>2. SourcesAreSound' /\ FannersAreSound'
    BY <1>1 DEF FanAgrees, SourcesAreSound, FannersAreSound
  <1>3. EventsAreSound' /\ EventsStay
    <2> PICK old \in EventRows : old = events[s] /\ EventIsSound(s, old, states[s])
      BY EventParts DEF FanAgrees
    <2> PICK row \in {[old EXCEPT !.due = TRUE], [old EXCEPT !.queuedBy = NoFanner],
                      [old EXCEPT !.leased = FALSE]} : events' = [events EXCEPT ![s] = row]
      BY DEF EventDelayOver, FanMarkOver, FanLeaseOver
    <2>1. /\ row \in EventRows /\ row.status = old.status /\ row.attempts = old.attempts
          /\ row.token = old.token /\ row.progress = old.progress
      BY DEF EventRows
    <2>2. EventIsSound(s, row, states[s])
      BY <2>1 DEF EventIsSound
    <2>. QED
      BY <1>1, <2>1, <2>2, EventMoves DEF FanAgrees
  <1>4. InboxIsSound' /\ BindingLeavesNothingBehind'
    BY <1>1, RecipientsRest DEF FanAgrees
  <1>. QED
    BY <1>2, <1>3, <1>4 DEF FanAgrees

LEMMA MaterializedIs ==
    ASSUME NEW s \in Sources, NEW p \in People,
           states \in [Sources -> [People -> Outcomes]]
    PROVE  /\ Materialized(s, p) \in Outcomes \ {"none"}
           /\ states[s][p] # "none" => Materialized(s, p) = states[s][p]
           /\ states[s][p] = "none" => Materialized(s, p) # "deleted"
  <1>1. states[s][p] \in Outcomes
    OBVIOUS
  <1>2. CASE states[s][p] # "none"
    <2>1. Materialized(s, p) = states[s][p]
      BY <1>2 DEF Materialized
    <2>. QED
      BY <1>1, <1>2, <2>1
  <1>3. CASE states[s][p] = "none"
    <2>1. Materialized(s, p) \in {"suppressed", "expired", "materialized", "pending_binding"}
      BY <1>3 DEF Materialized
    <2>. QED
      BY <1>3, <2>1 DEF Outcomes
  <1>. QED
    BY <1>2, <1>3

\* One batch of a fan-out: its recipients get their rows and the event moves on.
LEMMA CheckpointStep ==
    ASSUME FanAgrees, NEW w \in Fanners, Checkpoint(w)
    PROVE  FanAgrees' /\ EventsStay
  <1> DEFINE s == fanning[w]
             batch == {Recipients[s][i] : i \in events[s].progress + 1 .. NextProgress(s)}
             fresh == {p \in batch : states[s][p] = "none"
                                     /\ Materialized(s, p) = "materialized"}
             late == {p \in batch : invitation.bound /\ states[s][p] = "none"
                                    /\ Materialized(s, p) = "pending_binding"}
  <1>1. s \in Sources /\ UNCHANGED <<sources, fanQueue, fanDispatch, age, invitation>>
    BY DEF Checkpoint, FanAgrees, FannersAreSound
  <1>2. SourcesAreSound' /\ FannersAreSound'
    <2>1. fanning' \in [Fanners -> Sources \cup {NoFanner}]
      BY <1>1 DEF Checkpoint, FanAgrees, FannersAreSound
    <2>. QED
      BY <1>1, <2>1 DEF FanAgrees, SourcesAreSound, FannersAreSound
  <1>3. CASE ~OwnsEvent(w, s)
    <2>1. UNCHANGED <<states, inbox, events, missed>>
      BY <1>3 DEF Checkpoint
    <2>. QED
      BY <1>1, <1>2, <2>1, EventsRest, RecipientsRest DEF FanAgrees
  <1>4. CASE OwnsEvent(w, s)
    <2> DEFINE state == [p \in People |-> IF p \in batch THEN Materialized(s, p) ELSE states[s][p]]
               shown == [p \in People |-> IF p \in fresh THEN "shown" ELSE inbox[s][p]]
               to == NextProgress(s)
    <2>1. states' = [states EXCEPT ![s] = state] /\ inbox' = [inbox EXCEPT ![s] = shown]
          /\ missed' = IF late = {} THEN missed ELSE missed \cup {s}
      BY <1>4 DEF Checkpoint
    <2> PICK old \in EventRows : old = events[s] /\ EventIsSound(s, old, states[s])
      BY <1>1, EventParts DEF FanAgrees
    <2>2. PICK row \in {[old EXCEPT !.progress = to, !.status = "processed",
                                    !.token = NoFanner, !.leased = FALSE],
                        [old EXCEPT !.progress = to, !.status = "processing", !.leased = TRUE]} :
              /\ events' = [events EXCEPT ![s] = row]
              /\ row.status = "processed" => Completes(s)
      <3>1. CASE Completes(s)
        BY <1>4, <3>1 DEF Checkpoint
      <3>2. CASE ~Completes(s)
        <4>1. events' = [events EXCEPT ![s] =
                  [old EXCEPT !.progress = to, !.status = "processing", !.leased = TRUE]]
          BY <1>4, <3>2 DEF Checkpoint
        <4>2. [old EXCEPT !.progress = to, !.status = "processing", !.leased = TRUE].status
                  = "processing"
          BY DEF EventRows
        <4>. QED
          BY <4>1, <4>2
      <3>. QED
        BY <3>1, <3>2
    <2>3. /\ to \in Nat /\ old.progress \in Nat /\ old.progress <= to
          /\ to <= Len(Recipients[s]) /\ (Completes(s) => to = Len(Recipients[s]))
      BY <1>1, RecipientsKnown, FanAssumption DEF NextProgress, Completes, EventIsSound, EventRows
    <2>4. /\ old.status = "processing" /\ old.attempts < EventMaxAttempts
      BY <1>4 DEF OwnsEvent, EventIsSound, Live
    <2> HIDE DEF to
    <2>5. /\ row \in EventRows /\ row.progress = to /\ row.attempts = old.attempts
          /\ row.status \in {"processed", "processing"}
          /\ row.token # NoFanner => row.status = "processing"
      BY <2>2, <2>3 DEF EventRows, Live, Settled
    <2>6. /\ states \in [Sources -> [People -> Outcomes]]
          /\ inbox \in [Sources -> [People -> {"none", "shown", "deleted", "gone"}]]
      BY DEF FanAgrees, InboxIsSound
    <2>7. batch \subseteq People
      BY <1>1, <2>3, RecipientsKnown DEF to
    <2>8. fresh \subseteq batch /\ \A p \in fresh : states[s][p] = "none"
                                     /\ Materialized(s, p) = "materialized"
      OBVIOUS
    <2>9. \A p \in batch : states[s][p] = "none" /\ Materialized(s, p) = "materialized"
                               => p \in fresh
      OBVIOUS
    <2>18. \A p \in batch :
              invitation.bound /\ states[s][p] = "none" /\ Materialized(s, p) = "pending_binding"
                 => p \in late
      OBVIOUS
    <2>10. \A i \in 1..to : state[Recipients[s][i]] # "none"
      <3> SUFFICES ASSUME NEW i \in 1..to
                   PROVE  state[Recipients[s][i]] # "none"
        OBVIOUS
      <3>1. Recipients[s][i] \in People
        BY <1>1, <2>3, RecipientsKnown
      <3>2. CASE i \in 1..old.progress
        <4>1. states[s][Recipients[s][i]] # "none"
          BY <3>2 DEF EventIsSound
        <4>. QED
          BY <1>1, <2>6, <3>1, <4>1, MaterializedIs
      <3>3. CASE i \notin 1..old.progress
        <4>1. i \in events[s].progress + 1 .. NextProgress(s)
          BY <2>3, <3>3 DEF to
        <4>2. Recipients[s][i] \in batch
          BY <4>1
        <4> HIDE DEF batch
        <4>. QED
          BY <1>1, <2>6, <3>1, <4>2, MaterializedIs
      <3>. QED
        BY <3>2, <3>3
    <2> HIDE DEF batch, fresh, late
    <2>11. /\ state \in [People -> Outcomes]
           /\ \A p \in People : state[p] = IF p \in batch THEN Materialized(s, p) ELSE states[s][p]
           /\ shown \in [People -> {"none", "shown", "deleted", "gone"}]
           /\ \A p \in People : shown[p] = IF p \in fresh THEN "shown" ELSE inbox[s][p]
      BY <1>1, <2>6, <2>7, MaterializedIs
    <2>12. \A p \in People : states[s][p] # "none" => state[p] = states[s][p]
      BY <1>1, <2>6, <2>11, MaterializedIs
    <2> HIDE DEF state, shown
    <2>13. /\ \A t \in Sources : states'[t] = IF t = s THEN state ELSE states[t]
           /\ \A t \in Sources : inbox'[t] = IF t = s THEN shown ELSE inbox[t]
           /\ states' \in [Sources -> [People -> Outcomes]]
           /\ inbox' \in [Sources -> [People -> {"none", "shown", "deleted", "gone"}]]
      BY <1>1, <2>1, <2>6, <2>11
    <2>14. EventsAreSound' /\ EventsStay
      <3>1. /\ \A t \in Sources : events'[t] = IF t = s THEN row ELSE events[t]
            /\ events' \in [Sources -> EventRows]
        BY <1>1, <2>2, <2>5 DEF FanAgrees, EventsAreSound
      <3>2. EventIsSound(s, row, state)
        BY <2>2, <2>3, <2>4, <2>5, <2>10 DEF EventIsSound, Live
      <3>3. \A t \in Sources : EventIsSound(t, events'[t], states'[t])
        BY <2>13, <3>1, <3>2 DEF FanAgrees, EventsAreSound
      <3>4. EventsStay
        BY <2>4, <3>1 DEF EventsStay, Settled
      <3>. QED
        BY <3>1, <3>3, <3>4 DEF EventsAreSound
    <2>15. InboxAgreesWithStates'
      <3> SUFFICES ASSUME NEW t \in Sources, NEW p \in People
                   PROVE  SeenFits(states'[t][p], inbox'[t][p])
        BY DEF InboxAgreesWithStates, SeenFits
      <3> USE DEF SeenFits
      <3>1. SeenFits(states[t][p], inbox[t][p])
        BY DEF FanAgrees, InboxIsSound, InboxAgreesWithStates
      <3>2. CASE t # s
        BY <2>13, <3>1, <3>2
      <3>3. CASE t = s /\ states[s][p] # "none"
        <4>1. state[p] = states[s][p] /\ shown[p] = inbox[s][p]
          BY <2>8, <2>11, <2>12, <3>3
        <4>. QED
          BY <2>13, <3>1, <3>3, <4>1
      <3>4. CASE t = s /\ states[s][p] = "none" /\ p \notin batch
        <4>1. state[p] = states[s][p] /\ shown[p] = inbox[s][p]
          BY <2>8, <2>11, <3>4
        <4>. QED
          BY <2>13, <3>1, <3>4, <4>1
      <3>5. CASE t = s /\ states[s][p] = "none" /\ p \in batch
        <4>1. state[p] = Materialized(s, p) /\ state[p] # "deleted" /\ inbox[s][p] = "none"
          BY <1>1, <2>6, <2>11, <3>1, <3>5, MaterializedIs
        <4>2. shown[p] = IF state[p] = "materialized" THEN "shown" ELSE "none"
          BY <2>8, <2>9, <2>11, <3>5, <4>1
        <4>. QED
          BY <2>13, <3>5, <4>1, <4>2
      <3>. QED
        BY <3>2, <3>3, <3>4, <3>5
    <2>16. InboxIsSound'
      BY <1>1, <2>13, <2>15 DEF FanAgrees, InboxIsSound
    <2>17. BindingLeavesNothingBehind'
      <3> SUFFICES ASSUME NEW t \in Invites, invitation.bound, invitation.status = "pending",
                          age[t] = "fresh", t \notin missed',
                          states'[t][Invitee] = "pending_binding"
                   PROVE  FALSE
        BY <1>1 DEF BindingLeavesNothingBehind
      <3>1. t \in Sources /\ Invitee \in People
        BY FanAssumption DEF People
      <3>2. t \notin missed /\ (t = s => late = {})
        BY <2>1
      <3>3. states[t][Invitee] # "pending_binding"
        BY <3>2 DEF FanAgrees, BindingLeavesNothingBehind
      <3>4. t = s /\ state[Invitee] = "pending_binding"
        BY <2>13, <3>1, <3>3
      <3>5. states[s][Invitee] = "none"
        BY <2>12, <3>1, <3>3, <3>4
      <3>6. Invitee \in batch /\ Materialized(s, Invitee) = "pending_binding"
        BY <2>11, <3>1, <3>4, <3>5
      <3>. QED
        BY <2>18, <3>2, <3>4, <3>5, <3>6
    <2>. QED
      BY <1>2, <2>14, <2>16, <2>17 DEF FanAgrees
  <1>. QED
    BY <1>3, <1>4

\* Of an invitation one field moves at a time.
LEMMA InvitationMoves ==
    ASSUME invitation \in Invitations
    PROVE  /\ \A holds \in BOOLEAN :
                 LET new == [invitation EXCEPT !.holds = holds]
                 IN  /\ new \in Invitations /\ new.bound = invitation.bound
                     /\ new.status = invitation.status
           /\ invitation.holds \in BOOLEAN
           /\ [invitation EXCEPT !.status = "closed"] \in Invitations
           /\ [invitation EXCEPT !.status = "closed"].status = "closed"
  BY DEF Invitations

\* The inbox and what was kept for an address; no event is touched.
LEMMA ReadersStep ==
    ASSUME FanAgrees, NEW s \in Sources, NEW p \in People,
           DeleteNotification(s, p) \/ RemoveUser(p) \/ Cleanup(s)
    PROVE  FanAgrees' /\ EventsStay
  <1>1. UNCHANGED <<sources, events, fanQueue, fanDispatch, fanning, age, missed>>
    BY DEF DeleteNotification, RemoveUser, Cleanup, dispatchVars
  <1>8. /\ invitation' \in Invitations
        /\ invitation'.bound = invitation.bound /\ invitation'.status = invitation.status
    BY InvitationMoves DEF DeleteNotification, RemoveUser, Cleanup, FanAgrees, InboxIsSound
  <1>2. SourcesAreSound' /\ FannersAreSound'
    BY <1>1 DEF FanAgrees, SourcesAreSound, FannersAreSound
  <1>3. /\ states \in [Sources -> [People -> Outcomes]]
        /\ inbox \in [Sources -> [People -> {"none", "shown", "deleted", "gone"}]]
        /\ \A t \in Sources, q \in People : SeenFits(states[t][q], inbox[t][q])
    BY DEF FanAgrees, InboxIsSound, InboxAgreesWithStates, SeenFits
  <1>4. /\ states' \in [Sources -> [People -> Outcomes]]
        /\ inbox' \in [Sources -> [People -> {"none", "shown", "deleted", "gone"}]]
        /\ \A t \in Sources, q \in People :
              \/ states'[t][q] = states[t][q] /\ inbox'[t][q] = inbox[t][q]
              \/ states'[t][q] = "deleted" /\ inbox'[t][q] = "deleted"
                    /\ states[t][q] # "none"
              \/ states'[t][q] = states[t][q] /\ inbox[t][q] # "none" /\ inbox'[t][q] = "gone"
    <2>1. CASE DeleteNotification(s, p)
      <3>1. /\ states' = [states EXCEPT ![s][p] = "deleted"]
            /\ inbox' = [inbox EXCEPT ![s][p] = "deleted"]
            /\ inbox[s][p] = "shown"
        BY <2>1 DEF DeleteNotification
      <3>2. states[s][p] # "none"
        BY <1>3, <3>1 DEF SeenFits
      <3>3. states' \in [Sources -> [People -> Outcomes]]
        BY <1>3, <3>1 DEF Outcomes
      <3>4. inbox' \in [Sources -> [People -> {"none", "shown", "deleted", "gone"}]]
        BY <1>3, <3>1
      <3>5. \A t \in Sources, q \in People :
               /\ states'[t][q] = IF t = s /\ q = p THEN "deleted" ELSE states[t][q]
               /\ inbox'[t][q] = IF t = s /\ q = p THEN "deleted" ELSE inbox[t][q]
        BY <1>3, <3>1
      <3>. QED
        BY <3>2, <3>3, <3>4, <3>5
    <2>2. CASE RemoveUser(p)
      <3>1. /\ UNCHANGED states
            /\ inbox' = [t \in Sources |-> [inbox[t] EXCEPT ![p] =
                    IF inbox[t][p] = "none" THEN "none" ELSE "gone"]]
        BY <2>2 DEF RemoveUser
      <3>2. inbox' \in [Sources -> [People -> {"none", "shown", "deleted", "gone"}]]
        BY <1>3, <3>1
      <3>3. \A t \in Sources, q \in People :
               inbox'[t][q] = IF q = p /\ inbox[t][q] # "none" THEN "gone" ELSE inbox[t][q]
        BY <1>3, <3>1
      <3>. QED
        BY <1>3, <3>1, <3>2, <3>3
    <2>3. CASE Cleanup(s)
      <3>1. /\ UNCHANGED states
            /\ inbox' = [inbox EXCEPT ![s] = [q \in People |->
                    IF inbox[s][q] = "none" THEN "none" ELSE "gone"]]
        BY <2>3 DEF Cleanup
      <3>2. inbox' \in [Sources -> [People -> {"none", "shown", "deleted", "gone"}]]
        BY <1>3, <3>1
      <3>3. \A t \in Sources, q \in People :
               inbox'[t][q] = IF t = s /\ inbox[t][q] # "none" THEN "gone" ELSE inbox[t][q]
        BY <1>3, <3>1
      <3>. QED
        BY <1>3, <3>1, <3>2, <3>3
    <2>. QED
      BY <2>1, <2>2, <2>3
  <1>5. EventsAreSound' /\ EventsStay
    <2>1. \A t \in Sources, q \in People : states[t][q] # "none" => states'[t][q] # "none"
      BY <1>4
    <2>. QED
      BY <1>1, <2>1, StatesGrow DEF FanAgrees
  <1>6. InboxAgreesWithStates'
    <2> SUFFICES ASSUME NEW t \in Sources, NEW q \in People
                 PROVE  SeenFits(states'[t][q], inbox'[t][q])
      BY DEF InboxAgreesWithStates, SeenFits
    <2>1. SeenFits(states[t][q], inbox[t][q])
      BY <1>3
    <2>. QED
      BY <1>4, <2>1 DEF SeenFits
  <1>7. BindingLeavesNothingBehind'
    <2> SUFFICES ASSUME NEW t \in Invites, invitation.bound, invitation.status = "pending",
                        age[t] = "fresh", t \notin missed
                 PROVE  states'[t][Invitee] # "pending_binding"
      BY <1>1, <1>8 DEF BindingLeavesNothingBehind
    <2>1. t \in Sources /\ Invitee \in People
      BY FanAssumption DEF People
    <2>2. states[t][Invitee] # "pending_binding"
      BY DEF FanAgrees, BindingLeavesNothingBehind
    <2>. QED
      BY <1>4, <2>1, <2>2
  <1>. QED
    BY <1>1, <1>2, <1>4, <1>5, <1>6, <1>7, <1>8 DEF FanAgrees, InboxIsSound

LEMMA AgeAndCloseStep ==
    ASSUME FanAgrees,
           (\E s \in Sources : SourceAges(s)) \/ CloseInvitation \/ AddressChanges
    PROVE  FanAgrees' /\ EventsStay
  <1>1. UNCHANGED <<sources, events, fanQueue, fanDispatch, fanning, states, inbox, missed>>
    BY DEF SourceAges, CloseInvitation, AddressChanges, dispatchVars
  <1>2. SourcesAreSound' /\ FannersAreSound'
    BY <1>1 DEF FanAgrees, SourcesAreSound, FannersAreSound
  <1>3. EventsAreSound' /\ EventsStay
    BY <1>1, EventsRest DEF FanAgrees
  <1>4. /\ age' \in [Sources -> {"fresh", "old", "ancient"}]
        /\ \A t \in Sources : age'[t] = "fresh" => age[t] = "fresh"
        /\ invitation' \in Invitations
        /\ invitation'.bound /\ invitation'.status = "pending" =>
              invitation.bound /\ invitation.status = "pending"
    <2>1. CASE \E s \in Sources : SourceAges(s)
      BY <2>1 DEF SourceAges, FanAgrees, InboxIsSound
    <2>2. CASE CloseInvitation
      <3>1. /\ invitation' = [invitation EXCEPT !.status = "closed"] /\ UNCHANGED age
            /\ invitation \in Invitations
        BY <2>2 DEF CloseInvitation, FanAgrees, InboxIsSound
      <3>. QED
        BY <3>1, InvitationMoves DEF FanAgrees, InboxIsSound
    <2>3. CASE AddressChanges
      <3>1. /\ invitation' = [invitation EXCEPT !.holds = ~invitation.holds] /\ UNCHANGED age
            /\ invitation \in Invitations
        BY <2>3 DEF AddressChanges, FanAgrees, InboxIsSound
      <3>. QED
        BY <3>1, InvitationMoves DEF FanAgrees, InboxIsSound
    <2>. QED
      BY <2>1, <2>2, <2>3
  <1>5. InboxIsSound'
    BY <1>1, <1>4 DEF FanAgrees, InboxIsSound, InboxAgreesWithStates
  <1>6. BindingLeavesNothingBehind'
    <2> SUFFICES ASSUME NEW t \in Invites, invitation'.bound, invitation'.status = "pending",
                        age'[t] = "fresh", t \notin missed'
                 PROVE  states'[t][Invitee] # "pending_binding"
      BY DEF BindingLeavesNothingBehind
    <2>1. t \in Sources
      BY FanAssumption
    <2>. QED
      BY <1>1, <1>4, <2>1 DEF FanAgrees, BindingLeavesNothingBehind
  <1>. QED
    BY <1>2, <1>3, <1>5, <1>6 DEF FanAgrees

\* Who is bound to the invitation gets what was kept for the address.
LEMMA ReconcileInvitationStep ==
    ASSUME FanAgrees, ReconcileInvitation
    PROVE  FanAgrees' /\ EventsStay
  <1> PICK binds \in {invitation.bound, TRUE}, reminders \in SUBSET Invites :
        LET holds == binds /\ (invitation.bound => invitation.holds)
            kept == {s \in Invites : /\ states[s][Invitee] = "pending_binding"
                                     /\ age[s] = "fresh" /\ holds}
        IN
        /\ invitation.status = "pending"
        /\ invitation' = [invitation EXCEPT !.bound = binds, !.holds = holds,
                              !.reminded = invitation.reminded \/ reminders # {}]
        /\ states' = [s \in Sources |-> IF s \in kept
                THEN [states[s] EXCEPT ![Invitee] = "materialized"] ELSE states[s]]
        /\ inbox' = [s \in Sources |-> IF s \in kept
                THEN [inbox[s] EXCEPT ![Invitee] = "shown"] ELSE inbox[s]]
        /\ sources' = [s \in Sources |->
                IF s \in reminders THEN Write(sources[s]) ELSE sources[s]]
        /\ missed' = missed \ kept
        /\ UNCHANGED <<events, fanQueue, fanDispatch, fanning, age>>
    BY DEF ReconcileInvitation
  <1> DEFINE holds == binds /\ (invitation.bound => invitation.holds)
             kept == {s \in Invites : /\ states[s][Invitee] = "pending_binding"
                                      /\ age[s] = "fresh" /\ holds}
  <1>1. UNCHANGED <<events, fanQueue, fanDispatch, fanning, age>>
    OBVIOUS
  <1>2. Invitee \in People /\ Invites \subseteq Sources /\ kept \subseteq Sources
    BY FanAssumption DEF People
  <1>3. /\ states \in [Sources -> [People -> Outcomes]]
        /\ inbox \in [Sources -> [People -> {"none", "shown", "deleted", "gone"}]]
        /\ \A t \in Sources, q \in People : SeenFits(states[t][q], inbox[t][q])
    BY DEF FanAgrees, InboxIsSound, InboxAgreesWithStates, SeenFits
  <1>4. SourcesAreSound'
    <2>1. sources' = [s \in Sources |-> IF s \in reminders THEN Write(sources[s]) ELSE sources[s]]
      OBVIOUS
    <2>2. \A s \in Sources : sources[s] \in OutboxRow /\ IntentIsSound(sources[s])
      BY DEF FanAgrees, SourcesAreSound
    <2>3. \A s \in Sources : Write(sources[s]) \in OutboxRow /\ IntentIsSound(Write(sources[s]))
      BY <2>2, IntentMoves
    <2>. QED
      BY <2>1, <2>2, <2>3 DEF SourcesAreSound
  <1>5. /\ states' = [s \in Sources |-> IF s \in kept
                THEN [states[s] EXCEPT ![Invitee] = "materialized"] ELSE states[s]]
        /\ inbox' = [s \in Sources |-> IF s \in kept
                THEN [inbox[s] EXCEPT ![Invitee] = "shown"] ELSE inbox[s]]
    OBVIOUS
  <1>6. /\ \A s \in kept : states[s][Invitee] = "pending_binding"
        /\ \A s \in Invites : states[s][Invitee] = "pending_binding" /\ age[s] = "fresh" /\ holds
                                  => s \in kept
        /\ missed' = missed \ kept
    OBVIOUS
  <1>13. invitation \in Invitations /\ binds \in BOOLEAN /\ holds \in BOOLEAN
    BY DEF FanAgrees, InboxIsSound, Invitations
  <1>7. /\ invitation' \in Invitations
        /\ invitation'.bound = binds /\ invitation.status = "pending"
    BY <1>13 DEF Invitations
  <1>14. invitation.bound \/ (binds => holds)
    BY <1>13
  <1> HIDE DEF kept, holds
  <1>8. /\ states' \in [Sources -> [People -> Outcomes]]
        /\ inbox' \in [Sources -> [People -> {"none", "shown", "deleted", "gone"}]]
        /\ \A t \in Sources, q \in People :
              /\ states'[t][q] = IF t \in kept /\ q = Invitee THEN "materialized" ELSE states[t][q]
              /\ inbox'[t][q] = IF t \in kept /\ q = Invitee THEN "shown" ELSE inbox[t][q]
    <2>1. \A t \in Sources : /\ states[t] \in [People -> Outcomes]
                             /\ inbox[t] \in [People -> {"none", "shown", "deleted", "gone"}]
      BY <1>3
    <2>2. "materialized" \in Outcomes
      BY DEF Outcomes
    <2>3. states' \in [Sources -> [People -> Outcomes]]
      <3>1. \A t \in Sources : [states[t] EXCEPT ![Invitee] = "materialized"] \in [People -> Outcomes]
        BY <2>1, <2>2
      <3>. QED
        BY <1>5, <2>1, <3>1
    <2>4. inbox' \in [Sources -> [People -> {"none", "shown", "deleted", "gone"}]]
      <3>1. \A t \in Sources : [inbox[t] EXCEPT ![Invitee] = "shown"]
                \in [People -> {"none", "shown", "deleted", "gone"}]
        BY <2>1
      <3>. QED
        BY <1>5, <2>1, <3>1
    <2>5. ASSUME NEW t \in Sources, NEW q \in People
          PROVE  states'[t][q] = IF t \in kept /\ q = Invitee THEN "materialized" ELSE states[t][q]
      BY <1>5, <2>1
    <2>6. ASSUME NEW t \in Sources, NEW q \in People
          PROVE  inbox'[t][q] = IF t \in kept /\ q = Invitee THEN "shown" ELSE inbox[t][q]
      BY <1>5, <2>1
    <2>. QED
      BY <2>3, <2>4, <2>5, <2>6
  <1>9. FannersAreSound'
    BY <1>1 DEF FanAgrees, FannersAreSound
  <1>10. EventsAreSound' /\ EventsStay
    <2>1. \A t \in Sources, q \in People : states[t][q] # "none" => states'[t][q] # "none"
      BY <1>8
    <2>. QED
      BY <1>1, <2>1, StatesGrow DEF FanAgrees
  <1>11. InboxAgreesWithStates'
    <2> SUFFICES ASSUME NEW t \in Sources, NEW q \in People
                 PROVE  SeenFits(states'[t][q], inbox'[t][q])
      BY DEF InboxAgreesWithStates, SeenFits
    <2>. QED
      BY <1>3, <1>8 DEF SeenFits
  <1>12. BindingLeavesNothingBehind'
    <2> SUFFICES ASSUME NEW t \in Invites, binds, age[t] = "fresh", t \notin missed'
                 PROVE  states'[t][Invitee] # "pending_binding"
      BY <1>1, <1>7 DEF BindingLeavesNothingBehind
    <2>1. CASE t \in kept
      BY <1>2, <1>8, <2>1
    <2>2. CASE t \notin kept
      <3>1. states[t][Invitee] # "pending_binding"
        \* bound before: by the invariant; bound now: it would have been kept
        BY <1>6, <1>7, <1>14, <2>2 DEF FanAgrees, BindingLeavesNothingBehind
      <3>. QED
        BY <1>2, <1>8, <2>2, <3>1
    <2>. QED
      BY <2>1, <2>2
  <1>. QED
    BY <1>1, <1>4, <1>7, <1>8, <1>9, <1>10, <1>11, <1>12 DEF FanAgrees, InboxIsSound

LEMMA FanBegins ==
    ASSUME FanInit
    PROVE  FanAgrees
  <1>1. /\ NoEvent \in EventRows /\ NoEvent.status = "none" /\ NoEvent.attempts = 0
        /\ NoEvent.token = NoFanner /\ NoEvent.progress = 0
    BY FanAssumption DEF NoEvent, EventRows
  <1>2. SourcesAreSound
    BY NoIntentType DEF FanInit, SourcesAreSound
  <1>3. EventsAreSound
    <2>1. ASSUME NEW s \in Sources
          PROVE  EventIsSound(s, NoEvent, states[s])
      BY <1>1, RecipientsKnown, FanAssumption DEF EventIsSound
    <2>. QED
      BY <1>1, <2>1 DEF FanInit, EventsAreSound
  <1>4. FannersAreSound
    BY DEF FanInit, FannersAreSound, Batches, IdleDispatch
  <1>5. InboxIsSound
    <2>1. "none" \in Outcomes
      BY DEF Outcomes
    <2>2. \A s \in Sources, p \in People : states[s][p] = "none" /\ inbox[s][p] = "none"
      BY DEF FanInit
    <2>3. InboxAgreesWithStates
      BY <2>2 DEF InboxAgreesWithStates
    <2>. QED
      BY <2>1, <2>3 DEF FanInit, InboxIsSound, Invitations
  <1>6. BindingLeavesNothingBehind
    BY DEF FanInit, BindingLeavesNothingBehind
  <1>. QED
    BY <1>2, <1>3, <1>4, <1>5, <1>6 DEF FanAgrees

LEMMA FanStep ==
    ASSUME FanAgrees, [FanNext]_fanVars
    PROVE  FanAgrees' /\ EventsStay
  <1>1. CASE UNCHANGED fanVars
    <2>1. /\ UNCHANGED <<sources, events, fanQueue, fanDispatch, fanning>>
          /\ UNCHANGED <<states, inbox, age, invitation, missed>>
      BY <1>1 DEF fanVars
    <2>2. SourcesAreSound' /\ FannersAreSound'
      BY <2>1 DEF FanAgrees, SourcesAreSound, FannersAreSound
    <2>. QED
      BY <2>1, <2>2, EventsRest, RecipientsRest DEF FanAgrees
  <1>2. ASSUME NEW s \in Sources,
               \/ RecordIntent(s) \/ SourceWakes(s) \/ EventDelayOver(s)
               \/ FanMarkOver(s) \/ FanLeaseOver(s) \/ SourceAges(s)
        PROVE  FanAgrees' /\ EventsStay
    BY <1>2, SourceStep, EventClockStep, AgeAndCloseStep
  <1>3. ASSUME NEW s \in Sources, Cleanup(s)
        PROVE  FanAgrees' /\ EventsStay
    <2>1. Invitee \in People
      BY DEF People
    <2>. QED
      BY <1>3, <2>1, ReadersStep
  <1>4. ASSUME NEW s \in Sources, NEW p \in People, DeleteNotification(s, p)
        PROVE  FanAgrees' /\ EventsStay
    BY <1>4, ReadersStep
  <1>5. ASSUME NEW p \in People, RemoveUser(p)
        PROVE  FanAgrees' /\ EventsStay
    <2>1. ASSUME NEW s \in Sources
          PROVE  FanAgrees' /\ EventsStay
      BY <1>5, ReadersStep
    <2>2. CASE Sources = {}
      <3>1. /\ UNCHANGED <<sources, events, fanQueue, fanDispatch, fanning, age, states, missed>>
            /\ invitation' = [invitation EXCEPT !.holds = invitation.holds /\ p # Invitee]
        BY <1>5 DEF RemoveUser, dispatchVars
      <3>2. inbox' = inbox
        BY <1>5, <2>2 DEF RemoveUser, FanAgrees, InboxIsSound
      <3>3. SourcesAreSound' /\ FannersAreSound'
        BY <3>1 DEF FanAgrees, SourcesAreSound, FannersAreSound
      <3>4. invitation' \in Invitations
        BY <3>1, InvitationMoves DEF FanAgrees, InboxIsSound
      <3>5. InboxIsSound' /\ BindingLeavesNothingBehind'
        BY <2>2, <3>1, <3>2, <3>4, FanAssumption
        DEF FanAgrees, InboxIsSound, InboxAgreesWithStates, BindingLeavesNothingBehind
      <3>. QED
        BY <3>1, <3>3, <3>5, EventsRest DEF FanAgrees
    <2>. QED
      BY <2>1, <2>2
  <1>6. ASSUME NEW d \in FanDispatchers, NEW s \in Sources,
               \/ EnsureFails(d, s) \/ ReleaseEvent(d, s)
               \/ EnsureEvent(d, s) \/ EnqueueEvent(d, s)
        PROVE  FanAgrees' /\ EventsStay
    BY <1>6, EnsureEventStep, EnqueueEventStep
  <1>7. ASSUME NEW d \in FanDispatchers,
               ClaimSources(d) \/ ReserveEvents(d) \/ FanDispatcherDies(d)
        PROVE  FanAgrees' /\ EventsStay
    BY <1>7, ClaimSourcesStep, ReserveEventsStep, FanDeathStep
  <1>8. ASSUME NEW w \in Fanners, FannerStep(w) \/ FannerDies(w)
        PROVE  FanAgrees' /\ EventsStay
    BY <1>8, CheckpointStep, FailFanStep, ClaimEventStep, FanDeathStep DEF FannerStep
  <1>9. CASE CloseInvitation \/ AddressChanges \/ ReconcileInvitation
    BY <1>9, AgeAndCloseStep, ReconcileInvitationStep
  <1>. QED
    BY <1>1, <1>2, <1>3, <1>4, <1>5, <1>6, <1>7, <1>8, <1>9 DEF FanNext, FanDispatchStep

\* Whatever workers and dispatchers die between two batches, lose leases or
\* repeat each other: an event has reached everyone up to its progress, the
\* inbox shows what the state rows say, and nothing stays behind for an
\* address that is bound, but for what was fanned out while the account bound
\* to it had lost the address or was deleted
\* (notification-processing.service.ts, notification-fanout.repository.ts,
\* notifications.repository.ts).
THEOREM FanConsistency == FanSpec => []FanAgrees
  <1>1. FanInit => FanAgrees
    BY FanBegins
  <1>2. FanAgrees /\ [FanNext]_fanVars => FanAgrees'
    BY FanStep
  <1>. QED
    BY <1>1, <1>2, PTL DEF FanSpec

\* An event is only processed once every recipient has a state row.
THEOREM ProcessedHasReachedEveryone == FanSpec => []ProcessedReachedEveryone
  <1>1. FanAgrees => ProcessedReachedEveryone
    <2> SUFFICES ASSUME FanAgrees, NEW s \in Sources, events[s].status = "processed",
                        NEW i \in DOMAIN Recipients[s]
                 PROVE  states[s][Recipients[s][i]] # "none"
      BY DEF ProcessedReachedEveryone
    <2>1. i \in 1..events[s].progress
      BY RecipientsKnown DEF FanAgrees, EventsAreSound, EventIsSound
    <2>. QED
      BY <2>1 DEF FanAgrees, EventsAreSound, EventIsSound
  <1>. QED
    BY <1>1, FanConsistency, PTL

\* A settled event never moves again: no late worker reopens it.
THEOREM SettledEventsRemain == FanSpec => SettledEventsStay
  <1>1. FanAgrees /\ [FanNext]_fanVars => [EventsStay]_fanVars
    BY FanStep
  <1>2. [EventsStay]_fanVars =>
            [\A s \in Sources : events[s].status \in Settled =>
                events'[s].status = events[s].status]_fanVars
    BY DEF EventsStay
  <1>. QED
    BY <1>1, <1>2, FanConsistency, PTL DEF FanSpec, SettledEventsStay

\* Nobody who is to be told of something is lost on the way: what the outbox
\* calls published has its delivery, a processed event has reached everyone,
\* whoever is bound gets what was kept, but for the invitations of an account
\* that had lost the address when they were fanned out, and the inbox agrees;
\* and every row has a shape that a claim looks for.
THEOREM NobodyIsLost == BackgroundSpec => []NobodyIsForgotten
  <1>1. OrderMailsAgree => OrderEmailsTypeOK /\ PublishedIsDurable
    BY DEF OrderMailsAgree, PublishedIsDurable, MailIsSound
  <1>2. LettersAgree => LettersTypeOK
    BY DEF LettersAgree
  <1>3. FanAgrees => FanTypeOK /\ BindingLeavesNothingBehind /\ InboxAgreesWithStates
    BY DEF FanAgrees, FanTypeOK, SourcesAreSound, EventsAreSound, InboxIsSound
  <1>4. OrderMailsAgree /\ LettersAgree /\ FanAgrees /\ ProcessedReachedEveryone
            => NobodyIsForgotten
    BY <1>1, <1>2, <1>3 DEF NobodyIsForgotten
  <1>. QED
    BY <1>4, OrderMailsConsistency, LettersConsistency, FanConsistency,
       ProcessedHasReachedEveryone, PTL DEF BackgroundSpec

(***************************************************************************)
(* Settled work                                                            *)
(***************************************************************************)
CompletedStay ==
    \A n \in Notices : notices[n].status = "completed" => notices'[n].status = "completed"

LEMMA NoticeSettles ==
    ASSUME BillingAgrees, NEW n, NEW row, notices' = [notices EXCEPT ![n] = row],
           notices[n].status = "completed" => row.status = "completed"
    PROVE  CompletedStay
  <1>1. \A m \in Notices : notices'[m] = IF m = n THEN row ELSE notices[m]
    BY DEF BillingAgrees, BillingTypeOK
  <1>. QED
    BY <1>1 DEF CompletedStay

LEMMA CompletedStep ==
    ASSUME BillingAgrees, BillingNext
    PROVE  CompletedStay
  <1>1. CASE UNCHANGED notices
    BY <1>1 DEF CompletedStay
  <1>2. ASSUME NEW n \in Notices,
               \/ StoreWebhookEvent(n) \/ ReplayWebhookEvent(n)
               \/ PurgeExpiredWebhookPayloads(n) \/ NoticeTime(n)
        PROVE  CompletedStay
    <2> PICK old \in NoticeRows : old = notices[n]
      BY DEF BillingAgrees, BillingTypeOK
    <2>1. CASE StoreWebhookEvent(n) \/ ReplayWebhookEvent(n)
      <3>1. old.status # "completed"
        BY <2>1 DEF StoreWebhookEvent, ReplayWebhookEvent
      <3>2. \/ notices' = [notices EXCEPT ![n] = [old EXCEPT !.status = "pending"]]
            \/ notices' = [notices EXCEPT ![n] = [NoNotice EXCEPT !.status = "pending"]]
        BY <2>1 DEF StoreWebhookEvent, ReplayWebhookEvent
      <3>. QED
        BY <3>1, <3>2, NoticeSettles
    <2>2. CASE PurgeExpiredWebhookPayloads(n) \/ NoticeTime(n)
      <3>1. /\ [old EXCEPT !.payload = FALSE].status = old.status
            /\ [old EXCEPT !.due = TRUE].status = old.status
            /\ [old EXCEPT !.leased = FALSE].status = old.status
        BY DEF NoticeRows
      <3>2. \/ notices' = [notices EXCEPT ![n] = [old EXCEPT !.payload = FALSE]]
            \/ notices' = [notices EXCEPT ![n] = [old EXCEPT !.due = TRUE]]
            \/ notices' = [notices EXCEPT ![n] = [old EXCEPT !.leased = FALSE]]
        BY <2>2 DEF PurgeExpiredWebhookPayloads, NoticeTime
      <3>. QED
        BY <3>1, <3>2, NoticeSettles
    <2>. QED
      BY <1>2, <2>1, <2>2
  <1>3. ASSUME NEW w \in Billers, NEW n \in Notices, ClaimWebhookEvent(w, n)
        PROVE  CompletedStay
    <2>1. notices[n].status # "completed"
      BY <1>3 DEF ClaimWebhookEvent, StaleOrFailed
    <2>2. \E row : notices' = [notices EXCEPT ![n] = row]
      BY <1>3 DEF ClaimWebhookEvent
    <2>. QED
      BY <2>1, <2>2, NoticeSettles
  <1>4. ASSUME NEW w \in Billers, NEW n, NEW status, OwnedClaim(w, n),
               notices' = ClosedAs(n, status)
        PROVE  CompletedStay
    <2>1. notices[n].status # "completed"
      BY <1>4 DEF OwnedClaim
    <2>2. \E row : notices' = [notices EXCEPT ![n] = row]
      BY <1>4 DEF ClosedAs
    <2>. QED
      BY <2>1, <2>2, NoticeSettles
  <1>5. ASSUME NEW w \in Billers,
               \/ ExpireCheckoutAttemptAndCompleteEvent(w)
               \/ ReconcileSubscriptionAndCompleteEvent(w) \/ FailWebhookEvent(w)
        PROVE  CompletedStay
    <2>1. \/ UNCHANGED notices
          \/ \E n, status : OwnedClaim(w, n) /\ notices' = ClosedAs(n, status)
      BY <1>5 DEF ExpireCheckoutAttemptAndCompleteEvent, ReconcileSubscriptionAndCompleteEvent,
                  FailWebhookEvent
    <2>. QED
      BY <1>1, <1>4, <2>1
  <1>6. CASE \/ \E r \in Requests : RequestStep(r)
             \/ \E a \in Attempts : Pay(a) \/ Cancel(a) \/ HourPasses(a)
             \/ ExpireAbandonedCheckoutAttempts
             \/ \E w \in Billers : RetrieveSubscription(w) \/ BillerDies(w)
    <2>1. UNCHANGED notices
      BY <1>6 DEF RequestStep, HasNonTerminalSubscription, ReservePendingCheckoutAttempt,
         CreateOrReuseCheckoutSession, SaveSession, OnlyRequest, Pay, Cancel, HourPasses,
         ExpireAbandonedCheckoutAttempts, OnlyStripe, RetrieveSubscription, BillerDies
    <2>. QED
      BY <1>1, <2>1
  <1>. QED
    BY <1>2, <1>3, <1>5, <1>6 DEF BillingNext, BillerStep

\* A worker that lost its lease cannot reopen what another one completed.
THEOREM CompletedEventsRemain == BillingSpec => CompletedStaysCompleted
  <1>1. BillingAgrees /\ [BillingNext]_billingVars
            => [\A n \in Notices : notices[n].status = "completed" =>
                    notices'[n].status = "completed"]_notices
    <2>1. UNCHANGED billingVars => UNCHANGED notices
      BY DEF billingVars
    <2>. QED
      BY <2>1, CompletedStep DEF CompletedStay
  <1>. QED
    BY <1>1, BillingConsistency, PTL DEF BillingSpec, CompletedStaysCompleted

\* A provisioned plan stays so, whichever worker that lost its job still fails.
THEOREM ReadyPlansRemain == PlansSpec => ReadyStaysReady
  <1>1. ASSUME PlanAgrees, PlansNext, Ready
        PROVE  Ready'
    <2>1. plan \in PlanRows /\ plan.status = "ready"
      BY <1>1 DEF PlanAgrees, PlanTypeOK, Ready
    <2>2. \/ UNCHANGED plan \/ plan' = [plan EXCEPT !.active = TRUE]
          \/ plan' = [plan EXCEPT !.active = FALSE]
          \/ \E product : plan' = [PlanIs("ready") EXCEPT !.product = product]
      BY <1>1, <2>1
         DEF PlansNext, PlanClock, ProvisionStep, CreatePendingWithPrices, DispatchPending,
             PlanDispatcherDies, Reconcile, RetryProvisioning, PlanAges, IntentWakesUp,
             FindForProvisioning, MarkProvisioningProcessing, CreateProductWithPrices,
             CompleteProvisioning, RecordFailure, NotReady, WorkerStalls,
             CreateOrFindPendingPrice, ActivatePendingPrice, PriceFails, DeactivatePrice,
             ActivatePlan, DeactivatePlan, OnlyIntent, OnlyWorker, OnlySale
    <2>3. ASSUME NEW product
          PROVE  [PlanIs("ready") EXCEPT !.product = product].status = "ready"
      BY <2>1 DEF PlanIs, PlanRows
    <2>. QED
      BY <2>1, <2>2, <2>3 DEF Ready, PlanRows
  <1>2. PlanAgrees /\ [PlansNext]_planVars
            => [plan.status = "ready" => plan'.status = "ready"]_plan
    BY <1>1 DEF Ready, planVars
  <1>. QED
    BY <1>2, PlansConsistency, PTL DEF PlansSpec, ReadyStaysReady

\* Work that is settled stays so, whatever a worker does that lost its lease
\* or its job and goes on: events of notifications, events of billing, plans.
THEOREM SettledWorkRemains == BackgroundSpec => SettledWorkStays
  BY SettledEventsRemain, CompletedEventsRemain, ReadyPlansRemain, PTL
     DEF BackgroundSpec, SettledWorkStays

=============================================================================
