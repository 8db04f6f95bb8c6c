# Verification of the multitenant commerce backend

TLA+ models of the parts of this NestJS/PostgreSQL/Stripe backend whose correctness
depends on the order in which things happen, the TLC runs that check them on small
instances, and TLAPS proofs of their safety properties for every instance.

## 1. The system

API processes (four, under PM2), one scheduler process, PostgreSQL as the only source of
truth, Redis for BullMQ queues and a read cache, Stripe for platform billing and, through
connected accounts, for purchases. Every process may run every repository method; nothing is
shared between processes but the database, Redis and Stripe. A transaction locks the rows it
decides on (`SELECT ... FOR UPDATE`), a claim is one `UPDATE ... WHERE`, and a call to Stripe
always happens between transactions, under a lease kept in the row.

| Component | State it keeps | Operations | Talks to | What is hard | What makes it correct |
|---|---|---|---|---|---|
| Purchase checkout (`modules/orders/repos/checkout.repository.ts`) | quotes, attempts, reservations, commands | quote, start (cash / online), cancel, claim, create / save / retrieve / expire a Checkout Session, release, place, review, retry | carts, variants, orders, Stripe | leases that expire, lost answers, cancellation racing payment, crash between any two steps | one payable Session per attempt; stock released only when unpayable; cart frozen while payable; outcomes final; work ends |
| Carts (`modules/carts`) | carts, items, revision sequence | put, remove, delete, cleanup | attempts (lock), variants | an edit racing a start; a revision met again by an old quote | a cart under an attempt never changes; one purchase per revision |
| Variants (`modules/products`) | on hand, reserved, policy | stock edits, catalogue edits | reservations | check-then-reserve across shoppers | reserved = claims, reserved <= on hand |
| Order lifecycle (`orders.repository.ts`) | orders, events, refunds | prepare, ship, deliver, cancel, return, retry refund | variants, Stripe, outbox | idempotent commands, versions, refund leases, external refunds and disputes | legal transitions only; stock given back once; refunds at most once |
| Order emails (`order-email-delivery.repository.ts`) | deliveries | record, dispatch, claim, send, retry | outbox, queue, mail | a lease lost while sending, duplicate dispatch, lost acknowledgement | one message per transition, sent or given up |
| Checkout eligibility (`modules/checkout`) | none | one read | stores, payment accounts | read before the decision it supports | re-read at start |
| Store payment accounts (`modules/payments`) | account rows | create, refresh, recover, deauthorize | Stripe | lost creation answer, a slow look written late | one account per Store; a deauthorized one stays closed |
| Connect webhooks (`infrastructure/payments`) | event inbox | ingest, claim, dispatch, retry, replay | checkout, orders, accounts | duplicates, reordering, failing handlers | every event handled or parked |
| Outbox (`infrastructure/outbox`) | events | enqueue, claim, publish, fail | queues | crash between publication and mark | at-least-once, none lost |
| Queues (`infrastructure/queue`) | Redis jobs | add, run, retry | all consumers | stalled jobs run twice | consumers idempotent |
| Billing and subscriptions | attempts, events, projections | checkout, sweep, webhook, replay, purge | Stripe, plans | requests racing, events late and out of order | one Session to pay; the projection is what Stripe has |
| Plans and provisioning | plans, prices, jobs | create, provision, reconcile, sell | outbox, queue, Stripe | half a provisioning, a job that runs twice | what is on sale is provisioned |
| Notifications | events, recipient states, inbox, deliveries | emit, dispatch, fan out, bind, email | outbox, users, stores | duplicates, lost leases, binding racing fan-out | one inbox row per recipient and event; nobody left out |
| Read cache (`infrastructure/cache`) | Redis values and tokens, loads, permits, breaker | read-through, invalidate, probe | Redis, PostgreSQL | fill racing an invalidation, Redis down | no read older than its invalidation; load bounded |
| Stores and membership | stores, audit, settings, logo; members | found, transition, rename, upload, settings | auth library, storage, queues | organization outside the transaction, copies of names | store and organization agree |
| Products, options, images | rows, files | edits, publication, uploads, cleanup | storage, queue | copies of selections, half uploads | published is sellable; no image without file |
| Categories | rows, positions, shelves | edit, archive, reorder, replace | products | concurrent pages | strict order; nobody overwrites unseen |
| Users and authentication | accounts, sessions, addresses | administer, deactivate, sign in, address book | auth library, Redis | check before use | sessions end with the account |
| Comments | comments, keys | create, edit, delete | moderation | waiting for moderation with a key in hand | a key answers once |
| List queries (`common/api-query`) | none | pages by cursor | all lists | rows that come and go, times finer than the program's | pages are one list |
| Assistant, health, mail, sms, storage, logging, configuration | none | adapters | outside services | little | not modelled |

`PROJECT.json` lists each with its sources and status, and the hazards of the code at their lines.

## 2. Modules

```
Purchase            what a checkout promises for one purchase (abstract)
   ^ implemented by
CheckoutPurchase    Checkout + refinement mapping
   ^ extends
Checkout            the rows, Stripe and the workers
CheckoutInvariant   the inductive invariant      <- MCCheckout (TLC)
   ^ extends
CheckoutProofs <- CheckoutCartProofs                             TLAPS proofs
   rows and workers   carts, refinement, counters

Orders              placed orders, commands, stock   <- MCOrders (TLC)
   ^ extends            ^ extends
Refunds             OrdersProofs         <- RefundsProofs        TLAPS proofs
   refund operations, Stripe, events                 <- MCRefunds (TLC)
(MCOrdersPlays and MCRefundsRace choose between two plays of their instances)

Outbox <- OrderEmails, Notifications, Plans       NotificationEmails
Postbox   what a durable e-mail promises (abstract)
             ^ implemented by OrderEmails and NotificationEmails
ConnectInbox <- StoreAccounts                      Billing
Background  the conjunction of these six  <- MCBackground (TLC), BackgroundProofs (TLAPS)

Catalogue <- Gallery    Categories    ReadCache    Breaker    Founding    Stores
Accounts    Addresses    Comments    Paging
Platform    the conjunction of these ten  <- MCPlatform (TLC)
            CatalogueProofs (products, categories, lists) <- PlatformProofs (TLAPS)

SumTheorems  sums over finite sets, for the proofs of stock, orders and sets
```

`Checkout` ends where an order is placed; `Orders` begins there, with the reservation and placement steps
reduced to their effect on order, reservations and counters. `Refunds` adds the provider to `Orders`
and keeps all its actions (`Ordering`).

### 2.1 Checkout: state

`checkout.repository.ts` and the mutating half of `carts.repository.ts`, for one Store.

* `cart`, `cartSeq`: `carts`/`cart_items` and the revision sequence. A cart's revision comes
  from a global sequence, so a cart deleted and created again never reuses one.
* `offer`: everything else that enters a snapshot's hash (prices, address, shipping settings,
  eligibility, payment account). Its versions are members of `Offers`; `NoOffer` stands for
  every reason to refuse.
* `onHand`, `reserved`: the stock columns. Variants outside `Tracked` have the policy that
  counts nothing.
* `quote`: a row of `checkout_quotes` with its snapshot. A quote starts at most one attempt
  (unique index), so an attempt, its order and its reservations carry the quote's name.
* `command`: `commerce_commands` of `start-checkout`. A replayed key returns the recorded
  attempt and changes nothing, so only a fresh key is an action.
* `attempt`: status, frozen return URLs, Session id, age of the dispatch (none, within 23 hours,
  older), failure count, whether `next_retry_at` has passed, lease and whether it expired, review flag.
* `hold`, `order`: disposition of the reservations and payment status of the order.
* `session`, `keyed`, `link`: Stripe. The Sessions of an attempt, the one its idempotency key
  answers with, and the one whose payment page the shopper has seen. Room for two Sessions is
  kept so that a second one can be seen and excluded.
* `worker`: the executions of repository code in any process: the step each stands before, the
  attempt, **the row its claim returned** (decisions are taken on this copy, however old) and the
  Session an answer brought.

### 2.2 Checkout: actions

One transaction, or one `UPDATE ... WHERE`, is one action; one call to Stripe is one action.

| Code | Action |
|---|---|
| `putItem`, `removeItem`, `delete`, `cleanupInactiveResources` | `PutItem`, `RemoveItem`, `DeleteCart` |
| stock edit of a variant | `SetOnHand` |
| `quote` / five minutes | `CreateQuote` / `QuoteExpires` |
| `startCashOnDelivery`, `startOnline` | `StartCashOnDelivery`, `StartOnline` (with `reserve`, command and quote consumption) |
| `cancelAttempt` | `CancelAttempt`, then `ReleaseUnpaidAttempt` ("withdraw") or a forced claim |
| `processOnlineAttempt` by scheduler, start, cancel, Connect event, operator | `ProcessOnlineAttempt(w, q, force)` |
| `createProviderSession` | `RefuseToCreate`, `DispatchCreate`, `CreateCheckoutSession` |
| `saveProviderSession` | `SaveProviderSession` |
| `reconcileProviderSession` | `ReconcileWithoutSession`, `RetrieveCheckoutSession`, `VerifyPaymentIntent`, `ExpireCheckoutSession`, `FinishReconcile` |
| `releaseUnpaidAttempt`, `placePaidOnlineOrder` | `ReleaseUnpaidAttempt`, `PlacePaidOnlineOrder` |
| `finishAttemptWork`, `markAttemptForReview`, `recordProviderFailure` | operators of the same name; `RecordProviderFailure` is an action |
| `attemptResponse` | `ReadAttempt`, the only way a payment URL reaches a shopper |

The environment: `Pay`, `SessionTimesOut`, `KeyForgotten` (Stripe), `ProviderFails` (a call or a
transaction throws; with its effect done when it fires one step later, which is a lost answer),
`Crash`, `LeaseExpires`, `RetryComesDue`, `DispatchAges`, `ChangeOffer`.

### 2.3 What the model leaves out

* The status `failed` is in the schema and never written; so it is not in `Terminal`.
* Sessions accept cards only, so a completed Session is a paid one; the branch that polls a complete but unpaid Session is out.
* A failed dispatch `UPDATE` also counts as a failure (`recordProviderFailure` catches it); `ProviderFails` fires at calls to Stripe and at the
  transactions after them.
* Stripe forgets a key only after the 23 hours and when no request is on its way. The code's
  window is one hour shorter than Stripe's for that reason; a request delayed by more than an hour is out of scope.
* `cancel-checkout` commands: a replay of the key changes nothing; a fresh key on an attempt
  already cancelling forces a claim, which the model allows at any time.
* Operator replay and webhook delivery only force claims. Lost, duplicated and reordered webhooks are therefore covered: a claim may or may not happen.
* Emails, outbox rows, notifications and the order's copy of the snapshot written in the same transaction.
* The limit on carts per shopper and the refusals of a put by the catalogue: a refused request is one that does not happen.
* The deletion of old quotes by `cleanupInactiveResources`: it takes quotes that expired and that no attempt consumed, which no start accepts any more.

### 2.4 Orders: state and actions

`orders.repository.ts`, the placements of `checkout.repository.ts` and `updateInventory` of
`product-variants.repository.ts`, for one Store.

* `order`: status, payment status, review flag, refunded amount and version. An order shares its name with its attempt.
* `hold`, `captured`: disposition of the reservation rows, and the variants whose row recorded the policy `tracked`.
* `counted`, `onHand`, `reserved`: policy and stock columns of the variants (a null column is 0).
* `operation`: refund operations of an order, by generation.
* `command`: `commerce_commands` of order commands. Key, order and operation identify a row; the
  version stands for the whole hashed payload.
* `call`, `reply`: requests between the first look at the key and the row lock, and the last answer.
* `intent`: the email and notification rows written to the outbox.
* `owned` is a history variable: the counted units a Store has, or has on the way to a customer.

| Code | Action |
|---|---|
| `startCashOnDelivery`, `startOnline`, `placePaidOnlineOrder` | `PlaceCashOnDelivery`, `StartOnline`, `PlacePaidOnlineOrder` (with `Reserve` and `Place`) |
| `updateInventory` | `SetOnHand`, `StartCounting`, `StopCounting` |
| `cancelByShopper`, `prepare`, `ship`, `deliver`, `cancelByStaff`, `returnToStore`: lookup of the key | `Submit` |
| the same: second lookup under the lock; errors | `AnswerOnly` |
| `transition` with `applyReservations`; `retryRefund` | `Execute`, by `Transition` or `RetryRefund` |

Left out: the texts of commands (reason, carrier, confirmation that cash was collected), who may issue them (the
operation tells), the optimistic version of a variant's own edit, order events. A recorded command also names its actor; callers who share a key are
one person here. The refusal to refund an order without a payment reference is left out: every order paid online has one.

### 2.5 Refunds: state and actions

* `refund`, `keyed`, `external`: Stripe. Refunds made through the code, the one the key of each operation
  answers with, and what was refunded by hand. `Refunded` is the charge's `amount_refunded`.
* `worker`: executions of `processRefund` and of event handlers: the step before which each stands, the row its claim
  returned, what it read of the order and of the charge.
* Amounts are 0, 1 (part) and 2 (`Full`).

| Code | Action |
|---|---|
| `processRefund`: claim | `ClaimRefund` |
| `processPurchaseEvent`: refund of an unknown operation / dispute | `ProcessPurchaseEvent` / `MarkOrderReview` |
| `reconcileRefundedCharge`, `applyExternalPaymentTruth` | `RetrieveCharge`, `ApplyExternalPaymentTruth`, `CloseOperation` |
| 23-hour check, `markRefundForReview` | `RefuseToCreate`, `MarkRefundForReview` |
| dispatch, `refunds.create`, `refunds.retrieve` | `DispatchRefund`, `CreateRefund`, `RetrieveRefund` |
| `applyProviderRefund`, `markRefundFailed` | `ApplySucceeded`, `ApplyFailed`, `ApplyPending` |
| `recordRefundFailure` | `RecordRefundFailure` |

The environment: `RefundSettles`, `RefundByHand`, `KeyForgotten` (Stripe), `ProviderFails`, `Crash`, `LeaseExpires`, `DispatchAges`.

Left out or assumed:

* Amount and currency comparisons: the payment was verified at placement and does not change at Stripe.
* Events are hints that may start a handler at any time after there is something to tell. Delivery, loss,
  repetition and order of webhooks are covered by that; the inbox that drives them is a component of its own (section 6).
* No execution lasts as long as the 23 hours of the dispatch window (`DispatchAges`), and Stripe forgets a
  key only when no request that found the window open is on its way (`KeyForgotten`).
* A refund that succeeded is not reversed later.
* The refund operation's events and the order's copies of Stripe ids.

### 2.6 Background work

Six pipelines run behind the requests. They share no state once an intent is written or an event stored, so `MCBackground` lets
each behaviour be one of them; `Background` states their conjunction (`BackgroundSpec`) and the properties that join them. Time is reduced to whether it has passed: a retry is due or not, a lease is over or not.

| Module | Code | State | Steps |
|---|---|---|---|
| `Outbox` | `infrastructure/outbox` | a row is absent, waiting, published or dead | write, claim, publish, fail, delay |
| `OrderEmails` | dispatcher, delivery repository, processor | intents, deliveries, queue, what each dispatcher and sender has in hand | record, ensure the row, queue, mark, publish; claim, send, mark sent, fail; crash, lost lease |
| `NotificationEmails` | delivery repository and service, recovery task | letters, queue, senders, whether the provider still knows the key | recover, claim, look at the recipient, send, mark, stop for review |
| `Notifications` | events and inbox repositories, fan-out, reconciliation | events, recipient states, inbox, invitation | dispatch, claim, one batch, close, fail; bind; delete; clean up |
| `ConnectInbox`, `StoreAccounts` | `infrastructure/payments`, `modules/payments` | receipts and handlers; account row, Stripe's account, its key | ingest, claim, handle, complete, fail, recover, replay; create, save, refresh, deauthorize |
| `Billing` | `modules/billing` | attempts, Sessions, events, projections, workers | reserve, create or reuse, save; pay, expire, sweep; claim, retrieve, reconcile, fail, replay, purge |
| `Plans` | `modules/plans`, provisioning queue | plan, prices, outbox row, job, workers, Stripe's catalogue | create, dispatch, provision, reconcile, retry; add, activate and withdraw prices |

`OrderEmails` and `NotificationEmails` implement `Postbox` under refinement mappings (`OrderOutcome`, `LetterOutcome`).

Facts of the code that shape these models: order e-mails have no window after which a repeat is refused (the mail README
admits the ambiguity), so the provider is taken to know their key as long as they are retried; letters have a window of 23 hours.
A crashed send does not count as an attempt of an order e-mail, a claim of an event does. A dispatch that fails ten
times makes its outbox row dead, and a slow dispatcher can still publish it afterwards. `makeDueForOperatorReplay` is called by nothing and
left out. The comment at `stripe-webhook.service.ts:100`, that fetching a subscription again makes the order of its events harmless, is true of one
worker at a time: with two, the older look can be written last (`overlapped`).

The fan-out looks the binding of an invitation up again, and takes it only while the bound account still has the invited address verified
(`HasAccount`); the account may take another address, take this one back, or be deleted (`AddressChanges`, `RemoveUser`, bounded by
`MaxFanFaults`). The reconciliation looks for invitations nobody is bound to, or whose reminder is due. What was fanned out while the bound account had
lost the address therefore stays `pending_binding`, unless a reminder comes by while it has the address; `missed` names those invitations.

### 2.7 The store's side of the platform

These parts write no row of another, with one exception: the task that deletes accounts inactive for thirty days, whose `DELETE` cascades to what the user had. `Accounts` has the deletion of
the user; `Founding` has what it does to stores, because an organization stays behind there; `Notifications` has it for the inbox. What it removes elsewhere are rows of
somebody who is gone, and is left out (section 6). `Platform` is the conjunction of the parts (`PlatformSpec`) and states what they promise together; in `MCPlatform` each behaviour is one of them.

| Module | Code | State | What is hard in it |
|---|---|---|---|
| `Catalogue`, `Gallery` | `modules/products`, cleanup queue | product, options, values, variants, edit forms; rows, files, uploads, jobs | signature and title of a variant copy its selections; files and rows are written apart, and each answer may be lost |
| `Categories` | `modules/categories`, memberships of a product | categories with positions, open pages, a product's shelf | pages of two editors, archived rows |
| `ReadCache` | `infrastructure/cache`, invalidators | database version, entries by token, loads, permits, readers, writers | loads that straddle a write, Redis failing at each call |
| `Breaker` | `endpoint-cache-controls.service.ts` | circuit, generation, calls | calls from before an opening |
| `Founding`, `Stores` | `modules/stores` | organizations, stores, cleanup jobs; status, audit, name and copy, logo and file, settings | steps outside the transaction; values read at the start of a request |
| `Accounts`, `Addresses` | `modules/users`, `modules/auth` | users, sessions, requests under way; addresses, the advisory lock | checks before a call to the library |
| `Comments` | `modules/comments` | comments, keys, requests | moderation between look-up and write |
| `Paging` | `common/api-query` | rows, cursor, page by page | equal and missing keys, microseconds against milliseconds |

* **Lost answers in `Gallery`.** The service takes whatever throws for a failure. An insert that was committed without an answer has the files of its rows cleaned up (`doubted`); an upload that was stored without an answer is a file
  no clean-up knows of, since the service cleans up only what was uploaded before it (`lost`). `Stores` has the same for a logo (`inDoubt`).
* **`Founding` in two steps.** The library first reads how many organizations the user belongs to (`CheckLimit`) and then writes one (`CreateOrganization`), so two requests of one owner can both get an organization; the unique
  owner of a store, or its slug, decides at the insert (`Conflicts`), and the loser's organization is cleaned up. Without the answer of the library nobody knows what to clean up (`stranded`). The deletion of the owner's account takes a
  store that nothing refers to and leaves its organization (`OwnerIsRemoved`, `stranded`).
* **Sessions in `Accounts`.** They live in Redis (`storeSessionInDatabase: false`), users in the database. The deletion of an account reaches no session (`CleanUpAccounts`), the library writes a session for whoever passed the check
  (`CreateSession`), and an administrator whose session is left is let in (`Authorize`).

A version column is modelled as what it is for: a form or page stays fresh until a write bumps the version it was opened at.
Product texts and the rename of a store carry no version in the code: the last writer wins, and no property says otherwise.
The parts whose operations multiply are checked in plays that leave some of them out; every operation is in some play, and TLC reports each fired.

## 3. Runs

| Run | Instance | Question |
|---|---|---|
| `checkout_race` | 1 quote, 2 cart revisions, 2 workers, 2 mishaps | Can two workers, lost leases, crashes and lost answers make one attempt end wrongly? Also checks the inductive invariant and that Checkout implements Purchase. |
| `checkout_stock` | 2 shoppers, 2 quotes, 2 keys, stock 2, 2 revisions, quantity 2 on delivery and 1 online | Is what is bought what was quoted, once, and are reservations counted exactly and never beyond the stock? |
| `checkout_liveness` | 1 quote, 2 workers, 1 mishap | Does work end, under the fairness below? |
| `checkout_lost_answer` | 1 quote, 1 worker | Violated: an attempt cancelled after a dispatched creation whose answer was lost never ends. |
| `orders_stock` | 2 orders paid on delivery, 2 variants, stock 2; or 1 order, either method, 2 callers, 2 keys, versions up to 2 behind | Do the counters follow the goods through all commands, stock edits and policy changes, and can every order still move? Do versions and keys make concurrent and repeated commands take effect once? |
| `orders_online_stock` | 1 online order | Violated: an online order's units stay reserved when it is cancelled, and on hand when it is shipped. |
| `refunds_race` | 1 cancelled order, 2 workers, 2 generations, 1 mishap or 1 refund by hand; or 1 order on its way through the Store, with a dispute | Is money returned at most once, and do payment status, operations and Stripe tell one story? Does money that went back at Stripe stop the order? |
| `refunds_liveness` | 1 cancelled order, 2 workers, 1 mishap | Does every refund end? |
| `background` | per pipeline: 1 item (3 events, 2 checkout attempts, 3 prices), 2 workers, 1 dispatcher, 2 attempts, 1 or 2 faults | Does each pipeline keep its promise and end its work through crashes, lost leases, lost answers and repeated jobs? |
| `platform` | per part: 2 or 3 rows, 2 requests or editors, 2 faults | Do catalogue, files, cache, stores, accounts, books, comments and lists stay sound when requests race and calls fail? |
| `refunds_announced` | 1 order, 1 worker | Violated: one refund is announced at two versions. |
| `refunds_authority` | 1 order, 2 workers | Violated: an older look at the charge overwrites a newer one. |

The two runs that join many parts check one property for each question, a conjunction of named parts that stand in the component's module:

| Property | Parts | What it says |
|---|---|---|
| `MailKeepsItsPromise` | `OrderEmailsKeepTheirPromise`, `LettersKeepTheirPromise` | both implement `Postbox`: at most one message, final outcome, "sent" only if taken |
| `NobodyIsForgotten` | `PublishedIsDurable`, `ProcessedReachedEveryone`, `BindingLeavesNothingBehind`, `InboxAgreesWithStates`, types | no recipient is lost between outbox, batches and binding, but for invitations fanned out while the bound account had lost the address (`missed`) |
| `SettledWorkStays` | `SettledEventsStay`, `CompletedStaysCompleted`, `ReadyStaysReady` | no worker that lost its lease reopens finished work |
| `AllWorkEnds` | `EveryOrderEmailHasEnded`, `EveryLetterHasEnded`, `EveryIntentHasSettled`, `EveryReceiptHasEnded`, `EveryCreationHasEnded`, `EveryBillingEventHasEnded`, `EveryPlanHasSettled` | whatever is begun is done, given up or under review in the end |
| `ConnectKeepsItsBooks` | `OneAccountPerStore`, `DeauthorizedStaysClosed`, `InboxIsBounded` | one account, closed for good once deauthorized; attempts counted |
| `BillingTellsTheTruth` | `OneSessionOpen`, `FinishedEventsTookEffect`, `DelayedEventsDoNotOverwrite` | one Session to pay; completed events took effect; late ones leave nothing old, but for two workers at once |
| `OfferIsProvisioned` | | an active plan and an active price exist at Stripe, one price per currency and interval |
| `CatalogueIsSound` | `PublishedIsSellable`, `LabelsFollowSelections`, `PositionsAreDense`, `OrderIsStrict` | no sequence of edits takes back what publishing checked |
| `NobodyOverwritesUnseen` | `SavesOverWhatWasSeen`, `ReordersWhatWasSeen`, `ReplacesWhatWasSeen`, `ShelfKeepsItsHistory`, `SettingsFollowWhatWasSeen`, `EditsFollowWhatWasSeen` | variants, the order of categories, the categories of a product, settings and comments are saved over what was on the screen |
| `FilesInUseAreKept` | `EveryImageHasItsFile`, `LogoIsInStorage` | no clean-up is aimed at a file in use, but for rows whose write was committed without an answer (`doubted`, `inDoubt`) |
| `LeftoversPass` | `NothingIsLeftInStorage`, `NoEntryIsStale` | files without a row and stale entries go, but for files whose upload gave no answer or whose clean-up was lost or given up (`lost`) |
| `NoReadIsOlderThanItsInvalidation` | | excepted: joined loads while Redis fails |
| `LoadIsBounded` | `PermitsMatchQueries`, `OneProbeAtATime`, `OnlyTheProbeCloses` | permits match running queries; one probe at a time |
| `StoreRecordsAgree` | `StoresKeepTheirOrganization`, `NoOrganizationIsForgotten`, `NamesPartOnlyByOvertaking`, `AuditTellsTheStory` | organization, name and audit follow the store, but for what a crash, a lost answer, a refused or failed clean-up or the deletion of an account strands (`stranded`) and renames that overtake one another |
| `SessionsEndWithTheAccount`, `LastAdminGoesOnlyInARace` | | exactly the race the code leaves open is excepted, by name |
| `BookIsSound`, `KeysAnswerOnce`, `ListsAreFaithful` | `OneDefault`, `BookWithinLimit`; `OneAnswerPerKey`, `KeysNameComments`; `PagesAreInOrder`, `NothingIsMissed` | concurrent requests of one user, repeated requests, pages of a list that changes |
| `AttemptsAreSettled` (`checkout_liveness`) | `KnownSessionIsSettled`, `EarlyCancellationIsSettled` | checkout attempts end |

**Bounds.** Attempts interact only through the cart, the stock and the commands: one quote and
two workers exercise every race on an attempt (a third worker adds nobody new to race with, as a
lease names one holder and one former holder), two quotes every race between attempts. Two mishaps allow a
lost lease of a worker and a crash of its successor. `ProviderMaxAttempts` is 2 or 3 instead of 10, so
that the limit is reached. Cart edits stop at `MaxCartVersion`; released attempts may still go beyond it.
Orders meet only through the stock of a variant: two orders, one over two variants, exercise that, and one order everything else. `Operations`
says which commands the callers of a run use; `MaxLag` how many versions behind a caller may be (a caller two behind is refused like any older
one); `MaxGenerations` how often a refund may be asked for again; `MaxVersion` until which version disputes are raised; `MaxMishaps` counts crashes
and leases lost by a live worker. `RefundMaxAttempts` is 1 or 2 instead of 10, so that the limit is reached. The refund runs sell nothing counted, since
refund work never touches stock.

In the background and platform runs one item per pipeline is enough because items meet only at the workers, of which there are two: a
holder of a lease and a former one. Limits of attempts are 2 instead of 5 or 10, so that they are reached with and without a crash. Faults (crashes, failed calls,
leases lost by a live worker) are at most two, one in the longest plays. Workers are alike, so the second takes up work only while the first is busy (`InTurn`).
Three events let one be foreign to every handler; two checkout attempts are the first number at which a Store could pay twice; three categories, options or
address keys the first at which an order has a middle. Three requests, two owners and two slugs let requests race for an owner, for a slug and for both; in `FoundingPlay` they ask in order, since they are alike, and
beside the third one thing fails at most. In `GalleryPlay` the second upload has one file and meets one fault at most, and the store closes only before any image. The plays of `MCBackground` and `MCPlatform` name what each leaves out.

**Fairness** (`FairSpec`). The scheduler polls every minute and PM2 restarts it, so a due attempt is
claimed by somebody (`WF` of the unforced claim); code that runs takes its next step unless it crashes
(`WF` of `Work(w)`; mishaps are bounded, i.e. crashes stop eventually); time passes (`WF` of the
timers, and Stripe expires an open Session after half an hour). Nothing is assumed of shoppers, merchants or the success of Stripe's answers:
`ProviderFails` may win every time, and the failure counter is what ends the work then.
For refunds likewise: the sweep runs every minute, a leased operation is worked on, leases expire, and Stripe decides on a pending refund.
Claims are strongly fair because the model has two workers only, which event handlers may keep busy again and again; the sweep of the code does not wait for them.

In `MCBackground` dispatchers, workers, recovery tasks and sweeps are weakly fair, since they run on intervals in processes that are restarted, and so are the clocks
(retry delays, queue marks, leases). Only one pipeline moves in a behaviour, hence one condition serves corresponding actions of all of them. In `MCPlatform`
requests under way and queued jobs go on, loads are cut at their deadline, entries expire and a writer that has committed invalidates. No provider is assumed to answer.

## 4. What the runs found

`EveryAttemptIsSettled` states the comment above the eager call in `startOnline` ("an outage or
crash leaves the attempt recoverable"). Shortest story: `startOnline`; a worker dispatches the
creation; the answer is lost and the failure recorded; the shopper cancels. From now on each claim
sees `cancelling` without a Session id, dispatched, and only postpones itself by a minute
(`checkout.repository.ts` 1072-1081), without counting a failure. Nothing repeats the creation under its
idempotency key, which would return the Session to expire. The stock stays reserved and the cart locked.

`StockFollowsGoods` holds for payment on delivery and fails for online orders (`orders_online_stock`).
`placePaidOnlineOrder` marks the reservations `consumed` without touching the counters, while `applyReservations` moves only rows
that are `held`. So cancelling or shipping an online order finds nothing to move: its units stay reserved for ever, shipping does not lower the
stock on hand, and a return adds units that were never taken off. The controller says shipping consumes held stock.

`RefundAnnouncedOnce` states the notification README ("lifetime milestones prevent duplicates"). The keys of the announcements carry the order's
version, and each path that learns of a full refund raises it: a `charge.refunded` event handled before the answer to our own request is enough.

`FullRefundStands` states the comment at `processPurchaseEvent` ("provider retrieval remains authoritative"). Two handlers retrieve the charge in one order and
write it in the other; nothing compares what is written with what is recorded. The order keeps `refunded` with a smaller amount and a review nobody needs.

## 5. Proofs

The theorems hold for all values of the constants that satisfy the named assumptions: any number of shoppers, variants, orders, workers, recipients,
events, crashes and lost leases. Each proof has the same shape. A property is seldom inductive, because whether the next step breaks it depends on what some
worker *remembers*; so the invariant says, for each step a worker can stand before, what its copy still guarantees however old it is. One lemma per action
shows that the action keeps the invariant, one per property that the invariant implies it. `PROJECT.json` lists the theorems; the lemmas stand before them.

### 5.1 Checkout

Assumed: `CheckoutAssumption`, `NullAssumption` (null values are no rows, bounds are naturals, at least one provider attempt).

`CheckoutProofs`: `Consistency` (`Consistent`, in `CheckoutInvariant`), and from it `TypeCorrectness`, `SingleSession`, `ReleaseIsSafe`, `OrderBacking` and the action property `Finality`.

* before dispatching, a copy that saw no dispatch is right as long as the lease is still the worker's (`FirstDispatchKnown`);
* a request on its way finds either no Session or a known key;
* a worker about to release knows that nothing was or can be sent (`Unsendable`), or that the Session has expired; one about to place knows it is paid;
* rows: a started attempt has consumed its quote, an active one holds its stock and has no order.

`Evolves`, `LeaseEvolves` and `CallEvolves` collect what a step may do to an attempt that other workers rely on; `Bystander` shows once that a worker that
does not move keeps what it knows, and `Assemble` puts a step together. `Finality`: a worker that would place a released attempt would hold a paid Session.

`CheckoutCartProofs`:

* `CartConsistency` (`CartsAgree`): every revision a cart or a quote has was allocated by the sequence, no two carts have the same, a quote is what its revision
  said, and a bought revision is no cart's any more. From it `CartFreeze` and `RevisionBoughtOnce`.
* `NeverOversold`: what is reserved is on hand, which needs only that every edit and every start decides in the transaction that writes.
* `PurchaseImplemented`: Checkout implements `Purchase`. Initial states map to initial states and each action to one abstract step or none.
  `Consistent` lacks one fact that the mapping needs, and `UnpaidIsNeverCharged` supplies it: an order paid on delivery has no Session.
* `StockConsistency` and `StockIsConserved` (`ReservedMatchesClaims`): per variant, the counter is the sum over the reservations that are held or
  consumed. A release and a late payment of the same attempt cannot both count, because `Consistent` says in which disposition a worker finds the row.

`SumTheorems`: the fold of the community modules takes the terms of a set in an order the definition does not tell. `TotalRemove` shows that the order does not
matter: a sum is any of its terms plus the sum of the rest. The argument goes by a smallest set for which it fails (`WFMin`, an instance of the
library's well-founded sets, so no induction theorem with an operator parameter is needed).

### 5.2 Orders and refunds

Assumed: `OrdersAssumption`, `NoCallAssumption` (natural quantities, the known payment methods), `RefundsAssumption` (there are orders; one refund can be asked for).

`OrdersProofs`:

* `OrdersConsistency`, `OrdersTypeCorrectness`, `CommandsAreSerial`, `RepeatsAreAnswered`: a recorded command is behind its order's version (`RecordedIsPast`), an
  unplaced order is at version 0 (`Versioned`), callers send versions from 1 on (`CallsHaveRead`).
* `OrdersStockConsistency` (`StockAgrees`): the exact law of the counters: reserved = what held orders captured + what every order *ever paid
  online* captured. The second term never shrinks: that is the finding of `orders_online_stock`, stated as what the code does. From it `OrdersAreNeverStuck` (no order that
  could go on is stopped by a counter) and `CashStockIsExact` (while nothing was paid online, counters and goods agree to the unit).

`RefundsProofs`: `RefundsConsistency` (`RefundsConsistent`), and from it `RefundsAreSerial`, `PaymentsAreTrue` and `MoneyBackHoldsTheOrder`, the last
with the orders' invariant. What a worker knows:

* an execution that saw its dispatch young does not stand before a request once it is old; Stripe remembers the key until then, so that a request either finds it or is the first
  of its operation. This rests on the guard of `KeyForgotten`: a key is forgotten only when the recorded dispatch is old and no request that found it young is on its way (2.5);
* an order that was read ended stays so, and what was read of the charge has gone back (`amount <= Refunded`);
* an answer about to be applied is "pending" or what Stripe still says, because a refund that settled stays settled;
* who still holds the lease finds the order as it settled it (`LeaseProtects`).

All operations of an order but the last have failed at Stripe, which is what keeps two refunds apart.

### 5.3 The store's side of the platform

Assumed: `AccountsAssumption`, `AddressesAssumption`, `CommentsAssumption`, `CacheAssumption`, `BreakerAssumption`, `FoundingAssumption`, `StoresAssumption`, `CatalogueAssumption`,
`GalleryAssumption`, `CategoryAssumption`, `PagingAssumption` (limits are positive, a product has at most three options, rows and files are finitely many, keys and row ids are naturals), and
that the null values (`UsersAreNamed`, `CallersAreNamed`) are nobody's id.

`CatalogueProofs`. What the code sorts is a `CHOOSE` in the models, so its first lemmas show that a finite set can be put in any strict total order (`RanksAreInOrder`) and that a
sequence in that order holds each element once.

* Images: `FilesConsistency` (`FilesAgree`): a file is named by a row, in an upload's hands, doomed by a clean-up, or free, and never two of these, unless it is `doubted`: rows committed without an answer, whose files a clean-up is aimed at. An upload that would insert has all its files stored.
* Products: `CatalogueConsistency` (`CatalogueAgrees`): positions of options and values are dense, and a value stands under an option that exists (`OptionsAgree`); signature and title of a variant, archived ones included,
  are those of its selection *now* (`VariantsAgree`); a form that is still fresh shows the row as it is (`FormIsSound`); nothing exists before the product; a published one has an active variant, its active variants choose a
  value of every option, and no two choose the same (`SellableButForImages`). That it also has an image is the gallery's half. From it `ProductSoundness` and `NoVariantIsOverwrittenUnseen`.
* Categories: `CategoriesConsistency` (`CategoriesAgree`): current ones have different positions, what a page holds fresh is as it showed it, a product is in at most the allowed number of current ones.
  From it `OrdersAreAsSeen`, `ReplacementsAreAsSeen`, `ShelvesKeepHistory`.
* Lists: `PagingConsistency` (`PagesAgree`): the cursor is the last row that was shown, and what is in the table all along is shown or behind the cursor (`NothingIsLost`). From it `PagesReadAsOneList`.

`PlatformProofs`:

* `AccountsConsistency` (`AccountsAgree`): whose session a device may use, and what a call that waits knows of the user it read. A deleted account is inactive and nobody is deactivating it (`DeletedAccountsAreEnded`): its sessions are those the
  deactivation left, since the deletion ends none. From it `SessionsAreEnded` (but for a sign-in checked earlier, and a revocation that failed together with its undoing) and `LastAdminIsKept` (a demotion leaves no administrator only when it was decided on a set that changed since).
* `BooksAreSound`: the advisory lock has one holder, so what its holder counted is still so (`DecisionsStand`); numbers handed out are fresh.
* `CommentsConsistency`, and from it `KeysAreAnsweredOnce` and `EditsAreNotLost`: answers are rows, and keys name comments that were made, also of requests still waiting for moderation.
* `CacheConsistency` (`CacheAgrees`): tokens come in order, and a token with its rotations still to come is at most what is committed; nothing is stored under a token to come; what is
  stored or being loaded under the current one was read after the last rotation that went through; a fresh token finds nothing. From it `NoStaleReads`, for any number of readers, loads, writers and failures of Redis.
* `PermitsAreQueries`: a permit is held for exactly the queries the database still works on; `BreakerConsistency`: a call that began before the circuit opened carries an older generation, so only the probe, which
  there is one of, closes it. Together `LoadStaysBounded`.
* `FoundingConsistency` (`FoundingAgrees`): what a request holds, whether its clean-up job exists and what the store row says, step by step; an organization without a store belongs to a request under way, has its job, or is stranded: by a crash, a lost answer of the library, the queue, a job that failed every time, or the deletion of its owner. `StoresConsistency` (`StoresAgree`):
  the audit ends in the present status and is a path of transitions; the copy of the name is current, or a job or a caller is on the way to write it, or two renames overtook one another; a logo's file is stored; an editor's fresh settings are
  those in the row. From them `RecordsAgree` and `SettingsAreNotLost`.
* The joint promises: `CatalogueSoundness`, `FilesAreKept`, `NothingIsOverwrittenUnseen`, `LoadStaysBounded`, `RecordsAgree`, each from the specifications it speaks of, and `PlatformIsSound` from all ten.

### 5.4 Background work

Assumed: `OutboxAssumption`, `PlansAssumption`, `MailAssumption`, `LetterAssumption`, `FanAssumption`, `ConnectAssumption`, `AccountAssumption`, `BillingAssumption` (limits of attempts are at least one, null values are nobody's
id, an invitation is one of the sources of events). `BackgroundProofs`:

* Plans: `PlansConsistency`, `OffersAreProvisioned`: until a plan is provisioned nothing of it is on offer and nobody adds prices; afterwards its prices and Stripe's catalogue agree and one price
  at a time is pending or on offer.
* Payment account: `ConnectConsistency`, `ConnectBooksAreKept`: who holds the creation knows its retries; the key is forgotten only when no request under it can come; a receipt counts the
  starts of its handler.
* Billing: `BillingConsistency`, `BillingIsTrue`: the pending attempt is unique and only it has an open Session; an event is stored after what it tells of; the effect of a completed event stays;
  while workers take turns, a look at the subscription is still true when it is written.
* Order e-mails: `OrderMailsConsistency` (a published intent has its row, an open row has an attempt left, only the holder of the token is sending, a message the row calls sent was taken) and
  `OrderMailsAreDelivered`: each step is one step of `Postbox` or none.
* Letters: `LettersConsistency`, `LettersAreDelivered`: the same with a provider that forgets keys after a day: a key that may be forgotten is one whose first request the row
  calls too old to repeat. Together `MailIsDelivered`.
* Fan-out: `FanConsistency`: everyone up to an event's progress has a state row, the worker's copy of the progress is not ahead of it, the inbox shows what the rows say, and nothing stays behind for an address that is bound but the
  invitations in `missed`: a batch that leaves one waiting is written under a binding whose account had lost the address, and only a reconciliation that hands it over takes it out again.
  With the outbox's part of the order e-mails, `NobodyIsLost`.
* `SettledWorkRemains`: a worker that lost its lease or job cannot reopen an event of notifications, an event of billing, or a plan.

### 5.5 Only model-checked

* Liveness, which is out of the prover's reach: `AttemptsAreSettled`, `EveryRefundEnds`, `AllWorkEnds`, `LeftoversPass`.
* The claims of the code's documents that the runs expect violated.

Every other property of the passing runs, the two refinements and the step properties included, is a theorem.

## 6. Not modelled

* Assistant, health, mail, sms, storage, logging, configuration: adapters to outside services or plumbing. Where the answer of such a service matters it is an action of the environment.
* The auth library (better-auth): its calls are single steps that may fail. Sign-up, passwords, phone numbers, impersonation and profile pictures are left out; memberships and
  invitations are the library's rows and a database trigger, of which only the intent it writes is modelled (`Notifications`).
* Billing: the customer made at the first checkout, the portal, reads. Plans: edits of texts and limits (`updatePlan`). Notifications: preferences, read and archived marks.
* Products: texts, listings, filters and searches. `Paging` has the cursor, not the filters.
* What the deletion of an account removes with it in address books, comments, carts, quotes, memberships and the invitations it sent, and the columns it sets to null: rows of somebody who has been inactive for thirty days. The deletion is one statement for all accounts that are due; an account whose store is still referred to
  makes it fail for all of them, which the models have as a deletion that does not happen.
* Row locks: a transaction is one action. The order in which transactions take locks (a release of an attempt locks the attempt first, a start the cart) decides
  only which of them PostgreSQL aborts, and an abort is a failure that the models have.
* Leaving review: an attempt, a refund or a letter under review is skipped by every task, so the liveness properties count review as settled.

## 7. Plan

1. An abstract Repayment (money is returned at most once, and only for ended orders) implemented by Refunds.
2. Membership, once the database trigger and the library's calls are worth a model: an owner remains.
3. The composition of `ConnectInbox` with `Checkout` and `Refunds`, which now see its events as forced claims.
