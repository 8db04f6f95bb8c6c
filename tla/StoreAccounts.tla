---------------------------- MODULE StoreAccounts ---------------------------
(***************************************************************************)
(* The connected account of a Store: its creation at Stripe under a frozen *)
(* idempotency key, by the owner's request or the recovery task, and its   *)
(* readiness, which the owner and the events of ConnectInbox refresh       *)
(* (modules/payments).  Accounts of different Stores share nothing, so one *)
(* is modelled.  The frozen request is written once by ensureCreationIntent*)
(* and is always readable.                                                 *)
(***************************************************************************)
EXTENDS ConnectInbox

CONSTANTS Makers, NoMaker,       \* requests and recoveries that create
          CreationMaxRetries     \* 10

ASSUME AccountAssumption == CreationMaxRetries \in Nat \ {0} /\ NoMaker \notin Makers

VARIABLES account,      \* store_payment_accounts
          maker,        \* what each creation is about to do
          refresher,    \* what a refresh by the owner has read
          stripe        \* the provider's side

accountVars == <<account, maker, refresher, stripe>>
connectVars == <<inboxVars, accountVars>>

AccountRows ==
    [status : {"none", "not_started", "creating", "created", "review_required"},
     id : Nat, token : Makers \cup {NoMaker}, leased : BOOLEAN,
     dispatched : {"no", "recent", "old"}, retries : 0..CreationMaxRetries,
     ready : BOOLEAN, deauthorized : BOOLEAN]

IdleMaker == [at |-> "idle", retries |-> 0, got |-> 0]

\* made: accounts created; key: the one the idempotency key answers with.
AccountInit ==
    /\ account = [status |-> "none", id |-> 0, token |-> NoMaker,
                  leased |-> FALSE, dispatched |-> "no", retries |-> 0,
                  ready |-> FALSE, deauthorized |-> FALSE]
    /\ maker = [k \in Makers |-> IdleMaker]
    /\ refresher = "idle"
    /\ stripe = [made |-> 0, key |-> 0, enabled |-> FALSE, revoked |-> FALSE]

ConnectInit == InboxInit /\ AccountInit

OnlyAccount == UNCHANGED <<inboxVars, refresher, stripe>>

-----------------------------------------------------------------------------
(* Creation *)

EnsureCreationIntent ==
    /\ account.status = "none"
    /\ account' = [account EXCEPT !.status = "not_started"]
    /\ UNCHANGED maker /\ OnlyAccount

ClaimableCreation ==
    /\ account.id = 0
    /\ \/ account.status = "not_started"
       \/ account.status = "creating" /\ ~account.leased

ClaimCreation(k) ==
    /\ maker[k] = IdleMaker /\ ClaimableCreation
    /\ account' = [account EXCEPT !.status = "creating", !.token = k,
                                  !.leased = TRUE]
    /\ maker' = [maker EXCEPT ![k] =
            [at |-> "claimed", retries |-> account.retries, got |-> 0]]
    /\ OnlyAccount

HoldsCreation(k) == account.status = "creating" /\ account.token = k

\* Slip: an old key is trusted.
KeyTrusted == FALSE

\* The first request left more than 23 hours ago.
KeyMayBeGone == account.dispatched = "old"

CreationReview(k) ==
    /\ maker[k].at = "claimed" /\ KeyMayBeGone
    /\ account' = IF HoldsCreation(k) /\ account.id = 0
                  THEN [account EXCEPT !.status = "review_required",
                            !.token = NoMaker, !.leased = FALSE, !.ready = FALSE]
                  ELSE account
    /\ maker' = [maker EXCEPT ![k] = IdleMaker]
    /\ OnlyAccount

MarkCreationDispatched(k) ==
    /\ maker[k].at = "claimed" /\ ~KeyMayBeGone
    /\ IF HoldsCreation(k)
       THEN /\ account' = [account EXCEPT !.dispatched =
                                IF @ = "no" THEN "recent" ELSE @]
            /\ maker' = [maker EXCEPT ![k].at = "dispatched"]
       ELSE maker' = [maker EXCEPT ![k] = IdleMaker] /\ UNCHANGED account
    /\ OnlyAccount

\* accounts.create, with the answer lost or not, or refused.
CreateConnectedAccount(k) ==
    /\ maker[k].at = "dispatched"
    /\ \/ /\ stripe' = IF stripe.key # 0 THEN stripe
                       ELSE [stripe EXCEPT !.made = @ + 1, !.key = stripe.made + 1]
          /\ \/ /\ maker' = [maker EXCEPT ![k].at = "created", ![k].got = stripe'.key]
                /\ UNCHANGED connectFaults
             \/ maker' = [maker EXCEPT ![k].at = "failed"] /\ ConnectFault
       \/ /\ maker' = [maker EXCEPT ![k].at = "failed"] /\ ConnectFault
          /\ UNCHANGED stripe
    /\ UNCHANGED <<receipts, connectQueue, handler, handled, account, refresher>>

\* Without the lease the result is dropped; what another recorded is used.  A
\* new account cannot take payments, and a repeated answer is the first one.
MarkCreationSucceeded(k) ==
    LET holds == HoldsCreation(k) /\ account.id = 0 IN
    /\ maker[k].at = "created"
    /\ account' = IF holds
                  THEN [account EXCEPT !.id = maker[k].got, !.status = "created",
                            !.token = NoMaker, !.leased = FALSE, !.ready = FALSE]
                  ELSE account
    /\ maker' = [maker EXCEPT ![k] =
            IF holds \/ account.id # 0 THEN IdleMaker
            ELSE [@ EXCEPT !.at = "failed"]]
    /\ OnlyAccount

\* The lease is kept until the retry is due.
MarkCreationFailure(k) ==
    LET last == maker[k].retries + 1 >= CreationMaxRetries IN
    /\ maker[k].at = "failed"
    /\ account' = IF ~HoldsCreation(k) THEN account
                  ELSE [account EXCEPT !.retries = @ + 1,
                            !.token = IF last THEN NoMaker ELSE k,
                            !.leased = ~last,
                            !.status = IF last THEN "review_required" ELSE @]
    /\ maker' = [maker EXCEPT ![k] = IdleMaker]
    /\ OnlyAccount

MakerDies(k) ==
    /\ ConnectFault
    /\ maker[k] # IdleMaker
    /\ maker' = [maker EXCEPT ![k] = IdleMaker]
    /\ UNCHANGED <<receipts, connectQueue, handler, handled, account, refresher,
                   stripe>>

-----------------------------------------------------------------------------
(* Readiness *)

\* The write looks at the row again.
StillOpen == account.id # 0 /\ ~account.deauthorized

UpdateReadiness(saw) ==
    account' = IF StillOpen
               THEN [account EXCEPT !.status = "created", !.ready = saw]
               ELSE account

ReadinessReview ==
    account' = IF account.status = "created" /\ ~account.deauthorized
               THEN [account EXCEPT !.status = "review_required",
                         !.token = NoMaker, !.leased = FALSE, !.ready = FALSE]
               ELSE account

\* retrieveConnectedAccount answers, or fails: an account that is gone always.
Retrieves == ~stripe.revoked /\ UNCHANGED connectFaults
RetrieveFails == IF stripe.revoked THEN UNCHANGED connectFaults ELSE ConnectFault

\* The owner asks for a refresh: retrieval and write are two steps.
Refresh ==
    \/ /\ refresher = "idle" /\ account.id # 0 /\ ~account.deauthorized
       /\ \/ Retrieves /\ refresher' = IF stripe.enabled THEN "on" ELSE "off"
          \/ RetrieveFails /\ refresher' = "failed"
       /\ UNCHANGED <<account>>
    \/ /\ refresher # "idle"
       /\ IF refresher = "failed" THEN ReadinessReview
                                  ELSE UpdateReadiness(refresher = "on")
       /\ refresher' = "idle"
       /\ UNCHANGED connectFaults

RefreshStep ==
    /\ Refresh
    /\ UNCHANGED <<receipts, connectQueue, handler, handled, maker, stripe>>

\* account.updated: nothing to do for an unknown or deauthorized account.
ProcessAccountUpdated(w) ==
    /\ handler[w].at = "claimed" /\ TypeOf[handler[w].event] = "updated"
    /\ \/ /\ account.id = 0 \/ account.deauthorized
          /\ HandlerGoes(w, "handled", FALSE) /\ UNCHANGED connectFaults
       \/ /\ account.id # 0 /\ ~account.deauthorized
          /\ \/ Retrieves /\ HandlerGoes(w, "retrieved", stripe.enabled)
             \/ RetrieveFails /\ HandlerGoes(w, "failed", FALSE)
    /\ UNCHANGED <<receipts, connectQueue, handled, accountVars>>

WriteReadiness(w) ==
    /\ handler[w].at = "retrieved"
    /\ UpdateReadiness(handler[w].saw)
    /\ HandlerGoes(w, "handled", FALSE)
    /\ UNCHANGED <<receipts, connectQueue, handled, connectFaults, maker,
                   refresher, stripe>>

ProcessAccountDeauthorized(w) ==
    /\ handler[w].at = "claimed" /\ TypeOf[handler[w].event] = "deauthorized"
    /\ account' = IF account.id = 0 THEN account
                  ELSE [account EXCEPT !.deauthorized = TRUE, !.ready = FALSE]
    /\ HandlerGoes(w, "handled", FALSE)
    /\ UNCHANGED <<receipts, connectQueue, handled, connectFaults, maker,
                   refresher, stripe>>

-----------------------------------------------------------------------------
(* Stripe and time *)

StripeSide ==
    /\ UNCHANGED <<receipts, connectQueue, handler, handled, account, maker,
                   refresher>>
    /\ \/ /\ stripe.made > 0 /\ ~stripe.revoked /\ ConnectFault
          /\ stripe' = [stripe EXCEPT !.enabled = ~@]
       \/ /\ account.id # 0 /\ ~stripe.revoked /\ UNCHANGED connectFaults
          /\ stripe' = [stripe EXCEPT !.revoked = TRUE]
       \/ /\ account.dispatched = "old" /\ stripe.key # 0
          /\ \A k \in Makers : maker[k].at # "dispatched"
          /\ UNCHANGED connectFaults
          /\ stripe' = [stripe EXCEPT !.key = 0]       \* the key is pruned

Delivered(e) ==
    CASE TypeOf[e] = "updated" -> stripe.made > 0
      [] TypeOf[e] = "deauthorized" -> stripe.revoked
      [] OTHER -> TRUE

CreationLeaseOver ==
    /\ account.leased
    /\ IF \E k \in Makers : HoldsCreation(k) /\ maker[k] # IdleMaker
       THEN ConnectFault ELSE UNCHANGED connectFaults
    /\ account' = [account EXCEPT !.leased = FALSE]
    /\ UNCHANGED <<receipts, connectQueue, handler, handled, maker, refresher,
                   stripe>>

\* 23 hours, during which no call to Stripe is still under way.
DispatchAges ==
    /\ account.dispatched = "recent"
    /\ account' = [account EXCEPT !.dispatched = "old"]
    /\ UNCHANGED maker /\ OnlyAccount

-----------------------------------------------------------------------------
MakerStep(k) ==
    \/ ClaimCreation(k) \/ CreationReview(k) \/ MarkCreationDispatched(k)
    \/ CreateConnectedAccount(k) \/ MarkCreationSucceeded(k)
    \/ MarkCreationFailure(k)

HandlerStep(w) ==
    \/ (InboxStep(w) /\ UNCHANGED accountVars)
    \/ ProcessAccountUpdated(w) \/ WriteReadiness(w)
    \/ ProcessAccountDeauthorized(w)

ConnectNext ==
    \/ EnsureCreationIntent \/ RefreshStep \/ StripeSide
    \/ CreationLeaseOver \/ DispatchAges
    \/ \E k \in Makers : MakerStep(k) \/ MakerDies(k)
    \/ \E e \in Events :
          /\ \/ Delivered(e) /\ Receive(e)
             \/ RecoverDueEvents(e) \/ ReceiptTime(e)
          /\ UNCHANGED accountVars
    \/ \E w \in Handlers :
          \/ HandlerStep(w)
          \/ (HandlerDies(w) /\ UNCHANGED accountVars)

ConnectSpec == ConnectInit /\ [][ConnectNext]_connectVars

-----------------------------------------------------------------------------
(* Properties *)

\* A Store gets one account at Stripe, although creations are retried, taken
\* over by others and lose their answers, and Stripe forgets the key in time.
OneAccountPerStore == stripe.made <= 1

\* The row keeps the checks of its table, and a deauthorized account never
\* takes payments again, also when a slow reader writes what it saw before.
DeauthorizedStaysClosed ==
    /\ account \in AccountRows
    /\ (account.status = "creating") = (account.token # NoMaker)
    /\ account.status = "created" => account.id # 0
    /\ account.ready => account.id # 0 /\ ~account.deauthorized

\* Every creation that was asked for has an account or is under review: so it
\* is in the end.
EveryCreationHasEnded ==
    account.status \in {"none", "created", "review_required"}

\* The account of a store and its events are booked once: one account, closed
\* when it was deauthorized, and no event handled beyond its attempts.
ConnectKeepsItsBooks == OneAccountPerStore /\ DeauthorizedStaysClosed /\ InboxIsBounded

=============================================================================
