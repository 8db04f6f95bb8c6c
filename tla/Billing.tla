------------------------------- MODULE Billing ------------------------------
(***************************************************************************)
(* A Store's subscription to the platform (modules/billing): the checkout  *)
(* attempt that opens a Session at Stripe, the events that come back, and  *)
(* the projection of the subscription.  One Store; attempt a opens Session *)
(* a, which pays for subscription a.  The queue only decides when a worker *)
(* looks at a stored event: a sweep queues every recoverable one again.    *)
(***************************************************************************)
EXTENDS Naturals, FiniteSets

CONSTANTS Attempts,              \* attempts in the order they are made: 1..n
          Requests,              \* requests of the owner
          Billers, NoBiller,     \* workers on the events
          WebhookMaxAttempts,    \* 8
          MaxBillingFaults       \* crashes, failing calls, replays, purges

ASSUME BillingAssumption == Attempts \subseteq Nat /\ WebhookMaxAttempts \in Nat \ {0}

VARIABLES checkouts,      \* subscription_checkout_attempts
          request,        \* how far each request has come
          checkoutSessions,   \* Stripe: the Session of each attempt
          paidFor,        \* Stripe: the subscription of each attempt
          projection,     \* subscriptions
          notices,        \* billing_webhook_events
          biller,         \* what each worker is doing
          overlapped,     \* history: two workers were busy at a time
          billingFaults

stripeBillingVars == <<checkoutSessions, paidFor>>
billingVars == <<checkouts, request, checkoutSessions, paidFor, projection, notices,
                 biller, overlapped, billingFaults>>

Kinds == {"completed", "expired", "deleted"}    \* "deleted": any later change
Notices == Kinds \X Attempts

BillerRests == [notice |-> <<"completed", 0>>, at |-> "idle", saw |-> "none"]
NoNotice == [status |-> "none", attempts |-> 0, due |-> FALSE,
             owner |-> NoBiller, leased |-> FALSE, payload |-> TRUE]

BillingInit ==
    /\ checkouts = [a \in Attempts |->
            [status |-> "none", saved |-> FALSE, overdue |-> FALSE]]
    /\ request = [r \in Requests |-> [at |-> "idle", attempt |-> 0]]
    /\ checkoutSessions = [a \in Attempts |-> "none"]
    /\ paidFor = [a \in Attempts |-> "none"]
    /\ projection = [a \in Attempts |-> "none"]
    /\ notices = [n \in Notices |-> NoNotice]
    /\ biller = [w \in Billers |-> BillerRests]
    /\ overlapped = FALSE
    /\ billingFaults = 0

BillingFault ==
    billingFaults < MaxBillingFaults /\ billingFaults' = billingFaults + 1

NonTerminal == {a \in Attempts : projection[a] = "active"}
Pending == {a \in Attempts : checkouts[a].status = "pending"}

-----------------------------------------------------------------------------
(* createSubscriptionCheckout *)

OnlyRequest(r, at, a) ==
    /\ request' = [request EXCEPT ![r] = [at |-> at, attempt |-> a]]
    /\ UNCHANGED <<projection, notices, biller, overlapped>>

\* The plan is for sale, no current subscription, the customer is known.
HasNonTerminalSubscription(r) ==
    /\ request[r].at = "idle" /\ NonTerminal = {}
    /\ OnlyRequest(r, "checked", 0)
    /\ UNCHANGED <<checkouts, stripeBillingVars, billingFaults>>

ReservedAttempt == IF Pending # {} THEN Pending
                   ELSE {a \in Attempts : checkouts[a].status = "none"}

\* The pending attempt of the Store is unique; other details are a conflict.
ReservePendingCheckoutAttempt(r) ==
    /\ request[r].at = "checked"
    /\ \/ \E a \in ReservedAttempt :
             /\ \A b \in ReservedAttempt : a <= b
             /\ checkouts' = [checkouts EXCEPT ![a].status = "pending"]
             /\ OnlyRequest(r, "reserved", a)
       \/ Pending # {} /\ OnlyRequest(r, "idle", 0) /\ UNCHANGED checkouts
    /\ UNCHANGED <<stripeBillingVars, billingFaults>>

\* One Session per attempt's key; Stripe refuses an expiry in the past, and
\* what changes between the read of the attempt and the call is its expiry.
CreateOrReuseCheckoutSession(r) ==
    LET a == request[r].attempt IN
    /\ request[r].at = "reserved"
    /\ \/ /\ checkouts[a].status = "pending" /\ ~checkouts[a].saved
          /\ checkoutSessions[a] # "none" \/ ~checkouts[a].overdue
          /\ checkoutSessions' = [checkoutSessions EXCEPT ![a] = IF @ = "none" THEN "open" ELSE @]
          /\ \/ OnlyRequest(r, "created", a) /\ UNCHANGED billingFaults
             \/ OnlyRequest(r, "idle", 0) /\ BillingFault
       \/ /\ checkouts[a].status # "pending" \/ checkouts[a].saved
             \/ checkouts[a].overdue
          /\ OnlyRequest(r, "idle", 0) /\ UNCHANGED <<checkoutSessions, billingFaults>>
    /\ UNCHANGED <<checkouts, paidFor>>

SaveSession(r) ==
    LET a == request[r].attempt IN
    /\ request[r].at = "created"
    /\ checkouts' = [checkouts EXCEPT ![a].saved =
            @ \/ (checkouts[a].status = "pending" /\ ~checkouts[a].overdue)]
    /\ OnlyRequest(r, "idle", 0)
    /\ UNCHANGED <<stripeBillingVars, billingFaults>>

-----------------------------------------------------------------------------
(* Stripe and the clock *)

OnlyStripe ==
    UNCHANGED <<request, projection, notices, biller, overlapped, billingFaults>>

Pay(a) ==
    /\ checkoutSessions[a] = "open" /\ ~checkouts[a].overdue
    /\ checkoutSessions' = [checkoutSessions EXCEPT ![a] = "complete"]
    /\ paidFor' = [paidFor EXCEPT ![a] = "active"]
    /\ UNCHANGED checkouts /\ OnlyStripe

Cancel(a) ==
    /\ paidFor[a] = "active"
    /\ paidFor' = [paidFor EXCEPT ![a] = "canceled"]
    /\ UNCHANGED <<checkouts, checkoutSessions>> /\ OnlyStripe

\* The hour of the attempt is the hour of its Session.
HourPasses(a) ==
    /\ checkouts[a].status # "none" /\ ~checkouts[a].overdue
    /\ checkouts' = [checkouts EXCEPT ![a].overdue = TRUE]
    /\ checkoutSessions' = [checkoutSessions EXCEPT ![a] = IF @ = "open" THEN "expired" ELSE @]
    /\ UNCHANGED paidFor /\ OnlyStripe

Abandoned == {a \in Pending : checkouts[a].overdue}

ExpireAbandonedCheckoutAttempts ==
    /\ Abandoned # {}
    /\ checkouts' = [a \in Attempts |->
            IF a \in Abandoned THEN [checkouts[a] EXCEPT !.status = "expired"]
            ELSE checkouts[a]]
    /\ UNCHANGED stripeBillingVars /\ OnlyStripe

-----------------------------------------------------------------------------
(* Events *)

OnlyNotices ==
    UNCHANGED <<checkouts, request, stripeBillingVars, projection, overlapped>>

Happened(n) ==
    CASE n[1] = "completed" -> checkoutSessions[n[2]] = "complete"
      [] n[1] = "expired"   -> checkoutSessions[n[2]] = "expired"
      [] n[1] = "deleted"   -> paidFor[n[2]] = "canceled"

\* handle: a copy of a known event changes nothing.
StoreWebhookEvent(n) ==
    /\ Happened(n) /\ notices[n].status = "none"
    /\ notices' = [notices EXCEPT ![n].status = "pending"]
    /\ UNCHANGED <<biller, billingFaults>> /\ OnlyNotices

StaleOrFailed(row) ==
    \/ row.status = "failed" /\ row.due
    \/ row.status = "processing" /\ ~row.leased

ClaimWebhookEvent(w, n) ==
    LET row == notices[n] IN
    /\ biller[w] = BillerRests
    /\ \/ /\ StaleOrFailed(row) /\ row.attempts >= WebhookMaxAttempts
          /\ notices' = [notices EXCEPT ![n] = [@ EXCEPT
                !.status = "dead_letter", !.owner = NoBiller, !.leased = FALSE]]
          /\ UNCHANGED biller
       \/ /\ row.status = "pending" \/ StaleOrFailed(row)
          /\ row.attempts < WebhookMaxAttempts /\ row.payload
          /\ notices' = [notices EXCEPT ![n] =
                [status |-> "processing", attempts |-> row.attempts + 1,
                 due |-> FALSE, owner |-> w, leased |-> TRUE, payload |-> TRUE]]
          /\ biller' = [biller EXCEPT ![w] =
                [notice |-> n, at |-> "claimed", saw |-> "none"]]
    /\ overlapped' = (overlapped \/ \E v \in Billers : biller[v] # BillerRests)
    /\ UNCHANGED <<checkouts, request, stripeBillingVars, projection,
                   billingFaults>>

OwnedClaim(w, n) == notices[n].status = "processing" /\ notices[n].owner = w

ClosedAs(n, status) ==
    [notices EXCEPT ![n] = [@ EXCEPT !.status = status, !.owner = NoBiller,
                                     !.leased = FALSE]]

Sleeps(w) == biller' = [biller EXCEPT ![w] = BillerRests]

ExpireCheckoutAttemptAndCompleteEvent(w) ==
    LET n == biller[w].notice  a == n[2] IN
    /\ biller[w].at = "claimed" /\ n[1] = "expired"
    /\ IF OwnedClaim(w, n)
       THEN /\ checkouts' = [checkouts EXCEPT ![a].status =
                    IF @ = "pending" /\ checkouts[a].saved THEN "expired" ELSE @]
            /\ notices' = ClosedAs(n, "completed")
       ELSE UNCHANGED <<checkouts, notices>>
    /\ Sleeps(w)
    /\ UNCHANGED <<request, stripeBillingVars, projection, overlapped,
                   billingFaults>>

\* Slip: the event is believed.
Told(n) == IF n[1] = "deleted" THEN "canceled" ELSE "active"

Retrieved(n) == paidFor[n[2]]

\* The subscription is read after the claim, whatever the event said.
RetrieveSubscription(w) ==
    LET n == biller[w].notice IN
    /\ biller[w].at = "claimed" /\ n[1] # "expired"
    /\ \/ biller' = [biller EXCEPT ![w].at = "retrieved", ![w].saw = Retrieved(n)]
          /\ UNCHANGED billingFaults
       \/ biller' = [biller EXCEPT ![w].at = "failed"] /\ BillingFault
    /\ UNCHANGED notices /\ OnlyNotices

IsSecond(w) == biller[w].saw = "active" /\ NonTerminal \ {biller[w].notice[2]} # {}

\* One transaction; a second current subscription of the Store aborts it.
ReconcileSubscriptionAndCompleteEvent(w) ==
    LET n == biller[w].notice  a == n[2] IN
    /\ biller[w].at = "retrieved"
    /\ IF OwnedClaim(w, n) /\ ~IsSecond(w)
       THEN /\ projection' = [projection EXCEPT ![a] = biller[w].saw]
            /\ checkouts' = [checkouts EXCEPT ![a].status =
                    IF /\ n[1] = "completed" /\ checkouts[a].saved
                       /\ @ = "pending" THEN "completed" ELSE @]
            /\ notices' = ClosedAs(n, "completed")
       ELSE UNCHANGED <<projection, checkouts, notices>>
    /\ IF OwnedClaim(w, n) /\ IsSecond(w)
       THEN biller' = [biller EXCEPT ![w].at = "failed"] ELSE Sleeps(w)
    /\ UNCHANGED <<request, stripeBillingVars, overlapped, billingFaults>>

FailWebhookEvent(w) ==
    LET n == biller[w].notice IN
    /\ biller[w].at = "failed"
    /\ notices' = IF OwnedClaim(w, n)
                  THEN ClosedAs(n, IF notices[n].attempts >= WebhookMaxAttempts
                                   THEN "dead_letter" ELSE "failed")
                  ELSE notices
    /\ Sleeps(w)
    /\ UNCHANGED billingFaults /\ OnlyNotices

\* An operator's replay starts the count of attempts again.
ReplayWebhookEvent(n) ==
    /\ notices[n].status \in {"failed", "dead_letter"} /\ notices[n].payload
    /\ BillingFault
    /\ notices' = [notices EXCEPT ![n] = [NoNotice EXCEPT !.status = "pending"]]
    /\ UNCHANGED biller /\ OnlyNotices

PurgeExpiredWebhookPayloads(n) ==
    /\ notices[n].status \in {"completed", "dead_letter"} /\ notices[n].payload
    /\ BillingFault
    /\ notices' = [notices EXCEPT ![n].payload = FALSE]
    /\ UNCHANGED biller /\ OnlyNotices

\* The retry is due; the lease of five minutes passes, of a living worker too.
NoticeTime(n) ==
    \/ /\ notices[n].status = "failed" /\ ~notices[n].due
       /\ notices' = [notices EXCEPT ![n].due = TRUE]
       /\ UNCHANGED <<biller, billingFaults>> /\ OnlyNotices
    \/ /\ notices[n].leased
       /\ IF \E w \in Billers : biller[w].notice = n /\ OwnedClaim(w, n)
          THEN BillingFault ELSE UNCHANGED billingFaults
       /\ notices' = [notices EXCEPT ![n].leased = FALSE]
       /\ UNCHANGED biller /\ OnlyNotices

BillerDies(w) ==
    /\ biller[w] # BillerRests /\ BillingFault /\ Sleeps(w)
    /\ UNCHANGED notices /\ OnlyNotices

-----------------------------------------------------------------------------
RequestStep(r) ==
    \/ HasNonTerminalSubscription(r) \/ ReservePendingCheckoutAttempt(r)
    \/ CreateOrReuseCheckoutSession(r) \/ SaveSession(r)

BillerStep(w) ==
    \/ \E n \in Notices : ClaimWebhookEvent(w, n)
    \/ ExpireCheckoutAttemptAndCompleteEvent(w) \/ RetrieveSubscription(w)
    \/ ReconcileSubscriptionAndCompleteEvent(w) \/ FailWebhookEvent(w)

BillingNext ==
    \/ \E r \in Requests : RequestStep(r)
    \/ \E a \in Attempts : Pay(a) \/ Cancel(a) \/ HourPasses(a)
    \/ ExpireAbandonedCheckoutAttempts
    \/ \E n \in Notices :
          \/ StoreWebhookEvent(n) \/ ReplayWebhookEvent(n)
          \/ PurgeExpiredWebhookPayloads(n) \/ NoticeTime(n)
    \/ \E w \in Billers : BillerStep(w) \/ BillerDies(w)

BillingSpec == BillingInit /\ [][BillingNext]_billingVars

-----------------------------------------------------------------------------
(* Properties *)

\* However requests, the sweep and the events interleave, a shopper can never
\* pay at two Sessions of the same Store: a new attempt starts only when the
\* Session of the one before is paid or over.
OneSessionOpen == Cardinality({a \in Attempts : checkoutSessions[a] = "open"}) <= 1

\* An event that counts as completed took effect, and what it wrote is still
\* there: its subscription is recorded, its attempt is closed.
FinishedEventsTookEffect ==
    /\ Cardinality(NonTerminal) <= 1
    /\ \A a \in Attempts :
          /\ notices[<<"completed", a>>].status = "completed" =>
                projection[a] # "none"
          /\ notices[<<"expired", a>>].status = "completed" =>
                ~(checkouts[a].status = "pending" /\ checkouts[a].saved)
          /\ checkouts[a].status = "completed" => projection[a] # "none"
          /\ checkouts[a].status = "expired" => checkoutSessions[a] # "open"

\* A worker that lost its lease cannot reopen what another one completed.
CompletedStaysCompleted ==
    [][\A n \in Notices : notices[n].status = "completed" =>
            notices'[n].status = "completed"]_notices

\* Every stored event is completed or dead-lettered: so it is in the end.
EveryBillingEventHasEnded ==
    \A n \in Notices : notices[n].status \in {"none", "completed", "dead_letter"}

\* Events that come late or in the wrong order leave no old state behind, as
\* long as no two workers were busy at a time: each reads the subscription
\* after its claim.  (Two workers can still write in the wrong order.)
DelayedEventsDoNotOverwrite ==
    \A a \in Attempts :
        /\ ~overlapped
        /\ notices[<<"completed", a>>].status = "completed"
        /\ notices[<<"deleted", a>>].status = "completed"
        => projection[a] = paidFor[a]

\* What the service has recorded of a subscription is what Stripe has, as far
\* as its events were worked off, and only one checkout of it is open.
BillingTellsTheTruth ==
    OneSessionOpen /\ FinishedEventsTookEffect /\ DelayedEventsDoNotOverwrite

=============================================================================
