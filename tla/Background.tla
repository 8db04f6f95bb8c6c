----------------------------- MODULE Background ------------------------------
(***************************************************************************)
(* The work that goes on behind the requests: the two pipelines of e-mail, *)
(* the fan-out of notifications, the connected account of a store, its     *)
(* subscription, and the plans.  They share no state once an intent is     *)
(* written or an event stored.  What they promise together is said here.   *)
(***************************************************************************)
EXTENDS OrderEmails, NotificationEmails, Notifications, StoreAccounts, Billing,
        Plans

BackgroundSpec ==
    /\ OrderEmailsSpec /\ LettersSpec /\ FanSpec
    /\ ConnectSpec /\ BillingSpec /\ PlansSpec

-----------------------------------------------------------------------------
(* Properties, one for each question asked of the pipelines.               *)

\* Both pipelines of e-mails keep the promise of Postbox: one message per
\* transition or delivery, a final outcome, "sent" only for what was taken.
MailKeepsItsPromise == OrderEmailsKeepTheirPromise /\ LettersKeepTheirPromise

\* Nobody who is to be told of something is lost on the way: between outbox
\* and delivery, between batches of a fan-out, or while an invitee is bound,
\* but for an invitation fanned out while the account bound to it had lost the
\* address; and no row takes a shape that no claim looks for.
NobodyIsForgotten ==
    /\ OrderEmailsTypeOK /\ LettersTypeOK /\ FanTypeOK
    /\ PublishedIsDurable
    /\ ProcessedReachedEveryone /\ BindingLeavesNothingBehind /\ InboxAgreesWithStates

\* Work that is settled stays so: a worker that lost its lease or its job, and
\* then goes on, reopens no event of notifications or billing and no plan.
SettledWorkStays == SettledEventsStay /\ CompletedStaysCompleted /\ ReadyStaysReady

=============================================================================
