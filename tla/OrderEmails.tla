---------------------------- MODULE OrderEmails -----------------------------
(***************************************************************************)
(* The durable e-mail of an order transition, from the outbox row written  *)
(* with the transition to the answer of the mail provider                  *)
(* (order-email-outbox.dispatcher.ts, order-email-delivery.repository.ts,  *)
(* email-queue.processor.ts).  Dispatchers and senders run in several      *)
(* processes, lose leases and crash between any two statements.  Times     *)
(* are reduced to whether they have passed.  The provider remembers an     *)
(* idempotency key for as long as a mail is retried.                       *)
(***************************************************************************)
EXTENDS Outbox

CONSTANTS Transitions,           \* outbox rows, one per e-mail of a transition
          Dispatchers, Senders, NoSender,
          MailMaxAttempts,       \* 10
          MaxMailFaults          \* crashes, lost leases and failures in a run

ASSUME MailAssumption == MailMaxAttempts \in Nat \ {0} /\ NoSender \notin Senders

VARIABLES intents,      \* outbox_events
          deliveries,   \* order_email_deliveries
          emailQueue,   \* BullMQ: the e-mails with a queued job
          handling,     \* how far each dispatcher is with each e-mail
          sending,      \* what each sender works on
          eligible,     \* the account is active and wants this e-mail
          accepted,     \* the provider: messages sent per idempotency key
          mailFaults

orderEmailVars == <<intents, deliveries, emailQueue, handling, sending,
                    eligible, accepted, mailFaults>>

Open == {"pending", "sending"}
Stages == {"no", "claimed", "ensured", "queued", "marked", "due", "requeued"}
Job == [mail : Transitions \cup {NoSender},
        at : {"idle", "claimed", "accepted", "failed", "refused"}]
IdleSender == [mail |-> NoSender, at |-> "idle"]

OrderEmailRows ==
    [status : Open \cup {"none", "sent", "suppressed", "dead_lettered"},
     attempts : 0..MailMaxAttempts, due : BOOLEAN, queued : BOOLEAN,
     token : Senders \cup {NoSender}, leased : BOOLEAN]

NoDelivery == [status |-> "none", attempts |-> 0, due |-> FALSE,
               queued |-> FALSE, token |-> NoSender, leased |-> FALSE]

OrderEmailsInit ==
    /\ intents = [m \in Transitions |-> NoIntent]
    /\ deliveries = [m \in Transitions |-> NoDelivery]
    /\ emailQueue = {}
    /\ handling = [d \in Dispatchers |-> [m \in Transitions |-> "no"]]
    /\ sending = [w \in Senders |-> IdleSender]
    /\ eligible = [m \in Transitions |-> TRUE]
    /\ accepted = [m \in Transitions |-> 0]
    /\ mailFaults = 0

MailFault == mailFaults < MaxMailFaults /\ mailFaults' = mailFaults + 1

-----------------------------------------------------------------------------
(* The dispatcher *)

Stage(d, m, from, to) ==
    /\ handling[d][m] = from
    /\ handling' = [handling EXCEPT ![d][m] = to]

\* The transaction of the order transition writes the intent.
RecordTransition(m) ==
    /\ intents[m].state = "absent"
    /\ intents' = [intents EXCEPT ![m] = Write(@)]
    /\ UNCHANGED <<deliveries, emailQueue, handling, sending, eligible,
                   accepted, mailFaults>>

ClaimIntent(d, m) ==
    /\ Claimable(intents[m])
    /\ Stage(d, m, "no", "claimed")
    /\ intents' = [intents EXCEPT ![m] = Claim(@)]
    /\ UNCHANGED <<deliveries, emailQueue, sending, eligible, accepted,
                   mailFaults>>

EnsurePending(d, m) ==
    /\ Stage(d, m, "claimed", "ensured")
    /\ deliveries' = [deliveries EXCEPT ![m] =
            IF @.status = "none"
            THEN [@ EXCEPT !.status = "pending", !.due = TRUE] ELSE @]
    /\ UNCHANGED <<intents, emailQueue, sending, eligible, accepted, mailFaults>>

\* Not sent and not dead, its retry delay over, not queued in five minutes.
DueForEnqueue(m) ==
    deliveries[m].status \in Open /\ deliveries[m].due /\ ~deliveries[m].queued

FindDue(d, m) ==
    /\ DueForEnqueue(m)
    /\ Stage(d, m, "no", "due")
    /\ UNCHANGED <<intents, deliveries, emailQueue, sending, eligible,
                   accepted, mailFaults>>

Enqueue(d, m) ==
    /\ Stage(d, m, "ensured", "queued") \/ Stage(d, m, "due", "requeued")
    /\ emailQueue' = emailQueue \cup {m}
    /\ UNCHANGED <<intents, deliveries, sending, eligible, accepted, mailFaults>>

MarkEnqueued(d, m) ==
    /\ Stage(d, m, "queued", "marked") \/ Stage(d, m, "requeued", "no")
    /\ deliveries' = [deliveries EXCEPT ![m].queued = @ \/ deliveries[m].status # "sent"]
    /\ UNCHANGED <<intents, emailQueue, sending, eligible, accepted, mailFaults>>

PublishIntent(d, m) ==
    /\ Stage(d, m, "marked", "no")
    /\ intents' = [intents EXCEPT ![m] = MarkPublished(@)]
    /\ UNCHANGED <<deliveries, emailQueue, sending, eligible, accepted,
                   mailFaults>>

\* A statement or the queue fails: the intent is put off, a requeue is not.
DispatchFails(d, m) ==
    /\ MailFault
    /\ \/ /\ \E from \in {"claimed", "ensured", "queued", "marked"} :
                Stage(d, m, from, "no")
          /\ intents' = [intents EXCEPT ![m] = RescheduleIntent(@)]
       \/ /\ Stage(d, m, "due", "no") \/ Stage(d, m, "requeued", "no")
          /\ UNCHANGED intents
    /\ UNCHANGED <<deliveries, emailQueue, sending, eligible, accepted>>

DispatcherDies(d) ==
    /\ MailFault
    /\ \E m \in Transitions : handling[d][m] # "no"
    /\ handling' = [handling EXCEPT ![d] = [m \in Transitions |-> "no"]]
    /\ UNCHANGED <<intents, deliveries, emailQueue, sending, eligible, accepted>>

-----------------------------------------------------------------------------
(* The sender *)

Sendable(row) == row.status \in Open /\ row.due /\ ~row.leased

Unleased(row) == [row EXCEPT !.token = NoSender, !.leased = FALSE]

\* A job is taken; the claim leases the delivery, suppresses it, or finds
\* nothing to do.
ClaimForSend(w, m) ==
    /\ m \in emailQueue /\ sending[w] = IdleSender
    /\ emailQueue' = emailQueue \ {m}
    /\ \/ /\ Sendable(deliveries[m]) /\ eligible[m]
          /\ deliveries' = [deliveries EXCEPT ![m] =
                [@ EXCEPT !.status = "sending", !.token = w, !.leased = TRUE]]
          /\ sending' = [sending EXCEPT ![w] = [mail |-> m, at |-> "claimed"]]
       \/ /\ Sendable(deliveries[m]) /\ ~eligible[m]
          /\ deliveries' = [deliveries EXCEPT ![m] =
                [Unleased(@) EXCEPT !.status = "suppressed"]]
          /\ UNCHANGED sending
       \/ /\ ~Sendable(deliveries[m])
          /\ UNCHANGED <<deliveries, sending>>
    /\ UNCHANGED <<intents, handling, eligible, accepted, mailFaults>>

\* Slip: the idempotency key names the attempt.
SentThisAttempt(w, m) == accepted[m] > deliveries[m].attempts

\* The key names the order, its version and the type of the mail.
SentBefore(w, m) == accepted[m] > 0

\* The provider takes the message, or recognises the key of one it took.
ProviderAccepts(w) ==
    LET m == sending[w].mail IN
    /\ sending[w].at = "claimed"
    /\ accepted' = [accepted EXCEPT ![m] = @ + IF SentBefore(w, m) THEN 0 ELSE 1]
    /\ \/ /\ sending' = [sending EXCEPT ![w].at = "accepted"]
          /\ UNCHANGED mailFaults
       \/ /\ MailFault                        \* the answer is lost
          /\ sending' = [sending EXCEPT ![w].at = "failed"]
    /\ UNCHANGED <<intents, deliveries, emailQueue, handling, eligible>>

ProviderRefuses(w) ==
    /\ sending[w].at = "claimed"
    /\ MailFault
    /\ \E at \in {"failed", "refused"} :
            sending' = [sending EXCEPT ![w].at = at]
    /\ UNCHANGED <<intents, deliveries, emailQueue, handling, eligible, accepted>>

Holds(w, m) == deliveries[m].token = w

MarkSent(w) ==
    LET m == sending[w].mail IN
    /\ sending[w].at = "accepted"
    /\ deliveries' = [deliveries EXCEPT ![m] =
            IF Holds(w, m) THEN [Unleased(@) EXCEPT !.status = "sent"] ELSE @]
    /\ sending' = [sending EXCEPT ![w] = IdleSender]
    /\ UNCHANGED <<intents, emailQueue, handling, eligible, accepted, mailFaults>>

\* markSent itself fails: the catch treats it as a failed send.
MarkSentFails(w) ==
    /\ MailFault
    /\ sending[w].at = "accepted"
    /\ sending' = [sending EXCEPT ![w].at = "failed"]
    /\ UNCHANGED <<intents, deliveries, emailQueue, handling, eligible, accepted>>

GivenUp(row, permanent) == permanent \/ row.attempts + 1 >= MailMaxAttempts

RescheduleAfterFailure(w) ==
    LET m == sending[w].mail
        dead == GivenUp(deliveries[m], sending[w].at = "refused")
    IN
    /\ sending[w].at \in {"failed", "refused"}
    /\ deliveries' = [deliveries EXCEPT ![m] =
            IF ~Holds(w, m) THEN @
            ELSE [Unleased(@) EXCEPT !.attempts = deliveries[m].attempts + 1, !.due = FALSE,
                     !.status = IF dead THEN "dead_lettered" ELSE "pending"]]
    /\ sending' = [sending EXCEPT ![w] = IdleSender]
    /\ UNCHANGED <<intents, emailQueue, handling, eligible, accepted, mailFaults>>

\* The job of a dead worker is given to another one, or lost with Redis.
SenderDies(w) ==
    /\ MailFault
    /\ sending[w] # IdleSender
    /\ emailQueue' \in {emailQueue, emailQueue \cup {sending[w].mail}}
    /\ sending' = [sending EXCEPT ![w] = IdleSender]
    /\ UNCHANGED <<intents, deliveries, handling, eligible, accepted>>

-----------------------------------------------------------------------------
(* Time and the account *)

IntentWakes(m) ==
    /\ Asleep(intents[m])
    /\ intents' = [intents EXCEPT ![m] = Wake(@)]
    /\ UNCHANGED <<deliveries, emailQueue, handling, sending, eligible,
                   accepted, mailFaults>>

AtWork(m) == \E w \in Senders : sending[w].mail = m /\ Holds(w, m)

\* nextAttemptAt, lastQueuedAt + 5 min, or the lease of a dead sender passes.
RetryDelayOver(m) ==
    /\ deliveries[m].status \in Open /\ ~deliveries[m].due
    /\ deliveries' = [deliveries EXCEPT ![m].due = TRUE]
    /\ UNCHANGED <<intents, emailQueue, handling, sending, eligible, accepted,
                   mailFaults>>

QueueMarkOver(m) ==
    /\ deliveries[m].status \in Open /\ deliveries[m].queued
    /\ deliveries' = [deliveries EXCEPT ![m].queued = FALSE]
    /\ UNCHANGED <<intents, emailQueue, handling, sending, eligible, accepted,
                   mailFaults>>

DeadLeaseOver(m) ==
    /\ deliveries[m].leased /\ ~AtWork(m)
    /\ deliveries' = [deliveries EXCEPT ![m].leased = FALSE]
    /\ UNCHANGED <<intents, emailQueue, handling, sending, eligible, accepted,
                   mailFaults>>

\* A sender is slower than its lease of five minutes.
LeaseRunsOut(m) ==
    /\ MailFault
    /\ deliveries[m].leased /\ AtWork(m)
    /\ deliveries' = [deliveries EXCEPT ![m].leased = FALSE]
    /\ UNCHANGED <<intents, emailQueue, handling, sending, eligible, accepted>>

AccountChanges(m) ==
    /\ MailFault
    /\ eligible' = [eligible EXCEPT ![m] = ~@]
    /\ UNCHANGED <<intents, deliveries, emailQueue, handling, sending, accepted>>

-----------------------------------------------------------------------------
DispatchStep(d, m) ==
    \/ ClaimIntent(d, m) \/ EnsurePending(d, m) \/ FindDue(d, m)
    \/ Enqueue(d, m) \/ MarkEnqueued(d, m) \/ PublishIntent(d, m)

SenderStep(w) ==
    \/ \E m \in Transitions : ClaimForSend(w, m)
    \/ ProviderAccepts(w) \/ MarkSent(w) \/ RescheduleAfterFailure(w)

OrderEmailsNext ==
    \/ \E m \in Transitions :
          \/ RecordTransition(m) \/ IntentWakes(m) \/ RetryDelayOver(m)
          \/ QueueMarkOver(m) \/ DeadLeaseOver(m)
          \/ LeaseRunsOut(m) \/ AccountChanges(m)
          \/ \E d \in Dispatchers : DispatchStep(d, m) \/ DispatchFails(d, m)
    \/ \E d \in Dispatchers : DispatcherDies(d)
    \/ \E w \in Senders :
          SenderStep(w) \/ ProviderRefuses(w) \/ MarkSentFails(w) \/ SenderDies(w)

OrderEmailsSpec == OrderEmailsInit /\ [][OrderEmailsNext]_orderEmailVars

-----------------------------------------------------------------------------
(* Properties *)

OrderEmailsTypeOK ==
    /\ intents \in [Transitions -> OutboxRow]
    /\ deliveries \in [Transitions -> OrderEmailRows]
    /\ emailQueue \subseteq Transitions
    /\ handling \in [Dispatchers -> [Transitions -> Stages]]
    /\ sending \in [Senders -> Job]
    /\ accepted \in [Transitions -> Nat]

\* An intent is only marked published once its delivery row exists, so that a
\* crash of the dispatcher at any statement loses no e-mail; and a row that is
\* still open has an attempt left, so that someone will try it again.
PublishedIsDurable ==
    \A m \in Transitions :
        /\ intents[m].state = "published" => deliveries[m].status # "none"
        /\ deliveries[m].status \in Open => deliveries[m].attempts < MailMaxAttempts

\* The pipeline keeps the promise of Postbox: one message per transition, a
\* final outcome, and "sent" only for a message the provider took.
OrderOutcome ==
    [m \in Transitions |->
        CASE intents[m].state = "absent" -> "none"
          [] deliveries[m].status = "sent" -> "sent"
          [] deliveries[m].status \in {"suppressed", "dead_lettered"} -> "stopped"
          [] OTHER -> "waiting"]

OrderPost == INSTANCE Postbox WITH
    Mails <- Transitions, outcome <- OrderOutcome, accepted <- accepted
OrderEmailsKeepTheirPromise == OrderPost!PostSpec

\* Every e-mail of a committed transition is sent or given up: so it is in the
\* end, whatever crashes, while dispatchers and workers keep running.
EveryOrderEmailHasEnded ==
    \A m \in Transitions :
        \/ intents[m] = NoIntent \/ intents[m].state = "dead"
        \/ OrderOutcome[m] \in {"sent", "stopped"}

=============================================================================
