--------------------------- MODULE Notifications ---------------------------
(***************************************************************************)
(* From a committed notification intent to the rows of the inbox: the      *)
(* dispatcher turns outbox rows into events and queues them, workers fan   *)
(* an event out to its recipients batch by batch under a lease, and the    *)
(* reconciliation of invitations binds an e-mail-only invitee to the       *)
(* account that verified the address (modules/notifications).  The read    *)
(* and archived marks, which nothing else reads, are left out, and so are  *)
(* the store budgets of the claims: every batch takes all that is due.     *)
(***************************************************************************)
EXTENDS Outbox

CONSTANTS Sources,               \* intents, by source key
          Invites,               \* those of the invitation: created, reminder
          Users, Invitee,        \* Invitee is known by an e-mail address only
          Recipients,            \* the sequence of recipients of each source
          BatchSize,             \* 25
          Fanners, FanDispatchers, NoFanner,
          EventMaxAttempts,      \* 10
          MaxFanFaults

People == Users \cup {Invitee}

ASSUME FanAssumption ==
    /\ Invites \subseteq Sources /\ Recipients \in [Sources -> Seq(People)]
    /\ BatchSize \in Nat \ {0} /\ EventMaxAttempts \in Nat \ {0}
    /\ NoFanner \notin Fanners

VARIABLES sources,      \* outbox_events of type notification.intent
          events,       \* notification_events
          fanQueue,     \* BullMQ: events with a queued job
          fanDispatch,  \* the batch each dispatcher is working through
          fanning,      \* the event each worker holds
          states,       \* notification_recipient_states
          inbox,        \* notifications
          age,          \* of the source: "fresh", over 90 days, over 180
          named,        \* sources recorded with the user id of the invitee
          invitation,   \* invitation_notification_state
          removed,      \* deleted accounts
          missed,       \* history: invites fanned out while the bound account had lost the address
          fanFaults

fanVars == <<sources, events, fanQueue, fanDispatch, fanning, states, inbox,
             age, named, invitation, removed, missed, fanFaults>>
dispatchVars == <<sources, events, fanQueue, fanDispatch>>
recipientVars == <<states, inbox, age, named, invitation, removed, missed>>

Live == {"pending", "processing"}
Settled == {"processed", "dead_lettered"}
Outcomes == {"none", "pending_binding", "materialized", "expired",
             "suppressed", "deleted"}

EventRows ==
    [status : Live \cup Settled \cup {"none"}, progress : Nat,
     attempts : 0..EventMaxAttempts, due : BOOLEAN,
     queuedBy : FanDispatchers \cup {NoFanner},
     token : Fanners \cup {NoFanner}, leased : BOOLEAN]

NoEvent == [status |-> "none", progress |-> 0, attempts |-> 0, due |-> FALSE,
            queuedBy |-> NoFanner, token |-> NoFanner, leased |-> FALSE]
IdleDispatch == [at |-> "idle", todo |-> {}, mine |-> {}, batch |-> {}]

FanInit ==
    /\ sources = [s \in Sources |-> NoIntent]
    /\ events = [s \in Sources |-> NoEvent]
    /\ fanQueue = {}
    /\ fanDispatch = [d \in FanDispatchers |-> IdleDispatch]
    /\ fanning = [w \in Fanners |-> NoFanner]
    /\ states = [s \in Sources |-> [p \in People |-> "none"]]
    /\ inbox = [s \in Sources |-> [p \in People |-> "none"]]
    /\ age = [s \in Sources |-> "fresh"]
    /\ named = {}
    /\ invitation = [status |-> "pending", bound |-> FALSE, holds |-> FALSE,
                      reminded |-> FALSE]
    /\ removed = {} /\ missed = {}
    /\ fanFaults = 0

FanFault == fanFaults < MaxFanFaults /\ fanFaults' = fanFaults + 1

\* A domain transaction, or the trigger on invitations, records its intent.
RecordIntent(s) ==
    /\ sources[s].state = "absent"
    /\ sources' = [sources EXCEPT ![s] = Write(@)]
    /\ UNCHANGED <<events, fanQueue, fanDispatch, fanning, recipientVars,
                   fanFaults>>

-----------------------------------------------------------------------------
(* The dispatcher *)

DueEvent(e) == e.status \in Live /\ e.due /\ ~e.leased
Reservable(e) == DueEvent(e) /\ e.queuedBy = NoFanner

ClaimSources(d) ==
    LET due == {s \in Sources : Claimable(sources[s])} IN
    /\ fanDispatch[d] = IdleDispatch
    /\ due # {} \/ \E s \in Sources : Reservable(events[s])
    /\ sources' = [s \in Sources |->
            IF s \in due THEN Claim(sources[s]) ELSE sources[s]]
    /\ fanDispatch' = [fanDispatch EXCEPT ![d] =
            [IdleDispatch EXCEPT !.at = "ensuring", !.todo = due]]
    /\ UNCHANGED <<events, fanQueue, fanning, recipientVars, fanFaults>>

\* Insert the event if it is new; publish the intent of a settled one.
EnsureEvent(d, s) ==
    LET done == events[s].status \in Settled IN
    /\ fanDispatch[d].at = "ensuring" /\ s \in fanDispatch[d].todo
    /\ events' = [events EXCEPT ![s] =
            IF @.status = "none"
            THEN [@ EXCEPT !.status = "pending", !.due = TRUE] ELSE @]
    /\ sources' = [sources EXCEPT ![s] = IF done THEN MarkPublished(@) ELSE @]
    /\ fanDispatch' = [fanDispatch EXCEPT ![d].todo = @ \ {s},
            ![d].mine = IF done THEN @ ELSE @ \cup {s}]
    /\ UNCHANGED <<fanQueue, fanning, recipientVars, fanFaults>>

EnsureFails(d, s) ==
    /\ FanFault
    /\ fanDispatch[d].at = "ensuring" /\ s \in fanDispatch[d].todo
    /\ sources' = [sources EXCEPT ![s] = RescheduleIntent(@)]
    /\ fanDispatch' = [fanDispatch EXCEPT ![d].todo = @ \ {s}]
    /\ UNCHANGED <<events, fanQueue, fanning, recipientVars>>

\* Everything due is reserved, whoever recorded it.
ReserveEvents(d) ==
    LET batch == {s \in Sources : Reservable(events[s])} IN
    /\ fanDispatch[d].at = "ensuring" /\ fanDispatch[d].todo = {}
    /\ events' = [s \in Sources |->
            IF s \in batch THEN [events[s] EXCEPT !.queuedBy = d]
            ELSE events[s]]
    /\ fanDispatch' = [fanDispatch EXCEPT ![d] =
            IF batch = {} THEN IdleDispatch
            ELSE [@ EXCEPT !.at = "queueing", !.batch = batch]]
    /\ UNCHANGED <<sources, fanQueue, fanning, recipientVars, fanFaults>>

Scheduled(d, s) ==
    /\ fanDispatch[d].at = "queueing" /\ s \in fanDispatch[d].batch
    /\ fanDispatch' = [fanDispatch EXCEPT ![d] =
            IF @.batch = {s} THEN IdleDispatch
            ELSE [@ EXCEPT !.batch = fanDispatch[d].batch \ {s}]]

EnqueueEvent(d, s) ==
    /\ Scheduled(d, s)
    /\ fanQueue' = fanQueue \cup {s}
    /\ sources' = [sources EXCEPT ![s] =
            IF s \in fanDispatch[d].mine THEN MarkPublished(@) ELSE @]
    /\ UNCHANGED <<events, fanning, recipientVars, fanFaults>>

ReleaseEvent(d, s) ==
    /\ FanFault
    /\ Scheduled(d, s)
    /\ events' = [events EXCEPT ![s].queuedBy = IF @ = d THEN NoFanner ELSE @]
    /\ UNCHANGED <<sources, fanQueue, fanning, recipientVars>>

FanDispatcherDies(d) ==
    /\ FanFault
    /\ fanDispatch[d] # IdleDispatch
    /\ fanDispatch' = [fanDispatch EXCEPT ![d] = IdleDispatch]
    /\ UNCHANGED <<sources, events, fanQueue, fanning, recipientVars>>

-----------------------------------------------------------------------------
(* The worker *)

ClaimEvent(w, s) ==
    /\ s \in fanQueue /\ fanning[w] = NoFanner
    /\ fanQueue' = fanQueue \ {s}
    /\ \/ /\ DueEvent(events[s])
          /\ events' = [events EXCEPT ![s] = [@ EXCEPT !.status = "processing",
                            !.token = w, !.leased = TRUE]]
          /\ fanning' = [fanning EXCEPT ![w] = s]
       \/ /\ ~DueEvent(events[s])
          /\ UNCHANGED <<events, fanning>>
    /\ UNCHANGED <<sources, fanDispatch, recipientVars, fanFaults>>

OwnsEvent(w, s) ==
    events[s].token = w /\ events[s].status = "processing" /\ events[s].leased

\* Recorded with a user id; the binding of an address is looked up again.
HasUserId(s, p) == p \in Users \/ s \in named

\* The account behind a recipient: its own, or the one bound to the address of
\* an invitation that is still pending, as long as it holds that address
\* verified.
HasAccount(s, p) ==
    \/ HasUserId(s, p)
    \/ invitation.bound /\ invitation.status = "pending" /\ invitation.holds

\* The state row a recipient gets; an existing one is a tombstone and stays.
Materialized(s, p) ==
    IF states[s][p] # "none" THEN states[s][p]
    ELSE IF p \in removed /\ HasUserId(s, p) THEN "suppressed"
    ELSE IF age[s] # "fresh" THEN "expired"
    ELSE IF HasAccount(s, p) THEN "materialized"
    ELSE "pending_binding"

NextProgress(s) ==
    LET to == events[s].progress + BatchSize
    IN  IF to < Len(Recipients[s]) THEN to ELSE Len(Recipients[s])

\* Slip: the event is closed with the batch that starts last.
ClosesEarly(s) == NextProgress(s) + 1 >= Len(Recipients[s])

Completes(s) == NextProgress(s) = Len(Recipients[s])

Checkpoint(w) ==
    LET s == fanning[w]
        batch == {Recipients[s][i] : i \in events[s].progress + 1 .. NextProgress(s)}
        fresh == {p \in batch : states[s][p] = "none"
                                /\ Materialized(s, p) = "materialized"}
        late == {p \in batch : invitation.bound /\ states[s][p] = "none"
                               /\ Materialized(s, p) = "pending_binding"}
    IN
    /\ s # NoFanner /\ age[s] # "ancient"
    /\ IF OwnsEvent(w, s)
       THEN /\ states' = [states EXCEPT ![s] = [p \in People |->
                    IF p \in batch THEN Materialized(s, p) ELSE @[p]]]
            /\ inbox' = [inbox EXCEPT ![s] = [p \in People |->
                    IF p \in fresh THEN "shown" ELSE @[p]]]
            /\ missed' = IF late = {} THEN missed ELSE missed \cup {s}
            /\ events' = [events EXCEPT ![s] =
                    IF Completes(s)
                    THEN [@ EXCEPT !.progress = NextProgress(s),
                             !.status = "processed", !.token = NoFanner,
                             !.leased = FALSE]
                    ELSE [@ EXCEPT !.progress = NextProgress(s),
                             !.status = "processing", !.leased = TRUE]]
            /\ fanning' = [fanning EXCEPT ![w] = IF Completes(s) THEN NoFanner ELSE s]
       ELSE /\ fanning' = [fanning EXCEPT ![w] = NoFanner]
            /\ UNCHANGED <<states, inbox, events, missed>>
    /\ UNCHANGED <<sources, fanQueue, fanDispatch, age, named, invitation,
                   removed, fanFaults>>

\* Slip: a failure is recorded by whoever meets it.
AnyToken(w, s) == TRUE

TokenOf(w, s) == events[s].token = w

\* A source past its replay period fails for good, another error is retried.
FailEvent(w) ==
    LET s == fanning[w] IN
    /\ s # NoFanner
    /\ IF age[s] = "ancient" THEN UNCHANGED fanFaults ELSE FanFault
    /\ events' = [events EXCEPT ![s] =
            IF ~TokenOf(w, s) THEN @
            ELSE [@ EXCEPT !.attempts = events[s].attempts + 1, !.due = FALSE,
                     !.queuedBy = NoFanner, !.token = NoFanner,
                     !.leased = FALSE,
                     !.status = IF \/ age[s] = "ancient"
                                   \/ events[s].attempts + 1 >= EventMaxAttempts
                                THEN "dead_lettered" ELSE "pending"]]
    /\ fanning' = [fanning EXCEPT ![w] = NoFanner]
    /\ UNCHANGED <<sources, fanQueue, fanDispatch, recipientVars>>

FannerDies(w) ==
    /\ FanFault
    /\ fanning[w] # NoFanner
    /\ fanQueue' \in {fanQueue, fanQueue \cup {fanning[w]}}
    /\ fanning' = [fanning EXCEPT ![w] = NoFanner]
    /\ UNCHANGED <<sources, events, fanDispatch, recipientVars>>

-----------------------------------------------------------------------------
(* Reconciliation of the invitation, the inbox and retention *)

\* Accepted, rejected, cancelled or found expired.
CloseInvitation ==
    /\ invitation.status = "pending"
    /\ invitation' = [invitation EXCEPT !.status = "closed"]
    /\ UNCHANGED <<dispatchVars, fanning, states, inbox, age, named, removed,
                   missed, fanFaults>>

\* The account that was bound takes another address, or takes this one back
\* and verifies it; what it was bound to stays as it is.
AddressChanges ==
    /\ FanFault
    /\ invitation.bound /\ Invitee \notin removed
    /\ invitation' = [invitation EXCEPT !.holds = ~@]
    /\ UNCHANGED <<dispatchVars, fanning, states, inbox, age, named, removed,
                   missed>>

\* One transaction: bind, hand the bound account what was kept for the
\* address, if it holds it, and record the reminder.  The task comes by when
\* nobody is bound and somebody has verified the address, when three days have
\* passed, or for both: never for the sake of one who was bound before.
ReconcileInvitation ==
    \E binds \in {invitation.bound, TRUE}, reminders \in SUBSET Invites :
        LET holds == binds /\ (invitation.bound => invitation.holds)
            kept == {s \in Invites : /\ states[s][Invitee] = "pending_binding"
                                     /\ age[s] = "fresh" /\ holds}
        IN
        /\ invitation.status = "pending"
        /\ Cardinality(reminders) <= 1
        /\ binds # invitation.bound \/ reminders # {}
        /\ reminders # {} => ~invitation.reminded
        /\ \A s \in reminders : sources[s].state = "absent"
        /\ invitation' = [invitation EXCEPT !.bound = binds, !.holds = holds,
                              !.reminded = @ \/ reminders # {}]
        /\ states' = [s \in Sources |-> IF s \in kept
                THEN [states[s] EXCEPT ![Invitee] = "materialized"]
                ELSE states[s]]
        /\ inbox' = [s \in Sources |-> IF s \in kept
                THEN [inbox[s] EXCEPT ![Invitee] = "shown"] ELSE inbox[s]]
        /\ sources' = [s \in Sources |->
                IF s \in reminders THEN Write(sources[s]) ELSE sources[s]]
        /\ named' = IF binds THEN named \cup reminders ELSE named
        /\ missed' = missed \ kept
        /\ UNCHANGED <<events, fanQueue, fanDispatch, fanning, age, removed,
                       fanFaults>>

\* Deleting leaves a tombstone in the recipient state.
DeleteNotification(s, p) ==
    /\ inbox[s][p] = "shown" /\ age[s] = "fresh"
    /\ inbox' = [inbox EXCEPT ![s][p] = "deleted"]
    /\ states' = [states EXCEPT ![s][p] = "deleted"]
    /\ UNCHANGED <<dispatchVars, fanning, age, named, invitation, removed,
                   missed, fanFaults>>

\* The account is deleted and its inbox rows with it; state rows and the
\* binding of an invitation stay.
RemoveUser(p) ==
    /\ FanFault
    /\ p \notin removed /\ (p = Invitee => invitation.bound)
    /\ removed' = removed \cup {p}
    /\ invitation' = [invitation EXCEPT !.holds = @ /\ p # Invitee]
    /\ inbox' = [s \in Sources |-> [inbox[s] EXCEPT ![p] =
                    IF @ = "none" THEN "none" ELSE "gone"]]
    /\ UNCHANGED <<dispatchVars, fanning, states, age, named, missed>>

Cleanup(s) ==
    /\ age[s] # "fresh"
    /\ inbox' = [inbox EXCEPT ![s] = [p \in People |->
                    IF @[p] = "none" THEN "none" ELSE "gone"]]
    /\ UNCHANGED <<dispatchVars, fanning, states, age, named, invitation,
                   removed, missed, fanFaults>>

-----------------------------------------------------------------------------
(* Time *)

SourceWakes(s) ==
    /\ Asleep(sources[s])
    /\ sources' = [sources EXCEPT ![s] = Wake(@)]
    /\ UNCHANGED <<events, fanQueue, fanDispatch, fanning, recipientVars,
                   fanFaults>>

EventDelayOver(s) ==
    /\ events[s].status \in Live /\ ~events[s].due
    /\ events' = [events EXCEPT ![s].due = TRUE]
    /\ UNCHANGED <<sources, fanQueue, fanDispatch, fanning, recipientVars,
                   fanFaults>>

FanMarkOver(s) ==
    /\ events[s].status \in Live /\ events[s].queuedBy # NoFanner
    /\ events' = [events EXCEPT ![s].queuedBy = NoFanner]
    /\ UNCHANGED <<sources, fanQueue, fanDispatch, fanning, recipientVars,
                   fanFaults>>

FanLeaseOver(s) ==
    /\ events[s].leased
    /\ IF \E w \in Fanners : fanning[w] = s /\ events[s].token = w
       THEN FanFault ELSE UNCHANGED fanFaults
    /\ events' = [events EXCEPT ![s].leased = FALSE]
    /\ UNCHANGED <<sources, fanQueue, fanDispatch, fanning, recipientVars>>

SourceAges(s) ==
    /\ sources[s].state # "absent"
    /\ FanFault
    /\ age' = [age EXCEPT ![s] = IF @ = "fresh" THEN "old" ELSE "ancient"]
    /\ UNCHANGED <<sources, events, fanQueue, fanDispatch, fanning, states,
                   inbox, named, invitation, removed, missed>>

-----------------------------------------------------------------------------
FanDispatchStep(d) ==
    \/ ClaimSources(d) \/ ReserveEvents(d)
    \/ \E s \in Sources : EnsureEvent(d, s) \/ EnqueueEvent(d, s)

FannerStep(w) ==
    Checkpoint(w) \/ FailEvent(w) \/ \E s \in Sources : ClaimEvent(w, s)

FanNext ==
    \/ \E s \in Sources :
          \/ RecordIntent(s) \/ SourceWakes(s) \/ EventDelayOver(s)
          \/ FanMarkOver(s) \/ FanLeaseOver(s)
          \/ SourceAges(s) \/ Cleanup(s)
          \/ \E p \in People : DeleteNotification(s, p)
          \/ \E d \in FanDispatchers : EnsureFails(d, s) \/ ReleaseEvent(d, s)
    \/ \E d \in FanDispatchers : FanDispatchStep(d) \/ FanDispatcherDies(d)
    \/ \E w \in Fanners : FannerStep(w) \/ FannerDies(w)
    \/ \E p \in People : RemoveUser(p)
    \/ CloseInvitation \/ AddressChanges \/ ReconcileInvitation

FanSpec == FanInit /\ [][FanNext]_fanVars

-----------------------------------------------------------------------------
(* Properties *)

FanTypeOK ==
    /\ sources \in [Sources -> OutboxRow] /\ events \in [Sources -> EventRows]
    /\ states \in [Sources -> [People -> Outcomes]]

\* The tombstones and the inbox agree: what a person can read has a
\* materialized state row, a deleted one never comes back, and an outcome that
\* gave no inbox row has none.
InboxAgreesWithStates ==
    \A s \in Sources, p \in People :
        CASE states[s][p] = "materialized" -> inbox[s][p] \in {"shown", "gone"}
          [] states[s][p] = "deleted" -> inbox[s][p] \in {"deleted", "gone"}
          [] OTHER -> inbox[s][p] = "none"

\* An event is only processed once every recipient has a state row, whatever
\* workers died between two batches.
ProcessedReachedEveryone ==
    \A s \in Sources :
        events[s].status = "processed" =>
            \A i \in DOMAIN Recipients[s] : states[s][Recipients[s][i]] # "none"

\* Once a pending invitation is bound, nothing addressed to the invitee is
\* left waiting for the binding, whichever of fan-out and task came first,
\* but for what was fanned out while the bound account had lost the address or
\* was deleted: the task looks for invitations that nobody is bound to.
BindingLeavesNothingBehind ==
    \A s \in Invites :
        /\ invitation.bound /\ invitation.status = "pending"
        /\ age[s] = "fresh" /\ s \notin missed
        => states[s][Invitee] # "pending_binding"

\* A settled event never moves again: no late worker reopens it.
SettledEventsStay ==
    [][\A s \in Sources :
        events[s].status \in Settled => events'[s].status = events[s].status]_fanVars

\* Every recorded intent is fanned out or dead-lettered: so it is in the end.
EveryIntentHasSettled ==
    \A s \in Sources :
        \/ sources[s] = NoIntent \/ sources[s].state = "dead"
        \/ events[s].status \in Settled

=============================================================================
