------------------------ MODULE NotificationEmails -------------------------
(***************************************************************************)
(* The e-mail side of notifications: delivery rows, their recovery into    *)
(* the queue, and senders that hold a renewed lease and stop for review    *)
(* once the provider may have forgotten the idempotency key                *)
(* (notification-email-delivery.repository.ts and .service.ts,             *)
(* notification-email-recovery.task.ts).  A request to the provider is     *)
(* assumed to take less than the hour between the 23 hours of              *)
(* PROVIDER_SAFETY_MS and the 24 hours the provider keeps a key.           *)
(***************************************************************************)
EXTENDS Naturals

CONSTANTS Letters,               \* delivery rows: event, recipient, channel
          Recoverers, Posters, Nobody,
          PostMaxAttempts,       \* 10
          MaxPostFaults

ASSUME LetterAssumption == PostMaxAttempts \in Nat \ {0} /\ Nobody \notin Posters

VARIABLES letters,      \* notification_email_deliveries
          postQueue,    \* BullMQ: letters with a queued job
          recovering,   \* what each recovery task is about to queue
          posting,      \* what each sender works on
          welcome,      \* the recipient is eligible and wants the e-mail
          posted,       \* the provider: messages sent
          keyKnown,     \* the provider still knows the key
          postFaults

letterVars == <<letters, postQueue, recovering, posting, welcome, posted,
                keyKnown, postFaults>>

Unfinished == {"pending", "sending"}
Ages == {"never", "recent", "aged"}     \* providerDispatchedAt: under 23 h, over

LetterRows ==
    [status : Unfinished \cup
        {"none", "sent", "suppressed", "dead_lettered", "review_required"},
     attempts : 0..PostMaxAttempts, due : BOOLEAN,
     queuedBy : Recoverers \cup {Nobody},
     token : Posters \cup {Nobody}, leased : BOOLEAN, dispatched : Ages]

NoLetter == [status |-> "none", attempts |-> 0, due |-> FALSE,
             queuedBy |-> Nobody, token |-> Nobody, leased |-> FALSE,
             dispatched |-> "never"]

PosterIdle == [letter |-> Nobody, at |-> "idle"]

LettersInit ==
    /\ letters = [l \in Letters |-> NoLetter]
    /\ postQueue = {}
    /\ recovering = [r \in Recoverers |-> Nobody]
    /\ posting = [w \in Posters |-> PosterIdle]
    /\ welcome = [l \in Letters |-> TRUE]
    /\ posted = [l \in Letters |-> 0]
    /\ keyKnown = [l \in Letters |-> FALSE]
    /\ postFaults = 0

PostFault == postFaults < MaxPostFaults /\ postFaults' = postFaults + 1

\* The fan-out, or the welcome reconciliation, inserts the row.
InsertDelivery(l) ==
    /\ letters[l].status = "none"
    /\ letters' = [letters EXCEPT ![l].status = "pending", ![l].due = TRUE]
    /\ UNCHANGED <<postQueue, recovering, posting, welcome, posted, keyKnown,
                   postFaults>>

-----------------------------------------------------------------------------
(* Recovery into the queue *)

DueToSend(row) == row.status \in Unfinished /\ row.due /\ ~row.leased

ReserveDue(r, l) ==
    /\ recovering[r] = Nobody
    /\ DueToSend(letters[l]) /\ letters[l].queuedBy = Nobody
    /\ letters' = [letters EXCEPT ![l].queuedBy = r]
    /\ recovering' = [recovering EXCEPT ![r] = l]
    /\ UNCHANGED <<postQueue, posting, welcome, posted, keyKnown, postFaults>>

AddNotificationJob(r) ==
    /\ recovering[r] # Nobody
    /\ postQueue' = postQueue \cup {recovering[r]}
    /\ recovering' = [recovering EXCEPT ![r] = Nobody]
    /\ UNCHANGED <<letters, posting, welcome, posted, keyKnown, postFaults>>

\* The queue refuses: the reservation is undone if it is still the last one.
ReleaseEnqueue(r) ==
    /\ PostFault
    /\ recovering[r] # Nobody
    /\ letters' = [letters EXCEPT ![recovering[r]].queuedBy =
                        IF @ = r THEN Nobody ELSE @]
    /\ recovering' = [recovering EXCEPT ![r] = Nobody]
    /\ UNCHANGED <<postQueue, posting, welcome, posted, keyKnown>>

RecovererDies(r) ==
    /\ PostFault
    /\ recovering[r] # Nobody
    /\ recovering' = [recovering EXCEPT ![r] = Nobody]
    /\ UNCHANGED <<letters, postQueue, posting, welcome, posted, keyKnown>>

-----------------------------------------------------------------------------
(* The sender *)

Goes(w, to) == posting' = [posting EXCEPT ![w].at = to]
Leaves(w) == posting' = [posting EXCEPT ![w] = PosterIdle]
Released(row) == [row EXCEPT !.token = Nobody, !.leased = FALSE]
HasToken(w, l) == letters[l].token = w

ClaimLetter(w, l) ==
    /\ l \in postQueue /\ posting[w] = PosterIdle
    /\ postQueue' = postQueue \ {l}
    /\ \/ /\ DueToSend(letters[l])
          /\ letters' = [letters EXCEPT ![l] =
                [@ EXCEPT !.status = "sending", !.token = w, !.leased = TRUE]]
          /\ posting' = [posting EXCEPT ![w] = [letter |-> l, at |-> "claimed"]]
       \/ /\ ~DueToSend(letters[l])
          /\ UNCHANGED <<letters, posting>>
    /\ UNCHANGED <<recovering, welcome, posted, keyKnown, postFaults>>

SuppressLetter(w) ==
    LET l == posting[w].letter IN
    /\ posting[w].at = "claimed" /\ ~welcome[l]
    /\ letters' = [letters EXCEPT ![l] =
            IF HasToken(w, l) THEN [Released(@) EXCEPT !.status = "suppressed"]
            ELSE @]
    /\ Leaves(w)
    /\ UNCHANGED <<postQueue, recovering, welcome, posted, keyKnown, postFaults>>

TooOld(l) == letters[l].dispatched = "aged"

\* Eligible and wanted: too old a first request asks for review instead.
CheckWindow(w) ==
    LET l == posting[w].letter IN
    /\ posting[w].at = "claimed" /\ welcome[l]
    /\ Goes(w, IF TooOld(l) THEN "ambiguous" ELSE "checked")
    /\ UNCHANGED <<letters, postQueue, recovering, welcome, posted, keyKnown,
                   postFaults>>

\* Only the unexpired owner may call the provider, and the first call is dated.
BeginProviderRequest(w) ==
    LET l == posting[w].letter IN
    /\ posting[w].at = "checked"
    /\ IF HasToken(w, l) /\ letters[l].leased
       THEN /\ letters' = [letters EXCEPT ![l].dispatched =
                                IF @ = "never" THEN "recent" ELSE @]
            /\ Goes(w, "begun")
       ELSE Leaves(w) /\ UNCHANGED letters
    /\ UNCHANGED <<postQueue, recovering, welcome, posted, keyKnown, postFaults>>

ProviderTakes(w) ==
    LET l == posting[w].letter IN
    /\ posting[w].at = "begun"
    /\ posted' = [posted EXCEPT ![l] = @ + IF keyKnown[l] THEN 0 ELSE 1]
    /\ keyKnown' = [keyKnown EXCEPT ![l] = TRUE]
    /\ \/ Goes(w, "taken") /\ UNCHANGED postFaults
       \/ Goes(w, "failed") /\ PostFault             \* the answer is lost
    /\ UNCHANGED <<letters, postQueue, recovering, welcome>>

\* The provider, the database or an unreadable payload stops the sender.
PostFails(w) ==
    /\ PostFault
    /\ posting[w].at \in {"claimed", "checked", "begun", "taken"}
    /\ \/ Goes(w, "failed")
       \/ posting[w].at \in {"claimed", "begun"} /\ Goes(w, "refused")
    /\ UNCHANGED <<letters, postQueue, recovering, welcome, posted, keyKnown>>

LetterSent(w) ==
    LET l == posting[w].letter IN
    /\ posting[w].at = "taken"
    /\ letters' = [letters EXCEPT ![l] =
            IF HasToken(w, l) THEN [Released(@) EXCEPT !.status = "sent"] ELSE @]
    /\ Leaves(w)
    /\ UNCHANGED <<postQueue, recovering, welcome, posted, keyKnown, postFaults>>

AfterFailure(row, at) ==
    IF at = "ambiguous" THEN "review_required"
    ELSE IF at = "refused" \/ row.attempts + 1 >= PostMaxAttempts THEN "dead_lettered"
    ELSE "pending"

FailLetter(w) ==
    LET l == posting[w].letter IN
    /\ posting[w].at \in {"failed", "refused", "ambiguous"}
    /\ letters' = [letters EXCEPT ![l] =
            IF HasToken(w, l)
            THEN [Released(@) EXCEPT !.status = AfterFailure(letters[l], posting[w].at),
                     !.attempts = letters[l].attempts + 1, !.due = FALSE,
                     !.queuedBy = Nobody]
            ELSE @]
    /\ Leaves(w)
    /\ UNCHANGED <<postQueue, recovering, welcome, posted, keyKnown, postFaults>>

PosterDies(w) ==
    /\ PostFault
    /\ posting[w] # PosterIdle
    /\ postQueue' \in {postQueue, postQueue \cup {posting[w].letter}}
    /\ Leaves(w)
    /\ UNCHANGED <<letters, recovering, welcome, posted, keyKnown>>

-----------------------------------------------------------------------------
(* Time and the recipient *)

Owned(l) == \E w \in Posters : posting[w].letter = l /\ HasToken(w, l)
SetLetter(l, row) ==
    /\ letters' = [letters EXCEPT ![l] = row]
    /\ UNCHANGED <<postQueue, recovering, posting, welcome, posted, keyKnown>>

LetterDelayOver(l) ==
    /\ letters[l].status \in Unfinished /\ ~letters[l].due
    /\ SetLetter(l, [letters[l] EXCEPT !.due = TRUE]) /\ UNCHANGED postFaults

LetterMarkOver(l) ==
    /\ letters[l].status \in Unfinished /\ letters[l].queuedBy # Nobody
    /\ SetLetter(l, [letters[l] EXCEPT !.queuedBy = Nobody])
    /\ UNCHANGED postFaults

LetterLeaseOver(l) ==
    /\ letters[l].leased /\ ~Owned(l)
    /\ SetLetter(l, [letters[l] EXCEPT !.leased = FALSE]) /\ UNCHANGED postFaults

\* The heartbeat of a live sender is late: its lease expires under it.
HeartbeatMissed(l) ==
    /\ PostFault
    /\ letters[l].leased /\ Owned(l)
    /\ SetLetter(l, [letters[l] EXCEPT !.leased = FALSE])

\* 23 hours pass since the first request.
WindowCloses(l) ==
    /\ letters[l].dispatched = "recent"
    /\ SetLetter(l, [letters[l] EXCEPT !.dispatched = "aged"])
    /\ UNCHANGED postFaults

\* Another hour passes, longer than any request in flight.
ProviderForgets(l) ==
    /\ letters[l].dispatched = "aged" /\ keyKnown[l]
    /\ \A w \in Posters :
          posting[w].letter = l => posting[w].at \notin {"checked", "begun"}
    /\ keyKnown' = [keyKnown EXCEPT ![l] = FALSE]
    /\ UNCHANGED <<letters, postQueue, recovering, posting, welcome, posted,
                   postFaults>>

RecipientChanges(l) ==
    /\ PostFault
    /\ welcome' = [welcome EXCEPT ![l] = ~@]
    /\ UNCHANGED <<letters, postQueue, recovering, posting, posted, keyKnown>>

-----------------------------------------------------------------------------
RecoverStep(r) ==
    AddNotificationJob(r) \/ \E l \in Letters : ReserveDue(r, l)

PostStep(w) ==
    \/ \E l \in Letters : ClaimLetter(w, l)
    \/ SuppressLetter(w) \/ CheckWindow(w) \/ BeginProviderRequest(w)
    \/ ProviderTakes(w) \/ LetterSent(w) \/ FailLetter(w)

LettersNext ==
    \/ \E l \in Letters :
          \/ InsertDelivery(l) \/ LetterDelayOver(l) \/ LetterMarkOver(l)
          \/ LetterLeaseOver(l) \/ HeartbeatMissed(l) \/ WindowCloses(l)
          \/ ProviderForgets(l) \/ RecipientChanges(l)
    \/ \E r \in Recoverers :
          RecoverStep(r) \/ ReleaseEnqueue(r) \/ RecovererDies(r)
    \/ \E w \in Posters : PostStep(w) \/ PostFails(w) \/ PosterDies(w)

LettersSpec == LettersInit /\ [][LettersNext]_letterVars

-----------------------------------------------------------------------------
(* Properties *)

LettersTypeOK == letters \in [Letters -> LetterRows] /\ posted \in [Letters -> Nat]

\* Whatever is retried, crashes or loses its lease, and although the provider
\* forgets keys after a day: at most one message per delivery row, a final
\* outcome, and "sent" only for a message the provider took.
LetterOutcome ==
    [l \in Letters |->
        CASE letters[l].status = "none" -> "none"
          [] letters[l].status \in Unfinished -> "waiting"
          [] letters[l].status = "sent" -> "sent"
          [] OTHER -> "stopped"]

LetterPost == INSTANCE Postbox WITH
    Mails <- Letters, outcome <- LetterOutcome, accepted <- posted
LettersKeepTheirPromise == LetterPost!PostSpec

\* Every delivery is sent, suppressed, given up or under review: so it
\* is in the end.
EveryLetterHasEnded == \A l \in Letters : letters[l].status \notin Unfinished

=============================================================================
