---------------------------- MODULE ConnectInbox ----------------------------
(***************************************************************************)
(* Signed events of connected accounts: the receipt stored before Stripe   *)
(* is answered, the queue, and workers that own a receipt for the time of  *)
(* a lease (payment-events.repository.ts, stripe-connect-webhook.service). *)
(* What a handler does is the matter of the modules that extend this one.  *)
(***************************************************************************)
EXTENDS Naturals, FiniteSets

CONSTANTS Events,                \* events of Stripe, by their id
          TypeOf,                \* "updated", "deauthorized" or "other"
          Handlers, NoHandler,
          ReceiptMaxAttempts,    \* 10
          MaxConnectFaults       \* crashes, late workers, failing calls

ASSUME ConnectAssumption ==
    /\ TypeOf \in [Events -> {"updated", "deauthorized", "other"}]
    /\ ReceiptMaxAttempts \in Nat \ {0} /\ NoHandler \notin Handlers

VARIABLES receipts,       \* connect_webhook_events
          connectQueue,   \* BullMQ: receipts with a queued job
          handler,        \* what each worker is doing
          handled,        \* history: how often a handler was started
          connectFaults

inboxVars == <<receipts, connectQueue, handler, handled, connectFaults>>

ReceiptRows ==
    [status : {"none", "pending", "processing", "completed", "failed",
               "dead_letter"},
     attempts : 0..ReceiptMaxAttempts, due : BOOLEAN,
     token : Handlers \cup {NoHandler}, leased : BOOLEAN]

NoReceipt == [status |-> "none", attempts |-> 0, due |-> FALSE,
              token |-> NoHandler, leased |-> FALSE]

AtRest == [event |-> "none", at |-> "idle", saw |-> FALSE]

InboxInit ==
    /\ receipts = [e \in Events |-> NoReceipt]
    /\ connectQueue = {}
    /\ handler = [w \in Handlers |-> AtRest]
    /\ handled = [e \in Events |-> 0]
    /\ connectFaults = 0

ConnectFault ==
    connectFaults < MaxConnectFaults /\ connectFaults' = connectFaults + 1

Finished == {"completed", "dead_letter"}
Awaited(e) == TypeOf[e] # "other"       \* some handler wants this type

\* receive: store the first copy, enqueue every copy of an unfinished one; the
\* process may die, or the queue refuse, in between.
Receive(e) ==
    /\ receipts' = [receipts EXCEPT ![e].status =
            CASE @ = "none" /\ Awaited(e) -> "pending"
              [] @ \in {"none", "pending"} /\ ~Awaited(e) -> "completed"
              [] OTHER -> @]
    /\ \/ /\ Awaited(e) /\ receipts[e].status \notin Finished
          /\ connectQueue' = connectQueue \cup {e}
          /\ UNCHANGED connectFaults
       \/ /\ Awaited(e) => receipts[e].status \in Finished
          /\ UNCHANGED <<connectQueue, connectFaults>>
       \/ /\ Awaited(e) /\ ConnectFault
          /\ UNCHANGED connectQueue
    /\ UNCHANGED <<handler, handled>>

StaleOrDue(row) ==
    \/ row.status = "failed" /\ row.due
    \/ row.status = "processing" /\ ~row.leased

\* Slip: a receipt whose worker died is left to that worker.
PendingOrDue(row) ==
    row.status = "pending" \/ (row.status = "failed" /\ row.due)

Recoverable(row) == row.status = "pending" \/ StaleOrDue(row)

\* The sweep of every minute, or an operator's replay of one receipt.
RecoverDueEvents(e) ==
    /\ Recoverable(receipts[e])
    /\ connectQueue' = connectQueue \cup {e}
    /\ UNCHANGED <<receipts, handler, handled, connectFaults>>

Spent(row) == row.attempts >= ReceiptMaxAttempts

ClaimReceipt(w, e) ==
    LET row == receipts[e] IN
    /\ e \in connectQueue /\ handler[w] = AtRest
    /\ connectQueue' = connectQueue \ {e}
    /\ \/ /\ StaleOrDue(row) /\ Spent(row)
          /\ receipts' = [receipts EXCEPT ![e] =
                [@ EXCEPT !.status = "dead_letter", !.token = NoHandler,
                          !.leased = FALSE]]
          /\ UNCHANGED <<handler, handled>>
       \/ /\ Recoverable(row) /\ ~Spent(row)
          /\ receipts' = [receipts EXCEPT ![e] =
                [status |-> "processing", attempts |-> row.attempts + 1,
                 due |-> FALSE, token |-> w, leased |-> TRUE]]
          /\ handler' = [handler EXCEPT ![w] =
                [event |-> e, at |-> "claimed", saw |-> FALSE]]
          /\ handled' = [handled EXCEPT ![e] = @ + 1]
       \/ /\ ~Recoverable(row)
          /\ UNCHANGED <<receipts, handler, handled>>
    /\ UNCHANGED connectFaults

\* The handler of worker w ends its step at a place of its own.
HandlerGoes(w, to, saw) ==
    handler' = [handler EXCEPT ![w].at = to, ![w].saw = saw]

Owns(w, e) == receipts[e].status = "processing" /\ receipts[e].token = w

CompleteReceipt(w) ==
    LET e == handler[w].event IN
    /\ handler[w].at = "handled"
    /\ receipts' = [receipts EXCEPT ![e] =
            IF Owns(w, e)
            THEN [@ EXCEPT !.status = "completed", !.token = NoHandler,
                           !.leased = FALSE] ELSE @]
    /\ handler' = [handler EXCEPT ![w] = AtRest]
    /\ UNCHANGED <<connectQueue, handled, connectFaults>>

FailReceipt(w) ==
    LET e == handler[w].event IN
    /\ handler[w].at = "failed"
    /\ receipts' = [receipts EXCEPT ![e] =
            IF Owns(w, e)
            THEN [@ EXCEPT !.token = NoHandler, !.leased = FALSE,
                    !.status = IF receipts[e].attempts >= ReceiptMaxAttempts
                               THEN "dead_letter" ELSE "failed"]
            ELSE @]
    /\ handler' = [handler EXCEPT ![w] = AtRest]
    /\ UNCHANGED <<connectQueue, handled, connectFaults>>

HandlerDies(w) ==
    /\ ConnectFault
    /\ handler[w] # AtRest
    /\ handler' = [handler EXCEPT ![w] = AtRest]
    /\ UNCHANGED <<receipts, connectQueue, handled>>

\* nextRetryAt passes; a lease passes, by chance under a worker still alive.
ReceiptTime(e) ==
    \/ /\ receipts[e].status = "failed" /\ ~receipts[e].due
       /\ receipts' = [receipts EXCEPT ![e].due = TRUE]
       /\ UNCHANGED <<connectQueue, handler, handled, connectFaults>>
    \/ /\ receipts[e].leased
       /\ IF \E w \in Handlers : handler[w].event = e /\ Owns(w, e)
          THEN ConnectFault ELSE UNCHANGED connectFaults
       /\ receipts' = [receipts EXCEPT ![e].leased = FALSE]
       /\ UNCHANGED <<connectQueue, handler, handled>>

InboxStep(w) ==
    CompleteReceipt(w) \/ FailReceipt(w) \/ (\E e \in Events : ClaimReceipt(w, e))

-----------------------------------------------------------------------------
(* Properties *)

\* Every receipt has the shape its table checks: an owner exactly while it is
\* processed.  Whatever is delivered twice, taken over or replayed, an event
\* starts its handler no more often than it has attempts.
InboxIsBounded ==
    /\ receipts \in [Events -> ReceiptRows]
    /\ \A e \in Events :
          /\ (receipts[e].status = "processing") = (receipts[e].token # NoHandler)
          /\ handled[e] <= ReceiptMaxAttempts

\* Every stored event is handled or dead-lettered: so it is in the end.
EveryReceiptHasEnded ==
    \A e \in Events : receipts[e].status \in Finished \cup {"none"}

=============================================================================
