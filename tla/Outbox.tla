------------------------------- MODULE Outbox -------------------------------
(***************************************************************************)
(* Rows of the transactional outbox (infrastructure/outbox).  A domain     *)
(* transaction writes an intent beside its own rows; a dispatcher claims   *)
(* the due intents, hands them over and marks them published.  The claim   *)
(* is a time in the future, not an owner: nothing fences a slow claimant.  *)
(***************************************************************************)
EXTENDS Naturals, Sequences, FiniteSets

CONSTANT OutboxMaxAttempts       \* 10 for every dispatcher

ASSUME OutboxAssumption == OutboxMaxAttempts \in Nat \ {0}

OutboxRow ==
    [state : {"absent", "waiting", "published", "dead"}, due : BOOLEAN,
     attempts : 0..OutboxMaxAttempts]

NoIntent == [state |-> "absent", due |-> FALSE, attempts |-> 0]

\* A second intent with the same deduplication key is dropped.
Write(row) ==
    IF row.state = "absent"
    THEN [row EXCEPT !.state = "waiting", !.due = TRUE]
    ELSE row

Claimable(row) == row.state = "waiting" /\ row.due
Claim(row) == [row EXCEPT !.due = FALSE]

\* availableAt passes: a claim or a retry delay is over.
Wake(row) == [row EXCEPT !.due = TRUE]
Asleep(row) == row.state = "waiting" /\ ~row.due

MarkPublished(row) ==
    IF row.state = "waiting" THEN [row EXCEPT !.state = "published"] ELSE row

RescheduleIntent(row) ==
    IF row.state # "waiting" THEN row
    ELSE [state |-> IF row.attempts + 1 >= OutboxMaxAttempts
                    THEN "dead" ELSE "waiting",
          due |-> FALSE, attempts |-> row.attempts + 1]

=============================================================================
