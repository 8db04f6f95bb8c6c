------------------------------ MODULE Postbox -------------------------------
(***************************************************************************)
(* What a durable e-mail promises.  A committed mail waits; the customer   *)
(* gets it at most once; it ends as sent or stopped and stays so; what is  *)
(* recorded as sent was accepted by the provider.  A mail may still reach  *)
(* the customer after it was stopped: a slow sender cannot be called back. *)
(***************************************************************************)
EXTENDS Naturals

CONSTANT Mails

VARIABLES outcome, accepted

postVars == <<outcome, accepted>>

PostInit ==
    /\ outcome = [m \in Mails |-> "none"]
    /\ accepted = [m \in Mails |-> 0]

Commit(m) ==
    /\ outcome[m] = "none"
    /\ outcome' = [outcome EXCEPT ![m] = "waiting"]
    /\ UNCHANGED accepted

Accept(m) ==
    /\ outcome[m] # "none" /\ accepted[m] = 0
    /\ accepted' = [accepted EXCEPT ![m] = 1]
    /\ UNCHANGED outcome

RecordSent(m) ==
    /\ outcome[m] = "waiting" /\ accepted[m] = 1
    /\ outcome' = [outcome EXCEPT ![m] = "sent"]
    /\ UNCHANGED accepted

Stop(m) ==
    /\ outcome[m] \in {"none", "waiting"}
    /\ outcome' = [outcome EXCEPT ![m] = "stopped"]
    /\ UNCHANGED accepted

PostNext ==
    \E m \in Mails : Commit(m) \/ Accept(m) \/ RecordSent(m) \/ Stop(m)

PostSpec == PostInit /\ [][PostNext]_postVars

=============================================================================
