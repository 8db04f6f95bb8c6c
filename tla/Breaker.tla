------------------------------- MODULE Breaker -------------------------------
(***************************************************************************)
(* The circuit breaker in front of the cache's Redis (redis in             *)
(* endpoint-cache-controls.service.ts).  CallIds overlap: one that began   *)
(* before the circuit opened may end long after.  The generation counts    *)
(* openings, and a call's outcome counts only in the generation it began.  *)
(***************************************************************************)
EXTENDS Integers, FiniteSets

CONSTANTS CallIds, BreakerThreshold, MaxOpenings

ASSUME BreakerAssumption == {BreakerThreshold, MaxOpenings} \subseteq Nat \ {0}

VARIABLES circuit,   \* failures, openUntil (closed, open, or due), probe, generation
          callState      \* what each call remembers from its start

breakerVars == <<circuit, callState>>

NoCall == [running |-> FALSE, recovering |-> FALSE, generation |-> 0]

BreakerInit ==
    /\ circuit = [failures |-> 0, until |-> "closed", probe |-> FALSE, generation |-> 0]
    /\ callState = [c \in CallIds |-> NoCall]

CooledDown ==
    /\ circuit.until = "open" /\ circuit' = [circuit EXCEPT !.until = "due"]
    /\ UNCHANGED callState

Admits == circuit.until # "open" /\ ~circuit.probe

Begin(c) ==
    LET recovering == circuit.until # "closed"
    IN  /\ ~callState[c].running /\ Admits
        /\ circuit' = [circuit EXCEPT !.probe = recovering]
        /\ callState' = [callState EXCEPT ![c] = [running |-> TRUE, recovering |-> recovering,
                                          generation |-> circuit.generation]]

(* Slip: every outcome counts. *)
AnyOutcome(c) == TRUE

Counts(c) == callState[c].generation = circuit.generation

ProbeAfter(c) == IF callState[c].recovering THEN FALSE ELSE circuit.probe

Succeed(c) ==
    /\ callState[c].running
    /\ circuit' = IF Counts(c)
                  THEN [circuit EXCEPT !.failures = 0, !.until = "closed", !.probe = ProbeAfter(c)]
                  ELSE [circuit EXCEPT !.probe = ProbeAfter(c)]
    /\ callState' = [callState EXCEPT ![c] = NoCall]

Fail(c) ==
    LET failures == IF callState[c].recovering THEN circuit.failures ELSE circuit.failures + 1
        opens == callState[c].recovering \/ failures >= BreakerThreshold
    IN  /\ callState[c].running
        /\ circuit' = IF ~Counts(c) THEN [circuit EXCEPT !.probe = ProbeAfter(c)]
                      ELSE [failures |-> failures, probe |-> ProbeAfter(c),
                            until |-> IF opens THEN "open" ELSE circuit.until,
                            generation |-> circuit.generation + (IF opens THEN 1 ELSE 0)]
        /\ circuit'.generation <= MaxOpenings
        /\ callState' = [callState EXCEPT ![c] = NoCall]

BreakerNext == CooledDown \/ \E c \in CallIds : Begin(c) \/ Succeed(c) \/ Fail(c)

BreakerSpec == BreakerInit /\ [][BreakerNext]_breakerVars

(***************************************************************************)
(* Properties                                                              *)
(***************************************************************************)
(* After an opening Redis is probed by one call at a time, and while it is
   none but calls from before the opening are still running. *)
OneProbeAtATime ==
    /\ Cardinality({c \in CallIds : callState[c].recovering}) <= 1
    /\ circuit.probe = (\E c \in CallIds : callState[c].recovering)
    /\ circuit.until # "closed" =>
          \A c \in CallIds : callState[c].running /\ ~callState[c].recovering
                              => callState[c].generation < circuit.generation

(* An open circuit is closed by the probe alone, never by the late success of
   a call that began before Redis was found to be down. *)
OnlyTheProbeCloses ==
    [][circuit.until # "closed" /\ circuit'.until = "closed"
          => \E c \in CallIds : callState[c].recovering /\ ~callState'[c].running]_breakerVars
=============================================================================
