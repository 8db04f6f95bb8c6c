----------------------------- MODULE MCBackground ----------------------------
(***************************************************************************)
(* The work that goes on behind the requests, for TLC: the three pipelines *)
(* of messaging, the connected account of a store and its subscription,    *)
(* both with their events, and the plans.  They share no state once an     *)
(* intent is written or an event stored, so a behaviour of the instance is *)
(* a behaviour of one of them: which one is chosen at the start.  The last *)
(* three are checked in two plays each, that between them take every step. *)
(***************************************************************************)
EXTENDS Background

CONSTANTS user, guest,       \* the recipients of the notification
          first, second      \* the requests of a subscription

VARIABLE pipeline

vars == <<pipeline, orderEmailVars, letterVars, fanVars, connectVars,
          billingVars, planVars>>

UserThenGuest == [s \in Sources |-> <<user, guest>>]
OwnTypes == [e \in Events |-> e]

ConnectPlays == {"creation", "account events"}
BillingPlays == {"checkout", "billing events"}
PlanPlays == {"provisioning", "selling"}

Alone(ps, theirVars) == IF pipeline \in ps THEN TRUE ELSE UNCHANGED theirVars

OthersRest ==
    /\ UNCHANGED pipeline
    /\ Alone({"orders"}, orderEmailVars) /\ Alone({"letters"}, letterVars)
    /\ Alone({"fanout"}, fanVars) /\ Alone(ConnectPlays, connectVars)
    /\ Alone(BillingPlays, billingVars) /\ Alone(PlanPlays, planVars)

Of(ps, A) == pipeline \in ps /\ A /\ OthersRest
OfOrders(A) == Of({"orders"}, A)
OfLetters(A) == Of({"letters"}, A)
OfFanout(A) == Of({"fanout"}, A)

\* Workers, and the requests of a subscription, are alike: the second takes up
\* work only while the first is busy.
StartsBeside(lead, other, before, after, idle) ==
    before[other] = idle /\ after[other] # idle => before[lead] # idle
InTurn(before, after, idle) == StartsBeside("w1", "w2", before, after, idle)

-----------------------------------------------------------------------------
(* Plays of the connected account: its creation, with no event; its events *)
(* once it is created, the one nobody handles first.                       *)
ConnectStarts ==
    IF pipeline # "account events" THEN ConnectInit
    ELSE /\ receipts = [e \in Events |-> NoReceipt] /\ connectQueue = {}
         /\ handler = [w \in Handlers |-> AtRest] /\ handled = [e \in Events |-> 0]
         /\ connectFaults = 1       \* one fault is left
         /\ account = [status |-> "created", id |-> 1, token |-> NoMaker,
                       leased |-> FALSE, dispatched |-> "recent", retries |-> 0,
                       ready |-> FALSE, deauthorized |-> FALSE]
         /\ maker = [k \in Makers |-> IdleMaker] /\ refresher = "idle"
         /\ stripe = [made |-> 1, key |-> 0, enabled |-> FALSE, revoked |-> FALSE]

ConnectPlay ==
    /\ ConnectNext
    /\ InTurn(handler, handler', AtRest) /\ InTurn(maker, maker', IdleMaker)
    /\ IF pipeline = "creation"
       THEN UNCHANGED <<receipts, connectQueue, handler, handled>>
       ELSE receipts'["other"] # receipts["other"] =>
                \A e \in Events \ {"other"} : receipts[e] = NoReceipt

(* Plays of the subscription: two attempts, one worker, no cancellation,   *)
(* and a fault of a request; the events of one attempt, already paid.      *)
BillingStarts ==
    IF pipeline # "billing events" THEN BillingInit
    ELSE /\ checkouts = [a \in Attempts |->
                [status |-> IF a = 1 THEN "pending" ELSE "none",
                 saved |-> a = 1, overdue |-> FALSE]]
         /\ checkoutSessions = [a \in Attempts |-> IF a = 1 THEN "complete" ELSE "none"]
         /\ paidFor = [a \in Attempts |-> IF a = 1 THEN "active" ELSE "none"]
         /\ request = [r \in Requests |-> [at |-> "idle", attempt |-> 0]]
         /\ projection = [a \in Attempts |-> "none"]
         /\ notices = [n \in Notices |-> NoNotice]
         /\ biller = [w \in Billers |-> BillerRests]
         /\ overlapped = FALSE /\ billingFaults = 0

BillingPlay ==
    /\ BillingNext
    /\ InTurn(biller, biller', BillerRests)
    /\ StartsBeside(first, second, request, request', [at |-> "idle", attempt |-> 0])
    /\ IF pipeline = "billing events" THEN UNCHANGED request
       ELSE /\ \A a \in Attempts : paidFor'[a] # "canceled"
            /\ billingFaults' <= 1
            /\ billingFaults' = billingFaults \/ UNCHANGED <<notices, biller>>
            /\ \A w \in Billers : w = "w1" \/ biller'[w] = BillerRests

(* Plays of the plan: until it is ready; and from then on.                 *)
PlansStart ==
    IF pipeline # "selling" THEN PlansInit
    ELSE /\ plan = [status |-> "ready", product |-> 1, active |-> FALSE, stale |-> FALSE]
         /\ planIntent = [row |-> NoIntent, at |-> "no"]
         /\ provisionJob = [state |-> "completed", tries |-> 1, owner |-> NoProvisioner]
         /\ provisioner = [w \in Provisioners |-> "idle"]
         /\ prices = [p \in PlanPrices |->
                IF p = 1 THEN [row |-> "provisioned", amount |-> 1, active |-> TRUE]
                ELSE NoPrice]
         /\ seller = [s \in Sellers |-> NotSelling]
         /\ catalog = [product |-> 1, onSale |-> FALSE] /\ planFaults = 0

PlansPlay ==
    /\ PlansNext
    /\ IF pipeline = "provisioning" THEN UNCHANGED seller /\ ~plan'.active ELSE TRUE

-----------------------------------------------------------------------------
Init ==
    /\ pipeline \in {"orders", "letters", "fanout"} \cup ConnectPlays
                        \cup BillingPlays \cup PlanPlays
    /\ OrderEmailsInit /\ LettersInit /\ FanInit /\ ConnectStarts
    /\ BillingStarts /\ PlansStart

Next ==
    \/ OfOrders(OrderEmailsNext /\ InTurn(sending, sending', IdleSender))
    \/ OfLetters(LettersNext /\ InTurn(posting, posting', PosterIdle))
    \/ OfFanout(FanNext /\ InTurn(fanning, fanning', NoFanner))
    \/ Of(ConnectPlays, ConnectPlay) \/ Of(BillingPlays, BillingPlay)
    \/ Of(PlanPlays, PlansPlay)

\* Dispatchers, workers, recovery tasks and sweeps run on intervals in
\* processes that are restarted; retry delays, queue marks and leases pass with
\* time.  Only one pipeline moves in a behaviour, so one fairness condition
\* serves corresponding actions of all of them.
FairSpec ==
    /\ Init /\ [][Next]_vars
    /\ WF_vars(\/ \E m \in Transitions : OfOrders(IntentWakes(m))
               \/ \E s \in Sources : OfFanout(SourceWakes(s))
               \/ \E e \in Events : Of({"account events"}, ReceiptTime(e) /\ UNCHANGED accountVars)
               \/ Of({"creation"}, CreationLeaseOver)
               \/ \E n \in Notices : Of(BillingPlays, NoticeTime(n))
               \/ Of(PlanPlays, PlanClock))
    /\ \A m \in Transitions, l \in Letters, s \in Sources :
          /\ WF_vars(\/ OfOrders(RetryDelayOver(m)) \/ OfLetters(LetterDelayOver(l))
                     \/ OfFanout(EventDelayOver(s))
                     \/ \E e \in Events : Of({"account events"},
                                            RecoverDueEvents(e) /\ UNCHANGED accountVars)
                     \/ Of(PlanPlays, DispatchPending))
          /\ WF_vars(\/ OfOrders(QueueMarkOver(m)) \/ OfLetters(LetterMarkOver(l))
                     \/ OfFanout(FanMarkOver(s)) \/ Of(PlanPlays, Reconcile))
          /\ WF_vars(\/ OfOrders(DeadLeaseOver(m)) \/ OfLetters(LetterLeaseOver(l))
                     \/ OfFanout(FanLeaseOver(s)))
    /\ \A d \in Dispatchers, m \in Transitions :
          WF_vars(OfOrders(DispatchStep(d, m)))
    /\ \A d \in Recoverers :
          WF_vars(OfLetters(RecoverStep(d)) \/ OfFanout(FanDispatchStep(d)))
    /\ \A w \in Senders :
          WF_vars(\/ OfOrders(SenderStep(w)) \/ OfLetters(PostStep(w))
                 \/ OfFanout(FannerStep(w))
                 \/ Of({"creation"}, MakerStep(w))
                 \/ Of({"account events"}, HandlerStep(w))
                 \/ Of(BillingPlays, BillerStep(w)) \/ Of(PlanPlays, ProvisionStep(w)))

-----------------------------------------------------------------------------
\* Whatever is begun ends, in every pipeline: done, given up or put before a
\* person, although processes die at every step and leases run out.
AllWorkEnds ==
    <>[](/\ EveryOrderEmailHasEnded /\ EveryLetterHasEnded /\ EveryIntentHasSettled
         /\ EveryReceiptHasEnded /\ EveryCreationHasEnded
         /\ EveryBillingEventHasEnded /\ EveryPlanHasSettled)

=============================================================================
