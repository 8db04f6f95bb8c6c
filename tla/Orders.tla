------------------------------- MODULE Orders -------------------------------
(***************************************************************************)
(* Placed orders: the commands of shoppers and staff on them, the versions *)
(* and idempotency keys that guard the commands, and what each transition  *)
(* does to the counted stock, as OrdersRepository implements it; with the  *)
(* placements of CheckoutRepository and the inventory edits of             *)
(* ProductVariantsRepository that the same rows meet.                      *)
(*                                                                         *)
(* A command is an HTTP request in two steps, because the repository looks *)
(* its idempotency key up before it waits for the order row and again when *)
(* it has the lock.  All else of a command is one transaction.             *)
(*                                                                         *)
(* A checkout attempt places at most one order, so the attempt, its        *)
(* reservations and its order share a name.                                *)
(***************************************************************************)
EXTENDS Integers, FiniteSets, FiniteSetsExt, Sequences

CONSTANTS
    Orders,              \* checkout attempts, and the orders they place
    Variants,            \* the Store's product variants
    Lines,               \* Lines[o][v]: units of v that o buys
    Methods,             \* the payment methods offered, of "cod" and "online"
    Callers,             \* concurrent requests
    Keys,                \* Idempotency-Key header values
    Operations,          \* bound: the operations the callers use
    Workers,             \* executions that may lease a refund operation
    NoCall, NoWorker,
    MaxStock,            \* bound: units a merchant sets on hand
    MaxOnHand,           \* largest on_hand the column takes (2147483647)
    MaxLag,              \* bound: versions a caller may be behind when it calls
    MaxGenerations       \* bound: refund operations of one order

Transitions == {"shopper-cancel", "prepare", "ship", "deliver",
                "staff-cancel", "return-to-store"}

ASSUME OrdersAssumption ==
    /\ Operations \subseteq Transitions \cup {"refund-retry"}
    /\ Lines \in [Orders -> [Variants -> Nat]]
    /\ Methods \subseteq {"cod", "online"}
    /\ NoWorker \notin Workers
    /\ {MaxStock, MaxOnHand, MaxLag, MaxGenerations} \subseteq Nat
    /\ MaxStock <= MaxOnHand

VARIABLES
    order,     \* orders
    hold,      \* disposition of the order's checkout_reservations
    captured,  \* the variants whose reservation row says "tracked"
    counted,   \* the variants whose inventory_policy is now "tracked"
    onHand, reserved,   \* product_variants.on_hand and .reserved (null is 0)
    owned,     \* history: counted units the Store has, or has on the way
    operation, \* refund_operations of each order, by generation
    command,   \* commerce_commands of the order commands
    call,      \* the command each caller waits for
    reply,     \* the answer each caller got last
    intent     \* order emails and notifications written to the outbox

stockVars   == <<counted, onHand, reserved, owned>>
holdVars    == <<hold, captured>>
requestVars == <<command, call, reply>>
orderVars   == <<order, holdVars, stockVars, operation, requestVars, intent>>

-----------------------------------------------------------------------------
(* Rows *)

\* The order's total; a refund of 1 is a partial one.
Full == 2

Statuses == {"placed", "preparing", "shipped", "delivered", "cancelled",
             "returned"}
Ended    == {"cancelled", "returned"}

PaymentStatuses == {"unpaid", "paid", "refund_pending", "refunded",
                    "refund_failed"}

OrderRows ==
    [status : {"none"} \cup Statuses, method : {"cod", "online"},
     payment : PaymentStatuses, review : BOOLEAN, refunded : 0..Full,
     version : Nat]

NoOrder == [status |-> "none", method |-> "cod", payment |-> "unpaid",
            review |-> FALSE, refunded |-> 0, version |-> 0]

\* id: the refund Stripe answered with, 0 when none is recorded.
\* dispatched: provider_dispatched_at is null, at most 23 hours old, or older.
\* leaseOld: lease_expires_at has passed.
OperationRows ==
    [status : {"pending", "succeeded", "failed", "review_required"},
     id : Nat, dispatched : {"no", "recent", "old"}, tries : Nat,
     lease : Workers \cup {NoWorker}, leaseOld : BOOLEAN]

NewOperation == [status |-> "pending", id |-> 0, dispatched |-> "no",
                 tries |-> 0, lease |-> NoWorker, leaseOld |-> FALSE]

\* version stands for the whole payload, which the request hash covers.
Requests == [op : Operations, order : Orders, key : Keys, version : Nat]

ASSUME NoCallAssumption == NoCall \notin Requests

Intents == [type : {"placed", "shipped", "delivered", "cancelled", "refunded"},
            order : Orders, version : Nat]

OrdersTypeOK ==
    /\ order \in [Orders -> OrderRows]
    /\ hold \in [Orders -> {"none", "held", "consumed", "released", "returned"}]
    /\ captured \in [Orders -> SUBSET Variants]
    /\ counted \subseteq Variants
    /\ onHand \in [Variants -> Nat]
    /\ reserved \in [Variants -> Nat]
    /\ owned \in [Variants -> Int]
    /\ operation \in [Orders -> Seq(OperationRows)]
    /\ command \subseteq Requests
    /\ call \in [Callers -> Requests \cup {NoCall}]
    /\ reply \in [Callers -> {"none", "ok", "refused"}]
    /\ intent \subseteq Intents

OrdersInit ==
    /\ order = [o \in Orders |-> NoOrder]
    /\ hold = [o \in Orders |-> "none"]
    /\ captured = [o \in Orders |-> {}]
    /\ counted = Variants
    /\ onHand = [v \in Variants |-> MaxStock]
    /\ reserved = [v \in Variants |-> 0]
    /\ owned = onHand
    /\ operation = [o \in Orders |-> <<>>]
    /\ command = {}
    /\ call = [c \in Callers |-> NoCall]
    /\ reply = [c \in Callers |-> "none"]
    /\ intent = {}

Bought(o) == {v \in Variants : Lines[o][v] > 0}

\* Units of v that the reservations of o count.
Units(o, v) == IF v \in captured[o] THEN Lines[o][v] ELSE 0

UnitsOf(orders, v) == MapThenSumSet(LAMBDA o : Units(o, v), orders)

-----------------------------------------------------------------------------
(* Placement, as checkout leaves it *)

Reservable(o) ==
    \A v \in Bought(o) \cap counted : onHand[v] - reserved[v] >= Lines[o][v]

Reserve(o) ==
    /\ order[o].status = "none" /\ hold[o] = "none"
    /\ Reservable(o)
    /\ hold' = [hold EXCEPT ![o] = "held"]
    /\ captured' = [captured EXCEPT ![o] = Bought(o) \cap counted]
    /\ reserved' = [v \in Variants |->
           reserved[v] + IF v \in counted THEN Lines[o][v] ELSE 0]

Place(o, method, payment) ==
    /\ order' = [order EXCEPT ![o] =
           [NoOrder EXCEPT !.status = "placed", !.method = method,
                           !.payment = payment, !.version = 1]]
    /\ intent' = intent \cup {[type |-> "placed", order |-> o, version |-> 1]}

PlaceCashOnDelivery(o) ==
    /\ "cod" \in Methods
    /\ Reserve(o)
    /\ Place(o, "cod", "unpaid")
    /\ UNCHANGED <<counted, onHand, owned, operation, requestVars>>

StartOnline(o) ==
    /\ "online" \in Methods
    /\ Reserve(o)
    /\ UNCHANGED <<order, counted, onHand, owned, operation, requestVars,
                   intent>>

\* The reservations become "consumed"; the counters stay as they are.
PlacePaidOnlineOrder(o) ==
    /\ order[o].status = "none" /\ hold[o] = "held"
    /\ hold' = [hold EXCEPT ![o] = "consumed"]
    /\ Place(o, "online", "paid")
    /\ UNCHANGED <<captured, stockVars, operation, requestVars>>

-----------------------------------------------------------------------------
(* Inventory edits *)

SetOnHand(v, n) ==
    /\ v \in counted
    /\ n # onHand[v] /\ reserved[v] <= n
    /\ onHand' = [onHand EXCEPT ![v] = n]
    /\ owned' = [owned EXCEPT ![v] = @ + n - onHand[v]]
    /\ UNCHANGED <<order, holdVars, counted, reserved, operation, requestVars,
                   intent>>

\* Slip: a shipment on its way is forgotten.
NothingHeld(v) == \A o \in Orders : hold[o] = "held" => v \notin Bought(o)

\* The inventory policy changes only when no reservation of the variant is
\* held and no shipment of it may still be returned.
PolicyMayChange(v) ==
    \A o \in Orders : v \in Bought(o) =>
        /\ hold[o] # "held"
        /\ ~(hold[o] = "consumed" /\ order[o].status = "shipped")

StartCounting(v, n) ==
    /\ v \notin counted
    /\ PolicyMayChange(v)
    /\ counted' = counted \cup {v}
    /\ onHand' = [onHand EXCEPT ![v] = n]
    /\ owned' = [owned EXCEPT ![v] = n]
    /\ UNCHANGED <<order, holdVars, reserved, operation, requestVars, intent>>

StopCounting(v) ==
    /\ v \in counted
    /\ PolicyMayChange(v)
    /\ reserved[v] = 0
    /\ counted' = counted \ {v}
    /\ onHand' = [onHand EXCEPT ![v] = 0]
    /\ owned' = [owned EXCEPT ![v] = 0]
    /\ UNCHANGED <<order, holdVars, reserved, operation, requestVars, intent>>

-----------------------------------------------------------------------------
(* What a transition needs and does *)

From(op) ==
    CASE op \in {"shopper-cancel", "prepare"}    -> {"placed"}
      [] op = "staff-cancel"                     -> {"placed", "preparing"}
      [] op = "ship"                             -> {"preparing"}
      [] op \in {"deliver", "return-to-store"}   -> {"shipped"}

\* Slip: a return takes the payment's name for it.
ReturnIsRefund(op) ==
    CASE op \in {"shopper-cancel", "staff-cancel"} -> "cancelled"
      [] op = "prepare"                            -> "preparing"
      [] op = "ship"                               -> "shipped"
      [] op = "deliver"                            -> "delivered"
      [] op = "return-to-store"                    -> "refunded"

To(op) ==
    CASE op \in {"shopper-cancel", "staff-cancel"} -> "cancelled"
      [] op = "prepare"                            -> "preparing"
      [] op = "ship"                               -> "shipped"
      [] op = "deliver"                            -> "delivered"
      [] op = "return-to-store"                    -> "returned"

\* The disposition whose rows the transition moves, and where to.
Moves(op) ==
    CASE To(op) = "cancelled" -> <<"held", "released">>
      [] To(op) = "shipped"   -> <<"held", "consumed">>
      [] To(op) = "returned"  -> <<"consumed", "returned">>
      [] OTHER                -> <<"none", "none">>

\* applyReservations throws when the stock cannot follow the order.
StockFollows(o, move) ==
    hold[o] = move[1] => \A v \in captured[o] :
        /\ v \in counted
        /\ move[1] = "held" => reserved[v] >= Lines[o][v]
        /\ move[2] = "consumed" => onHand[v] >= Lines[o][v]
        /\ move[2] = "returned" => onHand[v] <= MaxOnHand - Lines[o][v]

\* Slip: a shipment leaves the units counted as reserved.
ShipsOffShelf(o, move) ==
    IF hold[o] = move[1] /\ hold[o] # "none"
    THEN /\ hold' = [hold EXCEPT ![o] = move[2]]
         /\ reserved' = [v \in Variants |->
                reserved[v] - IF move[2] = "released" THEN Units(o, v) ELSE 0]
         /\ onHand' = [v \in Variants |->
                CASE move[2] = "consumed" -> onHand[v] - Units(o, v)
                  [] move[2] = "returned" -> onHand[v] + Units(o, v)
                  [] OTHER                -> onHand[v]]
    ELSE UNCHANGED <<hold, reserved, onHand>>

\* applyReservations: rows in another disposition are left alone.
ApplyReservations(o, move) ==
    IF hold[o] = move[1] /\ hold[o] # "none"
    THEN /\ hold' = [hold EXCEPT ![o] = move[2]]
         /\ reserved' = [v \in Variants |->
                reserved[v] - IF move[1] = "held" THEN Units(o, v) ELSE 0]
         /\ onHand' = [v \in Variants |->
                CASE move[2] = "consumed" -> onHand[v] - Units(o, v)
                  [] move[2] = "returned" -> onHand[v] + Units(o, v)
                  [] OTHER                -> onHand[v]]
    ELSE UNCHANGED <<hold, reserved, onHand>>

\* Delivered goods are the customer's.
TrackOwnership(o, op) ==
    owned' = [v \in Variants |->
        owned[v] - IF op = "deliver" /\ v \in counted THEN Units(o, v) ELSE 0]

\* Slip: the version the caller read is not compared.
AnyVersion(r) == TRUE

Current(r) == order[r.order].version = r.version

Transitable(r) ==
    LET row == order[r.order] IN
    /\ Current(r)
    /\ row.status \in From(r.op)
    /\ ~row.review
    /\ row.method = "online" => row.payment = "paid"
    /\ StockFollows(r.order, Moves(r.op))

Announced(op) ==
    CASE To(op) = "cancelled" -> {"cancelled"}
      [] To(op) \in {"shipped", "delivered"} -> {To(op)}
      [] OTHER -> {}

\* transition: status, payment, stock, refund operation, intents.
Transition(r) ==
    LET o       == r.order
        row     == order[o]
        refunds == row.method = "online" /\ To(r.op) \in Ended
    IN  /\ ApplyReservations(o, Moves(r.op))
        /\ TrackOwnership(o, r.op)
        /\ order' = [order EXCEPT ![o] =
               [row EXCEPT !.status = To(r.op),
                           !.version = row.version + 1,
                           !.payment =
                               CASE refunds -> "refund_pending"
                                 [] r.op = "deliver" -> "paid"
                                 [] OTHER -> row.payment]]
        /\ operation' = IF refunds
                        THEN [operation EXCEPT ![o] = <<NewOperation>>]
                        ELSE operation
        /\ intent' = intent \cup {[type |-> t, order |-> o,
                                   version |-> row.version + 1] :
                                  t \in Announced(r.op)}
        /\ UNCHANGED <<captured, counted>>

Last(o) == operation[o][Len(operation[o])]

Retryable(r) ==
    /\ Current(r)
    /\ ~order[r.order].review
    /\ order[r.order].method = "online"
    /\ order[r.order].payment = "refund_failed"
    /\ operation[r.order] # <<>>
    /\ Last(r.order).status = "failed"

\* retryRefund: a new generation under a new idempotency key.
RetryRefund(r) ==
    LET o == r.order IN
    /\ Len(operation[o]) < MaxGenerations
    /\ order' = [order EXCEPT ![o].payment = "refund_pending",
                              ![o].version = @ + 1]
    /\ operation' = [operation EXCEPT ![o] = Append(@, NewOperation)]
    /\ UNCHANGED <<holdVars, stockVars, intent>>

-----------------------------------------------------------------------------
(* Commands *)

Clashes(r) ==
    \E d \in command :
        d # r /\ d.op = r.op /\ d.order = r.order /\ d.key = r.key

Answer(c, answer) ==
    /\ call' = [call EXCEPT ![c] = NoCall]
    /\ reply' = [reply EXCEPT ![c] = answer]

\* A request arrives: a first look at the idempotency key, before the lock.
Submit(c, r) ==
    /\ call[c] = NoCall
    /\ order[r.order].status # "none"
    /\ CASE r \in command -> Answer(c, "ok")
         [] Clashes(r)    -> Answer(c, "refused")
         [] OTHER         -> /\ call' = [call EXCEPT ![c] = r]
                             /\ reply' = [reply EXCEPT ![c] = "none"]
    /\ UNCHANGED <<order, holdVars, stockVars, operation, command, intent>>

NeverReplayed(r) == FALSE   \* slip: the second look is forgotten

\* The second look, with the order row locked.
Replayed(r) == r \in command

Refused(r) ==
    /\ ~Replayed(r)
    /\ \/ Clashes(r)
       \/ r.op = "refund-retry" /\ ~Retryable(r)
       \/ r.op # "refund-retry" /\ ~Transitable(r)

\* No work: the recorded answer, or an error that rolls everything back.
AnswerOnly(c) ==
    /\ call[c] # NoCall
    /\ \/ Replayed(call[c]) /\ Answer(c, "ok")
       \/ Refused(call[c]) /\ Answer(c, "refused")
    /\ UNCHANGED <<order, holdVars, stockVars, operation, command, intent>>

\* The transaction of the command.
Execute(c) ==
    LET r == call[c] IN
    /\ r # NoCall
    /\ ~Replayed(r) /\ ~Refused(r)
    /\ IF r.op = "refund-retry" THEN RetryRefund(r) ELSE Transition(r)
    /\ command' = command \cup {r}
    /\ Answer(c, "ok")

-----------------------------------------------------------------------------

Placing ==
    \E o \in Orders :
        PlaceCashOnDelivery(o) \/ StartOnline(o) \/ PlacePaidOnlineOrder(o)

Stocking ==
    \E v \in Variants :
        \/ \E n \in 0..MaxStock : SetOnHand(v, n) \/ StartCounting(v, n)
        \/ StopCounting(v)

Commanding ==
    \E c \in Callers :
        \/ \E o \in Orders, k \in Keys, op \in Operations :
              \E n \in 1..order[o].version :
                  /\ order[o].version - n <= MaxLag
                  /\ Submit(c, [op |-> op, order |-> o, key |-> k, version |-> n])
        \/ AnswerOnly(c)
        \/ Execute(c)

OrdersNext == Placing \/ Stocking \/ Commanding

OrdersSpec == OrdersInit /\ [][OrdersNext]_orderVars

-----------------------------------------------------------------------------
(* Properties *)

Open == {o \in Orders : order[o].status \in {"placed", "preparing"}}
Attempted == {o \in Orders : order[o].status = "none" /\ hold[o] = "held"}
OnTheWay == {o \in Orders : order[o].status = "shipped"}

\* The stock counters follow the goods: what is reserved is what open orders
\* and attempts will take, and what is on hand or on its way to a customer is
\* what the Store owns, through every mix of commands, stock edits and changes
\* of the inventory policy.
StockFollowsGoods ==
    \A v \in counted :
        /\ reserved[v] = UnitsOf(Open \cup Attempted, v)
        /\ onHand[v] + UnitsOf(OnTheWay, v) = owned[v]

\* So do the counters of a Store whose placed orders are all paid on delivery.
NothingPaidOnline ==
    \A o \in Orders : order[o].status # "none" => order[o].method = "cod"

CashStockFollowsGoods == NothingPaidOnline => StockFollowsGoods

\* No order is stuck for stock: whatever merchants did meanwhile, the units of
\* an open order can be shipped or released, and a shipment meets a counted
\* variant if it comes back.
OrdersCanMove ==
    \A o \in Orders :
        /\ o \in Open => /\ StockFollows(o, <<"held", "released">>)
                         /\ StockFollows(o, <<"held", "consumed">>)
        /\ o \in OnTheWay => captured[o] \subseteq counted

\* Two callers who read the same version never both change the order: the
\* second would act on an order it has not seen.
OneCommandPerVersion ==
    \A a, b \in command :
        a.order = b.order /\ a.version = b.version => a = b

\* A command that was carried out is never refused to a caller who sends it
\* again, even one that waited for the lock while it was carried out.
RepeatIsAnswered ==
    [][\A c \in Callers :
          call[c] \in command /\ call'[c] = NoCall => reply'[c] = "ok"]_orderVars

=============================================================================
