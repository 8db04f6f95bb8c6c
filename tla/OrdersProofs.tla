---------------------------- MODULE OrdersProofs ----------------------------
(***************************************************************************)
(* Proofs about placed orders, for any number of orders, variants and      *)
(* callers: the type invariant, that two callers who read one version      *)
(* never both change the order, that a command that was carried out is     *)
(* answered when it is sent again, and what the stock counters count.      *)
(***************************************************************************)
EXTENDS Orders, SumTheorems

-----------------------------------------------------------------------------
(* The inductive invariant *)

\* An order that is not placed is at version 0, which no caller can have read.
Versioned ==
    \A o \in Orders : order[o].status = "none" => order[o] = NoOrder

\* Callers send versions they have read, and orders start at version 1.
CallsHaveRead ==
    \A c \in Callers : call[c] # NoCall => call[c].version >= 1

\* Each command that was carried out moved its order past the version the
\* caller had read; so a second command with that version is refused.
RecordedIsPast ==
    \A d \in command : d.version >= 1 /\ d.version < order[d.order].version

OrdersConsistent ==
    OrdersTypeOK /\ Versioned /\ CallsHaveRead /\ RecordedIsPast
                 /\ OneCommandPerVersion

-----------------------------------------------------------------------------
(* Types *)

LEMMA MovesOf ==
    ASSUME NEW op \in Transitions
    PROVE  /\ To(op) \in Statuses
           /\ Moves(op) \in {<<"held", "released">>, <<"held", "consumed">>,
                             <<"consumed", "returned">>, <<"none", "none">>}
  BY DEF Transitions, To, Moves, Statuses

LEMMA UnitsType ==
    ASSUME OrdersTypeOK, NEW o \in Orders, NEW v \in Variants
    PROVE  Units(o, v) \in Nat
  BY OrdersAssumption DEF Units, OrdersTypeOK

\* Whatever a transition moves, the counters do not go below zero: the guard
\* was read in the transaction that writes them.
LEMMA StockStaysNatural ==
    ASSUME OrdersTypeOK, NEW o \in Orders, NEW op \in Transitions,
           StockFollows(o, Moves(op)), ApplyReservations(o, Moves(op))
    PROVE  /\ hold' \in [Orders -> {"none", "held", "consumed", "released",
                                    "returned"}]
           /\ onHand' \in [Variants -> Nat]
           /\ reserved' \in [Variants -> Nat]
<1> DEFINE move == Moves(op)
<1>1. move \in {<<"held", "released">>, <<"held", "consumed">>,
                <<"consumed", "returned">>, <<"none", "none">>}
  BY MovesOf
<1>2. \A v \in Variants : Units(o, v) \in Nat
  BY UnitsType
<1>3. CASE hold[o] = move[1] /\ hold[o] # "none"
  <2> HIDE DEF move
  <2>1. \A v \in Variants :
            /\ move[1] = "held" => reserved[v] >= Units(o, v)
            /\ move[2] = "consumed" => onHand[v] >= Units(o, v)
    BY <1>3, OrdersAssumption DEF StockFollows, Units, OrdersTypeOK, move
  <2>2. /\ hold' = [hold EXCEPT ![o] = move[2]]
        /\ reserved' = [v \in Variants |->
               reserved[v] - IF move[1] = "held" THEN Units(o, v) ELSE 0]
        /\ onHand' = [v \in Variants |->
               CASE move[2] = "consumed" -> onHand[v] - Units(o, v)
                 [] move[2] = "returned" -> onHand[v] + Units(o, v)
                 [] OTHER                -> onHand[v]]
    BY <1>3 DEF ApplyReservations, move
  <2>3. hold' \in [Orders -> {"none", "held", "consumed", "released",
                              "returned"}]
    BY <1>1, <2>2 DEF OrdersTypeOK
  <2>4. reserved' \in [Variants -> Nat]
    BY <1>2, <2>1, <2>2 DEF OrdersTypeOK
  <2>5. onHand' \in [Variants -> Nat]
    BY <1>2, <2>1, <2>2 DEF OrdersTypeOK
  <2> QED  BY <2>3, <2>4, <2>5
<1>4. CASE ~(hold[o] = move[1] /\ hold[o] # "none")
  BY <1>4 DEF ApplyReservations, OrdersTypeOK
<1> QED  BY <1>3, <1>4

LEMMA NewOperationType == NewOperation \in OperationRows
  BY DEF NewOperation, OperationRows

LEMMA NoOrderType == NoOrder \in OrderRows
  BY DEF NoOrder, OrderRows, PaymentStatuses, Full

\* A row after a command: typed, one version further.
LEMMA SetStatus ==
    ASSUME NEW row \in OrderRows, NEW s \in Statuses
    PROVE  /\ [row EXCEPT !.status = s] \in OrderRows
           /\ [row EXCEPT !.status = s].version = row.version
           /\ [row EXCEPT !.status = s].status = s
  BY DEF OrderRows
LEMMA SetVersion ==
    ASSUME NEW row \in OrderRows, NEW n \in Nat
    PROVE  /\ [row EXCEPT !.version = n] \in OrderRows
           /\ [row EXCEPT !.version = n].version = n
           /\ [row EXCEPT !.version = n].status = row.status
  BY DEF OrderRows
LEMMA SetPayment ==
    ASSUME NEW row \in OrderRows, NEW p \in PaymentStatuses
    PROVE  /\ [row EXCEPT !.payment = p] \in OrderRows
           /\ [row EXCEPT !.payment = p].version = row.version
           /\ [row EXCEPT !.payment = p].status = row.status
  BY DEF OrderRows
LEMMA NextPaymentRow ==
    ASSUME NEW row \in OrderRows, NEW p \in PaymentStatuses, NEW new,
           new = [row EXCEPT !.payment = p, !.version = row.version + 1]
    PROVE  /\ new \in OrderRows
           /\ new.version = row.version + 1
           /\ new.status = row.status
<1> DEFINE r1 == [row EXCEPT !.payment = p]
           r2 == [r1 EXCEPT !.version = row.version + 1]
<1>1. new = r2
  OBVIOUS
<1>2. row.version + 1 \in Nat
  BY DEF OrderRows
<1> HIDE DEF r2
<1>3. r1 \in OrderRows /\ r1.status = row.status
  BY SetPayment
<1> HIDE DEF r1
<1>4. r2 \in OrderRows /\ r2.version = row.version + 1 /\ r2.status = row.status
  BY <1>2, <1>3, SetVersion DEF r2
<1> QED  BY <1>1, <1>4

LEMMA InitialConsistency == OrdersInit => OrdersConsistent
<1> SUFFICES ASSUME OrdersInit PROVE OrdersConsistent
  OBVIOUS
<1>1. OrdersTypeOK
  BY NoOrderType, OrdersAssumption DEF OrdersInit, OrdersTypeOK
<1>2. Versioned /\ CallsHaveRead /\ RecordedIsPast /\ OneCommandPerVersion
  BY DEF OrdersInit, Versioned, CallsHaveRead, RecordedIsPast,
         OneCommandPerVersion, NoOrder
<1> QED  BY <1>1, <1>2 DEF OrdersConsistent

\* What a step that carries out no command does to the rest of the invariant.
Quiet ==
    /\ command' = command
    /\ \A o \in Orders : /\ order'[o].status = "none" => order'[o] = NoOrder
                         /\ order'[o].version >= order[o].version
    /\ \A c \in Callers : call'[c] # NoCall => call'[c].version >= 1

LEMMA QuietStep ==
    ASSUME OrdersConsistent, OrdersTypeOK', Quiet
    PROVE  OrdersConsistent'
<1>1. RecordedIsPast'
  <2> SUFFICES ASSUME NEW d \in command
               PROVE  d.version >= 1 /\ d.version < order'[d.order].version
    BY DEF Quiet, RecordedIsPast
  <2>1. d.order \in Orders /\ d.version \in Nat
    BY DEF OrdersConsistent, OrdersTypeOK, Requests
  <2>2. order[d.order].version \in Nat /\ order'[d.order].version \in Nat
    BY <2>1 DEF OrdersConsistent, OrdersTypeOK, OrderRows
  <2> QED  BY <2>1, <2>2 DEF OrdersConsistent, RecordedIsPast, Quiet
<1>2. Versioned' /\ CallsHaveRead' /\ OneCommandPerVersion'
  BY DEF Quiet, Versioned, CallsHaveRead, OneCommandPerVersion,
         OrdersConsistent
<1> QED  BY <1>1, <1>2 DEF OrdersConsistent

-----------------------------------------------------------------------------
(* Placements and inventory edits *)

LEMMA ReserveType ==
    ASSUME OrdersTypeOK, NEW o \in Orders, Reserve(o)
    PROVE  /\ hold' \in [Orders -> {"none", "held", "consumed", "released",
                                    "returned"}]
           /\ captured' \in [Orders -> SUBSET Variants]
           /\ reserved' \in [Variants -> Nat]
<1>1. \A v \in Variants : Lines[o][v] \in Nat
  BY OrdersAssumption
<1> QED  BY <1>1 DEF Reserve, OrdersTypeOK, Bought

LEMMA PlaceType ==
    ASSUME OrdersTypeOK, NEW o \in Orders, NEW m \in {"cod", "online"},
           NEW p \in PaymentStatuses, Place(o, m, p), order[o].status = "none",
           Versioned
    PROVE  /\ order' \in [Orders -> OrderRows]
           /\ intent' \subseteq Intents
           /\ \A x \in Orders : /\ order'[x].status = "none" => order'[x] = NoOrder
                                /\ order'[x].version >= order[x].version
<1> DEFINE row == [NoOrder EXCEPT !.status = "placed", !.method = m,
                                  !.payment = p, !.version = 1]
<1>1. row \in OrderRows /\ row.status = "placed" /\ row.version = 1
  BY NoOrderType DEF OrderRows, Statuses
<1>2. [type |-> "placed", order |-> o, version |-> 1] \in Intents
  BY DEF Intents
<1>3. order' = [order EXCEPT ![o] = row]
  BY DEF Place
<1>4. \A x \in Orders : order[x].version \in Nat
  BY DEF OrdersTypeOK, OrderRows
<1>5. order[o].version = 0
  BY DEF Versioned, NoOrder
<1> HIDE DEF row
<1> QED  BY <1>1, <1>2, <1>3, <1>4, <1>5 DEF Place, OrdersTypeOK, Versioned

LEMMA PlacingStep ==
    ASSUME OrdersConsistent, Placing
    PROVE  OrdersConsistent'
<1> USE DEF OrdersConsistent
<1> PICK o \in Orders : \/ PlaceCashOnDelivery(o) \/ StartOnline(o)
                        \/ PlacePaidOnlineOrder(o)
  BY DEF Placing
<1>1. CASE PlaceCashOnDelivery(o)
  <2>1. OrdersTypeOK' /\ Quiet
    <3>1. /\ order[o].status = "none" /\ Reserve(o)
          /\ Place(o, "cod", "unpaid")
          /\ UNCHANGED <<counted, onHand, owned, operation, requestVars>>
      BY <1>1 DEF PlaceCashOnDelivery, Reserve
    <3>2. "unpaid" \in PaymentStatuses
      BY DEF PaymentStatuses
    <3> QED  BY <3>1, <3>2, ReserveType, PlaceType
             DEF OrdersTypeOK, requestVars, Quiet, CallsHaveRead
  <2> QED  BY <2>1, QuietStep
<1>2. CASE StartOnline(o)
  <2>1. OrdersTypeOK' /\ Quiet
    BY <1>2, ReserveType
    DEF StartOnline, OrdersTypeOK, OrderRows, requestVars, Quiet,
        CallsHaveRead, Versioned
  <2> QED  BY <2>1, QuietStep
<1>3. CASE PlacePaidOnlineOrder(o)
  <2>1. OrdersTypeOK' /\ Quiet
    <3>1. /\ order[o].status = "none"
          /\ hold' = [hold EXCEPT ![o] = "consumed"]
          /\ Place(o, "online", "paid")
          /\ UNCHANGED <<captured, stockVars, operation, requestVars>>
      BY <1>3 DEF PlacePaidOnlineOrder
    <3>2. "paid" \in PaymentStatuses
      BY DEF PaymentStatuses
    <3> QED  BY <3>1, <3>2, PlaceType
             DEF OrdersTypeOK, requestVars, stockVars, Quiet, CallsHaveRead
  <2> QED  BY <2>1, QuietStep
<1> QED  BY <1>1, <1>2, <1>3

LEMMA StockingStep ==
    ASSUME OrdersConsistent, Stocking
    PROVE  OrdersConsistent'
<1> USE DEF OrdersConsistent
<1>1. OrdersTypeOK'
  <2> PICK v \in Variants :
          \/ \E n \in 0..MaxStock : SetOnHand(v, n) \/ StartCounting(v, n)
          \/ StopCounting(v)
    BY DEF Stocking
  <2>1. ASSUME NEW n \in 0..MaxStock, SetOnHand(v, n)
        PROVE  OrdersTypeOK'
    BY <2>1, OrdersAssumption
    DEF SetOnHand, OrdersTypeOK, holdVars, requestVars
  <2>2. ASSUME NEW n \in 0..MaxStock, StartCounting(v, n)
        PROVE  OrdersTypeOK'
    BY <2>2, OrdersAssumption
    DEF StartCounting, OrdersTypeOK, holdVars, requestVars
  <2>3. ASSUME StopCounting(v)
        PROVE  OrdersTypeOK'
    BY <2>3 DEF StopCounting, OrdersTypeOK, holdVars, requestVars
  <2> QED  BY <2>1, <2>2, <2>3
<1>2. UNCHANGED <<order, command, call>>
  BY DEF Stocking, SetOnHand, StartCounting, StopCounting, requestVars
<1>3. Quiet
  BY <1>2 DEF Quiet, Versioned, CallsHaveRead, OrdersTypeOK, OrderRows
<1> QED  BY <1>1, <1>3, QuietStep

-----------------------------------------------------------------------------
(* Commands *)

LEMMA AnswerType ==
    ASSUME OrdersTypeOK, CallsHaveRead, NEW c \in Callers,
           NEW answer \in {"none", "ok", "refused"}, Answer(c, answer)
    PROVE  /\ call' \in [Callers -> Requests \cup {NoCall}]
           /\ reply' \in [Callers -> {"none", "ok", "refused"}]
           /\ \A d \in Callers : call'[d] # NoCall => call'[d].version >= 1
  BY DEF Answer, OrdersTypeOK, CallsHaveRead

LEMMA SubmitStep ==
    ASSUME OrdersConsistent, NEW c \in Callers, NEW r \in Requests,
           r.version >= 1, Submit(c, r)
    PROVE  OrdersConsistent'
<1> USE DEF OrdersConsistent
<1>1. /\ call' \in [Callers -> Requests \cup {NoCall}]
      /\ reply' \in [Callers -> {"none", "ok", "refused"}]
      /\ \A d \in Callers : call'[d] # NoCall => call'[d].version >= 1
  <2>1. CASE \E answer \in {"none", "ok", "refused"} : Answer(c, answer)
    BY <2>1, AnswerType
  <2>2. CASE call' = [call EXCEPT ![c] = r] /\ reply' = [reply EXCEPT ![c] = "none"]
    BY <2>2 DEF OrdersTypeOK, CallsHaveRead
  <2> QED  BY <2>1, <2>2 DEF Submit
<1>2. OrdersTypeOK'
  BY <1>1 DEF Submit, OrdersTypeOK, holdVars, stockVars
<1>3. Quiet
  BY <1>1 DEF Quiet, Submit, Versioned, OrdersTypeOK, OrderRows
<1> QED  BY <1>2, <1>3, QuietStep

LEMMA AnswerOnlyStep ==
    ASSUME OrdersConsistent, NEW c \in Callers, AnswerOnly(c)
    PROVE  OrdersConsistent'
<1> USE DEF OrdersConsistent
<1>1. /\ call' \in [Callers -> Requests \cup {NoCall}]
      /\ reply' \in [Callers -> {"none", "ok", "refused"}]
      /\ \A d \in Callers : call'[d] # NoCall => call'[d].version >= 1
  BY AnswerType DEF AnswerOnly
<1>2. OrdersTypeOK'
  BY <1>1 DEF AnswerOnly, OrdersTypeOK, holdVars, stockVars
<1>3. Quiet
  BY <1>1 DEF Quiet, AnswerOnly, Versioned, OrdersTypeOK, OrderRows
<1> QED  BY <1>2, <1>3, QuietStep

\* A command that is carried out found its order at the version the caller
\* had read, and leaves it one version further.
Advances(r) ==
    /\ Current(r)
    /\ order' \in [Orders -> OrderRows]
    /\ order'[r.order].version = order[r.order].version + 1
    /\ \A o \in Orders : /\ o # r.order => order'[o] = order[o]
                         /\ order'[o].status = "none" => order'[o] = NoOrder

LEMMA TransitionStep ==
    ASSUME OrdersTypeOK, Versioned, NEW r \in Requests, r.op # "refund-retry",
           Transitable(r), Transition(r)
    PROVE  /\ Advances(r)
           /\ hold' \in [Orders -> {"none", "held", "consumed", "released",
                                    "returned"}]
           /\ onHand' \in [Variants -> Nat]
           /\ reserved' \in [Variants -> Nat]
           /\ owned' \in [Variants -> Int]
           /\ operation' \in [Orders -> Seq(OperationRows)]
           /\ intent' \subseteq Intents
           /\ UNCHANGED <<captured, counted>>
<1> DEFINE o == r.order
<1> DEFINE row == order[o]
<1>1. o \in Orders /\ r.op \in Transitions
  BY OrdersAssumption DEF Requests
<1>2. row \in OrderRows
  BY <1>1 DEF OrdersTypeOK
<1>3. Advances(r)
  <2>1. PICK p \in PaymentStatuses :
            order' = [order EXCEPT ![o] =
                [row EXCEPT !.status = To(r.op), !.version = row.version + 1,
                            !.payment = p]]
    <3>1. row.payment \in PaymentStatuses
      BY <1>2 DEF OrderRows
    <3>2. {"refund_pending", "paid"} \subseteq PaymentStatuses
      BY DEF PaymentStatuses
    <3> DEFINE refunds == row.method = "online" /\ To(r.op) \in Ended
               payment == CASE refunds -> "refund_pending"
                            [] r.op = "deliver" -> "paid"
                            [] OTHER -> row.payment
    <3>3. ~(refunds /\ r.op = "deliver")
      BY DEF To, Ended
    <3>4. payment \in PaymentStatuses
      BY <3>1, <3>2, <3>3
    <3>5. order' = [order EXCEPT ![o] =
              [row EXCEPT !.status = To(r.op), !.version = row.version + 1,
                          !.payment = payment]]
      BY DEF Transition
    <3> HIDE DEF payment
    <3> QED  BY <3>4, <3>5
  <2>2. To(r.op) \in Statuses /\ To(r.op) # "none"
    BY <1>1, MovesOf DEF Statuses
  <2> HIDE DEF row
  <2> PICK new : new = [row EXCEPT !.status = To(r.op),
                                   !.version = row.version + 1, !.payment = p]
    OBVIOUS
  <2>3. /\ new \in OrderRows
        /\ new.version = row.version + 1 /\ new.status = To(r.op)
    <3> DEFINE r1 == [row EXCEPT !.status = To(r.op)]
               r2 == [r1 EXCEPT !.version = row.version + 1]
               r3 == [r2 EXCEPT !.payment = p]
    <3>1. new = r3
      OBVIOUS
    <3>2. row.version + 1 \in Nat
      BY <1>2 DEF OrderRows
    <3> HIDE DEF r3
    <3>3. r1 \in OrderRows /\ r1.status = To(r.op)
      BY <1>2, <2>2, SetStatus
    <3> HIDE DEF r1
    <3>4. r2 \in OrderRows /\ r2.version = row.version + 1
                           /\ r2.status = To(r.op)
      BY <3>2, <3>3, SetVersion
    <3> HIDE DEF r2
    <3>5. r3 \in OrderRows /\ r3.version = row.version + 1
                           /\ r3.status = To(r.op)
      BY <3>4, SetPayment DEF r3
    <3> QED  BY <3>1, <3>5
  <2>4. order' = [order EXCEPT ![o] = new]
    BY <2>1
  <2>5. Current(r)
    BY DEF Transitable
  <2> QED
    BY <1>1, <2>2, <2>3, <2>4, <2>5 DEF Advances, OrdersTypeOK, Versioned, row
<1>4. /\ hold' \in [Orders -> {"none", "held", "consumed", "released",
                               "returned"}]
      /\ onHand' \in [Variants -> Nat]
      /\ reserved' \in [Variants -> Nat]
  BY <1>1, StockStaysNatural DEF Transitable, Transition
<1>5. owned' \in [Variants -> Int]
  <2>1. \A v \in Variants : Units(o, v) \in Nat
    BY <1>1, UnitsType
  <2> QED  BY <2>1 DEF Transition, TrackOwnership, OrdersTypeOK
<1>6. operation' \in [Orders -> Seq(OperationRows)]
  BY <1>1, NewOperationType DEF Transition, OrdersTypeOK
<1>7. intent' \subseteq Intents
  <2>1. Announced(r.op) \subseteq {"placed", "shipped", "delivered",
                                   "cancelled", "refunded"}
    BY DEF Announced
  <2>2. row.version + 1 \in Nat
    BY <1>2 DEF OrderRows
  <2>3. intent' = intent \cup {[type |-> t, order |-> o,
                                version |-> row.version + 1] :
                               t \in Announced(r.op)}
    BY DEF Transition
  <2> QED  BY <1>1, <2>1, <2>2, <2>3 DEF OrdersTypeOK, Intents
<1>8. UNCHANGED <<captured, counted>>
  BY DEF Transition
<1> QED  BY <1>3, <1>4, <1>5, <1>6, <1>7, <1>8

LEMMA RetryRefundStep ==
    ASSUME OrdersTypeOK, Versioned, NEW r \in Requests, Retryable(r),
           RetryRefund(r)
    PROVE  /\ Advances(r)
           /\ operation' \in [Orders -> Seq(OperationRows)]
           /\ UNCHANGED <<holdVars, stockVars, intent>>
<1> DEFINE o == r.order
<1>1. o \in Orders
  BY DEF Requests
<1>2. order[o] \in OrderRows /\ operation[o] \in Seq(OperationRows)
  BY <1>1 DEF OrdersTypeOK
<1> DEFINE new == [order[o] EXCEPT !.payment = "refund_pending",
                                   !.version = order[o].version + 1]
<1>3. /\ new \in OrderRows
      /\ new.version = order[o].version + 1 /\ new.status = order[o].status
  BY <1>2, NextPaymentRow DEF PaymentStatuses
<1>4. order' = [order EXCEPT ![o] = new]
  BY <1>1, <1>2 DEF RetryRefund, OrdersTypeOK, OrderRows
<1>5. order[o].status # "none"
  BY <1>1 DEF Retryable, Versioned, NoOrder
<1>6. operation' \in [Orders -> Seq(OperationRows)]
  BY <1>1, <1>2, NewOperationType DEF RetryRefund, OrdersTypeOK
<1> HIDE DEF new
<1> QED  BY <1>1, <1>3, <1>4, <1>5, <1>6
         DEF RetryRefund, Retryable, Advances, OrdersTypeOK, Versioned

LEMMA ExecuteStep ==
    ASSUME OrdersConsistent, NEW c \in Callers, Execute(c)
    PROVE  OrdersConsistent'
<1> USE DEF OrdersConsistent
<1> DEFINE r == call[c]
<1>1. /\ r \in Requests /\ r.version >= 1
      /\ command' = command \cup {r} /\ Answer(c, "ok")
  BY DEF Execute, OrdersTypeOK, CallsHaveRead
<1>2. /\ call' \in [Callers -> Requests \cup {NoCall}]
      /\ reply' \in [Callers -> {"none", "ok", "refused"}]
      /\ \A d \in Callers : call'[d] # NoCall => call'[d].version >= 1
  BY <1>1, AnswerType
<1>3. Advances(r) /\ OrdersTypeOK'
  <2>1. CASE r.op = "refund-retry"
    <3>1. Retryable(r) /\ RetryRefund(r)
      BY <2>1 DEF Execute, Refused
    <3>2. /\ Advances(r)
          /\ operation' \in [Orders -> Seq(OperationRows)]
          /\ UNCHANGED <<holdVars, stockVars, intent>>
      BY <1>1, <3>1, RetryRefundStep
    <3> QED  BY <1>1, <1>2, <3>2
             DEF Advances, OrdersTypeOK, holdVars, stockVars
  <2>2. CASE r.op # "refund-retry"
    <3>1. Transitable(r) /\ Transition(r)
      BY <2>2 DEF Execute, Refused
    <3>2. /\ Advances(r)
          /\ hold' \in [Orders -> {"none", "held", "consumed", "released",
                                   "returned"}]
          /\ onHand' \in [Variants -> Nat]
          /\ reserved' \in [Variants -> Nat]
          /\ owned' \in [Variants -> Int]
          /\ operation' \in [Orders -> Seq(OperationRows)]
          /\ intent' \subseteq Intents
          /\ UNCHANGED <<captured, counted>>
      BY <1>1, <2>2, <3>1, TransitionStep
    <3> QED  BY <1>1, <1>2, <3>2 DEF Advances, OrdersTypeOK
  <2> QED  BY <2>1, <2>2
<1>4. \A d \in command' :
          /\ d.order \in Orders /\ d.version \in Nat
          /\ order[d.order].version \in Nat
  BY <1>1 DEF OrdersTypeOK, Requests, OrderRows
<1>5. RecordedIsPast'
  <2> SUFFICES ASSUME NEW d \in command'
               PROVE  d.version >= 1 /\ d.version < order'[d.order].version
    BY DEF RecordedIsPast
  <2>1. CASE d = r
    BY <1>1, <1>3, <1>4, <2>1 DEF Advances, Current
  <2>2. CASE d \in command /\ d.order = r.order
    BY <1>3, <1>4, <2>2 DEF Advances, RecordedIsPast
  <2>3. CASE d \in command /\ d.order # r.order
    BY <1>3, <1>4, <2>3 DEF Advances, RecordedIsPast
  <2> QED  BY <1>1, <2>1, <2>2, <2>3
<1>6. OneCommandPerVersion'
  <2> SUFFICES ASSUME NEW a \in command', NEW b \in command',
                      a.order = b.order, a.version = b.version
               PROVE  a = b
    BY DEF OneCommandPerVersion
  \* Those recorded before r are behind the version that r was compared with.
  <2>1. \A d \in command : d.order = r.order => d.version # r.version
    BY <1>1, <1>3, <1>4 DEF Advances, Current, RecordedIsPast
  <2>2. CASE a = r \/ b = r
    BY <1>1, <2>1, <2>2
  <2>3. CASE a # r /\ b # r
    BY <1>1, <2>3 DEF OneCommandPerVersion
  <2> QED  BY <2>2, <2>3
<1> QED  BY <1>2, <1>3, <1>5, <1>6 DEF Advances, Versioned, CallsHaveRead

LEMMA CommandingStep ==
    ASSUME OrdersConsistent, Commanding
    PROVE  OrdersConsistent'
<1> PICK c \in Callers :
        \/ \E o \in Orders, k \in Keys, op \in Operations :
              \E n \in 1..order[o].version :
                  Submit(c, [op |-> op, order |-> o, key |-> k, version |-> n])
        \/ AnswerOnly(c)
        \/ Execute(c)
  BY DEF Commanding
<1>1. ASSUME NEW o \in Orders, NEW k \in Keys, NEW op \in Operations,
             NEW n \in 1..order[o].version,
             Submit(c, [op |-> op, order |-> o, key |-> k, version |-> n])
      PROVE  OrdersConsistent'
  <2>1. n \in Nat /\ n >= 1
    BY DEF OrdersConsistent, OrdersTypeOK, OrderRows
  <2>2. [op |-> op, order |-> o, key |-> k, version |-> n] \in Requests
    BY <2>1 DEF Requests
  <2> QED  BY <1>1, <2>1, <2>2, SubmitStep
<1> QED  BY <1>1, AnswerOnlyStep, ExecuteStep

-----------------------------------------------------------------------------
(* The theorems *)

LEMMA Stuttering ==
    ASSUME OrdersConsistent, UNCHANGED orderVars
    PROVE  OrdersConsistent'
  BY DEF OrdersConsistent, OrdersTypeOK, Versioned, CallsHaveRead,
         RecordedIsPast, OneCommandPerVersion, orderVars, holdVars, stockVars,
         requestVars

\* Every reachable state keeps the invariant on versions, for any orders,
\* callers and keys: every command, placement and inventory edit does.
THEOREM OrdersConsistency == OrdersSpec => []OrdersConsistent
<1>1. OrdersInit => OrdersConsistent
  BY InitialConsistency
<1>2. OrdersConsistent /\ [OrdersNext]_orderVars => OrdersConsistent'
  BY PlacingStep, StockingStep, CommandingStep, Stuttering DEF OrdersNext
<1> QED  BY <1>1, <1>2, PTL DEF OrdersSpec

\* The columns keep their types; in particular no command and no edit of the
\* inventory takes a stock counter below zero.
THEOREM OrdersTypeCorrectness == OrdersSpec => []OrdersTypeOK
  BY OrdersConsistency, PTL DEF OrdersConsistent

\* Of the callers who read one version of an order at most one changes it.
THEOREM CommandsAreSerial == OrdersSpec => []OneCommandPerVersion
  BY OrdersConsistency, PTL DEF OrdersConsistent

\* A caller who repeats a command that was carried out gets its answer, also
\* when it was carried out between the first and the second look at the key.
THEOREM RepeatsAreAnswered == OrdersSpec => RepeatIsAnswered
<1> DEFINE Answered ==
        \A c \in Callers :
            call[c] \in command /\ call'[c] = NoCall => reply'[c] = "ok"
<1>1. OrdersConsistent /\ [OrdersNext]_orderVars => [Answered]_orderVars
  <2> SUFFICES ASSUME OrdersConsistent, OrdersNext, NEW c \in Callers,
                      call[c] \in command, call'[c] = NoCall
               PROVE  reply'[c] = "ok"
    OBVIOUS
  <2>1. /\ call \in [Callers -> Requests \cup {NoCall}]
        /\ reply \in [Callers -> {"none", "ok", "refused"}]
        /\ call[c] # NoCall
    BY NoCallAssumption DEF OrdersConsistent, OrdersTypeOK
  <2>2. CASE Placing
    BY <2>1, <2>2 DEF Placing, PlaceCashOnDelivery, StartOnline,
                      PlacePaidOnlineOrder, requestVars
  <2>3. CASE Stocking
    BY <2>1, <2>3 DEF Stocking, SetOnHand, StartCounting, StopCounting,
                      requestVars
  <2>4. CASE Commanding
    <3> PICK d \in Callers :
            \/ \E r : Submit(d, r)
            \/ AnswerOnly(d)
            \/ Execute(d)
      BY <2>4 DEF Commanding
    \* Only the caller's own step ends its call.
    <3>1. d = c
      <4>1. CASE \E r : Submit(d, r)
        BY <2>1, <4>1 DEF Submit, Answer
      <4>2. CASE AnswerOnly(d) \/ Execute(d)
        BY <2>1, <4>2 DEF AnswerOnly, Execute, Answer
      <4> QED  BY <4>1, <4>2
    <3>2. Replayed(call[c])
      BY DEF Replayed
    <3>3. AnswerOnly(c)
      BY <2>1, <3>1, <3>2 DEF Submit, Execute
    <3> QED  BY <2>1, <3>2, <3>3 DEF AnswerOnly, Refused, Answer
  <2> QED  BY <2>2, <2>3, <2>4 DEF OrdersNext
<1> QED  BY <1>1, OrdersConsistency, PTL DEF OrdersSpec, RepeatIsAnswered

-----------------------------------------------------------------------------
(* The stock counters                                                      *)
(*                                                                         *)
(* What is reserved is, to the unit, what the held orders and every order  *)
(* ever paid online captured (ReservedIsClaimed): a paid order keeps its   *)
(* units reserved for good, which is why StockFollowsGoods fails for it,   *)
(* and holds while nothing was paid online.                                *)

PaidOnline(o) == order[o].status # "none" /\ order[o].method = "online"

\* The orders and attempts whose units the counter holds.
Claiming == {o \in Orders : hold[o] = "held" \/ PaidOnline(o)}

Taken(v) == [o \in Orders |-> Units(o, v)]

HoldsFollowOrders ==
    \A o \in Orders :
        /\ order[o].status = "none" => hold[o] \in {"none", "held"}
        /\ order[o].status \in {"placed", "preparing"} =>
              hold[o] = IF order[o].method = "cod" THEN "held" ELSE "consumed"
        /\ order[o].status \in {"shipped", "delivered"} => hold[o] = "consumed"
        /\ order[o].status = "cancelled" =>
              hold[o] = IF order[o].method = "cod" THEN "released" ELSE "consumed"
        /\ order[o].status = "returned" => hold[o] = "returned"

\* The policy of a variant stands while an order claims it or carries it.
ClaimedIsCounted ==
    \A o \in Orders :
        /\ captured[o] \subseteq Bought(o)
        /\ o \in Claiming \cup OnTheWay => captured[o] \subseteq counted

ReservedIsClaimed ==
    \A v \in Variants : reserved[v] = Total(Taken(v), Claiming)

ReservedIsOnHand == \A v \in counted : reserved[v] <= onHand[v]

CashGoodsAreOwned ==
    NothingPaidOnline =>
        \A v \in counted : onHand[v] + Total(Taken(v), OnTheWay) = owned[v]

\* The inductive invariant, on top of OrdersConsistent.
StockAgrees ==
    /\ HoldsFollowOrders
    /\ ClaimedIsCounted
    /\ IsFiniteSet(Claiming) /\ IsFiniteSet(OnTheWay)
    /\ ReservedIsClaimed
    /\ ReservedIsOnHand
    /\ CashGoodsAreOwned

-----------------------------------------------------------------------------
(* The sums the properties name *)

LEMMA SumOfUnits ==
    ASSUME NEW v, NEW S \in SUBSET Orders, IsFiniteSet(S)
    PROVE  UnitsOf(S, v) = Total(Taken(v), S)
  <1> DEFINE Term(g, s) == Units(CHOOSE x \in s : TRUE, v)
                              + g[s \ {CHOOSE x \in s : TRUE}]
             Fold(g) == g = [s \in SUBSET S |-> IF s = {} THEN 0
                                                ELSE Term(g, s)]
             f == CHOOSE g : Fold(g)
  <1>1. UnitsOf(S, v) = f[S]
    BY DEF UnitsOf, MapThenSumSet, MapThenFoldSet
  <1>2. ASSUME NEW g
        PROVE  Fold(g) <=> Sums(g, Taken(v), S)
    <2>1. \A s \in SUBSET S : s # {} =>
             Term(g, s) = Taken(v)[First(s)] + g[s \ {First(s)}]
      <3>1. SUFFICES ASSUME NEW s \in SUBSET S, s # {}
                     PROVE  Units(First(s), v) = Taken(v)[First(s)]
        BY DEF First
      <3>2. First(s) \in S
        BY <3>1, FirstIsIn
      <3>. QED
        BY <3>2 DEF Taken
    <2>. HIDE DEF Term
    <2>2. [s \in SUBSET S |-> IF s = {} THEN 0 ELSE Term(g, s)]
          = [s \in SUBSET S |-> IF s = {} THEN 0
                ELSE Taken(v)[First(s)] + g[s \ {First(s)}]]
      BY <2>1
    <2>. QED
      BY <2>2 DEF Sums
  <1>. HIDE DEF Fold
  <1>3. \E g : Fold(g)
    <2>1. PICK g : Sums(g, Taken(v), S)
      BY SumsExist
    <2>. QED
      BY <1>2, <2>1
  <1>4. Fold(f)
    BY <1>3
  <1>5. Sums(f, Taken(v), S)
    BY <1>2, <1>4
  <1>. HIDE DEF f
  <1>6. f[S] = Total(Taken(v), S)
    BY <1>5, TotalOf
  <1>. QED
    BY <1>1, <1>6

\* What the types give every step.
LEMMA StockFacts ==
    ASSUME OrdersConsistent
    PROVE  /\ onHand \in [Variants -> Nat] /\ reserved \in [Variants -> Nat]
           /\ owned \in [Variants -> Int] /\ counted \subseteq Variants
           /\ order \in [Orders -> OrderRows]
           /\ hold \in [Orders -> {"none", "held", "consumed", "released",
                                   "returned"}]
           /\ captured \in [Orders -> SUBSET Variants]
           /\ \A o \in Orders, v \in Variants : Units(o, v) \in Nat
           /\ \A o \in Orders, v \in Variants :
                 Taken(v)[o] = Units(o, v) /\ Taken(v)[o] \in Nat
  <1>1. OrdersTypeOK
    BY DEF OrdersConsistent
  <1>. QED
    BY <1>1, UnitsType DEF OrdersTypeOK, Taken

-----------------------------------------------------------------------------
(* Steps that leave the goods alone *)

\* The claims, the shipments and the captured lines stay what they are.
SameClaims ==
    /\ Claiming' = Claiming /\ OnTheWay' = OnTheWay
    /\ UNCHANGED captured
    /\ NothingPaidOnline' => NothingPaidOnline

LEMMA SameClaimsKeepTotals ==
    ASSUME SameClaims, NEW v
    PROVE  /\ Taken(v)' = Taken(v)
           /\ Total(Taken(v), Claiming)' = Total(Taken(v), Claiming)
           /\ Total(Taken(v), OnTheWay)' = Total(Taken(v), OnTheWay)
  <1>1. Taken(v)' = Taken(v)
    BY DEF SameClaims, Taken, Units
  <1>2. Claiming' = Claiming /\ OnTheWay' = OnTheWay
    BY DEF SameClaims
  <1>. QED
    BY <1>1, <1>2

LEMMA CountersUntouched ==
    ASSUME StockAgrees, SameClaims, HoldsFollowOrders',
           UNCHANGED stockVars
    PROVE  StockAgrees'
  <1>1. ClaimedIsCounted'
    BY DEF StockAgrees, ClaimedIsCounted, SameClaims, stockVars, Bought
  <1>2. IsFiniteSet(Claiming)' /\ IsFiniteSet(OnTheWay)'
    BY DEF StockAgrees, SameClaims
  <1>3. ReservedIsClaimed' /\ ReservedIsOnHand'
    BY SameClaimsKeepTotals
       DEF StockAgrees, ReservedIsClaimed, ReservedIsOnHand, stockVars
  <1>4. CashGoodsAreOwned'
    BY SameClaimsKeepTotals
       DEF StockAgrees, CashGoodsAreOwned, SameClaims, stockVars
  <1>. QED
    BY <1>1, <1>2, <1>3, <1>4 DEF StockAgrees

\* Nothing is done to an order, a reservation or a counter.
LEMMA GoodsUntouched ==
    ASSUME StockAgrees, UNCHANGED <<order, holdVars, stockVars>>
    PROVE  StockAgrees'
  <1>1. SameClaims
    BY DEF SameClaims, Claiming, OnTheWay, NothingPaidOnline, PaidOnline, holdVars
  <1>2. HoldsFollowOrders'
    BY DEF StockAgrees, HoldsFollowOrders, holdVars
  <1>. QED
    BY <1>1, <1>2, CountersUntouched

-----------------------------------------------------------------------------
(* Placements *)

\* A reservation is made: one more claim, for what is counted now.
LEMMA ReserveAgrees ==
    ASSUME OrdersConsistent, StockAgrees, NEW o \in Orders, Reserve(o),
           Claiming' = Claiming \cup {o}, OnTheWay' = OnTheWay,
           NothingPaidOnline' => NothingPaidOnline,
           HoldsFollowOrders', UNCHANGED <<counted, onHand, owned>>
    PROVE  StockAgrees'
  <1>1. /\ o \notin Claiming /\ o \notin OnTheWay
        /\ \A v \in Variants : Lines[o][v] \in Nat
    BY OrdersAssumption DEF Reserve, Claiming, PaidOnline, OnTheWay
  <1>2. /\ captured' = [captured EXCEPT ![o] = Bought(o) \cap counted]
        /\ captured'[o] = Bought(o) \cap counted
        /\ \A p \in Orders \ {o} : captured'[p] = captured[p]
    BY StockFacts DEF Reserve
  <1>3. ASSUME NEW v \in Variants
        PROVE  /\ Units(o, v)' = IF v \in counted THEN Lines[o][v] ELSE 0
               /\ \A p \in Orders \ {o} : Units(p, v)' = Units(p, v)
    <2>1. Lines[o][v] \in Nat
      BY <1>1
    <2>2. v \in Bought(o) <=> Lines[o][v] > 0
      BY DEF Bought
    <2>. QED
      BY <1>2, <2>1, <2>2 DEF Units
  <1>4. ClaimedIsCounted'
    <2>1. \A p \in Orders : Bought(p)' = Bought(p)
      BY DEF Bought
    <2>. QED
      BY <1>2, <2>1 DEF StockAgrees, ClaimedIsCounted
  <1>5. /\ IsFiniteSet(Claiming) /\ IsFiniteSet(OnTheWay)
        /\ IsFiniteSet(Claiming') /\ IsFiniteSet(OnTheWay')
    BY FS_AddElement DEF StockAgrees
  <1>6. ASSUME NEW v \in Variants
        PROVE  /\ Total(Taken(v)', Claiming')
                     = Total(Taken(v), Claiming) + Units(o, v)'
               /\ Total(Taken(v)', OnTheWay') = Total(Taken(v), OnTheWay)
    <2>1. /\ \A p \in Orders \ {o} : Taken(v)'[p] = Taken(v)[p]
          /\ Taken(v)'[o] = Units(o, v)' /\ Units(o, v)' \in Nat
      BY <1>1, <1>3 DEF Taken
    <2>2. /\ \A p \in Claiming : Taken(v)'[p] = Taken(v)[p]
          /\ \A p \in OnTheWay : Taken(v)'[p] = Taken(v)[p]
          /\ \A p \in Claiming \cup {o} : Taken(v)'[p] \in Nat
      BY <1>1, <2>1, StockFacts DEF Claiming, OnTheWay
    <2>3. Total(Taken(v)', Claiming \cup {o})
             = Total(Taken(v)', Claiming) + Taken(v)'[o]
      BY <1>1, <1>5, <2>2, TotalAdd
    <2>4. /\ Total(Taken(v)', Claiming) = Total(Taken(v), Claiming)
          /\ Total(Taken(v)', OnTheWay) = Total(Taken(v), OnTheWay)
      BY <1>5, <2>2, TotalSame
    <2>. QED
      BY <2>1, <2>3, <2>4
  <1>7. ASSUME NEW v \in Variants
        PROVE  /\ reserved'[v] = reserved[v] + Units(o, v)'
               /\ v \in counted => reserved'[v] <= onHand[v]
    <2>1. reserved'[v] = reserved[v] + Units(o, v)'
      BY <1>3 DEF Reserve
    <2>2. Units(o, v)' \in Nat /\ reserved[v] \in Nat /\ onHand[v] \in Nat
      BY <1>1, <1>3, StockFacts
    <2>3. CASE v \in counted /\ Lines[o][v] > 0
      <3>1. onHand[v] - reserved[v] >= Lines[o][v] /\ Units(o, v)' = Lines[o][v]
        BY <1>3, <2>3 DEF Reserve, Reservable, Bought
      <3>. QED
        BY <2>1, <2>2, <3>1
    <2>4. CASE v \in counted /\ ~(Lines[o][v] > 0)
      <3>1. Units(o, v)' = 0
        BY <1>1, <1>3, <2>4
      <3>. QED
        BY <2>1, <2>2, <2>4, <3>1 DEF StockAgrees, ReservedIsOnHand
    <2>. QED
      BY <2>1, <2>3, <2>4
  <1>8. ReservedIsClaimed' /\ ReservedIsOnHand'
    BY <1>6, <1>7, StockFacts
       DEF StockAgrees, ReservedIsClaimed, ReservedIsOnHand
  <1>9. CashGoodsAreOwned'
    <2>1. SUFFICES ASSUME NothingPaidOnline', NEW v \in counted
                   PROVE  onHand[v] + Total(Taken(v)', OnTheWay') = owned[v]
      BY DEF CashGoodsAreOwned
    <2>2. v \in Variants
      BY StockFacts
    <2>. QED
      BY <1>6, <2>1, <2>2 DEF StockAgrees, CashGoodsAreOwned
  <1>. QED
    BY <1>4, <1>5, <1>8, <1>9 DEF StockAgrees

LEMMA PlacingAgrees ==
    ASSUME OrdersConsistent, StockAgrees, Placing
    PROVE  StockAgrees'
  <1>1. ASSUME NEW o \in Orders, PlaceCashOnDelivery(o)
        PROVE  StockAgrees'
    <2> DEFINE row == [NoOrder EXCEPT !.status = "placed", !.method = "cod",
                                      !.payment = "unpaid", !.version = 1]
    <2>1. /\ order' = [order EXCEPT ![o] = row]
          /\ hold' = [hold EXCEPT ![o] = "held"]
          /\ order[o].status = "none" /\ Reserve(o)
          /\ UNCHANGED <<counted, onHand, owned>>
      BY <1>1 DEF PlaceCashOnDelivery, Place, Reserve
    <2>2. row.status = "placed" /\ row.method = "cod"
      BY DEF NoOrder
    <2> HIDE DEF row
    <2>3. /\ order'[o] = row /\ hold'[o] = "held"
          /\ \A p \in Orders \ {o} : order'[p] = order[p] /\ hold'[p] = hold[p]
      BY <2>1, StockFacts
    <2>4. Claiming' = Claiming \cup {o} /\ OnTheWay' = OnTheWay
      BY <2>1, <2>2, <2>3 DEF Claiming, PaidOnline, OnTheWay
    <2>5. HoldsFollowOrders' /\ (NothingPaidOnline' => NothingPaidOnline)
      BY <2>1, <2>2, <2>3
         DEF StockAgrees, HoldsFollowOrders, NothingPaidOnline
    <2>. QED
      BY <2>1, <2>4, <2>5, ReserveAgrees
  <1>2. ASSUME NEW o \in Orders, StartOnline(o)
        PROVE  StockAgrees'
    <2>1. /\ hold' = [hold EXCEPT ![o] = "held"]
          /\ order[o].status = "none" /\ Reserve(o)
          /\ UNCHANGED <<order, counted, onHand, owned>>
      BY <1>2 DEF StartOnline, Reserve
    <2>2. /\ hold'[o] = "held"
          /\ \A p \in Orders \ {o} : hold'[p] = hold[p]
      BY <2>1, StockFacts
    <2>3. Claiming' = Claiming \cup {o} /\ OnTheWay' = OnTheWay
      BY <2>1, <2>2 DEF Claiming, PaidOnline, OnTheWay
    <2>4. HoldsFollowOrders' /\ (NothingPaidOnline' => NothingPaidOnline)
      BY <2>1, <2>2 DEF StockAgrees, HoldsFollowOrders, NothingPaidOnline
    <2>. QED
      BY <2>1, <2>3, <2>4, ReserveAgrees
  <1>3. ASSUME NEW o \in Orders, PlacePaidOnlineOrder(o)
        PROVE  StockAgrees'
    <2> DEFINE row == [NoOrder EXCEPT !.status = "placed", !.method = "online",
                                      !.payment = "paid", !.version = 1]
    <2>1. /\ order' = [order EXCEPT ![o] = row]
          /\ hold' = [hold EXCEPT ![o] = "consumed"]
          /\ order[o].status = "none" /\ hold[o] = "held"
          /\ UNCHANGED <<captured, stockVars>>
      BY <1>3 DEF PlacePaidOnlineOrder, Place
    <2>2. row.status = "placed" /\ row.method = "online"
      BY DEF NoOrder
    <2> HIDE DEF row
    <2>3. /\ order'[o] = row /\ hold'[o] = "consumed"
          /\ \A p \in Orders \ {o} : order'[p] = order[p] /\ hold'[p] = hold[p]
      BY <2>1, StockFacts
    <2>4. Claiming' = Claiming /\ OnTheWay' = OnTheWay
      BY <2>1, <2>2, <2>3 DEF Claiming, PaidOnline, OnTheWay
    <2>5. ~NothingPaidOnline'
      BY <2>2, <2>3 DEF NothingPaidOnline
    <2>6. HoldsFollowOrders'
      BY <2>1, <2>2, <2>3 DEF StockAgrees, HoldsFollowOrders
    <2>. QED
      BY <2>1, <2>4, <2>5, <2>6, CountersUntouched DEF SameClaims
  <1>. QED
    BY <1>1, <1>2, <1>3 DEF Placing

-----------------------------------------------------------------------------
(* Inventory edits *)

LEMMA StockingKeepsClaims ==
    ASSUME UNCHANGED <<order, holdVars>>
    PROVE  SameClaims /\ (HoldsFollowOrders => HoldsFollowOrders')
  BY DEF SameClaims, Claiming, OnTheWay, NothingPaidOnline, PaidOnline,
         HoldsFollowOrders, holdVars

LEMMA SetOnHandAgrees ==
    ASSUME OrdersConsistent, StockAgrees, NEW v \in Variants,
           NEW n \in 0..MaxStock, SetOnHand(v, n)
    PROVE  StockAgrees'
  <1>1. SameClaims /\ HoldsFollowOrders'
    BY StockingKeepsClaims DEF SetOnHand, StockAgrees
  <1>2. UNCHANGED <<reserved, counted, captured>> /\ n \in Int
    BY DEF SetOnHand, holdVars
  <1>3. ClaimedIsCounted' /\ IsFiniteSet(Claiming)' /\ IsFiniteSet(OnTheWay)'
    BY <1>1, <1>2 DEF StockAgrees, ClaimedIsCounted, SameClaims, Bought
  <1>4. ReservedIsClaimed'
    BY <1>1, <1>2, SameClaimsKeepTotals DEF StockAgrees, ReservedIsClaimed
  <1>5. \A u \in counted :
           /\ onHand'[u] = IF u = v THEN n ELSE onHand[u]
           /\ owned'[u] = IF u = v THEN owned[u] + n - onHand[u] ELSE owned[u]
    BY StockFacts DEF SetOnHand
  <1>6. ReservedIsOnHand'
    BY <1>2, <1>5 DEF SetOnHand, StockAgrees, ReservedIsOnHand
  <1>7. CashGoodsAreOwned'
    <2>1. SUFFICES ASSUME NothingPaidOnline', NEW u \in counted
                   PROVE  onHand'[u] + Total(Taken(u), OnTheWay) = owned'[u]
      BY <1>1, <1>2, SameClaimsKeepTotals DEF CashGoodsAreOwned
    <2>2. onHand[u] + Total(Taken(u), OnTheWay) = owned[u]
      BY <1>1, <2>1 DEF StockAgrees, CashGoodsAreOwned, SameClaims
    <2>3. Total(Taken(u), OnTheWay) \in Nat /\ onHand[u] \in Nat /\ owned[u] \in Int
      <3>1. IsFiniteSet(OnTheWay) /\ u \in Variants
        BY StockFacts DEF StockAgrees
      <3>2. \A o \in OnTheWay : Taken(u)[o] \in Nat
        BY <3>1, StockFacts DEF OnTheWay
      <3>. QED
        BY <3>1, <3>2, StockFacts, TotalType
    <2>. QED
      BY <1>2, <1>5, <2>2, <2>3
  <1>. QED
    BY <1>1, <1>3, <1>4, <1>6, <1>7 DEF StockAgrees

\* Where the policy may change, nobody claims the variant and nobody carries it.
LEMMA NobodyTakes ==
    ASSUME OrdersConsistent, StockAgrees, NEW v \in Variants, PolicyMayChange(v)
    PROVE  /\ \A o \in OnTheWay : v \notin captured[o]
           /\ Total(Taken(v), OnTheWay) = 0
           /\ v \notin counted => reserved[v] = 0
           /\ reserved[v] = 0 => \A o \in Claiming : v \notin captured[o]
  <1>1. \A o \in OnTheWay : v \notin captured[o]
    BY DEF OnTheWay, StockAgrees, HoldsFollowOrders, ClaimedIsCounted,
           PolicyMayChange
  <1>2. Total(Taken(v), OnTheWay) = 0
    <2>1. \A o \in OnTheWay : Taken(v)[o] = 0
      BY <1>1 DEF Taken, Units, OnTheWay
    <2>. QED
      BY <2>1, TotalZero DEF StockAgrees
  <1>3. ASSUME v \notin counted
        PROVE  reserved[v] = 0
    <2>1. \A o \in Claiming : Taken(v)[o] = 0
      BY <1>3 DEF Taken, Units, Claiming, StockAgrees, ClaimedIsCounted
    <2>. QED
      BY <2>1, TotalZero DEF StockAgrees, ReservedIsClaimed
  <1>4. ASSUME reserved[v] = 0, NEW o \in Claiming, v \in captured[o]
        PROVE  FALSE
    <2>1. o \in Orders /\ \A p \in Claiming : Taken(v)[p] \in Nat
      BY StockFacts DEF Claiming
    <2>2. Taken(v)[o] <= Total(Taken(v), Claiming)
      BY <2>1, TotalBounds DEF StockAgrees
    <2>3. Taken(v)[o] = Lines[o][v] /\ Lines[o][v] > 0 /\ Lines[o][v] \in Nat
      BY <1>4, <2>1, OrdersAssumption
         DEF Taken, Units, StockAgrees, ClaimedIsCounted, Bought
    <2>. QED
      BY <1>4, <2>2, <2>3 DEF StockAgrees, ReservedIsClaimed
  <1>. QED
    BY <1>1, <1>2, <1>3, <1>4

LEMMA StartCountingAgrees ==
    ASSUME OrdersConsistent, StockAgrees, NEW v \in Variants,
           NEW n \in 0..MaxStock, StartCounting(v, n)
    PROVE  StockAgrees'
  <1>1. SameClaims /\ HoldsFollowOrders'
    BY StockingKeepsClaims DEF StartCounting, StockAgrees
  <1>2. /\ UNCHANGED <<reserved, captured>> /\ counted' = counted \cup {v}
        /\ v \notin counted /\ PolicyMayChange(v) /\ n \in Nat
    BY OrdersAssumption DEF StartCounting, holdVars
  <1>3. ClaimedIsCounted' /\ IsFiniteSet(Claiming)' /\ IsFiniteSet(OnTheWay)'
    BY <1>1, <1>2 DEF StockAgrees, ClaimedIsCounted, SameClaims, Bought
  <1>4. ReservedIsClaimed'
    BY <1>1, <1>2, SameClaimsKeepTotals DEF StockAgrees, ReservedIsClaimed
  <1>5. /\ onHand'[v] = n /\ owned'[v] = n
        /\ \A u \in counted : onHand'[u] = onHand[u] /\ owned'[u] = owned[u]
    BY <1>2, StockFacts DEF StartCounting
  <1>6. reserved[v] = 0 /\ Total(Taken(v), OnTheWay) = 0
    BY <1>2, NobodyTakes
  <1>7. ReservedIsOnHand'
    BY <1>2, <1>5, <1>6 DEF StockAgrees, ReservedIsOnHand
  <1>8. CashGoodsAreOwned'
    <2>1. SUFFICES ASSUME NothingPaidOnline', NEW u \in counted \cup {v}
                   PROVE  onHand'[u] + Total(Taken(u), OnTheWay) = owned'[u]
      BY <1>1, <1>2, SameClaimsKeepTotals DEF CashGoodsAreOwned
    <2>2. CASE u = v
      BY <1>2, <1>5, <1>6, <2>2
    <2>3. CASE u \in counted
      BY <1>1, <1>5, <2>1, <2>3 DEF StockAgrees, CashGoodsAreOwned, SameClaims
    <2>. QED
      BY <2>1, <2>2, <2>3
  <1>. QED
    BY <1>1, <1>3, <1>4, <1>7, <1>8 DEF StockAgrees

LEMMA StopCountingAgrees ==
    ASSUME OrdersConsistent, StockAgrees, NEW v \in Variants, StopCounting(v)
    PROVE  StockAgrees'
  <1>1. SameClaims /\ HoldsFollowOrders'
    BY StockingKeepsClaims DEF StopCounting, StockAgrees
  <1>2. /\ UNCHANGED <<reserved, captured>> /\ counted' = counted \ {v}
        /\ PolicyMayChange(v) /\ reserved[v] = 0
    BY DEF StopCounting, holdVars
  <1>3. \A o \in Claiming \cup OnTheWay : v \notin captured[o]
    BY <1>2, NobodyTakes
  <1>4. ClaimedIsCounted' /\ IsFiniteSet(Claiming)' /\ IsFiniteSet(OnTheWay)'
    BY <1>1, <1>2, <1>3 DEF StockAgrees, ClaimedIsCounted, SameClaims, Bought
  <1>5. ReservedIsClaimed'
    BY <1>1, <1>2, SameClaimsKeepTotals DEF StockAgrees, ReservedIsClaimed
  <1>6. \A u \in counted' : onHand'[u] = onHand[u] /\ owned'[u] = owned[u]
    BY <1>2, StockFacts DEF StopCounting
  <1>7. ReservedIsOnHand'
    BY <1>2, <1>6 DEF StockAgrees, ReservedIsOnHand
  <1>8. CashGoodsAreOwned'
    BY <1>1, <1>2, <1>6, SameClaimsKeepTotals
       DEF StockAgrees, CashGoodsAreOwned, SameClaims
  <1>. QED
    BY <1>1, <1>4, <1>5, <1>7, <1>8 DEF StockAgrees

LEMMA StockingAgrees ==
    ASSUME OrdersConsistent, StockAgrees, Stocking
    PROVE  StockAgrees'
  BY SetOnHandAgrees, StartCountingAgrees, StopCountingAgrees DEF Stocking

-----------------------------------------------------------------------------
(* Commands *)

\* The row of the order after the command: the new status, the same method.
LEMMA TransitionRow ==
    ASSUME OrdersConsistent, NEW r \in Requests, Transition(r),
           r.op \in Transitions
    PROVE  /\ order'[r.order].status = To(r.op)
           /\ order'[r.order].method = order[r.order].method
           /\ \A p \in Orders \ {r.order} : order'[p] = order[p]
  <1> DEFINE o == r.order
             row == order[o]
  <1>1. o \in Orders /\ row \in OrderRows /\ order \in [Orders -> OrderRows]
    BY StockFacts DEF Requests
  <1>2. PICK p : order' = [order EXCEPT ![o] =
                   [row EXCEPT !.status = To(r.op),
                               !.version = row.version + 1, !.payment = p]]
    BY DEF Transition
  <1> DEFINE new == [row EXCEPT !.status = To(r.op),
                                !.version = row.version + 1, !.payment = p]
  <1>3. new.status = To(r.op) /\ new.method = row.method
    BY <1>1 DEF OrderRows
  <1>4. order' = [order EXCEPT ![o] = new]
    BY <1>2
  <1> HIDE DEF new
  <1>. QED
    BY <1>1, <1>3, <1>4

\* The order still holds its units and gives them up.
GivesUp(r) ==
    hold[r.order] = "held" /\ To(r.op) \in {"cancelled", "shipped"}

\* What each transition takes from the shelf, the counter and the Store.
LEMMA TransitionCounts ==
    ASSUME OrdersConsistent, StockAgrees, NEW r \in Requests,
           r.op \in Transitions, Transitable(r), Transition(r)
    PROVE  LET o == r.order  to == To(r.op) IN
           /\ o \in Orders /\ UNCHANGED <<captured, counted>>
           /\ \A p \in Orders \ {o} : hold'[p] = hold[p]
           /\ GivesUp(r) /\ to = "cancelled" => hold'[o] = "released"
           /\ GivesUp(r) /\ to = "shipped" => hold'[o] = "consumed"
           /\ to = "returned" => hold'[o] = "returned"
           /\ ~GivesUp(r) /\ to # "returned" => hold'[o] = hold[o]
           /\ \A v \in Variants :
                 /\ GivesUp(r) => reserved'[v] = reserved[v] - Units(o, v)
                 /\ ~GivesUp(r) => reserved'[v] = reserved[v]
                 /\ GivesUp(r) /\ to = "shipped" =>
                       onHand'[v] = onHand[v] - Units(o, v)
                 /\ to = "returned" => onHand'[v] = onHand[v] + Units(o, v)
                 /\ ~(GivesUp(r) /\ to = "shipped") /\ to # "returned" =>
                       onHand'[v] = onHand[v]
                 /\ to = "delivered" /\ v \in counted =>
                       owned'[v] = owned[v] - Units(o, v)
                 /\ to # "delivered" => owned'[v] = owned[v]
  <1> DEFINE o == r.order
             to == To(r.op)
  <1>1. o \in Orders /\ UNCHANGED <<captured, counted>>
    BY DEF Requests, Transition
  <1>2. /\ order[o].status \in From(r.op)
        /\ ApplyReservations(o, Moves(r.op)) /\ TrackOwnership(o, r.op)
    BY DEF Transitable, Transition
  <1>3. \A v \in Variants :
           /\ Units(o, v) \in Nat /\ owned[v] \in Int /\ onHand[v] \in Nat
           /\ reserved[v] \in Nat
    BY <1>1, StockFacts
  <1>4. \A v \in Variants :
           /\ to = "delivered" /\ v \in counted =>
                 owned'[v] = owned[v] - Units(o, v)
           /\ to # "delivered" => owned'[v] = owned[v]
    <2>1. to = "delivered" <=> r.op = "deliver"
      BY DEF To, Transitions
    <2>. HIDE DEF to
    <2>. QED
      BY <1>2, <1>3, <2>1 DEF TrackOwnership
  <1> HIDE DEF to
  <1>5. CASE to = "cancelled"
    <2>1. Moves(r.op) = <<"held", "released">>
      BY <1>5 DEF Moves, to
    <2>2. CASE hold[o] = "held"
      <3>1. /\ hold' = [hold EXCEPT ![o] = "released"]
            /\ \A v \in Variants : /\ reserved'[v] = reserved[v] - Units(o, v)
                                   /\ onHand'[v] = onHand[v]
        BY <1>2, <2>1, <2>2 DEF ApplyReservations
      <3>. QED
        BY <1>1, <1>4, <1>5, <2>2, <3>1, StockFacts DEF GivesUp, to
    <2>3. CASE hold[o] # "held"
      <3>1. UNCHANGED <<hold, reserved, onHand>>
        BY <1>2, <2>1, <2>3 DEF ApplyReservations
      <3>. QED
        BY <1>1, <1>4, <1>5, <2>3, <3>1 DEF GivesUp, to
    <2>. QED
      BY <2>2, <2>3
  <1>6. CASE to = "shipped"
    <2>1. Moves(r.op) = <<"held", "consumed">>
      BY <1>6 DEF Moves, to
    <2>2. CASE hold[o] = "held"
      <3>1. /\ hold' = [hold EXCEPT ![o] = "consumed"]
            /\ \A v \in Variants : /\ reserved'[v] = reserved[v] - Units(o, v)
                                   /\ onHand'[v] = onHand[v] - Units(o, v)
        BY <1>2, <2>1, <2>2 DEF ApplyReservations
      <3>. QED
        BY <1>1, <1>4, <1>6, <2>2, <3>1, StockFacts DEF GivesUp, to
    <2>3. CASE hold[o] # "held"
      <3>1. UNCHANGED <<hold, reserved, onHand>>
        BY <1>2, <2>1, <2>3 DEF ApplyReservations
      <3>. QED
        BY <1>1, <1>4, <1>6, <2>3, <3>1 DEF GivesUp, to
    <2>. QED
      BY <2>2, <2>3
  <1>7. CASE to = "returned"
    <2>1. Moves(r.op) = <<"consumed", "returned">>
      BY <1>7 DEF Moves, to
    <2>2. From(r.op) = {"shipped"}
      BY <1>7 DEF To, From, Transitions, to
    <2>3. hold[o] = "consumed"
      BY <1>1, <1>2, <2>2 DEF StockAgrees, HoldsFollowOrders
    <2>4. /\ hold' = [hold EXCEPT ![o] = "returned"]
          /\ \A v \in Variants : /\ reserved'[v] = reserved[v] - 0
                                 /\ onHand'[v] = onHand[v] + Units(o, v)
      BY <1>2, <2>1, <2>3 DEF ApplyReservations
    <2>5. \A v \in Variants : reserved'[v] = reserved[v]
      BY <1>3, <2>4
    <2>. QED
      BY <1>1, <1>4, <1>7, <2>3, <2>4, <2>5, StockFacts DEF GivesUp, to
  <1>8. CASE to \notin {"cancelled", "shipped", "returned"}
    <2>1. Moves(r.op) = <<"none", "none">>
      BY <1>8 DEF Moves, to
    <2>2. UNCHANGED <<hold, reserved, onHand>>
      BY <1>2, <2>1 DEF ApplyReservations
    <2>. QED
      BY <1>1, <1>4, <1>8, <2>2 DEF GivesUp, to
  <1>. QED
    BY <1>5, <1>6, <1>7, <1>8

LEMMA TransitionAgrees ==
    ASSUME OrdersConsistent, StockAgrees, NEW r \in Requests,
           r.op \in Transitions, Transitable(r), Transition(r)
    PROVE  StockAgrees'
  <1> DEFINE o == r.order
             to == To(r.op)
             held == GivesUp(r)
  <1>1. /\ o \in Orders /\ UNCHANGED <<captured, counted>>
        /\ \A p \in Orders \ {o} : hold'[p] = hold[p] /\ order'[p] = order[p]
        /\ held /\ to = "cancelled" => hold'[o] = "released"
        /\ held /\ to = "shipped" => hold'[o] = "consumed"
        /\ to = "returned" => hold'[o] = "returned"
        /\ ~held /\ to # "returned" => hold'[o] = hold[o]
        /\ order'[o].status = to /\ order'[o].method = order[o].method
    <2>. HIDE DEF to, held
    <2>. QED
      BY TransitionCounts, TransitionRow DEF to, held
  <1>2. \A v \in Variants :
           /\ held => reserved'[v] = reserved[v] - Units(o, v)
           /\ ~held => reserved'[v] = reserved[v]
           /\ held /\ to = "shipped" => onHand'[v] = onHand[v] - Units(o, v)
           /\ to = "returned" => onHand'[v] = onHand[v] + Units(o, v)
           /\ ~(held /\ to = "shipped") /\ to # "returned" =>
                 onHand'[v] = onHand[v]
           /\ to = "delivered" /\ v \in counted =>
                 owned'[v] = owned[v] - Units(o, v)
           /\ to # "delivered" => owned'[v] = owned[v]
    BY TransitionCounts
  <1>3. \/ to \in {"preparing", "cancelled", "shipped"}
              /\ order[o].status \in {"placed", "preparing"}
        \/ to \in {"delivered", "returned"} /\ order[o].status = "shipped"
    BY DEF Transitable, Transitions, To, From
  <1>4. order[o].method \in {"cod", "online"}
    BY <1>1, StockFacts DEF OrderRows
  <1>5. \/ /\ order[o].status \in {"placed", "preparing"}
           /\ hold[o] = IF order[o].method = "cod" THEN "held" ELSE "consumed"
        \/ order[o].status = "shipped" /\ hold[o] = "consumed"
    BY <1>1, <1>3 DEF StockAgrees, HoldsFollowOrders
  <1>6. held <=> hold[o] = "held" /\ to \in {"cancelled", "shipped"}
    BY DEF GivesUp
  <1> HIDE DEF o, to, held
  <1>7. HoldsFollowOrders'
    BY <1>1, <1>3, <1>4, <1>5, <1>6 DEF StockAgrees, HoldsFollowOrders
  <1>8. Claiming' = IF held THEN Claiming \ {o} ELSE Claiming
    BY <1>1, <1>3, <1>4, <1>5, <1>6 DEF Claiming, PaidOnline
  <1>9. /\ OnTheWay' = IF to = "shipped" THEN OnTheWay \cup {o}
                                         ELSE OnTheWay \ {o}
        /\ order[o].status # "shipped" => o \notin OnTheWay
        /\ order[o].status = "shipped" => o \in OnTheWay
    BY <1>1, <1>3 DEF OnTheWay
  <1>10. /\ NothingPaidOnline' => NothingPaidOnline
         /\ NothingPaidOnline' => order[o].method = "cod"
         /\ held => o \in Claiming
         /\ to = "shipped" => o \in Claiming
    BY <1>1, <1>3, <1>4, <1>5, <1>6 DEF NothingPaidOnline, Claiming, PaidOnline
  <1>11. ClaimedIsCounted'
    <2>1. Claiming' \cup OnTheWay' \subseteq Claiming \cup OnTheWay
      BY <1>8, <1>9, <1>10
    <2>2. \A p \in Orders : Bought(p)' = Bought(p)
      BY <1>1 DEF Bought
    <2>. QED
      BY <1>1, <2>1, <2>2 DEF StockAgrees, ClaimedIsCounted
  <1>12. /\ IsFiniteSet(Claiming) /\ IsFiniteSet(OnTheWay)
         /\ IsFiniteSet(Claiming') /\ IsFiniteSet(OnTheWay')
    BY <1>8, <1>9, FS_AddElement, FS_RemoveElement DEF StockAgrees
  <1>13. ASSUME NEW v \in Variants
         PROVE  /\ Taken(v)' = Taken(v) /\ Taken(v)[o] = Units(o, v)
                /\ \A p \in Claiming \cup OnTheWay \cup {o} : Taken(v)[p] \in Nat
                /\ Units(o, v) \in Nat /\ onHand[v] \in Nat /\ owned[v] \in Int
                /\ reserved[v] \in Nat
                /\ Total(Taken(v), OnTheWay) \in Nat
    <2>1. Taken(v)' = Taken(v)
      BY <1>1 DEF Taken, Units
    <2>2. \A p \in Claiming \cup OnTheWay \cup {o} : Taken(v)[p] \in Nat
      BY <1>1, StockFacts DEF Claiming, OnTheWay
    <2>. QED
      BY <1>1, <1>12, <2>1, <2>2, StockFacts, TotalType
  <1>14. ReservedIsClaimed'
    <2>1. SUFFICES ASSUME NEW v \in Variants
                   PROVE  reserved'[v] = Total(Taken(v), Claiming')
      BY <1>13 DEF ReservedIsClaimed
    <2>2. reserved[v] = Total(Taken(v), Claiming)
      BY DEF StockAgrees, ReservedIsClaimed
    <2>3. CASE held
      <3>1. Total(Taken(v), Claiming)
               = Taken(v)[o] + Total(Taken(v), Claiming \ {o})
        <4>1. o \in Claiming /\ \A p \in Claiming : Taken(v)[p] \in Nat
          BY <1>10, <1>13, <2>3
        <4>. QED
          BY <1>12, <4>1, TotalRemove
      <3>2. Total(Taken(v), Claiming \ {o}) \in Nat
        <4>1. IsFiniteSet(Claiming \ {o})
          BY <1>12, FS_RemoveElement
        <4>2. \A p \in Claiming \ {o} : Taken(v)[p] \in Nat
          BY <1>13
        <4>. QED
          BY <4>1, <4>2, TotalType
      <3>3. reserved'[v] = reserved[v] - Taken(v)[o] /\ Taken(v)[o] \in Nat
        BY <1>2, <1>13, <2>1, <2>3
      <3>4. reserved'[v] = Total(Taken(v), Claiming \ {o})
        <4>. DEFINE rest == Total(Taken(v), Claiming \ {o})
                    unit == Taken(v)[o]
        <4>1. reserved[v] = unit + rest /\ unit \in Nat /\ rest \in Nat
          BY <2>2, <3>1, <3>2, <3>3
        <4>2. reserved'[v] = reserved[v] - unit
          BY <3>3
        <4>. HIDE DEF rest, unit
        <4>3. reserved'[v] = rest
          BY <4>1, <4>2
        <4>. QED
          BY <4>3 DEF rest
      <3>. QED
        BY <1>8, <2>3, <3>4
    <2>4. CASE ~held
      <3>1. reserved'[v] = reserved[v]
        BY <1>2, <1>13, <2>4
      <3>. QED
        BY <1>8, <2>2, <2>4, <3>1
    <2>. QED
      BY <2>3, <2>4
  <1>15. ReservedIsOnHand'
    <2>1. SUFFICES ASSUME NEW v \in counted PROVE reserved'[v] <= onHand'[v]
      BY <1>1 DEF ReservedIsOnHand
    <2>2. v \in Variants /\ reserved[v] <= onHand[v]
      BY StockFacts DEF StockAgrees, ReservedIsOnHand
    <2>3. \/ to = "shipped" /\ held
          \/ to = "returned" /\ ~held
          \/ ~(to = "shipped" /\ held) /\ to # "returned"
      BY <1>6
    <2>4. /\ reserved[v] \in Nat /\ onHand[v] \in Nat /\ Units(o, v) \in Nat
      BY <1>13, <2>2
    <2>5. CASE to = "shipped" /\ held
      <3>1. /\ reserved'[v] = reserved[v] - Units(o, v)
            /\ onHand'[v] = onHand[v] - Units(o, v)
        BY <1>2, <2>2, <2>5
      <3>. QED
        BY <2>2, <2>4, <3>1
    <2>6. CASE to = "returned" /\ ~held
      <3>1. /\ reserved'[v] = reserved[v]
            /\ onHand'[v] = onHand[v] + Units(o, v)
        BY <1>2, <2>2, <2>6
      <3>. QED
        BY <2>2, <2>4, <3>1
    <2>7. CASE ~(to = "shipped" /\ held) /\ to # "returned"
      <3>1. /\ reserved'[v] <= reserved[v]
            /\ onHand'[v] = onHand[v]
        <4>1. onHand'[v] = onHand[v]
          BY <1>2, <2>2, <2>7
        <4>2. \/ reserved'[v] = reserved[v]
              \/ reserved'[v] = reserved[v] - Units(o, v)
          BY <1>2, <2>2
        <4>. QED
          BY <2>4, <4>1, <4>2
      <3>2. reserved'[v] \in Int
        BY <1>2, <2>2, <2>4
      <3>. QED
        BY <2>2, <2>4, <3>1, <3>2
    <2>. QED
      BY <2>3, <2>5, <2>6, <2>7
  <1>16. CashGoodsAreOwned'
    <2>1. SUFFICES ASSUME NothingPaidOnline', NEW v \in counted
                   PROVE  onHand'[v] + Total(Taken(v), OnTheWay') = owned'[v]
      BY <1>1, <1>13, StockFacts DEF CashGoodsAreOwned
    <2>2. /\ v \in Variants
          /\ onHand[v] + Total(Taken(v), OnTheWay) = owned[v]
      <3>1. NothingPaidOnline
        BY <1>10, <2>1
      <3>. QED
        BY <2>1, <3>1, StockFacts DEF StockAgrees, CashGoodsAreOwned
    <2>3. CASE to = "shipped"
      <3>1. held /\ o \notin OnTheWay
        <4>1. order[o].status \in {"placed", "preparing"}
          BY <1>3, <2>3
        <4>2. order[o].method = "cod"
          BY <1>10, <2>1
        <4>3. hold[o] = "held"
          BY <1>5, <4>1, <4>2
        <4>. QED
          BY <1>6, <1>9, <2>3, <4>1, <4>3
      <3>2. Total(Taken(v), OnTheWay \cup {o})
               = Total(Taken(v), OnTheWay) + Taken(v)[o]
        BY <1>12, <1>13, <2>2, <3>1, TotalAdd
      <3>3. onHand'[v] = onHand[v] - Taken(v)[o] /\ owned'[v] = owned[v]
        BY <1>2, <1>13, <2>2, <2>3, <3>1
      <3>4. onHand'[v] + Total(Taken(v), OnTheWay \cup {o}) = owned'[v]
        BY <1>13, <2>2, <3>2, <3>3
      <3>. QED
        BY <1>9, <2>3, <3>4
    <2>4. CASE to \in {"delivered", "returned"}
      <3>1. o \in OnTheWay
        BY <1>3, <1>9, <2>4
      <3>2. Total(Taken(v), OnTheWay)
               = Taken(v)[o] + Total(Taken(v), OnTheWay \ {o})
        BY <1>12, <1>13, <2>2, <3>1, TotalRemove
      <3>3. Total(Taken(v), OnTheWay \ {o}) \in Nat
        <4>1. IsFiniteSet(OnTheWay \ {o})
          BY <1>12, FS_RemoveElement
        <4>2. \A p \in OnTheWay \ {o} : Taken(v)[p] \in Nat
          BY <1>13, <2>2
        <4>. QED
          BY <4>1, <4>2, TotalType
      <3>4. /\ to = "delivered" => onHand'[v] = onHand[v]
                                   /\ owned'[v] = owned[v] - Taken(v)[o]
            /\ to = "returned" => onHand'[v] = onHand[v] + Taken(v)[o]
                                  /\ owned'[v] = owned[v]
        BY <1>2, <1>13, <2>2, <2>4
      <3>5. onHand'[v] + Total(Taken(v), OnTheWay \ {o}) = owned'[v]
        BY <1>13, <2>2, <2>4, <3>2, <3>3, <3>4
      <3>. QED
        BY <1>9, <2>4, <3>5
    <2>5. CASE to \notin {"shipped", "delivered", "returned"}
      <3>1. OnTheWay' = OnTheWay
        BY <1>3, <1>9, <2>5
      <3>2. onHand'[v] = onHand[v] /\ owned'[v] = owned[v]
        BY <1>2, <1>13, <2>2, <2>5
      <3>. QED
        BY <2>2, <3>1, <3>2
    <2>. QED
      BY <2>3, <2>4, <2>5
  <1>. QED
    BY <1>7, <1>11, <1>12, <1>14, <1>15, <1>16 DEF StockAgrees

LEMMA RetryAgrees ==
    ASSUME OrdersConsistent, StockAgrees, NEW r \in Requests, RetryRefund(r)
    PROVE  StockAgrees'
  <1> DEFINE o == r.order
             row == [order[o] EXCEPT !.payment = "refund_pending",
                                     !.version = order[o].version + 1]
  <1>1. /\ o \in Orders /\ order[o] \in OrderRows
        /\ order \in [Orders -> OrderRows]
    BY StockFacts DEF Requests
  <1>2. row.status = order[o].status /\ row.method = order[o].method
    BY <1>1 DEF OrderRows
  <1>3. order' = [order EXCEPT ![o] = row] /\ UNCHANGED <<holdVars, stockVars>>
    BY <1>1 DEF RetryRefund, OrderRows
  <1> HIDE DEF row
  <1>4. \A p \in Orders : /\ order'[p].status = order[p].status
                          /\ order'[p].method = order[p].method
    BY <1>1, <1>2, <1>3
  <1>5. SameClaims
    BY <1>3, <1>4 DEF SameClaims, Claiming, OnTheWay, NothingPaidOnline,
                      PaidOnline, holdVars
  <1>6. HoldsFollowOrders'
    BY <1>3, <1>4 DEF StockAgrees, HoldsFollowOrders, holdVars
  <1>. QED
    BY <1>3, <1>5, <1>6, CountersUntouched

LEMMA CommandingAgrees ==
    ASSUME OrdersConsistent, StockAgrees, Commanding
    PROVE  StockAgrees'
  <1>1. ASSUME NEW c \in Callers, Execute(c)
        PROVE  StockAgrees'
    <2> DEFINE r == call[c]
    <2>1. r \in Requests
      BY <1>1 DEF Execute, OrdersConsistent, OrdersTypeOK
    <2>2. CASE r.op = "refund-retry"
      <3>1. RetryRefund(r)
        BY <1>1, <2>2 DEF Execute
      <3>. QED
        BY <2>1, <3>1, RetryAgrees
    <2>3. CASE r.op # "refund-retry"
      <3>1. Transitable(r) /\ Transition(r) /\ r.op \in Transitions
        BY <1>1, <2>1, <2>3, OrdersAssumption DEF Execute, Refused, Requests
      <3>. QED
        BY <2>1, <3>1, TransitionAgrees
    <2>. QED
      BY <2>2, <2>3
  <1>2. ASSUME NEW c \in Callers, AnswerOnly(c) \/ \E r : Submit(c, r)
        PROVE  StockAgrees'
    BY <1>2, GoodsUntouched DEF AnswerOnly, Submit
  <1>. QED
    BY <1>1, <1>2 DEF Commanding

-----------------------------------------------------------------------------
(* The theorems *)

\* The counters agree with the orders in every reachable state: what is
\* reserved is what held orders and orders paid online captured, and is on hand.
THEOREM OrdersStockConsistency == OrdersSpec => []StockAgrees
  <1>1. OrdersInit => StockAgrees
    <2>1. SUFFICES ASSUME OrdersInit PROVE StockAgrees
      OBVIOUS
    <2>2. Claiming = {} /\ OnTheWay = {}
      BY <2>1 DEF OrdersInit, Claiming, OnTheWay, PaidOnline, NoOrder
    <2>3. HoldsFollowOrders /\ ClaimedIsCounted
      BY <2>1, <2>2 DEF OrdersInit, HoldsFollowOrders, ClaimedIsCounted, NoOrder
    <2>4. \A v \in Variants : /\ reserved[v] = 0 /\ owned[v] = onHand[v]
                              /\ onHand[v] = MaxStock
      BY <2>1 DEF OrdersInit
    <2>5. counted = Variants /\ MaxStock \in Nat
      BY <2>1, OrdersAssumption DEF OrdersInit
    <2>6. \A v : Total(Taken(v), {}) = 0
      BY TotalEmpty
    <2>7. ReservedIsClaimed /\ ReservedIsOnHand /\ CashGoodsAreOwned
      BY <2>2, <2>4, <2>5, <2>6
         DEF ReservedIsClaimed, ReservedIsOnHand, CashGoodsAreOwned
    <2>. QED
      BY <2>2, <2>3, <2>7, FS_EmptySet DEF StockAgrees
  <1>2. OrdersConsistent /\ StockAgrees /\ [OrdersNext]_orderVars => StockAgrees'
    <2>1. ASSUME StockAgrees, UNCHANGED orderVars
          PROVE  StockAgrees'
      BY <2>1, GoodsUntouched DEF orderVars
    <2>. QED
      BY <2>1, PlacingAgrees, StockingAgrees, CommandingAgrees DEF OrdersNext
  <1>. QED
    BY <1>1, <1>2, OrdersConsistency, PTL DEF OrdersSpec

\* No order is ever stuck for stock, whatever the merchant edits meanwhile.
THEOREM OrdersAreNeverStuck == OrdersSpec => []OrdersCanMove
  <1>1. OrdersConsistent /\ StockAgrees => OrdersCanMove
    <2>1. SUFFICES ASSUME OrdersConsistent, StockAgrees PROVE OrdersCanMove
      OBVIOUS
    <2>2. ASSUME NEW o \in Orders, hold[o] = "held", NEW v \in captured[o]
          PROVE  /\ v \in counted /\ reserved[v] >= Lines[o][v]
                 /\ onHand[v] >= Lines[o][v]
      <3>1. o \in Claiming /\ v \in counted /\ v \in Variants
        BY <2>1, <2>2, StockFacts
           DEF Claiming, StockAgrees, ClaimedIsCounted
      <3>2. \A p \in Claiming : Taken(v)[p] \in Nat
        BY <2>1, <3>1, StockFacts DEF Claiming
      <3>3. Taken(v)[o] <= Total(Taken(v), Claiming)
        BY <2>1, <3>1, <3>2, TotalBounds DEF StockAgrees
      <3>4. Taken(v)[o] = Lines[o][v] /\ Lines[o][v] \in Nat
        BY <2>2, <3>1, OrdersAssumption DEF Taken, Units
      <3>5. /\ reserved[v] = Total(Taken(v), Claiming)
            /\ reserved[v] <= onHand[v]
            /\ reserved[v] \in Nat /\ onHand[v] \in Nat
        BY <2>1, <3>1, StockFacts
           DEF StockAgrees, ReservedIsClaimed, ReservedIsOnHand
      <3>. QED
        BY <3>1, <3>3, <3>4, <3>5
    <2>3. ASSUME NEW o \in Orders
          PROVE  /\ StockFollows(o, <<"held", "released">>)
                 /\ StockFollows(o, <<"held", "consumed">>)
      BY <2>2 DEF StockFollows
    <2>. QED
      BY <2>1, <2>3
         DEF OrdersCanMove, Open, OnTheWay, StockAgrees, ClaimedIsCounted
  <1>. QED
    BY <1>1, OrdersConsistency, OrdersStockConsistency, PTL

\* While nothing is paid online, the counters follow the goods to the unit.
THEOREM CashStockIsExact == OrdersSpec => []CashStockFollowsGoods
  <1>1. OrdersConsistent /\ StockAgrees => CashStockFollowsGoods
    <2>1. SUFFICES ASSUME OrdersConsistent, StockAgrees, NothingPaidOnline,
                          NEW v \in counted
                   PROVE  /\ reserved[v] = UnitsOf(Open \cup Attempted, v)
                          /\ onHand[v] + UnitsOf(OnTheWay, v) = owned[v]
      BY DEF CashStockFollowsGoods, StockFollowsGoods
    <2>2. Claiming = Open \cup Attempted
      <3>1. \A o \in Orders : order[o] \in OrderRows
        BY <2>1, StockFacts
      <3>. QED
        BY <2>1, <3>1 DEF StockAgrees, HoldsFollowOrders, NothingPaidOnline,
           Claiming, PaidOnline, Open, Attempted, OrderRows, Statuses
    <2>3. /\ IsFiniteSet(Claiming) /\ IsFiniteSet(OnTheWay)
          /\ Claiming \in SUBSET Orders /\ OnTheWay \in SUBSET Orders
      BY <2>1 DEF StockAgrees, Claiming, OnTheWay
    <2>4. /\ UnitsOf(Claiming, v) = Total(Taken(v), Claiming)
          /\ UnitsOf(OnTheWay, v) = Total(Taken(v), OnTheWay)
      BY <2>3, SumOfUnits
    <2>5. v \in Variants
      BY <2>1, StockFacts
    <2>. QED
      BY <2>1, <2>2, <2>4, <2>5
         DEF StockAgrees, ReservedIsClaimed, CashGoodsAreOwned
  <1>. QED
    BY <1>1, OrdersConsistency, OrdersStockConsistency, PTL

=============================================================================
