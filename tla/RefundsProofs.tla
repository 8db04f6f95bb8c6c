---------------------------- MODULE RefundsProofs ----------------------------
(***************************************************************************)
(* Refunds of online orders, for any number of orders, workers, operations *)
(* and mishaps: that Stripe is never asked for two refunds at once, that   *)
(* the order's payment status, its last operation and Stripe agree, and    *)
(* that an order whose money went back is held for a person.               *)
(*                                                                         *)
(* The invariant says what each row knows of the others, and what a worker *)
(* may still rely on of what it read before its last transaction.          *)
(***************************************************************************)
EXTENDS Refunds, OrdersProofs, FiniteSetTheorems

-----------------------------------------------------------------------------
(* The inductive invariant *)

IsRefundOf(i, o, g) == i \in 1..Len(refund[o]) /\ refund[o][i].generation = g

\* Only cancelled and returned orders have operations; all but the last have
\* failed at Stripe, and only a pending one is leased.
OperationsAgree(o) ==
    /\ operation[o] # <<>> =>
          order[o].status \in Ended /\ order[o].method = "online"
    /\ Len(operation[o]) <= MaxGenerations
    /\ \A g \in 1..Len(operation[o]) :
          /\ g < Len(operation[o]) => operation[o][g].status = "failed"
          /\ operation[o][g].status # "pending" =>
                operation[o][g].lease = NoWorker
          /\ operation[o][g].id # 0 => IsRefundOf(operation[o][g].id, o, g)
          /\ operation[o][g].status = "failed" =>
                /\ operation[o][g].id # 0
                /\ refund[o][operation[o][g].id].status = "failed"

\* Stripe remembers the refund of an operation until the dispatch is old, and
\* has given or promised back no more than was paid.
RefundsAgree(o) ==
    /\ \A i \in 1..Len(refund[o]) :
          /\ refund[o][i].generation \in 1..Len(operation[o])
          /\ \/ keyed[o][refund[o][i].generation] = i
             \/ operation[o][refund[o][i].generation].dispatched = "old"
    /\ \A i, j \in 1..Len(refund[o]) : i < j =>
          /\ refund[o][i].generation < refund[o][j].generation
          /\ refund[o][i].status = "failed"
    /\ \A g \in Generations :
          keyed[o][g] # 0 => IsRefundOf(keyed[o][g], o, g)
    /\ external[o] > 0 =>
          \A i \in 1..Len(refund[o]) : refund[o][i].status = "failed"

PaymentAgrees(o) ==
    /\ order[o].payment = "refunded" => Refunded(o) = Full
    /\ order[o].payment \in {"refund_pending", "refund_failed"} =>
          operation[o] # <<>>
    /\ order[o].payment = "refund_pending" =>
          order[o].review \/ Last(o).status = "pending"
    /\ order[o].payment = "refund_failed" => Last(o).status = "failed"
    /\ operation[o] # <<>> /\ Last(o).status = "succeeded" =>
          order[o].payment = "refunded"
    /\ order[o].refunded > 0 /\ order[o].status \notin Ended =>
          order[o].review

\* What a worker that has begun relies on: its order stays ended, money that
\* went back stays back, and a dispatch does not grow old under it.
Knows(st) ==
    /\ st.on \in Paying
    /\ st.ended => order[st.on].status \in Ended
    /\ st.gen <= Len(operation[st.on])
    /\ st.gen = 0 => st.step \in {"charge", "settle"}
    /\ st.step \in {"settle", "close"} =>
          st.amount > 0 /\ st.amount <= Refunded(st.on)
    /\ st.gen # 0 /\ operation[st.on][st.gen].dispatched = "old" =>
          st.seen.dispatched = "old" /\ st.step \notin {"dispatch", "create"}
    /\ st.step = "retrieve" => IsRefundOf(st.seen.id, st.on, st.gen)
    /\ st.step = "apply" =>
          /\ IsRefundOf(st.got, st.on, st.gen)
          /\ st.answer \in {"pending", refund[st.on][st.got].status}

WorkAgrees(w) == worker[w].step # "idle" => Knows(worker[w])

\* A worker that still has its lease finds the order as it settled it.
LeaseProtects(w) ==
    LET row == order[worker[w].on] IN
    worker[w].step = "close" /\ Holds(w) =>
        row.payment = "refunded" \/ (worker[w].amount # Full /\ row.review)

RefundsConsistent ==
    /\ TypeOK /\ OrdersConsistent
    /\ \A o \in Orders : OperationsAgree(o) /\ RefundsAgree(o) /\ PaymentAgrees(o)
    /\ \A w \in Workers : WorkAgrees(w) /\ LeaseProtects(w)

-----------------------------------------------------------------------------
(* Rows *)

LEMMA SetRow ==
    ASSUME NEW T, NEW s \in Seq(T), NEW g \in 1..Len(s), NEW x \in T
    PROVE  LET t == [s EXCEPT ![g] = x] IN
           /\ t \in Seq(T) /\ Len(t) = Len(s) /\ t[g] = x
           /\ \A h \in 1..Len(s) : h # g => t[h] = s[h]
  OBVIOUS

\* One operation gets a new row.
Rewritten(o, g, row) ==
    /\ operation' \in [Orders -> Seq(OperationRows)]
    /\ operation'[o][g] = row
    /\ \A p \in Orders :
          /\ Len(operation'[p]) = Len(operation[p])
          /\ \A h \in 1..Len(operation[p]) :
                p # o \/ h # g => operation'[p][h] = operation[p][h]

LEMMA RowIsRewritten ==
    ASSUME TypeOK, NEW o \in Orders, NEW g \in 1..Len(operation[o]),
           NEW row \in OperationRows,
           operation' = [operation EXCEPT ![o][g] = row]
    PROVE  Rewritten(o, g, row)
  <1>1. operation \in [Orders -> Seq(OperationRows)]
    BY DEF TypeOK, OrdersTypeOK
  <1>2. operation[o] \in Seq(OperationRows)
    BY <1>1
  <1> DEFINE new == [operation[o] EXCEPT ![g] = row]
  <1>3. operation' = [operation EXCEPT ![o] = new]
    BY <1>1, <1>2
  <1>4. /\ new \in Seq(OperationRows) /\ Len(new) = Len(operation[o])
        /\ new[g] = row
        /\ \A h \in 1..Len(operation[o]) : h # g => new[h] = operation[o][h]
    BY <1>2, SetRow
  <1> HIDE DEF new
  <1>. QED
    BY <1>1, <1>3, <1>4 DEF Rewritten

LEMMA RowType ==
    ASSUME TypeOK, NEW o \in Orders, NEW g \in 1..Len(operation[o])
    PROVE  operation[o][g] \in OperationRows
  BY DEF TypeOK, OrdersTypeOK

LEMMA RefundRowType ==
    ASSUME TypeOK, NEW o \in Orders, NEW i \in 1..Len(refund[o])
    PROVE  refund[o][i] \in RefundRows
  BY DEF TypeOK

LEMMA OrderRowType ==
    ASSUME TypeOK, NEW o \in Orders
    PROVE  /\ order[o] \in OrderRows /\ operation[o] \in Seq(OperationRows)
           /\ refund[o] \in Seq(RefundRows) /\ external[o] \in 0..Full
           /\ Len(operation[o]) \in Nat /\ Len(refund[o]) \in Nat
           /\ keyed[o] \in [Generations -> Nat]
  BY DEF TypeOK, OrdersTypeOK

LEMMA Lease ==
    ASSUME NEW row \in OperationRows, NEW w \in Workers
    PROVE  LET new == [row EXCEPT !.lease = w, !.leaseOld = FALSE] IN
           /\ new \in OperationRows
           /\ new.status = row.status /\ new.id = row.id
           /\ new.dispatched = row.dispatched /\ new.lease = w
  BY DEF OperationRows

LEMMA Unlease ==
    ASSUME NEW row \in OperationRows
    PROVE  /\ Unleased(row) \in OperationRows
           /\ Unleased(row).status = row.status /\ Unleased(row).id = row.id
           /\ Unleased(row).dispatched = row.dispatched
           /\ Unleased(row).lease = NoWorker
  BY DEF OperationRows, Unleased

LEMMA SetOperationStatus ==
    ASSUME NEW row \in OperationRows,
           NEW s \in {"pending", "succeeded", "failed", "review_required"}
    PROVE  LET new == [row EXCEPT !.status = s] IN
           /\ new \in OperationRows
           /\ new.status = s /\ new.id = row.id
           /\ new.dispatched = row.dispatched /\ new.lease = row.lease
  BY DEF OperationRows

LEMMA UnleasedStatus ==
    ASSUME NEW row \in OperationRows,
           NEW s \in {"pending", "succeeded", "failed", "review_required"}
    PROVE  LET new == [Unleased(row) EXCEPT !.status = s] IN
           /\ new \in OperationRows
           /\ new.status = s /\ new.id = row.id
           /\ new.dispatched = row.dispatched /\ new.lease = NoWorker
  <1> DEFINE u == Unleased(row)
  <1>1. /\ u \in OperationRows /\ u.id = row.id
        /\ u.dispatched = row.dispatched /\ u.lease = NoWorker
    BY Unlease
  <1> HIDE DEF u
  <1>2. LET new == [u EXCEPT !.status = s] IN
           /\ new \in OperationRows
           /\ new.status = s /\ new.id = u.id
           /\ new.dispatched = u.dispatched /\ new.lease = u.lease
    BY <1>1, SetOperationStatus
  <1>. QED
    BY <1>1, <1>2 DEF u

LEMMA SetOperationId ==
    ASSUME NEW row \in OperationRows, NEW i \in Nat
    PROVE  LET new == [row EXCEPT !.id = i] IN
           /\ new \in OperationRows
           /\ new.status = row.status /\ new.id = i
           /\ new.dispatched = row.dispatched /\ new.lease = row.lease
  BY DEF OperationRows

-----------------------------------------------------------------------------
(* What went back *)

AllFailed(o) == \A i \in 1..Len(refund[o]) : refund[o][i].status = "failed"

LEMMA NoneOrOne ==
    ASSUME TypeOK, NEW o \in Orders, RefundsAgree(o),
           NEW S \in SUBSET {"pending", "succeeded"}
    PROVE  Cardinality(WithStatus(o, S)) =
               IF \E i \in 1..Len(refund[o]) : refund[o][i].status \in S
               THEN 1 ELSE 0
  <1>1. CASE \E i \in 1..Len(refund[o]) : refund[o][i].status \in S
    <2>1. PICK i \in 1..Len(refund[o]) : refund[o][i].status \in S
      BY <1>1
    <2>2. \A j \in 1..Len(refund[o]) : refund[o][j].status \in S => j = i
      <3>1. SUFFICES ASSUME NEW j \in 1..Len(refund[o]),
                            refund[o][j].status \in S, j # i
                     PROVE  FALSE
        OBVIOUS
      <3>2. i < j \/ j < i
        BY <3>1
      <3>3. refund[o][i].status = "failed" \/ refund[o][j].status = "failed"
        BY <3>2 DEF RefundsAgree
      <3>. QED
        BY <2>1, <3>1, <3>3
    <2>3. WithStatus(o, S) = {i}
      BY <2>1, <2>2 DEF WithStatus
    <2>. QED
      BY <1>1, <2>3, FS_Singleton
  <1>2. CASE ~\E i \in 1..Len(refund[o]) : refund[o][i].status \in S
    <2>1. WithStatus(o, S) = {}
      BY <1>2 DEF WithStatus
    <2>. QED
      BY <1>2, <2>1, FS_EmptySet
  <1>. QED
    BY <1>1, <1>2

LEMMA RefundedIs ==
    ASSUME TypeOK, NEW o \in Orders, RefundsAgree(o)
    PROVE  /\ Refunded(o) =
                 IF \E i \in 1..Len(refund[o]) : refund[o][i].status = "succeeded"
                 THEN Full ELSE external[o]
           /\ Committed(o) = IF AllFailed(o) THEN external[o] ELSE Full
           /\ Refunded(o) \in 0..Full
  <1>1. Cardinality(WithStatus(o, {"succeeded"})) =
            IF \E i \in 1..Len(refund[o]) : refund[o][i].status = "succeeded"
            THEN 1 ELSE 0
    BY NoneOrOne
  <1>2. Cardinality(WithStatus(o, {"pending", "succeeded"})) =
            IF \E i \in 1..Len(refund[o]) :
                  refund[o][i].status \in {"pending", "succeeded"}
            THEN 1 ELSE 0
    BY NoneOrOne
  <1>3. \A i \in 1..Len(refund[o]) :
            refund[o][i].status \in {"pending", "succeeded", "failed"}
    BY RefundRowType DEF RefundRows
  <1>4. external[o] \in 0..Full /\ (~AllFailed(o) => external[o] = 0)
    <2>1. external[o] \in 0..Full
      BY OrderRowType
    <2>2. external[o] > 0 => AllFailed(o)
      BY DEF RefundsAgree, AllFailed
    <2>. QED
      BY <2>1, <2>2 DEF Full
  <1>5. Refunded(o) =
            IF \E i \in 1..Len(refund[o]) : refund[o][i].status = "succeeded"
            THEN Full ELSE external[o]
    <2>1. CASE \E i \in 1..Len(refund[o]) : refund[o][i].status = "succeeded"
      <3>1. ~AllFailed(o)
        BY <2>1 DEF AllFailed
      <3>. QED
        BY <1>1, <1>4, <2>1, <3>1 DEF Refunded, Full
    <2>2. CASE ~\E i \in 1..Len(refund[o]) : refund[o][i].status = "succeeded"
      BY <1>1, <1>4, <2>2 DEF Refunded, Full
    <2>. QED
      BY <2>1, <2>2
  <1>6. Committed(o) = IF AllFailed(o) THEN external[o] ELSE Full
    <2>1. AllFailed(o) <=> ~\E i \in 1..Len(refund[o]) :
                  refund[o][i].status \in {"pending", "succeeded"}
      BY <1>3 DEF AllFailed
    <2>2. CASE AllFailed(o)
      BY <1>2, <1>4, <2>1, <2>2 DEF Committed, Full
    <2>3. CASE ~AllFailed(o)
      BY <1>2, <1>4, <2>1, <2>3 DEF Committed, Full
    <2>. QED
      BY <2>2, <2>3
  <1>7. Refunded(o) = Full \/ Refunded(o) = external[o]
    BY <1>5
  <1>8. Refunded(o) \in 0..Full
    BY <1>4, <1>7 DEF Full
  <1>. QED
    BY <1>5, <1>6, <1>8

LEMMA RefundedType ==
    ASSUME NEW o \in Orders, TypeOK', RefundsAgree(o)'
    PROVE  Refunded(o)' \in 0..Full
  <1>1. (TypeOK /\ RefundsAgree(o) => Refunded(o) \in 0..Full)'
    BY RefundedIs, PTL
  <1>. QED
    BY <1>1

-----------------------------------------------------------------------------
(* What a step may do to the rows *)

LEMMA EmptyIsZero ==
    ASSUME NEW T, NEW s \in Seq(T)
    PROVE  s = <<>> <=> Len(s) = 0
  OBVIOUS

OrdersStay ==
    \A p \in Orders : /\ order'[p].status = order[p].status
                      /\ order'[p].method = order[p].method

\* An operation that is over stays what it is, a failed one has its refund,
\* and an old dispatch stays old.
Lawful(o, g, row) ==
    LET old == operation[o][g] IN
    /\ row.status # "pending" => row.lease = NoWorker
    /\ old.status # "pending" => row.status = old.status /\ row.id = old.id
    /\ row.id = old.id \/ IsRefundOf(row.id, o, g)
    /\ row.status = "failed" =>
          \/ old.status = "failed"
          \/ row.id # 0 /\ refund[o][row.id].status = "failed"
    /\ old.dispatched = "old" => row.dispatched = "old"

LEMMA RewritingAgrees ==
    ASSUME RefundsConsistent, NEW o \in Orders, NEW g \in 1..Len(operation[o]),
           NEW row \in OperationRows, Rewritten(o, g, row), Lawful(o, g, row),
           UNCHANGED providerVars, OrdersStay
    PROVE  \A p \in Orders : OperationsAgree(p)' /\ RefundsAgree(p)'
  <1> SUFFICES ASSUME NEW p \in Orders
               PROVE  OperationsAgree(p)' /\ RefundsAgree(p)'
    OBVIOUS
  <1>1. OperationsAgree(p) /\ RefundsAgree(p) /\ TypeOK
    BY DEF RefundsConsistent
  <1>2. UNCHANGED <<refund, keyed, external>>
    BY DEF providerVars
  <1>3. Len(operation'[p]) = Len(operation[p])
    BY DEF Rewritten
  <1>4. operation'[p] = <<>> <=> operation[p] = <<>>
    <2>1. operation'[p] \in Seq(OperationRows)
      BY DEF Rewritten
    <2>. QED
      BY <1>1, <1>3, <2>1, OrderRowType, EmptyIsZero
  <1>5. \A h \in 1..Len(operation[p]) :
            \/ operation'[p][h] = operation[p][h]
            \/ p = o /\ h = g /\ operation'[p][h] = row
    BY DEF Rewritten
  <1>6. OperationsAgree(p)'
    <2>1. ASSUME NEW h \in 1..Len(operation[p])
          PROVE  /\ h < Len(operation[p]) => operation'[p][h].status = "failed"
                 /\ operation'[p][h].status # "pending" =>
                       operation'[p][h].lease = NoWorker
                 /\ operation'[p][h].id # 0 =>
                       IsRefundOf(operation'[p][h].id, p, h)
                 /\ operation'[p][h].status = "failed" =>
                       /\ operation'[p][h].id # 0
                       /\ refund[p][operation'[p][h].id].status = "failed"
      <3>1. CASE operation'[p][h] = operation[p][h]
        BY <1>1, <3>1 DEF OperationsAgree
      <3>2. CASE p = o /\ h = g /\ operation'[p][h] = row
        BY <1>1, <3>2 DEF OperationsAgree, Lawful
      <3>. QED
        BY <1>5, <3>1, <3>2
    <2>. QED
      BY <1>1, <1>2, <1>3, <1>4, <2>1
      DEF OperationsAgree, IsRefundOf, OrdersStay
  <1>7. RefundsAgree(p)'
    <2>1. \A h \in 1..Len(operation[p]) :
              operation[p][h].dispatched = "old" =>
                  operation'[p][h].dispatched = "old"
      BY <1>5 DEF Lawful
    <2>. QED
      BY <1>1, <1>2, <1>3, <2>1 DEF RefundsAgree, IsRefundOf
  <1>. QED
    BY <1>6, <1>7

LEMMA PaymentStays ==
    ASSUME RefundsConsistent, TypeOK', NEW o \in Orders,
           order'[o].payment = order[o].payment,
           order'[o].refunded = order[o].refunded,
           order'[o].status = order[o].status,
           order[o].review => order'[o].review,
           Len(operation'[o]) = Len(operation[o]),
           operation[o] # <<>> => Last(o)'.status = Last(o).status,
           RefundsAgree(o)', Refunded(o)' >= Refunded(o)
    PROVE  PaymentAgrees(o)'
  <1>1. PaymentAgrees(o) /\ TypeOK /\ RefundsAgree(o)
    BY DEF RefundsConsistent
  <1>2. operation'[o] = <<>> <=> operation[o] = <<>>
    <2>1. operation'[o] \in Seq(OperationRows)
      BY DEF TypeOK, OrdersTypeOK
    <2>. QED
      BY <1>1, <2>1, OrderRowType, EmptyIsZero
  <1>3. Refunded(o) \in 0..Full /\ Refunded(o)' \in 0..Full
    <2>1. Refunded(o) \in 0..Full
      BY <1>1, RefundedIs
    <2>2. Refunded(o)' \in 0..Full
      BY RefundedType
    <2>. QED
      BY <2>1, <2>2
  <1>4. Refunded(o) = Full => Refunded(o)' = Full
    BY <1>3 DEF Full
  <1>. QED
    BY <1>1, <1>2, <1>4 DEF PaymentAgrees

-----------------------------------------------------------------------------
(* What a step leaves of a worker's knowledge *)

RefundsGrow(o) ==
    /\ Len(refund'[o]) >= Len(refund[o])
    /\ \A i \in 1..Len(refund[o]) :
          /\ refund'[o][i].generation = refund[o][i].generation
          /\ refund[o][i].status # "pending" =>
                refund'[o][i].status = refund[o][i].status

Onward(o) ==
    /\ order[o].status \in Ended => order'[o].status \in Ended
    /\ o \in Paying => o \in Paying'
    /\ Len(operation'[o]) >= Len(operation[o])
    /\ RefundsGrow(o)
    /\ Refunded(o)' >= Refunded(o)
    /\ \A g \in 1..Len(operation[o]) :
          operation'[o][g].dispatched = "old" =>
              \/ operation[o][g].dispatched = "old"
              \/ \A w \in Workers : ~WorksOn(w, o, g)

LEMMA RefundStays ==
    ASSUME TypeOK, TypeOK', NEW o \in Orders, NEW i, NEW g, RefundsGrow(o),
           IsRefundOf(i, o, g)
    PROVE  /\ IsRefundOf(i, o, g)'
           /\ refund[o][i].status # "pending" =>
                 refund'[o][i].status = refund[o][i].status
  <1>1. Len(refund[o]) \in Nat /\ Len(refund'[o]) \in Nat
    BY DEF TypeOK
  <1>. QED
    BY <1>1 DEF IsRefundOf, RefundsGrow

LEMMA WorkerType ==
    ASSUME TypeOK, NEW w \in Workers
    PROVE  /\ worker[w] \in WorkerStates
           /\ worker[w].on \in Orders /\ worker[w].gen \in Nat
           /\ worker[w].gen \in {0} \cup Generations
           /\ worker[w].amount \in 0..Full /\ worker[w].got \in Nat
           /\ worker[w].seen \in OperationRows
  <1>1. worker[w] \in WorkerStates
    BY DEF TypeOK
  <1>2. MaxGenerations \in Nat
    BY OrdersAssumption
  <1>. QED
    BY <1>1, <1>2 DEF WorkerStates, Generations

LEMMA WorkStays ==
    ASSUME RefundsConsistent, TypeOK', NEW w \in Workers,
           worker'[w] = worker[w], Onward(worker[w].on),
           RefundsAgree(worker[w].on)'
    PROVE  WorkAgrees(w)'
  <1> PICK st \in WorkerStates, o \in Orders, g \in Nat :
          st = worker[w] /\ o = st.on /\ g = st.gen
    BY WorkerType DEF RefundsConsistent
  <1>1. SUFFICES ASSUME st.step # "idle" PROVE Knows(st)'
    BY DEF WorkAgrees
  <1>2. /\ TypeOK /\ Knows(st) /\ RefundsAgree(o) /\ Onward(o)
        /\ RefundsAgree(o)' /\ st.amount \in 0..Full
    <2>1. Knows(st)
      BY <1>1 DEF WorkAgrees, RefundsConsistent
    <2>2. st.amount \in 0..Full
      BY DEF WorkerStates
    <2>. QED
      BY <2>1, <2>2 DEF RefundsConsistent
  <1>3. Len(refund[o]) \in Nat /\ Len(refund'[o]) \in Nat
    BY <1>2 DEF TypeOK
  <1>4. Len(operation[o]) \in Nat /\ Len(operation'[o]) \in Nat
    BY <1>2 DEF TypeOK, OrdersTypeOK
  <1>5. o \in Paying' /\ (st.ended => order'[o].status \in Ended)
        /\ g <= Len(operation'[o])
    BY <1>2, <1>4 DEF Onward, Knows
  <1>6. st.step \in {"settle", "close"} =>
            st.amount > 0 /\ st.amount <= Refunded(o)'
    <2>1. Refunded(o) \in Nat /\ Refunded(o)' \in Nat
      <3>1. Refunded(o) \in 0..Full /\ Refunded(o)' \in 0..Full
        BY <1>2, RefundedIs, RefundedType
      <3>. QED
        BY <3>1 DEF Full
    <2>. QED
      BY <1>2, <2>1 DEF Knows, Onward, Full
  <1>7. g # 0 /\ operation'[o][g].dispatched = "old" =>
            st.seen.dispatched = "old" /\ st.step \notin {"dispatch", "create"}
    <2>1. g # 0 => g \in 1..Len(operation[o])
      BY <1>2, <1>4 DEF Knows
    <2>2. WorksOn(w, o, g)
      BY <1>1 DEF WorksOn
    <2>. QED
      BY <1>2, <2>1, <2>2 DEF Knows, Onward
  <1>8. st.step = "retrieve" => IsRefundOf(st.seen.id, o, g)'
    <2>1. st.step = "retrieve" => IsRefundOf(st.seen.id, o, g)
      BY <1>2 DEF Knows
    <2>. QED
      BY <1>2, <2>1, RefundStays DEF Onward
  <1>9. st.step = "apply" =>
            /\ IsRefundOf(st.got, o, g)'
            /\ st.answer \in {"pending", refund'[o][st.got].status}
    <2>1. st.step = "apply" =>
              /\ IsRefundOf(st.got, o, g)
              /\ st.answer \in {"pending", refund[o][st.got].status}
      BY <1>2 DEF Knows
    <2>. QED
      BY <1>2, <2>1, RefundStays DEF Onward
  <1>. QED
    BY <1>2, <1>5, <1>6, <1>7, <1>8, <1>9 DEF Knows

\* No step but the lease holder's takes a settled payment back.
NoOverwrite(o) ==
    \/ order'[o].payment = "refunded"
    \/ order'[o].payment = order[o].payment /\ (order[o].review => order'[o].review)


-----------------------------------------------------------------------------
(* Kinds of step *)

\* Nothing is lost of w's knowledge, whatever the others know.
StillAgrees(w) == w \in Workers => WorkAgrees(w) /\ LeaseProtects(w)

LEMMA StepAgrees ==
    ASSUME RefundsConsistent, TypeOK', OrdersConsistent',
           \A p \in Orders : OperationsAgree(p)' /\ RefundsAgree(p)'
                             /\ PaymentAgrees(p)' /\ Onward(p),
           NEW w, StillAgrees(w)',
           \A v \in Workers \ {w} :
               /\ worker'[v] = worker[v]
               /\ worker[v].step = "close" /\ Holds(v)' =>
                     Holds(v) /\ NoOverwrite(worker[v].on)
    PROVE  RefundsConsistent'
  <1>1. ASSUME NEW v \in Workers, v # w
        PROVE  WorkAgrees(v)' /\ LeaseProtects(v)'
    <2>1. /\ worker'[v] = worker[v]
          /\ worker[v].step = "close" /\ Holds(v)' =>
                Holds(v) /\ NoOverwrite(worker[v].on)
      BY <1>1
    <2>2. worker[v].on \in Orders
      BY WorkerType DEF RefundsConsistent
    <2>3. WorkAgrees(v)'
      <3>1. PICK o \in Orders : o = worker[v].on
        BY <2>2
      <3>2. Onward(worker[v].on) /\ RefundsAgree(o)'
        BY <3>1
      <3>3. RefundsAgree(worker[v].on)'
        BY <2>1, <3>1, <3>2
      <3>. QED
        BY <2>1, <3>2, <3>3, WorkStays
    <2>4. LeaseProtects(v)'
      <3>1. LeaseProtects(v)
        BY DEF RefundsConsistent
      <3>. QED
        BY <2>1, <3>1 DEF LeaseProtects, NoOverwrite
    <2>. QED
      BY <2>3, <2>4
  <1>2. ASSUME NEW v \in Workers
        PROVE  WorkAgrees(v)' /\ LeaseProtects(v)'
    <2>1. CASE v = w
      BY <2>1 DEF StillAgrees
    <2>. QED
      BY <1>1, <2>1
  <1>. QED
    BY <1>2 DEF RefundsConsistent

LEMMA RowsKept ==
    ASSUME OrdersConsistent, OrdersTypeOK', UNCHANGED requestVars,
           \A o \in Orders :
               /\ order'[o].version >= order[o].version
               /\ order'[o] = order[o] \/ order'[o].status # "none"
    PROVE  OrdersConsistent'
  <1>1. Quiet
    BY DEF Quiet, OrdersConsistent, Versioned, CallsHaveRead, requestVars
  <1>. QED
    BY <1>1, QuietStep

\* Both halves of a step that writes an operation and perhaps its order.
WritesOperation(o, g, row, w) ==
    /\ operation' = [operation EXCEPT ![o][g] = row]
    /\ row \in OperationRows /\ Lawful(o, g, row)
    /\ row.lease \in {operation[o][g].lease, NoWorker, w}
    /\ row.dispatched = "old" =>
          \/ operation[o][g].dispatched = "old"
          \/ \A v \in Workers : ~WorksOn(v, o, g)

WritesOrder(o) ==
    /\ order' \in [Orders -> OrderRows] /\ intent' \subseteq Intents
    /\ \A p \in Orders : p # o => order'[p] = order[p]
    /\ order'[o].status = order[o].status /\ order'[o].method = order[o].method
    /\ order'[o].version >= order[o].version
    /\ order'[o] = order[o] \/ order[o].status # "none"

WritesWorker(w) ==
    /\ worker' \in [Workers -> WorkerStates] /\ mishaps' \in Nat
    /\ \A v \in Workers : v # w => worker'[v] = worker[v]

OthersUntouched ==
    UNCHANGED <<providerVars, holdVars, stockVars, requestVars>>

LEMMA WritingTypes ==
    ASSUME RefundsConsistent, NEW o \in Orders, NEW w, WritesOrder(o),
           WritesWorker(w), OthersUntouched,
           operation' \in [Orders -> Seq(OperationRows)]
    PROVE  TypeOK' /\ OrdersConsistent' /\ OrdersStay
  <1>1. TypeOK /\ OrdersConsistent
    BY DEF RefundsConsistent
  <1>2. OrdersTypeOK'
    BY <1>1 DEF TypeOK, OrdersTypeOK, WritesOrder, OthersUntouched, holdVars,
                stockVars, requestVars
  <1>3. TypeOK'
    BY <1>1, <1>2 DEF TypeOK, WritesWorker, OthersUntouched, providerVars
  <1>4. OrdersStay
    BY DEF OrdersStay, WritesOrder
  <1>5. \A p \in Orders :
            /\ order'[p].version >= order[p].version
            /\ order'[p] = order[p] \/ order'[p].status # "none"
    <2>1. \A p \in Orders : order[p].version >= order[p].version
      BY <1>1, OrderRowType DEF OrderRows
    <2>. QED
      BY <2>1 DEF WritesOrder
  <1>6. OrdersConsistent'
    BY <1>1, <1>2, <1>5, RowsKept DEF OthersUntouched
  <1>. QED
    BY <1>3, <1>4, <1>6

LEMMA SameRefunded ==
    ASSUME RefundsConsistent, UNCHANGED providerVars, NEW p \in Orders
    PROVE  Refunded(p)' >= Refunded(p) /\ RefundsGrow(p) /\ Refunded(p)' = Refunded(p)
  <1>1. Refunded(p)' = Refunded(p)
    BY DEF providerVars, Refunded, WithStatus
  <1>2. Refunded(p) \in 0..Full
    BY RefundedIs DEF RefundsConsistent
  <1>3. Len(refund[p]) \in Nat /\ refund'[p] = refund[p]
    BY OrderRowType DEF RefundsConsistent, providerVars
  <1>. QED
    BY <1>1, <1>2, <1>3 DEF RefundsGrow, Full

LEMMA OperationStep ==
    ASSUME RefundsConsistent, NEW o \in Orders, NEW g \in 1..Len(operation[o]),
           NEW row, NEW w, WritesOperation(o, g, row, w), WritesOrder(o),
           WritesWorker(w), OthersUntouched,
           NoOverwrite(o) \/ (w \in Workers /\ operation[o][g].lease = w),
           PaymentAgrees(o)', StillAgrees(w)'
    PROVE  RefundsConsistent'
  <1>1. TypeOK /\ row \in OperationRows /\ Rewritten(o, g, row)
    BY RowIsRewritten DEF RefundsConsistent, WritesOperation
  <1>2. TypeOK' /\ OrdersConsistent' /\ OrdersStay
    BY <1>1, WritingTypes DEF Rewritten
  <1>3. UNCHANGED providerVars
    BY DEF OthersUntouched
  <1>4. \A p \in Orders : OperationsAgree(p)' /\ RefundsAgree(p)'
    BY <1>1, <1>2, <1>3, RewritingAgrees DEF WritesOperation
  <1>5. ASSUME NEW p \in Orders
        PROVE  PaymentAgrees(p)'
    <2>1. SUFFICES ASSUME p # o PROVE PaymentAgrees(p)'
      OBVIOUS
    <2>2. /\ order'[p] = order[p] /\ Len(operation'[p]) = Len(operation[p])
          /\ \A h \in 1..Len(operation[p]) : operation'[p][h] = operation[p][h]
      BY <1>1, <2>1 DEF WritesOrder, Rewritten
    <2>3. operation[p] # <<>> => Last(p)'.status = Last(p).status
      <3>1. operation[p] # <<>> => Len(operation[p]) \in 1..Len(operation[p])
        BY <1>1, OrderRowType, EmptyIsZero
      <3>. QED
        BY <2>2, <3>1 DEF Last
    <2>4. Refunded(p)' >= Refunded(p)
      BY <1>3, SameRefunded
    <2>. QED
      BY <1>2, <1>4, <2>2, <2>3, <2>4, PaymentStays
  <1>6. ASSUME NEW p \in Orders
        PROVE  Onward(p)
    <2>1. Refunded(p)' >= Refunded(p) /\ RefundsGrow(p)
      BY <1>3, SameRefunded
    <2>2. Len(operation'[p]) >= Len(operation[p])
      BY <1>1, OrderRowType DEF Rewritten
    <2>3. \A h \in 1..Len(operation[p]) :
              operation'[p][h].dispatched = "old" =>
                  \/ operation[p][h].dispatched = "old"
                  \/ \A v \in Workers : ~WorksOn(v, p, h)
      BY <1>1 DEF Rewritten, WritesOperation
    <2>. QED
      BY <1>2, <2>1, <2>2, <2>3 DEF Onward, OrdersStay, Paying
  <1>7. ASSUME NEW v \in Workers \ {w}, worker[v].step = "close", Holds(v)'
        PROVE  Holds(v) /\ NoOverwrite(worker[v].on)
    <2> PICK p \in Orders, h \in Nat : p = worker[v].on /\ h = worker[v].gen
      BY <1>1, WorkerType
    <2>1. worker'[v] = worker[v] /\ h # 0 /\ operation'[p][h].lease = v
      BY <1>7 DEF WritesWorker, Holds, Row
    <2>2. h \in 1..Len(operation[p])
      <3>1. h <= Len(operation[p])
        BY <1>7 DEF RefundsConsistent, WorkAgrees, Knows
      <3>. QED
        BY <1>1, <2>1, <3>1, OrderRowType
    <2>3. v # NoWorker
      BY OrdersAssumption
    <2>4. operation[p][h].lease = v
      BY <1>1, <1>7, <2>1, <2>2, <2>3 DEF Rewritten, WritesOperation
    <2>5. Holds(v)
      BY <2>1, <2>4 DEF Holds, Row
    <2>6. NoOverwrite(p)
      <3>1. CASE p # o
        BY <3>1 DEF NoOverwrite, WritesOrder
      <3>2. CASE p = o /\ w \in Workers /\ operation[o][g].lease = w
        <4>1. \A i \in 1..Len(operation[o]) :
                  operation[o][i].lease # NoWorker => i = Len(operation[o])
          <5>1. Len(operation[o]) \in Nat
            BY <1>1, OrderRowType
          <5>. QED
            BY <5>1 DEF RefundsConsistent, OperationsAgree
        <4>2. w # NoWorker
          BY <3>2, OrdersAssumption
        <4>. QED
          BY <1>7, <2>2, <2>3, <2>4, <3>2, <4>1, <4>2
      <3>3. p # o \/ p = o
        OBVIOUS
      <3>4. CASE p = o /\ NoOverwrite(o)
        BY <3>4
      <3>. QED
        BY <3>1, <3>2, <3>3, <3>4
    <2>. QED
      BY <2>5, <2>6
  <1>. QED
    BY <1>2, <1>4, <1>5, <1>6, <1>7, StepAgrees DEF WritesWorker

LEMMA OrderStep ==
    ASSUME RefundsConsistent, NEW o \in Orders, NEW w, UNCHANGED operation,
           WritesOrder(o), WritesWorker(w), OthersUntouched, NoOverwrite(o),
           PaymentAgrees(o)', StillAgrees(w)'
    PROVE  RefundsConsistent'
  <1>1. TypeOK /\ operation' \in [Orders -> Seq(OperationRows)]
    BY DEF RefundsConsistent, TypeOK, OrdersTypeOK
  <1>2. TypeOK' /\ OrdersConsistent' /\ OrdersStay
    BY <1>1, WritingTypes
  <1>3. UNCHANGED providerVars
    BY DEF OthersUntouched
  <1>4. ASSUME NEW p \in Orders
        PROVE  OperationsAgree(p)' /\ RefundsAgree(p)'
    <2>1. OperationsAgree(p) /\ RefundsAgree(p)
      BY DEF RefundsConsistent
    <2>. QED
      BY <1>2, <1>3, <2>1 DEF OperationsAgree, RefundsAgree, IsRefundOf,
                              OrdersStay, providerVars
  <1>5. ASSUME NEW p \in Orders
        PROVE  PaymentAgrees(p)'
    <2>1. SUFFICES ASSUME p # o PROVE PaymentAgrees(p)'
      OBVIOUS
    <2>2. /\ order'[p] = order[p] /\ Len(operation'[p]) = Len(operation[p])
          /\ Last(p)' = Last(p) /\ Refunded(p)' >= Refunded(p)
      BY <1>3, <2>1, SameRefunded DEF WritesOrder, Last
    <2>. QED
      BY <1>2, <1>4, <2>2, PaymentStays
  <1>6. ASSUME NEW p \in Orders
        PROVE  Onward(p)
    <2>1. Refunded(p)' >= Refunded(p) /\ RefundsGrow(p)
      BY <1>3, SameRefunded
    <2>2. Len(operation'[p]) >= Len(operation[p])
      BY <1>1, OrderRowType
    <2>. QED
      BY <1>2, <2>1, <2>2 DEF Onward, OrdersStay, Paying
  <1>7. ASSUME NEW v \in Workers \ {w}, worker[v].step = "close", Holds(v)'
        PROVE  Holds(v) /\ NoOverwrite(worker[v].on)
    <2>1. worker'[v] = worker[v] /\ worker[v].on \in Orders
      BY <1>1, WorkerType DEF WritesWorker
    <2>2. Holds(v)
      BY <1>7, <2>1 DEF Holds, Row
    <2>3. NoOverwrite(worker[v].on)
      BY <2>1 DEF NoOverwrite, WritesOrder
    <2>. QED
      BY <2>2, <2>3
  <1>. QED
    BY <1>2, <1>4, <1>5, <1>6, <1>7, StepAgrees DEF WritesWorker

\* A step of which only the worker knows.
LEMMA WorkerStep ==
    ASSUME RefundsConsistent, NEW w \in Workers, KeepOrders,
           UNCHANGED <<operation, providerVars>>, WritesWorker(w),
           StillAgrees(w)'
    PROVE  RefundsConsistent'
  <1>1. TypeOK /\ worker[w].on \in Orders
    BY WorkerType DEF RefundsConsistent
  <1> PICK o \in Orders : o = worker[w].on
    BY <1>1
  <1>2. WritesOrder(o) /\ OthersUntouched /\ NoOverwrite(o)
    <2>1. order[o].version >= order[o].version
      BY <1>1, OrderRowType DEF OrderRows
    <2>. QED
      BY <1>1, <2>1 DEF WritesOrder, OthersUntouched, NoOverwrite, KeepOrders,
                        TypeOK, OrdersTypeOK
  <1>3. TypeOK' /\ OrdersStay
    BY <1>1, <1>2, WritingTypes DEF TypeOK, OrdersTypeOK
  <1>4. RefundsAgree(o)'
    <2>1. RefundsAgree(o)
      BY DEF RefundsConsistent
    <2>. QED
      BY <2>1 DEF RefundsAgree, IsRefundOf, providerVars
  <1>5. PaymentAgrees(o)'
    <2>1. /\ order'[o] = order[o] /\ Len(operation'[o]) = Len(operation[o])
          /\ Last(o)' = Last(o) /\ Refunded(o)' >= Refunded(o)
      BY SameRefunded DEF KeepOrders, Last
    <2>. QED
      BY <1>3, <1>4, <2>1, PaymentStays
  <1>. QED
    BY <1>2, <1>5, OrderStep

-----------------------------------------------------------------------------
(* Steps of one worker *)

\* A worker that is idle again knows nothing.
LEMMA IdleAgrees ==
    ASSUME NEW w \in Workers, Done(w), worker \in [Workers -> WorkerStates]
    PROVE  worker'[w] = Idle /\ StillAgrees(w)'
  <1>1. worker'[w] = Idle
    BY DEF Done
  <1>. QED
    BY <1>1 DEF StillAgrees, WorkAgrees, LeaseProtects, Idle

LEMMA IdleType ==
    ASSUME NEW w \in Workers, TypeOK
    PROVE  Idle \in WorkerStates
  <1>1. AnyOrder \in Orders
    <2>1. \E o : o \in Orders
      BY WorkerType
    <2>. QED
      BY <2>1 DEF AnyOrder
  <1>2. NewOperation \in OperationRows
    BY NewOperationType
  <1>. QED
    BY <1>1, <1>2 DEF Idle, WorkerStates, Steps, Full

LEMMA DoneWrites ==
    ASSUME NEW w \in Workers, Done(w), TypeOK, mishaps' \in Nat
    PROVE  WritesWorker(w) /\ StillAgrees(w)'
  <1>1. worker \in [Workers -> WorkerStates] /\ Idle \in WorkerStates
    BY IdleType DEF TypeOK
  <1>. QED
    BY <1>1, IdleAgrees DEF WritesWorker, Done

LEMMA KeptOrders ==
    ASSUME RefundsConsistent, NEW o \in Orders, KeepOrders, UNCHANGED providerVars
    PROVE  /\ WritesOrder(o) /\ OthersUntouched /\ NoOverwrite(o)
           /\ order'[o] = order[o]
  <1>1. TypeOK /\ order[o].version >= order[o].version
    BY OrderRowType DEF OrderRows, RefundsConsistent
  <1>. QED
    BY <1>1 DEF WritesOrder, OthersUntouched, NoOverwrite, KeepOrders, TypeOK,
                OrdersTypeOK

\* A step on an operation that decides nothing about it.
LEMMA OperationQuietStep ==
    ASSUME RefundsConsistent, NEW o \in Orders, NEW g \in 1..Len(operation[o]),
           NEW row, NEW w, WritesOperation(o, g, row, w), KeepOrders,
           UNCHANGED providerVars, WritesWorker(w),
           row.status = operation[o][g].status, StillAgrees(w)'
    PROVE  RefundsConsistent'
  <1>1. WritesOrder(o) /\ OthersUntouched /\ NoOverwrite(o) /\ TypeOK
        /\ order'[o] = order[o]
    BY KeptOrders DEF RefundsConsistent
  <1>2. row \in OperationRows /\ Rewritten(o, g, row)
    BY <1>1, RowIsRewritten DEF WritesOperation
  <1>3. TypeOK' /\ OrdersStay
    BY <1>1, <1>2, WritingTypes DEF Rewritten
  <1>4. RefundsAgree(o)'
    BY <1>2, <1>3, RewritingAgrees DEF WritesOperation
  <1>5. /\ Len(operation'[o]) = Len(operation[o])
        /\ operation[o] # <<>> => Last(o)'.status = Last(o).status
    <2>1. operation[o] # <<>> => Len(operation[o]) \in 1..Len(operation[o])
      BY <1>1, OrderRowType, EmptyIsZero
    <2>. QED
      BY <1>2, <2>1 DEF Last, Rewritten
  <1>6. Refunded(o)' >= Refunded(o)
    BY SameRefunded
  <1>7. PaymentAgrees(o)'
    BY <1>1, <1>3, <1>4, <1>5, <1>6, PaymentStays
  <1>. QED
    BY <1>1, <1>7, OperationStep

\* The operation a worker holds is the order's last, and pending.
LEMMA HeldIsLast ==
    ASSUME RefundsConsistent, NEW w \in Workers, Holds(w),
           worker[w].step # "idle"
    PROVE  LET o == worker[w].on  g == worker[w].gen IN
           /\ o \in Orders /\ g \in 1..Len(operation[o])
           /\ g = Len(operation[o]) /\ Row(w) = operation[o][g]
           /\ Row(w) \in OperationRows
           /\ Row(w).status = "pending" /\ Row(w).lease = w
  <1> DEFINE o == worker[w].on
             g == worker[w].gen
  <1>1. o \in Orders /\ g \in Nat /\ g # 0 /\ operation[o][g].lease = w
    BY WorkerType DEF RefundsConsistent, Holds, Row
  <1>2. g <= Len(operation[o]) /\ Len(operation[o]) \in Nat
    BY <1>1, OrderRowType DEF RefundsConsistent, WorkAgrees, Knows
  <1>3. g \in 1..Len(operation[o])
    BY <1>1, <1>2
  <1>4. operation[o][g].status = "pending"
    BY <1>1, <1>3, OrdersAssumption DEF RefundsConsistent, OperationsAgree
  <1>5. g = Len(operation[o])
    BY <1>1, <1>2, <1>3, <1>4 DEF RefundsConsistent, OperationsAgree
  <1>6. operation[o][g] \in OperationRows
    BY <1>1, <1>3, RowType DEF RefundsConsistent
  <1>. QED
    BY <1>1, <1>3, <1>4, <1>5, <1>6 DEF Row

LEMMA ClaimRefundStep ==
    ASSUME RefundsConsistent, NEW w \in Workers, NEW o \in Orders,
           NEW g \in 1..Len(operation[o]), ClaimRefund(w, o, g)
    PROVE  RefundsConsistent'
  <1> DEFINE old == operation[o][g]
             row == [old EXCEPT !.lease = w, !.leaseOld = FALSE]
             step == IF old.id # 0 THEN "retrieve" ELSE "charge"
  <1>0. (order[o].status \in Ended) \in BOOLEAN
    OBVIOUS
  <1> PICK e \in BOOLEAN : e = (order[o].status \in Ended)
    BY <1>0, Zenon
  <1> PICK state : state = [Idle EXCEPT !.step = step, !.on = o, !.gen = g,
                                        !.seen = row, !.ended = e]
    OBVIOUS
  <1>1. TypeOK /\ old \in OperationRows
    BY RowType DEF RefundsConsistent
  <1>2. /\ row \in OperationRows /\ row.status = old.status
        /\ row.id = old.id /\ row.dispatched = old.dispatched /\ row.lease = w
    BY <1>1, Lease
  <1>3. /\ old.status = "pending" /\ KeepOrders
        /\ UNCHANGED <<providerVars, mishaps>>
        /\ operation' = [operation EXCEPT ![o][g] = row]
        /\ worker' = [worker EXCEPT ![w] =
               [Idle EXCEPT !.step = step, !.on = o, !.gen = g,
                            !.seen = operation'[o][g],
                            !.ended = order[o].status \in Ended]]
    BY DEF ClaimRefund
  <1> HIDE DEF row
  <1>4. WritesOperation(o, g, row, w)
    BY <1>2, <1>3 DEF WritesOperation, Lawful
  <1>5. Rewritten(o, g, row)
    BY <1>1, <1>2, <1>3, RowIsRewritten
  <1>6. /\ worker' = [worker EXCEPT ![w] = state]
        /\ worker \in [Workers -> WorkerStates] /\ mishaps \in Nat
    BY <1>1, <1>3, <1>5 DEF Rewritten, TypeOK
  <1>7. g \in Generations /\ g # 0 /\ g \in Nat
    BY OrderRowType, OrdersAssumption
    DEF RefundsConsistent, OperationsAgree, Generations
  <1>8. /\ state \in WorkerStates /\ state.step = step /\ state.on = o
        /\ state.gen = g /\ state.seen = row /\ state.ended = e
    <2>1. Idle \in WorkerStates
      BY <1>1, IdleType
    <2>2. step \in Steps
      BY DEF Steps
    <2>3. g \in {0} \cup Generations
      BY <1>7
    <2>. HIDE DEF step
    <2>. QED
      BY <1>2, <2>1, <2>2, <2>3 DEF WorkerStates
  <1>9. WritesWorker(w) /\ worker'[w] = state
    BY <1>3, <1>6, <1>8 DEF WritesWorker
  <1>10. o \in Paying' /\ (order[o].status \in Ended => order'[o].status \in Ended)
    <2>1. operation[o] # <<>> /\ OperationsAgree(o) /\ order' = order
      BY <1>1, <1>3, OrderRowType, EmptyIsZero DEF RefundsConsistent, KeepOrders
    <2>. QED
      BY <2>1 DEF OperationsAgree, Paying, Ended
  <1>11. \A i : i = old.id /\ i # 0 => IsRefundOf(i, o, g)'
    <2>1. old.id # 0 => IsRefundOf(old.id, o, g)
      BY DEF RefundsConsistent, OperationsAgree
    <2>2. ASSUME NEW i, i = old.id, i # 0
          PROVE  IsRefundOf(i, o, g)'
      <3>1. IsRefundOf(i, o, g)
        BY <2>1, <2>2
      <3>. QED
        BY <1>3, <3>1 DEF IsRefundOf, providerVars
    <2>. QED
      BY <2>2
  <1>12. g <= Len(operation'[o]) /\ operation'[o][g] = row
    BY <1>5, <1>7 DEF Rewritten
  <1>13. Knows(state)'
    <2>1. state.step \in {"retrieve", "charge"}
      BY <1>8
    <2>2. state.step = "retrieve" => IsRefundOf(state.seen.id, o, g)'
      BY <1>2, <1>8, <1>11
    <2>3. state.ended => order'[o].status \in Ended
      BY <1>8, <1>10
    <2>. QED
      BY <1>2, <1>7, <1>8, <1>10, <1>12, <2>1, <2>2, <2>3 DEF Knows
  <1>14. LeaseProtects(w)'
    BY <1>8, <1>9 DEF LeaseProtects
  <1>. QED
    BY <1>2, <1>3, <1>4, <1>9, <1>13, <1>14, OperationQuietStep
    DEF StillAgrees, WorkAgrees

\* Between transactions only the worker changes.
LEMMA WorkerMoves ==
    ASSUME RefundsConsistent, NEW w \in Workers, KeepOrders,
           UNCHANGED <<operation, providerVars>>, mishaps' \in Nat,
           NEW new \in WorkerStates, worker' = [worker EXCEPT ![w] = new],
           new.step # "close", new.step # "idle" => Knows(new)
    PROVE  RefundsConsistent'
  <1>1. WritesWorker(w) /\ worker'[w] = new
    BY DEF WritesWorker, RefundsConsistent, TypeOK
  <1>2. Knows(new) => Knows(new)'
    BY DEF Knows, Paying, IsRefundOf, Refunded, WithStatus, KeepOrders,
           providerVars
  <1>3. StillAgrees(w)'
    BY <1>1, <1>2 DEF StillAgrees, WorkAgrees, LeaseProtects
  <1>. QED
    BY <1>1, <1>3, WorkerStep

LEMMA StepOfState ==
    ASSUME NEW st \in WorkerStates, NEW s \in Steps
    PROVE  LET new == [st EXCEPT !.step = s] IN
           /\ new \in WorkerStates /\ new.step = s /\ new.on = st.on
           /\ new.gen = st.gen /\ new.seen = st.seen /\ new.ended = st.ended
           /\ new.amount = st.amount /\ new.got = st.got
           /\ new.answer = st.answer
  BY DEF WorkerStates

LEMMA BusyKnows ==
    ASSUME RefundsConsistent, NEW w \in Workers, worker[w].step # "idle"
    PROVE  /\ Knows(worker[w]) /\ worker[w] \in WorkerStates
           /\ worker[w].on \in Orders /\ worker[w].gen \in Nat
           /\ worker \in [Workers -> WorkerStates] /\ mishaps \in Nat /\ TypeOK
           /\ worker[w].gen # 0 =>
                 worker[w].gen \in 1..Len(operation[worker[w].on])
  <1>1. TypeOK /\ Knows(worker[w])
    BY DEF RefundsConsistent, WorkAgrees
  <1>2. worker[w].on \in Orders /\ worker[w].gen \in Nat
    BY <1>1, WorkerType
  <1>3. Len(operation[worker[w].on]) \in Nat
    BY <1>1, <1>2, OrderRowType
  <1>. QED
    BY <1>1, <1>2, <1>3, WorkerType DEF TypeOK, Knows

LEMMA DoneStep ==
    ASSUME RefundsConsistent, NEW w \in Workers, KeepOrders, Done(w),
           UNCHANGED <<operation, providerVars>>, mishaps' \in Nat
    PROVE  RefundsConsistent'
  <1>1. WritesWorker(w) /\ StillAgrees(w)'
    BY DoneWrites DEF RefundsConsistent
  <1>. QED
    BY <1>1, WorkerStep

\* A worker goes on to a step that asks nothing more of what it knows.
LEMMA ProceedStep ==
    ASSUME RefundsConsistent, NEW w \in Workers, KeepOrders,
           worker[w].step # "idle", worker[w].gen # 0,
           NEW s \in {"refuse", "dispatch", "create", "failed"}, Proceed(w, s),
           s \in {"dispatch", "create"} => Row(w).dispatched # "old",
           UNCHANGED <<operation, providerVars, mishaps>>
    PROVE  RefundsConsistent'
  <1> PICK st \in WorkerStates : st = worker[w]
    BY BusyKnows
  <1> DEFINE new == [st EXCEPT !.step = s]
  <1>1. s \in Steps
    BY DEF Steps
  <1>2. /\ new \in WorkerStates /\ new.step = s /\ new.on = st.on
        /\ new.gen = st.gen /\ new.seen = st.seen /\ new.ended = st.ended
    BY <1>1, StepOfState
  <1>3. worker' = [worker EXCEPT ![w] = new] /\ mishaps' \in Nat
    BY BusyKnows DEF Proceed
  <1> HIDE DEF new
  <1>4. Knows(new)
    <2>1. Knows(st) /\ st.gen # 0
      BY BusyKnows
    <2>2. s \in {"dispatch", "create"} =>
              operation[st.on][st.gen].dispatched # "old"
      BY DEF Row
    <2>. QED
      BY <1>2, <2>1, <2>2 DEF Knows
  <1>. QED
    BY <1>2, <1>3, <1>4, WorkerMoves

LEMMA ProcessPurchaseEventStep ==
    ASSUME RefundsConsistent, NEW w \in Workers, NEW o \in Orders,
           ProcessPurchaseEvent(w, o)
    PROVE  RefundsConsistent'
  <1>0. (order[o].status \in Ended) \in BOOLEAN
    OBVIOUS
  <1> PICK e \in BOOLEAN : e = (order[o].status \in Ended)
    BY <1>0, Zenon
  <1> PICK new : new = [Idle EXCEPT !.step = "charge", !.on = o, !.ended = e]
    OBVIOUS
  <1>1. /\ worker' = [worker EXCEPT ![w] = new] /\ KeepOrders /\ o \in Paying
        /\ UNCHANGED <<operation, providerVars, mishaps>>
    BY DEF ProcessPurchaseEvent
  <1>2. TypeOK /\ mishaps \in Nat /\ Idle \in WorkerStates
    BY IdleType DEF RefundsConsistent, TypeOK
  <1>3. Idle.gen = 0 /\ "charge" \in Steps
    BY DEF Idle, Steps
  <1>4. /\ new \in WorkerStates /\ new.step = "charge" /\ new.on = o
        /\ new.gen = 0 /\ new.ended = e
    BY <1>2, <1>3 DEF WorkerStates
  <1>5. Knows(new)
    <2>1. 0 <= Len(operation[o])
      BY <1>2, OrderRowType
    <2>2. new.ended => order[new.on].status \in Ended
      BY <1>4
    <2>3. new.on \in Paying /\ new.gen <= Len(operation[new.on])
      BY <1>1, <1>4, <2>1
    <2>. QED
      BY <1>4, <2>2, <2>3 DEF Knows
  <1>. QED
    BY <1>1, <1>2, <1>4, <1>5, WorkerMoves

LEMMA RetrieveChargeStep ==
    ASSUME RefundsConsistent, NEW w \in Workers, RetrieveCharge(w)
    PROVE  RefundsConsistent'
  <1> PICK o \in Orders, st \in WorkerStates : st = worker[w] /\ o = st.on
    BY BusyKnows DEF RetrieveCharge
  <1>1. /\ st.step = "charge" /\ KeepOrders /\ Knows(st) /\ TypeOK
        /\ UNCHANGED <<operation, providerVars, mishaps>> /\ mishaps \in Nat
    BY BusyKnows DEF RetrieveCharge
  <1>2. Refunded(o) \in 0..Full
    BY <1>1, RefundedIs DEF RefundsConsistent
  <1>3. CASE Refunded(o) > 0
    <2> PICK n \in 0..Full : n = Refunded(o)
      BY <1>2
    <2> DEFINE new == [st EXCEPT !.step = "settle", !.amount = n]
    <2>1. worker' = [worker EXCEPT ![w] = new]
      BY <1>3 DEF RetrieveCharge
    <2>2. "settle" \in Steps
      BY DEF Steps
    <2>3. /\ new \in WorkerStates /\ new.step = "settle" /\ new.on = o
          /\ new.gen = st.gen /\ new.seen = st.seen /\ new.ended = st.ended
          /\ new.amount = n
      BY <2>2 DEF WorkerStates
    <2> HIDE DEF new
    <2>4. Knows(new)
      BY <1>1, <1>2, <1>3, <2>3 DEF Knows, Full
    <2>. QED
      BY <1>1, <2>1, <2>3, <2>4, WorkerMoves
  <1>4. CASE Refunded(o) = 0 /\ st.gen = 0
    <2>1. Done(w)
      BY <1>4 DEF RetrieveCharge
    <2>. QED
      BY <1>1, <2>1, DoneStep
  <1>5. CASE Refunded(o) = 0 /\ st.gen # 0
    <2> DEFINE s == IF WindowOver(w) THEN "refuse" ELSE "dispatch"
    <2>1. Proceed(w, s)
      BY <1>5 DEF RetrieveCharge
    <2>2. s = "dispatch" => Row(w).dispatched # "old"
      BY <1>1, <1>5 DEF Knows, WindowOver, Row
    <2>3. s \in {"refuse", "dispatch", "create", "failed"} /\ s # "create"
      OBVIOUS
    <2> HIDE DEF s
    <2>. QED
      BY <1>1, <1>5, <2>1, <2>2, <2>3, ProceedStep
  <1>. QED
    BY <1>2, <1>3, <1>4, <1>5 DEF Full

LEMMA RetrieveRefundStep ==
    ASSUME RefundsConsistent, NEW w \in Workers, RetrieveRefund(w)
    PROVE  RefundsConsistent'
  <1> PICK o \in Orders, st \in WorkerStates : st = worker[w] /\ o = st.on
    BY BusyKnows DEF RetrieveRefund
  <1> PICK i : i = st.seen.id
    OBVIOUS
  <1>1. /\ st.step = "retrieve" /\ KeepOrders /\ Knows(st) /\ TypeOK
        /\ UNCHANGED <<operation, providerVars, mishaps>> /\ mishaps \in Nat
        /\ Got(w, i, refund[o][i].status)
    BY BusyKnows DEF RetrieveRefund
  <1>2. IsRefundOf(i, o, st.gen)
    BY <1>1 DEF Knows
  <1>3. refund[o][i].status \in {"pending", "succeeded", "failed"} /\ i \in Nat
    BY <1>1, <1>2, RefundRowType DEF IsRefundOf, RefundRows
  <1> PICK a : a = refund[o][i].status
    OBVIOUS
  <1> DEFINE new == [st EXCEPT !.step = "apply", !.got = i, !.answer = a]
  <1>4. worker' = [worker EXCEPT ![w] = new]
    BY <1>1 DEF Got
  <1>5. "apply" \in Steps
    BY DEF Steps
  <1>6. /\ new \in WorkerStates /\ new.step = "apply" /\ new.on = o
        /\ new.gen = st.gen /\ new.seen = st.seen /\ new.ended = st.ended
        /\ new.got = i /\ new.answer = a
    BY <1>3, <1>5 DEF WorkerStates
  <1> HIDE DEF new
  <1>7. Knows(new)
    BY <1>1, <1>2, <1>6 DEF Knows
  <1>. QED
    BY <1>1, <1>4, <1>6, <1>7, WorkerMoves

LEMMA ProviderFailsStep ==
    ASSUME RefundsConsistent, NEW w \in Workers, ProviderFails(w)
    PROVE  RefundsConsistent'
  <1>1. /\ worker[w].step # "idle" /\ KeepOrders /\ mishaps \in Nat
        /\ UNCHANGED <<operation, providerVars, mishaps>>
    BY BusyKnows DEF ProviderFails
  <1>2. CASE worker[w].gen = 0
    BY <1>1, <1>2, DoneStep DEF ProviderFails
  <1>3. CASE worker[w].gen # 0
    <2>1. Proceed(w, "failed")
      BY <1>3 DEF ProviderFails
    <2>. QED
      BY <1>1, <1>3, <2>1, ProceedStep
  <1>. QED
    BY <1>2, <1>3

LEMMA CrashStep ==
    ASSUME RefundsConsistent, NEW w \in Workers, Crash(w)
    PROVE  RefundsConsistent'
  <1>1. /\ Done(w) /\ KeepOrders /\ UNCHANGED <<operation, providerVars>>
        /\ mishaps' = mishaps + 1 /\ mishaps \in Nat
    BY BusyKnows DEF Crash
  <1>. QED
    BY <1>1, DoneStep

-----------------------------------------------------------------------------
(* Steps that write an operation under its lease *)

LEMMA SetTries ==
    ASSUME NEW row \in OperationRows, NEW n \in Nat
    PROVE  LET new == [row EXCEPT !.tries = n] IN
           /\ new \in OperationRows
           /\ new.status = row.status /\ new.id = row.id
           /\ new.dispatched = row.dispatched /\ new.lease = row.lease
  BY DEF OperationRows

\* The lease is given back and nothing is decided.
LEMMA GiveBackStep ==
    ASSUME RefundsConsistent, NEW w \in Workers, worker[w].step # "idle",
           NEW row, row \in OperationRows, row.status = Row(w).status,
           row.dispatched = Row(w).dispatched, row.lease = NoWorker,
           row.id = Row(w).id \/ IsRefundOf(row.id, worker[w].on, worker[w].gen),
           UpdateLeased(w, row), Done(w), KeepOrders,
           UNCHANGED <<providerVars, mishaps>>
    PROVE  RefundsConsistent'
  <1>1. TypeOK /\ mishaps' \in Nat
    BY BusyKnows
  <1>2. CASE Holds(w)
    <2> PICK o \in Orders, g \in Nat :
            /\ o = worker[w].on /\ g = worker[w].gen
            /\ g \in 1..Len(operation[o])
      BY <1>2, HeldIsLast
    <2>1. Row(w) = operation[o][g] /\ Row(w).status = "pending"
      BY <1>2, HeldIsLast
    <2>2. operation' = [operation EXCEPT ![o][g] = row]
      BY <1>2 DEF UpdateLeased, Update
    <2>3. WritesOperation(o, g, row, w)
      BY <2>1, <2>2 DEF WritesOperation, Lawful
    <2>4. WritesWorker(w) /\ StillAgrees(w)'
      BY <1>1, DoneWrites
    <2>. QED
      BY <2>1, <2>3, <2>4, OperationQuietStep
  <1>3. CASE ~Holds(w)
    <2>1. UNCHANGED operation
      BY <1>3 DEF UpdateLeased
    <2>. QED
      BY <1>1, <2>1, DoneStep
  <1>. QED
    BY <1>2, <1>3

LEMMA RowOfBusy ==
    ASSUME RefundsConsistent, NEW w \in Workers, worker[w].step # "idle",
           worker[w].gen # 0
    PROVE  Row(w) \in OperationRows
  BY BusyKnows, RowType DEF Row

LEMMA ApplyPendingStep ==
    ASSUME RefundsConsistent, NEW w \in Workers, ApplyPending(w)
    PROVE  RefundsConsistent'
  <1> DEFINE row == [Unleased(Row(w)) EXCEPT !.id = worker[w].got]
  <1>1. /\ worker[w].step = "apply" /\ UpdateLeased(w, row) /\ Done(w)
        /\ KeepOrders /\ UNCHANGED <<providerVars, mishaps>>
    BY DEF ApplyPending
  <1>2. worker[w].gen # 0 /\ IsRefundOf(worker[w].got, worker[w].on, worker[w].gen)
    BY <1>1, BusyKnows DEF Knows
  <1>3. Row(w) \in OperationRows /\ worker[w].got \in Nat
    BY <1>1, <1>2, RowOfBusy, WorkerType DEF RefundsConsistent
  <1>4. /\ row \in OperationRows /\ row.status = Row(w).status
        /\ row.dispatched = Row(w).dispatched /\ row.lease = NoWorker
        /\ row.id = worker[w].got
    BY <1>3, Unlease, SetOperationId
  <1> HIDE DEF row
  <1>. QED
    BY <1>1, <1>2, <1>4, GiveBackStep

LEMMA DispatchRefundStep ==
    ASSUME RefundsConsistent, NEW w \in Workers, DispatchRefund(w)
    PROVE  RefundsConsistent'
  <1> PICK st \in WorkerStates, o \in Orders, g \in Nat :
          st = worker[w] /\ o = st.on /\ g = st.gen
    BY BusyKnows DEF DispatchRefund
  <1>1. /\ st.step = "dispatch" /\ KeepOrders /\ Knows(st) /\ TypeOK /\ g # 0
        /\ UNCHANGED <<providerVars, mishaps>> /\ mishaps \in Nat
        /\ Proceed(w, "create") /\ Row(w).dispatched # "old"
        /\ Row(w) \in OperationRows /\ g \in 1..Len(operation[o])
        /\ Row(w) = operation[o][g]
    <2>1. st.step = "dispatch" /\ KeepOrders /\ Proceed(w, "create")
          /\ UNCHANGED <<providerVars, mishaps>>
      BY DEF DispatchRefund
    <2>2. Knows(st) /\ TypeOK /\ mishaps \in Nat
      BY <2>1, BusyKnows
    <2>3. g # 0
      BY <2>1, <2>2 DEF Knows
    <2>4. Row(w) = operation[o][g] /\ g \in 1..Len(operation[o])
      BY <2>1, <2>3, BusyKnows DEF Row
    <2>. QED
      BY <2>1, <2>2, <2>3, <2>4, RowType DEF Knows
  <1>2. CASE ~Holds(w)
    <2>1. UNCHANGED operation
      BY <1>2 DEF UpdateLeased, DispatchRefund
    <2>. QED
      BY <1>1, <2>1, ProceedStep
  <1>3. CASE Holds(w)
    <2> DEFINE d == IF st.seen.dispatched = "no" THEN "recent"
                                                 ELSE Row(w).dispatched
               r1 == [Row(w) EXCEPT !.dispatched = d]
               row == [r1 EXCEPT !.tries = st.seen.tries + 1]
    <2>1. d \in {"no", "recent"} /\ st.seen.tries + 1 \in Nat
      <3>1. st.seen \in OperationRows
        BY DEF WorkerStates
      <3>. QED
        BY <1>1, <3>1 DEF OperationRows
    <2>2. operation' = [operation EXCEPT ![o][g] = row]
      <3>1. Update(w, [Row(w) EXCEPT !.dispatched = d,
                                     !.tries = st.seen.tries + 1])
        BY <1>1, <1>3 DEF DispatchRefund, UpdateLeased, OperationRows
      <3>. QED
        BY <3>1 DEF Update
    <2> HIDE DEF d
    <2>3. /\ r1 \in OperationRows /\ r1.status = Row(w).status
          /\ r1.id = Row(w).id /\ r1.dispatched = d /\ r1.lease = Row(w).lease
      BY <1>1, <2>1 DEF OperationRows
    <2> HIDE DEF r1
    <2>4. /\ row \in OperationRows /\ row.status = Row(w).status
          /\ row.id = Row(w).id /\ row.dispatched = d /\ row.lease = Row(w).lease
      BY <2>1, <2>3, SetTries
    <2> HIDE DEF row
    <2>5. Row(w).status = "pending" /\ Row(w).lease = w
      BY <1>1, <1>3, HeldIsLast
    <2>6. WritesOperation(o, g, row, w)
      BY <1>1, <2>1, <2>2, <2>4, <2>5 DEF WritesOperation, Lawful
    <2>7. Rewritten(o, g, row)
      BY <1>1, <2>2, <2>4, RowIsRewritten
    <2> DEFINE new == [st EXCEPT !.step = "create"]
    <2>8. /\ new \in WorkerStates /\ new.step = "create" /\ new.on = st.on
          /\ new.gen = st.gen /\ new.seen = st.seen /\ new.ended = st.ended
      BY StepOfState DEF Steps
    <2>9. WritesWorker(w) /\ worker'[w] = new
      BY <1>1, <2>8 DEF WritesWorker, Proceed, TypeOK
    <2> HIDE DEF new
    <2>10. Knows(new)'
      <3>1. /\ o \in Paying' /\ (st.ended => order'[o].status \in Ended)
            /\ g <= Len(operation'[o]) /\ operation'[o][g].dispatched # "old"
        BY <1>1, <2>1, <2>4, <2>7 DEF Knows, KeepOrders, Paying, Rewritten
      <3>. QED
        BY <1>1, <2>8, <3>1 DEF Knows
    <2>11. StillAgrees(w)'
      BY <2>8, <2>9, <2>10 DEF StillAgrees, WorkAgrees, LeaseProtects
    <2>. QED
      BY <1>1, <2>4, <2>6, <2>9, <2>11, OperationQuietStep
  <1>. QED
    BY <1>2, <1>3

\* A worker ends its operation and writes the order in one transaction: what
\* is left to show is that the order's payment agrees with the new row.
LEMMA EndStep ==
    ASSUME RefundsConsistent, NEW w \in Workers, worker[w].step # "idle",
           Holds(w), NEW row, row \in OperationRows, row.status # "pending",
           row.lease = NoWorker, row.dispatched = Row(w).dispatched,
           row.id = Row(w).id \/ IsRefundOf(row.id, worker[w].on, worker[w].gen),
           row.status = "failed" =>
               row.id # 0 /\ refund[worker[w].on][row.id].status = "failed",
           Update(w, row), Done(w), WritesOrder(worker[w].on),
           OthersUntouched, UNCHANGED mishaps,
           NEW o \in Orders, o = worker[w].on,
           /\ order'[o].payment = "refunded" => Refunded(o) = Full
           /\ order'[o].payment = "refund_pending" => order'[o].review
           /\ order'[o].payment = "refund_failed" => row.status = "failed"
           /\ row.status = "succeeded" => order'[o].payment = "refunded"
    PROVE  RefundsConsistent'
  <1> PICK g \in Nat : g = worker[w].gen /\ g \in 1..Len(operation[o])
    BY HeldIsLast
  <1>1. /\ Row(w) = operation[o][g] /\ Row(w).status = "pending"
        /\ Row(w).lease = w /\ g = Len(operation[o])
    BY HeldIsLast
  <1>2. operation' = [operation EXCEPT ![o][g] = row]
    BY DEF Update
  <1>3. WritesOperation(o, g, row, w)
    BY <1>1, <1>2 DEF WritesOperation, Lawful
  <1>4. TypeOK /\ mishaps' \in Nat
    BY BusyKnows
  <1>5. WritesWorker(w) /\ StillAgrees(w)'
    BY <1>4, DoneWrites
  <1>6. Rewritten(o, g, row) /\ operation' \in [Orders -> Seq(OperationRows)]
    <2>1. Rewritten(o, g, row)
      BY <1>2, <1>4, RowIsRewritten
    <2>. QED
      BY <2>1 DEF Rewritten
  <1>7. Last(o)' = row /\ operation'[o] # <<>>
    <2>1. Len(operation'[o]) = g /\ operation'[o][g] = row
      BY <1>1, <1>6 DEF Rewritten
    <2>2. operation'[o] \in Seq(OperationRows)
      BY <1>6
    <2>. QED
      BY <2>1, <2>2, EmptyIsZero DEF Last
  <1>8. order'[o].status \in Ended
    <2>1. operation[o] # <<>>
      BY <1>4, OrderRowType, EmptyIsZero
    <2>. QED
      BY <2>1 DEF RefundsConsistent, OperationsAgree, WritesOrder
  <1>9. Refunded(o)' = Refunded(o)
    BY SameRefunded DEF OthersUntouched
  <1>10. PaymentAgrees(o)'
    BY <1>7, <1>8, <1>9 DEF PaymentAgrees
  <1>. QED
    BY <1>1, <1>3, <1>5, <1>10, OperationStep

\* An order whose last operation is pending was not refused its money.
LEMMA PendingPayment ==
    ASSUME RefundsConsistent, NEW w \in Workers, worker[w].step # "idle",
           Holds(w)
    PROVE  order[worker[w].on].payment # "refund_failed"
  <1>1. LET o == worker[w].on IN o \in Orders /\ Last(o).status = "pending"
    BY HeldIsLast DEF Last
  <1>. QED
    BY <1>1 DEF RefundsConsistent, PaymentAgrees

LEMMA ReviewRow ==
    ASSUME NEW row \in OrderRows
    PROVE  LET new == [row EXCEPT !.review = TRUE, !.version = row.version + 1] IN
           /\ new \in OrderRows /\ new.status = row.status
           /\ new.method = row.method /\ new.payment = row.payment
           /\ new.refunded = row.refunded /\ new.review
           /\ new.version >= row.version
  <1> DEFINE r1 == [row EXCEPT !.review = TRUE]
             new == [r1 EXCEPT !.version = row.version + 1]
  <1>1. row.version + 1 \in Nat /\ row.version + 1 >= row.version
    BY DEF OrderRows
  <1>2. /\ r1 \in OrderRows /\ r1.status = row.status
        /\ r1.method = row.method /\ r1.payment = row.payment
        /\ r1.refunded = row.refunded /\ r1.review
    BY DEF OrderRows
  <1> HIDE DEF r1
  <1>3. /\ new \in OrderRows /\ new.status = r1.status
        /\ new.method = r1.method /\ new.payment = r1.payment
        /\ new.refunded = r1.refunded /\ new.review = r1.review
        /\ new.version = row.version + 1
    BY <1>1, <1>2 DEF OrderRows
  <1>. QED
    BY <1>1, <1>2, <1>3 DEF r1

\* What a review does to the order.
LEMMA ReviewWrites ==
    ASSUME RefundsConsistent, NEW o \in Paying, intent' = intent,
           order' = IF ~order[o].review
                    THEN [order EXCEPT ![o].review = TRUE, ![o].version = @ + 1]
                    ELSE order
    PROVE  /\ WritesOrder(o) /\ NoOverwrite(o) /\ order'[o].review
           /\ order'[o].payment = order[o].payment
           /\ order'[o].refunded = order[o].refunded
  <1> DEFINE row == order[o]
             new == [row EXCEPT !.review = TRUE, !.version = row.version + 1]
  <1>1. /\ o \in Orders /\ row \in OrderRows /\ order \in [Orders -> OrderRows]
        /\ row.status # "none" /\ intent \subseteq Intents
    BY OrderRowType DEF RefundsConsistent, TypeOK, OrdersTypeOK, Paying
  <1>2. /\ new \in OrderRows /\ new.status = row.status
        /\ new.method = row.method /\ new.payment = row.payment
        /\ new.refunded = row.refunded /\ new.review
        /\ new.version >= row.version
    BY <1>1, ReviewRow
  <1>3. ~row.review => order' = [order EXCEPT ![o] = new]
    BY <1>1
  <1>4. row.version >= row.version /\ row.review \in BOOLEAN
    BY <1>1 DEF OrderRows
  <1> HIDE DEF new
  <1>5. CASE row.review
    BY <1>1, <1>4, <1>5 DEF WritesOrder, NoOverwrite
  <1>6. CASE ~row.review
    BY <1>1, <1>2, <1>3, <1>4, <1>6 DEF WritesOrder, NoOverwrite
  <1>. QED
    BY <1>5, <1>6

LEMMA MarkRefundForReviewStep ==
    ASSUME RefundsConsistent, NEW w \in Workers, worker[w].step # "idle",
           worker[w].gen # 0, MarkRefundForReview(w), Done(w),
           UNCHANGED <<holdVars, stockVars, requestVars, intent, providerVars,
                       mishaps>>
    PROVE  RefundsConsistent'
  <1> PICK o \in Orders : o = worker[w].on
    BY BusyKnows
  <1> DEFINE row == [Unleased(Row(w)) EXCEPT !.status = "review_required"]
  <1>1. UpdateLeased(w, row) /\ OthersUntouched /\ mishaps' \in Nat
    BY BusyKnows DEF MarkRefundForReview, OthersUntouched
  <1>2. CASE ~Holds(w)
    <2>1. UNCHANGED <<operation, order>>
      BY <1>1, <1>2 DEF MarkRefundForReview, UpdateLeased
    <2>. QED
      BY <1>1, <2>1, DoneStep DEF KeepOrders
  <1>3. CASE Holds(w)
    <2>1. Row(w) \in OperationRows
      BY RowOfBusy
    <2>2. /\ row \in OperationRows /\ row.status = "review_required"
          /\ row.id = Row(w).id /\ row.dispatched = Row(w).dispatched
          /\ row.lease = NoWorker
      BY <2>1, UnleasedStatus
    <2>3. Update(w, row)
      BY <1>1, <1>3 DEF UpdateLeased
    <2> HIDE DEF row
    <2>4. o \in Paying
      BY BusyKnows DEF Knows
    <2>5. order' = IF ~order[o].review
                   THEN [order EXCEPT ![o].review = TRUE, ![o].version = @ + 1]
                   ELSE order
      BY <1>3 DEF MarkRefundForReview
    <2>6. /\ WritesOrder(o) /\ order'[o].review
          /\ order'[o].payment = order[o].payment
      BY <2>4, <2>5, ReviewWrites
    <2>7. order[o].payment # "refund_failed"
      BY <1>3, PendingPayment
    <2>8. order[o].payment = "refunded" => Refunded(o) = Full
      BY DEF RefundsConsistent, PaymentAgrees
    <2>. QED
      BY <1>1, <1>3, <2>2, <2>3, <2>6, <2>7, <2>8, EndStep
  <1>. QED
    BY <1>2, <1>3

LEMMA RefuseToCreateStep ==
    ASSUME RefundsConsistent, NEW w \in Workers, RefuseToCreate(w)
    PROVE  RefundsConsistent'
  <1>1. worker[w].step = "refuse"
    BY DEF RefuseToCreate
  <1>2. worker[w].gen # 0
    BY <1>1, BusyKnows DEF Knows
  <1>. QED
    BY <1>1, <1>2, MarkRefundForReviewStep DEF RefuseToCreate

LEMMA RecordRefundFailureStep ==
    ASSUME RefundsConsistent, NEW w \in Workers, RecordRefundFailure(w)
    PROVE  RefundsConsistent'
  <1>1. worker[w].step = "failed"
    BY DEF RecordRefundFailure
  <1>2. worker[w].gen # 0
    BY <1>1, BusyKnows DEF Knows
  <1>3. CASE FailedAttempts(w) >= RefundMaxAttempts
    BY <1>1, <1>2, <1>3, MarkRefundForReviewStep DEF RecordRefundFailure
  <1>4. CASE ~(FailedAttempts(w) >= RefundMaxAttempts)
    <2> DEFINE n == FailedAttempts(w)
               row == [Unleased(Row(w)) EXCEPT !.tries = n]
    <2>1. Row(w) \in OperationRows
      BY <1>1, <1>2, RowOfBusy
    <2>2. n \in Nat
      BY <1>1, WorkerType DEF FailedAttempts, OperationRows, RefundsConsistent
    <2>3. UpdateLeased(w, row) /\ Done(w) /\ KeepOrders
          /\ UNCHANGED <<providerVars, mishaps>>
      BY <1>4 DEF RecordRefundFailure, KeepOrders
    <2> HIDE DEF n
    <2>4. /\ row \in OperationRows /\ row.status = Row(w).status
          /\ row.id = Row(w).id /\ row.dispatched = Row(w).dispatched
          /\ row.lease = NoWorker
      BY <2>1, <2>2, Unlease, SetTries
    <2> HIDE DEF row
    <2>. QED
      BY <1>1, <2>3, <2>4, GiveBackStep
  <1>. QED
    BY <1>3, <1>4

\* The row of an operation that is over.
Parked(row, s) == [Unleased(row) EXCEPT !.status = s]

LEMMA ParkedIs ==
    ASSUME NEW row \in OperationRows,
           NEW s \in {"pending", "succeeded", "failed", "review_required"}
    PROVE  /\ Parked(row, s) \in OperationRows
           /\ Parked(row, s).status = s /\ Parked(row, s).id = row.id
           /\ Parked(row, s).dispatched = row.dispatched
           /\ Parked(row, s).lease = NoWorker
  BY UnleasedStatus DEF Parked

LEMMA CloseOperationStep ==
    ASSUME RefundsConsistent, NEW w \in Workers, CloseOperation(w)
    PROVE  RefundsConsistent'
  <1> PICK o \in Orders : o = worker[w].on
    BY BusyKnows DEF CloseOperation
  <1> DEFINE s == IF worker[w].amount = Full THEN "succeeded"
                                             ELSE "review_required"
             row == Parked(Row(w), s)
  <1>1. /\ worker[w].step = "close" /\ UpdateLeased(w, row) /\ Done(w)
        /\ KeepOrders /\ UNCHANGED <<providerVars, mishaps>>
        /\ mishaps' \in Nat
    BY BusyKnows DEF CloseOperation, Parked
  <1>2. CASE ~Holds(w)
    <2>1. UNCHANGED operation
      BY <1>1, <1>2 DEF UpdateLeased
    <2>. QED
      BY <1>1, <2>1, DoneStep
  <1>3. CASE Holds(w)
    <2>1. Row(w) \in OperationRows
      BY <1>1, <1>3, RowOfBusy DEF Holds
    <2>2. s \in {"succeeded", "review_required"}
          /\ (s = "succeeded" => worker[w].amount = Full)
      OBVIOUS
    <2>3. Update(w, row)
      BY <1>1, <1>3 DEF UpdateLeased
    <2> HIDE DEF s
    <2>4. /\ row \in OperationRows /\ row.status = s /\ row.id = Row(w).id
          /\ row.dispatched = Row(w).dispatched /\ row.lease = NoWorker
      BY <2>1, <2>2, ParkedIs
    <2> HIDE DEF row
    <2>5. \/ order[o].payment = "refunded"
          \/ worker[w].amount # Full /\ order[o].review
      BY <1>1, <1>3 DEF RefundsConsistent, LeaseProtects
    <2>6. order[o].payment # "refund_failed"
      BY <1>1, <1>3, PendingPayment
    <2>7. order[o].payment = "refunded" => Refunded(o) = Full
      BY DEF RefundsConsistent, PaymentAgrees
    <2>8. WritesOrder(o) /\ OthersUntouched /\ order'[o] = order[o]
      BY <1>1, KeptOrders
    <2>9. row.status # "pending" /\ row.status # "failed"
      BY <2>2, <2>4
    <2>10. /\ order'[o].payment = "refunded" => Refunded(o) = Full
           /\ order'[o].payment = "refund_pending" => order'[o].review
           /\ order'[o].payment = "refund_failed" => row.status = "failed"
           /\ row.status = "succeeded" => order'[o].payment = "refunded"
      BY <2>2, <2>4, <2>5, <2>6, <2>7, <2>8
    <2>. QED
      BY <1>1, <1>3, <2>3, <2>4, <2>8, <2>9, <2>10, EndStep
  <1>. QED
    BY <1>2, <1>3

\* The order after a refund was decided.
PaidBack(row) ==
    [row EXCEPT !.payment = "refunded", !.refunded = Full, !.version = @ + 1]

NotPaidBack(row) == [row EXCEPT !.payment = "refund_failed", !.version = @ + 1]

LEMMA PaidBackIs ==
    ASSUME NEW row \in OrderRows
    PROVE  LET new == PaidBack(row) IN
           /\ new \in OrderRows /\ new.status = row.status
           /\ new.method = row.method /\ new.payment = "refunded"
           /\ new.version >= row.version
  <1> DEFINE r1 == [row EXCEPT !.payment = "refunded", !.refunded = Full]
             new == [r1 EXCEPT !.version = row.version + 1]
  <1>1. row.version + 1 \in Nat /\ row.version + 1 >= row.version
    BY DEF OrderRows
  <1>2. /\ r1 \in OrderRows /\ r1.status = row.status
        /\ r1.method = row.method /\ r1.payment = "refunded"
    <2>1. Full \in 0..Full /\ "refunded" \in PaymentStatuses
      BY DEF PaymentStatuses, Full
    <2>. QED
      BY <2>1 DEF OrderRows
  <1>3. PaidBack(row) = new
    BY DEF PaidBack, OrderRows
  <1> HIDE DEF r1
  <1>4. /\ new \in OrderRows /\ new.status = r1.status
        /\ new.method = r1.method /\ new.payment = r1.payment
        /\ new.version = row.version + 1
    BY <1>1, <1>2 DEF OrderRows
  <1> HIDE DEF new
  <1>. QED
    BY <1>1, <1>2, <1>3, <1>4

LEMMA NotPaidBackIs ==
    ASSUME NEW row \in OrderRows
    PROVE  LET new == NotPaidBack(row) IN
           /\ new \in OrderRows /\ new.status = row.status
           /\ new.method = row.method /\ new.payment = "refund_failed"
           /\ new.version >= row.version
  <1> DEFINE r1 == [row EXCEPT !.payment = "refund_failed"]
             new == [r1 EXCEPT !.version = row.version + 1]
  <1>1. row.version + 1 \in Nat /\ row.version + 1 >= row.version
    BY DEF OrderRows
  <1>2. /\ r1 \in OrderRows /\ r1.status = row.status
        /\ r1.method = row.method /\ r1.payment = "refund_failed"
    BY DEF OrderRows, PaymentStatuses
  <1>3. NotPaidBack(row) = new
    BY DEF NotPaidBack, OrderRows
  <1> HIDE DEF r1
  <1>4. /\ new \in OrderRows /\ new.status = r1.status
        /\ new.method = r1.method /\ new.payment = r1.payment
        /\ new.version = row.version + 1
    BY <1>1, <1>2 DEF OrderRows
  <1> HIDE DEF new
  <1>. QED
    BY <1>1, <1>2, <1>3, <1>4

LEMMA NewRowWrites ==
    ASSUME RefundsConsistent, NEW o \in Paying, intent' \subseteq Intents,
           NEW new \in OrderRows, order' = [order EXCEPT ![o] = new],
           new.status = order[o].status, new.method = order[o].method,
           new.version >= order[o].version
    PROVE  WritesOrder(o) /\ order'[o] = new
  BY DEF WritesOrder, RefundsConsistent, TypeOK, OrdersTypeOK, Paying

LEMMA AnnounceType ==
    ASSUME RefundsConsistent, NEW o \in Orders, AnnounceRefund(o)
    PROVE  intent' \subseteq Intents
  <1>1. order[o].version + 1 \in Nat /\ intent \subseteq Intents
    BY OrderRowType DEF RefundsConsistent, OrderRows, TypeOK, OrdersTypeOK
  <1>. QED
    BY <1>1 DEF AnnounceRefund, Intents

Decided(row, s, i) == [Unleased(row) EXCEPT !.status = s, !.id = i]

LEMMA DecidedIs ==
    ASSUME NEW row \in OperationRows, NEW i \in Nat,
           NEW s, s \in {"pending", "succeeded", "failed", "review_required"}
    PROVE  LET new == Decided(row, s, i) IN
           /\ new \in OperationRows
           /\ new.status = s /\ new.id = i
           /\ new.dispatched = row.dispatched /\ new.lease = NoWorker
  <1> DEFINE u == Parked(row, s)
             new == [u EXCEPT !.id = i]
  <1>1. /\ u \in OperationRows /\ u.status = s
        /\ u.dispatched = row.dispatched /\ u.lease = NoWorker
    BY ParkedIs
  <1>2. Decided(row, s, i) = new
    BY DEF Decided, Parked
  <1> HIDE DEF u
  <1>3. /\ new \in OperationRows
        /\ new.status = u.status /\ new.id = i
        /\ new.dispatched = u.dispatched /\ new.lease = u.lease
    BY <1>1 DEF OperationRows
  <1> HIDE DEF new
  <1>. QED
    BY <1>1, <1>2, <1>3

\* What a worker that got an answer knows of the refund.
LEMMA AnswerKnown ==
    ASSUME RefundsConsistent, NEW w \in Workers, worker[w].step = "apply"
    PROVE  LET o == worker[w].on  i == worker[w].got IN
           /\ o \in Paying /\ i \in Nat /\ i # 0
           /\ i \in 1..Len(refund[o])
           /\ IsRefundOf(i, o, worker[w].gen)
           /\ worker[w].gen # 0 /\ Row(w) \in OperationRows
           /\ worker[w].answer \in {"pending", refund[o][i].status}
  <1>1. Knows(worker[w]) /\ worker[w].gen # 0
    BY BusyKnows DEF Knows
  <1>2. Row(w) \in OperationRows /\ worker[w].got \in Nat
    BY <1>1, RowOfBusy, WorkerType DEF RefundsConsistent
  <1>3. Len(refund[worker[w].on]) \in Nat
    BY BusyKnows, OrderRowType
  <1>. QED
    BY <1>1, <1>2, <1>3 DEF Knows, IsRefundOf

LEMMA AnswerIs ==
    ASSUME NEW w \in Workers, Row(w) \in OperationRows,
           NEW s \in {"pending", "succeeded", "failed", "review_required"},
           NEW i \in Nat
    PROVE  LET new == Decided(Row(w), s, i) IN
           /\ new \in OperationRows /\ new.status = s /\ new.id = i
           /\ new.dispatched = Row(w).dispatched /\ new.lease = NoWorker
  <1> PICK row \in OperationRows : row = Row(w)
    OBVIOUS
  <1>1. LET new == Decided(row, s, i) IN
            /\ new \in OperationRows /\ new.status = s /\ new.id = i
            /\ new.dispatched = row.dispatched /\ new.lease = NoWorker
    BY DecidedIs
  <1>. QED
    BY <1>1

LEMMA ApplySucceededStep ==
    ASSUME RefundsConsistent, NEW w \in Workers, ApplySucceeded(w)
    PROVE  RefundsConsistent'
  <1> PICK o \in Orders : o = worker[w].on
    BY BusyKnows DEF ApplySucceeded
  <1> PICK i \in Nat : i = worker[w].got
    BY AnswerKnown DEF ApplySucceeded
  <1> DEFINE row == Decided(Row(w), "succeeded", i)
             new == PaidBack(order[o])
  <1>1. /\ worker[w].step = "apply" /\ worker[w].answer = "succeeded"
        /\ Done(w) /\ OthersUntouched /\ UNCHANGED <<providerVars, mishaps>>
        /\ mishaps' \in Nat
    BY BusyKnows DEF ApplySucceeded, OthersUntouched
  <1>2. CASE ~Holds(w)
    <2>1. KeepOrders /\ UNCHANGED operation
      BY <1>2 DEF ApplySucceeded, KeepOrders
    <2>. QED
      BY <1>1, <2>1, DoneStep
  <1>3. CASE Holds(w)
    <2>1. order[o] \in OrderRows /\ order \in [Orders -> OrderRows]
      BY OrderRowType DEF RefundsConsistent, TypeOK, OrdersTypeOK
    <2>2. Update(w, row)
      BY <1>3 DEF ApplySucceeded, Decided
    <2>3. order' = [order EXCEPT ![o] = new]
      <3>1. order' = [order EXCEPT ![worker[w].on] = PaidBack(order[worker[w].on])]
        BY <1>3 DEF ApplySucceeded, PaidBack
      <3>. QED
        BY <3>1
    <2>4. intent' \subseteq Intents
      BY <1>3, AnnounceType
      DEF ApplySucceeded, RefundsConsistent, TypeOK, OrdersTypeOK
    <2>5. /\ o \in Paying /\ i \in Nat /\ i # 0
          /\ IsRefundOf(i, o, worker[w].gen) /\ Row(w) \in OperationRows
          /\ i \in 1..Len(refund[o]) /\ refund[o][i].status = "succeeded"
      BY <1>1, AnswerKnown
    <2>6. /\ row \in OperationRows /\ row.status = "succeeded" /\ row.id = i
          /\ row.dispatched = Row(w).dispatched /\ row.lease = NoWorker
      BY <2>5, AnswerIs
    <2> HIDE DEF row
    <2>8. /\ new \in OrderRows /\ new.status = order[o].status
          /\ new.method = order[o].method /\ new.payment = "refunded"
          /\ new.version >= order[o].version
      BY <2>1, PaidBackIs
    <2> HIDE DEF new
    <2>9. WritesOrder(o) /\ order'[o] = new
      BY <2>3, <2>4, <2>5, <2>8, NewRowWrites
    <2>10. "refunded" = "refunded" => Refunded(o) = Full
      BY <2>5, RefundedIs DEF RefundsConsistent
    <2>11. row.status # "pending" /\ IsRefundOf(row.id, o, worker[w].gen)
      BY <2>5, <2>6
    <2>12. row.status = "failed" =>
               row.id # 0 /\ refund[o][row.id].status = "failed"
      BY <2>5, <2>6
    <2>13. /\ order'[o].payment = "refunded" => Refunded(o) = Full
           /\ order'[o].payment = "refund_pending" => order'[o].review
           /\ order'[o].payment = "refund_failed" => row.status = "failed"
           /\ row.status = "succeeded" => order'[o].payment = "refunded"
      BY <2>6, <2>8, <2>9, <2>10
    <2>. QED
      BY <1>1, <1>3, <2>2, <2>6, <2>9, <2>11, <2>12, <2>13, EndStep
  <1>. QED
    BY <1>2, <1>3

LEMMA ApplyFailedStep ==
    ASSUME RefundsConsistent, NEW w \in Workers, ApplyFailed(w)
    PROVE  RefundsConsistent'
  <1> PICK o \in Orders : o = worker[w].on
    BY BusyKnows DEF ApplyFailed
  <1> PICK i \in Nat : i = worker[w].got
    BY AnswerKnown DEF ApplyFailed
  <1> DEFINE row == Decided(Row(w), "failed", i)
             new == NotPaidBack(order[o])
  <1>1. /\ worker[w].step = "apply" /\ worker[w].answer = "failed"
        /\ Done(w) /\ OthersUntouched /\ UNCHANGED <<providerVars, mishaps>>
        /\ mishaps' \in Nat
    BY BusyKnows DEF ApplyFailed, OthersUntouched
  <1>2. CASE ~Holds(w)
    <2>1. KeepOrders /\ UNCHANGED operation
      BY <1>2 DEF ApplyFailed, KeepOrders
    <2>. QED
      BY <1>1, <2>1, DoneStep
  <1>3. CASE Holds(w)
    <2>1. order[o] \in OrderRows /\ order \in [Orders -> OrderRows]
      BY OrderRowType DEF RefundsConsistent, TypeOK, OrdersTypeOK
    <2>2. Update(w, row)
      BY <1>3 DEF ApplyFailed, Decided
    <2>3. order' = [order EXCEPT ![o] = new]
      <3>1. order' = [order EXCEPT ![worker[w].on] = NotPaidBack(order[worker[w].on])]
        BY <1>3 DEF ApplyFailed, NotPaidBack
      <3>. QED
        BY <3>1
    <2>4. intent' \subseteq Intents
      BY <1>3
      DEF ApplyFailed, RefundsConsistent, TypeOK, OrdersTypeOK
    <2>5. /\ o \in Paying /\ i \in Nat /\ i # 0
          /\ IsRefundOf(i, o, worker[w].gen) /\ Row(w) \in OperationRows
          /\ i \in 1..Len(refund[o]) /\ refund[o][i].status = "failed"
      BY <1>1, AnswerKnown
    <2>6. /\ row \in OperationRows /\ row.status = "failed" /\ row.id = i
          /\ row.dispatched = Row(w).dispatched /\ row.lease = NoWorker
      BY <2>5, AnswerIs
    <2> HIDE DEF row
    <2>8. /\ new \in OrderRows /\ new.status = order[o].status
          /\ new.method = order[o].method /\ new.payment = "refund_failed"
          /\ new.version >= order[o].version
      BY <2>1, NotPaidBackIs
    <2> HIDE DEF new
    <2>9. WritesOrder(o) /\ order'[o] = new
      BY <2>3, <2>4, <2>5, <2>8, NewRowWrites
    <2>10. "refund_failed" = "refunded" => Refunded(o) = Full
      BY <2>5, RefundedIs DEF RefundsConsistent
    <2>11. row.status # "pending" /\ IsRefundOf(row.id, o, worker[w].gen)
      BY <2>5, <2>6
    <2>12. row.status = "failed" =>
               row.id # 0 /\ refund[o][row.id].status = "failed"
      BY <2>5, <2>6
    <2>13. /\ order'[o].payment = "refunded" => Refunded(o) = Full
           /\ order'[o].payment = "refund_pending" => order'[o].review
           /\ order'[o].payment = "refund_failed" => row.status = "failed"
           /\ row.status = "succeeded" => order'[o].payment = "refunded"
      BY <2>6, <2>8, <2>9, <2>10
    <2>. QED
      BY <1>1, <1>3, <2>2, <2>6, <2>9, <2>11, <2>12, <2>13, EndStep
  <1>. QED
    BY <1>2, <1>3

-----------------------------------------------------------------------------
(* What the charge says is written to the order *)

Settled(row, n, review) ==
    [row EXCEPT !.refunded = n, !.review = review,
                !.payment = IF n = Full THEN "refunded" ELSE @,
                !.version = @ + 1]

LEMMA SettledIs ==
    ASSUME NEW row \in OrderRows, NEW n \in 0..Full, NEW review \in BOOLEAN
    PROVE  LET new == Settled(row, n, review) IN
           /\ new \in OrderRows /\ new.status = row.status
           /\ new.method = row.method /\ new.refunded = n
           /\ new.review = review /\ new.version >= row.version
           /\ new.payment = IF n = Full THEN "refunded" ELSE row.payment
  <1> PICK p \in PaymentStatuses :
          p = IF n = Full THEN "refunded" ELSE row.payment
    BY DEF OrderRows, PaymentStatuses
  <1> DEFINE r1 == [row EXCEPT !.refunded = n, !.review = review]
             r2 == [r1 EXCEPT !.payment = p]
             new == [r2 EXCEPT !.version = row.version + 1]
  <1>1. row.version + 1 \in Nat /\ row.version + 1 >= row.version
    BY DEF OrderRows
  <1>2. /\ r1 \in OrderRows /\ r1.status = row.status
        /\ r1.method = row.method /\ r1.refunded = n /\ r1.review = review
        /\ r1.payment = row.payment /\ r1.version = row.version
    BY DEF OrderRows
  <1>3. Settled(row, n, review) = new
    BY DEF Settled, OrderRows
  <1> HIDE DEF r1
  <1>4. /\ r2 \in OrderRows /\ r2.status = r1.status
        /\ r2.method = r1.method /\ r2.refunded = r1.refunded
        /\ r2.review = r1.review /\ r2.payment = p
    BY <1>2 DEF OrderRows
  <1> HIDE DEF r2
  <1>5. /\ new \in OrderRows /\ new.status = r2.status
        /\ new.method = r2.method /\ new.refunded = r2.refunded
        /\ new.review = r2.review /\ new.payment = r2.payment
        /\ new.version = row.version + 1
    BY <1>1, <1>4 DEF OrderRows
  <1> HIDE DEF new
  <1>. QED
    BY <1>1, <1>2, <1>3, <1>4, <1>5

LEMMA SettledOrder ==
    ASSUME RefundsConsistent, NEW w \in Workers, ApplyExternalPaymentTruth(w),
           NEW o \in Paying, o = worker[w].on,
           NEW n \in 0..Full, n = worker[w].amount,
           NEW review \in BOOLEAN, review = NeedsReview(w)
    PROVE  /\ WritesOrder(o) /\ order'[o].refunded = n
           /\ order'[o].review = review
           /\ order'[o].payment = IF n = Full THEN "refunded"
                                              ELSE order[o].payment
  <1>1. /\ o \in Orders /\ order[o] \in OrderRows /\ intent \subseteq Intents
        /\ order \in [Orders -> OrderRows] /\ order[o].version \in Nat
    BY OrderRowType
    DEF RefundsConsistent, TypeOK, OrdersTypeOK, Paying, OrderRows
  <1>2. CASE /\ order[o].refunded = n /\ order[o].review = review
             /\ n = Full => order[o].payment = "refunded"
    <2>1. UNCHANGED <<order, intent>>
      BY <1>2 DEF ApplyExternalPaymentTruth
    <2>2. order[o].version >= order[o].version
      BY <1>1
    <2>. QED
      BY <1>1, <1>2, <2>1, <2>2 DEF WritesOrder
  <1>3. CASE ~(/\ order[o].refunded = n /\ order[o].review = review
               /\ n = Full => order[o].payment = "refunded")
    <2> DEFINE new == Settled(order[o], n, review)
    <2>1. order' = [order EXCEPT ![o] = new]
      BY <1>3 DEF ApplyExternalPaymentTruth, Settled
    <2>2. intent' \subseteq Intents
      <3>1. AnnounceRefund(o) \/ UNCHANGED intent
        BY <1>3 DEF ApplyExternalPaymentTruth
      <3>. QED
        BY <1>1, <3>1, AnnounceType
    <2>3. /\ new \in OrderRows /\ new.status = order[o].status
          /\ new.method = order[o].method /\ new.refunded = n
          /\ new.review = review /\ new.version >= order[o].version
          /\ new.payment = IF n = Full THEN "refunded" ELSE order[o].payment
      BY <1>1, SettledIs
    <2> HIDE DEF new
    <2>4. WritesOrder(o) /\ order'[o] = new
      BY <2>1, <2>2, <2>3, NewRowWrites
    <2>. QED
      BY <2>3, <2>4
  <1>. QED
    BY <1>2, <1>3

LEMMA ApplyExternalPaymentTruthStep ==
    ASSUME RefundsConsistent, NEW w \in Workers, ApplyExternalPaymentTruth(w)
    PROVE  RefundsConsistent'
  <1> PICK st \in WorkerStates, o \in Orders : st = worker[w] /\ o = st.on
    BY BusyKnows DEF ApplyExternalPaymentTruth
  <1> PICK n \in 0..Full : n = st.amount
    BY DEF WorkerStates
  <1>0. NeedsReview(w) \in BOOLEAN
    BY DEF NeedsReview
  <1> PICK review \in BOOLEAN : review = NeedsReview(w)
    BY <1>0, Zenon
  <1>1. /\ st.step = "settle" /\ Knows(st) /\ TypeOK /\ OthersUntouched
        /\ UNCHANGED <<operation, mishaps>> /\ mishaps' \in Nat
        /\ worker \in [Workers -> WorkerStates] /\ PaymentAgrees(o)
        /\ IF st.gen = 0 THEN Done(w) ELSE Proceed(w, "close")
    <2>1. /\ st.step = "settle" /\ OthersUntouched
          /\ UNCHANGED <<operation, mishaps>>
          /\ IF st.gen = 0 THEN Done(w) ELSE Proceed(w, "close")
      BY DEF ApplyExternalPaymentTruth, OthersUntouched
    <2>. QED
      BY <2>1, BusyKnows DEF RefundsConsistent
  <1>2. /\ o \in Paying /\ n > 0 /\ n <= Refunded(o)
        /\ (st.ended => order[o].status \in Ended)
        /\ (review <=> n # Full \/ ~st.ended)
    BY <1>1 DEF Knows, NeedsReview
  <1>3. /\ WritesOrder(o) /\ order'[o].refunded = n
        /\ order'[o].review = review
        /\ order'[o].payment = IF n = Full THEN "refunded"
                                           ELSE order[o].payment
    BY <1>2, SettledOrder
  <1>4. NoOverwrite(o) /\ order'[o].status = order[o].status
    BY <1>2, <1>3 DEF NoOverwrite, WritesOrder
  <1>5. Refunded(o)' = Refunded(o) /\ Last(o)' = Last(o)
    BY <1>1, SameRefunded DEF OthersUntouched, Last
  <1>6. PaymentAgrees(o)'
    <2>1. Refunded(o) \in 0..Full
      BY RefundedIs DEF RefundsConsistent
    <2>2. n = Full => Refunded(o) = Full
      BY <1>2, <2>1 DEF Full
    <2>. QED
      BY <1>1, <1>2, <1>3, <1>4, <1>5, <2>2 DEF PaymentAgrees
  <1>7. WritesWorker(w) /\ StillAgrees(w)'
    <2>1. CASE st.gen = 0
      BY <1>1, <2>1, DoneWrites
    <2>2. CASE st.gen # 0
      <3> DEFINE new == [st EXCEPT !.step = "close"]
      <3>1. worker' = [worker EXCEPT ![w] = new]
        BY <1>1, <2>2 DEF Proceed
      <3>2. /\ new \in WorkerStates /\ new.step = "close" /\ new.on = st.on
            /\ new.gen = st.gen /\ new.seen = st.seen /\ new.ended = st.ended
            /\ new.amount = st.amount
        <4>1. "close" \in Steps
          BY DEF Steps
        <4>. QED
          BY <4>1, StepOfState
      <3> HIDE DEF new
      <3>3. WritesWorker(w) /\ worker'[w] = new
        BY <1>1, <3>1, <3>2 DEF WritesWorker
      <3>4. Knows(new)'
        <4>1. o \in Paying'
          BY <1>2, <1>4, <1>3 DEF Paying, WritesOrder
        <4>. QED
          BY <1>1, <1>2, <1>4, <1>5, <2>2, <3>2, <4>1 DEF Knows
      <3>5. LeaseProtects(w)'
        BY <1>2, <1>3, <3>2, <3>3 DEF LeaseProtects
      <3>. QED
        BY <3>2, <3>3, <3>4, <3>5 DEF StillAgrees, WorkAgrees
    <2>. QED
      BY <2>1, <2>2
  <1>. QED
    BY <1>1, <1>3, <1>4, <1>6, <1>7, OrderStep

LEMMA MarkOrderReviewStep ==
    ASSUME RefundsConsistent, NEW o \in Orders, MarkOrderReview(o)
    PROVE  RefundsConsistent'
  <1>1. /\ o \in Paying /\ UNCHANGED <<operation, worker, mishaps>>
        /\ OthersUntouched /\ intent' = intent /\ TypeOK /\ PaymentAgrees(o)
        /\ order' = IF ~order[o].review
                    THEN [order EXCEPT ![o].review = TRUE, ![o].version = @ + 1]
                    ELSE order
    BY DEF MarkOrderReview, OthersUntouched, RefundsConsistent
  <1>2. /\ WritesOrder(o) /\ NoOverwrite(o) /\ order'[o].review
        /\ order'[o].payment = order[o].payment
        /\ order'[o].refunded = order[o].refunded
    BY <1>1, ReviewWrites
  <1>3. Refunded(o)' = Refunded(o) /\ Last(o)' = Last(o)
    BY <1>1, SameRefunded DEF OthersUntouched, Last
  <1>4. PaymentAgrees(o)'
    BY <1>1, <1>2, <1>3 DEF PaymentAgrees
  <1>5. WritesWorker(NoWorker) /\ StillAgrees(NoWorker)'
    BY <1>1, OrdersAssumption DEF WritesWorker, StillAgrees, TypeOK
  <1>. QED
    BY <1>1, <1>2, <1>4, <1>5, OrderStep

-----------------------------------------------------------------------------
(* Time *)

LEMMA NoWorkerMoves ==
    ASSUME RefundsConsistent, UNCHANGED worker, mishaps' \in Nat
    PROVE  WritesWorker(NoWorker) /\ StillAgrees(NoWorker)'
  BY OrdersAssumption DEF WritesWorker, StillAgrees, RefundsConsistent, TypeOK

LEMMA LeaseExpiresStep ==
    ASSUME RefundsConsistent, NEW o \in Orders, NEW g \in 1..Len(operation[o]),
           LeaseExpires(o, g)
    PROVE  RefundsConsistent'
  <1> PICK old : old = operation[o][g]
    OBVIOUS
  <1> DEFINE row == [old EXCEPT !.leaseOld = TRUE]
  <1>1. TypeOK /\ old \in OperationRows /\ OperationsAgree(o)
    BY RowType DEF RefundsConsistent
  <1>2. old.lease # NoWorker /\ KeepOrders /\ UNCHANGED <<providerVars, worker>>
    BY DEF LeaseExpires
  <1>3. mishaps' \in Nat
    <2>1. mishaps \in Nat
      BY <1>1 DEF TypeOK
    <2>. QED
      BY <2>1 DEF LeaseExpires
  <1>4. operation' = [operation EXCEPT ![o][g] = row]
    BY DEF LeaseExpires
  <1>5. /\ row \in OperationRows /\ row.status = old.status /\ row.id = old.id
        /\ row.dispatched = old.dispatched /\ row.lease = old.lease
    BY <1>1 DEF OperationRows
  <1> HIDE DEF row
  <1>6. old.status = "pending"
    BY <1>1, <1>2 DEF OperationsAgree
  <1>7. WritesOperation(o, g, row, NoWorker)
    BY <1>4, <1>5, <1>6 DEF WritesOperation, Lawful
  <1>8. WritesWorker(NoWorker) /\ StillAgrees(NoWorker)'
    BY <1>2, <1>3, NoWorkerMoves
  <1>. QED
    BY <1>2, <1>5, <1>7, <1>8, OperationQuietStep

LEMMA DispatchAgesStep ==
    ASSUME RefundsConsistent, NEW o \in Orders, NEW g \in 1..Len(operation[o]),
           DispatchAges(o, g)
    PROVE  RefundsConsistent'
  <1> PICK old : old = operation[o][g]
    OBVIOUS
  <1> DEFINE row == [old EXCEPT !.dispatched = "old"]
  <1>1. TypeOK /\ old \in OperationRows /\ OperationsAgree(o) /\ mishaps \in Nat
    BY RowType DEF RefundsConsistent, TypeOK
  <1>2. /\ KeepOrders /\ UNCHANGED <<providerVars, worker, mishaps>>
        /\ \A w \in Workers : ~WorksOn(w, o, g)
        /\ operation' = [operation EXCEPT ![o][g] = row]
    BY DEF DispatchAges
  <1>3. /\ row \in OperationRows /\ row.status = old.status /\ row.id = old.id
        /\ row.dispatched = "old" /\ row.lease = old.lease
    BY <1>1 DEF OperationRows
  <1> HIDE DEF row
  <1>4. old.status # "pending" => old.lease = NoWorker
    BY <1>1 DEF OperationsAgree
  <1>5. old.status = "failed" => old.id # 0 /\ refund[o][old.id].status = "failed"
    BY <1>1 DEF OperationsAgree
  <1>6. WritesOperation(o, g, row, NoWorker)
    BY <1>2, <1>3, <1>4, <1>5 DEF WritesOperation, Lawful
  <1>7. WritesWorker(NoWorker) /\ StillAgrees(NoWorker)'
    BY <1>1, <1>2, NoWorkerMoves
  <1>. QED
    BY <1>2, <1>3, <1>6, <1>7, OperationQuietStep

-----------------------------------------------------------------------------
(* Stripe *)

\* A step at Stripe, of which at most one worker gets to know.
LEMMA ProviderStep ==
    ASSUME RefundsConsistent, KeepOrders, UNCHANGED operation,
           refund' \in [Orders -> Seq(RefundRows)],
           keyed' \in [Orders -> [Generations -> Nat]],
           external' \in [Orders -> 0..Full],
           \A p \in Orders : RefundsAgree(p)' /\ RefundsGrow(p)
                             /\ Refunded(p)' >= Refunded(p),
           NEW w, WritesWorker(w), StillAgrees(w)'
    PROVE  RefundsConsistent'
  <1>1. TypeOK /\ OrdersConsistent
    BY DEF RefundsConsistent
  <1>2. OrdersTypeOK' /\ OrdersConsistent'
    <2>1. UNCHANGED orderVars
      BY DEF orderVars, KeepOrders
    <2>2. OrdersConsistent'
      BY <1>1, <2>1, Stuttering
    <2>. QED
      BY <2>2 DEF OrdersConsistent
  <1>3. TypeOK'
    BY <1>2 DEF TypeOK, WritesWorker
  <1>4. ASSUME NEW p \in Orders
        PROVE  OperationsAgree(p)' /\ PaymentAgrees(p)' /\ Onward(p)
    <2>1. OperationsAgree(p) /\ RefundsGrow(p) /\ order'[p] = order[p]
          /\ operation'[p] = operation[p] /\ Len(operation[p]) \in Nat
      BY <1>1, OrderRowType DEF RefundsConsistent, KeepOrders
    <2>2. \A i, g : IsRefundOf(i, p, g) =>
              /\ IsRefundOf(i, p, g)'
              /\ refund[p][i].status # "pending" =>
                    refund'[p][i].status = refund[p][i].status
      BY <1>1, <1>3, <2>1, RefundStays
    <2>3. OperationsAgree(p)'
      BY <2>1, <2>2 DEF OperationsAgree
    <2>4. PaymentAgrees(p)'
      <3>1. Last(p)' = Last(p)
        BY DEF Last
      <3>. QED
        BY <1>3, <2>1, <3>1, PaymentStays
    <2>5. Onward(p)
      BY <2>1 DEF Onward, Paying
    <2>. QED
      BY <2>3, <2>4, <2>5
  <1>5. ASSUME NEW v \in Workers \ {w}, worker[v].step = "close", Holds(v)'
        PROVE  Holds(v) /\ NoOverwrite(worker[v].on)
    BY <1>5 DEF WritesWorker, Holds, Row, NoOverwrite, KeepOrders
  <1>. QED
    BY <1>2, <1>3, <1>4, <1>5, StepAgrees DEF WritesWorker

LEMMA Untouched ==
    ASSUME RefundsConsistent, NEW p \in Orders, UNCHANGED operation,
           refund'[p] = refund[p], keyed'[p] = keyed[p],
           external'[p] = external[p]
    PROVE  /\ RefundsAgree(p)' /\ RefundsGrow(p) /\ Refunded(p)' >= Refunded(p)
  <1>1. RefundsAgree(p)'
    BY DEF RefundsConsistent, RefundsAgree, IsRefundOf
  <1>2. Refunded(p)' = Refunded(p) /\ Refunded(p) \in 0..Full
    BY RefundedIs DEF RefundsConsistent, Refunded, WithStatus
  <1>3. RefundsGrow(p)
    BY OrderRowType DEF RefundsConsistent, RefundsGrow
  <1>. QED
    BY <1>1, <1>2, <1>3 DEF Full

LEMMA KeyForgottenStep ==
    ASSUME RefundsConsistent, NEW o \in Orders, NEW g \in 1..Len(operation[o]),
           KeyForgotten(o, g)
    PROVE  RefundsConsistent'
  <1>1. /\ operation[o][g].dispatched = "old"
        /\ keyed' = [keyed EXCEPT ![o][g] = 0]
        /\ KeepOrders
        /\ UNCHANGED <<operation, refund, external, worker, mishaps>>
    BY DEF KeyForgotten
  <1>2. TypeOK /\ mishaps' \in Nat /\ RefundsAgree(o)
    BY <1>1 DEF RefundsConsistent, TypeOK
  <1>3. keyed' \in [Orders -> [Generations -> Nat]]
        /\ \A p \in Orders : p # o => keyed'[p] = keyed[p]
    BY <1>1, <1>2 DEF TypeOK
  <1>4. \A h \in Generations : keyed'[o][h] = IF h = g THEN 0 ELSE keyed[o][h]
    BY <1>1, <1>2 DEF TypeOK
  <1>5. /\ RefundsAgree(o)' /\ RefundsGrow(o) /\ Refunded(o)' >= Refunded(o)
    <2>1. Refunded(o)' = Refunded(o) /\ Refunded(o) \in 0..Full
      BY <1>1, RefundedIs DEF RefundsConsistent, Refunded, WithStatus
    <2>2. RefundsGrow(o)
      BY <1>1, <1>2, OrderRowType DEF RefundsGrow
    <2>3. RefundsAgree(o)'
      <3>1. \A i \in 1..Len(refund[o]) : refund[o][i].generation \in Generations
        BY <1>2, RefundRowType DEF RefundRows
      <3>2. ASSUME NEW i \in 1..Len(refund[o])
            PROVE  \/ keyed'[o][refund[o][i].generation] = i
                   \/ operation[o][refund[o][i].generation].dispatched = "old"
        <4>1. CASE refund[o][i].generation = g
          BY <1>1, <4>1
        <4>2. CASE refund[o][i].generation # g
          BY <1>2, <1>4, <3>1, <4>2 DEF RefundsAgree
        <4>. QED
          BY <4>1, <4>2
      <3>3. ASSUME NEW h \in Generations, keyed'[o][h] # 0
            PROVE  IsRefundOf(keyed'[o][h], o, h)
        BY <1>2, <1>4, <3>3 DEF RefundsAgree
      <3>. QED
        BY <1>1, <1>2, <3>2, <3>3 DEF RefundsAgree, IsRefundOf
    <2>. QED
      BY <2>1, <2>2, <2>3 DEF Full
  <1>6. \A p \in Orders : RefundsAgree(p)' /\ RefundsGrow(p)
                          /\ Refunded(p)' >= Refunded(p)
    BY <1>1, <1>3, <1>5, Untouched
  <1>7. WritesWorker(NoWorker) /\ StillAgrees(NoWorker)'
    BY <1>1, <1>2, NoWorkerMoves
  <1>8. refund' \in [Orders -> Seq(RefundRows)] /\ external' \in [Orders -> 0..Full]
    BY <1>1, <1>2 DEF TypeOK
  <1>. QED
    BY <1>1, <1>3, <1>6, <1>7, <1>8, ProviderStep

LEMMA SetRefundStatus ==
    ASSUME NEW row \in RefundRows, NEW s \in {"pending", "succeeded", "failed"}
    PROVE  LET new == [row EXCEPT !.status = s] IN
           /\ new \in RefundRows /\ new.status = s
           /\ new.generation = row.generation
  BY DEF RefundRows

LEMMA RefundSettlesStep ==
    ASSUME RefundsConsistent, NEW o \in Orders, NEW i \in 1..Len(refund[o]),
           NEW status \in {"succeeded", "failed"}, RefundSettles(o, i, status)
    PROVE  RefundsConsistent'
  <1> PICK s \in {"pending", "succeeded", "failed"} : s = status
    OBVIOUS
  <1> PICK old, rows : old = refund[o][i] /\ rows = refund[o]
    OBVIOUS
  <1> DEFINE row == [old EXCEPT !.status = s]
             new == [rows EXCEPT ![i] = row]
  <1>1. TypeOK /\ RefundsAgree(o) /\ old \in RefundRows /\ mishaps \in Nat
        /\ rows \in Seq(RefundRows) /\ Len(rows) \in Nat
    BY RefundRowType, OrderRowType DEF RefundsConsistent, TypeOK
  <1>2. /\ old.status = "pending" /\ KeepOrders
        /\ UNCHANGED <<operation, keyed, external, worker, mishaps>>
    BY DEF RefundSettles
  <1>3. refund' = [refund EXCEPT ![o] = new]
    BY <1>1 DEF RefundSettles, TypeOK
  <1>4. row \in RefundRows /\ row.status = s /\ row.generation = old.generation
    BY <1>1, SetRefundStatus
  <1> HIDE DEF row
  <1>5. /\ new \in Seq(RefundRows) /\ Len(new) = Len(rows) /\ new[i] = row
        /\ \A j \in 1..Len(rows) : j # i => new[j] = rows[j]
    BY <1>1, <1>4, SetRow
  <1> HIDE DEF new
  <1>6. /\ refund' \in [Orders -> Seq(RefundRows)] /\ refund'[o] = new
        /\ \A p \in Orders : p # o => refund'[p] = refund[p]
    BY <1>1, <1>3, <1>5 DEF TypeOK
  \* The refund that is pending is the last, and nothing went back by hand.
  <1>7. \A j \in 1..Len(rows) : j # i => j < i /\ rows[j].status = "failed"
    <2>1. ASSUME NEW j \in 1..Len(rows), j # i
          PROVE  j < i /\ rows[j].status = "failed"
      <3>1. ~(i < j)
        BY <1>1, <1>2 DEF RefundsAgree
      <3>2. j < i
        BY <2>1, <3>1
      <3>. QED
        BY <1>1, <3>2 DEF RefundsAgree
    <2>. QED
      BY <2>1
  <1>8. ~(external[o] > 0) /\ external[o] \in 0..Full
    <2>1. ~AllFailed(o)
      BY <1>2 DEF AllFailed
    <2>. QED
      BY <1>1, <2>1, OrderRowType DEF RefundsAgree, AllFailed
  <1>9. RefundsGrow(o)
    <2>1. \A j \in 1..Len(rows) :
              /\ new[j].generation = rows[j].generation
              /\ rows[j].status # "pending" => new[j].status = rows[j].status
      BY <1>2, <1>4, <1>5
    <2>. QED
      BY <1>1, <1>5, <1>6, <2>1 DEF RefundsGrow
  <1>10. RefundsAgree(o)'
    <2>1. \A j \in 1..Len(rows) : new[j].generation = rows[j].generation
      BY <1>4, <1>5
    <2>2. \A j, k \in 1..Len(rows) : j < k =>
              /\ new[j].generation < new[k].generation
              /\ new[j].status = "failed"
      <3>1. ASSUME NEW j \in 1..Len(rows), NEW k \in 1..Len(rows), j < k
            PROVE  /\ rows[j].generation < rows[k].generation
                   /\ new[j].status = "failed"
        <4>1. j # i
          BY <1>7, <3>1
        <4>. QED
          BY <1>1, <1>5, <1>7, <3>1, <4>1 DEF RefundsAgree
      <3>. QED
        BY <2>1, <3>1
    <2>3. ~(external'[o] > 0)
      BY <1>2, <1>8
    <2>. QED
      BY <1>1, <1>2, <1>5, <1>6, <2>1, <2>2, <2>3 DEF RefundsAgree, IsRefundOf
  <1>11. TypeOK'
    BY <1>1, <1>2, <1>6 DEF TypeOK, KeepOrders, OrdersTypeOK, holdVars,
                            stockVars, requestVars
  <1>12. Refunded(o)' >= Refunded(o)
    <2>1. Refunded(o)' \in 0..Full
      BY <1>10, <1>11, RefundedType
    <2>2. \A j \in 1..Len(rows) : rows[j].status # "succeeded"
      BY <1>2, <1>7
    <2>3. Refunded(o) = external[o]
      BY <1>1, <2>2, RefundedIs
    <2>. QED
      BY <1>8, <2>1, <2>3 DEF Full
  <1>13. \A p \in Orders : RefundsAgree(p)' /\ RefundsGrow(p)
                           /\ Refunded(p)' >= Refunded(p)
    BY <1>2, <1>6, <1>9, <1>10, <1>12, Untouched
  <1>14. WritesWorker(NoWorker) /\ StillAgrees(NoWorker)'
    BY <1>1, <1>2, NoWorkerMoves
  <1>15. /\ keyed' \in [Orders -> [Generations -> Nat]]
         /\ external' \in [Orders -> 0..Full]
    BY <1>1, <1>2 DEF TypeOK
  <1>. QED
    BY <1>2, <1>6, <1>13, <1>14, <1>15, ProviderStep

LEMMA RefundByHandStep ==
    ASSUME RefundsConsistent, NEW o \in Orders, NEW n \in 1..Full,
           RefundByHand(o, n)
    PROVE  RefundsConsistent'
  <1>1. /\ Committed(o) + n <= Full /\ KeepOrders
        /\ external' = [external EXCEPT ![o] = external[o] + n]
        /\ UNCHANGED <<operation, refund, keyed, worker, mishaps>>
    BY DEF RefundByHand
  <1>2. /\ TypeOK /\ RefundsAgree(o) /\ mishaps \in Nat
        /\ external[o] \in 0..Full
    BY OrderRowType DEF RefundsConsistent, TypeOK
  <1>3. AllFailed(o) /\ Committed(o) = external[o]
    <2>1. Committed(o) = IF AllFailed(o) THEN external[o] ELSE Full
      BY <1>2, RefundedIs
    <2>. QED
      BY <1>1, <2>1 DEF Full
  <1>4. external[o] + n \in 0..Full /\ external[o] + n > external[o]
    BY <1>1, <1>2, <1>3 DEF Full
  <1>5. /\ external' \in [Orders -> 0..Full] /\ external'[o] = external[o] + n
        /\ \A p \in Orders : p # o => external'[p] = external[p]
    BY <1>1, <1>2, <1>4 DEF TypeOK
  <1>6. RefundsAgree(o)' /\ RefundsGrow(o)
    BY <1>1, <1>2, <1>3, OrderRowType
    DEF RefundsAgree, IsRefundOf, RefundsGrow, AllFailed
  <1>7. TypeOK'
    BY <1>1, <1>2, <1>5 DEF TypeOK, KeepOrders, OrdersTypeOK, holdVars,
                            stockVars, requestVars
  <1>8. Refunded(o)' >= Refunded(o)
    <2>1. \A i \in 1..Len(refund[o]) : refund[o][i].status # "succeeded"
      BY <1>3 DEF AllFailed
    <2>2. Refunded(o) = external[o]
      BY <1>2, <2>1, RefundedIs
    <2>3. (TypeOK /\ RefundsAgree(o) =>
              Refunded(o) =
                 IF \E i \in 1..Len(refund[o]) : refund[o][i].status = "succeeded"
                 THEN Full ELSE external[o])'
      BY RefundedIs, PTL
    <2>4. Refunded(o)' = external'[o]
      BY <1>1, <1>6, <1>7, <2>1, <2>3
    <2>. QED
      BY <1>2, <1>4, <1>5, <2>2, <2>4 DEF Full
  <1>9. \A p \in Orders : RefundsAgree(p)' /\ RefundsGrow(p)
                          /\ Refunded(p)' >= Refunded(p)
    BY <1>1, <1>5, <1>6, <1>8, Untouched
  <1>10. WritesWorker(NoWorker) /\ StillAgrees(NoWorker)'
    BY <1>1, <1>2, NoWorkerMoves
  <1>11. /\ keyed' \in [Orders -> [Generations -> Nat]]
         /\ refund' \in [Orders -> Seq(RefundRows)]
    BY <1>1, <1>2 DEF TypeOK
  <1>. QED
    BY <1>1, <1>5, <1>9, <1>10, <1>11, ProviderStep

\* The key is known: Stripe answers with the refund it made.
LEMMA KeyKnownStep ==
    ASSUME RefundsConsistent, NEW w \in Workers, worker[w].step = "create",
           NEW o \in Orders, o = worker[w].on,
           NEW i \in Nat, i # 0, i = keyed[o][worker[w].gen],
           NEW a \in {"pending", "succeeded", "failed"},
           a \in {"pending", refund[o][i].status}, Got(w, i, a), KeepOrders,
           UNCHANGED <<operation, providerVars, mishaps>>
    PROVE  RefundsConsistent'
  <1> PICK st \in WorkerStates : st = worker[w]
    BY BusyKnows
  <1>1. /\ st.step = "create" /\ Knows(st) /\ TypeOK /\ mishaps' \in Nat
        /\ RefundsAgree(o)
    BY BusyKnows DEF RefundsConsistent
  <1>2. st.gen # 0 /\ st.gen \in Generations
    <2>1. st.gen # 0
      BY <1>1 DEF Knows
    <2>. QED
      BY <1>1, <2>1, WorkerType
  <1>3. IsRefundOf(i, o, st.gen)
    BY <1>1, <1>2 DEF RefundsAgree
  <1> DEFINE new == [st EXCEPT !.step = "apply", !.got = i, !.answer = a]
  <1>4. worker' = [worker EXCEPT ![w] = new]
    BY DEF Got
  <1>5. /\ new \in WorkerStates /\ new.step = "apply" /\ new.on = st.on
        /\ new.gen = st.gen /\ new.seen = st.seen /\ new.ended = st.ended
        /\ new.got = i /\ new.answer = a
    <2>1. "apply" \in Steps
      BY DEF Steps
    <2>. QED
      BY <2>1 DEF WorkerStates
  <1> HIDE DEF new
  <1>6. Knows(new)
    BY <1>1, <1>2, <1>3, <1>5 DEF Knows
  <1>. QED
    BY <1>1, <1>4, <1>5, <1>6, WorkerMoves

\* Stripe makes a refund: the first of its operation, after those of the
\* operations before it have failed.
LEMMA NewRefundStep ==
    ASSUME RefundsConsistent, NEW w \in Workers, worker[w].step = "create",
           NEW o \in Orders, o = worker[w].on,
           NEW g, g = worker[w].gen, keyed[o][g] = 0, ~(Committed(o) > 0),
           NEW a \in {"pending", "succeeded", "failed"},
           refund' = [refund EXCEPT ![o] =
                         Append(refund[o], [generation |-> g, status |-> a])],
           keyed' = [keyed EXCEPT ![o][g] = Len(refund[o]) + 1],
           Got(w, Len(refund[o]) + 1, a), KeepOrders,
           UNCHANGED <<operation, external, mishaps>>
    PROVE  RefundsConsistent'
  <1> PICK st \in WorkerStates, rows \in Seq(RefundRows) :
          st = worker[w] /\ rows = refund[o]
    BY BusyKnows, OrderRowType
  <1> PICK n \in Nat : n = Len(rows)
    OBVIOUS
  <1> DEFINE row == [generation |-> g, status |-> a]
             more == Append(rows, row)
  <1>1. /\ st.step = "create" /\ Knows(st) /\ TypeOK /\ mishaps' \in Nat
        /\ RefundsAgree(o) /\ OperationsAgree(o)
    BY BusyKnows DEF RefundsConsistent
  <1>2. /\ g # 0 /\ g \in Generations /\ g \in 1..Len(operation[o]) /\ g \in Nat
        /\ operation[o][g].dispatched # "old"
    <2>1. g # 0
      BY <1>1 DEF Knows
    <2>2. g \in Generations /\ g \in 1..Len(operation[o])
      BY <1>1, <2>1, WorkerType, BusyKnows
    <2>. QED
      BY <1>1, <2>1, <2>2 DEF Knows, Generations
  <1>3. AllFailed(o) /\ external[o] = 0
    <2>1. Committed(o) = IF AllFailed(o) THEN external[o] ELSE Full
      BY <1>1, RefundedIs
    <2>2. external[o] \in 0..Full
      BY <1>1, OrderRowType
    <2>. QED
      BY <2>1, <2>2 DEF Full
  <1>4. row \in RefundRows /\ row.generation = g /\ row.status = a
    BY <1>2 DEF RefundRows
  <1> HIDE DEF row
  <1>5. /\ more \in Seq(RefundRows) /\ Len(more) = n + 1 /\ more[n + 1] = row
        /\ \A i \in 1..n : more[i] = rows[i]
    BY <1>4
  <1> HIDE DEF more
  <1>6. /\ refund' \in [Orders -> Seq(RefundRows)] /\ refund'[o] = more
        /\ \A p \in Orders : p # o => refund'[p] = refund[p]
    BY <1>1, <1>5 DEF TypeOK, row, more
  <1>7. /\ keyed' \in [Orders -> [Generations -> Nat]]
        /\ \A p \in Orders : p # o => keyed'[p] = keyed[p]
        /\ \A h \in Generations :
              keyed'[o][h] = IF h = g THEN n + 1 ELSE keyed[o][h]
    BY <1>1, <1>2 DEF TypeOK
  \* Stripe still knows the keys of what this operation asked for: nothing.
  <1>8. \A i \in 1..n : rows[i].generation \in Generations /\ rows[i].generation < g
    <2>1. ASSUME NEW i \in 1..n
          PROVE  rows[i].generation \in Generations /\ rows[i].generation < g
      <3>1. /\ rows[i].generation \in Generations
            /\ rows[i].generation \in 1..Len(operation[o])
        BY <1>1, RefundRowType DEF RefundsAgree, RefundRows
      <3>2. \A j \in 1..n : rows[j].generation # g
        <4>1. ASSUME NEW j \in 1..n, rows[j].generation = g
              PROVE  FALSE
          <5>1. keyed[o][g] = j \/ operation[o][g].dispatched = "old"
            BY <1>1, <4>1 DEF RefundsAgree
          <5>. QED
            BY <1>2, <5>1
        <4>. QED
          BY <4>1
      <3>3. ~(g < rows[i].generation)
        <4>1. SUFFICES ASSUME g < rows[i].generation PROVE FALSE
          OBVIOUS
        <4>2. g < Len(operation[o])
          <5> PICK m \in Nat : m = rows[i].generation
            BY <3>1 DEF Generations
          <5>1. Len(operation[o]) \in Nat /\ m <= Len(operation[o])
            BY <1>1, <3>1, OrderRowType
          <5>. QED
            BY <1>2, <4>1, <5>1
        <4>3. operation[o][g].status = "failed" /\ operation[o][g].id # 0
          BY <1>1, <1>2, <4>2 DEF OperationsAgree
        <4>4. IsRefundOf(operation[o][g].id, o, g)
          BY <1>1, <1>2, <4>3 DEF OperationsAgree
        <4>. QED
          BY <3>2, <4>4 DEF IsRefundOf
      <3>4. rows[i].generation # g /\ rows[i].generation \in Nat
        BY <3>1, <3>2 DEF Generations
      <3>. QED
        BY <1>2, <3>1, <3>3, <3>4
    <2>. QED
      BY <2>1
  <1>9. RefundsAgree(o)'
    <2>1. \A i \in 1..(n + 1) : i = n + 1 \/ i \in 1..n
      OBVIOUS
    <2>2. ASSUME NEW i \in 1..(n + 1)
          PROVE  /\ more[i].generation \in 1..Len(operation[o])
                 /\ \/ keyed'[o][more[i].generation] = i
                    \/ operation[o][more[i].generation].dispatched = "old"
      <3>1. CASE i = n + 1
        BY <1>2, <1>4, <1>5, <1>7, <3>1
      <3>2. CASE i \in 1..n
        <4>1. more[i] = rows[i] /\ rows[i].generation # g
              /\ rows[i].generation \in Generations
          BY <1>2, <1>5, <1>8, <3>2 DEF Generations
        <4>2. keyed'[o][rows[i].generation] = keyed[o][rows[i].generation]
          BY <1>7, <4>1
        <4>3. /\ rows[i].generation \in 1..Len(operation[o])
              /\ \/ keyed[o][rows[i].generation] = i
                 \/ operation[o][rows[i].generation].dispatched = "old"
          BY <1>1, <3>2 DEF RefundsAgree
        <4>. QED
          BY <4>1, <4>2, <4>3
      <3>. QED
        BY <2>1, <3>1, <3>2
    <2>3. ASSUME NEW i \in 1..(n + 1), NEW j \in 1..(n + 1), i < j
          PROVE  /\ more[i].generation < more[j].generation
                 /\ more[i].status = "failed"
      <3>1. i \in 1..n /\ more[i] = rows[i] /\ rows[i].status = "failed"
        BY <1>3, <1>5, <2>3 DEF AllFailed
      <3>2. CASE j = n + 1
        BY <1>4, <1>5, <1>8, <3>1, <3>2
      <3>3. CASE j \in 1..n
        BY <1>1, <1>5, <2>3, <3>1, <3>3 DEF RefundsAgree
      <3>. QED
        BY <2>1, <3>1, <3>2, <3>3
    <2>4. ASSUME NEW h \in Generations, keyed'[o][h] # 0
          PROVE  keyed'[o][h] \in 1..(n + 1) /\ more[keyed'[o][h]].generation = h
      <3>1. CASE h = g
        BY <1>4, <1>5, <1>7, <3>1
      <3>2. CASE h # g
        <4>1. keyed'[o][h] = keyed[o][h]
          BY <1>7, <3>2
        <4>2. IsRefundOf(keyed[o][h], o, h)
          BY <1>1, <2>4, <4>1 DEF RefundsAgree
        <4>3. keyed[o][h] \in 1..n /\ rows[keyed[o][h]].generation = h
          BY <4>2 DEF IsRefundOf
        <4> PICK k \in 1..n : k = keyed[o][h]
          BY <4>3
        <4>. QED
          BY <1>5, <4>1, <4>3
      <3>. QED
        BY <3>1, <3>2
    <2>5. ~(external'[o] > 0)
      BY <1>3
    <2>6. Len(refund'[o]) = n + 1 /\ refund'[o] = more /\ operation' = operation
      BY <1>5, <1>6
    <2>7. \A i \in 1..Len(refund'[o]) :
              /\ refund'[o][i].generation \in 1..Len(operation'[o])
              /\ \/ keyed'[o][refund'[o][i].generation] = i
                 \/ operation'[o][refund'[o][i].generation].dispatched = "old"
      <3> SUFFICES ASSUME NEW i \in 1..Len(refund'[o])
                   PROVE  /\ refund'[o][i].generation \in 1..Len(operation'[o])
                          /\ \/ keyed'[o][refund'[o][i].generation] = i
                             \/ operation'[o][refund'[o][i].generation].dispatched
                                   = "old"
        OBVIOUS
      <3>1. i \in 1..(n + 1) /\ refund'[o][i] = more[i]
        BY <2>6
      <3>. QED
        BY <2>2, <2>6, <3>1
    <2>8. \A i, j \in 1..Len(refund'[o]) : i < j =>
              /\ refund'[o][i].generation < refund'[o][j].generation
              /\ refund'[o][i].status = "failed"
      BY <2>3, <2>6
    <2>9. \A h \in Generations :
              keyed'[o][h] # 0 =>
                  /\ keyed'[o][h] \in 1..Len(refund'[o])
                  /\ refund'[o][keyed'[o][h]].generation = h
      <3> SUFFICES ASSUME NEW h \in Generations, keyed'[o][h] # 0
                   PROVE  /\ keyed'[o][h] \in 1..Len(refund'[o])
                          /\ refund'[o][keyed'[o][h]].generation = h
        OBVIOUS
      <3>1. keyed'[o][h] \in 1..(n + 1) /\ more[keyed'[o][h]].generation = h
        BY <2>4
      <3>. QED
        BY <2>6, <3>1
    <2>10. external'[o] > 0 =>
               \A i \in 1..Len(refund'[o]) : refund'[o][i].status = "failed"
      BY <2>5
    <2>. QED
      BY <2>7, <2>8, <2>9, <2>10, Zenon DEF RefundsAgree, IsRefundOf
  <1>10. RefundsGrow(o)
    BY <1>5, <1>6 DEF RefundsGrow
  <1> PICK m \in Nat : m = n + 1
    OBVIOUS
  <1> DEFINE new == [st EXCEPT !.step = "apply", !.got = m, !.answer = a]
  <1>11. worker' = [worker EXCEPT ![w] = new]
    BY DEF Got
  <1>12. /\ new \in WorkerStates /\ new.step = "apply" /\ new.on = st.on
         /\ new.gen = st.gen /\ new.seen = st.seen /\ new.ended = st.ended
         /\ new.got = m /\ new.answer = a
    <2>1. "apply" \in Steps
      BY DEF Steps
    <2>. QED
      BY <2>1 DEF WorkerStates
  <1> HIDE DEF new
  <1>13. WritesWorker(w) /\ worker'[w] = new
    BY <1>1, <1>11, <1>12 DEF WritesWorker, TypeOK
  <1>14. TypeOK'
    BY <1>1, <1>6, <1>7, <1>13 DEF TypeOK, KeepOrders, OrdersTypeOK, holdVars,
                                   stockVars, requestVars, WritesWorker
  <1>15. Refunded(o)' >= Refunded(o)
    <2>1. Refunded(o)' \in 0..Full
      BY <1>9, <1>14, RefundedType
    <2>2. Refunded(o) = external[o]
      BY <1>1, <1>3, RefundedIs DEF AllFailed
    <2>. QED
      BY <1>3, <2>1, <2>2 DEF Full
  <1>16. \A p \in Orders : RefundsAgree(p)' /\ RefundsGrow(p)
                           /\ Refunded(p)' >= Refunded(p)
    BY <1>6, <1>7, <1>9, <1>10, <1>15, Untouched
  <1>17. Knows(new)'
    <2>1. IsRefundOf(n + 1, o, g)' /\ refund'[o][n + 1].status = a
      BY <1>4, <1>5, <1>6 DEF IsRefundOf
    <2>2. /\ o \in Paying' /\ (st.ended => order'[o].status \in Ended)
          /\ st.gen <= Len(operation'[o]) /\ operation'[o][g].dispatched # "old"
      BY <1>1, <1>2 DEF Knows, KeepOrders, Paying
    <2>. QED
      BY <1>2, <1>12, <2>1, <2>2 DEF Knows
  <1>18. StillAgrees(w)'
    BY <1>12, <1>13, <1>17 DEF StillAgrees, WorkAgrees, LeaseProtects
  <1>19. external' \in [Orders -> 0..Full]
    BY <1>1 DEF TypeOK
  <1>. QED
    BY <1>6, <1>7, <1>13, <1>16, <1>18, <1>19, ProviderStep

LEMMA CreateRefundStep ==
    ASSUME RefundsConsistent, NEW w \in Workers,
           NEW a \in {"pending", "succeeded", "failed"}, CreateRefund(w, a)
    PROVE  RefundsConsistent'
  <1> PICK o \in Orders : o = worker[w].on
    BY BusyKnows DEF CreateRefund
  <1> PICK g \in Generations : g = worker[w].gen
    <2>1. worker[w].gen # 0
      BY BusyKnows DEF CreateRefund, Knows
    <2>. QED
      BY <2>1, WorkerType DEF RefundsConsistent
  <1> PICK i \in Nat : i = keyed[o][g]
    BY OrderRowType DEF RefundsConsistent
  <1>1. /\ worker[w].step = "create" /\ KeepOrders /\ g # 0
        /\ UNCHANGED <<operation, external, mishaps>>
    BY OrdersAssumption DEF CreateRefund, Generations
  <1>2. CASE i # 0
    <2>1. /\ a \in {"pending", refund[o][i].status} /\ Got(w, i, a)
          /\ UNCHANGED <<refund, keyed>>
      BY <1>2 DEF CreateRefund
    <2>. QED
      BY <1>1, <1>2, <2>1, KeyKnownStep DEF providerVars
  <1>3. CASE i = 0 /\ Committed(o) > 0
    <2>1. Proceed(w, "failed") /\ UNCHANGED <<refund, keyed>>
      BY <1>3 DEF CreateRefund
    <2>. QED
      BY <1>1, <2>1, ProceedStep DEF providerVars
  <1>4. CASE i = 0 /\ ~(Committed(o) > 0)
    <2>1. /\ refund' = [refund EXCEPT ![o] =
                           Append(refund[o], [generation |-> g, status |-> a])]
          /\ keyed' = [keyed EXCEPT ![o][g] = Len(refund[o]) + 1]
          /\ Got(w, Len(refund[o]) + 1, a)
      BY <1>4 DEF CreateRefund
    <2>. QED
      BY <1>1, <1>4, <2>1, NewRefundStep
  <1>. QED
    BY <1>2, <1>3, <1>4

-----------------------------------------------------------------------------
(* Placements, inventory edits and commands *)

\* What a step on one order has to leave: nobody settles it meanwhile.
Advanced(p) ==
    /\ OperationsAgree(p)' /\ RefundsAgree(p)' /\ PaymentAgrees(p)' /\ Onward(p)
    /\ \A v \in Workers :
          worker[v].step = "close" /\ worker[v].on = p => ~Holds(v)'

RowKept(p) == order'[p] = order[p] /\ operation'[p] = operation[p]

OnlyOrders == UNCHANGED <<providerVars, worker, mishaps>>

LEMMA KeptAgrees ==
    ASSUME RefundsConsistent, NEW p \in Orders, RowKept(p), OnlyOrders
    PROVE  /\ OperationsAgree(p)' /\ RefundsAgree(p)' /\ PaymentAgrees(p)'
           /\ Onward(p)
  <1>1. OperationsAgree(p) /\ RefundsAgree(p) /\ PaymentAgrees(p) /\ TypeOK
    BY DEF RefundsConsistent
  <1>2. /\ order'[p] = order[p] /\ operation'[p] = operation[p]
        /\ UNCHANGED <<refund, keyed, external>> /\ Len(operation[p]) \in Nat
        /\ Last(p)' = Last(p)
    BY <1>1, OrderRowType DEF RowKept, OnlyOrders, providerVars, Last
  <1>3. Refunded(p)' = Refunded(p) /\ RefundsGrow(p) /\ Refunded(p)' >= Refunded(p)
    BY SameRefunded DEF OnlyOrders
  <1>4. OperationsAgree(p)'
    BY <1>1, <1>2 DEF OperationsAgree, IsRefundOf
  <1>5. RefundsAgree(p)'
    BY <1>1, <1>2 DEF RefundsAgree, IsRefundOf
  <1>6. PaymentAgrees(p)'
    BY <1>1, <1>2, <1>3 DEF PaymentAgrees
  <1>7. Onward(p)
    BY <1>2, <1>3 DEF Onward, Paying
  <1>. QED
    BY <1>4, <1>5, <1>6, <1>7

LEMMA OrderingAgrees ==
    ASSUME RefundsConsistent, OrdersConsistent', OnlyOrders,
           \A p \in Orders : RowKept(p) \/ Advanced(p)
    PROVE  RefundsConsistent'
  <1>1. TypeOK'
    BY DEF RefundsConsistent, OrdersConsistent, TypeOK, OnlyOrders, providerVars
  <1>2. \A p \in Orders : OperationsAgree(p)' /\ RefundsAgree(p)'
                          /\ PaymentAgrees(p)' /\ Onward(p)
    BY KeptAgrees DEF Advanced
  <1>3. StillAgrees(NoWorker)'
    BY OrdersAssumption DEF StillAgrees
  <1>4. ASSUME NEW v \in Workers \ {NoWorker}, worker[v].step = "close", Holds(v)'
        PROVE  Holds(v) /\ NoOverwrite(worker[v].on)
    <2> PICK p \in Orders : p = worker[v].on
      BY WorkerType DEF RefundsConsistent
    <2>1. RowKept(p)
      BY <1>4 DEF Advanced
    <2>. QED
      BY <1>4, <2>1 DEF RowKept, OnlyOrders, Holds, Row, NoOverwrite
  <1>. QED
    BY <1>1, <1>2, <1>3, <1>4, StepAgrees DEF OnlyOrders

\* An order that goes on has no operation, so Stripe made no refund for it and
\* nobody settles one.
LEMMA NothingAsked ==
    ASSUME RefundsConsistent, NEW o \in Orders, order[o].status \notin Ended
    PROVE  /\ operation[o] = <<>> /\ Len(operation[o]) = 0
           /\ Len(refund[o]) = 0
           /\ \A g \in Generations : keyed[o][g] = 0
           /\ \A v \in Workers : worker[v].step = "close" => worker[v].on # o
  <1>1. OperationsAgree(o) /\ RefundsAgree(o) /\ TypeOK
    BY DEF RefundsConsistent
  <1>2. operation[o] = <<>> /\ Len(operation[o]) = 0
    BY <1>1, OrderRowType, EmptyIsZero DEF OperationsAgree
  <1>3. Len(refund[o]) = 0
    <2>1. \A i \in 1..Len(refund[o]) : FALSE
      BY <1>1, <1>2 DEF RefundsAgree
    <2>2. Len(refund[o]) \in Nat
      BY <1>1, OrderRowType
    <2>3. CASE Len(refund[o]) >= 1
      <3>1. 1 \in 1..Len(refund[o])
        BY <2>2, <2>3
      <3>. QED
        BY <2>1, <3>1
    <2>. QED
      BY <2>2, <2>3
  <1>4. \A g \in Generations : keyed[o][g] = 0
    BY <1>1, <1>3 DEF RefundsAgree, IsRefundOf
  <1>5. ASSUME NEW v \in Workers, worker[v].step = "close", worker[v].on = o
        PROVE  FALSE
    <2>1. worker[v].gen # 0 /\ worker[v].gen \in Nat /\ worker[v].gen <= 0
      BY <1>2, <1>5, BusyKnows DEF Knows
    <2>. QED
      BY <2>1
  <1>. QED
    BY <1>2, <1>3, <1>4, <1>5

\* Steps on an order that goes on, and asks for no refund.
LEMMA GoesOn ==
    ASSUME RefundsConsistent, OrdersTypeOK', OnlyOrders, NEW o \in Orders,
           order[o].status \notin Ended, operation'[o] = operation[o],
           order'[o].payment \notin {"refunded", "refund_pending", "refund_failed"}
             \/ order'[o].payment = order[o].payment,
           order'[o].refunded = 0, order'[o].status # "none",
           order[o].status # "none" => order'[o].method = order[o].method
    PROVE  Advanced(o)
  <1>1. /\ operation[o] = <<>> /\ Len(operation[o]) = 0 /\ Len(refund[o]) = 0
        /\ \A g \in Generations : keyed[o][g] = 0
        /\ \A v \in Workers : worker[v].step = "close" => worker[v].on # o
    BY NothingAsked
  <1>2. /\ refund'[o] = refund[o] /\ keyed'[o] = keyed[o]
        /\ Refunded(o)' = Refunded(o) /\ RefundsGrow(o)
        /\ Refunded(o)' >= Refunded(o) /\ PaymentAgrees(o)
    BY SameRefunded DEF OnlyOrders, providerVars, RefundsConsistent
  <1>3. OperationsAgree(o)'
    BY <1>1, OrdersAssumption DEF OperationsAgree
  <1>4. RefundsAgree(o)'
    BY <1>1, <1>2 DEF RefundsAgree
  <1>5. PaymentAgrees(o)'
    BY <1>1, <1>2 DEF PaymentAgrees
  <1>6. Onward(o)
    BY <1>1, <1>2 DEF Onward, Paying
  <1>. QED
    BY <1>1, <1>3, <1>4, <1>5, <1>6 DEF Advanced

LEMMA PlaceAdvances ==
    ASSUME RefundsConsistent, OrdersTypeOK', OnlyOrders, NEW o \in Orders,
           order[o].status = "none", UNCHANGED operation,
           NEW m \in {"cod", "online"}, NEW p \in {"unpaid", "paid"},
           Place(o, m, p)
    PROVE  \A q \in Orders : RowKept(q) \/ Advanced(q)
  <1> DEFINE new == [NoOrder EXCEPT !.status = "placed", !.method = m,
                                    !.payment = p, !.version = 1]
  <1>1. order' = [order EXCEPT ![o] = new] /\ order \in [Orders -> OrderRows]
    BY DEF Place, RefundsConsistent, TypeOK, OrdersTypeOK
  <1>2. new.status = "placed" /\ new.payment = p /\ new.refunded = 0
    BY DEF NoOrder
  <1> HIDE DEF new
  <1>3. Advanced(o)
    BY <1>1, <1>2, GoesOn DEF Ended
  <1>. QED
    BY <1>1, <1>3 DEF RowKept

LEMMA PlacingAdvances ==
    ASSUME RefundsConsistent, OrdersTypeOK', OnlyOrders, Placing
    PROVE  \A q \in Orders : RowKept(q) \/ Advanced(q)
  <1> PICK o \in Orders : \/ PlaceCashOnDelivery(o) \/ StartOnline(o)
                          \/ PlacePaidOnlineOrder(o)
    BY DEF Placing
  <1>1. CASE PlaceCashOnDelivery(o)
    <2>1. order[o].status = "none" /\ Place(o, "cod", "unpaid")
          /\ UNCHANGED operation
      BY <1>1 DEF PlaceCashOnDelivery, Reserve
    <2>. QED
      BY <2>1, PlaceAdvances
  <1>2. CASE StartOnline(o)
    BY <1>2 DEF StartOnline, RowKept
  <1>3. CASE PlacePaidOnlineOrder(o)
    <2>1. order[o].status = "none" /\ Place(o, "online", "paid")
          /\ UNCHANGED operation
      BY <1>3 DEF PlacePaidOnlineOrder
    <2>. QED
      BY <2>1, PlaceAdvances
  <1>. QED
    BY <1>1, <1>2, <1>3

CommandedRow(row, s, p) ==
    [row EXCEPT !.status = s, !.version = row.version + 1, !.payment = p]

LEMMA CommandedRowIs ==
    ASSUME NEW row \in OrderRows, NEW s \in Statuses, NEW p \in PaymentStatuses
    PROVE  LET new == CommandedRow(row, s, p) IN
           /\ new.status = s /\ new.payment = p /\ new.method = row.method
           /\ new.refunded = row.refunded /\ new.review = row.review
  <1> DEFINE r1 == [row EXCEPT !.status = s]
             r2 == [r1 EXCEPT !.version = row.version + 1]
             new == [r2 EXCEPT !.payment = p]
  <1>1. row.version + 1 \in Nat
    BY DEF OrderRows
  <1>2. /\ r1 \in OrderRows /\ r1.status = s /\ r1.method = row.method
        /\ r1.refunded = row.refunded /\ r1.review = row.review
    BY DEF OrderRows
  <1>3. CommandedRow(row, s, p) = new
    BY DEF CommandedRow
  <1> HIDE DEF r1
  <1>4. /\ r2 \in OrderRows /\ r2.status = r1.status /\ r2.method = r1.method
        /\ r2.refunded = r1.refunded /\ r2.review = r1.review
    BY <1>1, <1>2 DEF OrderRows
  <1> HIDE DEF r2
  <1>5. /\ new \in OrderRows /\ new.status = r2.status /\ new.payment = p
        /\ new.method = r2.method /\ new.refunded = r2.refunded
        /\ new.review = r2.review
    BY <1>4 DEF OrderRows
  <1> HIDE DEF new
  <1>. QED
    BY <1>2, <1>3, <1>4, <1>5

\* An order that was paid online and is cancelled or returned gets its first
\* operation.
LEMMA FirstOperation ==
    ASSUME RefundsConsistent, OrdersTypeOK', OnlyOrders, NEW o \in Orders,
           order[o].status \notin Ended, operation'[o] = <<NewOperation>>,
           order'[o].status \in Ended, order'[o].method = "online",
           order'[o].payment = "refund_pending"
    PROVE  Advanced(o)
  <1>1. /\ operation[o] = <<>> /\ Len(operation[o]) = 0 /\ Len(refund[o]) = 0
        /\ \A g \in Generations : keyed[o][g] = 0
        /\ \A v \in Workers : worker[v].step = "close" => worker[v].on # o
    BY NothingAsked
  <1>2. /\ refund'[o] = refund[o] /\ keyed'[o] = keyed[o]
        /\ RefundsGrow(o) /\ Refunded(o)' >= Refunded(o)
    BY SameRefunded DEF OnlyOrders, providerVars
  <1>3. /\ Len(operation'[o]) = 1 /\ operation'[o][1] = NewOperation
        /\ Last(o)' = NewOperation
    BY DEF Last
  <1>4. /\ NewOperation.status = "pending" /\ NewOperation.id = 0
    BY DEF NewOperation
  <1>5. OperationsAgree(o)'
    <2>1. 1 <= MaxGenerations
      BY RefundsAssumption, OrdersAssumption
    <2>2. \A g \in 1..Len(operation'[o]) : g = 1
      BY <1>3
    <2>. QED
      BY <1>3, <1>4, <2>1, <2>2 DEF OperationsAgree
  <1>6. RefundsAgree(o)'
    BY <1>1, <1>2 DEF RefundsAgree
  <1>7. PaymentAgrees(o)'
    BY <1>3, <1>4 DEF PaymentAgrees
  <1>8. Onward(o)
    <2>1. Len(operation'[o]) >= Len(operation[o]) /\ 1..Len(operation[o]) = {}
      BY <1>1, <1>3
    <2>2. o \in Paying => o \in Paying'
      BY DEF Paying, Ended
    <2>. QED
      BY <1>2, <2>1, <2>2 DEF Onward
  <1>. QED
    BY <1>1, <1>5, <1>6, <1>7, <1>8 DEF Advanced

LEMMA TransitionAdvances ==
    ASSUME RefundsConsistent, OrdersTypeOK', OnlyOrders, NEW r \in Requests,
           r.op \in Transitions, Transitable(r), Transition(r)
    PROVE  \A q \in Orders : RowKept(q) \/ Advanced(q)
  <1> PICK o \in Orders, row \in OrderRows : o = r.order /\ row = order[o]
    BY DEF Requests, RefundsConsistent, TypeOK, OrdersTypeOK
  <1> PICK s \in Statuses : s = To(r.op)
    BY MovesOf
  <1> DEFINE refunds == row.method = "online" /\ s \in Ended
  <1>1. /\ row.status \in {"placed", "preparing", "shipped"} /\ ~row.review
        /\ row.method = "online" => row.payment = "paid"
    BY DEF Transitable, From, Transitions
  <1> PICK p \in PaymentStatuses :
          p = CASE refunds -> "refund_pending"
                [] r.op = "deliver" -> "paid"
                [] OTHER -> row.payment
    <2>1. row.payment \in PaymentStatuses
      BY DEF OrderRows
    <2>2. ~(refunds /\ r.op = "deliver")
      BY DEF To, Ended
    <2>3. {"refund_pending", "paid"} \subseteq PaymentStatuses
      BY DEF PaymentStatuses
    <2> HIDE DEF refunds
    <2>. QED
      BY <2>1, <2>2, <2>3
  <1>10. refunds => p = "refund_pending"
    <2>1. ~(refunds /\ r.op = "deliver")
      BY DEF To, Ended
    <2> HIDE DEF refunds
    <2>. QED
      BY <2>1
  <1> DEFINE new == CommandedRow(row, s, p)
  <1>2. order \in [Orders -> OrderRows] /\ operation \in [Orders -> Seq(OperationRows)]
        /\ PaymentAgrees(o)
    BY DEF RefundsConsistent, TypeOK, OrdersTypeOK
  <1>3. order' = [order EXCEPT ![o] = new]
    BY DEF Transition, CommandedRow
  <1>4. operation' = IF refunds THEN [operation EXCEPT ![o] = <<NewOperation>>]
                                ELSE operation
    BY DEF Transition
  <1>5. /\ new.status = s /\ new.payment = p /\ new.method = row.method
        /\ new.refunded = row.refunded /\ new.review = row.review
    BY CommandedRowIs
  <1> HIDE DEF new
  <1>6. order'[o] = new /\ \A q \in Orders : q # o => RowKept(q)
    BY <1>2, <1>3, <1>4 DEF RowKept
  <1>7. order[o].status \notin Ended /\ order[o].status # "none"
    BY <1>1 DEF Ended
  <1>8. CASE refunds
    <2>1. operation'[o] = <<NewOperation>>
      BY <1>2, <1>4, <1>8
    <2>2. p = "refund_pending"
      BY <1>8, <1>10
    <2>. QED
      BY <1>5, <1>6, <1>7, <1>8, <2>1, <2>2, FirstOperation
  <1>9. CASE ~refunds
    <2>1. p = "paid" \/ p = row.payment
      BY <1>9
    <2>2. row.refunded = 0
      BY <1>1, <1>2, <1>7 DEF PaymentAgrees, OrderRows, Full
    <2>3. s # "none" /\ operation'[o] = operation[o]
      BY <1>4, <1>9 DEF Statuses
    <2>4. Advanced(o)
      BY <1>5, <1>6, <1>7, <2>1, <2>2, <2>3, GoesOn
    <2>. QED
      BY <1>6, <2>4
  <1>. QED
    BY <1>8, <1>9

LEMMA RetryAdvances ==
    ASSUME RefundsConsistent, OrdersTypeOK', OnlyOrders, NEW r \in Requests,
           Retryable(r), RetryRefund(r)
    PROVE  \A q \in Orders : RowKept(q) \/ Advanced(q)
  <1> PICK o \in Orders : o = r.order
    BY DEF Requests
  <1> PICK rows \in Seq(OperationRows), n \in Nat :
          rows = operation[o] /\ n = Len(rows)
    BY OrderRowType DEF RefundsConsistent
  <1>1. /\ TypeOK /\ OperationsAgree(o) /\ RefundsAgree(o)
        /\ order \in [Orders -> OrderRows] /\ order[o] \in OrderRows
        /\ operation \in [Orders -> Seq(OperationRows)]
    BY OrderRowType DEF RefundsConsistent, TypeOK, OrdersTypeOK
  <1>2. /\ rows # <<>> /\ rows[n].status = "failed" /\ n < MaxGenerations
        /\ order[o].method = "online"
    BY DEF Retryable, RetryRefund, Last
  <1>3. n \in 1..n /\ order[o].status \in Ended
    BY <1>1, <1>2, EmptyIsZero DEF OperationsAgree
  <1> DEFINE more == Append(rows, NewOperation)
  <1>4. /\ Len(more) = n + 1 /\ more[n + 1] = NewOperation /\ more # <<>>
        /\ \A g \in 1..n : more[g] = rows[g]
    <2> PICK last \in OperationRows : last = NewOperation
      BY NewOperationType
    <2>1. /\ Append(rows, last) \in Seq(OperationRows)
          /\ Len(Append(rows, last)) = n + 1
          /\ Append(rows, last)[n + 1] = last
          /\ \A g \in 1..n : Append(rows, last)[g] = rows[g]
      OBVIOUS
    <2>2. Append(rows, last) # <<>>
      <3> PICK t \in Seq(OperationRows) : t = Append(rows, last)
        BY <2>1
      <3>1. Len(t) # 0
        BY <2>1
      <3>. QED
        BY <3>1, EmptyIsZero
    <2>. QED
      BY <2>1, <2>2
  <1>5. operation'[o] = more /\ \A q \in Orders : q # o => operation'[q] = operation[q]
    BY <1>1 DEF RetryRefund
  <1> HIDE DEF more
  <1>6. /\ \A q \in Orders : q # o => order'[q] = order[q]
        /\ order'[o].status = order[o].status
        /\ order'[o].method = order[o].method
        /\ order'[o].payment = "refund_pending"
    BY <1>1 DEF RetryRefund, OrderRows
  <1>7. /\ refund'[o] = refund[o] /\ keyed'[o] = keyed[o]
        /\ external'[o] = external[o]
        /\ RefundsGrow(o) /\ Refunded(o)' >= Refunded(o)
    BY SameRefunded DEF OnlyOrders, providerVars
  <1>8. NewOperation.status = "pending" /\ NewOperation.id = 0
    BY DEF NewOperation
  <1>9. \A g \in 1..(n + 1) : g = n + 1 \/ g \in 1..n
    OBVIOUS
  <1>10. OperationsAgree(o)'
    <2>1. ASSUME NEW g \in 1..(n + 1)
          PROVE  /\ g < n + 1 => more[g].status = "failed"
                 /\ more[g].status # "pending" => more[g].lease = NoWorker
                 /\ more[g].id # 0 => IsRefundOf(more[g].id, o, g)
                 /\ more[g].status = "failed" =>
                       /\ more[g].id # 0
                       /\ refund[o][more[g].id].status = "failed"
      <3>1. CASE g = n + 1
        BY <1>4, <1>8, <3>1
      <3>2. CASE g \in 1..n
        <4>1. more[g] = rows[g]
          BY <1>4, <3>2
        <4>2. rows[g].status = "failed"
          <5>1. g = n \/ g < n
            BY <3>2
          <5>. QED
            BY <1>1, <1>2, <3>2, <5>1 DEF OperationsAgree
        <4>. QED
          BY <1>1, <3>2, <4>1, <4>2 DEF OperationsAgree
      <3>. QED
        BY <1>9, <3>1, <3>2
    <2>2. n + 1 <= MaxGenerations
      BY <1>2, OrdersAssumption
    <2>. QED
      BY <1>2, <1>3, <1>4, <1>5, <1>6, <1>7, <2>1, <2>2
      DEF OperationsAgree, IsRefundOf
  <1>11. RefundsAgree(o)'
    <2>1. ASSUME NEW i \in 1..Len(refund[o])
          PROVE  /\ refund[o][i].generation \in 1..(n + 1)
                 /\ \/ keyed[o][refund[o][i].generation] = i
                    \/ more[refund[o][i].generation].dispatched = "old"
      <3>1. /\ refund[o][i].generation \in 1..n
            /\ \/ keyed[o][refund[o][i].generation] = i
               \/ rows[refund[o][i].generation].dispatched = "old"
        BY <1>1 DEF RefundsAgree
      <3>. QED
        BY <1>4, <3>1
    <2>. QED
      BY <1>1, <1>4, <1>5, <1>7, <2>1 DEF RefundsAgree, IsRefundOf
  <1>12. PaymentAgrees(o)'
    <2>1. Last(o)' = NewOperation
      BY <1>4, <1>5 DEF Last
    <2>. QED
      BY <1>3, <1>4, <1>5, <1>6, <1>8, <2>1 DEF PaymentAgrees
  <1>13. Onward(o)
    <2>1. o \in Paying => o \in Paying'
      BY <1>6 DEF Paying
    <2>. QED
      BY <1>3, <1>4, <1>5, <1>6, <1>7, <2>1 DEF Onward
  \* The lease of the operation that failed was given back.
  <1>14. ASSUME NEW v \in Workers, worker[v].step = "close", worker[v].on = o
         PROVE  ~Holds(v)'
    <2>1. worker[v].gen \in 1..n
      <3>1. worker[v].gen # 0
        BY <1>14, BusyKnows DEF Knows
      <3>. QED
        BY <1>14, <3>1, BusyKnows
    <2>2. rows[worker[v].gen].status # "pending"
      <3>1. worker[v].gen = n \/ worker[v].gen < n
        BY <2>1
      <3>. QED
        BY <1>1, <1>2, <2>1, <3>1 DEF OperationsAgree
    <2>3. rows[worker[v].gen].lease = NoWorker
      BY <1>1, <2>1, <2>2 DEF OperationsAgree
    <2>4. worker' = worker /\ operation'[o][worker[v].gen] = rows[worker[v].gen]
      BY <1>4, <1>5, <2>1 DEF OnlyOrders
    <2>. QED
      BY <1>14, <2>3, <2>4, OrdersAssumption DEF Holds, Row
  <1>. QED
    BY <1>5, <1>6, <1>10, <1>11, <1>12, <1>13, <1>14 DEF Advanced, RowKept

LEMMA CommandingAdvances ==
    ASSUME RefundsConsistent, OrdersTypeOK', OnlyOrders, Commanding
    PROVE  \A q \in Orders : RowKept(q) \/ Advanced(q)
  <1> PICK c \in Callers :
          \/ \E o \in Orders, k \in Keys, op \in Operations :
                \E n \in 1..order[o].version :
                    Submit(c, [op |-> op, order |-> o, key |-> k, version |-> n])
          \/ AnswerOnly(c)
          \/ Execute(c)
    BY DEF Commanding
  <1>3. ASSUME NEW o \in Orders, NEW k \in Keys, NEW op \in Operations,
               NEW n \in 1..order[o].version,
               Submit(c, [op |-> op, order |-> o, key |-> k, version |-> n])
        PROVE  UNCHANGED <<order, operation>>
    BY <1>3 DEF Submit
  <1>4. ASSUME AnswerOnly(c)
        PROVE  UNCHANGED <<order, operation>>
    BY <1>4 DEF AnswerOnly
  <1>1. CASE UNCHANGED <<order, operation>>
    BY <1>1 DEF RowKept
  <1>2. CASE Execute(c)
    <2> PICK r \in Requests : r = call[c]
      BY <1>2 DEF Execute, RefundsConsistent, TypeOK, OrdersTypeOK
    <2>1. CASE r.op = "refund-retry"
      <3>1. Retryable(r) /\ RetryRefund(r)
        BY <1>2, <2>1 DEF Execute, Refused
      <3>. QED
        BY <3>1, RetryAdvances
    <2>2. CASE r.op # "refund-retry"
      <3>1. Transitable(r) /\ Transition(r)
        BY <1>2, <2>2 DEF Execute, Refused
      <3>2. r.op \in Transitions
        BY <2>2, OrdersAssumption DEF Requests
      <3>. QED
        BY <3>1, <3>2, TransitionAdvances
    <2>. QED
      BY <2>1, <2>2
  <1>. QED
    BY <1>1, <1>2, <1>3, <1>4

LEMMA OrderingStep ==
    ASSUME RefundsConsistent, Ordering
    PROVE  RefundsConsistent'
  <1>1. OrdersConsistent /\ OrdersNext /\ OnlyOrders
    BY DEF Ordering, OnlyOrders, RefundsConsistent
  <1>2. OrdersConsistent' /\ OrdersTypeOK'
    <2>1. OrdersConsistent'
      BY <1>1, PlacingStep, StockingStep, CommandingStep DEF OrdersNext
    <2>. QED
      BY <2>1 DEF OrdersConsistent
  <1>3. \A q \in Orders : RowKept(q) \/ Advanced(q)
    <2>1. CASE Placing
      BY <1>1, <1>2, <2>1, PlacingAdvances
    <2>2. CASE Stocking
      BY <2>2 DEF Stocking, SetOnHand, StartCounting, StopCounting, RowKept
    <2>3. CASE Commanding
      BY <1>1, <1>2, <2>3, CommandingAdvances
    <2>. QED
      BY <1>1, <2>1, <2>2, <2>3 DEF OrdersNext
  <1>. QED
    BY <1>1, <1>2, <1>3, OrderingAgrees

-----------------------------------------------------------------------------
(* The theorems *)

LEMMA InitialRefunds == Init => RefundsConsistent
  <1> SUFFICES ASSUME Init PROVE RefundsConsistent
    OBVIOUS
  <1>1. OrdersInit /\ OrdersConsistent /\ OrdersTypeOK
    BY InitialConsistency DEF Init, OrdersConsistent
  <1>2. AnyOrder \in Orders
    BY RefundsAssumption DEF AnyOrder
  <1>3. Idle \in WorkerStates /\ Idle.step = "idle"
    BY <1>2, NewOperationType DEF Idle, WorkerStates, Steps, Full
  <1>4. TypeOK
    <2>1. refund \in [Orders -> Seq(RefundRows)] /\ external \in [Orders -> 0..Full]
      BY DEF Init, Full
    <2>2. keyed \in [Orders -> [Generations -> Nat]] /\ mishaps \in Nat
      BY DEF Init
    <2>3. worker \in [Workers -> WorkerStates]
      BY <1>3 DEF Init
    <2>. QED
      BY <1>1, <2>1, <2>2, <2>3 DEF TypeOK
  <1>5. ASSUME NEW o \in Orders
        PROVE  OperationsAgree(o) /\ RefundsAgree(o) /\ PaymentAgrees(o)
    <2>1. /\ operation[o] = <<>> /\ Len(operation[o]) = 0
          /\ refund[o] = <<>> /\ Len(refund[o]) = 0 /\ external[o] = 0
          /\ \A g \in Generations : keyed[o][g] = 0
          /\ order[o].payment = "unpaid" /\ order[o].refunded = 0
      BY <1>1 DEF Init, OrdersInit, NoOrder
    <2>2. OperationsAgree(o)
      BY <2>1, OrdersAssumption DEF OperationsAgree
    <2>3. RefundsAgree(o)
      BY <2>1 DEF RefundsAgree
    <2>4. PaymentAgrees(o)
      BY <2>1 DEF PaymentAgrees
    <2>. QED
      BY <2>2, <2>3, <2>4
  <1>6. ASSUME NEW w \in Workers
        PROVE  WorkAgrees(w) /\ LeaseProtects(w)
    <2>1. worker[w].step = "idle"
      BY <1>3 DEF Init
    <2>. QED
      BY <2>1 DEF WorkAgrees, LeaseProtects
  <1>. QED
    BY <1>1, <1>4, <1>5, <1>6 DEF RefundsConsistent

LEMMA RefundsStutter ==
    ASSUME RefundsConsistent, UNCHANGED vars
    PROVE  RefundsConsistent'
  <1>1. UNCHANGED orderVars /\ OnlyOrders
    BY DEF vars, OnlyOrders
  <1>2. OrdersConsistent'
    BY <1>1, Stuttering DEF RefundsConsistent
  <1>3. \A q \in Orders : RowKept(q)
    BY <1>1 DEF orderVars, RowKept
  <1>. QED
    BY <1>1, <1>2, <1>3, OrderingAgrees

LEMMA WorkStep ==
    ASSUME RefundsConsistent, NEW w \in Workers, Work(w)
    PROVE  RefundsConsistent'
  <1>1. CASE \/ RetrieveCharge(w) \/ ApplyExternalPaymentTruth(w)
             \/ CloseOperation(w) \/ RefuseToCreate(w) \/ DispatchRefund(w)
    BY <1>1, RetrieveChargeStep, ApplyExternalPaymentTruthStep,
       CloseOperationStep, RefuseToCreateStep, DispatchRefundStep
  <1>2. CASE \E a \in {"pending", "succeeded", "failed"} : CreateRefund(w, a)
    BY <1>2, CreateRefundStep
  <1>3. CASE \/ RetrieveRefund(w) \/ ApplySucceeded(w) \/ ApplyFailed(w)
             \/ ApplyPending(w) \/ RecordRefundFailure(w)
    BY <1>3, RetrieveRefundStep, ApplySucceededStep, ApplyFailedStep,
       ApplyPendingStep, RecordRefundFailureStep
  <1>. QED
    BY <1>1, <1>2, <1>3 DEF Work

LEMMA WorkingStep ==
    ASSUME RefundsConsistent, Working
    PROVE  RefundsConsistent'
  <1> PICK w \in Workers :
          \/ \E o \in Orders :
                \/ \E g \in 1..Len(operation[o]) : ClaimRefund(w, o, g)
                \/ ProcessPurchaseEvent(w, o)
          \/ Work(w) \/ ProviderFails(w) \/ Crash(w)
    BY DEF Working
  <1>1. CASE \E o \in Orders :
                \/ \E g \in 1..Len(operation[o]) : ClaimRefund(w, o, g)
                \/ ProcessPurchaseEvent(w, o)
    BY <1>1, ClaimRefundStep, ProcessPurchaseEventStep
  <1>2. CASE Work(w) \/ ProviderFails(w) \/ Crash(w)
    BY <1>2, WorkStep, ProviderFailsStep, CrashStep
  <1>. QED
    BY <1>1, <1>2

LEMMA RefundsStep ==
    ASSUME RefundsConsistent, [Next]_vars
    PROVE  RefundsConsistent'
  <1>1. CASE Ordering
    BY <1>1, OrderingStep
  <1>2. CASE Working
    BY <1>2, WorkingStep
  <1>3. CASE Time
    BY <1>3, LeaseExpiresStep, DispatchAgesStep, KeyForgottenStep DEF Time
  <1>4. CASE Stripe
    BY <1>4, RefundSettlesStep, RefundByHandStep DEF Stripe
  <1>5. CASE Disputes
    BY <1>5, MarkOrderReviewStep DEF Disputes
  <1>6. CASE UNCHANGED vars
    BY <1>6, RefundsStutter
  <1>. QED
    BY <1>1, <1>2, <1>3, <1>4, <1>5, <1>6 DEF Next

\* The rows of orders, operations and Stripe's refunds agree in every reachable
\* state, and a worker may rely on what it read: through every claim, lost
\* lease, crash, late answer, refund by hand, dispute and command.
THEOREM RefundsConsistency == Spec => []RefundsConsistent
  <1>1. Init => RefundsConsistent
    BY InitialRefunds
  <1>2. RefundsConsistent /\ [Next]_vars => RefundsConsistent'
    BY RefundsStep
  <1>. QED
    BY <1>1, <1>2, PTL DEF Spec

\* Money goes back only for orders that were cancelled or returned, an
\* operation makes at most one refund at Stripe, and the next one asks only
\* after the refund before it failed.
THEOREM RefundsAreSerial == Spec => []OneRefundAtATime
  <1>1. RefundsConsistent => OneRefundAtATime
    <2> SUFFICES ASSUME RefundsConsistent, NEW o \in Orders
                 PROVE  /\ refund[o] # <<>> => order[o].status \in Ended
                        /\ \A i, j \in 1..Len(refund[o]) : i < j =>
                              /\ refund[o][i].generation < refund[o][j].generation
                              /\ refund[o][i].status = "failed"
      BY DEF OneRefundAtATime
    <2>1. /\ OperationsAgree(o) /\ RefundsAgree(o)
          /\ refund[o] \in Seq(RefundRows) /\ Len(refund[o]) \in Nat
      BY OrderRowType DEF RefundsConsistent
    <2>2. ASSUME refund[o] # <<>> PROVE order[o].status \in Ended
      <3>1. Len(refund[o]) # 0
        BY <2>1, <2>2, EmptyIsZero
      <3>2. 1 \in 1..Len(refund[o])
        BY <2>1, <3>1
      <3>3. order[o].status \notin Ended => Len(refund[o]) = 0
        BY NothingAsked
      <3>. QED
        BY <3>1, <3>3
    <2>. QED
      BY <2>1, <2>2 DEF RefundsAgree
  <1>. QED
    BY <1>1, RefundsConsistency, PTL

\* The payment status of an order, its last operation and Stripe tell one
\* story: a refunded order got all its money back, a pending refund is being
\* worked on or waits for a person, and a failed one failed at Stripe.
THEOREM PaymentsAreTrue == Spec => []PaymentTellsTheTruth
  <1>1. RefundsConsistent => PaymentTellsTheTruth
    <2> SUFFICES ASSUME RefundsConsistent, NEW o \in Paying
                 PROVE  /\ order[o].payment = "refunded" => Refunded(o) = Full
                        /\ order[o].payment = "refund_pending" =>
                              order[o].review \/ Last(o).status = "pending"
                        /\ order[o].payment = "refund_failed" =>
                              /\ Last(o).status = "failed"
                              /\ refund[o][Last(o).id].status = "failed"
                        /\ \A g \in 1..Len(operation[o]) :
                              operation[o][g].status = "succeeded" =>
                                  order[o].payment = "refunded"
      BY DEF PaymentTellsTheTruth
    <2>1. o \in Orders
      BY DEF Paying
    <2>2. /\ OperationsAgree(o) /\ PaymentAgrees(o) /\ Len(operation[o]) \in Nat
          /\ operation[o] \in Seq(OperationRows)
      BY <2>1, OrderRowType DEF RefundsConsistent
    <2>3. operation[o] # <<>> => Len(operation[o]) \in 1..Len(operation[o])
      BY <2>2, EmptyIsZero
    <2>4. order[o].payment = "refund_failed" =>
              /\ Last(o).status = "failed"
              /\ refund[o][Last(o).id].status = "failed"
      BY <2>2, <2>3 DEF OperationsAgree, PaymentAgrees, Last
    <2>5. ASSUME NEW g \in 1..Len(operation[o]),
                 operation[o][g].status = "succeeded"
          PROVE  order[o].payment = "refunded"
      <3>1. ~(g < Len(operation[o]))
        BY <2>2, <2>5 DEF OperationsAgree
      <3>2. g = Len(operation[o]) /\ operation[o] # <<>>
        BY <2>2, <3>1, EmptyIsZero
      <3>. QED
        BY <2>2, <2>5, <3>2 DEF PaymentAgrees, Last
    <2>. QED
      BY <2>2, <2>4, <2>5 DEF PaymentAgrees
  <1>. QED
    BY <1>1, RefundsConsistency, PTL

\* Nothing is shipped unpaid: an order that goes on while its money went back,
\* in part or in full, is held for a person.
THEOREM MoneyBackHoldsTheOrder == Spec => []MoneyBackStopsTheOrder
  <1>1. RefundsConsistent => MoneyBackStopsTheOrder
    BY DEF RefundsConsistent, PaymentAgrees, MoneyBackStopsTheOrder, Paying
  <1>. QED
    BY <1>1, RefundsConsistency, PTL

=============================================================================
