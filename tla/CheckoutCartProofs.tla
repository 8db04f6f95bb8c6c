-------------------------- MODULE CheckoutCartProofs --------------------------
(***************************************************************************)
(* What a checkout owes to the cart and to the stock, for every number of  *)
(* shoppers, quotes and workers.  CartFrozenWhileActive is not inductive:  *)
(* it needs that no two carts ever have one revision, that a quote is what *)
(* its revision said, and that a bought revision is never a cart again.    *)
(***************************************************************************)
EXTENDS CheckoutProofs, SumTheorems

HasCart(s) == cart[s] # NoCart

\* Revisions come from one sequence and are never given out twice.
RevisionsAreAllocated ==
    /\ \A s \in Shoppers : HasCart(s) => cart[s].version <= cartSeq
    /\ \A q \in Quotes : quote[q] # NoQuote => quote[q].version <= cartSeq

RevisionsAreUnique ==
    \A s, t \in Shoppers :
        HasCart(s) /\ HasCart(t) /\ cart[s].version = cart[t].version => s = t

\* A cart at the revision of a quote is the cart the quote priced.
QuotesNameRevisions ==
    \A q \in Quotes, s \in Shoppers :
        quote[q] # NoQuote /\ HasCart(s) /\ cart[s].version = quote[q].version
        => s = quote[q].shopper /\ cart[s].items = quote[q].items

BoughtRevisionsAreGone ==
    \A q \in Quotes, s \in Shoppers :
        attempt[q].status \in Terminal /\ HasCart(s)
        => cart[s].version # quote[q].version

\* The inductive invariant, on top of Consistent.
CartsAgree ==
    /\ RevisionsAreAllocated
    /\ RevisionsAreUnique
    /\ QuotesNameRevisions
    /\ BoughtRevisionsAreGone
    /\ CartFrozenWhileActive
    /\ OneAttemptPerCartRevision

-----------------------------------------------------------------------------
(* What the types say of carts and quotes *)

LEMMA ShopFacts ==
    ASSUME Consistent
    PROVE  /\ cartSeq \in Nat
           /\ \A s \in Shoppers : HasCart(s) =>
                 cart[s] \in Carts /\ cart[s].version \in Nat
           /\ \A q \in Quotes : quote[q] # NoQuote =>
                 /\ quote[q] \in QuoteRows
                 /\ quote[q].version \in Nat
                 /\ quote[q].shopper \in Shoppers
           /\ \A q \in Quotes :
                 /\ attempt[q].status \in {"none"} \cup Active \cup Terminal
                 /\ Started(q) => quote[q] # NoQuote
  <1>1. TypeOK /\ \A q \in Quotes : RowsAgree(q)
    BY DEF Consistent
  <1>2. cartSeq \in Nat /\ \A s \in Shoppers : HasCart(s) => cart[s] \in Carts
    BY <1>1 DEF TypeOK, ShopTypes, HasCart
  <1>3. \A q \in Quotes : quote[q] # NoQuote => quote[q] \in QuoteRows
    BY <1>1 DEF TypeOK, ShopTypes
  <1>4. \A q \in Quotes : attempt[q].status \in {"none"} \cup Active \cup Terminal
    BY <1>1 DEF TypeOK, AttemptRows
  <1>5. \A q \in Quotes : Started(q) => quote[q] # NoQuote
    BY <1>1 DEF RowsAgree
  <1>. QED
    BY <1>2, <1>3, <1>4, <1>5 DEF Carts, QuoteRows

\* An attempt is not begun, takes money or has ended: one of the three.
LEMMA Phases ==
    ASSUME Consistent, NEW q \in Quotes
    PROVE  /\ Started(q) <=> IsActive(q) \/ attempt[q].status \in Terminal
           /\ ~(IsActive(q) /\ attempt[q].status \in Terminal)
  BY ShopFacts DEF Started, IsActive, Active, Terminal, Released

-----------------------------------------------------------------------------
(* The kinds of step *)

\* The attempt is where it was, or runs on.
SamePhase(q) ==
    StatusKept(q) \/ (IsActive(q) /\ attempt'[q].status \in Active)

LEMMA SamePhaseFacts ==
    ASSUME NEW q \in Quotes, SamePhase(q)
    PROVE  /\ Started(q)' <=> Started(q)
           /\ IsActive(q)' <=> IsActive(q)
           /\ attempt'[q].status \in Terminal <=> attempt[q].status \in Terminal
  BY DEF SamePhase, StatusKept, Started, IsActive, Active, Terminal, Released

SamePricing(q) ==
    /\ (quote'[q] = NoQuote) = (quote[q] = NoQuote)
    /\ quote'[q].shopper = quote[q].shopper
    /\ quote'[q].version = quote[q].version
    /\ quote'[q].items = quote[q].items

\* No cart, no outcome and no priced line is touched.
LEMMA NoShoppingKeepsCarts ==
    ASSUME CartsAgree, UNCHANGED <<cart, cartSeq>>,
           \A q \in Quotes : SamePhase(q) /\ SamePricing(q)
    PROVE  CartsAgree'
  <1>1. RevisionsAreAllocated' /\ RevisionsAreUnique'
    BY DEF CartsAgree, RevisionsAreAllocated, RevisionsAreUnique, SamePricing,
           HasCart
  <1>2. QuotesNameRevisions' /\ BoughtRevisionsAreGone'
    BY SamePhaseFacts DEF CartsAgree, QuotesNameRevisions,
       BoughtRevisionsAreGone, SamePricing, HasCart
  <1>3. CartFrozenWhileActive'
    BY SamePhaseFacts DEF CartsAgree, CartFrozenWhileActive, SamePricing
  <1>4. OneAttemptPerCartRevision'
    BY SamePhaseFacts DEF CartsAgree, OneAttemptPerCartRevision, SamePricing,
       Started
  <1>. QED
    BY <1>1, <1>2, <1>3, <1>4 DEF CartsAgree

\* The cart of s goes away or moves to a revision nobody has seen.
MovesOn(s) ==
    \/ cart' = [cart EXCEPT ![s] = NoCart] /\ cartSeq' = cartSeq
    \/ \E row \in Carts :
          /\ row.version = cartSeq + 1
          /\ cart' = [cart EXCEPT ![s] = row]
          /\ cartSeq' = cartSeq + 1

\* What a cart that moves on leaves true, whatever becomes of the attempts.
LEMMA MovingOn ==
    ASSUME CartsAgree, Consistent, NEW s \in Shoppers, MovesOn(s),
           \A q \in Quotes : SamePricing(q)
    PROVE  /\ RevisionsAreAllocated' /\ RevisionsAreUnique'
           /\ QuotesNameRevisions'
           /\ \A t \in Shoppers \ {s} : cart'[t] = cart[t]
           /\ HasCart(s)' => cart'[s].version = cartSeq + 1
  <1>1. cart \in [Shoppers -> Carts \cup {NoCart}] /\ cartSeq \in Nat
    BY DEF Consistent, TypeOK, ShopTypes
  <1>2. /\ \A t \in Shoppers \ {s} : cart'[t] = cart[t]
        /\ HasCart(s)' => cart'[s].version = cartSeq + 1 /\ cartSeq' = cartSeq + 1
        /\ cartSeq' \in {cartSeq, cartSeq + 1}
    BY <1>1 DEF MovesOn, HasCart
  <1>3. RevisionsAreAllocated'
    BY <1>1, <1>2, ShopFacts
       DEF CartsAgree, RevisionsAreAllocated, SamePricing, HasCart
  <1>4. RevisionsAreUnique'
    BY <1>1, <1>2, ShopFacts
       DEF CartsAgree, RevisionsAreUnique, RevisionsAreAllocated, HasCart
  <1>5. ASSUME NEW q \in Quotes, NEW t \in Shoppers, quote'[q] # NoQuote,
               HasCart(t)', cart'[t].version = quote'[q].version
        PROVE  t = quote'[q].shopper /\ cart'[t].items = quote'[q].items
    <2>1. /\ quote[q] # NoQuote /\ quote[q].version <= cartSeq
          /\ quote[q].version \in Nat
      BY <1>5, ShopFacts DEF SamePricing, CartsAgree, RevisionsAreAllocated
    <2>2. t # s
      BY <1>1, <1>2, <1>5, <2>1 DEF SamePricing
    <2>. QED
      BY <1>2, <1>5, <2>1, <2>2
         DEF CartsAgree, QuotesNameRevisions, SamePricing, HasCart
  <1>. QED
    BY <1>2, <1>3, <1>4, <1>5 DEF QuotesNameRevisions

\* A shopper without a running attempt edits or drops the cart.
LEMMA EditKeepsCarts ==
    ASSUME CartsAgree, Consistent, NEW s \in Shoppers, MovesOn(s),
           \A q \in Quotes : IsActive(q) => quote[q].shopper # s,
           UNCHANGED <<quote, attempt>>
    PROVE  CartsAgree'
  <1>1. \A q \in Quotes : SamePricing(q)
    BY DEF SamePricing
  <1>2. /\ RevisionsAreAllocated' /\ RevisionsAreUnique' /\ QuotesNameRevisions'
        /\ \A t \in Shoppers \ {s} : cart'[t] = cart[t]
        /\ HasCart(s)' => cart'[s].version = cartSeq + 1
    BY <1>1, MovingOn
  <1>3. BoughtRevisionsAreGone'
    <2>1. SUFFICES ASSUME NEW q \in Quotes, NEW t \in Shoppers,
                          attempt[q].status \in Terminal, HasCart(t)'
                   PROVE  cart'[t].version # quote[q].version
      BY DEF BoughtRevisionsAreGone
    <2>2. quote[q].version \in Nat /\ quote[q].version <= cartSeq /\ cartSeq \in Nat
      BY <2>1, ShopFacts, Phases DEF CartsAgree, RevisionsAreAllocated
    <2>. QED
      BY <1>2, <2>1, <2>2 DEF CartsAgree, BoughtRevisionsAreGone, HasCart
  <1>4. CartFrozenWhileActive'
    <2>1. \A q \in Quotes : IsActive(q)' = IsActive(q)
      BY DEF IsActive
    <2>2. \A q \in Quotes : IsActive(q) => quote[q].shopper \in Shoppers \ {s}
      BY ShopFacts, Phases
    <2>. QED
      BY <1>2, <2>1, <2>2 DEF CartsAgree, CartFrozenWhileActive
  <1>5. OneAttemptPerCartRevision'
    BY DEF CartsAgree, OneAttemptPerCartRevision
  <1>. QED
    BY <1>2, <1>3, <1>4, <1>5 DEF CartsAgree

\* A running attempt ends, and its shopper's cart moves on with it.
LEMMA EndKeepsCarts ==
    ASSUME CartsAgree, Consistent, NEW x \in Quotes, IsActive(x),
           MovesOn(quote[x].shopper), UNCHANGED quote,
           attempt'[x].status \in Terminal,
           \A q \in Quotes \ {x} : attempt'[q] = attempt[q]
    PROVE  CartsAgree'
  <1>0. PICK s \in Shoppers : s = quote[x].shopper
    BY ShopFacts, Phases
  <1>1. \A q \in Quotes : SamePricing(q)
    BY DEF SamePricing
  <1>2. /\ HasCart(s)
        /\ cart[s].version = quote[x].version
        /\ \A q \in Quotes \ {x} : IsActive(q) => quote[q].shopper # s
        /\ quote[x].version <= cartSeq /\ quote[x].version \in Nat
        /\ cartSeq \in Nat
    BY <1>0, ShopFacts, Phases
       DEF CartsAgree, CartFrozenWhileActive, RevisionsAreAllocated, HasCart
  <1>3. /\ RevisionsAreAllocated' /\ RevisionsAreUnique' /\ QuotesNameRevisions'
        /\ \A t \in Shoppers \ {s} : cart'[t] = cart[t]
        /\ HasCart(s)' => cart'[s].version = cartSeq + 1
    <2>1. MovesOn(s)
      BY <1>0
    <2>. QED
      BY <1>1, <2>1, MovingOn
  <1>4. BoughtRevisionsAreGone'
    <2>1. SUFFICES ASSUME NEW q \in Quotes, NEW t \in Shoppers,
                          attempt'[q].status \in Terminal, HasCart(t)'
                   PROVE  cart'[t].version # quote[q].version
      BY DEF BoughtRevisionsAreGone
    <2>2. quote[q].version \in Nat /\ quote[q].version <= cartSeq
      BY <1>2, <2>1, ShopFacts, Phases DEF CartsAgree, RevisionsAreAllocated
    <2>3. CASE t = s
      BY <1>2, <1>3, <2>1, <2>2, <2>3
    <2>4. CASE t # s
      <3>1. cart'[t] = cart[t] /\ HasCart(t)
        BY <1>3, <2>1, <2>4 DEF HasCart
      <3>2. CASE q = x
        BY <1>2, <2>4, <3>1, <3>2 DEF CartsAgree, RevisionsAreUnique
      <3>3. CASE q # x
        BY <2>1, <3>1, <3>3 DEF CartsAgree, BoughtRevisionsAreGone
      <3>. QED
        BY <3>2, <3>3
    <2>. QED
      BY <2>3, <2>4
  <1>5. /\ ~IsActive(x)'
        /\ \A q \in Quotes \ {x} : IsActive(q)' = IsActive(q)
    BY DEF IsActive, Active, Terminal, Released
  <1>6. CartFrozenWhileActive'
    <2>1. \A q \in Quotes \ {x} : IsActive(q) =>
              quote[q].shopper \in Shoppers \ {s}
      BY <1>2, ShopFacts, Phases
    <2>. QED
      BY <1>3, <1>5, <2>1 DEF CartsAgree, CartFrozenWhileActive
  <1>7. OneAttemptPerCartRevision'
    <2>1. attempt[x].status # "none"
      BY DEF IsActive, Active
    <2>. QED
      BY <2>1 DEF CartsAgree, OneAttemptPerCartRevision
  <1>. QED
    BY <1>3, <1>4, <1>6, <1>7 DEF CartsAgree

-----------------------------------------------------------------------------
(* Quotes and starts *)

\* The revision a start buys was never bought: a running attempt on it would
\* have locked the cart, and a finished one would have moved it on.
LEMMA StartableRevision ==
    ASSUME CartsAgree, Consistent, NEW x \in Quotes, NEW k \in Keys,
           Startable(x, k)
    PROVE  /\ quote[x].shopper \in Shoppers /\ HasCart(quote[x].shopper)
           /\ cart[quote[x].shopper].version = quote[x].version
           /\ cart[quote[x].shopper].items = quote[x].items
           /\ \A q \in Quotes : IsActive(q) => quote[q].shopper # quote[x].shopper
           /\ \A q \in Quotes : Started(q) => quote[q].version # quote[x].version
  <1>1. /\ quote[x].shopper \in Shoppers /\ HasCart(quote[x].shopper)
        /\ cart[quote[x].shopper].version = quote[x].version
        /\ cart[quote[x].shopper].items = quote[x].items
        /\ \A q \in Quotes : IsActive(q) => quote[q].shopper # quote[x].shopper
    BY ShopFacts DEF Startable, Quotable, CartUnlocked, HasCart
  <1>2. ASSUME NEW q \in Quotes, Started(q)
        PROVE  quote[q].version # quote[x].version
    <2>1. CASE IsActive(q)
      BY <1>1, <1>2, <2>1, ShopFacts
         DEF CartsAgree, CartFrozenWhileActive, RevisionsAreUnique, HasCart
    <2>2. CASE attempt[q].status \in Terminal
      BY <1>1, <2>2 DEF CartsAgree, BoughtRevisionsAreGone
    <2>. QED
      BY <1>2, <2>1, <2>2, Phases
  <1>. QED
    BY <1>1, <1>2

LEMMA RecordStartKeepsPricing ==
    ASSUME Consistent, NEW x \in Quotes, NEW k \in Keys, Startable(x, k),
           RecordStart(x, k)
    PROVE  \A q \in Quotes : SamePricing(q)
  <1> DEFINE row == [quote[x] EXCEPT !.consumed = TRUE]
  <1>1. quote[x] \in QuoteRows
    BY ShopFacts DEF Startable
  <1>2. /\ row.shopper = quote[x].shopper /\ row.version = quote[x].version
        /\ row.items = quote[x].items /\ row # NoQuote /\ quote[x] # NoQuote
    BY <1>1, NullAssumption DEF QuoteRows
  <1>3. quote' = [quote EXCEPT ![x] = row]
    BY DEF RecordStart
  <1> HIDE DEF row
  <1>. QED
    BY <1>2, <1>3 DEF SamePricing, Consistent, TypeOK, ShopTypes

LEMMA StartOnlineKeepsCarts ==
    ASSUME CartsAgree, Consistent, NEW x \in Quotes, NEW k \in Keys,
           NEW urls \in BOOLEAN, StartOnline(x, k, urls)
    PROVE  CartsAgree'
  <1>1. \A q \in Quotes : SamePricing(q)
    BY RecordStartKeepsPricing DEF StartOnline
  <1>2. /\ UNCHANGED <<cart, cartSeq>>
        /\ attempt'[x].status = "creating"
        /\ \A q \in Quotes \ {x} : attempt'[q] = attempt[q]
    BY DEF StartOnline, Consistent, TypeOK, NoAttempt
  <1>3. PICK s \in Shoppers :
           /\ s = quote[x].shopper /\ HasCart(s)
           /\ cart[s].version = quote[x].version
           /\ cart[s].items = quote[x].items
           /\ \A q \in Quotes : IsActive(q) => quote[q].shopper # s
           /\ \A q \in Quotes : Started(q) => quote[q].version # quote[x].version
    BY StartableRevision DEF StartOnline
  <1>4. /\ IsActive(x)' /\ attempt'[x].status \notin Terminal
        /\ \A q \in Quotes \ {x} : IsActive(q)' = IsActive(q)
    BY <1>2 DEF IsActive, Active, Terminal, Released
  <1>5. RevisionsAreAllocated' /\ RevisionsAreUnique' /\ QuotesNameRevisions'
    BY <1>1, <1>2 DEF CartsAgree, RevisionsAreAllocated, RevisionsAreUnique,
                      QuotesNameRevisions, SamePricing, HasCart
  <1>6. BoughtRevisionsAreGone'
    BY <1>1, <1>2, <1>4 DEF CartsAgree, BoughtRevisionsAreGone, SamePricing,
                            HasCart
  <1>7. CartFrozenWhileActive'
    BY <1>1, <1>2, <1>3, <1>4 DEF CartsAgree, CartFrozenWhileActive,
                                  SamePricing, HasCart
  <1>8. OneAttemptPerCartRevision'
    BY <1>1, <1>2, <1>3 DEF CartsAgree, OneAttemptPerCartRevision, SamePricing,
                            Started
  <1>. QED
    BY <1>5, <1>6, <1>7, <1>8 DEF CartsAgree

LEMMA StartCashKeepsCarts ==
    ASSUME CartsAgree, Consistent, NEW x \in Quotes, NEW k \in Keys,
           StartCashOnDelivery(x, k)
    PROVE  CartsAgree'
  <1>1. \A q \in Quotes : SamePricing(q)
    BY RecordStartKeepsPricing DEF StartCashOnDelivery
  <1>2. PICK s \in Shoppers :
           /\ s = quote[x].shopper /\ HasCart(s)
           /\ cart[s].version = quote[x].version
           /\ \A q \in Quotes : IsActive(q) => quote[q].shopper # s
           /\ \A q \in Quotes : Started(q) => quote[q].version # quote[x].version
    BY StartableRevision DEF StartCashOnDelivery
  <1>3. /\ cart' = [cart EXCEPT ![s] = NoCart] /\ cartSeq' = cartSeq
        /\ attempt'[x].status = "succeeded"
        /\ \A q \in Quotes \ {x} : attempt'[q] = attempt[q]
    BY <1>2 DEF StartCashOnDelivery, Consistent, TypeOK, NoAttempt
  <1>4. /\ RevisionsAreAllocated' /\ RevisionsAreUnique' /\ QuotesNameRevisions'
        /\ \A t \in Shoppers \ {s} : cart'[t] = cart[t]
    BY <1>1, <1>3, MovingOn DEF MovesOn
  <1>5. ~HasCart(s)'
    BY <1>3 DEF HasCart, Consistent, TypeOK, ShopTypes
  <1>6. /\ ~IsActive(x)'
        /\ \A q \in Quotes \ {x} : IsActive(q)' = IsActive(q)
    BY <1>3 DEF IsActive, Active
  <1>7. BoughtRevisionsAreGone'
    <2>1. SUFFICES ASSUME NEW q \in Quotes, NEW t \in Shoppers,
                          attempt'[q].status \in Terminal, HasCart(t)'
                   PROVE  cart'[t].version # quote'[q].version
      BY DEF BoughtRevisionsAreGone
    <2>2. t # s /\ cart'[t] = cart[t] /\ HasCart(t)
      BY <1>4, <1>5, <2>1 DEF HasCart
    <2>3. CASE q = x
      BY <1>1, <1>2, <2>2, <2>3 DEF CartsAgree, RevisionsAreUnique, SamePricing
    <2>4. CASE q # x
      BY <1>1, <1>3, <2>1, <2>2, <2>4
         DEF CartsAgree, BoughtRevisionsAreGone, SamePricing
    <2>. QED
      BY <2>3, <2>4
  <1>8. CartFrozenWhileActive'
    <2>1. \A q \in Quotes \ {x} : IsActive(q) => quote[q].shopper \in Shoppers \ {s}
      BY <1>2, ShopFacts, Phases
    <2>. QED
      BY <1>1, <1>4, <1>6, <2>1 DEF CartsAgree, CartFrozenWhileActive, SamePricing
  <1>9. OneAttemptPerCartRevision'
    BY <1>1, <1>2, <1>3 DEF CartsAgree, OneAttemptPerCartRevision, SamePricing,
                            Started
  <1>. QED
    BY <1>4, <1>7, <1>8, <1>9 DEF CartsAgree

LEMMA CreateQuoteKeepsCarts ==
    ASSUME CartsAgree, Consistent, NEW x \in Quotes, NEW s \in Shoppers,
           NEW m \in {"cod", "online"}, CreateQuote(x, s, m)
    PROVE  CartsAgree'
  <1> DEFINE row == [shopper |-> s, version |-> cart[s].version,
                     items |-> cart[s].items, method |-> m, offer |-> offer,
                     expired |-> FALSE, consumed |-> FALSE]
  <1>1. /\ quote' = [quote EXCEPT ![x] = row] /\ quote[x] = NoQuote
        /\ UNCHANGED <<cart, cartSeq, attempt>> /\ HasCart(s)
    BY DEF CreateQuote, HasCart
  <1>2. /\ row.shopper = s /\ row.version = cart[s].version
        /\ row.items = cart[s].items
    OBVIOUS
  <1> HIDE DEF row
  <1>3. /\ quote'[x] = row
        /\ \A q \in Quotes \ {x} : quote'[q] = quote[q]
    BY <1>1 DEF Consistent, TypeOK, ShopTypes
  <1>4. \A q \in Quotes : Started(q) \/ IsActive(q) \/ attempt[q].status \in Terminal
                          => q # x
    BY <1>1, ShopFacts, Phases
  <1>5. RevisionsAreAllocated' /\ RevisionsAreUnique'
    BY <1>1, <1>2, <1>3 DEF CartsAgree, RevisionsAreAllocated,
                            RevisionsAreUnique, HasCart
  <1>6. QuotesNameRevisions'
    BY <1>1, <1>2, <1>3 DEF CartsAgree, QuotesNameRevisions, RevisionsAreUnique,
                            HasCart
  <1>7. BoughtRevisionsAreGone'
    BY <1>1, <1>3, <1>4 DEF CartsAgree, BoughtRevisionsAreGone, HasCart
  <1>8. CartFrozenWhileActive'
    BY <1>1, <1>3, <1>4 DEF CartsAgree, CartFrozenWhileActive, IsActive
  <1>9. OneAttemptPerCartRevision'
    BY <1>1, <1>3, <1>4 DEF CartsAgree, OneAttemptPerCartRevision, Started
  <1>. QED
    BY <1>5, <1>6, <1>7, <1>8, <1>9 DEF CartsAgree

-----------------------------------------------------------------------------
(* Shopping *)

LEMMA PutItemKeepsCarts ==
    ASSUME CartsAgree, Consistent, NEW s \in Shoppers, NEW v \in Variants,
           NEW n \in 1..MaxQty, PutItem(s, v, n)
    PROVE  CartsAgree'
  <1> DEFINE items == IF cart[s] = NoCart THEN Empty ELSE cart[s].items
             row == [version |-> cartSeq + 1, items |-> [items EXCEPT ![v] = n]]
  <1>1. items \in Contents
    BY EmptyType DEF Consistent, TypeOK, ShopTypes, Carts
  <1>2. row \in Carts /\ row.version = cartSeq + 1
    <2>1. n \in 0..MaxQty /\ cartSeq + 1 \in Nat
      BY CheckoutAssumption DEF Consistent, TypeOK, ShopTypes
    <2>. HIDE DEF items
    <2>. QED
      BY <1>1, <2>1, ContentsType, CartType
  <1>3. /\ cart' = [cart EXCEPT ![s] = row] /\ cartSeq' = cartSeq + 1
        /\ UNCHANGED <<quote, attempt>>
    BY DEF PutItem
  <1> HIDE DEF row
  <1>4. MovesOn(s)
    BY <1>2, <1>3 DEF MovesOn
  <1>5. \A q \in Quotes : IsActive(q) => quote[q].shopper # s
    BY DEF PutItem, CartUnlocked, CartsAgree, CartFrozenWhileActive
  <1>. QED
    BY <1>3, <1>4, <1>5, EditKeepsCarts

LEMMA RemoveItemKeepsCarts ==
    ASSUME CartsAgree, Consistent, NEW s \in Shoppers, NEW v \in Variants,
           RemoveItem(s, v)
    PROVE  CartsAgree'
  <1> DEFINE items == [cart[s].items EXCEPT ![v] = 0]
             row == [version |-> cartSeq + 1, items |-> items]
  <1>1. items \in Contents
    <2>1. cart[s].items \in Contents
      BY DEF RemoveItem, Consistent, TypeOK, ShopTypes, Carts
    <2>2. 0 \in 0..MaxQty
      BY CheckoutAssumption
    <2>. QED
      BY <2>1, <2>2, ContentsType
  <1>2. row \in Carts /\ row.version = cartSeq + 1
    <2>1. cartSeq + 1 \in Nat
      BY DEF Consistent, TypeOK, ShopTypes
    <2>. HIDE DEF items
    <2>. QED
      BY <1>1, <2>1, CartType
  <1>3. /\ \/ cart' = [cart EXCEPT ![s] = NoCart] /\ cartSeq' = cartSeq
           \/ cart' = [cart EXCEPT ![s] = row] /\ cartSeq' = cartSeq + 1
        /\ UNCHANGED <<quote, attempt>>
    BY DEF RemoveItem
  <1> HIDE DEF row
  <1>4. MovesOn(s)
    BY <1>2, <1>3 DEF MovesOn
  <1>. QED
    BY <1>3, <1>4, EditKeepsCarts DEF RemoveItem, CartUnlocked

LEMMA DeleteCartKeepsCarts ==
    ASSUME CartsAgree, Consistent, NEW s \in Shoppers, DeleteCart(s)
    PROVE  CartsAgree'
  BY EditKeepsCarts DEF DeleteCart, CartUnlocked, MovesOn

LEMMA CancelKeepsPhases ==
    ASSUME Consistent, NEW w \in Workers, NEW x \in Quotes, CancelAttempt(w, x)
    PROVE  \A q \in Quotes : SamePhase(q)
  <1>1. /\ attempt[x].status \in {"creating", "pending"}
        /\ attempt'[x].status = "cancelling"
        /\ \A q \in Quotes \ {x} : attempt'[q] = attempt[q]
    BY DEF CancelAttempt, Consistent, TypeOK, AttemptRows
  <1>. QED
    BY <1>1 DEF SamePhase, StatusKept, IsActive, Active

LEMMA ShoppingKeepsCarts ==
    ASSUME CartsAgree, Consistent, Shopping
    PROVE  CartsAgree'
  <1>1. ASSUME UNCHANGED <<cart, cartSeq, quote, attempt>>
        PROVE  CartsAgree'
    BY <1>1, NoShoppingKeepsCarts DEF SamePhase, SamePricing, StatusKept
  <1>2. ASSUME NEW q \in Quotes, ReadAttempt(q) \/ Pay(q)
        PROVE  CartsAgree'
    BY <1>1, <1>2 DEF ReadAttempt, Pay, shopVars
  <1>3. ASSUME NEW w \in Workers, NEW q \in Quotes, CancelAttempt(w, q)
        PROVE  CartsAgree'
    BY <1>3, CancelKeepsPhases, NoShoppingKeepsCarts
       DEF CancelAttempt, shopVars, SamePricing
  <1>. QED
    BY <1>2, <1>3, PutItemKeepsCarts, RemoveItemKeepsCarts,
       DeleteCartKeepsCarts, CreateQuoteKeepsCarts, StartCashKeepsCarts,
       StartOnlineKeepsCarts DEF Shopping

-----------------------------------------------------------------------------
(* Work *)

LEMMA DispatchKeepsStatus ==
    ASSUME Consistent, NEW w \in Workers, DispatchCreate(w)
    PROVE  \A q \in Quotes : StatusKept(q)
  <1> DEFINE x == worker[w].on
  <1>1. worker[w].step # "idle"
    BY DEF DispatchCreate
  <1>2. CASE MayDispatch(w, x)
    <2> DEFINE sent == IF worker[w].seen.dispatched = "no"
                       THEN "recent" ELSE attempt[x].dispatched
               tries == worker[w].seen.tries + 1
               row == [attempt[x] EXCEPT !.dispatched = sent, !.tries = tries]
    <2>1. attempt' = [attempt EXCEPT ![x] = row]
      BY <1>1, <1>2, Busy DEF DispatchCreate, Consistent, TypeOK
    <2>2. row.status = attempt[x].status
      BY <1>1, Busy DEF AttemptRows
    <2> HIDE DEF row
    <2>. QED
      BY <2>1, <2>2, OtherKept
  <1>3. CASE ~MayDispatch(w, x)
    BY <1>1, <1>3, EndOfWorkKeeps DEF DispatchCreate
  <1>. QED
    BY <1>2, <1>3

LEMMA SaveKeepsPhases ==
    ASSUME Consistent, NEW w \in Workers, SaveProviderSession(w)
    PROVE  \A q \in Quotes : SamePhase(q)
  <1> DEFINE x == worker[w].on
             base == Unleased(attempt[x])
             status == IF attempt[x].status = "creating" THEN "pending"
                                                         ELSE attempt[x].status
             row == [base EXCEPT !.status = status, !.session = worker[w].got,
                                 !.due = FALSE]
  <1>1. x \in Quotes /\ attempt[x] \in AttemptRows
    BY Busy DEF SaveProviderSession
  <1>2. base \in AttemptRows /\ base.status = attempt[x].status
    BY <1>1, UnleasedRow
  <1>3. attempt' = [attempt EXCEPT ![x] = row] \/ attempt' = attempt
    BY <1>2 DEF SaveProviderSession
  <1>4. row.status = status
    BY <1>2 DEF AttemptRows
  <1> HIDE DEF row, base
  <1>. QED
    BY <1>3, <1>4 DEF Consistent, TypeOK, SamePhase, StatusKept, IsActive, Active

\* Only a release and the placing of an order end an attempt.
LEMMA WorkKeepsPhases ==
    ASSUME Consistent, NEW w \in Workers, Work(w),
           ~ReleaseUnpaidAttempt(w), ~PlacePaidOnlineOrder(w)
    PROVE  UNCHANGED shopVars /\ \A q \in Quotes : SamePhase(q)
  <1>1. UNCHANGED shopVars
    BY DEF Work, RefuseToCreate, DispatchCreate, CreateCheckoutSession,
       SaveProviderSession, ReconcileWithoutSession, RetrieveCheckoutSession,
       VerifyPaymentIntent, ExpireCheckoutSession, FinishReconcile,
       RecordProviderFailure
  <1>2. ASSUME UNCHANGED attempt
        PROVE  \A q \in Quotes : SamePhase(q)
    BY <1>2 DEF SamePhase, StatusKept
  <1>3. ASSUME worker[w].step # "idle",
               \/ \E due \in BOOLEAN : FinishAttemptWork(w, due)
               \/ MarkAttemptForReview(w)
               \/ RecordProviderFailure(w)
        PROVE  \A q \in Quotes : SamePhase(q)
    BY <1>3, EndOfWorkKeeps DEF SamePhase
  <1>4. CASE \/ RefuseToCreate(w) \/ FinishReconcile(w)
             \/ RecordProviderFailure(w)
    BY <1>1, <1>3, <1>4 DEF RefuseToCreate, FinishReconcile, RecordProviderFailure
  <1>5. CASE \/ CreateCheckoutSession(w) \/ RetrieveCheckoutSession(w)
             \/ ExpireCheckoutSession(w)
    BY <1>1, <1>2, <1>5 DEF CreateCheckoutSession, RetrieveCheckoutSession,
                            ExpireCheckoutSession
  <1>6. CASE ReconcileWithoutSession(w)
    BY <1>1, <1>2, <1>3, <1>6 DEF ReconcileWithoutSession
  <1>7. ASSUME NEW matches \in BOOLEAN, VerifyPaymentIntent(w, matches)
        PROVE  \A q \in Quotes : SamePhase(q)
    BY <1>2, <1>3, <1>7 DEF VerifyPaymentIntent
  <1>8. CASE DispatchCreate(w) \/ SaveProviderSession(w)
    BY <1>1, <1>8, DispatchKeepsStatus, SaveKeepsPhases DEF SamePhase
  <1>. QED
    BY <1>1, <1>4, <1>5, <1>6, <1>7, <1>8 DEF Work

LEMMA WorkingKeepsPhases ==
    ASSUME Consistent, Working, \A w \in Workers : ~Work(w)
    PROVE  UNCHANGED shopVars /\ \A q \in Quotes : SamePhase(q)
  <1>1. ASSUME NEW w \in Workers, NEW x \in Quotes, NEW force \in BOOLEAN,
               ProcessOnlineAttempt(w, x, force)
        PROVE  UNCHANGED shopVars /\ \A q \in Quotes : SamePhase(q)
    <2> DEFINE row == [attempt[x] EXCEPT !.lease = w, !.leaseOld = FALSE]
    <2>1. attempt' = [attempt EXCEPT ![x] = row]
      BY <1>1 DEF ProcessOnlineAttempt, Consistent, TypeOK
    <2>2. row.status = attempt[x].status
      BY DEF Consistent, TypeOK, AttemptRows
    <2> HIDE DEF row
    <2>3. \A q \in Quotes : StatusKept(q)
      BY <2>1, <2>2, OtherKept
    <2>. QED
      BY <1>1, <2>3 DEF ProcessOnlineAttempt, SamePhase
  <1>2. ASSUME NEW w \in Workers, ProviderFails(w) \/ Crash(w)
        PROVE  UNCHANGED shopVars /\ \A q \in Quotes : SamePhase(q)
    BY <1>2 DEF ProviderFails, Crash, StatusKept, SamePhase
  <1>. QED
    BY <1>1, <1>2 DEF Working

\* The three clocks of an attempt row.
LEMMA ClocksKeepStatus ==
    ASSUME Consistent, NEW x \in Quotes,
           LeaseExpires(x) \/ RetryComesDue(x) \/ DispatchAges(x)
    PROVE  \A q \in Quotes : StatusKept(q)
  <1>1. attempt[x] \in AttemptRows
    BY DEF Consistent, TypeOK
  <1>2. CASE LeaseExpires(x)
    <2> DEFINE row == [attempt[x] EXCEPT !.leaseOld = TRUE]
    <2>1. /\ attempt' = [attempt EXCEPT ![x] = row]
          /\ row.status = attempt[x].status
      BY <1>1, <1>2 DEF LeaseExpires, AttemptRows
    <2>. HIDE DEF row
    <2>. QED
      BY <2>1, OtherKept
  <1>3. CASE RetryComesDue(x)
    <2> DEFINE row == [attempt[x] EXCEPT !.due = TRUE]
    <2>1. /\ attempt' = [attempt EXCEPT ![x] = row]
          /\ row.status = attempt[x].status
      BY <1>1, <1>3 DEF RetryComesDue, AttemptRows
    <2>. HIDE DEF row
    <2>. QED
      BY <2>1, OtherKept
  <1>4. CASE DispatchAges(x)
    <2> DEFINE row == [attempt[x] EXCEPT !.dispatched = "old"]
    <2>1. /\ attempt' = [attempt EXCEPT ![x] = row]
          /\ row.status = attempt[x].status
      BY <1>1, <1>4 DEF DispatchAges, AttemptRows
    <2>. HIDE DEF row
    <2>. QED
      BY <2>1, OtherKept
  <1>. QED
    BY <1>2, <1>3, <1>4

LEMMA TimeKeepsPhases ==
    ASSUME Consistent, Time
    PROVE  \A q \in Quotes : SamePhase(q)
  <1>1. ASSUME NEW x \in Quotes,
               LeaseExpires(x) \/ RetryComesDue(x) \/ DispatchAges(x)
        PROVE  \A q \in Quotes : SamePhase(q)
    BY <1>1, ClocksKeepStatus DEF SamePhase
  <1>2. ASSUME UNCHANGED attempt
        PROVE  \A q \in Quotes : SamePhase(q)
    BY <1>2 DEF SamePhase, StatusKept
  <1>. QED
    BY <1>1, <1>2 DEF Time, QuoteExpires, KeyForgotten, SessionTimesOut

\* A release of a finished attempt does nothing; any other ends a running one.
LEMMA ReleaseKinds ==
    ASSUME Consistent, NEW w \in Workers, ReleaseUnpaidAttempt(w)
    PROVE  \/ UNCHANGED <<cart, cartSeq, quote, attempt>>
           \/ LET x == worker[w].on IN
              /\ x \in Quotes /\ IsActive(x)
              /\ attempt'[x].status \in Released
              /\ \A q \in Quotes \ {x} : attempt'[q] = attempt[q]
              /\ RenewRevision(quote[x].shopper) /\ UNCHANGED quote
  <1> DEFINE x == worker[w].on
             base == Unleased(attempt[x])
             row == [base EXCEPT !.status = ReleaseStatus(w)]
  <1>1. x \in Quotes /\ Started(x) /\ attempt[x] \in AttemptRows
    BY Busy DEF ReleaseUnpaidAttempt
  <1>2. CASE Finished(x)
    BY <1>2 DEF ReleaseUnpaidAttempt
  <1>3. CASE ~Finished(x)
    <2>1. IsActive(x)
      BY <1>1, <1>3, Phases DEF Finished
    <2>2. attempt' = [attempt EXCEPT ![x] = row]
      BY <1>3 DEF ReleaseUnpaidAttempt
    <2>3. row.status \in Released
      BY <1>1, UnleasedRow DEF AttemptRows, ReleaseStatus, Released
    <2> HIDE DEF row
    <2>4. /\ attempt'[x].status \in Released
          /\ \A q \in Quotes \ {x} : attempt'[q] = attempt[q]
      BY <1>1, <2>2, <2>3 DEF Consistent, TypeOK
    <2>. QED
      BY <1>1, <1>3, <2>1, <2>4 DEF ReleaseUnpaidAttempt
  <1>. QED
    BY <1>2, <1>3

\* A payment places the order of a running attempt, once.
LEMMA PlaceKinds ==
    ASSUME Consistent, NEW w \in Workers, PlacePaidOnlineOrder(w)
    PROVE  \/ /\ UNCHANGED <<cart, cartSeq, quote>>
              /\ \A q \in Quotes : StatusKept(q)
           \/ LET x == worker[w].on IN
              /\ x \in Quotes /\ IsActive(x)
              /\ attempt'[x].status = "succeeded"
              /\ \A q \in Quotes \ {x} : attempt'[q] = attempt[q]
              /\ cart' = [cart EXCEPT ![quote[x].shopper] = NoCart]
              /\ UNCHANGED <<cartSeq, quote>>
  <1> DEFINE x == worker[w].on
             base == Unleased(attempt[x])
             late == [base EXCEPT !.review = TRUE]
             row == [base EXCEPT !.status = "succeeded"]
  <1>1. /\ UNCHANGED <<quote, cartSeq>>
        /\ x \in Quotes /\ Started(x) /\ attempt[x] \in AttemptRows
        /\ RowsAgree(x)
    BY Busy DEF PlacePaidOnlineOrder, Consistent
  <1>2. /\ late.status = attempt[x].status
        /\ row.status = "succeeded"
    BY <1>1, UnleasedRow DEF AttemptRows
  <1>3. /\ attempt' = [attempt EXCEPT ![x] = IF PaidTooLate(x) THEN late ELSE row]
        /\ order[x] # "none" \/ PaidTooLate(x) => UNCHANGED cart
        /\ order[x] = "none" /\ ~PaidTooLate(x)
              => cart' = [cart EXCEPT ![quote[x].shopper] = NoCart]
    BY DEF PlacePaidOnlineOrder
  <1> HIDE DEF base, late, row
  <1>4. CASE PaidTooLate(x)
    BY <1>1, <1>2, <1>3, <1>4, OtherKept
  <1>5. CASE ~PaidTooLate(x) /\ order[x] = "none"
    <2>1. IsActive(x)
      BY <1>1, <1>5, Phases DEF PaidTooLate, RowsAgree, Terminal
    <2>2. /\ attempt'[x].status = "succeeded"
          /\ \A q \in Quotes \ {x} : attempt'[q] = attempt[q]
      BY <1>1, <1>2, <1>3, <1>5 DEF Consistent, TypeOK
    <2>. QED
      BY <1>1, <1>3, <1>5, <2>1, <2>2
  <1>6. CASE order[x] # "none"
    <2>1. attempt' = [attempt EXCEPT ![x] = row] /\ UNCHANGED cart
      BY <1>3, <1>6 DEF PaidTooLate
    <2>2. attempt[x].status = "succeeded"
      BY <1>1, <1>6, Phases DEF RowsAgree, Terminal
    <2>. QED
      BY <1>1, <1>2, <2>1, <2>2, OtherKept
  <1>. QED
    BY <1>4, <1>5, <1>6

\* Steps that leave the shop alone and let every attempt run on.
LEMMA PhasesKept ==
    ASSUME CartsAgree, UNCHANGED <<cart, cartSeq, quote>>,
           \A q \in Quotes : SamePhase(q)
    PROVE  CartsAgree'
  <1>1. \A q \in Quotes : SamePricing(q)
    BY DEF SamePricing
  <1>. QED
    BY <1>1, NoShoppingKeepsCarts

LEMMA ReleaseKeepsCarts ==
    ASSUME CartsAgree, Consistent, NEW w \in Workers, ReleaseUnpaidAttempt(w)
    PROVE  CartsAgree'
  <1>1. CASE UNCHANGED <<cart, cartSeq, quote, attempt>>
    BY <1>1, PhasesKept DEF SamePhase, StatusKept
  <1>2. CASE ~UNCHANGED <<cart, cartSeq, quote, attempt>>
    <2>1. PICK x \in Quotes :
              /\ IsActive(x) /\ attempt'[x].status \in Released
              /\ \A q \in Quotes \ {x} : attempt'[q] = attempt[q]
              /\ RenewRevision(quote[x].shopper) /\ UNCHANGED quote
      BY <1>2, ReleaseKinds
    <2>2. PICK s \in Shoppers : s = quote[x].shopper /\ HasCart(s)
      BY <2>1, ShopFacts, Phases
         DEF CartsAgree, CartFrozenWhileActive, HasCart
    <2>3. MovesOn(s)
      <3> DEFINE moved == [cart[s] EXCEPT !.version = cartSeq + 1]
      <3>1. /\ cart' = [cart EXCEPT ![s] = moved]
            /\ cartSeq' = cartSeq + 1
        BY <2>1, <2>2 DEF RenewRevision, HasCart
      <3>2. moved \in Carts /\ moved.version = cartSeq + 1
        BY <2>2, ShopFacts DEF Carts
      <3>. HIDE DEF moved
      <3>. QED
        BY <3>1, <3>2 DEF MovesOn
    <2>. QED
      BY <2>1, <2>2, <2>3, EndKeepsCarts DEF Terminal
  <1>. QED
    BY <1>1, <1>2

LEMMA PlaceKeepsCarts ==
    ASSUME CartsAgree, Consistent, NEW w \in Workers, PlacePaidOnlineOrder(w)
    PROVE  CartsAgree'
  <1>1. CASE UNCHANGED <<cart, cartSeq, quote>> /\ \A q \in Quotes : StatusKept(q)
    BY <1>1, PhasesKept DEF SamePhase
  <1>2. ASSUME NEW x \in Quotes, IsActive(x), attempt'[x].status = "succeeded",
               \A q \in Quotes \ {x} : attempt'[q] = attempt[q],
               cart' = [cart EXCEPT ![quote[x].shopper] = NoCart],
               UNCHANGED <<cartSeq, quote>>
        PROVE  CartsAgree'
    BY <1>2, EndKeepsCarts DEF MovesOn, Terminal
  <1>. QED
    BY <1>1, <1>2, PlaceKinds

LEMMA WorkingKeepsCarts ==
    ASSUME CartsAgree, Consistent, Working
    PROVE  CartsAgree'
  <1>1. ASSUME NEW w \in Workers, Work(w)
        PROVE  CartsAgree'
    <2>1. CASE ReleaseUnpaidAttempt(w) \/ PlacePaidOnlineOrder(w)
      BY <2>1, ReleaseKeepsCarts, PlaceKeepsCarts
    <2>2. CASE ~ReleaseUnpaidAttempt(w) /\ ~PlacePaidOnlineOrder(w)
      BY <1>1, <2>2, WorkKeepsPhases, PhasesKept DEF shopVars
    <2>. QED
      BY <2>1, <2>2
  <1>2. CASE \A w \in Workers : ~Work(w)
    BY <1>2, WorkingKeepsPhases, PhasesKept DEF shopVars
  <1>. QED
    BY <1>1, <1>2

\* A quote that expires is still what it priced.
LEMMA TimeKeepsPricing ==
    ASSUME Consistent, Time
    PROVE  UNCHANGED <<cart, cartSeq>> /\ \A q \in Quotes : SamePricing(q)
  <1>1. ASSUME NEW x \in Quotes, QuoteExpires(x)
        PROVE  \A q \in Quotes : SamePricing(q)
    <2> DEFINE row == [quote[x] EXCEPT !.expired = TRUE]
    <2>1. /\ quote' = [quote EXCEPT ![x] = row] /\ quote[x] \in QuoteRows
          /\ quote[x] # NoQuote
      BY <1>1, ShopFacts DEF QuoteExpires
    <2>2. /\ row.shopper = quote[x].shopper /\ row.version = quote[x].version
          /\ row.items = quote[x].items /\ row # NoQuote
      BY <2>1, NullAssumption DEF QuoteRows
    <2> HIDE DEF row
    <2>. QED
      BY <2>1, <2>2 DEF SamePricing, Consistent, TypeOK, ShopTypes
  <1>. QED
    BY <1>1 DEF Time, QuoteExpires, LeaseExpires, RetryComesDue, DispatchAges,
                KeyForgotten, SessionTimesOut, shopVars, SamePricing

LEMMA TimeKeepsCarts ==
    ASSUME CartsAgree, Consistent, Time
    PROVE  CartsAgree'
  BY TimeKeepsPricing, TimeKeepsPhases, NoShoppingKeepsCarts

-----------------------------------------------------------------------------
(* The properties of the cart *)

\* Carts, the quotes that priced them and the attempts that buy them agree,
\* for every number of shoppers, quotes, keys and workers.
THEOREM CartConsistency == Spec => []CartsAgree
  <1>1. Init => CartsAgree
    BY DEF Init, CartsAgree, RevisionsAreAllocated, RevisionsAreUnique,
           QuotesNameRevisions, BoughtRevisionsAreGone, CartFrozenWhileActive,
           OneAttemptPerCartRevision, HasCart, IsActive, NoAttempt, Active,
           Terminal, Released
  <1>2. CartsAgree /\ Consistent /\ [Next]_vars => CartsAgree'
    <2>1. ASSUME CartsAgree, Consistent, UNCHANGED vars
          PROVE  CartsAgree'
      BY <2>1, PhasesKept DEF vars, SamePhase, StatusKept
    <2>2. ASSUME CartsAgree, Consistent, Merchant
          PROVE  CartsAgree'
      BY <2>2, PhasesKept
         DEF Merchant, SetOnHand, ChangeOffer, SamePhase, StatusKept, shopVars
    <2>. QED
      BY <2>1, <2>2, ShoppingKeepsCarts, WorkingKeepsCarts, TimeKeepsCarts
         DEF Next
  <1>. QED
    BY <1>1, <1>2, Consistency, PTL DEF Spec

\* The cart of a running attempt is what its quote priced, and no other
\* attempt runs on it.
THEOREM CartFreeze == Spec => []CartFrozenWhileActive
  <1>1. CartsAgree => CartFrozenWhileActive
    BY DEF CartsAgree
  <1>. QED
    BY <1>1, CartConsistency, PTL

\* No revision of a cart is ever bought twice.
THEOREM RevisionBoughtOnce == Spec => []OneAttemptPerCartRevision
  <1>1. CartsAgree => OneAttemptPerCartRevision
    BY DEF CartsAgree
  <1>. QED
    BY <1>1, CartConsistency, PTL

-----------------------------------------------------------------------------
(* The stock on hand *)

SameStock == UNCHANGED <<onHand, reserved>>

\* The two starts reserve what is available; a release only lowers; a merchant
\* stays above what is reserved; nothing else touches the counters.
LEMMA StockSteps ==
    ASSUME Consistent, NothingOversold, Next
    PROVE  NothingOversold'
  <1>1. /\ onHand \in [Variants -> Nat] /\ reserved \in [Variants -> Nat]
        /\ Tracked \subseteq Variants
    BY CheckoutAssumption DEF Consistent, TypeOK, StockTypes
  <1>2. ASSUME SameStock
        PROVE  NothingOversold'
    BY <1>2 DEF SameStock, NothingOversold
  <1>3. ASSUME NEW q \in Quotes, NEW k \in Keys, Startable(q, k), Reserve(q),
               UNCHANGED onHand
        PROVE  NothingOversold'
    <2>1. ASSUME NEW v \in Tracked
          PROVE  reserved'[v] <= onHand'[v]
      <3>1. Units(q, v) \in Nat /\ Units(q, v) = quote[q].items[v]
        BY <1>1, <1>3, UnitsType, ShopFacts DEF Startable, Units
      <3>2. onHand[v] - reserved[v] >= Units(q, v)
        BY <1>1, <1>3, <3>1 DEF Reserve, Available
      <3>3. reserved'[v] = reserved[v] + Units(q, v) /\ onHand'[v] = onHand[v]
        BY <1>1, <1>3 DEF Reserve
      <3>. QED
        BY <1>1, <3>1, <3>2, <3>3
    <2>. QED
      BY <2>1 DEF NothingOversold
  <1>4. ASSUME NEW w \in Workers, ReleaseUnpaidAttempt(w)
        PROVE  NothingOversold'
    <2> DEFINE x == worker[w].on
    <2>1. CASE UNCHANGED reserved
      BY <1>2, <1>4, <2>1 DEF ReleaseUnpaidAttempt, SameStock
    <2>2. CASE reserved' = [v \in Variants |-> Lower(reserved[v], Units(x, v))]
      <3>1. x \in Quotes /\ quote[x] # NoQuote /\ quote[x] \in QuoteRows
        BY <1>4, Busy, ShopFacts DEF ReleaseUnpaidAttempt
      <3>2. ASSUME NEW v \in Tracked
            PROVE  reserved'[v] <= onHand'[v]
        <4>1. Units(x, v) \in Nat
          BY <1>1, <3>1, UnitsType
        <4>2. reserved'[v] <= reserved[v]
          BY <1>1, <2>2, <4>1 DEF Lower
        <4>3. onHand' = onHand /\ reserved[v] <= onHand[v]
          BY <1>4 DEF ReleaseUnpaidAttempt, NothingOversold
        <4>4. reserved'[v] \in Nat
          BY <1>1, <2>2, <4>1 DEF Lower
        <4>. QED
          BY <1>1, <4>2, <4>3, <4>4
      <3>. QED
        BY <3>2 DEF NothingOversold
    <2>. QED
      BY <1>4, <2>1, <2>2 DEF ReleaseUnpaidAttempt
  <1>5. ASSUME NEW w \in Workers, Work(w)
        PROVE  NothingOversold'
    <2>1. ReleaseUnpaidAttempt(w) \/ SameStock
      BY <1>5 DEF Work, RefuseToCreate, DispatchCreate, CreateCheckoutSession,
         SaveProviderSession, ReconcileWithoutSession, RetrieveCheckoutSession,
         VerifyPaymentIntent, ExpireCheckoutSession, FinishReconcile,
         PlacePaidOnlineOrder, RecordProviderFailure, stockVars, SameStock
    <2>. QED
      BY <1>2, <1>4, <2>1
  <1>6. CASE Shopping
    <2>1. \/ SameStock
          \/ \E q \in Quotes, k \in Keys :
                Startable(q, k) /\ Reserve(q) /\ UNCHANGED onHand
      BY <1>6 DEF Shopping, PutItem, RemoveItem, DeleteCart, CreateQuote,
         StartCashOnDelivery, StartOnline, CancelAttempt, ReadAttempt, Pay,
         stockVars, SameStock
    <2>. QED
      BY <1>2, <1>3, <2>1
  <1>7. CASE Merchant
    <2>1. ASSUME NEW v \in Variants, NEW n \in 0..MaxStock, SetOnHand(v, n)
          PROVE  NothingOversold'
      BY <1>1, <2>1 DEF SetOnHand, NothingOversold
    <2>2. ASSUME NEW o \in Offers \cup {NoOffer}, ChangeOffer(o)
          PROVE  NothingOversold'
      BY <1>2, <2>2 DEF ChangeOffer, stockVars, SameStock
    <2>. QED
      BY <1>7, <2>1, <2>2 DEF Merchant
  <1>8. CASE Working
    <2>1. (\E w \in Workers : Work(w)) \/ SameStock
      BY <1>8 DEF Working, ProcessOnlineAttempt, ProviderFails, Crash,
         stockVars, SameStock
    <2>. QED
      BY <1>2, <1>5, <2>1
  <1>9. CASE Time
    <2>1. SameStock
      BY <1>9 DEF Time, QuoteExpires, LeaseExpires, RetryComesDue, DispatchAges,
         KeyForgotten, SessionTimesOut, stockVars, SameStock
    <2>. QED
      BY <1>2, <2>1
  <1>. QED
    BY <1>6, <1>7, <1>8, <1>9 DEF Next

\* No unit that is not on hand is ever promised, whatever the merchant, the
\* shoppers and the workers do in between.
THEOREM NeverOversold == Spec => []NothingOversold
  <1>1. Init => NothingOversold
    BY CheckoutAssumption DEF Init, NothingOversold
  <1>2. Consistent /\ NothingOversold /\ [Next]_vars => NothingOversold'
    <2>1. UNCHANGED vars /\ NothingOversold => NothingOversold'
      BY DEF vars, NothingOversold
    <2>. QED
      BY <2>1, StockSteps
  <1>. QED
    BY <1>1, <1>2, Consistency, PTL DEF Spec

-----------------------------------------------------------------------------
(***************************************************************************)
(* Checkout implements Purchase, step by step: the status of the attempt   *)
(* row is the purchase's state, the one Session Stripe holds for it is its *)
(* payment page, and no step moves both.  Besides Consistent the proof     *)
(* needs that an order paid on delivery never has a payment page.          *)
(***************************************************************************)
UnpaidHasNoSession ==
    \A q \in Quotes : order[q] = "unpaid" => session[q][1] = "none"

-----------------------------------------------------------------------------
(* Reading the mapping *)

LEMMA StateOf ==
    ASSUME Consistent, NEW q \in Quotes
    PROVE  /\ PurchaseState[q] = "none" <=> attempt[q].status = "none"
           /\ PurchaseState[q] = "reserved" <=> IsActive(q)
           /\ PurchaseState[q] = "placed" <=> attempt[q].status = "succeeded"
           /\ PurchaseState[q] = "released" <=> attempt[q].status \in Released
  BY ShopFacts DEF PurchaseState, IsActive, Active, Released, Terminal

LEMMA MoneyOf ==
    ASSUME Consistent, NEW q \in Quotes
    PROVE  /\ session[q][1] \in {"none", "open", "paid", "expired"}
           /\ PurchaseMoney[q] = "none" <=> session[q][1] = "none"
           /\ PurchaseMoney[q] = "payable" <=> session[q][1] = "open"
           /\ PurchaseMoney[q] = "paid" <=> session[q][1] = "paid"
           /\ PurchaseMoney[q] = "void" <=> session[q][1] = "expired"
  <1>1. session[q][2] = "none"
    BY DEF Consistent, ProviderAgrees
  <1>2. \A state : InSession(q, state) <=> session[q][1] = state \/ state = "none"
    BY <1>1 DEF InSession, Sessions
  <1>3. session[q][1] \in {"none", "open", "paid", "expired"}
    BY DEF Consistent, TypeOK, ProviderTypes, Sessions
  <1>4. /\ InSession(q, "paid") <=> session[q][1] = "paid"
        /\ InSession(q, "open") <=> session[q][1] = "open"
        /\ InSession(q, "expired") <=> session[q][1] = "expired"
    BY <1>2
  <1>. QED
    BY <1>3, <1>4 DEF PurchaseMoney

\* The state of one purchase is written when one attempt changes its phase.
LEMMA OneStateWritten ==
    ASSUME NEW x \in Quotes,
           \A q \in Quotes \ {x} : attempt'[q].status = attempt[q].status
    PROVE  PurchaseState' = [PurchaseState EXCEPT ![x] = PurchaseState'[x]]
  <1>1. \A q \in Quotes \ {x} : PurchaseState'[q] = PurchaseState[q]
    BY DEF PurchaseState
  <1>2. /\ PurchaseState = [q \in Quotes |-> PurchaseState[q]]
        /\ PurchaseState' = [q \in Quotes |-> PurchaseState'[q]]
    BY DEF PurchaseState
  <1>. QED
    BY <1>1, <1>2

LEMMA OneMoneyWritten ==
    ASSUME NEW x \in Quotes,
           \A q \in Quotes \ {x} : session'[q] = session[q]
    PROVE  PurchaseMoney' = [PurchaseMoney EXCEPT ![x] = PurchaseMoney'[x]]
  <1>1. \A q \in Quotes \ {x} : PurchaseMoney'[q] = PurchaseMoney[q]
    BY DEF PurchaseMoney, InSession
  <1>2. /\ PurchaseMoney = [q \in Quotes |-> PurchaseMoney[q]]
        /\ PurchaseMoney' = [q \in Quotes |-> PurchaseMoney'[q]]
    BY DEF PurchaseMoney
  <1>. QED
    BY <1>1, <1>2

LEMMA StateKept ==
    ASSUME \A q \in Quotes : SamePhase(q)
    PROVE  UNCHANGED PurchaseState
  BY DEF PurchaseState, SamePhase, StatusKept, IsActive, Active, Released

LEMMA MoneyKept ==
    ASSUME UNCHANGED session
    PROVE  UNCHANGED PurchaseMoney
  BY DEF PurchaseMoney, InSession

PStep == [P!Next]_<<PurchaseState, PurchaseMoney>>

\* Steps that neither end or begin an attempt nor touch its Session.
LEMMA QuietStep ==
    ASSUME UNCHANGED session, \A q \in Quotes : SamePhase(q)
    PROVE  PStep
  BY StateKept, MoneyKept DEF PStep

-----------------------------------------------------------------------------
(* The steps that move the state *)

\* A step that writes the status of x alone is a step of Purchase if it is
\* one of the four that move its state.
LEMMA StateStep ==
    ASSUME Consistent, Consistent', UNCHANGED session, NEW x \in Quotes,
           \A q \in Quotes \ {x} : attempt'[q] = attempt[q],
           \/ attempt[x].status = "none" /\ ~(attempt'[x].status \in {"none"} \cup Released)
           \/ IsActive(x) /\ attempt'[x].status = "succeeded" /\ session[x][1] = "paid"
           \/ IsActive(x) /\ attempt'[x].status \in Released
                          /\ session[x][1] \in {"none", "expired"}
    PROVE  PStep
  <1>1. /\ PurchaseState' = [PurchaseState EXCEPT ![x] = PurchaseState'[x]]
        /\ UNCHANGED PurchaseMoney
    BY OneStateWritten, MoneyKept
  <1>2. CASE attempt[x].status = "none" /\ attempt'[x].status = "succeeded"
    <2>1. P!PlaceUnpaid(x)
      BY <1>1, <1>2, StateOf DEF P!PlaceUnpaid, PurchaseState, Active
    <2>. QED
      BY <2>1 DEF PStep, P!Next
  <1>3. CASE attempt[x].status = "none" /\ IsActive(x)'
    <2>1. P!Reserve(x)
      BY <1>1, <1>3, StateOf DEF P!Reserve, PurchaseState, IsActive, Active
    <2>. QED
      BY <2>1 DEF PStep, P!Next
  <1>4. CASE IsActive(x) /\ attempt'[x].status = "succeeded" /\ session[x][1] = "paid"
    <2>1. P!PlacePaid(x)
      BY <1>1, <1>4, StateOf, MoneyOf DEF P!PlacePaid, PurchaseState, Active
    <2>. QED
      BY <2>1 DEF PStep, P!Next
  <1>5. CASE IsActive(x) /\ attempt'[x].status \in Released
                         /\ session[x][1] \in {"none", "expired"}
    <2>1. PurchaseState'[x] = "released"
      BY <1>5 DEF PurchaseState, Active, Released
    <2>2. P!Release(x)
      BY <1>1, <1>5, <2>1, StateOf, MoneyOf DEF P!Release
    <2>. QED
      BY <2>2 DEF PStep, P!Next
  <1>6. attempt'[x].status \in {"none"} \cup Active \cup Released \cup {"succeeded"}
    BY DEF Consistent, TypeOK, AttemptRows, Terminal
  <1>. QED
    BY <1>2, <1>3, <1>4, <1>5, <1>6 DEF IsActive

\* The two starts.
LEMMA StartStep ==
    ASSUME Consistent, Consistent', NEW x \in Quotes, NEW k \in Keys,
           \/ StartCashOnDelivery(x, k)
           \/ \E urls \in BOOLEAN : StartOnline(x, k, urls)
    PROVE  PStep
  <1>1. /\ UNCHANGED session
        /\ \A q \in Quotes \ {x} : attempt'[q] = attempt[q]
        /\ attempt'[x].status \in {"succeeded", "creating"}
    BY DEF StartCashOnDelivery, StartOnline, providerVars, Consistent, TypeOK,
           NoAttempt
  <1>2. attempt[x].status = "none"
    BY StartFacts DEF StartCashOnDelivery, StartOnline, Started
  <1>. QED
    BY <1>1, <1>2, StateStep DEF Released

LEMMA ReleaseStep ==
    ASSUME Consistent, Consistent', NEW w \in Workers, ReleaseUnpaidAttempt(w)
    PROVE  PStep
  <1> DEFINE x == worker[w].on
  <1>1. UNCHANGED session
    BY DEF ReleaseUnpaidAttempt, providerVars
  <1>2. CASE UNCHANGED attempt
    BY <1>1, <1>2, QuietStep DEF SamePhase, StatusKept
  <1>3. CASE ~UNCHANGED attempt
    <2>1. /\ x \in Quotes /\ IsActive(x) /\ attempt'[x].status \in Released
          /\ \A q \in Quotes \ {x} : attempt'[q] = attempt[q]
      BY <1>3, ReleaseKinds
    <2>2. Unsendable(x) \/ session[x][1] = "expired"
      BY DEF ReleaseUnpaidAttempt, Consistent, WorkerAgrees
    <2>3. session[x][1] \in {"none", "expired"}
      BY <2>1, <2>2 DEF Unsendable, Consistent, ProviderAgrees
    <2>. HIDE DEF x
    <2>. QED
      BY <1>1, <2>1, <2>3, StateStep
  <1>. QED
    BY <1>2, <1>3

LEMMA PlaceStep ==
    ASSUME Consistent, Consistent', NEW w \in Workers, PlacePaidOnlineOrder(w)
    PROVE  PStep
  <1> DEFINE x == worker[w].on
  <1>1. UNCHANGED session
    BY DEF PlacePaidOnlineOrder, providerVars
  <1>2. CASE \A q \in Quotes : StatusKept(q)
    BY <1>1, <1>2, QuietStep DEF SamePhase
  <1>3. CASE ~\A q \in Quotes : StatusKept(q)
    <2>1. /\ x \in Quotes /\ IsActive(x) /\ attempt'[x].status = "succeeded"
          /\ \A q \in Quotes \ {x} : attempt'[q] = attempt[q]
      BY <1>3, PlaceKinds
    <2>2. session[x][1] = "paid"
      BY DEF PlacePaidOnlineOrder, Consistent, WorkerAgrees
    <2>. HIDE DEF x
    <2>. QED
      BY <1>1, <2>1, <2>2, StateStep
  <1>. QED
    BY <1>2, <1>3

-----------------------------------------------------------------------------
(* The steps that move the money *)

\* A Session that is open belongs to a running attempt.
LEMMA OpenIsActive ==
    ASSUME Consistent, UnpaidHasNoSession, NEW x \in Quotes,
           session[x][1] = "open"
    PROVE  IsActive(x)
  <1>1. RowsAgree(x) /\ ProviderAgrees(x)
    BY DEF Consistent
  <1>2. Started(x)
    BY <1>1 DEF RowsAgree, ProviderAgrees, NoAttempt
  <1>3. attempt[x].status \notin Released
    BY <1>1 DEF ProviderAgrees, Unsendable
  <1>4. attempt[x].status # "succeeded"
    BY <1>1 DEF RowsAgree, ProviderAgrees, UnpaidHasNoSession
  <1>. QED
    BY <1>2, <1>3, <1>4, Phases DEF Terminal

\* The open page of x is paid or goes void.
LEMMA CloseStep ==
    ASSUME Consistent, Consistent', UnpaidHasNoSession, UNCHANGED attempt,
           NEW x \in Quotes, session[x][1] = "open",
           session'[x][1] \in {"paid", "expired"},
           \A q \in Quotes \ {x} : session'[q] = session[q]
    PROVE  PStep
  <1>1. /\ PurchaseMoney' = [PurchaseMoney EXCEPT ![x] = PurchaseMoney'[x]]
        /\ UNCHANGED PurchaseState
    BY OneMoneyWritten, StateKept DEF SamePhase, StatusKept
  <1>2. PurchaseState[x] = "reserved" /\ PurchaseMoney[x] = "payable"
    BY OpenIsActive, StateOf, MoneyOf
  <1>3. PurchaseMoney'[x] \in {"paid", "void"}
    <2>1. session'[x][2] = "none"
      BY DEF Consistent, ProviderAgrees
    <2>2. \A state : InSession(x, state)' <=> session'[x][1] = state \/ state = "none"
      BY <2>1 DEF InSession, Sessions
    <2>3. /\ InSession(x, "paid")' <=> session'[x][1] = "paid"
          /\ InSession(x, "open")' <=> session'[x][1] = "open"
          /\ InSession(x, "expired")' <=> session'[x][1] = "expired"
      BY <2>2
    <2>. QED
      BY <2>3 DEF PurchaseMoney
  <1>4. PICK end \in {"paid", "void"} : end = PurchaseMoney'[x]
    BY <1>3
  <1>5. P!ClosePayment(x, end)
    BY <1>1, <1>2, <1>4 DEF P!ClosePayment
  <1>. QED
    BY <1>5 DEF PStep, P!Next

\* The only Session of x opens.
LEMMA OpenStep ==
    ASSUME Consistent, Consistent', UNCHANGED attempt,
           NEW x \in Quotes, IsActive(x), session[x][1] = "none",
           session'[x][1] = "open",
           \A q \in Quotes \ {x} : session'[q] = session[q]
    PROVE  PStep
  <1>1. /\ PurchaseMoney' = [PurchaseMoney EXCEPT ![x] = PurchaseMoney'[x]]
        /\ UNCHANGED PurchaseState
    BY OneMoneyWritten, StateKept DEF SamePhase, StatusKept
  <1>2. PurchaseState[x] = "reserved" /\ PurchaseMoney[x] = "none"
    BY StateOf, MoneyOf
  <1>3. PurchaseMoney'[x] = "payable"
    <2>1. session'[x][2] = "none"
      BY DEF Consistent, ProviderAgrees
    <2>2. \A state : InSession(x, state)' <=> session'[x][1] = state \/ state = "none"
      BY <2>1 DEF InSession, Sessions
    <2>3. /\ InSession(x, "paid")' <=> session'[x][1] = "paid"
          /\ InSession(x, "open")' <=> session'[x][1] = "open"
      BY <2>2
    <2>. QED
      BY <2>3 DEF PurchaseMoney
  <1>4. P!OpenPayment(x)
    BY <1>1, <1>2, <1>3 DEF P!OpenPayment
  <1>. QED
    BY <1>4 DEF PStep, P!Next

-----------------------------------------------------------------------------
(* Every step *)

LEMMA PayStep ==
    ASSUME Consistent, Consistent', UnpaidHasNoSession, NEW x \in Quotes, Pay(x)
    PROVE  PStep
  <1>1. /\ session[x][1] = "open"
        /\ session' = [session EXCEPT ![x][1] = "paid"]
        /\ UNCHANGED attempt
    BY DEF Pay, Consistent, ProviderAgrees
  <1>. QED
    BY <1>1, SessionType, CloseStep

LEMMA TimeOutStep ==
    ASSUME Consistent, Consistent', UnpaidHasNoSession, NEW x \in Quotes,
           NEW i \in Sessions, SessionTimesOut(x, i)
    PROVE  PStep
  <1>1. i = 1
    BY DEF SessionTimesOut, Sessions, Consistent, ProviderAgrees
  <1>2. /\ session[x][1] = "open"
        /\ session' = [session EXCEPT ![x][1] = "expired"]
        /\ UNCHANGED attempt
    BY <1>1 DEF SessionTimesOut
  <1>. QED
    BY <1>2, SessionType, CloseStep

LEMMA ExpireStep ==
    ASSUME Consistent, Consistent', UnpaidHasNoSession, NEW w \in Workers,
           ExpireCheckoutSession(w)
    PROVE  PStep
  <1> DEFINE x == worker[w].on
  <1>1. UNCHANGED attempt /\ x \in Quotes /\ worker[w].seen.session = 1
    BY Busy DEF ExpireCheckoutSession, Consistent, WorkerAgrees
  <1>2. CASE session[x][1] = "open"
    <2>1. session' = [session EXCEPT ![x][1] = "expired"]
      BY <1>1, <1>2 DEF ExpireCheckoutSession
    <2>. HIDE DEF x
    <2>. QED
      BY <1>1, <1>2, <2>1, SessionType, CloseStep
  <1>3. CASE session[x][1] # "open"
    <2>1. UNCHANGED session
      BY <1>1, <1>3 DEF ExpireCheckoutSession
    <2>. QED
      BY <1>1, <2>1, QuietStep DEF SamePhase, StatusKept
  <1>. QED
    BY <1>2, <1>3

LEMMA CreateSessionStep ==
    ASSUME Consistent, Consistent', UnpaidHasNoSession, NEW w \in Workers,
           CreateCheckoutSession(w)
    PROVE  PStep
  <1> DEFINE x == worker[w].on
  <1>1. /\ UNCHANGED attempt /\ worker[w].step = "call"
        /\ x \in Quotes /\ Started(x)
        /\ WorkerAgrees(w) /\ RowsAgree(x) /\ ProviderAgrees(x)
    BY Busy DEF CreateCheckoutSession, Consistent
  <1>2. CASE UNCHANGED session
    BY <1>1, <1>2, QuietStep DEF SamePhase, StatusKept
  <1>3. CASE ~UNCHANGED session
    <2>1. /\ session[x][1] = "none"
          /\ session' = [session EXCEPT ![x][1] = "open"]
      BY <1>3, SessionAnswer
    <2>2. attempt[x].dispatched # "no" /\ quote[x].method = "online"
      BY <1>1 DEF WorkerAgrees
    <2>3. attempt[x].status \notin Terminal
      BY <1>1, <2>1, <2>2
         DEF RowsAgree, ProviderAgrees, Unsendable, Terminal
    <2>4. IsActive(x)
      BY <1>1, <2>3, Phases
    <2>. HIDE DEF x
    <2>. QED
      BY <1>1, <2>1, <2>4, SessionType, OpenStep
  <1>. QED
    BY <1>2, <1>3

LEMMA WorkStep ==
    ASSUME Consistent, Consistent', UnpaidHasNoSession, NEW w \in Workers, Work(w)
    PROVE  PStep
  <1>1. CASE ReleaseUnpaidAttempt(w) \/ PlacePaidOnlineOrder(w)
    BY <1>1, ReleaseStep, PlaceStep
  <1>2. CASE CreateCheckoutSession(w) \/ ExpireCheckoutSession(w)
    BY <1>2, CreateSessionStep, ExpireStep
  <1>3. CASE /\ ~ReleaseUnpaidAttempt(w) /\ ~PlacePaidOnlineOrder(w)
             /\ ~CreateCheckoutSession(w) /\ ~ExpireCheckoutSession(w)
    <2>1. UNCHANGED session
      BY <1>3 DEF Work, RefuseToCreate, DispatchCreate, SaveProviderSession,
         ReconcileWithoutSession, RetrieveCheckoutSession, VerifyPaymentIntent,
         FinishReconcile, RecordProviderFailure, providerVars
    <2>. QED
      BY <1>3, <2>1, WorkKeepsPhases, QuietStep
  <1>. QED
    BY <1>1, <1>2, <1>3

LEMMA ShoppingStep ==
    ASSUME Consistent, Consistent', UnpaidHasNoSession, Shopping
    PROVE  PStep
  <1>1. ASSUME UNCHANGED <<attempt, session>>
        PROVE  PStep
    BY <1>1, QuietStep DEF SamePhase, StatusKept
  <1>2. ASSUME NEW s \in Shoppers, NEW v \in Variants
        PROVE  /\ \A n \in 1..MaxQty : PutItem(s, v, n) => PStep
               /\ RemoveItem(s, v) => PStep
    BY <1>1 DEF PutItem, RemoveItem, providerVars
  <1>3. ASSUME NEW q \in Quotes
        PROVE  /\ \A s \in Shoppers, m \in {"cod", "online"} :
                     CreateQuote(q, s, m) => PStep
               /\ ReadAttempt(q) => PStep
    BY <1>1 DEF CreateQuote, ReadAttempt, providerVars
  <1>4. ASSUME NEW s \in Shoppers, DeleteCart(s)
        PROVE  PStep
    BY <1>1, <1>4 DEF DeleteCart, providerVars
  <1>5. ASSUME NEW w \in Workers, NEW q \in Quotes, CancelAttempt(w, q)
        PROVE  PStep
    BY <1>5, CancelKeepsPhases, QuietStep DEF CancelAttempt, providerVars
  <1>6. ASSUME NEW q \in Quotes, NEW k \in Keys,
               \/ StartCashOnDelivery(q, k)
               \/ \E urls \in BOOLEAN : StartOnline(q, k, urls)
        PROVE  PStep
    BY <1>6, StartStep
  <1>7. ASSUME NEW q \in Quotes, Pay(q)
        PROVE  PStep
    BY <1>7, PayStep
  <1>. QED
    BY <1>2, <1>3, <1>4, <1>5, <1>6, <1>7 DEF Shopping

LEMMA OtherStep ==
    ASSUME Consistent, Consistent', UnpaidHasNoSession,
           Merchant \/ Working \/ Time \/ UNCHANGED vars
    PROVE  PStep
  <1>1. CASE Merchant
    <2>1. UNCHANGED <<attempt, session>>
      BY <1>1 DEF Merchant, SetOnHand, ChangeOffer, providerVars
    <2>. QED
      BY <2>1, QuietStep DEF SamePhase, StatusKept
  <1>2. CASE Working
    <2>1. CASE \E w \in Workers : Work(w)
      BY <2>1, WorkStep
    <2>2. CASE ~\E w \in Workers : Work(w)
      <3>1. UNCHANGED session
        BY <1>2, <2>2 DEF Working, ProcessOnlineAttempt, ProviderFails, Crash,
                          providerVars
      <3>. QED
        BY <1>2, <2>2, <3>1, WorkingKeepsPhases, QuietStep
    <2>. QED
      BY <2>1, <2>2
  <1>3. CASE Time
    <2>1. CASE \E q \in Quotes, i \in Sessions : SessionTimesOut(q, i)
      BY <2>1, TimeOutStep
    <2>2. CASE ~\E q \in Quotes, i \in Sessions : SessionTimesOut(q, i)
      <3>1. UNCHANGED session
        BY <1>3, <2>2 DEF Time, QuoteExpires, LeaseExpires, RetryComesDue,
                          DispatchAges, KeyForgotten, providerVars
      <3>. QED
        BY <1>3, <3>1, TimeKeepsPhases, QuietStep
    <2>. QED
      BY <2>1, <2>2
  <1>4. CASE UNCHANGED vars
    BY <1>4, QuietStep DEF vars, SamePhase, StatusKept
  <1>. QED
    BY <1>1, <1>2, <1>3, <1>4

-----------------------------------------------------------------------------
(* An order paid on delivery has no payment page *)

LEMMA UnpaidStays ==
    ASSUME Consistent, UnpaidHasNoSession, Next
    PROVE  UnpaidHasNoSession'
  <1>1. ASSUME NEW q \in Quotes, order'[q] = "unpaid"
        PROVE  session'[q][1] = "none"
    <2>1. CASE \E k \in Keys : StartCashOnDelivery(q, k)
      <3>1. session' = session /\ attempt[q] = NoAttempt /\ ProviderAgrees(q)
        BY <2>1, StartFacts DEF StartCashOnDelivery, providerVars, Consistent
      <3>. QED
        BY <3>1 DEF ProviderAgrees, NoAttempt
    <2>2. CASE ~\E k \in Keys : StartCashOnDelivery(q, k)
      <3>1. order[q] = "unpaid"
        <4>1. order \in [Quotes -> {"none", "unpaid", "paid"}]
          BY DEF Consistent, TypeOK, StockTypes
        <4>2. ASSUME NEW x \in Quotes, NEW k \in Keys, StartCashOnDelivery(x, k)
              PROVE  order[q] = "unpaid"
          BY <1>1, <2>2, <4>1, <4>2 DEF StartCashOnDelivery
        <4>3. ASSUME NEW w \in Workers, PlacePaidOnlineOrder(w)
              PROVE  order[q] = "unpaid"
          BY <1>1, <4>1, <4>3 DEF PlacePaidOnlineOrder
        <4>4. ASSUME UNCHANGED order
              PROVE  order[q] = "unpaid"
          BY <1>1, <4>4
        <4>5. CASE Shopping
          <5>1. UNCHANGED order \/ \E x \in Quotes, k \in Keys : StartCashOnDelivery(x, k)
            BY <4>5 DEF Shopping, PutItem, RemoveItem, DeleteCart, CreateQuote,
               StartOnline, CancelAttempt, ReadAttempt, Pay, stockVars
          <5>. QED
            BY <4>2, <4>4, <5>1
        <4>6. CASE Working
          <5>1. UNCHANGED order \/ \E w \in Workers : PlacePaidOnlineOrder(w)
            BY <4>6 DEF Working, ProcessOnlineAttempt, Work, RefuseToCreate,
               DispatchCreate, CreateCheckoutSession, SaveProviderSession,
               ReconcileWithoutSession, RetrieveCheckoutSession,
               VerifyPaymentIntent, ExpireCheckoutSession, FinishReconcile,
               ReleaseUnpaidAttempt, RecordProviderFailure, ProviderFails,
               Crash, stockVars
          <5>. QED
            BY <4>3, <4>4, <5>1
        <4>7. CASE Merchant \/ Time
          BY <4>4, <4>7 DEF Merchant, SetOnHand, ChangeOffer, Time, QuoteExpires,
             LeaseExpires, RetryComesDue, DispatchAges, KeyForgotten,
             SessionTimesOut, stockVars
        <4>. QED
          BY <4>5, <4>6, <4>7 DEF Next
      <3>2. session[q][1] = "none" /\ session[q][2] = "none" /\ RowsAgree(q)
        BY <3>1 DEF UnpaidHasNoSession, Consistent, ProviderAgrees
      <3>3. quote[q].method = "cod"
        <4>1. attempt[q].status = "succeeded"
          BY <3>1, <3>2, Phases DEF RowsAgree, Terminal
        <4>. QED
          BY <3>1, <3>2, <4>1 DEF RowsAgree
      <3>4. ASSUME NEW w \in Workers, CreateCheckoutSession(w)
            PROVE  session'[q] = session[q]
        <4>1. worker[w].on # q
          BY <3>3, <3>4 DEF CreateCheckoutSession, Consistent, WorkerAgrees
        <4>2. worker[w].on \in Quotes
          BY <3>4, Busy DEF CreateCheckoutSession
        <4>3. CASE UNCHANGED session
          BY <4>3
        <4>4. CASE session' = [session EXCEPT ![worker[w].on][1] = "open"]
          BY <4>1, <4>2, <4>4 DEF Consistent, TypeOK, ProviderTypes
        <4>. QED
          BY <3>4, <4>3, <4>4, SessionAnswer
      <3>5. ASSUME NEW w \in Workers, ExpireCheckoutSession(w)
            PROVE  session'[q] = session[q]
        <4>1. worker[w].seen.session = 1
          BY <3>5 DEF ExpireCheckoutSession, Consistent, WorkerAgrees
        <4>. QED
          BY <3>2, <3>5, <4>1
             DEF ExpireCheckoutSession, Consistent, TypeOK, ProviderTypes
      <3>6. ASSUME NEW x \in Quotes, Pay(x)
            PROVE  session'[q] = session[q]
        BY <3>2, <3>6 DEF Pay, Consistent, TypeOK, ProviderTypes, ProviderAgrees
      <3>7. ASSUME NEW x \in Quotes, NEW i \in Sessions, SessionTimesOut(x, i)
            PROVE  session'[q] = session[q]
        BY <3>2, <3>7 DEF SessionTimesOut, Consistent, TypeOK, ProviderTypes,
                          Sessions
      <3>8. session'[q] = session[q]
        <4>1. CASE Shopping
          BY <4>1, <3>6 DEF Shopping, PutItem, RemoveItem, DeleteCart,
             CreateQuote, StartCashOnDelivery, StartOnline, CancelAttempt,
             ReadAttempt, providerVars
        <4>2. CASE Working
          BY <4>2, <3>4, <3>5 DEF Working, ProcessOnlineAttempt, Work,
             RefuseToCreate, DispatchCreate, SaveProviderSession,
             ReconcileWithoutSession, RetrieveCheckoutSession,
             VerifyPaymentIntent, FinishReconcile, ReleaseUnpaidAttempt,
             PlacePaidOnlineOrder, RecordProviderFailure, ProviderFails, Crash,
             providerVars
        <4>3. CASE Merchant \/ Time
          BY <4>3, <3>7 DEF Merchant, SetOnHand, ChangeOffer, Time,
             QuoteExpires, LeaseExpires, RetryComesDue, DispatchAges,
             KeyForgotten, providerVars
        <4>. QED
          BY <4>1, <4>2, <4>3 DEF Next
      <3>. QED
        BY <3>2, <3>8
    <2>. QED
      BY <2>1, <2>2
  <1>. QED
    BY <1>1 DEF UnpaidHasNoSession

-----------------------------------------------------------------------------
(* The refinement *)

\* An order paid on delivery never gets a payment page: nothing can be charged
\* for it through Stripe.
THEOREM UnpaidIsNeverCharged == Spec => []UnpaidHasNoSession
  <1>1. Init => UnpaidHasNoSession
    BY DEF Init, UnpaidHasNoSession
  <1>2. Consistent /\ UnpaidHasNoSession /\ [Next]_vars => UnpaidHasNoSession'
    <2>1. UNCHANGED vars /\ UnpaidHasNoSession => UnpaidHasNoSession'
      BY DEF vars, UnpaidHasNoSession
    <2>. QED
      BY <2>1, UnpaidStays
  <1>. QED
    BY <1>1, <1>2, Consistency, PTL DEF Spec

\* Whatever crashes, races and provider failures a checkout goes through, it
\* is one of the simple purchases of Purchase: released only once nothing can
\* be paid, placed online only once it is paid, with one payment page.
THEOREM PurchaseImplemented == Spec => ImplementsPurchase
  <1>1. Init => P!Init
    <2>1. SUFFICES ASSUME Init PROVE P!Init
      OBVIOUS
    <2>2. PurchaseState = [q \in Quotes |-> "none"]
      BY <2>1 DEF Init, PurchaseState, NoAttempt, Active
    <2>3. \A q \in Quotes, i \in Sessions : session[q][i] = "none"
      BY <2>1 DEF Init
    <2>4. \A q \in Quotes : /\ ~InSession(q, "paid") /\ ~InSession(q, "open")
                            /\ ~InSession(q, "expired")
      BY <2>3 DEF InSession
    <2>5. PurchaseMoney = [q \in Quotes |-> "none"]
      BY <2>4 DEF PurchaseMoney
    <2>. QED
      BY <2>2, <2>5 DEF P!Init
  <1>2. /\ Consistent /\ Consistent' /\ UnpaidHasNoSession
        /\ [Next]_vars
        => [P!Next]_<<PurchaseState, PurchaseMoney>>
    BY ShoppingStep, OtherStep DEF Next, PStep
  <1>. QED
    BY <1>1, <1>2, Consistency, UnpaidIsNeverCharged, PTL
       DEF Spec, ImplementsPurchase, P!Spec

-----------------------------------------------------------------------------
(* Stock                                                                   *)
(*                                                                         *)
(* The units product_variants.reserved counts are those of the             *)
(* reservations that claim them.  The sum over the claims is not computed  *)
(* here: a start adds one term to it, a release takes one away, and every  *)
(* other step leaves the claims and their terms as they are.               *)

Claims == {q \in Quotes : hold[q] \in {"held", "consumed"}}

Taken(v) == [q \in Quotes |-> Units(q, v)]

HoldsAreStarted == \A q \in Quotes : hold[q] # "none" => Started(q)

\* The inductive invariant, on top of Consistent.
StockAgrees ==
    /\ HoldsAreStarted
    /\ IsFiniteSet(Claims)
    /\ \A v \in Tracked : reserved[v] = Total(Taken(v), Claims)

-----------------------------------------------------------------------------
(* The sum the property names *)

\* MapThenSumSet adds up the units of the claims as Total does.
LEMMA SumOfClaims ==
    ASSUME NEW v, IsFiniteSet(Claims)
    PROVE  MapThenSumSet(LAMBDA q : Units(q, v), Claims)
              = Total(Taken(v), Claims)
  <1> DEFINE Term(g, s) == Units(CHOOSE x \in s : TRUE, v)
                              + g[s \ {CHOOSE x \in s : TRUE}]
             Fold(g) == g = [s \in SUBSET Claims |-> IF s = {} THEN 0
                                                     ELSE Term(g, s)]
             f == CHOOSE g : Fold(g)
  <1>1. MapThenSumSet(LAMBDA q : Units(q, v), Claims) = f[Claims]
    BY DEF MapThenSumSet, MapThenFoldSet
  <1>2. \A x \in Claims : Units(x, v) = Taken(v)[x]
    BY DEF Claims, Taken
  <1>3. ASSUME NEW g
        PROVE  Fold(g) <=> Sums(g, Taken(v), Claims)
    <2>1. \A s \in SUBSET Claims : s # {} =>
             Term(g, s) = Taken(v)[First(s)] + g[s \ {First(s)}]
      <3>1. SUFFICES ASSUME NEW s \in SUBSET Claims, s # {}
                     PROVE  Units(First(s), v) = Taken(v)[First(s)]
        BY DEF First
      <3>2. First(s) \in Claims
        BY <3>1, FirstIsIn
      <3>. QED
        BY <1>2, <3>2
    <2>. HIDE DEF Term
    <2>2. [s \in SUBSET Claims |-> IF s = {} THEN 0 ELSE Term(g, s)]
          = [s \in SUBSET Claims |-> IF s = {} THEN 0
                ELSE Taken(v)[First(s)] + g[s \ {First(s)}]]
      BY <2>1
    <2>. QED
      BY <2>2 DEF Sums
  <1>. HIDE DEF Fold
  <1>4. \E g : Fold(g)
    <2>1. PICK g : Sums(g, Taken(v), Claims)
      BY SumsExist
    <2>. QED
      BY <1>3, <2>1
  <1>5. Fold(f)
    BY <1>4
  <1>6. Sums(f, Taken(v), Claims)
    BY <1>3, <1>5
  <1>. HIDE DEF f
  <1>7. f[Claims] = Total(Taken(v), Claims)
    BY <1>6, TotalOf
  <1>. QED
    BY <1>1, <1>7

-----------------------------------------------------------------------------
(* What the rows say of the claims *)

LEMMA ClaimFacts ==
    ASSUME Consistent, StockAgrees
    PROVE  /\ Tracked \subseteq Variants
           /\ reserved \in [Variants -> Nat] /\ hold \in
                 [Quotes -> {"none", "held", "consumed", "released"}]
           /\ \A q \in Claims : q \in Quotes /\ Started(q) /\ quote[q] # NoQuote
           /\ \A q \in Quotes, v \in Variants :
                 quote[q] # NoQuote => Units(q, v) \in Nat
           /\ \A v \in Tracked, q \in Claims : Taken(v)[q] \in Nat
  <1>1. /\ Tracked \subseteq Variants /\ reserved \in [Variants -> Nat]
        /\ hold \in [Quotes -> {"none", "held", "consumed", "released"}]
    BY CheckoutAssumption DEF Consistent, TypeOK, StockTypes
  <1>2. \A q \in Claims : q \in Quotes /\ Started(q) /\ quote[q] # NoQuote
    BY ShopFacts DEF Claims, StockAgrees, HoldsAreStarted
  <1>3. \A q \in Quotes, v \in Variants :
           quote[q] # NoQuote => Units(q, v) \in Nat
    BY ShopFacts, UnitsType
  <1>. QED
    BY <1>1, <1>2, <1>3 DEF Taken

\* A started attempt stays one.
StaysStarted == \A q \in Quotes : Started(q) => Started(q)'

SameItems(q) == quote'[q].items = quote[q].items

\* Steps that touch no counter, no claim and no line a claim was made for.
LEMMA ClaimsUntouched ==
    ASSUME Consistent, StockAgrees, UNCHANGED reserved, Claims' = Claims,
           \A q \in Claims : SameItems(q), HoldsAreStarted'
    PROVE  StockAgrees'
  <1>1. IsFiniteSet(Claims) /\ Claims \subseteq Quotes
    BY DEF StockAgrees, Claims
  <1>2. ASSUME NEW v \in Tracked
        PROVE  Total(Taken(v)', Claims) = Total(Taken(v), Claims)
    <2>1. \A q \in Claims : Taken(v)'[q] = Taken(v)[q]
      BY <1>1 DEF Taken, Units, SameItems
    <2>. QED
      BY <1>1, <2>1, TotalSame
  <1>. QED
    BY <1>1, <1>2 DEF StockAgrees

LEMMA HoldsUntouched ==
    ASSUME Consistent, StockAgrees, UNCHANGED <<reserved, hold>>,
           \A q \in Quotes : Started(q) => SameItems(q), StaysStarted
    PROVE  StockAgrees'
  <1>1. Claims' = Claims
    BY DEF Claims
  <1>2. \A q \in Claims : SameItems(q)
    BY ClaimFacts
  <1>3. HoldsAreStarted'
    BY DEF StockAgrees, HoldsAreStarted, StaysStarted
  <1>. QED
    BY <1>1, <1>2, <1>3, ClaimsUntouched

\* The reservations of x are made: one more claim, counted once.
LEMMA StartCounts ==
    ASSUME Consistent, StockAgrees, NEW x \in Quotes, NEW k \in Keys,
           Startable(x, k), Reserve(x), RecordStart(x, k),
           Started(x)', \A q \in Quotes \ {x} : attempt'[q] = attempt[q]
    PROVE  StockAgrees'
  <1>1. \A q \in Quotes : SameItems(q)
    BY RecordStartKeepsPricing DEF SamePricing, SameItems
  <1>2. ~Started(x) /\ quote[x] # NoQuote
    BY DEF Startable, Consistent, RowsAgree
  <1>3. x \notin Claims /\ hold[x] = "none"
    BY <1>2 DEF StockAgrees, HoldsAreStarted, Claims
  <1>4. /\ hold' = [hold EXCEPT ![x] = "held"]
        /\ hold \in [Quotes -> {"none", "held", "consumed", "released"}]
    BY ClaimFacts DEF Reserve
  <1>5. Claims' = Claims \cup {x}
    BY <1>4 DEF Claims
  <1>6. HoldsAreStarted'
    BY <1>4 DEF StockAgrees, HoldsAreStarted, Started
  <1>7. IsFiniteSet(Claims) /\ IsFiniteSet(Claims \cup {x})
    BY FS_AddElement DEF StockAgrees
  <1>8. ASSUME NEW v \in Tracked
        PROVE  reserved'[v] = Total(Taken(v)', Claims \cup {x})
    <2>1. \A q \in Claims \cup {x} :
             Taken(v)'[q] = Taken(v)[q] /\ Taken(v)[q] \in Nat
      <3>1. \A q \in Quotes : Taken(v)'[q] = Taken(v)[q]
        BY <1>1 DEF Taken, Units, SameItems
      <3>2. Taken(v)[x] \in Nat
        BY <1>2, ClaimFacts DEF Taken
      <3>. QED
        BY <3>1, <3>2, ClaimFacts
    <2>2. Total(Taken(v)', Claims \cup {x}) = Total(Taken(v), Claims \cup {x})
      BY <1>7, <2>1, TotalSame
    <2>3. Total(Taken(v), Claims \cup {x})
             = Total(Taken(v), Claims) + Taken(v)[x]
      BY <1>3, <1>7, <2>1, TotalAdd
    <2>4. reserved'[v] = reserved[v] + Units(x, v)
      BY ClaimFacts DEF Reserve
    <2>5. Taken(v)[x] = Units(x, v) /\ reserved[v] = Total(Taken(v), Claims)
      BY DEF Taken, StockAgrees
    <2>. QED
      BY <2>2, <2>3, <2>4, <2>5
  <1>. QED
    BY <1>5, <1>6, <1>7, <1>8 DEF StockAgrees

\* A running attempt is released: its claim goes, with exactly its units.
LEMMA ReleaseCounts ==
    ASSUME Consistent, StockAgrees, NEW x \in Quotes, IsActive(x),
           reserved' = [v \in Variants |-> Lower(reserved[v], Units(x, v))],
           hold' = [hold EXCEPT ![x] = "released"],
           UNCHANGED quote, StaysStarted
    PROVE  StockAgrees'
  <1>1. x \in Claims /\ Started(x)
    BY Phases DEF Consistent, RowsAgree, Claims
  <1>2. hold \in [Quotes -> {"none", "held", "consumed", "released"}]
    BY ClaimFacts
  <1>3. Claims' = Claims \ {x}
    BY <1>2 DEF Claims
  <1>4. HoldsAreStarted'
    BY <1>1, <1>2 DEF StockAgrees, HoldsAreStarted, StaysStarted
  <1>5. IsFiniteSet(Claims) /\ IsFiniteSet(Claims \ {x})
    BY FS_RemoveElement DEF StockAgrees
  <1>6. ASSUME NEW v \in Tracked
        PROVE  reserved'[v] = Total(Taken(v)', Claims \ {x})
    <2>1. Taken(v)' = Taken(v)
      BY DEF Taken, Units
    <2>2. \A q \in Claims : Taken(v)[q] \in Nat
      BY ClaimFacts
    <2>3. Total(Taken(v), Claims)
             = Taken(v)[x] + Total(Taken(v), Claims \ {x})
      BY <1>1, <1>5, <2>2, TotalRemove
    <2>4. Total(Taken(v), Claims \ {x}) \in Nat
      BY <1>5, <2>2, TotalType
    <2>5. reserved'[v] = Lower(reserved[v], Taken(v)[x])
      BY ClaimFacts DEF Taken
    <2>6. reserved[v] = Total(Taken(v), Claims) /\ Taken(v)[x] \in Nat
      BY <1>1, <2>2 DEF StockAgrees
    <2>7. reserved'[v] = Total(Taken(v), Claims \ {x})
      BY <2>3, <2>4, <2>5, <2>6 DEF Lower
    <2>. QED
      BY <2>1, <2>7
  <1>. QED
    BY <1>3, <1>4, <1>5, <1>6 DEF StockAgrees

-----------------------------------------------------------------------------
(* The steps *)

LEMMA PhasesStayStarted ==
    ASSUME \A q \in Quotes : SamePhase(q)
    PROVE  StaysStarted
  BY SamePhaseFacts DEF StaysStarted

LEMMA ShoppingCounts ==
    ASSUME Consistent, StockAgrees, Shopping
    PROVE  StockAgrees'
  <1>1. ASSUME NEW x \in Quotes, NEW k \in Keys, StartCashOnDelivery(x, k)
        PROVE  StockAgrees'
    <2>1. /\ attempt'[x].status = "succeeded"
          /\ \A q \in Quotes \ {x} : attempt'[q] = attempt[q]
      BY <1>1 DEF StartCashOnDelivery, Consistent, TypeOK, NoAttempt
    <2>. QED
      BY <1>1, <2>1, StartCounts DEF StartCashOnDelivery, Started
  <1>2. ASSUME NEW x \in Quotes, NEW k \in Keys, NEW urls \in BOOLEAN,
               StartOnline(x, k, urls)
        PROVE  StockAgrees'
    <2>1. /\ attempt'[x].status = "creating"
          /\ \A q \in Quotes \ {x} : attempt'[q] = attempt[q]
      BY <1>2 DEF StartOnline, Consistent, TypeOK, NoAttempt
    <2>. QED
      BY <1>2, <2>1, StartCounts DEF StartOnline, Started
  <1>3. ASSUME NEW x \in Quotes, NEW s \in Shoppers,
               NEW m \in {"cod", "online"}, CreateQuote(x, s, m)
        PROVE  StockAgrees'
    <2>1. \A q \in Quotes : Started(q) => q # x
      BY <1>3, ShopFacts DEF CreateQuote
    <2>2. \A q \in Quotes : Started(q) => SameItems(q)
      BY <1>3, <2>1 DEF CreateQuote, SameItems, Consistent, TypeOK, ShopTypes
    <2>3. UNCHANGED <<reserved, hold>> /\ StaysStarted
      BY <1>3 DEF CreateQuote, stockVars, StaysStarted, Started
    <2>. QED
      BY <2>2, <2>3, HoldsUntouched
  <1>4. ASSUME UNCHANGED <<reserved, hold, quote, attempt>>
        PROVE  StockAgrees'
    BY <1>4, HoldsUntouched DEF SameItems, StaysStarted, Started
  <1>5. ASSUME NEW w \in Workers, NEW x \in Quotes, CancelAttempt(w, x)
        PROVE  StockAgrees'
    BY <1>5, CancelKeepsPhases, PhasesStayStarted, HoldsUntouched
       DEF CancelAttempt, shopVars, stockVars, SameItems
  <1>6. ASSUME NEW s \in Shoppers, NEW v \in Variants,
               (\E n \in 1..MaxQty : PutItem(s, v, n)) \/ RemoveItem(s, v)
        PROVE  StockAgrees'
    BY <1>4, <1>6 DEF PutItem, RemoveItem
  <1>7. ASSUME NEW s \in Shoppers, DeleteCart(s)
        PROVE  StockAgrees'
    BY <1>4, <1>7 DEF DeleteCart
  <1>8. ASSUME NEW x \in Quotes, ReadAttempt(x) \/ Pay(x)
        PROVE  StockAgrees'
    BY <1>4, <1>8 DEF ReadAttempt, Pay, shopVars, stockVars
  <1>. QED
    BY <1>1, <1>2, <1>3, <1>5, <1>6, <1>7, <1>8 DEF Shopping

LEMMA ReleaseKeepsStock ==
    ASSUME Consistent, StockAgrees, NEW w \in Workers, ReleaseUnpaidAttempt(w)
    PROVE  StockAgrees'
  <1> DEFINE x == worker[w].on
  <1>1. x \in Quotes /\ Started(x) /\ UNCHANGED quote
    BY Busy DEF ReleaseUnpaidAttempt
  <1>2. CASE Finished(x)
    BY <1>1, <1>2, HoldsUntouched
       DEF ReleaseUnpaidAttempt, SameItems, StaysStarted, Started
  <1>3. CASE ~Finished(x)
    <2>1. IsActive(x) /\ hold[x] = "held"
      BY <1>1, <1>3, Phases DEF Finished, Consistent, RowsAgree
    <2>2. /\ reserved' = [v \in Variants |-> Lower(reserved[v], Units(x, v))]
          /\ hold' = [hold EXCEPT ![x] = "released"]
      BY <1>3, <2>1 DEF ReleaseUnpaidAttempt
    <2>3. StaysStarted
      <3>1. CASE UNCHANGED attempt
        BY <3>1 DEF StaysStarted, Started
      <3>2. CASE ~UNCHANGED attempt
        <4>1. /\ attempt'[x].status \in Released
              /\ \A q \in Quotes \ {x} : attempt'[q] = attempt[q]
          BY <3>2, ReleaseKinds
        <4>. QED
          BY <4>1 DEF StaysStarted, Started, Released
      <3>. QED
        BY <3>1, <3>2
    <2>. QED
      BY <1>1, <2>1, <2>2, <2>3, ReleaseCounts
  <1>. QED
    BY <1>2, <1>3

\* A placed online order turns its claim from held to consumed.
LEMMA PlaceKeepsStock ==
    ASSUME Consistent, StockAgrees, NEW w \in Workers, PlacePaidOnlineOrder(w)
    PROVE  StockAgrees'
  <1> DEFINE x == worker[w].on
  <1>1. x \in Quotes /\ Started(x) /\ UNCHANGED <<quote, reserved>>
    BY Busy DEF PlacePaidOnlineOrder
  <1>2. \/ UNCHANGED hold
        \/ hold' = [hold EXCEPT ![x] = IF hold[x] = "held" THEN "consumed"
                                                           ELSE hold[x]]
    BY DEF PlacePaidOnlineOrder
  <1>3. hold \in [Quotes -> {"none", "held", "consumed", "released"}]
    BY ClaimFacts
  <1>4. Claims' = Claims
    BY <1>1, <1>2, <1>3 DEF Claims
  <1>5. StaysStarted
    BY PlaceKinds DEF StaysStarted, Started, StatusKept
  <1>6. HoldsAreStarted'
    <2>1. \A q \in Quotes : hold'[q] # "none" => hold[q] # "none"
      BY <1>1, <1>2, <1>3
    <2>. QED
      BY <1>5, <2>1 DEF StockAgrees, HoldsAreStarted, StaysStarted
  <1>7. \A q \in Claims : SameItems(q)
    BY <1>1 DEF SameItems
  <1>. QED
    BY <1>1, <1>4, <1>6, <1>7, ClaimsUntouched

LEMMA WorkingCounts ==
    ASSUME Consistent, StockAgrees, Working
    PROVE  StockAgrees'
  <1>1. ASSUME UNCHANGED <<quote, reserved, hold>>,
               \A q \in Quotes : SamePhase(q)
        PROVE  StockAgrees'
    BY <1>1, PhasesStayStarted, HoldsUntouched DEF SameItems
  <1>2. ASSUME NEW w \in Workers, Work(w)
        PROVE  StockAgrees'
    <2>1. CASE ReleaseUnpaidAttempt(w) \/ PlacePaidOnlineOrder(w)
      BY <2>1, ReleaseKeepsStock, PlaceKeepsStock
    <2>2. CASE ~ReleaseUnpaidAttempt(w) /\ ~PlacePaidOnlineOrder(w)
      <3>1. UNCHANGED <<reserved, hold>>
        BY <1>2, <2>2 DEF Work, RefuseToCreate, DispatchCreate,
           CreateCheckoutSession, SaveProviderSession, ReconcileWithoutSession,
           RetrieveCheckoutSession, VerifyPaymentIntent, ExpireCheckoutSession,
           FinishReconcile, RecordProviderFailure, stockVars
      <3>. QED
        BY <1>1, <1>2, <2>2, <3>1, WorkKeepsPhases DEF shopVars
    <2>. QED
      BY <2>1, <2>2
  <1>3. CASE \A w \in Workers : ~Work(w)
    <2>1. UNCHANGED <<reserved, hold>>
      BY <1>3 DEF Working, ProcessOnlineAttempt, ProviderFails, Crash, stockVars
    <2>. QED
      BY <1>1, <1>3, <2>1, WorkingKeepsPhases DEF shopVars
  <1>. QED
    BY <1>2, <1>3

LEMMA TimeCounts ==
    ASSUME Consistent, StockAgrees, Time
    PROVE  StockAgrees'
  <1>1. UNCHANGED <<reserved, hold>>
    BY DEF Time, QuoteExpires, LeaseExpires, RetryComesDue, DispatchAges,
       KeyForgotten, SessionTimesOut, stockVars
  <1>2. \A q \in Quotes : SameItems(q)
    BY TimeKeepsPricing DEF SamePricing, SameItems
  <1>. QED
    BY <1>1, <1>2, TimeKeepsPhases, PhasesStayStarted, HoldsUntouched

-----------------------------------------------------------------------------
(* The properties *)

\* The counters, the reservations and the attempts agree in every reachable
\* state, for every number of quotes, variants and workers.
THEOREM StockConsistency == Spec => []StockAgrees
  <1>1. Init => StockAgrees
    <2>1. SUFFICES ASSUME Init PROVE StockAgrees
      OBVIOUS
    <2>2. Claims = {} /\ HoldsAreStarted
      BY <2>1 DEF Init, Claims, HoldsAreStarted
    <2>3. \A v \in Tracked : reserved[v] = 0
      BY <2>1, CheckoutAssumption DEF Init
    <2>. QED
      BY <2>2, <2>3, FS_EmptySet, TotalEmpty DEF StockAgrees
  <1>2. StockAgrees /\ Consistent /\ [Next]_vars => StockAgrees'
    <2>1. ASSUME StockAgrees, Consistent,
                 UNCHANGED <<reserved, hold, quote, attempt>>
          PROVE  StockAgrees'
      BY <2>1, HoldsUntouched DEF SameItems, StaysStarted, Started
    <2>2. ASSUME StockAgrees, Consistent, Merchant
          PROVE  StockAgrees'
      BY <2>1, <2>2 DEF Merchant, SetOnHand, ChangeOffer, shopVars, stockVars
    <2>3. ASSUME StockAgrees, Consistent, UNCHANGED vars
          PROVE  StockAgrees'
      BY <2>1, <2>3 DEF vars
    <2>. QED
      BY <2>2, <2>3, ShoppingCounts, WorkingCounts, TimeCounts DEF Next
  <1>. QED
    BY <1>1, <1>2, Consistency, PTL DEF Spec

\* Whatever is started, released, paid late, crashed or done twice, a unit is
\* reserved once for every claim on it, and given back once.
THEOREM StockIsConserved == Spec => []ReservedMatchesClaims
  <1>1. StockAgrees => ReservedMatchesClaims
    <2>1. SUFFICES ASSUME StockAgrees, NEW v \in Tracked
                   PROVE  reserved[v] =
                             MapThenSumSet(LAMBDA q : Units(q, v), Claims)
      BY DEF ReservedMatchesClaims, Claims
    <2>2. MapThenSumSet(LAMBDA q : Units(q, v), Claims)
             = Total(Taken(v), Claims)
      BY <2>1, SumOfClaims DEF StockAgrees
    <2>. QED
      BY <2>1, <2>2 DEF StockAgrees
  <1>. QED
    BY <1>1, StockConsistency, PTL

=============================================================================
