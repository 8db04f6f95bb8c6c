------------------------------- MODULE Addresses -------------------------------
(***************************************************************************)
(* The address book of one user (user-addresses.repository.ts).  Every     *)
(* writer but the edit of a text takes the user's advisory lock, reads,    *)
(* and writes what it decided on: two steps here, so that what the lock is *)
(* for can be seen.  Two unique indexes back it: one default per user and  *)
(* one address per creation key.  Addresses are numbered in the order they *)
(* were made; their text is left out.                                      *)
(***************************************************************************)
EXTENDS Integers, FiniteSets, FiniteSetsExt

CONSTANTS AddressCallers, AddressKeys, Prints, MAX_USER_ADDRESSES,
          MaxMade    \* bound of the model: addresses ever made

ASSUME AddressesAssumption == MAX_USER_ADDRESSES \in Nat \ {0} /\ MaxMade \in Nat

ASSUME CallersAreNamed == "no one" \notin AddressCallers

VARIABLES addresses,   \* the rows, by number
          made,        \* numbers handed out
          writing,     \* what each caller has read and decided
          lockHolder   \* the holder of pg_advisory_xact_lock

addressVars == <<addresses, made, writing, lockHolder>>

NoOne == "no one"
NotWriting == [does |-> "nothing"]
NoAddress == [there |-> FALSE]
KeptAddress(rows) == {n \in 1..MaxMade : rows[n].there}
Defaults(rows) == {n \in KeptAddress(rows) : rows[n].isDefault}

AddressesInit ==
    /\ addresses = [n \in 1..MaxMade |-> NoAddress] /\ made = 0
    /\ writing = [c \in AddressCallers |-> NotWriting]
    /\ lockHolder = NoOne

(* Slip: the transaction starts without the lock. *)
WithoutLock == TRUE

LockUserAddresses == lockHolder = NoOne

Decides(c, what) ==
    /\ writing[c] = NotWriting /\ LockUserAddresses /\ lockHolder' = c
    /\ writing' = [writing EXCEPT ![c] = what]
    /\ UNCHANGED <<addresses, made>>

IsFull == Cardinality(KeptAddress(addresses)) >= MAX_USER_ADDRESSES

(* create: a key that made an address answers with it, or is refused when  *)
(* the request differs; either way nothing is written.                     *)
StartCreate(c, key, print, wanted) ==
    /\ ~\E n \in KeptAddress(addresses) : addresses[n].key = key
    /\ ~IsFull /\ made < MaxMade
    /\ Decides(c, [does |-> "create", key |-> key, print |-> print,
                   isDefault |-> wanted \/ KeptAddress(addresses) = {}])

(* The oldest of the others takes the place of a default. *)
Successor(n) ==
    LET others == KeptAddress(addresses) \ {n}
    IN IF n \in Defaults(addresses) /\ others # {} THEN Min(others) ELSE 0

StartDelete(c, n) ==
    /\ n \in KeptAddress(addresses)
    /\ Decides(c, [does |-> "delete", row |-> n, next |-> Successor(n)])

StartSetDefault(c, n) ==
    /\ n \in KeptAddress(addresses) \ Defaults(addresses)
    /\ Decides(c, [does |-> "setDefault", row |-> n])

Cleared(rows) ==
    [n \in 1..MaxMade |-> IF rows[n].there THEN [rows[n] EXCEPT !.isDefault = FALSE] ELSE rows[n]]
MakeDefault(rows, n) ==
    IF n \in KeptAddress(rows) THEN [rows EXCEPT ![n].isDefault = TRUE] ELSE rows

Result(w) ==
    CASE w.does = "create" ->
           [(IF w.isDefault THEN Cleared(addresses) ELSE addresses) EXCEPT ![made + 1] =
               [there |-> TRUE, key |-> w.key, print |-> w.print, isDefault |-> w.isDefault]]
      [] w.does = "delete" -> MakeDefault([addresses EXCEPT ![w.row] = NoAddress], w.next)
      [] w.does = "setDefault" -> MakeDefault(Cleared(addresses), w.row)

\* The unique indexes refuse a transaction that would break them.
IndexesHold(rows) ==
    /\ Cardinality(Defaults(rows)) <= 1
    /\ \A m, n \in KeptAddress(rows) : rows[m].key = rows[n].key => m = n

CommitAddress(c) ==
    LET w == writing[c]
        creates == w.does = "create"
    IN /\ w # NotWriting /\ (creates => made < MaxMade)
       /\ IF IndexesHold(Result(w))
          THEN addresses' = Result(w) /\ made' = IF creates THEN made + 1 ELSE made
          ELSE UNCHANGED <<addresses, made>>
       /\ writing' = [writing EXCEPT ![c] = NotWriting]
       /\ lockHolder' = NoOne

\* The connection is lost: the transaction and the lock are gone.
Abort(c) ==
    /\ writing[c] # NotWriting
    /\ writing' = [writing EXCEPT ![c] = NotWriting] /\ lockHolder' = NoOne
    /\ UNCHANGED <<addresses, made>>

AddressesNext ==
    \E c \in AddressCallers :
        \/ \E k \in AddressKeys, f \in Prints, d \in BOOLEAN : StartCreate(c, k, f, d)
        \/ \E n \in 1..MaxMade : StartDelete(c, n) \/ StartSetDefault(c, n)
        \/ CommitAddress(c) \/ Abort(c)

AddressesSpec == AddressesInit /\ [][AddressesNext]_addressVars

(***************************************************************************)
(* Properties                                                              *)
(***************************************************************************)
\* A book that is not empty has a default address, and only one, whatever
\* creations, deletions and choices ran at the same time.
OneDefault == KeptAddress(addresses) # {} => Cardinality(Defaults(addresses)) = 1

\* Concurrent creations never exceed the limit that each of them checked.
BookWithinLimit == Cardinality(KeptAddress(addresses)) <= MAX_USER_ADDRESSES
\* Concurrent changes keep an address book whole: one default, within the limit.
BookIsSound == OneDefault /\ BookWithinLimit

===============================================================================
