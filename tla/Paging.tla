-------------------------------- MODULE Paging --------------------------------
(***************************************************************************)
(* The lists of the API (common/api-query): a page is what comes after a   *)
(* cursor, in the order of a sort field and the primary key, and the       *)
(* cursor is made of the last row shown.  Rows come and go between two     *)
(* pages.  Times have microseconds in the database and milliseconds in     *)
(* the program; two units of a key are one millisecond here.  Filters,     *)
(* searches and the parsing of arguments are left out.                     *)
(***************************************************************************)
EXTENDS Integers, FiniteSets, Sequences, SequencesExt

CONSTANTS RowIds, SortKeys, Limits

ASSUME PagingAssumption ==
    /\ RowIds \subseteq Nat /\ IsFiniteSet(RowIds)
    /\ SortKeys \subseteq Nat /\ Limits \subseteq Nat \ {0}

VARIABLES keyOf,      \* the sort field of each row; NULL is allowed
          present,    \* the rows in the table
          ascending,  \* the direction, of the field and of the primary key
          limit,
          cursor,     \* the values of the last row, or none
          shown,      \* the rows shown so far, in order
          listing,    \* is there a next page?
          steady      \* history: the rows that were there all the time

pagingVars == <<keyOf, present, ascending, limit, cursor, shown, listing, steady>>

NULL == 0 - 1
Start == [started |-> FALSE]

PagingInit ==
    /\ keyOf \in [RowIds -> SortKeys \cup {NULL}]
    /\ present \in SUBSET RowIds /\ steady = present
    /\ ascending \in BOOLEAN /\ limit \in Limits
    /\ cursor = Start /\ shown = <<>> /\ listing = TRUE

Beyond(a, b) == IF ascending THEN a > b ELSE a < b

(* orderBy: NULLs last in both directions, then the primary key. *)
Precedes(r, s) ==
    \/ keyOf[r] # NULL /\ keyOf[s] = NULL
    \/ keyOf[r] # NULL /\ keyOf[s] # NULL /\ Beyond(keyOf[s], keyOf[r])
    \/ keyOf[r] = keyOf[s] /\ Beyond(s, r)

(* Slip: the cursor holds the time the program sees. *)
Milliseconds(r) == IF keyOf[r] = NULL THEN NULL ELSE 2 * (keyOf[r] \div 2)

CursorValue(r) == keyOf[r]

FieldIsAfter(r) ==
    cursor.key # NULL /\ (keyOf[r] = NULL \/ Beyond(keyOf[r], cursor.key))

(* buildCursorCondition: a branch for the field, one for the primary key   *)
(* among the rows that equal the cursor in the field.                      *)
IsAfterCursor(r) ==
    \/ cursor = Start
    \/ FieldIsAfter(r)
    \/ keyOf[r] = cursor.key /\ Beyond(r, cursor.id)

(* The query takes one row more than the page, to know of a next one.      *)
FetchPage ==
    LET after == {r \in present : IsAfterCursor(r)}
        found == CHOOSE s \in [1 .. Cardinality(after) -> after] :
                     \A i, j \in DOMAIN s : i < j => Precedes(s[i], s[j])
        page == SubSeq(found, 1, IF Len(found) < limit THEN Len(found) ELSE limit)
    IN /\ listing
       /\ shown' = shown \o page
       /\ listing' = (Len(found) > limit)
       /\ cursor' = IF page = <<>> THEN cursor
                    ELSE [started |-> TRUE, key |-> CursorValue(Last(page)), id |-> Last(page)]
       /\ UNCHANGED <<keyOf, present, ascending, limit, steady>>

RowComes(r) ==
    /\ listing /\ r \notin present /\ r \notin ToSet(shown)
    /\ present' = present \cup {r}
    /\ UNCHANGED <<keyOf, ascending, limit, cursor, shown, listing, steady>>

RowGoes(r) ==
    /\ listing /\ r \in present
    /\ present' = present \ {r} /\ steady' = steady \ {r}
    /\ UNCHANGED <<keyOf, ascending, limit, cursor, shown, listing>>

PagingNext == FetchPage \/ \E r \in RowIds : RowComes(r) \/ RowGoes(r)

PagingSpec == PagingInit /\ [][PagingNext]_pagingVars

(***************************************************************************)
(* Properties                                                              *)
(***************************************************************************)
\* The pages, put together, are in order and show no row twice, whatever was
\* inserted and deleted between them, also among equal times and NULLs.
PagesAreInOrder ==
    \A i, j \in 1..Len(shown) : i < j => Precedes(shown[i], shown[j])

\* Whoever reads to the last page has seen every row that was there all along.
NothingIsMissed == ~listing => steady \subseteq ToSet(shown)
\* A list that changes while it is read still reads as one list.
ListsAreFaithful == PagesAreInOrder /\ NothingIsMissed

===============================================================================
