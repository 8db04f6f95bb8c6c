------------------------------ MODULE Categories ------------------------------
(***************************************************************************)
(* The categories of a store and the shelf a product stands on             *)
(* (modules/categories, and the memberships that products.repository.ts    *)
(* writes).  Every write locks the store row first, or the product and     *)
(* then the store, so each is one step.  A version is kept as what it is   *)
(* for: a page an editor has open is fresh on a row until a write bumps    *)
(* the version of that row.  Names, slugs and descriptions are one value,  *)
(* the text of a category.                                                 *)
(***************************************************************************)
EXTENDS Integers, FiniteSets, FiniteSetsExt

CONSTANTS CategoryIds, Texts, CategoryEditors, CategoryLimit, MaxCategoriesPerProduct

ASSUME CategoryAssumption == {CategoryLimit, MaxCategoriesPerProduct} \subseteq Nat \ {0}

VARIABLES categories,   \* the category rows
          members,      \* the categories one product belongs to
          shelved,      \* that product: "absent", "live" or "archived"
          pages,        \* what each editor saw, and where it is still fresh
          shelfPages    \* the same for the product's categories

categoryVars == <<categories, members, shelved, pages, shelfPages>>

NoCategory == [status |-> "none", position |-> 0, text |-> CHOOSE t \in Texts : TRUE]
NoPage == [open |-> FALSE]
OfStatus(ss) == {c \in CategoryIds : categories[c].status \in ss}
Current == OfStatus({"draft", "published"})
Archived == OfStatus({"archived"})

(* Writes to the rows cs make every page stale on them. *)
Stale(cs) == [e \in CategoryEditors |->
    IF pages[e].open THEN [pages[e] EXCEPT !.fresh = @ \ cs] ELSE pages[e]]
StaleShelf == [e \in CategoryEditors |->
    IF shelfPages[e].open THEN [shelfPages[e] EXCEPT !.fresh = FALSE] ELSE shelfPages[e]]

CategoriesInit ==
    /\ categories = [c \in CategoryIds |-> NoCategory]
    /\ members = {} /\ shelved = "absent"
    /\ pages = [e \in CategoryEditors |-> NoPage]
    /\ shelfPages = [e \in CategoryEditors |-> NoPage]

(***************************************************************************)
(* The category rows                                                       *)
(***************************************************************************)
NextPosition ==
    IF Current = {} THEN 0 ELSE Max({categories[c].position : c \in Current}) + 1

CreateCategory(c, t) ==
    /\ categories[c].status = "none" /\ Cardinality(Current) < CategoryLimit
    /\ categories' = [categories EXCEPT ![c] =
           [status |-> "draft", position |-> NextPosition, text |-> t]]
    /\ UNCHANGED <<members, shelved, pages, shelfPages>>

OpenPage(e) ==
    /\ ~pages[e].open /\ Current # {}
    /\ pages' = [pages EXCEPT ![e] =
           [open |-> TRUE, seen |-> categories, listed |-> Current, fresh |-> Current]]
    /\ UNCHANGED <<categories, members, shelved, shelfPages>>

ClosePage(e) ==
    /\ pages[e].open /\ pages' = [pages EXCEPT ![e] = NoPage]
    /\ UNCHANGED <<categories, members, shelved, shelfPages>>

(* A write to one category names the version the page showed. *)
CanWrite(e, c) == pages[e].open /\ c \in pages[e].fresh /\ c \in Current

WriteCategory(e, c, row) ==
    /\ CanWrite(e, c)
    /\ categories' = [categories EXCEPT ![c] = row]
    /\ pages' = [Stale({c}) EXCEPT ![e] = NoPage]
    /\ UNCHANGED <<members, shelved, shelfPages>>

UpdateCategory(e, c, t) == WriteCategory(e, c, [categories[c] EXCEPT !.text = t])
TransitionCategory(e, c, s) ==
    categories[c].status # s /\ WriteCategory(e, c, [categories[c] EXCEPT !.status = s])
ArchiveCategory(e, c) == WriteCategory(e, c, [categories[c] EXCEPT !.status = "archived"])

(* The order must name every current category, each at its version. *)
NamesAllFresh(e) ==
    /\ pages[e].open /\ pages[e].listed \subseteq pages[e].fresh \cap Current
    /\ Cardinality(pages[e].listed) = Cardinality(Current)

ReorderCategories(e) ==
    \E order \in [pages[e].listed -> 0 .. Cardinality(pages[e].listed) - 1] :
        /\ NamesAllFresh(e)
        /\ \A c, d \in pages[e].listed : order[c] = order[d] => c = d
        /\ categories' = [c \in CategoryIds |-> IF c \in pages[e].listed
               THEN [categories[c] EXCEPT !.position = order[c]] ELSE categories[c]]
        /\ pages' = [Stale(pages[e].listed) EXCEPT ![e] = NoPage]
        /\ UNCHANGED <<members, shelved, shelfPages>>

(***************************************************************************)
(* The categories of a product                                             *)
(***************************************************************************)
Assignable(cs) == cs \subseteq Current /\ Cardinality(cs) <= MaxCategoriesPerProduct

CreateShelved(cs) ==
    /\ shelved = "absent" /\ Assignable(cs)
    /\ shelved' = "live" /\ members' = cs
    /\ UNCHANGED <<categories, pages, shelfPages>>

(* Any other write to the product bumps its version. *)
TouchShelved(s) ==
    /\ shelved = "live" /\ shelved' = s /\ shelfPages' = StaleShelf
    /\ UNCHANGED <<categories, members, pages>>

OpenShelf(e) ==
    /\ shelved = "live" /\ ~shelfPages[e].open
    /\ shelfPages' = [shelfPages EXCEPT ![e] =
           [open |-> TRUE, seen |-> members \ Archived, fresh |-> TRUE]]
    /\ UNCHANGED <<categories, members, shelved, pages>>

(* The memberships of archived categories stay. *)
Kept == members \cap Archived

Replaced(cs) == Kept \cup cs

ShelfFresh(e) == shelfPages[e].open /\ shelfPages[e].fresh

ReplaceCategories(e, cs) ==
    /\ ShelfFresh(e) /\ shelved = "live" /\ Assignable(cs)
    /\ members' = Replaced(cs)
    /\ shelfPages' = [StaleShelf EXCEPT ![e] = NoPage]
    /\ UNCHANGED <<categories, shelved, pages>>

CategoriesNext ==
    \/ \E c \in CategoryIds, t \in Texts : CreateCategory(c, t)
    \/ \E e \in CategoryEditors :
          \/ OpenPage(e) \/ ClosePage(e) \/ OpenShelf(e)
          \/ pages[e].open /\ ReorderCategories(e)
          \/ \E c \in CategoryIds :
                \/ ArchiveCategory(e, c)
                \/ \E s \in {"draft", "published"} : TransitionCategory(e, c, s)
                \/ \E t \in Texts : UpdateCategory(e, c, t)
          \/ \E cs \in SUBSET CategoryIds : ReplaceCategories(e, cs)
    \/ \E cs \in SUBSET CategoryIds : CreateShelved(cs)
    \/ \E s \in {"live", "archived"} : TouchShelved(s)

CategoriesSpec == CategoriesInit /\ [][CategoriesNext]_categoryVars

(***************************************************************************)
(* Properties                                                              *)
(***************************************************************************)
(* No two current categories share a position, whatever was created, archived
   and reordered in between: the public order is by position alone. *)
OrderIsStrict ==
    \A c, d \in Current : c # d => categories[c].position # categories[d].position

(* A reordering rewrites exactly the list its editor saw: nothing was added,
   archived, renamed or moved since. *)
ReordersWhatWasSeen ==
    [][\A e \in CategoryEditors :
          LET moved == {c \in CategoryIds : categories'[c].position # categories[c].position
                                            /\ categories[c].status # "none"}
          IN  pages[e].open /\ ~pages'[e].open /\ moved # {}
                  => \A c \in CategoryIds : \/ c \in Current \cup pages[e].listed
                                                 /\ categories[c] = pages[e].seen[c]
                                            \/ c \notin Current \cup pages[e].listed]_categoryVars

(* Replacing a product's categories never takes it out of an archived one, so
   its history stays, and never leaves it in more current ones than allowed. *)
ShelfKeepsItsHistory ==
    [][members \cap Archived \subseteq members' /\ Cardinality(members' \ Archived) <= MaxCategoriesPerProduct]_categoryVars

(* A replacement is applied to the selection its editor saw, but for
   categories archived since, which the replacement leaves alone. *)
ReplacesWhatWasSeen ==
    [][\A e \in CategoryEditors :
          shelfPages[e].open /\ ~shelfPages'[e].open
              => members \ Archived = shelfPages[e].seen \ Archived]_categoryVars
=============================================================================
