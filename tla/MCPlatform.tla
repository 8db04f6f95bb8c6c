------------------------------ MODULE MCPlatform ------------------------------
(***************************************************************************)
(* The store's side of the platform for TLC: catalogue, images,            *)
(* categories, the read cache and its circuit breaker, the founding and    *)
(* the life of a store, accounts, addresses, comments and lists.  None of  *)
(* their steps reads or writes a variable of another part, so a behaviour  *)
(* of the instance is a behaviour of one of them: which one is chosen at   *)
(* the start.  A part whose states would multiply is checked in plays that *)
(* leave some operations out; each operation is in some play.              *)
(***************************************************************************)
EXTENDS Platform, TLC

VARIABLE part

vars == <<part, galleryVars, categoryVars, cacheVars, breakerVars, foundingVars,
          storesVars, accountsVars, addressVars, commentVars, pagingVars>>

TwoOptions == "a1" :> "A" @@ "a2" :> "A" @@ "b1" :> "B"
OneProcess == [r \in Readers |-> "api"]

Parts == {"creation", "options", "variants", "gallery", "category list", "shelf", "cache",
          "breaker", "founding", "status", "names", "logos", "roles",
          "sessions", "addresses", "comments", "paging"}

\* What the part at play leaves alone.
Alone(ps, theirVars) == IF part \in ps THEN TRUE ELSE UNCHANGED theirVars

OthersRest ==
    /\ UNCHANGED part
    /\ Alone({"creation", "options", "variants", "gallery"}, galleryVars)
    /\ Alone({"category list", "shelf"}, categoryVars)
    /\ Alone({"cache"}, cacheVars) /\ Alone({"breaker"}, breakerVars)
    /\ Alone({"founding"}, foundingVars)
    /\ Alone({"status", "names", "logos"}, storesVars)
    /\ Alone({"roles", "sessions"}, accountsVars)
    /\ Alone({"addresses"}, addressVars) /\ Alone({"comments"}, commentVars)
    /\ Alone({"paging"}, pagingVars)

Of(p, A) == part = p /\ A /\ OthersRest

-----------------------------------------------------------------------------
(* A product is created from nothing; its options and variants are edited   *)
(* from a draft with its first image on, its gallery from a draft with one   *)
(* active variant and no image.                                              *)
CatalogueStarts ==
    IF part = "creation" THEN CatalogueInit /\ GalleryInit
    ELSE LET first == IF part = "gallery" THEN {} ELSE {"f1"}
         IN  /\ product = "draft" /\ storeOpen = TRUE
             /\ optionPos = [o \in Options |-> Missing]
             /\ valuePos = [v \in Values |-> Missing]
             /\ valueName = ("a1" :> 1 @@ "a2" :> 2 @@ "b1" :> 1)
             /\ forms = [e \in Editors |-> NoForm]
             /\ variants = [x \in Variants |-> [NoRow EXCEPT !.status =
                                IF part = "gallery" /\ x = "x" THEN "active" ELSE @]]
             /\ gallery = SetToSeq(first) /\ storage = first /\ unused = Files \ first
             /\ lost = {} /\ doubted = {} /\ galleryFaults = 0
             /\ uploads = [u \in Uploaders |-> NoUpload]
             /\ removals = [r \in Removers |-> {}]
             /\ cleanup = [f \in Files |-> 0]

PagingStarts ==
    /\ PagingInit
    /\ part # "paging" => /\ keyOf = [r \in RowIds |-> NULL] /\ present = {}
                          /\ ascending /\ limit = 1

Init ==
    /\ part \in Parts
    /\ CatalogueStarts /\ CategoriesInit /\ CacheInit /\ BreakerInit
    /\ FoundingInit /\ StoresInit /\ AccountsInit /\ AddressesInit
    /\ CommentsInit /\ PagingStarts
    /\ part \notin {"status", "names", "logos"} =>
          storeName = CHOOSE n \in StoreNames : TRUE

-----------------------------------------------------------------------------
(* The plays *)

CreationPlay == CatalogueNext /\ product = "absent" /\ UNCHANGED galleryOnly

\* Options and values of a product whose variants do not change.
OptionsPlay == CatalogueNext /\ UNCHANGED galleryOnly /\ variants' = variants /\ storeOpen'

\* Variants over two options, one value too many; only x is edited once its price is.
VariantsPlay ==
    /\ CatalogueNext /\ UNCHANGED galleryOnly
    /\ optionPos'["C"] = Missing /\ storeOpen' /\ valuePos'["a1"] # 1
    /\ valueName'["a1"] = 1 /\ valueName'["a2"] = 2
    /\ \A x \in Variants :
          variants'[x].price = 2 => x = "x" /\ forms'["e"].variant \in {"none", "x"}

\* Requests that upload are alike: the second starts only beside the first, with
\* one file, and meets one fault at most; the two faults of a clean-up that is
\* given up are met by the first.  A store that closes shows no more.
GalleryPlay ==
    /\ GalleryNext
    /\ uploads["u2"] = NoUpload /\ uploads'["u2"] # NoUpload =>
          uploads["u1"] # NoUpload /\ Cardinality(uploads'["u2"].left) = 1
    /\ uploads'["u2"] # NoUpload => galleryFaults' <= 1
    /\ storeOpen' \/ unused' = Files

ListPlay == CategoriesNext /\ UNCHANGED <<members, shelved, shelfPages>>

\* One editor sees a category page; no category is published.
ShelfPlay ==
    /\ CategoriesNext
    /\ \/ UNCHANGED pages
       \/ /\ pages'["f"] = NoPage
          /\ \A c \in CategoryIds : categories'[c].status # "published"

\* Requests, owners and slugs are alike: the first request asks first, and what
\* it asks for is the first of each; beside a third, one thing fails at most.
FoundingPlay ==
    /\ FoundingNext
    /\ founding'["r1"] # NotAsked => founding'["r1"].owner = "o1" /\ founding'["r1"].slug = "s1"
    /\ founding'["r2"] # NotAsked => founding'["r1"] # NotAsked
    /\ founding'["r3"] # NotAsked => founding'["r2"] # NotAsked /\ foundingFaults' <= 1

PeopleDo(steps) == \A p \in People : requests'[p].step \in {"idle"} \cup steps

StatusPlay ==
    StoresNext /\ UNCHANGED <<nameVars, logoVars>> /\ PeopleDo({"transition", "settings"})
NamesPlay ==
    /\ StoresNext /\ UNCHANGED <<statusVars, logoVars, settings>>
    /\ PeopleDo({"rename", "sync"})
LogosPlay ==
    /\ StoresNext /\ UNCHANGED <<nameVars, settings>> /\ Len(audit') <= 1
    /\ storeFaults' <= 1
    /\ PeopleDo({"logo", "transition"})

CallersDo(kinds) ==
    \A c \in Callers : calls'[c].step # "idle" => calls'[c].kind \in kinds

RolesPlay ==
    /\ AccountsNext /\ UNCHANGED <<sessions, signing, link>>
    /\ \A u \in Users : users'[u].exists
    /\ CallersDo({"any", "promote", "demote", "ban", "unban"})

\* One user signs in and is deactivated and reactivated; all may be banned.
SessionsPlay ==
    /\ AccountsNext
    /\ CallersDo({"any", "deactivate", "reactivate"})
    /\ \A c \in Callers :
          calls'[c].step # "idle" /\ calls'[c].kind # "any" => calls'[c].user = "u2"
    /\ \A d \in Devices : signing'[d].step # "idle" => signing'[d].user = "u2"

CommentsPlay ==
    /\ CommentsNext
    /\ \A n \in 1..MaxComments : comments'[n].there => comments'[n].version <= 2

Next ==
    \/ Of("creation", CreationPlay) \/ Of("options", OptionsPlay) \/ Of("variants", VariantsPlay)
    \/ Of("gallery", GalleryPlay)
    \/ Of("category list", ListPlay) \/ Of("shelf", ShelfPlay)
    \/ Of("cache", CacheNext) \/ Of("breaker", BreakerNext)
    \/ Of("founding", FoundingPlay)
    \/ Of("status", StatusPlay) \/ Of("names", NamesPlay) \/ Of("logos", LogosPlay)
    \/ Of("roles", RolesPlay) \/ Of("sessions", SessionsPlay)
    \/ Of("addresses", AddressesNext) \/ Of("comments", CommentsPlay)
    \/ Of("paging", PagingNext)

\* A request that is under way and a job that is queued go on; a load is cut
\* at its deadline, an entry of the cache expires, and a writer that has
\* committed invalidates.
FairSpec ==
    /\ Init /\ [][Next]_vars
    /\ WF_vars(Of("gallery", GalleryProgress) \/ Of("cache", Expire(token)))
    /\ \A l \in Loads : WF_vars(Of("cache", LoadStep(l)))
    /\ \A w \in Writers : WF_vars(Of("cache", Rotate(w) \/ DeleteKeys(w)))

===============================================================================
