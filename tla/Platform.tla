------------------------------- MODULE Platform -------------------------------
(***************************************************************************)
(* The store's side of the platform: products with their images,           *)
(* categories, the read cache and its circuit breaker, the founding and    *)
(* the life of a store, accounts, addresses, comments and lists.  None     *)
(* writes a row of another, but for the deletion of an account, whose      *)
(* cascade removes what the user had: Founding has it for stores; in       *)
(* Addresses and Comments it would only end the rows of one who is gone.   *)
(* What they promise together is said here.                                *)
(***************************************************************************)
EXTENDS Gallery, Categories, ReadCache, Breaker, Founding, Stores, Accounts,
        Addresses, Comments, Paging

PlatformSpec ==
    /\ ProductSpec /\ CategoriesSpec /\ CacheSpec /\ BreakerSpec
    /\ FoundingSpec /\ StoresSpec /\ AccountsSpec /\ AddressesSpec
    /\ CommentsSpec /\ PagingSpec

-------------------------------------------------------------------------------
(* Properties, one for each question asked of the parts.                     *)

\* The catalogue is sound after any sequence of edits: what is published can
\* be bought, variants are labelled by their present selections, and options,
\* values and categories have the order the storefront shows.
CatalogueIsSound ==
    /\ PublishedIsSellable /\ LabelsFollowSelections /\ PositionsAreDense
    /\ OrderIsStrict

\* Nobody overwrites what another changed in the meantime: who saves a variant,
\* an order of categories, the categories of a product, the settings of a store
\* or a comment saves over what was on the screen, or is turned away.
NobodyOverwritesUnseen ==
    /\ SavesOverWhatWasSeen /\ ReordersWhatWasSeen /\ ReplacesWhatWasSeen
    /\ ShelfKeepsItsHistory /\ SettingsFollowWhatWasSeen /\ EditsFollowWhatWasSeen

\* A file that a row names is in the storage, and nothing is about to delete
\* it, but for rows whose insert was committed and gave no answer.
FilesInUseAreKept == EveryImageHasItsFile /\ LogoIsInStorage

\* What failures leave behind goes in the end: files without a row, and cache
\* entries older than what they show.  Excepted by name are files whose upload
\* gave no answer and those whose clean-up was lost or given up.
LeftoversPass == <>[](NothingIsLeftInStorage /\ NoEntryIsStale)

\* When the database or Redis is slow or down, no more is asked of it than was
\* meant: permits match queries, and one probe alone tries and reopens Redis.
LoadIsBounded ==
    [](PermitsMatchQueries /\ OneProbeAtATime) /\ OnlyTheProbeCloses

\* What is kept about a store elsewhere agrees with it: the organization it
\* was founded with, the copy of its name, and the audit of its status.
StoreRecordsAgree ==
    /\ StoresKeepTheirOrganization /\ NoOrganizationIsForgotten
    /\ NamesPartOnlyByOvertaking /\ AuditTellsTheStory

===============================================================================
