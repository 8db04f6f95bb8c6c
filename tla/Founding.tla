------------------------------- MODULE Founding -------------------------------
(***************************************************************************)
(* The founding of stores (stores.service.ts, createStore).  A store needs *)
(* an organization of the auth library, made first and outside the         *)
(* transaction that inserts the store; when the insert fails, a cleanup    *)
(* job removes the organization.  An organization is named by the request  *)
(* that made it.  A store goes with the account of its owner as long as    *)
(* nothing else refers to it, and its organization stays.                  *)
(***************************************************************************)
EXTENDS Integers, FiniteSets

CONSTANTS Foundings,         \* requests to found a store
          Owners, Slugs,
          CleanupTries,      \* deliveries of a cleanup job
          MaxFoundingFaults

ASSUME FoundingAssumption == CleanupTries \in Nat \ {0} /\ MaxFoundingFaults \in Nat

VARIABLES founding,      \* what each request has done: its step, owner and slug
          orgs,          \* the organizations, by request
          belonging,     \* those of them their founder is a member of
          stores,        \* the stores, by the request that inserted them
          gone,          \* owners whose account is deleted
          cleanups,      \* deliveries left of the cleanup job of each organization
          stranded,      \* history: organizations no cleanup is left for
          foundingFaults

foundingVars ==
    <<founding, orgs, belonging, stores, gone, cleanups, stranded, foundingFaults>>

NotAsked == [step |-> "idle"]
OwnerOf(r) == founding[r].owner
SlugOf(r) == founding[r].slug
HasFoundingFault == foundingFaults < MaxFoundingFaults
FoundingFault == foundingFaults' = foundingFaults + 1

FoundingInit ==
    /\ founding = [r \in Foundings |-> NotAsked]
    /\ orgs = {} /\ belonging = {} /\ stores = {} /\ gone = {} /\ stranded = {}
    /\ cleanups = [r \in Foundings |-> 0]
    /\ foundingFaults = 0

Goto(r, step) == founding' = [founding EXCEPT ![r].step = step]

(* The two reads before anything is made.  A session outlives its account, so *)
(* that the one who asks may be gone.                                         *)
AskForStore(r, o, s) ==
    /\ founding[r] = NotAsked
    /\ \A q \in stores : OwnerOf(q) # o /\ SlugOf(q) # s
    /\ founding' = [founding EXCEPT ![r] = [step |-> "asked", owner |-> o, slug |-> s]]
    /\ UNCHANGED <<orgs, belonging, stores, gone, cleanups, stranded, foundingFaults>>

SlugIsTaken(r) == \E q \in orgs : SlugOf(q) = SlugOf(r)

(* createOrganization, first half: the library reads how many organizations *)
(* the user is a member of, one at most, and whether the slug is free.      *)
CheckLimit(r) ==
    /\ founding[r].step = "asked"
    /\ IF SlugIsTaken(r) \/ \E q \in belonging : OwnerOf(q) = OwnerOf(r)
       THEN Goto(r, "refused") ELSE Goto(r, "checked")
    /\ UNCHANGED <<orgs, belonging, stores, gone, cleanups, stranded, foundingFaults>>

(* Second half: it writes the organization, whose slug the database keeps    *)
(* unique, and the member.  Without the answer, or the user behind the       *)
(* member, the service has an error before it has anything to clean up.      *)
CreateOrganization(r) ==
    /\ founding[r].step = "checked"
    /\ \/ /\ SlugIsTaken(r) \/ OwnerOf(r) \in gone
          /\ Goto(r, "refused") /\ UNCHANGED <<orgs, belonging, stranded, foundingFaults>>
       \/ /\ ~SlugIsTaken(r) /\ OwnerOf(r) \notin gone
          /\ orgs' = orgs \cup {r} /\ belonging' = belonging \cup {r}
          /\ Goto(r, "organized") /\ UNCHANGED <<stranded, foundingFaults>>
       \/ /\ ~SlugIsTaken(r) /\ HasFoundingFault /\ FoundingFault
          /\ orgs' = orgs \cup {r} /\ stranded' = stranded \cup {r}
          /\ \/ UNCHANGED belonging
             \/ OwnerOf(r) \notin gone /\ belonging' = belonging \cup {r}
          /\ Goto(r, "refused")
    /\ UNCHANGED <<stores, gone, cleanups>>

(* The unique columns of the row, and the reference to its owner. *)
Conflicts(r) ==
    OwnerOf(r) \in gone \/ \E q \in stores : OwnerOf(q) = OwnerOf(r) \/ SlugOf(q) = SlugOf(r)

(* The insert succeeds, or its transaction fails, or it succeeds and the   *)
(* answer is lost: what is not an answer is a failure to the caller.       *)
CreateStore(r) ==
    /\ founding[r].step = "organized"
    /\ \/ /\ ~Conflicts(r) /\ stores' = stores \cup {r} /\ UNCHANGED foundingFaults
          /\ Goto(r, "founded")
       \/ Conflicts(r) /\ Goto(r, "failed") /\ UNCHANGED <<stores, foundingFaults>>
       \/ /\ HasFoundingFault /\ FoundingFault
          /\ stores' = stores \/ (~Conflicts(r) /\ stores' = stores \cup {r})
          /\ Goto(r, "failed")
    /\ UNCHANGED <<orgs, belonging, gone, cleanups, stranded>>

QueueCleanup(r) == [cleanups EXCEPT ![r] = CleanupTries]

(* deleteOrphanedOrg swallows the failure of the queue. *)
DeleteOrphanedOrg(r) ==
    /\ founding[r].step = "failed" /\ Goto(r, "refused")
    /\ \/ cleanups' = QueueCleanup(r) /\ UNCHANGED <<stranded, foundingFaults>>
       \/ HasFoundingFault /\ FoundingFault
          /\ stranded' = stranded \cup {r} /\ UNCHANGED cleanups
    /\ UNCHANGED <<orgs, belonging, stores, gone>>

(* Slip: the foreign key of the store lets the organization go. *)
Anyway(r) == r \in orgs

MayBeDeleted(r) == r \in orgs /\ r \notin stores

(* The job deletes the organization; a store that refers to it keeps it,   *)
(* and so does a failure of the database, until the tries are used up.     *)
RunCleanup(r) ==
    /\ cleanups[r] > 0
    /\ \/ /\ MayBeDeleted(r) /\ orgs' = orgs \ {r} /\ belonging' = belonging \ {r}
          /\ cleanups' = [cleanups EXCEPT ![r] = 0]
          /\ UNCHANGED <<stranded, foundingFaults>>
       \/ /\ MayBeDeleted(r) /\ HasFoundingFault /\ FoundingFault
          /\ cleanups' = [cleanups EXCEPT ![r] = @ - 1]
          /\ stranded' = IF cleanups[r] = 1 THEN stranded \cup {r} ELSE stranded
          /\ UNCHANGED <<orgs, belonging>>
       \/ /\ ~MayBeDeleted(r)
          /\ cleanups' = [cleanups EXCEPT ![r] = @ - 1]
          /\ UNCHANGED <<orgs, belonging, stranded, foundingFaults>>
    /\ UNCHANGED <<founding, stores, gone>>

(* The process dies between the organization and the store, or before the  *)
(* job is queued; nothing looks for what it leaves.                        *)
FounderDies(r) ==
    /\ HasFoundingFault /\ FoundingFault
    /\ founding[r].step \in {"asked", "checked", "organized", "failed"} /\ Goto(r, "refused")
    /\ stranded' = IF r \in orgs THEN stranded \cup {r} ELSE stranded
    /\ UNCHANGED <<orgs, belonging, stores, gone, cleanups>>

(* The account of an owner is deleted, a store nothing refers to with it;  *)
(* a store that is referred to would keep the account.                     *)
OwnerIsRemoved(o) ==
    LET theirs == {r \in orgs : OwnerOf(r) = o} IN
    /\ o \notin gone /\ gone' = gone \cup {o}
    /\ stores' = stores \ theirs /\ belonging' = belonging \ theirs
    /\ stranded' = stranded \cup (stores \cap theirs)
    /\ UNCHANGED <<founding, orgs, cleanups, foundingFaults>>

FoundingNext ==
    \/ \E r \in Foundings :
          \/ \E o \in Owners, s \in Slugs : AskForStore(r, o, s)
          \/ CheckLimit(r) \/ CreateOrganization(r) \/ CreateStore(r)
          \/ DeleteOrphanedOrg(r) \/ RunCleanup(r) \/ FounderDies(r)
    \/ \E o \in Owners : OwnerIsRemoved(o)

FoundingSpec == FoundingInit /\ [][FoundingNext]_foundingVars

(***************************************************************************)
(* Properties                                                              *)
(***************************************************************************)
\* A store never loses its organization, also when the insert reached the
\* database and its answer did not reach the service, which then cleans up.
StoresKeepTheirOrganization == stores \subseteq orgs

\* Requests that raced for an owner or a slug leave no organization behind:
\* when all is quiet, one without a store was stranded by a crash, by an answer
\* of the library that was lost, by the queue, by a job that failed every time,
\* or by the deletion of the account its store went with.
NoOrganizationIsForgotten ==
    (\A r \in Foundings : founding[r].step \notin {"organized", "failed"} /\ cleanups[r] = 0)
        => orgs \subseteq stores \cup stranded
===============================================================================
