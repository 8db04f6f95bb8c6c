-------------------------------- MODULE Stores --------------------------------
(***************************************************************************)
(* The life of one store after its founding (modules/stores): its status   *)
(* and the audit of its transitions, its name and the name of its          *)
(* organization, its logo and the file behind it, and its checkout         *)
(* settings.  People work on it in requests that read first and write      *)
(* later.                                                                  *)
(***************************************************************************)
EXTENDS Integers, Sequences, FiniteSets

CONSTANTS People, StoreNames, LogoFiles, Fees,
          SyncTries,         \* deliveries of a job that copies the name
          MaxTransitions, MaxVersions, MaxRenames,   \* bounds of the model
          MaxStoreFaults

NoLogo == "none"

ASSUME StoresAssumption ==
    /\ {SyncTries, MaxTransitions, MaxVersions, MaxRenames, MaxStoreFaults} \subseteq Nat
    /\ NoLogo \notin LogoFiles

VARIABLES status, audit,       \* the status and the rows of store_lifecycle_audit
          storeName, orgName, syncs,   \* the two names and the jobs that copy one
          unsynced,            \* history: a rename was overtaken, or its copy lost
          logo, files, trash,  \* logoKey, the files in storage, those to delete
          unusedKeys,          \* keys are random: none is made twice
          inDoubt,             \* history: logos whose write lost its answer
          settings,            \* version and fee; version 0 is no row
          requests, renames, storeFaults

statusVars == <<status, audit>>
nameVars == <<storeName, orgName, syncs, unsynced, renames>>
logoVars == <<logo, files, trash, inDoubt, unusedKeys>>
storesVars == <<statusVars, nameVars, logoVars, settings, requests, storeFaults>>

Idle == [step |-> "idle"]
HasStoreFault == storeFaults < MaxStoreFaults
StoreFault == storeFaults' = storeFaults + 1
Asks(p, r) == requests[p] = Idle /\ requests' = [requests EXCEPT ![p] = r]
Ends(p) == requests' = [requests EXCEPT ![p] = Idle]

StoresInit ==
    /\ status = "active" /\ audit = <<>>
    /\ storeName \in StoreNames /\ orgName = storeName /\ syncs = {}
    /\ unsynced = FALSE /\ renames = 0
    /\ logo = NoLogo /\ files = {} /\ trash = {} /\ inDoubt = {}
    /\ unusedKeys = LogoFiles
    /\ settings = [version |-> 0, fee |-> 0]
    /\ requests = [p \in People |-> Idle]
    /\ storeFaults = 0

(***************************************************************************)
(* The status: an owner closes, the platform suspends and reactivates      *)
(***************************************************************************)
(* Each transition names the status it expects: what the owner read, the   *)
(* constant of a suspension, what the administrator read.                  *)
AskTransition(p) ==
    LET Ask(previous, new) ==
            Asks(p, [step |-> "transition", previous |-> previous, new |-> new])
    IN /\ Len(audit) < MaxTransitions
       /\ \/ status = "active" /\ Ask("active", "owner_closed")
          \/ Ask("active", "platform_suspended")
          \/ status # "active" /\ Ask(status, "active")
       /\ UNCHANGED <<statusVars, nameVars, logoVars, settings, storeFaults>>

IsAsExpected(p) == status = requests[p].previous

TransitionStatus(p) ==
    /\ requests[p].step = "transition" /\ Ends(p)
    /\ IF IsAsExpected(p)
       THEN /\ status' = requests[p].new
            /\ audit' = Append(audit, [from |-> requests[p].previous, to |-> requests[p].new])
       ELSE UNCHANGED statusVars
    /\ UNCHANGED <<nameVars, logoVars, settings, storeFaults>>

(***************************************************************************)
(* The name, in the store and in its organization                          *)
(***************************************************************************)
AskRename(p) ==
    /\ status = "active"
    /\ \E n \in StoreNames :
        Asks(p, [step |-> "rename", to |-> n, saw |-> storeName])
    /\ UNCHANGED <<statusVars, nameVars, logoVars, settings, storeFaults>>

\* A copy of an earlier name is still on its way.
CopyOnItsWay == syncs # {} \/ \E p \in People : requests[p].step = "sync"

NameChanged(p) == requests[p].to # requests[p].saw

UpdateActiveStore(p) ==
    /\ requests[p].step = "rename" /\ renames < MaxRenames
    /\ IF status = "active"
       THEN /\ storeName' = requests[p].to /\ renames' = renames + 1
            /\ unsynced' = (unsynced \/ CopyOnItsWay \/ storeName # requests[p].saw)
            /\ requests' = [requests EXCEPT ![p] =
                   IF NameChanged(p)
                   THEN [step |-> "sync", to |-> requests[p].to, job |-> renames'] ELSE Idle]
       ELSE Ends(p) /\ UNCHANGED <<storeName, renames, unsynced>>
    /\ UNCHANGED <<statusVars, orgName, syncs, logoVars, settings, storeFaults>>

RetryJob(p) ==
    syncs \cup {[job |-> requests[p].job, to |-> requests[p].to, tries |-> SyncTries]}

SyncOrganizationName(p) ==
    /\ requests[p].step = "sync" /\ Ends(p)
    /\ \/ orgName' = requests[p].to /\ UNCHANGED <<syncs, unsynced, storeFaults>>
       \/ HasStoreFault /\ StoreFault /\ UNCHANGED orgName
          /\ \/ syncs' = RetryJob(p) /\ UNCHANGED unsynced
             \/ unsynced' = TRUE /\ UNCHANGED syncs
    /\ UNCHANGED <<statusVars, storeName, renames, logoVars, settings>>

RunSync(j) ==
    /\ \/ orgName' = j.to /\ syncs' = syncs \ {j} /\ UNCHANGED <<unsynced, storeFaults>>
       \/ HasStoreFault /\ StoreFault /\ UNCHANGED orgName
          /\ syncs' = (syncs \ {j}) \cup
                 (IF j.tries = 1 THEN {} ELSE {[j EXCEPT !.tries = @ - 1]})
          /\ unsynced' = (unsynced \/ j.tries = 1)
    /\ UNCHANGED <<statusVars, storeName, renames, logoVars, settings, requests>>

(***************************************************************************)
(* The logo                                                                *)
(***************************************************************************)
UploadLogo(p) ==
    /\ status = "active"
    /\ \E f \in unusedKeys :
        /\ Asks(p, [step |-> "logo", file |-> f, old |-> logo])
        /\ files' = files \cup {f} /\ unusedKeys' = unusedKeys \ {f}
    /\ UNCHANGED <<statusVars, nameVars, logo, trash, inDoubt, settings, storeFaults>>

TheOldOne(p) == {requests[p].old} \ {NoLogo}

(* The update replaces the key of an active store.  When it throws, the    *)
(* new file is the orphan, also when only the answer of the write was lost.*)
SaveLogo(p) ==
    /\ requests[p].step = "logo" /\ Ends(p)
    /\ \/ /\ status = "active" /\ logo' = requests[p].file
          /\ \/ trash' = trash \cup TheOldOne(p) /\ UNCHANGED storeFaults
             \/ HasStoreFault /\ StoreFault /\ UNCHANGED trash
          /\ UNCHANGED inDoubt
       \/ /\ status # "active" \/ HasStoreFault
          /\ IF status = "active" THEN StoreFault ELSE UNCHANGED storeFaults
          /\ UNCHANGED <<logo, inDoubt>>
          /\ trash' = trash \cup {requests[p].file}
       \/ /\ status = "active" /\ HasStoreFault /\ StoreFault
          /\ logo' = requests[p].file /\ inDoubt' = inDoubt \cup {logo'}
          /\ trash' = trash \cup {requests[p].file}
    /\ UNCHANGED <<statusVars, nameVars, files, unusedKeys, settings>>

DeleteFile(f) ==
    /\ f \in trash
    /\ files' = files \ {f} /\ trash' = trash \ {f}
    /\ UNCHANGED <<statusVars, nameVars, logo, inDoubt, unusedKeys, settings, requests, storeFaults>>

(***************************************************************************)
(* The checkout settings                                                   *)
(***************************************************************************)
ReadSettings(p) ==
    /\ \E f \in Fees : Asks(p, [step |-> "settings", fee |-> f, saw |-> settings])
    /\ UNCHANGED <<statusVars, nameVars, logoVars, settings, storeFaults>>

(* Slip: the version of the row is not part of the update. *)
RowExists(p) == (requests[p].saw.version = 0) = (settings.version = 0)

IsLatest(p) == settings.version = requests[p].saw.version

(* insertInitial for version 0, updateAtVersion for the others. *)
UpdateSettings(p) ==
    /\ requests[p].step = "settings" /\ Ends(p)
    /\ settings' = IF IsLatest(p) /\ settings.version < MaxVersions
                   THEN [version |-> requests[p].saw.version + 1, fee |-> requests[p].fee]
                   ELSE settings
    /\ UNCHANGED <<statusVars, nameVars, logoVars, storeFaults>>

\* The process dies between the steps of a request.
PersonLeaves(p) ==
    /\ HasStoreFault /\ StoreFault
    /\ requests[p].step # "idle" /\ Ends(p)
    /\ unsynced' = (unsynced \/ requests[p].step = "sync")
    /\ UNCHANGED <<statusVars, storeName, orgName, syncs, renames, logoVars, settings>>

StoresNext ==
    \/ \E p \in People :
        \/ AskTransition(p) \/ TransitionStatus(p)
        \/ AskRename(p) \/ UpdateActiveStore(p) \/ SyncOrganizationName(p)
        \/ UploadLogo(p) \/ SaveLogo(p)
        \/ ReadSettings(p) \/ UpdateSettings(p)
        \/ PersonLeaves(p)
    \/ \E j \in syncs : RunSync(j)
    \/ \E f \in LogoFiles : DeleteFile(f)

StoresSpec == StoresInit /\ [][StoresNext]_storesVars

(***************************************************************************)
(* Properties                                                              *)
(***************************************************************************)
\* The audit is the life of the store, whoever raced whom: every row starts
\* from where the one before ended, and the last ends at the status.
AuditTellsTheStory ==
    \A i \in 0..Len(audit) :
        (IF i = 0 THEN "active" ELSE audit[i].to)
            = (IF i = Len(audit) THEN status ELSE audit[i + 1].from)

\* With no copy on its way, the organization is named as the store is unless
\* a rename overtook the copy of another or a copy was lost: a refused copy
\* alone does not part them.
NamesPartOnlyByOvertaking == CopyOnItsWay \/ unsynced \/ storeName = orgName

\* The file of the logo is in storage, unless the write of the logo lost its
\* answer: uploads that race, closures and clean-ups never delete it.
LogoIsInStorage == logo \in files \cup inDoubt \cup {NoLogo}

\* Settings are only ever written over what their editor saw.
SettingsFollowWhatWasSeen ==
    [][settings' = settings
        \/ \E p \in People : requests[p].step = "settings" /\ requests[p].saw = settings]_storesVars
===============================================================================
