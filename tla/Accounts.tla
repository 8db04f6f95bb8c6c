------------------------------- MODULE Accounts -------------------------------
(***************************************************************************)
(* Accounts and who may act on them: the platform administration of users  *)
(* (platform-users.service.ts), an owner's own deactivation, the link that *)
(* takes it back (account.service.ts), and the check when a session is     *)
(* made.  The auth library keeps users in the database and sessions in     *)
(* Redis, and every call to it is a step of its own, so a request reads,   *)
(* decides and writes at different times.                                  *)
(***************************************************************************)
EXTENDS Integers, FiniteSets

CONSTANTS Users, FirstAdmins,
          Devices,       \* each signs one user in
          Callers,       \* requests that act on users
          MaxSwitches,   \* bound: activations and deactivations in a run
          MaxAccountFaults

ASSUME AccountsAssumption ==
    FirstAdmins \subseteq Users /\ {MaxSwitches, MaxAccountFaults} \subseteq Nat

ASSUME UsersAreNamed == "nobody" \notin Users   \* null is no user's id

VARIABLES users,      \* role, active, banned and existence
          sessions,   \* the user each device is signed in as, if any
          signing,    \* the sign-in of each device
          calls,      \* what each caller is doing
          link,       \* users with a reactivation token in the cache
          slipped,    \* history: devices whose check preceded a deactivation
          unrevoked,  \* history: users whose sessions could not be revoked
          switches, accountFaults

accountsVars ==
    <<users, sessions, signing, calls, link, slipped, unrevoked, switches, accountFaults>>

Nobody == "nobody"
NotSigning == [step |-> "idle"]
NotCalling == [step |-> "idle"]
Admins == {u \in Users : users[u].exists /\ users[u].role = "admin"}
HasAccountFault == accountFaults < MaxAccountFaults
AccountFault == accountFaults' = accountFaults + 1
Calls(c, step, kind, u, saw) ==
    calls' = [calls EXCEPT ![c] =
        [step |-> step, kind |-> kind, user |-> u, saw |-> saw]]
Goes(c, step) == calls' = [calls EXCEPT ![c].step = step]
Returns(c) == calls' = [calls EXCEPT ![c] = NotCalling]
NoSessions(u) == [d \in Devices |-> IF sessions[d] = u THEN Nobody ELSE sessions[d]]

AccountsInit ==
    /\ users = [u \in Users |->
           [role |-> IF u \in FirstAdmins THEN "admin" ELSE "user",
            active |-> TRUE, banned |-> FALSE, exists |-> TRUE]]
    /\ sessions = [d \in Devices |-> Nobody]
    /\ signing = [d \in Devices |-> NotSigning]
    /\ calls = [c \in Callers |-> NotCalling]
    /\ link = {} /\ slipped = {} /\ unrevoked = {}
    /\ switches = 0 /\ accountFaults = 0

(***************************************************************************)
(* Sessions                                                                *)
(***************************************************************************)
(* Slip: the hook looks for the user only. *)
IsKnown(u) == users[u].exists /\ ~users[u].banned

MaySignIn(u) == users[u].exists /\ users[u].active /\ ~users[u].banned

(* checkActivation, before the session is written. *)
CheckActivation(d, u) ==
    /\ signing[d] = NotSigning /\ sessions[d] = Nobody /\ MaySignIn(u)
    /\ signing' = [signing EXCEPT ![d] =
           [step |-> "checked", user |-> u, active |-> users[u].active]]
    /\ UNCHANGED <<users, sessions, calls, link, slipped, unrevoked, switches, accountFaults>>

\* Redis asks for no user behind a session.
CreateSession(d) ==
    /\ signing[d].step = "checked"
    /\ sessions' = [sessions EXCEPT ![d] = signing[d].user]
    /\ slipped' = IF signing[d].active /\ ~users[signing[d].user].active
                  THEN slipped \cup {d} ELSE slipped \ {d}
    /\ signing' = [signing EXCEPT ![d] = NotSigning]
    /\ UNCHANGED <<users, calls, link, unrevoked, switches, accountFaults>>

(***************************************************************************)
(* The platform administration                                             *)
(***************************************************************************)
(* Slip: the check allows the last one. *)
SomeAdminExists == Cardinality(Admins) >= 1

AnotherAdminExists == Cardinality(Admins) > 1

(* The guard of the controller lets an administrator in, by what the       *)
(* session says of its user; the service then reads the target, and        *)
(* protects the caller and the last administrator.                         *)
Authorize(c, a) ==
    /\ calls[c] = NotCalling /\ users[a].role = "admin"
    /\ users[a].exists \/ \E d \in Devices : sessions[d] = a
    /\ Calls(c, "authorized", "any", a, {})
    /\ UNCHANGED <<users, sessions, signing, link, slipped, unrevoked, switches, accountFaults>>

IsProtected(u) == u \in Admins /\ ~AnotherAdminExists

AskAdministration(c, u) ==
    /\ calls[c].step = "authorized" /\ users[u].exists
    /\ \E kind \in {"promote", "demote", "ban", "unban", "deactivate", "reactivate"} :
        /\ kind \in {"demote", "ban", "deactivate"} => calls[c].user # u /\ ~IsProtected(u)
        /\ kind = "deactivate" => users[u].active
        /\ kind = "reactivate" => ~users[u].active
        /\ kind \in {"deactivate", "reactivate"} => switches < MaxSwitches
        /\ Calls(c, "asked", kind, u, Admins)
    /\ UNCHANGED <<users, sessions, signing, link, slipped, unrevoked, switches, accountFaults>>

\* Someone deactivates the account they are signed in to; no count is taken.
AskOwnDeactivation(c, d) ==
    /\ calls[c] = NotCalling /\ sessions[d] # Nobody /\ switches < MaxSwitches
    /\ Calls(c, "asked", "deactivate", sessions[d], Admins)
    /\ UNCHANGED <<users, sessions, signing, link, slipped, unrevoked, switches, accountFaults>>

Written(user, kind) ==
    CASE kind = "promote" -> [user EXCEPT !.role = "admin"]
      [] kind = "demote" -> [user EXCEPT !.role = "user"]
      [] kind = "ban" -> [user EXCEPT !.banned = TRUE]
      [] kind = "unban" -> [user EXCEPT !.banned = FALSE]
      [] kind = "deactivate" -> [user EXCEPT !.active = FALSE]
      [] kind = "reactivate" -> [user EXCEPT !.active = TRUE]

(* The call that writes the user; a ban revokes the sessions itself, a     *)
(* deactivation has to ask for it.                                         *)
WriteUser(c) ==
    /\ calls[c].step = "asked"
    /\ LET u == calls[c].user
           kind == calls[c].kind
       IN /\ users' = [users EXCEPT ![u] = IF @.exists THEN Written(@, kind) ELSE @]
          /\ sessions' = IF kind = "ban" THEN NoSessions(u) ELSE sessions
          /\ switches' = IF kind \in {"deactivate", "reactivate"} THEN switches + 1 ELSE switches
          /\ IF kind = "deactivate" THEN Goes(c, "revoking") ELSE Returns(c)
          /\ unrevoked' = IF kind = "ban" THEN unrevoked \ {u} ELSE unrevoked
    /\ UNCHANGED <<signing, link, slipped, accountFaults>>

RevokedSessions(u) == NoSessions(u)

RevokeSessions(c) ==
    /\ calls[c].step = "revoking"
    /\ \/ /\ sessions' = RevokedSessions(calls[c].user)
          /\ unrevoked' = unrevoked \ {calls[c].user}
          /\ Returns(c) /\ UNCHANGED accountFaults
       \/ /\ HasAccountFault /\ AccountFault
          /\ Goes(c, "undoing") /\ UNCHANGED <<sessions, unrevoked>>
    /\ UNCHANGED <<users, signing, link, slipped, switches>>

(* The compensation writes the active flag back, or fails and is logged.   *)
UndoDeactivation(c) ==
    /\ calls[c].step = "undoing" /\ Returns(c)
    /\ \/ /\ users' = [users EXCEPT ![calls[c].user].active = @ \/ users[calls[c].user].exists]
          /\ UNCHANGED <<unrevoked, accountFaults>>
       \/ /\ HasAccountFault /\ AccountFault
          /\ unrevoked' = unrevoked \cup {calls[c].user} /\ UNCHANGED users
    /\ UNCHANGED <<sessions, signing, link, slipped, switches>>

CallerDies(c) ==
    /\ HasAccountFault /\ AccountFault
    /\ calls[c].step \in {"authorized", "asked", "revoking", "undoing", "confirmed", "reactivated"}
    /\ Returns(c)
    /\ unrevoked' = IF calls[c].step \in {"revoking", "undoing"}
                    THEN unrevoked \cup {calls[c].user} ELSE unrevoked
    /\ UNCHANGED <<users, sessions, signing, link, slipped, switches>>

(***************************************************************************)
(* The reactivation link, and the clean-up of what stayed inactive         *)
(***************************************************************************)
RequestReactivation(u) ==
    /\ users[u].exists /\ ~users[u].active /\ u \notin link
    /\ link' = link \cup {u}
    /\ UNCHANGED <<users, sessions, signing, calls, slipped, unrevoked, switches, accountFaults>>

ReadLink(c, u) ==
    /\ calls[c] = NotCalling /\ u \in link /\ switches < MaxSwitches
    /\ Calls(c, "confirmed", "reactivate", u, {})
    /\ UNCHANGED <<users, sessions, signing, link, slipped, unrevoked, switches, accountFaults>>

ConfirmReactivation(c) ==
    /\ calls[c].step = "confirmed" /\ Goes(c, "reactivated")
    /\ LET u == calls[c].user
       IN users' = [users EXCEPT ![u] = IF @.exists THEN Written(@, "reactivate") ELSE @]
    /\ switches' = switches + 1
    /\ UNCHANGED <<sessions, signing, link, slipped, unrevoked, accountFaults>>

DropLink(c) ==
    /\ calls[c].step = "reactivated" /\ Returns(c)
    /\ link' = link \ {calls[c].user}
    /\ UNCHANGED <<users, sessions, signing, slipped, unrevoked, switches, accountFaults>>

LinkExpires(u) ==
    /\ u \in link /\ link' = link \ {u}
    /\ UNCHANGED <<users, sessions, signing, calls, slipped, unrevoked, switches, accountFaults>>

(* A deactivation that wrote the account and still has its sessions to end. *)
Deactivating(u) ==
    \E c \in Callers : calls[c].step \in {"revoking", "undoing"} /\ calls[c].user = u

(* One statement deletes every account inactive for thirty days, longer than *)
(* a deactivation takes; a session is no row, so one that is left stays.      *)
CleanUpAccounts ==
    /\ \E old \in SUBSET {u \in Users : users[u].exists /\ ~users[u].active /\ ~Deactivating(u)} :
        /\ old # {}
        /\ users' = [u \in Users |->
               IF u \in old THEN [users[u] EXCEPT !.exists = FALSE] ELSE users[u]]
    /\ UNCHANGED <<sessions, signing, calls, link, slipped, unrevoked, switches, accountFaults>>

AccountsNext ==
    \/ \E d \in Devices : (\E u \in Users : CheckActivation(d, u)) \/ CreateSession(d)
    \/ \E c \in Callers :
        \/ \E u \in Users : Authorize(c, u) \/ AskAdministration(c, u) \/ ReadLink(c, u)
        \/ \E d \in Devices : AskOwnDeactivation(c, d)
        \/ WriteUser(c) \/ RevokeSessions(c) \/ UndoDeactivation(c)
        \/ ConfirmReactivation(c) \/ DropLink(c) \/ CallerDies(c)
    \/ \E u \in Users : RequestReactivation(u) \/ LinkExpires(u)
    \/ CleanUpAccounts

AccountsSpec == AccountsInit /\ [][AccountsNext]_accountsVars

(***************************************************************************)
(* Properties                                                              *)
(***************************************************************************)
\* A demotion leaves no administrator only when it was decided on a set of
\* administrators that another request has changed since: the check alone
\* never lets the last one go, also when its caller lost the role meanwhile.
LastAdminGoesOnlyInARace ==
    [][\A c \in Callers :
        (calls[c].step = "asked" /\ calls[c].kind = "demote" /\ calls'[c] = NotCalling
            /\ Admins # {} /\ Admins' = {}) => calls[c].saw # Admins]_accountsVars

\* Once a deactivation is done, no device is signed in to the account, but
\* for one whose sign-in was checked before the deactivation and written
\* after it, and for a revocation that failed together with its undoing; so
\* it is of a deleted account, whose sessions the deletion does not reach.
SessionsEndWithTheAccount ==
    \A u \in Users :
        \/ users[u].active \/ u \in unrevoked \/ Deactivating(u)
        \/ {d \in Devices : sessions[d] = u} \subseteq slipped
===============================================================================
