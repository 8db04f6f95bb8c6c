---------------------------- MODULE PlatformProofs ----------------------------
(***************************************************************************)
(* The store's side of the platform, for any number of users, devices,     *)
(* requests, readers and rows: accounts, address books, comments, the read *)
(* cache with its permits and its breaker, the founding of stores and what *)
(* people do to them; and, with CatalogueProofs, what the parts promise    *)
(* together.                                                               *)
(***************************************************************************)
EXTENDS Platform, CatalogueProofs

-----------------------------------------------------------------------------
(* Accounts                                                                *)
(*                                                                         *)
(* SessionsEndWithTheAccount is inductive once it is known that a sign-in  *)
(* under way was checked while its account was active, that its device is  *)
(* signed in to nothing meanwhile, and that a deleted account, which a     *)
(* late undoing cannot bring back, was inactive and has no other session.  *)

UserRows == [role : {"admin", "user"}, active : BOOLEAN, banned : BOOLEAN,
             exists : BOOLEAN]

SignInRows == {NotSigning} \cup [step : {"checked"}, user : Users, active : {TRUE}]

CallKinds == {"any", "promote", "demote", "ban", "unban", "deactivate", "reactivate"}

CallSteps == {"authorized", "asked", "revoking", "undoing", "confirmed", "reactivated"}

CallRows ==
    {NotCalling} \cup
    [step : CallSteps,
     kind : CallKinds, user : Users, saw : SUBSET Users]

AccountsTypeOK ==
    /\ users \in [Users -> UserRows]
    /\ sessions \in [Devices -> Users \cup {Nobody}]
    /\ signing \in [Devices -> SignInRows]
    /\ calls \in [Callers -> CallRows]
    /\ link \subseteq Users /\ slipped \subseteq Devices /\ unrevoked \subseteq Users

SigningDevicesAreFree ==
    \A d \in Devices : signing[d] # NotSigning => sessions[d] = Nobody

\* A call that asks knows what for, and a demotion was asked for against
\* administrators that would not all go.
AskedSoundly(call) ==
    call.step = "asked" =>
        /\ call.kind # "any"
        /\ call.kind = "demote" => call.user \notin call.saw \/ Cardinality(call.saw) > 1

DemotionsWereChecked == \A c \in Callers : AskedSoundly(calls[c])

\* A deleted account was inactive, with the sessions of the two exceptions only.
LeavesNoSession(u) ==
    u \in unrevoked \/ {d \in Devices : sessions[d] = u} \subseteq slipped

DeletedAccountsAreEnded ==
    \A u \in Users : ~users[u].exists => ~users[u].active /\ LeavesNoSession(u)

AccountsAgree ==
    /\ AccountsTypeOK
    /\ SigningDevicesAreFree
    /\ DemotionsWereChecked
    /\ DeletedAccountsAreEnded
    /\ SessionsEndWithTheAccount

LEMMA CallsType ==
    ASSUME calls \in [Callers -> CallRows], NEW c \in Callers,
           NEW step \in CallSteps,
           NEW kind \in CallKinds, NEW u \in Users, NEW saw \in SUBSET Users,
           Calls(c, step, kind, u, saw)
    PROVE  /\ calls' \in [Callers -> CallRows]
           /\ calls'[c] = [step |-> step, kind |-> kind, user |-> u, saw |-> saw]
           /\ \A e \in Callers : e # c => calls'[e] = calls[e]
  <1> DEFINE new == [step |-> step, kind |-> kind, user |-> u, saw |-> saw]
  <1>1. new \in CallRows
    BY DEF CallRows
  <1>2. calls' = [calls EXCEPT ![c] = new]
    BY DEF Calls
  <1> HIDE DEF new
  <1>3. /\ calls' \in [Callers -> CallRows] /\ calls'[c] = new
        /\ \A e \in Callers : e # c => calls'[e] = calls[e]
    BY <1>1, <1>2
  <1>. QED
    BY <1>3 DEF new

LEMMA GoesType ==
    ASSUME calls \in [Callers -> CallRows], NEW c \in Callers,
           calls[c] # NotCalling,
           NEW step \in CallSteps,
           Goes(c, step)
    PROVE  /\ calls' \in [Callers -> CallRows]
           /\ calls'[c].step = step /\ calls'[c].user = calls[c].user
           /\ \A e \in Callers : e # c => calls'[e] = calls[e]
  <1> DEFINE new == [calls[c] EXCEPT !.step = step]
  <1>1. /\ new \in CallRows /\ new.step = step /\ new.user = calls[c].user
    BY DEF CallRows
  <1>2. calls' = [calls EXCEPT ![c] = new]
    BY DEF Goes
  <1> HIDE DEF new
  <1>. QED
    BY <1>1, <1>2

LEMMA ReturnsType ==
    ASSUME calls \in [Callers -> CallRows], NEW c \in Callers, Returns(c)
    PROVE  /\ calls' \in [Callers -> CallRows] /\ calls'[c] = NotCalling
           /\ calls'[c].step = "idle"
           /\ \A e \in Callers : e # c => calls'[e] = calls[e]
  <1>1. NotCalling \in CallRows /\ NotCalling.step = "idle"
    BY DEF CallRows, CallSteps, NotCalling
  <1>. QED
    BY <1>1 DEF Returns

LEMMA CheckActivationStep ==
    ASSUME AccountsAgree, NEW d \in Devices, NEW u \in Users, CheckActivation(d, u)
    PROVE  AccountsAgree'
  <1> DEFINE new == [step |-> "checked", user |-> u, active |-> users[u].active]
  <1>1. new \in SignInRows
    BY DEF CheckActivation, MaySignIn, AccountsAgree, AccountsTypeOK, UserRows, SignInRows
  <1>2. signing' = [signing EXCEPT ![d] = new]
    BY DEF CheckActivation
  <1> HIDE DEF new
  <1>3. UNCHANGED <<users, sessions, calls, link, slipped, unrevoked>> /\ sessions[d] = Nobody
    BY DEF CheckActivation
  <1>4. AccountsTypeOK'
    BY <1>1, <1>2, <1>3 DEF AccountsAgree, AccountsTypeOK
  <1>5. SigningDevicesAreFree'
    BY <1>1, <1>2, <1>3 DEF AccountsAgree, AccountsTypeOK, SigningDevicesAreFree
  <1>6. DemotionsWereChecked' /\ SessionsEndWithTheAccount' /\ DeletedAccountsAreEnded'
    BY <1>3 DEF AccountsAgree, DemotionsWereChecked, SessionsEndWithTheAccount,
                DeletedAccountsAreEnded, LeavesNoSession, Deactivating
  <1>. QED
    BY <1>4, <1>5, <1>6 DEF AccountsAgree

LEMMA CreateSessionStep ==
    ASSUME AccountsAgree, NEW d \in Devices, CreateSession(d)
    PROVE  AccountsAgree'
  <1> PICK u \in Users : u = signing[d].user /\ signing[d].active = TRUE /\ signing[d] # NotSigning
    <2> PICK row \in SignInRows : row = signing[d]
      BY DEF AccountsAgree, AccountsTypeOK
    <2>1. row.step = "checked"
      BY DEF CreateSession
    <2>2. row # NotSigning
      BY <2>1 DEF NotSigning
    <2>3. row \in [step : {"checked"}, user : Users, active : {TRUE}]
      BY <2>2 DEF SignInRows
    <2>. QED
      BY <2>2, <2>3
  <1>1. /\ UNCHANGED <<users, calls, link, unrevoked>>
        /\ signing' = [signing EXCEPT ![d] = NotSigning]
        /\ slipped' = IF ~users[u].active THEN slipped \cup {d} ELSE slipped \ {d}
    BY DEF CreateSession
  <1>6. sessions' = [sessions EXCEPT ![d] = u]
    BY DEF CreateSession
  <1>2. AccountsTypeOK'
    BY <1>1, <1>6 DEF AccountsAgree, AccountsTypeOK, SignInRows
  <1>3. SigningDevicesAreFree'
    BY <1>1, <1>6 DEF AccountsAgree, AccountsTypeOK, SigningDevicesAreFree
  <1>4. DemotionsWereChecked'
    BY <1>1 DEF AccountsAgree, DemotionsWereChecked
  <1>5. ASSUME NEW v \in Users, ~users[v].active, NEW e \in Devices, sessions'[e] = v,
               e # d => e \in slipped
        PROVE  e \in slipped'
    <2>1. CASE e = d
      <3>1. v = u
        BY <1>5, <1>6, <2>1 DEF AccountsAgree, AccountsTypeOK
      <3>. QED
        BY <1>1, <1>5, <2>1, <3>1
    <2>2. CASE e # d
      BY <1>1, <1>5, <2>2
    <2>. QED
      BY <2>1, <2>2
  <1>7. \A e \in Devices : e # d => sessions'[e] = sessions[e]
    BY <1>6 DEF AccountsAgree, AccountsTypeOK
  <1>8. SessionsEndWithTheAccount'
    <2> SUFFICES ASSUME NEW v \in Users, ~users[v].active, v \notin unrevoked,
                        ~Deactivating(v), NEW e \in Devices, sessions'[e] = v
                 PROVE  e \in slipped'
      BY <1>1 DEF SessionsEndWithTheAccount, Deactivating
    <2>1. e # d => e \in slipped
      BY <1>7 DEF AccountsAgree, SessionsEndWithTheAccount
    <2>. QED
      BY <1>5, <2>1
  <1>9. DeletedAccountsAreEnded'
    <2> SUFFICES ASSUME NEW v \in Users, ~users[v].exists, v \notin unrevoked,
                        NEW e \in Devices, sessions'[e] = v
                 PROVE  e \in slipped'
      BY <1>1 DEF AccountsAgree, DeletedAccountsAreEnded, LeavesNoSession
    <2>1. ~users[v].active
      BY DEF AccountsAgree, DeletedAccountsAreEnded
    <2>2. e # d => e \in slipped
      BY <1>7 DEF AccountsAgree, DeletedAccountsAreEnded, LeavesNoSession
    <2>. QED
      BY <1>5, <2>1, <2>2
  <1>. QED
    BY <1>2, <1>3, <1>4, <1>8, <1>9 DEF AccountsAgree

\* What one write may do to the users and the sessions.
LEMMA WrittenType ==
    ASSUME NEW row \in UserRows, NEW kind \in CallKinds \ {"any"}
    PROVE  /\ Written(row, kind) \in UserRows
           /\ Written(row, kind).exists = row.exists
           /\ kind # "deactivate" /\ row.active => Written(row, kind).active
           /\ kind # "demote" => (row.role = "admin" => Written(row, kind).role = "admin")
  <1>1. CASE kind = "promote"
    BY <1>1 DEF Written, UserRows
  <1>2. CASE kind = "demote"
    BY <1>2 DEF Written, UserRows
  <1>3. CASE kind = "ban"
    BY <1>3 DEF Written, UserRows
  <1>4. CASE kind = "unban"
    BY <1>4 DEF Written, UserRows
  <1>5. CASE kind = "deactivate"
    BY <1>5 DEF Written, UserRows
  <1>6. CASE kind = "reactivate"
    BY <1>6 DEF Written, UserRows
  <1>. QED
    BY <1>1, <1>2, <1>3, <1>4, <1>5, <1>6 DEF CallKinds

LEMMA NoSessionsType ==
    ASSUME AccountsAgree, NEW u \in Users
    PROVE  /\ NoSessions(u) \in [Devices -> Users \cup {Nobody}]
           /\ \A d \in Devices : /\ NoSessions(u)[d] # u
                                 /\ NoSessions(u)[d] \in {sessions[d], Nobody}
  BY UsersAreNamed DEF NoSessions, AccountsAgree, AccountsTypeOK, Nobody

\* A call that begins or goes on without a write disturbs nothing but, when it
\* asks, what it saw; it is not one that revokes.
LEMMA CallBegins ==
    ASSUME AccountsAgree, NEW c \in Callers,
           calls[c].step \notin {"revoking", "undoing"},
           calls' \in [Callers -> CallRows],
           \A e \in Callers : e # c => calls'[e] = calls[e],
           AskedSoundly(calls'[c]),
           UNCHANGED <<users, sessions, signing, slipped, unrevoked>>,
           link' \subseteq Users
    PROVE  AccountsAgree'
  <1>1. AccountsTypeOK' /\ SigningDevicesAreFree'
    BY DEF AccountsAgree, AccountsTypeOK, SigningDevicesAreFree
  <1>2. DemotionsWereChecked'
    BY DEF AccountsAgree, DemotionsWereChecked
  <1>3. SessionsEndWithTheAccount' /\ DeletedAccountsAreEnded'
    BY DEF AccountsAgree, SessionsEndWithTheAccount, DeletedAccountsAreEnded,
           LeavesNoSession, Deactivating
  <1>. QED
    BY <1>1, <1>2, <1>3 DEF AccountsAgree

LEMMA AuthorizeStep ==
    ASSUME AccountsAgree, NEW c \in Callers, NEW u \in Users, Authorize(c, u)
    PROVE  AccountsAgree'
  <1>1. /\ calls' \in [Callers -> CallRows]
        /\ calls'[c] = [step |-> "authorized", kind |-> "any", user |-> u, saw |-> {}]
        /\ \A e \in Callers : e # c => calls'[e] = calls[e]
    <2>1. /\ "authorized" \in CallSteps /\ "any" \in CallKinds /\ {} \in SUBSET Users
          /\ calls \in [Callers -> CallRows] /\ Calls(c, "authorized", "any", u, {})
      BY DEF Authorize, CallSteps, CallKinds, AccountsAgree, AccountsTypeOK
    <2>. QED
      BY <2>1, CallsType
  <1>2. /\ calls[c].step \notin {"revoking", "undoing"}
        /\ calls'[c].step # "asked"
    BY <1>1 DEF Authorize, NotCalling
  <1>3. UNCHANGED <<users, sessions, signing, link, slipped, unrevoked>> /\ link' \subseteq Users
    BY DEF Authorize, AccountsAgree, AccountsTypeOK
  <1>. QED
    BY <1>1, <1>2, <1>3, CallBegins DEF AskedSoundly

LEMMA AskAdministrationStep ==
    ASSUME AccountsAgree, NEW c \in Callers, NEW u \in Users, AskAdministration(c, u)
    PROVE  AccountsAgree'
  <1> PICK kind \in CallKinds \ {"any"} :
          /\ kind = "demote" => calls[c].user # u /\ ~IsProtected(u)
          /\ Calls(c, "asked", kind, u, Admins)
    <2>1. \A k \in {"promote", "demote", "ban", "unban", "deactivate", "reactivate"} :
              k \in CallKinds \ {"any"}
      BY DEF CallKinds
    <2>. QED
      BY <2>1 DEF AskAdministration
  <1>1. /\ calls' \in [Callers -> CallRows]
        /\ calls'[c] = [step |-> "asked", kind |-> kind, user |-> u, saw |-> Admins]
        /\ \A e \in Callers : e # c => calls'[e] = calls[e]
    <2>1. /\ "asked" \in CallSteps /\ Admins \in SUBSET Users
          /\ calls \in [Callers -> CallRows]
      BY DEF CallSteps, Admins, AccountsAgree, AccountsTypeOK
    <2>. QED
      BY <2>1, CallsType
  <1>2. kind = "demote" => u \notin Admins \/ Cardinality(Admins) > 1
    BY DEF IsProtected, AnotherAdminExists
  <1>3. /\ calls[c].step \notin {"revoking", "undoing"}
        /\ UNCHANGED <<users, sessions, signing, link, slipped, unrevoked>>
        /\ link' \subseteq Users
    BY DEF AskAdministration, AccountsAgree, AccountsTypeOK
  <1>. QED
    BY <1>1, <1>2, <1>3, CallBegins DEF AskedSoundly

LEMMA AskOwnDeactivationStep ==
    ASSUME AccountsAgree, NEW c \in Callers, NEW d \in Devices, AskOwnDeactivation(c, d)
    PROVE  AccountsAgree'
  <1>1. /\ calls' \in [Callers -> CallRows]
        /\ calls'[c] = [step |-> "asked", kind |-> "deactivate", user |-> sessions[d],
                        saw |-> Admins]
        /\ \A e \in Callers : e # c => calls'[e] = calls[e]
    <2>1. /\ "asked" \in CallSteps /\ "deactivate" \in CallKinds /\ Admins \in SUBSET Users
          /\ sessions[d] \in Users
          /\ calls \in [Callers -> CallRows]
          /\ Calls(c, "asked", "deactivate", sessions[d], Admins)
      BY DEF AskOwnDeactivation, CallSteps, CallKinds, Admins, AccountsAgree, AccountsTypeOK
    <2>. QED
      BY <2>1, CallsType
  <1>2. /\ calls[c].step \notin {"revoking", "undoing"}
        /\ calls'[c].kind # "demote"
        /\ UNCHANGED <<users, sessions, signing, link, slipped, unrevoked>>
        /\ link' \subseteq Users
    BY <1>1 DEF AskOwnDeactivation, NotCalling, AccountsAgree, AccountsTypeOK
  <1>. QED
    BY <1>1, <1>2, CallBegins DEF AskedSoundly

LEMMA ReadLinkStep ==
    ASSUME AccountsAgree, NEW c \in Callers, NEW u \in Users, ReadLink(c, u)
    PROVE  AccountsAgree'
  <1>1. /\ calls' \in [Callers -> CallRows]
        /\ calls'[c] = [step |-> "confirmed", kind |-> "reactivate", user |-> u, saw |-> {}]
        /\ \A e \in Callers : e # c => calls'[e] = calls[e]
    <2>1. /\ "confirmed" \in CallSteps /\ "reactivate" \in CallKinds /\ {} \in SUBSET Users
          /\ calls \in [Callers -> CallRows] /\ Calls(c, "confirmed", "reactivate", u, {})
      BY DEF ReadLink, CallSteps, CallKinds, AccountsAgree, AccountsTypeOK
    <2>. QED
      BY <2>1, CallsType
  <1>2. /\ calls[c].step \notin {"revoking", "undoing"}
        /\ calls'[c].step # "asked"
    BY <1>1 DEF ReadLink, NotCalling
  <1>3. UNCHANGED <<users, sessions, signing, link, slipped, unrevoked>> /\ link' \subseteq Users
    BY DEF ReadLink, AccountsAgree, AccountsTypeOK
  <1>. QED
    BY <1>1, <1>2, <1>3, CallBegins DEF AskedSoundly

LEMMA DropLinkStep ==
    ASSUME AccountsAgree, NEW c \in Callers, DropLink(c)
    PROVE  AccountsAgree'
  <1>1. /\ calls' \in [Callers -> CallRows] /\ calls'[c].step = "idle"
        /\ \A e \in Callers : e # c => calls'[e] = calls[e]
    BY ReturnsType DEF DropLink, AccountsAgree, AccountsTypeOK
  <1>2. /\ calls[c].step \notin {"revoking", "undoing"}
        /\ UNCHANGED <<users, sessions, signing, slipped, unrevoked>>
        /\ link' \subseteq Users
    BY DEF DropLink, AccountsAgree, AccountsTypeOK
  <1>. QED
    BY <1>1, <1>2, CallBegins DEF AskedSoundly

LEMMA LinkStep ==
    ASSUME AccountsAgree, NEW u \in Users, RequestReactivation(u) \/ LinkExpires(u)
    PROVE  AccountsAgree'
  <1>1. /\ UNCHANGED <<users, sessions, signing, calls, slipped, unrevoked>>
        /\ link' \subseteq Users
    BY DEF RequestReactivation, LinkExpires, AccountsAgree, AccountsTypeOK
  <1>. QED
    BY <1>1 DEF AccountsAgree, AccountsTypeOK, SigningDevicesAreFree,
                DemotionsWereChecked, SessionsEndWithTheAccount,
                DeletedAccountsAreEnded, LeavesNoSession, Deactivating

\* The row of a caller that has something to write.
LEMMA CallerRow ==
    ASSUME AccountsAgree, NEW c \in Callers, calls[c].step \in CallSteps
    PROVE  /\ calls[c] # NotCalling /\ calls[c].user \in Users
           /\ calls[c].kind \in CallKinds /\ calls[c].saw \in SUBSET Users
  <1> PICK row \in CallRows : row = calls[c]
    BY DEF AccountsAgree, AccountsTypeOK
  <1>1. row # NotCalling
    BY DEF CallSteps, NotCalling
  <1>. QED
    BY <1>1 DEF CallRows

\* A write of one user's row.
LEMMA WriteKeepsOthers ==
    ASSUME AccountsAgree, NEW u \in Users, NEW new \in UserRows,
           users' = [users EXCEPT ![u] = new]
    PROVE  /\ users' \in [Users -> UserRows] /\ users'[u] = new
           /\ \A v \in Users : v # u => users'[v] = users[v]
  BY DEF AccountsAgree, AccountsTypeOK

LEMMA WriteUserStep ==
    ASSUME AccountsAgree, NEW c \in Callers, WriteUser(c)
    PROVE  AccountsAgree'
  <1>1. calls[c].step = "asked" /\ calls[c] # NotCalling
    BY CallerRow DEF WriteUser, CallSteps
  <1> PICK u \in Users, kind \in CallKinds \ {"any"} : u = calls[c].user /\ kind = calls[c].kind
    BY <1>1, CallerRow DEF CallSteps, AccountsAgree, DemotionsWereChecked, AskedSoundly
  <1> PICK new \in UserRows :
          /\ users' = [users EXCEPT ![u] = new]
          /\ kind # "deactivate" /\ users[u].active => new.active
          /\ new.exists = users[u].exists
          /\ ~users[u].exists => new = users[u]
    <2> DEFINE w == IF users[u].exists THEN Written(users[u], kind) ELSE users[u]
    <2>1. users[u] \in UserRows
      BY DEF AccountsAgree, AccountsTypeOK
    <2>2. /\ w \in UserRows /\ w.exists = users[u].exists
          /\ kind # "deactivate" /\ users[u].active => w.active
          /\ ~users[u].exists => w = users[u]
      BY <2>1, WrittenType
    <2>3. users' = [users EXCEPT ![u] = w]
      BY DEF WriteUser
    <2> HIDE DEF w
    <2>. QED
      BY <2>2, <2>3
  <1>2. /\ users' \in [Users -> UserRows] /\ users'[u] = new
        /\ \A v \in Users : v # u => users'[v] = users[v]
    BY WriteKeepsOthers
  <1>3. /\ sessions' = IF kind = "ban" THEN NoSessions(u) ELSE sessions
        /\ unrevoked' = IF kind = "ban" THEN unrevoked \ {u} ELSE unrevoked
        /\ UNCHANGED <<signing, link, slipped>>
    BY DEF WriteUser
  <1>4. /\ calls' \in [Callers -> CallRows]
        /\ calls'[c].step # "asked"
        /\ kind = "deactivate" => calls'[c].step = "revoking" /\ calls'[c].user = u
        /\ \A e \in Callers : e # c => calls'[e] = calls[e]
    <2>1. calls \in [Callers -> CallRows] /\ "revoking" \in CallSteps
      BY DEF AccountsAgree, AccountsTypeOK, CallSteps
    <2>2. CASE kind = "deactivate"
      <3>1. Goes(c, "revoking")
        BY <2>2 DEF WriteUser
      <3>. QED
        BY <1>1, <2>1, <3>1, GoesType
    <2>3. CASE kind # "deactivate"
      <3>1. Returns(c)
        BY <2>3 DEF WriteUser
      <3>. QED
        BY <2>1, <2>3, <3>1, ReturnsType
    <2>. QED
      BY <2>2, <2>3
  <1>5. /\ sessions' \in [Devices -> Users \cup {Nobody}]
        /\ \A d \in Devices : sessions'[d] \in {sessions[d], Nobody}
        /\ kind = "ban" => \A d \in Devices : sessions'[d] # u
    BY <1>3, NoSessionsType DEF AccountsAgree, AccountsTypeOK
  <1>6. AccountsTypeOK'
    BY <1>2, <1>3, <1>4, <1>5 DEF AccountsAgree, AccountsTypeOK
  <1>7. SigningDevicesAreFree'
    BY <1>3, <1>5 DEF AccountsAgree, SigningDevicesAreFree
  <1>8. DemotionsWereChecked'
    BY <1>4 DEF AccountsAgree, DemotionsWereChecked, AskedSoundly
  <1>9. SessionsEndWithTheAccount'
    <2> SUFFICES ASSUME NEW v \in Users, ~users'[v].active, v \notin unrevoked',
                        ~Deactivating(v)', NEW d \in Devices, sessions'[d] = v
                 PROVE  d \in slipped'
      BY DEF SessionsEndWithTheAccount
    <2>1. sessions[d] = v
      BY <1>5, UsersAreNamed DEF Nobody
    <2>2. ~Deactivating(v)
      BY <1>1, <1>4 DEF Deactivating
    <2>3. ~users[v].active /\ v \notin unrevoked
      <3>1. CASE v = u
        <4>1. kind # "deactivate" /\ kind # "ban"
          BY <1>4, <1>5, <3>1 DEF Deactivating
        <4>. QED
          BY <1>2, <1>3, <3>1, <4>1
      <3>2. CASE v # u
        BY <1>2, <1>3, <3>2
      <3>. QED
        BY <3>1, <3>2
    <2>. QED
      BY <1>3, <2>1, <2>2, <2>3 DEF AccountsAgree, SessionsEndWithTheAccount
  <1>10. DeletedAccountsAreEnded'
    <2> SUFFICES ASSUME NEW v \in Users, ~users'[v].exists
                 PROVE  ~users'[v].active /\ LeavesNoSession(v)'
      BY DEF DeletedAccountsAreEnded
    <2>1. users'[v] = users[v] /\ ~users[v].exists
      BY <1>2
    <2>2. ~users[v].active /\ LeavesNoSession(v)
      BY <2>1 DEF AccountsAgree, DeletedAccountsAreEnded
    <2>3. {d \in Devices : sessions'[d] = v} \subseteq {d \in Devices : sessions[d] = v}
      BY <1>5, UsersAreNamed DEF Nobody
    <2>4. v # u => (v \in unrevoked => v \in unrevoked')
      BY <1>3
    <2>5. v = u /\ kind = "ban" => {d \in Devices : sessions'[d] = v} = {}
      BY <1>5
    <2>. QED
      BY <1>3, <2>1, <2>2, <2>3, <2>4, <2>5 DEF LeavesNoSession
  <1>. QED
    BY <1>6, <1>7, <1>8, <1>9, <1>10 DEF AccountsAgree

LEMMA RevokeSessionsStep ==
    ASSUME AccountsAgree, NEW c \in Callers, RevokeSessions(c)
    PROVE  AccountsAgree'
  <1>1. calls[c].step = "revoking" /\ calls[c] # NotCalling /\ calls[c].user \in Users
    BY CallerRow DEF RevokeSessions, CallSteps
  <1> PICK u \in Users : u = calls[c].user
    BY <1>1
  <1>2. UNCHANGED <<users, signing, link, slipped>>
    BY DEF RevokeSessions
  <1>3. /\ calls' \in [Callers -> CallRows] /\ calls'[c].step # "asked"
        /\ \A e \in Callers : e # c => calls'[e] = calls[e]
        /\ \/ /\ sessions' = NoSessions(u) /\ unrevoked' = unrevoked \ {u}
           \/ /\ UNCHANGED <<sessions, unrevoked>>
              /\ calls'[c].step = "undoing" /\ calls'[c].user = u
    <2>1. calls \in [Callers -> CallRows] /\ "undoing" \in CallSteps
      BY DEF AccountsAgree, AccountsTypeOK, CallSteps
    <2>2. CASE Returns(c) /\ sessions' = NoSessions(u) /\ unrevoked' = unrevoked \ {u}
      BY <2>1, <2>2, ReturnsType
    <2>3. CASE Goes(c, "undoing") /\ UNCHANGED <<sessions, unrevoked>>
      BY <1>1, <2>1, <2>3, GoesType
    <2>. QED
      BY <2>2, <2>3 DEF RevokeSessions, RevokedSessions
  <1>4. /\ sessions' \in [Devices -> Users \cup {Nobody}]
        /\ \A d \in Devices : sessions'[d] \in {sessions[d], Nobody}
    BY <1>3, NoSessionsType DEF AccountsAgree, AccountsTypeOK
  <1>5. AccountsTypeOK' /\ SigningDevicesAreFree'
    BY <1>2, <1>3, <1>4 DEF AccountsAgree, AccountsTypeOK, SigningDevicesAreFree
  <1>6. DemotionsWereChecked'
    BY <1>3 DEF AccountsAgree, DemotionsWereChecked, AskedSoundly
  <1>7. SessionsEndWithTheAccount'
    <2> SUFFICES ASSUME NEW v \in Users, ~users[v].active, v \notin unrevoked',
                        ~Deactivating(v)', NEW d \in Devices, sessions'[d] = v
                 PROVE  d \in slipped
      BY <1>2 DEF SessionsEndWithTheAccount
    <2>1. v # u
      BY <1>3, NoSessionsType DEF Deactivating
    <2>2. sessions[d] = v
      BY <1>4, UsersAreNamed DEF Nobody
    <2>3. v \notin unrevoked
      BY <1>3, <2>1
    <2>4. ~Deactivating(v)
      BY <1>3, <2>1 DEF Deactivating
    <2>. QED
      BY <2>2, <2>3, <2>4 DEF AccountsAgree, SessionsEndWithTheAccount
  <1>8. DeletedAccountsAreEnded'
    <2> SUFFICES ASSUME NEW v \in Users, ~users[v].exists
                 PROVE  LeavesNoSession(v)'
      BY <1>2 DEF AccountsAgree, DeletedAccountsAreEnded
    <2>1. LeavesNoSession(v)
      BY DEF AccountsAgree, DeletedAccountsAreEnded
    <2>2. {d \in Devices : sessions'[d] = v} \subseteq {d \in Devices : sessions[d] = v}
      BY <1>4, UsersAreNamed DEF Nobody
    <2>3. CASE v = u /\ sessions' = NoSessions(u)
      <3>1. {d \in Devices : sessions'[d] = v} = {}
        BY <2>3, NoSessionsType
      <3>. QED
        BY <3>1 DEF LeavesNoSession
    <2>4. CASE v # u \/ UNCHANGED <<sessions, unrevoked>>
      <3>1. v \in unrevoked => v \in unrevoked'
        BY <1>3, <2>4
      <3>. QED
        BY <1>2, <2>1, <2>2, <3>1 DEF LeavesNoSession
    <2>. QED
      BY <1>3, <2>3, <2>4
  <1>. QED
    BY <1>5, <1>6, <1>7, <1>8 DEF AccountsAgree

LEMMA UndoDeactivationStep ==
    ASSUME AccountsAgree, NEW c \in Callers, UndoDeactivation(c)
    PROVE  AccountsAgree'
  <1> PICK u \in Users : u = calls[c].user
    BY CallerRow DEF UndoDeactivation, CallSteps
  <1>1. /\ calls' \in [Callers -> CallRows] /\ calls'[c].step = "idle"
        /\ \A e \in Callers : e # c => calls'[e] = calls[e]
    BY ReturnsType DEF UndoDeactivation, AccountsAgree, AccountsTypeOK
  <1>2. UNCHANGED <<sessions, signing, link, slipped>>
    BY DEF UndoDeactivation
  <1>3. /\ users' \in [Users -> UserRows]
        /\ \A v \in Users : v # u => users'[v] = users[v]
        /\ unrevoked' \subseteq Users /\ unrevoked \subseteq unrevoked'
        /\ users'[u].exists = users[u].exists
        /\ users[u].exists => users'[u].active \/ u \in unrevoked'
        /\ ~users[u].exists => users'[u].active = users[u].active
    <2>1. CASE /\ users' = [users EXCEPT ![u].active = @ \/ users[u].exists]
               /\ UNCHANGED unrevoked
      <3> DEFINE new == [users[u] EXCEPT !.active = @ \/ users[u].exists]
      <3>1. /\ new \in UserRows /\ new.exists = users[u].exists
            /\ users[u].exists => new.active
            /\ ~users[u].exists => new.active = users[u].active
        <4> PICK row \in UserRows : row = users[u]
          BY DEF AccountsAgree, AccountsTypeOK
        <4>. QED
          BY DEF UserRows
      <3>2. users' = [users EXCEPT ![u] = new]
        BY <2>1
      <3> HIDE DEF new
      <3>3. /\ users' \in [Users -> UserRows] /\ users'[u] = new
            /\ \A v \in Users : v # u => users'[v] = users[v]
        BY <3>1, <3>2, WriteKeepsOthers
      <3>. QED
        BY <2>1, <3>1, <3>3 DEF AccountsAgree, AccountsTypeOK
    <2>2. CASE unrevoked' = unrevoked \cup {u} /\ UNCHANGED users
      BY <2>2 DEF AccountsAgree, AccountsTypeOK
    <2>. QED
      BY <2>1, <2>2 DEF UndoDeactivation
  <1>4. AccountsTypeOK' /\ SigningDevicesAreFree'
    BY <1>1, <1>2, <1>3 DEF AccountsAgree, AccountsTypeOK, SigningDevicesAreFree
  <1>5. DemotionsWereChecked'
    BY <1>1 DEF AccountsAgree, DemotionsWereChecked, AskedSoundly
  <1>6. SessionsEndWithTheAccount'
    <2> SUFFICES ASSUME NEW v \in Users
                 PROVE  \/ users'[v].active \/ v \in unrevoked' \/ Deactivating(v)'
                        \/ {d \in Devices : sessions[d] = v} \subseteq slipped
      BY <1>2 DEF SessionsEndWithTheAccount
    <2>1. CASE v = u /\ users[u].exists
      BY <1>3, <2>1
    <2>2. CASE v = u /\ ~users[u].exists
      BY <1>3, <2>2 DEF AccountsAgree, DeletedAccountsAreEnded, LeavesNoSession
    <2>3. CASE v # u
      <3>1. Deactivating(v) => Deactivating(v)'
        BY <1>1, <2>3 DEF Deactivating
      <3>. QED
        BY <1>3, <2>3, <3>1 DEF AccountsAgree, SessionsEndWithTheAccount
    <2>. QED
      BY <2>1, <2>2, <2>3
  <1>7. DeletedAccountsAreEnded'
    BY <1>2, <1>3 DEF AccountsAgree, DeletedAccountsAreEnded, LeavesNoSession
  <1>. QED
    BY <1>4, <1>5, <1>6, <1>7 DEF AccountsAgree

LEMMA CallerDiesStep ==
    ASSUME AccountsAgree, NEW c \in Callers, CallerDies(c)
    PROVE  AccountsAgree'
  <1> PICK u \in Users : u = calls[c].user
    BY CallerRow DEF CallerDies, CallSteps
  <1>1. /\ calls' \in [Callers -> CallRows] /\ calls'[c].step = "idle"
        /\ \A e \in Callers : e # c => calls'[e] = calls[e]
    BY ReturnsType DEF CallerDies, AccountsAgree, AccountsTypeOK
  <1>2. /\ UNCHANGED <<users, sessions, signing, link, slipped>>
        /\ unrevoked' = IF calls[c].step \in {"revoking", "undoing"}
                        THEN unrevoked \cup {u} ELSE unrevoked
    BY DEF CallerDies
  <1>3. AccountsTypeOK' /\ SigningDevicesAreFree'
    BY <1>1, <1>2 DEF AccountsAgree, AccountsTypeOK, SigningDevicesAreFree
  <1>4. DemotionsWereChecked'
    BY <1>1 DEF AccountsAgree, DemotionsWereChecked, AskedSoundly
  <1>5. SessionsEndWithTheAccount' /\ DeletedAccountsAreEnded'
    BY <1>1, <1>2 DEF AccountsAgree, SessionsEndWithTheAccount, DeletedAccountsAreEnded,
                      LeavesNoSession, Deactivating
  <1>. QED
    BY <1>3, <1>4, <1>5 DEF AccountsAgree

LEMMA ConfirmReactivationStep ==
    ASSUME AccountsAgree, NEW c \in Callers, ConfirmReactivation(c)
    PROVE  AccountsAgree'
  <1> PICK u \in Users : u = calls[c].user /\ calls[c] # NotCalling
    BY CallerRow DEF ConfirmReactivation, CallSteps
  <1>1. /\ calls' \in [Callers -> CallRows] /\ calls'[c].step = "reactivated"
        /\ \A e \in Callers : e # c => calls'[e] = calls[e]
    <2>1. "reactivated" \in CallSteps /\ Goes(c, "reactivated")
          /\ calls \in [Callers -> CallRows]
      BY DEF ConfirmReactivation, CallSteps, AccountsAgree, AccountsTypeOK
    <2>. QED
      BY <2>1, GoesType
  <1>2. UNCHANGED <<sessions, signing, link, slipped, unrevoked>>
    BY DEF ConfirmReactivation
  <1>3. /\ users' \in [Users -> UserRows]
        /\ \A v \in Users : /\ users[v].active => users'[v].active
                            /\ users'[v].exists = users[v].exists
                            /\ ~users[v].exists => users'[v].active = users[v].active
    <2> DEFINE new == IF users[u].exists THEN Written(users[u], "reactivate") ELSE users[u]
    <2>1. "reactivate" \in CallKinds \ {"any"} /\ users[u] \in UserRows
      BY DEF CallKinds, AccountsAgree, AccountsTypeOK
    <2>2. /\ new \in UserRows /\ (users[u].active => new.active)
          /\ new.exists = users[u].exists /\ (~users[u].exists => new = users[u])
      BY <2>1, WrittenType
    <2>3. users' = [users EXCEPT ![u] = new]
      BY DEF ConfirmReactivation
    <2> HIDE DEF new
    <2>4. /\ users' \in [Users -> UserRows] /\ users'[u] = new
          /\ \A v \in Users : v # u => users'[v] = users[v]
      BY <2>2, <2>3, WriteKeepsOthers
    <2>. QED
      BY <2>2, <2>4
  <1>4. AccountsTypeOK' /\ SigningDevicesAreFree'
    BY <1>1, <1>2, <1>3 DEF AccountsAgree, AccountsTypeOK, SigningDevicesAreFree
  <1>5. DemotionsWereChecked'
    BY <1>1 DEF AccountsAgree, DemotionsWereChecked, AskedSoundly
  <1>6. calls[c].step \notin {"revoking", "undoing"}
    BY DEF ConfirmReactivation
  <1>7. SessionsEndWithTheAccount'
    BY <1>1, <1>2, <1>3, <1>6 DEF AccountsAgree, SessionsEndWithTheAccount, Deactivating
  <1>8. DeletedAccountsAreEnded'
    BY <1>2, <1>3 DEF AccountsAgree, DeletedAccountsAreEnded, LeavesNoSession
  <1>. QED
    BY <1>4, <1>5, <1>7, <1>8 DEF AccountsAgree

LEMMA CleanUpStep ==
    ASSUME AccountsAgree, CleanUpAccounts
    PROVE  AccountsAgree'
  <1> PICK old \in SUBSET {u \in Users : users[u].exists /\ ~users[u].active /\ ~Deactivating(u)} :
          users' = [u \in Users |-> IF u \in old THEN [users[u] EXCEPT !.exists = FALSE] ELSE users[u]]
    BY DEF CleanUpAccounts
  <1>1. UNCHANGED <<sessions, signing, calls, link, slipped, unrevoked>>
    BY DEF CleanUpAccounts
  <1>2. /\ users' \in [Users -> UserRows]
        /\ \A u \in Users : users'[u].active = users[u].active
        /\ \A u \in Users : ~users'[u].exists => ~users[u].exists \/ u \in old
    BY DEF AccountsAgree, AccountsTypeOK, UserRows
  <1>3. AccountsTypeOK' /\ SigningDevicesAreFree'
    BY <1>1, <1>2 DEF AccountsAgree, AccountsTypeOK, SigningDevicesAreFree
  <1>4. DemotionsWereChecked'
    BY <1>1 DEF AccountsAgree, DemotionsWereChecked
  <1>5. SessionsEndWithTheAccount'
    BY <1>1, <1>2 DEF AccountsAgree, SessionsEndWithTheAccount, Deactivating
  <1>6. DeletedAccountsAreEnded'
    <2> SUFFICES ASSUME NEW u \in Users, ~users'[u].exists
                 PROVE  ~users[u].active /\ LeavesNoSession(u)
      BY <1>1, <1>2 DEF DeletedAccountsAreEnded, LeavesNoSession
    <2>1. CASE u \in old
      BY <2>1 DEF AccountsAgree, SessionsEndWithTheAccount, LeavesNoSession
    <2>2. CASE ~users[u].exists
      BY <2>2 DEF AccountsAgree, DeletedAccountsAreEnded
    <2>. QED
      BY <1>2, <2>1, <2>2
  <1>. QED
    BY <1>3, <1>4, <1>5, <1>6 DEF AccountsAgree

LEMMA AccountsStep ==
    ASSUME AccountsAgree, AccountsNext
    PROVE  AccountsAgree'
  BY CheckActivationStep, CreateSessionStep, AuthorizeStep, AskAdministrationStep,
     ReadLinkStep, AskOwnDeactivationStep, WriteUserStep, RevokeSessionsStep,
     UndoDeactivationStep, ConfirmReactivationStep, DropLinkStep, CallerDiesStep,
     LinkStep, CleanUpStep
     DEF AccountsNext

LEMMA AccountsBegin ==
    ASSUME AccountsInit
    PROVE  AccountsAgree
  <1>1. AccountsTypeOK
    BY DEF AccountsInit, AccountsTypeOK, UserRows, SignInRows, CallRows
  <1>2. SigningDevicesAreFree /\ DemotionsWereChecked
    BY DEF AccountsInit, SigningDevicesAreFree, DemotionsWereChecked, AskedSoundly, NotCalling
  <1>3. SessionsEndWithTheAccount /\ DeletedAccountsAreEnded
    BY DEF AccountsInit, SessionsEndWithTheAccount, DeletedAccountsAreEnded
  <1>. QED
    BY <1>1, <1>2, <1>3 DEF AccountsAgree

\* Users, sessions, sign-ins and requests agree in every reachable state.
THEOREM AccountsConsistency == AccountsSpec => []AccountsAgree
  <1>1. AccountsAgree /\ UNCHANGED accountsVars => AccountsAgree'
    BY DEF AccountsAgree, AccountsTypeOK, SigningDevicesAreFree, DemotionsWereChecked,
           SessionsEndWithTheAccount, DeletedAccountsAreEnded, LeavesNoSession,
           Deactivating, accountsVars
  <1>. QED
    BY <1>1, AccountsBegin, AccountsStep, PTL DEF AccountsSpec

\* A deactivated or deleted account has no session left, but for the two
\* windows the code leaves open: a sign-in that was checked before, and a
\* revocation that failed together with its undoing.
THEOREM SessionsAreEnded == AccountsSpec => []SessionsEndWithTheAccount
  BY AccountsConsistency, PTL DEF AccountsAgree

\* An asked call ends by its own write or its own death.
LEMMA AskedCallEnds ==
    ASSUME AccountsAgree, AccountsNext, NEW c \in Callers,
           calls[c].step = "asked", calls'[c] = NotCalling
    PROVE  WriteUser(c) \/ UNCHANGED users
  <1>1. calls[c] # NotCalling
    BY DEF NotCalling
  <1>2. ASSUME NEW e \in Callers, WriteUser(e)
        PROVE  WriteUser(c)
    <2>1. \A f \in Callers : f # e => calls'[f] = calls[f]
      BY <1>2 DEF WriteUser, Goes, Returns, AccountsAgree, AccountsTypeOK
    <2>. QED
      BY <1>1, <1>2, <2>1
  <1>3. ASSUME NEW e \in Callers, UndoDeactivation(e) \/ ConfirmReactivation(e)
        PROVE  FALSE
    <2>1. \A f \in Callers : f # e => calls'[f] = calls[f]
      BY <1>3 DEF UndoDeactivation, ConfirmReactivation, Goes, Returns,
                  AccountsAgree, AccountsTypeOK
    <2>2. calls[e].step # "asked"
      BY <1>3 DEF UndoDeactivation, ConfirmReactivation
    <2>. QED
      BY <1>1, <2>1, <2>2
  <1>4. ~CleanUpAccounts
    BY <1>1 DEF CleanUpAccounts
  <1>5. ASSUME NEW e \in Callers, NEW u \in Users,
               Authorize(e, u) \/ AskAdministration(e, u) \/ ReadLink(e, u)
        PROVE  UNCHANGED users
    BY <1>5 DEF Authorize, AskAdministration, ReadLink
  <1>6. ASSUME NEW e \in Callers,
               RevokeSessions(e) \/ DropLink(e) \/ CallerDies(e)
               \/ \E d \in Devices : AskOwnDeactivation(e, d)
        PROVE  UNCHANGED users
    BY <1>6 DEF RevokeSessions, DropLink, CallerDies, AskOwnDeactivation
  <1>7. ASSUME NEW d \in Devices, (\E u \in Users : CheckActivation(d, u)) \/ CreateSession(d)
        PROVE  UNCHANGED users
    BY <1>7 DEF CheckActivation, CreateSession
  <1>8. ASSUME NEW u \in Users, RequestReactivation(u) \/ LinkExpires(u)
        PROVE  UNCHANGED users
    BY <1>8 DEF RequestReactivation, LinkExpires
  <1>. QED
    BY <1>2, <1>3, <1>4, <1>5, <1>6, <1>7, <1>8 DEF AccountsNext

\* A demotion leaves no administrator only when it was decided on a set of
\* administrators that another request has changed since.
THEOREM LastAdminIsKept == AccountsSpec => LastAdminGoesOnlyInARace
  <1> DEFINE AdminsStay ==
          \A c \in Callers :
              (calls[c].step = "asked" /\ calls[c].kind = "demote" /\ calls'[c] = NotCalling
                  /\ Admins # {} /\ Admins' = {}) => calls[c].saw # Admins
  <1>1. AccountsAgree /\ AccountsAgree' /\ [AccountsNext]_accountsVars => [AdminsStay]_accountsVars
    <2> SUFFICES ASSUME AccountsAgree, AccountsNext, NEW c \in Callers,
                        calls[c].step = "asked", calls[c].kind = "demote",
                        calls'[c] = NotCalling, Admins # {}, Admins' = {},
                        calls[c].saw = Admins
                 PROVE  FALSE
      OBVIOUS
    <2>1. WriteUser(c)
      BY AskedCallEnds DEF Admins
    <2> PICK u \in Users : u = calls[c].user
      BY <2>1, CallerRow DEF CallSteps
    <2>2. u \notin Admins \/ Cardinality(Admins) > 1
      BY DEF AccountsAgree, DemotionsWereChecked, AskedSoundly
    <2>3. \A v \in Users : v # u => users'[v] = users[v]
      BY <2>1 DEF WriteUser, AccountsAgree, AccountsTypeOK
    <2>4. Admins \subseteq {u}
      BY <2>3 DEF Admins
    <2>5. Admins = {u}
      BY <2>4
    <2>6. Cardinality(Admins) = 1
      BY <2>5, FS_Singleton
    <2>. QED
      BY <2>2, <2>5, <2>6
  <1>. QED
    BY <1>1, AccountsConsistency, PTL DEF AccountsSpec, LastAdminGoesOnlyInARace

-----------------------------------------------------------------------------
(* Addresses                                                               *)
(*                                                                         *)
(* What a writer decided on stays true until it commits, since the lock    *)
(* keeps every other writer away (DecisionsStand); and the unique index    *)
(* refuses a second default, so one default is left to be kept.            *)

AddressRows ==
    {NoAddress} \cup [there : {TRUE}, key : AddressKeys, print : Prints, isDefault : BOOLEAN]

Decisions ==
    {NotWriting}
    \cup [does : {"create"}, key : AddressKeys, print : Prints, isDefault : BOOLEAN]
    \cup [does : {"delete"}, row : 1..MaxMade, next : 0..MaxMade]
    \cup [does : {"setDefault"}, row : 1..MaxMade]

AddressesTypeOK ==
    /\ addresses \in [1..MaxMade -> AddressRows]
    /\ made \in 0..MaxMade
    /\ writing \in [AddressCallers -> Decisions]

\* Numbers not handed out name no address.
NumbersAreFresh == \A n \in 1..MaxMade : addresses[n].there => n <= made

DecisionStands(w) ==
    /\ w.does = "create" =>
          /\ Cardinality(KeptAddress(addresses)) < MAX_USER_ADDRESSES
          /\ KeptAddress(addresses) = {} => w.isDefault
    /\ w.does = "delete" =>
          /\ w.row \in KeptAddress(addresses)
          /\ w.next = Successor(w.row)
    /\ w.does = "setDefault" => w.row \in KeptAddress(addresses)

\* Only the holder of the lock is writing, on what is still so.
DecisionsStand ==
    \A c \in AddressCallers :
        writing[c] # NotWriting => lockHolder = c /\ DecisionStands(writing[c])

AddressesAgree ==
    /\ AddressesTypeOK
    /\ NumbersAreFresh
    /\ DecisionsStand
    /\ BookIsSound

LEMMA KeptIsFinite ==
    ASSUME NEW rows
    PROVE  /\ IsFiniteSet(KeptAddress(rows)) /\ IsFiniteSet(Defaults(rows))
           /\ Cardinality(KeptAddress(rows)) \in Nat /\ Cardinality(Defaults(rows)) \in Nat
           /\ Defaults(rows) \subseteq KeptAddress(rows)
  <1>1. IsFiniteSet(1..MaxMade)
    BY FS_Interval, AddressesAssumption
  <1>2. KeptAddress(rows) \subseteq 1..MaxMade /\ Defaults(rows) \subseteq KeptAddress(rows)
    BY DEF KeptAddress, Defaults
  <1>3. IsFiniteSet(KeptAddress(rows)) /\ IsFiniteSet(Defaults(rows))
    BY <1>1, <1>2, FS_Subset
  <1>. QED
    BY <1>2, <1>3, FS_CardinalityType

\* One default, once the index allows at most one.
LEMMA OneIfAny ==
    ASSUME NEW rows, Cardinality(Defaults(rows)) <= 1, Defaults(rows) # {}
    PROVE  Cardinality(Defaults(rows)) = 1
  <1>1. IsFiniteSet(Defaults(rows)) /\ Cardinality(Defaults(rows)) \in Nat
    BY KeptIsFinite
  <1>2. Cardinality(Defaults(rows)) # 0
    BY <1>1, FS_EmptySet
  <1>. QED
    BY <1>1, <1>2

LEMMA DecisionRow ==
    ASSUME AddressesAgree, NEW c \in AddressCallers, writing[c] # NotWriting
    PROVE  /\ writing[c] \in Decisions /\ lockHolder = c /\ DecisionStands(writing[c])
           /\ writing[c].does \in {"create", "delete", "setDefault"}
           /\ writing[c].does = "create" => writing[c] \in
                 [does : {"create"}, key : AddressKeys, print : Prints, isDefault : BOOLEAN]
           /\ writing[c].does = "delete" => writing[c] \in
                 [does : {"delete"}, row : 1..MaxMade, next : 0..MaxMade]
           /\ writing[c].does = "setDefault" => writing[c] \in
                 [does : {"setDefault"}, row : 1..MaxMade]
  <1> PICK w \in Decisions : w = writing[c]
    BY DEF AddressesAgree, AddressesTypeOK
  <1>1. lockHolder = c /\ DecisionStands(w)
    BY DEF AddressesAgree, DecisionsStand
  <1>2. /\ w.does \in {"create", "delete", "setDefault"}
        /\ w.does = "create" => w \in
              [does : {"create"}, key : AddressKeys, print : Prints, isDefault : BOOLEAN]
        /\ w.does = "delete" => w \in [does : {"delete"}, row : 1..MaxMade, next : 0..MaxMade]
        /\ w.does = "setDefault" => w \in [does : {"setDefault"}, row : 1..MaxMade]
    BY DEF Decisions
  <1>. QED
    BY <1>1, <1>2

\* A writer that starts holds the lock nobody had, so it is the only one.
LEMMA DecidesStep ==
    ASSUME AddressesAgree, NEW c \in AddressCallers, NEW w \in Decisions,
           Decides(c, w), DecisionStands(w)
    PROVE  AddressesAgree'
  <1>1. /\ writing' = [writing EXCEPT ![c] = w] /\ lockHolder' = c /\ lockHolder = NoOne
        /\ UNCHANGED <<addresses, made>>
    BY DEF Decides, LockUserAddresses
  <1>2. \A e \in AddressCallers : writing[e] = NotWriting
    BY <1>1, CallersAreNamed DEF AddressesAgree, DecisionsStand, NoOne
  <1>3. AddressesTypeOK' /\ NumbersAreFresh' /\ BookIsSound'
    BY <1>1 DEF AddressesAgree, AddressesTypeOK, NumbersAreFresh, BookIsSound, OneDefault,
                BookWithinLimit, KeptAddress, Defaults
  <1>4. writing' \in [AddressCallers -> Decisions] /\ writing'[c] = w
        /\ \A e \in AddressCallers : e # c => writing'[e] = NotWriting
    BY <1>1, <1>2 DEF AddressesAgree, AddressesTypeOK
  <1>5. DecisionStands(w)'
    BY <1>1 DEF DecisionStands, Successor, KeptAddress, Defaults
  <1>6. DecisionsStand'
    BY <1>1, <1>4, <1>5 DEF DecisionsStand
  <1>. QED
    BY <1>3, <1>6 DEF AddressesAgree

AreNumbers(T) == T \subseteq Nat

LEMMA LeastExists ==
    ASSUME NEW T, AreNumbers(T), IsFiniteSet(T), T # {}
    PROVE  \E x \in T : \A y \in T : x <= y
  <1> DEFINE Below(x) == {y \in T : y <= x}
             family == {Below(x) : x \in T}
  <1>1. PICK m \in family : \A s \in family : s \subseteq m => s = m
    <2>1. family \in SUBSET SUBSET T /\ family # {}
      OBVIOUS
    <2> HIDE DEF family
    <2>. QED
      BY <2>1, MinimalSubset
  <1>2. PICK x \in T : m = Below(x)
    OBVIOUS
  <1>3. ASSUME NEW y \in T
        PROVE  x <= y
    <2>1. SUFFICES ASSUME y <= x
                   PROVE  x <= y
      BY DEF AreNumbers
    <2>2. Below(y) \subseteq Below(x)
      <3>1. \A z \in T : z <= y => z <= x
        BY <2>1 DEF AreNumbers
      <3>. QED
        BY <3>1
    <2>3. Below(y) = Below(x)
      BY <1>1, <1>2, <2>2
    <2>4. x \in Below(x)
      BY DEF AreNumbers
    <2>. QED
      BY <2>3, <2>4
  <1>. QED
    BY <1>3

LEMMA SuccessorType ==
    ASSUME NEW n \in 1..MaxMade
    PROVE  /\ Successor(n) \in 0..MaxMade
           /\ n \in Defaults(addresses) /\ KeptAddress(addresses) # {n} /\ n \in KeptAddress(addresses)
                 => Successor(n) \in KeptAddress(addresses) \ {n}
  <1> DEFINE others == KeptAddress(addresses) \ {n}
  <1>1. ASSUME others # {}
        PROVE  Min(others) \in others
    <2>1. others \subseteq Nat
      BY AddressesAssumption DEF KeptAddress
    <2>2. IsFiniteSet(others)
      BY KeptIsFinite, FS_Subset
    <2>3. \E x \in others : \A y \in others : x <= y
      BY <1>1, <2>1, <2>2, LeastExists DEF AreNumbers
    <2>. QED
      BY <2>3 DEF Min
  <1>2. others \subseteq 1..MaxMade /\ 0 \in 0..MaxMade /\ 1..MaxMade \subseteq 0..MaxMade
    BY AddressesAssumption DEF KeptAddress
  <1>. QED
    BY <1>1, <1>2 DEF Successor

LEMMA StartsStep ==
    ASSUME AddressesAgree, NEW c \in AddressCallers,
           \/ \E k \in AddressKeys, f \in Prints, d \in BOOLEAN : StartCreate(c, k, f, d)
           \/ \E n \in 1..MaxMade : StartDelete(c, n) \/ StartSetDefault(c, n)
    PROVE  AddressesAgree'
  <1>1. ASSUME NEW k \in AddressKeys, NEW f \in Prints, NEW d \in BOOLEAN, StartCreate(c, k, f, d)
        PROVE  AddressesAgree'
    <2> DEFINE first == d \/ KeptAddress(addresses) = {}
               w == [does |-> "create", key |-> k, print |-> f, isDefault |-> first]
    <2>1. first \in BOOLEAN /\ Decides(c, w)
      BY <1>1 DEF StartCreate
    <2>2. Cardinality(KeptAddress(addresses)) < MAX_USER_ADDRESSES
      BY <1>1, KeptIsFinite, AddressesAssumption DEF StartCreate, IsFull
    <2>3. KeptAddress(addresses) = {} => first
      OBVIOUS
    <2> HIDE DEF first
    <2>4. w \in Decisions
      BY <2>1 DEF Decisions
    <2>5. DecisionStands(w)
      BY <2>2, <2>3 DEF DecisionStands
    <2> HIDE DEF w
    <2>. QED
      BY <2>1, <2>4, <2>5, DecidesStep
  <1>2. ASSUME NEW n \in 1..MaxMade, StartDelete(c, n)
        PROVE  AddressesAgree'
    <2> DEFINE w == [does |-> "delete", row |-> n, next |-> Successor(n)]
    <2>1. Decides(c, w) /\ n \in KeptAddress(addresses)
      BY <1>2 DEF StartDelete
    <2>2. Successor(n) \in 0..MaxMade
      BY SuccessorType
    <2>3. w \in Decisions
      BY <2>2 DEF Decisions
    <2>4. DecisionStands(w)
      BY <2>1 DEF DecisionStands
    <2> HIDE DEF w
    <2>. QED
      BY <2>1, <2>3, <2>4, DecidesStep
  <1>3. ASSUME NEW n \in 1..MaxMade, StartSetDefault(c, n)
        PROVE  AddressesAgree'
    <2> DEFINE w == [does |-> "setDefault", row |-> n]
    <2>1. Decides(c, w) /\ n \in KeptAddress(addresses)
      BY <1>3 DEF StartSetDefault
    <2>2. w \in Decisions
      BY DEF Decisions
    <2>3. DecisionStands(w)
      BY <2>1 DEF DecisionStands
    <2> HIDE DEF w
    <2>. QED
      BY <2>1, <2>2, <2>3, DecidesStep
  <1>. QED
    BY <1>1, <1>2, <1>3

\* The result of a transaction: rows of the table, numbered from those in use.
LEMMA ClearedType ==
    ASSUME addresses \in [1..MaxMade -> AddressRows]
    PROVE  /\ Cleared(addresses) \in [1..MaxMade -> AddressRows]
           /\ KeptAddress(Cleared(addresses)) = KeptAddress(addresses)
  <1>1. \A n \in 1..MaxMade :
            /\ addresses[n].there => [addresses[n] EXCEPT !.isDefault = FALSE] \in AddressRows
                                     /\ [addresses[n] EXCEPT !.isDefault = FALSE].there
    <2> TAKE n \in 1..MaxMade
    <2> PICK row \in AddressRows : row = addresses[n]
      OBVIOUS
    <2>1. row.there => row # NoAddress
      BY DEF NoAddress
    <2>. QED
      BY <2>1 DEF AddressRows
  <1>2. Cleared(addresses) \in [1..MaxMade -> AddressRows]
    BY <1>1 DEF Cleared
  <1>3. \A n \in 1..MaxMade : Cleared(addresses)[n].there <=> addresses[n].there
    BY <1>1 DEF Cleared
  <1>. QED
    BY <1>2, <1>3 DEF KeptAddress

LEMMA MakeDefaultType ==
    ASSUME NEW rows \in [1..MaxMade -> AddressRows], NEW n
    PROVE  /\ MakeDefault(rows, n) \in [1..MaxMade -> AddressRows]
           /\ KeptAddress(MakeDefault(rows, n)) = KeptAddress(rows)
           /\ n \in KeptAddress(rows) => n \in Defaults(MakeDefault(rows, n))
           /\ n \notin KeptAddress(rows) => Defaults(MakeDefault(rows, n)) = Defaults(rows)
  <1>1. CASE n \in KeptAddress(rows)
    <2> PICK row \in AddressRows : row = rows[n] /\ row.there
      BY <1>1 DEF KeptAddress
    <2> DEFINE new == [row EXCEPT !.isDefault = TRUE]
    <2>1. new \in AddressRows /\ new.there = TRUE /\ new.isDefault = TRUE
      <3>1. row # NoAddress
        BY DEF NoAddress
      <3>. QED
        BY <3>1 DEF AddressRows
    <2>2. MakeDefault(rows, n) = [rows EXCEPT ![n] = new]
      BY <1>1 DEF MakeDefault
    <2> HIDE DEF new
    <2>3. /\ MakeDefault(rows, n) \in [1..MaxMade -> AddressRows]
          /\ MakeDefault(rows, n)[n] = new
          /\ \A m \in 1..MaxMade : m # n => MakeDefault(rows, n)[m] = rows[m]
      BY <1>1, <2>1, <2>2 DEF KeptAddress
    <2>. QED
      BY <1>1, <2>1, <2>3 DEF KeptAddress, Defaults
  <1>2. CASE n \notin KeptAddress(rows)
    BY <1>2 DEF MakeDefault
  <1>. QED
    BY <1>1, <1>2

\* One default is left whenever the result is not empty.
LEMMA ResultKeepsADefault ==
    ASSUME AddressesAgree, NEW c \in AddressCallers, writing[c] # NotWriting,
           writing[c].does = "create" => made < MaxMade
    PROVE  LET w == writing[c]
               rows == Result(w) IN
           /\ rows \in [1..MaxMade -> AddressRows]
           /\ KeptAddress(rows) = CASE w.does = "create" -> KeptAddress(addresses) \cup {made + 1}
                                    [] w.does = "delete" -> KeptAddress(addresses) \ {w.row}
                                    [] OTHER -> KeptAddress(addresses)
           /\ KeptAddress(rows) # {} => Defaults(rows) # {}
  <1> DEFINE rows == Result(writing[c])
  <1>1. addresses \in [1..MaxMade -> AddressRows] /\ made \in 0..MaxMade
    BY DEF AddressesAgree, AddressesTypeOK
  <1>2. KeptAddress(addresses) # {} => Defaults(addresses) # {}
    BY FS_EmptySet DEF AddressesAgree, BookIsSound, OneDefault
  <1>3. CASE writing[c].does = "create"
    <2> PICK w \in [does : {"create"}, key : AddressKeys, print : Prints, isDefault : BOOLEAN] :
            w = writing[c]
      BY <1>3, DecisionRow
    <2> PICK n \in 1..MaxMade : n = made + 1
      BY <1>1, <1>3, AddressesAssumption
    <2> PICK before \in [1..MaxMade -> AddressRows] :
            /\ before = IF w.isDefault THEN Cleared(addresses) ELSE addresses
            /\ KeptAddress(before) = KeptAddress(addresses)
      BY <1>1, ClearedType
    <2> DEFINE row == [there |-> TRUE, key |-> w.key, print |-> w.print, isDefault |-> w.isDefault]
    <2>1. row \in AddressRows /\ row.there = TRUE /\ row.isDefault = w.isDefault
      BY DEF AddressRows
    <2>2. rows = [before EXCEPT ![n] = row]
      BY <1>3 DEF Result
    <2> HIDE DEF row, rows
    <2>3. /\ rows \in [1..MaxMade -> AddressRows] /\ rows[n] = row
          /\ \A m \in 1..MaxMade : m # n => rows[m] = before[m]
      BY <2>1, <2>2
    <2>4. KeptAddress(rows) = KeptAddress(addresses) \cup {n}
      <3>1. \A m \in 1..MaxMade : rows[m].there <=> m = n \/ before[m].there
        BY <2>1, <2>3
      <3>2. KeptAddress(rows) = KeptAddress(before) \cup {n}
        BY <3>1 DEF KeptAddress
      <3>. QED
        BY <3>2
    <2>5. Defaults(rows) # {}
      <3>1. CASE w.isDefault
        <4>1. n \in Defaults(rows)
          BY <2>1, <2>3, <2>4, <3>1 DEF Defaults
        <4>. QED
          BY <4>1
      <3>2. CASE ~w.isDefault
        <4>1. before = addresses /\ Defaults(addresses) # {}
          BY <1>2, <1>3, <3>2, DecisionRow DEF DecisionStands
        <4>2. PICK m \in Defaults(addresses) : TRUE
          BY <4>1
        <4>3. m # n /\ m \in 1..MaxMade
          BY <1>1, <4>2 DEF AddressesAgree, NumbersAreFresh, Defaults, KeptAddress
        <4>4. m \in Defaults(rows)
          BY <2>3, <4>1, <4>2, <4>3 DEF Defaults, KeptAddress
        <4>. QED
          BY <4>4
      <3>. QED
        BY <3>1, <3>2
    <2>. QED
      BY <1>3, <2>3, <2>4, <2>5 DEF rows
  <1>4. CASE writing[c].does = "delete"
    <2> PICK w \in [does : {"delete"}, row : 1..MaxMade, next : 0..MaxMade] : w = writing[c]
      BY <1>4, DecisionRow
    <2>1. w.row \in KeptAddress(addresses) /\ w.next = Successor(w.row)
      BY <1>4, DecisionRow DEF DecisionStands
    <2> PICK n \in 1..MaxMade : n = w.row
      OBVIOUS
    <2> PICK left \in [1..MaxMade -> AddressRows] : left = [addresses EXCEPT ![n] = NoAddress]
      BY <1>1 DEF AddressRows
    <2>2. /\ left[n] = NoAddress
          /\ \A m \in 1..MaxMade : m # n => left[m] = addresses[m]
      BY <1>1
    <2>3. KeptAddress(left) = KeptAddress(addresses) \ {n}
      BY <2>2 DEF KeptAddress, NoAddress
    <2>4. rows = MakeDefault(left, w.next)
      BY <1>4 DEF Result
    <2> HIDE DEF rows
    <2>5. /\ rows \in [1..MaxMade -> AddressRows] /\ KeptAddress(rows) = KeptAddress(left)
          /\ w.next \in KeptAddress(left) => w.next \in Defaults(rows)
          /\ w.next \notin KeptAddress(left) => Defaults(rows) = Defaults(left)
      BY <2>4, MakeDefaultType
    <2>6. KeptAddress(left) # {} => Defaults(rows) # {}
      <3> SUFFICES ASSUME KeptAddress(left) # {}
                   PROVE  Defaults(rows) # {}
        OBVIOUS
      <3>1. CASE n \in Defaults(addresses)
        <4>1. KeptAddress(addresses) # {n} /\ n \in KeptAddress(addresses)
          BY <2>1, <2>3
        <4>2. Successor(n) \in KeptAddress(left)
          BY <2>3, <3>1, <4>1, SuccessorType
        <4>. QED
          BY <2>1, <2>5, <4>2
      <3>2. CASE n \notin Defaults(addresses)
        <4>1. PICK m \in Defaults(addresses) : TRUE
          BY <1>2, <2>1
        <4>2. m \in Defaults(left)
          BY <2>2, <3>2, <4>1 DEF Defaults, KeptAddress
        <4>. QED
          BY <2>5, <4>2
      <3>. QED
        BY <3>1, <3>2
    <2>. QED
      BY <1>4, <2>3, <2>5, <2>6 DEF rows
  <1>5. CASE writing[c].does = "setDefault"
    <2> PICK w \in [does : {"setDefault"}, row : 1..MaxMade] : w = writing[c]
      BY <1>5, DecisionRow
    <2>1. w.row \in KeptAddress(addresses)
      BY <1>5, DecisionRow DEF DecisionStands
    <2> PICK before \in [1..MaxMade -> AddressRows] :
            before = Cleared(addresses) /\ KeptAddress(before) = KeptAddress(addresses)
      BY <1>1, ClearedType
    <2>2. rows = MakeDefault(before, w.row)
      BY <1>5 DEF Result
    <2> HIDE DEF rows
    <2>3. /\ rows \in [1..MaxMade -> AddressRows] /\ KeptAddress(rows) = KeptAddress(before)
          /\ w.row \in Defaults(rows)
      BY <2>1, <2>2, MakeDefaultType
    <2>. QED
      BY <1>5, <2>3 DEF rows
  <1>. QED
    BY <1>3, <1>4, <1>5, DecisionRow

LEMMA CommitAddressStep ==
    ASSUME AddressesAgree, NEW c \in AddressCallers, CommitAddress(c)
    PROVE  AddressesAgree'
  <1> DEFINE does == writing[c].does
             rows == Result(writing[c])
  <1>1. writing[c] # NotWriting /\ (does = "create" => made < MaxMade)
    BY DEF CommitAddress
  <1>2. /\ does \in {"create", "delete", "setDefault"} /\ lockHolder = c
        /\ DecisionStands(writing[c])
    BY <1>1, DecisionRow
  <1>3. /\ rows \in [1..MaxMade -> AddressRows]
        /\ KeptAddress(rows) = CASE does = "create" -> KeptAddress(addresses) \cup {made + 1}
                                 [] does = "delete" -> KeptAddress(addresses) \ {writing[c].row}
                                 [] OTHER -> KeptAddress(addresses)
        /\ KeptAddress(rows) # {} => Defaults(rows) # {}
    BY <1>1, ResultKeepsADefault
  <1>4. /\ writing' = [writing EXCEPT ![c] = NotWriting]
        /\ \/ UNCHANGED <<addresses, made>>
           \/ /\ Cardinality(Defaults(rows)) <= 1 /\ addresses' = rows
              /\ made' = IF does = "create" THEN made + 1 ELSE made
    BY DEF CommitAddress, IndexesHold
  <1> HIDE DEF rows, does
  <1>5. DecisionsStand' /\ writing' \in [AddressCallers -> Decisions]
    <2>1. writing \in [AddressCallers -> Decisions] /\ NotWriting \in Decisions
      BY DEF AddressesAgree, AddressesTypeOK, Decisions
    <2>2. \A e \in AddressCallers : writing'[e] = NotWriting
      BY <1>2, <1>4, <2>1 DEF AddressesAgree, DecisionsStand
    <2>. QED
      BY <1>4, <2>1, <2>2 DEF DecisionsStand
  <1>6. CASE UNCHANGED <<addresses, made>>
    BY <1>5, <1>6 DEF AddressesAgree, AddressesTypeOK, NumbersAreFresh, BookIsSound,
                      OneDefault, BookWithinLimit, KeptAddress, Defaults
  <1>7. ASSUME Cardinality(Defaults(rows)) <= 1, addresses' = rows,
               made' = IF does = "create" THEN made + 1 ELSE made
        PROVE  AddressesAgree'
    <2>1. made \in 0..MaxMade /\ MaxMade \in Nat
      BY AddressesAssumption DEF AddressesAgree, AddressesTypeOK
    <2>2. AddressesTypeOK'
      BY <1>1, <1>3, <1>5, <1>7, <2>1 DEF AddressesTypeOK, does
    <2>3. NumbersAreFresh'
      <3>1. \A n \in KeptAddress(addresses) : n <= made /\ n \in 1..MaxMade
        BY DEF AddressesAgree, NumbersAreFresh, KeptAddress
      <3>2. KeptAddress(rows) \subseteq KeptAddress(addresses) \cup {made'}
            /\ (does # "create" => KeptAddress(rows) \subseteq KeptAddress(addresses))
        BY <1>2, <1>3, <1>7 DEF does
      <3>3. \A n \in KeptAddress(rows) : n <= made'
        BY <1>7, <2>1, <3>1, <3>2
      <3>. QED
        BY <1>7, <3>3 DEF NumbersAreFresh, KeptAddress
    <2>4. OneDefault'
      <3>1. KeptAddress(rows) # {} => Cardinality(Defaults(rows)) = 1
        BY <1>3, <1>7, OneIfAny
      <3>. QED
        BY <1>7, <3>1 DEF OneDefault, KeptAddress, Defaults
    <2>5. BookWithinLimit'
      <3> DEFINE kept == KeptAddress(addresses)
      <3>1. IsFiniteSet(kept) /\ Cardinality(kept) \in Nat /\ Cardinality(kept) <= MAX_USER_ADDRESSES
        BY KeptIsFinite DEF AddressesAgree, BookIsSound, BookWithinLimit
      <3>2. Cardinality(KeptAddress(rows)) <= MAX_USER_ADDRESSES
        <4>1. CASE does = "create"
          <5>1. Cardinality(kept) < MAX_USER_ADDRESSES
            BY <1>2, <4>1 DEF DecisionStands, does
          <5>2. Cardinality(kept \cup {made + 1}) \in {Cardinality(kept), Cardinality(kept) + 1}
            BY <3>1, FS_AddElement
          <5>3. KeptAddress(rows) = kept \cup {made + 1}
            BY <1>3, <4>1
          <5>. QED
            BY <3>1, <5>1, <5>2, <5>3, AddressesAssumption
        <4>2. CASE does # "create"
          <5>1. KeptAddress(rows) \subseteq kept
            BY <1>3, <4>2
          <5>2. Cardinality(KeptAddress(rows)) <= Cardinality(kept)
            BY <3>1, <5>1, FS_Subset
          <5>. QED
            BY <3>1, <5>2, KeptIsFinite, AddressesAssumption
        <4>. QED
          BY <4>1, <4>2
      <3>. QED
        BY <1>7, <3>2 DEF BookWithinLimit, KeptAddress
    <2>. QED
      BY <1>5, <2>2, <2>3, <2>4, <2>5 DEF AddressesAgree, BookIsSound
  <1>. QED
    BY <1>4, <1>6, <1>7

LEMMA AbortStep ==
    ASSUME AddressesAgree, NEW c \in AddressCallers, Abort(c)
    PROVE  AddressesAgree'
  <1>1. writing' = [writing EXCEPT ![c] = NotWriting] /\ UNCHANGED <<addresses, made>>
        /\ writing[c] # NotWriting
    BY DEF Abort
  <1>2. writing \in [AddressCallers -> Decisions] /\ NotWriting \in Decisions
    BY DEF AddressesAgree, AddressesTypeOK, Decisions
  <1>3. \A e \in AddressCallers : writing'[e] = NotWriting
    BY <1>1, <1>2 DEF AddressesAgree, DecisionsStand
  <1>. QED
    BY <1>1, <1>2, <1>3 DEF AddressesAgree, AddressesTypeOK, NumbersAreFresh, BookIsSound,
                      OneDefault, BookWithinLimit, KeptAddress, Defaults, DecisionsStand

LEMMA AddressesBegin ==
    ASSUME AddressesInit
    PROVE  AddressesAgree
  <1>1. KeptAddress(addresses) = {}
    BY DEF AddressesInit, KeptAddress, NoAddress
  <1>2. Cardinality(KeptAddress(addresses)) = 0
    BY <1>1, FS_EmptySet
  <1>3. AddressesTypeOK
    BY AddressesAssumption DEF AddressesInit, AddressesTypeOK, AddressRows, Decisions
  <1>. QED
    BY <1>1, <1>2, <1>3, AddressesAssumption
       DEF AddressesInit, AddressesAgree, NumbersAreFresh, KeptAddress, DecisionsStand,
           BookIsSound, OneDefault, BookWithinLimit

\* An address book is whole in every reachable state: what a request checked
\* is still so when it commits, whatever other requests of the user do.
THEOREM BooksAreSound == AddressesSpec => []BookIsSound
  <1>1. AddressesAgree /\ [AddressesNext]_addressVars => AddressesAgree'
    <2>1. ASSUME AddressesAgree, UNCHANGED addressVars
          PROVE  AddressesAgree'
      BY <2>1 DEF addressVars, AddressesAgree, AddressesTypeOK, NumbersAreFresh, BookIsSound,
                  OneDefault, BookWithinLimit, KeptAddress, Defaults, DecisionsStand,
                  DecisionStands, Successor
    <2>. QED
      BY <2>1, StartsStep, CommitAddressStep, AbortStep DEF AddressesNext
  <1>2. AddressesAgree => BookIsSound
    BY DEF AddressesAgree
  <1>. QED
    BY <1>1, <1>2, AddressesBegin, PTL DEF AddressesSpec

-----------------------------------------------------------------------------
(* Comments                                                                *)
(*                                                                         *)
(* Two requests with one key may wait for their moderation at once.  Their *)
(* answers are the same since a claimed row never changes and every answer *)
(* was copied from one (AnswersAreRows); an edit overwrites only what it   *)
(* saw, and a new comment nothing (RowsAreFresh).                          *)

Asked == [product : Products, text : CommentTexts]

CommentKeyRows ==
    {UnusedKey} \cup [claimed : {TRUE}, request : Asked, number : 1..MaxComments]

PostsAreTyped ==
    \A r \in Posters :
        posts[r] # NotPosting =>
            /\ posts[r].step \in {"moderating", "passed"}
            /\ posts[r].kind \in {"create", "update"}
            /\ posts[r].kind = "create" => posts[r].key \in CommentKeys /\ posts[r].request \in Asked

CommentsTypeOK ==
    /\ keyRows \in [CommentKeys -> CommentKeyRows]
    /\ numbers \in 0..MaxComments
    /\ DOMAIN posts = Posters /\ PostsAreTyped
    /\ DOMAIN comments = 1..MaxComments

AnswersAreRows ==
    \A a \in answers :
        /\ a.key \in CommentKeys /\ keyRows[a.key].claimed
        /\ a = [key |-> a.key, request |-> keyRows[a.key].request,
                number |-> keyRows[a.key].number]

RowsAreFresh == \A n \in 1..MaxComments : n > numbers => ~comments[n].there

CommentsAgree ==
    /\ CommentsTypeOK
    /\ AnswersAreRows
    /\ KeysNameComments
    /\ RowsAreFresh

LEMMA PosterEndsType ==
    ASSUME CommentsAgree, NEW r \in Posters, PosterEnds(r)
    PROVE  DOMAIN posts' = Posters /\ PostsAreTyped'
  BY DEF CommentsAgree, CommentsTypeOK, PostsAreTyped, PosterEnds

\* An answer from a key is its row.
LEMMA AnswersFromKeyStep ==
    ASSUME CommentsAgree, NEW k \in CommentKeys, NEW request,
           AnswersFromKey(k, request), UNCHANGED keyRows
    PROVE  AnswersAreRows'
  BY DEF CommentsAgree, AnswersAreRows, AnswersFromKey, IsReplay

LEMMA CreateCommentStep ==
    ASSUME CommentsAgree, NEW r \in Posters, NEW p \in Products, NEW t \in CommentTexts,
           NEW k \in CommentKeys, CreateComment(r, p, t, k)
    PROVE  CommentsAgree'
  <1> DEFINE request == [product |-> p, text |-> t]
             new == [step |-> "moderating", kind |-> "create", key |-> k, request |-> request]
  <1>1. request \in Asked
    BY DEF Asked
  <1>2. UNCHANGED <<comments, keyRows, numbers>>
    BY DEF CreateComment
  <1>3. CASE keyRows[k].claimed
    <2>1. AnswersFromKey(k, request) /\ UNCHANGED posts
      BY <1>3 DEF CreateComment
    <2>2. AnswersAreRows'
      BY <1>2, <2>1, AnswersFromKeyStep
    <2>. QED
      BY <1>2, <2>1, <2>2 DEF CommentsAgree, CommentsTypeOK, PostsAreTyped, KeysNameComments,
                              RowsAreFresh
  <1>4. CASE ~keyRows[k].claimed
    <2>1. posts' = [posts EXCEPT ![r] = new] /\ UNCHANGED answers
      BY <1>4 DEF CreateComment
    <2>2. /\ new.step = "moderating" /\ new.kind = "create" /\ new.key = k
          /\ new.request = request
      OBVIOUS
    <2> HIDE DEF new, request
    <2>3. DOMAIN posts' = Posters /\ PostsAreTyped'
      BY <1>1, <2>1, <2>2 DEF CommentsAgree, CommentsTypeOK, PostsAreTyped
    <2>. QED
      BY <1>2, <2>1, <2>3 DEF CommentsAgree, CommentsTypeOK, AnswersAreRows, KeysNameComments,
                              RowsAreFresh
  <1>. QED
    BY <1>3, <1>4

LEMMA UpdateStep ==
    ASSUME CommentsAgree, NEW r \in Posters, NEW n \in 1..MaxComments, NEW t \in CommentTexts,
           Update(r, n, t)
    PROVE  CommentsAgree'
  <1> DEFINE new == [step |-> "moderating", kind |-> "update", row |-> n, text |-> t,
                     saw |-> comments[n]]
  <1>1. posts' = [posts EXCEPT ![r] = new] /\ UNCHANGED <<comments, keyRows, answers, numbers>>
    BY DEF Update
  <1>2. new.step = "moderating" /\ new.kind = "update"
    OBVIOUS
  <1> HIDE DEF new
  <1>3. DOMAIN posts' = Posters /\ PostsAreTyped'
    BY <1>1, <1>2 DEF CommentsAgree, CommentsTypeOK, PostsAreTyped
  <1>. QED
    BY <1>1, <1>3 DEF CommentsAgree, CommentsTypeOK, AnswersAreRows, KeysNameComments,
                      RowsAreFresh

LEMMA CheckContentStep ==
    ASSUME CommentsAgree, NEW r \in Posters, CheckContent(r)
    PROVE  CommentsAgree'
  <1>1. UNCHANGED <<comments, keyRows, answers, numbers>> /\ posts[r].step = "moderating"
    BY DEF CheckContent
  <1>2. DOMAIN posts' = Posters /\ PostsAreTyped'
    <2>1. CASE PosterEnds(r)
      BY <2>1, PosterEndsType
    <2>2. CASE posts' = [posts EXCEPT ![r].step = "passed"]
      <3> DEFINE new == [posts[r] EXCEPT !.step = "passed"]
      <3>0. posts[r] # NotPosting
        BY <1>1 DEF NotPosting
      <3>1. /\ posts[r].kind \in {"create", "update"}
            /\ posts[r].kind = "create" => posts[r].key \in CommentKeys /\ posts[r].request \in Asked
        BY <3>0 DEF CommentsAgree, CommentsTypeOK, PostsAreTyped
      <3>2. new.kind = posts[r].kind /\ new.key = posts[r].key /\ new.request = posts[r].request
        OBVIOUS
      <3>3. new.step \in {"moderating", "passed"} 
        OBVIOUS
      <3>4. posts' = [posts EXCEPT ![r] = new]
        BY <2>2
      <3> HIDE DEF new
      <3>. QED
        BY <3>1, <3>2, <3>3, <3>4 DEF CommentsAgree, CommentsTypeOK, PostsAreTyped
    <2>. QED
      BY <2>1, <2>2 DEF CheckContent
  <1>. QED
    BY <1>1, <1>2 DEF CommentsAgree, CommentsTypeOK, AnswersAreRows, KeysNameComments,
                      RowsAreFresh

LEMMA CreateTransactionStep ==
    ASSUME CommentsAgree, NEW r \in Posters, CreateTransaction(r)
    PROVE  CommentsAgree'
  <1>1. posts[r] # NotPosting /\ posts[r].kind = "create" /\ PosterEnds(r) /\ numbers < MaxComments
    BY DEF CreateTransaction, NotPosting
  <1> PICK k \in CommentKeys, request \in Asked : k = posts[r].key /\ request = posts[r].request
    BY <1>1 DEF CommentsAgree, CommentsTypeOK, PostsAreTyped
  <1> PICK n \in 1..MaxComments : n = numbers + 1
    BY <1>1, CommentsAssumption DEF CommentsAgree, CommentsTypeOK
  <1>2. DOMAIN posts' = Posters /\ PostsAreTyped'
    BY <1>1, PosterEndsType
  <1>3. ASSUME AnswersFromKey(k, request), UNCHANGED <<comments, keyRows, numbers>>
        PROVE  CommentsAgree'
    <2>1. AnswersAreRows'
      BY <1>3, AnswersFromKeyStep
    <2>. QED
      BY <1>2, <1>3, <2>1 DEF CommentsAgree, CommentsTypeOK, KeysNameComments, RowsAreFresh
  <1>4. ASSUME ~keyRows[k].claimed, keyRows' = Claimed(k, request, n),
               answers' = answers \cup {[key |-> k, request |-> request, number |-> n]},
               numbers' = n,
               comments' = [comments EXCEPT ![n] = [there |-> TRUE, version |-> 1,
                    product |-> request.product, text |-> request.text]]
        PROVE  CommentsAgree'
    <2> DEFINE row == [claimed |-> TRUE, request |-> request, number |-> n]
    <2>1. row \in CommentKeyRows /\ row.claimed = TRUE /\ row.request = request /\ row.number = n
      BY DEF CommentKeyRows
    <2>2. keyRows' = [keyRows EXCEPT ![k] = row]
      BY <1>4 DEF Claimed
    <2> HIDE DEF row
    <2>3. /\ keyRows' \in [CommentKeys -> CommentKeyRows] /\ keyRows'[k] = row
          /\ \A j \in CommentKeys : j # k => keyRows'[j] = keyRows[j]
      BY <2>1, <2>2 DEF CommentsAgree, CommentsTypeOK
    <2>4. CommentsTypeOK'
      BY <1>2, <1>4, <2>3 DEF CommentsAgree, CommentsTypeOK
    <2>5. AnswersAreRows'
      <3> SUFFICES ASSUME NEW a \in answers'
                   PROVE  /\ a.key \in CommentKeys /\ keyRows'[a.key].claimed
                          /\ a = [key |-> a.key, request |-> keyRows'[a.key].request,
                                  number |-> keyRows'[a.key].number]
        BY DEF AnswersAreRows
      <3>1. CASE a \in answers
        <4>1. a.key # k
          BY <1>4, <3>1 DEF CommentsAgree, AnswersAreRows
        <4>. QED
          BY <2>3, <3>1, <4>1 DEF CommentsAgree, AnswersAreRows
      <3>2. CASE a = [key |-> k, request |-> request, number |-> n]
        BY <2>1, <2>3, <3>2
      <3>. QED
        BY <1>4, <3>1, <3>2
    <2>6. KeysNameComments'
      BY <1>4, <2>1, <2>3 DEF CommentsAgree, KeysNameComments, CommentsTypeOK
    <2>7. RowsAreFresh'
      BY <1>4 DEF CommentsAgree, RowsAreFresh, CommentsTypeOK
    <2>. QED
      BY <2>4, <2>5, <2>6, <2>7 DEF CommentsAgree
  <1>5. ASSUME keyRows' = ClaimAfterRefusal(k, request, n), UNCHANGED <<comments, answers, numbers>>
        PROVE  CommentsAgree'
    BY <1>2, <1>5 DEF ClaimAfterRefusal, CommentsAgree, CommentsTypeOK, AnswersAreRows,
                      KeysNameComments, RowsAreFresh
  <1>. QED
    BY <1>3, <1>4, <1>5 DEF CreateTransaction

LEMMA UpdateAtVersionStep ==
    ASSUME CommentsAgree, NEW r \in Posters, UpdateAtVersion(r)
    PROVE  CommentsAgree'
  <1>1. DOMAIN posts' = Posters /\ PostsAreTyped' /\ UNCHANGED <<keyRows, answers, numbers>>
    BY PosterEndsType DEF UpdateAtVersion
  <1>2. /\ DOMAIN comments' = DOMAIN comments
        /\ \A n \in 1..MaxComments : comments'[n].there = comments[n].there
    BY DEF UpdateAtVersion, CommentsAgree, CommentsTypeOK
  <1>. QED
    BY <1>1, <1>2 DEF CommentsAgree, CommentsTypeOK, AnswersAreRows, KeysNameComments,
                      RowsAreFresh

LEMMA CommentsStep ==
    ASSUME CommentsAgree, CommentsNext
    PROVE  CommentsAgree'
  <1>1. ASSUME NEW n \in 1..MaxComments, DeleteOwn(n)
        PROVE  CommentsAgree'
    BY <1>1 DEF DeleteOwn, NoComment, CommentsAgree, CommentsTypeOK, PostsAreTyped,
                AnswersAreRows, KeysNameComments, RowsAreFresh
  <1>2. ASSUME NEW ps \in SUBSET Products, Shows(ps)
        PROVE  CommentsAgree'
    BY <1>2 DEF Shows, CommentsAgree, CommentsTypeOK, PostsAreTyped,
                AnswersAreRows, KeysNameComments, RowsAreFresh
  <1>. QED
    BY <1>1, <1>2, CreateCommentStep, UpdateStep, CheckContentStep, CreateTransactionStep,
       UpdateAtVersionStep DEF CommentsNext

\* Keys, comments and answers agree in every reachable state.
THEOREM CommentsConsistency == CommentsSpec => []CommentsAgree
  <1>1. CommentsInit => CommentsAgree
    BY CommentsAssumption
       DEF CommentsInit, CommentsAgree, CommentsTypeOK, CommentKeyRows, UnusedKey, NotPosting,
           PostsAreTyped, AnswersAreRows, KeysNameComments, RowsAreFresh, NoComment
  <1>2. CommentsAgree /\ UNCHANGED commentVars => CommentsAgree'
    BY DEF commentVars, CommentsAgree, CommentsTypeOK, PostsAreTyped,
           AnswersAreRows, KeysNameComments, RowsAreFresh
  <1>. QED
    BY <1>1, <1>2, CommentsStep, PTL DEF CommentsSpec

\* A key is answered in one way, and only for a comment that was made.
THEOREM KeysAreAnsweredOnce == CommentsSpec => []KeysAnswerOnce
  <1>1. CommentsAgree => KeysAnswerOnce
    BY DEF CommentsAgree, AnswersAreRows, KeysAnswerOnce, OneAnswerPerKey
  <1>. QED
    BY <1>1, CommentsConsistency, PTL

\* An edit that waited for its moderation replaces only the text it was
\* written over, never a later edit nor a comment made since.
THEOREM EditsAreNotLost == CommentsSpec => EditsFollowWhatWasSeen
  <1> DEFINE Follows ==
          \A n \in 1..MaxComments :
              (comments[n].there /\ comments'[n].there /\ comments'[n] # comments[n])
                  => \E r \in Posters : posts[r].step = "passed" /\ posts[r].kind = "update"
                                         /\ posts[r].row = n /\ posts[r].saw = comments[n]
  <1>1. CommentsAgree /\ [CommentsNext]_commentVars => [Follows]_commentVars
    <2> SUFFICES ASSUME CommentsAgree, CommentsNext, NEW n \in 1..MaxComments,
                        comments[n].there, comments'[n].there, comments'[n] # comments[n]
                 PROVE  \E r \in Posters : posts[r].step = "passed" /\ posts[r].kind = "update"
                                         /\ posts[r].row = n /\ posts[r].saw = comments[n]
      OBVIOUS
    <2>1. ASSUME NEW r \in Posters, UpdateAtVersion(r)
          PROVE  /\ posts[r].step = "passed" /\ posts[r].kind = "update"
                 /\ posts[r].row = n /\ posts[r].saw = comments[n]
      BY <2>1 DEF UpdateAtVersion, IsUnchanged, CommentsAgree, CommentsTypeOK
    <2>2. ASSUME NEW r \in Posters, CreateTransaction(r)
          PROVE  FALSE
      <3>1. comments' = comments \/ \A m \in 1..MaxComments : m # numbers + 1 => comments'[m] = comments[m]
        BY <2>2 DEF CreateTransaction, CommentsAgree, CommentsTypeOK
      <3>2. n = numbers + 1
        BY <3>1
      <3>. QED
        BY <3>2 DEF CommentsAgree, CommentsTypeOK, RowsAreFresh
    <2>3. ASSUME NEW m \in 1..MaxComments, DeleteOwn(m)
          PROVE  FALSE
      BY <2>3 DEF DeleteOwn, NoComment, CommentsAgree, CommentsTypeOK
    <2>4. ASSUME NEW r \in Posters,
                 \/ \E p \in Products, t \in CommentTexts, k \in CommentKeys : CreateComment(r, p, t, k)
                 \/ \E m \in 1..MaxComments, t \in CommentTexts : Update(r, m, t)
                 \/ CheckContent(r)
          PROVE  UNCHANGED comments
      BY <2>4 DEF CreateComment, Update, CheckContent
    <2>5. ASSUME NEW ps \in SUBSET Products, Shows(ps)
          PROVE  UNCHANGED comments
      BY <2>5 DEF Shows
    <2>. QED
      BY <2>1, <2>2, <2>3, <2>4, <2>5 DEF CommentsNext
  <1>. QED
    BY <1>1, CommentsConsistency, PTL DEF CommentsSpec, EditsFollowWhatWasSeen

-----------------------------------------------------------------------------
(* The read cache                                                          *)
(*                                                                         *)
(* What is stored or loaded under the namespace's token is no older than   *)
(* the last rotation (EntriesAreFresh, LoadsAreFresh); so nothing a reader *)
(* can find under the token it resolved is older than the rotation before  *)
(* it asked (FindsNothingOlder), whatever rotates meanwhile.  That a token *)
(* is never given out twice rests on a rotation following a commit.        *)

CacheValues == Nat \cup {Empty}

ReaderRows ==
    [pc : {"idle", "resolve", "get", "miss", "fallback", "waiting", "answered"},
     since : Nat, token : Tokens, load : Loads \cup {"none"}, got : CacheValues,
     shared : BOOLEAN]

LoadRows ==
    [phase : {"free", "running", "late", "settled"}, key : Tokens \cup {Fallback},
     at : Processes \cup {"none"}, value : CacheValues]

CacheTypeOK ==
    /\ committed \in 0..MaxWrites /\ token \in Tokens /\ confirmed \in 0..committed
    /\ entries \in [Tokens -> CacheValues]
    /\ invalidator \in [Writers -> {"idle", "delete", "rotate"}]
    /\ reader \in [Readers -> ReaderRows]
    /\ load \in [Loads -> LoadRows]

\* The writers that have committed and not yet tried to rotate.
Rotating == {w \in Writers : invalidator[w] # "idle"}

RotationsFollowCommits ==
    IsFiniteSet(Rotating) /\ token + Cardinality(Rotating) <= committed

EntriesAreFresh ==
    /\ entries[token] # Empty => entries[token] >= confirmed
    /\ \A t \in Tokens : t > token => entries[t] = Empty

LoadsAreFresh ==
    \A l \in Loads :
        /\ load[l].key <= token
        /\ load[l].key = token /\ load[l].value # Empty => load[l].value >= confirmed
        /\ load[l].phase = "settled" => load[l].value # Empty

FindsNothingOlder(t, since) ==
    /\ t <= token
    /\ entries[t] # Empty => entries[t] >= since
    /\ \A l \in Loads : load[l].key = t /\ load[l].value # Empty => load[l].value >= since

ReaderIsSound(row) ==
    /\ row.since <= confirmed
    /\ row.pc \in {"get", "miss"} => FindsNothingOlder(row.token, row.since)
    /\ row.pc \in {"resolve", "get", "miss", "fallback"} => ~row.shared
    /\ row.pc = "waiting" =>
          /\ row.load \in Loads
          /\ ~row.shared /\ load[row.load].value # Empty => load[row.load].value >= row.since
    /\ row.pc = "answered" /\ ~row.shared => row.got >= row.since

CacheAgrees ==
    /\ CacheTypeOK
    /\ RotationsFollowCommits
    /\ EntriesAreFresh
    /\ LoadsAreFresh
    /\ \A r \in Readers : ReaderIsSound(reader[r])

LEMMA CacheNumbers ==
    ASSUME CacheTypeOK
    PROVE  /\ committed \in Nat /\ token \in Nat /\ confirmed \in Nat /\ confirmed <= committed
           /\ MaxWrites \in Nat /\ committed <= MaxWrites /\ Empty \notin Nat /\ Empty = Fallback
  BY CacheAssumption DEF CacheTypeOK, Tokens, Empty, Fallback

LEMMA NoReaderType ==
    /\ NoReader \in ReaderRows
    /\ NoReader.pc = "idle" /\ NoReader.since = 0 /\ ~NoReader.shared
  BY CacheAssumption DEF NoReader, ReaderRows, Tokens, CacheValues

LEMMA NoReaderIsSound ==
    ASSUME CacheTypeOK
    PROVE  ReaderIsSound(NoReader)
  BY CacheNumbers, NoReaderType DEF ReaderIsSound

\* A step of one reader that leaves the cache alone.
LEMMA ReaderMoves ==
    ASSUME CacheAgrees, NEW r \in Readers, NEW row \in ReaderRows,
           reader' = [reader EXCEPT ![r] = row], ReaderIsSound(row),
           UNCHANGED <<committed, token, entries, invalidator, load, confirmed>>
    PROVE  CacheAgrees'
  <1>1. CacheTypeOK'
    BY DEF CacheAgrees, CacheTypeOK
  <1>2. RotationsFollowCommits' /\ EntriesAreFresh' /\ LoadsAreFresh'
    BY DEF CacheAgrees, RotationsFollowCommits, Rotating, EntriesAreFresh, LoadsAreFresh
  <1>3. \A q \in Readers : reader'[q] = IF q = r THEN row ELSE reader[q]
    BY DEF CacheAgrees, CacheTypeOK
  <1>4. \A q \in Readers : ReaderIsSound(reader'[q])
    BY <1>3 DEF CacheAgrees
  <1>5. (\A q \in Readers : ReaderIsSound(reader[q]))'
    BY <1>4 DEF ReaderIsSound, FindsNothingOlder
  <1>. QED
    BY <1>1, <1>2, <1>5 DEF CacheAgrees

\* What a reader's row says of its next.
LEMMA ReaderRow ==
    ASSUME CacheAgrees, NEW r \in Readers
    PROVE  reader[r] \in ReaderRows /\ ReaderIsSound(reader[r])
  BY DEF CacheAgrees, CacheTypeOK

LEMMA AskStep ==
    ASSUME CacheAgrees, NEW r \in Readers, Ask(r)
    PROVE  CacheAgrees'
  <1> DEFINE row == [NoReader EXCEPT !.pc = "resolve", !.since = confirmed]
  <1>1. CacheTypeOK /\ confirmed \in Nat
    BY CacheNumbers DEF CacheAgrees
  <1>2. /\ row \in ReaderRows /\ row.pc = "resolve" /\ row.since = confirmed
        /\ ~row.shared
    BY <1>1, NoReaderType DEF ReaderRows
  <1>3. reader' = [reader EXCEPT ![r] = row]
        /\ UNCHANGED <<committed, token, entries, invalidator, load, confirmed>>
    BY DEF Ask
  <1> HIDE DEF row
  <1>4. ReaderIsSound(row)
    BY <1>1, <1>2 DEF ReaderIsSound
  <1>. QED
    BY <1>2, <1>3, <1>4, ReaderMoves

LEMMA ResolveStep ==
    ASSUME CacheAgrees, NEW r \in Readers, Resolve(r)
    PROVE  CacheAgrees'
  <1> PICK old \in ReaderRows : old = reader[r] /\ ReaderIsSound(old) /\ old.pc = "resolve"
    BY ReaderRow DEF Resolve
  <1>1. UNCHANGED <<committed, token, entries, invalidator, load, confirmed>>
    BY DEF Resolve
  <1>2. CacheTypeOK /\ confirmed \in Nat /\ token \in Nat /\ token \in Tokens
    BY CacheNumbers DEF CacheAgrees, CacheTypeOK
  <1>3. CASE reader' = [reader EXCEPT ![r].pc = "get", ![r].token = token]
    <2> DEFINE row == [old EXCEPT !.pc = "get", !.token = token]
    <2>1. /\ row \in ReaderRows /\ row.pc = "get" /\ row.token = token
          /\ row.since = old.since /\ row.shared = old.shared
      BY <1>2 DEF ReaderRows
    <2>2. reader' = [reader EXCEPT ![r] = row]
      BY <1>3 DEF CacheAgrees, CacheTypeOK
    <2> HIDE DEF row
    <2>3. FindsNothingOlder(token, old.since)
      <3>1. old.since \in Nat /\ old.since <= confirmed
        BY DEF ReaderRows, ReaderIsSound
      <3>2. entries[token] \in CacheValues /\ \A l \in Loads : load[l].value \in CacheValues
        BY <1>2 DEF CacheTypeOK, LoadRows
      <3>. QED
        BY <1>2, <3>1, <3>2 DEF CacheAgrees, EntriesAreFresh, LoadsAreFresh, FindsNothingOlder,
                                CacheValues
    <2>4. ReaderIsSound(row)
      BY <2>1, <2>3 DEF ReaderIsSound
    <2>. QED
      BY <1>1, <2>1, <2>2, <2>4, ReaderMoves
  <1>4. CASE reader' = Step(r, "fallback")
    <2> DEFINE row == [old EXCEPT !.pc = "fallback"]
    <2>1. /\ row \in ReaderRows /\ row.pc = "fallback"
          /\ row.since = old.since /\ row.shared = old.shared
      BY DEF ReaderRows
    <2>2. reader' = [reader EXCEPT ![r] = row]
      BY <1>4 DEF Step
    <2> HIDE DEF row
    <2>4. ReaderIsSound(row)
      BY <2>1 DEF ReaderIsSound
    <2>. QED
      BY <1>1, <2>1, <2>2, <2>4, ReaderMoves
  <1>. QED
    BY <1>3, <1>4 DEF Resolve

LEMMA GetStep ==
    ASSUME CacheAgrees, NEW r \in Readers, Get(r)
    PROVE  CacheAgrees'
  <1> PICK old \in ReaderRows : old = reader[r] /\ ReaderIsSound(old) /\ old.pc = "get"
    BY ReaderRow DEF Get
  <1>1. UNCHANGED <<committed, token, entries, invalidator, load, confirmed>>
    BY DEF Get
  <1> PICK found \in CacheValues : found = entries[old.token]
    BY DEF CacheAgrees, CacheTypeOK, ReaderRows
  <1>2. FindsNothingOlder(old.token, old.since) /\ ~old.shared
    BY DEF ReaderIsSound
  <1>3. ASSUME NEW pc \in {"miss", "fallback"}, reader' = Step(r, pc)
        PROVE  CacheAgrees'
    <2> DEFINE row == [old EXCEPT !.pc = pc]
    <2>1. /\ row \in ReaderRows /\ row.pc = pc /\ row.token = old.token
          /\ row.since = old.since /\ row.shared = old.shared
      BY DEF ReaderRows
    <2>2. reader' = [reader EXCEPT ![r] = row]
      BY <1>3 DEF Step
    <2> HIDE DEF row
    <2>4. ReaderIsSound(row)
      BY <1>2, <2>1 DEF ReaderIsSound
    <2>. QED
      BY <1>1, <2>1, <2>2, <2>4, ReaderMoves
  <1>4. ASSUME found # Empty, reader' = [reader EXCEPT ![r].pc = "answered", ![r].got = found]
        PROVE  CacheAgrees'
    <2> DEFINE row == [old EXCEPT !.pc = "answered", !.got = found]
    <2>1. /\ row \in ReaderRows /\ row.pc = "answered" /\ row.got = found
          /\ row.since = old.since /\ row.shared = old.shared
      BY DEF ReaderRows
    <2>2. reader' = [reader EXCEPT ![r] = row]
      BY <1>4 DEF CacheAgrees, CacheTypeOK
    <2>3. found >= old.since
      BY <1>2, <1>4 DEF FindsNothingOlder
    <2> HIDE DEF row
    <2>4. ReaderIsSound(row)
      BY <2>1, <2>3 DEF ReaderIsSound
    <2>. QED
      BY <1>1, <2>1, <2>2, <2>4, ReaderMoves
  <1>. QED
    BY <1>3, <1>4 DEF Get

LEMMA ReaderLeaves ==
    ASSUME CacheAgrees, NEW r \in Readers,
           Refused(r) \/ Answer(r)
    PROVE  CacheAgrees'
  <1>1. reader' = [reader EXCEPT ![r] = NoReader]
        /\ UNCHANGED <<committed, token, entries, invalidator, load, confirmed>>
    BY DEF Refused, Answer
  <1>2. ReaderIsSound(NoReader) /\ NoReader \in ReaderRows
    BY NoReaderIsSound, NoReaderType DEF CacheAgrees
  <1>. QED
    BY <1>1, <1>2, ReaderMoves

\* A load that begins has no value yet, so nobody can find one there.
LEMMA LoadBegins ==
    ASSUME CacheAgrees, NEW r \in Readers, NEW l \in Loads, NEW row \in ReaderRows,
           NEW new \in LoadRows, new.value = Empty, new.key <= token, new.phase = "running",
           load' = [load EXCEPT ![l] = new],
           reader' = [reader EXCEPT ![r] = row],
           row.pc = "waiting", row.load = l, row.since <= confirmed,
           UNCHANGED <<committed, token, entries, invalidator, confirmed>>
    PROVE  CacheAgrees'
  <1>1. CacheTypeOK'
    BY DEF CacheAgrees, CacheTypeOK
  <1>2. \A k \in Loads : load'[k] = IF k = l THEN new ELSE load[k]
    BY DEF CacheAgrees, CacheTypeOK
  <1>3. RotationsFollowCommits' /\ EntriesAreFresh'
    BY DEF CacheAgrees, RotationsFollowCommits, Rotating, EntriesAreFresh
  <1>4. LoadsAreFresh'
    BY <1>2 DEF CacheAgrees, LoadsAreFresh
  <1>5. \A q \in Readers : reader'[q] = IF q = r THEN row ELSE reader[q]
    BY DEF CacheAgrees, CacheTypeOK
  <1>6. ASSUME NEW q \in Readers
        PROVE  ReaderIsSound(reader[q])'
    <2>1. CASE q = r
      BY <1>2, <1>5, <2>1 DEF ReaderIsSound
    <2>2. CASE q # r
      <3> PICK old \in ReaderRows : old = reader[q] /\ ReaderIsSound(old)
        BY ReaderRow
      <3>1. FindsNothingOlder(old.token, old.since) => FindsNothingOlder(old.token, old.since)'
        BY <1>2 DEF FindsNothingOlder
      <3>2. old.load \in Loads /\ load'[old.load].value # Empty =>
                load'[old.load].value = load[old.load].value
        BY <1>2
      <3>3. ReaderIsSound(old)'
        BY <3>1, <3>2 DEF ReaderIsSound
      <3>. QED
        BY <1>5, <2>2, <3>3
    <2>. QED
      BY <2>1, <2>2
  <1>. QED
    BY <1>1, <1>3, <1>4, <1>6 DEF CacheAgrees

LEMMA JoinOrLoadStep ==
    ASSUME CacheAgrees, NEW r \in Readers, JoinOrLoad(r)
    PROVE  CacheAgrees'
  <1> PICK old \in ReaderRows :
          old = reader[r] /\ ReaderIsSound(old) /\ old.pc \in {"miss", "fallback"}
    BY ReaderRow DEF JoinOrLoad
  <1> DEFINE p == ProcessOf[r]
             key == IF old.pc = "fallback" THEN Fallback ELSE old.token
  <1>1. UNCHANGED <<committed, token, entries, invalidator, confirmed>>
    BY DEF JoinOrLoad
  <1>2. /\ Key(r) = key /\ p \in Processes /\ ~old.shared /\ old.since <= confirmed
        /\ old.token \in Nat /\ old.token \in Tokens /\ token \in Nat
        /\ old.pc = "miss" => FindsNothingOlder(old.token, old.since)
    BY CacheNumbers, CacheAssumption DEF Key, ReaderIsSound, ReaderRows, Tokens, CacheAgrees
  <1>3. ASSUME NEW l \in LoadOf(p, Key(r)), UNCHANGED load,
               reader' = [reader EXCEPT ![r].pc = "waiting", ![r].load = l,
                                        ![r].shared = Key(r) = Fallback]
        PROVE  CacheAgrees'
    <2> PICK shared \in BOOLEAN : shared <=> key = Fallback
      OBVIOUS
    <2> DEFINE row == [old EXCEPT !.pc = "waiting", !.load = l, !.shared = shared]
    <2>1. l \in Loads /\ load[l].key = key
      BY <1>2 DEF LoadOf, Tracked
    <2>2. /\ row \in ReaderRows /\ row.pc = "waiting" /\ row.load = l
          /\ row.since = old.since /\ row.shared = shared
      BY <2>1 DEF ReaderRows
    <2>3. reader' = [reader EXCEPT ![r] = row]
      BY <1>2, <1>3 DEF CacheAgrees, CacheTypeOK
    <2> HIDE DEF row
    <2>4. ~shared /\ load[l].value # Empty => load[l].value >= old.since
      BY <1>2, <2>1 DEF FindsNothingOlder
    <2>5. ReaderIsSound(row)
      BY <1>2, <2>1, <2>2, <2>4 DEF ReaderIsSound
    <2>. QED
      BY <1>1, <1>3, <2>2, <2>3, <2>5, ReaderMoves
  <1>4. ASSUME reader' = [reader EXCEPT ![r] = NoReader], UNCHANGED load
        PROVE  CacheAgrees'
    <2>1. ReaderIsSound(NoReader) /\ NoReader \in ReaderRows
      BY NoReaderIsSound, NoReaderType DEF CacheAgrees
    <2>. QED
      BY <1>1, <1>4, <2>1, ReaderMoves
  <1>5. ASSUME NEW l \in Loads,
               load' = [load EXCEPT ![l] = [phase |-> "running", key |-> Key(r), at |-> p,
                                            value |-> Empty]],
               reader' = [reader EXCEPT ![r].pc = "waiting", ![r].load = l]
        PROVE  CacheAgrees'
    <2> DEFINE row == [old EXCEPT !.pc = "waiting", !.load = l]
               new == [phase |-> "running", key |-> key, at |-> p, value |-> Empty]
    <2>1. /\ row \in ReaderRows /\ row.pc = "waiting" /\ row.load = l /\ row.since = old.since
      BY DEF ReaderRows
    <2>2. reader' = [reader EXCEPT ![r] = row]
      BY <1>5 DEF CacheAgrees, CacheTypeOK
    <2>3. key \in Tokens \cup {Fallback} /\ key <= token
      BY <1>2 DEF FindsNothingOlder, Fallback
    <2>4. new \in LoadRows /\ new.value = Empty /\ new.key = key /\ new.phase = "running"
      BY <1>2, <2>3 DEF LoadRows, CacheValues
    <2>5. load' = [load EXCEPT ![l] = new]
      BY <1>2, <1>5
    <2> HIDE DEF row, new, key
    <2>. QED
      BY <1>1, <1>2, <2>1, <2>2, <2>3, <2>4, <2>5, LoadBegins
  <1>. QED
    BY <1>3, <1>4, <1>5 DEF JoinOrLoad

\* A load goes on: it gets a value that is not old, or settles, or is free;
\* its value may be stored under the current token, if that is its key.
LEMMA LoadGoesOn ==
    ASSUME CacheAgrees, NEW l \in Loads, NEW new \in LoadRows,
           load' = [load EXCEPT ![l] = new],
           new.key <= token,
           new.phase = "settled" => new.value # Empty,
           \/ new.value = Empty
           \/ new.value >= confirmed
           \/ new.value = load[l].value /\ new.key = load[l].key,
           reader' \in [Readers -> ReaderRows],
           \A r \in Readers :
               reader'[r] \in {reader[r], NoReader}
               \/ ReaderIsSound(reader[r])',
           entries' \in [Tokens -> CacheValues],
           \A t \in Tokens :
               \/ entries'[t] = entries[t]
               \/ t = token /\ t = load[l].key /\ entries'[t] = load[l].value,
           UNCHANGED <<committed, token, invalidator, confirmed>>
    PROVE  CacheAgrees'
  <1>1. CacheTypeOK'
    BY DEF CacheAgrees, CacheTypeOK
  <1>2. \A k \in Loads : load'[k] = IF k = l THEN new ELSE load[k]
    BY DEF CacheAgrees, CacheTypeOK
  <1>3. RotationsFollowCommits' /\ EntriesAreFresh'
    <2>1. RotationsFollowCommits'
      BY DEF CacheAgrees, RotationsFollowCommits, Rotating
    <2>2. token \in Tokens /\ token \in Nat /\ \A t \in Tokens : t > token => t # token
      BY CacheNumbers DEF CacheAgrees, CacheTypeOK, Tokens
    <2>3. EntriesAreFresh'
      BY <2>2 DEF CacheAgrees, EntriesAreFresh, LoadsAreFresh
    <2>. QED
      BY <2>1, <2>3
  <1>4. LoadsAreFresh'
    BY <1>2 DEF CacheAgrees, LoadsAreFresh
  <1>5. ASSUME NEW r \in Readers
        PROVE  ReaderIsSound(reader[r])'
    <2>1. CASE reader'[r] = reader[r]
      <3> PICK old \in ReaderRows : old = reader[r] /\ ReaderIsSound(old)
        BY ReaderRow
      <3> PICK n \in Nat : n = confirmed
        BY CacheNumbers DEF CacheAgrees
      <3>1. old.since \in Nat /\ old.since <= n /\ new.value \in CacheValues
        BY DEF ReaderRows, ReaderIsSound, LoadRows
      <3>2. FindsNothingOlder(old.token, old.since) => FindsNothingOlder(old.token, old.since)'
        <4>1. old.token \in Tokens
          BY DEF ReaderRows
        <4>. QED
          BY <1>2, <3>1, <4>1 DEF FindsNothingOlder, CacheValues
      <3>3. old.load \in Loads /\ load'[old.load].value # Empty =>
                \/ load'[old.load].value = load[old.load].value
                \/ load'[old.load].value >= old.since
        BY <1>2, <3>1 DEF CacheValues
      <3>4. ReaderIsSound(old)'
        BY <3>2, <3>3 DEF ReaderIsSound
      <3>. QED
        BY <2>1, <3>4
    <2>2. CASE reader'[r] = NoReader
      <3>1. ReaderIsSound(NoReader)'
        BY <1>1, CacheNumbers, NoReaderType DEF ReaderIsSound, CacheAgrees
      <3>. QED
        BY <2>2, <3>1
    <2>. QED
      BY <2>1, <2>2
  <1>6. (\A r \in Readers : ReaderIsSound(reader[r]))'
    BY <1>5
  <1>. QED
    BY <1>1, <1>3, <1>4, <1>6 DEF CacheAgrees

LEMMA SnapshotStep ==
    ASSUME CacheAgrees, NEW l \in Loads, Snapshot(l)
    PROVE  CacheAgrees'
  <1> PICK old \in LoadRows : old = load[l] /\ old.key <= token /\ old.phase # "settled"
    BY DEF CacheAgrees, CacheTypeOK, LoadsAreFresh, Snapshot
  <1>1. committed \in CacheValues /\ committed >= confirmed
    BY CacheNumbers DEF CacheAgrees, CacheTypeOK, CacheValues
  <1> DEFINE new == [old EXCEPT !.value = committed]
  <1>2. new \in LoadRows /\ new.key = old.key /\ new.value = committed /\ new.phase = old.phase
    BY <1>1 DEF LoadRows
  <1>3. load' = [load EXCEPT ![l] = new]
    BY DEF Snapshot
  <1>4. /\ UNCHANGED <<committed, token, entries, invalidator, confirmed, reader>>
        /\ reader' \in [Readers -> ReaderRows] /\ entries' \in [Tokens -> CacheValues]
    BY DEF Snapshot, CacheAgrees, CacheTypeOK
  <1> HIDE DEF new
  <1>7. \/ new.value = Empty
        \/ new.value >= confirmed
        \/ new.value = load[l].value /\ new.key = load[l].key
    BY <1>1, <1>2, <1>3, <1>4
  <1>8. \A r \in Readers : reader'[r] \in {reader[r], NoReader} \/ ReaderIsSound(reader[r])'
    BY <1>1, <1>2, <1>3, <1>4
  <1>. QED
    BY <1>1, <1>2, <1>3, <1>4, <1>7, <1>8, LoadGoesOn

LEMMA DeadlineStep ==
    ASSUME CacheAgrees, NEW l \in Loads, Deadline(l)
    PROVE  CacheAgrees'
  <1> PICK old \in LoadRows : old = load[l] /\ old.key <= token
    BY DEF CacheAgrees, CacheTypeOK, LoadsAreFresh
  <1> DEFINE new == [old EXCEPT !.phase = "late"]
  <1>1. new \in LoadRows /\ new.key = old.key /\ new.value = old.value /\ new.phase = "late"
    BY DEF LoadRows
  <1>2. load' = [load EXCEPT ![l] = new]
    BY DEF Deadline
  <1>3. /\ UNCHANGED <<committed, token, entries, invalidator, confirmed>>
        /\ entries' \in [Tokens -> CacheValues]
    BY DEF Deadline, CacheAgrees, CacheTypeOK
  <1>4. /\ reader' \in [Readers -> ReaderRows]
        /\ \A r \in Readers : reader'[r] \in {reader[r], NoReader}
    BY NoReaderType DEF Deadline, CacheAgrees, CacheTypeOK
  <1> HIDE DEF new
  <1>7. \/ new.value = Empty
        \/ new.value >= confirmed
        \/ new.value = load[l].value /\ new.key = load[l].key
    BY <1>1, <1>2, <1>3, <1>4
  <1>8. \A r \in Readers : reader'[r] \in {reader[r], NoReader} \/ ReaderIsSound(reader[r])'
    BY <1>1, <1>2, <1>3, <1>4
  <1>. QED
    BY <1>1, <1>2, <1>3, <1>4, <1>7, <1>8, LoadGoesOn

LEMMA NoLoadType ==
    NoLoad \in LoadRows /\ NoLoad.key = Fallback /\ NoLoad.value = Empty /\ NoLoad.phase = "free"
  BY DEF NoLoad, LoadRows, CacheValues

LEMMA SettleStep ==
    ASSUME CacheAgrees, NEW l \in Loads, Settle(l)
    PROVE  CacheAgrees'
  <1> PICK old \in LoadRows : old = load[l] /\ old.key <= token /\ old.value # Empty
    BY DEF CacheAgrees, CacheTypeOK, LoadsAreFresh, Settle
  <1>1. Fallback <= token
    BY CacheNumbers DEF CacheAgrees, Fallback
  <1>2. PICK new \in LoadRows :
            /\ load' = [load EXCEPT ![l] = new]
            /\ new.key <= token
            /\ \/ new.value = Empty /\ new.phase # "settled"
               \/ new.value = old.value /\ new.key = old.key
    <2>1. CASE old.phase = "late"
      <3>1. load' = [load EXCEPT ![l] = NoLoad]
        BY <2>1 DEF Settle
      <3>2. NoLoad.key <= token /\ NoLoad.value = Empty /\ NoLoad.phase # "settled"
        BY <1>1, NoLoadType
      <3>. QED
        BY <3>1, <3>2, NoLoadType
    <2>2. CASE old.phase # "late"
      <3> DEFINE settled == [old EXCEPT !.phase = "settled"]
      <3>1. load' = [load EXCEPT ![l] = settled]
        BY <2>2 DEF Settle
      <3>2. settled \in LoadRows /\ settled.value = old.value /\ settled.key = old.key
        BY DEF LoadRows
      <3> HIDE DEF settled
      <3>. QED
        BY <3>1, <3>2
    <2>. QED
      BY <2>1, <2>2
  <1>3. /\ UNCHANGED <<committed, token, entries, invalidator, confirmed>>
        /\ entries' \in [Tokens -> CacheValues]
    BY DEF Settle, CacheAgrees, CacheTypeOK
  <1>4. /\ reader' \in [Readers -> ReaderRows]
        /\ \A r \in Readers : reader'[r] \in {reader[r], NoReader}
    BY NoReaderType DEF Settle, CacheAgrees, CacheTypeOK
  <1>7. \/ new.value = Empty
        \/ new.value >= confirmed
        \/ new.value = load[l].value /\ new.key = load[l].key
    BY <1>2, <1>3, <1>4
  <1>8. \A r \in Readers : reader'[r] \in {reader[r], NoReader} \/ ReaderIsSound(reader[r])'
    BY <1>2, <1>3, <1>4
  <1>. QED
    BY <1>2, <1>3, <1>4, <1>7, <1>8, LoadGoesOn

LEMMA FillStep ==
    ASSUME CacheAgrees, NEW l \in Loads, Fill(l)
    PROVE  CacheAgrees'
  <1> PICK old \in LoadRows : old = load[l] /\ old.value # Empty
    BY DEF CacheAgrees, CacheTypeOK, LoadsAreFresh, Fill
  <1>1. Fallback <= token
    BY CacheNumbers DEF CacheAgrees, Fallback
  <1>2. load' = [load EXCEPT ![l] = NoLoad] /\ UNCHANGED <<committed, token, invalidator, confirmed>>
    BY DEF Fill
  <1>3. /\ entries' \in [Tokens -> CacheValues]
        /\ \A t \in Tokens :
               \/ entries'[t] = entries[t]
               \/ t = token /\ t = load[l].key /\ entries'[t] = load[l].value
    <2>1. old.value \in CacheValues /\ entries \in [Tokens -> CacheValues]
      BY DEF LoadRows, CacheAgrees, CacheTypeOK
    <2>2. \/ entries' = entries
          \/ entries' = [t \in Tokens |-> IF t = token /\ t = old.key THEN old.value ELSE entries[t]]
      BY DEF Fill
    <2>3. CASE entries' = entries
      BY <2>1, <2>3
    <2>4. CASE entries' = [t \in Tokens |-> IF t = token /\ t = old.key THEN old.value
                                            ELSE entries[t]]
      BY <2>1, <2>4
    <2>. QED
      BY <2>2, <2>3, <2>4
  <1>4. ASSUME NEW r \in Readers
        PROVE  reader'[r] \in ReaderRows /\ (reader'[r] = reader[r] \/ ReaderIsSound(reader[r])')
    <2> PICK row \in ReaderRows : row = reader[r] /\ ReaderIsSound(row)
      BY ReaderRow
    <2>1. CASE r \notin WaitingOn(l)
      BY <2>1 DEF Fill
    <2>2. CASE r \in WaitingOn(l)
      <3> DEFINE new == [row EXCEPT !.pc = "answered", !.load = "none", !.got = old.value]
      <3>1. /\ new \in ReaderRows /\ new.pc = "answered" /\ new.got = old.value
            /\ new.since = row.since /\ new.shared = row.shared
        BY DEF ReaderRows, LoadRows
      <3>2. reader'[r] = new
        BY <2>2 DEF Fill
      <3> HIDE DEF new
      <3>3. row.since <= confirmed /\ (~row.shared => old.value >= row.since)
        BY <2>2 DEF ReaderIsSound, WaitingOn
      <3>4. ReaderIsSound(new)'
        BY <1>2, <3>1, <3>3 DEF ReaderIsSound
      <3>. QED
        BY <3>1, <3>2, <3>4
    <2>. QED
      BY <2>1, <2>2
  <1>5. reader' \in [Readers -> ReaderRows]
    BY <1>4 DEF Fill
  <1>6. \A r \in Readers : reader'[r] \in {reader[r], NoReader} \/ ReaderIsSound(reader[r])'
    BY <1>4
  <1>. QED
    BY <1>1, <1>2, <1>3, <1>5, <1>6, NoLoadType, LoadGoesOn

\* Entries that go, a newer token and a later rotation leave every reader sound.
LEMMA ReadersStaySound ==
    ASSUME CacheAgrees, UNCHANGED <<reader, load>>,
           token' \in Nat, token <= token', confirmed' \in Nat, confirmed <= confirmed',
           \A t \in Tokens : entries'[t] \in {entries[t], Empty}
    PROVE  (\A r \in Readers : ReaderIsSound(reader[r]))'
  <1> SUFFICES ASSUME NEW r \in Readers
               PROVE  ReaderIsSound(reader[r])'
    OBVIOUS
  <1> PICK row \in ReaderRows : row = reader[r] /\ ReaderIsSound(row)
    BY ReaderRow
  <1>1. token \in Nat /\ confirmed \in Nat
    BY CacheNumbers DEF CacheAgrees
  <1>2. row.since \in Nat /\ row.token \in Tokens /\ row.token \in Int
    BY CacheAssumption DEF ReaderRows, Tokens
  <1>3. FindsNothingOlder(row.token, row.since) => FindsNothingOlder(row.token, row.since)'
    BY <1>1, <1>2 DEF FindsNothingOlder
  <1>4. ReaderIsSound(row)'
    BY <1>1, <1>2, <1>3 DEF ReaderIsSound
  <1>. QED
    BY <1>4

LEMMA CommitWriteStep ==
    ASSUME CacheAgrees, NEW w \in Writers, CommitWrite(w)
    PROVE  CacheAgrees'
  <1>1. committed \in Nat /\ token \in Nat /\ confirmed \in Nat /\ MaxWrites \in Nat
        /\ committed < MaxWrites /\ confirmed <= committed
    BY CacheNumbers DEF CacheAgrees, CommitWrite
  <1>2. CacheTypeOK'
    BY <1>1 DEF CacheAgrees, CacheTypeOK, CommitWrite
  <1>3. Rotating' = Rotating \cup {w} /\ w \notin Rotating
    BY DEF Rotating, CommitWrite, CacheAgrees, CacheTypeOK
  <1>4. IsFiniteSet(Rotating') /\ Cardinality(Rotating') = Cardinality(Rotating) + 1
    BY <1>3, FS_AddElement DEF CacheAgrees, RotationsFollowCommits
  <1>5. Cardinality(Rotating) \in Nat
    BY FS_CardinalityType DEF CacheAgrees, RotationsFollowCommits
  <1>6. committed' = committed + 1 /\ token' = token
        /\ UNCHANGED <<confirmed, reader, load, entries>>
    BY DEF CommitWrite
  <1>7. RotationsFollowCommits'
    BY <1>1, <1>4, <1>5, <1>6 DEF CacheAgrees, RotationsFollowCommits
  <1>8. EntriesAreFresh' /\ LoadsAreFresh'
    BY <1>6 DEF CacheAgrees, EntriesAreFresh, LoadsAreFresh
  <1>9. (\A r \in Readers : ReaderIsSound(reader[r]))'
    BY <1>1, <1>6, ReadersStaySound
  <1>. QED
    BY <1>2, <1>7, <1>8, <1>9 DEF CacheAgrees

LEMMA EntryGoes ==
    ASSUME CacheAgrees, NEW t \in Tokens,
           entries' \in {entries, [entries EXCEPT ![t] = Empty]},
           invalidator' \in [Writers -> {"idle", "delete", "rotate"}], Rotating' = Rotating,
           UNCHANGED <<committed, token, reader, load, confirmed>>
    PROVE  CacheAgrees'
  <1>1. CacheTypeOK'
    BY DEF CacheAgrees, CacheTypeOK, CacheValues
  <1>2. \A u \in Tokens : entries'[u] \in {entries[u], Empty}
    BY DEF CacheAgrees, CacheTypeOK
  <1>3. token \in Nat /\ token \in Tokens /\ confirmed \in Nat
    BY CacheNumbers DEF CacheAgrees, CacheTypeOK
  <1>4. RotationsFollowCommits' /\ LoadsAreFresh'
    BY DEF CacheAgrees, RotationsFollowCommits, LoadsAreFresh
  <1>5. EntriesAreFresh'
    BY <1>2, <1>3 DEF CacheAgrees, EntriesAreFresh
  <1>6. (\A r \in Readers : ReaderIsSound(reader[r]))'
    BY <1>2, <1>3, ReadersStaySound
  <1>. QED
    BY <1>1, <1>4, <1>5, <1>6 DEF CacheAgrees

LEMMA ExpireStep ==
    ASSUME CacheAgrees, NEW t \in Tokens, Expire(t)
    PROVE  CacheAgrees'
  <1>1. /\ entries' \in {entries, [entries EXCEPT ![t] = Empty]}
        /\ invalidator' \in [Writers -> {"idle", "delete", "rotate"}] /\ Rotating' = Rotating
        /\ UNCHANGED <<committed, token, reader, load, confirmed>>
    BY DEF Expire, TimesOut, CacheAgrees, CacheTypeOK, Rotating
  <1>. QED
    BY <1>1, EntryGoes

LEMMA DeleteKeysStep ==
    ASSUME CacheAgrees, NEW w \in Writers, DeleteKeys(w)
    PROVE  CacheAgrees'
  <1>1. token \in Tokens /\ invalidator \in [Writers -> {"idle", "delete", "rotate"}]
    BY DEF CacheAgrees, CacheTypeOK
  <1>2. /\ entries' \in {entries, [entries EXCEPT ![token] = Empty]}
        /\ invalidator' = [invalidator EXCEPT ![w] = "rotate"]
        /\ UNCHANGED <<committed, token, reader, load, confirmed>>
    BY DEF DeleteKeys
  <1>3. invalidator' \in [Writers -> {"idle", "delete", "rotate"}] /\ Rotating' = Rotating
    BY <1>1, <1>2 DEF DeleteKeys, Rotating
  <1>. QED
    BY <1>1, <1>2, <1>3, EntryGoes

\* A fresh token finds nothing stored: whatever was, or will be, is older.
LEMMA RotateStep ==
    ASSUME CacheAgrees, NEW w \in Writers, Rotate(w)
    PROVE  CacheAgrees'
  <1>1. committed \in Nat /\ token \in Nat /\ confirmed \in Nat /\ MaxWrites \in Nat
        /\ committed <= MaxWrites /\ confirmed <= committed
    BY CacheNumbers DEF CacheAgrees
  <1>2. Rotating' = Rotating \ {w} /\ w \in Rotating
    BY DEF Rotating, Rotate, CacheAgrees, CacheTypeOK
  <1>3. IsFiniteSet(Rotating') /\ Cardinality(Rotating') = Cardinality(Rotating) - 1
    BY <1>2, FS_RemoveElement DEF CacheAgrees, RotationsFollowCommits
  <1>4. Cardinality(Rotating) \in Nat /\ Cardinality(Rotating') \in Nat
    BY <1>3, FS_CardinalityType DEF CacheAgrees, RotationsFollowCommits
  <1>5. token + Cardinality(Rotating) <= committed
    BY DEF CacheAgrees, RotationsFollowCommits
  <1>6. UNCHANGED <<committed, reader, load, entries>>
        /\ invalidator' \in [Writers -> {"idle", "delete", "rotate"}]
    BY DEF Rotate, CacheAgrees, CacheTypeOK
  <1>7. \/ token' = token + 1 /\ confirmed' = committed
        \/ token' = token /\ confirmed' = confirmed
    BY DEF Rotate, FreshToken
  <1>8. /\ token' \in Nat /\ token <= token' /\ confirmed' \in Nat /\ confirmed <= confirmed'
        /\ token' + Cardinality(Rotating') <= committed'
    BY <1>1, <1>3, <1>4, <1>5, <1>6, <1>7
  <1>9. token' \in Tokens
    BY <1>1, <1>4, <1>6, <1>8 DEF Tokens
  <1>10. CacheTypeOK'
    BY <1>1, <1>6, <1>7, <1>9 DEF CacheAgrees, CacheTypeOK
  <1>11. RotationsFollowCommits'
    BY <1>3, <1>8 DEF RotationsFollowCommits
  <1>12. EntriesAreFresh'
    <2>1. CASE token' = token + 1 /\ confirmed' = committed
      <3>1. \A t \in Tokens : t \in Int /\ (t > token + 1 => t > token)
        BY <1>1 DEF Tokens
      <3>2. entries[token'] = Empty
        BY <1>1, <1>9, <2>1 DEF CacheAgrees, EntriesAreFresh
      <3>. QED
        BY <1>6, <2>1, <3>1, <3>2 DEF CacheAgrees, EntriesAreFresh
    <2>2. CASE token' = token /\ confirmed' = confirmed
      BY <1>6, <2>2 DEF CacheAgrees, EntriesAreFresh
    <2>. QED
      BY <1>7, <2>1, <2>2
  <1>13. LoadsAreFresh'
    <2>1. CASE token' = token + 1 /\ confirmed' = committed
      <3>1. \A l \in Loads : load[l].key \in Int /\ load[l].key <= token
        BY <1>1, CacheAssumption
           DEF CacheAgrees, CacheTypeOK, LoadRows, Tokens, Fallback, LoadsAreFresh
      <3>2. \A l \in Loads : load[l].key <= token + 1 /\ load[l].key # token + 1
        BY <1>1, <3>1
      <3>. QED
        BY <1>6, <2>1, <3>2 DEF CacheAgrees, LoadsAreFresh
    <2>2. CASE token' = token /\ confirmed' = confirmed
      BY <1>6, <2>2 DEF CacheAgrees, LoadsAreFresh
    <2>. QED
      BY <1>7, <2>1, <2>2
  <1>14. (\A r \in Readers : ReaderIsSound(reader[r]))'
    BY <1>6, <1>8, ReadersStaySound
  <1>. QED
    BY <1>10, <1>11, <1>12, <1>13, <1>14 DEF CacheAgrees

LEMMA CacheBegins ==
    ASSUME CacheInit
    PROVE  CacheAgrees
  <1>1. CacheTypeOK
    BY CacheAssumption, NoReaderType, NoLoadType DEF CacheInit, CacheTypeOK, Tokens, CacheValues
  <1>2. Rotating = {}
    BY DEF Rotating, CacheInit
  <1>3. RotationsFollowCommits
    BY <1>2, FS_EmptySet DEF RotationsFollowCommits, CacheInit
  <1>4. EntriesAreFresh
    BY CacheNumbers, <1>1 DEF EntriesAreFresh, CacheInit, CacheTypeOK
  <1>5. LoadsAreFresh
    BY NoLoadType DEF LoadsAreFresh, CacheInit, Fallback
  <1>6. \A r \in Readers : ReaderIsSound(reader[r])
    BY <1>1, NoReaderIsSound DEF CacheInit
  <1>. QED
    BY <1>1, <1>3, <1>4, <1>5, <1>6 DEF CacheAgrees

LEMMA CacheStep ==
    ASSUME CacheAgrees, [CacheNext]_cacheVars
    PROVE  CacheAgrees'
  <1>1. CASE UNCHANGED cacheVars
    BY <1>1 DEF cacheVars, CacheAgrees, CacheTypeOK, RotationsFollowCommits, Rotating,
                EntriesAreFresh, LoadsAreFresh, ReaderIsSound, FindsNothingOlder
  <1>2. CASE CacheNext
    BY <1>2, CommitWriteStep, DeleteKeysStep, RotateStep, ExpireStep, AskStep, ResolveStep,
       GetStep, JoinOrLoadStep, ReaderLeaves, SnapshotStep, SettleStep, FillStep, DeadlineStep
       DEF CacheNext, ReaderStep, LoadStep
  <1>. QED
    BY <1>1, <1>2

\* Tokens, entries, loads and readers agree in every state: nothing is stored
\* under a token still to come, and whatever is stored, or will be, under the
\* current one was read after the last rotation that went through.
THEOREM CacheConsistency == CacheSpec => []CacheAgrees
  <1>1. CacheInit => CacheAgrees
    BY CacheBegins
  <1>2. CacheAgrees /\ [CacheNext]_cacheVars => CacheAgrees'
    BY CacheStep
  <1>. QED
    BY <1>1, <1>2, PTL DEF CacheSpec

\* Once a write's rotation went through, a request that starts later is not
\* answered with what was there before it (readThrough, public-cache.service).
THEOREM NoStaleReads == CacheSpec => []NoReadIsOlderThanItsInvalidation
  <1>1. CacheAgrees => NoReadIsOlderThanItsInvalidation
    BY DEF CacheAgrees, NoReadIsOlderThanItsInvalidation, ReaderIsSound
  <1>. QED
    BY <1>1, CacheConsistency, PTL

-----------------------------------------------------------------------------
(* The permits of the read cache                                           *)

PermitsAgree ==
    /\ active \in [Processes -> Nat]
    /\ \A p \in Processes : IsFiniteSet(Running(p))
    /\ PermitsMatchQueries

IsRunning(row) == row.phase \in {"running", "late"}

LEMMA RunningIs ==
    ASSUME NEW p
    PROVE  Running(p) = {l \in Loads : IsRunning(load[l]) /\ load[l].at = p}
  BY DEF Running, Tracked, IsRunning

\* No query begins or ends.
LEMMA PermitsRest ==
    ASSUME CacheTypeOK, PermitsAgree, active' = active,
           \A l \in Loads : /\ IsRunning(load'[l]) <=> IsRunning(load[l])
                            /\ IsRunning(load[l]) => load'[l].at = load[l].at
    PROVE  PermitsAgree'
  <1>1. \A p \in Processes : Running(p)' = Running(p)
    BY RunningIs DEF Running, Tracked, IsRunning
  <1>. QED
    BY <1>1 DEF PermitsAgree, PermitsMatchQueries

LEMMA QueryBegins ==
    ASSUME CacheTypeOK, PermitsAgree, NEW l \in Loads, NEW p \in Processes, NEW k,
           load[l] = NoLoad, active[p] < MaxConcurrentLoads,
           load' = [load EXCEPT ![l] = [phase |-> "running", key |-> k, at |-> p, value |-> Empty]],
           active' = [active EXCEPT ![p] = active[p] + 1]
    PROVE  PermitsAgree'
  <1>1. /\ load'[l].phase = "running" /\ load'[l].at = p
        /\ \A m \in Loads : m # l => load'[m] = load[m]
        /\ load[l].phase = "free"
    BY DEF CacheTypeOK, NoLoad
  <1>2. /\ active' \in [Processes -> Nat] /\ active'[p] = active[p] + 1
        /\ \A q \in Processes : q # p => active'[q] = active[q]
        /\ active[p] \in Nat
    BY DEF PermitsAgree
  <1>3. Running(p)' = Running(p) \cup {l} /\ l \notin Running(p)
    BY <1>1 DEF Running, Tracked
  <1>4. \A q \in Processes : q # p => Running(q)' = Running(q)
    BY <1>1 DEF Running, Tracked
  <1>5. IsFiniteSet(Running(p)') /\ Cardinality(Running(p)') = Cardinality(Running(p)) + 1
    BY <1>3, FS_AddElement DEF PermitsAgree
  <1>6. active'[p] = Cardinality(Running(p)') /\ active'[p] <= MaxConcurrentLoads
    BY <1>2, <1>5, CacheAssumption DEF PermitsAgree, PermitsMatchQueries
  <1>. QED
    BY <1>2, <1>4, <1>5, <1>6 DEF PermitsAgree, PermitsMatchQueries

LEMMA QueryEnds ==
    ASSUME CacheTypeOK, PermitsAgree, NEW l \in Loads, IsRunning(load[l]),
           NEW row, load' = [load EXCEPT ![l] = row], ~IsRunning(row),
           active' = Released(load[l].at)
    PROVE  PermitsAgree'
  <1>6. PICK p : p = load[l].at
    OBVIOUS
  <1>1. load'[l] = row /\ \A m \in Loads : m # l => load'[m] = load[m]
    BY DEF CacheTypeOK
  <1>2. \A q \in Processes : q # p => Running(q)' = Running(q) /\ active'[q] = active[q]
    BY <1>1, <1>6 DEF Running, Tracked, IsRunning, Released, PermitsAgree
  <1>3. CASE p \in Processes
    <2>1. Running(p)' = Running(p) \ {l} /\ l \in Running(p)
      <3>1. l \in Running(p) /\ l \notin Running(p)'
        BY <1>1, <1>6 DEF Running, Tracked, IsRunning
      <3>2. \A m \in Loads : m # l => (m \in Running(p)' <=> m \in Running(p))
        BY <1>1, <1>6 DEF Running, Tracked
      <3>3. Running(p) \subseteq Loads /\ Running(p)' \subseteq Loads
        BY DEF Running, Tracked
      <3>. QED
        BY <3>1, <3>2, <3>3
    <2>2. /\ IsFiniteSet(Running(p)') /\ Cardinality(Running(p)') = Cardinality(Running(p)) - 1
          /\ Cardinality(Running(p)') \in Nat
      BY <1>3, <2>1, FS_RemoveElement, FS_CardinalityType DEF PermitsAgree
    <2>3. active'[p] = active[p] - 1 /\ active[p] \in Nat
      BY <1>3, <1>6 DEF Released, PermitsAgree
    <2>4. active'[p] = Cardinality(Running(p)') /\ active'[p] \in Nat
            /\ active'[p] <= MaxConcurrentLoads
      BY <1>3, <2>2, <2>3, CacheAssumption DEF PermitsAgree, PermitsMatchQueries
    <2>5. active' \in [Processes -> Nat]
      <3>1. active' = [active EXCEPT ![p] = active[p] - 1]
        BY <1>6 DEF Released
      <3>2. active \in [Processes -> Nat]
        BY DEF PermitsAgree
      <3>3. active[p] - 1 \in Nat
        BY <2>3, <2>4
      <3>. QED
        BY <3>1, <3>2, <3>3
    <2>. QED
      BY <1>2, <2>2, <2>4, <2>5 DEF PermitsAgree, PermitsMatchQueries
  <1>4. CASE p \notin Processes
    <2>1. active' = active
      BY <1>4, <1>6 DEF Released, PermitsAgree
    <2>. QED
      BY <1>2, <1>4, <2>1 DEF PermitsAgree, PermitsMatchQueries
  <1>. QED
    BY <1>3, <1>4

LEMMA PermitsStep ==
    ASSUME CacheTypeOK, PermitsAgree, CacheNext
    PROVE  PermitsAgree'
  <1>1. ASSUME UNCHANGED <<load, active>>
        PROVE  PermitsAgree'
    BY <1>1, PermitsRest
  <1>2. ASSUME NEW r \in Readers, JoinOrLoad(r)
        PROVE  PermitsAgree'
    <2>. DEFINE p == ProcessOf[r]
    <2>1. p \in Processes
      BY CacheAssumption
    <2>2. CASE UNCHANGED <<load, active>>
      BY <1>1, <2>2
    <2>3. CASE ~UNCHANGED <<load, active>>
      <3>1. PICK l \in Loads :
                /\ load[l] = NoLoad
                /\ load' = [load EXCEPT ![l] = [phase |-> "running", key |-> Key(r), at |-> p,
                                                value |-> Empty]]
        BY <1>2, <2>3 DEF JoinOrLoad
      <3>2. ~(active[p] >= MaxConcurrentLoads)
        BY <1>2, <2>3 DEF JoinOrLoad
      <3>3. active' = [active EXCEPT ![p] = active[p] + 1]
        BY <1>2, <2>3 DEF JoinOrLoad
      <3>4. active[p] < MaxConcurrentLoads
        BY <2>1, <3>2, CacheAssumption DEF PermitsAgree
      <3>. QED
        BY <2>1, <3>1, <3>3, <3>4, QueryBegins
    <2>. QED
      BY <2>2, <2>3
  <1>3. ASSUME NEW l \in Loads, Snapshot(l)
        PROVE  PermitsAgree'
    BY <1>3, PermitsRest DEF Snapshot, IsRunning, CacheTypeOK, LoadRows
  <1>4. ASSUME NEW l \in Loads, Deadline(l)
        PROVE  PermitsAgree'
    BY <1>4, PermitsRest DEF Deadline, PermitKept, IsRunning, CacheTypeOK, LoadRows
  <1>5. ASSUME NEW l \in Loads, Fill(l)
        PROVE  PermitsAgree'
    <2>1. load' = [load EXCEPT ![l] = NoLoad] /\ load[l].phase = "settled" /\ active' = active
      BY <1>5 DEF Fill
    <2>. QED
      BY <2>1, PermitsRest DEF IsRunning, NoLoad, CacheTypeOK
  <1>6. ASSUME NEW l \in Loads, Settle(l)
        PROVE  PermitsAgree'
    <2>. DEFINE row == IF load[l].phase = "late" THEN NoLoad
                       ELSE [load[l] EXCEPT !.phase = "settled"]
    <2>1. load' = [load EXCEPT ![l] = row] /\ active' = Released(load[l].at)
            /\ IsRunning(load[l])
      BY <1>6 DEF Settle, IsRunning
    <2>2. ~IsRunning(row)
      BY DEF IsRunning, NoLoad, CacheTypeOK, LoadRows
    <2>. HIDE DEF row
    <2>. QED
      BY <2>1, <2>2, QueryEnds
  <1>7. ASSUME NEW w \in Writers, CommitWrite(w) \/ DeleteKeys(w) \/ Rotate(w)
        PROVE  PermitsAgree'
    BY <1>1, <1>7 DEF CommitWrite, DeleteKeys, Rotate
  <1>8. ASSUME NEW t \in Tokens, Expire(t)
        PROVE  PermitsAgree'
    BY <1>1, <1>8 DEF Expire
  <1>9. ASSUME NEW r \in Readers, Ask(r) \/ Resolve(r) \/ Get(r) \/ Refused(r) \/ Answer(r)
        PROVE  PermitsAgree'
    BY <1>1, <1>9 DEF Ask, Resolve, Get, Refused, Answer
  <1>. QED
    BY <1>2, <1>3, <1>4, <1>5, <1>6, <1>7, <1>8, <1>9 DEF CacheNext, ReaderStep, LoadStep

\* A permit is held for exactly the queries the database has not answered,
\* and never more than a process may run, deadlines or not.
THEOREM PermitsAreQueries == CacheSpec => []PermitsMatchQueries
  <1>1. CacheInit => PermitsAgree
    <2>. SUFFICES ASSUME CacheInit PROVE PermitsAgree
      OBVIOUS
    <2>1. \A p \in Processes : Running(p) = {}
      BY DEF CacheInit, Running, Tracked, NoLoad
    <2>. QED
      BY <2>1, FS_EmptySet, CacheAssumption DEF CacheInit, PermitsAgree, PermitsMatchQueries
  <1>2. CacheTypeOK /\ PermitsAgree /\ [CacheNext]_cacheVars => PermitsAgree'
    <2>1. CacheTypeOK /\ PermitsAgree /\ UNCHANGED cacheVars => PermitsAgree'
      BY PermitsRest DEF cacheVars
    <2>. QED
      BY <2>1, PermitsStep
  <1>3. CacheAgrees => CacheTypeOK
    BY DEF CacheAgrees
  <1>4. PermitsAgree => PermitsMatchQueries
    BY DEF PermitsAgree
  <1>. QED
    BY <1>1, <1>2, <1>3, <1>4, CacheConsistency, PTL DEF CacheSpec

-----------------------------------------------------------------------------
(* The circuit breaker of the read cache                                   *)

CallRecords == [running : BOOLEAN, recovering : BOOLEAN, generation : Nat]

BreakerTypeOK ==
    /\ circuit \in [failures : Nat, until : {"closed", "open", "due"}, probe : BOOLEAN,
                    generation : Nat]
    /\ callState \in [CallIds -> CallRecords]

ProbesAreOne ==
    \A c, d \in CallIds : callState[c].recovering /\ callState[d].recovering => c = d

\* Only the probe is of a generation that finds the circuit not closed.
BreakerAgrees ==
    /\ BreakerTypeOK
    /\ ProbesAreOne
    /\ circuit.probe = (\E c \in CallIds : callState[c].recovering)
    /\ \A c \in CallIds :
          /\ callState[c].recovering => callState[c].running
          /\ callState[c].running => callState[c].generation <= circuit.generation
          /\ circuit.until # "closed" /\ callState[c].running /\ ~callState[c].recovering
                => callState[c].generation < circuit.generation

LEMMA BreakerBegins ==
    ASSUME BreakerAgrees, NEW c \in CallIds, Begin(c)
    PROVE  BreakerAgrees'
  <1>. DEFINE recovering == circuit.until # "closed"
  <1>1. /\ circuit' = [circuit EXCEPT !.probe = recovering]
        /\ callState' = [callState EXCEPT ![c] =
               [running |-> TRUE, recovering |-> recovering, generation |-> circuit.generation]]
        /\ ~circuit.probe /\ circuit.until # "open"
    BY DEF Begin, Admits
  <1>2. [running |-> TRUE, recovering |-> recovering, generation |-> circuit.generation]
            \in CallRecords
    BY DEF CallRecords, BreakerAgrees, BreakerTypeOK
  <1>3. /\ callState' \in [CallIds -> CallRecords]
        /\ callState'[c].running /\ callState'[c].recovering = recovering
        /\ callState'[c].generation = circuit.generation
        /\ \A d \in CallIds : d # c => callState'[d] = callState[d]
    BY <1>1, <1>2 DEF BreakerAgrees, BreakerTypeOK
  <1>4. /\ circuit' \in [failures : Nat, until : {"closed", "open", "due"}, probe : BOOLEAN,
                         generation : Nat]
        /\ circuit'.probe = recovering /\ circuit'.until = circuit.until
        /\ circuit'.generation = circuit.generation
    BY <1>1 DEF BreakerAgrees, BreakerTypeOK
  <1>5. \A d \in CallIds : ~callState[d].recovering
    BY <1>1 DEF BreakerAgrees
  <1>6. circuit'.probe = (\E d \in CallIds : callState'[d].recovering)
    BY <1>3, <1>4, <1>5
  <1>7. ProbesAreOne'
    BY <1>3, <1>5 DEF ProbesAreOne
  <1>8. circuit.generation \in Nat
    BY DEF BreakerAgrees, BreakerTypeOK
  <1>9. ASSUME NEW d \in CallIds
        PROVE  /\ callState'[d].recovering => callState'[d].running
               /\ callState'[d].running => callState'[d].generation <= circuit'.generation
               /\ circuit'.until # "closed" /\ callState'[d].running /\ ~callState'[d].recovering
                     => callState'[d].generation < circuit'.generation
    <2>1. CASE d = c
      <3>1. circuit'.until # "closed" => callState'[c].recovering
        BY <1>3, <1>4
      <3>2. callState'[c].generation <= circuit'.generation
        BY <1>3, <1>4, <1>8
      <3>. QED
        BY <1>3, <2>1, <3>1, <3>2
    <2>2. CASE d # c
      BY <1>3, <1>4, <2>2 DEF BreakerAgrees
    <2>. QED
      BY <2>1, <2>2
  <1>10. BreakerTypeOK'
    BY <1>3, <1>4 DEF BreakerTypeOK
  <1>. QED
    BY <1>6, <1>7, <1>9, <1>10 DEF BreakerAgrees

\* What a call that ends leaves behind.
LEMMA BreakerEnds ==
    ASSUME BreakerAgrees, NEW c \in CallIds, callState[c].running,
           callState' = [callState EXCEPT ![c] = NoCall],
           circuit' \in [failures : Nat, until : {"closed", "open", "due"}, probe : BOOLEAN,
                         generation : Nat],
           circuit'.probe = ProbeAfter(c),
           circuit'.generation >= circuit.generation,
           circuit'.until # "closed" /\ circuit.until = "closed"
                => circuit'.generation > circuit.generation
    PROVE  BreakerAgrees'
  <1>1. /\ callState' \in [CallIds -> CallRecords]
        /\ ~callState'[c].running /\ ~callState'[c].recovering
        /\ \A d \in CallIds : d # c => callState'[d] = callState[d]
    BY DEF BreakerAgrees, BreakerTypeOK, CallRecords, NoCall
  <1>2. ProbesAreOne'
    BY <1>1 DEF BreakerAgrees, ProbesAreOne
  <1>3. circuit'.probe = (\E d \in CallIds : callState'[d].recovering)
    <2>1. CASE callState[c].recovering
      <3>1. \A d \in CallIds : ~callState'[d].recovering
        BY <1>1, <2>1 DEF BreakerAgrees, ProbesAreOne
      <3>2. circuit'.probe = FALSE
        BY <2>1 DEF ProbeAfter
      <3>. QED
        BY <3>1, <3>2
    <2>2. CASE ~callState[c].recovering
      <3>1. circuit'.probe = circuit.probe
        BY <2>2 DEF ProbeAfter
      <3>2. (\E d \in CallIds : callState'[d].recovering)
                = (\E d \in CallIds : callState[d].recovering)
        BY <1>1, <2>2
      <3>. QED
        BY <3>1, <3>2 DEF BreakerAgrees
    <2>. QED
      BY <2>1, <2>2
  <1>4. circuit.generation \in Nat /\ circuit'.generation \in Nat
    BY DEF BreakerAgrees, BreakerTypeOK
  <1>5. \A d \in CallIds : callState[d].generation \in Nat
    BY DEF BreakerAgrees, BreakerTypeOK, CallRecords
  <1>6. \A d \in CallIds :
          /\ callState'[d].recovering => callState'[d].running
          /\ callState'[d].running => callState'[d].generation <= circuit'.generation
          /\ circuit'.until # "closed" /\ callState'[d].running /\ ~callState'[d].recovering
                => callState'[d].generation < circuit'.generation
    BY <1>1, <1>4, <1>5 DEF BreakerAgrees
  <1>. QED
    BY <1>1, <1>2, <1>3, <1>6 DEF BreakerAgrees, BreakerTypeOK

LEMMA BreakerSteps ==
    ASSUME BreakerAgrees, BreakerNext
    PROVE  BreakerAgrees'
  <1>1. CASE CooledDown
    BY <1>1 DEF CooledDown, BreakerAgrees, BreakerTypeOK, ProbesAreOne
  <1>2. ASSUME NEW c \in CallIds, Succeed(c)
        PROVE  BreakerAgrees'
    <2>1. ProbeAfter(c) \in BOOLEAN
      BY DEF ProbeAfter, BreakerAgrees, BreakerTypeOK
    <2>2. /\ circuit' \in [failures : Nat, until : {"closed", "open", "due"}, probe : BOOLEAN,
                           generation : Nat]
          /\ circuit'.probe = ProbeAfter(c) /\ circuit'.generation = circuit.generation
          /\ circuit'.until \in {"closed", circuit.until}
      BY <1>2, <2>1 DEF Succeed, BreakerAgrees, BreakerTypeOK
    <2>3. circuit.generation \in Nat
      BY DEF BreakerAgrees, BreakerTypeOK
    <2>4. /\ circuit'.generation >= circuit.generation
          /\ circuit'.until # "closed" /\ circuit.until = "closed"
                => circuit'.generation > circuit.generation
      BY <2>2, <2>3
    <2>5. callState[c].running /\ callState' = [callState EXCEPT ![c] = NoCall]
      BY <1>2 DEF Succeed
    <2>. QED
      BY <2>2, <2>4, <2>5, BreakerEnds
  <1>3. ASSUME NEW c \in CallIds, Fail(c)
        PROVE  BreakerAgrees'
    <2>1. ProbeAfter(c) \in BOOLEAN /\ circuit.failures \in Nat /\ circuit.generation \in Nat
      BY DEF ProbeAfter, BreakerAgrees, BreakerTypeOK
    <2>. DEFINE failures == IF callState[c].recovering THEN circuit.failures
                            ELSE circuit.failures + 1
                opens == callState[c].recovering \/ failures >= BreakerThreshold
    <2>2. failures \in Nat
      BY <2>1
    <2>. HIDE DEF failures
    <2>3. /\ circuit' = IF ~Counts(c) THEN [circuit EXCEPT !.probe = ProbeAfter(c)]
                        ELSE [failures |-> failures, probe |-> ProbeAfter(c),
                              until |-> IF opens THEN "open" ELSE circuit.until,
                              generation |-> circuit.generation + (IF opens THEN 1 ELSE 0)]
          /\ callState[c].running /\ callState' = [callState EXCEPT ![c] = NoCall]
      BY <1>3 DEF Fail, failures
    <2>. HIDE DEF opens
    <2>4. CASE ~Counts(c)
      <3>1. /\ circuit' \in [failures : Nat, until : {"closed", "open", "due"}, probe : BOOLEAN,
                             generation : Nat]
            /\ circuit'.probe = ProbeAfter(c) /\ circuit'.generation = circuit.generation
            /\ circuit'.until = circuit.until
        BY <2>1, <2>3, <2>4 DEF BreakerAgrees, BreakerTypeOK
      <3>2. /\ circuit'.generation >= circuit.generation
            /\ circuit'.until # "closed" /\ circuit.until = "closed"
                  => circuit'.generation > circuit.generation
        BY <2>1, <3>1
      <3>. QED
        BY <2>3, <3>1, <3>2, BreakerEnds
    <2>5. CASE Counts(c)
      <3>1. /\ circuit' \in [failures : Nat, until : {"closed", "open", "due"}, probe : BOOLEAN,
                             generation : Nat]
            /\ circuit'.probe = ProbeAfter(c)
            /\ circuit'.generation = circuit.generation + (IF opens THEN 1 ELSE 0)
            /\ circuit'.until = IF opens THEN "open" ELSE circuit.until
        BY <2>1, <2>2, <2>3, <2>5 DEF BreakerAgrees, BreakerTypeOK
      <3>2. /\ circuit'.generation >= circuit.generation
            /\ circuit'.until # "closed" /\ circuit.until = "closed"
                  => circuit'.generation > circuit.generation
        BY <2>1, <3>1
      <3>. QED
        BY <2>3, <3>1, <3>2, BreakerEnds
    <2>. QED
      BY <2>4, <2>5
  <1>. QED
    BY <1>1, <1>2, <1>3, BreakerBegins DEF BreakerNext

\* Calls and circuit agree, for any number of calls that overlap openings of
\* the circuit (redis in endpoint-cache-controls.service.ts).
THEOREM BreakerConsistency == BreakerSpec => []BreakerAgrees
  <1>1. BreakerInit => BreakerAgrees
    BY DEF BreakerInit, BreakerAgrees, BreakerTypeOK, ProbesAreOne, CallRecords, NoCall
  <1>2. BreakerAgrees /\ UNCHANGED breakerVars => BreakerAgrees'
    BY DEF breakerVars, BreakerAgrees, BreakerTypeOK, ProbesAreOne
  <1>. QED
    BY <1>1, <1>2, BreakerSteps, PTL DEF BreakerSpec

LEMMA ProbesAreCounted ==
    ASSUME BreakerAgrees
    PROVE  OneProbeAtATime
  <1>. DEFINE probes == {c \in CallIds : callState[c].recovering}
  <1>1. Cardinality(probes) <= 1
    <2>1. CASE probes = {}
      BY <2>1, FS_EmptySet
    <2>2. ASSUME NEW c \in probes
          PROVE  Cardinality(probes) <= 1
      <3>1. probes = {c}
        BY DEF BreakerAgrees, ProbesAreOne
      <3>2. Cardinality(probes) = 1
        BY <3>1, FS_Singleton
      <3>. QED
        BY <3>2
    <2>. QED
      BY <2>1, <2>2
  <1>. QED
    BY <1>1 DEF OneProbeAtATime, BreakerAgrees

\* A late success cannot close the circuit: its generation has passed.
LEMMA ClosingStep ==
    ASSUME BreakerAgrees, BreakerNext, circuit.until # "closed", circuit'.until = "closed"
    PROVE  \E c \in CallIds : callState[c].recovering /\ ~callState'[c].running
  <1>1. ~CooledDown
    BY DEF CooledDown, BreakerAgrees, BreakerTypeOK
  <1>2. \A c \in CallIds : ~Begin(c)
    BY DEF Begin, BreakerAgrees, BreakerTypeOK
  <1>3. \A c \in CallIds : ~Fail(c)
    <2>. SUFFICES ASSUME NEW c \in CallIds, Fail(c) PROVE FALSE
      OBVIOUS
    <2>1. circuit'.until \in {"open", circuit.until}
      BY DEF Fail, BreakerAgrees, BreakerTypeOK
    <2>. QED
      BY <2>1
  <1>4. PICK c \in CallIds : Succeed(c)
    BY <1>1, <1>2, <1>3 DEF BreakerNext
  <1>5. Counts(c)
    BY <1>4 DEF Succeed, BreakerAgrees, BreakerTypeOK
  <1>6. callState[c].recovering
    BY <1>4, <1>5 DEF Succeed, Counts, BreakerAgrees, BreakerTypeOK, CallRecords
  <1>7. ~callState'[c].running
    BY <1>4 DEF Succeed, NoCall, BreakerAgrees, BreakerTypeOK
  <1>. QED
    BY <1>6, <1>7

-----------------------------------------------------------------------------
(* The founding of a store                                                 *)

FoundingSteps == {"asked", "checked", "organized", "founded", "failed", "refused"}
FoundingRows ==
    {NotAsked} \cup
    [step : FoundingSteps, owner : Owners, slug : Slugs]

FoundingTypeOK ==
    /\ founding \in [Foundings -> FoundingRows]
    /\ orgs \subseteq Foundings /\ stores \subseteq Foundings /\ stranded \subseteq Foundings
    /\ belonging \subseteq orgs /\ gone \subseteq Owners
    /\ cleanups \in [Foundings -> Nat]

\* A request that holds an organization without a store still has its clean-up
\* before it, and no clean-up is queued for a request that may yet found.
RequestAgrees(r) ==
    /\ founding[r].step \in {"idle", "asked", "checked"} => r \notin orgs
    /\ founding[r].step \in {"organized", "failed"} => r \in orgs
    /\ cleanups[r] > 0 => founding[r].step = "refused"
    /\ r \in orgs => \/ r \in stores \cup stranded
                     \/ founding[r].step \in {"organized", "failed"}
                     \/ cleanups[r] > 0

FoundingAgrees ==
    /\ FoundingTypeOK /\ StoresKeepTheirOrganization
    /\ \A r \in Foundings : RequestAgrees(r)

\* One request moves to another step.
LEMMA FoundingMoves ==
    ASSUME FoundingTypeOK, NEW r \in Foundings, founding[r] # NotAsked,
           NEW s \in FoundingSteps, Goto(r, s)
    PROVE  /\ founding' \in [Foundings -> FoundingRows]
           /\ founding'[r].step = s
           /\ \A q \in Foundings : q # r => founding'[q] = founding[q]
  <1>1. founding[r] \in [step : FoundingSteps, owner : Owners, slug : Slugs]
    BY DEF FoundingTypeOK, FoundingRows
  <1>2. [founding[r] EXCEPT !.step = s] \in FoundingRows
    BY <1>1 DEF FoundingRows
  <1>. QED
    BY <1>1, <1>2 DEF FoundingTypeOK, Goto

LEMMA FoundingStep ==
    ASSUME FoundingAgrees, FoundingNext
    PROVE  FoundingAgrees'
  <1>. USE FoundingAssumption
  <1>1. ASSUME NEW r \in Foundings, NEW o \in Owners, NEW s \in Slugs, AskForStore(r, o, s)
        PROVE  FoundingAgrees'
    <2>1. /\ founding' \in [Foundings -> FoundingRows]
          /\ founding'[r].step = "asked" /\ founding[r].step = "idle"
          /\ \A q \in Foundings : q # r => founding'[q] = founding[q]
      BY <1>1 DEF AskForStore, FoundingAgrees, FoundingTypeOK, FoundingRows, FoundingSteps, NotAsked
    <2>. QED
      BY <1>1, <2>1 DEF AskForStore, FoundingAgrees, FoundingTypeOK, RequestAgrees,
         StoresKeepTheirOrganization
  <1>2. ASSUME NEW r \in Foundings, CheckLimit(r)
        PROVE  FoundingAgrees'
    <2>1. PICK s \in {"checked", "refused"} : Goto(r, s)
      BY <1>2 DEF CheckLimit
    <2>2. founding[r] # NotAsked /\ s \in FoundingSteps
      BY <1>2 DEF CheckLimit, NotAsked, FoundingSteps
    <2>3. /\ founding' \in [Foundings -> FoundingRows] /\ founding'[r].step = s
          /\ \A q \in Foundings : q # r => founding'[q] = founding[q]
      BY <2>1, <2>2, FoundingMoves DEF FoundingAgrees
    <2>. QED
      BY <1>2, <2>1, <2>3 DEF CheckLimit, FoundingAgrees, FoundingTypeOK, RequestAgrees,
         StoresKeepTheirOrganization
  <1>3. ASSUME NEW r \in Foundings, CreateOrganization(r)
        PROVE  FoundingAgrees'
    <2>1. PICK s \in {"organized", "refused"} :
              /\ Goto(r, s)
              /\ \/ s = "refused" /\ UNCHANGED <<orgs, belonging, stranded>>
                 \/ /\ orgs' = orgs \cup {r} /\ belonging' \in {belonging, belonging \cup {r}}
                    /\ stranded' = IF s = "refused" THEN stranded \cup {r} ELSE stranded
      BY <1>3 DEF CreateOrganization
    <2>2. founding[r] # NotAsked /\ s \in FoundingSteps
      BY <1>3 DEF CreateOrganization, NotAsked, FoundingSteps
    <2>3. /\ founding' \in [Foundings -> FoundingRows] /\ founding'[r].step = s
          /\ \A q \in Foundings : q # r => founding'[q] = founding[q]
      BY <2>1, <2>2, FoundingMoves DEF FoundingAgrees
    <2>. QED
      BY <1>3, <2>1, <2>3 DEF CreateOrganization, FoundingAgrees, FoundingTypeOK, RequestAgrees,
         StoresKeepTheirOrganization
  <1>4. ASSUME NEW r \in Foundings, CreateStore(r)
        PROVE  FoundingAgrees'
    <2>1. PICK s \in {"founded", "failed"} :
              /\ Goto(r, s)
              /\ stores' \in {stores, stores \cup {r}}
              /\ s = "founded" => r \in stores'
      BY <1>4 DEF CreateStore
    <2>2. founding[r] # NotAsked /\ s \in FoundingSteps
      BY <1>4 DEF CreateStore, NotAsked, FoundingSteps
    <2>3. /\ founding' \in [Foundings -> FoundingRows] /\ founding'[r].step = s
          /\ \A q \in Foundings : q # r => founding'[q] = founding[q]
      BY <2>1, <2>2, FoundingMoves DEF FoundingAgrees
    <2>. QED
      BY <1>4, <2>1, <2>3 DEF CreateStore, FoundingAgrees, FoundingTypeOK, RequestAgrees,
         StoresKeepTheirOrganization
  <1>5. ASSUME NEW r \in Foundings, DeleteOrphanedOrg(r)
        PROVE  FoundingAgrees'
    <2>1. founding[r] # NotAsked /\ Goto(r, "refused") /\ "refused" \in FoundingSteps
      BY <1>5 DEF DeleteOrphanedOrg, NotAsked, FoundingSteps
    <2>2. /\ founding' \in [Foundings -> FoundingRows] /\ founding'[r].step = "refused"
          /\ \A q \in Foundings : q # r => founding'[q] = founding[q]
      BY <2>1, FoundingMoves DEF FoundingAgrees
    <2>. QED
      BY <1>5, <2>2 DEF DeleteOrphanedOrg, QueueCleanup, FoundingAgrees, FoundingTypeOK,
         RequestAgrees, StoresKeepTheirOrganization
  <1>6. ASSUME NEW r \in Foundings, RunCleanup(r)
        PROVE  FoundingAgrees'
    <2>1. /\ cleanups' \in [Foundings -> Nat] /\ cleanups'[r] <= cleanups[r]
          /\ \A q \in Foundings : q # r => cleanups'[q] = cleanups[q]
      BY <1>6 DEF RunCleanup, FoundingAgrees, FoundingTypeOK
    <2>2. founding[r].step = "refused"
      BY <1>6 DEF RunCleanup, FoundingAgrees, RequestAgrees
    <2>3. r \in orgs' => r \in stores \cup stranded' \/ cleanups'[r] > 0
      BY <1>6 DEF RunCleanup, MayBeDeleted, FoundingAgrees, FoundingTypeOK
    <2>. QED
      BY <1>6, <2>1, <2>2, <2>3 DEF RunCleanup, MayBeDeleted, FoundingAgrees, FoundingTypeOK,
         RequestAgrees, StoresKeepTheirOrganization
  <1>7. ASSUME NEW r \in Foundings, FounderDies(r)
        PROVE  FoundingAgrees'
    <2>1. founding[r] # NotAsked /\ Goto(r, "refused") /\ "refused" \in FoundingSteps
      BY <1>7 DEF FounderDies, NotAsked, FoundingSteps
    <2>2. /\ founding' \in [Foundings -> FoundingRows] /\ founding'[r].step = "refused"
          /\ \A q \in Foundings : q # r => founding'[q] = founding[q]
      BY <2>1, FoundingMoves DEF FoundingAgrees
    <2>. QED
      BY <1>7, <2>2 DEF FounderDies, FoundingAgrees, FoundingTypeOK, RequestAgrees,
         StoresKeepTheirOrganization
  <1>8. ASSUME NEW o \in Owners, OwnerIsRemoved(o)
        PROVE  FoundingAgrees'
    <2>1. /\ UNCHANGED <<founding, orgs, cleanups>> /\ gone' = gone \cup {o}
          /\ stores' \subseteq stores /\ belonging' \subseteq belonging
          /\ stranded \subseteq stranded' /\ stranded' \subseteq stranded \cup stores
          /\ stores \subseteq stores' \cup stranded'
      BY <1>8 DEF OwnerIsRemoved
    <2>. QED
      BY <2>1 DEF FoundingAgrees, FoundingTypeOK, RequestAgrees, StoresKeepTheirOrganization
  <1>. QED
    BY <1>1, <1>2, <1>3, <1>4, <1>5, <1>6, <1>7, <1>8 DEF FoundingNext

\* Requests, organizations, stores and clean-ups agree, whatever crashes or
\* loses its answer at the organization, the store or between the two, whoever
\* raced for the owner's place or the slug, and also when a store goes with the
\* account of its owner (createStore).
THEOREM FoundingConsistency == FoundingSpec => []FoundingAgrees
  <1>1. FoundingInit => FoundingAgrees
    BY FoundingAssumption DEF FoundingInit, FoundingAgrees, FoundingTypeOK, FoundingRows, NotAsked,
       RequestAgrees, StoresKeepTheirOrganization
  <1>2. FoundingAgrees /\ [FoundingNext]_foundingVars => FoundingAgrees'
    <2>1. ASSUME FoundingAgrees, UNCHANGED foundingVars
          PROVE  FoundingAgrees'
      BY <2>1 DEF foundingVars, FoundingAgrees, FoundingTypeOK, RequestAgrees,
         StoresKeepTheirOrganization
    <2>. QED
      BY <2>1, FoundingStep
  <1>. QED
    BY <1>1, <1>2, PTL DEF FoundingSpec

LEMMA OrganizationsAgree ==
    ASSUME FoundingAgrees
    PROVE  StoresKeepTheirOrganization /\ NoOrganizationIsForgotten
  BY DEF FoundingAgrees, FoundingTypeOK, RequestAgrees, NoOrganizationIsForgotten

-----------------------------------------------------------------------------
(* A store                                                                 *)

StoreStatus == {"active", "owner_closed", "platform_suspended"}
AuditRows == [from : StoreStatus, to : StoreStatus]
SettingRows == [version : Nat, fee : Fees \cup {0}]
SyncRows == [job : Nat, to : StoreNames, tries : Int]

RequestRows ==
    {Idle}
    \cup [step : {"transition"}, previous : StoreStatus, new : StoreStatus]
    \cup [step : {"rename"}, to : StoreNames, saw : StoreNames]
    \cup [step : {"sync"}, to : StoreNames, job : Nat]
    \cup [step : {"logo"}, file : LogoFiles, old : LogoFiles \cup {NoLogo}]
    \cup [step : {"settings"}, fee : Fees, saw : SettingRows]

StoresTypeOK ==
    /\ status \in StoreStatus /\ audit \in Seq(AuditRows)
    /\ storeName \in StoreNames /\ orgName \in StoreNames
    /\ syncs \subseteq SyncRows /\ unsynced \in BOOLEAN /\ renames \in Nat
    /\ logo \in LogoFiles \cup {NoLogo}
    /\ files \subseteq LogoFiles /\ trash \subseteq LogoFiles /\ inDoubt \subseteq LogoFiles
    /\ unusedKeys \subseteq LogoFiles
    /\ settings \in SettingRows
    /\ requests \in [People -> RequestRows]

\* Copies on their way carry the name of the store, unless one was overtaken.
CopiesAreCurrent ==
    \/ unsynced
    \/ /\ \A j \in syncs : j.to = storeName
       /\ \A p \in People : requests[p].step = "sync" => requests[p].to = storeName

\* A request that uploaded has its file to itself: nobody is about to delete it
\* and nobody saw it as the logo before.
Uploading == {p \in People : requests[p].step = "logo"}

LogosAgree ==
    /\ LogoIsInStorage
    /\ logo \notin unusedKeys
    /\ logo \in trash => logo \in inDoubt
    /\ trash \cap unusedKeys = {}
    /\ \A p \in Uploading :
          /\ requests[p].file \in files \ (trash \cup unusedKeys \cup {logo})
          /\ requests[p].old \notin unusedKeys
          /\ \A q \in Uploading :
                /\ requests[q].old # requests[p].file
                /\ q # p => requests[q].file # requests[p].file

\* Whoever read the settings at their present version read what they are.
SettingsAgree ==
    \A p \in People : requests[p].step = "settings" =>
        /\ requests[p].saw.version <= settings.version
        /\ requests[p].saw.version = settings.version => requests[p].saw = settings

StoresAgree ==
    /\ StoresTypeOK
    /\ AuditTellsTheStory
    /\ NamesPartOnlyByOvertaking /\ CopiesAreCurrent
    /\ LogosAgree /\ SettingsAgree

-----------------------------------------------------------------------------
(* What the rows of requests look like *)

LEMMA RequestShapes ==
    ASSUME StoresTypeOK, NEW p \in People
    PROVE  /\ requests[p].step = "transition" =>
                 requests[p].previous \in StoreStatus /\ requests[p].new \in StoreStatus
           /\ requests[p].step = "rename" =>
                 requests[p].to \in StoreNames /\ requests[p].saw \in StoreNames
           /\ requests[p].step = "sync" =>
                 requests[p].to \in StoreNames /\ requests[p].job \in Nat
           /\ requests[p].step = "logo" =>
                 requests[p].file \in LogoFiles /\ requests[p].old \in LogoFiles \cup {NoLogo}
           /\ requests[p].step = "settings" =>
                 requests[p].fee \in Fees /\ requests[p].saw \in SettingRows
  <1>1. requests[p] \in RequestRows
    BY DEF StoresTypeOK
  <1>. QED
    BY <1>1 DEF RequestRows, Idle

LEMMA Asking ==
    ASSUME StoresTypeOK, NEW p \in People, NEW r \in RequestRows, Asks(p, r)
    PROVE  /\ requests' \in [People -> RequestRows] /\ requests'[p] = r
           /\ requests[p].step = "idle"
           /\ \A q \in People : q # p => requests'[q] = requests[q]
  BY DEF StoresTypeOK, Asks, Idle

LEMMA Ending ==
    ASSUME StoresTypeOK, NEW p \in People, Ends(p)
    PROVE  /\ requests' \in [People -> RequestRows] /\ requests'[p].step = "idle"
           /\ \A q \in People : q # p => requests'[q] = requests[q]
  BY DEF StoresTypeOK, Ends, Idle, RequestRows

LEMMA StoresStayTyped ==
    ASSUME StoresTypeOK, StoresNext
    PROVE  StoresTypeOK'
  <1>. USE DEF statusVars, nameVars, logoVars
  <1>1. ASSUME NEW p \in People, AskTransition(p)
        PROVE  StoresTypeOK'
    <2>1. PICK previous \in StoreStatus, new \in StoreStatus :
              Asks(p, [step |-> "transition", previous |-> previous, new |-> new])
      BY <1>1 DEF AskTransition, StoresTypeOK, StoreStatus
    <2>2. [step |-> "transition", previous |-> previous, new |-> new] \in RequestRows
      BY DEF RequestRows
    <2>. QED
      BY <1>1, <2>1, <2>2, Asking DEF AskTransition, StoresTypeOK
  <1>2. ASSUME NEW p \in People, TransitionStatus(p)
        PROVE  StoresTypeOK'
    <2>1. requests[p].previous \in StoreStatus /\ requests[p].new \in StoreStatus
      BY <1>2, RequestShapes DEF TransitionStatus
    <2>2. [from |-> requests[p].previous, to |-> requests[p].new] \in AuditRows
      BY <2>1 DEF AuditRows
    <2>. QED
      BY <1>2, <2>1, <2>2, Ending DEF TransitionStatus, StoresTypeOK
  <1>3. ASSUME NEW p \in People, AskRename(p)
        PROVE  StoresTypeOK'
    <2>1. PICK n \in StoreNames :
              Asks(p, [step |-> "rename", to |-> n, saw |-> storeName])
      BY <1>3 DEF AskRename
    <2>2. [step |-> "rename", to |-> n, saw |-> storeName] \in RequestRows
      BY DEF RequestRows, StoresTypeOK
    <2>. QED
      BY <1>3, <2>1, <2>2, Asking DEF AskRename, StoresTypeOK
  <1>4. ASSUME NEW p \in People, UpdateActiveStore(p)
        PROVE  StoresTypeOK'
    <2>1. requests[p].to \in StoreNames
      BY <1>4, RequestShapes DEF UpdateActiveStore
    <2>2. CASE status = "active"
      <3>1. renames' \in Nat
        BY <1>4, <2>2 DEF UpdateActiveStore, StoresTypeOK
      <3>2. [step |-> "sync", to |-> requests[p].to, job |-> renames'] \in RequestRows
        BY <2>1, <3>1 DEF RequestRows
      <3>3. Idle \in RequestRows
        BY DEF RequestRows
      <3>4. requests' \in [People -> RequestRows]
        BY <1>4, <2>2, <3>2, <3>3 DEF UpdateActiveStore, StoresTypeOK
      <3>5. unsynced' \in BOOLEAN
        BY <1>4, <2>2 DEF UpdateActiveStore, StoresTypeOK
      <3>. QED
        BY <1>4, <2>1, <2>2, <3>1, <3>4, <3>5 DEF UpdateActiveStore, StoresTypeOK
    <2>3. CASE status # "active"
      BY <1>4, <2>3, Ending DEF UpdateActiveStore, StoresTypeOK
    <2>. QED
      BY <2>2, <2>3
  <1>5. ASSUME NEW p \in People, SyncOrganizationName(p)
        PROVE  StoresTypeOK'
    <2>1. requests[p].to \in StoreNames /\ requests[p].job \in Nat
      BY <1>5, RequestShapes DEF SyncOrganizationName
    <2>2. [job |-> requests[p].job, to |-> requests[p].to, tries |-> SyncTries] \in SyncRows
      BY <2>1, StoresAssumption DEF SyncRows
    <2>3. RetryJob(p) \subseteq SyncRows
      BY <2>2 DEF RetryJob, StoresTypeOK
    <2>. QED
      BY <1>5, <2>1, <2>3, Ending DEF SyncOrganizationName, StoresTypeOK
  <1>6. ASSUME NEW j \in syncs, RunSync(j)
        PROVE  StoresTypeOK'
    <2>1. j \in SyncRows
      BY DEF StoresTypeOK
    <2>2. j.to \in StoreNames /\ [j EXCEPT !.tries = j.tries - 1] \in SyncRows
      BY <2>1 DEF SyncRows
    <2>3. syncs' \subseteq SyncRows
      BY <1>6, <2>2 DEF RunSync, StoresTypeOK
    <2>4. unsynced' \in BOOLEAN
      BY <1>6 DEF RunSync, StoresTypeOK
    <2>. QED
      BY <1>6, <2>2, <2>3, <2>4 DEF RunSync, StoresTypeOK
  <1>7. ASSUME NEW p \in People, UploadLogo(p)
        PROVE  StoresTypeOK'
    <2>1. PICK f \in unusedKeys :
              /\ Asks(p, [step |-> "logo", file |-> f, old |-> logo])
              /\ files' = files \cup {f} /\ unusedKeys' = unusedKeys \ {f}
      BY <1>7 DEF UploadLogo
    <2>2. [step |-> "logo", file |-> f, old |-> logo] \in RequestRows
      BY DEF RequestRows, StoresTypeOK
    <2>. QED
      BY <1>7, <2>1, <2>2, Asking DEF UploadLogo, StoresTypeOK
  <1>8. ASSUME NEW p \in People, SaveLogo(p)
        PROVE  StoresTypeOK'
    <2>1. requests[p].file \in LogoFiles /\ requests[p].old \in LogoFiles \cup {NoLogo}
      BY <1>8, RequestShapes DEF SaveLogo
    <2>2. TheOldOne(p) \subseteq LogoFiles
      BY <2>1 DEF TheOldOne
    <2>3. requests' \in [People -> RequestRows]
      BY <1>8, Ending DEF SaveLogo
    <2>. QED
      BY <1>8, <2>1, <2>2, <2>3 DEF SaveLogo, StoresTypeOK
  <1>9. ASSUME NEW f \in LogoFiles, DeleteFile(f)
        PROVE  StoresTypeOK'
    BY <1>9 DEF DeleteFile, StoresTypeOK
  <1>10. ASSUME NEW p \in People, ReadSettings(p)
         PROVE  StoresTypeOK'
    <2>1. PICK f \in Fees : Asks(p, [step |-> "settings", fee |-> f, saw |-> settings])
      BY <1>10 DEF ReadSettings
    <2>2. [step |-> "settings", fee |-> f, saw |-> settings] \in RequestRows
      BY DEF RequestRows, StoresTypeOK
    <2>. QED
      BY <1>10, <2>1, <2>2, Asking DEF ReadSettings, StoresTypeOK
  <1>11. ASSUME NEW p \in People, UpdateSettings(p)
         PROVE  StoresTypeOK'
    <2>1. requests[p].fee \in Fees /\ requests[p].saw \in SettingRows
      BY <1>11, RequestShapes DEF UpdateSettings
    <2>2. [version |-> requests[p].saw.version + 1, fee |-> requests[p].fee] \in SettingRows
      BY <2>1 DEF SettingRows
    <2>. QED
      BY <1>11, <2>2, Ending DEF UpdateSettings, StoresTypeOK
  <1>12. ASSUME NEW p \in People, PersonLeaves(p)
         PROVE  StoresTypeOK'
    <2>1. unsynced' \in BOOLEAN
      BY <1>12 DEF PersonLeaves, StoresTypeOK
    <2>. QED
      BY <1>12, <2>1, Ending DEF PersonLeaves, StoresTypeOK
  <1>. QED
    BY <1>1, <1>2, <1>3, <1>4, <1>5, <1>6, <1>7, <1>8, <1>9, <1>10, <1>11, <1>12 DEF StoresNext

-----------------------------------------------------------------------------
(* The audit *)

LEMMA AuditStep ==
    ASSUME StoresAgree, StoresNext
    PROVE  AuditTellsTheStory'
  <1>1. CASE UNCHANGED statusVars
    BY <1>1 DEF statusVars, StoresAgree, AuditTellsTheStory
  <1>2. ASSUME NEW p \in People, TransitionStatus(p), IsAsExpected(p)
        PROVE  AuditTellsTheStory'
    <2>. DEFINE row == [from |-> requests[p].previous, to |-> requests[p].new]
    <2>1. audit' = Append(audit, row) /\ status' = row.to /\ status = row.from
      BY <1>2 DEF TransitionStatus, IsAsExpected
    <2>2. audit \in Seq(AuditRows) /\ audit' \in Seq(AuditRows)
      BY StoresStayTyped DEF StoresAgree, StoresTypeOK
    <2>3. /\ Len(audit) \in Nat /\ Len(audit') = Len(audit) + 1
          /\ \A i \in 1..Len(audit) : audit'[i] = audit[i]
          /\ audit'[Len(audit) + 1] = row
      BY <2>1, <2>2
    <2>. HIDE DEF row
    <2>4. ASSUME NEW i \in 0..Len(audit')
          PROVE  (IF i = 0 THEN "active" ELSE audit'[i].to)
                     = (IF i = Len(audit') THEN status' ELSE audit'[i + 1].from)
      <3>1. CASE i = Len(audit) + 1
        BY <2>1, <2>3, <3>1
      <3>2. CASE i = Len(audit)
        BY <2>1, <2>3, <3>2 DEF StoresAgree, AuditTellsTheStory
      <3>3. CASE i < Len(audit)
        BY <2>3, <3>3 DEF StoresAgree, AuditTellsTheStory
      <3>. QED
        BY <2>3, <3>1, <3>2, <3>3
    <2>. QED
      BY <2>4 DEF AuditTellsTheStory
  <1>3. \/ UNCHANGED statusVars
        \/ \E p \in People : TransitionStatus(p) /\ IsAsExpected(p)
    BY DEF StoresNext, AskTransition, TransitionStatus, AskRename, UpdateActiveStore,
       SyncOrganizationName, UploadLogo, SaveLogo, ReadSettings, UpdateSettings, PersonLeaves,
       RunSync, DeleteFile
  <1>. QED
    BY <1>1, <1>2, <1>3

-----------------------------------------------------------------------------
(* The names *)

NamesAgree == NamesPartOnlyByOvertaking /\ CopiesAreCurrent

\* Whoever does something else with the store sends no copy and settles none.
LEMMA NamesRest ==
    ASSUME StoresTypeOK, NamesAgree, UNCHANGED nameVars,
           \A p \in People : requests'[p].step = "sync" <=> requests[p].step = "sync",
           \A p \in People : requests[p].step = "sync" => requests'[p] = requests[p]
    PROVE  NamesAgree'
  <1>1. /\ storeName' = storeName /\ orgName' = orgName /\ syncs' = syncs
        /\ unsynced' = unsynced
    BY DEF nameVars
  <1>2. CopyOnItsWay' <=> CopyOnItsWay
    BY <1>1 DEF CopyOnItsWay
  <1>. QED
    BY <1>1, <1>2 DEF NamesAgree, NamesPartOnlyByOvertaking, CopiesAreCurrent

LEMMA RenameStep ==
    ASSUME StoresTypeOK, NamesAgree, NEW p \in People, UpdateActiveStore(p)
    PROVE  NamesAgree'
  <1>1. requests \in [People -> RequestRows] /\ requests[p].step = "rename"
    BY DEF UpdateActiveStore, StoresTypeOK
  <1>2. CASE status # "active"
    <2>1. UNCHANGED nameVars
      BY <1>2 DEF UpdateActiveStore, nameVars
    <2>. QED
      BY <1>1, <1>2, <2>1, Ending, NamesRest DEF UpdateActiveStore
  <1>3. CASE status = "active"
    <2>1. /\ storeName' = requests[p].to /\ orgName' = orgName /\ syncs' = syncs
          /\ unsynced' = (unsynced \/ CopyOnItsWay \/ storeName # requests[p].saw)
          /\ requests' = [requests EXCEPT ![p] =
                 IF NameChanged(p)
                 THEN [step |-> "sync", to |-> requests[p].to, job |-> renames'] ELSE Idle]
      BY <1>3 DEF UpdateActiveStore
    <2>2. CASE unsynced'
      BY <2>2 DEF NamesAgree, NamesPartOnlyByOvertaking, CopiesAreCurrent
    <2>3. CASE ~unsynced'
      <3>1. ~CopyOnItsWay /\ storeName = requests[p].saw /\ storeName = orgName
        BY <2>1, <2>3 DEF NamesAgree, NamesPartOnlyByOvertaking
      <3>2. syncs' = {} /\ \A q \in People : requests[q].step # "sync"
        BY <2>1, <3>1 DEF CopyOnItsWay
      <3>3. \A q \in People : q # p => requests'[q].step # "sync"
        BY <2>1, <3>2, <1>1
      <3>4. CASE NameChanged(p)
        <4>1. requests'[p] = [step |-> "sync", to |-> storeName', job |-> renames']
          BY <1>1, <2>1, <3>4
        <4>2. requests'[p].step = "sync" /\ requests'[p].to = storeName'
          BY <4>1
        <4>3. CopyOnItsWay' /\ CopiesAreCurrent'
          BY <3>2, <3>3, <4>2 DEF CopyOnItsWay, CopiesAreCurrent
        <4>. QED
          BY <4>3 DEF NamesAgree, NamesPartOnlyByOvertaking
      <3>5. CASE ~NameChanged(p)
        <4>1. requests'[p] = Idle
          BY <1>1, <2>1, <3>5
        <4>2. \A q \in People : requests'[q].step # "sync"
          BY <3>3, <4>1 DEF Idle
        <4>3. storeName' = orgName'
          BY <2>1, <3>1, <3>5 DEF NameChanged
        <4>. QED
          BY <3>2, <4>2, <4>3 DEF NamesAgree, NamesPartOnlyByOvertaking, CopiesAreCurrent
      <3>. QED
        BY <3>4, <3>5
    <2>. QED
      BY <2>2, <2>3
  <1>. QED
    BY <1>2, <1>3

LEMMA SyncStep ==
    ASSUME StoresTypeOK, NamesAgree, NEW p \in People, SyncOrganizationName(p)
    PROVE  NamesAgree'
  <1>1. /\ requests'[p].step = "idle" /\ requests[p].step = "sync" /\ storeName' = storeName
        /\ \A q \in People : q # p => requests'[q] = requests[q]
    BY Ending DEF SyncOrganizationName
  <1>2. CASE unsynced'
    BY <1>2 DEF NamesAgree, NamesPartOnlyByOvertaking, CopiesAreCurrent
  <1>3. CASE ~unsynced'
    <2>1. ~unsynced
      BY <1>3 DEF SyncOrganizationName
    <2>2. /\ requests[p].to = storeName
          /\ \A j \in syncs : j.to = storeName
          /\ \A q \in People : requests[q].step = "sync" => requests[q].to = storeName
      BY <1>1, <2>1 DEF NamesAgree, CopiesAreCurrent
    <2>3. \A q \in People : requests'[q].step = "sync" => requests'[q].to = storeName'
      BY <1>1, <2>2
    <2>4. CASE orgName' = requests[p].to /\ syncs' = syncs
      BY <1>1, <2>2, <2>3, <2>4 DEF NamesAgree, NamesPartOnlyByOvertaking, CopiesAreCurrent
    <2>5. CASE syncs' = RetryJob(p)
      <3>. DEFINE job == [job |-> requests[p].job, to |-> requests[p].to, tries |-> SyncTries]
      <3>2. syncs' = syncs \cup {job} /\ job.to = storeName
        BY <2>2, <2>5 DEF RetryJob
      <3>. HIDE DEF job
      <3>1. syncs' # {} /\ \A j \in syncs' : j.to = storeName'
        BY <1>1, <2>2, <3>2
      <3>. QED
        BY <2>3, <3>1
           DEF NamesAgree, NamesPartOnlyByOvertaking, CopiesAreCurrent, CopyOnItsWay
    <2>. QED
      BY <1>3, <2>4, <2>5 DEF SyncOrganizationName
  <1>. QED
    BY <1>2, <1>3

LEMMA RunSyncStep ==
    ASSUME StoresTypeOK, NamesAgree, NEW j \in syncs, RunSync(j)
    PROVE  NamesAgree'
  <1>1. j \in SyncRows
    BY DEF StoresTypeOK
  <1>2. CASE unsynced'
    BY <1>2 DEF NamesAgree, NamesPartOnlyByOvertaking, CopiesAreCurrent
  <1>3. CASE ~unsynced'
    <2>5. unsynced' = unsynced \/ unsynced' = (unsynced \/ j.tries = 1)
      BY DEF RunSync
    <2>6. ~unsynced
      BY <1>3, <2>5
    <2>1. ~unsynced /\ storeName' = storeName /\ requests' = requests
      BY <2>6 DEF RunSync
    <2>2. /\ \A k \in syncs : k.to = storeName
          /\ \A q \in People : requests[q].step = "sync" => requests[q].to = storeName
      BY <2>1 DEF NamesAgree, CopiesAreCurrent
    <2>3. CASE orgName' = j.to /\ syncs' = syncs \ {j}
      BY <2>1, <2>2, <2>3 DEF NamesAgree, NamesPartOnlyByOvertaking, CopiesAreCurrent
    <2>4. CASE orgName' = orgName /\ j.tries # 1
               /\ syncs' = (syncs \ {j}) \cup {[j EXCEPT !.tries = j.tries - 1]}
      <3>1. [j EXCEPT !.tries = j.tries - 1].to = storeName
        BY <1>1, <2>2 DEF SyncRows
      <3>2. syncs' # {} /\ \A k \in syncs' : k.to = storeName'
        BY <2>1, <2>2, <2>4, <3>1
      <3>. QED
        BY <2>1, <2>2, <3>2
           DEF NamesAgree, NamesPartOnlyByOvertaking, CopiesAreCurrent, CopyOnItsWay
    <2>. QED
      BY <1>3, <2>3, <2>4 DEF RunSync
  <1>. QED
    BY <1>2, <1>3

LEMMA NamesStep ==
    ASSUME StoresTypeOK, NamesAgree, StoresNext
    PROVE  NamesAgree'
  <1>. USE DEF nameVars
  <1>1. ASSUME NEW p \in People,
               \/ AskTransition(p) \/ TransitionStatus(p) \/ AskRename(p) \/ UploadLogo(p)
               \/ SaveLogo(p) \/ ReadSettings(p) \/ UpdateSettings(p)
        PROVE  NamesAgree'
    <2>1. UNCHANGED nameVars
      BY <1>1 DEF AskTransition, TransitionStatus, AskRename, UploadLogo, SaveLogo, ReadSettings,
         UpdateSettings
    <2>2. /\ requests[p].step # "sync" /\ requests'[p].step # "sync"
          /\ \A q \in People : q # p => requests'[q] = requests[q]
      BY <1>1 DEF AskTransition, TransitionStatus, AskRename, UploadLogo, SaveLogo, ReadSettings,
         UpdateSettings, Asks, Ends, Idle, StoresTypeOK
    <2>. QED
      BY <2>1, <2>2, NamesRest
  <1>2. ASSUME NEW f \in LogoFiles, DeleteFile(f)
        PROVE  NamesAgree'
    BY <1>2, NamesRest DEF DeleteFile
  <1>3. ASSUME NEW p \in People, PersonLeaves(p)
        PROVE  NamesAgree'
    <2>1. CASE unsynced'
      BY <2>1 DEF NamesAgree, NamesPartOnlyByOvertaking, CopiesAreCurrent
    <2>2. CASE ~unsynced'
      <3>1. requests[p].step # "sync" /\ unsynced' = unsynced
        BY <1>3, <2>2 DEF PersonLeaves, StoresTypeOK
      <3>2. UNCHANGED nameVars
        BY <1>3, <3>1 DEF PersonLeaves
      <3>. QED
        BY <1>3, <3>1, <3>2, Ending, NamesRest DEF PersonLeaves
    <2>. QED
      BY <2>1, <2>2
  <1>. QED
    BY <1>1, <1>2, <1>3, RenameStep, SyncStep, RunSyncStep DEF StoresNext

-----------------------------------------------------------------------------
(* The settings *)

LEMMA SettingsStep ==
    ASSUME StoresTypeOK, SettingsAgree, StoresNext
    PROVE  /\ SettingsAgree'
           /\ \/ settings' = settings
              \/ \E p \in People : requests[p].step = "settings" /\ requests[p].saw = settings
  <1>1. settings \in SettingRows /\ settings.version \in Nat
    BY DEF StoresTypeOK, SettingRows
  <1>2. ASSUME NEW p \in People, ReadSettings(p)
        PROVE  SettingsAgree' /\ settings' = settings
    <2>1. /\ settings' = settings /\ requests'[p].saw = settings
          /\ \A q \in People : q # p => requests'[q] = requests[q]
      BY <1>2 DEF ReadSettings, Asks, StoresTypeOK
    <2>. QED
      BY <1>1, <2>1 DEF SettingsAgree
  <1>3. ASSUME NEW p \in People, UpdateSettings(p)
        PROVE  /\ SettingsAgree'
               /\ \/ settings' = settings
                  \/ requests[p].step = "settings" /\ requests[p].saw = settings
    <2>1. /\ requests'[p].step = "idle"
          /\ \A q \in People : q # p => requests'[q] = requests[q]
      BY <1>3, Ending DEF UpdateSettings
    <2>2. requests[p].step = "settings"
      BY <1>3 DEF UpdateSettings
    <2>3. CASE settings' = settings
      BY <2>1, <2>3 DEF SettingsAgree
    <2>4. CASE settings' # settings
      <3>1. settings.version = requests[p].saw.version /\ requests[p].saw = settings
        BY <1>3, <2>2, <2>4 DEF UpdateSettings, IsLatest, SettingsAgree
      <3>2. settings'.version = settings.version + 1
        BY <1>3, <2>4, <3>1 DEF UpdateSettings
      <3>3. ASSUME NEW q \in People, requests'[q].step = "settings"
            PROVE  /\ requests'[q].saw.version <= settings'.version
                   /\ requests'[q].saw.version # settings'.version
        <4>1. q # p /\ requests'[q] = requests[q]
          BY <2>1, <3>3
        <4>2. requests[q].saw \in SettingRows
          BY <3>3, <4>1, RequestShapes
        <4>3. requests[q].saw.version \in Nat /\ requests[q].saw.version <= settings.version
          BY <3>3, <4>1, <4>2 DEF SettingRows, SettingsAgree
        <4>. QED
          BY <1>1, <3>2, <4>1, <4>3
      <3>. QED
        BY <2>2, <3>1, <3>3 DEF SettingsAgree
    <2>. QED
      BY <2>3, <2>4
  <1>4. ASSUME NEW p \in People,
               \/ AskTransition(p) \/ TransitionStatus(p) \/ AskRename(p) \/ UpdateActiveStore(p)
               \/ SyncOrganizationName(p) \/ UploadLogo(p) \/ SaveLogo(p) \/ PersonLeaves(p)
        PROVE  SettingsAgree' /\ settings' = settings
    <2>1. settings' = settings
      BY <1>4 DEF AskTransition, TransitionStatus, AskRename, UpdateActiveStore,
         SyncOrganizationName, UploadLogo, SaveLogo, PersonLeaves
    <2>2. /\ requests'[p].step # "settings"
          /\ \A q \in People : q # p => requests'[q] = requests[q]
      BY <1>4 DEF AskTransition, TransitionStatus, AskRename, UpdateActiveStore,
         SyncOrganizationName, UploadLogo, SaveLogo, PersonLeaves, Asks, Ends, Idle, StoresTypeOK
    <2>. QED
      BY <2>1, <2>2 DEF SettingsAgree
  <1>5. (\E j \in syncs : RunSync(j)) \/ (\E f \in LogoFiles : DeleteFile(f))
            => UNCHANGED <<settings, requests>>
    BY DEF RunSync, DeleteFile
  <1>6. UNCHANGED <<settings, requests>> => SettingsAgree' /\ settings' = settings
    BY DEF SettingsAgree
  <1>. QED
    BY <1>2, <1>3, <1>4, <1>5, <1>6 DEF StoresNext

-----------------------------------------------------------------------------
(* The logo *)

\* Whoever does not touch files or keys at most ends an upload.
LEMMA LogosRest ==
    ASSUME StoresTypeOK, LogosAgree, UNCHANGED logoVars,
           \A p \in People : requests'[p].step = "logo" => requests'[p] = requests[p]
    PROVE  LogosAgree'
  <1>1. /\ logo' = logo /\ files' = files /\ trash' = trash /\ inDoubt' = inDoubt
        /\ unusedKeys' = unusedKeys
    BY DEF logoVars
  <1>2. \A p \in Uploading' : p \in Uploading /\ requests'[p] = requests[p]
    BY DEF Uploading
  <1>. QED
    BY <1>1, <1>2 DEF LogosAgree, LogoIsInStorage

LEMMA UploadLogoStep ==
    ASSUME StoresTypeOK, LogosAgree, NEW p \in People, UploadLogo(p)
    PROVE  LogosAgree'
  <1>1. PICK f \in unusedKeys :
            /\ Asks(p, [step |-> "logo", file |-> f, old |-> logo])
            /\ files' = files \cup {f} /\ unusedKeys' = unusedKeys \ {f}
    BY DEF UploadLogo
  <1>2. /\ logo' = logo /\ trash' = trash /\ inDoubt' = inDoubt
    BY DEF UploadLogo
  <1>3. /\ requests'[p].step = "logo" /\ requests'[p].file = f /\ requests'[p].old = logo
        /\ \A q \in People : q # p => requests'[q] = requests[q]
        /\ p \notin Uploading
    BY <1>1 DEF Asks, Uploading, StoresTypeOK, Idle
  <1>4. \A q \in Uploading' : q = p \/ (q \in Uploading /\ requests'[q] = requests[q])
    BY <1>3 DEF Uploading
  <1>5. LogoIsInStorage' /\ logo' \notin unusedKeys' /\ (logo' \in trash' => logo' \in inDoubt')
        /\ trash' \cap unusedKeys' = {}
    BY <1>1, <1>2 DEF LogosAgree, LogoIsInStorage
  <1>6. ASSUME NEW q \in Uploading'
        PROVE  /\ requests'[q].file \in files' \ (trash' \cup unusedKeys' \cup {logo'})
               /\ requests'[q].old \notin unusedKeys'
               /\ \A r \in Uploading' :
                     /\ requests'[r].old # requests'[q].file
                     /\ r # q => requests'[r].file # requests'[q].file
    <2>1. CASE q = p
      <3>1. f \notin trash /\ f # logo
        BY DEF LogosAgree
      <3>2. \A r \in Uploading : requests[r].old # f /\ requests[r].file # f
        BY DEF LogosAgree
      <3>. QED
        BY <1>1, <1>2, <1>3, <1>4, <2>1, <3>1, <3>2 DEF LogosAgree
    <2>2. CASE q # p
      <3>1. q \in Uploading /\ requests'[q] = requests[q]
        BY <1>4, <2>2
      <3>2. requests[q].file # f /\ requests[q].file # logo
        BY <3>1 DEF LogosAgree
      <3>. QED
        BY <1>1, <1>2, <1>3, <1>4, <3>1, <3>2 DEF LogosAgree
    <2>. QED
      BY <2>1, <2>2
  <1>. QED
    BY <1>5, <1>6 DEF LogosAgree

LEMMA SaveLogoStep ==
    ASSUME StoresTypeOK, LogosAgree, NEW p \in People, SaveLogo(p)
    PROVE  LogosAgree'
  <1>1. /\ p \in Uploading /\ requests'[p].step = "idle"
        /\ \A q \in People : q # p => requests'[q] = requests[q]
        /\ files' = files /\ unusedKeys' = unusedKeys
    BY Ending DEF SaveLogo, Uploading
  <1>2. \A q \in Uploading' : q # p /\ q \in Uploading /\ requests'[q] = requests[q]
    BY <1>1 DEF Uploading
  <1>3. /\ \/ logo' = requests[p].file
              /\ \/ trash' \subseteq trash \cup {requests[p].old} /\ inDoubt' = inDoubt
                 \/ trash' = trash \cup {requests[p].file}
                    /\ inDoubt' = inDoubt \cup {requests[p].file}
           \/ logo' = logo /\ inDoubt' = inDoubt /\ trash' = trash \cup {requests[p].file}
    BY DEF SaveLogo, TheOldOne
  <1>4. \A q \in Uploading' : /\ requests[q].file # requests[p].file
                              /\ requests[q].file # requests[p].old
    BY <1>1, <1>2 DEF LogosAgree
  <1>5. /\ requests[p].file \in files \ (trash \cup unusedKeys \cup {logo})
        /\ requests[p].old \notin unusedKeys /\ requests[p].old # requests[p].file
    BY <1>1 DEF LogosAgree
  <1>6. LogoIsInStorage' /\ logo' \notin unusedKeys' /\ (logo' \in trash' => logo' \in inDoubt')
        /\ trash' \cap unusedKeys' = {}
    BY <1>1, <1>3, <1>5 DEF LogosAgree, LogoIsInStorage
  <1>7. \A q \in Uploading' :
            requests'[q].file \in files' \ (trash' \cup unusedKeys' \cup {logo'})
    BY <1>1, <1>2, <1>3, <1>4 DEF LogosAgree
  <1>8. \A q \in Uploading' :
            /\ requests'[q].old \notin unusedKeys'
            /\ \A r \in Uploading' :
                  /\ requests'[r].old # requests'[q].file
                  /\ r # q => requests'[r].file # requests'[q].file
    BY <1>1, <1>2 DEF LogosAgree
  <1>. QED
    BY <1>6, <1>7, <1>8 DEF LogosAgree

LEMMA LogosStep ==
    ASSUME StoresTypeOK, LogosAgree, StoresNext
    PROVE  LogosAgree'
  <1>1. ASSUME NEW p \in People,
               \/ AskTransition(p) \/ TransitionStatus(p) \/ AskRename(p) \/ UpdateActiveStore(p)
               \/ SyncOrganizationName(p) \/ ReadSettings(p) \/ UpdateSettings(p)
               \/ PersonLeaves(p)
        PROVE  LogosAgree'
    <2>1. UNCHANGED logoVars
      BY <1>1 DEF AskTransition, TransitionStatus, AskRename, UpdateActiveStore,
         SyncOrganizationName, ReadSettings, UpdateSettings, PersonLeaves
    <2>2. /\ requests'[p].step # "logo"
          /\ \A q \in People : q # p => requests'[q] = requests[q]
      BY <1>1 DEF AskTransition, TransitionStatus, AskRename, UpdateActiveStore,
         SyncOrganizationName, ReadSettings, UpdateSettings, PersonLeaves, Asks, Ends, Idle,
         StoresTypeOK
    <2>. QED
      BY <2>1, <2>2, LogosRest
  <1>2. ASSUME NEW j \in syncs, RunSync(j)
        PROVE  LogosAgree'
    BY <1>2, LogosRest DEF RunSync
  <1>3. ASSUME NEW f \in LogoFiles, DeleteFile(f)
        PROVE  LogosAgree'
    <2>1. /\ f \in trash /\ files' = files \ {f} /\ trash' = trash \ {f}
          /\ logo' = logo /\ inDoubt' = inDoubt /\ unusedKeys' = unusedKeys
          /\ requests' = requests
      BY <1>3 DEF DeleteFile
    <2>. QED
      BY <2>1 DEF LogosAgree, LogoIsInStorage, Uploading
  <1>. QED
    BY <1>1, <1>2, <1>3, UploadLogoStep, SaveLogoStep DEF StoresNext

-----------------------------------------------------------------------------
(* All of it *)

\* Status and audit, name and copy, logo and file, settings and their editors
\* agree, however many people work on the store and leave half way.
THEOREM StoresConsistency == StoresSpec => []StoresAgree
  <1>1. StoresInit => StoresAgree
    <2>. SUFFICES ASSUME StoresInit PROVE StoresAgree
      OBVIOUS
    <2>1. StoresTypeOK
      <3>1. requests \in [People -> RequestRows]
        BY DEF StoresInit, RequestRows
      <3>2. audit \in Seq(AuditRows)
        BY DEF StoresInit
      <3>3. settings \in SettingRows
        BY DEF StoresInit, SettingRows
      <3>. QED
        BY <3>1, <3>2, <3>3 DEF StoresInit, StoresTypeOK, StoreStatus
    <2>2. AuditTellsTheStory
      BY DEF StoresInit, AuditTellsTheStory
    <2>3. \A p \in People : requests[p].step = "idle"
      BY DEF StoresInit, Idle
    <2>. QED
      BY <2>1, <2>2, <2>3, StoresAssumption
         DEF StoresInit, StoresAgree, NamesPartOnlyByOvertaking, CopiesAreCurrent,
             LogosAgree, LogoIsInStorage, Uploading, SettingsAgree
  <1>2. StoresAgree /\ StoresNext => StoresAgree'
    BY StoresStayTyped, AuditStep, NamesStep, LogosStep, SettingsStep DEF StoresAgree, NamesAgree
  <1>3. StoresAgree /\ UNCHANGED storesVars => StoresAgree'
    BY DEF storesVars, statusVars, nameVars, logoVars, StoresAgree, StoresTypeOK,
       AuditTellsTheStory, NamesPartOnlyByOvertaking, CopiesAreCurrent, CopyOnItsWay, LogosAgree,
       LogoIsInStorage, Uploading, SettingsAgree
  <1>. QED
    BY <1>1, <1>2, <1>3, PTL DEF StoresSpec

\* Settings are only ever written over what their editor saw.
THEOREM SettingsAreNotLost == StoresSpec => SettingsFollowWhatWasSeen
  <1>1. StoresAgree /\ [StoresNext]_storesVars =>
            \/ settings' = settings
            \/ \E p \in People : requests[p].step = "settings" /\ requests[p].saw = settings
    <2>1. UNCHANGED storesVars => settings' = settings
      BY DEF storesVars
    <2>. QED
      BY <2>1, SettingsStep DEF StoresAgree
  <1>. QED
    BY <1>1, StoresConsistency, PTL DEF StoresSpec, SettingsFollowWhatWasSeen

-----------------------------------------------------------------------------
(* What the parts promise together                                         *)

\* What is published can be bought, variants are labelled by what they select
\* now, and options, values and categories have the order that is shown, after
\* any sequence of edits (products.service.ts, categories.repository.ts).
THEOREM CatalogueSoundness == ProductSpec /\ CategoriesSpec => []CatalogueIsSound
  <1>1. CategoriesAgree => OrderIsStrict
    BY DEF CategoriesAgree
  <1>. QED
    BY <1>1, ProductSoundness, CategoriesConsistency, PTL DEF CatalogueIsSound

\* A file that an image row or a store names is in the object storage, and no
\* clean-up is aimed at it.
THEOREM FilesAreKept == ProductSpec /\ StoresSpec => []FilesInUseAreKept
  <1>1. FilesAgree => EveryImageHasItsFile
    BY FilesInPlace
  <1>2. StoresAgree => LogoIsInStorage
    BY DEF StoresAgree, LogosAgree
  <1>. QED
    BY <1>1, <1>2, FilesConsistency, StoresConsistency, PTL DEF FilesInUseAreKept

\* Variants, the order of the categories, a product's categories, the settings
\* of a store and comments are written over what their editor saw, or not at all.
THEOREM NothingIsOverwrittenUnseen ==
    ProductSpec /\ CategoriesSpec /\ StoresSpec /\ CommentsSpec => NobodyOverwritesUnseen
  BY NoVariantIsOverwrittenUnseen, OrdersAreAsSeen, ReplacementsAreAsSeen, ShelvesKeepHistory,
     SettingsAreNotLost, EditsAreNotLost DEF NobodyOverwritesUnseen

\* Permits match the queries the database still works on, one probe at a time
\* tries a Redis that was given up, and it alone closes the circuit again.
THEOREM LoadStaysBounded == CacheSpec /\ BreakerSpec => LoadIsBounded
  <1>1. BreakerAgrees => OneProbeAtATime
    BY ProbesAreCounted
  <1>2. BreakerAgrees /\ [BreakerNext]_breakerVars
          => [circuit.until # "closed" /\ circuit'.until = "closed"
                => \E c \in CallIds : callState[c].recovering /\ ~callState'[c].running]_breakerVars
    BY ClosingStep
  <1>. QED
    BY <1>1, <1>2, PermitsAreQueries, BreakerConsistency, PTL
       DEF LoadIsBounded, BreakerSpec, OnlyTheProbeCloses

\* The organization a store was founded with, the copy of its name and the audit
\* of its status agree with the store.
THEOREM RecordsAgree == FoundingSpec /\ StoresSpec => []StoreRecordsAgree
  <1>1. FoundingAgrees => StoresKeepTheirOrganization /\ NoOrganizationIsForgotten
    BY OrganizationsAgree
  <1>2. StoresAgree => NamesPartOnlyByOvertaking /\ AuditTellsTheStory
    BY DEF StoresAgree, NamesAgree
  <1>. QED
    BY <1>1, <1>2, FoundingConsistency, StoresConsistency, PTL DEF StoreRecordsAgree

\* Together: in every behaviour of the platform each part keeps its promises,
\* as no part writes a row of another.
THEOREM PlatformIsSound ==
    PlatformSpec =>
        /\ [](/\ CatalogueIsSound /\ FilesInUseAreKept /\ StoreRecordsAgree
              /\ SessionsEndWithTheAccount /\ BookIsSound /\ KeysAnswerOnce
              /\ NoReadIsOlderThanItsInvalidation /\ ListsAreFaithful)
        /\ NobodyOverwritesUnseen /\ LoadIsBounded /\ LastAdminGoesOnlyInARace
  BY CatalogueSoundness, FilesAreKept, RecordsAgree, SessionsAreEnded, BooksAreSound,
     KeysAreAnsweredOnce, NoStaleReads, PagesReadAsOneList, NothingIsOverwrittenUnseen,
     LoadStaysBounded, LastAdminIsKept, PTL DEF PlatformSpec

=============================================================================
