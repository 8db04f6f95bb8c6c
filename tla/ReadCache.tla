------------------------------ MODULE ReadCache ------------------------------
(***************************************************************************)
(* The public read cache (infrastructure/cache, and the invalidators that  *)
(* plans, products, categories and stores call after a commit).  One       *)
(* cached projection of one scope: the database holds versions of it, the  *)
(* cache an entry under each token its namespace ever had, and each        *)
(* process a map of loads under way, so that a second reader joins the     *)
(* first.  An entry is found by the namespace's token; rotating the token  *)
(* hides whatever was stored before, or is stored late, under the old one. *)
(* Redis may fail at every call; a reader then loads past the cache.       *)
(***************************************************************************)
EXTENDS Integers, FiniteSets

CONSTANTS Readers, Processes, ProcessOf, Loads, Writers,
          MaxConcurrentLoads, MaxTrackedLoads, MaxWrites, MaxCacheFaults

ASSUME CacheAssumption ==
    /\ ProcessOf \in [Readers -> Processes]
    /\ {MaxConcurrentLoads, MaxTrackedLoads} \subseteq Nat \ {0}
    /\ {MaxWrites, MaxCacheFaults} \subseteq Nat

VARIABLES committed,    \* the version in the database
          token,        \* the namespace's token, a number: each is fresh
          entries,      \* what is stored under each token, Empty if nothing
          invalidator,  \* what each writer has left to do after its commit
          reader,       \* what each public request is doing
          load,         \* the database loads
          active,       \* the permits taken in each process
          confirmed,    \* history: the version at the last rotation
          cacheFaults

cacheVars == <<committed, token, entries, invalidator, reader, load, active, confirmed, cacheFaults>>

Empty == -1
Fallback == -1         \* the key of loads past the cache
Tokens == 0 .. MaxWrites
NoReader == [pc |-> "idle", since |-> 0, token |-> 0, load |-> "none", got |-> Empty, shared |-> FALSE]
NoLoad == [phase |-> "free", key |-> Fallback, at |-> "none", value |-> Empty]

CacheInit ==
    /\ committed = 0 /\ token = 0 /\ confirmed = 0 /\ cacheFaults = 0
    /\ entries = [t \in Tokens |-> Empty]
    /\ invalidator = [w \in Writers |-> "idle"]
    /\ reader = [r \in Readers |-> NoReader]
    /\ load = [l \in Loads |-> NoLoad]
    /\ active = [p \in Processes |-> 0]

RedisFails == cacheFaults' = cacheFaults + 1 /\ cacheFaults' <= MaxCacheFaults
RedisWorks == UNCHANGED cacheFaults

(***************************************************************************)
(* Writers: commit, delete what is known, rotate the token                 *)
(***************************************************************************)
CommitWrite(w) ==
    /\ invalidator[w] = "idle" /\ committed < MaxWrites
    /\ committed' = committed + 1
    /\ invalidator' = [invalidator EXCEPT ![w] = "delete"]
    /\ UNCHANGED <<token, entries, reader, load, active, confirmed, cacheFaults>>

DeleteKeys(w) ==
    /\ invalidator[w] = "delete"
    /\ \/ RedisWorks /\ entries' = [entries EXCEPT ![token] = Empty]
       \/ RedisFails /\ UNCHANGED entries
    /\ invalidator' = [invalidator EXCEPT ![w] = "rotate"]
    /\ UNCHANGED <<committed, token, reader, load, active, confirmed>>

(* Slip: deleting the known keys is taken to be enough. *)
SameToken == token

FreshToken == token + 1

Rotate(w) ==
    /\ invalidator[w] = "rotate"
    /\ \/ RedisWorks /\ token' = FreshToken /\ confirmed' = committed
       \/ RedisFails /\ UNCHANGED <<token, confirmed>>
    /\ invalidator' = [invalidator EXCEPT ![w] = "idle"]
    /\ UNCHANGED <<committed, entries, reader, load, active>>

(* An entry carries a time to live of its own. *)
TimesOut(t) == entries' = [entries EXCEPT ![t] = Empty]

Expire(t) ==
    /\ entries[t] # Empty /\ TimesOut(t)
    /\ UNCHANGED <<committed, token, invalidator, reader, load, active, confirmed, cacheFaults>>

(***************************************************************************)
(* Readers                                                                 *)
(***************************************************************************)
Tracked(p) == {l \in Loads : load[l].phase # "free" /\ load[l].at = p}
Running(p) == {l \in Tracked(p) : load[l].phase \in {"running", "late"}}
LoadOf(p, key) == {l \in Tracked(p) : load[l].key = key}

Step(r, pc) == [reader EXCEPT ![r].pc = pc]

Ask(r) ==
    /\ reader[r] = NoReader
    /\ reader' = [reader EXCEPT ![r] = [NoReader EXCEPT !.pc = "resolve", !.since = confirmed]]
    /\ UNCHANGED <<committed, token, entries, invalidator, load, active, confirmed, cacheFaults>>

Resolve(r) ==
    /\ reader[r].pc = "resolve"
    /\ \/ RedisWorks /\ reader' = [reader EXCEPT ![r].pc = "get", ![r].token = token]
       \/ RedisFails /\ reader' = Step(r, "fallback")
    /\ UNCHANGED <<committed, token, entries, invalidator, load, active, confirmed>>

Get(r) ==
    LET found == entries[reader[r].token]
    IN  /\ reader[r].pc = "get"
        /\ \/ RedisWorks /\ reader' = IF found = Empty THEN Step(r, "miss")
                                      ELSE [reader EXCEPT ![r].pc = "answered", ![r].got = found]
           \/ RedisFails /\ reader' = Step(r, "fallback")
        /\ UNCHANGED <<committed, token, entries, invalidator, load, active, confirmed>>

(* A reader that found nothing joins the load of its key, or starts one; a
   full map, or no permit left, turns it away. *)
Key(r) == IF reader[r].pc = "fallback" THEN Fallback ELSE reader[r].token

JoinOrLoad(r) ==
    LET p == ProcessOf[r]
        turnedAway == Cardinality(Tracked(p)) >= MaxTrackedLoads \/ active[p] >= MaxConcurrentLoads
    IN  /\ reader[r].pc \in {"miss", "fallback"}
        /\ \/ \E l \in LoadOf(p, Key(r)) :
                 /\ reader' = [reader EXCEPT ![r].pc = "waiting", ![r].load = l,
                                             ![r].shared = Key(r) = Fallback]
                 /\ UNCHANGED <<load, active>>
           \/ /\ LoadOf(p, Key(r)) = {} /\ turnedAway
              /\ reader' = [reader EXCEPT ![r] = NoReader] /\ UNCHANGED <<load, active>>
           \/ /\ LoadOf(p, Key(r)) = {} /\ ~turnedAway
              /\ \E l \in Loads :
                    /\ l = CHOOSE k \in Loads : load[k] = NoLoad
                    /\ load[l] = NoLoad
                    /\ load' = [load EXCEPT ![l] = [phase |-> "running", key |-> Key(r), at |-> p,
                                                    value |-> Empty]]
                    /\ reader' = [reader EXCEPT ![r].pc = "waiting", ![r].load = l]
              /\ active' = [active EXCEPT ![p] = @ + 1]
    /\ UNCHANGED <<committed, token, entries, invalidator, confirmed, cacheFaults>>

(* The query takes its snapshot some time before its answer arrives. *)
Snapshot(l) ==
    /\ load[l].phase \in {"running", "late"} /\ load[l].value = Empty
    /\ load' = [load EXCEPT ![l].value = committed]
    /\ UNCHANGED <<committed, token, entries, invalidator, reader, active, confirmed, cacheFaults>>

WaitingOn(l) == {r \in Readers : reader[r].pc = "waiting" /\ reader[r].load = l}
Released(p) == [active EXCEPT ![p] = @ - 1]

(* The deadline passes: whoever waits is told so, the load keeps its permit
   and its place in the map until the database answers. *)
PermitKept(p) == active

Deadline(l) ==
    /\ load[l].phase = "running"
    /\ load' = [load EXCEPT ![l].phase = "late"]
    /\ active' = PermitKept(load[l].at)
    /\ reader' = [r \in Readers |-> IF r \in WaitingOn(l) THEN NoReader ELSE reader[r]]
    /\ UNCHANGED <<committed, token, entries, invalidator, confirmed, cacheFaults>>

(* A reader that joined a load past its deadline is refused at once. *)
Refused(r) ==
    /\ reader[r].pc = "waiting" /\ load[reader[r].load].phase = "late"
    /\ reader' = [reader EXCEPT ![r] = NoReader]
    /\ UNCHANGED <<committed, token, entries, invalidator, load, active, confirmed, cacheFaults>>

Settle(l) ==
    /\ load[l].phase \in {"running", "late"} /\ load[l].value # Empty
    /\ load' = [load EXCEPT ![l] = IF @.phase = "late" THEN NoLoad ELSE [@ EXCEPT !.phase = "settled"]]
    /\ active' = Released(load[l].at)
    /\ reader' = [r \in Readers |-> IF load[l].phase = "late" /\ r \in WaitingOn(l)
                                    THEN NoReader ELSE reader[r]]
    /\ UNCHANGED <<committed, token, entries, invalidator, confirmed, cacheFaults>>

(* The fill is a script that stores under the token the load was keyed by,
   provided it is still the namespace's; whoever waits gets the value. *)
Fill(l) ==
    /\ load[l].phase = "settled"
    /\ \/ /\ RedisWorks /\ load[l].key # Fallback
          /\ entries' = [t \in Tokens |-> IF t = token /\ t = load[l].key
                                          THEN load[l].value ELSE entries[t]]
       \/ RedisFails /\ load[l].key # Fallback /\ UNCHANGED entries
       \/ RedisWorks /\ load[l].key = Fallback /\ UNCHANGED entries
    /\ reader' = [r \in Readers |-> IF r \in WaitingOn(l)
                     THEN [reader[r] EXCEPT !.pc = "answered", !.load = "none", !.got = load[l].value]
                     ELSE reader[r]]
    /\ load' = [load EXCEPT ![l] = NoLoad]
    /\ UNCHANGED <<committed, token, invalidator, active, confirmed>>

Answer(r) ==
    /\ reader[r].pc = "answered" /\ reader' = [reader EXCEPT ![r] = NoReader]
    /\ UNCHANGED <<committed, token, entries, invalidator, load, active, confirmed, cacheFaults>>

ReaderStep(r) == Resolve(r) \/ Get(r) \/ JoinOrLoad(r) \/ Refused(r) \/ Answer(r)
LoadStep(l) == Snapshot(l) \/ Settle(l) \/ Fill(l)

CacheNext ==
    \/ \E w \in Writers : CommitWrite(w) \/ DeleteKeys(w) \/ Rotate(w)
    \/ \E t \in Tokens : Expire(t)
    \/ \E r \in Readers : Ask(r) \/ ReaderStep(r)
    \/ \E l \in Loads : LoadStep(l) \/ Deadline(l)

CacheSpec == CacheInit /\ [][CacheNext]_cacheVars

(***************************************************************************)
(* Properties                                                              *)
(***************************************************************************)
(* Once a write's rotation went through, no request that starts later is
   answered with what was there before, from an entry, a load it joined or
   one of its own; all but a request that Redis failed and that joined a load
   another such request had begun. *)
NoReadIsOlderThanItsInvalidation ==
    \A r \in Readers : reader[r].pc = "answered" /\ ~reader[r].shared => reader[r].got >= reader[r].since

(* A permit is held for exactly the loads the database has not answered, past
   deadlines included, so slow queries cannot pile up beyond the limit. *)
PermitsMatchQueries ==
    \A p \in Processes : active[p] = Cardinality(Running(p)) /\ active[p] <= MaxConcurrentLoads

(* Whatever Redis refused, no stale entry is left to find: so it is once writes
   cease, a rotation hides it or its time to live ends it. *)
NoEntryIsStale == entries[token] \in {Empty, committed}
=============================================================================
