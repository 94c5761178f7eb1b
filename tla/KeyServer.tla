----------------------------- MODULE KeyServer ------------------------------
(***************************************************************************)
(* The key server (key/server): user records in a cloud store, a cache of  *)
(* records, a cache of names that have none, and a log of changes in which *)
(* every record is chained to the one before; and the cache of users that  *)
(* a client keeps in front of it (key/usercache).                          *)
(*                                                                         *)
(* A record is a number, new for every Put, and whether its user is an     *)
(* administrator of the server; none stands for no record.  Each access to *)
(* the store, each operation on a cache, and each append to the log is a   *)
(* step.                                                                   *)
(***************************************************************************)
EXTENDS Sequences, Integers

CONSTANTS
    Thread,        \* calls of the server in progress
    User,          \* users, who are the callers and whose records are put
    Suffixed,      \* the pairs of a user and one with the same name and a suffix
    DomainOwner,   \* the users whose signature is in the domain's TXT records
    KeySettings    \* what may happen: requests (plan), how many (max), what may fail (fails)

\* What the store has of a user, and what the server is asked.
Record == [rec : Int, admin : BOOLEAN]
Request == [op : {"Lookup", "Put"}, actor : User, user : User, ask : BOOLEAN]

\* Users have names, and settings their types.
ASSUME KeyAssumption ==
    /\ "nobody" \notin User
    /\ \A s \in KeySettings : s.users \in [User -> Record] /\ s.plan \subseteq Request

none == [rec |-> 0, admin |-> FALSE]
config == [rec |-> -1, admin |-> FALSE]   \* what the client's config says of its user
nobody == "nobody"

VARIABLES
    keySetting,    \* one of KeySettings; it never changes
    storage,       \* the record of each user in the store
    storedLog,     \* the log in the store
    log,           \* the log in memory; <<none>> if it has not been read
    cache,         \* records the server has cached (none: not cached)
    negCache,      \* users it takes not to exist
    userCache,     \* records the client has cached
    req,           \* the request of each thread
    made,          \* requests so far
    touched        \* users whose record a call changed while another call dealt with it

keyVars == <<storage, storedLog, log, cache, negCache, userCache, req, made, touched>>

Idle == [op |-> "none", actor |-> nobody, user |-> nobody, pc |-> "idle", got |-> none, rec |-> 0, ask |-> FALSE]
unread == <<none>>

KeyInit ==
    /\ keySetting \in KeySettings
    /\ storage = keySetting.users
    /\ storedLog = << >>
    /\ log = unread
    /\ cache = [u \in User |-> none]
    /\ negCache = {}
    /\ userCache = [u \in User |-> none]
    /\ req = [t \in Thread |-> Idle]
    /\ made = 0
    /\ touched = {}

Goto(t, pc) == req' = [req EXCEPT ![t].pc = pc]
Return(t) == req' = [req EXCEPT ![t] = Idle]
MayFail(what) == what \in keySetting.fails

\* Other calls about the same user are under way.
Others(t) == \E o \in Thread \ {t} : req[o].pc # "idle" /\ req[o].user = req[t].user
Touch(t) == touched' = IF Others(t) THEN touched \cup {req[t].user} ELSE touched
Changing(u) == \E o \in Thread : req[o].user = u /\ req[o].pc \in {"negRemove", "cacheAdd", "success", "removeUser", "forgetNeg", "forget"}

-----------------------------------------------------------------------------
(* lookup: the caches, then the store; the answer is added to a cache. *)

\* A request that asks the client's cache first (ask) is answered there if it can be.
Begin(t, r) ==
    /\ req[t] = Idle
    /\ made < keySetting.max
    /\ made' = made + 1
    /\ req' = [req EXCEPT ![t] = [Idle EXCEPT !.op = r.op, !.actor = r.actor, !.user = r.user, !.ask = r.ask,
                                              !.pc = IF r.ask /\ r.op = "Lookup" THEN "userCache" ELSE "lookup",
                                              !.rec = IF r.op = "Put" THEN made' ELSE 0]]
    /\ touched' = IF Changing(r.user) THEN touched \cup {r.user} ELSE touched
    /\ UNCHANGED <<storage, storedLog, log, cache, negCache, userCache>>

AskUserCache(t) ==
    /\ req[t].pc = "userCache"
    /\ IF userCache[req[t].user] # none THEN Return(t) ELSE Goto(t, "lookup")
    /\ UNCHANGED <<storage, storedLog, log, cache, negCache, userCache, made, touched>>

\* What follows lookup: a Put goes on without a record, a Lookup fails.
Found(t, rec) ==
    req' = [req EXCEPT ![t].got = rec,
                       ![t].pc = IF req[t].op = "Put" THEN "canPut" ELSE IF rec = none \/ ~req[t].ask THEN "return" ELSE "addUser"]

Lookup(t) ==
    LET u == req[t].user
    IN  /\ req[t].pc = "lookup"
        /\ IF cache[u] # none THEN Found(t, cache[u])
           ELSE IF u \in negCache THEN Found(t, none)
           ELSE Goto(t, "fetch")
        /\ UNCHANGED <<storage, storedLog, log, cache, negCache, userCache, made, touched>>

\* fetchUserEntry.  An error other than NotExist ends the request.
Fetch(t) ==
    /\ req[t].pc = "fetch"
    /\ \/ req' = [req EXCEPT ![t].got = storage[req[t].user], ![t].pc = "add"]
       \/ MayFail("fetch") /\ Return(t)
    /\ UNCHANGED <<storage, storedLog, log, cache, negCache, userCache, made, touched>>

Add(t) ==
    LET u == req[t].user
    IN  /\ req[t].pc = "add"
        /\ Found(t, req[t].got)
        /\ IF req[t].got = none
           THEN negCache' = negCache \cup {u} /\ UNCHANGED cache
           ELSE cache' = [cache EXCEPT ![u] = req[t].got] /\ UNCHANGED negCache
        /\ UNCHANGED <<storage, storedLog, log, userCache, made, touched>>

\* The client's cache keeps what it was told, and forgets it when its time is over.
AddUser(t) ==
    /\ req[t].pc = "addUser"
    /\ userCache' = [userCache EXCEPT ![req[t].user] = req[t].got]
    /\ Goto(t, "return")
    /\ UNCHANGED <<storage, storedLog, log, cache, negCache, made, touched>>
ExpireUser(u) ==
    /\ userCache[u] \notin {none, config}
    /\ userCache' = [userCache EXCEPT ![u] = none]
    /\ UNCHANGED <<storage, storedLog, log, cache, negCache, req, made, touched>>

\* Dialing the client's cache puts its user there, as the config has it.
DialUser(u) ==
    /\ u \in keySetting.dials
    /\ userCache[u] # config
    /\ userCache' = [userCache EXCEPT ![u] = config]
    /\ UNCHANGED <<storage, storedLog, log, cache, negCache, req, made, touched>>

\* Either cache drops what was not used for long.
Evict(u) ==
    /\ MayFail("evict")
    /\ cache[u] # none \/ u \in negCache
    /\ cache' = [cache EXCEPT ![u] = none]
    /\ negCache' = negCache \ {u}
    /\ UNCHANGED <<storage, storedLog, log, userCache, req, made, touched>>

-----------------------------------------------------------------------------
(* Put. *)

\* canPut: users for themselves, with and without a suffix; administrators; and for
\* a new user the owner of the domain.  Those other than the first two need their own
\* record, which is read from the store.  (A user whose name is the wildcard is
\* refused; no user here is one.)
mayPut(actor, u, isNew) ==
    \/ actor = u
    \/ <<actor, u>> \in Suffixed
    \/ storage[actor] # none /\ (storage[actor].admin \/ (isNew /\ actor \in DomainOwner))

canPut(t) ==
    /\ req[t].pc = "canPut"
    /\ \/ IF mayPut(req[t].actor, req[t].user, req[t].got = none) THEN Goto(t, "attempt") ELSE Return(t)
       \/ MayFail("fetch") /\ req[t].actor # req[t].user /\ <<req[t].actor, req[t].user>> \notin Suffixed /\ Return(t)
    /\ UNCHANGED <<storage, storedLog, log, cache, negCache, userCache, made, touched>>

\* put of the log: read it if need be, chain the record to the one before, and
\* write all of it.  If the writing fails the record stays in memory.
Unpopulated(t) ==
    /\ MayFail("log") /\ log = unread
    /\ Return(t)
    /\ UNCHANGED <<log, storedLog>>
Populated == IF log = unread THEN storedLog ELSE log
LogRecord(t, kind) == [kind |-> kind, actor |-> req[t].actor, user |-> req[t].user, rec |-> req[t].rec, prev |-> Len(Populated)]

Extend(t, kind) == log' = Append(Populated, LogRecord(t, kind))

\* Mutant of PutAttempt: a failure to write the log does not stop the Put.
PutAttemptAnyway(t) ==
    /\ req[t].pc = "attempt"
    /\ \/ Unpopulated(t)
       \/ Extend(t, "attempt") /\ storedLog' = log' /\ Goto(t, "store")
       \/ Extend(t, "attempt") /\ MayFail("log") /\ Goto(t, "store") /\ UNCHANGED storedLog
    /\ UNCHANGED <<storage, cache, negCache, userCache, made, touched>>

PutAttempt(t) ==
    /\ req[t].pc = "attempt"
    /\ \/ Unpopulated(t)
       \/ Extend(t, "attempt") /\ storedLog' = log' /\ Goto(t, "store")
       \/ Extend(t, "attempt") /\ MayFail("log") /\ Return(t) /\ UNCHANGED storedLog
    /\ UNCHANGED <<storage, cache, negCache, userCache, made, touched>>

\* The record to store; its user stays an administrator if lookup said so.
Entry(t) == [rec |-> req[t].rec, admin |-> req[t].got.admin]

\* putUserEntry; when it fails the store may have changed or not.
Store(t) ==
    /\ req[t].pc = "store"
    /\ \/ storage' = [storage EXCEPT ![req[t].user] = Entry(t)] /\ Goto(t, "negRemove")
       \/ /\ MayFail("store")
          /\ storage' \in {storage, [storage EXCEPT ![req[t].user] = Entry(t)]}
          /\ Goto(t, "forgetNeg")
    /\ Touch(t)
    /\ UNCHANGED <<storedLog, log, cache, negCache, userCache, made>>

\* After an error both caches forget the user ...
ForgetNeg(t) ==
    /\ req[t].pc = "forgetNeg"
    /\ negCache' = negCache \ {req[t].user}
    /\ Goto(t, "forget")
    /\ UNCHANGED <<storage, storedLog, log, cache, userCache, made, touched>>
Forget(t) ==
    /\ req[t].pc = "forget"
    /\ cache' = [cache EXCEPT ![req[t].user] = none]
    /\ Return(t)
    /\ UNCHANGED <<storage, storedLog, log, negCache, userCache, made, touched>>

\* ... and after success they know it.
NegRemove(t) ==
    /\ req[t].pc = "negRemove"
    /\ negCache' = negCache \ {req[t].user}
    /\ Goto(t, "cacheAdd")
    /\ UNCHANGED <<storage, storedLog, log, cache, userCache, made, touched>>
CacheAdd(t) ==
    /\ req[t].pc = "cacheAdd"
    /\ cache' = [cache EXCEPT ![req[t].user] = Entry(t)]
    /\ Goto(t, "success")
    /\ UNCHANGED <<storage, storedLog, log, negCache, userCache, made, touched>>
PutSuccess(t) ==
    /\ req[t].pc = "success"
    /\ \/ Unpopulated(t)
       \/ Extend(t, "success") /\ storedLog' = log' /\ Goto(t, IF req[t].ask THEN "removeUser" ELSE "return")
       \/ Extend(t, "success") /\ MayFail("log") /\ Return(t) /\ UNCHANGED storedLog
    /\ UNCHANGED <<storage, cache, negCache, userCache, made, touched>>

\* The client's cache forgets what was put through it.
RemoveUser(t) ==
    /\ req[t].pc = "removeUser"
    /\ userCache' = [userCache EXCEPT ![req[t].user] = none]
    /\ Goto(t, "return")
    /\ UNCHANGED <<storage, storedLog, log, cache, negCache, made, touched>>

Done(t) ==
    /\ req[t].pc = "return"
    /\ Return(t)
    /\ UNCHANGED <<storage, storedLog, log, cache, negCache, userCache, made, touched>>

\* The server stops and is started again.
Restart ==
    /\ MayFail("restart")
    /\ log # unread \/ negCache # {} \/ \E u \in User : cache[u] # none
    /\ log' = unread
    /\ cache' = [u \in User |-> none]
    /\ negCache' = {}
    /\ req' = [t \in Thread |-> Idle]
    /\ UNCHANGED <<storage, storedLog, userCache, made, touched>>

-----------------------------------------------------------------------------

Serve(t) ==
    \/ AskUserCache(t) \/ Lookup(t) \/ Fetch(t) \/ Add(t) \/ AddUser(t) \/ canPut(t) \/ PutAttempt(t) \/ Store(t)
    \/ ForgetNeg(t) \/ Forget(t) \/ NegRemove(t) \/ CacheAdd(t) \/ PutSuccess(t) \/ RemoveUser(t) \/ Done(t)

KeyNext ==
    /\ \/ \E t \in Thread : Serve(t)
       \/ \E t \in Thread : \E r \in keySetting.plan : Begin(t, r)
       \/ \E u \in User : Evict(u) \/ ExpireUser(u) \/ DialUser(u)
       \/ Restart
    /\ UNCHANGED keySetting

KeySpec == KeyInit /\ [][KeyNext]_<<keySetting, keyVars>>

-----------------------------------------------------------------------------

\* Every change of the store was announced before: whatever fails, and wherever
\* the server is restarted, the record of a user is the one the store began with
\* or one that the stored log has an attempt for, each record of the stored log is
\* chained to the one before it, and no Put makes or unmakes an administrator
\* (PutAttempt precedes putUserEntry, which writes the IsAdmin that lookup found).
ChangesAreLogged ==
    /\ \A u \in User :
        /\ storage[u].rec \in {keySetting.users[u].rec} \cup
               {storedLog[i].rec : i \in {j \in DOMAIN storedLog : storedLog[j].kind = "attempt" /\ storedLog[j].user = u}}
        /\ storage[u].admin = keySetting.users[u].admin
    /\ \A i \in DOMAIN storedLog : storedLog[i].prev = i - 1

\* When no call about a user is under way, what the server's caches say of it is
\* what the store says, unless calls about that user overlapped while it changed
\* (lookup adds what it fetched before a Put that finished meanwhile).  The same is
\* true of the client's cache if every call goes through it and none fails after
\* the store has changed.
KeyCachesAgree ==
    \A u \in User \ touched : (\A t \in Thread : req[t].user # u) =>
        /\ cache[u] # none => cache[u] = storage[u]
        /\ u \in negCache => storage[u] = none
        /\ (keySetting.fails \subseteq {"evict", "fetch"} /\ \A r \in keySetting.plan : r.ask) =>
               userCache[u] \in {none, config, storage[u]}

\* The key server's log announces every change of the store, and its caches and the
\* client's say what the store says (key/server Put, lookup; key/usercache).
KeyServerIsRight == ChangesAreLogged /\ KeyCachesAgree
=============================================================================
