-------------------------- MODULE KeyServerProofs ---------------------------
(***************************************************************************)
(* Proof that the key server's log announces every change of the store and *)
(* that its caches and the client's say what the store says, for any       *)
(* number of calls, users and records, whatever fails.                     *)
(***************************************************************************)
EXTENDS KeyServer, TLAPS

-----------------------------------------------------------------------------
(* The inductive invariant. *)

PCs ==
    {"idle", "userCache", "lookup", "fetch", "add", "addUser", "canPut", "attempt", "store", "forgetNeg", "forget",
     "negRemove", "cacheAdd", "success", "removeUser", "return"}
ChangingPCs == {"negRemove", "cacheAdd", "success", "removeUser", "forgetNeg", "forget"}

ReqType ==
    [op : {"none", "Lookup", "Put"}, actor : User \cup {nobody}, user : User \cup {nobody}, pc : PCs,
     got : Record, rec : Int, ask : BOOLEAN]
LogType == [kind : {"attempt", "success"}, actor : User \cup {nobody}, user : User \cup {nobody}, rec : Int, prev : Int]

\* The variables have their types.
KeyTypeOK ==
    /\ keySetting \in KeySettings
    /\ storage \in [User -> Record] /\ cache \in [User -> Record] /\ userCache \in [User -> Record]
    /\ req \in [Thread -> ReqType]
    /\ made \in Nat

\* The log in memory begins with the log in the store, and each record is chained to
\* the one before.
LogOK ==
    /\ storedLog \in Seq(LogType) /\ Populated \in Seq(LogType)
    /\ Len(storedLog) <= Len(Populated)
    /\ \A i \in 1..Len(storedLog) : Populated[i] = storedLog[i]
    /\ \A i \in 1..Len(Populated) : Populated[i].prev = i - 1

Attempted(u, n) == \E i \in 1..Len(storedLog) : storedLog[i].kind = "attempt" /\ storedLog[i].user = u /\ storedLog[i].rec = n

\* The record in the store is the first one or was announced, and neither it nor what
\* the server's caches say makes or unmakes an administrator.
isAdmin(u) == keySetting.users[u].admin
StorageOK(u) ==
    /\ storage[u].rec = keySetting.users[u].rec \/ Attempted(u, storage[u].rec)
    /\ storage[u].admin = isAdmin(u)
    /\ cache[u] # none => cache[u].admin = isAdmin(u)
    /\ u \in negCache => isAdmin(u) = FALSE

\* No call fails after the store has changed, and every call goes through the client's cache.
Reliable == keySetting.fails \subseteq {"evict", "fetch"} /\ \A r \in keySetting.plan : r.ask

\* What a call has done so far.
ReqOK(t) ==
    /\ req[t].pc = "idle" => req[t].user = nobody
    /\ req[t].pc # "idle" => req[t].user \in User
    /\ req[t].pc \notin {"idle", "userCache", "lookup", "fetch"} => req[t].got.admin = isAdmin(req[t].user)
    /\ req[t].pc = "store" => Attempted(req[t].user, req[t].rec)
    /\ Reliable /\ req[t].pc # "idle" => req[t].ask = TRUE
    /\ req[t].pc \in {"forgetNeg", "forget"} => ~Reliable

\* No call about u is at one of some places.
NoneAt(u, pcs) == \A t \in Thread : req[t].user = u => req[t].pc \notin pcs

\* A user whom no two calls dealt with while their record changed: the call that has
\* changed the record is the only one, what the others have read is what is stored,
\* and so is what the caches say once that call has come so far.
AloneOK(u) ==
    \A t \in Thread : req[t].user = u /\ req[t].pc \in ChangingPCs => \A o \in Thread \ {t} : req[o].user # u
ReadOK(u) ==
    \A t \in Thread : req[t].user = u =>
        /\ req[t].pc \in {"add", "addUser"} => req[t].got = storage[u]
        /\ req[t].pc \in {"negRemove", "cacheAdd"} => Entry(t) = storage[u]
KnownOK(u) ==
    /\ NoneAt(u, {"negRemove", "cacheAdd", "forgetNeg", "forget"}) => cache[u] = none \/ cache[u] = storage[u]
    /\ NoneAt(u, {"negRemove", "forgetNeg"}) => u \notin negCache \/ storage[u] = none
    /\ Reliable /\ NoneAt(u, ChangingPCs) => userCache[u] \in {none, config, storage[u]}
UserOK(u) == AloneOK(u) /\ ReadOK(u) /\ KnownOK(u)

\* The inductive invariant.
KeyInv ==
    /\ KeyTypeOK
    /\ LogOK
    /\ \A u \in User : StorageOK(u)
    /\ \A t \in Thread : ReqOK(t)
    /\ \A u \in User \ touched : UserOK(u)

-----------------------------------------------------------------------------
(* How a request moves. *)

\* What a step of a call leaves alone of the requests.
Moves(t) ==
    /\ req' \in [Thread -> ReqType]
    /\ \A o \in Thread \ {t} : req'[o] = req[o]
Kept(t) ==
    /\ req'[t].op = req[t].op /\ req'[t].actor = req[t].actor /\ req'[t].user = req[t].user
    /\ req'[t].rec = req[t].rec /\ req'[t].ask = req[t].ask

\* Idle and none have the types of requests and records.
LEMMA IdleShape == Idle \in ReqType /\ Idle.pc = "idle" /\ Idle.user = nobody /\ none \in Record /\ none.admin = FALSE /\ config \in Record
<1>1. none \in Record /\ none.admin = FALSE /\ config \in Record
  BY DEF none, config, Record
<1>2. PICK r \in Record : r = none
  BY <1>1
<1>3. Idle = [op |-> "none", actor |-> nobody, user |-> nobody, pc |-> "idle", got |-> r, rec |-> 0, ask |-> FALSE]
  BY <1>2, Zenon DEF Idle
<1>4. Idle \in ReqType /\ Idle.pc = "idle" /\ Idle.user = nobody
  BY <1>3 DEF ReqType, PCs
<1> QED
  BY <1>1, <1>4

\* The fields of a request that goes on.
LEMMA GotoShape ==
    ASSUME NEW x \in ReqType, NEW p \in PCs, NEW y, y = [x EXCEPT !.pc = p]
    PROVE  /\ y \in ReqType /\ y.pc = p /\ y.got = x.got
           /\ y.op = x.op /\ y.actor = x.actor /\ y.user = x.user /\ y.rec = x.rec /\ y.ask = x.ask
BY DEF ReqType

\* It goes on to another place, and nothing else changes.
LEMMA GotoMoves ==
    ASSUME KeyTypeOK, NEW t \in Thread, NEW p \in PCs, Goto(t, p)
    PROVE  Moves(t) /\ Kept(t) /\ req'[t].pc = p /\ req'[t].got = req[t].got
<1>1. PICK y : y = [req[t] EXCEPT !.pc = p]
  BY Zenon
<1>2. req' = [req EXCEPT ![t] = y] /\ req[t] \in ReqType
  BY <1>1 DEF Goto, KeyTypeOK
<1>3. /\ y \in ReqType /\ y.pc = p /\ y.got = req[t].got
      /\ y.op = req[t].op /\ y.actor = req[t].actor /\ y.user = req[t].user /\ y.rec = req[t].rec /\ y.ask = req[t].ask
  BY <1>1, <1>2, GotoShape
<1>4. req'[t] = y /\ Moves(t)
  BY <1>2, <1>3 DEF Moves, KeyTypeOK
<1> QED
  BY <1>3, <1>4, Zenon DEF Kept

\* The call returns.
LEMMA ReturnMoves ==
    ASSUME KeyTypeOK, NEW t \in Thread, Return(t)
    PROVE  Moves(t) /\ req'[t].pc = "idle" /\ req'[t].user = nobody
<1>1. PICK y : y = Idle
  OBVIOUS
<1>2. y \in ReqType /\ y.pc = "idle" /\ y.user = nobody
  BY <1>1, IdleShape
<1>3. req' = [req EXCEPT ![t] = y]
  BY <1>1 DEF Return
<1> QED
  BY <1>2, <1>3 DEF Moves, KeyTypeOK

\* It goes on with a record.
LEMMA GotMoves ==
    ASSUME KeyTypeOK, NEW t \in Thread, NEW p \in PCs, NEW g \in Record, req' = [req EXCEPT ![t].got = g, ![t].pc = p]
    PROVE  Moves(t) /\ Kept(t) /\ req'[t].pc = p /\ req'[t].got = g
<1>1. PICK x : x = [req[t] EXCEPT !.got = g]
  BY Zenon
<1>2. PICK y : y = [x EXCEPT !.pc = p]
  BY Zenon
<1>3. req[t] \in ReqType
  BY DEF KeyTypeOK
<1>4. /\ x \in ReqType /\ x.got = g /\ x.op = req[t].op /\ x.actor = req[t].actor /\ x.user = req[t].user
      /\ x.rec = req[t].rec /\ x.ask = req[t].ask
  BY <1>1, <1>3 DEF ReqType
<1>5. /\ y \in ReqType /\ y.pc = p /\ y.got = g
      /\ y.op = req[t].op /\ y.actor = req[t].actor /\ y.user = req[t].user /\ y.rec = req[t].rec /\ y.ask = req[t].ask
  BY <1>2, <1>4, GotoShape
<1>6. req' = [req EXCEPT ![t] = y]
  BY <1>1, <1>2, Zenon DEF KeyTypeOK
<1>7. req'[t] = y /\ Moves(t)
  <2>1. req \in [Thread -> ReqType]
    BY Zenon DEF KeyTypeOK
  <2>2. y \in ReqType
    BY <1>5, Zenon
  <2> QED
    BY <1>6, <2>1, <2>2, Zenon DEF Moves
<1> QED
  BY <1>5, <1>7, Zenon DEF Kept

\* It goes on with what lookup has found.
LEMMA FoundMoves ==
    ASSUME KeyTypeOK, NEW t \in Thread, NEW g \in Record, Found(t, g)
    PROVE  /\ Moves(t) /\ Kept(t) /\ req'[t].got = g
           /\ req'[t].pc \in {"canPut", "return", "addUser"}
<1>1. PICK p : p = IF req[t].op = "Put" THEN "canPut" ELSE IF g = none \/ ~req[t].ask THEN "return" ELSE "addUser"
  OBVIOUS
<1>2. p \in {"canPut", "return", "addUser"} /\ p \in PCs
  BY <1>1 DEF PCs
<1>3. req' = [req EXCEPT ![t].got = g, ![t].pc = p]
  BY <1>1, Zenon DEF Found
<1> QED
  BY <1>2, <1>3, GotMoves, Zenon

\* A new request.
LEMMA BeginMoves ==
    ASSUME KeyTypeOK, NEW t \in Thread, NEW r \in keySetting.plan, Begin(t, r)
    PROVE  /\ Moves(t) /\ req[t].user = nobody /\ r.user \in User
           /\ req'[t].user = r.user /\ req'[t].pc \in {"userCache", "lookup"} /\ req'[t].ask = r.ask
<1>1. r \in Request
  BY KeyAssumption, Zenon DEF KeyTypeOK
<1>2. PICK p \in PCs : p = IF r.ask /\ r.op = "Lookup" THEN "userCache" ELSE "lookup"
  BY DEF PCs
<1>3. PICK n \in Int : n = IF r.op = "Put" THEN made' ELSE 0
  BY DEF Begin, KeyTypeOK
<1>4. PICK g \in Record : g = none
  BY IdleShape
<1>5. PICK o, a, u, k : o = r.op /\ a = r.actor /\ u = r.user /\ k = r.ask
  OBVIOUS
<1>6. o \in {"Lookup", "Put"} /\ a \in User /\ u \in User /\ k \in BOOLEAN
  BY <1>1, <1>5 DEF Request
<1>7. PICK y : y = [op |-> o, actor |-> a, user |-> u, pc |-> p, got |-> g, rec |-> n, ask |-> k]
  BY Zenon
<1>8. y \in ReqType /\ y.user = u /\ y.pc = p /\ y.ask = k
  BY <1>6, <1>7 DEF ReqType
<1>9. y = [Idle EXCEPT !.op = o, !.actor = a, !.user = u, !.ask = k, !.pc = p, !.rec = n]
  <2>b. PICK b : b = FALSE
    BY Zenon
  <2>1. Idle = [op |-> "none", actor |-> nobody, user |-> nobody, pc |-> "idle", got |-> g, rec |-> 0, ask |-> b]
    BY <1>4, <2>b, Zenon DEF Idle
  <2>2. PICK f : f = [Idle EXCEPT !.op = o, !.actor = a, !.user = u]
    OBVIOUS
  <2>3. f = [op |-> o, actor |-> a, user |-> u, pc |-> "idle", got |-> g, rec |-> 0, ask |-> b]
    BY <2>1, <2>2, Zenon
  <2>4. y = [f EXCEPT !.ask = k, !.pc = p, !.rec = n]
    <3>1. PICK h : h = [f EXCEPT !.pc = p, !.rec = n]
      OBVIOUS
    <3>2. h = [op |-> o, actor |-> a, user |-> u, pc |-> p, got |-> g, rec |-> n, ask |-> b]
      BY <2>3, <3>1, Zenon
    <3>3. [h EXCEPT !.ask = k] = [op |-> o, actor |-> a, user |-> u, pc |-> p, got |-> g, rec |-> n, ask |-> k]
      BY <3>2
    <3>4. [f EXCEPT !.ask = k, !.pc = p, !.rec = n] = [h EXCEPT !.ask = k]
      BY <2>3, <3>1, Zenon
    <3> QED
      BY <1>7, <3>3, <3>4, Zenon
  <2> QED
    BY <2>2, <2>4
<1>10. req' = [req EXCEPT ![t] = y]
  BY <1>2, <1>3, <1>5, <1>9, Zenon DEF Begin
<1>11. Moves(t) /\ req'[t] = y
  BY <1>8, <1>10 DEF Moves, KeyTypeOK
<1>12. req[t].user = nobody
  BY IdleShape, Zenon DEF Begin
<1>13. p \in {"userCache", "lookup"}
  BY <1>2
<1> QED
  BY <1>5, <1>6, <1>8, <1>11, <1>12, <1>13, Zenon

-----------------------------------------------------------------------------
(* What a step leaves alone. *)

\* Attempts stay in the stored log.
Grows == \A u, n : Attempted(u, n) => Attempted(u, n)'

\* What is stored and cached of the other users.
Off(w) ==
    \A u \in User \ {w} : /\ storage'[u] = storage[u] /\ cache'[u] = cache[u] /\ userCache'[u] = userCache[u]
                          /\ u \in negCache' <=> u \in negCache

\* The log is left alone ...
LEMMA SameLog ==
    ASSUME LogOK, UNCHANGED <<log, storedLog>>
    PROVE  LogOK' /\ Grows
<1>1. Populated' = Populated
  BY DEF Populated
<1> QED
  BY <1>1 DEF LogOK, Grows, Attempted

\* ... or a record is added to it.
LEMMA LongerLog ==
    ASSUME NEW p \in Seq(LogType), NEW q \in Seq(LogType), NEW e \in LogType, NEW l, l = Append(p, e),
           Len(q) <= Len(p), \A i \in 1..Len(q) : p[i] = q[i], \A i \in 1..Len(p) : p[i].prev = i - 1,
           e.prev = Len(p)
    PROVE  /\ l \in Seq(LogType) /\ Len(l) = Len(p) + 1 /\ l[Len(l)] = e
           /\ Len(q) <= Len(l) /\ \A i \in 1..Len(q) : l[i] = q[i]
           /\ \A i \in 1..Len(l) : l[i].prev = i - 1
<1>1. l \in Seq(LogType) /\ Len(l) = Len(p) + 1 /\ l[Len(l)] = e /\ \A i \in 1..Len(p) : l[i] = p[i]
  OBVIOUS
<1>2. Len(p) \in Nat /\ Len(q) \in Nat
  OBVIOUS
<1>3. ASSUME NEW i \in 1..Len(l) PROVE l[i].prev = i - 1
  <2>1. CASE i \in 1..Len(p)
    BY <1>1, <2>1
  <2>2. CASE i \notin 1..Len(p)
    <3>1. i = Len(p) + 1
      BY <1>1, <1>2, <2>2
    <3> QED
      BY <1>1, <1>2, <3>1
  <2> QED
    BY <2>1, <2>2
<1>4. \A i \in 1..Len(q) : l[i] = q[i]
  BY <1>1, <1>2
<1>5. Len(q) <= Len(l)
  BY <1>1, <1>2
<1> QED
  BY <1>1, <1>3, <1>4, <1>5

\* The log after put of the log.
LEMMA ExtendedLog ==
    ASSUME KeyTypeOK, LogOK, NEW t \in Thread, NEW kind \in {"attempt", "success"}, Extend(t, kind),
           storedLog' = log' \/ storedLog' = storedLog, NEW u, u = req[t].user, NEW n, n = req[t].rec
    PROVE  LogOK' /\ Grows /\ (storedLog' = log' /\ kind = "attempt" => Attempted(u, n)')
<1>1. PICK p, q : p = Populated /\ q = storedLog
  OBVIOUS
<1>2. /\ p \in Seq(LogType) /\ q \in Seq(LogType) /\ Len(q) <= Len(p)
      /\ \A i \in 1..Len(q) : p[i] = q[i]
      /\ \A i \in 1..Len(p) : p[i].prev = i - 1
  BY <1>1 DEF LogOK
<1>3. PICK a : a = req[t].actor
  OBVIOUS
<1>4. a \in User \cup {nobody} /\ u \in User \cup {nobody} /\ n \in Int
  BY <1>3 DEF KeyTypeOK, ReqType
<1>5. Len(p) \in Int
  BY <1>2
<1>6. PICK e : e = [kind |-> kind, actor |-> a, user |-> u, rec |-> n, prev |-> Len(p)]
  BY Zenon
<1>7. e \in LogType /\ e.kind = kind /\ e.user = u /\ e.rec = n /\ e.prev = Len(p)
  BY <1>4, <1>5, <1>6 DEF LogType
<1>8. log' = Append(p, e)
  BY <1>1, <1>3, <1>6, Zenon DEF Extend, LogRecord
<1>9. PICK l : l = Append(p, e)
  BY Zenon
<1>10. /\ l \in Seq(LogType) /\ Len(l) = Len(p) + 1 /\ l[Len(l)] = e
       /\ Len(q) <= Len(l) /\ \A i \in 1..Len(q) : l[i] = q[i]
       /\ \A i \in 1..Len(l) : l[i].prev = i - 1
  BY <1>2, <1>7, <1>9, LongerLog
<1>11. log' = l
  BY <1>8, <1>9
<1>12. \A i \in 1..Len(q) : q[i].prev = i - 1
  BY <1>2
<1>13. Populated' = l \/ Populated' = storedLog'
  BY <1>11 DEF Populated
<1>14. LogOK'
  <2>1. CASE storedLog' = l
    BY <1>10, <1>13, <2>1 DEF LogOK
  <2>2. CASE storedLog' = q
    BY <1>2, <1>10, <1>12, <1>13, <2>2 DEF LogOK
  <2> QED
    BY <1>1, <1>11, <2>1, <2>2
<1>15. Grows
  <2>1. CASE storedLog' = q
    BY <1>1, <2>1 DEF Grows, Attempted
  <2>2. CASE storedLog' = l
    <3>1. Len(q) \in Nat /\ Len(l) \in Nat
      BY <1>2, <1>10
    <3>2. \A i \in 1..Len(q) : i \in 1..Len(l)
      BY <1>10, <3>1
    <3>3. \A i \in 1..Len(storedLog) : i \in 1..Len(storedLog') /\ storedLog'[i] = storedLog[i]
      BY <1>1, <1>10, <2>2, <3>2
    <3> QED
      BY <3>3, Zenon DEF Grows, Attempted
  <2> QED
    BY <1>1, <1>11, <2>1, <2>2
<1>16. ASSUME storedLog' = log', kind = "attempt" PROVE Attempted(u, n)'
  <2>1. Len(l) \in 1..Len(l)
    BY <1>2, <1>10
  <2> QED
    BY <1>7, <1>10, <1>11, <1>16, <2>1 DEF Attempted
<1> QED
  BY <1>14, <1>15, <1>16

\* The requests of the other calls ...
LEMMA OtherReqs ==
    ASSUME KeyInv, NEW t \in Thread, Moves(t), Grows, UNCHANGED keySetting, ReqOK(t)'
    PROVE  \A o \in Thread : ReqOK(o)'
<1> SUFFICES ASSUME NEW o \in Thread, o # t PROVE ReqOK(o)'
  OBVIOUS
<1>1. ReqOK(o) /\ req'[o] = req[o]
  BY DEF KeyInv, Moves
<1>2. PICK u, n : u = req[o].user /\ n = req[o].rec
  OBVIOUS
<1>3. Attempted(u, n) => Attempted(u, n)'
  BY Zenon DEF Grows
<1>4. req[o].pc = "store" => Attempted(u, n)
  BY <1>1, <1>2, Zenon DEF ReqOK
<1>5. Reliable' <=> Reliable
  BY Zenon DEF Reliable
<1>6. u = req'[o].user /\ n = req'[o].rec
  BY <1>1, <1>2
<1>7. req'[o].pc = "store" => Attempted(req[o].user, req[o].rec)'
  BY <1>1, <1>3, <1>4, <1>6, Zenon
<1> QED
  BY <1>1, <1>5, <1>7, Zenon DEF ReqOK, isAdmin

\* ... the records of the other users ...
LEMMA OtherStorage ==
    ASSUME KeyInv, NEW u \in User, Grows, UNCHANGED keySetting, storage'[u] = storage[u],
           cache'[u] = cache[u] \/ cache'[u] = none, u \in negCache' => u \in negCache
    PROVE  StorageOK(u)'
<1>1. PICK n : n = storage[u].rec
  OBVIOUS
<1>2. StorageOK(u)
  BY DEF KeyInv
<1>3. Attempted(u, n) => Attempted(u, n)'
  BY Zenon DEF Grows
<1>4. n = storage'[u].rec
  BY <1>1
<1>5. Attempted(u, storage[u].rec) => Attempted(u, storage[u].rec)'
  BY <1>1, <1>3, <1>4, Zenon
<1> QED
  BY <1>2, <1>5, Zenon DEF StorageOK, isAdmin

\* ... and what is known of them.
LEMMA OtherUsers ==
    ASSUME KeyInv, NEW u \in User, UserOK(u), UNCHANGED keySetting,
           storage'[u] = storage[u], cache'[u] = cache[u] \/ cache'[u] = none,
           userCache'[u] \in {none, config, userCache[u]}, u \in negCache' => u \in negCache,
           \A o \in Thread : req[o].user = u \/ req'[o].user = u => req'[o] = req[o]
    PROVE  UserOK(u)'
<1>1. AloneOK(u)'
  BY Zenon DEF UserOK, AloneOK
<1>2. ReadOK(u)'
  <2> SUFFICES ASSUME NEW o \in Thread, req'[o].user = u
               PROVE  /\ req'[o].pc \in {"add", "addUser"} => req'[o].got = storage'[u]
                      /\ req'[o].pc \in {"negRemove", "cacheAdd"} => Entry(o)' = storage'[u]
    BY DEF ReadOK
  <2>1. req'[o] = req[o]
    OBVIOUS
  <2>2. Entry(o)' = Entry(o)
    BY <2>1 DEF Entry
  <2> QED
    BY <2>1, <2>2, Zenon DEF UserOK, ReadOK
<1>3. \A pcs : NoneAt(u, pcs)' => NoneAt(u, pcs)
  BY Zenon DEF NoneAt
<1>4. Reliable' => Reliable
  BY Zenon DEF Reliable
<1>5. KnownOK(u)'
  <2>1. KnownOK(u)
    BY DEF UserOK
  <2>2. NoneAt(u, {"negRemove", "cacheAdd", "forgetNeg", "forget"})' => cache'[u] = none \/ cache'[u] = storage'[u]
    BY <1>3, <2>1, Zenon DEF KnownOK
  <2>3. NoneAt(u, {"negRemove", "forgetNeg"})' => u \notin negCache' \/ storage'[u] = none
    BY <1>3, <2>1, Zenon DEF KnownOK
  <2>4. Reliable' /\ NoneAt(u, ChangingPCs)' => userCache'[u] \in {none, config, storage'[u]}
    BY <1>3, <1>4, <2>1, Zenon DEF KnownOK, ChangingPCs
  <2> QED
    BY <2>2, <2>3, <2>4 DEF KnownOK
<1> QED
  BY <1>1, <1>2, <1>5 DEF UserOK

\* A step of a call changes what there is of its own user only.
LEMMA CallInv ==
    ASSUME KeyInv, NEW t \in Thread, NEW w \in User, req[t].user \in {w, nobody}, req'[t].user \in {w, nobody},
           UNCHANGED keySetting, KeyTypeOK', LogOK', Grows, Moves(t), Off(w), touched \subseteq touched',
           ReqOK(t)', StorageOK(w)', w \notin touched' => UserOK(w)'
    PROVE  KeyInv'
<1>1. \A o \in Thread : ReqOK(o)'
  BY OtherReqs
<1>2. ASSUME NEW u \in User PROVE StorageOK(u)'
  <2>1. CASE u = w
    BY <2>1
  <2>2. CASE u # w
    <3>1. storage'[u] = storage[u] /\ cache'[u] = cache[u] /\ (u \in negCache' => u \in negCache)
      BY <2>2, Zenon DEF Off
    <3> QED
      BY <3>1, OtherStorage
  <2> QED
    BY <2>1, <2>2
<1>3. ASSUME NEW u \in User \ touched' PROVE UserOK(u)'
  <2>1. CASE u = w
    BY <2>1
  <2>2. CASE u # w
    <3>1. /\ storage'[u] = storage[u] /\ cache'[u] = cache[u] /\ userCache'[u] = userCache[u]
          /\ u \in negCache' => u \in negCache
      BY <2>2, Zenon DEF Off
    <3>2. UserOK(u)
      BY DEF KeyInv
    <3>3. u # nobody
      BY KeyAssumption DEF nobody
    <3>4. \A o \in Thread : req[o].user = u \/ req'[o].user = u => req'[o] = req[o]
      BY <2>2, <3>3, Zenon DEF Moves
    <3> QED
      BY <3>1, <3>2, <3>4, OtherUsers
  <2> QED
    BY <2>1, <2>2
<1> QED
  BY <1>1, <1>2, <1>3 DEF KeyInv

-----------------------------------------------------------------------------
(* The user of a call. *)

\* When a call has not changed a record no other has, and all is as it should be.
LEMMA QuietBefore ==
    ASSUME KeyInv, NEW w \in User, UserOK(w), NoneAt(w, ChangingPCs)
    PROVE  /\ cache[w] = none \/ cache[w] = storage[w]
           /\ w \notin negCache \/ storage[w] = none
           /\ Reliable => userCache[w] \in {none, config, storage[w]}
<1>1. NoneAt(w, {"negRemove", "cacheAdd", "forgetNeg", "forget"}) /\ NoneAt(w, {"negRemove", "forgetNeg"})
  BY DEF NoneAt, ChangingPCs
<1> QED
  BY <1>1, Zenon DEF UserOK, KnownOK

\* No call has changed the record if one that has not is under way.
LEMMA NoneChanges ==
    ASSUME NEW t \in Thread, NEW w, w = req[t].user, UserOK(w), req[t].pc \notin ChangingPCs
    PROVE  NoneAt(w, ChangingPCs)
<1> SUFFICES ASSUME NEW o \in Thread, req[o].user = w, req[o].pc \in ChangingPCs PROVE FALSE
  BY Zenon DEF NoneAt
<1>1. o # t
  OBVIOUS
<1>2. req[t].user # w
  BY <1>1, Zenon DEF UserOK, AloneOK
<1> QED
  BY <1>2

\* It stays so.
LEMMA QuietAfter ==
    ASSUME KeyInv, NEW t \in Thread, NEW w \in User, UserOK(w), NoneAt(w, ChangingPCs), Moves(t),
           UNCHANGED keySetting, storage'[w] = storage[w],
           req'[t].user = w => /\ req'[t].pc \notin ChangingPCs
                               /\ req'[t].pc \in {"add", "addUser"} => req'[t].got = storage[w],
           cache'[w] = none \/ cache'[w] = storage[w],
           w \notin negCache' \/ storage[w] = none,
           Reliable => userCache'[w] \in {none, config, storage[w]}
    PROVE  UserOK(w)'
<1>1. ASSUME NEW o \in Thread, req'[o].user = w
      PROVE  req'[o].pc \notin ChangingPCs /\ (req'[o].pc \in {"add", "addUser"} => req'[o].got = storage[w])
  <2>1. CASE o = t
    BY <1>1, <2>1
  <2>2. CASE o # t
    <3>1. req'[o] = req[o]
      BY <2>2 DEF Moves
    <3> QED
      BY <1>1, <3>1, Zenon DEF NoneAt, UserOK, ReadOK
  <2> QED
    BY <2>1, <2>2
<1>2. AloneOK(w)'
  BY <1>1, Zenon DEF AloneOK
<1>3. ReadOK(w)'
  <2> SUFFICES ASSUME NEW o \in Thread, req'[o].user = w
               PROVE  /\ req'[o].pc \in {"add", "addUser"} => req'[o].got = storage'[w]
                      /\ req'[o].pc \in {"negRemove", "cacheAdd"} => Entry(o)' = storage'[w]
    BY DEF ReadOK
  <2>1. req'[o].pc \notin {"negRemove", "cacheAdd"}
    BY <1>1 DEF ChangingPCs
  <2> QED
    BY <1>1, <2>1, Zenon
<1>4. Reliable' => Reliable
  BY Zenon DEF Reliable
<1>5. KnownOK(w)'
  BY <1>4, Zenon DEF KnownOK
<1> QED
  BY <1>2, <1>3, <1>5 DEF UserOK

\* A call that has changed a record, and is the only one about its user.
LEMMA AloneAfter ==
    ASSUME KeyInv, NEW t \in Thread, NEW w \in User, \A o \in Thread \ {t} : req[o].user # w, Moves(t),
           UNCHANGED keySetting,
           req'[t].user = w => /\ req'[t].pc \notin {"add", "addUser"}
                               /\ req'[t].pc \in {"negRemove", "cacheAdd"} => Entry(t)' = storage'[w],
           \/ req'[t].user = w /\ req'[t].pc \in {"negRemove", "cacheAdd", "forgetNeg", "forget"}
           \/ cache'[w] = none \/ cache'[w] = storage'[w],
           \/ req'[t].user = w /\ req'[t].pc \in {"negRemove", "forgetNeg"}
           \/ w \notin negCache' \/ storage'[w] = none,
           \/ req'[t].user = w /\ req'[t].pc \in ChangingPCs
           \/ Reliable => userCache'[w] \in {none, config, storage'[w]}
    PROVE  UserOK(w)'
<1>1. \A o \in Thread \ {t} : req'[o].user # w
  BY Zenon DEF Moves
<1>2. AloneOK(w)'
  BY <1>1, Zenon DEF AloneOK
<1>3. ReadOK(w)'
  <2> SUFFICES ASSUME NEW o \in Thread, req'[o].user = w
               PROVE  /\ req'[o].pc \in {"add", "addUser"} => req'[o].got = storage'[w]
                      /\ req'[o].pc \in {"negRemove", "cacheAdd"} => Entry(o)' = storage'[w]
    BY DEF ReadOK
  <2>1. o = t
    BY <1>1
  <2> QED
    BY <2>1, Zenon
<1>4. Reliable' => Reliable
  BY Zenon DEF Reliable
<1>5. KnownOK(w)'
  <2>1. \A pcs : NoneAt(w, pcs)' => ~(req'[t].user = w /\ req'[t].pc \in pcs)
    BY Zenon DEF NoneAt
  <2>2. NoneAt(w, {"negRemove", "cacheAdd", "forgetNeg", "forget"})' => cache'[w] = none \/ cache'[w] = storage'[w]
    BY <2>1, Zenon
  <2>3. NoneAt(w, {"negRemove", "forgetNeg"})' => w \notin negCache' \/ storage'[w] = none
    BY <2>1, Zenon
  <2>4. Reliable' /\ NoneAt(w, ChangingPCs)' => userCache'[w] \in {none, config, storage'[w]}
    BY <1>4, <2>1, Zenon DEF ChangingPCs
  <2> QED
    BY <2>2, <2>3, <2>4 DEF KnownOK
<1> QED
  BY <1>2, <1>3, <1>5 DEF UserOK

\* The request of a call that has returned.
LEMMA IdleReq ==
    ASSUME NEW t \in Thread, req'[t].pc = "idle", req'[t].user = nobody
    PROVE  ReqOK(t)'
BY DEF ReqOK

\* The request of a call that goes on.
LEMMA KeptReq ==
    ASSUME KeyInv, NEW t \in Thread, req[t].pc # "idle", Kept(t), UNCHANGED keySetting,
           req'[t].pc \notin {"idle", "store", "forgetNeg", "forget"},
           req'[t].pc \in {"userCache", "lookup", "fetch"} \/ req'[t].got.admin = isAdmin(req[t].user)
    PROVE  ReqOK(t)'
<1>1. ReqOK(t)
  BY DEF KeyInv
<1>2. Reliable' => Reliable
  BY Zenon DEF Reliable
<1>3. req'[t].user = req[t].user /\ req'[t].ask = req[t].ask
  BY DEF Kept
<1>4. isAdmin(req[t].user)' = isAdmin(req[t].user)
  BY <1>3, Zenon DEF isAdmin
<1>5. req'[t].pc \notin {"idle", "userCache", "lookup", "fetch"} => req'[t].got.admin = isAdmin(req[t].user)'
  BY <1>4, Zenon
<1>6. req'[t].user \in User /\ (Reliable' => req'[t].ask = TRUE)
  BY <1>1, <1>2, <1>3, Zenon DEF ReqOK
<1>7. req'[t].pc # "idle" /\ req'[t].pc # "store" /\ req'[t].pc \notin {"forgetNeg", "forget"}
  OBVIOUS
<1> QED
  BY <1>5, <1>6, <1>7, Zenon DEF ReqOK

\* A call that has changed nothing goes on without changing the record.
LEMMA QuietInv ==
    ASSUME KeyInv, NEW t \in Thread, NEW w \in User, w = req[t].user, req[t].pc \notin ChangingPCs, Moves(t),
           UNCHANGED <<keySetting, storage, touched>>, KeyTypeOK', LogOK', Grows, Off(w),
           req'[t].user \in {w, nobody}, req'[t].pc \notin ChangingPCs, ReqOK(t)', StorageOK(w)',
           cache'[w] = cache[w] \/ (w \notin touched => cache'[w] = storage[w]),
           w \in negCache' => w \in negCache \/ (w \notin touched => storage[w] = none),
           userCache'[w] = userCache[w] \/ (w \notin touched => userCache'[w] = storage[w]),
           w \notin touched /\ req'[t].pc \in {"add", "addUser"} => req'[t].got = storage[w]
    PROVE  KeyInv'
<1>1. ASSUME w \notin touched PROVE UserOK(w)'
  <2>1. UserOK(w)
    BY <1>1, Zenon DEF KeyInv
  <2>2. NoneAt(w, ChangingPCs)
    BY <2>1, NoneChanges, Zenon
  <2>3. /\ cache[w] = none \/ cache[w] = storage[w]
        /\ w \notin negCache \/ storage[w] = none
        /\ Reliable => userCache[w] \in {none, config, storage[w]}
    BY <2>1, <2>2, QuietBefore, Zenon
  <2>4. cache'[w] = none \/ cache'[w] = storage[w]
    BY <1>1, <2>3
  <2>5. w \notin negCache' \/ storage[w] = none
    BY <1>1, <2>3
  <2>6. Reliable => userCache'[w] \in {none, config, storage[w]}
    BY <1>1, <2>3, Zenon
  <2>7. storage'[w] = storage[w] /\ UNCHANGED keySetting
    OBVIOUS
  <2> QED
    BY <1>1, <2>1, <2>2, <2>4, <2>5, <2>6, <2>7, QuietAfter, Zenon
<1>2. UNCHANGED keySetting /\ touched \subseteq touched' /\ touched' = touched
  OBVIOUS
<1> QED
  BY <1>1, <1>2, CallInv

-----------------------------------------------------------------------------
(* The steps of a call that do not change the record of its user. *)

\* The user of a call, and what its request says.
LEMMA UserOfCall ==
    ASSUME KeyInv, NEW t \in Thread, req[t].pc # "idle"
    PROVE  /\ req[t].user \in User /\ req[t].got \in Record /\ req[t].pc \in PCs
           /\ ReqOK(t) /\ StorageOK(req[t].user) /\ KeyTypeOK /\ LogOK
<1>1. ReqOK(t) /\ KeyTypeOK /\ LogOK
  BY DEF KeyInv
<1>2. req[t].user \in User
  BY <1>1, Zenon DEF ReqOK
<1>3. req[t].got \in Record /\ req[t].pc \in PCs
  BY <1>1 DEF KeyTypeOK, ReqType
<1>4. StorageOK(req[t].user)
  BY <1>2 DEF KeyInv
<1> QED
  BY <1>1, <1>2, <1>3, <1>4

\* Only the request changes.
LEMMA ReqInv ==
    ASSUME KeyInv, NEW t \in Thread, req[t].pc # "idle", req[t].pc \notin ChangingPCs, Moves(t),
           UNCHANGED <<keySetting, storage, storedLog, log, cache, negCache, userCache, made, touched>>,
           req'[t].user \in {req[t].user, nobody}, req'[t].pc \notin ChangingPCs, ReqOK(t)',
           req[t].user \notin touched /\ req'[t].pc \in {"add", "addUser"} => req'[t].got = storage[req[t].user]
    PROVE  KeyInv'
<1>1. PICK w \in User : w = req[t].user
  BY UserOfCall
<1>2. KeyTypeOK'
  BY DEF KeyInv, KeyTypeOK, Moves
<1>3. LogOK' /\ Grows
  BY SameLog DEF KeyInv
<1>4. Off(w)
  BY DEF Off
<1>5. UNCHANGED <<keySetting, storage, touched>> /\ UNCHANGED keySetting
  OBVIOUS
<1>6. storage'[w] = storage[w] /\ cache'[w] = cache[w] /\ userCache'[w] = userCache[w] /\ (w \in negCache' => w \in negCache)
  OBVIOUS
<1>7. StorageOK(w)'
  BY <1>3, <1>5, <1>6, OtherStorage
<1> QED
  BY <1>1, <1>2, <1>3, <1>4, <1>5, <1>6, <1>7, QuietInv

\* The call returns ...
LEMMA ReturnInv ==
    ASSUME KeyInv, NEW t \in Thread, req[t].pc # "idle", req[t].pc \notin ChangingPCs, Return(t),
           UNCHANGED <<keySetting, storage, storedLog, log, cache, negCache, userCache, made, touched>>
    PROVE  KeyInv'
<1>1. Moves(t) /\ req'[t].pc = "idle" /\ req'[t].user = nobody
  BY ReturnMoves DEF KeyInv
<1>2. ReqOK(t)'
  BY <1>1, IdleReq
<1>3. req'[t].user \in {req[t].user, nobody} /\ req'[t].pc \notin ChangingPCs /\ req'[t].pc \notin {"add", "addUser"}
  BY <1>1 DEF ChangingPCs
<1> QED
  BY <1>1, <1>2, <1>3, ReqInv

\* ... or goes on with what it has, or with a record.
LEMMA GoesOnInv ==
    ASSUME KeyInv, NEW t \in Thread, req[t].pc # "idle", req[t].pc \notin ChangingPCs, Moves(t), Kept(t),
           UNCHANGED <<keySetting, storage, storedLog, log, cache, negCache, userCache, made, touched>>,
           req'[t].pc \in {"userCache", "lookup", "fetch", "add", "addUser", "canPut", "attempt", "return"},
           req'[t].pc \in {"userCache", "lookup", "fetch"} \/ req'[t].got.admin = isAdmin(req[t].user),
           req[t].user \notin touched /\ req'[t].pc \in {"add", "addUser"} => req'[t].got = storage[req[t].user]
    PROVE  KeyInv'
<1>1. req'[t].pc \notin {"idle", "store", "forgetNeg", "forget"} /\ req'[t].pc \notin ChangingPCs
  BY DEF ChangingPCs
<1>2. UNCHANGED keySetting
  OBVIOUS
<1>3. ReqOK(t)'
  BY <1>1, <1>2, KeptReq
<1>4. req'[t].user \in {req[t].user, nobody}
  BY DEF Kept
<1> QED
  BY <1>1, <1>3, <1>4, ReqInv

\* The client's cache is asked.
LEMMA AskUserCacheInv ==
    ASSUME KeyInv, NEW t \in Thread, AskUserCache(t), UNCHANGED keySetting
    PROVE  KeyInv'
<1>1. req[t].pc # "idle" /\ req[t].pc \notin ChangingPCs
  BY DEF AskUserCache, ChangingPCs
<1>2. UNCHANGED <<keySetting, storage, storedLog, log, cache, negCache, userCache, made, touched>>
  BY DEF AskUserCache
<1>3. CASE Return(t)
  BY <1>1, <1>2, <1>3, ReturnInv
<1>4. CASE Goto(t, "lookup")
  <2>1. "lookup" \in PCs
    BY DEF PCs
  <2>2. Moves(t) /\ Kept(t) /\ req'[t].pc = "lookup"
    BY <1>4, <2>1, GotoMoves DEF KeyInv
  <2> QED
    BY <1>1, <1>2, <2>2, GoesOnInv
<1> QED
  BY <1>3, <1>4, Zenon DEF AskUserCache

\* The server's caches are asked.
LEMMA LookupInv ==
    ASSUME KeyInv, NEW t \in Thread, Lookup(t), UNCHANGED keySetting
    PROVE  KeyInv'
<1>1. req[t].pc # "idle" /\ req[t].pc \notin ChangingPCs
  BY DEF Lookup, ChangingPCs
<1>2. UNCHANGED <<keySetting, storage, storedLog, log, cache, negCache, userCache, made, touched>>
  BY DEF Lookup
<1>3. PICK w \in User : w = req[t].user
  BY <1>1, UserOfCall
<1>4. KeyTypeOK /\ StorageOK(w) /\ cache[w] \in Record /\ none \in Record /\ none.admin = FALSE
  BY <1>1, <1>3, UserOfCall, IdleShape DEF KeyTypeOK
<1>5. w \notin touched => (cache[w] = none \/ cache[w] = storage[w]) /\ (w \notin negCache \/ storage[w] = none)
  <2> SUFFICES ASSUME w \notin touched PROVE (cache[w] = none \/ cache[w] = storage[w]) /\ (w \notin negCache \/ storage[w] = none)
    OBVIOUS
  <2>1. UserOK(w)
    BY DEF KeyInv
  <2>2. NoneAt(w, ChangingPCs)
    BY <1>1, <1>3, <2>1, NoneChanges
  <2> QED
    BY <2>1, <2>2, QuietBefore
<1>6. ASSUME NEW g \in Record, Found(t, g), g.admin = isAdmin(w), w \notin touched => g = storage[w] PROVE KeyInv'
  <2>1. Moves(t) /\ Kept(t) /\ req'[t].got = g /\ req'[t].pc \in {"canPut", "return", "addUser"}
    BY <1>4, <1>6, FoundMoves, Zenon
  <2>2. req'[t].pc \in {"userCache", "lookup", "fetch", "add", "addUser", "canPut", "attempt", "return"}
    BY <2>1
  <2>3. req'[t].got.admin = isAdmin(req[t].user) /\ (req[t].user \notin touched => req'[t].got = storage[req[t].user])
    BY <1>3, <1>6, <2>1
  <2> QED
    BY <1>1, <1>2, <2>1, <2>2, <2>3, GoesOnInv
<1>7. CASE Found(t, cache[w]) /\ cache[w] # none
  <2>1. cache[w].admin = isAdmin(w)
    BY <1>4, <1>7, Zenon DEF StorageOK
  <2> QED
    BY <1>4, <1>5, <1>6, <1>7, <2>1
<1>8. CASE Found(t, none) /\ w \in negCache
  <2>1. none.admin = isAdmin(w)
    BY <1>4, <1>8, Zenon DEF StorageOK
  <2> QED
    BY <1>4, <1>5, <1>6, <1>8, <2>1
<1>9. CASE Goto(t, "fetch")
  <2>1. "fetch" \in PCs
    BY DEF PCs
  <2>2. Moves(t) /\ Kept(t) /\ req'[t].pc = "fetch"
    BY <1>4, <1>9, <2>1, GotoMoves
  <2> QED
    BY <1>1, <1>2, <2>2, GoesOnInv
<1> QED
  BY <1>3, <1>7, <1>8, <1>9, Zenon DEF Lookup

\* The store is asked.
LEMMA FetchInv ==
    ASSUME KeyInv, NEW t \in Thread, Fetch(t), UNCHANGED keySetting
    PROVE  KeyInv'
<1>1. req[t].pc # "idle" /\ req[t].pc \notin ChangingPCs
  BY DEF Fetch, ChangingPCs
<1>2. UNCHANGED <<keySetting, storage, storedLog, log, cache, negCache, userCache, made, touched>>
  BY DEF Fetch
<1>3. CASE Return(t)
  BY <1>1, <1>2, <1>3, ReturnInv
<1>4. CASE req' = [req EXCEPT ![t].got = storage[req[t].user], ![t].pc = "add"]
  <2>1. PICK w \in User : w = req[t].user
    BY <1>1, UserOfCall
  <2>2. PICK g \in Record : g = storage[w]
    BY DEF KeyInv, KeyTypeOK
  <2>3. "add" \in PCs /\ KeyTypeOK
    BY DEF PCs, KeyInv
  <2>4. req' = [req EXCEPT ![t].got = g, ![t].pc = "add"]
    BY <1>4, <2>1, <2>2, Zenon
  <2>5. Moves(t) /\ Kept(t) /\ req'[t].pc = "add" /\ req'[t].got = g
    BY <2>3, <2>4, GotMoves, Zenon
  <2>6. req'[t].got.admin = isAdmin(req[t].user)
    BY <1>1, <2>1, <2>2, <2>5, UserOfCall, Zenon DEF StorageOK
  <2> QED
    BY <1>1, <1>2, <2>1, <2>2, <2>5, <2>6, GoesOnInv
<1> QED
  BY <1>3, <1>4, Zenon DEF Fetch

\* What was read is added to a cache.
LEMMA AddInv ==
    ASSUME KeyInv, NEW t \in Thread, Add(t), UNCHANGED keySetting
    PROVE  KeyInv'
<1>1. req[t].pc = "add" /\ req[t].pc # "idle" /\ req[t].pc \notin ChangingPCs
  BY DEF Add, ChangingPCs
<1>2. UNCHANGED <<keySetting, storage, touched>> /\ UNCHANGED <<log, storedLog>> /\ UNCHANGED <<made, userCache>> /\ UNCHANGED keySetting
  BY DEF Add
<1>3. PICK w \in User, g \in Record : w = req[t].user /\ g = req[t].got
  BY <1>1, UserOfCall
<1>4. KeyTypeOK /\ LogOK /\ StorageOK(w) /\ ReqOK(t) /\ none.admin = FALSE
  BY <1>1, <1>3, UserOfCall, IdleShape
<1>5. g.admin = isAdmin(w)
  BY <1>1, <1>3, <1>4, Zenon DEF ReqOK
<1>6. w \notin touched => g = storage[w]
  BY <1>1, <1>3, Zenon DEF KeyInv, UserOK, ReadOK
<1>7. Found(t, g)
  BY <1>3, Zenon DEF Add
<1>8. Moves(t) /\ Kept(t) /\ req'[t].got = g /\ req'[t].pc \in {"canPut", "return", "addUser"}
  BY <1>4, <1>7, FoundMoves
<1>9. req'[t].pc \notin {"idle", "store", "forgetNeg", "forget"} /\ req'[t].pc \notin ChangingPCs
  BY <1>8 DEF ChangingPCs
<1>10. ReqOK(t)'
  BY <1>1, <1>2, <1>3, <1>5, <1>8, <1>9, KeptReq
<1>11. \/ g = none /\ negCache' = negCache \cup {w} /\ cache' = cache
       \/ cache' = [cache EXCEPT ![w] = g] /\ negCache' = negCache
  BY <1>3, Zenon DEF Add
<1>12. /\ cache' \in [User -> Record] /\ \A u \in User \ {w} : cache'[u] = cache[u] /\ (u \in negCache' <=> u \in negCache)
       /\ cache'[w] = cache[w] \/ cache'[w] = g
       /\ w \in negCache' => w \in negCache \/ g = none
  BY <1>4, <1>11 DEF KeyTypeOK
<1>13. KeyTypeOK'
  BY <1>2, <1>4, <1>8, <1>12 DEF KeyTypeOK, Moves
<1>14. LogOK' /\ Grows
  BY <1>2, <1>4, SameLog
<1>15. Off(w)
  BY <1>2, <1>12, Zenon DEF Off
<1>16. StorageOK(w)'
  <2>1. storage'[w].rec = keySetting'.users[w].rec \/ Attempted(w, storage[w].rec)'
    <3>1. PICK n : n = storage[w].rec
      OBVIOUS
    <3>2. storage[w].rec = keySetting.users[w].rec \/ Attempted(w, n)'
      BY <1>4, <1>14, <3>1, Zenon DEF StorageOK, Grows
    <3>3. n = storage'[w].rec
      BY <1>2, <3>1
    <3> QED
      BY <1>2, <3>1, <3>2, <3>3, Zenon
  <2>2. isAdmin(w)' = isAdmin(w)
    BY <1>2, Zenon DEF isAdmin
  <2>3. storage'[w].admin = isAdmin(w)
    BY <1>2, <1>4, Zenon DEF StorageOK
  <2>4. cache'[w] # none => cache'[w].admin = isAdmin(w)
    BY <1>4, <1>5, <1>12, Zenon DEF StorageOK
  <2>5. w \in negCache' => isAdmin(w) = FALSE
    BY <1>4, <1>5, <1>12, Zenon DEF StorageOK
  <2> QED
    BY <2>1, <2>2, <2>3, <2>4, <2>5, Zenon DEF StorageOK
<1>17. /\ req'[t].user \in {w, nobody}
       /\ cache'[w] = cache[w] \/ (w \notin touched => cache'[w] = storage[w])
       /\ w \in negCache' => w \in negCache \/ (w \notin touched => storage[w] = none)
       /\ userCache'[w] = userCache[w]
       /\ w \notin touched /\ req'[t].pc \in {"add", "addUser"} => req'[t].got = storage[w]
  BY <1>2, <1>3, <1>6, <1>8, <1>12, Zenon DEF Kept
<1> QED
  BY <1>1, <1>2, <1>3, <1>8, <1>9, <1>10, <1>13, <1>14, <1>15, <1>16, <1>17, QuietInv, Zenon

\* The client's cache is told.
LEMMA AddUserInv ==
    ASSUME KeyInv, NEW t \in Thread, AddUser(t), UNCHANGED keySetting
    PROVE  KeyInv'
<1>1. req[t].pc = "addUser" /\ req[t].pc # "idle" /\ req[t].pc \notin ChangingPCs
  BY DEF AddUser, ChangingPCs
<1>2. UNCHANGED <<keySetting, storage, touched>> /\ UNCHANGED <<log, storedLog>> /\ UNCHANGED <<made, cache, negCache>> /\ UNCHANGED keySetting
  BY DEF AddUser
<1>3. PICK w \in User, g \in Record : w = req[t].user /\ g = req[t].got
  BY <1>1, UserOfCall
<1>4. KeyTypeOK /\ LogOK /\ ReqOK(t)
  BY <1>1, UserOfCall
<1>5. g.admin = isAdmin(w)
  BY <1>1, <1>3, <1>4, Zenon DEF ReqOK
<1>6. w \notin touched => g = storage[w]
  BY <1>1, <1>3, Zenon DEF KeyInv, UserOK, ReadOK
<1>7. "return" \in PCs /\ Goto(t, "return")
  BY DEF PCs, AddUser
<1>8. Moves(t) /\ Kept(t) /\ req'[t].got = g /\ req'[t].pc = "return"
  BY <1>3, <1>4, <1>7, GotoMoves
<1>9. req'[t].pc \notin {"idle", "store", "forgetNeg", "forget"} /\ req'[t].pc \notin ChangingPCs
  BY <1>8 DEF ChangingPCs
<1>10. ReqOK(t)'
  BY <1>1, <1>2, <1>3, <1>5, <1>8, <1>9, KeptReq, Zenon
<1>11. userCache' = [userCache EXCEPT ![w] = g]
  BY <1>3, Zenon DEF AddUser
<1>12. userCache' \in [User -> Record] /\ userCache'[w] = g /\ \A u \in User \ {w} : userCache'[u] = userCache[u]
  BY <1>4, <1>11 DEF KeyTypeOK
<1>13. KeyTypeOK'
  BY <1>2, <1>4, <1>8, <1>12 DEF KeyTypeOK, Moves
<1>14. LogOK' /\ Grows
  BY <1>2, <1>4, SameLog
<1>15. Off(w)
  BY <1>2, <1>12, Zenon DEF Off
<1>16. storage'[w] = storage[w] /\ cache'[w] = cache[w] /\ (w \in negCache' => w \in negCache)
  BY <1>2
<1>17. StorageOK(w)'
  BY <1>2, <1>14, <1>16, OtherStorage
<1>18. /\ req'[t].user \in {w, nobody}
       /\ w \notin touched => userCache'[w] = storage[w]
       /\ req'[t].pc \notin {"add", "addUser"}
  BY <1>3, <1>6, <1>8, <1>12, Zenon DEF Kept
<1> QED
  BY <1>1, <1>2, <1>3, <1>8, <1>9, <1>10, <1>13, <1>14, <1>15, <1>16, <1>17, <1>18, QuietInv, Zenon

\* Whether the caller may put.
LEMMA canPutInv ==
    ASSUME KeyInv, NEW t \in Thread, canPut(t), UNCHANGED keySetting
    PROVE  KeyInv'
<1>1. req[t].pc = "canPut" /\ req[t].pc # "idle" /\ req[t].pc \notin ChangingPCs
  BY DEF canPut, ChangingPCs
<1>2. UNCHANGED <<keySetting, storage, storedLog, log, cache, negCache, userCache, made, touched>>
  BY DEF canPut
<1>3. CASE Return(t)
  BY <1>1, <1>2, <1>3, ReturnInv
<1>4. CASE Goto(t, "attempt")
  <2>1. "attempt" \in PCs /\ KeyTypeOK
    BY DEF PCs, KeyInv
  <2>2. Moves(t) /\ Kept(t) /\ req'[t].pc = "attempt" /\ req'[t].got = req[t].got
    BY <1>4, <2>1, GotoMoves
  <2>3. req'[t].got.admin = isAdmin(req[t].user)
    BY <1>1, <2>2, UserOfCall, Zenon DEF ReqOK
  <2> QED
    BY <1>1, <1>2, <2>2, <2>3, GoesOnInv
<1> QED
  BY <1>3, <1>4, Zenon DEF canPut

\* A call has its answer.
LEMMA DoneInv ==
    ASSUME KeyInv, NEW t \in Thread, Done(t), UNCHANGED keySetting
    PROVE  KeyInv'
<1>1. req[t].pc # "idle" /\ req[t].pc \notin ChangingPCs
  BY Zenon DEF Done, ChangingPCs
<1>2. UNCHANGED <<keySetting, storage, storedLog, log, cache, negCache, userCache, made, touched>> /\ Return(t)
  BY DEF Done
<1> QED
  BY <1>1, <1>2, ReturnInv

\* The attempt is logged.
LEMMA PutAttemptInv ==
    ASSUME KeyInv, NEW t \in Thread, PutAttempt(t), UNCHANGED keySetting
    PROVE  KeyInv'
<1>1. req[t].pc = "attempt" /\ req[t].pc # "idle" /\ req[t].pc \notin ChangingPCs
  BY DEF PutAttempt, ChangingPCs
<1>2. /\ UNCHANGED <<keySetting, storage, touched>> /\ UNCHANGED <<made, cache, negCache, userCache>> /\ UNCHANGED keySetting
  BY DEF PutAttempt
<1>3. PICK w \in User, n \in Int : w = req[t].user /\ n = req[t].rec
  BY <1>1, UserOfCall DEF KeyTypeOK, ReqType
<1>4. KeyTypeOK /\ LogOK /\ ReqOK(t)
  BY <1>1, UserOfCall
<1>5. CASE Unpopulated(t)
  <2>1. UNCHANGED <<keySetting, storage, storedLog, log, cache, negCache, userCache, made, touched>> /\ Return(t)
    BY <1>2, <1>5 DEF Unpopulated
  <2> QED
    BY <1>1, <2>1, ReturnInv
<1>6. ASSUME Extend(t, "attempt"), storedLog' = log' \/ storedLog' = storedLog, Moves(t), ReqOK(t)',
             req'[t].user \in {w, nobody}, req'[t].pc \in {"store", "idle"}
      PROVE  KeyInv'
  <2>1. LogOK' /\ Grows
    BY <1>3, <1>4, <1>6, ExtendedLog, Zenon
  <2>2. KeyTypeOK'
    BY <1>2, <1>4, <1>6 DEF KeyTypeOK, Moves
  <2>3. Off(w)
    BY <1>2, Zenon DEF Off
  <2>4. storage'[w] = storage[w] /\ cache'[w] = cache[w] /\ (w \in negCache' => w \in negCache) /\ userCache'[w] = userCache[w]
    BY <1>2
  <2>5. StorageOK(w)'
    BY <1>2, <2>1, <2>4, OtherStorage, Zenon
  <2>6. req'[t].pc \notin ChangingPCs /\ req'[t].pc \notin {"add", "addUser"}
    BY <1>6 DEF ChangingPCs
  <2> QED
    BY <1>1, <1>2, <1>3, <1>6, <2>1, <2>2, <2>3, <2>4, <2>5, <2>6, QuietInv, Zenon
<1>7. CASE Extend(t, "attempt") /\ storedLog' = log' /\ Goto(t, "store")
  <2>1. "store" \in PCs
    BY DEF PCs
  <2>2. Moves(t) /\ Kept(t) /\ req'[t].pc = "store" /\ req'[t].got = req[t].got
    BY <1>4, <1>7, <2>1, GotoMoves, Zenon
  <2>3. Attempted(w, n)'
    BY <1>3, <1>4, <1>7, ExtendedLog, Zenon
  <2>4. req'[t].user = w /\ req'[t].rec = n /\ req'[t].ask = req[t].ask
    BY <1>3, <2>2 DEF Kept
  <2>5. Attempted(req[t].user, req[t].rec)'
    BY <2>3, <2>4, Zenon
  <2>6. (Reliable' => Reliable) /\ isAdmin(req[t].user)' = isAdmin(req[t].user)
    BY <1>2, <1>3, <2>4, Zenon DEF Reliable, isAdmin
  <2>7. req'[t].user \in User /\ (Reliable' => req'[t].ask = TRUE) /\ req'[t].got.admin = isAdmin(req[t].user)'
    BY <1>1, <1>3, <1>4, <2>2, <2>4, <2>6, Zenon DEF ReqOK
  <2>8. ReqOK(t)'
    BY <2>2, <2>5, <2>7, Zenon DEF ReqOK
  <2> QED
    BY <1>6, <1>7, <2>2, <2>4, <2>8
<1>8. CASE Extend(t, "attempt") /\ Return(t) /\ UNCHANGED storedLog
  <2>1. Moves(t) /\ req'[t].pc = "idle" /\ req'[t].user = nobody
    BY <1>4, <1>8, ReturnMoves, Zenon
  <2>2. ReqOK(t)'
    BY <2>1, IdleReq, Zenon
  <2> QED
    BY <1>6, <1>8, <2>1, <2>2, Zenon
<1> QED
  BY <1>5, <1>7, <1>8, Zenon DEF PutAttempt

-----------------------------------------------------------------------------
(* The steps that change the record, and what follows. *)

\* The record is stored.
LEMMA StoreInv ==
    ASSUME KeyInv, NEW t \in Thread, Store(t), UNCHANGED keySetting
    PROVE  KeyInv'
<1>1. req[t].pc = "store" /\ req[t].pc # "idle"
  BY Zenon DEF Store
<1>2. UNCHANGED <<log, storedLog>> /\ UNCHANGED <<made, cache, negCache, userCache>>
  BY DEF Store
<1>3. PICK w \in User, n \in Int : w = req[t].user /\ n = req[t].rec
  BY <1>1, UserOfCall, Zenon DEF KeyTypeOK, ReqType
<1>4. KeyTypeOK /\ LogOK /\ ReqOK(t) /\ StorageOK(w)
  BY <1>1, <1>3, UserOfCall, Zenon
<1>5. PICK e : e = Entry(t)
  OBVIOUS
<1>6. e \in Record /\ e.rec = n /\ e.admin = isAdmin(w)
  <2>1. PICK a : a = req[t].got.admin
    OBVIOUS
  <2>2. a \in BOOLEAN /\ a = isAdmin(w)
    BY <1>1, <1>3, <1>4, <2>1, UserOfCall, Zenon DEF ReqOK, Record
  <2>3. e = [rec |-> n, admin |-> a]
    BY <1>3, <1>5, <2>1, Zenon DEF Entry
  <2> QED
    BY <2>2, <2>3 DEF Record
<1>7. \/ storage' = [storage EXCEPT ![w] = e] /\ Goto(t, "negRemove")
      \/ (storage' = storage \/ storage' = [storage EXCEPT ![w] = e]) /\ Goto(t, "forgetNeg") /\ MayFail("store")
  BY <1>3, <1>5, Zenon DEF Store
<1>8. "negRemove" \in PCs /\ "forgetNeg" \in PCs
  BY DEF PCs
<1>9. /\ Moves(t) /\ Kept(t) /\ req'[t].got = req[t].got
      /\ \/ req'[t].pc = "negRemove" /\ storage' = [storage EXCEPT ![w] = e]
         \/ req'[t].pc = "forgetNeg" /\ MayFail("store")
  BY <1>4, <1>7, <1>8, GotoMoves, Zenon
<1>10. /\ storage' \in [User -> Record] /\ \A u \in User \ {w} : storage'[u] = storage[u]
       /\ storage'[w] = storage[w] \/ storage'[w] = e
       /\ req'[t].pc = "negRemove" => storage'[w] = e
  <2>1. storage' = storage \/ storage' = [storage EXCEPT ![w] = e]
    BY <1>7
  <2>2. req'[t].pc = "negRemove" => storage' = [storage EXCEPT ![w] = e]
    BY <1>9, Zenon
  <2> QED
    BY <1>4, <1>6, <2>1, <2>2 DEF KeyTypeOK
<1>11. KeyTypeOK'
  BY <1>2, <1>4, <1>9, <1>10 DEF KeyTypeOK, Moves
<1>12. LogOK' /\ Grows
  BY <1>2, <1>4, SameLog
<1>13. Off(w)
  BY <1>2, <1>10, Zenon DEF Off
<1>14. StorageOK(w)'
  <2>1. PICK m : m = storage'[w].rec
    OBVIOUS
  <2>2. m = storage[w].rec \/ m = n
    BY <1>6, <1>10, <2>1, Zenon
  <2>3. Attempted(w, n)
    BY <1>1, <1>3, <1>4, Zenon DEF ReqOK
  <2>4. m = keySetting.users[w].rec \/ Attempted(w, m)
    BY <1>4, <2>2, <2>3, Zenon DEF StorageOK
  <2>5. m = keySetting.users[w].rec \/ Attempted(w, m)'
    BY <1>12, <2>4, Zenon DEF Grows
  <2>6. storage'[w].rec = keySetting'.users[w].rec \/ Attempted(w, storage[w].rec)'
    BY <2>1, <2>5, Zenon
  <2>7. isAdmin(w)' = isAdmin(w)
    BY Zenon DEF isAdmin
  <2>8. storage'[w].admin = isAdmin(w)
    BY <1>4, <1>6, <1>10, Zenon DEF StorageOK
  <2>9. cache'[w] = cache[w] /\ negCache' = negCache
    BY <1>2
  <2> QED
    BY <1>4, <2>6, <2>7, <2>8, <2>9, Zenon DEF StorageOK
<1>15. req'[t].pc = "forgetNeg" => ~Reliable
  BY <1>9, Zenon DEF MayFail, Reliable
<1>16. ReqOK(t)'
  <2>1. Reliable' <=> Reliable
    BY Zenon DEF Reliable
  <2>2. req'[t].user = req[t].user /\ req'[t].ask = req[t].ask
    BY <1>9, Zenon DEF Kept
  <2>3. isAdmin(req[t].user)' = isAdmin(req[t].user)
    BY <2>2, Zenon DEF isAdmin
  <2>4. req'[t].user \in User /\ (Reliable' => req'[t].ask = TRUE) /\ req'[t].got.admin = isAdmin(req[t].user)'
    BY <1>1, <1>3, <1>4, <1>9, <2>1, <2>2, <2>3, Zenon DEF ReqOK
  <2>5. req'[t].pc # "idle" /\ req'[t].pc # "store" /\ (req'[t].pc \in {"forgetNeg", "forget"} => ~Reliable')
    BY <1>9, <1>15, <2>1, Zenon
  <2> QED
    BY <2>4, <2>5, Zenon DEF ReqOK
<1>17. touched \subseteq touched' /\ (w \notin touched' => ~Others(t))
  BY <1>3, Zenon DEF Store, Touch
<1>18. ASSUME w \notin touched' PROVE UserOK(w)'
  <2>1. ASSUME NEW o \in Thread \ {t} PROVE req[o].user # w
    <3>1. req[o].pc = "idle" \/ req[o].user # w
      BY <1>3, <1>17, <1>18, Zenon DEF Others
    <3>2. req[o].pc = "idle" => req[o].user = nobody
      BY Zenon DEF KeyInv, ReqOK
    <3>3. w # nobody
      BY KeyAssumption DEF nobody
    <3> QED
      BY <3>1, <3>2, <3>3
  <2>2. Entry(t)' = Entry(t)
    BY <1>9, Zenon DEF Entry, Kept
  <2>3. req'[t].user = w
    BY <1>3, <1>9, Zenon DEF Kept
  <2>4. /\ req'[t].pc \notin {"add", "addUser"}
        /\ req'[t].pc \in {"negRemove", "cacheAdd"} => Entry(t)' = storage'[w]
    BY <1>5, <1>9, <1>10, <2>2
  <2>5. /\ req'[t].pc \in {"negRemove", "cacheAdd", "forgetNeg", "forget"}
        /\ req'[t].pc \in {"negRemove", "forgetNeg"} /\ req'[t].pc \in ChangingPCs
    BY <1>9 DEF ChangingPCs
  <2> QED
    BY <1>9, <2>1, <2>3, <2>4, <2>5, AloneAfter, Zenon
<1>19. req[t].user \in {w, nobody} /\ req'[t].user \in {w, nobody}
  BY <1>3, <1>9 DEF Kept
<1> QED
  BY <1>9, <1>11, <1>12, <1>13, <1>14, <1>16, <1>17, <1>18, <1>19, CallInv, Zenon

\* What is known of the user of a call that has changed the record.
LEMMA AloneBefore ==
    ASSUME KeyInv, NEW t \in Thread, NEW w, w = req[t].user, UserOK(w), req[t].pc \in ChangingPCs
    PROVE  /\ \A o \in Thread \ {t} : req[o].user # w
           /\ req[t].pc \in {"negRemove", "cacheAdd"} => Entry(t) = storage[w]
           /\ req[t].pc \in {"success", "removeUser"} => cache[w] = none \/ cache[w] = storage[w]
           /\ req[t].pc \notin {"negRemove", "forgetNeg"} => w \notin negCache \/ storage[w] = none
<1>1. \A o \in Thread \ {t} : req[o].user # w
  BY Zenon DEF UserOK, AloneOK
<1>2. req[t].pc \in {"negRemove", "cacheAdd"} => Entry(t) = storage[w]
  BY Zenon DEF UserOK, ReadOK
<1>3. \A pcs : req[t].pc \notin pcs => NoneAt(w, pcs)
  BY <1>1, Zenon DEF NoneAt
<1>4. req[t].pc \in {"success", "removeUser"} => req[t].pc \notin {"negRemove", "cacheAdd", "forgetNeg", "forget"}
  OBVIOUS
<1>5. req[t].pc \in {"success", "removeUser"} => cache[w] = none \/ cache[w] = storage[w]
  BY <1>3, <1>4, Zenon DEF UserOK, KnownOK
<1>6. req[t].pc \notin {"negRemove", "forgetNeg"} => w \notin negCache \/ storage[w] = none
  BY <1>3, Zenon DEF UserOK, KnownOK
<1> QED
  BY <1>1, <1>2, <1>5, <1>6

\* A call that has changed the record goes on: the store is left alone.
LEMMA ChangedInv ==
    ASSUME KeyInv, NEW t \in Thread, NEW w \in User, w = req[t].user, Moves(t), ReqOK(t)',
           UNCHANGED <<keySetting, storage, touched>>, UNCHANGED made, LogOK', Grows,
           req'[t].user \in {w, nobody}, cache' \in [User -> Record], userCache' \in [User -> Record], Off(w),
           cache'[w] = none \/ cache'[w] = cache[w] \/ cache'[w].admin = isAdmin(w),
           w \in negCache' => w \in negCache,
           w \notin touched => UserOK(w)'
    PROVE  KeyInv'
<1>1. KeyTypeOK'
  BY DEF KeyInv, KeyTypeOK, Moves
<1>2. StorageOK(w)'
  <2>1. PICK n : n = storage[w].rec
    BY Zenon
  <2>2. StorageOK(w)
    BY Zenon DEF KeyInv
  <2>3. n = keySetting.users[w].rec \/ Attempted(w, n)'
    BY <2>1, <2>2, Zenon DEF StorageOK, Grows
  <2>4. n = storage'[w].rec
    BY <2>1, Zenon
  <2>5. storage'[w].rec = keySetting'.users[w].rec \/ Attempted(w, storage[w].rec)'
    BY <2>3, <2>4, Zenon
  <2>6. isAdmin(w)' = isAdmin(w)
    BY Zenon DEF isAdmin
  <2>7. cache'[w] # none => cache'[w].admin = isAdmin(w)
    BY <2>2, Zenon DEF StorageOK
  <2>8. storage'[w].admin = isAdmin(w) /\ (w \in negCache' => isAdmin(w) = FALSE)
    BY <2>2, Zenon DEF StorageOK
  <2> QED
    BY <2>5, <2>6, <2>7, <2>8, Zenon DEF StorageOK
<1>3. UNCHANGED keySetting /\ touched \subseteq touched' /\ touched' = touched
  OBVIOUS
<1> QED
  BY <1>1, <1>2, <1>3, CallInv, Zenon

\* The request of such a call.
LEMMA ChangedReq ==
    ASSUME KeyInv, NEW t \in Thread, req[t].pc \in ChangingPCs, NEW p \in PCs, Goto(t, p), UNCHANGED keySetting,
           p \notin {"idle", "store"}, p \in {"forgetNeg", "forget"} => ~Reliable
    PROVE  /\ Moves(t) /\ Kept(t) /\ req'[t].pc = p /\ ReqOK(t)' /\ Entry(t)' = Entry(t)
           /\ req'[t].user = req[t].user /\ req'[t].user \in {req[t].user, nobody}
<1>1. Moves(t) /\ Kept(t) /\ req'[t].pc = p /\ req'[t].got = req[t].got
  BY GotoMoves, Zenon DEF KeyInv
<1>2. ReqOK(t)
  BY DEF KeyInv
<1>3. req[t].pc \notin {"idle", "userCache", "lookup", "fetch"}
  BY DEF ChangingPCs
<1>4. req'[t].user = req[t].user /\ req'[t].ask = req[t].ask /\ req'[t].rec = req[t].rec
  BY <1>1 DEF Kept
<1>5. Entry(t)' = Entry(t)
  BY <1>1, <1>4, Zenon DEF Entry
<1>6. Reliable' <=> Reliable
  BY Zenon DEF Reliable
<1>7. isAdmin(req[t].user)' = isAdmin(req[t].user)
  BY <1>4, Zenon DEF isAdmin
<1>8. req'[t].user \in User /\ (Reliable' => req'[t].ask = TRUE) /\ req'[t].got.admin = isAdmin(req[t].user)'
  BY <1>1, <1>2, <1>3, <1>4, <1>6, <1>7, Zenon DEF ReqOK
<1>9. ReqOK(t)'
  BY <1>1, <1>6, <1>8, Zenon DEF ReqOK
<1> QED
  BY <1>1, <1>4, <1>5, <1>9, Zenon

\* After an error the caches forget the user.
LEMMA ForgetNegInv ==
    ASSUME KeyInv, NEW t \in Thread, ForgetNeg(t), UNCHANGED keySetting
    PROVE  KeyInv'
<1>1. req[t].pc = "forgetNeg" /\ req[t].pc # "idle" /\ req[t].pc \in ChangingPCs /\ "forget" \in PCs
  BY DEF ForgetNeg, ChangingPCs, PCs
<1>2. UNCHANGED <<keySetting, storage, touched>> /\ UNCHANGED made /\ UNCHANGED <<log, storedLog>> /\ UNCHANGED <<cache, userCache>>
  BY DEF ForgetNeg
<1>3. PICK w \in User : w = req[t].user
  BY <1>1, UserOfCall
<1>4. KeyTypeOK /\ LogOK /\ ~Reliable
  BY <1>1, UserOfCall, Zenon DEF ReqOK
<1>5. /\ Moves(t) /\ req'[t].pc = "forget" /\ ReqOK(t)'
      /\ req'[t].user = w /\ req'[t].user \in {w, nobody}
  BY <1>1, <1>3, <1>4, ChangedReq, Zenon DEF ForgetNeg
<1>6. LogOK' /\ Grows
  BY <1>2, <1>4, SameLog
<1>7. negCache' = negCache \ {w}
  BY <1>3 DEF ForgetNeg
<1>8. /\ Off(w) /\ cache'[w] = cache[w] /\ (w \in negCache' => w \in negCache) /\ w \notin negCache'
      /\ cache' \in [User -> Record] /\ userCache' \in [User -> Record]
  BY <1>2, <1>4, <1>7 DEF Off, KeyTypeOK
<1>9. ASSUME w \notin touched PROVE UserOK(w)'
  <2>1. UserOK(w)
    BY <1>9 DEF KeyInv
  <2>2. \A o \in Thread \ {t} : req[o].user # w
    BY <1>1, <1>3, <2>1, AloneBefore
  <2>3. /\ req'[t].pc \notin {"add", "addUser"} /\ req'[t].pc \notin {"negRemove", "cacheAdd"}
        /\ req'[t].pc \in {"negRemove", "cacheAdd", "forgetNeg", "forget"} /\ req'[t].pc \in ChangingPCs
    BY <1>5 DEF ChangingPCs
  <2> QED
    BY <1>5, <1>8, <2>2, <2>3, AloneAfter, Zenon
<1> QED
  BY <1>2, <1>3, <1>5, <1>6, <1>8, <1>9, ChangedInv, Zenon

\* Then the cache of records forgets them too.
LEMMA ForgetInv ==
    ASSUME KeyInv, NEW t \in Thread, Forget(t), UNCHANGED keySetting
    PROVE  KeyInv'
<1>1. req[t].pc = "forget" /\ req[t].pc # "idle" /\ req[t].pc \in ChangingPCs /\ req[t].pc \notin {"negRemove", "forgetNeg"}
  BY Zenon DEF Forget, ChangingPCs
<1>2. UNCHANGED <<keySetting, storage, touched>> /\ UNCHANGED made /\ UNCHANGED <<log, storedLog>> /\ UNCHANGED <<negCache, userCache>>
  BY Zenon DEF Forget
<1>3. PICK w \in User : w = req[t].user
  BY <1>1, UserOfCall, Zenon
<1>4. KeyTypeOK /\ LogOK /\ ~Reliable
  BY <1>1, UserOfCall, Zenon DEF ReqOK
<1>5. Moves(t) /\ req'[t].pc = "idle" /\ req'[t].user = nobody
  BY <1>4, ReturnMoves DEF Forget
<1>6. ReqOK(t)' /\ LogOK' /\ Grows
  BY <1>2, <1>4, <1>5, SameLog, IdleReq
<1>7. PICK g \in Record : g = none
  BY IdleShape
<1>8. cache' = [cache EXCEPT ![w] = g]
  BY <1>3, <1>7, Zenon DEF Forget
<1>9. /\ Off(w) /\ cache'[w] = g /\ (w \in negCache' => w \in negCache)
      /\ cache' \in [User -> Record] /\ userCache' \in [User -> Record]
  BY <1>2, <1>4, <1>8 DEF Off, KeyTypeOK
<1>10. ASSUME w \notin touched PROVE UserOK(w)'
  <2>1. UserOK(w)
    BY <1>10 DEF KeyInv
  <2>2. (\A o \in Thread \ {t} : req[o].user # w) /\ (w \notin negCache \/ storage[w] = none)
    BY <1>1, <1>3, <2>1, AloneBefore, Zenon
  <2>3. w \notin negCache' \/ storage'[w] = none
    BY <1>2, <2>2, Zenon
  <2>4. nobody # w /\ UNCHANGED keySetting
    BY <1>2, KeyAssumption, Zenon DEF nobody
  <2> QED
    BY <1>4, <1>5, <1>7, <1>9, <2>2, <2>3, <2>4, AloneAfter, Zenon
<1> QED
  BY <1>2, <1>3, <1>5, <1>6, <1>7, <1>9, <1>10, ChangedInv, Zenon

\* After success they know it.
LEMMA NegRemoveInv ==
    ASSUME KeyInv, NEW t \in Thread, NegRemove(t), UNCHANGED keySetting
    PROVE  KeyInv'
<1>1. req[t].pc = "negRemove" /\ req[t].pc # "idle" /\ req[t].pc \in ChangingPCs /\ "cacheAdd" \in PCs
  BY DEF NegRemove, ChangingPCs, PCs
<1>2. UNCHANGED <<keySetting, storage, touched>> /\ UNCHANGED made /\ UNCHANGED <<log, storedLog>> /\ UNCHANGED <<cache, userCache>>
  BY DEF NegRemove
<1>3. PICK w \in User : w = req[t].user
  BY <1>1, UserOfCall
<1>4. KeyTypeOK /\ LogOK
  BY <1>1, UserOfCall
<1>5. /\ Moves(t) /\ req'[t].pc = "cacheAdd" /\ ReqOK(t)' /\ Entry(t)' = Entry(t)
      /\ req'[t].user = w /\ req'[t].user \in {w, nobody}
  BY <1>1, <1>3, ChangedReq, Zenon DEF NegRemove
<1>6. LogOK' /\ Grows
  BY <1>2, <1>4, SameLog
<1>7. negCache' = negCache \ {w}
  BY <1>3 DEF NegRemove
<1>8. /\ Off(w) /\ cache'[w] = cache[w] /\ (w \in negCache' => w \in negCache) /\ w \notin negCache'
      /\ cache' \in [User -> Record] /\ userCache' \in [User -> Record]
  BY <1>2, <1>4, <1>7 DEF Off, KeyTypeOK
<1>9. ASSUME w \notin touched PROVE UserOK(w)'
  <2>1. UserOK(w)
    BY <1>9 DEF KeyInv
  <2>2. (\A o \in Thread \ {t} : req[o].user # w) /\ Entry(t) = storage[w]
    BY <1>1, <1>3, <2>1, AloneBefore, Zenon
  <2>3. /\ req'[t].pc \notin {"add", "addUser"} /\ Entry(t)' = storage'[w]
        /\ req'[t].pc \in {"negRemove", "cacheAdd", "forgetNeg", "forget"} /\ req'[t].pc \in ChangingPCs
    BY <1>2, <1>5, <2>2, Zenon DEF ChangingPCs
  <2> QED
    BY <1>5, <1>8, <2>2, <2>3, AloneAfter, Zenon
<1> QED
  BY <1>2, <1>3, <1>5, <1>6, <1>8, <1>9, ChangedInv, Zenon

\* The cache of records is told.
LEMMA CacheAddInv ==
    ASSUME KeyInv, NEW t \in Thread, CacheAdd(t), UNCHANGED keySetting
    PROVE  KeyInv'
<1>1. /\ req[t].pc = "cacheAdd" /\ req[t].pc # "idle" /\ req[t].pc \in ChangingPCs /\ "success" \in PCs
      /\ req[t].pc \notin {"negRemove", "forgetNeg"} /\ req[t].pc \notin {"idle", "userCache", "lookup", "fetch"}
  BY Zenon DEF CacheAdd, ChangingPCs, PCs
<1>2. UNCHANGED <<keySetting, storage, touched>> /\ UNCHANGED made /\ UNCHANGED <<log, storedLog>> /\ UNCHANGED <<negCache, userCache>>
  BY DEF CacheAdd
<1>3. PICK w \in User : w = req[t].user
  BY <1>1, UserOfCall
<1>4. KeyTypeOK /\ LogOK /\ ReqOK(t)
  BY <1>1, UserOfCall, Zenon
<1>5. /\ Moves(t) /\ req'[t].pc = "success" /\ ReqOK(t)'
      /\ req'[t].user = w /\ req'[t].user \in {w, nobody}
  BY <1>1, <1>3, ChangedReq, Zenon DEF CacheAdd
<1>6. LogOK' /\ Grows
  BY <1>2, <1>4, SameLog
<1>7. PICK e : e = Entry(t)
  OBVIOUS
<1>8. e \in Record /\ e.admin = isAdmin(w)
  <2>1. PICK a, n : a = req[t].got.admin /\ n = req[t].rec
    BY Zenon
  <2>2. a = isAdmin(w)
    BY <1>1, <1>3, <1>4, <2>1, Zenon DEF ReqOK
  <2>3. a \in BOOLEAN
    BY <1>1, <2>1, UserOfCall, Zenon DEF Record
  <2>4. n \in Int
    BY <1>4, <2>1 DEF KeyTypeOK, ReqType
  <2>5. e = [rec |-> n, admin |-> a]
    BY <1>7, <2>1, Zenon DEF Entry
  <2> QED
    BY <2>2, <2>3, <2>4, <2>5 DEF Record
<1>9. cache' = [cache EXCEPT ![w] = e]
  BY <1>3, <1>7, Zenon DEF CacheAdd
<1>10. /\ Off(w) /\ cache'[w] = e /\ (w \in negCache' => w \in negCache)
       /\ cache' \in [User -> Record] /\ userCache' \in [User -> Record]
  BY <1>2, <1>4, <1>8, <1>9 DEF Off, KeyTypeOK
<1>11. ASSUME w \notin touched PROVE UserOK(w)'
  <2>1. UserOK(w)
    BY <1>11 DEF KeyInv
  <2>2. (\A o \in Thread \ {t} : req[o].user # w) /\ Entry(t) = storage[w] /\ (w \notin negCache \/ storage[w] = none)
    BY <1>1, <1>3, <2>1, AloneBefore, Zenon
  <2>3. req'[t].pc \notin {"add", "addUser"} /\ req'[t].pc \notin {"negRemove", "cacheAdd"} /\ req'[t].pc \in ChangingPCs
    BY <1>5 DEF ChangingPCs
  <2>4. cache'[w] = storage'[w] /\ (w \notin negCache' \/ storage'[w] = none)
    BY <1>2, <1>7, <1>10, <2>2, Zenon
  <2> QED
    BY <1>5, <2>2, <2>3, <2>4, AloneAfter, Zenon
<1> QED
  BY <1>2, <1>3, <1>5, <1>6, <1>8, <1>10, <1>11, ChangedInv, Zenon

\* The success is logged.
LEMMA PutSuccessInv ==
    ASSUME KeyInv, NEW t \in Thread, PutSuccess(t), UNCHANGED keySetting
    PROVE  KeyInv'
<1>1. /\ req[t].pc = "success" /\ req[t].pc # "idle" /\ req[t].pc \in ChangingPCs /\ req[t].pc \in {"success", "removeUser"}
      /\ req[t].pc \notin {"negRemove", "forgetNeg"} /\ "removeUser" \in PCs /\ "return" \in PCs
  BY Zenon DEF PutSuccess, ChangingPCs, PCs
<1>2. UNCHANGED <<keySetting, storage, touched>> /\ UNCHANGED made /\ UNCHANGED <<cache, negCache, userCache>>
  BY DEF PutSuccess
<1>3. PICK w \in User, n \in Int : w = req[t].user /\ n = req[t].rec
  BY <1>1, UserOfCall DEF KeyTypeOK, ReqType
<1>4. KeyTypeOK /\ LogOK /\ ReqOK(t)
  BY <1>1, UserOfCall, Zenon
<1>5. /\ Off(w) /\ cache'[w] = cache[w] /\ (w \in negCache' => w \in negCache)
      /\ cache' \in [User -> Record] /\ userCache' \in [User -> Record]
  BY <1>2, <1>4 DEF Off, KeyTypeOK
<1>6. LogOK' /\ Grows
  <2>1. CASE UNCHANGED <<log, storedLog>>
    BY <1>4, <2>1, SameLog
  <2>2. CASE Extend(t, "success") /\ (storedLog' = log' \/ storedLog' = storedLog)
    BY <1>3, <1>4, <2>2, ExtendedLog, Zenon
  <2> QED
    BY <2>1, <2>2, Zenon DEF PutSuccess, Unpopulated
<1>7. ASSUME Moves(t), ReqOK(t)', req'[t].user \in {w, nobody}, req'[t].pc \in {"idle", "removeUser", "return"},
             (req'[t].user = w /\ req'[t].pc = "removeUser") \/ ~Reliable
      PROVE  KeyInv'
  <2>1. ASSUME w \notin touched PROVE UserOK(w)'
    <3>1. UserOK(w)
      BY <2>1 DEF KeyInv
    <3>2. /\ \A o \in Thread \ {t} : req[o].user # w
          /\ cache[w] = none \/ cache[w] = storage[w]
          /\ w \notin negCache \/ storage[w] = none
      BY <1>1, <1>3, <3>1, AloneBefore, Zenon
    <3>3. (cache'[w] = none \/ cache'[w] = storage'[w]) /\ (w \notin negCache' \/ storage'[w] = none) /\ UNCHANGED keySetting
      BY <1>2, <3>2
    <3>4. req'[t].pc \notin {"add", "addUser"} /\ req'[t].pc \notin {"negRemove", "cacheAdd"}
      BY <1>7
    <3>5. (req'[t].user = w /\ req'[t].pc \in ChangingPCs) \/ ~Reliable
      BY <1>7 DEF ChangingPCs
    <3> QED
      BY <1>7, <3>2, <3>3, <3>4, <3>5, AloneAfter, Zenon
  <2> QED
    BY <1>2, <1>3, <1>5, <1>6, <1>7, <2>1, ChangedInv, Zenon
<1>8. ASSUME Return(t), MayFail("log") PROVE KeyInv'
  <2>1. Moves(t) /\ req'[t].pc = "idle" /\ req'[t].user = nobody
    BY <1>4, <1>8, ReturnMoves, Zenon
  <2>2. ReqOK(t)'
    BY <2>1, IdleReq, Zenon
  <2>3. ~Reliable
    BY <1>8, Zenon DEF MayFail, Reliable
  <2> QED
    BY <1>7, <2>1, <2>2, <2>3, Zenon
<1>9. ASSUME NEW p \in PCs, Goto(t, p), p = "removeUser" \/ (p = "return" /\ ~req[t].ask) PROVE KeyInv'
  <2>1. /\ Moves(t) /\ req'[t].pc = p /\ ReqOK(t)'
        /\ req'[t].user = w /\ req'[t].user \in {w, nobody}
    BY <1>1, <1>3, <1>9, ChangedReq, Zenon
  <2>2. p = "return" => ~Reliable
    BY <1>1, <1>4, <1>9, Zenon DEF ReqOK
  <2> QED
    BY <1>7, <1>9, <2>1, <2>2, Zenon
<1>10. CASE Unpopulated(t)
  BY <1>8, <1>10 DEF Unpopulated
<1>11. CASE Goto(t, IF req[t].ask THEN "removeUser" ELSE "return")
  <2>1. PICK p \in PCs : p = IF req[t].ask THEN "removeUser" ELSE "return"
    BY <1>1
  <2>2. Goto(t, p)
    BY <1>11, <2>1, Zenon
  <2>3. p = "removeUser" \/ (p = "return" /\ ~req[t].ask)
    BY <2>1
  <2> QED
    BY <1>9, <2>2, <2>3
<1>12. CASE MayFail("log") /\ Return(t)
  BY <1>8, <1>12
<1> QED
  BY <1>10, <1>11, <1>12, Zenon DEF PutSuccess

\* The client's cache forgets the user.
LEMMA RemoveUserInv ==
    ASSUME KeyInv, NEW t \in Thread, RemoveUser(t), UNCHANGED keySetting
    PROVE  KeyInv'
<1>1. /\ req[t].pc = "removeUser" /\ req[t].pc # "idle" /\ req[t].pc \in ChangingPCs /\ req[t].pc \in {"success", "removeUser"}
      /\ req[t].pc \notin {"negRemove", "forgetNeg"} /\ "return" \in PCs
  BY Zenon DEF RemoveUser, ChangingPCs, PCs
<1>2. UNCHANGED <<keySetting, storage, touched>> /\ UNCHANGED made /\ UNCHANGED <<log, storedLog>> /\ UNCHANGED <<cache, negCache>>
  BY DEF RemoveUser
<1>3. PICK w \in User : w = req[t].user
  BY <1>1, UserOfCall, Zenon
<1>4. KeyTypeOK /\ LogOK
  BY <1>1, UserOfCall
<1>5. /\ Moves(t) /\ req'[t].pc = "return" /\ ReqOK(t)'
      /\ req'[t].user = w /\ req'[t].user \in {w, nobody}
  BY <1>1, <1>3, ChangedReq, Zenon DEF RemoveUser
<1>6. LogOK' /\ Grows
  BY <1>2, <1>4, SameLog
<1>7. PICK g \in Record : g = none
  BY IdleShape
<1>8. userCache' = [userCache EXCEPT ![w] = g]
  BY <1>3, <1>7, Zenon DEF RemoveUser
<1>9. /\ Off(w) /\ cache'[w] = cache[w] /\ (w \in negCache' => w \in negCache) /\ userCache'[w] = g
      /\ cache' \in [User -> Record] /\ userCache' \in [User -> Record]
  BY <1>2, <1>4, <1>8 DEF Off, KeyTypeOK
<1>10. ASSUME w \notin touched PROVE UserOK(w)'
  <2>1. UserOK(w)
    BY <1>10 DEF KeyInv
  <2>2. /\ \A o \in Thread \ {t} : req[o].user # w
        /\ cache[w] = none \/ cache[w] = storage[w]
        /\ w \notin negCache \/ storage[w] = none
    BY <1>1, <1>3, <2>1, AloneBefore, Zenon
  <2>3. (cache'[w] = none \/ cache'[w] = storage'[w]) /\ (w \notin negCache' \/ storage'[w] = none) /\ UNCHANGED keySetting
    BY <1>2, <2>2, Zenon
  <2>4. /\ req'[t].pc \notin {"add", "addUser"} /\ req'[t].pc \notin {"negRemove", "cacheAdd"}
        /\ userCache'[w] \in {none, config, storage'[w]}
    BY <1>5, <1>7, <1>9, Zenon
  <2> QED
    BY <1>5, <2>2, <2>3, <2>4, AloneAfter, Zenon
<1> QED
  BY <1>2, <1>3, <1>5, <1>6, <1>9, <1>10, ChangedInv, Zenon

-----------------------------------------------------------------------------
(* The other steps. *)

\* A call is made.
LEMMA BeginInv ==
    ASSUME KeyInv, NEW t \in Thread, NEW r \in keySetting.plan, Begin(t, r), UNCHANGED keySetting
    PROVE  KeyInv'
<1>1. KeyTypeOK /\ LogOK
  BY Zenon DEF KeyInv
<1>2. PICK w : w = r.user
  OBVIOUS
<1>3. /\ Moves(t) /\ req[t].user = nobody /\ w \in User
      /\ req'[t].user = w /\ req'[t].pc \in {"userCache", "lookup"} /\ req'[t].ask = r.ask
  BY <1>1, <1>2, BeginMoves, Zenon
<1>4. UNCHANGED <<log, storedLog>> /\ UNCHANGED <<storage, cache, negCache, userCache>>
  BY DEF Begin
<1>5. KeyTypeOK'
  <2>1. made' \in Nat
    BY <1>1 DEF Begin, KeyTypeOK
  <2> QED
    BY <1>1, <1>3, <1>4, <2>1, Zenon DEF KeyTypeOK, Moves
<1>6. LogOK' /\ Grows
  BY <1>1, <1>4, SameLog
<1>7. Off(w)
  BY <1>4, Zenon DEF Off
<1>8. ReqOK(t)'
  <2>1. /\ req'[t].pc # "idle" /\ req'[t].pc \in {"idle", "userCache", "lookup", "fetch"} /\ req'[t].pc # "store"
        /\ req'[t].pc \notin {"forgetNeg", "forget"} /\ req'[t].user \in User
    BY <1>3, Zenon
  <2>2. Reliable' => req'[t].ask = TRUE
    <3>1. r.ask \in BOOLEAN
      BY <1>1, KeyAssumption, Zenon DEF KeyTypeOK, Request
    <3>2. Reliable' => r.ask
      BY Zenon DEF Reliable
    <3> QED
      BY <1>3, <3>1, <3>2, Zenon
  <2> QED
    BY <2>1, <2>2, Zenon DEF ReqOK
<1>9. storage'[w] = storage[w] /\ cache'[w] = cache[w] /\ (w \in negCache' => w \in negCache) /\ userCache'[w] = userCache[w]
  BY <1>4, Zenon
<1>10. StorageOK(w)'
  BY <1>3, <1>6, <1>9, OtherStorage, Zenon
<1>11. touched \subseteq touched' /\ (w \notin touched' => ~Changing(w))
  BY <1>2 DEF Begin
<1>12. ASSUME w \notin touched' PROVE UserOK(w)'
  <2>1. UserOK(w)
    BY <1>3, <1>11, <1>12, Zenon DEF KeyInv
  <2>2. NoneAt(w, ChangingPCs)
    BY <1>11, <1>12, Zenon DEF Changing, NoneAt, ChangingPCs
  <2>3. /\ cache[w] = none \/ cache[w] = storage[w]
        /\ w \notin negCache \/ storage[w] = none
        /\ Reliable => userCache[w] \in {none, config, storage[w]}
    BY <1>3, <2>1, <2>2, QuietBefore, Zenon
  <2>4. /\ cache'[w] = none \/ cache'[w] = storage[w]
        /\ w \notin negCache' \/ storage[w] = none
    BY <1>9, <2>3, Zenon
  <2>5. Reliable => userCache'[w] \in {none, config, storage[w]}
    BY <1>9, <2>3, Zenon
  <2>6. req'[t].pc \notin ChangingPCs /\ req'[t].pc \notin {"add", "addUser"}
    BY <1>3 DEF ChangingPCs
  <2> QED
    BY <1>3, <1>9, <2>1, <2>2, <2>4, <2>5, <2>6, QuietAfter, Zenon
<1>13. req[t].user \in {w, nobody} /\ req'[t].user \in {w, nobody}
  BY <1>3
<1> QED
  BY <1>3, <1>5, <1>6, <1>7, <1>8, <1>10, <1>11, <1>12, <1>13, CallInv, Zenon

\* The caches forget, or the client's is told of the config.
LEMMA CachesInv ==
    ASSUME KeyInv, NEW u \in User, Evict(u) \/ ExpireUser(u) \/ DialUser(u), UNCHANGED keySetting
    PROVE  KeyInv'
<1>1. KeyTypeOK /\ LogOK
  BY DEF KeyInv
<1>2. UNCHANGED <<log, storedLog>> /\ UNCHANGED <<storage, req, made, touched>>
  BY Zenon DEF Evict, ExpireUser, DialUser
<1>3. PICK g \in Record, h \in Record : g = none /\ h = config
  BY IdleShape
<1>4. \/ cache' = [cache EXCEPT ![u] = g] /\ negCache' = negCache \ {u} /\ userCache' = userCache
      \/ cache' = cache /\ negCache' = negCache /\ userCache' = [userCache EXCEPT ![u] = g]
      \/ cache' = cache /\ negCache' = negCache /\ userCache' = [userCache EXCEPT ![u] = h]
  BY <1>3, Zenon DEF Evict, ExpireUser, DialUser
<1>5. /\ cache' \in [User -> Record] /\ userCache' \in [User -> Record]
      /\ \A v \in User : /\ cache'[v] = cache[v] \/ cache'[v] = g
                         /\ userCache'[v] \in {g, h, userCache[v]}
                         /\ v \in negCache' => v \in negCache
  BY <1>1, <1>4 DEF KeyTypeOK
<1>6. KeyTypeOK'
  BY <1>1, <1>2, <1>5, Zenon DEF KeyTypeOK
<1>7. LogOK' /\ Grows
  BY <1>1, <1>2, SameLog
<1>8. \A v \in User : StorageOK(v)'
  BY <1>2, <1>3, <1>5, <1>7, OtherStorage, Zenon
<1>9. ASSUME NEW v \in User \ touched' PROVE UserOK(v)'
  <2>1. UserOK(v)
    BY <1>2 DEF KeyInv
  <2>2. /\ storage'[v] = storage[v] /\ (cache'[v] = cache[v] \/ cache'[v] = none)
        /\ userCache'[v] \in {none, config, userCache[v]} /\ (v \in negCache' => v \in negCache)
        /\ \A o \in Thread : req'[o] = req[o]
    BY <1>2, <1>3, <1>5, Zenon
  <2> QED
    BY <2>1, <2>2, OtherUsers, Zenon
<1>10. \A o \in Thread : ReqOK(o)'
  <2>1. ASSUME NEW o \in Thread PROVE ReqOK(o)'
    <3>1. ReqOK(o) /\ storedLog' = storedLog
      BY <1>2 DEF KeyInv
    <3> QED
      BY <1>2, <3>1, Zenon DEF ReqOK, Reliable, isAdmin, Attempted
  <2> QED
    BY <2>1
<1> QED
  BY <1>6, <1>7, <1>8, <1>9, <1>10 DEF KeyInv

\* The server is started again.
LEMMA RestartInv ==
    ASSUME KeyInv, Restart, UNCHANGED keySetting
    PROVE  KeyInv'
<1>1. KeyTypeOK /\ LogOK
  BY DEF KeyInv
<1>2. UNCHANGED <<storage, storedLog, userCache, made, touched>> /\ log' = unread /\ negCache' = {}
  BY DEF Restart
<1>3. PICK g \in Record, i \in ReqType : g = none /\ i = Idle
  BY IdleShape
<1>4. /\ cache' \in [User -> Record] /\ req' \in [Thread -> ReqType]
      /\ \A u \in User : cache'[u] = g
      /\ \A t \in Thread : req'[t] = i
  BY <1>3 DEF Restart
<1>5. KeyTypeOK'
  BY <1>1, <1>2, <1>4 DEF KeyTypeOK
<1>6. LogOK' /\ Grows
  <2>1. Populated' = storedLog
    BY <1>2 DEF Populated
  <2>2. \A k \in 1..Len(storedLog) : storedLog[k].prev = k - 1
    BY <1>1 DEF LogOK
  <2>3. Len(storedLog) <= Len(storedLog)
    BY <1>1 DEF LogOK
  <2>4. LogOK'
    BY <1>1, <1>2, <2>1, <2>2, <2>3 DEF LogOK
  <2>5. Grows
    BY <1>2 DEF Grows, Attempted
  <2> QED
    BY <2>4, <2>5
<1>7. \A t \in Thread : ReqOK(t)' /\ req'[t].user = nobody
  <2>1. \A t \in Thread : req'[t].pc = "idle" /\ req'[t].user = nobody
    BY <1>3, <1>4, IdleShape
  <2> QED
    BY <2>1, IdleReq
<1>8. ASSUME NEW u \in User PROVE StorageOK(u)'
  <2>1. storage'[u] = storage[u] /\ cache'[u] = none /\ (u \in negCache' => u \in negCache)
    BY <1>2, <1>3, <1>4
  <2> QED
    BY <1>6, <2>1, OtherStorage
<1>9. ASSUME NEW u \in User PROVE UserOK(u)'
  <2>1. u # nobody
    BY KeyAssumption DEF nobody
  <2>2. \A t \in Thread : req'[t].user # u
    BY <1>7, <2>1
  <2>3. AloneOK(u)' /\ ReadOK(u)'
    BY <2>2, Zenon DEF AloneOK, ReadOK
  <2>4. ~Reliable'
    BY Zenon DEF Restart, MayFail, Reliable
  <2>5. cache'[u] = none /\ u \notin negCache'
    BY <1>2, <1>3, <1>4
  <2>6. KnownOK(u)'
    BY <2>4, <2>5, Zenon DEF KnownOK
  <2> QED
    BY <2>3, <2>6 DEF UserOK
<1> QED
  BY <1>5, <1>6, <1>7, <1>8, <1>9 DEF KeyInv

-----------------------------------------------------------------------------
(* The theorems. *)

\* A server that has just been started.
LEMMA KeyInitInv ==
    ASSUME KeyInit
    PROVE  KeyInv
<1>1. PICK g \in Record, i \in ReqType : g = none /\ i = Idle
  BY IdleShape
<1>2. keySetting \in KeySettings /\ keySetting.users \in [User -> Record] /\ storage = keySetting.users
  BY KeyAssumption DEF KeyInit
<1>3. /\ cache \in [User -> Record] /\ userCache \in [User -> Record] /\ req \in [Thread -> ReqType]
      /\ \A u \in User : cache[u] = g /\ userCache[u] = g
      /\ \A t \in Thread : req[t] = i
      /\ negCache = {} /\ made = 0
  BY <1>1 DEF KeyInit
<1>4. KeyTypeOK
  BY <1>2, <1>3, Zenon DEF KeyTypeOK
<1>5. LogOK
  <2>1. storedLog = << >> /\ Populated = << >>
    BY DEF KeyInit, Populated
  <2> QED
    BY <2>1 DEF LogOK
<1>6. \A t \in Thread : req[t].pc = "idle" /\ req[t].user = nobody
  BY <1>1, <1>3, IdleShape, Zenon
<1>7. \A t \in Thread : ReqOK(t)
  BY <1>6, Zenon DEF ReqOK
<1>8. \A u \in User : StorageOK(u)
  BY <1>1, <1>2, <1>3, Zenon DEF StorageOK, isAdmin
<1>9. ASSUME NEW u \in User PROVE UserOK(u)
  <2>1. u # nobody
    BY KeyAssumption DEF nobody
  <2>2. \A t \in Thread : req[t].user # u
    BY <1>6, <2>1, Zenon
  <2>3. AloneOK(u) /\ ReadOK(u)
    BY <2>2, Zenon DEF AloneOK, ReadOK
  <2>4. KnownOK(u)
    BY <1>1, <1>3, Zenon DEF KnownOK
  <2> QED
    BY <2>3, <2>4 DEF UserOK
<1> QED
  BY <1>4, <1>5, <1>7, <1>8, <1>9 DEF KeyInv

\* Nothing changes.
LEMMA KeyStutter ==
    ASSUME KeyInv, UNCHANGED <<keySetting, keyVars>>
    PROVE  KeyInv'
<1>1. UNCHANGED <<keySetting, storage, storedLog, log, cache, negCache, userCache, req, made, touched>>
  BY DEF keyVars
<1>2. KeyTypeOK'
  BY <1>1 DEF KeyInv, KeyTypeOK
<1>3. LogOK' /\ Grows
  BY <1>1, SameLog DEF KeyInv
<1>4. ASSUME NEW u \in User PROVE StorageOK(u)'
  BY <1>1, <1>3, OtherStorage, Zenon
<1>5. ASSUME NEW u \in User \ touched' PROVE UserOK(u)'
  <2>1. UserOK(u)
    BY <1>1 DEF KeyInv
  <2>2. userCache'[u] \in {none, config, userCache[u]} /\ storage'[u] = storage[u] /\ cache'[u] = cache[u]
    BY <1>1
  <2> QED
    BY <1>1, <2>1, <2>2, OtherUsers, Zenon
<1>6. ASSUME NEW t \in Thread PROVE ReqOK(t)'
  <2>1. ReqOK(t)
    BY DEF KeyInv
  <2> QED
    BY <1>1, <2>1, Zenon DEF ReqOK, Reliable, isAdmin, Attempted
<1> QED
  BY <1>2, <1>3, <1>4, <1>5, <1>6 DEF KeyInv

\* Every step preserves the invariant.
LEMMA KeyNextInv ==
    ASSUME KeyInv, KeyNext
    PROVE  KeyInv'
<1>1. UNCHANGED keySetting
  BY DEF KeyNext
<1>2. ASSUME NEW t \in Thread, Serve(t) PROVE KeyInv'
  BY <1>1, <1>2, AskUserCacheInv, LookupInv, FetchInv, AddInv, AddUserInv, canPutInv, PutAttemptInv, StoreInv,
     ForgetNegInv, ForgetInv, NegRemoveInv, CacheAddInv, PutSuccessInv, RemoveUserInv, DoneInv, Zenon DEF Serve
<1>3. ASSUME NEW t \in Thread, NEW r \in keySetting.plan, Begin(t, r) PROVE KeyInv'
  BY <1>1, <1>3, BeginInv, Zenon
<1>4. ASSUME NEW u \in User, Evict(u) \/ ExpireUser(u) \/ DialUser(u) PROVE KeyInv'
  BY <1>1, <1>4, CachesInv
<1>5. CASE Restart
  BY <1>1, <1>5, RestartInv
<1> QED
  BY <1>2, <1>3, <1>4, <1>5, Zenon DEF KeyNext

\* The key server keeps the invariant, whatever calls are made, and whatever fails.
THEOREM KeyInvariant == KeySpec => []KeyInv
<1>1. KeyInit => KeyInv
  BY KeyInitInv
<1>2. KeyInv /\ [KeyNext]_<<keySetting, keyVars>> => KeyInv'
  BY KeyNextInv, KeyStutter
<1> QED
  BY <1>1, <1>2, PTL DEF KeySpec

\* Every change of the store was announced in the stored log (PutAttempt before
\* putUserEntry), and the caches say what the store says of a user whom no two calls
\* dealt with while their record changed (lookup, Put).
THEOREM KeyServerAlwaysRight == KeySpec => []KeyServerIsRight
<1>1. ASSUME KeyInv PROVE ChangesAreLogged
  <2>1. ASSUME NEW u \in User
        PROVE  /\ storage[u].rec \in {keySetting.users[u].rec} \cup
                     {storedLog[i].rec : i \in {j \in DOMAIN storedLog : storedLog[j].kind = "attempt" /\ storedLog[j].user = u}}
               /\ storage[u].admin = keySetting.users[u].admin
    <3>1. StorageOK(u)
      BY <1>1 DEF KeyInv
    <3>2. DOMAIN storedLog = 1..Len(storedLog)
      BY <1>1 DEF KeyInv, LogOK
    <3>3. CASE storage[u].rec = keySetting.users[u].rec
      BY <3>1, <3>3, Zenon DEF StorageOK, isAdmin
    <3>4. CASE Attempted(u, storage[u].rec)
      <4>1. PICK i \in DOMAIN storedLog : storedLog[i].kind = "attempt" /\ storedLog[i].user = u /\ storedLog[i].rec = storage[u].rec
        BY <3>2, <3>4, Zenon DEF Attempted
      <4> QED
        BY <3>1, <4>1, Zenon DEF StorageOK, isAdmin
    <3> QED
      BY <3>1, <3>3, <3>4, Zenon DEF StorageOK
  <2>2. ASSUME NEW i \in DOMAIN storedLog PROVE storedLog[i].prev = i - 1
    <3>1. LogOK
      BY <1>1 DEF KeyInv
    <3>2. i \in 1..Len(storedLog) /\ i \in 1..Len(Populated)
      BY <3>1 DEF LogOK
    <3> QED
      BY <3>1, <3>2 DEF LogOK
  <2> QED
    BY <2>1, <2>2, Zenon DEF ChangesAreLogged
<1>2. ASSUME KeyInv PROVE KeyCachesAgree
  <2> SUFFICES ASSUME NEW u \in User \ touched, \A t \in Thread : req[t].user # u
               PROVE  /\ cache[u] # none => cache[u] = storage[u]
                      /\ u \in negCache => storage[u] = none
                      /\ Reliable => userCache[u] \in {none, config, storage[u]}
    BY Zenon DEF KeyCachesAgree, Reliable
  <2>1. UserOK(u)
    BY <1>2 DEF KeyInv
  <2>2. \A pcs : NoneAt(u, pcs)
    BY Zenon DEF NoneAt
  <2> QED
    BY <2>1, <2>2, Zenon DEF UserOK, KnownOK
<1>3. KeyInv => KeyServerIsRight
  BY <1>1, <1>2 DEF KeyServerIsRight
<1> QED
  BY <1>3, KeyInvariant, PTL
\* The stored log is only added to.
LogGrows ==
    Len(storedLog) <= Len(storedLog') /\ \A i \in 1..Len(storedLog) : storedLog'[i] = storedLog[i]

\* A record is added at the end.
LEMMA ExtendGrows ==
    ASSUME LogOK, NEW t \in Thread, NEW kind, Extend(t, kind), storedLog' = log'
    PROVE  LogGrows
<1>1. PICK p, q, e : p = Populated /\ q = storedLog /\ e = LogRecord(t, kind)
  BY Zenon
<1>2. p \in Seq(LogType) /\ q \in Seq(LogType) /\ Len(q) <= Len(p) /\ \A i \in 1..Len(q) : p[i] = q[i]
  BY <1>1 DEF LogOK
<1>3. PICK l : l = Append(p, e)
  BY Zenon
<1>4. Len(p) \in Nat /\ Len(q) \in Nat
  BY <1>2
<1>5. Len(l) = Len(p) + 1 /\ \A i \in 1..Len(p) : l[i] = p[i]
  BY <1>2, <1>3
<1>6. Len(q) <= Len(l) /\ \A i \in 1..Len(q) : i \in 1..Len(p)
  BY <1>2, <1>4, <1>5
<1>7. \A i \in 1..Len(q) : l[i] = q[i]
  BY <1>2, <1>5, <1>6
<1>8. storedLog' = l
  BY <1>1, <1>3, Zenon DEF Extend
<1> QED
  BY <1>1, <1>6, <1>7, <1>8, Zenon DEF LogGrows

\* No step takes back or changes what the stored log says, not even a restart after a
\* write that failed (put of key/server/log.go writes the whole log each time).
THEOREM StoredLogOnlyGrows == KeySpec => [][LogGrows]_<<keySetting, keyVars>>
<1>1. ASSUME KeyInv, storedLog' = storedLog PROVE LogGrows
  <2>1. Len(storedLog) <= Len(storedLog)
    BY <1>1 DEF KeyInv, LogOK
  <2> QED
    BY <1>1, <2>1, Zenon DEF LogGrows
<1>2. ASSUME KeyInv, NEW t \in Thread, PutAttempt(t) \/ PutSuccess(t) PROVE LogGrows
  <2>1. storedLog' = storedLog \/ (storedLog' = log' /\ (Extend(t, "attempt") \/ Extend(t, "success")))
    BY <1>2, Zenon DEF PutAttempt, PutSuccess, Unpopulated
  <2>2. LogOK
    BY <1>2, Zenon DEF KeyInv
  <2> QED
    BY <1>1, <1>2, <2>1, <2>2, ExtendGrows, Zenon
<1>3. ASSUME NEW t \in Thread, Serve(t) PROVE PutAttempt(t) \/ PutSuccess(t) \/ storedLog' = storedLog
  BY <1>3, Zenon DEF Serve, AskUserCache, Lookup, Fetch, Add, AddUser, canPut, Store, ForgetNeg, Forget, NegRemove, CacheAdd,
     RemoveUser, Done
<1>4. KeyInv /\ [KeyNext]_<<keySetting, keyVars>> => LogGrows
  <2> SUFFICES ASSUME KeyInv, [KeyNext]_<<keySetting, keyVars>> PROVE LogGrows
    BY Zenon
  <2>1. ASSUME NEW t \in Thread, Serve(t) PROVE LogGrows
    BY <1>1, <1>2, <1>3, <2>1, Zenon
  <2>2. ASSUME NEW t \in Thread, NEW r \in keySetting.plan, Begin(t, r) PROVE LogGrows
    BY <1>1, <2>2, Zenon DEF Begin
  <2>3. ASSUME NEW u \in User, Evict(u) \/ ExpireUser(u) \/ DialUser(u) PROVE LogGrows
    BY <1>1, <2>3, Zenon DEF Evict, ExpireUser, DialUser
  <2>4. CASE Restart
    BY <1>1, <2>4, Zenon DEF Restart
  <2>5. CASE UNCHANGED <<keySetting, keyVars>>
    BY <1>1, <2>5, Zenon DEF keyVars
  <2> QED
    BY <2>1, <2>2, <2>3, <2>4, <2>5, Zenon DEF KeyNext
<1> QED
  BY <1>4, KeyInvariant, PTL DEF KeySpec
=============================================================================
