------------------------------ MODULE DirCache ------------------------------
(***************************************************************************)
(* The directory cache (dir/dircache): a proxy between the clients of one  *)
(* user and the DirServer that holds a user's tree.                        *)
(*                                                                         *)
(* It keeps what it learns in an LRU and in log files that survive a       *)
(* restart: entries, errors that say that a name does not exist, and for a *)
(* directory the names in it, if they are known to be all of them, and the *)
(* Access file that pertains to it.  A watcher follows the changes of the  *)
(* server.  Requests and the watcher share the global lock, so they        *)
(* interleave at each change of the LRU.                                   *)
(***************************************************************************)
EXTENDS Paths, Integers, FiniteSets

S == INSTANCE SequencesExt

CONSTANTS
    Client,
    Name,        \* path names below the root
    Dirs,        \* the names that are directories
    Links,       \* the names that are links
    Settings,    \* what happens, see below
    watcher      \* the watcher, as a thread next to the clients

\* A setting has the tree at the start, the requests that each client makes (plan)
\* and their number (max), the names that others change (names) and how often
\* (foreign), and what else happens (ops):
\*   fail      a request fails after the server has executed it
\*   evict     the LRU is full and evicts
\*   restart   the cache crashes and restarts
\*   rotate    log files are rotated at a size, rotateAt
\*   trim      and only so many are kept: keep
\*   truncate  the server truncates its log
\*   close     the event stream breaks
\*   move      the tree moves to another endpoint
\*   down      Watch fails; nowatch: the server does not support it
\* others says that the tree is another user's than the client's, unread that
\* the client may not read its Access files, so that the server's entries for
\* them are incomplete, and bucket gives each directory its lock among the
\* hashed ones.
ASSUME DirCacheAssumption ==
    /\ \A n \in Name : n # Root /\ Parent(n) \in Dirs \cup Links \cup {Root}
    /\ Dirs \subseteq Name /\ Links \subseteq Name \ Dirs
    /\ \A s \in Settings : s.max \in Nat /\ s.foreign \in Nat

VARIABLES
    setting,    \* one of Settings; it never changes
    srv,        \* the server's tree: the version of each name, 0 if it is not there
    events,     \* the changes of the tree: the server's log
    oldest,     \* the order from which the server's log can be read
    lru,        \* the LRU: <<name, isGlob>> -> entry
    logs,       \* the log files, a sequence of sequences of records
    unflushed,  \* how many records of the last file are still in the buffer
    prox,       \* the proxiedDir and its watcher
    proxLock,   \* the thread that holds the lock of proxiedDirs
    call,       \* the request that each client has made
    todo,       \* the updates of the LRU that each thread has still to make
    held,       \* the hashed locks that are held from one update to the next
    used,       \* how many requests, changes and faults there were
    raced,      \* names that changed while a request about them was under way
    late,       \* names whose Put was recorded after the event about it
    drift       \* the log replays to something else than the LRU; a restart has lost that

vars == <<srv, events, oldest, lru, logs, unflushed, prox, proxLock, call, todo, held, used, raced, late, drift>>
server == <<srv, events, oldest>>
disk == <<logs, unflushed>>

Thread == Client \cup {watcher}
Happens(what) == what \in setting.ops
IsAccess(n) == n # Root /\ S!Last(n) = "Access"
Kids(d) == {n \in Name : Parent(n) = d}

noAccessFile == <<"none">>
unknownAccessFile == << >>
Entry(req, name, err, ver) ==
    [req |-> req, name |-> name, err |-> err, ver |-> ver, de |-> name, children |-> {},
     complete |-> FALSE, access |-> unknownAccessFile, order |-> 0]

NoCall == [pc |-> "idle", op |-> "Lookup", name |-> Root, ep |-> 1]
NoWatch(order) == [pc |-> "none", ep |-> 1, order |-> order, stream |-> << >>, next |-> 0, die |-> FALSE]

Init ==
    /\ setting \in Settings
    /\ events = [i \in 1..Len(setting.tree) |-> [name |-> setting.tree[i], ver |-> i]]
    /\ srv = [n \in Name |-> IF \E i \in 1..Len(setting.tree) : setting.tree[i] = n
                              THEN CHOOSE i \in 1..Len(setting.tree) : setting.tree[i] = n ELSE 0]
    /\ oldest = 0
    /\ lru = [k \in {} |-> 0]
    /\ logs = << << >> >>
    /\ unflushed = 0
    /\ prox = NoWatch(0)
    /\ proxLock = {}
    /\ call = [c \in Client |-> NoCall]
    /\ todo = [t \in Thread |-> << >>]
    /\ held = {}
    /\ used = [requests |-> 0, foreign |-> 0, faults |-> 0]
    /\ raced = {}
    /\ late = {}
    /\ drift = "no"

-----------------------------------------------------------------------------
(* The LRU, as functions of its contents l. *)

\* getFromLRU: nothing if the entry is obsolete.
Has(l, k) == k \in DOMAIN l /\ l[k].req # "obsolete"
HasGlob(l, d) == Has(l, <<d, TRUE>>)
HasDe(l, n) == Has(l, <<n, FALSE>>) /\ l[<<n, FALSE>>].err = "none"

addToLRU(l, e) == [k \in DOMAIN l \cup {<<e.name, e.req = "glob">>} |->
                      IF k = <<e.name, e.req = "glob">> THEN e ELSE l[k]]
removeFromLRU(l, n) == [k \in DOMAIN l \ {<<n, TRUE>>, <<n, FALSE>>} |-> l[k]]

GlobOf(l, d) == IF HasGlob(l, d) THEN l[<<d, TRUE>>] ELSE Entry("glob", d, "none", 0)
addToGlob(l, n) ==
    IF n = Root THEN l
    ELSE addToLRU(l, [GlobOf(l, Parent(n)) EXCEPT !.children = @ \cup {n}])
removeFromGlob(l, n) ==
    IF n = Root \/ ~HasGlob(l, Parent(n)) THEN l
    ELSE addToLRU(l, [GlobOf(l, Parent(n)) EXCEPT !.children = @ \ {n}])

invalidate(e) == IF e.req = "glob" THEN [e EXCEPT !.complete = FALSE] ELSE [e EXCEPT !.req = "obsolete"]

\* After a Put the cache keeps the client's entry, whose Sequence is what the
\* client asked for (SeqIgnore or SeqNotExist) and not the one the server gave
\* it.  The version of such an entry is negative.
FromServer(ver) == ver > 0

\* changeAccess runs over the whole LRU with the global lock held.
changeAccess(l, access, add) ==
    LET a == access.name
        dir == Parent(a)
        unreadable == ~add \/ (setting.unread /\ FromServer(access.ver))
        newval == IF add THEN a ELSE unknownAccessFile
        Changed(e) ==
            IF ~HasPrefix(e.name, dir) THEN e
            ELSE IF e.name = dir
            THEN [e EXCEPT !.access = newval, !.complete = @ /\ ~setting.others]
            ELSE IF Parent(e.name) = dir
            THEN LET c == [e EXCEPT !.access = newval]
                 IN  IF setting.others /\ unreadable THEN invalidate(c) ELSE c
            ELSE IF Len(e.access) > Len(a) THEN e
            ELSE LET c == [e EXCEPT !.access = unknownAccessFile]
                 IN  IF setting.others THEN invalidate(c) ELSE c
    IN  [k \in DOMAIN l |-> Changed(l[k])]

\* addAccess changes nothing if the Access file in the LRU has this Sequence.
SameSequence(v, x) == v = x \/ ~(FromServer(v) \/ FromServer(x))
addAccess(l, e) ==
    IF IsAccess(e.name) /\ ~(HasDe(l, e.name) /\ e.err = "none" /\ SameSequence(l[<<e.name, FALSE>>].ver, e.ver))
    THEN changeAccess(l, e, TRUE) ELSE l
removeAccess(l, e) == IF IsAccess(e.name) THEN changeAccess(l, e, FALSE) ELSE l

\* The directory of a WhichAccess request learns its answer.
setAccess(l, e) ==
    addToLRU(l, [GlobOf(l, Parent(e.name)) EXCEPT !.access = IF e.ver = 0 THEN noAccessFile ELSE e.de])

\* updateLRU in phases; other threads may run between them.  The last one is
\* the second of a WhichAccess request for a directory that was not there.
updateLRU(l, phase, e) ==
    CASE e.err = "link" ->
             (CASE phase = 1 -> addToLRU(l, [e EXCEPT !.req = "lookup"])
                [] phase = 2 -> addToGlob(l, e.name)
                [] OTHER -> l)
      [] e.err = "notExist" \/ e.req = "delete" ->
             (CASE phase = 1 -> removeFromLRU(l, e.name)
                [] phase = 2 -> removeFromGlob(l, e.name)
                [] phase = 3 -> IF e.err = "notExist"
                                THEN addToLRU(removeAccess(l, e), [e EXCEPT !.req = "lookup"])
                                ELSE removeAccess(l, e)
                [] OTHER -> l)
      [] e.err = "none" /\ e.req \in {"put", "lookup", "glob"} ->
             (CASE phase = 1 -> addToLRU(l, e)
                [] phase = 2 -> addToGlob(l, e.name)
                [] phase = 3 -> addAccess(l, e)
                [] OTHER -> l)
      [] e.err = "none" /\ e.req = "which" ->
             (CASE phase = 1 -> IF e.ver # 0 THEN addAccess(l, Entry("lookup", e.de, "none", e.ver)) ELSE l
                [] phase = 2 -> setAccess(l, e)
                [] phase = 4 -> addToGlob(l, Parent(e.name))
                [] OTHER -> l)
      [] OTHER -> l

\* A record has no Access file, and one with an entry (a version) is read as a
\* record about the name of that entry.
marshal(e) == [e EXCEPT !.access = unknownAccessFile]
unmarshal(e) == IF e.ver # 0 THEN [e EXCEPT !.name = e.de] ELSE e

\* readLogFile: the names in a directory are those read so far.
Replayed(l, record) ==
    LET e == unmarshal(record)
        r == IF e.req = "glob" THEN [e EXCEPT !.children = GlobOf(l, e.name).children] ELSE e
        made == e.req = "which" /\ ~HasGlob(l, Parent(e.name))
        done == updateLRU(updateLRU(updateLRU(l, 1, r), 2, r), 3, r)
    IN  IF made THEN updateLRU(done, 4, r) ELSE done

\* The records of the log files, the oldest file first.
Ascending(files) == S!FlattenSeq(files)

Empty == [k \in {} |-> 0]
Replay(records) == S!FoldLeft(Replayed, Empty, records)
LastOrder(records) == S!FoldLeft(LAMBDA o, e : IF e.order # 0 THEN e.order ELSE o, 0, records)

-----------------------------------------------------------------------------
(* What the LRU answers. *)

Valid(l, ge) == ge.complete /\ \A n \in ge.children : HasDe(l, n)

\* clog.lookup, whose two looks are at different moments.
InLRU(l, n) == Has(l, <<n, FALSE>>)
KnownAbsent(l, n) ==
    HasGlob(l, Parent(n)) /\ Valid(l, GlobOf(l, Parent(n))) /\ n \notin GlobOf(l, Parent(n)).children

\* clog.lookupGlob
GlobKnown(l, d) == HasGlob(l, d) /\ Valid(l, GlobOf(l, d))

\* clog.whichAccess: up to the first directory that is known to have one.
PertinentIn(l, d) == IF HasGlob(l, d) THEN GlobOf(l, d).access ELSE unknownAccessFile
Walked(l, n) ==
    {d \in Ancestors(n) : \A q \in Ancestors(n) : Len(d) < Len(q) => PertinentIn(l, q) = noAccessFile}
AccessKnown(l, n) ==
    LET d == CHOOSE x \in Walked(l, n) : \A y \in Walked(l, n) : Len(x) <= Len(y)
        a == PertinentIn(l, d)
    IN  CASE a = unknownAccessFile -> unknownAccessFile
          [] a = noAccessFile -> noAccessFile
          [] OTHER -> IF HasDe(l, a) THEN a ELSE unknownAccessFile

-----------------------------------------------------------------------------
(* The server. *)

Exists(n) == n \in Name => srv[n] # 0
CanPut(n) == Parent(n) \notin Links /\ Exists(Parent(n)) /\ (n \in Dirs => ~Exists(n))
CanDelete(n) == Exists(n) /\ \A k \in Kids(n) : ~Exists(k)

\* The Access file that pertains to n.
AccessFiles(n) == {a \in Name : IsAccess(a) /\ Exists(a) /\ HasPrefix(n, Parent(a))}
Pertinent(n) ==
    IF AccessFiles(n) = {} THEN noAccessFile
    ELSE CHOOSE a \in AccessFiles(n) : \A b \in AccessFiles(n) : Len(b) <= Len(a)

\* A change is raced by a request that has its answer and has not recorded it,
\* until the next change of the name.
Concerns(r, n) ==
    \/ r.name = n
    \/ r.op \in {"Glob", "Put"} /\ Parent(n) = r.name
    \/ r.op = "WhichAccess" /\ IsAccess(n) /\ HasPrefix(r.name, Parent(n))
Change(c, n, ver) ==
    /\ srv' = [srv EXCEPT ![n] = ver]
    /\ events' = Append(events, [name |-> n, ver |-> ver])
    /\ raced' = IF \E o \in Client \ {c} : call[o].pc = "log" /\ Concerns(call[o], n)
                THEN raced \cup {n} ELSE raced \ {n}

\* Others change the tree, and truncate the log.
Foreign(n) ==
    /\ used.foreign < setting.foreign
    /\ used' = [used EXCEPT !.foreign = @ + 1]
    /\ \/ CanPut(n) /\ Change(watcher, n, Len(events) + 1)
       \/ CanDelete(n) /\ Change(watcher, n, 0)
    /\ UNCHANGED <<oldest, lru, disk, prox, proxLock, call, todo, held, late, drift>>

Truncate ==
    /\ Happens("truncate")
    /\ oldest' = Len(events)
    /\ oldest' # oldest
    /\ UNCHANGED <<srv, events, lru, disk, prox, proxLock, call, todo, held, used, raced, late, drift>>

-----------------------------------------------------------------------------
(* The log files. *)

\* appendToLogFile.  Only a restart reads the log; without one it is not kept.
Logged(es) ==
    IF Happens("restart")
    THEN logs' = [logs EXCEPT ![Len(logs)] = @ \o es] /\ unflushed' = unflushed + Len(es)
    ELSE UNCHANGED disk

\* What the LRU forgets without a record, or the log by removing a file.
Drift(happens) == drift' = IF happens /\ drift = "no" THEN "yes" ELSE drift

\* logRequest: an error other than NotExist or a link is not remembered, and a
\* new directory is known to be empty.  The phases that change nothing are left
\* out: the third is about Access files and names that do not exist.
Phases(e) ==
    << <<1, e>>, <<2, e>> >>
    \o (IF IsAccess(e.name) \/ e.err = "notExist" THEN << <<3, e>> >> ELSE << >>)
logRequest(e) ==
    IF e.err = "io" THEN << >>
    ELSE << <<0, e>> >> \o Phases(e)
         \o (IF e.req = "put" /\ e.name \in Dirs
             THEN LET g == [Entry("glob", e.name, "none", 0) EXCEPT !.complete = TRUE]
                  IN  << <<0, g>> >> \o Phases(g)
             ELSE << >>)

\* logGlobRequest: first every entry, then the listing.
logGlobRequest(d, err, kids) ==
    S!FlattenSeq([i \in 1..Cardinality(kids) |->
                     logRequest(Entry("lookup", S!SetToSeq(kids)[i], err, srv[S!SetToSeq(kids)[i]]))])
    \o LET g == [Entry("glob", d, err, 0) EXCEPT !.complete = TRUE, !.children = kids \ {d}]
       IN  << <<-1, g>> >> \o Phases(g)

\* Between two updates a thread holds the global lock, shared.  changeAccess
\* gives it up and waits for the exclusive lock.
Waits(l, phase, e) ==
    \/ phase = 3 /\ IsAccess(e.name) /\ updateLRU(l, 3, e) # l
    \/ phase = 1 /\ e.req = "which" /\ updateLRU(l, 1, e) # l
Reads(t) == todo[t] # << >> /\ Head(todo[t])[1] > 0 /\ ~Waits(lru, Head(todo[t])[1], Head(todo[t])[2])
Alone(t) == \A o \in Thread \ {t} : ~Reads(o)

\* The lock of a directory is free.
Free(d) == setting.bucket[d] \notin held

\* A listing first forgets the names that have disappeared.
Forgotten(l, e) ==
    LET gone == GlobOf(l, e.name).children \ e.children
    IN  [k \in {x \in DOMAIN l : x[1] \notin gone} |-> l[k]]

\* A thread makes its next update; after the last a request returns.  A WhichAccess request that makes a
\* directory keeps its lock while it adds the directory to its parent.
Update(t) ==
    LET phase == Head(todo[t])[1]
        e == Head(todo[t])[2]
        makes == phase = 2 /\ e.req = "which" /\ e.err = "none" /\ ~HasGlob(lru, Parent(e.name))
        lockOf == IF phase = -1 THEN e.name ELSE Parent(IF phase = 4 THEN Parent(e.name) ELSE e.name)
    IN  /\ todo[t] # << >>
        /\ phase \in {-1, 2, 4} => Free(lockOf)
        /\ Waits(lru, phase, e) => Alone(t)
        /\ todo' = [todo EXCEPT ![t] = (IF makes /\ Parent(e.name) # Root THEN << <<4, e>> >> ELSE << >>) \o Tail(@)]
        /\ held' = IF makes /\ Parent(e.name) # Root THEN held \cup {setting.bucket[Parent(e.name)]}
                   ELSE IF phase = 4 THEN held \ {setting.bucket[Parent(e.name)]} ELSE held
        /\ lru' = IF phase = -1 THEN Forgotten(lru, e) ELSE updateLRU(lru, phase, e)
        /\ IF phase \in {-1, 0} THEN Logged(<<marshal(e)>>) ELSE UNCHANGED disk
        /\ call' = IF t \in Client /\ todo'[t] = << >> THEN [call EXCEPT ![t] = NoCall] ELSE call
        /\ UNCHANGED <<server, prox, proxLock, used, raced, late, drift>>

\* rotateLog flushes, starts a file and removes old ones.
Rotate ==
    /\ Happens("rotate")
    /\ Len(S!Last(logs)) >= setting.rotateAt
    /\ LET trims == Happens("trim") /\ Len(logs) = setting.keep
       IN  /\ logs' = Append(IF trims THEN Tail(logs) ELSE logs, << >>)
           /\ Drift(trims)
    /\ unflushed' = 0
    /\ UNCHANGED <<server, lru, prox, proxLock, call, todo, held, used, raced, late>>

\* A crash loses what the buffer has not written, and openLog replays the rest.
Restart ==
    /\ Happens("restart")
    /\ used.faults = 0
    /\ used' = [used EXCEPT !.faults = 1]
    /\ \E n \in 0..unflushed :
           LET last == SubSeq(S!Last(logs), 1, Len(S!Last(logs)) - n)
               files == [logs EXCEPT ![Len(logs)] = last]
           IN  /\ logs' = Append(files, << >>)
               /\ lru' = Replay(Ascending(files))
               /\ prox' = NoWatch(LastOrder(Ascending(files)))
    /\ unflushed' = 0
    /\ proxLock' = {}
    /\ call' = [c \in Client |-> NoCall]
    /\ todo' = [t \in Thread |-> << >>]
    /\ held' = {}
    /\ drift' = IF drift = "no" THEN "no" ELSE "lost"
    /\ UNCHANGED <<server, raced, late>>

Evict(k) ==
    /\ Happens("evict")
    /\ lru' = [x \in DOMAIN lru \ {k} |-> lru[x]]
    /\ Drift(TRUE)
    /\ UNCHANGED <<server, disk, prox, proxLock, call, todo, held, used, raced, late>>

-----------------------------------------------------------------------------
(* The watcher. *)

Watched(p) == prox' = p /\ UNCHANGED <<server, proxLock, call>>

\* Watch from an order, or from the current state.  An order that the server
\* no longer has makes the watcher start again from the current state.
Current == <<[name |-> Root, ver |-> 0, order |-> Len(events)]>>
           \o [i \in 1..Cardinality({n \in Name : Exists(n)}) |->
                  LET n == S!SetToSeq({x \in Name : Exists(x)})[i]
                  IN  [name |-> n, ver |-> srv[n], order |-> Len(events)]]
Watch ==
    /\ prox.pc = "watch"
    /\ LET order == IF prox.order = 0 THEN -1 ELSE prox.order
       IN  \/ /\ order = -1
              /\ Watched([prox EXCEPT !.pc = "events", !.order = -1, !.stream = Current, !.next = Len(events)])
           \/ /\ order # -1 /\ order >= oldest
              /\ Watched([prox EXCEPT !.pc = "events", !.stream = << >>, !.next = order])
           \/ /\ order # -1 /\ order < oldest
              /\ Watched([prox EXCEPT !.pc = "sleep", !.order = -1])
           \/ Happens("nowatch") /\ Watched([prox EXCEPT !.pc = "dead"])
    /\ ~Happens("down")
    /\ UNCHANGED <<lru, disk, todo, held, used, raced, late, drift>>

\* Watch fails, or the stream of events breaks; either way watch returns.
Broken ==
    /\ \/ prox.pc = "watch" /\ Happens("down")
       \/ prox.pc = "events" /\ todo[watcher] = << >> /\ Happens("close")
    /\ prox.pc = "events" => used.faults = 0
    /\ used' = [used EXCEPT !.faults = IF prox.pc = "events" THEN 1 ELSE @]
    /\ Watched([prox EXCEPT !.pc = "sleep"])
    /\ UNCHANGED <<lru, disk, todo, held, raced, late, drift>>

Retry ==
    /\ prox.pc = "sleep"
    /\ Watched([prox EXCEPT !.pc = "watch"])
    /\ UNCHANGED <<lru, disk, todo, held, used, raced, late, drift>>

\* wipeLog
Wiped(l) == [k \in DOMAIN l |-> IF l[k].req = "obsolete" THEN [l[k] EXCEPT !.complete = FALSE] ELSE invalidate(l[k])]

\* Mutant of Cared: the directory of a file is not looked for.
CaredFile(n) == IsAccess(n) \/ <<n, FALSE>> \in DOMAIN lru

\* handleEvent: is it about a name, or in a directory, that the LRU has?
Cared(n) ==
    \/ IsAccess(n)
    \/ <<n, FALSE>> \in DOMAIN lru
    \/ n # Root /\ <<Parent(n), TRUE>> \in DOMAIN lru

NextEvent ==
    IF prox.stream # << >> THEN Head(prox.stream)
    ELSE [name |-> events[prox.next + 1].name, ver |-> events[prox.next + 1].ver, order |-> prox.next + 1]
HandleEvent ==
    /\ prox.pc = "events"
    /\ todo[watcher] = << >>
    /\ prox.stream # << >> \/ prox.next < Len(events)
    /\ prox.order = -1 => Alone(watcher)
    /\ LET e == NextEvent
           req == IF e.name # Root /\ e.ver = 0 THEN "delete" ELSE "lookup"
           obsolete == {k \in DOMAIN lru : ~k[2] /\ lru[k].req # "obsolete"}
           advanced == IF prox.stream # << >> THEN [prox EXCEPT !.stream = Tail(@)]
                       ELSE [prox EXCEPT !.next = @ + 1]
       IN  /\ IF prox.order = -1
              THEN /\ lru' = Wiped(lru)
                   /\ Drift(Wiped(lru) # lru)
                   /\ Logged(S!SetToSeq({marshal(invalidate(lru[k])) : k \in obsolete}))
              ELSE UNCHANGED <<lru, disk, drift>>
           /\ IF Cared(e.name)
              THEN /\ Watched([advanced EXCEPT !.order = e.order, !.pc = "flush"])
                   /\ todo' = [todo EXCEPT ![watcher] =
                                  logRequest([Entry(req, e.name, "none", e.ver) EXCEPT !.order = e.order])]
              ELSE Watched(advanced) /\ UNCHANGED todo
           /\ late' = IF \E c \in Client : call[c].pc = "log" /\ call[c].op = "Put" /\ call[c].name = e.name
                      THEN late \cup {e.name} ELSE late \ {e.name}
    /\ UNCHANGED <<held, used, raced>>

\* After an event that it cares about, the watcher flushes the log.
Flush ==
    /\ prox.pc = "flush"
    /\ todo[watcher] = << >>
    /\ unflushed' = 0
    /\ Watched([prox EXCEPT !.pc = "events"])
    /\ UNCHANGED <<lru, logs, todo, held, used, raced, late, drift>>

\* Mutant of Die: a watcher that waits to retry exits, one at work does not.
DieAsleep ==
    /\ prox.pc = "sleep" /\ prox.die
    /\ Watched([prox EXCEPT !.pc = "dead"])
    /\ UNCHANGED <<lru, disk, todo, held, used, raced, late, drift>>

\* Only a watcher that waits for events sees that it is to die.
Die ==
    /\ prox.pc = "events" /\ prox.die
    /\ todo[watcher] = << >>
    /\ Watched([prox EXCEPT !.pc = "dead"])
    /\ UNCHANGED <<lru, disk, todo, held, used, raced, late, drift>>

-----------------------------------------------------------------------------
(* Requests. *)

Set(c, r) == call' = [call EXCEPT ![c] = r]
At(c, pc) == Set(c, IF pc = "idle" THEN NoCall ELSE [call[c] EXCEPT !.pc = pc])

Request(c, r) ==
    /\ call[c].pc = "idle"
    /\ used.requests < setting.max
    /\ used' = [used EXCEPT !.requests = @ + 1]
    /\ \E ep \in IF Happens("move") THEN {1, 2} ELSE {1} :
           Set(c, [pc |-> "proxy", op |-> r.op, name |-> r.name, ep |-> ep])
    /\ UNCHANGED <<server, lru, disk, prox, proxLock, todo, held, raced, late, drift>>

\* proxyFor: a watcher is started if none runs.  One of another endpoint is
\* first told to die, and the lock is kept until it has.
Started(ep) == [prox EXCEPT !.pc = "watch", !.ep = ep, !.die = FALSE]
ProxyFor(c) ==
    /\ call[c].pc = "proxy"
    /\ proxLock = {}
    /\ IF prox.pc # "none" /\ prox.ep # call[c].ep
       THEN prox' = [prox EXCEPT !.die = TRUE] /\ proxLock' = {c} /\ At(c, "dying")
       ELSE /\ prox' = IF prox.pc = "none" THEN Started(call[c].ep) ELSE prox
            /\ At(c, "look")
            /\ UNCHANGED proxLock
    /\ UNCHANGED <<server, lru, disk, todo, held, used, raced, late, drift>>

Replace(c) ==
    /\ call[c].pc = "dying"
    /\ prox.pc = "dead"
    /\ prox' = Started(call[c].ep)
    /\ proxLock' = {}
    /\ At(c, "look")
    /\ UNCHANGED <<server, lru, disk, todo, held, used, raced, late, drift>>

\* The cache has the answer, or the server is asked.
Look(c) ==
    LET r == call[c]
        locked == CASE r.op = "Glob" -> {r.name}
                    [] r.op = "WhichAccess" -> Ancestors(r.name)
                    [] OTHER -> {}
        answered == CASE r.op = "Lookup" -> InLRU(lru, r.name)
                      [] r.op = "Glob" -> GlobKnown(lru, r.name)
                      [] r.op = "WhichAccess" -> AccessKnown(lru, r.name) # unknownAccessFile
                      [] OTHER -> FALSE
    IN  /\ r.pc = "look"
        /\ \A d \in locked : Free(d)
        /\ At(c, IF answered THEN "idle" ELSE IF r.op = "Lookup" THEN "lookGlob" ELSE "ask")
        /\ UNCHANGED <<server, lru, disk, prox, proxLock, todo, held, used, raced, late, drift>>

LookGlob(c) ==
    /\ call[c].pc = "lookGlob"
    /\ Free(Parent(call[c].name))
    /\ At(c, IF KnownAbsent(lru, call[c].name) THEN "idle" ELSE "ask")
    /\ UNCHANGED <<server, lru, disk, prox, proxLock, todo, held, used, raced, late, drift>>

\* The server answers that a link is to be followed.
Followed(r) ==
    {k \in Links : Exists(k) /\ HasPrefix(r.name, k) /\ (r.op \in {"Put", "Delete"} => k # r.name)}

\* What a request records.  A Put that failed is not recorded, and one that
\* succeeded is recorded with the client's entry.
Recorded(r, err) ==
    LET link == CHOOSE k \in Followed(r) : TRUE
        kids == {k \in Kids(r.name) : Exists(k)}
        a == Pertinent(r.name)
    IN  CASE r.op = "Put" -> IF err THEN << >> ELSE logRequest(Entry("put", r.name, "none", -(Len(events) + 1)))
          [] r.op = "Glob" /\ Followed(r) # {} -> logGlobRequest(r.name, "link", {link})
          [] r.op = "Glob" -> IF Exists(r.name) THEN logGlobRequest(r.name, "none", kids)
                              ELSE logGlobRequest(r.name, "notExist", {})
          [] Followed(r) # {} -> logRequest([Entry("lookup", r.name, "link", srv[link]) EXCEPT !.de = link])
          [] r.op = "WhichAccess" ->
                 logRequest([Entry("which", r.name, "none", IF a = noAccessFile THEN 0 ELSE srv[a])
                                EXCEPT !.de = a])
          [] r.op = "Lookup" ->
                 logRequest(Entry("lookup", r.name, IF Exists(r.name) THEN "none" ELSE "notExist",
                                  IF r.name = Root THEN 0 ELSE srv[r.name]))
          [] r.op = "Delete" ->
                 logRequest(Entry("delete", r.name, IF ~err THEN "none"
                                  ELSE IF Exists(r.name) THEN "io" ELSE "notExist", 0))

\* The server executes the request; a failure may hide that it did.
Ask(c) ==
    LET r == call[c]
        err == \/ r.op = "Put" /\ ~CanPut(r.name)
               \/ r.op = "Delete" /\ ~CanDelete(r.name)
    IN  /\ r.pc = "ask"
        /\ CASE r.op = "Put" /\ ~err -> Change(c, r.name, Len(events) + 1)
             [] r.op = "Delete" /\ ~err -> Change(c, r.name, 0)
             [] OTHER -> UNCHANGED <<srv, events, raced>>
        /\ \E es \in {Recorded(r, err)} \cup (IF Happens("fail") THEN {<< >>} ELSE {}) :
               /\ todo' = [todo EXCEPT ![c] = es]
               /\ At(c, IF es = << >> THEN "idle" ELSE "log")
        /\ UNCHANGED <<oldest, lru, disk, prox, proxLock, held, used, late, drift>>

-----------------------------------------------------------------------------
WatcherStep == Watch \/ Broken \/ Retry \/ HandleEvent \/ Flush \/ Die \/ Update(watcher)
ClientStep(c) ==
    ProxyFor(c) \/ Replace(c) \/ Look(c) \/ LookGlob(c) \/ Ask(c) \/ Update(c)

Next ==
    /\ \/ WatcherStep
       \/ \E c \in Client : ClientStep(c) \/ \E r \in setting.plan[c] : Request(c, r)
       \/ \E n \in setting.names : Foreign(n)
       \/ \E k \in DOMAIN lru : Evict(k)
       \/ Truncate \/ Rotate \/ Restart
    /\ UNCHANGED setting

Spec == Init /\ [][Next]_<<setting, vars>>

\* Each request and the watcher have a goroutine of their own; that some of
\* them runs is enough, as requests and changes are bounded.
Step == WatcherStep \/ \E c \in Client : ClientStep(c)

-----------------------------------------------------------------------------
\* The watcher has told the cache everything and no request is under way.
Settled ==
    /\ \A c \in Client : call[c].pc = "idle"
    /\ prox.pc = "events" /\ todo[watcher] = << >>
    /\ prox.stream = << >> /\ prox.next = Len(events)

\* The watcher is to keep the cache in step with the server (proxied.go):
\* once the cache has settled, the entries, absences and listings that it
\* answers are the server's, unless the latest change of a name came while a
\* request about it was under way, or a restart replayed what had been made
\* obsolete, evicted or trimmed.  When the event about a Put came before the
\* Put was recorded, the cache goes on to answer with the client's own entry
\* (server.go:135) and its Sequence.  Names behind a link are left out.
SettledAgrees ==
    drift # "lost" /\ Settled =>
        /\ \A n \in Name \ raced : n \notin Links /\ Parent(n) \notin Links =>
               /\ InLRU(lru, n) =>
                      lru[<<n, FALSE>>].ver \in {srv[n]} \cup (IF n \in late THEN {-srv[n]} ELSE {})
               /\ KnownAbsent(lru, n) => ~Exists(n)
        /\ \A d \in Dirs \cup {Root} :
               GlobKnown(lru, d) => GlobOf(lru, d).children \ raced = {n \in Kids(d) : Exists(n)} \ raced

\* An answer that a link is to be followed comes with the link's entry.
LinkHasEntry == \A n \in Name : InLRU(lru, n) /\ lru[<<n, FALSE>>].err = "link" => lru[<<n, FALSE>>].ver # 0

\* Every request returns, also when it first has to end the watcher of an
\* endpoint that the tree has left, provided that Watch works and that no two
\* directories share a lock.
Answering ==
    /\ ~Happens("down")
    /\ \A d, e \in Dirs \cup {Root} : d # e => setting.bucket[d] # setting.bucket[e]
RequestsReturn == []<>(Answering => \A c \in Client : call[c].pc = "idle")

=============================================================================
