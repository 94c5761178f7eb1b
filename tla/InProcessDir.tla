---------------------------- MODULE InProcessDir ----------------------------
(***************************************************************************)
(* The directory server that is kept in memory (dir/inprocess): the tree   *)
(* of one user, the Access files in force, and the manager of the events   *)
(* that listeners are sent.                                                *)
(*                                                                         *)
(* Every operation first looks names up and checks rights, each under the  *)
(* read lock, and then makes its change under the write lock.  The         *)
(* operators here are what one locked section does; module Client makes    *)
(* steps of them.  The lock is a sync.RWMutex: nobody gets the read lock   *)
(* while somebody waits for the write lock.                                *)
(***************************************************************************)
EXTENDS Paths, Integers, FiniteSets

CONSTANTS
    owner,       \* the user whose tree it is
    Name,        \* path names below the root
    Readers,     \* who may read, by the contents of an Access file
    Writers,     \* and who may create, write, delete and list; not even the owner, if not named
    QueueLen,    \* events that may wait for the event manager
    Watcher      \* listeners that may come

Names == Name \cup {Root}
IsAccess(n) == n # Root /\ n[Len(n)] = "Access"
bad == "bad"     \* the contents of an Access file that cannot be parsed
none == "none"

NoEntry == [kind |-> none, data |-> none, keys |-> {}, pack |-> none, seq |-> 0]
Dir == [NoEntry EXCEPT !.kind = "dir"]

\* An event has the name of its entry, or of none.
nilName == <<"nil">>
Event(n, delete) == [name |-> n, delete |-> delete]
Nothing == [kind |-> none, event |-> Event(Root, FALSE), listener |-> none]

VARIABLES
    tree,       \* the entry of each name
    access,     \* the contents of the Access file of each directory, or none
    mu,         \* who has announced, or holds, the write lock
    events,     \* the events so far
    newEvent,   \* events on their way to the event manager
    newListener,\* and listeners
    listener,   \* the state of each listener
    handling,   \* what the event manager has taken from its channels
    panicked    \* the process has followed a nil pointer: of a client or of the event manager

db == <<tree, access>>
watching == <<events, newEvent, newListener, listener, handling>>
dirVars == <<db, mu, watching>>

DirInit(initial) ==
    /\ tree = initial
    /\ access = [n \in Names |-> IF Append(n, "Access") \in Name THEN initial[Append(n, "Access")].data ELSE none]
    /\ mu = none
    /\ events = << >>
    /\ newEvent = << >>
    /\ newListener = << >>
    /\ listener = [w \in Watcher |-> [pc |-> "none", root |-> Root, asked |-> 0, order |-> 0, sofar |-> 0, todo |-> {}, got |-> {}]]
    /\ handling = Nothing
    /\ panicked = FALSE

-----------------------------------------------------------------------------
(* Looking up. *)

Result(err, n) == [err |-> err, name |-> n, entry |-> tree[n], empty |-> ~\E k \in Name : Parent(k) = n /\ tree[k] # NoEntry]
Error(err) == [err |-> err, name |-> Root, entry |-> NoEntry, empty |-> FALSE]

\* lookup: the first element that is not a directory decides.
lookup(n, followFinal) ==
    LET stops == {p \in Prefixes(n) : tree[p].kind # "dir"}
        At(p) == IF tree[p].kind = "link" /\ (p = n => followFinal) THEN Result("follow", p)
                 ELSE IF p = n /\ tree[p].kind # none THEN Result("ok", n)
                 ELSE Error("NotExist")
    IN  IF stops = {} THEN Result("ok", n) ELSE At(CHOOSE p \in stops : \A q \in stops : Len(p) <= Len(q))

\* The directory whose Access file applies to a name.
whichAccess(n) ==
    LET ds == {d \in Prefixes(n) : access[d] # none}
    IN  IF ds = {} THEN none ELSE access[CHOOSE d \in ds : \A e \in ds : Len(e) <= Len(d)]
accessName(n) ==
    Append(CHOOSE d \in Prefixes(n) : access[d] # none /\ \A e \in Prefixes(n) : access[e] # none => Len(e) <= Len(d),
           "Access")

\* The rights that the Access file gives, or the owner has where there is none.
\* The owner may always read and list, and only the owner changes Access files.
canRead(u, n) == u = owner \/ (whichAccess(n) # none /\ Readers[whichAccess(n)] \cap {u, "all"} # {})
canList(u, n) == u = owner \/ (whichAccess(n) # none /\ u \in Writers[whichAccess(n)])
canWrite(u, n) == IF IsAccess(n) \/ whichAccess(n) = none THEN u = owner ELSE u \in Writers[whichAccess(n)]
canAny(u, n) == u = owner \/ (whichAccess(n) # none /\ (Readers[whichAccess(n)] \cup Writers[whichAccess(n)]) \cap {u, "all"} # {})

\* errLink: a link is shown to those who have any right for it.
errLink(u, r) == IF r.err = "follow" /\ ~canAny(u, r.name) THEN Error("denied") ELSE r

\* An entry without its keys: its reader may not read it.
Incomplete(r) == IF IsAccess(r.name) THEN r ELSE [r EXCEPT !.entry.keys = {}, !.entry.pack = "incomplete"]

Lookup(u, n) ==
    LET r == lookup(n, TRUE)
    IN  IF r.err = "follow" THEN errLink(u, r)
        ELSE IF ~canAny(u, n) THEN Error("denied")
        ELSE IF r.err = "ok" /\ ~canRead(u, n) THEN Incomplete(r)
        ELSE r

WhichAccess(u, n) ==
    LET r == lookup(n, TRUE)
    IN  IF r.err = "follow" THEN errLink(u, r)
        ELSE IF r.err = "NotExist" /\ lookup(Parent(n), TRUE).err # "ok" THEN Error("denied")
        ELSE IF ~canAny(u, n) THEN Error("denied")
        ELSE IF whichAccess(n) = none THEN [Error("ok") EXCEPT !.name = none]
        ELSE lookup(accessName(n), TRUE)

\* listDir, for Glob.
listDir(u, n) ==
    LET r == lookup(n, TRUE)
    IN  IF r.err # "ok" THEN r
        ELSE IF r.entry.kind # "dir" THEN Error("NotDir")
        ELSE IF canList(u, n) THEN r
        ELSE Error("denied")
Children(n) == {k \in Name : Parent(k) = n /\ tree[k] # NoEntry}

-----------------------------------------------------------------------------
(* Putting and deleting. *)

\* canPut, before the lock is taken.
canPut(u, n, isDir) ==
    LET parent == lookup(Parent(n), TRUE)
        existing == lookup(n, TRUE)
    IN  IF n = Root /\ ~isDir THEN Error("IsDir")
        ELSE IF n # Root /\ parent.err # "ok" THEN errLink(u, parent)
        ELSE IF n # Root /\ parent.entry.kind # "dir" THEN Error("NotDir")
        ELSE IF existing.err = "follow" THEN errLink(u, existing)
        ELSE IF existing.err = "ok" /\ existing.entry.kind = "dir" THEN Error("Exist")
        ELSE IF canWrite(u, n) THEN Error("ok")
        ELSE Error("denied")

SeqIgnore == 0
SeqNotExist == -1

\* Mutant of InstallError: an entry that must not exist is replaced.
InstallErrorReplace(n, entry) ==
    LET parent == lookup(Parent(n), TRUE)
    IN  IF IsAccess(n) /\ (entry.kind # "file" \/ entry.pack # "integrity") THEN "Invalid"
        ELSE IF n = Root THEN (IF tree[Root] = NoEntry THEN "ok" ELSE "Exist")
        ELSE IF parent.err # "ok" THEN parent.err
        ELSE IF tree[n].kind = "link" THEN "follow"
        ELSE IF tree[n].kind = "dir" THEN "IsDir"
        ELSE "ok"

\* The error of put and installEntry, under the lock; they look the name up again.
InstallError(n, entry) ==
    LET parent == lookup(Parent(n), TRUE)
    IN  IF IsAccess(n) /\ (entry.kind # "file" \/ entry.pack # "integrity") THEN "Invalid"
        ELSE IF n = Root THEN (IF tree[Root] = NoEntry THEN "ok" ELSE "Exist")
        ELSE IF parent.err # "ok" THEN parent.err
        ELSE IF tree[n].kind = "link" THEN "follow"
        ELSE IF tree[n].kind # none /\ entry.seq = SeqNotExist THEN "Exist"
        ELSE IF tree[n].kind = "dir" THEN "IsDir"
        ELSE "ok"

\* A new entry keeps the sequence number -1 that it was put with.
NextSeq(n, entry) ==
    CASE tree[n].kind # none -> IF tree[n].seq < 1 THEN 1 ELSE tree[n].seq + 1
      [] tree[n].kind = none -> IF entry.seq = SeqIgnore THEN 1 ELSE entry.seq

\* The tree is rewritten to the root; then an Access file is parsed.
Install(n, entry) ==
    /\ tree' = [tree EXCEPT ![n] = [entry EXCEPT !.seq = NextSeq(n, entry)]]
    /\ access' = IF IsAccess(n) /\ entry.data # bad THEN [access EXCEPT ![Parent(n)] = entry.data] ELSE access
InstallOK(n, entry) == ~(IsAccess(n) /\ entry.data = bad)

\* Delete: what was found before the lock was taken decides whether a directory
\* is empty; put looks for the name again, and may meet a link.
canDelete(u, n) ==
    LET r == lookup(n, FALSE)
    IN  IF r.err # "ok" THEN errLink(u, r) ELSE IF canWrite(u, n) THEN r ELSE Error("denied")
DeleteResult(n, found) ==
    LET parent == lookup(Parent(n), TRUE)
    IN  IF found.entry.kind = "dir" /\ ~found.empty THEN Error("NotEmpty")
        ELSE IF n # Root /\ parent.err # "ok" THEN parent
        ELSE IF tree[n] = NoEntry THEN Error("NotExist")
        ELSE Error("ok")
Uninstall(n) ==
    /\ tree' = [p \in Names |-> IF HasPrefix(p, n) THEN NoEntry ELSE tree[p]]
    /\ access' = IF IsAccess(n) THEN [access EXCEPT ![Parent(n)] = none] ELSE access

-----------------------------------------------------------------------------
(* The event manager: one goroutine, which takes one thing at a time from    *)
(* its channels.                                                             *)

WatchStart == 0
WatchCurrent == -1
WatchNew == -2
Wanted(w, n) == HasPrefix(n, listener[w].root)
Listening == {w \in Watcher : listener[w].pc = "listening"}

\* What the manager must look up the rights for, under the read lock: of whom
\* wants the event that it handles, and of a new listener that is behind.
Wanting == {w \in Listening : handling.kind = "event" /\ Wanted(w, handling.event.name)}
Missing(w) == {i \in DOMAIN events : i > listener[w].order /\ Wanted(w, events[i].name)}
ManagerNeedsLock ==
    \/ handling.kind = "event" /\ Wanting # {}
    \/ handling.kind = "listener" /\ Missing(handling.listener) # {}

\* Watch: the read lock is taken, and held until the manager has told the events
\* so far.
Asking == {w \in Watcher : listener[w].pc = "asking"}
Watch(w, root, order) ==
    /\ listener[w].pc = "none"
    /\ mu = none
    /\ listener' = [listener EXCEPT ![w].pc = IF tree[Root] = NoEntry THEN "refused" ELSE "asking", ![w].root = root, ![w].asked = order]
    /\ UNCHANGED <<db, mu, events, newEvent, newListener, handling, panicked>>

\* A goroutine sends the events so far, or the tree, and then registers the
\* listener.  WatchNew is refused as a bad order.
WatchSoFar(w) ==
    LET order == listener[w].asked
    IN  /\ listener[w].pc = "asking"
        /\ handling = Nothing
        /\ listener' = [listener EXCEPT ![w] =
              [@ EXCEPT !.pc = IF order \in {WatchStart, WatchCurrent} \/ order \in 1..(Len(events) - 1) THEN "send" ELSE "closed",
                        !.sofar = IF order < 0 THEN Len(events) ELSE 0,
                        !.order = IF order < 0 THEN Len(events) ELSE 0,
                        !.todo = IF order < 0 THEN {} ELSE {i \in DOMAIN events : Wanted(w, events[i].name)}]]
        /\ UNCHANGED <<db, mu, events, newEvent, newListener, handling, panicked>>

\* sendAll: only events that the listener wants count for its order.
SendSoFar(w) ==
    /\ listener[w].pc = "send"
    /\ listener[w].todo # {}
    /\ mu = none
    /\ LET i == CHOOSE i \in listener[w].todo : \A j \in listener[w].todo : i <= j
       IN  listener' = [listener EXCEPT ![w].todo = @ \ {i}, ![w].got = @ \cup {i}, ![w].order = @ + 1]
    /\ UNCHANGED <<db, mu, events, newEvent, newListener, handling, panicked>>

\* The tree has been sent, to a client that asked for it, under the read lock.
Register(w) ==
    /\ listener[w].pc = "send"
    /\ listener[w].todo = {}
    /\ listener[w].asked = WatchCurrent => mu = none
    /\ newListener' = Append(newListener, w)
    /\ listener' = [listener EXCEPT ![w].pc = "registering"]
    /\ UNCHANGED <<db, mu, events, newEvent, handling, panicked>>

\* A client that does not receive is given up.
GiveUp(w) ==
    /\ listener[w].pc = "send"
    /\ mu = none
    /\ listener[w].todo # {} \/ listener[w].asked = WatchCurrent
    /\ listener' = [listener EXCEPT ![w].pc = "stuck"]
    /\ UNCHANGED <<db, mu, events, newEvent, newListener, handling, panicked>>

TakeListener ==
    /\ handling = Nothing
    /\ newListener # << >>
    /\ newListener' = Tail(newListener)
    /\ handling' = [Nothing EXCEPT !.kind = "listener", !.listener = Head(newListener)]
    /\ UNCHANGED <<db, mu, events, newEvent, listener, panicked>>

TakeEvent ==
    /\ handling = Nothing
    /\ newEvent # << >>
    /\ newEvent' = Tail(newEvent)
    /\ handling' = [Nothing EXCEPT !.kind = "event", !.event = Head(newEvent)]
    /\ UNCHANGED <<db, mu, events, newListener, listener, panicked>>

\* Mutant of RunListener: the listener is taken to have caught up.
RunListenerBehind ==
    /\ handling.kind = "listener"
    /\ listener' = [listener EXCEPT ![handling.listener].pc = "listening"]
    /\ handling' = Nothing
    /\ UNCHANGED <<db, mu, events, newEvent, newListener, panicked>>

\* run: a new listener is brought up to date and installed, or closed when it
\* does not receive.
RunListener ==
    /\ handling.kind = "listener"
    /\ ManagerNeedsLock => mu = none
    /\ LET w == handling.listener
       IN  \/ listener' = [listener EXCEPT ![w].pc = "listening", ![w].got = @ \cup Missing(w), ![w].order = @ + Cardinality(Missing(w))]
           \/ Missing(w) # {} /\ listener' = [listener EXCEPT ![w].pc = "closed"]
    /\ handling' = Nothing
    /\ UNCHANGED <<db, mu, events, newEvent, newListener, panicked>>

\* run: an event is sent to every listener that wants it; one without an entry
\* ends the process.
RunEvent ==
    /\ handling.kind = "event"
    /\ handling.event.name # nilName
    /\ ManagerNeedsLock => mu = none
    /\ \E slow \in SUBSET Wanting :
           listener' = [w \in Watcher |->
               CASE w \in slow -> [listener[w] EXCEPT !.pc = "closed"]
                 [] w \in Wanting \ slow -> [listener[w] EXCEPT !.got = @ \cup {Len(events) + 1}, !.order = @ + 1]
                 [] OTHER -> listener[w]]
    /\ events' = Append(events, handling.event)
    /\ handling' = Nothing
    /\ UNCHANGED <<db, mu, newEvent, newListener, panicked>>

RunNil ==
    /\ handling.kind = "event"
    /\ handling.event.name = nilName
    /\ panicked' = TRUE
    /\ UNCHANGED <<db, mu, watching>>

=============================================================================
