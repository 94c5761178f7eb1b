----------------------------- MODULE TreeWatch -----------------------------
(***************************************************************************)
(* The watchers of one user's tree (dir/server/tree/watch.go and the parts *)
(* of tree.go that carry watchers around).                                 *)
(*                                                                         *)
(* A watcher is a goroutine that tails the user's log and sends the        *)
(* records below its path to its client.  At the end of the log it sleeps  *)
(* until a Put or Delete leaves a token in its hasWork channel.  Who gets  *)
(* a token is decided by lists of watchers kept on the nodes of the tree:  *)
(* a watcher hangs on the node of its path or, while that does not exist,  *)
(* on the nearest node above it, and moves as nodes come and go.           *)
(*                                                                         *)
(* Operations of the tree hold its mutex and are single actions; every     *)
(* step of a watcher that touches a channel or the log is an action of its *)
(* own.  Entries are told apart by the log order that put them there.      *)
(***************************************************************************)
EXTENDS Paths, FiniteSets, Functions

CONSTANTS
    Watcher,    \* calls of Watch
    Elem,       \* path elements
    Path,       \* path names
    File,       \* the path names that are files; the others are directories
    Settings,   \* what clients do, see below
    MaxOrder    \* bound on the number of records in any log

\* A setting names the calls of Watch that are made (by) and the path each is
\* for (path), their order arguments (orders), a bound on the number of records
\* in the log (max), and which of these operations happen (ops):
\*   put            Put over a file that nobody watches (others may watch
\*                  a directory above it)
\*   delete         Delete of a path that nobody watches
\*   putWatched     Put over a file that is itself watched
\*   deleteWatched  Delete of a path that is itself watched
\*   done           a client closes its done channel
\*   slow           a client does not take an event before watcherTimeout
\*   flush          the tree is flushed, for a Lookup or List of what is dirty
\*   close          the tree is closed
WatchAssumption ==
    /\ Path \subseteq Seq(Elem)
    /\ Root \in Path
    /\ \A p \in Path : Prefixes(p) \subseteq Path
    /\ File \subseteq Path \ {Root}
    /\ MaxOrder \in Nat
    /\ \A s \in Settings :
           /\ s.by \subseteq Watcher
           /\ s.path \in [Watcher -> Path]
           /\ s.orders \subseteq {"start", "current", "new"}
           /\ s.ops \subseteq {"put", "delete", "putWatched", "deleteWatched",
                               "done", "slow", "flush", "close"}
           /\ s.max \in 0..MaxOrder

VARIABLES
    setting,  \* one of Settings; it never changes
    node,     \* what exists: path -> the log order of its latest Put
    at,       \* the watchers field of each node: path -> sequence
    log,      \* records [op, path]; the order of a record is its position
    then,     \* what existed at each order: then[i+1] is node after i records
    saved,    \* the order at which the root in the root file was saved
    shutdown, \* whether Tree.Close has closed t.shutdown
    w         \* the watchers

vars == <<node, at, log, then, saved, shutdown, w>>

WatchPath == setting.path
Orders == setting.orders
Ops == setting.ops
MaxRecords == setting.max

Nothing == [p \in {} |-> 0]
LastOffset == Len(log)
Below(f, p) == [q \in {x \in DOMAIN f : HasPrefix(x, p)} |-> f[q]]

\* A watcher's goroutine is at "load" (of the clone's root), "current" (sending
\* the tree), "read", "send" (of a log record), "end" (of the log), "wait" (in
\* the select of watch), or it has returned ("closed").  next is the order it
\* reads next, base the order of the clone's tree, unsent what
\* sendCurrentAndWatch has still to send, done and hasWork its channels, view
\* what its client has been told, missed whether it was too slow for an event.
NotStarted == [pc |-> "none", next |-> 0, base |-> 0, unsent |-> << >>, done |-> FALSE,
               hasWork |-> FALSE, view |-> Nothing, missed |-> FALSE]

Init ==
    /\ setting \in Settings
    /\ node = [p \in {Root} |-> 0]
    /\ at = [p \in {Root} |-> << >>]
    /\ log = << >>
    /\ then = <<node>>
    /\ saved = 0
    /\ shutdown = FALSE
    /\ w = [c \in Watcher |-> NotStarted]

-----------------------------------------------------------------------------
(* The lists of watchers on the nodes.                                     *)

Dead(c) == w[c].pc = "closed" \/ w[c].done

\* Both loops below keep a count, curr, of the elements to keep, and copy an
\* element over position curr when it is one to REMOVE.  With keep the
\* elements to keep, the list after i steps of the loop:
Compact(l, keep(_)) ==
    LET Curr(i) == Cardinality({j \in 1..i : keep(l[j])})
        Copied(k) == {i \in 1..Len(l) : ~keep(l[i]) /\ i - 1 > Curr(i) /\ Curr(i) + 1 = k}
        Source(k) == IF Copied(k) = {} THEN k ELSE CHOOSE i \in Copied(k) : \A j \in Copied(k) : j <= i
    IN  [k \in 1..Curr(Len(l)) |-> l[Source(k)]]

removeDeadWatchers(l) == Compact(l, LAMBDA c : ~Dead(c))

\* Whether a watcher on the parent of p is to move down to p.
IsFor(c, p) == HasPrefix(WatchPath[c], p)

movedDown(l, p) == SelectSeq(l, LAMBDA c : IsFor(c, p))
leftBehind(l, p) == Compact(l, LAMBDA c : ~IsFor(c, p))

\* loadPath(p): the nodes on the way to p lose their dead watchers, and the
\* watchers on them are returned.
OnPath(p) == Prefixes(p) \cap DOMAIN node
loadPath(p) == [q \in DOMAIN at |-> IF q \in OnPath(p) THEN removeDeadWatchers(at[q]) ELSE at[q]]
WatchersOn(a, p) == UNION {Range(a[q]) : q \in OnPath(p)}

\* The last node on the way to p.
Nearest(p) == CHOOSE q \in OnPath(p) : \A x \in OnPath(p) : Len(x) <= Len(q)

addWatcher(a, p, c) == [a EXCEPT ![Nearest(p)] = Append(@, c)]

\* Mutant of notifyWatchers: only watchers asleep are told.
notifyAsleep(cs) ==
    [c \in Watcher |-> IF c \in cs /\ w[c].pc = "wait" THEN [w[c] EXCEPT !.hasWork = TRUE] ELSE w[c]]

\* notifyWatchers: a token for each, unless it has one.
notifyWatchers(cs) == [c \in Watcher |-> IF c \in cs THEN [w[c] EXCEPT !.hasWork = TRUE] ELSE w[c]]

-----------------------------------------------------------------------------
(* Operations on the tree, with its mutex held. *)

Log(op, p, n) ==
    /\ log' = Append(log, [op |-> op, path |-> p])
    /\ node' = n
    /\ then' = Append(then, n)

IsWatched(p) == \E c \in Watcher : WatchPath[c] = p

Extend(f, p, x) == [q \in DOMAIN f \cup {p} |-> IF q = p THEN x ELSE f[q]]
Drop(f, p) == [q \in DOMAIN f \ {p} |-> f[q]]

\* Tree.Put of a new entry, or over a file (DirServer.Put refuses the rest).
\* The new node takes the watchers that move down; those of a node that it
\* replaces are gone with it.
Put(p) ==
    /\ ~shutdown
    /\ LastOffset < MaxRecords
    /\ p # Root
    /\ Parent(p) \in DOMAIN node \ File
    /\ p \in DOMAIN node =>
           p \in File /\ (IF IsWatched(p) THEN "putWatched" ELSE "put") \in Ops
    /\ LET lists == loadPath(Parent(p))
           l == lists[Parent(p)]
       IN  /\ at' = Extend([lists EXCEPT ![Parent(p)] = leftBehind(l, p)], p, movedDown(l, p))
           /\ w' = notifyWatchers(WatchersOn(lists, Parent(p)))
    /\ Log("put", p, Extend(node, p, LastOffset + 1))
    /\ UNCHANGED <<saved, shutdown>>

\* Tree.Delete: the watchers of the node move to its parent.  Those returned
\* by the loadPath of the parent are notified, and those that move are not
\* among them.
Delete(p) ==
    /\ ~shutdown
    /\ LastOffset < MaxRecords
    /\ p # Root
    /\ p \in DOMAIN node
    /\ \A q \in DOMAIN node : q # p => ~HasPrefix(q, p)
    /\ (IF IsWatched(p) THEN "deleteWatched" ELSE "delete") \in Ops
    /\ LET lists == loadPath(Parent(p))
       IN  /\ at' = Drop([lists EXCEPT ![Parent(p)] = @ \o lists[p]], p)
           /\ w' = notifyWatchers(WatchersOn(lists, Parent(p)))
    /\ Log("delete", p, Drop(node, p))
    /\ UNCHANGED <<saved, shutdown>>

\* Tree.Lookup changes nothing but the lists it cleans up.
Lookup(p) ==
    /\ ~shutdown
    /\ at' = loadPath(p)
    /\ UNCHANGED <<node, log, then, saved, shutdown, w>>

\* Tree.Flush saves the root: of the directories below it the store has
\* immutable blocks, so the root saved stands for the whole tree.
Flush ==
    /\ "flush" \in Ops
    /\ ~shutdown
    /\ saved # LastOffset
    /\ saved' = LastOffset
    /\ UNCHANGED <<node, at, log, then, shutdown, w>>

\* The entries of tree f below p in the order traverse visits them: a directory
\* first.
Traversal(f, p) ==
    LET Entries == DOMAIN Below(f, p)
    IN  CHOOSE s \in [1..Cardinality(Entries) -> Entries] :
            /\ Range(s) = Entries
            /\ \A i, j \in DOMAIN s : HasPrefix(s[j], s[i]) => i <= j

\* Tree.Watch for each kind of order.  The clone that WatchCurrent makes has its
\* own handle on the same root file, and no root yet.
WatchCurrent(c) ==
    /\ w' = [w EXCEPT ![c] = [@ EXCEPT !.pc = "load", !.next = LastOffset]]
    /\ saved' = LastOffset
    /\ UNCHANGED at

WatchFrom(c, order, known) ==
    /\ at' = addWatcher(loadPath(WatchPath[c]), WatchPath[c], c)
    /\ w' = [w EXCEPT ![c] = [@ EXCEPT !.pc = "read", !.next = order, !.view = known]]

Watch(c) ==
    /\ ~shutdown
    /\ c \in setting.by
    /\ w[c].pc = "none"
    /\ \/ "current" \in Orders /\ WatchCurrent(c)
       \/ "start" \in Orders /\ WatchFrom(c, 0, Below(then[1], WatchPath[c])) /\ UNCHANGED saved
       \/ "new" \in Orders /\ WatchFrom(c, LastOffset, Below(node, WatchPath[c])) /\ saved' = LastOffset
    /\ UNCHANGED <<node, log, then, shutdown>>

\* Tree.Close tells the watchers, and waits for them (see CloseReturns).
Close ==
    /\ "close" \in Ops
    /\ ~shutdown
    /\ shutdown' = TRUE
    /\ UNCHANGED <<node, at, log, then, saved, w>>

\* A client closes its done channel.
Done(c) ==
    /\ "done" \in Ops
    /\ w[c].pc # "none"
    /\ ~w[c].done
    /\ w' = [w EXCEPT ![c].done = TRUE]
    /\ UNCHANGED <<node, at, log, then, saved, shutdown>>

-----------------------------------------------------------------------------
(* The goroutine of a watcher. *)

Stopped(c) == w[c].done \/ shutdown
Goto(c, r) == w' = [w EXCEPT ![c] = r] /\ UNCHANGED <<node, log, then, saved, shutdown>>

\* sendCurrentAndWatch: clone.loadPath reads the root file as it is by now.
LoadCurrent(c) ==
    /\ w[c].pc = "load"
    /\ Goto(c, [w[c] EXCEPT !.pc = "current", !.base = saved,
                            !.unsent = Traversal(then[saved + 1], WatchPath[c])])
    /\ UNCHANGED at

\* sendCurrentAndWatch: sendEvent of the next entry of the clone.  fn takes
\* errTimeout and errClosed for success and goes on with the next entry.
SendCurrent(c) ==
    /\ w[c].pc = "current"
    /\ w[c].unsent # << >>
    /\ LET p == Head(w[c].unsent)
           r == [w[c] EXCEPT !.unsent = Tail(@)]
       IN  \/ Goto(c, [r EXCEPT !.view = Extend(@, p, then[w[c].base + 1][p])])
           \/ Stopped(c) /\ Goto(c, [r EXCEPT !.missed = TRUE])
           \/ "slow" \in Ops /\ Goto(c, [r EXCEPT !.missed = TRUE])
    /\ UNCHANGED at

\* ... and once the tree is sent, addWatcher on the original tree.
SentCurrent(c) ==
    /\ w[c].pc = "current"
    /\ w[c].unsent = << >>
    /\ at' = addWatcher(loadPath(WatchPath[c]), WatchPath[c], c)
    /\ Goto(c, [w[c] EXCEPT !.pc = "read"])

\* sendEventFromLog: one turn of its loop, up to the send.
ReadLog(c) ==
    /\ w[c].pc = "read"
    /\ LET r == w[c]
       IN  Goto(c, IF Stopped(c) THEN [r EXCEPT !.pc = "closed"]
                   ELSE IF r.next = LastOffset THEN [r EXCEPT !.pc = "end"]
                   ELSE IF HasPrefix(log[r.next + 1].path, WatchPath[c])
                        THEN [r EXCEPT !.pc = "send", !.next = @ + 1]
                        ELSE [r EXCEPT !.next = @ + 1])
    /\ UNCHANGED at

\* The client's view after the event for record i.
Apply(view, i) ==
    IF log[i].op = "put" THEN Extend(view, log[i].path, i) ELSE Drop(view, log[i].path)

\* sendEvent of a log record: the client takes the event,
SendTaken(c) ==
    /\ w[c].pc = "send"
    /\ Goto(c, [w[c] EXCEPT !.pc = "read", !.view = Apply(@, w[c].next)])
    /\ UNCHANGED at

\* or it is done, or the tree is closed, or watcherTimeout passes.
SendGivenUp(c) ==
    /\ w[c].pc = "send"
    /\ Stopped(c) \/ "slow" \in Ops
    /\ Goto(c, [w[c] EXCEPT !.pc = "closed", !.missed = TRUE])
    /\ UNCHANGED at

\* watch: the end of the log is reached, and then the select.
Sleep(c) ==
    /\ w[c].pc = "end"
    /\ Goto(c, [w[c] EXCEPT !.pc = "wait"])
    /\ UNCHANGED at

\* Mutant of Wake: the wait does not select on hasWork.
WakeToStop(c) ==
    /\ w[c].pc = "wait"
    /\ Stopped(c) /\ Goto(c, [w[c] EXCEPT !.pc = "closed"])
    /\ UNCHANGED at

\* Mutant of Wake: the wait does not select on done.
WakeUndone(c) ==
    /\ w[c].pc = "wait"
    /\ \/ shutdown /\ Goto(c, [w[c] EXCEPT !.pc = "closed"])
       \/ w[c].hasWork /\ Goto(c, [w[c] EXCEPT !.pc = "read", !.hasWork = FALSE])
    /\ UNCHANGED at

\* watch: the select at the end of its loop.
Wake(c) ==
    /\ w[c].pc = "wait"
    /\ \/ Stopped(c) /\ Goto(c, [w[c] EXCEPT !.pc = "closed"])
       \/ w[c].hasWork /\ Goto(c, [w[c] EXCEPT !.pc = "read", !.hasWork = FALSE])
    /\ UNCHANGED at

Run(c) ==
    \/ LoadCurrent(c) \/ SendCurrent(c) \/ SentCurrent(c) \/ ReadLog(c)
    \/ SendTaken(c) \/ SendGivenUp(c) \/ Sleep(c) \/ Wake(c)

Next ==
    /\ \/ \E p \in Path : Put(p) \/ Delete(p) \/ Lookup(p)
       \/ \E c \in Watcher : Watch(c) \/ Done(c) \/ Run(c)
       \/ Flush \/ Close
    /\ UNCHANGED setting

Spec == Init /\ [][Next]_<<setting, vars>>

-----------------------------------------------------------------------------
Running(c) == w[c].pc \notin {"none", "closed"}

\* The settings in which no list of watchers has more than one to keep, and no
\* watched node is replaced or deleted.  Outside them the lists lose watchers.
ListsAreKept == Cardinality(setting.by) = 1 /\ Ops \cap {"putWatched", "deleteWatched"} = {}

\* A watcher sleeps only when it has told its client everything, or a token
\* is waiting for it: no Put or Delete below its path goes by unnoticed.
NoLostWakeup ==
    ListsAreKept => \A c \in Watcher :
        w[c].pc \in {"end", "wait"} /\ ~Stopped(c) /\ ~w[c].hasWork =>
            \A i \in (w[c].next + 1)..LastOffset : ~HasPrefix(log[i].path, WatchPath[c])

\* What the client of a watcher has been told is the tree below its path as
\* it was at the order the watcher has reached, whether it began with the
\* whole tree, with the whole log or with what it knew.  The exception is a
\* watcher that began with a tree flushed after its Watch: the clone is not "at
\* a fixed log position" (watch.go:125-126), so its events are newer than the
\* order they carry, and until the log is read to the order of that tree, each
\* path is told as it was at one order or the other.
ClientSeesTree ==
    \A c \in Watcher :
        w[c].pc \in {"read", "end", "wait"} /\ ~w[c].missed =>
            LET view == w[c].view
                Was(i) == Below(then[i + 1], WatchPath[c])
                Agree(f, p) == p \in DOMAIN view \cup DOMAIN f =>
                                   p \in DOMAIN view \cap DOMAIN f /\ view[p] = f[p]
            IN  IF w[c].next >= w[c].base
                THEN view = Was(w[c].next)
                ELSE \A p \in Path : Agree(Was(w[c].next), p) \/ Agree(Was(w[c].base), p)

\* "removeDeadWatchers removes all watchers on a node that have closed their
\* done or Event channels", and no others: a watcher that still runs hangs on
\* a node on the way to its path.
LiveStaysListed ==
    \A c \in Watcher : w[c].pc \in {"read", "send", "end", "wait"} /\ ~w[c].done =>
        c \in WatchersOn(at, WatchPath[c])

\* Every change below a watched path is sent, as long as the watch goes on: a
\* watcher comes to the end of the log again and again.
ChangesAreTold ==
    []<>(ListsAreKept => \A c \in Watcher :
             \/ ~Running(c)
             \/ /\ w[c].pc # "send"
                /\ \A i \in (w[c].next + 1)..LastOffset : ~HasPrefix(log[i].path, WatchPath[c]))

\* When the client closes done the event channel is closed, and Tree.Close,
\* which waits for every watcher, gets past that wait.
WatchEnds == []<>(\A c \in Watcher : w[c].done \/ shutdown => w[c].pc \in {"none", "closed"})

=============================================================================
