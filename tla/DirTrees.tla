------------------------------ MODULE DirTrees ------------------------------
(***************************************************************************)
(* The trees that a DirServer has open (dir/server/server.go, userlock.go).*)
(*                                                                         *)
(* A session finds the tree of a user in the LRU userTrees, or opens the   *)
(* user's logs and makes a tree of them, under the lock of the user; then  *)
(* it uses the tree without the lock.  Trees are closed when their owner's *)
(* session is closed or their root is deleted, and on shutdown; an LRU     *)
(* that is full drops its oldest tree without closing it.                  *)
(*                                                                         *)
(* What a tree does is in Tree; here it is open or not, and has the log    *)
(* files that it was made of.                                              *)
(***************************************************************************)
EXTENDS Integers, Sequences, Functions

CONSTANTS
    User,
    Session,     \* clients' sessions, and the one that shuts the server down
    UserOf,      \* the user of each session
    Lock,        \* the pool of locks
    NoSession,
    Settings     \* servers and the use that is made of them

DirTreesAssumption ==
    /\ UserOf \in [Session -> User]
    /\ NoSession \notin Session
    /\ \A g \in Settings :
           /\ g.userLock \in [User -> Lock]
           /\ g.maxTrees \in Nat \ {0}
           /\ g.maxLoads \in Nat
           /\ g.shutdown \in Session \cup {NoSession}

ASSUME TreesAssumption == DirTreesAssumption

VARIABLES
    setting,   \* the server that is run, which never changes
    userTrees, \* the LRU: trees, the most recently used first
    tree,      \* every tree ever made
    logs,      \* whether each user has log files
    holder,    \* who holds each lock
    call,      \* what each session is doing
    iter,      \* the tree that the iterator of shutdown points to
    closes,    \* how often each tree was closed
    evicted    \* whether a tree has fallen out of userTrees

\* The lock of each user, by the hash of its name; the size of userTrees; the
\* session that shuts the server down, if any; and the bound on the number of
\* trees made.
userLock == setting.userLock
MaxTrees == setting.maxTrees
Shutdown == setting.shutdown
MaxLoads == setting.maxLoads

treesVars == <<userTrees, tree, logs, holder, call, iter, closes, evicted>>

RemoveAt(q, i) == SubSeq(q, 1, i - 1) \o SubSeq(q, i + 1, Len(q))
NoTree == 0
Resting == [pc |-> "idle", op |-> "Use", user |-> CHOOSE u \in User : TRUE, tree |-> NoTree]

TreesInit ==
    /\ setting \in Settings
    /\ userTrees = << >>
    /\ tree = << >>
    /\ logs = [u \in User |-> FALSE]
    /\ holder = [l \in Lock |-> NoSession]
    /\ call = [s \in Session |-> Resting]
    /\ iter = NoTree
    /\ closes = << >>
    /\ evicted = FALSE

Goto(s, pc) == call' = [call EXCEPT ![s].pc = pc]
Moved(c, pc, t) == [c EXCEPT !.pc = pc, !.tree = t]
GotoWith(s, pc, t) == call' = [call EXCEPT ![s] = Moved(call[s], pc, t)]
Acquire(s, u) ==
    /\ holder[userLock[u]] = NoSession
    /\ holder' = [holder EXCEPT ![userLock[u]] = s]
Release(s, u) == holder' = [holder EXCEPT ![userLock[u]] = NoSession]

\* The place of the tree of u in userTrees, if it is there.
Place(u) == {i \in DOMAIN userTrees : tree[userTrees[i]].user = u}

-----------------------------------------------------------------------------
(* loadTreeFor *)

\* A session begins an operation; only the owner deletes its root or closes.
Begin(s, op, u) ==
    /\ call[s].pc = "idle" /\ s # Shutdown
    /\ op # "Use" => u = UserOf[s]
    /\ call' = [call EXCEPT ![s] = [Resting EXCEPT !.pc = IF op = "Close" THEN "close" ELSE "load",
                                                 !.op = op, !.user = u]]
    /\ UNCHANGED <<iter, userTrees, tree, logs, holder, closes, evicted>>

\* The tree is in the cache.
LoadCached(s) ==
    LET u == call[s].user
    IN  /\ call[s].pc = "load"
        /\ holder[userLock[u]] = NoSession
        /\ \E i \in Place(u) :
               /\ userTrees' = <<userTrees[i]>> \o RemoveAt(userTrees, i)
               /\ GotoWith(s, "use", userTrees[i])
        /\ UNCHANGED <<iter, tree, logs, holder, closes, evicted>>

\* It is not: the lock is kept while the logs are opened.
LoadMiss(s) ==
    /\ call[s].pc = "load"
    /\ Place(call[s].user) = {}
    /\ Acquire(s, call[s].user)
    /\ Goto(s, "logs")
    /\ UNCHANGED <<iter, userTrees, tree, logs, closes, evicted>>

\* HasLog: there is no tree, and this session may not create the root.  Or
\* HasLog or NewLogs fails.
LoadNone(s) ==
    /\ call[s].pc = "logs"
    /\ call' = [call EXCEPT ![s] = Resting]
    /\ Release(s, call[s].user)
    /\ UNCHANGED <<iter, userTrees, tree, logs, closes, evicted>>

\* NewLogs: the log files are opened, and created unless they are there.
NewLogs(s) ==
    LET u == call[s].user
    IN  /\ call[s].pc = "logs"
        /\ logs[u] \/ UserOf[s] = u
        /\ Len(tree) < MaxLoads
        /\ logs' = [logs EXCEPT ![u] = TRUE]
        /\ tree' = Append(tree, [user |-> u, open |-> TRUE])
        /\ closes' = Append(closes, 0)
        /\ GotoWith(s, "new", Len(tree) + 1)
        /\ UNCHANGED <<iter, userTrees, holder, evicted>>

\* tree.New, and the tree is added; the oldest falls out, and stays open.
NewTree(s) ==
    LET c == call[s]
        all == <<c.tree>> \o userTrees
    IN  /\ c.pc = "new"
        /\ userTrees' = SubSeq(all, 1, IF Len(all) < MaxTrees THEN Len(all) ELSE MaxTrees)
        /\ evicted' = (evicted \/ Len(all) > MaxTrees)
        /\ Goto(s, "use")
        /\ Release(s, c.user)
        /\ UNCHANGED <<iter, tree, logs, closes>>

\* tree.New fails: no one has the tree.
NewTreeFails(s) ==
    /\ call[s].pc = "new"
    /\ call' = [call EXCEPT ![s] = Resting]
    /\ Release(s, call[s].user)
    /\ UNCHANGED <<iter, userTrees, tree, logs, closes, evicted>>

\* The tree is used.  If the root was deleted, the tree is to be closed.
Use(s) ==
    /\ call[s].pc = "use"
    /\ \/ call' = [call EXCEPT ![s] = Resting]
       \/ call[s].op = "Delete" /\ tree[call[s].tree].open /\ Goto(s, "close")
    /\ UNCHANGED <<iter, userTrees, tree, logs, holder, closes, evicted>>

-----------------------------------------------------------------------------
(* closeTree, Delete, Close and shutdown *)

\* The tree is removed from the cache, if it is there.
RemoveTree(s) ==
    \/ \E i \in Place(call[s].user) :
           /\ userTrees' = RemoveAt(userTrees, i)
           /\ GotoWith(s, "closing", userTrees[i])
    \/ /\ Place(call[s].user) = {}
       /\ GotoWith(s, "closing", NoTree)
       /\ UNCHANGED userTrees

\* Mutant of CloseRemove: the lock is not taken.
CloseRemoveUnlocked(s) ==
    /\ call[s].pc = "close"
    /\ RemoveTree(s)
    /\ UNCHANGED <<iter, tree, logs, holder, closes, evicted>>

\* The tree is removed from the cache, under the lock of the session's user,
\* whoever's tree it is.
CloseRemove(s) ==
    /\ call[s].pc = "close"
    /\ Acquire(s, UserOf[s])
    /\ RemoveTree(s)
    /\ UNCHANGED <<iter, tree, logs, closes, evicted>>

\* The tree is closed, and the lock released.
CloseTree(s) ==
    LET c == call[s]
    IN  /\ c.pc = "closing"
        /\ tree' = IF c.tree = NoTree THEN tree ELSE [tree EXCEPT ![c.tree].open = FALSE]
        /\ closes' = IF c.tree = NoTree THEN closes ELSE [closes EXCEPT ![c.tree] = @ + 1]
        /\ Release(s, UserOf[s])
        /\ CASE s = Shutdown -> Goto(s, "next")
             [] c.op = "Delete" -> Goto(s, "logless")
             [] OTHER -> call' = [call EXCEPT ![s] = Resting]
        /\ UNCHANGED <<iter, userTrees, logs, evicted>>

\* DeleteLogs, without a lock.
DeleteLogs(s) ==
    /\ call[s].pc = "logless"
    /\ logs' = [logs EXCEPT ![call[s].user] = FALSE]
    /\ call' = [call EXCEPT ![s] = Resting]
    /\ UNCHANGED <<iter, userTrees, tree, holder, closes, evicted>>

\* shutdown: an iterator goes through the list of trees.
ShutdownBegin ==
    /\ Shutdown # NoSession
    /\ call[Shutdown].pc = "idle" /\ call[Shutdown].op = "Use"
    /\ call' = [call EXCEPT ![Shutdown] = [@ EXCEPT !.pc = "next", !.op = "Close"]]
    /\ iter' = IF userTrees = << >> THEN NoTree ELSE userTrees[1]
    /\ UNCHANGED <<userTrees, tree, logs, holder, closes, evicted>>

\* A tree that was removed from the list meanwhile has no successor.
ShutdownNext ==
    /\ Shutdown # NoSession
    /\ call[Shutdown].pc = "next"
    /\ IF iter = NoTree THEN Goto(Shutdown, "idle") /\ UNCHANGED iter
       ELSE /\ call' = [call EXCEPT ![Shutdown] = [@ EXCEPT !.pc = "close", !.user = tree[iter].user]]
            /\ iter' = IF \E i \in 1..(Len(userTrees) - 1) : userTrees[i] = iter
                       THEN userTrees[(CHOOSE i \in 1..(Len(userTrees) - 1) : userTrees[i] = iter) + 1] ELSE NoTree
    /\ UNCHANGED <<userTrees, tree, logs, holder, closes, evicted>>

-----------------------------------------------------------------------------
Step(s) ==
    \/ LoadCached(s) \/ LoadMiss(s) \/ LoadNone(s) \/ NewLogs(s) \/ NewTree(s) \/ NewTreeFails(s)
    \/ Use(s) \/ CloseRemove(s) \/ CloseTree(s) \/ DeleteLogs(s)

TreesNext ==
    /\ \/ \E s \in Session, op \in {"Use", "Delete", "Close"}, u \in User : Begin(s, op, u)
       \/ \E s \in Session : Step(s)
       \/ ShutdownBegin \/ ShutdownNext
    /\ UNCHANGED setting

TreesSpec == TreesInit /\ [][TreesNext]_<<setting, treesVars>>

-----------------------------------------------------------------------------
\* The trees of u that can write its log: those in the cache, and those that
\* a session has its hands on.
Writers(u) ==
    {t \in DOMAIN tree : /\ tree[t].user = u /\ tree[t].open
                         /\ \/ t \in Range(userTrees)
                            \/ \E s \in Session : call[s].tree = t}

\* "Only one Writer per user can be opened in a directory": a user never has
\* two trees that write the same log, as long as no tree has fallen out of
\* userTrees and the server is not being shut down.
OneWriter ==
    ~evicted /\ Shutdown = NoSession => \A u \in User : \A t1, t2 \in Writers(u) : t1 = t2

\* A tree that is in the cache is open: it is removed before it is closed.
CachedIsOpen == \A t \in Range(userTrees) : tree[t].open

\* No tree is closed twice, which would be a panic, not even by a shutdown
\* that races with sessions that are closed.
ClosedOnce == \A t \in DOMAIN closes : closes[t] <= 1

\* No log has two writers while no tree has fallen out of the cache, cached
\* trees are open, and no tree is closed twice (loadTreeFor, closeTree, shutdown).
TreesAreRight == OneWriter /\ CachedIsOpen /\ ClosedOnce

=============================================================================
