----------------------------- MODULE MCDirServer -----------------------------
(***************************************************************************)
(* Model checking of what goes on at once in a directory server: the files *)
(* of a log and their readers (part "log"), the watchers of a tree         *)
(* (part "watch"), and the requests of sessions (part "server").  The      *)
(* variables of the other parts do not move.                               *)
(***************************************************************************)
EXTENDS Integers, Sequences, FiniteSets, TLC

CONSTANTS
    Parts,                              \* the parts to check
    small, large, r1, LogSettings,      \* entries and a reader of the log
    a, b, c1, c2, WatchSettings,        \* path elements and watchers
    alice, bob, a1, a2, b1, Requests    \* users and their sessions

VARIABLES
    part,
    logSetting, dir, data, writer, reader,               \* TreeLog
    watchSetting, node, at, log, then, saved, shutdown, w, \* TreeWatch
    asked, tree, dirty, access, groups, remoteGroups, call, seen, requests, refreshes \* DirServer

\* A small entry and a large one, in files of two cells.
L == INSTANCE TreeLog WITH
    Entry <- {small, large}, Size <- (small :> 1) @@ (large :> 2), MaxLogSize <- 2,
    Reader <- {r1}, MaxOffset <- 6, Settings <- LogSettings, setting <- logSetting

\* Directories / and /a, files /a/b and /b.
W == INSTANCE TreeWatch WITH
    Elem <- {a, b},
    Path <- {<< >>, <<a>>, <<b>>, <<a, b>>}, File <- {<<b>>, <<a, b>>}, Watcher <- {c1, c2},
    MaxOrder <- 4, Settings <- WatchSettings, setting <- watchSetting

\* Two sessions of the owner and one of another user.
S == INSTANCE DirServer WITH
    Session <- {a1, a2, b1}, UserOf <- (a1 :> alice) @@ (a2 :> alice) @@ (b1 :> bob), Owner <- alice,
    MaxRefresh <- 1, Settings <- Requests, setting <- asked

ASSUME PartsAssumption == L!LogAssumption /\ W!WatchAssumption /\ S!DirServerAssumption

logAll == <<logSetting, dir, data, writer, reader>>
watchAll == <<watchSetting, node, at, log, then, saved, shutdown, w>>
serverAll == <<asked, tree, dirty, access, groups, remoteGroups, call, seen, requests, refreshes>>
all == <<part, logAll, watchAll, serverAll>>

-----------------------------------------------------------------------------
(* Settings. *)

\* A log of several files that only grows, and shorter ones that are cut or
\* whose writes fail.
MCLogSettings == {
    [cuts |-> {}, faults |-> {"open"}, max |-> 5],
    [cuts |-> {0, 1, 2}, faults |-> {}, max |-> 3],
    [cuts |-> {}, faults |-> {"short"}, max |-> 3]}

AllOrders == {"start", "current", "new"}
Unwatched == {"put", "delete", "done", "slow", "close"}
Both(p, q) == [c \in {c1, c2} |-> IF c = c1 THEN p ELSE q]

\* One watcher of the file /a/b, one of the directory /a, and both of them
\* while the file itself is replaced and deleted; and one that begins with the
\* tree, while it is flushed.
MCWatchSettings == {
    [by |-> {c1}, path |-> Both(<<a, b>>, <<a>>), orders |-> AllOrders, ops |-> Unwatched, max |-> 4],
    [by |-> {c2}, path |-> Both(<<a, b>>, <<a>>), orders |-> AllOrders, ops |-> Unwatched, max |-> 3],
    [by |-> {c1, c2}, path |-> Both(<<a, b>>, <<a>>), orders |-> {"current"},
     ops |-> {"putWatched", "deleteWatched"}, max |-> 3],
    [by |-> {c2}, path |-> Both(<<a, b>>, <<a>>), orders |-> {"current"},
     ops |-> {"put", "delete", "flush"}, max |-> 4]}

\* Two watchers of the same directory, of which one may be done.
SameDir == {
    [by |-> {c1, c2}, path |-> Both(<<a>>, <<a>>), orders |-> {"new"}, ops |-> {"done"}, max |-> 2]}

SeqIgnore == 0    \* as in DirServer
Put(s, n, k, q, v) == [session |-> s, op |-> "Put", name |-> n, kind |-> k, seq |-> q, val |-> v]
Ask(s, o, n) == [session |-> s, op |-> o, name |-> n, kind |-> "file", seq |-> 0, val |-> {}]

AccessFiles(s) == {Put(s, "Access", "file", SeqIgnore, v) : v \in {"owner", "all"}}
GroupFiles(s) == {Put(s, "Group", "file", SeqIgnore, v) : v \in {{}, {bob}}}

\* One session of the owner makes Access files, the other one d and its file.
OneWriter ==
    AccessFiles(a1) \cup {Put(a2, "d", k, SeqIgnore, {}) : k \in {"file", "dir"}} \cup {Ask(a2, "Delete", "d")}
    \cup {Put(b1, "k", "file", SeqIgnore, {}), Ask(b1, "Lookup", "d"), Ask(b1, "List", "d")}

\* Access and Group files are set up, and both users look and put.
WithGroup ==
    {Put(a1, "Access", "file", SeqIgnore, "group"), Ask(a1, "Delete", "Group")} \cup GroupFiles(a1)
    \cup {Put(a2, "d", "dir", SeqIgnore, {}), Ask(b1, "Lookup", "d"), Put(b1, "k", "file", SeqIgnore, {})}

\* The owner writes the Access file again and again while bob looks.
Rewritten == AccessFiles(a1) \cup {Ask(a1, "Delete", "Access"), Ask(b1, "Lookup", "d")}

\* An Access file for all cannot always be loaded.
Unloadable == {Put(a1, "Access", "file", SeqIgnore, "all"), Ask(b1, "Lookup", "d")}

MCRequests == {[plan |-> OneWriter, maxRequests |-> 3, loadFails |-> FALSE],
               [plan |-> WithGroup, maxRequests |-> 3, loadFails |-> FALSE],
               [plan |-> Rewritten, maxRequests |-> 4, loadFails |-> FALSE],
               [plan |-> Unloadable, maxRequests |-> 3, loadFails |-> TRUE]}

-----------------------------------------------------------------------------

MCInit ==
    /\ part \in Parts
    /\ L!Init
    /\ part = "log" \/ logSetting = CHOOSE s \in LogSettings : TRUE
    /\ W!Init
    /\ part = "watch" \/ watchSetting = CHOOSE s \in WatchSettings : TRUE
    /\ S!Init
    /\ part = "server" \/ asked = CHOOSE s \in Requests : TRUE

MCNext ==
    \/ part = "log" /\ L!Next /\ UNCHANGED <<part, watchAll, serverAll>>
    \/ part = "watch" /\ W!Next /\ UNCHANGED <<part, logAll, serverAll>>
    \/ part = "server" /\ S!Next /\ UNCHANGED <<part, logAll, watchAll>>

LogStep(A) == part = "log" /\ A /\ UNCHANGED <<part, logSetting, watchAll, serverAll>>
WatchStep == part = "watch" /\ (\E c \in {c1, c2} : W!Run(c)) /\ UNCHANGED <<part, watchSetting, logAll, serverAll>>
ServerStep == part = "server" /\ (\E s \in {a1, a2, b1} : S!Step(s)) /\ S!See /\ UNCHANGED <<part, asked, logAll, watchAll>>

\* The fairness of the parts: an Append that has started ends and a Reader that
\* is asked to read reads, watchers run, and so do the sessions of the server.
\* As part never changes, steps of different parts can share a condition.
MCFairness ==
    /\ WF_all(LogStep(L!WriteCell) \/ WatchStep)
    /\ WF_all(LogStep(\E e \in {small, large} : writer.pc = "rotated" /\ L!StartAppend(e)) \/ ServerStep)
    /\ WF_all(LogStep(L!ReadAt(r1)))

MCSpec == MCInit /\ [][MCNext]_all /\ MCFairness

-----------------------------------------------------------------------------

\* Through rotations, truncations and restarts in the middle of either, the
\* files of the log follow each other, and a Reader of a log that is only
\* appended to never meets part of an entry (Writer.Append, Truncate, ReadAt).
LogIsRight == part = "log" => L!FilesTile /\ L!NoReadError

\* The files of the log implement one append-only sequence of entries.
ImplementsAppendLog == L!ImplementsAppendLog

\* What is in the log before a Reader, it will read (Reader.ReadAt).
ReadersCatchUp == part = "log" => L!ReadersCatchUp

\* No watcher sleeps with a change to tell, and what it has told its client is
\* the tree at the order it has reached or, until it has read the log as far as
\* that, at the order of the root it began with (notifyWatchers, watch,
\* sendCurrentAndWatch).
WatchIsRight == part = "watch" => W!NoLostWakeup /\ W!ClientSeesTree

\* Every change below a watched path is sent while the watch goes on.
ChangesAreTold == part = "watch" => W!ChangesAreTold

\* A watcher whose client is done ends, and Tree.Close gets past the watchers.
WatchEnds == part = "watch" => W!WatchEnds

\* "removeDeadWatchers removes all watchers on a node that have closed their
\* done or Event channels", and no others.
LiveStaysListed == part = "watch" => W!LiveStaysListed

\* A right is granted or denied as the tree said at some moment of the decision,
\* and a cached Access file with the sequence number of the one in the tree is
\* that one (accessCache, hasRight).
DecisionIsCurrent == part = "server" => S!DecisionIsCurrent /\ S!CacheAgrees

\* Every request of a session is answered.
RequestsReturn == part = "server" => S!RequestsReturn

==============================================================================
