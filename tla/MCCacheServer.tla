---------------------------- MODULE MCCacheServer ----------------------------
(***************************************************************************)
(* Model checking of the cache server: its cache of directory entries      *)
(* (part "dir") and its cache of blocks (part "store").  The variables of  *)
(* the other part do not move.                                             *)
(***************************************************************************)
EXTENDS DirCache, TLC

CONSTANTS
    Parts,                             \* the parts to check
    c1, c2,                            \* clients
    r1, r2, r3, None, BlockSettings    \* references, for StoreCache

VARIABLES
    part,
    blockSetting, blocks, cr, crLock, cLock, inUse, files, link, stored, proc, acked, faults  \* StoreCache

-----------------------------------------------------------------------------
(* A directory, a file in it, an Access file and a link.  Each setting of    *)
(* DirCache makes one kind of thing happen.                                  *)

dir == <<"d">>
file == <<"d", "f">>
accessFile == <<"Access">>
alias == <<"k">>
behind == <<"k", "x">>

MCName == {dir, file, accessFile, alias, behind}
MCDirs == {dir}
MCLinks == {alias}

R(op, n) == [op |-> op, name |-> n]
By(P, Q) == (c1 :> P) @@ (c2 :> Q)
Apart == (<< >> :> 0) @@ (dir :> 1) @@ (alias :> 2)

Base ==
    [tree |-> <<dir, file>>, max |-> 2, names |-> {file}, foreign |-> 1, others |-> FALSE, unread |-> FALSE,
     plan |-> By({R("Lookup", file), R("Glob", dir)}, {R("Put", file)}),
     ops |-> {}, bucket |-> Apart, rotateAt |-> 3, keep |-> 2]

NewDir == [Base EXCEPT !.tree = << >>, !.plan = By({R("Put", dir)}, {R("Glob", dir)}), !.names = {dir, file}]
Crash == [Base EXCEPT !.tree = <<dir>>, !.plan = By({R("Glob", dir)}, {}), !.ops = {"restart"}]
Trim == [Base EXCEPT !.plan = By({R("Lookup", file)}, {}), !.foreign = 0, !.ops = {"restart", "rotate", "trim"}]
Full == [Base EXCEPT !.plan = By({R("Glob", dir)}, {}), !.ops = {"evict"}, !.foreign = 0]
FullChanging == [Full EXCEPT !.max = 1, !.foreign = 1]
Truncated == [Base EXCEPT !.max = 1, !.plan = By({R("Glob", dir)}, {}), !.ops = {"truncate", "close"}]
Failing == [Base EXCEPT !.plan = By({R("Lookup", file)}, {R("Delete", file)}), !.ops = {"fail"}]

AccessGone ==
    [Base EXCEPT !.tree = <<dir, file, accessFile>>, !.others = TRUE, !.names = {accessFile},
                 !.plan = By({R("WhichAccess", file)}, {R("Delete", accessFile)}), !.foreign = 0]
AccessChanging == [AccessGone EXCEPT !.max = 1, !.foreign = 1]
AccessUnread == [AccessChanging EXCEPT !.unread = TRUE, !.plan = By({R("WhichAccess", file), R("Lookup", dir)}, {})]
AccessNew == [Base EXCEPT !.plan = By({R("WhichAccess", dir)}, {R("Put", accessFile)}), !.foreign = 0]
Linked ==
    [Base EXCEPT !.tree = <<alias>>, !.names = {alias},
                 !.plan = By({R(op, behind) : op \in {"Lookup", "Delete", "WhichAccess"}} \cup {R("Glob", alias)}, {})]

Still == [Base EXCEPT !.plan = By({R("Lookup", file)}, {R("Lookup", file)}), !.foreign = 0]
Moving == [Still EXCEPT !.ops = {"move", "close"}]
NoWatching == [Still EXCEPT !.ops = {"move", "nowatch"}]
Down == [Still EXCEPT !.ops = {"move", "down"}]

MCSettings == {Base, NewDir, Crash, Trim, Full, FullChanging, Truncated, Failing, AccessGone,
               AccessChanging, AccessUnread, AccessNew, Linked, Moving, NoWatching, Down}
MCLinkSettings == {Linked}

-----------------------------------------------------------------------------
(* Block r1 is small, r2 and r3 are large. *)

\* A writeback cache, one that is restarted with blocks to write back, and two
\* that write through.
MCBlockSettings == {
    [refs |-> {r1, r2}, limit |-> 2, maxRefs |-> 1, writethrough |-> FALSE,
     ops |-> {"get", "put"}, faults |-> {}, max |-> 0],
    [refs |-> {r1}, limit |-> 2, maxRefs |-> 1, writethrough |-> FALSE,
     ops |-> {"get", "put", "delete"}, faults |-> {"store", "save", "link", "lose", "restart"}, max |-> 1],
    [refs |-> {r1, r2}, limit |-> 1, maxRefs |-> 2, writethrough |-> TRUE,
     ops |-> {"put"}, faults |-> {"store"}, max |-> 1],
    [refs |-> {r1, r2, r3}, limit |-> 1, maxRefs |-> 3, writethrough |-> TRUE,
     ops |-> {"put"}, faults |-> {}, max |-> 0]}

-----------------------------------------------------------------------------

C == INSTANCE StoreCache WITH
    Ref <- {r1, r2, r3}, Size <- [r \in {r1, r2, r3} |-> IF r = r1 THEN 1 ELSE 2],
    Settings <- BlockSettings, setting <- blockSetting, lru <- blocks, disk <- files

ASSUME BlocksAssumption == C!CacheAssumption

dirAll == <<setting, vars>>
storeAll == <<blockSetting, blocks, cr, crLock, cLock, inUse, files, link, stored, proc, acked, faults>>
all == <<part, dirAll, storeAll>>

MCInit ==
    /\ part \in Parts
    /\ Init
    /\ part = "dir" \/ setting = CHOOSE s \in Settings : TRUE
    /\ C!Init
    /\ part = "store" \/ blockSetting = CHOOSE s \in BlockSettings : TRUE

MCNext ==
    \/ part = "dir" /\ Next /\ UNCHANGED <<part, storeAll>>
    \/ part = "store" /\ C!Next /\ UNCHANGED <<part, dirAll>>

\* Some request or the watcher of the directory cache runs, which is enough as
\* requests and changes are bounded.  Every call of the block cache runs, locks
\* are granted to those who wait, and StoreServers answer.
MCFairness ==
    /\ WF_all(part = "dir" /\ Step /\ UNCHANGED <<part, setting, storeAll>>)
    /\ \A c \in {c1, c2} : SF_all(part = "store" /\ C!Step(c) /\ UNCHANGED <<part, blockSetting, dirAll>>)

MCSpec == MCInit /\ [][MCNext]_all /\ MCFairness

-----------------------------------------------------------------------------

\* The LRU, the directory of cache files and the bytes counted agree, and the
\* block cache goes past its limit by no more than one block of each caller.
CacheAgrees == part = "store" => C!CacheAgrees /\ C!SoftLimit

\* A put that returned success is in the StoreServer or will be written back.
PutIsKept == part = "store" => C!PutIsKept

\* Every request to the directory cache and every call of the block cache
\* returns, whatever locks it waits for.
CallsReturn ==
    /\ RequestsReturn
    /\ part = "store" => C!CallsReturn

==============================================================================
