-------------------------------- MODULE Tree --------------------------------
(***************************************************************************)
(* The directory tree of one user (dir/server/tree/tree.go, blocks.go and  *)
(* the LogIndex of log.go), as the DirServer drives it.                    *)
(*                                                                         *)
(* The tree keeps some nodes in memory, loads the others from the          *)
(* StoreServer on demand, records every change in the user's log and, on   *)
(* flush, stores the dirty directories bottom up before it saves the log   *)
(* offset and the root entry in the LogIndex.  After a crash New replays   *)
(* the log from the saved offset on top of the saved root.                 *)
(*                                                                         *)
(* A tree holds its mutex for a whole operation, so operations are single  *)
(* actions, except that flush and log replay take several steps: a crash   *)
(* may fall between any two of them.                                       *)
(*                                                                         *)
(* Blocks are content addressed and never change, so a reference is        *)
(* modelled by what it refers to: the blocks of a packed directory are a   *)
(* function from the paths below it, relative to it, to the entries packed *)
(* there.  Loading a directory takes its blocks apart again.               *)
(***************************************************************************)
EXTENDS Paths

CONSTANTS
    Elem,      \* path elements
    Path,      \* path names, as sequences of elements; the root is <<>>
    Val,       \* what a file can hold: its blocks, packdata, time, writer...
    Faults,    \* which of the failures below may happen
    MaxLog,    \* bound on the number of records in the log
    MaxFails   \* bound on the number of failed appends, stores and saves

\* Path names are closed under First(n).  The failures:
\*   append  the log append of a Put or Delete fails with nothing written
\*   torn    the process dies halfway through an append
\*   store   the StoreServer cannot be reached or refuses a block
\*   save    the save of the log's offset that ends a flush fails
\*   create  the one or the other happens to the flush of createRoot
\*   window  the process dies between the two saves that end a flush, or the
\*           second of them fails
\*   delete  the process dies between the two steps that end deleteRoot
\*   unseen  Delete is called on a directory whose kids are not in memory
\*           (the DirServer looks up its Access file first, which loads them)
ASSUME TreeAssumption ==
    /\ Path \subseteq Seq(Elem)
    /\ Root \in Path
    /\ \A p \in Path : Prefixes(p) \subseteq Path
    /\ Faults \subseteq {"append", "torn", "store", "save", "create", "window", "delete", "unseen"}
    /\ MaxLog \in Nat
    /\ MaxFails \in Nat

-----------------------------------------------------------------------------
(* Entries, and what a directory's blocks hold. *)

\* Attributes of a DirEntry.  The content of a directory is in its blocks and
\* a link's target is not interpreted by the tree, so both have no Val.
Kinds == {"dir", "file", "link"}
NoVal == "none"
Bare == [kind : Kinds, seq : Nat, val : Val \cup {NoVal}]

\* Nothing packed, and nothing in memory.
NoBlocks == [r \in {} |-> r]
NoNodes == [p \in {} |-> p]

Strip(e) == [kind |-> e.kind, seq |-> e.seq, val |-> e.val]
Dress(b, blocks) ==
    [kind |-> b.kind, seq |-> b.seq, val |-> b.val, blocks |-> blocks]

\* A new directory entry, and a file or link entry with sequence number s.
NewDir == [kind |-> "dir", seq |-> 0, val |-> NoVal, blocks |-> NoBlocks]
Leaf(k, s, v) == [kind |-> k, seq |-> s, val |-> v, blocks |-> NoBlocks]

Kids(N, d) == {k \in DOMAIN N : k # Root /\ Parent(k) = d}

\* What store packs for directory d: every kid's entry, and through the
\* references in the kids' entries all that they hold.
Pack(N, d) ==
    LET below == UNION {{Rel(k, d)} \cup {Rel(k, d) \o r : r \in DOMAIN N[k].blocks}
                           : k \in Kids(N, d)}
    IN  [x \in below |->
            LET k == Append(d, Head(x))
            IN  IF Len(x) = 1 THEN Strip(N[k]) ELSE N[k].blocks[Tail(x)]]

\* The entry at x in blocks b, with the part of b that it refers to.
Under(b, x) == {y \in DOMAIN b : HasPrefix(y, x) /\ y # x}

Fetch(b, x) == Dress(b[x], [r \in {Rel(y, x) : y \in Under(b, x)} |-> b[x \o r]])

\* loadKids for the directories of D that have blocks and are not loaded.  D
\* is a chain from the root down, so at most one of them is in N; those below
\* it come out of its blocks.
Unread(N, L, D) == {d \in (D \cap DOMAIN N) \ L : N[d].blocks # NoBlocks}

Fresh(N, L, D) ==
    UNION {{d \o y : y \in {z \in DOMAIN N[d].blocks : Parent(d \o z) \in D}}
              : d \in Unread(N, L, D)}

Owner(N, L, D, q) == CHOOSE d \in Unread(N, L, D) : HasPrefix(q, d)

LoadNodes(N, L, D) ==
    [q \in DOMAIN N \cup Fresh(N, L, D) |->
        IF q \in DOMAIN N THEN N[q]
        ELSE LET d == Owner(N, L, D, q) IN Fetch(N[d].blocks, Rel(q, d))]

LoadedDirs(N, L, D) == L \cup Unread(LoadNodes(N, L, D), L, D)

-----------------------------------------------------------------------------
VARIABLES
    status,    \* "down", "replay" (in New), "up", or "failed" (New gave up)
    t,         \* the Tree in memory
    log,       \* the records of the user's log
    index,     \* the LogIndex: offset file and root file
    phase,     \* what the operation that holds the mutex does next
    todo,      \* dirty nodes the running flush has yet to store
    cont,      \* what the flush was called for
    curr,      \* the offset recoverFromLog has reached
    fails      \* number of appends, stores and saves that have failed

vars == <<status, t, log, index, phase, todo, cont, curr, fails>>

\* The Tree just after New: nothing loaded, t.root is nil.
EmptyTree == [node |-> NoNodes, loaded |-> {}, dirty |-> {}, dirtyNodes |-> {}]

\* Offsets count records: the log is one file, shorter than maxLogSize.
LastOffset == Len(log)

Init ==
    /\ status = "down"
    /\ t = EmptyTree
    /\ log = << >>
    /\ index = [offset |-> 0, root |-> NoNodes]
    /\ phase = "idle"
    /\ todo = {}
    /\ cont = "return"
    /\ curr = 0
    /\ fails = 0

-----------------------------------------------------------------------------
(* The operations on the nodes in memory. *)

HasRoot(x) == Root \in DOMAIN x.node

\* loadRoot: read the root file unless the root is in memory.
loadRoot(x) == IF HasRoot(x) THEN x ELSE [x EXCEPT !.node = index.root]

Load(x, D) ==
    [x EXCEPT !.node = LoadNodes(x.node, x.loaded, D),
              !.loaded = LoadedDirs(x.node, x.loaded, D)]

\* loadPath loads every directory above p.  loadDir loads p too.
loadPath(x, p) == Load(loadRoot(x), Ancestors(p))
loadDir(x, p) == Load(loadRoot(x), Prefixes(p))

NextSeq(e) == [e EXCEPT !.seq = @ + 1]

\* Mutant of markDirty: the directories above p are left clean.
markDirtyLast(x, p) ==
    [x EXCEPT !.node = [q \in DOMAIN @ |-> IF q = p THEN NextSeq(@[q]) ELSE @[q]],
              !.dirty = @ \cup {p},
              !.dirtyNodes = @ \cup {p}]

\* markDirty marks the directories from the root to p and gives each its next
\* sequence number.
markDirty(x, p) ==
    [x EXCEPT !.node = [q \in DOMAIN @ |->
                           IF q \in Prefixes(p) THEN NextSeq(@[q]) ELSE @[q]],
              !.dirty = @ \cup Prefixes(p),
              !.dirtyNodes = @ \cup Prefixes(p)]

IsDir(x, p) == p \in DOMAIN x.node /\ x.node[p].kind = "dir"

\* put.  A directory without kids in memory that is dirty is taken to be new;
\* otherwise addKid loads its kids first.  Nodes that p replaces may stay on
\* flush's list; storing them there changes nothing in the tree.
CanPut(x, p) == IsDir(loadPath(x, Parent(p)), Parent(p))

\* Mutant of put: addKid never loads the kids.
putUnread(x, p, e) ==
    LET y == loadPath(x, Parent(p))
    IN  markDirty([node |-> [q \in DOMAIN y.node \cup {p} |->
                               IF q = p THEN e ELSE y.node[q]],
                   loaded |-> y.loaded \cup {Parent(p)},
                   dirty |-> y.dirty,
                   dirtyNodes |-> y.dirtyNodes],
                  IF e.kind = "dir" /\ e.blocks = NoBlocks THEN p ELSE Parent(p))

put(x, p, e) ==
    LET par == Parent(p)
        y == IF par \in x.dirty THEN loadPath(x, par) ELSE loadDir(x, par)
        old == {q \in DOMAIN y.node : HasPrefix(q, p)}
        added == [node |-> [q \in (DOMAIN y.node \ old) \cup {p} |->
                               IF q = p THEN e ELSE y.node[q]],
                  loaded |-> (y.loaded \cup {par}) \ old,
                  dirty |-> y.dirty \ old,
                  dirtyNodes |-> y.dirtyNodes \ old]
    IN  markDirty(added, IF e.kind = "dir" /\ e.blocks = NoBlocks THEN p ELSE par)

\* delete.  Whether the node has kids is decided by those in memory.
CanDelete(x, p) ==
    LET y == loadDir(x, Parent(p))
    IN  p \in DOMAIN y.node /\ Kids(y.node, p) = {}

\* Mutant of delete: without markDirty.
deleteClean(x, p) ==
    LET y == loadDir(x, Parent(p))
    IN  [y EXCEPT !.node = [q \in DOMAIN @ \ {p} |-> @[q]],
                  !.loaded = @ \ {p},
                  !.dirty = @ \ {p},
                  !.dirtyNodes = @ \ {p}]

delete(x, p) ==
    LET y == loadDir(x, Parent(p))
        gone == [node |-> [q \in DOMAIN y.node \ {p} |-> y.node[q]],
                 loaded |-> y.loaded \ {p},
                 dirty |-> y.dirty \ {p},
                 dirtyNodes |-> y.dirtyNodes \ {p}]
    IN  markDirty(gone, Parent(p))

-----------------------------------------------------------------------------
(* Opening the tree: loadTreeFor opens the log files and calls New. *)

\* Mutant of Open: the offset is kept when the root is gone.
OpenAtOffset ==
    /\ status \in {"down", "failed"}
    /\ curr' = IF index.offset = LastOffset THEN 0 ELSE index.offset
    /\ status' = IF index.offset = LastOffset THEN "up"
                 ELSE IF index.root = NoNodes THEN "failed" ELSE "replay"
    /\ t' = IF index.offset = LastOffset THEN EmptyTree
            ELSE [EmptyTree EXCEPT !.node = index.root]
    /\ UNCHANGED <<log, index, phase, todo, cont, fails>>

\* A user without a root starts at offset 0.  A log that is longer than what
\* the index has seen is replayed, on top of the root file.
Open ==
    /\ status \in {"down", "failed"}
    /\ LET offset == IF index.root = NoNodes THEN 0 ELSE index.offset
       IN  /\ index' = [index EXCEPT !.offset = offset]
           /\ curr' = IF offset = LastOffset THEN 0 ELSE offset
           /\ status' = IF offset = LastOffset THEN "up"
                        ELSE IF index.root = NoNodes THEN "failed" ELSE "replay"
           /\ t' = IF offset = LastOffset THEN EmptyTree
                   ELSE [EmptyTree EXCEPT !.node = index.root]
    /\ UNCHANGED <<log, phase, todo, cont, fails>>

\* One round of the loop of recoverFromLog.
ReplayRecord ==
    /\ status = "replay"
    /\ curr < LastOffset
    /\ LET r == log[curr + 1]
       IN  \/ /\ r.op = "put" /\ CanPut(t, r.path)
              /\ t' = put(t, r.path, r.entry)
              /\ curr' = curr + 1
              /\ UNCHANGED <<status, log>>
           \/ /\ r.op = "delete" /\ CanDelete(t, r.path)
              /\ t' = delete(t, r.path)
              /\ curr' = curr + 1
              /\ UNCHANGED <<status, log>>
    /\ UNCHANGED <<index, phase, todo, cont, fails>>

\* The loop ends at the end of the log; or at a record that it cannot apply.
\* A record that it cannot read makes it truncate the log there: Truncate
\* gives the file the length fileOffset - offset, which the file refuses
\* when it is negative.
ReplayEnd ==
    /\ status = "replay"
    /\ curr < LastOffset =>
          LET r == log[curr + 1]
          IN  \/ r.op = "torn"
              \/ r.op = "put" /\ ~CanPut(t, r.path)
              \/ r.op = "delete" /\ ~CanDelete(t, r.path)
    /\ LET cut == curr < LastOffset /\ log[curr + 1].op = "torn" /\ curr = 0
       IN  /\ status' = IF curr = LastOffset \/ cut THEN "up" ELSE "failed"
           /\ t' = IF curr = LastOffset \/ cut THEN t ELSE EmptyTree
           /\ log' = IF cut THEN << >> ELSE log
    /\ curr' = 0
    /\ UNCHANGED <<index, phase, todo, cont, fails>>

\* The process dies.  What is in memory is gone.
Crash ==
    /\ status # "down"
    /\ phase = "root" => "window" \in Faults
    /\ phase = "truncate" => "delete" \in Faults
    /\ status' = "down"
    /\ t' = EmptyTree
    /\ phase' = "idle"
    /\ todo' = {}
    /\ cont' = "return"
    /\ curr' = 0
    /\ UNCHANGED <<log, index, fails>>

-----------------------------------------------------------------------------
(* flush: store the dirty nodes from the deepest level up to the root, then *)
(* save the log's offset and the root entry.                                *)

Idle == status = "up" /\ phase = "idle"

\* Start a flush of x on behalf of c.
StartFlush(x, c) ==
    /\ t' = x
    /\ phase' = "store"
    /\ todo' = x.dirtyNodes
    /\ cont' = c

\* The operation that called flush is over, with x in memory.
Finish(x) ==
    /\ phase' = "idle"
    /\ todo' = {}
    /\ cont' = "return"
    /\ status' = IF cont = "close" THEN "down" ELSE status
    /\ t' = IF cont = "close" THEN EmptyTree ELSE x

\* Mutant of Deepest: from the root down.
Shallowest(d) == \A q \in todo : Len(d) <= Len(q)

Deepest(d) == \A q \in todo : Len(q) <= Len(d)

DirtyKids(d) == Kids(t.node, d) \cap t.dirty

\* store(d).  It gives up if it finds a dirty kid.
StoreNode(d) ==
    /\ phase = "store"
    /\ d \in todo
    /\ Deepest(d)
    /\ IF DirtyKids(d) = {}
       THEN /\ t' = [t EXCEPT !.node[d].blocks = Pack(t.node, d),
                              !.dirty = @ \ {d}]
            /\ todo' = todo \ {d}
            /\ UNCHANGED <<phase, cont, status>>
       ELSE Finish([t EXCEPT !.node[d].blocks = NoBlocks])
    /\ UNCHANGED <<log, index, curr, fails>>

\* There is no StoreServer, or it refuses a block of d, which by then has lost
\* the blocks it had.  The flush ends with every other node as it is.
StoreFails(d) ==
    /\ "store" \in Faults
    /\ index.root = NoNodes => "create" \in Faults
    /\ fails < MaxFails
    /\ phase = "store"
    /\ d \in todo
    /\ Deepest(d)
    /\ Finish(t) \/ Finish([t EXCEPT !.node[d].blocks = NoBlocks])
    /\ fails' = fails + 1
    /\ UNCHANGED <<log, index, curr>>

SaveOffset ==
    /\ phase = "store"
    /\ todo = {}
    /\ t' = [t EXCEPT !.dirtyNodes = {}]
    /\ index' = [index EXCEPT !.offset = LastOffset]
    /\ phase' = "root"
    /\ UNCHANGED <<status, log, todo, cont, curr, fails>>

SaveRoot ==
    /\ phase = "root"
    /\ index' = [index EXCEPT !.root = [p \in {Root} |-> t.node[Root]]]
    /\ IF cont = "delete"
       THEN phase' = "delete" /\ UNCHANGED <<status, t, todo, cont>>
       ELSE Finish(t)
    /\ UNCHANGED <<log, curr, fails>>

\* Either save fails, with nothing written.
SaveFails ==
    /\ fails < MaxFails
    /\ index.root = NoNodes => "create" \in Faults
    /\ \/ /\ "save" \in Faults
          /\ phase = "store"
          /\ todo = {}
          /\ Finish([t EXCEPT !.dirtyNodes = {}])
       \/ /\ "window" \in Faults
          /\ phase = "root"
          /\ Finish(t)
    /\ fails' = fails + 1
    /\ UNCHANGED <<log, index, curr>>

\* deleteRoot after its flush: empty the root file, then the log.
DeleteRootFile ==
    /\ phase = "delete"
    /\ index' = [index EXCEPT !.root = NoNodes]
    /\ phase' = "truncate"
    /\ UNCHANGED <<status, t, log, todo, cont, curr, fails>>

TruncateLog ==
    /\ phase = "truncate"
    /\ log' = << >>
    /\ Finish(EmptyTree)
    /\ UNCHANGED <<index, curr, fails>>

-----------------------------------------------------------------------------
(* The tree's operations.                                                  *)

RootExists == HasRoot(loadRoot(t))

\* Put of a root: createRoot.  The log must be empty.  The root is flushed.
\* The DirServer has looked for the root before.
PutRoot ==
    /\ Idle
    /\ ~HasRoot(t)
    /\ index.root = NoNodes \/ "unseen" \in Faults
    /\ LastOffset = 0
    /\ StartFlush(markDirty([t EXCEPT !.node = [p \in {Root} |-> NewDir]], Root),
                  "return")
    /\ UNCHANGED <<status, log, index, curr, fails>>

Record(op, p, e) == [op |-> op, path |-> p, entry |-> e]

\* The append that ends a Put or Delete fails, and x stays in memory; or the
\* process dies in the middle of it.
AppendFails(x) ==
    /\ "append" \in Faults
    /\ fails < MaxFails
    /\ fails' = fails + 1
    /\ t' = x
    /\ UNCHANGED <<log, status>>

AppendTorn(r) ==
    /\ "torn" \in Faults
    /\ Len(log) < MaxLog
    /\ log' = Append(log, [r EXCEPT !.op = "torn"])
    /\ t' = EmptyTree
    /\ status' = "down"
    /\ UNCHANGED fails

Logged(x, r) ==
    \/ /\ Len(log) < MaxLog
       /\ log' = Append(log, r)
       /\ t' = x
       /\ UNCHANGED <<status, fails>>
    \/ AppendFails(x)
    \/ AppendTorn(r)

\* Mutant of Put: anything may be overwritten.
PutOver(p, k, v) ==
    /\ Idle
    /\ RootExists
    /\ p # Root
    /\ CanPut(t, p)
    /\ LET e == IF k = "dir" THEN NewDir ELSE Leaf(k, 1, v)
       IN  Logged(put(t, p, e), Record("put", p, e))
    /\ UNCHANGED <<index, phase, todo, cont, curr>>

\* Put, after the DirServer's checks: a directory is never overwritten and
\* never overwrites; a file's next sequence number follows the one it has.
Put(p, k, v) ==
    /\ Idle
    /\ RootExists
    /\ p # Root
    /\ CanPut(t, p)
    /\ LET N == loadDir(t, Parent(p)).node
           seq == IF p \in DOMAIN N THEN N[p].seq + 1 ELSE 1
           e == IF k = "dir" THEN NewDir ELSE Leaf(k, seq, v)
       IN  /\ p \in DOMAIN N => N[p].kind = "file" /\ k # "dir"
           /\ Logged(put(t, p, e), Record("put", p, e))
    /\ UNCHANGED <<index, phase, todo, cont, curr>>

\* PutDir: dst, which must not exist, gets the entry of the directory src as
\* it was last stored; then the tree is flushed.  takeSnapshot looks src up in
\* a call of its own; what comes between the two calls is in Snapshot.
PutDir(src, dst) ==
    /\ Idle
    /\ RootExists
    /\ dst # Root
    /\ LET x == loadPath(t, src)
           y == put(x, dst, x.node[src])
           r == Record("put", dst, y.node[dst])
       IN  /\ IsDir(x, src)
           /\ src \notin x.dirty
           /\ CanPut(x, dst)
           /\ dst \notin DOMAIN loadDir(x, Parent(dst)).node
           /\ \A q \in DOMAIN x.node[src].blocks : dst \o q \in Path
           /\ \/ /\ Len(log) < MaxLog
                 /\ log' = Append(log, r)
                 /\ StartFlush(y, "return")
                 /\ UNCHANGED <<status, fails>>
              \/ /\ AppendFails(y) \/ AppendTorn(r)
                 /\ UNCHANGED <<phase, todo, cont>>
    /\ UNCHANGED <<index, curr>>

\* Lookup and List only load.  So does a Put or a Delete that fails.
Lookup(p) ==
    /\ Idle
    /\ RootExists
    /\ t' = loadPath(t, p)
    /\ UNCHANGED <<status, log, index, phase, todo, cont, curr, fails>>

List(p) ==
    /\ Idle
    /\ RootExists
    /\ IsDir(loadPath(t, p), p)
    /\ t' = loadDir(t, p)
    /\ UNCHANGED <<status, log, index, phase, todo, cont, curr, fails>>

Seen(x, p) == p \in x.loaded \/ x.node[p].blocks = NoBlocks \/ "unseen" \in Faults

Delete(p) ==
    /\ Idle
    /\ RootExists
    /\ p # Root
    /\ CanDelete(t, p)
    /\ LET x == loadDir(t, Parent(p))
       IN  /\ Seen(x, p)
           /\ Logged(delete(t, p), Record("delete", p, x.node[p]))
    /\ UNCHANGED <<index, phase, todo, cont, curr>>

DeleteRoot ==
    /\ Idle
    /\ HasRoot(t)
    /\ Kids(t.node, Root) = {}
    /\ Seen(t, Root)
    /\ StartFlush(t, "delete")
    /\ UNCHANGED <<status, log, index, curr, fails>>

\* Flush, also called on eviction and by Watch.
Flush ==
    /\ Idle
    /\ RootExists
    /\ StartFlush(loadRoot(t), "return")
    /\ UNCHANGED <<status, log, index, curr, fails>>

\* Close flushes a tree that has its root in memory.
Close ==
    /\ Idle
    /\ HasRoot(t)
    /\ StartFlush(t, "close")
    /\ UNCHANGED <<status, log, index, curr, fails>>

CloseUnread ==
    /\ Idle
    /\ ~HasRoot(t)
    /\ status' = "down"
    /\ t' = EmptyTree
    /\ UNCHANGED <<log, index, phase, todo, cont, curr, fails>>

Next ==
    \/ Open \/ ReplayRecord \/ ReplayEnd \/ Crash
    \/ \E d \in todo : StoreNode(d) \/ StoreFails(d)
    \/ SaveOffset \/ SaveRoot \/ SaveFails \/ DeleteRootFile \/ TruncateLog
    \/ PutRoot
    \/ \E p \in Path : \/ Put(p, "dir", NoVal)
                       \/ Put(p, "link", NoVal)
                       \/ \E v \in Val : Put(p, "file", v)
                       \/ \E q \in Path : PutDir(p, q)
                       \/ Lookup(p) \/ List(p) \/ Delete(p)
    \/ DeleteRoot \/ Flush \/ Close \/ CloseUnread

Spec == Init /\ [][Next]_vars

-----------------------------------------------------------------------------
(* What holds of the tree in memory. *)

\* A path is packed below a directory only together with the directories
\* in between.
IsBlocks(b) ==
    /\ b = [r \in DOMAIN b |-> b[r]]
    /\ DOMAIN b \subseteq Seq(Elem) \ {Root}
    /\ \A r \in DOMAIN b :
          /\ b[r] \in Bare
          /\ \A q \in Ancestors(r) \ {Root} : q \in DOMAIN b /\ b[q].kind = "dir"

\* Only a directory has blocks that the tree looks into.
IsEntry(e) ==
    /\ e = Dress(e, e.blocks)
    /\ Strip(e) \in Bare
    /\ IsBlocks(e.blocks)
    /\ e.kind # "dir" => DOMAIN e.blocks = {}

\* Entry e fits at p: the paths below it are path names.
FitsAt(e, p) == IsEntry(e) /\ \A r \in DOMAIN e.blocks : p \o r \in Path

IsNodes(N) ==
    /\ N = [p \in DOMAIN N |-> N[p]]
    /\ DOMAIN N \subseteq Path
    /\ \A p \in DOMAIN N : FitsAt(N[p], p)

IsTree(x) ==
    /\ x = [node |-> x.node, loaded |-> x.loaded, dirty |-> x.dirty,
            dirtyNodes |-> x.dirtyNodes]
    /\ IsNodes(x.node)
    /\ x.loaded \subseteq DOMAIN x.node
    /\ x.dirty \subseteq DOMAIN x.node
    /\ x.dirtyNodes \subseteq DOMAIN x.node

IsRecord(r) ==
    /\ r = Record(r.op, r.path, r.entry)
    /\ r.op \in {"put", "delete", "torn"}
    /\ r.path \in Path \ {Root}
    /\ FitsAt(r.entry, r.path)

\* The types of the variables.  A flush runs in an open tree whose root is in
\* memory, and when it stores no more nodes there is none left to store.
TypeOK ==
    /\ status \in {"down", "replay", "up", "failed"}
    /\ IsTree(t)
    /\ log = [i \in 1..Len(log) |-> log[i]]
    /\ Len(log) \in 0..MaxLog
    /\ \A i \in 1..Len(log) : IsRecord(log[i])
    /\ index = [offset |-> index.offset, root |-> index.root]
    /\ index.offset \in 0..MaxLog
    /\ IsNodes(index.root)
    /\ DOMAIN index.root \subseteq {Root}
    /\ phase \in {"idle", "store", "root", "delete", "truncate"}
    /\ todo \subseteq t.dirtyNodes
    /\ cont \in {"return", "delete", "close"}
    /\ curr \in 0..MaxLog
    /\ fails \in 0..MaxFails
    /\ phase # "idle" => status = "up" /\ HasRoot(t)
    /\ phase # "store" => todo = {}

\* The directories above a node are in memory with their kids, and only
\* directories have kids: no Put, Delete or load leaves a node that a walk
\* from the root cannot reach.
WellFormed ==
    /\ \A d \in t.loaded : t.node[d].kind = "dir"
    /\ \A p \in DOMAIN t.node : Ancestors(p) \subseteq t.loaded

\* A dirty node is a directory on the list flush works through, and so are
\* all the directories above it: a flush, even after one that failed half
\* way, misses no change.  While it runs the dirty nodes are still to come;
\* when it is done there are none.
DirtyReachesRoot ==
    /\ \A d \in t.dirty : t.node[d].kind = "dir" /\ Ancestors(d) \subseteq t.dirty
    /\ \A d \in t.dirtyNodes : t.node[d].kind = "dir"
    /\ t.dirty \subseteq t.dirtyNodes
    /\ phase = "store" => t.dirty \subseteq todo
    /\ phase \in {"root", "delete", "truncate"} => t.dirty = {}

\* addKid relies on it: a dirty directory without kids in memory is new, and
\* nothing is stored for it that a new kids map would hide.
NoHiddenKids ==
    \A d \in t.dirty \ t.loaded : t.node[d].blocks = NoBlocks

\* The structure of the tree in memory, which every operation, every failure
\* and every crash keeps: the inductive invariant.
IInv == TypeOK /\ WellFormed /\ DirtyReachesRoot /\ NoHiddenKids

\* What Lookup promises of an entry that is not dirty: its references are up
\* to date, down to the last entry below it.  There is an exception: when a
\* flush has failed, the next one stores once more the nodes that are clean by
\* now, and if that fails such a node is without blocks (blocks.go:35) and
\* still clean.  It is then on flush's list, so nothing is lost for good, but
\* until a flush succeeds Lookup returns it as an empty directory.
CleanIsPacked ==
    \A d \in t.loaded \ t.dirty :
        \/ t.node[d].blocks = Pack(t.node, d)
        \/ d \in t.dirtyNodes /\ fails >= 2 /\ t.node[d].blocks = NoBlocks

\* store's internal error, "kid node is dirty", never happens.
StoreMeetsNoDirtyKid ==
    \A d \in todo : Deepest(d) => DirtyKids(d) = {}

\* Of the moments at which the process may die, there are two that New does not
\* recover from: in the middle of an append, unless that was the first record
\* of the log (Truncate refuses any other place, log.go:473), and in deleteRoot
\* between emptying the root file and the log (tree.go:665).  After any other,
\* every record in the log applies to the tree as of the saved root.  This is
\* for a log and an index that were written as asked: after a failed append,
\* which leaves its change in memory (tree.go:194), after a createRoot that
\* could not flush and leaves its root in memory (tree.go:508-517), or after a
\* crash between the two saves of a flush, records may be in the log that no
\* saved tree fits.
NewNeverFails ==
    status = "failed" =>
        \/ LastOffset > 1 /\ log[LastOffset].op = "torn"
        \/ LastOffset > 0 /\ index.root = NoNodes

=============================================================================
