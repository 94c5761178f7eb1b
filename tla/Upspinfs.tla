------------------------------ MODULE Upspinfs ------------------------------
(***************************************************************************)
(* The file system (cmd/upspinfs) that presents Upspin trees to a kernel.  *)
(*                                                                         *)
(* A node stands for a file or directory that the kernel knows.  While it  *)
(* has handles, a file has a local copy: a file of the cache whose name is *)
(* the reference of its contents, or a temporary one once it has been      *)
(* written.  A flush or a release puts a dirty copy back.                  *)
(*                                                                         *)
(* Contents are numbers, 0 is that of an empty file.  view is what the     *)
(* kernel's user was told: the contents that each name ought to have, and  *)
(* those that it may have instead after a file was cut short.              *)
(***************************************************************************)
EXTENDS Paths, Integers, FiniteSets

CONSTANTS
    Thread,      \* requests are served concurrently
    Name,        \* path names below the user's root
    Dirs,        \* the names that are directories,
    Links,       \* symbolic links
    Xattr,       \* and extended attributes ("._" names)
    Settings     \* names at the start (tree), requests (plan), their number (max), what else
                 \* happens (ops), plain packing

\* ops: putfail (a Put fails), lookfail (a Lookup fails although the name exists),
\* denied (access is), full (the local disk is full), foreign (another client changes a file), forget (the kernel forgets nodes),
\* expire (a name is no longer known to be absent).
ASSUME UpspinfsAssumption ==
    /\ Dirs \cup Links \cup Xattr \subseteq Name
    /\ \A n \in Name : n # Root /\ Parent(n) \in Dirs \cup {Root}
    /\ \A s \in Settings : s.max \in Nat /\ s.plain \in BOOLEAN

Absent == -1
Idle == [op |-> "none", name |-> Root, to |-> Root, node |-> 1, pc |-> "idle", old |-> 0, again |-> FALSE,
         new |-> 0]
Node(n) == [uname |-> n, handles |-> 0, opens |-> 0, cf |-> 0, dirty |-> FALSE, noWB |-> FALSE]

VARIABLES
    setting,    \* one of Settings; it never changes
    srv,        \* the directory server: the reference of each name, or Absent
    store,      \* the contents of each reference; reference 0 is the empty file
    data,       \* the contents of each local file
    files,      \* the names of the cache: reference -> local file
    nodes,      \* all nodes; the first is the user's root
    nodeMap,    \* the node of each name, or 0
    enoent,     \* names that are known to be absent
    kern,       \* the kernel's node for each name, or 0
    view,       \* the contents that each name may have, or Absent
    locks,      \* the nodes that are locked
    fLock,      \* the lock of the file system is held from one step to the next
    req,        \* the request of each thread
    used,       \* how many requests were made
    raced,      \* names that another client or node changed, or for which a Put failed
    crashed     \* a nil pointer was followed

remote == <<srv, store>>
local == <<data, files>>
maps == <<nodeMap, enoent>>
user == <<kern, view, raced>>
vars == <<remote, local, nodes, maps, user, locks, fLock, req, used, crashed>>

Happens(what) == what \in setting.ops
Content(ref) == IF ref <= 0 THEN ref ELSE store[ref]
Exists(n) == n \in Name => srv[n] # Absent
NodeOf(n) == IF n = Root THEN 1 ELSE kern[n]

Init ==
    /\ setting \in Settings
    /\ srv = [n \in Name |-> IF n \in setting.tree THEN 0 ELSE Absent]
    /\ store = << >>
    /\ data = << >>
    /\ files = [r \in {} |-> 0]
    /\ nodes = <<Node(Root)>>
    /\ nodeMap = [n \in Name |-> 0]
    /\ enoent = {}
    /\ kern = [n \in Name |-> 0]
    /\ view = [n \in Name |-> {srv[n]}]
    /\ locks = {}
    /\ fLock = FALSE
    /\ req = [t \in Thread |-> Idle]
    /\ used = 0
    /\ raced = {}
    /\ crashed = FALSE

-----------------------------------------------------------------------------
(* A request comes from the kernel, locks a node, and unlocks it at its end. *)

FileOps == {"Open", "Write", "Truncate", "Flush", "Release"}
Files == Name \ (Dirs \cup Links)
NamesOf(r) == IF r.op \in FileOps \cup {"none"} THEN {} ELSE {r.name, r.to}

\* The kernel opens what it has looked up, creates what it did not find, and uses
\* a file through an open node.  It serves one request at a time about a name.
Sensible(r) ==
    /\ \A u \in Thread : NamesOf(r) \cap NamesOf(req[u]) \subseteq {Root}
    /\ CASE r.op = "Lookup" -> kern[r.name] = 0
         [] r.op \in {"Create", "Mkdir", "Symlink"} ->
                kern[r.name] = 0 /\ (view[r.name] = {Absent} \/ r.name \in enoent)
         [] r.op \in {"Open", "Truncate"} -> kern[r.name] # 0 /\ r.name \in Files
         [] r.op = "Link" -> kern[r.name] # 0 /\ r.name \in Files /\ view[r.to] = {Absent}
         [] r.op \in {"Remove", "Rename"} -> kern[r.name] # 0 /\ r.to \notin Dirs
         [] OTHER -> TRUE

\* The nodes that a request may be for: an open one, that of the file, or that of
\* the directory.  A handle is released once nothing else is done with it.
InUse(n, ops) == Cardinality({u \in Thread : req[u].op \in ops /\ req[u].node = n})
Subjects(r) ==
    CASE r.op \in {"Write", "Flush"} -> {n \in DOMAIN nodes : nodes[n].opens > InUse(n, {"Release"})}
      [] r.op = "Release" -> {n \in DOMAIN nodes : nodes[n].opens > InUse(n, {"Write", "Flush", "Release"})}
      [] r.op \in {"Open", "Truncate"} -> {kern[r.name]}
      [] OTHER -> {NodeOf(Parent(r.name))} \ {0}

Begin(t, r) ==
    /\ req[t].pc = "idle"
    /\ used < setting.max
    /\ used' = used + 1
    /\ Sensible(r)
    /\ \E n \in Subjects(r) :
           req' = [req EXCEPT ![t] = [Idle EXCEPT !.op = r.op, !.name = r.name, !.to = r.to, !.node = n,
                                                  !.pc = "lock", !.new = IF r.op \in {"Write", "Truncate"} THEN used + 1 ELSE 0]]
    /\ UNCHANGED <<remote, local, nodes, maps, user, locks, fLock, crashed>>

Lock(t) ==
    /\ req[t].pc = "lock"
    /\ req[t].node \notin locks
    /\ locks' = locks \cup {req[t].node}
    /\ req' = [req EXCEPT ![t].pc = "run"]
    /\ UNCHANGED <<remote, local, nodes, maps, user, fLock, used, crashed>>

Return(t) ==
    /\ locks' = locks \ {req[t].node, req[t].old}
    /\ req' = [req EXCEPT ![t] = Idle]
At(t, op, pc) == req[t].op = op /\ req[t].pc = pc
To(t, pc) == req' = [req EXCEPT ![t].pc = pc]

exists(n, id) ==
    /\ nodeMap' = [nodeMap EXCEPT ![n] = id]
    /\ enoent' = enoent \ {n}

\* A new node is entered in the map and handed to the kernel.
allocNode(n, node) ==
    /\ nodes' = Append(nodes, node)
    /\ exists(n, Len(nodes) + 1)
    /\ kern' = [kern EXCEPT ![n] = Len(nodes) + 1]

\* A name that the server does not have is remembered, and so is one that it
\* fails to look up.  (When the server says Private, directoryLookup makes up a
\* directory.  That is left out.)
directoryLookup(n) ==
    {n \notin enoent /\ Exists(n)} \cup (IF Happens("lookfail") THEN {FALSE} ELSE {})
EnoentIn(n) ==
    /\ nodeMap' = IF n \in enoent THEN nodeMap ELSE [nodeMap EXCEPT ![n] = 0]
    /\ enoent' = enoent \cup {n}

-----------------------------------------------------------------------------
(* Requests to a directory. *)

Lookup(t) ==
    LET n == req[t].name
    IN  /\ At(t, "Lookup", "run")
        /\ ~fLock
        /\ \E found \in directoryLookup(n) :
               CASE nodeMap[n] # 0 -> kern' = [kern EXCEPT ![n] = nodeMap[n]] /\ UNCHANGED <<nodes, maps>>
                 [] nodeMap[n] = 0 /\ ~found -> EnoentIn(n) /\ UNCHANGED <<nodes, kern>>
                 [] OTHER -> allocNode(n, Node(n))
        /\ Return(t)
        /\ UNCHANGED <<remote, local, view, raced, fLock, used, crashed>>

\* cache.create: a new local file.
Created(node) == [node EXCEPT !.handles = 1, !.opens = 1, !.cf = Len(data) + 1, !.dirty = TRUE]

\* A file is created in the cache; it is put when it is flushed.
Create(t) ==
    LET n == req[t].name
    IN  /\ At(t, "Create", "run")
        /\ ~fLock
        /\ \/ /\ data' = Append(data, 0)
              /\ allocNode(n, Created(Node(n)))
              /\ view' = [view EXCEPT ![n] = {0}]
           \/ Happens("denied") /\ UNCHANGED <<data, nodes, maps, kern, view>>
        /\ Return(t)
        /\ UNCHANGED <<remote, files, raced, fLock, used, crashed>>

PutEntry(t, ok) ==
    LET n == req[t].name
    IN  /\ ~fLock
        /\ IF ok /\ Exists(Parent(n))
           THEN /\ srv' = [srv EXCEPT ![n] = 0]
                /\ view' = [view EXCEPT ![n] = {0}]
                /\ allocNode(n, Node(n))
           ELSE UNCHANGED <<srv, view, nodes, maps, kern>>
        /\ Return(t)
        /\ UNCHANGED <<store, local, raced, fLock, used, crashed>>

Mkdir(t) == At(t, "Mkdir", "run") /\ PutEntry(t, ~Exists(req[t].name))

\* PutLink replaces what has the name.
Symlink(t) == At(t, "Symlink", "run") /\ PutEntry(t, TRUE)

\* PutDuplicate: both names have the same reference.
Link(t) ==
    LET a == req[t].name
        b == req[t].to
    IN  /\ At(t, "Link", "run")
        /\ ~fLock
        /\ IF Exists(a) /\ a \notin Dirs /\ ~Exists(b)
           THEN /\ srv' = [srv EXCEPT ![b] = srv[a]]
                /\ view' = [view EXCEPT ![b] = {Content(srv[a])}]
                /\ allocNode(b, Node(b))
           ELSE UNCHANGED <<srv, view, nodes, maps, kern>>
        /\ Return(t)
        /\ UNCHANGED <<store, local, raced, fLock, used, crashed>>

\* Remove asks the server, then fixes the maps, then stops the write-back of a
\* node that is in use.
Remove(t) ==
    LET n == req[t].name
        kids == {k \in Name : Parent(k) = n /\ Exists(k)}
    IN  /\ At(t, "Remove", "run")
        /\ ~fLock
        /\ \E found \in directoryLookup(n) :
               CASE found /\ kids = {} ->
                        srv' = [srv EXCEPT ![n] = Absent] /\ To(t, "maps") /\ UNCHANGED <<maps, locks>>
                 [] found /\ kids # {} -> Return(t) /\ UNCHANGED <<srv, maps>>
                 [] OTHER -> EnoentIn(n) /\ Return(t) /\ UNCHANGED srv
        /\ UNCHANGED <<store, local, nodes, user, fLock, used, crashed>>

RemoveMaps(t) ==
    LET n == req[t].name
    IN  /\ At(t, "Remove", "maps")
        /\ ~fLock
        /\ nodeMap' = [nodeMap EXCEPT ![n] = 0]
        /\ enoent' = enoent \cup {n}
        /\ crashed' = (nodeMap[n] = 0)
        /\ req' = [req EXCEPT ![t].pc = "noWB", ![t].old = nodeMap[n]]
        /\ UNCHANGED <<remote, local, nodes, user, locks, fLock, used>>

\* Mutant of RemoveDone: an open node is put back later.
RemoveDoneOpen(t) ==
    /\ At(t, "Remove", "noWB")
    /\ req[t].old \notin locks
    /\ kern' = [kern EXCEPT ![req[t].name] = 0]
    /\ view' = [view EXCEPT ![req[t].name] = {Absent}]
    /\ Return(t)
    /\ UNCHANGED <<remote, local, nodes, maps, raced, fLock, used, crashed>>

RemoveDone(t) ==
    /\ At(t, "Remove", "noWB")
    /\ req[t].old \notin locks
    /\ nodes' = [nodes EXCEPT ![req[t].old].noWB = TRUE]
    /\ kern' = [kern EXCEPT ![req[t].name] = 0]
    /\ view' = [view EXCEPT ![req[t].name] = {Absent}]
    /\ Return(t)
    /\ UNCHANGED <<remote, local, maps, raced, fLock, used, crashed>>

\* Rename locks the node that it moves while it holds the lock of the file
\* system.
Rename(t) ==
    /\ At(t, "Rename", "run")
    /\ ~fLock
    /\ fLock' = (nodeMap[req[t].name] # 0)
    /\ To(t, IF nodeMap[req[t].name] # 0 THEN "old" ELSE "dup")
    /\ UNCHANGED <<remote, local, nodes, maps, user, locks, used, crashed>>

\* Mutant of RenameLock: the directory of the new name is locked too, though it
\* may be the one that is locked already.
RenameLockBoth(t) ==
    LET old == nodeMap[req[t].name]
    IN  /\ At(t, "Rename", "old")
        /\ {old, NodeOf(Parent(req[t].to))} \cap locks = {}
        /\ locks' = locks \cup {old}
        /\ fLock' = FALSE
        /\ req' = [req EXCEPT ![t].pc = "dup", ![t].old = old]
        /\ UNCHANGED <<remote, local, nodes, maps, user, used, crashed>>

RenameLock(t) ==
    LET old == nodeMap[req[t].name]
    IN  /\ At(t, "Rename", "old")
        /\ old \notin locks
        /\ locks' = locks \cup {old}
        /\ fLock' = FALSE
        /\ req' = [req EXCEPT ![t].pc = "dup", ![t].old = old]
        /\ UNCHANGED <<remote, local, nodes, maps, user, used, crashed>>

\* client.Rename puts the new name, if it is free, and deletes the old one.
RenameDup(t) ==
    LET a == req[t].name
        b == req[t].to
    IN  /\ At(t, "Rename", "dup")
        /\ CASE Exists(a) /\ a \notin Dirs /\ ~Exists(b) ->
                    srv' = [srv EXCEPT ![b] = srv[a]] /\ To(t, "delOld") /\ UNCHANGED <<locks, fLock>>
             [] Exists(a) /\ a \notin Dirs /\ Exists(b) /\ ~req[t].again ->
                    To(t, "delNew") /\ UNCHANGED <<srv, locks, fLock>>
             [] OTHER -> Return(t) /\ UNCHANGED <<srv, fLock>>
        /\ UNCHANGED <<store, local, nodes, maps, user, used, crashed>>

\* The target is removed and the rename tried once more.
RenameDelNew(t) ==
    LET b == req[t].to
    IN  /\ At(t, "Rename", "delNew")
        /\ ~fLock
        /\ \E found \in directoryLookup(b) :
               IF found
               THEN /\ srv' = [srv EXCEPT ![b] = Absent]
                    /\ req' = [req EXCEPT ![t].pc = "dup", ![t].again = TRUE]
                    /\ UNCHANGED <<maps, locks>>
               ELSE Return(t) /\ EnoentIn(b) /\ UNCHANGED srv
        /\ UNCHANGED <<store, local, nodes, user, fLock, used, crashed>>

RenameDelOld(t) ==
    /\ At(t, "Rename", "delOld")
    /\ srv' = [srv EXCEPT ![req[t].name] = Absent]
    /\ To(t, "maps")
    /\ UNCHANGED <<store, local, nodes, maps, user, locks, fLock, used, crashed>>

\* A node that is in use under the new name keeps that name, as does one that
\* nodeMap has lost: a later write-back then overwrites the file.
RenameMaps(t) ==
    LET a == req[t].name
        b == req[t].to
        old == req[t].old
        busy(n) == n # 0 /\ (nodes[n].opens > 0 \/ InUse(n, FileOps) > 0)
    IN  /\ At(t, "Rename", "maps")
        /\ ~fLock
        /\ nodeMap' = [nodeMap EXCEPT ![a] = 0, ![b] = old]
        /\ enoent' = enoent \ {b}
        /\ nodes' = IF old = 0 THEN nodes ELSE [nodes EXCEPT ![old].uname = b]
        /\ raced' = raced \cup {n \in {a, b} : a \in raced \/ busy(kern[b]) \/ (old = 0 /\ busy(kern[a]))}
        /\ kern' = [kern EXCEPT ![a] = 0, ![b] = kern[a]]
        /\ view' = [view EXCEPT ![a] = {Absent}, ![b] = view[a]]
        /\ Return(t)
        /\ UNCHANGED <<remote, local, fLock, used, crashed>>

-----------------------------------------------------------------------------
(* Requests to a file. *)

Written(n, cs) == view' = [p \in Name |-> IF kern[p] = n THEN cs ELSE view[p]]

\* cache.open: the copy of a reference is found by its name, or read and given
\* that name.  A plain file is always read.
Cached(ref) == ref \in DOMAIN files /\ ~setting.plain
CopyOf(ref) == IF Cached(ref) THEN files[ref] ELSE Len(data) + 1
Named(ref, f) == [r \in DOMAIN files \cup {ref} |-> IF r = ref THEN f ELSE files[r]]
Fetched(ref) == IF Cached(ref) THEN data ELSE Append(data, Content(ref))

\* openFile. A handle whose open failed stays among the node's.
Open(t) ==
    LET n == req[t].node
        node == nodes[n]
        ref == srv[node.uname]
        opened == [node EXCEPT !.handles = @ + 1, !.opens = @ + 1]
    IN  /\ At(t, "Open", "run")
        /\ CASE node.cf # 0 -> nodes' = [nodes EXCEPT ![n] = opened] /\ UNCHANGED local
             [] node.cf = 0 /\ ref = Absent -> nodes' = [nodes EXCEPT ![n].handles = @ + 1] /\ UNCHANGED local
             [] OTHER -> /\ nodes' = [nodes EXCEPT ![n] = [opened EXCEPT !.cf = CopyOf(ref)]]
                         /\ files' = Named(ref, CopyOf(ref))
                         /\ data' = Fetched(ref)
        /\ Return(t)
        /\ UNCHANGED <<remote, maps, user, fLock, used, crashed>>

OpenDenied(t) ==
    /\ At(t, "Open", "run")
    /\ Happens("denied")
    /\ Return(t)
    /\ UNCHANGED <<remote, local, nodes, maps, user, fLock, used, crashed>>

\* Mutant of Modify: the copy of a reference is written in place.
ModifyInPlace(n, c) ==
    /\ data' = [data EXCEPT ![nodes[n].cf] = c]
    /\ nodes' = [nodes EXCEPT ![n].dirty = TRUE]

\* markDirty, clone(-1): a clean file is copied before it is changed.
Modify(n, c) ==
    IF nodes[n].dirty
    THEN data' = [data EXCEPT ![nodes[n].cf] = c] /\ UNCHANGED nodes
    ELSE data' = Append(data, c) /\ nodes' = [nodes EXCEPT ![n].cf = Len(data) + 1, ![n].dirty = TRUE]

Write(t) ==
    LET n == req[t].node
    IN  /\ At(t, "Write", "run")
        /\ Modify(n, req[t].new)
        /\ Written(n, {req[t].new})
        /\ Return(t)
        /\ UNCHANGED <<remote, files, maps, kern, raced, fLock, used, crashed>>

\* When the file cannot be copied, the write goes to the file of the reference
\* and no error is returned.
WriteFull(t) ==
    LET n == req[t].node
    IN  /\ At(t, "Write", "run")
        /\ Happens("full")
        /\ ~nodes[n].dirty
        /\ data' = [data EXCEPT ![nodes[n].cf] = req[t].new]
        /\ Return(t)
        /\ UNCHANGED <<remote, files, nodes, maps, user, fLock, used, crashed>>

\* clone(size), of contents old that are to become c: it "copies the first size
\* bytes" (cache.go:230), but in whole buffers of 128K.  What remains is c if
\* its size is a number of buffers, old if that fits in as many buffers or is
\* to be extended, or else a part of old that is longer than c.
LongerThan(c) == c + setting.max
clone(c, old) == IF c = 0 THEN {0} ELSE {c, old, LongerThan(c)}

\* Setattr of an open file.
Truncate(t) ==
    LET n == req[t].node
        Result(c) == IF nodes[n].dirty THEN {c} ELSE clone(c, data[nodes[n].cf])
    IN  /\ At(t, "Truncate", "run")
        /\ nodes[n].handles > 0
        /\ crashed' = (nodes[n].cf = 0)
        /\ IF nodes[n].cf = 0
           THEN UNCHANGED <<data, nodes, view>>
           ELSE \E c \in {0, req[t].new} : \E got \in Result(c) : Modify(n, got) /\ Written(n, {c, got})
        /\ Return(t)
        /\ UNCHANGED <<remote, files, maps, kern, raced, fLock, used>>

\* A file that is not open is created anew, or opened and cut short, and then
\* released like any other.
TruncateClosed(t) ==
    LET n == req[t].node
        ref == srv[nodes[n].uname]
    IN  /\ At(t, "Truncate", "run")
        /\ nodes[n].handles = 0
        /\ \/ /\ data' = Append(data, 0)
              /\ nodes' = [nodes EXCEPT ![n] = Created(@)]
              /\ Written(n, {0})
              /\ UNCHANGED files
           \/ /\ ref # Absent
              /\ files' = Named(ref, CopyOf(ref))
              /\ \E got \in clone(req[t].new, Fetched(ref)[CopyOf(ref)]) :
                     data' = Append(Fetched(ref), got) /\ Written(n, {req[t].new, got})
              /\ nodes' = [nodes EXCEPT ![n] = [Created(@) EXCEPT !.cf = Len(data')]]
        /\ req' = [req EXCEPT ![t] = [@ EXCEPT !.op = "Release", !.pc = "lock"]]
        /\ locks' = locks \ {n}
        /\ UNCHANGED <<remote, maps, kern, raced, fLock, used, crashed>>

\* It cannot be opened, or copied.
TruncateFails(t) ==
    /\ At(t, "Truncate", "run")
    /\ Happens("full") \/ srv[nodes[req[t].node].uname] = Absent
    /\ Return(t)
    /\ UNCHANGED <<remote, local, nodes, maps, user, fLock, used, crashed>>

\* freeNoLock: the last handle takes the copy with it.
Freed(node) ==
    IF node.handles = 1
    THEN [node EXCEPT !.handles = 0, !.opens = 0, !.cf = 0, !.dirty = FALSE]
    ELSE [node EXCEPT !.handles = @ - 1, !.opens = @ - 1]
Finished(op, node) == IF op = "Release" THEN Freed(node) ELSE node

Flush(t) ==
    LET n == req[t].node
    IN  /\ req[t].op \in {"Flush", "Release"} /\ req[t].pc = "run"
        /\ IF nodes[n].cf # 0 /\ ~nodes[n].noWB /\ nodes[n].dirty
           THEN To(t, "put") /\ UNCHANGED <<nodes, locks>>
           ELSE nodes' = [nodes EXCEPT ![n] = Finished(req[t].op, @)] /\ Return(t)
        /\ UNCHANGED <<remote, local, maps, user, fLock, used, crashed>>

\* writeback: the contents are put, and the copy is renamed to the reference.  A
\* Remove that has asked the server and not yet reached the node is undone.
Writeback(t) ==
    LET n == req[t].node
        node == nodes[n]
        ref == IF data[node.cf] = 0 THEN 0 ELSE Len(store) + 1
    IN  /\ req[t].op \in {"Flush", "Release"} /\ req[t].pc = "put"
        /\ Exists(Parent(node.uname))
        /\ srv' = [srv EXCEPT ![node.uname] = ref]
        /\ store' = IF ref = 0 THEN store ELSE Append(store, data[node.cf])
        /\ files' = Named(ref, node.cf)
        /\ nodes' = [nodes EXCEPT ![n] = Finished(req[t].op, [node EXCEPT !.dirty = FALSE])]
        /\ raced' = raced \cup {p \in {node.uname} : \E u \in Thread :
                        req[u].op = "Remove" /\ req[u].name = p /\ req[u].pc \in {"maps", "noWB"}}
        /\ Return(t)
        /\ UNCHANGED <<data, maps, kern, view, fLock, used, crashed>>

\* Flush and Release return the error, but Setattr drops that of the Release it
\* makes.  For an extended attribute the put is taken to have worked although
\* there is no entry to name the copy after.
WritebackFails(t) ==
    LET n == req[t].node
        node == nodes[n]
    IN  /\ req[t].op \in {"Flush", "Release"} /\ req[t].pc = "put"
        /\ Happens("putfail") \/ ~Exists(Parent(node.uname))
        /\ nodes' = [nodes EXCEPT ![n] = Finished(req[t].op, node)]
        /\ raced' = raced \cup {node.uname}
        /\ crashed' = (node.uname \in Xattr)
        /\ Return(t)
        /\ UNCHANGED <<remote, local, maps, kern, view, fLock, used>>

-----------------------------------------------------------------------------
(* What happens besides requests. *)

\* The kernel forgets a node that it does not use.
Forget(n) ==
    /\ Happens("forget")
    /\ n > 1 /\ nodes[n].opens = 0
    /\ \E p \in Name : kern[p] = n /\ \A q \in Name : Parent(q) = p => kern[q] = 0
    /\ \A t \in Thread : n # req[t].node /\ \A p \in NamesOf(req[t]) \ {Root} : kern[p] # n
    /\ kern' = [p \in Name |-> IF kern[p] = n THEN 0 ELSE kern[p]]
    /\ IF nodeMap[nodes[n].uname] = n
       THEN nodeMap' = [nodeMap EXCEPT ![nodes[n].uname] = 0] /\ enoent' = enoent \ {nodes[n].uname}
       ELSE UNCHANGED maps
    /\ UNCHANGED <<remote, local, nodes, view, raced, locks, fLock, req, used, crashed>>

\* isEnoent: the name is forgotten after defaultEnoentDuration.
Expire(n) ==
    /\ Happens("expire")
    /\ n \in enoent
    /\ enoent' = enoent \ {n}
    /\ UNCHANGED <<remote, local, nodes, nodeMap, user, locks, fLock, req, used, crashed>>

\* Another client puts or deletes a file, once.
Foreign(n) ==
    /\ Happens("foreign") /\ n \in setting.tree
    /\ raced = {}
    /\ raced' = {n}
    /\ srv' = [srv EXCEPT ![n] = IF @ = Absent THEN 0 ELSE Absent]
    /\ UNCHANGED <<store, local, nodes, maps, kern, view, locks, fLock, req, used, crashed>>

Step(t) ==
    \/ Lock(t) \/ Lookup(t) \/ Create(t) \/ Mkdir(t) \/ Symlink(t) \/ Link(t)
    \/ Remove(t) \/ RemoveMaps(t) \/ RemoveDone(t)
    \/ Rename(t) \/ RenameLock(t) \/ RenameDup(t) \/ RenameDelNew(t) \/ RenameDelOld(t) \/ RenameMaps(t)
    \/ Open(t) \/ OpenDenied(t) \/ Write(t) \/ WriteFull(t)
    \/ Truncate(t) \/ TruncateClosed(t) \/ TruncateFails(t)
    \/ Flush(t) \/ Writeback(t) \/ WritebackFails(t)

Next ==
    /\ ~crashed
    /\ \/ \E t \in Thread : Step(t) \/ \E r \in setting.plan : Begin(t, r)
       \/ \E n \in DOMAIN nodes : Forget(n)
       \/ \E n \in Files : Expire(n) \/ Foreign(n)
    /\ UNCHANGED setting

Spec == Init /\ [][Next]_<<vars, setting>>
FairSpec == Spec /\ WF_<<vars, setting>>(~crashed /\ (\E t \in Thread : Step(t)) /\ UNCHANGED setting)

-----------------------------------------------------------------------------
(* Properties. *)

\* A local file that has the name of a reference has the contents of that
\* reference, so that whoever opens it next, under any path name, reads what was
\* put (unless the disk was too full to copy a file before it was written).
RefFileIsRef == ~Happens("full") => \A r \in DOMAIN files : data[files[r]] = Content(r)

\* When no file is open, the directory server has under every name what the
\* kernel's user last wrote there: nothing was lost, brought back or mixed up,
\* whatever was removed, renamed, linked, forgotten and flushed meanwhile.  Not
\* so when another client changed the file or a Put failed, which the user is
\* not told when it was for a Setattr (fs.go:593, 607).  And a file that was cut
\* short while it was clean may be longer than asked, or shorter than asked if
\* it was to grow (cache.go:241-250): then what clone made of it is stored.
ClosedIsStored ==
    (\A t \in Thread : req[t].pc = "idle") /\ (\A n \in DOMAIN nodes : nodes[n].opens = 0) /\ ~Happens("full")
        => \A p \in Name \ raced : Content(srv[p]) \in view[p]

\* Every request of the kernel is answered, as long as no directory is renamed:
\* Rename waits for the lock of the node that it moves while it holds the lock of
\* the file system, for which the holder of a directory's lock may wait.
RequestsReturn ==
    \A t \in Thread :
        req[t].pc # "idle" ~>
            (req[t].pc = "idle" \/ crashed \/ \E r \in setting.plan : r.op = "Rename" /\ r.name \in Dirs)
=============================================================================
