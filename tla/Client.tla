------------------------------- MODULE Client -------------------------------
(***************************************************************************)
(* Clients (client/client.go) that use an in-process directory server: the *)
(* evaluation of links, the choice of readers whose keys are wrapped, and  *)
(* the operations that take several calls of the server.                   *)
(*                                                                         *)
(* A client is named after its user.  Contents are the members of Data;    *)
(* those of an Access file say who may read and write.                     *)
(***************************************************************************)
EXTENDS InProcessDir

S == INSTANCE SequencesExt

CONSTANTS
    User,           \* the clients
    MaxLinkHops,    \* links that may be followed
    Settings        \* tree at the start, the requests of each user (plan), watchers (watch, root, orders), max

ASSUME ClientAssumption ==
    /\ owner \in User
    /\ MaxLinkHops \in Nat \ {0}
    /\ \A n \in Name : n # Root

Idle == [op |-> none, name |-> Root, to |-> Root, data |-> none, pc |-> "idle", fn |-> none, cur |-> Root, hops |-> 0,
         follow |-> FALSE, prev |-> FALSE, then |-> none, entry |-> NoEntry, true |-> Root, event |-> Event(Root, FALSE), found |-> Error("ok"),
         readers |-> {}, this |-> << >>, next |-> << >>, one |-> FALSE, got |-> {}]

VARIABLES
    setting,    \* one of Settings; it never changes
    call,       \* the call of each client
    used,       \* how many calls each has made
    kept,       \* contents that somebody put and no Put or Delete replaced or removed
    unseen,     \* contents that a Rename deleted with the old name and had not looked up
    puts,       \* the names of the Puts that succeeded
    stale,      \* names packed for the readers of an earlier Access file
    overtaken   \* changes of others since a call began: <<u, "tree">>, <<u, "access">>

lost == <<kept, unseen>>
ghosts == <<lost, puts, stale, overtaken>>
vars == <<dirVars, panicked, call, used, ghosts>>

Init ==
    /\ setting \in Settings
    /\ DirInit(setting.tree)
    /\ call = [u \in User |-> Idle]
    /\ used = [u \in User |-> 0]
    /\ kept = {tree[n].data : n \in {m \in Name : tree[m].kind = "file"}}
    /\ unseen = {}
    /\ puts = << >>
    /\ stale = {}
    /\ overtaken = {}

Set(u, c) == call' = [call EXCEPT ![u] = c]
Fail(u) == Set(u, Idle)

-----------------------------------------------------------------------------
(* lookup: one call of the server for each link on the way. *)

Loop(c, fn, n, follow, then) ==
    [c EXCEPT !.pc = "hop", !.fn = fn, !.cur = n, !.hops = 0, !.follow = follow, !.prev = FALSE, !.then = then]

\* The name behind a link: its target in place of its own name.
Followed(c, r) == r.entry.data \o Rel(c.cur, r.name)

\* What the loop makes of an answer; a call that is not in the loop (direct)
\* returns every error.
Answer(u, c, r) ==
    CASE r.err = "ok" -> Set(u, [c EXCEPT !.pc = c.then, !.found = r]) /\ UNCHANGED panicked
      [] r.err # "ok" /\ (r.err # "follow" \/ c.hops < 0) -> Fail(u) /\ UNCHANGED panicked
      [] r.err = "follow" /\ c.hops >= 0 ->
             CASE r.entry = NoEntry -> Fail(u) /\ panicked' = TRUE
               [] r.entry # NoEntry /\ r.name = c.cur /\ ~c.follow ->
                      Set(u, [c EXCEPT !.pc = c.then, !.found = r]) /\ UNCHANGED panicked
               [] r.entry # NoEntry /\ (r.name = c.cur => c.follow) ->
                      /\ IF c.hops + 1 = MaxLinkHops THEN Fail(u)
                         ELSE Set(u, [c EXCEPT !.pc = "hop", !.hops = @ + 1, !.cur = Followed(c, r), !.prev = TRUE])
                      /\ UNCHANGED panicked
Direct(c, fn, n, then) == [Loop(c, fn, n, FALSE, then) EXCEPT !.hops = -1]

Ready(u, pc) == call[u].pc = pc /\ mu = none

\* One call of the server; Put and Delete go on under the write lock.
Serve(u, c) ==
    CASE c.fn = "Lookup" -> Lookup(u, c.cur)
      [] c.fn = "WhichAccess" -> WhichAccess(u, c.cur)
      [] c.fn = "Put" -> canPut(u, c.cur, c.entry.kind = "dir")
      [] c.fn = "Delete" -> canDelete(u, c.cur)

Hop(u) ==
    /\ Ready(u, "hop")
    /\ \E r \in {Serve(u, call[u])} :
           IF r.err = "ok" /\ call[u].fn \in {"Put", "Delete"}
           THEN Set(u, [call[u] EXCEPT !.pc = IF call[u].fn = "Put" THEN "install" ELSE "uninstall", !.found = r]) /\ UNCHANGED panicked
           ELSE Answer(u, call[u], r)
    /\ UNCHANGED <<dirVars, used, ghosts>>

\* The write lock is announced, and had when nobody holds the read lock.
Announce(u) ==
    /\ call[u].pc \in {"install", "uninstall"}
    /\ mu = none
    /\ Asking # {}
    /\ mu' = u
    /\ UNCHANGED <<db, watching, call, used, ghosts, panicked>>
Locks(u, pc) == call[u].pc = pc /\ mu \in {none, u} /\ Asking = {}

\* The event is sent with the lock held, which is kept when the queue is full.
Sent(u, event, c, r) ==
    IF Len(newEvent) < QueueLen
    THEN newEvent' = Append(newEvent, event) /\ mu' = none /\ Answer(u, c, r)
    ELSE mu' = u /\ Set(u, [c EXCEPT !.pc = "event", !.event = event, !.found = r]) /\ UNCHANGED <<newEvent, panicked>>

\* A change of an Access file makes what was packed before, or is being packed, stale.
Governed(n) == {p \in Name : HasPrefix(p, Parent(n))}
Changed(u, n) ==
    /\ stale' = IF IsAccess(n) THEN stale \cup Governed(n)
                ELSE IF <<u, "access">> \in overtaken THEN stale \cup {n} ELSE stale \ {n}
    /\ overtaken' = overtaken \cup ((User \ {u}) \X (IF IsAccess(n) THEN {"tree", "access"} ELSE {"tree"}))

\* What a Put, and only a Put, may replace.
Replaced(c) == IF c.op \in {"PutDuplicate", "Rename"} THEN {} ELSE {tree[c.cur].data}

\* The locked part of the server's Put.  It returns no entry with an error.
Installing(u) ==
    LET c == call[u]
        n == c.cur
    IN  /\ Locks(u, "install")
        /\ \E err \in {InstallError(n, c.entry)} :
           IF err # "ok"
           THEN Answer(u, c, Error(err)) /\ mu' = none /\ UNCHANGED <<db, newEvent, ghosts>>
           ELSE /\ Install(n, c.entry)
                /\ kept' = (kept \ Replaced(c)) \cup (IF c.entry.kind = "file" THEN {c.entry.data} ELSE {})
                /\ Changed(u, n)
                /\ IF InstallOK(n, c.entry)
                   THEN Sent(u, Event(n, FALSE), c, Error("ok")) /\ puts' = Append(puts, n)
                   ELSE Answer(u, c, Error("Invalid")) /\ mu' = none /\ UNCHANGED <<newEvent, puts>>
                /\ UNCHANGED unseen
        /\ UNCHANGED <<used, events, newListener, listener, handling>>

\* The locked part of Delete.  An event is sent only when put fails (directory.go:485):
\* with the link that it met, or with no entry.
Uninstalling(u) ==
    LET c == call[u]
        n == c.cur
        gone == {tree[p].data : p \in {q \in Name : HasPrefix(q, n)}}
    IN  /\ Locks(u, "uninstall")
        /\ \E r \in {DeleteResult(n, c.found)} :
           CASE r.err = "ok" -> /\ Uninstall(n)
                                /\ kept' = IF c.op = "Delete" THEN kept \ gone ELSE kept
                                /\ unseen' = IF c.op = "Rename" /\ <<u, "tree">> \in overtaken THEN unseen \cup (gone \ {c.entry.data}) ELSE unseen
                                /\ Changed(u, n)
                                /\ Answer(u, c, r)
                                /\ mu' = none
                                /\ UNCHANGED <<newEvent, puts>>
             [] r.err = "NotEmpty" -> Answer(u, c, r) /\ mu' = none /\ UNCHANGED <<db, newEvent, ghosts>>
             [] r.err = "follow" -> Sent(u, Event(r.name, TRUE), c, r) /\ UNCHANGED <<db, ghosts>>
             [] OTHER -> Sent(u, Event(nilName, TRUE), c, r) /\ UNCHANGED <<db, ghosts>>
        /\ UNCHANGED <<used, events, newListener, listener, handling>>

\* Mutant of SendEvent: the lock is not released.
SendEventLocked(u) ==
    /\ call[u].pc = "event"
    /\ Len(newEvent) < QueueLen
    /\ newEvent' = Append(newEvent, call[u].event)
    /\ Answer(u, call[u], call[u].found)
    /\ UNCHANGED <<db, mu, events, newListener, listener, handling, used, ghosts>>

SendEvent(u) ==
    /\ call[u].pc = "event"
    /\ Len(newEvent) < QueueLen
    /\ newEvent' = Append(newEvent, call[u].event)
    /\ mu' = none
    /\ Answer(u, call[u], call[u].found)
    /\ UNCHANGED <<db, events, newListener, listener, handling, used, ghosts>>

-----------------------------------------------------------------------------
(* The operations. *)

File(data, pack, keys) == [NoEntry EXCEPT !.kind = "file", !.data = data, !.pack = pack, !.keys = keys]
Started(c) ==
    CASE c.op = "Get" -> Loop(c, "Lookup", c.name, TRUE, "read")
      [] c.op = "Put" -> Loop(c, "WhichAccess", c.name, TRUE, "readers")
      [] c.op = "PutLink" -> Loop([c EXCEPT !.entry = [NoEntry EXCEPT !.kind = "link", !.data = c.to]], "Put", c.name, FALSE, "done")
      [] c.op = "MakeDirectory" -> Loop([c EXCEPT !.entry = Dir], "Put", c.name, TRUE, "done")
      [] c.op = "Delete" -> Loop(c, "Delete", c.name, FALSE, "done")
      [] c.op \in {"PutDuplicate", "Rename"} -> Loop(c, "Lookup", c.name, TRUE, "named")
      [] c.op = "Lookup" -> Loop(c, "Lookup", c.name, FALSE, "done")
      [] c.op = "Glob" -> [c EXCEPT !.pc = "glob", !.this = <<c.name>>, !.one = TRUE]

Begin(u, r) ==
    /\ call[u] = Idle
    /\ used[u] < setting.max[u]
    /\ used' = [used EXCEPT ![u] = @ + 1]
    /\ Set(u, Started([Idle EXCEPT !.op = r.op, !.name = r.name, !.to = r.to, !.data = r.data]))
    /\ overtaken' = overtaken \ {<<u, "tree">>, <<u, "access">>}
    /\ UNCHANGED <<dirVars, lost, puts, stale, panicked>>

Done(u) ==
    /\ call[u].pc = "done"
    /\ Fail(u)
    /\ UNCHANGED <<dirVars, used, ghosts, panicked>>

\* Get: ReadAll needs an entry that is complete and a key to unpack it.
Read(u) ==
    /\ call[u].pc = "read"
    /\ Fail(u)
    /\ UNCHANGED <<dirVars, used, ghosts, panicked>>

\* getReaders: who may read, by the Access file that WhichAccess returned.
Answered(u, r) ==
    CASE r.name = none -> {}
      [] r.name # none -> LET a == Lookup(u, r.name)
                          IN  CASE a.err \in {"NotExist", "denied"} -> {owner} \ {u}
                                [] a.err = "ok" -> IF a.entry.data = bad THEN {bad} ELSE Readers[a.entry.data]
                                [] OTHER -> {bad}

GetReaders(u) ==
    LET c == call[u]
    IN  /\ Ready(u, "readers")
        /\ \E readers \in {Answered(u, c.found)} :
           IF bad \in readers THEN Fail(u) ELSE Set(u, [c EXCEPT !.readers = readers, !.pc = "pack"])
        /\ UNCHANGED <<dirVars, used, ghosts, panicked>>

\* Put packs for the readers and puts the entry under the name that was reached.
Packed(u, c, n) ==
    LET integrity == IsAccess(n) \/ "all" \in c.readers
    IN  Set(u, Direct([c EXCEPT !.entry = IF integrity THEN File(c.data, "integrity", {})
                                          ELSE File(c.data, "ee", {u} \cup c.readers)],
                      "Put", n, "done"))
Pack(u) ==
    LET c == call[u]
        n == c.cur
    IN  /\ c.pc = "pack"
        /\ CASE IsAccess(n) /\ c.data = bad -> Fail(u)
             [] IsAccess(n) /\ c.data # bad /\ "all" \in Readers[c.data] -> Set(u, [c EXCEPT !.pc = "list", !.true = n])
             [] OTHER -> Packed(u, c, n)
        /\ UNCHANGED <<dirVars, used, ghosts, panicked>>

\* readAllOK: "all" may read only what is empty, or open to all already.  It is
\* asked of the name before links were evaluated.
ReadAllList(u) ==
    LET c == call[u]
    IN  /\ Ready(u, "list")
        /\ CASE listDir(u, Parent(c.name)).err # "ok" -> Fail(u)
             [] listDir(u, Parent(c.name)).err = "ok" /\ Children(Parent(c.name)) \subseteq {c.name} -> Packed(u, c, c.true)
             [] OTHER -> Set(u, Direct(c, "WhichAccess", c.name, "readAll"))
        /\ UNCHANGED <<dirVars, used, ghosts, panicked>>
ReadAllOK(u) ==
    LET c == call[u]
        file == Lookup(u, c.found.name)
    IN  /\ Ready(u, "readAll")
        /\ IF c.found.name # none /\ file.err = "ok" /\ file.entry.data # bad /\ "all" \in Readers[file.entry.data]
           THEN Packed(u, c, c.true)
           ELSE Fail(u)
        /\ UNCHANGED <<dirVars, used, ghosts, panicked>>

\* Mutant of SameDir: the keys of the old directory are kept.
SameDirAlways(c) == TRUE

\* Reader keys are wrapped again only if the directory, as it is named, changes.
SameDir(c) == Parent(c.found.name) = Parent(c.to)

\* dupOrRename: the entry gets the new name, which must not exist, and is wrapped
\* for other readers if the directory changes.
Named(u) ==
    LET c == call[u]
        e == c.found.entry
        putting == IF c.op = "Rename" THEN "delOld" ELSE "done"
        d == [c EXCEPT !.entry = [e EXCEPT !.seq = SeqNotExist], !.true = c.found.name]
    IN  /\ call[u].pc = "named"
        /\ CASE e.kind # "file" \/ e.pack = "incomplete" \/ (e.pack = "ee" /\ u \notin e.keys)
                \/ (IsAccess(c.to) /\ e.pack # "integrity") -> Fail(u)
             [] OTHER -> IF SameDir(c)
                         THEN Set(u, Loop(d, "Put", c.to, TRUE, putting))
                         ELSE Set(u, Loop(d, "WhichAccess", c.to, TRUE, "rewrap"))
        /\ UNCHANGED <<dirVars, used, ghosts, panicked>>

Rewrap(u) ==
    LET c == call[u]
    IN  /\ Ready(u, "rewrap")
        /\ \E readers \in {Answered(u, c.found)} :
           IF bad \in readers THEN Fail(u)
           ELSE Set(u, Loop([c EXCEPT !.entry.keys = IF c.entry.pack = "ee" THEN {u} \cup (readers \ {"all"}) ELSE {}], "Put", c.to, TRUE, IF c.op = "Rename" THEN "delOld" ELSE "done"))
        /\ UNCHANGED <<dirVars, used, ghosts, panicked>>

DelOld(u) ==
    /\ call[u].pc = "delOld"
    /\ Set(u, Direct(call[u], "Delete", call[u].true, "done"))
    /\ UNCHANGED <<dirVars, used, ghosts, panicked>>

-----------------------------------------------------------------------------
(* Glob.  The elements of a pattern are those of names, or a star. *)

star == "*"
hasMeta(p) == \E i \in DOMAIN p : p[i] = star
Found(err, ns) == [err |-> err, names |-> ns]

\* The server's Glob: the directory before the first star is listed, and the
\* rest of the pattern is tried in each directory that matches.
RECURSIVE Glob(_, _)
Glob(u, p) ==
    LET meta == CHOOSE i \in DOMAIN p : p[i] = star /\ \A j \in 1..(i - 1) : p[j] # star
        base == SubSeq(p, 1, meta - 1)
        rest == SubSeq(p, meta + 1, Len(p))
        links == {m \in Children(base) : tree[m].kind = "link"}
        Plain(r) == Found(r.err, IF r.entry = NoEntry THEN {} ELSE {r.name})
        Joined(rs) == IF \E r \in rs : r.err \notin {"ok", "follow", "denied", "NotExist"} THEN Found("NotDir", {})
                      ELSE Found(IF links # {} \/ \E r \in rs : r.err = "follow" THEN "follow" ELSE "ok",
                                 links \cup UNION {r.names : r \in {q \in rs : q.err \in {"ok", "follow"}}})
    IN  IF ~hasMeta(p) THEN Plain(Lookup(u, p))
        ELSE IF listDir(u, base).err = "follow" THEN Plain(listDir(u, base))
        ELSE IF listDir(u, base).err # "ok" THEN Found(listDir(u, base).err, {})
        ELSE IF rest = << >> THEN Found("ok", Children(base))
        ELSE Joined({Glob(u, k \o rest) : k \in {m \in Children(base) : tree[m].kind = "dir"}})

\* Mutant of newPattern: the rest of the pattern is forgotten.
newPatternShort(n, p) == tree[n].data

\* The target of a link in place of the elements that its name matches.
newPattern(n, p) == tree[n].data \o SubSeq(p, Len(n) + 1, Len(p))

\* One pattern: links that stopped the server are patterns of the next round.
\* An error is returned if the pattern is the only one, or if it is not benign.
GlobOne(u) ==
    LET c == call[u]
        p == Head(c.this)
        Links(r) == IF r.err = "follow" THEN {n \in r.names : tree[n].kind = "link"} ELSE {}
    IN  /\ Ready(u, "glob")
        /\ c.this # << >>
        /\ \E r \in {Glob(u, p)} : \E links \in {S!SetToSeq(Links(r))} :
           IF r.err \notin {"ok", "follow"} /\ (c.one \/ r.err \notin {"NotExist", "denied"})
           THEN Fail(u)
           ELSE Set(u, [c EXCEPT !.this = Tail(@), !.got = @ \cup (r.names \ Links(r)),
                                 !.next = @ \o [i \in DOMAIN links |-> newPattern(links[i], p)]])
        /\ UNCHANGED <<dirVars, used, ghosts, panicked>>

GlobRound(u) ==
    LET c == call[u]
    IN  /\ call[u].pc = "glob"
        /\ c.this = << >>
        /\ CASE c.next = << >> -> Set(u, [c EXCEPT !.pc = "done"])
             [] c.next # << >> /\ c.hops + 1 = MaxLinkHops -> Fail(u)
             [] OTHER -> Set(u, [c EXCEPT !.this = c.next, !.next = << >>, !.one = Len(c.next) = 1, !.hops = @ + 1])
        /\ UNCHANGED <<dirVars, used, ghosts, panicked>>

-----------------------------------------------------------------------------

Operate(u) ==
    \/ Hop(u) \/ Announce(u) \/ Installing(u) \/ Uninstalling(u) \/ SendEvent(u) \/ Done(u) \/ Read(u) \/ GetReaders(u)
    \/ Pack(u) \/ ReadAllList(u) \/ ReadAllOK(u) \/ Named(u) \/ Rewrap(u) \/ DelOld(u) \/ GlobOne(u) \/ GlobRound(u)

Events ==
    /\ \/ \E w \in Watcher : WatchSoFar(w) \/ SendSoFar(w) \/ Register(w) \/ GiveUp(w)
       \/ TakeListener \/ RunListener
       \/ TakeEvent \/ RunEvent \/ RunNil
    /\ UNCHANGED <<call, used, ghosts>>

StartWatch ==
    /\ \E w \in Watcher, order \in setting.orders : w \in setting.watch /\ Watch(w, setting.root, order)
    /\ UNCHANGED <<call, used, ghosts>>

Step == ~panicked /\ ((\E u \in User : Operate(u)) \/ Events)

Next ==
    /\ \/ Step
       \/ ~panicked /\ \E u \in User : \E r \in setting.plan[u] : Begin(u, r)
       \/ ~panicked /\ StartWatch
    /\ UNCHANGED setting

Spec == Init /\ [][Next]_<<vars, setting>>

-----------------------------------------------------------------------------

\* A file is wrapped for exactly those who may read it by its Access file, and
\* for nobody who has no right at all, unless the Access file changed after or
\* while it was packed (Put, PutDuplicate and Rename; getReaders, addReaders).
ReadersFollowAccess ==
    \A n \in Name \ stale : tree[n].pack = "ee" =>
        LET a == whichAccess(n)
            readers == IF a = none THEN {owner} ELSE Readers[a] \ {"all"}
        IN  /\ readers \subseteq tree[n].keys
            /\ tree[n].keys \subseteq readers \cup (IF a = none THEN {owner} ELSE Writers[a])

\* Contents that were put stay in the tree, under some name, until a Put replaces
\* them or a Delete removes them: the contents that a Rename looked up are under
\* the new name before it deletes the old one, and it replaces nothing.  What
\* others put under the old name after Rename looked it up is deleted with the
\* name (dupOrRename, client.go:850), and is in unseen; that takes a change of the
\* tree while the Rename is under way.
NothingLost == kept \subseteq {tree[n].data : n \in Name} \cup unseen

\* Every Put that succeeded is an event, once and in the order of the Puts, and a
\* listener that is installed has got every event that it wants from the point
\* on that it asked for: from the first (WatchStart), or from the tree that it
\* was sent (WatchCurrent).  Nothing is lost that happens while it is sent the
\* past.  This is not so of Deletes: a Delete that succeeds sends no event, as
\* the test of directory.go:485 sends one only after an error (upspin.go:433
\* promises events for deletions too).
Told == events \o (IF handling.kind = "event" THEN <<handling.event>> ELSE << >>) \o newEvent
            \o (IF mu # none /\ call[mu].pc = "event" THEN <<call[mu].event>> ELSE << >>)
IsPut(event) == ~event.delete
ListenersMissNothing ==
    /\ LET put == SelectSeq(Told, IsPut) IN [i \in DOMAIN put |-> put[i].name] = puts
    /\ \A w \in Listening : \A i \in DOMAIN events :
           Wanted(w, events[i].name) /\ i > listener[w].sofar => i \in listener[w].got

\* If nothing changed meanwhile, the owner's Glob has found every file and
\* directory that a name which matches the pattern stands for, directly or
\* through a link (the rounds of Client.Glob and the server's recursion).
Through(n) ==
    LET ls == {p \in Ancestors(n) : tree[p].kind = "link"}
    IN  IF ls = {} THEN n ELSE LET l == CHOOSE p \in ls : TRUE IN tree[l].data \o Rel(n, l)
GlobFindsAll ==
    LET c == call[owner]
        matching == {n \in Name : Len(n) = Len(c.name) /\ \A i \in DOMAIN n : c.name[i] \in {n[i], star}}
    IN  c.op = "Glob" /\ c.pc = "done" /\ <<owner, "tree">> \notin overtaken =>
            {m \in Name : tree[m].kind \in {"file", "dir"}} \cap {Through(n) : n \in matching} \subseteq c.got

\* Every call has returned, links in a circle or not, unless the process has
\* panicked or is in one of two deadlocks.  In both the event manager waits for
\* the read lock, to look up the rights of a listener: a Put holds the write lock
\* and waits for room in the queue of events, or it waits for the write lock
\* while a Watch holds the read lock and waits for the manager (watch.go:242).
\* Neither is possible without a listener.
Jammed ==
    /\ ManagerNeedsLock
    /\ mu # none
    /\ IF call[mu].pc = "event" THEN Len(newEvent) = QueueLen ELSE Asking # {}
Returned == panicked \/ Jammed \/ ((\A u \in User : call[u].pc = "idle") /\ Asking = {})
=============================================================================
