----------------------------- MODULE DirServer -----------------------------
(***************************************************************************)
(* The operations of a DirServer (dir/server/server.go, access.go) on the  *)
(* tree of one user: Lookup, Put, Delete and the listing of a directory.   *)
(*                                                                         *)
(* Each operation of the tree is atomic, an operation of the server is     *)
(* not: it looks things up, finds the Access file, consults the caches of  *)
(* Access and Group files, loads what is missing, decides, and only then   *)
(* changes the tree.  Sessions interleave at each of these steps.          *)
(*                                                                         *)
(* The tree has a file or directory d, a file k in it, an Access file and  *)
(* a Group file.  An Access file grants all rights to the owner, to all or *)
(* to the group.                                                           *)
(***************************************************************************)
EXTENDS Integers, FiniteSets

CONSTANTS
    Session,
    UserOf,   \* the user of each session
    Owner,    \* the owner of the tree
    Settings,    \* what sessions may do: sets of requests, how many of them, whether loads fail
    MaxRefresh   \* bound on the number of times the Group file is forgotten

DirServerAssumption ==
    /\ Owner \in {UserOf[s] : s \in Session}
    /\ \A g \in Settings : /\ \A r \in g.plan : r.session \in Session
                           /\ g.maxRequests \in Nat /\ g.loadFails \in BOOLEAN
    /\ MaxRefresh \in Nat

Name == {"d", "k", "Access", "Group"}
None == [kind |-> "none", seq |-> 0, val |-> {}]
SeqIgnore == 0
SeqNotExist == -1

VARIABLES
    setting,      \* what is asked of the server, which never changes
    tree,         \* the entry of each name
    dirty,        \* whether d has changed since it was flushed
    access,       \* the cached Access file, with its sequence number
    groups,       \* the known Group file: its members
    remoteGroups, \* whether the Group file is to be forgotten some time
    call,         \* the request that each session has made
    seen,         \* what the right answer was at each moment of a decision
    requests,     \* number of requests made
    refreshes     \* number of times the Group file was forgotten

Plan == setting.plan
MaxRequests == setting.maxRequests

vars == <<tree, dirty, access, groups, remoteGroups, call, seen, requests, refreshes>>

Idle == [pc |-> "idle", id |-> 0, op |-> "Lookup", name |-> "d", kind |-> "file", seq |-> SeqIgnore,
         val |-> {}, old |-> None, acc |-> None, group |-> None,
         bad |-> FALSE, stale |-> FALSE, granted |-> FALSE, result |-> "ok"]

Init ==
    /\ setting \in Settings
    /\ tree = [n \in Name |-> None]
    /\ dirty = FALSE
    /\ access = None
    /\ groups = None
    /\ remoteGroups = FALSE
    /\ call = [s \in Session |-> Idle]
    /\ seen = [s \in Session |-> {}]
    /\ requests = 0
    /\ refreshes = 0

Exists(e) == e.kind # "none"
IsDir(e) == e.kind = "dir"
Set(s, c) == call' = [call EXCEPT ![s] = c]
Return(s, result) == Set(s, [Idle EXCEPT !.pc = "returned", !.result = result])

\* A name can be reached when its parent is a directory.
Found(t, n) == IF n = "k" /\ ~IsDir(t["d"]) THEN None ELSE t[n]

RightFor(op) == IF op \in {"Lookup", "List"} THEN "Read" ELSE "Write"

\* What Can decides without the lists: the owner reads, and only the owner
\* changes Access and Group files.
CanAlone(user, op, name) ==
    \/ user = Owner /\ RightFor(op) = "Read"
    \/ RightFor(op) = "Write" /\ name \in {"Access", "Group"}

Listed(user, op, name, acc, who) == ~CanAlone(user, op, name) /\ Exists(acc) /\ acc.val = who

\* Can: no Access file means owner only.
Can(user, op, name, acc, group) ==
    \/ Listed(user, op, name, acc, "all")
    \/ /\ Listed(user, op, name, acc, "group")
       /\ Exists(group) /\ (user = Owner \/ user \in group.val)
    \/ ~Listed(user, op, name, acc, "group") /\ user = Owner

-----------------------------------------------------------------------------
\* A request arrives.
Request(r) ==
    /\ call[r.session].pc = "idle"
    /\ requests < MaxRequests
    /\ requests' = requests + 1
    /\ Set(r.session, [Idle EXCEPT !.id = requests + 1,
                                   !.pc = IF r.op = "Delete" THEN "which" ELSE "look",
                                   !.op = r.op, !.name = r.name, !.kind = r.kind,
                                   !.seq = r.seq, !.val = r.val])
    /\ UNCHANGED <<tree, dirty, access, groups, remoteGroups, refreshes>>

\* lookup, or tree.List.  Only directories are ever dirty.
Look(s) ==
    LET c == call[s]
        e == Found(tree, c.name)
    IN  /\ c.pc = "look"
        /\ IF c.op = "List" /\ ~IsDir(e) THEN Return(s, "error")
           ELSE Set(s, [c EXCEPT !.old = e, !.stale = IsDir(e) /\ dirty,
                                 !.pc = IF c.op = "Lookup" /\ IsDir(e) /\ dirty
                                        THEN "flush" ELSE "which"])
        /\ UNCHANGED <<tree, dirty, access, groups, remoteGroups, requests, refreshes>>

\* tree.Flush
Flush(s) ==
    /\ call[s].pc = "flush"
    /\ dirty' = FALSE
    /\ Set(s, [call[s] EXCEPT !.pc = "again"])
    /\ UNCHANGED <<tree, access, groups, remoteGroups, requests, refreshes>>

\* "Flush and repeat": the entry must be clean now; a listing is not
\* looked at again.
LookAgain(s) ==
    LET c == call[s]
        e == Found(tree, c.name)
    IN  /\ c.pc = "again"
        /\ CASE c.op = "List" -> Return(s, IF dirty THEN "dirty" ELSE "ok")
             [] c.op = "Lookup" /\ IsDir(e) /\ dirty -> Return(s, "internal")
             [] OTHER -> Set(s, [c EXCEPT !.old = e, !.pc = "which"])
        /\ UNCHANGED <<tree, dirty, access, groups, remoteGroups, requests, refreshes>>

-----------------------------------------------------------------------------
(* hasRight.  Where an operation asks for two rights (Lookup and List, to   *)
(* know whether to show the blocks or to say that the name is private) the *)
(* model decides once, since an Access file here grants all rights or none. *)

\* whichAccess
WhichAccess(s) ==
    /\ call[s].pc = "which"
    /\ Set(s, [call[s] EXCEPT !.acc = tree["Access"],
                              !.pc = IF Exists(tree["Access"]) THEN "get" ELSE "can"])
    /\ UNCHANGED <<tree, dirty, access, groups, remoteGroups, requests, refreshes>>

\* Mutant of GetAccess: the sequence number is not compared.
GetAccessAny(s) ==
    LET c == call[s]
    IN  /\ c.pc = "get"
        /\ Set(s, IF Exists(access) THEN [c EXCEPT !.acc = access, !.pc = "can"]
                  ELSE [c EXCEPT !.pc = "load"])
        /\ UNCHANGED <<tree, dirty, access, groups, remoteGroups, requests, refreshes>>

\* getAccess: the cached file, if it has the sequence number of the entry.
GetAccess(s) ==
    LET c == call[s]
    IN  /\ c.pc = "get"
        /\ Set(s, IF Exists(access) /\ access.seq = c.acc.seq
                  THEN [c EXCEPT !.acc = access, !.pc = "can"]
                  ELSE [c EXCEPT !.pc = "load"])
        /\ UNCHANGED <<tree, dirty, access, groups, remoteGroups, requests, refreshes>>

\* loadAccess, and the file is cached.  If it cannot be loaded the default rights
\* are used instead, and nothing is cached.
LoadAccess(s) ==
    LET c == call[s]
    IN  /\ c.pc = "load"
        /\ \/ access' = c.acc /\ Set(s, [c EXCEPT !.pc = "can"])
           \/ /\ setting.loadFails
              /\ Set(s, [c EXCEPT !.acc = None, !.bad = TRUE, !.pc = "can"])
              /\ UNCHANGED access
        /\ UNCHANGED <<tree, dirty, groups, remoteGroups, requests, refreshes>>

\* Can: the group, if it is needed, is known or has to be loaded.
Decide(s) ==
    LET c == call[s]
        needed == Listed(UserOf[s], c.op, c.name, c.acc, "group")
    IN  /\ c.pc = "can"
        /\ Set(s, IF needed /\ ~Exists(groups) THEN [c EXCEPT !.pc = "group"]
                  ELSE [c EXCEPT !.pc = "decided",
                                 !.granted = Can(UserOf[s], c.op, c.name, c.acc, groups)])
        /\ UNCHANGED <<tree, dirty, access, groups, remoteGroups, requests, refreshes>>

\* loadPath: the Group file is looked up, and remembered for refreshing if it
\* is not the user's own; without it, the answer is no.
LoadPath(s) ==
    LET c == call[s]
    IN  /\ c.pc = "group"
        /\ IF Exists(tree["Group"])
           THEN /\ Set(s, [c EXCEPT !.group = tree["Group"], !.pc = "add"])
                /\ remoteGroups' = (remoteGroups \/ UserOf[s] # Owner)
           ELSE /\ Set(s, [c EXCEPT !.pc = "decided", !.granted = FALSE])
                /\ UNCHANGED remoteGroups
        /\ UNCHANGED <<tree, dirty, access, groups, requests, refreshes>>

\* Mutant of AddGroup: the group stays unknown.
AddGroupNot(s) ==
    /\ call[s].pc = "add"
    /\ Set(s, [call[s] EXCEPT !.pc = "can"])
    /\ UNCHANGED <<tree, dirty, access, groups, remoteGroups, requests, refreshes>>

\* AddGroup, and Can starts again.
AddGroup(s) ==
    /\ call[s].pc = "add"
    /\ groups' = call[s].group
    /\ Set(s, [call[s] EXCEPT !.pc = "can"])
    /\ UNCHANGED <<tree, dirty, access, remoteGroups, requests, refreshes>>

\* groupRefreshLoop, or an eviction: the Group file is forgotten.
Refresh ==
    /\ remoteGroups
    /\ refreshes < MaxRefresh
    /\ remoteGroups' = FALSE
    /\ groups' = None
    /\ refreshes' = refreshes + 1
    /\ UNCHANGED <<tree, dirty, access, call, requests>>

-----------------------------------------------------------------------------
(* Put and Delete *)

\* Errors that Put finds in the entry that it looked up.
PutRefused(c) ==
    /\ Exists(c.old)
    /\ \/ IsDir(c.old) \/ c.kind = "dir"
       \/ c.seq = SeqNotExist
       \/ c.seq # SeqIgnore /\ c.seq # c.old.seq

\* The sequence number of the new entry; those of new entries are unique.
NewSequence(c) == 10 * c.id
SeqOf(c) ==
    IF Exists(c.old) THEN c.old.seq + 1
    ELSE IF c.seq \in {SeqIgnore, SeqNotExist} THEN NewSequence(c) ELSE c.seq

\* The decision was made: Put checks, and forgets what it is to replace.
Prepare(s) ==
    LET c == call[s]
        replaces(n) == Exists(c.old) /\ c.name = n
    IN  /\ c.pc = "decided" /\ c.op = "Put"
        /\ IF ~c.granted \/ PutRefused(c)
           THEN Return(s, "error") /\ UNCHANGED <<access, groups>>
           ELSE /\ Set(s, [c EXCEPT !.pc = "put", !.seq = SeqOf(c)])
                /\ access' = IF replaces("Access") THEN None ELSE access
                /\ groups' = IF replaces("Group") THEN None ELSE groups
        /\ UNCHANGED <<tree, dirty, remoteGroups, requests, refreshes>>

\* tree.Put replaces whatever is there, if the parent is a directory.
TreePut(s) ==
    LET c == call[s]
    IN  /\ c.pc = "put"
        /\ IF c.name = "k" /\ ~IsDir(tree["d"])
           THEN Return(s, "error") /\ UNCHANGED <<tree, dirty>>
           ELSE /\ tree' = [n \in Name |->
                               CASE n = c.name -> [kind |-> c.kind, seq |-> c.seq, val |-> c.val]
                                 [] n = "k" /\ c.name = "d" -> None
                                 [] OTHER -> tree[n]]
                /\ dirty' = (dirty \/ c.name = "k" \/ c.kind = "dir")
                /\ Return(s, "ok")
        /\ UNCHANGED <<access, groups, remoteGroups, requests, refreshes>>

\* The decision was made: tree.Delete, which deletes empty directories only.
TreeDelete(s) ==
    LET c == call[s]
        e == Found(tree, c.name)
    IN  /\ c.pc = "decided" /\ c.op = "Delete"
        /\ IF ~c.granted \/ ~Exists(e) \/ (IsDir(e) /\ Exists(tree["k"]))
           THEN Return(s, "error") /\ UNCHANGED <<tree, dirty>>
           ELSE /\ tree' = [tree EXCEPT ![c.name] = None]
                /\ dirty' = (dirty \/ c.name = "k")
                /\ Set(s, [c EXCEPT !.pc = "forget"])
        /\ UNCHANGED <<access, groups, remoteGroups, requests, refreshes>>

\* Delete removes from the caches what it deleted.
Forget(s) ==
    LET c == call[s]
    IN  /\ c.pc = "forget"
        /\ access' = IF c.name = "Access" THEN None ELSE access
        /\ groups' = IF c.name = "Group" THEN None ELSE groups
        /\ Return(s, "ok")
        /\ UNCHANGED <<tree, dirty, remoteGroups, requests, refreshes>>

\* Lookup and List have their answer, unless a listing has to be flushed.
Answer(s) ==
    LET c == call[s]
    IN  /\ c.pc = "decided" /\ c.op \in {"Lookup", "List"}
        /\ IF c.op = "List" /\ c.granted /\ c.stale
           THEN Set(s, [c EXCEPT !.pc = "flush"])
           ELSE Return(s, IF c.granted /\ Exists(c.old) THEN "ok" ELSE "error")
        /\ UNCHANGED <<tree, dirty, access, groups, remoteGroups, requests, refreshes>>

\* The client has its answer.
Answered(s) ==
    /\ call[s].pc = "returned"
    /\ Set(s, Idle)
    /\ UNCHANGED <<tree, dirty, access, groups, remoteGroups, requests, refreshes>>

-----------------------------------------------------------------------------
Step(s) ==
    \/ Look(s) \/ Flush(s) \/ LookAgain(s)
    \/ WhichAccess(s) \/ GetAccess(s) \/ LoadAccess(s) \/ Decide(s) \/ LoadPath(s) \/ AddGroup(s)
    \/ Prepare(s) \/ TreePut(s) \/ TreeDelete(s) \/ Forget(s) \/ Answer(s)

\* seen is not part of the server: it records what the answer should be.
Deciding(c) == c.pc \in {"which", "get", "load", "can", "group", "add", "decided"}
See == seen' = [s \in Session |->
           IF ~Deciding(call'[s]) THEN {}
           ELSE seen[s] \cup {Can(UserOf[s], call'[s].op, call'[s].name, tree'["Access"], tree'["Group"])}]

Next ==
    /\ \/ \E r \in Plan : Request(r)
       \/ \E s \in Session : Step(s) \/ Answered(s)
       \/ Refresh
    /\ See
    /\ UNCHANGED setting

Spec == Init /\ [][Next]_<<setting, vars>>

-----------------------------------------------------------------------------
\* A right is granted or denied as the tree said at some moment of the
\* decision, whatever other sessions change, load and cache meanwhile, as long
\* as Group files are left alone.  Only an Access file that could not be loaded
\* counts as absent ("restore default (owner-only) rights", access.go:195).
DecisionIsCurrent ==
    (\A r \in Plan : r.name # "Group")
        => \A s \in Session : call[s].pc = "decided" =>
               \/ call[s].granted \in seen[s]
               \/ call[s].bad /\ call[s].granted = Can(UserOf[s], call[s].op, call[s].name, None, None)

\* No two sessions change the same name.
WritersApart ==
    \A r, q \in {x \in Plan : x.op \in {"Put", "Delete"}} : r.name = q.name => r.session = q.session

\* "The sequence is intended to be different for each Put": a cached Access
\* file that has the sequence number of the one in the tree is that one,
\* unless Puts of it overlap.
CacheAgrees ==
    WritersApart /\ Exists(access) /\ Exists(tree["Access"]) /\ access.seq = tree["Access"].seq
        => access.val = tree["Access"].val

\* Every request is answered.
RequestsReturn == []<>(\A s \in Session : call[s].pc \in {"idle", "returned"})

=============================================================================
