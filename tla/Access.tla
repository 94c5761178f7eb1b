------------------------------- MODULE Access -------------------------------
(***************************************************************************)
(* Access files and groups (access/access.go): who is granted a right.     *)
(*                                                                         *)
(* A parsed Access file has a list of members for each right: users,       *)
(* wildcards for a domain, everyone, and groups, whose files list members  *)
(* in turn.  Can and Users walk these lists with what is in the global map *)
(* of groups, load the groups that are missing and start again, until      *)
(* nothing is missing.  Meanwhile a group may be forgotten by others (see  *)
(* RemoveGroup).                                                           *)
(***************************************************************************)
EXTENDS Integers, Sequences, FiniteSets, SequencesExt

CONSTANTS
    User,       \* requesters
    Domain,     \* the domain of each user
    Owner,      \* the user in whose tree the Access file is
    Group,      \* group files
    GroupOwner, \* the user in whose tree each group is
    Lists,      \* what a list of the Access file may be
    Contents,   \* what a group file may contain
    MaxForget   \* bound on the number of groups that are forgotten

AccessAssumption ==
    /\ Owner \in User
    /\ GroupOwner \in [Group -> User]
    /\ IsFiniteSet(Group)
    /\ MaxForget \in Nat

\* Read and Write stand for the rights that the owner always has, and for
\* those that it has not.
Right == {"Read", "Write"}

VARIABLES
    list,    \* the lists of the Access file
    file,    \* the contents of each group file
    bad,     \* group files that cannot be loaded or parsed
    groups,  \* the groups that are known
    call,    \* the call of Can or Users that is being made
    forgets  \* number of groups forgotten

vars == <<list, file, bad, groups, call, forgets>>

Member(k, n) == [kind |-> k, name |-> n]
IsGroup(m) == m.kind = "group"
GroupsOf(s) == {m.name : m \in {x \in Range(s) : IsGroup(x)}}

NoCall == [pc |-> "idle", op |-> "Can", right |-> "Read", who |-> Owner, control |-> FALSE,
           todo |-> << >>, i |-> 1, missing |-> << >>, failed |-> {}, loaded |-> FALSE,
           granted |-> FALSE, err |-> FALSE, names |-> {}]

Init ==
    /\ list \in [Right -> Lists]
    /\ file \in [Group -> Contents]
    /\ bad \in SUBSET Group
    /\ groups = [g \in {} |-> << >>]
    /\ call = NoCall
    /\ forgets = 0

\* getListFor
getListFor(right) == IF right = "Any" THEN list["Read"] \o list["Write"] ELSE list[right]

-----------------------------------------------------------------------------
(* Can *)

\* inList: the requester is in the list ...
InList(who, s) ==
    \E m \in Range(s) :
        \/ m.kind = "all"
        \/ m.kind = "user" /\ m.name = who
        \/ m.kind = "wildcard" /\ m.name = Domain[who]

\* ... or else its new groups are to be checked.
NewGroups(s, todo) ==
    FoldLeft(LAMBDA t, m : IF IsGroup(m) /\ ~Contains(t, m.name) THEN Append(t, m.name) ELSE t,
             todo, s)

Return(c) == call' = [c EXCEPT !.pc = "returned"]

\* canNoGroupLoad begins: the rights that need no list, and the list.
scan(c) ==
    LET isOwner == c.who = Owner
        s == getListFor(c.right)
    IN  IF isOwner /\ c.right \in {"Read", "Any"} THEN Return([c EXCEPT !.granted = TRUE])
        ELSE IF c.control /\ c.right = "Write" THEN Return([c EXCEPT !.granted = isOwner])
        ELSE IF InList(c.who, s) THEN Return([c EXCEPT !.granted = TRUE])
        ELSE call' = [c EXCEPT !.pc = "scan", !.todo = NewGroups(s, << >>), !.i = 1,
                               !.missing = << >>, !.loaded = FALSE]

Can(who, right, control) ==
    /\ call.pc = "idle"
    /\ scan([NoCall EXCEPT !.who = who, !.right = right, !.control = control])
    /\ UNCHANGED <<list, file, bad, groups, forgets>>

\* Mutant of ScanGroup: the owner of a group has to be listed.
ScanGroupListed ==
    /\ call.pc = "scan"
    /\ call.i <= Len(call.todo)
    /\ LET grp == call.todo[call.i]
       IN  IF grp \notin DOMAIN groups
           THEN call' = [call EXCEPT !.missing = Append(@, grp), !.i = @ + 1]
           ELSE IF InList(call.who, groups[grp])
           THEN Return([call EXCEPT !.granted = TRUE])
           ELSE call' = [call EXCEPT !.todo = NewGroups(groups[grp], @), !.i = @ + 1]
    /\ UNCHANGED <<list, file, bad, groups, forgets>>

\* The next group to check.
ScanGroup ==
    /\ call.pc = "scan"
    /\ call.i <= Len(call.todo)
    /\ LET grp == call.todo[call.i]
       IN  IF grp \notin DOMAIN groups
           THEN call' = [call EXCEPT !.missing = Append(@, grp), !.i = @ + 1]
           ELSE IF GroupOwner[grp] = call.who \/ InList(call.who, groups[grp])
           THEN Return([call EXCEPT !.granted = TRUE])
           ELSE call' = [call EXCEPT !.todo = NewGroups(groups[grp], @), !.i = @ + 1]
    /\ UNCHANGED <<list, file, bad, groups, forgets>>

ScanEnd ==
    /\ call.pc = "scan"
    /\ call.i > Len(call.todo)
    /\ IF call.missing = << >> THEN Return(call) ELSE call' = [call EXCEPT !.pc = "load", !.i = 1]
    /\ UNCHANGED <<list, file, bad, groups, forgets>>

\* AddGroup
AddGroup(g) == groups' = [x \in DOMAIN groups \cup {g} |-> IF x = g THEN file[g] ELSE groups[x]]

\* Can loads the next missing group, unless that failed before.
LoadGroup ==
    /\ call.pc = "load" /\ call.op = "Can"
    /\ call.i <= Len(call.missing)
    /\ LET grp == call.missing[call.i]
       IN  IF grp \in call.failed \cup bad
           THEN call' = [call EXCEPT !.failed = @ \cup {grp}, !.i = @ + 1] /\ UNCHANGED groups
           ELSE call' = [call EXCEPT !.loaded = TRUE, !.i = @ + 1] /\ AddGroup(grp)
    /\ UNCHANGED <<list, file, bad, forgets>>

\* It starts again if it has loaded any.  The error that it returns is never
\* set, because it is only set when it is not nil.
LoadEnd ==
    /\ call.pc = "load" /\ call.op = "Can"
    /\ call.i > Len(call.missing)
    /\ IF call.loaded THEN scan(call) ELSE Return(call)
    /\ UNCHANGED <<list, file, bad, groups, forgets>>

-----------------------------------------------------------------------------
(* Users *)

Names(s) == {m \in Range(s) : ~IsGroup(m)}

\* usersNoGroupLoad begins.
expand(c) ==
    LET s == getListFor(c.right)
        own == IF c.right = "Read" THEN {Member("user", Owner)} ELSE {}
    IN  call' = [c EXCEPT !.pc = "expand", !.names = own \cup Names(s), !.i = 1, !.missing = << >>,
                          !.todo = FoldLeft(LAMBDA t, m : IF IsGroup(m) THEN Append(t, m.name) ELSE t, << >>, s)]

Users(right) ==
    /\ call.pc = "idle"
    /\ expand([NoCall EXCEPT !.op = "Users", !.right = right])
    /\ UNCHANGED <<list, file, bad, groups, forgets>>

\* The members of a group, up to the first group that is to be expanded
\* already: there the loop over the members ends.
Expansion(s, todo, names) ==
    FoldLeft(LAMBDA a, m :
                 IF a.stop THEN a
                 ELSE IF ~IsGroup(m) THEN [a EXCEPT !.names = @ \cup {m}]
                 ELSE IF Contains(a.todo, m.name) THEN [a EXCEPT !.stop = TRUE]
                 ELSE [a EXCEPT !.todo = Append(@, m.name)],
             [todo |-> todo, names |-> names, stop |-> FALSE], s)

\* expandGroups: the next group.
ExpandGroup ==
    /\ call.pc = "expand"
    /\ call.i <= Len(call.todo)
    /\ LET grp == call.todo[call.i]
           e == Expansion(groups[grp], call.todo, call.names)
       IN  call' = IF grp \in DOMAIN groups
                   THEN [call EXCEPT !.todo = e.todo, !.names = e.names, !.i = @ + 1]
                   ELSE [call EXCEPT !.missing = IF Contains(@, grp) THEN @ ELSE Append(@, grp), !.i = @ + 1]
    /\ UNCHANGED <<list, file, bad, groups, forgets>>

ExpandEnd ==
    /\ call.pc = "expand"
    /\ call.i > Len(call.todo)
    /\ IF call.missing = << >> THEN Return(call) ELSE call' = [call EXCEPT !.pc = "load", !.i = 1]
    /\ UNCHANGED <<list, file, bad, groups, forgets>>

\* Users gives up on the first group that it cannot load.
LoadForUsers ==
    /\ call.pc = "load" /\ call.op = "Users"
    /\ IF call.i > Len(call.missing) THEN expand(call) /\ UNCHANGED groups
       ELSE IF call.missing[call.i] \in bad
       THEN Return([call EXCEPT !.err = TRUE, !.names = {}]) /\ UNCHANGED groups
       ELSE call' = [call EXCEPT !.i = @ + 1] /\ AddGroup(call.missing[call.i])
    /\ UNCHANGED <<list, file, bad, forgets>>

-----------------------------------------------------------------------------
\* The caller has its answer.
Answered ==
    /\ call.pc = "returned"
    /\ call' = NoCall
    /\ UNCHANGED <<list, file, bad, groups, forgets>>

\* A group is forgotten, because it is stale or was evicted.
RemoveGroup(g) ==
    /\ g \in DOMAIN groups
    /\ forgets < MaxForget
    /\ groups' = [x \in DOMAIN groups \ {g} |-> groups[x]]
    /\ forgets' = forgets + 1
    /\ UNCHANGED <<list, file, bad, call>>

Step ==
    \/ ScanGroup \/ ScanEnd \/ LoadGroup \/ LoadEnd
    \/ ExpandGroup \/ ExpandEnd \/ LoadForUsers

Next ==
    \/ \E who \in User, right \in Right \cup {"Any"}, control \in BOOLEAN : Can(who, right, control)
    \/ \E right \in Right : Users(right)
    \/ Step
    \/ Answered
    \/ \E g \in Group : RemoveGroup(g)

Spec == Init /\ [][Next]_vars

-----------------------------------------------------------------------------
\* The groups that a list leads to, where those that cannot be loaded lead
\* no further: the reference for both calls.
Reached(s) ==
    LET step[n \in 0..Cardinality(Group)] ==
            IF n = 0 THEN GroupsOf(s)
            ELSE step[n - 1] \cup UNION {GroupsOf(file[g]) : g \in step[n - 1] \ bad}
    IN  step[Cardinality(Group)]

Granted(who, right, control) ==
    LET s == getListFor(right)
    IN  CASE who = Owner /\ right \in {"Read", "Any"} -> TRUE
          [] control /\ right = "Write" -> who = Owner
          [] OTHER -> \/ InList(who, s)
                      \/ \E g \in Reached(s) \ bad : GroupOwner[g] = who \/ InList(who, file[g])

\* Can grants a right to those who are in the list or in a group that it
\* leads to, however groups refer to each other, and whichever of them were
\* known, are forgotten meanwhile or cannot be loaded; the owner reads, and
\* alone writes Access and Group files.
CanIsRight ==
    call.pc = "returned" /\ call.op = "Can"
        => call.granted = Granted(call.who, call.right, call.control)

\* Whom list s names, directly or by groups.
MembersOf(s) == Names(s) \cup UNION {Names(file[g]) : g \in Reached(s) \ bad}

\* Users returns no one who was not granted the right, and succeeds only if
\* every group could be loaded.
UsersSound ==
    call.pc = "returned" /\ call.op = "Users" =>
        /\ call.names \subseteq MembersOf(list[call.right]) 
                             \cup (IF call.right = "Read" THEN {Member("user", Owner)} ELSE {})
        /\ ~call.err => Range(call.todo) \cap bad = {}

\* Users returns everyone who was granted the right.
UsersComplete ==
    call.pc = "returned" /\ call.op = "Users" /\ ~call.err
        => MembersOf(list[call.right]) \subseteq call.names

\* The call has returned.
Returned == call.pc \in {"idle", "returned"}

=============================================================================
