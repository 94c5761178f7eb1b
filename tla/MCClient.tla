------------------------------ MODULE MCClient ------------------------------
(***************************************************************************)
(* Model checking of the client with the in-process directory server (part *)
(* "client"), of the evaluation of Access and Group files (part "access"), *)
(* and of their parsing (part "parse").  The variables of the other parts  *)
(* do not move.                                                            *)
(***************************************************************************)
EXTENDS Client, TLC

CONSTANTS
    Parts,                                   \* the parts to check
    ann, bob, cyd, g, h, Lists, MaxForget    \* users, groups and lists of Access files

VARIABLES
    part,
    list, file, unreadable, groups, accessCall, forgets,   \* Access
    text, lines                                     \* AccessParse

-----------------------------------------------------------------------------
(* The client. *)

MCA == <<"a">>
MCB == <<"b">>
MCD == <<"d">>
MCL == <<"l">>
MCDA == <<"d", "a">>
MCDAccess == <<"d", "Access">>
MCRootAccess == <<"Access">>
MCName == {MCA, MCB, MCD, MCL, MCDA, MCDAccess, MCRootAccess, MCL \o MCA, MCB \o MCA}

\* "pair": both users; "mine": the owner; "open": everybody may read.
MCReaders == [pair |-> {"o", "u"}, mine |-> {"o"}, open |-> {"o", "all"}]
MCWriters == [pair |-> {"o", "u"}, mine |-> {"o"}, open |-> {"o"}]

MCFile(d, keys) == [NoEntry EXCEPT !.kind = "file", !.data = d, !.pack = "ee", !.keys = keys, !.seq = 1]
MCAccessFile(d) == [NoEntry EXCEPT !.kind = "file", !.data = d, !.pack = "integrity", !.seq = 1]
MCLink(n) == [NoEntry EXCEPT !.kind = "link", !.data = n, !.seq = 1]
MCTreeOf(f) == [n \in MCName \cup {Root} |-> IF n = Root THEN [Dir EXCEPT !.seq = 1] ELSE IF n \in DOMAIN f THEN f[n] ELSE NoEntry]
MCBase == (MCRootAccess :> MCAccessFile("pair")) @@ (MCA :> MCFile("x", {"o", "u"}))
MCDeep == MCBase @@ (MCD :> Dir) @@ (MCDA :> MCFile("v", {"o", "u"}))

MCReq(op, n, to, d) == [op |-> op, name |-> n, to |-> to, data |-> d]
MCSetting(t, o, u, watch, m, k) == [tree |-> MCTreeOf(t), plan |-> [o |-> o, u |-> u], watch |-> watch, root |-> Root,
                                    orders |-> {WatchStart, WatchCurrent, WatchNew, 1}, max |-> [o |-> m, u |-> k]]

\* Files are moved while others write, move and delete them.
MCMoving == MCSetting(MCBase, {MCReq("Rename", MCA, MCB, none), MCReq("Put", MCA, Root, "y")},
                      {MCReq("Rename", MCA, MCB, none), MCReq("Put", MCB, Root, "z"), MCReq("Delete", MCA, Root, none)}, {}, 1, 2)
\* An Access file changes while files are put and moved below it.
MCGuarding == MCSetting(MCDeep, {MCReq("Put", MCDAccess, Root, "mine"), MCReq("Put", MCDAccess, Root, "open"),
                                 MCReq("Put", MCDAccess, Root, "bad"), MCReq("Delete", MCDAccess, Root, none),
                                 MCReq("Put", MCDA, Root, "y"), MCReq("PutDuplicate", MCDAccess, MCB, none)},
                        {MCReq("Put", MCDA, Root, "z"), MCReq("Rename", MCA, MCDA, none), MCReq("Get", MCDA, Root, none)}, {}, 2, 1)
\* A directory opened to all before anything is in it, and moves out of it.
MCOpening == MCSetting(MCBase @@ (MCD :> Dir), {MCReq("Put", MCDAccess, Root, "open"), MCReq("Put", MCDA, Root, "y"),
                                 MCReq("Rename", MCDA, MCB, none), MCReq("PutDuplicate", MCA, MCDA, none)},
                       {MCReq("Lookup", MCDA, Root, none), MCReq("Delete", MCD, Root, none)}, {}, 3, 1)
\* Links, to a directory, and in a circle.
MCLinking == MCSetting(MCDeep @@ (MCL :> MCLink(MCD)),
                       {MCReq("Put", MCL \o MCA, Root, "y"), MCReq("Rename", MCL \o MCA, MCB, none), MCReq("Delete", MCL, Root, none),
                        MCReq("PutLink", MCA, MCD, none)},
                       {MCReq("Get", MCL \o MCA, Root, none), MCReq("MakeDirectory", MCL, Root, none), MCReq("PutLink", MCB, MCL, none)}, {}, 1, 2)
MCCircle == MCSetting(MCBase @@ (MCL :> MCLink(MCB)), {MCReq("PutLink", MCB, MCL, none), MCReq("Get", MCL, Root, none), MCReq("Put", MCL, Root, "y")},
                      {MCReq("Get", MCB \o MCA, Root, none), MCReq("Lookup", MCL, Root, none)}, {}, 2, 1)
\* Listeners come while changes are made.
MCWatching == MCSetting(MCBase, {MCReq("Put", MCA, Root, "y"), MCReq("Delete", MCA, Root, none)},
                        {MCReq("Put", MCB, Root, "z"), MCReq("Delete", MCA, Root, none)}, {"w"}, 2, 1)
MCWatchers == [MCSetting(MCBase, {MCReq("Put", MCA, Root, "y")}, {MCReq("Put", MCB, Root, "z")}, {"v", "w"}, 1, 1)
               EXCEPT !.orders = {WatchCurrent}]
\* A directory gives way to a link while a file of it is deleted.
MCSwapping == MCSetting(MCDeep, {MCReq("Delete", MCDA, Root, none)},
                        {MCReq("Delete", MCDA, Root, none), MCReq("Delete", MCD, Root, none), MCReq("PutLink", MCD, MCB, none)}, {}, 1, 3)
\* Patterns, with links among what matches.
MCGlobbing == MCSetting(MCDeep @@ (MCL :> MCLink(MCD)), {MCReq("Glob", p, Root, none) : p \in {<<star>>, <<star, star>>, <<star, "a">>, MCL \o <<star>>, MCA \o <<star>>}},
                        {MCReq("Glob", <<star, star>>, Root, none), MCReq("PutLink", MCB, MCL, none), MCReq("Delete", MCDA, Root, none)}, {}, 1, 2)

MCSettings == {MCMoving, MCGuarding, MCOpening, MCLinking, MCCircle, MCWatching, MCWatchers, MCSwapping, MCGlobbing}

-----------------------------------------------------------------------------
(* The owner ann, bob of the same domain and cyd of another; group g of ann, *)
(* h of cyd.                                                                 *)

Member(k, n) == [kind |-> k, name |-> n]
MCBob == Member("user", bob)
MCG == Member("group", g)
MCH == Member("group", h)
MCLists == {<< >>, <<MCG>>, <<MCH, MCG>>, <<Member("wildcard", "near")>>, <<Member("all", "all")>>}
MCContents == {<< >>, <<MCBob>>, <<MCG, MCBob>>, <<MCH, MCG>>, <<Member("wildcard", "far")>>}
FewLists == {<<MCG>>, <<MCH, MCG>>}

A == INSTANCE Access WITH
    User <- {ann, bob, cyd}, Domain <- [u \in {ann, bob, cyd} |-> IF u = cyd THEN "far" ELSE "near"], Owner <- ann,
    Group <- {g, h}, GroupOwner <- [x \in {g, h} |-> IF x = h THEN cyd ELSE ann], Contents <- MCContents,
    call <- accessCall, bad <- unreadable

\* Texts of seven characters and Access files of three lines.
P == INSTANCE AccessParse WITH
    Char <- {"x", ",", " ", "#"}, MaxText <- 7, Rights <- {"*", "Read", "Write"}, All <- "all",
    Users <- {<<"all">>, <<"bob">>, <<"all", "bob">>, <<"bob", "cyd">>}, MaxLines <- 3

ASSUME AccessFilesAssumption == A!AccessAssumption /\ P!ParseAssumption

-----------------------------------------------------------------------------

clientAll == <<tree, access, mu, events, newEvent, newListener, listener, handling, panicked,
               setting, call, used, kept, unseen, puts, stale, overtaken>>
accessAll == <<list, file, unreadable, groups, accessCall, forgets>>
parseAll == <<text, lines>>
all == <<part, clientAll, accessAll, parseAll>>

\* The variables of a part that is not checked have no value that matters.
clientOff == tree = 0 /\ access = 0 /\ mu = 0 /\ events = 0 /\ newEvent = 0 /\ newListener = 0 /\ listener = 0 /\ handling = 0 /\ panicked = 0
             /\ setting = 0 /\ call = 0 /\ used = 0 /\ kept = 0 /\ unseen = 0 /\ puts = 0 /\ stale = 0 /\ overtaken = 0
accessOff == list = 0 /\ file = 0 /\ unreadable = 0 /\ groups = 0 /\ accessCall = 0 /\ forgets = 0
parseOff == text = 0 /\ lines = 0

MCInit ==
    /\ part \in Parts
    /\ IF part = "client" THEN Init ELSE clientOff
    /\ IF part = "access" THEN A!Init ELSE accessOff
    /\ IF part = "parse" THEN P!Init ELSE parseOff

MCNext ==
    \/ part = "client" /\ Next /\ UNCHANGED <<part, accessAll, parseAll>>
    \/ part = "access" /\ A!Next /\ UNCHANGED <<part, clientAll, parseAll>>
    \/ part = "parse" /\ P!Next /\ UNCHANGED <<part, clientAll, accessAll>>

\* Clients, the event manager and its listeners go on, and so does a call of
\* Can or Users; clients make a bounded number of calls.
MCProgress ==
    \/ part = "client" /\ Step /\ UNCHANGED <<setting, part, accessAll, parseAll>>
    \/ part = "access" /\ A!Step /\ UNCHANGED <<part, clientAll, parseAll>>

MCSpec == MCInit /\ [][MCNext]_all /\ WF_all(MCProgress)

-----------------------------------------------------------------------------

\* A file is wrapped for those who may read it by its Access file (addReaders).
FilesFollowAccess == part = "client" => ReadersFollowAccess

\* Contents that were put stay until they are replaced or deleted (Rename, Put);
\* only what was put under the old name of a Rename after it looked the name up
\* goes with that name.
RenameLosesNothing == part = "client" => NothingLost

\* Every Put becomes an event, and an installed listener has got every event from
\* the point on that it asked for.  Deletes send none (directory.go:485).
ListenersMissNone == part = "client" => ListenersMissNothing

\* Glob finds what matches, directly and through links.
GlobIsRight == part = "client" => GlobFindsAll

\* Can and Users name those to whom the lists and the groups that they lead to
\* grant the right, whatever the groups refer to and whichever are known.
AccessIsRight == part = "access" => A!CanIsRight /\ A!UsersSound

\* Users returns everyone who was granted the right.
UsersComplete == part = "access" => A!UsersComplete

\* A line is split into the names that it has, and an Access file that lets All
\* and others read by "*" is accepted (splitList, Parse).
ParseIsRight == part = "parse" => P!SplitIsRight /\ P!StarIsShared

\* Every call of a client returns, links in a circle or not, unless it is caught in
\* a deadlock with the event manager, which needs a listener (Jammed), or a nil
\* entry ends the process; and so do Can and Users, whatever cycles there are
\* among the groups.
CallsReturn ==
    []<>(/\ part = "client" => Returned
         /\ part = "access" => A!Returned)

=============================================================================
