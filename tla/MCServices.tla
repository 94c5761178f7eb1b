---------------------------- MODULE MCServices ------------------------------
(***************************************************************************)
(* Model checking of the services around the directory server: the key     *)
(* server and the client's cache of it, bind, rpc calls and streams, Perm, *)
(* snapshots, and changes of keys.  They are independent of each other     *)
(* here, so a behaviour is one of one of them (part); the variables of the *)
(* others do not move.                                                     *)
(***************************************************************************)
EXTENDS Bind, KeyServer

CONSTANTS
    Parts,                                                  \* the parts to check
    Invoker, TokenDuration, Freshness, Latency, Sessions, RpcSettings,
    Wire, StreamSettings,                                   \* Stream
    Writer, domainOf, PermSettings,                         \* Perm
    Asker, Day, Interval, Period, SnapSettings,             \* Snapshot
    KeyUser, owner, File, RotSettings,                      \* KeyRotation
    u1, u2, u3, kk, d1, d2, w1, w2, w3                      \* users, dial keys, writers

VARIABLES
    part,
    rpcSetting, now, token, lastRefresh, sessionCache, invoke, tokens, invoked, disturbed,
    streamSetting, watcher, relay, server, serverDone, wire, conn, decoder, receiver, done, received,
    permSetting, file, readable, order, faults, writers, loop, events, watch, missed,
    snapSetting, clock, version, snaps, worker, ticked, asker, asks,
    rotSetting, disk, pub, dir, readers, cmd, phase, client, used, lapsed, settled

RP == INSTANCE Rpc
ST == INSTANCE Stream
PM == INSTANCE Perm
SN == INSTANCE Snapshot
RO == INSTANCE KeyRotation

keyAll == <<keySetting, keyVars>>
bindAll == <<bindSetting, bindVars>>
rpcAll == <<rpcSetting, now, token, lastRefresh, sessionCache, invoke, tokens, invoked, disturbed>>
streamAll == <<streamSetting, watcher, relay, server, serverDone, wire, conn, decoder, receiver, done, received>>
permAll == <<permSetting, file, readable, order, faults, writers, loop, events, watch, missed>>
snapAll == <<snapSetting, clock, version, snaps, worker, ticked, asker, asks>>
rotAll == <<rotSetting, disk, pub, dir, readers, cmd, phase, client, used, lapsed, settled>>
vars == <<part, keyAll, bindAll, rpcAll, streamAll, permAll, snapAll, rotAll>>

-----------------------------------------------------------------------------
(* Settings. *)

MCUsers == [u \in User |-> IF u = u1 THEN [rec |-> -2, admin |-> TRUE] ELSE IF u = u2 THEN [rec |-> -3, admin |-> FALSE] ELSE [rec |-> 0, admin |-> FALSE]]
AskFor(u, ask) == [op |-> "Lookup", actor |-> u2, user |-> u, ask |-> ask]
Change(a, u, ask) == [op |-> "Put", actor |-> a, user |-> u, ask |-> ask]

MCSuffixed == {<<u3, u2>>}

\* Two calls through the client's cache; an administrator's, with failures; a new user;
\* and a user, who has no record, for the one with the suffix.
MCKeySettings ==
    {[users |-> MCUsers, plan |-> {AskFor(u2, TRUE), Change(u2, u2, TRUE)}, max |-> 3, fails |-> {"evict"}, dials |-> {u2}],
     [users |-> MCUsers, plan |-> {Change(u1, u1, FALSE), AskFor(u1, FALSE)}, max |-> 2, fails |-> {"log", "store", "restart"}, dials |-> {}],
     [users |-> MCUsers, plan |-> {Change(u2, u3, FALSE), Change(u2, u1, FALSE), AskFor(u3, TRUE)}, max |-> 2, fails |-> {"fetch", "store"}, dials |-> {}],
     [users |-> MCUsers, plan |-> {Change(u3, u2, FALSE), Change(u3, u1, FALSE)}, max |-> 2, fails |-> {"fetch"}, dials |-> {}]}

\* DirServerFor with two endpoints; three callers for one that comes and goes.
MCBindSettings ==
    {[asks |-> {<<kk, d1, d2>>}, max |-> 2, dials |-> 4, events |-> {"lookup"}, unstable |-> {d1}],
     [asks |-> {<<d1>>}, max |-> 3, dials |-> 3, events |-> {"release", "age"}, unstable |-> {d1}]}

\* A server that forgets; hours pass; a proxy that runs as another user.
MCRpcSettings ==
    {[max |-> 3, hours |-> 0, ops |-> {"restart", "lose", "lookup"}, proxy |-> "no"],
     [max |-> 2, hours |-> 8, ops |-> {"unverified", "fail"}, proxy |-> "same"],
     [max |-> 2, hours |-> 0, ops |-> {}, proxy |-> "other"]}

MCStreamSettings == {[events |-> 4, ops |-> {"done", "break", "stop"}]}

nofile == {"no file"}    \* as in Perm
MCPermSettings ==
    {[lists |-> {nofile, {}, {w1}, {"dom1"}}, changes |-> 3, faults |-> 1, ops |-> {"access"}],
     [lists |-> {nofile, {w1, "all"}}, changes |-> 2, faults |-> 2, ops |-> {"access", "unsupported"}]}
MCDomainOf == [w \in Writer |-> IF w = w3 THEN "dom2" ELSE "dom1"]

MCSnapSettings ==
    {[start |-> 2, until |-> 8, max |-> 1, changes |-> 1, ops |-> {}],
     [start |-> 4, until |-> 7, max |-> 2, changes |-> 0, ops |-> {"fail", "restart"}]}

\* The owner changes keys twice; renames; a reader changes keys, and the readers change; in a hurry.
Rotation == [readers |-> {u2}, files |-> {"f"}, rotators |-> {u1}, puts |-> {}, renames |-> {}, lists |-> {},
             keys |-> 2, max |-> 1, stops |-> 1, ops |-> {}]
MCRotSettings ==
    {[Rotation EXCEPT !.puts = {"f"}, !.keys = 3],
     [Rotation EXCEPT !.puts = {"f"}, !.renames = {"f"}, !.max = 2, !.stops = 0],
     [Rotation EXCEPT !.rotators = {u2}, !.puts = {"f"}, !.lists = {{}, {"all"}}, !.max = 2, !.stops = 0, !.ops = {"unencrypt"}],
     [Rotation EXCEPT !.keys = 3, !.max = 0, !.ops = {"hurry"}]}

-----------------------------------------------------------------------------

\* The variables of a part that is not checked have no value that matters.
rpcOff == rpcSetting = 0 /\ now = 0 /\ token = 0 /\ lastRefresh = 0 /\ sessionCache = 0 /\ invoke = 0 /\ tokens = 0 /\ invoked = 0 /\ disturbed = 0
streamOff == streamSetting = 0 /\ watcher = 0 /\ relay = 0 /\ server = 0 /\ serverDone = 0 /\ wire = 0 /\ conn = 0 /\ decoder = 0 /\ receiver = 0 /\ done = 0 /\ received = 0
snapOff == snapSetting = 0 /\ clock = 0 /\ version = 0 /\ snaps = 0 /\ worker = 0 /\ ticked = 0 /\ asker = 0 /\ asks = 0
rotOff == rotSetting = 0 /\ disk = 0 /\ pub = 0 /\ dir = 0 /\ readers = 0 /\ cmd = 0 /\ phase = 0 /\ client = 0 /\ used = 0 /\ lapsed = 0 /\ settled = 0

MCInit ==
    /\ part \in Parts
    /\ KeyInit
    /\ part = "key" \/ keySetting = CHOOSE s \in KeySettings : TRUE
    /\ BindInit
    /\ part = "bind" \/ bindSetting = CHOOSE s \in BindSettings : TRUE
    /\ IF part = "rpc" THEN RP!RpcInit ELSE rpcOff
    /\ IF part = "stream" THEN ST!StreamInit ELSE streamOff
    /\ IF part = "snap" THEN SN!SnapInit ELSE snapOff
    /\ IF part = "rot" THEN RO!RotInit ELSE rotOff
    /\ PM!PermInit
    /\ part = "perm" \/ (readable /\ file = nofile /\ permSetting = CHOOSE s \in PermSettings : TRUE)

MCNext ==
    \/ part = "key" /\ KeyNext /\ UNCHANGED <<part, bindAll, rpcAll, streamAll, permAll, snapAll, rotAll>>
    \/ part = "bind" /\ BindNext /\ UNCHANGED <<part, keyAll, rpcAll, streamAll, permAll, snapAll, rotAll>>
    \/ part = "rpc" /\ RP!RpcNext /\ UNCHANGED <<part, keyAll, bindAll, streamAll, permAll, snapAll, rotAll>>
    \/ part = "stream" /\ ST!StreamNext /\ UNCHANGED <<part, keyAll, bindAll, rpcAll, permAll, snapAll, rotAll>>
    \/ part = "perm" /\ PM!PermNext /\ UNCHANGED <<part, keyAll, bindAll, rpcAll, streamAll, snapAll, rotAll>>
    \/ part = "snap" /\ SN!SnapNext /\ UNCHANGED <<part, keyAll, bindAll, rpcAll, streamAll, permAll, rotAll>>
    \/ part = "rot" /\ RO!RotNext /\ UNCHANGED <<part, keyAll, bindAll, rpcAll, streamAll, permAll, snapAll>>

\* Every goroutine that can go on does; calls are not made, and nothing fails, for ever.
MCProgress ==
    \/ part = "key" /\ \E t \in Thread : Serve(t) /\ UNCHANGED <<keySetting, part, bindAll, rpcAll, streamAll, permAll, snapAll, rotAll>>
    \/ part = "bind" /\ \E c \in Caller : Act(c) /\ Len(dials') <= bindSetting.dials /\ UNCHANGED <<bindSetting, part, keyAll, rpcAll, streamAll, permAll, snapAll, rotAll>>
    \/ part = "rpc" /\ \E i \in Invoker : RP!Carry(i) /\ UNCHANGED <<rpcSetting, part, keyAll, bindAll, streamAll, permAll, snapAll, rotAll>>
    \/ part = "stream" /\ ST!Flow /\ UNCHANGED <<streamSetting, part, keyAll, bindAll, rpcAll, permAll, snapAll, rotAll>>
    \/ part = "perm" /\ (PM!Run \/ (PM!WatchEnds /\ loop.done)) /\ UNCHANGED <<permSetting, part, keyAll, bindAll, rpcAll, streamAll, snapAll, rotAll>>
    \/ part = "snap" /\ SN!Work /\ UNCHANGED <<snapSetting, part, keyAll, bindAll, rpcAll, streamAll, permAll, rotAll>>

MCSpec == MCInit /\ [][MCNext]_vars /\ WF_vars(MCProgress)

-----------------------------------------------------------------------------

\* A call runs its method at most once and fails only for a reason; a stream brings
\* the events in order and none twice (rpc Invoke, serveStream, decodeStream).
RpcIsRight ==
    /\ part = "rpc" => RP!InvokeIsRight
    /\ part = "stream" => ST!EventsInOrder

\* Snapshots have the names and the distances they should have (snapshotLoop).
SnapshotsSpaced == part = "snap" => SN!SnapshotsSpaced

\* A change of keys makes no file unreadable to its readers (cmd/upspin countersign,
\* rotate and share -fix; pack/ee Countersign, Share, Unpack).
RotationIsSafe == part = "rot" => RO!RotationIsSafe

\* In the end Perm allows those that the Writers file lists (updateLoop).
WritersSettle == part = "perm" => PM!WritersSettle

\* There are finitely many calls, and in the end each has returned: those of the key
\* server, of bind (but for one that needs one dial more than the instance has) and of
\* an rpc server; and each request for a snapshot is answered.  A stream that was ended
\* has ended for its user, and for both sides unless decodeStream is left waiting to
\* report the end to a user who is done (StreamEnded).
ServicesReturn ==
    <>[](/\ part = "key" => \A t \in Thread : req[t].pc = "idle"
         /\ part = "bind" => \A c \in Caller : caller[c].pc = "idle" \/ (caller[c].pc = "reach" /\ Len(dials) = bindSetting.dials)
         /\ part = "rpc" => \A i \in Invoker : invoke[i].pc = "idle"
         /\ part = "snap" => \A a \in Asker : asker[a] = "idle"
         /\ part = "stream" => ST!StreamEnded)

\* "Field determining the key used for the signature": the comment on DirEntry.Writer,
\* upspin/upspin.go.
WriterIsSigner == RO!WriterIsSigner
=============================================================================
