----------------------------- MODULE Snapshot -------------------------------
(***************************************************************************)
(* dir/server/snapshot.go: the goroutine that takes snapshots of a user's  *)
(* tree, when the server starts, when its ticker says it is time to look   *)
(* whether one is due, and when the user asks for one by putting the       *)
(* control file.  A snapshot is a copy of the root made in the directory   *)
(* of the day, under the time of day.                                      *)
(*                                                                         *)
(* Time is counted in units of the labels' resolution (a minute).          *)
(***************************************************************************)
EXTENDS Integers, FiniteSets, FiniteSetsExt

CONSTANTS
    Asker,         \* calls of Put for the control file
    Day,           \* the units in a day
    Interval,      \* snapshotDefaultInterval
    Period,        \* snapshotWorkerInterval
    SnapSettings   \* how long (until), how many requests (max) and changes (changes), what may happen (ops)

VARIABLES
    snapSetting,   \* one of SnapSettings; it never changes
    clock,         \* the time
    version,       \* the source tree
    snaps,         \* the snapshots: [day, time, version, to, auto]
    worker,        \* [pc, for, day, version]: snapshotLoop
    ticked,        \* the ticker has ticked
    asker,         \* "idle", "send", "wait" for each asker
    asks           \* requests so far

snapVars == <<clock, version, snaps, worker, ticked, asker, asks>>

ticker == "ticker"
Select == [pc |-> "select", for |-> ticker, day |-> 0, version |-> 0]
Starting == [Select EXCEPT !.pc = "should"]

SnapInit ==
    /\ snapSetting \in SnapSettings
    /\ clock = snapSetting.start
    /\ version = 1
    /\ snaps = {}
    /\ worker = Starting           \* Run once upon starting.
    /\ ticked = FALSE
    /\ asker = [a \in Asker |-> "idle"]
    /\ asks = 0

label(s) == s.day * Day + s.time
today == clock \div Day

\* Put of the control file hands the worker a request, and waits for its error.
Ask(a) ==
    /\ asker[a] = "idle"
    /\ asks < snapSetting.max
    /\ asks' = asks + 1
    /\ asker' = [asker EXCEPT ![a] = "send"]
    /\ UNCHANGED <<clock, version, snaps, worker, ticked>>

\* snapshotLoop: the next tick or the next request.
Tick ==
    /\ worker.pc = "select"
    /\ ticked
    /\ ticked' = FALSE
    /\ worker' = Starting
    /\ UNCHANGED <<clock, version, snaps, asker, asks>>
Request(a) ==
    /\ worker.pc = "select"
    /\ asker[a] = "send"
    /\ asker' = [asker EXCEPT ![a] = "wait"]
    /\ worker' = [Select EXCEPT !.pc = "lookup", !.for = a, !.day = today]
    /\ UNCHANGED <<clock, version, snaps, ticked, asks>>

\* Mutant of mostRecent: the first snapshot of the day counts.
mostRecentFirst == Min({label(s) : s \in {x \in snaps : x.day = today}})

mostRecent == Max({label(s) : s \in {x \in snaps : x.day = today}})

\* shouldSnapshot looks at the snapshots of today only.
shouldSnapshot ==
    /\ worker.pc = "should"
    /\ worker' = IF (\E s \in snaps : s.day = today) /\ mostRecent + Interval > clock
                 THEN Select
                 ELSE [worker EXCEPT !.pc = "lookup", !.day = today]
    /\ UNCHANGED <<clock, version, snaps, ticked, asker, asks>>

Answer == asker' = IF worker.for = ticker THEN asker ELSE [asker EXCEPT ![worker.for] = "idle"]

\* takeSnapshot: the source as it is, with all changes flushed ...
Lookup ==
    /\ worker.pc = "lookup"
    /\ \/ worker' = [worker EXCEPT !.pc = "put", !.version = version] /\ UNCHANGED asker
       \/ "fail" \in snapSetting.ops /\ worker' = Select /\ Answer
    /\ UNCHANGED <<clock, version, snaps, ticked, asks>>

\* ... is put under the time of now in the directory chosen before, which is made if
\* need be.  What has that name already is not replaced.
PutDir ==
    /\ worker.pc = "put"
    /\ LET s == [day |-> worker.day, time |-> clock % Day, version |-> worker.version, to |-> clock, auto |-> worker.for = ticker]
       IN  snaps' = IF \E x \in snaps : label(x) = label(s) THEN snaps ELSE snaps \cup {s}
    /\ worker' = Select
    /\ Answer
    /\ UNCHANGED <<clock, version, ticked, asks>>

\* Time passes; the tree changes; the server is started again.
Pass ==
    /\ clock < snapSetting.until
    /\ clock' = clock + 1
    /\ ticked' = (ticked \/ clock' % Period = 0)
    /\ UNCHANGED <<version, snaps, worker, asker, asks>>
Modify ==
    /\ version <= snapSetting.changes
    /\ version' = version + 1
    /\ UNCHANGED <<clock, snaps, worker, ticked, asker, asks>>
Restart ==
    /\ "restart" \in snapSetting.ops
    /\ worker.pc # "should"
    /\ worker' = Starting
    /\ ticked' = FALSE
    /\ asker' = [a \in Asker |-> "idle"]
    /\ UNCHANGED <<clock, version, snaps, asks>>

Work == Tick \/ shouldSnapshot \/ Lookup \/ PutDir \/ \E a \in Asker : Request(a)

SnapNext ==
    /\ Work \/ Pass \/ Modify \/ Restart \/ \E a \in Asker : Ask(a)
    /\ UNCHANGED snapSetting

-----------------------------------------------------------------------------

\* The midnight that the worker did not notice: the day was chosen before it.
Crossed(s) == s.to \div Day # s.day

\* No two snapshots have the same name; a snapshot's name is the time it was put, unless
\* midnight came while it was taken; a later one has no older tree; and an automatic one is never taken within Interval of
\* another of the same day, though requests come in between.  Across midnight the
\* interval is not kept: shouldSnapshot looks at one day only.
SnapshotsSpaced ==
    \A s, x \in snaps :
        /\ label(s) = label(x) => s = x
        /\ ~Crossed(s) => label(s) = s.to
        /\ x.to < s.to => x.version <= s.version
        /\ (s.auto /\ s.day = x.day /\ ~Crossed(s) /\ ~Crossed(x) /\ x.to < s.to) => label(s) - label(x) >= Interval

=============================================================================
