-------------------------------- MODULE Perm --------------------------------
(***************************************************************************)
(* serverutil/perm: which users may write to a store server, or make a     *)
(* root on a directory server.  They are listed in the Group file Writers  *)
(* of the server's user; Perm reads it and follows its changes by a Watch  *)
(* of the user's tree.  Another user's Access file may hide the file.      *)
(*                                                                         *)
(* The tree, its watch and its orders are external: the order of a change  *)
(* is the number of changes so far, and a watch from -1 begins with the    *)
(* root, then the Access file, then Writers, all with the current order.   *)
(***************************************************************************)
EXTENDS Sequences, Integers

CONSTANTS
    Writer,        \* users
    domainOf,      \* the domain of each
    PermSettings   \* contents the file may get (lists), how many changes (changes) and failures (faults), what may happen (ops)

VARIABLES
    permSetting,   \* one of PermSettings; it never changes
    file,          \* what the Writers file lists: a set of users, domains and "all"; or nofile
    readable,      \* Perm may read it
    order,         \* changes so far
    faults,        \* failures so far
    writers,       \* the users Perm allows; nofile is nil, which allows everyone
    loop,          \* [pc, accessOrder, done]: the goroutine; done if it has closed its done channel
    events,        \* the events the watch has sent
    watch,         \* the watch: "none", "open" or "closed"
    missed         \* the file was deleted, or could not be read, without Perm seeing it

permVars == <<file, readable, order, faults, writers, loop, events, watch, missed>>

nofile == {"no file"}

PermInit ==
    /\ permSetting \in PermSettings
    /\ file \in permSetting.lists
    /\ readable \in (IF "access" \in permSetting.ops THEN BOOLEAN ELSE {TRUE})
    /\ order = 1
    /\ faults = 0
    /\ writers = nofile           \* Start open.
    /\ loop = [pc |-> "update", accessOrder |-> -1, done |-> FALSE]
    /\ events = << >>
    /\ watch = "none"
    /\ missed = FALSE

MayFault == faults < permSetting.faults
Faulty(n) == faults' = faults + n

-----------------------------------------------------------------------------
(* The tree and its watch (external). *)

Event(name, o, del) == [name |-> name, order |-> o, delete |-> del, error |-> FALSE]

Tell(e) == events' = IF watch = "open" THEN Append(events, e) ELSE events

\* The file is written or deleted; a watcher that may read it is told.
Change(list) ==
    /\ order <= permSetting.changes
    /\ list \in permSetting.lists /\ list # file
    /\ file' = list
    /\ order' = order + 1
    /\ IF readable THEN Tell(Event("Writers", order', list = nofile)) ELSE UNCHANGED events
    /\ missed' = IF list = nofile THEN missed \/ ~readable \/ watch # "open" \/ loop.done ELSE missed
    /\ UNCHANGED <<readable, faults, writers, loop, watch>>

ChangeAccess ==
    /\ order <= permSetting.changes
    /\ "access" \in permSetting.ops
    /\ readable' = ~readable
    /\ order' = order + 1
    /\ Tell(Event("Access", order', FALSE))
    /\ UNCHANGED <<file, faults, writers, loop, watch, missed>>

\* The watch ends because it was told to, or because it fails, with or without an
\* event that says so; what it had not sent is lost.
WatchEnds ==
    /\ watch = "open"
    /\ \/ loop.done /\ Faulty(0) /\ events' = << >>
       \/ MayFault /\ Faulty(1) /\ events' \in {<< >>, <<[Event("", order, FALSE) EXCEPT !.error = TRUE]>>}
    /\ watch' = "closed"
    /\ missed' = (missed \/ \E i \in DOMAIN events : events[i].delete)
    /\ UNCHANGED <<file, readable, order, writers, loop>>

-----------------------------------------------------------------------------
(* Perm. *)

\* updateUsers reads the file as it is now; if that fails the writers stay.
updateUsers ==
    \/ /\ readable /\ file # nofile
       /\ writers' = file
       /\ missed' = FALSE
       /\ Faulty(0)
    \/ /\ ~readable \/ file = nofile \/ MayFault
       /\ missed' = TRUE
       /\ Faulty(IF readable /\ file # nofile THEN 1 ELSE 0)
       /\ UNCHANGED writers

deleteUsers == writers' = nofile /\ missed' = FALSE /\ Faulty(0)

\* Update, once the server is ready: no file is as if it had been deleted.
Update ==
    /\ loop.pc = "update"
    /\ loop' = [loop EXCEPT !.pc = "open"]
    /\ IF readable /\ file = nofile THEN deleteUsers ELSE updateUsers
    /\ UNCHANGED <<file, readable, order, events, watch>>

\* The loop opens the watch, again and again if need be.
Open ==
    /\ loop.pc = "open"
    /\ \/ /\ loop' = [loop EXCEPT !.pc = "receive", !.done = FALSE]
          /\ watch' = "open"
          /\ events' = <<Event("", order, FALSE), Event("Access", order, FALSE)>>
                           \o IF readable /\ file # nofile THEN <<Event("Writers", order, FALSE)>> ELSE << >>
          /\ Faulty(0)
       \/ /\ MayFault /\ Faulty(1)
          /\ UNCHANGED <<loop, watch, events>>
       \/ /\ "unsupported" \in permSetting.ops
          /\ loop' = [loop EXCEPT !.pc = "exited"]
          /\ UNCHANGED <<watch, events, faults>>
    /\ UNCHANGED <<file, readable, order, writers, missed>>

Closed ==
    /\ loop.pc = "receive"
    /\ watch = "closed" /\ events = << >>
    /\ loop' = [loop EXCEPT !.pc = "open"]
    /\ watch' = "none"
    /\ UNCHANGED <<file, readable, order, faults, writers, events, missed>>

\* Mutant of isRelevantAccess: the Access file is of no interest.
isRelevantAccessNever(e) == FALSE

isRelevantAccess(e) == e.name = "Access"

\* An event: an error, or a newer Access file, ends this watch; of the others only
\* those of the file matter.
Receive ==
    /\ loop.pc = "receive"
    /\ events # << >>
    /\ LET e == Head(events)
       IN  IF e.error
           THEN loop' = [loop EXCEPT !.done = TRUE] /\ UNCHANGED <<writers, missed, faults>>
           ELSE IF isRelevantAccess(e) /\ e.order > loop.accessOrder
           THEN loop' = [loop EXCEPT !.done = TRUE, !.accessOrder = e.order] /\ UNCHANGED <<writers, missed, faults>>
           ELSE /\ loop' = [loop EXCEPT !.accessOrder = IF @ < 0 THEN e.order ELSE @]
                /\ IF e.name # "Writers" THEN UNCHANGED <<writers, missed, faults>>
                   ELSE IF e.delete THEN deleteUsers
                   ELSE updateUsers
    /\ events' = Tail(events)
    /\ UNCHANGED <<file, readable, order, watch>>

Run == Update \/ Open \/ Closed \/ Receive

PermNext ==
    /\ \/ Run \/ WatchEnds \/ ChangeAccess
       \/ \E list \in permSetting.lists : Change(list)
    /\ UNCHANGED permSetting

-----------------------------------------------------------------------------

\* Who may write: everyone if there is no list, those listed, and those of a domain listed.
IsWriter(u) == writers = nofile \/ "all" \in writers \/ u \in writers \/ domainOf[u] \in writers

\* What the file says of a user.
Listed(u) == file = nofile \/ \E x \in file : x \in {"all", u, domainOf[u]}

\* In the end Perm allows the users the file lists and no others, however the file
\* and the right to read it change and whatever fails on the way: unless the file
\* is hidden, or the loop has ended as its server has no Watch, or Perm was without a
\* watch when the file was deleted, or failed to read it (updateLoop; a watch from -1
\* does not tell of a deletion).
WritersSettle ==
    <>[](loop.pc = "exited" \/ ~readable \/ missed \/ \A u \in Writer : IsWriter(u) <=> Listed(u))
=============================================================================
