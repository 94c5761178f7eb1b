--------------------------- MODULE WritebackQueue ---------------------------
(***************************************************************************)
(* The writeback queue of the store cache (store/storecache/wbq.go).       *)
(*                                                                         *)
(* A Put to a writeback cache makes a hard link to the cache file, the     *)
(* promise that the block will be written, and sends a request to the      *)
(* scheduler.  The scheduler queues requests by endpoint and feeds the     *)
(* writers, no more than parallelism allows; a writer puts the block to    *)
(* its StoreServer, removes the link and reports back.  An endpoint that   *)
(* fails is left alone for a while.  A client may ask to be told when a    *)
(* block is flushed.                                                       *)
(*                                                                         *)
(* The scheduler, the writers, the clients and the timers are processes,   *)
(* and every send or receive on a channel is a step.                       *)
(***************************************************************************)
EXTENDS Integers, Sequences, FiniteSets, Functions

CONSTANTS
    Location,    \* blocks: a reference and an endpoint
    Endpoint,    \* StoreServers
    EndpointOf,  \* the endpoint of each location
    Client,      \* callers of put and flush
    Writer,      \* the writer goroutines
    Settings     \* what happens to the queue, see below

\* A setting names the locations that are put (loc), initialMaxParallel
\* (initial), how a writeback may fail (errors: "timeout" or "other"), a bound
\* on the number of failures and crashes (fails), and what else may happen:
\*   again  a block that is written is put once more
\*   close  the queue is closed
ASSUME QueueAssumption ==
    /\ Location # {} /\ EndpointOf \in [Location -> Endpoint]
    /\ IsFiniteSet(Writer)
    /\ \A s \in Settings :
           /\ s.loc \subseteq Location
           /\ s.initial \in 1..Cardinality(Writer)
           /\ s.errors \subseteq {"timeout", "other"}
           /\ s.may \subseteq {"again", "close"}
           /\ s.fails \in Nat

VARIABLES
    setting,      \* one of Settings; it never changes
    request,      \* channel of requests to the scheduler
    flushRequest, \* channel of flushes to the scheduler
    ready,        \* channel of requests to the writers
    done,         \* channel of completed requests to the scheduler
    timer,        \* timers, and retries that they sent, of each endpoint
    die,          \* whether close has closed the die channel
    queued,       \* location -> the clients in the flushChans of its request
    epq,          \* endpoint -> its queue and state
    par,          \* parallelism
    sched,        \* the scheduler
    writer,       \* what each writer is writing
    client,       \* what each client is doing
    link,         \* locations that have a writeback link
    walk,         \* links that newCache found and has yet to enqueue
    stored,       \* locations that are in their StoreServer
    fails         \* number of failed writebacks and crashes

vars == <<request, flushRequest, ready, done, timer, die, queued, epq, par,
          sched, writer, client, link, walk, stored, fails>>

May(x) == x \in setting.may
InitialMax == setting.initial

writers == Cardinality(Writer)

\* The capacity of every channel but die and terminated.
Cap == writers

Idle == [pc |-> "idle", loc |-> CHOOSE l \in Location : TRUE]

Init ==
    /\ setting \in Settings
    /\ request = << >>
    /\ flushRequest = << >>
    /\ ready = << >>
    /\ done = << >>
    /\ timer = [e \in Endpoint |-> 0]
    /\ die = FALSE
    /\ queued = [l \in {} |-> {}]
    /\ epq = [e \in Endpoint |-> [queue |-> << >>, state |-> "unknown"]]
    /\ par = [inFlight |-> 0, max |-> InitialMax, successes |-> 0]
    /\ sched = [pc |-> "select", pass |-> {}, sent |-> FALSE]
    /\ writer = [w \in Writer |-> Idle]
    /\ client = [c \in Client |-> Idle]
    /\ link = {}
    /\ walk = {}
    /\ stored = {}
    /\ fails = 0

-----------------------------------------------------------------------------
(* Clients. *)

QueueVarsButWalk == <<ready, done, timer, die, queued, epq, par, sched, writer, stored, fails>>
QueueVars == <<QueueVarsButWalk, walk>>

\* requestWriteback makes the link, unless there is one: then "someone else
\* is already writing it back" and the put is done.  The cachedRef stays locked
\* until the request is sent.
Put(c, l) ==
    /\ client[c].pc = "idle"
    /\ walk = {}
    /\ l \in stored => May("again")
    /\ ~\E d \in Client : client[d] = [pc |-> "linked", loc |-> l]
    /\ client' = [client EXCEPT ![c] = [pc |-> IF l \in link THEN "put" ELSE "linked", loc |-> l]]
    /\ link' = link \cup {l}
    /\ UNCHANGED <<QueueVars, request, flushRequest>>

\* ... and sends the request.
SendRequest(c) ==
    /\ client[c].pc = "linked"
    /\ Len(request) < Cap
    /\ request' = Append(request, client[c].loc)
    /\ client' = [client EXCEPT ![c].pc = "put"]
    /\ UNCHANGED <<QueueVars, flushRequest, link>>

\* flush sends its request and waits.
SendFlush(c) ==
    /\ client[c].pc = "put"
    /\ Len(flushRequest) < Cap
    /\ flushRequest' = Append(flushRequest, c)
    /\ client' = [client EXCEPT ![c].pc = "flushing"]
    /\ UNCHANGED <<QueueVars, request, link>>

\* A client is done, whether or not it flushed.
Leave(c) ==
    /\ client[c].pc \in {"put", "flushed", "early"}
    /\ client' = [client EXCEPT ![c] = Idle]
    /\ UNCHANGED <<QueueVars, request, flushRequest, link>>

-----------------------------------------------------------------------------
(* parallelism *)

\* Once max is the number of writers, successes counts on but is not looked
\* at before it is reset: the model stops counting here.
MaxSuccesses == 2 * writers

success(p) ==
    LET q == [p EXCEPT !.inFlight = @ - 1]
    IN  IF p.inFlight # p.max THEN q
        ELSE IF p.max = writers THEN [q EXCEPT !.successes = IF @ < MaxSuccesses THEN @ + 1 ELSE @]
        ELSE IF p.successes + 1 >= 2 * p.max
             THEN [q EXCEPT !.successes = 0, !.max = @ + 1]
             ELSE [q EXCEPT !.successes = @ + 1]

failure(p, err) ==
    LET q == [p EXCEPT !.inFlight = @ - 1]
    IN  IF err # "timeout" THEN q
        ELSE IF q.inFlight >= q.max THEN [q EXCEPT !.successes = 0]
        ELSE [q EXCEPT !.successes = 0, !.max = (@ + 1) \div 2]

ok(p) == p.inFlight < p.max

-----------------------------------------------------------------------------
(* The scheduler: one case of its select, and then it fills the ready
   channel. *)

Fill == sched' = [pc |-> "fill", pass |-> Endpoint, sent |-> FALSE]

Request ==
    /\ sched.pc = "select"
    /\ request # << >>
    /\ LET l == Head(request)
       IN  IF l \in DOMAIN queued
           THEN UNCHANGED <<queued, epq>>
           ELSE /\ queued' = [x \in DOMAIN queued \cup {l} |-> IF x = l THEN {} ELSE queued[x]]
                /\ epq' = [epq EXCEPT ![EndpointOf[l]].queue = Append(@, l)]
    /\ request' = Tail(request)
    /\ Fill
    /\ UNCHANGED <<flushRequest, ready, done, timer, die, par, writer, client, link, walk, stored, fails>>

\* A request failed: it goes back to its queue.  If that is not dealt with
\* by fewer parallel requests, the endpoint is dead until a timer fires.
DoneError(l, err) ==
    LET e == EndpointOf[l]
    IN  /\ epq' = [epq EXCEPT ![e] = [queue |-> Append(@.queue, l),
                                      state |-> IF err = "timeout" THEN @.state ELSE "dead"]]
        /\ timer' = IF err # "timeout" /\ epq[e].state # "dead"
                    THEN [timer EXCEPT ![e] = @ + 1] ELSE timer
        /\ par' = failure(par, err)
        /\ UNCHANGED <<queued, client>>

\* A request is done: the endpoint is live, and its flushers go on.
DoneSuccess(l) ==
    /\ epq' = [epq EXCEPT ![EndpointOf[l]].state = "live"]
    /\ par' = success(par)
    /\ client' = [c \in Client |->
           IF c \in queued[l] THEN [client[c] EXCEPT !.pc = "flushed"] ELSE client[c]]
    /\ queued' = Restrict(queued, DOMAIN queued \ {l})
    /\ UNCHANGED timer

Done ==
    /\ sched.pc = "select"
    /\ done # << >>
    /\ LET r == Head(done)
       IN  IF r.err = "none" THEN DoneSuccess(r.loc) ELSE DoneError(r.loc, r.err)
    /\ done' = Tail(done)
    /\ Fill
    /\ UNCHANGED <<request, flushRequest, ready, die, writer, link, walk, stored, fails>>

\* Mutant of Retry: the ready channel is not filled afterwards.
RetryLater(e) ==
    /\ sched.pc = "select"
    /\ timer[e] > 0
    /\ timer' = [timer EXCEPT ![e] = @ - 1]
    /\ epq' = [epq EXCEPT ![e].state = IF @ = "dead" THEN "unknown" ELSE @]
    /\ UNCHANGED <<request, flushRequest, ready, done, die, queued, par, sched, writer,
                   client, link, walk, stored, fails>>

\* retryInterval has passed.
Retry(e) ==
    /\ sched.pc = "select"
    /\ timer[e] > 0
    /\ timer' = [timer EXCEPT ![e] = @ - 1]
    /\ epq' = [epq EXCEPT ![e].state = IF @ = "dead" THEN "unknown" ELSE @]
    /\ Fill
    /\ UNCHANGED <<request, flushRequest, ready, done, die, queued, par, writer,
                   client, link, walk, stored, fails>>

\* Mutant of Flush: no flusher waits for a request that is being written.
FlushAtOnce ==
    /\ sched.pc = "select"
    /\ flushRequest # << >>
    /\ client' = [client EXCEPT ![Head(flushRequest)].pc = "flushed"]
    /\ flushRequest' = Tail(flushRequest)
    /\ Fill
    /\ UNCHANGED <<request, ready, done, timer, die, queued, epq, par, writer, link, walk, stored, fails>>

\* A flush that overtakes the request of its block finds nothing in flight: the
\* client is woken early.
Flush ==
    /\ sched.pc = "select"
    /\ flushRequest # << >>
    /\ LET c == Head(flushRequest)
           l == client[c].loc
       IN  IF l \in DOMAIN queued
           THEN queued' = [queued EXCEPT ![l] = @ \cup {c}] /\ UNCHANGED client
           ELSE client' = [client EXCEPT ![c].pc = IF l \in Range(request) THEN "early" ELSE "flushed"] /\ UNCHANGED queued
    /\ flushRequest' = Tail(flushRequest)
    /\ Fill
    /\ UNCHANGED <<request, ready, done, timer, die, epq, par, writer, link, walk, stored, fails>>

Die ==
    /\ sched.pc = "select"
    /\ die
    /\ sched' = [sched EXCEPT !.pc = "terminated"]
    /\ UNCHANGED <<request, flushRequest, ready, done, timer, die, queued, epq, par,
                   writer, client, link, walk, stored, fails>>

\* pickAndQueue: the endpoints of this pass that have something to send.
Pickable == {e \in sched.pass : epq[e].state # "dead" /\ epq[e].queue # << >>}

Pick(e) ==
    /\ sched.pc = "fill"
    /\ e \in Pickable
    /\ ok(par)
    /\ Len(ready) < Cap
    /\ ready' = Append(ready, Head(epq[e].queue))
    /\ epq' = [epq EXCEPT ![e] = [queue |-> Tail(@.queue),
                                  state |-> IF @.state = "unknown" THEN "dead" ELSE @.state]]
    /\ par' = [par EXCEPT !.inFlight = @ + 1]
    /\ sched' = [sched EXCEPT !.pass = @ \ {e}, !.sent = TRUE]
    /\ UNCHANGED <<request, flushRequest, done, timer, die, queued, writer, client,
                   link, walk, stored, fails>>

\* The pass is over; there is another one as long as something was sent.
EndPass ==
    /\ sched.pc = "fill"
    /\ Pickable = {} \/ ~ok(par) \/ Len(ready) = Cap
    /\ IF sched.sent /\ ok(par) /\ Len(ready) < Cap
       THEN Fill
       ELSE sched' = [sched EXCEPT !.pc = "select"]
    /\ UNCHANGED <<request, flushRequest, ready, done, timer, die, queued, epq, par,
                   writer, client, link, walk, stored, fails>>

Scheduler ==
    \/ Request \/ Done \/ Flush \/ Die \/ EndPass
    \/ \E e \in Endpoint : Retry(e) \/ Pick(e)

-----------------------------------------------------------------------------
(* The writers. *)

WriterVars == <<request, flushRequest, timer, queued, epq, par, sched, client>>

Take(w) ==
    /\ writer[w].pc = "idle"
    /\ ready # << >>
    /\ writer' = [writer EXCEPT ![w] = [pc |-> "write", loc |-> Head(ready)]]
    /\ ready' = Tail(ready)
    /\ UNCHANGED <<WriterVars, done, die, link, walk, stored, fails>>

\* writeback succeeds: the block is stored, then the link is removed.
Store(w) ==
    /\ writer[w].pc = "write"
    /\ stored' = stored \cup {writer[w].loc}
    /\ writer' = [writer EXCEPT ![w].pc = "unlink"]
    /\ UNCHANGED <<WriterVars, ready, done, die, link, walk, fails>>

Unlink(w) ==
    /\ writer[w].pc = "unlink"
    /\ link' = link \ {writer[w].loc}
    /\ writer' = [writer EXCEPT ![w].pc = "none"]
    /\ UNCHANGED <<WriterVars, ready, done, die, walk, stored, fails>>

Sending(w) == writer[w].pc \in {"none", "timeout", "other"}

\* It fails.
StoreFails(w, err) ==
    /\ writer[w].pc = "write"
    /\ fails < setting.fails
    /\ writer' = [writer EXCEPT ![w].pc = err]
    /\ fails' = fails + 1
    /\ UNCHANGED <<WriterVars, ready, done, die, link, walk, stored>>

\* Mutant of DoneCap: one buffer less than there are writers.
DoneCapShort == Cap - 1

DoneCap == Cap

\* The send to done.
Report(w) ==
    /\ Sending(w)
    /\ Len(done) < DoneCap
    /\ done' = Append(done, [loc |-> writer[w].loc, err |-> writer[w].pc])
    /\ writer' = [writer EXCEPT ![w] = Idle]
    /\ UNCHANGED <<WriterVars, ready, die, link, walk, stored, fails>>

WriterDie(w) ==
    /\ writer[w].pc = "idle"
    /\ die
    /\ writer' = [writer EXCEPT ![w].pc = "terminated"]
    /\ UNCHANGED <<WriterVars, ready, done, die, link, walk, stored, fails>>

WriterStep(w) == Take(w) \/ Store(w) \/ Unlink(w) \/ Report(w) \/ WriterDie(w)

\* close, which waits for all goroutines to terminate (see CloseReturns).
Close ==
    /\ May("close")
    /\ ~die
    /\ die' = TRUE
    /\ UNCHANGED <<WriterVars, ready, done, writer, link, walk, stored, fails>>

\* Mutant of Walk: a link whose block is in the cache is not enqueued.
WalkOver ==
    \E l \in walk :
        /\ walk' = walk \ {l}
        /\ UNCHANGED <<QueueVarsButWalk, request, flushRequest, client, link>>

\* The process dies and is started again: newCache walks the cache directory
\* and enqueues every writeback link that it finds.
Crash ==
    /\ fails < setting.fails
    /\ request' = << >> /\ flushRequest' = << >> /\ ready' = << >> /\ done' = << >>
    /\ timer' = [e \in Endpoint |-> 0]
    /\ die' = FALSE
    /\ queued' = [l \in {} |-> {}]
    /\ epq' = [e \in Endpoint |-> [queue |-> << >>, state |-> "unknown"]]
    /\ par' = [inFlight |-> 0, max |-> InitialMax, successes |-> 0]
    /\ sched' = [pc |-> "select", pass |-> {}, sent |-> FALSE]
    /\ writer' = [w \in Writer |-> Idle]
    /\ client' = [c \in Client |-> Idle]
    /\ walk' = link
    /\ fails' = fails + 1
    /\ UNCHANGED <<link, stored>>

Walk ==
    \E l \in walk :
        /\ Len(request) < Cap
        /\ request' = Append(request, l)
        /\ walk' = walk \ {l}
        /\ UNCHANGED <<QueueVarsButWalk, flushRequest, client, link>>

-----------------------------------------------------------------------------
Next ==
    /\ \/ Crash \/ Walk \/ Close
       \/ Scheduler
       \/ \E w \in Writer : WriterStep(w) \/ \E err \in setting.errors : StoreFails(w, err)
       \/ \E c \in Client : SendRequest(c) \/ SendFlush(c) \/ Leave(c)
                            \/ \E l \in setting.loc : Put(c, l)
    /\ UNCHANGED setting

Spec == Init /\ [][Next]_<<setting, vars>>

\* Every goroutine runs, timers fire, and the select of the scheduler takes
\* each of its cases sooner or later.
Fairness ==
    /\ \A w \in Writer : WF_vars(WriterStep(w))
    /\ WF_vars(Scheduler)
    /\ SF_vars(Request)
    /\ SF_vars(Done)
    /\ SF_vars(Flush)
    /\ SF_vars(Die)
    /\ \A e \in Endpoint : SF_vars(Retry(e))
    /\ \A c \in Client : WF_vars(SendRequest(c))
    /\ WF_vars(Walk)

FairSpec == Spec /\ Fairness

-----------------------------------------------------------------------------
Writing == {w \in Writer : writer[w].pc \notin {"idle", "terminated"}}

\* The scheduler's books are right.  max stays between 1 and the number of
\* writers, inFlight counts the requests that were sent and have not come back,
\* and all of them fit in the done channel, so that a writer never waits for
\* the scheduler.  Whoever finds a writeback link finds someone who is writing
\* it back, unless a block is put again while its link is being removed.
BooksAreRight ==
    /\ par.max \in 1..writers
    /\ par.inFlight <= Cap
    /\ par.inFlight = Len(ready) + Len(done) + Cardinality(Writing)
    /\ ~May("again") => \A l \in link :
           \/ l \in DOMAIN queued
           \/ l \in Range(request) \cup walk
           \/ \E c \in Client : client[c].pc = "linked" /\ client[c].loc = l

\* A flush returns when its block is in the StoreServer, unless its select let the
\* scheduler receive the flush before the request of the block (wbq.go:239), or a
\* block is put again while its link is being removed.
FlushMeansStored ==
    ~May("again") =>
        \A c \in Client : client[c].pc = "flushed" => client[c].loc \in stored

Orderly == setting.may = {}

\* Nothing will be sent to this endpoint before a restart.  The code comes to this
\* when the request that it sends to feel out an endpoint (the first one, and the
\* first one after retryInterval) fails other than by a timeout: the endpoint
\* counts as dead while that request is under way, and no timer is set for one
\* that is dead already (wbq.go:213), although "Retry after retryInterval" is said
\* of every failure (wbq.go:211).
InFlightTo(e) ==
    {l \in Range(ready) \cup {writer[w].loc : w \in {x \in Writer : writer[x].pc # "idle"}}
           \cup {r.loc : r \in Range(done)} : EndpointOf[l] = e}
Abandoned(e) == epq[e].state = "dead" /\ timer[e] = 0 /\ InFlightTo(e) = {}

\* What was put is written back, after failures of an endpoint that was live, any
\* number of timeouts and crashes, but for the blocks of an abandoned endpoint.
EventuallyStored == []<>(Orderly => \A l \in link : l \in stored \/ Abandoned(EndpointOf[l]))

Terminated == sched.pc = "terminated" /\ \A w \in Writer : writer[w].pc = "terminated"

\* A client that flushes is woken, unless the endpoint is abandoned; close waits
\* for every goroutine to terminate, and they do, unless the process dies.
QueueReturns ==
    /\ \A c \in Client : []<>(Orderly => client[c].pc # "flushing" \/ Abandoned(EndpointOf[client[c].loc]))
    /\ []<>(die => Terminated)

=============================================================================
