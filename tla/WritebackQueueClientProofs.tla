--------------------- MODULE WritebackQueueClientProofs ---------------------
(***************************************************************************)
(* The books of the writeback queue are right, and who waits for a flush   *)
(* is woken when the block is stored, whatever the number of endpoints,    *)
(* blocks, writers and clients.                                            *)
(*                                                                         *)
(* The argument is that every request that is queued is in one place: the  *)
(* queue of its endpoint, the ready channel, a writer or the done channel. *)
(* A request that has been written has its block in the StoreServer and,   *)
(* unless blocks are put again, has lost its link for good; so when the    *)
(* scheduler forgets it nobody relies on it any more.                      *)
(***************************************************************************)
EXTENDS WritebackQueue, FiniteSetTheorems, TLAPS

Results == {"none", "timeout", "other"}
WriterPcs == {"idle", "write", "unlink", "terminated"} \cup Results
ClientPcs == {"idle", "linked", "put", "flushing", "flushed", "early"}
Dones == [loc : Location, err : Results]
Queues == [queue : Seq(Location), state : {"unknown", "live", "dead"}]
Pars == [inFlight : Int, max : Int, successes : Int]
Writers == [pc : WriterPcs, loc : Location]
Clients == [pc : ClientPcs, loc : Location]

TypeOK ==
    /\ setting \in Settings
    /\ request \in Seq(Location)
    /\ flushRequest \in Seq(Client)
    /\ ready \in Seq(Location)
    /\ done \in Seq(Dones)
    /\ DOMAIN queued \subseteq Location
    /\ epq \in [Endpoint -> Queues]
    /\ par \in Pars
    /\ writer \in [Writer -> Writers]
    /\ client \in [Client -> Clients]
    /\ link \subseteq Location /\ walk \subseteq Location

\* The first part of BooksAreRight.
Counts ==
    /\ par.max \in 1..writers
    /\ par.inFlight <= writers
    /\ par.inFlight = Len(ready) + Len(done) + Cardinality(Writing)

\* What has been written is stored, and its link is gone.
Landed ==
    /\ \A w \in Writer : writer[w].pc \in {"unlink", "none"} => writer[w].loc \in stored
    /\ \A r \in Range(done) : r.err = "none" => r.loc \in stored
    /\ ~May("again") => /\ \A w \in Writer : writer[w].pc = "none" => writer[w].loc \notin link
                        /\ \A r \in Range(done) : r.err = "none" => r.loc \notin link

\* The second part.
Covered ==
    ~May("again") => \A l \in link :
        \/ l \in DOMAIN queued
        \/ l \in Range(request) \cup walk
        \/ \E c \in Client : client[c].pc = "linked" /\ client[c].loc = l

Distinct(q) == \A i, j \in 1..Len(q) : q[i] = q[j] => i = j
DistinctLocs(q) == \A i, j \in 1..Len(q) : q[i].loc = q[j].loc => i = j

InQueue(l) == \E e \in Endpoint : l \in Range(epq[e].queue)
InReady(l) == l \in Range(ready)
InWriter(l) == \E w \in Writing : writer[w].loc = l
InDone(l) == \E r \in Range(done) : r.loc = l

\* Every request is in one place.
Places ==
    /\ \A e \in Endpoint : Distinct(epq[e].queue)
    /\ \A e \in Endpoint : \A l \in Range(epq[e].queue) : EndpointOf[l] = e
    /\ Distinct(ready)
    /\ \A v, w \in Writing : writer[v].loc = writer[w].loc => v = w
    /\ DistinctLocs(done)
    /\ \A l : InQueue(l) => l \in DOMAIN queued /\ ~InReady(l) /\ ~InWriter(l) /\ ~InDone(l)
    /\ \A l : InReady(l) => l \in DOMAIN queued /\ ~InWriter(l) /\ ~InDone(l)
    /\ \A l : InWriter(l) => l \in DOMAIN queued /\ ~InDone(l)
    /\ \A l : InDone(l) => l \in DOMAIN queued

\* Who waits for a flush waits once, for its own block.
Waiting ==
    /\ \A l \in DOMAIN queued : \A c \in queued[l] :
           c \in Client /\ client[c].pc = "flushing" /\ client[c].loc = l /\ c \notin Range(flushRequest)
    /\ \A c \in Range(flushRequest) : client[c].pc = "flushing"
    /\ Distinct(flushRequest)

\* The block of a client that has put it is on its way, or stored.
Flushers ==
    ~May("again") => \A c \in Client :
        /\ client[c].pc = "put" => client[c].loc \in DOMAIN queued \cup Range(request) \cup stored
        /\ client[c].pc = "flushing" => client[c].loc \in DOMAIN queued \cup Range(request) \cup stored
        /\ client[c].pc = "flushed" => client[c].loc \in stored

Inv == TypeOK /\ Counts /\ Landed /\ Covered /\ Places /\ Waiting /\ Flushers

-----------------------------------------------------------------------------
(* Sequences. *)

\* A sequence with one more element.
LEMMA AppendShape ==
    ASSUME NEW S, NEW q \in Seq(S), NEW e \in S
    PROVE  /\ Append(q, e) \in Seq(S) /\ Len(Append(q, e)) = Len(q) + 1
           /\ Range(Append(q, e)) = Range(q) \cup {e}
           /\ e \notin Range(q) /\ Distinct(q) => Distinct(Append(q, e))
<1> DEFINE p == Append(q, e)
<1>1. /\ p \in Seq(S) /\ Len(p) = Len(q) + 1 /\ Len(q) \in Nat
      /\ \A i \in 1..Len(q) : p[i] = q[i]
      /\ p[Len(q) + 1] = e
  OBVIOUS
<1>2. DOMAIN p = 1..Len(p) /\ DOMAIN q = 1..Len(q)
  OBVIOUS
<1> HIDE DEF p
<1>3. \A i \in 1..Len(p) : i \in 1..Len(q) \/ i = Len(q) + 1
  BY <1>1
<1>4. Len(q) + 1 \in 1..Len(p) /\ \A i \in 1..Len(q) : i \in 1..Len(p)
  BY <1>1
<1>5. Range(p) = Range(q) \cup {e}
  BY <1>1, <1>2, <1>3, <1>4, Zenon DEF Range
<1>6. ASSUME e \notin Range(q), Distinct(q) PROVE Distinct(p)
  <2>1. \A i \in 1..Len(q) : q[i] # e
    BY <1>2, <1>6 DEF Range
  <2> QED
    BY <1>1, <1>3, <1>6, <2>1, Zenon DEF Distinct
<1> QED
  BY <1>1, <1>5, <1>6 DEF p

\* A sequence without its first element.
LEMMA TailShape ==
    ASSUME NEW S, NEW q \in Seq(S), q # << >>
    PROVE  /\ Tail(q) \in Seq(S) /\ Len(q) >= 1 /\ Len(Tail(q)) = Len(q) - 1
           /\ Head(q) \in S
           /\ Range(q) = Range(Tail(q)) \cup {Head(q)}
           /\ Distinct(q) => Distinct(Tail(q)) /\ Head(q) \notin Range(Tail(q))
<1> DEFINE p == Tail(q)
           h == Head(q)
<1>1. /\ p \in Seq(S) /\ Len(q) \in Nat /\ Len(q) >= 1 /\ Len(p) = Len(q) - 1
      /\ \A i \in 1..Len(p) : p[i] = q[i + 1]
      /\ h = q[1] /\ h \in S
  OBVIOUS
<1>2. DOMAIN p = 1..Len(p) /\ DOMAIN q = 1..Len(q)
  OBVIOUS
<1> HIDE DEF p, h
<1>3. \A i \in 1..Len(p) : i + 1 \in 1..Len(q) /\ i + 1 # 1
  BY <1>1
<1>4. 1 \in 1..Len(q)
  BY <1>1
<1>5. \A i \in 1..Len(q) : i = 1 \/ \E j \in 1..Len(p) : i = j + 1
  <2> SUFFICES ASSUME NEW i \in 1..Len(q), i # 1 PROVE \E j \in 1..Len(p) : i = j + 1
    OBVIOUS
  <2>1. i - 1 \in 1..Len(p) /\ i = (i - 1) + 1
    BY <1>1
  <2> QED
    BY <2>1
<1>6. Range(q) = Range(p) \cup {h}
  <2>1. ASSUME NEW i \in 1..Len(q) PROVE q[i] \in Range(p) \cup {h}
    <3>1. CASE i = 1
      BY <1>1, <3>1
    <3>2. ASSUME NEW j \in 1..Len(p), i = j + 1 PROVE q[i] \in Range(p)
      BY <1>1, <1>2, <3>2 DEF Range
    <3> QED
      BY <1>5, <3>1, <3>2
  <2>2. ASSUME NEW j \in 1..Len(p) PROVE p[j] \in Range(q)
    BY <1>1, <1>2, <1>3 DEF Range
  <2>3. h \in Range(q)
    BY <1>1, <1>2, <1>4 DEF Range
  <2> QED
    BY <1>2, <2>1, <2>2, <2>3, Zenon DEF Range
<1>7. ASSUME Distinct(q) PROVE Distinct(p) /\ h \notin Range(p)
  <2>1. ASSUME NEW i \in 1..Len(p), NEW j \in 1..Len(p), p[i] = p[j] PROVE i = j
    <3>1. q[i + 1] = q[j + 1]
      BY <1>1, <2>1
    <3>2. i + 1 = j + 1
      BY <1>3, <1>7, <3>1, Zenon DEF Distinct
    <3> QED
      BY <3>2
  <2>2. \A i \in 1..Len(p) : p[i] # h
    BY <1>1, <1>3, <1>4, <1>7, Zenon DEF Distinct
  <2> QED
    BY <1>2, <2>1, <2>2, Zenon DEF Distinct, Range
<1> QED
  BY <1>1, <1>6, <1>7 DEF p, h

\* The same of completed requests, which are distinct if their blocks are.
LEMMA DonesShape ==
    ASSUME NEW q \in Seq(Dones), DistinctLocs(q)
    PROVE  /\ \A r \in Dones : (\A x \in Range(q) : x.loc # r.loc) => DistinctLocs(Append(q, r))
           /\ q # << >> => DistinctLocs(Tail(q)) /\ \A x \in Range(Tail(q)) : x.loc # Head(q).loc
<1>1. DOMAIN q = 1..Len(q) /\ Len(q) \in Nat
  OBVIOUS
<1>2. ASSUME NEW r \in Dones, \A x \in Range(q) : x.loc # r.loc PROVE DistinctLocs(Append(q, r))
  <2> DEFINE p == Append(q, r)
  <2>1. /\ Len(p) = Len(q) + 1
        /\ \A i \in 1..Len(q) : p[i] = q[i]
        /\ p[Len(q) + 1] = r
    OBVIOUS
  <2> HIDE DEF p
  <2>2. \A i \in 1..Len(p) : i \in 1..Len(q) \/ i = Len(q) + 1
    BY <1>1, <2>1
  <2>3. \A i \in 1..Len(q) : q[i].loc # r.loc
    BY <1>1, <1>2 DEF Range
  <2>4. DistinctLocs(p)
    BY <2>1, <2>2, <2>3, Zenon DEF DistinctLocs
  <2> QED
    BY <2>4 DEF p
<1>3. ASSUME q # << >> PROVE DistinctLocs(Tail(q)) /\ \A x \in Range(Tail(q)) : x.loc # Head(q).loc
  <2> DEFINE p == Tail(q)
             h == Head(q)
  <2>1. /\ Len(q) >= 1 /\ Len(p) = Len(q) - 1 /\ DOMAIN p = 1..Len(p)
        /\ \A i \in 1..Len(p) : p[i] = q[i + 1]
        /\ h = q[1]
    BY <1>3
  <2> HIDE DEF p, h
  <2>2. \A i \in 1..Len(p) : i + 1 \in 1..Len(q) /\ i + 1 # 1
    BY <1>1, <2>1
  <2>3. 1 \in 1..Len(q)
    BY <1>1, <2>1
  <2>4. ASSUME NEW i \in 1..Len(p), NEW j \in 1..Len(p), p[i].loc = p[j].loc PROVE i = j
    <3>1. q[i + 1].loc = q[j + 1].loc
      BY <2>1, <2>4
    <3>2. i + 1 = j + 1
      BY <2>2, <3>1, Zenon DEF DistinctLocs
    <3> QED
      BY <3>2
  <2>5. \A i \in 1..Len(p) : p[i].loc # h.loc
    BY <2>1, <2>2, <2>3, Zenon DEF DistinctLocs
  <2>6. DistinctLocs(p) /\ \A x \in Range(p) : x.loc # h.loc
    BY <2>1, <2>4, <2>5, Zenon DEF DistinctLocs, Range
  <2> QED
    BY <2>6 DEF p, h
<1> QED
  BY <1>2, <1>3

-----------------------------------------------------------------------------
(* What a step that does not touch it leaves as it is. *)

\* Counts looks at the parallelism, the channels of the writers and the writers.
LEMMA CountsFrame ==
    ASSUME Counts, UNCHANGED <<par, ready, done, writer>>
    PROVE  Counts'
BY DEF Counts, Writing, writers

\* Landed looks at the writers, their results, what is stored and the links.
LEMMA LandedFrame ==
    ASSUME Landed, UNCHANGED <<setting, writer, done, stored, link>>
    PROVE  Landed'
BY DEF Landed, May

\* Covered looks at the links and at who knows of them.
LEMMA CoveredFrame ==
    ASSUME Covered, UNCHANGED <<setting, link, queued, request, walk, client>>
    PROVE  Covered'
BY DEF Covered, May

\* Places looks at the places of a request.
LEMMA PlacesFrame ==
    ASSUME Places, UNCHANGED <<epq, ready, writer, done, queued>>
    PROVE  Places'
BY DEF Places, InQueue, InReady, InWriter, InDone, Writing

\* Waiting and Flushers look at the clients and what they wait for.
LEMMA FlushersFrame ==
    ASSUME Waiting, Flushers, UNCHANGED <<setting, queued, client, flushRequest, request, stored>>
    PROVE  Waiting' /\ Flushers'
BY DEF Waiting, Flushers, May

-----------------------------------------------------------------------------
(* Steps. *)

\* Nobody does anything, to nobody's block.
LEMMA IdleShape == Idle \in Writers /\ Idle \in Clients /\ Idle.pc = "idle" /\ Idle.loc \in Location
<1>1. (CHOOSE l \in Location : TRUE) \in Location
  BY QueueAssumption
<1> QED
  BY <1>1 DEF Idle, Writers, Clients, WriterPcs, ClientPcs, Results

\* What is assumed of the setting that is run.
LEMMA SettingFacts ==
    ASSUME setting \in Settings
    PROVE  /\ setting.loc \subseteq Location
           /\ InitialMax \in 1..writers
           /\ setting.errors \subseteq {"timeout", "other"}
           /\ writers \in Nat
           /\ EndpointOf \in [Location -> Endpoint]
BY QueueAssumption, FS_CardinalityType DEF InitialMax, writers

\* A queue that is empty, as at first and after a crash.
Empty ==
    /\ setting \in Settings /\ link \subseteq Location /\ walk = link
    /\ request = << >> /\ flushRequest = << >> /\ ready = << >> /\ done = << >>
    /\ queued = [l \in {} |-> {}]
    /\ epq = [e \in Endpoint |-> [queue |-> << >>, state |-> "unknown"]]
    /\ par = [inFlight |-> 0, max |-> InitialMax, successes |-> 0]
    /\ writer = [w \in Writer |-> Idle] /\ client = [c \in Client |-> Idle]

\* Nothing is wrong with an empty queue.
LEMMA EmptyInv == Empty => Inv
<1> SUFFICES ASSUME Empty PROVE Inv
  OBVIOUS
<1> USE DEF Empty
<1>1. TypeOK
  <2>1. InitialMax \in Int
    BY SettingFacts
  <2>2. writer \in [Writer -> Writers] /\ client \in [Client -> Clients]
    BY IdleShape
  <2>3. epq \in [Endpoint -> Queues]
    BY DEF Queues
  <2>4. par \in Pars
    BY <2>1 DEF Pars
  <2>5. DOMAIN queued = {}
    OBVIOUS
  <2> QED
    BY <2>2, <2>3, <2>4, <2>5 DEF TypeOK
<1>2. Writing = {}
  BY IdleShape DEF Writing
<1>3. Range(request) = {} /\ Range(flushRequest) = {} /\ Range(ready) = {} /\ Range(done) = {}
  BY DEF Range
<1>4. Counts
  <2>1. Cardinality(Writing) = 0
    BY <1>2, FS_EmptySet
  <2> QED
    BY <2>1, SettingFacts DEF Counts
<1>5. Landed /\ Covered
  BY <1>3, IdleShape DEF Landed, Covered
<1>6. Places
  <2>1. \A e \in Endpoint : epq[e].queue = << >> /\ Range(epq[e].queue) = {}
    BY DEF Range
  <2> QED
    BY <1>2, <1>3, <2>1 DEF Places, Distinct, DistinctLocs, InQueue, InReady, InWriter, InDone
<1>7. Waiting /\ Flushers
  BY <1>3, IdleShape DEF Waiting, Flushers, Distinct
<1> QED
  BY <1>1, <1>4, <1>5, <1>6, <1>7 DEF Inv

\* At first there is nothing.
LEMMA InitInv ==
    ASSUME Init
    PROVE  Inv
BY EmptyInv DEF Init, Empty

\* The process dies: its queue is lost, and its links are found again.
LEMMA CrashInv ==
    ASSUME Inv, UNCHANGED setting, Crash
    PROVE  Inv'
<1>1. setting' \in Settings /\ link' \subseteq Location /\ walk' = link'
  BY DEF Inv, TypeOK, Crash
<1>2. Empty'
  BY <1>1 DEF Crash, Empty, InitialMax, Idle
<1> QED
  BY <1>2, EmptyInv, PTL

\* A client's state, and the others' that it leaves alone.
LEMMA ClientMoves ==
    ASSUME TypeOK, NEW c \in Client, NEW n \in Clients, client' = [client EXCEPT ![c] = n]
    PROVE  client' \in [Client -> Clients] /\ client'[c] = n /\ \A d \in Client : d # c => client'[d] = client[d]
BY DEF TypeOK

\* A client goes on with the same block.
LEMMA ClientGoesOn ==
    ASSUME TypeOK, NEW c \in Client, NEW pc \in ClientPcs, client' = [client EXCEPT ![c].pc = pc]
    PROVE  /\ client' \in [Client -> Clients]
           /\ client'[c].pc = pc /\ client'[c].loc = client[c].loc
           /\ \A d \in Client : d # c => client'[d] = client[d]
<1> DEFINE n == [client[c] EXCEPT !.pc = pc]
<1>1. client[c] \in Clients
  BY DEF TypeOK
<1>2. n \in Clients /\ n.pc = pc /\ n.loc = client[c].loc
  BY <1>1 DEF Clients
<1>3. client' = [client EXCEPT ![c] = n]
  OBVIOUS
<1> HIDE DEF n
<1> QED
  BY <1>2, <1>3, ClientMoves, Zenon

\* The link is made.
LEMMA PutInv ==
    ASSUME Inv, UNCHANGED setting, NEW c \in Client, NEW l \in setting.loc, Put(c, l)
    PROVE  Inv'
<1>1. TypeOK /\ Counts /\ Landed /\ Covered /\ Places /\ Waiting /\ Flushers
  BY DEF Inv
<1> DEFINE n == [pc |-> IF l \in link THEN "put" ELSE "linked", loc |-> l]
<1>2. /\ client[c].pc = "idle" /\ walk = {} /\ client' = [client EXCEPT ![c] = n]
      /\ link' = link \cup {l} /\ (l \in stored => May("again"))
      /\ ~\E d \in Client : client[d] = [pc |-> "linked", loc |-> l]
      /\ UNCHANGED <<ready, done, timer, die, queued, epq, par, sched, writer, stored, fails, walk, request, flushRequest>>
  BY DEF Put, QueueVars, QueueVarsButWalk
<1>3. l \in Location
  BY <1>1, SettingFacts DEF TypeOK
<1>4. n \in Clients /\ n.loc = l /\ (l \in link => n.pc = "put") /\ (l \notin link => n.pc = "linked")
  BY <1>3 DEF Clients, ClientPcs
<1> HIDE DEF n
<1>5. client' \in [Client -> Clients] /\ client'[c] = n /\ \A d \in Client : d # c => client'[d] = client[d]
  BY <1>1, <1>2, <1>4, ClientMoves, Zenon
<1>6. TypeOK'
  BY <1>1, <1>2, <1>3, <1>5 DEF TypeOK
<1>7. Counts' /\ Places'
  BY <1>1, <1>2, CountsFrame, PlacesFrame
<1>8. Landed'
  BY <1>1, <1>2 DEF Landed, May
<1>9. ASSUME ~May("again"), NEW d \in Client, client[d].pc = "linked" PROVE client[d].loc # l
  <2>1. client[d] = [pc |-> client[d].pc, loc |-> client[d].loc]
    BY <1>1 DEF TypeOK, Clients
  <2> QED
    BY <1>2, <1>9, <2>1
<1>10. Covered'
  <2> SUFFICES ASSUME ~May("again"), NEW k \in link'
               PROVE  \/ k \in DOMAIN queued
                      \/ k \in Range(request)
                      \/ \E d \in Client : client'[d].pc = "linked" /\ client'[d].loc = k
    BY <1>2 DEF Covered, May
  <2>1. CASE k \in link
    <3>1. \/ k \in DOMAIN queued \/ k \in Range(request)
          \/ \E d \in Client : client[d].pc = "linked" /\ client[d].loc = k
      BY <1>1, <1>2, <2>1 DEF Covered
    <3> QED
      BY <1>2, <1>5, <3>1
  <2>2. CASE k = l /\ l \notin link
    BY <1>4, <1>5, <2>2
  <2> QED
    BY <1>2, <2>1, <2>2
<1>11. Waiting'
  <2>1. \A d \in Client : client[d].pc = "flushing" => client'[d] = client[d]
    BY <1>2, <1>5
  <2>2. Range(flushRequest) \subseteq Client
    BY <1>1 DEF TypeOK, Range
  <2> QED
    BY <1>1, <1>2, <2>1, <2>2 DEF Waiting
<1>12. Flushers'
  <2> SUFFICES ASSUME ~May("again"), NEW d \in Client
               PROVE  /\ client'[d].pc = "put" => client'[d].loc \in DOMAIN queued \cup Range(request) \cup stored
                      /\ client'[d].pc = "flushing" => client'[d].loc \in DOMAIN queued \cup Range(request) \cup stored
                      /\ client'[d].pc = "flushed" => client'[d].loc \in stored
    BY <1>2 DEF Flushers, May
  <2>1. CASE d # c
    BY <1>1, <1>5, <2>1 DEF Flushers
  <2>2. CASE d = c /\ l \notin link
    BY <1>4, <1>5, <2>2
  <2>3. CASE d = c /\ l \in link
    <3>1. l \in DOMAIN queued \/ l \in Range(request)
      BY <1>1, <1>2, <1>9, <2>3 DEF Covered
    <3> QED
      BY <1>4, <1>5, <2>3, <3>1
  <2> QED
    BY <2>1, <2>2, <2>3
<1> QED
  BY <1>6, <1>7, <1>8, <1>10, <1>11, <1>12 DEF Inv

\* The request is sent.
LEMMA SendRequestInv ==
    ASSUME Inv, UNCHANGED setting, NEW c \in Client, SendRequest(c)
    PROVE  Inv'
<1>1. TypeOK /\ Counts /\ Landed /\ Covered /\ Places /\ Waiting /\ Flushers
  BY DEF Inv
<1>2. /\ client[c].pc = "linked" /\ client' = [client EXCEPT ![c].pc = "put"]
      /\ request' = Append(request, client[c].loc)
      /\ UNCHANGED <<ready, done, timer, die, queued, epq, par, sched, writer, stored, fails, walk, flushRequest, link>>
  BY DEF SendRequest, QueueVars, QueueVarsButWalk
<1>3. /\ client' \in [Client -> Clients] /\ client'[c].pc = "put" /\ client'[c].loc = client[c].loc
      /\ \A d \in Client : d # c => client'[d] = client[d]
  BY <1>1, <1>2, ClientGoesOn, Zenon DEF ClientPcs
<1>4. request' \in Seq(Location) /\ Range(request') = Range(request) \cup {client[c].loc}
  <2>1. request \in Seq(Location) /\ client[c].loc \in Location
    BY <1>1 DEF TypeOK, Clients
  <2> QED
    BY <1>2, <2>1, AppendShape
<1>5. TypeOK'
  BY <1>1, <1>2, <1>3, <1>4 DEF TypeOK
<1>6. Counts' /\ Landed' /\ Places'
  BY <1>1, <1>2, CountsFrame, LandedFrame, PlacesFrame
<1>7. Covered'
  BY <1>1, <1>2, <1>3, <1>4 DEF Covered, May
<1>8. Waiting'
  <2>1. \A d \in Client : client[d].pc = "flushing" => client'[d] = client[d]
    BY <1>2, <1>3
  <2>2. Range(flushRequest) \subseteq Client
    BY <1>1 DEF TypeOK, Range
  <2> QED
    BY <1>1, <1>2, <2>1, <2>2 DEF Waiting
<1>9. Flushers'
  BY <1>1, <1>2, <1>3, <1>4 DEF Flushers, May
<1> QED
  BY <1>5, <1>6, <1>7, <1>8, <1>9 DEF Inv

\* A client asks to be told of the flush.
LEMMA SendFlushInv ==
    ASSUME Inv, UNCHANGED setting, NEW c \in Client, SendFlush(c)
    PROVE  Inv'
<1>1. TypeOK /\ Counts /\ Landed /\ Covered /\ Places /\ Waiting /\ Flushers
  BY DEF Inv
<1>2. /\ client[c].pc = "put" /\ client' = [client EXCEPT ![c].pc = "flushing"]
      /\ flushRequest' = Append(flushRequest, c)
      /\ UNCHANGED <<ready, done, timer, die, queued, epq, par, sched, writer, stored, fails, walk, request, link>>
  BY DEF SendFlush, QueueVars, QueueVarsButWalk
<1>3. /\ client' \in [Client -> Clients] /\ client'[c].pc = "flushing" /\ client'[c].loc = client[c].loc
      /\ \A d \in Client : d # c => client'[d] = client[d]
  BY <1>1, <1>2, ClientGoesOn, Zenon DEF ClientPcs
<1>4. /\ flushRequest' \in Seq(Client) /\ Range(flushRequest') = Range(flushRequest) \cup {c}
      /\ c \notin Range(flushRequest) /\ Distinct(flushRequest) => Distinct(flushRequest')
  <2>1. flushRequest \in Seq(Client)
    BY <1>1 DEF TypeOK
  <2> QED
    BY <1>2, <2>1, AppendShape
<1>5. TypeOK'
  BY <1>1, <1>2, <1>3, <1>4 DEF TypeOK
<1>6. Counts' /\ Landed' /\ Places'
  BY <1>1, <1>2, CountsFrame, LandedFrame, PlacesFrame
<1>7. Covered'
  BY <1>1, <1>2, <1>3 DEF Covered, May
<1>8. Waiting'
  <2>1. \A d \in Client : client[d].pc = "flushing" => d # c /\ client'[d] = client[d]
    BY <1>2, <1>3
  <2>2. Range(flushRequest) \subseteq Client /\ c \notin Range(flushRequest)
    <3>1. Range(flushRequest) \subseteq Client
      BY <1>1 DEF TypeOK, Range
    <3> QED
      BY <1>1, <1>2, <3>1 DEF Waiting
  <2>3. \A d \in Range(flushRequest') : client'[d].pc = "flushing"
    <3> SUFFICES ASSUME NEW d \in Range(flushRequest') PROVE client'[d].pc = "flushing"
      OBVIOUS
    <3>1. CASE d \in Range(flushRequest)
      <4>1. d \in Client /\ client[d].pc = "flushing"
        BY <1>1, <2>2, <3>1 DEF Waiting
      <4> QED
        BY <2>1, <4>1
    <3> QED
      BY <1>3, <1>4, <3>1
  <2>4. ASSUME NEW k \in DOMAIN queued, NEW d \in queued[k]
        PROVE  d \in Client /\ client'[d].pc = "flushing" /\ client'[d].loc = k /\ d \notin Range(flushRequest')
    BY <1>1, <1>4, <2>1 DEF Waiting
  <2> QED
    BY <1>1, <1>2, <1>4, <2>2, <2>3, <2>4 DEF Waiting
<1>9. Flushers'
  BY <1>1, <1>2, <1>3 DEF Flushers, May
<1> QED
  BY <1>5, <1>6, <1>7, <1>8, <1>9 DEF Inv

\* A client is done.
LEMMA LeaveInv ==
    ASSUME Inv, UNCHANGED setting, NEW c \in Client, Leave(c)
    PROVE  Inv'
<1>1. TypeOK /\ Counts /\ Landed /\ Covered /\ Places /\ Waiting /\ Flushers
  BY DEF Inv
<1>2. /\ client[c].pc \in {"put", "flushed", "early"} /\ client' = [client EXCEPT ![c] = Idle]
      /\ UNCHANGED <<ready, done, timer, die, queued, epq, par, sched, writer, stored, fails, walk, request, flushRequest, link>>
  BY DEF Leave, QueueVars, QueueVarsButWalk
<1>3. client' \in [Client -> Clients] /\ client'[c].pc = "idle" /\ \A d \in Client : d # c => client'[d] = client[d]
  BY <1>1, <1>2, ClientMoves, IdleShape, Zenon
<1>4. TypeOK'
  BY <1>1, <1>2, <1>3 DEF TypeOK
<1>5. Counts' /\ Landed' /\ Places'
  BY <1>1, <1>2, CountsFrame, LandedFrame, PlacesFrame
<1>6. Covered'
  BY <1>1, <1>2, <1>3 DEF Covered, May
<1>7. Waiting'
  <2>1. \A d \in Client : client[d].pc = "flushing" => client'[d] = client[d]
    BY <1>2, <1>3
  <2>2. Range(flushRequest) \subseteq Client
    BY <1>1 DEF TypeOK, Range
  <2> QED
    BY <1>1, <1>2, <2>1, <2>2 DEF Waiting
<1>8. Flushers'
  BY <1>1, <1>2, <1>3 DEF Flushers, May
<1> QED
  BY <1>4, <1>5, <1>6, <1>7, <1>8 DEF Inv

\* A link that was found is enqueued.
LEMMA WalkInv ==
    ASSUME Inv, UNCHANGED setting, Walk
    PROVE  Inv'
<1>1. TypeOK /\ Counts /\ Landed /\ Covered /\ Places /\ Waiting /\ Flushers
  BY DEF Inv
<1>2. PICK l \in walk :
          /\ request' = Append(request, l) /\ walk' = walk \ {l}
          /\ UNCHANGED <<ready, done, timer, die, queued, epq, par, sched, writer, stored, fails, flushRequest, client, link>>
  BY DEF Walk, QueueVarsButWalk
<1>3. request' \in Seq(Location) /\ Range(request') = Range(request) \cup {l}
  <2>1. request \in Seq(Location) /\ l \in Location
    BY <1>1 DEF TypeOK
  <2> QED
    BY <1>2, <2>1, AppendShape
<1>4. TypeOK'
  BY <1>1, <1>2, <1>3 DEF TypeOK
<1>5. Counts' /\ Landed' /\ Places'
  BY <1>1, <1>2, CountsFrame, LandedFrame, PlacesFrame
<1>6. Covered'
  BY <1>1, <1>2, <1>3 DEF Covered, May
<1>7. Waiting'
  BY <1>1, <1>2 DEF Waiting
<1>8. Flushers'
  BY <1>1, <1>2, <1>3 DEF Flushers, May
<1> QED
  BY <1>4, <1>5, <1>6, <1>7, <1>8 DEF Inv

\* close, the end of a pass, and the end of the scheduler.
LEMMA QuietInv ==
    ASSUME Inv, UNCHANGED setting, Close \/ EndPass \/ Die
    PROVE  Inv'
<1>1. TypeOK /\ Counts /\ Landed /\ Covered /\ Places /\ Waiting /\ Flushers
  BY DEF Inv
<1>2. UNCHANGED <<request, flushRequest, ready, done, queued, epq, par, writer, client, link, walk, stored>>
  BY DEF Close, EndPass, Die, WriterVars
<1>3. TypeOK'
  BY <1>1, <1>2 DEF TypeOK
<1> QED
  BY <1>1, <1>2, <1>3, CountsFrame, LandedFrame, CoveredFrame, PlacesFrame, FlushersFrame DEF Inv

\* A dead endpoint is given another chance.
LEMMA RetryInv ==
    ASSUME Inv, UNCHANGED setting, NEW e \in Endpoint, Retry(e)
    PROVE  Inv'
<1>1. TypeOK /\ Counts /\ Landed /\ Covered /\ Places /\ Waiting /\ Flushers
  BY DEF Inv
<1> DEFINE q == [epq[e] EXCEPT !.state = IF @ = "dead" THEN "unknown" ELSE @]
<1>2. /\ epq' = [epq EXCEPT ![e] = q]
      /\ UNCHANGED <<request, flushRequest, ready, done, queued, par, writer, client, link, walk, stored>>
  BY DEF Retry
<1>3. q \in Queues /\ q.queue = epq[e].queue
  <2>1. epq[e] \in Queues
    BY <1>1 DEF TypeOK
  <2> QED
    BY <2>1 DEF Queues
<1> HIDE DEF q
<1>4. epq' \in [Endpoint -> Queues] /\ \A f \in Endpoint : epq'[f].queue = epq[f].queue
  BY <1>1, <1>2, <1>3 DEF TypeOK
<1>5. TypeOK'
  BY <1>1, <1>2, <1>4 DEF TypeOK
<1>6. Places'
  BY <1>1, <1>2, <1>4, Zenon DEF Places, InQueue, InReady, InWriter, InDone, Writing
<1> QED
  BY <1>1, <1>2, <1>5, <1>6, CountsFrame, LandedFrame, CoveredFrame, FlushersFrame DEF Inv

\* The scheduler gets a request, which it may have already.
LEMMA RequestInv ==
    ASSUME Inv, UNCHANGED setting, Request
    PROVE  Inv'
<1>1. TypeOK /\ Counts /\ Landed /\ Covered /\ Places /\ Waiting /\ Flushers
  BY DEF Inv
<1>2. PICK l : l = Head(request)
  OBVIOUS
<1>3. /\ request # << >> /\ request' = Tail(request)
      /\ UNCHANGED <<flushRequest, ready, done, par, writer, client, link, walk, stored>>
  BY DEF Request
<1>4. l \in Location /\ request' \in Seq(Location) /\ Range(request) = Range(request') \cup {l}
  <2>1. request \in Seq(Location)
    BY <1>1 DEF TypeOK
  <2> QED
    BY <1>2, <1>3, <2>1, TailShape
<1>5. Counts' /\ Landed'
  BY <1>1, <1>3, CountsFrame, LandedFrame
<1>6. CASE l \in DOMAIN queued
  <2>1. UNCHANGED <<queued, epq>>
    BY <1>2, <1>6 DEF Request
  <2>2. TypeOK'
    BY <1>1, <1>3, <1>4, <2>1 DEF TypeOK
  <2>3. Places' /\ Waiting'
    BY <1>1, <1>3, <2>1, PlacesFrame DEF Waiting
  <2>4. Covered'
    BY <1>1, <1>3, <1>4, <1>6, <2>1 DEF Covered, May
  <2>5. Flushers'
    BY <1>1, <1>3, <1>4, <1>6, <2>1 DEF Flushers, May
  <2> QED
    BY <1>5, <2>2, <2>3, <2>4, <2>5 DEF Inv
<1>7. CASE l \notin DOMAIN queued
  <2> DEFINE e == EndpointOf[l]
             q == [epq[e] EXCEPT !.queue = Append(@, l)]
  <2>1. /\ queued' = [x \in DOMAIN queued \cup {l} |-> IF x = l THEN {} ELSE queued[x]]
        /\ epq' = [epq EXCEPT ![e] = q]
    BY <1>2, <1>7 DEF Request
  <2>2. /\ DOMAIN queued' = DOMAIN queued \cup {l} /\ queued'[l] = {}
        /\ \A x \in DOMAIN queued : queued'[x] = queued[x]
    BY <1>7, <2>1
  <2>3. e \in Endpoint /\ epq[e] \in Queues /\ epq[e].queue \in Seq(Location)
    BY <1>1, <1>4, SettingFacts DEF TypeOK, Queues
  <2>4. q \in Queues /\ q.queue = Append(epq[e].queue, l)
    <3>1. Append(epq[e].queue, l) \in Seq(Location)
      BY <1>4, <2>3
    <3> QED
      BY <2>3, <3>1, Zenon DEF Queues
  <2>5. /\ Range(q.queue) = Range(epq[e].queue) \cup {l}
        /\ l \notin Range(epq[e].queue) /\ Distinct(epq[e].queue) => Distinct(q.queue)
    BY <1>4, <2>3, <2>4, AppendShape
  <2> HIDE DEF q
  <2>6. epq' \in [Endpoint -> Queues] /\ epq'[e] = q /\ \A f \in Endpoint : f # e => epq'[f] = epq[f]
    BY <1>1, <2>1, <2>3, <2>4 DEF TypeOK
  <2>7. TypeOK'
    BY <1>1, <1>3, <1>4, <2>2, <2>6 DEF TypeOK
  <2>8. ~InQueue(l) /\ ~InReady(l) /\ ~InWriter(l) /\ ~InDone(l)
    BY <1>1, <1>7, Zenon DEF Places
  <2>9. Places'
    <3>1. \A f \in Endpoint : Distinct(epq'[f].queue)
      BY <1>1, <2>3, <2>5, <2>6, <2>8, Zenon DEF Places, InQueue
    <3>2. \A f \in Endpoint : \A k \in Range(epq'[f].queue) : EndpointOf[k] = f
      BY <1>1, <2>3, <2>5, <2>6 DEF Places
    <3>3. \A k : InQueue(k)' => InQueue(k) \/ k = l
      BY <2>5, <2>6 DEF InQueue
    <3>4. \A k : (InReady(k)' <=> InReady(k)) /\ (InWriter(k)' <=> InWriter(k)) /\ (InDone(k)' <=> InDone(k))
      BY <1>3 DEF InReady, InWriter, InDone, Writing
    <3>5. /\ Distinct(ready') /\ DistinctLocs(done')
          /\ \A v, w \in Writing' : writer'[v].loc = writer'[w].loc => v = w
      BY <1>1, <1>3 DEF Places, Writing
    <3>6. /\ \A k : InQueue(k)' => k \in DOMAIN queued' /\ ~InReady(k)' /\ ~InWriter(k)' /\ ~InDone(k)'
          /\ \A k : InReady(k)' => k \in DOMAIN queued' /\ ~InWriter(k)' /\ ~InDone(k)'
          /\ \A k : InWriter(k)' => k \in DOMAIN queued' /\ ~InDone(k)'
          /\ \A k : InDone(k)' => k \in DOMAIN queued'
      BY <1>1, <2>2, <2>8, <3>3, <3>4, Zenon DEF Places
    <3> QED
      BY <3>1, <3>2, <3>5, <3>6, Zenon DEF Places
  <2>10. Covered'
    BY <1>1, <1>3, <1>4, <2>2 DEF Covered, May
  <2>11. Waiting'
    BY <1>1, <1>3, <2>2 DEF Waiting
  <2>12. Flushers'
    BY <1>1, <1>3, <1>4, <2>2 DEF Flushers, May
  <2> QED
    BY <1>5, <2>7, <2>9, <2>10, <2>11, <2>12 DEF Inv
<1> QED
  BY <1>6, <1>7

\* A client is told of a flush, or will be.
LEMMA FlushInv ==
    ASSUME Inv, UNCHANGED setting, Flush
    PROVE  Inv'
<1>1. TypeOK /\ Counts /\ Landed /\ Covered /\ Places /\ Waiting /\ Flushers
  BY DEF Inv
<1>2. PICK c : c = Head(flushRequest)
  OBVIOUS
<1>3. PICK l : l = client[c].loc
  OBVIOUS
<1>4. /\ flushRequest # << >> /\ flushRequest' = Tail(flushRequest)
      /\ UNCHANGED <<request, ready, done, epq, par, writer, link, walk, stored>>
  BY DEF Flush
<1>5. /\ c \in Client /\ flushRequest' \in Seq(Client)
      /\ Range(flushRequest) = Range(flushRequest') \cup {c}
      /\ Distinct(flushRequest') /\ c \notin Range(flushRequest')
  <2>1. flushRequest \in Seq(Client) /\ Distinct(flushRequest)
    BY <1>1 DEF TypeOK, Waiting
  <2> QED
    BY <1>2, <1>4, <2>1, TailShape
<1>6. Range(flushRequest) \subseteq Client /\ Range(flushRequest') \subseteq Client
  <2>1. Range(flushRequest) \subseteq Client
    BY <1>1 DEF TypeOK, Range
  <2> QED
    BY <1>5, <2>1
<1>7. client[c].pc = "flushing" /\ client[c].loc = l
  BY <1>1, <1>3, <1>5 DEF Waiting
<1>8. Counts' /\ Landed'
  BY <1>1, <1>4, CountsFrame, LandedFrame
<1>9. CASE l \in DOMAIN queued
  <2>1. queued' = [queued EXCEPT ![l] = @ \cup {c}] /\ UNCHANGED client
    BY <1>2, <1>3, <1>9 DEF Flush
  <2>2. /\ DOMAIN queued' = DOMAIN queued /\ queued'[l] = queued[l] \cup {c}
        /\ \A k \in DOMAIN queued : k # l => queued'[k] = queued[k]
    BY <1>9, <2>1
  <2>3. TypeOK'
    BY <1>1, <1>4, <1>5, <2>1, <2>2 DEF TypeOK
  <2>4. Covered'
    BY <1>1, <1>4, <2>1, <2>2 DEF Covered, May
  <2>5. Places'
    BY <1>1, <1>4, <2>2, Zenon DEF Places, InQueue, InReady, InWriter, InDone, Writing
  <2>6. Waiting'
    <3>1. ASSUME NEW k \in DOMAIN queued, NEW d \in queued'[k]
          PROVE  d \in Client /\ client[d].pc = "flushing" /\ client[d].loc = k /\ d \notin Range(flushRequest')
      <4>1. CASE d \in queued[k]
        BY <1>1, <1>5, <4>1 DEF Waiting
      <4>2. CASE k = l /\ d = c
        BY <1>5, <1>7, <4>2
      <4> QED
        BY <2>2, <4>1, <4>2
    <3>2. \A d \in Range(flushRequest') : client[d].pc = "flushing"
      BY <1>1, <1>5 DEF Waiting
    <3> QED
      BY <1>5, <2>1, <2>2, <3>1, <3>2 DEF Waiting
  <2>7. Flushers'
    BY <1>1, <1>4, <2>1, <2>2 DEF Flushers, May
  <2> QED
    BY <1>8, <2>3, <2>4, <2>5, <2>6, <2>7 DEF Inv
<1>10. CASE l \notin DOMAIN queued
  <2>1. PICK pc : /\ pc = (IF l \in Range(request) THEN "early" ELSE "flushed")
                  /\ client' = [client EXCEPT ![c].pc = pc] /\ UNCHANGED queued
    BY <1>2, <1>3, <1>10 DEF Flush
  <2>2. /\ client' \in [Client -> Clients] /\ client'[c].pc = pc /\ client'[c].loc = l
        /\ \A d \in Client : d # c => client'[d] = client[d]
    <3>1. pc \in ClientPcs
      BY <2>1, Zenon DEF ClientPcs
    <3> QED
      BY <1>1, <1>5, <1>7, <2>1, <3>1, ClientGoesOn, Zenon
  <2>3. TypeOK'
    BY <1>1, <1>4, <1>5, <2>1, <2>2 DEF TypeOK
  <2>4. Covered'
    BY <1>1, <1>4, <1>7, <2>1, <2>2 DEF Covered, May
  <2>5. Places'
    BY <1>1, <1>4, <2>1, PlacesFrame
  <2>6. Waiting'
    <3>1. ASSUME NEW k \in DOMAIN queued, NEW d \in queued[k]
          PROVE  d \in Client /\ client'[d].pc = "flushing" /\ client'[d].loc = k /\ d \notin Range(flushRequest')
      <4>1. d \in Client /\ client[d].pc = "flushing" /\ client[d].loc = k /\ d \notin Range(flushRequest)
        BY <1>1 DEF Waiting
      <4> QED
        BY <1>5, <2>2, <4>1
    <3>2. \A d \in Range(flushRequest') : client'[d].pc = "flushing"
      BY <1>1, <1>5, <1>6, <2>2 DEF Waiting
    <3> QED
      BY <1>5, <2>1, <3>1, <3>2 DEF Waiting
  <2>7. Flushers'
    BY <1>1, <1>4, <1>5, <1>7, <1>10, <2>1, <2>2 DEF Flushers, May
  <2> QED
    BY <1>8, <2>3, <2>4, <2>5, <2>6, <2>7 DEF Inv
<1> QED
  BY <1>9, <1>10

\* A request goes to the ready channel.
LEMMA PickInv ==
    ASSUME Inv, UNCHANGED setting, NEW e \in Endpoint, Pick(e)
    PROVE  Inv'
<1>1. TypeOK /\ Counts /\ Landed /\ Covered /\ Places /\ Waiting /\ Flushers
  BY DEF Inv
<1>2. PICK l : l = Head(epq[e].queue)
  OBVIOUS
<1> DEFINE q == [queue |-> Tail(epq[e].queue), state |-> IF epq[e].state = "unknown" THEN "dead" ELSE epq[e].state]
<1>3. /\ epq[e].queue # << >> /\ par.inFlight < par.max /\ ready' = Append(ready, l)
      /\ epq' = [epq EXCEPT ![e] = q] /\ par' = [par EXCEPT !.inFlight = @ + 1]
      /\ UNCHANGED <<request, flushRequest, done, queued, writer, client, link, walk, stored>>
  BY <1>2 DEF Pick, Pickable, ok
<1>4. epq[e] \in Queues /\ epq[e].queue \in Seq(Location) /\ Distinct(epq[e].queue)
  BY <1>1 DEF TypeOK, Queues, Places
<1>5. /\ Tail(epq[e].queue) \in Seq(Location) /\ l \in Location
      /\ Range(epq[e].queue) = Range(Tail(epq[e].queue)) \cup {l}
      /\ Distinct(Tail(epq[e].queue)) /\ l \notin Range(Tail(epq[e].queue))
  BY <1>2, <1>3, <1>4, TailShape
<1>6. q \in Queues /\ q.queue = Tail(epq[e].queue)
  BY <1>4, <1>5 DEF Queues
<1> HIDE DEF q
<1>7. epq' \in [Endpoint -> Queues] /\ epq'[e] = q /\ \A f \in Endpoint : f # e => epq'[f] = epq[f]
  BY <1>1, <1>3, <1>6 DEF TypeOK
<1>8. InQueue(l) /\ l \in DOMAIN queued /\ ~InReady(l) /\ ~InWriter(l) /\ ~InDone(l)
  <2>1. InQueue(l)
    BY <1>5 DEF InQueue
  <2> QED
    BY <1>1, <2>1, Zenon DEF Places
<1>9. /\ ready' \in Seq(Location) /\ Len(ready') = Len(ready) + 1
      /\ Range(ready') = Range(ready) \cup {l} /\ Distinct(ready')
  <2>1. ready \in Seq(Location) /\ Distinct(ready) /\ l \notin Range(ready)
    BY <1>1, <1>8 DEF TypeOK, Places, InReady
  <2> QED
    BY <1>3, <1>5, <2>1, AppendShape
<1>10. par \in Pars /\ par' \in Pars /\ par'.inFlight = par.inFlight + 1 /\ par'.max = par.max
  <2>1. par \in Pars
    BY <1>1 DEF TypeOK
  <2> QED
    BY <1>3, <2>1 DEF Pars
<1>11. TypeOK'
  BY <1>1, <1>3, <1>7, <1>9, <1>10 DEF TypeOK
<1>12. Counts'
  <2>1. Writing' = Writing /\ Len(done') = Len(done) /\ writers \in Nat /\ writers' = writers
    BY <1>1, <1>3, SettingFacts DEF TypeOK, Writing, writers
  <2>2. Len(done) \in Nat /\ Len(ready) \in Nat
    BY <1>1 DEF TypeOK
  <2>3. Cardinality(Writing) \in Nat
    BY FS_Subset, FS_CardinalityType, QueueAssumption DEF Writing
  <2>4. /\ par.max \in 1..writers /\ par.inFlight <= writers
        /\ par.inFlight = Len(ready) + Len(done) + Cardinality(Writing)
    BY <1>1 DEF Counts
  <2>5. par.inFlight \in Int /\ par.max \in Int
    BY <1>10 DEF Pars
  <2>6. /\ par'.max \in 1..writers /\ par'.inFlight <= writers
        /\ par'.inFlight = Len(ready') + Len(done') + Cardinality(Writing)
    BY <1>3, <1>9, <1>10, <2>1, <2>2, <2>3, <2>4, <2>5
  <2> QED
    BY <2>1, <2>6 DEF Counts
<1>13. Places'
  <2>1. \A f \in Endpoint : Distinct(epq'[f].queue)
    BY <1>1, <1>5, <1>6, <1>7 DEF Places
  <2>2. \A f \in Endpoint : Range(epq'[f].queue) \subseteq Range(epq[f].queue)
    BY <1>5, <1>6, <1>7
  <2>3. \A f \in Endpoint : \A k \in Range(epq'[f].queue) : EndpointOf[k] = f
    BY <1>1, <2>2, Zenon DEF Places
  <2>4. \A k : InQueue(k)' => InQueue(k) /\ k # l
    <3> SUFFICES ASSUME NEW k, NEW f \in Endpoint, k \in Range(epq'[f].queue) PROVE InQueue(k) /\ k # l
      BY DEF InQueue
    <3>1. InQueue(k)
      BY <2>2 DEF InQueue
    <3>2. EndpointOf[l] = e
      BY <1>1, <1>5 DEF Places
    <3> QED
      BY <1>5, <1>6, <1>7, <2>3, <3>1, <3>2
  <2>5. \A k : InReady(k)' <=> InReady(k) \/ k = l
    BY <1>9 DEF InReady
  <2>6. \A k : (InWriter(k)' <=> InWriter(k)) /\ (InDone(k)' <=> InDone(k))
    BY <1>3 DEF InWriter, InDone, Writing
  <2>7. DistinctLocs(done') /\ \A v, w \in Writing' : writer'[v].loc = writer'[w].loc => v = w
    BY <1>1, <1>3 DEF Places, Writing
  <2>8. /\ \A k : InQueue(k)' => k \in DOMAIN queued' /\ ~InReady(k)' /\ ~InWriter(k)' /\ ~InDone(k)'
        /\ \A k : InReady(k)' => k \in DOMAIN queued' /\ ~InWriter(k)' /\ ~InDone(k)'
        /\ \A k : InWriter(k)' => k \in DOMAIN queued' /\ ~InDone(k)'
        /\ \A k : InDone(k)' => k \in DOMAIN queued'
    <3>1. queued' = queued
      BY <1>3
    <3> QED
      BY <1>1, <1>8, <2>4, <2>5, <2>6, <3>1, Zenon DEF Places
  <2> QED
    BY <1>9, <2>1, <2>3, <2>7, <2>8, Zenon DEF Places
<1> QED
  BY <1>1, <1>3, <1>11, <1>12, <1>13, LandedFrame, CoveredFrame, FlushersFrame DEF Inv

=============================================================================
