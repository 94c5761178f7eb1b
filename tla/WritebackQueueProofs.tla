------------------------ MODULE WritebackQueueProofs ------------------------
(***************************************************************************)
(* The rest of the argument of WritebackQueueClientProofs: the steps of    *)
(* the writers, what the scheduler does when they are done, and the        *)
(* theorems.                                                               *)
(***************************************************************************)
EXTENDS WritebackQueueClientProofs

\* A writer's state, and the others' that it leaves alone.
LEMMA WriterMoves ==
    ASSUME TypeOK, NEW w \in Writer, NEW n \in Writers, writer' = [writer EXCEPT ![w] = n]
    PROVE  writer' \in [Writer -> Writers] /\ writer'[w] = n /\ \A v \in Writer : v # w => writer'[v] = writer[v]
BY DEF TypeOK

\* A writer goes on with the same request.
LEMMA WriterGoesOn ==
    ASSUME TypeOK, NEW w \in Writer, NEW pc \in WriterPcs, writer' = [writer EXCEPT ![w].pc = pc]
    PROVE  /\ writer' \in [Writer -> Writers]
           /\ writer'[w].pc = pc /\ writer'[w].loc = writer[w].loc
           /\ \A v \in Writer : v # w => writer'[v] = writer[v]
<1> DEFINE n == [writer[w] EXCEPT !.pc = pc]
<1>1. writer[w] \in Writers
  BY DEF TypeOK
<1>2. n \in Writers /\ n.pc = pc /\ n.loc = writer[w].loc
  BY <1>1 DEF Writers
<1>3. writer' = [writer EXCEPT ![w] = n]
  OBVIOUS
<1> HIDE DEF n
<1> QED
  BY <1>2, <1>3, WriterMoves, Zenon

\* The number of writers at work is a number.
LEMMA WritingFinite == IsFiniteSet(Writing) /\ Cardinality(Writing) \in Nat
BY FS_Subset, FS_CardinalityType, QueueAssumption DEF Writing

\* A writer that keeps its request, or has none, changes no count and no place.
LEMMA SameRequest ==
    ASSUME Counts, Places, NEW w \in Writer, UNCHANGED <<par, ready, done, epq, queued>>,
           w \in Writing <=> w \in Writing', writer'[w].loc = writer[w].loc,
           \A v \in Writer : v # w => writer'[v] = writer[v]
    PROVE  Counts' /\ Places'
<1>1. Writing' = Writing
  BY DEF Writing
<1>2. \A v \in Writing : writer'[v].loc = writer[v].loc
  BY DEF Writing
<1>3. Counts'
  BY <1>1 DEF Counts, writers
<1>4. \A k : InWriter(k)' <=> InWriter(k)
  BY <1>1, <1>2 DEF InWriter
<1>5. \A k : (InQueue(k)' <=> InQueue(k)) /\ (InReady(k)' <=> InReady(k)) /\ (InDone(k)' <=> InDone(k))
  BY DEF InQueue, InReady, InDone
<1>6. Places'
  <2>1. \A v, x \in Writing' : writer'[v].loc = writer'[x].loc => v = x
    BY <1>1, <1>2 DEF Places
  <2>2. /\ \A e \in Endpoint : Distinct(epq'[e].queue)
        /\ \A e \in Endpoint : \A l \in Range(epq'[e].queue) : EndpointOf[l] = e
        /\ Distinct(ready') /\ DistinctLocs(done') /\ DOMAIN queued' = DOMAIN queued
    BY DEF Places
  <2> QED
    BY <1>4, <1>5, <2>1, <2>2, Zenon DEF Places
<1> QED
  BY <1>3, <1>6

\* A writer takes a request.
LEMMA TakeInv ==
    ASSUME Inv, UNCHANGED setting, NEW w \in Writer, Take(w)
    PROVE  Inv'
<1>1. TypeOK /\ Counts /\ Landed /\ Covered /\ Places /\ Waiting /\ Flushers
  BY DEF Inv
<1>2. PICK l : l = Head(ready)
  OBVIOUS
<1>3. /\ writer[w].pc = "idle" /\ ready # << >> /\ ready' = Tail(ready)
      /\ writer' = [writer EXCEPT ![w] = [pc |-> "write", loc |-> l]]
      /\ UNCHANGED <<request, flushRequest, queued, epq, par, client, done, link, walk, stored>>
  BY <1>2 DEF Take, WriterVars
<1>4. /\ l \in Location /\ ready' \in Seq(Location) /\ Len(ready') = Len(ready) - 1
      /\ Len(ready) \in Nat /\ Range(ready) = Range(ready') \cup {l}
      /\ Distinct(ready') /\ l \notin Range(ready')
  <2>1. ready \in Seq(Location) /\ Distinct(ready)
    BY <1>1 DEF TypeOK, Places
  <2> QED
    BY <1>2, <1>3, <2>1, TailShape
<1>5. /\ writer' \in [Writer -> Writers] /\ writer'[w].pc = "write" /\ writer'[w].loc = l
      /\ \A v \in Writer : v # w => writer'[v] = writer[v]
  <2>1. [pc |-> "write", loc |-> l] \in Writers
    BY <1>4 DEF Writers, WriterPcs
  <2> QED
    BY <1>1, <1>3, <2>1, WriterMoves, Zenon
<1>6. TypeOK'
  BY <1>1, <1>3, <1>4, <1>5 DEF TypeOK
<1>7. Writing' = Writing \cup {w} /\ w \notin Writing
  BY <1>3, <1>5 DEF Writing
<1>8. Counts'
  <2>1. Cardinality(Writing') = Cardinality(Writing) + 1 /\ Cardinality(Writing) \in Nat
    BY <1>7, WritingFinite, FS_AddElement
  <2>2. Len(done) \in Nat /\ writers' = writers
    BY <1>1 DEF TypeOK, writers
  <2>3. Len(ready) + Len(done) + Cardinality(Writing) = Len(ready') + Len(done') + Cardinality(Writing')
    BY <1>3, <1>4, <2>1, <2>2
  <2> QED
    BY <1>1, <1>3, <2>2, <2>3 DEF Counts
<1>9. Landed'
  <2>1. \A v \in Writer : writer'[v].pc \in {"unlink", "none"} => writer'[v] = writer[v]
    BY <1>5
  <2> QED
    BY <1>1, <1>3, <2>1 DEF Landed, May
<1>10. Places'
  <2>1. InReady(l) /\ l \in DOMAIN queued /\ ~InQueue(l) /\ ~InWriter(l) /\ ~InDone(l)
    <3>1. InReady(l)
      BY <1>4 DEF InReady
    <3> QED
      BY <1>1, <3>1, Zenon DEF Places
  <2>2. \A k : InReady(k)' => InReady(k) /\ k # l
    BY <1>4 DEF InReady
  <2>3. \A k : InWriter(k)' => InWriter(k) \/ k = l
    BY <1>5, <1>7 DEF InWriter, Writing
  <2>4. \A k : (InQueue(k)' <=> InQueue(k)) /\ (InDone(k)' <=> InDone(k))
    BY <1>3 DEF InQueue, InDone
  <2>5. ASSUME NEW v \in Writing', NEW x \in Writing', writer'[v].loc = writer'[x].loc PROVE v = x
    <3>1. \A y \in Writing : y # w /\ writer'[y] = writer[y] /\ writer[y].loc # l
      BY <1>5, <1>7, <2>1 DEF InWriter, Writing
    <3> QED
      BY <1>1, <1>5, <1>7, <2>5, <3>1 DEF Places
  <2>6. /\ \A e \in Endpoint : Distinct(epq'[e].queue)
        /\ \A e \in Endpoint : \A k \in Range(epq'[e].queue) : EndpointOf[k] = e
        /\ DistinctLocs(done') /\ queued' = queued
    BY <1>1, <1>3 DEF Places
  <2>7. /\ \A k : InQueue(k)' => k \in DOMAIN queued' /\ ~InReady(k)' /\ ~InWriter(k)' /\ ~InDone(k)'
        /\ \A k : InReady(k)' => k \in DOMAIN queued' /\ ~InWriter(k)' /\ ~InDone(k)'
        /\ \A k : InWriter(k)' => k \in DOMAIN queued' /\ ~InDone(k)'
        /\ \A k : InDone(k)' => k \in DOMAIN queued'
    BY <1>1, <2>1, <2>2, <2>3, <2>4, <2>6, Zenon DEF Places
  <2> QED
    BY <1>4, <2>5, <2>6, <2>7, Zenon DEF Places
<1> QED
  BY <1>1, <1>3, <1>6, <1>8, <1>9, <1>10, CoveredFrame, FlushersFrame DEF Inv

\* The block is stored.
LEMMA StoreInv ==
    ASSUME Inv, UNCHANGED setting, NEW w \in Writer, Store(w)
    PROVE  Inv'
<1>1. TypeOK /\ Counts /\ Landed /\ Covered /\ Places /\ Waiting /\ Flushers
  BY DEF Inv
<1>2. /\ writer[w].pc = "write" /\ stored' = stored \cup {writer[w].loc}
      /\ writer' = [writer EXCEPT ![w].pc = "unlink"]
      /\ UNCHANGED <<request, flushRequest, queued, epq, par, client, ready, done, link, walk>>
  BY DEF Store, WriterVars
<1>3. /\ writer' \in [Writer -> Writers] /\ writer'[w].pc = "unlink" /\ writer'[w].loc = writer[w].loc
      /\ \A v \in Writer : v # w => writer'[v] = writer[v]
  BY <1>1, <1>2, WriterGoesOn, Zenon DEF WriterPcs
<1>4. TypeOK'
  BY <1>1, <1>2, <1>3 DEF TypeOK
<1>5. Counts' /\ Places'
  <2>1. w \in Writing /\ w \in Writing'
    BY <1>2, <1>3 DEF Writing
  <2> QED
    BY <1>1, <1>2, <1>3, <2>1, SameRequest
<1>6. Landed'
  BY <1>1, <1>2, <1>3 DEF Landed, May
<1>7. Covered'
  BY <1>1, <1>2, CoveredFrame
<1>8. Waiting' /\ Flushers'
  BY <1>1, <1>2 DEF Waiting, Flushers, May
<1> QED
  BY <1>4, <1>5, <1>6, <1>7, <1>8 DEF Inv

\* The link is removed.
LEMMA UnlinkInv ==
    ASSUME Inv, UNCHANGED setting, NEW w \in Writer, Unlink(w)
    PROVE  Inv'
<1>1. TypeOK /\ Counts /\ Landed /\ Covered /\ Places /\ Waiting /\ Flushers
  BY DEF Inv
<1>2. /\ writer[w].pc = "unlink" /\ link' = link \ {writer[w].loc}
      /\ writer' = [writer EXCEPT ![w].pc = "none"]
      /\ UNCHANGED <<request, flushRequest, queued, epq, par, client, ready, done, walk, stored>>
  BY DEF Unlink, WriterVars
<1>3. /\ writer' \in [Writer -> Writers] /\ writer'[w].pc = "none" /\ writer'[w].loc = writer[w].loc
      /\ \A v \in Writer : v # w => writer'[v] = writer[v]
  BY <1>1, <1>2, WriterGoesOn, Zenon DEF WriterPcs, Results
<1>4. TypeOK'
  BY <1>1, <1>2, <1>3 DEF TypeOK
<1>5. Counts' /\ Places'
  <2>1. w \in Writing /\ w \in Writing'
    BY <1>2, <1>3 DEF Writing
  <2> QED
    BY <1>1, <1>2, <1>3, <2>1, SameRequest
<1>6. Landed'
  BY <1>1, <1>2, <1>3 DEF Landed, May
<1>7. Covered'
  BY <1>1, <1>2 DEF Covered, May
<1> QED
  BY <1>1, <1>2, <1>4, <1>5, <1>6, <1>7, FlushersFrame DEF Inv

\* The block is not stored, or the writer ends.
LEMMA StoreFailsInv ==
    ASSUME Inv, UNCHANGED setting, NEW w \in Writer,
           WriterDie(w) \/ \E err \in setting.errors : StoreFails(w, err)
    PROVE  Inv'
<1>1. TypeOK /\ Counts /\ Landed /\ Covered /\ Places /\ Waiting /\ Flushers
  BY DEF Inv
<1>2. PICK pc \in {"terminated", "timeout", "other"} :
          /\ writer' = [writer EXCEPT ![w].pc = pc]
          /\ writer[w].pc = (IF pc = "terminated" THEN "idle" ELSE "write")
          /\ UNCHANGED <<request, flushRequest, queued, epq, par, client, ready, done, link, walk, stored>>
  <2>1. CASE WriterDie(w)
    BY <2>1 DEF WriterDie, WriterVars
  <2>2. ASSUME NEW err \in setting.errors, StoreFails(w, err) PROVE err \in {"timeout", "other"}
    BY <1>1, SettingFacts DEF TypeOK
  <2> QED
    BY <2>1, <2>2 DEF StoreFails, WriterVars
<1>3. /\ writer' \in [Writer -> Writers] /\ writer'[w].pc = pc /\ writer'[w].loc = writer[w].loc
      /\ \A v \in Writer : v # w => writer'[v] = writer[v]
  <2>1. pc \in WriterPcs
    BY DEF WriterPcs, Results
  <2> QED
    BY <1>1, <1>2, <2>1, WriterGoesOn, Zenon
<1>4. TypeOK'
  BY <1>1, <1>2, <1>3 DEF TypeOK
<1>5. Counts' /\ Places'
  <2>1. w \in Writing <=> w \in Writing'
    BY <1>2, <1>3 DEF Writing
  <2> QED
    BY <1>1, <1>2, <1>3, <2>1, SameRequest
<1>6. Landed'
  <2>1. pc \notin {"unlink", "none"}
    OBVIOUS
  <2> QED
    BY <1>1, <1>2, <1>3, <2>1 DEF Landed, May
<1> QED
  BY <1>1, <1>2, <1>4, <1>5, <1>6, CoveredFrame, FlushersFrame DEF Inv

\* A writer reports to the scheduler.
LEMMA ReportInv ==
    ASSUME Inv, UNCHANGED setting, NEW w \in Writer, Report(w)
    PROVE  Inv'
<1>1. TypeOK /\ Counts /\ Landed /\ Covered /\ Places /\ Waiting /\ Flushers
  BY DEF Inv
<1>2. PICK l : l = writer[w].loc
  OBVIOUS
<1>3. PICK r : r = [loc |-> l, err |-> writer[w].pc]
  BY Zenon
<1>4. /\ writer[w].pc \in Results /\ done' = Append(done, r)
      /\ writer' = [writer EXCEPT ![w] = Idle]
      /\ UNCHANGED <<request, flushRequest, queued, epq, par, client, ready, link, walk, stored>>
  BY <1>2, <1>3 DEF Report, WriterVars, Sending, Results
<1>5. l \in Location /\ r \in Dones /\ r.loc = l /\ r.err = writer[w].pc
  <2>1. l \in Location
    BY <1>1, <1>2 DEF TypeOK, Writers
  <2> QED
    BY <1>3, <1>4, <2>1 DEF Dones
<1>6. writer' \in [Writer -> Writers] /\ writer'[w].pc = "idle" /\ \A v \in Writer : v # w => writer'[v] = writer[v]
  BY <1>1, <1>4, WriterMoves, IdleShape, Zenon
<1>7. w \in Writing /\ Writing' = Writing \ {w}
  BY <1>4, <1>6 DEF Writing, Results
<1>8. InWriter(l) /\ l \in DOMAIN queued /\ ~InQueue(l) /\ ~InReady(l) /\ ~InDone(l)
  <2>1. InWriter(l)
    BY <1>2, <1>7 DEF InWriter
  <2> QED
    BY <1>1, <2>1, Zenon DEF Places
<1>9. /\ done' \in Seq(Dones) /\ Len(done') = Len(done) + 1 /\ Len(done) \in Nat
      /\ Range(done') = Range(done) \cup {r} /\ DistinctLocs(done')
  <2>1. done \in Seq(Dones) /\ DistinctLocs(done)
    BY <1>1 DEF TypeOK, Places
  <2>2. \A x \in Range(done) : x.loc # r.loc
    BY <1>5, <1>8 DEF InDone
  <2>3. Len(done) \in Nat
    BY <2>1
  <2> QED
    BY <1>4, <1>5, <2>1, <2>2, <2>3, AppendShape, DonesShape
<1>10. TypeOK'
  BY <1>1, <1>4, <1>6, <1>9 DEF TypeOK
<1>11. Counts'
  <2>1. Cardinality(Writing') = Cardinality(Writing) - 1 /\ Cardinality(Writing) \in Nat
    BY <1>7, WritingFinite, FS_RemoveElement
  <2>2. Len(ready) \in Nat /\ writers' = writers
    BY <1>1 DEF TypeOK, writers
  <2>3. Len(ready) + Len(done) + Cardinality(Writing) = Len(ready') + Len(done') + Cardinality(Writing')
    BY <1>4, <1>9, <2>1, <2>2
  <2> QED
    BY <1>1, <1>4, <2>2, <2>3 DEF Counts
<1>12. Landed'
  <2>1. \A v \in Writer : writer'[v].pc \in {"unlink", "none"} => writer'[v] = writer[v]
    BY <1>6
  <2>2. r.err = "none" => r.loc \in stored /\ (~May("again") => r.loc \notin link)
    BY <1>1, <1>2, <1>5, Zenon DEF Landed
  <2> QED
    BY <1>1, <1>4, <1>9, <2>1, <2>2 DEF Landed, May
<1>13. Places'
  <2>1. \A k : InWriter(k)' => InWriter(k) /\ k # l
    <3> SUFFICES ASSUME NEW k, NEW v \in Writing', writer'[v].loc = k PROVE InWriter(k) /\ k # l
      BY DEF InWriter
    <3>1. v \in Writing /\ v # w /\ writer'[v] = writer[v]
      BY <1>6, <1>7 DEF Writing
    <3> QED
      BY <1>1, <1>2, <1>7, <3>1 DEF InWriter, Places
  <2>2. \A k : InDone(k)' => InDone(k) \/ k = l
    BY <1>5, <1>9 DEF InDone
  <2>3. \A k : (InQueue(k)' <=> InQueue(k)) /\ (InReady(k)' <=> InReady(k))
    BY <1>4 DEF InQueue, InReady
  <2>4. \A v, x \in Writing' : writer'[v].loc = writer'[x].loc => v = x
    <3>1. \A v \in Writing' : v \in Writing /\ writer'[v] = writer[v]
      BY <1>6, <1>7 DEF Writing
    <3> QED
      BY <1>1, <3>1 DEF Places
  <2>5. /\ \A e \in Endpoint : Distinct(epq'[e].queue)
        /\ \A e \in Endpoint : \A k \in Range(epq'[e].queue) : EndpointOf[k] = e
        /\ Distinct(ready') /\ queued' = queued
    BY <1>1, <1>4 DEF Places
  <2>6. /\ \A k : InQueue(k)' => k \in DOMAIN queued' /\ ~InReady(k)' /\ ~InWriter(k)' /\ ~InDone(k)'
        /\ \A k : InReady(k)' => k \in DOMAIN queued' /\ ~InWriter(k)' /\ ~InDone(k)'
        /\ \A k : InWriter(k)' => k \in DOMAIN queued' /\ ~InDone(k)'
        /\ \A k : InDone(k)' => k \in DOMAIN queued'
    BY <1>1, <1>8, <2>1, <2>2, <2>3, <2>5, Zenon DEF Places
  <2> QED
    BY <1>9, <2>4, <2>5, <2>6, Zenon DEF Places
<1> QED
  BY <1>1, <1>4, <1>10, <1>11, <1>12, <1>13, CoveredFrame, FlushersFrame DEF Inv

\* parallelism: a request less is in flight, and max stays in its bounds.
LEMMA ParallelismFacts ==
    ASSUME writers \in Nat, NEW p \in Pars, p.max \in 1..writers, NEW err,
           NEW q, q = success(p) \/ q = failure(p, err)
    PROVE  q \in Pars /\ q.inFlight = p.inFlight - 1 /\ q.max \in 1..writers
<1>1. /\ p.inFlight \in Int /\ p.max \in Int /\ p.successes \in Int
      /\ p.max >= 1 /\ p.max <= writers
  BY DEF Pars
<1>2. (p.max + 1) \div 2 \in 1..writers
  BY <1>1
<1> DEFINE r == [p EXCEPT !.inFlight = @ - 1]
<1>3. r \in Pars /\ r.inFlight = p.inFlight - 1 /\ r.max = p.max /\ r.successes = p.successes
  BY <1>1 DEF Pars
<1>4. ASSUME NEW n \in Int, NEW m \in 1..writers,
             \/ q = r
             \/ q = [r EXCEPT !.successes = n]
             \/ q = [r EXCEPT !.successes = n, !.max = m]
      PROVE  q \in Pars /\ q.inFlight = p.inFlight - 1 /\ q.max \in 1..writers
  <2>1. CASE q = r
    BY <1>1, <1>3, <2>1
  <2>2. CASE q = [r EXCEPT !.successes = n]
    BY <1>1, <1>3, <2>2, Zenon DEF Pars
  <2>3. CASE q = [r EXCEPT !.successes = n, !.max = m]
    <3>1. q = [inFlight |-> r.inFlight, max |-> m, successes |-> n]
      BY <1>3, <2>3, Zenon DEF Pars
    <3> QED
      BY <1>1, <1>3, <3>1 DEF Pars
  <2> QED
    BY <1>4, <2>1, <2>2, <2>3
<1> DEFINE Shape(n, m) == q = r \/ q = [r EXCEPT !.successes = n] \/ q = [r EXCEPT !.successes = n, !.max = m]
<1>5. \E n \in Int, m \in 1..writers : Shape(n, m)
  <2>1. CASE q = failure(p, err)
    <3>1. \/ q = r \/ q = [r EXCEPT !.successes = 0]
          \/ q = [r EXCEPT !.successes = 0, !.max = (@ + 1) \div 2]
      BY <2>1 DEF failure
    <3>2. Shape(0, (p.max + 1) \div 2)
      BY <1>3, <3>1
    <3> HIDE DEF Shape
    <3>3. 0 \in Int
      OBVIOUS
    <3> QED
      BY <1>2, <3>2, <3>3, Zenon
  <2>2. CASE q = success(p)
    <3>1. CASE p.max = writers
      <4>1. PICK n \in Int : n = IF p.successes < MaxSuccesses THEN p.successes + 1 ELSE p.successes
        BY <1>1
      <4>2. q = r \/ q = [r EXCEPT !.successes = n]
        BY <1>3, <2>2, <3>1, <4>1 DEF success
      <4>3. Shape(n, p.max)
        BY <4>2
      <4> QED
        BY <4>3, Zenon
    <3>2. CASE p.max # writers
      <4>1. p.max + 1 \in 1..writers /\ p.successes + 1 \in Int
        BY <1>1, <3>2
      <4>2. \/ q = r \/ q = [r EXCEPT !.successes = p.successes + 1]
            \/ q = [r EXCEPT !.successes = 0, !.max = p.max + 1]
        BY <1>3, <2>2, <3>2 DEF success
      <4>3. Shape(p.successes + 1, p.max + 1) \/ Shape(0, p.max + 1)
        BY <4>2
      <4> HIDE DEF Shape
      <4>4. 0 \in Int
        OBVIOUS
      <4> QED
        BY <4>1, <4>3, <4>4, Zenon
    <3> QED
      BY <3>1, <3>2, Zenon
  <2> QED
    BY <2>1, <2>2, Zenon
<1> QED
  BY <1>4, <1>5, Zenon

\* The request that was reported leaves the done channel.
LEMMA DoneFacts ==
    ASSUME Inv, UNCHANGED setting, done # << >>, done' = Tail(done), NEW r, r = Head(done)
    PROVE  /\ r \in Dones /\ r \in Range(done) /\ done' \in Seq(Dones) /\ Len(done') = Len(done) - 1
           /\ Len(done) \in Nat /\ Range(done') \subseteq Range(done) /\ DistinctLocs(done')
           /\ InDone(r.loc) /\ r.loc \in DOMAIN queued
           /\ ~InQueue(r.loc) /\ ~InReady(r.loc) /\ ~InWriter(r.loc)
           /\ \A k : InDone(k)' => InDone(k) /\ k # r.loc
<1>1. TypeOK /\ Places
  BY DEF Inv
<1>2. done \in Seq(Dones) /\ DistinctLocs(done) /\ Len(done) \in Nat
  BY <1>1 DEF TypeOK, Places
<1>3. /\ r \in Dones /\ done' \in Seq(Dones) /\ Len(done') = Len(done) - 1
      /\ Range(done) = Range(done') \cup {r}
  BY <1>2, TailShape
<1>4. DistinctLocs(done') /\ \A x \in Range(done') : x.loc # r.loc
  BY <1>2, DonesShape
<1>5. InDone(r.loc)
  BY <1>3 DEF InDone
<1>6. r.loc \in DOMAIN queued /\ ~InQueue(r.loc) /\ ~InReady(r.loc) /\ ~InWriter(r.loc)
  BY <1>1, <1>5, Zenon DEF Places
<1>7. \A k : InDone(k)' => InDone(k) /\ k # r.loc
  BY <1>3, <1>4 DEF InDone
<1> QED
  BY <1>2, <1>3, <1>4, <1>5, <1>6, <1>7

\* Whatever the result, one request less is in flight.
LEMMA DoneCounts ==
    ASSUME Inv, UNCHANGED <<ready, writer>>, Len(done') = Len(done) - 1, Len(done) \in Nat, NEW err,
           par' = success(par) \/ par' = failure(par, err)
    PROVE  Counts' /\ par' \in Pars
<1>1. TypeOK /\ Counts
  BY DEF Inv
<1>2. writers \in Nat /\ writers' = writers /\ Writing' = Writing
  BY <1>1, SettingFacts DEF TypeOK, writers, Writing
<1>3. /\ par \in Pars /\ par.max \in 1..writers /\ par.inFlight <= writers
      /\ par.inFlight = Len(ready) + Len(done) + Cardinality(Writing)
  BY <1>1 DEF TypeOK, Counts
<1>4. par' \in Pars /\ par'.inFlight = par.inFlight - 1 /\ par'.max \in 1..writers
  BY <1>2, <1>3, ParallelismFacts
<1>5. Len(ready) \in Nat /\ Cardinality(Writing) \in Nat /\ par.inFlight \in Int
  BY <1>1, <1>3, WritingFinite DEF TypeOK, Pars
<1>6. par'.inFlight <= writers /\ par'.inFlight = Len(ready') + Len(done') + Cardinality(Writing)
  BY <1>2, <1>3, <1>4, <1>5
<1> QED
  BY <1>2, <1>4, <1>6 DEF Counts

\* The request failed and goes back to its queue.
LEMMA DoneErrorInv ==
    ASSUME Inv, UNCHANGED setting, Done, Head(done).err # "none"
    PROVE  Inv'
<1>1. TypeOK /\ Counts /\ Landed /\ Covered /\ Places /\ Waiting /\ Flushers
  BY DEF Inv
<1>2. PICK r : r = Head(done)
  OBVIOUS
<1>3. PICK l : l = r.loc
  OBVIOUS
<1>4. PICK e : e = EndpointOf[l]
  OBVIOUS
<1> DEFINE q == [queue |-> Append(epq[e].queue, l), state |-> IF r.err = "timeout" THEN epq[e].state ELSE "dead"]
<1>5. /\ done # << >> /\ done' = Tail(done) /\ epq' = [epq EXCEPT ![e] = q]
      /\ par' = failure(par, r.err)
      /\ UNCHANGED <<queued, client, request, flushRequest, ready, writer, link, walk, stored>>
  BY <1>2, <1>3, <1>4, Zenon DEF Done, DoneError
<1>6. /\ r \in Dones /\ r \in Range(done) /\ done' \in Seq(Dones) /\ Len(done') = Len(done) - 1
      /\ Len(done) \in Nat /\ Range(done') \subseteq Range(done) /\ DistinctLocs(done')
      /\ InDone(l) /\ l \in DOMAIN queued
      /\ ~InQueue(l) /\ ~InReady(l) /\ ~InWriter(l)
      /\ \A k : InDone(k)' => InDone(k) /\ k # l
  BY <1>2, <1>3, <1>5, DoneFacts
<1>7. l \in Location /\ e \in Endpoint
  <2>1. l \in Location
    BY <1>3, <1>6 DEF Dones
  <2> QED
    BY <1>1, <1>4, <2>1, SettingFacts DEF TypeOK
<1>8. epq[e] \in Queues /\ epq[e].queue \in Seq(Location) /\ Distinct(epq[e].queue)
  BY <1>1, <1>7 DEF TypeOK, Queues, Places
<1>9. /\ Append(epq[e].queue, l) \in Seq(Location)
      /\ Range(Append(epq[e].queue, l)) = Range(epq[e].queue) \cup {l}
      /\ Distinct(Append(epq[e].queue, l))
  <2>1. l \notin Range(epq[e].queue)
    BY <1>6, <1>7 DEF InQueue
  <2> QED
    BY <1>7, <1>8, <2>1, AppendShape
<1>10. q \in Queues /\ q.queue = Append(epq[e].queue, l)
  BY <1>8, <1>9 DEF Queues
<1> HIDE DEF q
<1>11. epq' \in [Endpoint -> Queues] /\ epq'[e] = q /\ \A f \in Endpoint : f # e => epq'[f] = epq[f]
  BY <1>1, <1>5, <1>7, <1>10 DEF TypeOK
<1>12. Counts' /\ par' \in Pars
  BY <1>5, <1>6, DoneCounts
<1>13. TypeOK'
  BY <1>1, <1>5, <1>6, <1>11, <1>12 DEF TypeOK
<1>14. Landed'
  BY <1>1, <1>5, <1>6 DEF Landed, May
<1>15. Places'
  <2>1. \A f \in Endpoint : Distinct(epq'[f].queue)
    BY <1>1, <1>9, <1>10, <1>11, Zenon DEF Places
  <2>2. \A f \in Endpoint : \A k \in Range(epq'[f].queue) : k \in Range(epq[f].queue) \/ (k = l /\ f = e)
    BY <1>9, <1>10, <1>11, Zenon
  <2>3. \A f \in Endpoint : \A k \in Range(epq'[f].queue) : EndpointOf[k] = f
    BY <1>1, <1>4, <2>2 DEF Places
  <2>4. \A k : InQueue(k)' => InQueue(k) \/ k = l
    BY <2>2 DEF InQueue
  <2>5. \A k : (InReady(k)' <=> InReady(k)) /\ (InWriter(k)' <=> InWriter(k))
    BY <1>5 DEF InReady, InWriter, Writing
  <2>6. Distinct(ready') /\ queued' = queued /\ \A v, w \in Writing' : writer'[v].loc = writer'[w].loc => v = w
    BY <1>1, <1>5 DEF Places, Writing
  <2>7. /\ \A k : InQueue(k)' => k \in DOMAIN queued' /\ ~InReady(k)' /\ ~InWriter(k)' /\ ~InDone(k)'
        /\ \A k : InReady(k)' => k \in DOMAIN queued' /\ ~InWriter(k)' /\ ~InDone(k)'
        /\ \A k : InWriter(k)' => k \in DOMAIN queued' /\ ~InDone(k)'
        /\ \A k : InDone(k)' => k \in DOMAIN queued'
    BY <1>1, <1>6, <2>4, <2>5, <2>6, Zenon DEF Places
  <2> QED
    BY <1>6, <2>1, <2>3, <2>6, <2>7, Zenon DEF Places
<1> QED
  BY <1>1, <1>5, <1>12, <1>13, <1>14, <1>15, CoveredFrame, FlushersFrame DEF Inv

\* The request is done: its block is stored, and its flushers are told.
LEMMA DoneSuccessInv ==
    ASSUME Inv, UNCHANGED setting, Done, Head(done).err = "none"
    PROVE  Inv'
<1>1. TypeOK /\ Counts /\ Landed /\ Covered /\ Places /\ Waiting /\ Flushers
  BY DEF Inv
<1>2. PICK r : r = Head(done)
  OBVIOUS
<1>3. PICK l : l = r.loc
  OBVIOUS
<1>4. PICK e : e = EndpointOf[l]
  OBVIOUS
<1> DEFINE q == [epq[e] EXCEPT !.state = "live"]
<1>5. /\ done # << >> /\ done' = Tail(done) /\ epq' = [epq EXCEPT ![e] = q]
      /\ par' = success(par) /\ queued' = Restrict(queued, DOMAIN queued \ {l})
      /\ client' = [c \in Client |-> IF c \in queued[l] THEN [client[c] EXCEPT !.pc = "flushed"] ELSE client[c]]
      /\ UNCHANGED <<request, flushRequest, ready, writer, link, walk, stored>>
  BY <1>2, <1>3, <1>4 DEF Done, DoneSuccess
<1>6. /\ r \in Dones /\ r \in Range(done) /\ done' \in Seq(Dones) /\ Len(done') = Len(done) - 1
      /\ Len(done) \in Nat /\ Range(done') \subseteq Range(done) /\ DistinctLocs(done')
      /\ InDone(l) /\ l \in DOMAIN queued
      /\ ~InQueue(l) /\ ~InReady(l) /\ ~InWriter(l)
      /\ \A k : InDone(k)' => InDone(k) /\ k # l
  BY <1>2, <1>3, <1>5, DoneFacts
<1>7. l \in Location /\ e \in Endpoint /\ l \in stored /\ (~May("again") => l \notin link)
  <2>1. l \in Location
    BY <1>3, <1>6 DEF Dones
  <2> QED
    BY <1>1, <1>2, <1>3, <1>4, <1>6, <2>1, SettingFacts, Zenon DEF TypeOK, Landed
<1>8. q \in Queues /\ q.queue = epq[e].queue
  <2>1. epq[e] \in Queues
    BY <1>1, <1>7 DEF TypeOK
  <2> QED
    BY <2>1 DEF Queues
<1> HIDE DEF q
<1>9. epq' \in [Endpoint -> Queues] /\ \A f \in Endpoint : epq'[f].queue = epq[f].queue
  BY <1>1, <1>5, <1>7, <1>8 DEF TypeOK
<1>10. /\ DOMAIN queued' = DOMAIN queued \ {l}
       /\ \A k \in DOMAIN queued' : queued'[k] = queued[k]
  BY <1>5 DEF Restrict
<1>11. /\ \A c \in Client : c \notin queued[l] => client'[c] = client[c]
       /\ \A c \in queued[l] : /\ c \in Client /\ client[c].pc = "flushing"
                              /\ client'[c].pc = "flushed" /\ client'[c].loc = l
       /\ client' \in [Client -> Clients]
  <2>1. \A c \in Client : client[c] \in Clients
    BY <1>1 DEF TypeOK
  <2>2. \A c \in Client : /\ [client[c] EXCEPT !.pc = "flushed"] \in Clients
                          /\ [client[c] EXCEPT !.pc = "flushed"].pc = "flushed"
                          /\ [client[c] EXCEPT !.pc = "flushed"].loc = client[c].loc
    BY <2>1 DEF Clients, ClientPcs
  <2>3. \A c \in queued[l] : c \in Client /\ client[c].pc = "flushing" /\ client[c].loc = l
    BY <1>1, <1>6 DEF Waiting
  <2>4. \A c \in Client : client'[c] = IF c \in queued[l] THEN [client[c] EXCEPT !.pc = "flushed"] ELSE client[c]
    BY <1>5
  <2>5. \A c \in Client : client'[c] \in Clients
    BY <2>1, <2>2, <2>4, Zenon
  <2> QED
    BY <1>5, <2>2, <2>3, <2>4, <2>5, Zenon
<1>12. Counts' /\ par' \in Pars
  BY <1>5, <1>6, DoneCounts
<1>13. TypeOK'
  BY <1>1, <1>5, <1>6, <1>9, <1>10, <1>11, <1>12 DEF TypeOK
<1>14. Landed'
  BY <1>1, <1>5, <1>6 DEF Landed, May
<1>15. Covered'
  <2> SUFFICES ASSUME ~May("again"), NEW k \in link
               PROVE  \/ k \in DOMAIN queued'
                      \/ k \in Range(request) \cup walk
                      \/ \E c \in Client : client'[c].pc = "linked" /\ client'[c].loc = k
    BY <1>5, Zenon DEF Covered, May
  <2>1. k # l
    BY <1>7
  <2>2. \A c \in Client : client[c].pc = "linked" => client'[c] = client[c]
    BY <1>11
  <2> QED
    BY <1>1, <1>10, <2>1, <2>2 DEF Covered
<1>16. Places'
  <2>1. /\ \A f \in Endpoint : Distinct(epq'[f].queue)
        /\ \A f \in Endpoint : \A k \in Range(epq'[f].queue) : EndpointOf[k] = f
        /\ \A k : InQueue(k)' <=> InQueue(k)
    BY <1>1, <1>9 DEF Places, InQueue
  <2>2. \A k : (InReady(k)' <=> InReady(k)) /\ (InWriter(k)' <=> InWriter(k))
    BY <1>5 DEF InReady, InWriter, Writing
  <2>3. Distinct(ready') /\ \A v, w \in Writing' : writer'[v].loc = writer'[w].loc => v = w
    BY <1>1, <1>5 DEF Places, Writing
  <2>4. \A k \in DOMAIN queued : k # l => k \in DOMAIN queued'
    BY <1>10
  <2>5. /\ \A k : InQueue(k)' => k \in DOMAIN queued' /\ ~InReady(k)' /\ ~InWriter(k)' /\ ~InDone(k)'
        /\ \A k : InReady(k)' => k \in DOMAIN queued' /\ ~InWriter(k)' /\ ~InDone(k)'
        /\ \A k : InWriter(k)' => k \in DOMAIN queued' /\ ~InDone(k)'
        /\ \A k : InDone(k)' => k \in DOMAIN queued'
    BY <1>1, <1>6, <2>1, <2>2, <2>4, Zenon DEF Places
  <2> QED
    BY <1>6, <2>1, <2>3, <2>5, Zenon DEF Places
<1>17. Waiting'
  <2>1. ASSUME NEW k \in DOMAIN queued', NEW c \in queued'[k]
        PROVE  c \in Client /\ client'[c].pc = "flushing" /\ client'[c].loc = k /\ c \notin Range(flushRequest)
    <3>1. k \in DOMAIN queued /\ k # l /\ c \in queued[k]
      BY <1>10
    <3>2. c \in Client /\ client[c].pc = "flushing" /\ client[c].loc = k /\ c \notin Range(flushRequest)
      BY <1>1, <3>1 DEF Waiting
    <3>3. c \notin queued[l]
      BY <1>1, <1>6, <3>1, <3>2 DEF Waiting
    <3> QED
      BY <1>11, <3>2, <3>3
  <2>2. Range(flushRequest) \subseteq Client
    BY <1>1 DEF TypeOK, Range
  <2>3. \A c \in Range(flushRequest) : c \notin queued[l] /\ client[c].pc = "flushing"
    BY <1>1, <1>6 DEF Waiting
  <2>4. \A c \in Range(flushRequest) : client'[c].pc = "flushing"
    BY <1>11, <2>2, <2>3
  <2>5. Distinct(flushRequest)
    BY <1>1 DEF Waiting
  <2>6. flushRequest' = flushRequest
    BY <1>5
  <2> QED
    BY <2>1, <2>4, <2>5, <2>6, Zenon DEF Waiting
<1>18. Flushers'
  <2> SUFFICES ASSUME ~May("again"), NEW c \in Client
               PROVE  /\ client'[c].pc = "put" => client'[c].loc \in DOMAIN queued' \cup Range(request) \cup stored
                      /\ client'[c].pc = "flushing" => client'[c].loc \in DOMAIN queued' \cup Range(request) \cup stored
                      /\ client'[c].pc = "flushed" => client'[c].loc \in stored
    BY <1>5, Zenon DEF Flushers, May
  <2>1. CASE c \in queued[l]
    BY <1>7, <1>11, <2>1
  <2>2. CASE c \notin queued[l]
    <3>1. client'[c] = client[c]
      BY <1>11, <2>2
    <3>2. \A k \in DOMAIN queued : k \in DOMAIN queued' \cup stored
      BY <1>7, <1>10
    <3>3. /\ client[c].pc = "put" => client[c].loc \in DOMAIN queued \cup Range(request) \cup stored
          /\ client[c].pc = "flushing" => client[c].loc \in DOMAIN queued \cup Range(request) \cup stored
          /\ client[c].pc = "flushed" => client[c].loc \in stored
      BY <1>1 DEF Flushers
    <3> QED
      BY <3>1, <3>2, <3>3
  <2> QED
    BY <2>1, <2>2
<1> QED
  BY <1>12, <1>13, <1>14, <1>15, <1>16, <1>17, <1>18 DEF Inv

-----------------------------------------------------------------------------
(* The theorems. *)

\* Every step keeps the invariant.
LEMMA NextInv ==
    ASSUME Inv, [Next]_<<setting, vars>>
    PROVE  Inv'
<1>1. CASE UNCHANGED <<setting, vars>>
  <2>1. UNCHANGED <<setting, request, flushRequest, ready, done, queued, epq, par, writer, client, link, walk, stored>>
    BY <1>1 DEF vars
  <2>2. TypeOK /\ Counts /\ Landed /\ Covered /\ Places /\ Waiting /\ Flushers
    BY DEF Inv
  <2>3. TypeOK'
    BY <2>1, <2>2 DEF TypeOK
  <2> QED
    BY <2>1, <2>2, <2>3, CountsFrame, LandedFrame, CoveredFrame, PlacesFrame, FlushersFrame DEF Inv
<1>2. CASE Next
  <2>1. UNCHANGED setting
    BY <1>2, Zenon DEF Next
  <2>2. CASE Crash
    BY <2>1, <2>2, CrashInv
  <2>3. CASE Walk
    BY <2>1, <2>3, WalkInv
  <2>4. CASE Close \/ EndPass \/ Die
    BY <2>1, <2>4, QuietInv
  <2>5. CASE Request
    BY <2>1, <2>5, RequestInv
  <2>6. CASE Done
    BY <2>1, <2>6, DoneErrorInv, DoneSuccessInv
  <2>7. CASE Flush
    BY <2>1, <2>7, FlushInv
  <2>8. ASSUME NEW e \in Endpoint, Retry(e) \/ Pick(e) PROVE Inv'
    BY <2>1, <2>8, RetryInv, PickInv
  <2>9. ASSUME NEW w \in Writer, WriterStep(w) \/ \E err \in setting.errors : StoreFails(w, err) PROVE Inv'
    BY <2>1, <2>9, TakeInv, StoreInv, UnlinkInv, ReportInv, StoreFailsInv DEF WriterStep
  <2>10. ASSUME NEW c \in Client, SendRequest(c) \/ SendFlush(c) \/ Leave(c) \/ \E l \in setting.loc : Put(c, l)
         PROVE  Inv'
    BY <2>1, <2>10, SendRequestInv, SendFlushInv, LeaveInv, PutInv, Zenon
  <2> QED
    BY <1>2, <2>2, <2>3, <2>4, <2>5, <2>6, <2>7, <2>8, <2>9, <2>10, Zenon DEF Next, Scheduler
<1> QED
  BY <1>1, <1>2

\* The invariant holds, always.
THEOREM QueueInvariant == Spec => []Inv
<1>1. Init => Inv
  BY InitInv
<1>2. Inv /\ [Next]_<<setting, vars>> => Inv'
  BY NextInv
<1> QED
  BY <1>1, <1>2, PTL DEF Spec

\* The scheduler's books are right, for every number of writers, endpoints,
\* blocks and clients: parallelism stays in its bounds, inFlight counts the
\* requests that are under way, done has room for all of them, and no link is
\* forgotten, not even by a crash (wbq.go: scheduler, writer, parallelism).
THEOREM BooksAlwaysRight == Spec => []BooksAreRight
<1>1. Inv => BooksAreRight
  <2> SUFFICES ASSUME Inv PROVE BooksAreRight
    OBVIOUS
  <2>1. Counts /\ Covered
    BY DEF Inv
  <2> QED
    BY <2>1 DEF Counts, Covered, BooksAreRight, Cap
<1> QED
  BY <1>1, QueueInvariant, PTL

\* flush returns when the block is in the StoreServer (wbq.go: flush and the
\* flushChans of a request).
THEOREM FlushAlwaysMeansStored == Spec => []FlushMeansStored
<1>1. Inv => FlushMeansStored
  BY DEF Inv, Flushers, FlushMeansStored
<1> QED
  BY <1>1, QueueInvariant, PTL

=============================================================================
