------------------------- MODULE DirTreesLoadProofs -------------------------
(***************************************************************************)
(* What DirTrees promises holds for any number of users, sessions, locks   *)
(* and trees, whichever users share a lock and however small the cache is. *)
(*                                                                         *)
(* The argument follows the locks.  A session that makes a tree of a user  *)
(* holds the lock of the user from the moment it has found that the cache  *)
(* has none, so nobody else can add one; and a tree that is removed to be  *)
(* closed has left the cache, which is the only place from which a tree is *)
(* taken, so nobody else can close it.  Here are the invariant, Inv, and   *)
(* the steps that look for a tree; DirTreesProofs has the others.          *)
(***************************************************************************)
EXTENDS DirTrees, TLAPS

Pcs == {"idle", "load", "logs", "new", "use", "close", "closing", "logless", "next"}
Calls == [pc : Pcs, op : {"Use", "Delete", "Close"}, user : User, tree : Nat]

TypeOK ==
    /\ setting \in Settings
    /\ userTrees \in Seq(Nat)
    /\ tree \in Seq([user : User, open : BOOLEAN])
    /\ logs \in [User -> BOOLEAN]
    /\ holder \in [Lock -> Session \cup {NoSession}]
    /\ call \in [Session -> Calls]
    /\ iter \in Nat
    /\ closes \in Seq(Nat)

\* closes counts; the cache has trees that exist and are open, one of each user
\* at most; and who refers to a tree refers to one that exists.
Counted == Len(closes) = Len(tree) /\ \A t \in 1..Len(tree) : closes[t] = IF tree[t].open THEN 0 ELSE 1
AllOpen == \A i \in 1..Len(userTrees) : userTrees[i] \in 1..Len(tree) /\ tree[userTrees[i]].open
OneEach == \A i, j \in 1..Len(userTrees) : tree[userTrees[i]].user = tree[userTrees[j]].user => i = j
Known == iter \in 0..Len(tree) /\ \A s \in Session : call[s].tree \in 0..Len(tree)

TreesOK == Counted /\ AllOpen /\ OneEach /\ Known

Absent(u) == \A i \in 1..Len(userTrees) : tree[userTrees[i]].user # u
Uncached(t) == \A i \in 1..Len(userTrees) : userTrees[i] # t

\* Who makes a tree holds the lock of its user, whose tree is not cached, and
\* is the only one to know the tree; who closes one holds the lock of its own
\* user, and is the only one to close it.
CallOK(s) ==
    LET c == call[s]
    IN  /\ c.pc \in {"logs", "new"} => holder[userLock[c.user]] = s /\ Absent(c.user)
        /\ c.pc = "new" =>
               /\ c.tree # NoTree /\ tree[c.tree].user = c.user
               /\ \A r \in Session \ {s} : call[r].tree # c.tree
        /\ c.pc = "closing" => holder[userLock[UserOf[s]]] = s
        /\ c.pc = "closing" /\ c.tree # NoTree =>
               \A r \in Session \ {s} : call[r].pc = "closing" => call[r].tree # c.tree
        /\ c.pc \in {"new", "closing"} /\ c.tree # NoTree => tree[c.tree].open /\ Uncached(c.tree)
        /\ c.pc = "use" => c.tree # NoTree

\* No tree has fallen out of the cache, and they are left alone.
Roomy == ~evicted /\ Shutdown = NoSession

\* Someone is about to add t to the cache, or to close it.
InHand(t) == \E r \in Session : call[r].pc \in {"new", "closing"} /\ call[r].tree = t

\* Then sessions close the trees of their own users, under the lock that keeps
\* others from loading them, and every open tree in use can be found.
WriterOK(s) ==
    LET c == call[s]
    IN  /\ c.op # "Use" => c.user = UserOf[s]
        /\ c.pc \in {"close", "closing", "logless"} => c.op # "Use"
        /\ c.pc = "closing" => Absent(c.user) /\ (c.tree # NoTree => tree[c.tree].user = c.user)
        /\ c.tree # NoTree /\ tree[c.tree].open => ~Uncached(c.tree) \/ InHand(c.tree)

CallsOK == \A s \in Session : CallOK(s)
WritersOK == Roomy => \A s \in Session : WriterOK(s)

Inv == TypeOK /\ TreesOK /\ CallsOK /\ WritersOK

-----------------------------------------------------------------------------
(* Sequences. *)

\* A sequence is a function on its places.
LEMMA SeqShape ==
    ASSUME NEW S, NEW q \in Seq(S)
    PROVE  Len(q) \in Nat /\ DOMAIN q = 1..Len(q) /\ (q = << >> <=> Len(q) = 0)
OBVIOUS

\* Its elements.
LEMMA SeqElement ==
    ASSUME NEW S, NEW q \in Seq(S), NEW i \in 1..Len(q)
    PROVE  q[i] \in S
OBVIOUS

\* A sequence with one more element.
LEMMA AppendShape ==
    ASSUME NEW S, NEW q \in Seq(S), NEW e \in S
    PROVE  /\ Append(q, e) \in Seq(S) /\ Len(Append(q, e)) = Len(q) + 1
           /\ \A i \in 1..Len(q) : Append(q, e)[i] = q[i]
           /\ Append(q, e)[Len(q) + 1] = e
OBVIOUS

\* A sequence with another element at one place.
LEMMA ExceptShape ==
    ASSUME NEW S, NEW q \in Seq(S), NEW i \in 1..Len(q), NEW e \in S
    PROVE  /\ [q EXCEPT ![i] = e] \in Seq(S) /\ Len([q EXCEPT ![i] = e]) = Len(q)
           /\ [q EXCEPT ![i] = e][i] = e
           /\ \A j \in 1..Len(q) : j # i => [q EXCEPT ![i] = e][j] = q[j]
OBVIOUS

\* What is left of a sequence when one element is removed.
LEMMA RemoveAtProperties ==
    ASSUME NEW S, NEW q \in Seq(S), NEW i \in 1..Len(q)
    PROVE  /\ RemoveAt(q, i) \in Seq(S)
           /\ Len(RemoveAt(q, i)) = Len(q) - 1
           /\ \A j \in 1..(Len(q) - 1) : (j < i => RemoveAt(q, i)[j] = q[j]) /\ (j >= i => RemoveAt(q, i)[j] = q[j + 1])
<1> DEFINE x == SubSeq(q, 1, i - 1)
           y == SubSeq(q, i + 1, Len(q))
<1>1. Len(q) \in Nat /\ i \in Nat /\ i >= 1 /\ i <= Len(q)
  BY SeqShape
<1>2. /\ x \in Seq(S) /\ Len(x) = i - 1
      /\ \A j \in 1..(i - 1) : x[j] = q[j]
  <2>1. \A j \in 1..(i - 1) : q[j] \in S
    BY <1>1, SeqElement
  <2>2. Len(x) = i - 1 /\ x = [j \in 1..(i - 1) |-> q[j]]
    BY <1>1
  <2> QED
    BY <1>1, <2>1, <2>2
<1>3. /\ y \in Seq(S) /\ Len(y) = Len(q) - i
      /\ \A j \in 1..(Len(q) - i) : y[j] = q[i + j]
  BY <1>1
<1>5. RemoveAt(q, i) = x \o y
  BY DEF RemoveAt
<1> HIDE DEF x, y
<1>4. /\ x \o y \in Seq(S)
      /\ Len(x \o y) = Len(x) + Len(y)
      /\ \A j \in 1..Len(x) : (x \o y)[j] = x[j]
      /\ \A j \in 1..Len(y) : (x \o y)[Len(x) + j] = y[j]
  <2>1. x \in Seq(S) /\ y \in Seq(S)
    BY <1>2, <1>3
  <2> QED
    BY <2>1
<1>6. Len(x) + Len(y) = Len(q) - 1
  BY <1>1, <1>2, <1>3
<1>7. ASSUME NEW j \in 1..(Len(q) - 1)
      PROVE  (j < i => (x \o y)[j] = q[j]) /\ (j >= i => (x \o y)[j] = q[j + 1])
  <2>1. CASE j < i
    <3>1. j \in 1..(i - 1) /\ j \in 1..Len(x) /\ ~(j >= i)
      BY <1>1, <1>2, <2>1
    <3> QED
      BY <1>2, <1>4, <3>1
  <2>2. CASE j >= i
    <3>1. ASSUME NEW m, m = j + 1 - i PROVE (x \o y)[j] = q[j + 1]
      <4>1. m \in 1..(Len(q) - i) /\ i + m = j + 1 /\ m \in 1..Len(y) /\ Len(x) + m = j
        BY <1>1, <1>2, <1>3, <2>2, <3>1
      <4>2. y[m] = q[j + 1] /\ (x \o y)[Len(x) + m] = y[m]
        BY <1>3, <1>4, <4>1, Zenon
      <4> QED
        BY <4>1, <4>2
    <3>2. ~(j < i)
      BY <1>1, <2>2
    <3> QED
      BY <3>1, <3>2, Zenon
  <2> QED
    BY <1>1, <2>1, <2>2, Zenon
<1> QED
  BY <1>4, <1>5, <1>6, <1>7

-----------------------------------------------------------------------------
(* Steps. *)

\* What is assumed of the setting that is run.
LEMMA SettingFacts ==
    ASSUME DirTreesAssumption, TypeOK
    PROVE  /\ userLock \in [User -> Lock]
           /\ MaxTrees \in Nat \ {0}
           /\ Shutdown \in Session \cup {NoSession}
           /\ UserOf \in [Session -> User]
           /\ NoSession \notin Session
BY DEF DirTreesAssumption, TypeOK, userLock, MaxTrees, Shutdown

\* Nothing is open at first.
LEMMA InitInv ==
    ASSUME DirTreesAssumption, TreesInit
    PROVE  Inv
<1>1. Resting \in Calls \/ Session = {}
  <2>1. ASSUME NEW s \in Session PROVE UserOf[s] \in User
    BY DEF DirTreesAssumption
  <2>2. ASSUME NEW s \in Session PROVE (CHOOSE u \in User : TRUE) \in User
    BY <2>1
  <2> QED
    BY <2>2 DEF Resting, Calls, Pcs, NoTree
<1>2. TypeOK
  BY <1>1 DEF TreesInit, TypeOK, NoTree
<1>3. TreesOK
  BY DEF TreesInit, TreesOK, Counted, AllOpen, OneEach, Known, Resting, NoTree
<1>4. CallsOK
  BY DEF TreesInit, CallsOK, CallOK, Resting
<1>5. WritersOK
  BY DEF TreesInit, WritersOK, WriterOK, Resting, NoTree
<1> QED
  BY <1>2, <1>3, <1>4, <1>5 DEF Inv

\* The call of a session that is over.
LEMMA IdleCall ==
    ASSUME TypeOK, NEW s \in Session
    PROVE  Resting \in Calls /\ Resting.pc = "idle" /\ Resting.op = "Use" /\ Resting.tree = NoTree
<1>1. call[s].user \in User
  BY DEF TypeOK, Calls
<1>2. (CHOOSE u \in User : TRUE) \in User
  BY <1>1
<1> QED
  BY <1>2 DEF Resting, Calls, Pcs, NoTree

\* A step that changes nothing keeps the invariant.
LEMMA StutterInv ==
    ASSUME Inv, UNCHANGED <<setting, treesVars>>
    PROVE  Inv'
<1>1. UNCHANGED <<setting, userTrees, tree, logs, holder, call, iter, closes, evicted>>
  BY DEF treesVars
<1>2. TypeOK /\ TreesOK /\ CallsOK /\ WritersOK
  BY DEF Inv
<1>3. TypeOK' /\ TreesOK'
  BY <1>1, <1>2 DEF TypeOK, TreesOK, Counted, AllOpen, OneEach, Known
<1>4. CallsOK'
  BY <1>1, <1>2 DEF CallsOK, CallOK, Absent, Uncached, userLock
<1>5. Roomy' => Roomy
  BY <1>1, Zenon DEF Roomy, Shutdown
<1>6. ASSUME NEW x \in Session, WriterOK(x) PROVE WriterOK(x)'
  BY <1>1, <1>6 DEF WriterOK, InHand, Absent, Uncached
<1>7. WritersOK'
  BY <1>2, <1>5, <1>6 DEF WritersOK
<1> QED
  BY <1>3, <1>4, <1>7 DEF Inv

\* A tree that can write is in the cache, or in the hands of a session that
\* holds the lock of its user.
LEMMA WriterIsFound ==
    ASSUME DirTreesAssumption, Inv, Roomy, NEW u \in User, NEW t \in Writers(u)
    PROVE  /\ t \in 1..Len(tree) /\ tree[t].user = u
           /\ \/ \E i \in 1..Len(userTrees) : userTrees[i] = t
              \/ Absent(u) /\ \E r \in Session : call[r].tree = t /\ holder[userLock[u]] = r
<1>1. TypeOK /\ CallsOK /\ \A r \in Session : WriterOK(r)
  BY DEF Inv, WritersOK
<1>2. t \in 1..Len(tree) /\ tree[t].user = u /\ tree[t].open /\ t # NoTree
  BY <1>1 DEF Writers, TypeOK, NoTree
<1>3. CASE ~Uncached(t)
  BY <1>2, <1>3 DEF Uncached
<1>4. CASE InHand(t)
  <2>1. PICK r \in Session : call[r].pc \in {"new", "closing"} /\ call[r].tree = t
    BY <1>4 DEF InHand
  <2>2. CallOK(r) /\ WriterOK(r)
    BY <1>1 DEF CallsOK
  <2>3. CASE call[r].pc = "new"
    <3>1. holder[userLock[call[r].user]] = r /\ Absent(call[r].user) /\ call[r].user = u
      BY <1>2, <2>1, <2>2, <2>3 DEF CallOK
    <3> QED
      BY <1>2, <2>1, <3>1
  <2>4. CASE call[r].pc = "closing"
    <3>1. holder[userLock[UserOf[r]]] = r /\ Absent(call[r].user) /\ call[r].user = u /\ call[r].user = UserOf[r]
      BY <1>2, <2>1, <2>2, <2>4 DEF CallOK, WriterOK
    <3> QED
      BY <1>2, <2>1, <3>1
  <2> QED
    BY <2>1, <2>3, <2>4
<1>5. CASE t \in Range(userTrees)
  <2>1. PICK i \in 1..Len(userTrees) : userTrees[i] = t
    BY <1>1, <1>5 DEF Range, TypeOK
  <2> QED
    BY <1>2, <2>1
<1>6. ASSUME NEW r \in Session, call[r].tree = t PROVE ~Uncached(t) \/ InHand(t)
  BY <1>1, <1>2, <1>6 DEF WriterOK
<1> QED
  BY <1>3, <1>4, <1>5, <1>6 DEF Writers

\* The invariant gives each of the three.
LEMMA InvRight ==
    ASSUME DirTreesAssumption, Inv
    PROVE  TreesAreRight
<1>1. TypeOK /\ TreesOK
  BY DEF Inv
<1>2. OneWriter
  <2> SUFFICES ASSUME Roomy, NEW u \in User, NEW a \in Writers(u), NEW b \in Writers(u)
               PROVE  a = b
    BY DEF OneWriter, Roomy
  <2>1. /\ a \in 1..Len(tree) /\ tree[a].user = u
        /\ \/ \E i \in 1..Len(userTrees) : userTrees[i] = a
           \/ Absent(u) /\ \E r \in Session : call[r].tree = a /\ holder[userLock[u]] = r
    BY WriterIsFound
  <2>2. /\ b \in 1..Len(tree) /\ tree[b].user = u
        /\ \/ \E i \in 1..Len(userTrees) : userTrees[i] = b
           \/ Absent(u) /\ \E r \in Session : call[r].tree = b /\ holder[userLock[u]] = r
    BY WriterIsFound
  <2>3. CASE Absent(u)
    BY <2>1, <2>2, <2>3 DEF Absent
  <2>4. CASE ~Absent(u)
    BY <1>1, <2>1, <2>2, <2>4 DEF TreesOK, OneEach
  <2> QED
    BY <2>3, <2>4
<1>3. CachedIsOpen
  <2> SUFFICES ASSUME NEW t \in Range(userTrees) PROVE tree[t].open
    BY DEF CachedIsOpen
  <2>1. PICK i \in 1..Len(userTrees) : t = userTrees[i]
    BY <1>1 DEF Range, TypeOK
  <2> QED
    BY <1>1, <2>1 DEF TreesOK, AllOpen
<1>4. ClosedOnce
  <2> SUFFICES ASSUME NEW t \in 1..Len(closes) PROVE closes[t] <= 1
    BY <1>1 DEF ClosedOnce, TypeOK
  <2>1. closes[t] = 0 \/ closes[t] = 1
    BY <1>1 DEF TreesOK, Counted
  <2> QED
    BY <2>1
<1> QED
  BY <1>2, <1>3, <1>4 DEF TreesAreRight

\* A step that leaves the trees and the cache alone: session s goes on with n,
\* and takes or releases a lock of its own at most.
Quiet(s, n) ==
    /\ n \in Calls /\ call' = [call EXCEPT ![s] = n]
    /\ UNCHANGED <<setting, userTrees, tree, closes, evicted>>
    /\ iter' \in 0..Len(tree)
    /\ logs' \in [User -> BOOLEAN]
    /\ holder' \in [Lock -> Session \cup {NoSession}]
    /\ \A l \in Lock : holder[l] \notin {s, NoSession} => holder'[l] = holder[l]
    /\ call[s].pc # "closing" /\ n.pc \notin {"new", "closing", "use"}
    /\ n.tree = NoTree \/ (n.tree = call[s].tree /\ call[s].pc # "new")
    /\ n.pc = "logs" => holder'[userLock[n.user]] = s /\ Absent(n.user)
    /\ Roomy => /\ n.op # "Use" => n.user = UserOf[s]
                /\ n.pc \in {"close", "logless"} => n.op # "Use"

\* Such a step keeps the invariant: the others find everything as it was.
LEMMA QuietInv ==
    ASSUME DirTreesAssumption, Inv, NEW s \in Session, NEW n, Quiet(s, n)
    PROVE  Inv'
<1>1. TypeOK /\ TreesOK /\ CallsOK /\ WritersOK /\ CallOK(s)
  BY DEF Inv, CallsOK
<1>2. n \in Calls /\ call' = [call EXCEPT ![s] = n] /\ UNCHANGED <<setting, userTrees, tree, closes, evicted>>
  BY DEF Quiet
<1>3. call'[s] = n /\ \A r \in Session \ {s} : call'[r] = call[r]
  BY <1>1, <1>2 DEF TypeOK
<1>4. /\ call[s].pc # "closing" /\ n.pc \notin {"new", "closing", "use"}
      /\ n.tree = NoTree \/ (n.tree = call[s].tree /\ call[s].pc # "new")
  BY DEF Quiet
<1>5. UNCHANGED userLock /\ userLock \in [User -> Lock] /\ UserOf \in [Session -> User] /\ NoSession \notin Session
  BY <1>1, <1>2, SettingFacts DEF userLock
<1>6. \A l \in Lock : holder[l] \notin {s, NoSession} => holder'[l] = holder[l]
  BY DEF Quiet
<1>7. (\A u : Absent(u)' <=> Absent(u)) /\ (\A t : Uncached(t)' <=> Uncached(t))
  BY <1>2 DEF Absent, Uncached
<1>8. TypeOK'
  <2>1. call' \in [Session -> Calls] /\ iter' \in Nat
    BY <1>1, <1>2, SeqShape DEF Quiet, TypeOK
  <2> QED
    BY <1>1, <1>2, <2>1 DEF Quiet, TypeOK
<1>9. TreesOK'
  <2>1. n.tree \in 0..Len(tree)
    BY <1>1, <1>4, SeqShape DEF TypeOK, TreesOK, Known, NoTree
  <2>2. iter' \in 0..Len(tree) /\ \A r \in Session : call'[r].tree \in 0..Len(tree)
    BY <1>1, <1>3, <2>1 DEF Quiet, TreesOK, Known
  <2>3. Counted' /\ AllOpen' /\ OneEach'
    BY <1>1, <1>2 DEF TreesOK, Counted, AllOpen, OneEach
  <2> QED
    BY <1>2, <2>2, <2>3 DEF TreesOK, Known
<1>10. CallOK(s)'
  BY <1>2, <1>3, <1>4 DEF Quiet, CallOK, Absent, userLock
<1>11. ASSUME NEW x \in Session, x # s PROVE CallOK(x)'
  <2>1. CallOK(x) /\ call'[x] = call[x] /\ call[x] \in Calls
    BY <1>1, <1>3, <1>11 DEF CallsOK, TypeOK
  <2>2. ASSUME NEW u \in User, holder[userLock[u]] = x PROVE holder'[userLock[u]] = x
    BY <1>5, <1>6, <1>11, <2>2
  <2>3. call[x].user \in User /\ UserOf[x] \in User
    BY <1>5, <2>1 DEF Calls
  <2>4. ASSUME NEW r \in Session
        PROVE  /\ call'[r].pc = "closing" => r # s /\ call[r].pc = "closing" /\ call'[r].tree = call[r].tree
               /\ call'[r].tree = NoTree \/ call'[r].tree = call[r].tree
    BY <1>3, <1>4
  <2>5. PICK t, u : t = call[x].tree /\ u = call[x].user
    OBVIOUS
  <2>6. call[x].pc \in {"logs", "new"} => holder'[userLock[u]] = x /\ Absent(u)'
    BY <1>7, <2>1, <2>2, <2>3, <2>5 DEF CallOK
  <2>7. call[x].pc = "new" => t # NoTree /\ tree[t].user = u /\ \A r \in Session \ {x} : call'[r].tree # t
    BY <2>1, <2>4, <2>5 DEF CallOK
  <2>8. /\ call[x].pc = "closing" => holder'[userLock[UserOf[x]]] = x
        /\ call[x].pc = "use" => t # NoTree
    BY <2>1, <2>2, <2>3, <2>5 DEF CallOK
  <2>9. call[x].pc = "closing" /\ t # NoTree =>
            \A r \in Session \ {x} : call'[r].pc = "closing" => call'[r].tree # t
    BY <2>1, <2>4, <2>5 DEF CallOK
  <2>10. call[x].pc \in {"new", "closing"} /\ t # NoTree => tree[t].open /\ Uncached(t)'
    BY <1>7, <2>1, <2>5 DEF CallOK
  <2> QED
    BY <1>2, <1>5, <2>1, <2>5, <2>6, <2>7, <2>8, <2>9, <2>10, Zenon DEF CallOK
<1>12. ASSUME Roomy PROVE WriterOK(s)'
  <2>1. WriterOK(s)
    BY <1>1, <1>12 DEF WritersOK
  <2>2. ASSUME NEW t, InHand(t), call[s].pc # "new" PROVE InHand(t)'
    BY <1>3, <1>4, <2>2 DEF InHand
  <2> QED
    BY <1>2, <1>3, <1>4, <1>7, <1>12, <2>1, <2>2 DEF Quiet, WriterOK
<1>13. ASSUME Roomy, NEW x \in Session, x # s PROVE WriterOK(x)'
  <2>1. WriterOK(x) /\ call'[x] = call[x]
    BY <1>1, <1>3, <1>13 DEF WritersOK
  <2>2. ASSUME InHand(call[x].tree) PROVE InHand(call[x].tree)'
    <3>1. PICK r \in Session : call[r].pc \in {"new", "closing"} /\ call[r].tree = call[x].tree
      BY <2>2 DEF InHand
    <3>2. r # s
      BY <1>1, <1>4, <1>13, <3>1 DEF CallOK
    <3> QED
      BY <1>3, <1>13, <3>1, <3>2 DEF InHand
  <2> QED
    BY <1>2, <1>7, <2>1, <2>2 DEF WriterOK
<1>14. Roomy' = Roomy
  BY <1>2 DEF Roomy, Shutdown
<1> QED
  BY <1>8, <1>9, <1>10, <1>11, <1>12, <1>13, <1>14 DEF Inv, CallsOK, WritersOK

\* What a step of session s leaves to session x: the locks that x holds and what
\* they protect, ...
LocksKept(x) ==
    \A u \in User : holder[userLock[u]] = x => holder'[userLock[u]] = x /\ (Absent(u) => Absent(u)')

\* ... the tree that x has, which s does not take from outside the cache, ...
TreeKept(s, x) ==
    LET t == call[x].tree
    IN  t # NoTree =>
            /\ tree'[t].user = tree[t].user
            /\ Uncached(t) /\ (call[s].pc \in {"new", "closing"} => call[s].tree # t)
                   => Uncached(t)' /\ (tree[t].open => tree'[t].open)
            /\ call'[s].tree = t => ~Uncached(t) \/ (call[s].tree = t /\ call'[s].pc # "closing")

\* ... and, as long as it is open, the way to find it.
TreeFound(x) ==
    LET t == call[x].tree
    IN  t # NoTree /\ tree'[t].open =>
            /\ tree[t].open
            /\ ~Uncached(t) \/ InHand(t) => ~Uncached(t)' \/ InHand(t)'

Apart(s) ==
    /\ UNCHANGED userLock
    /\ \A x \in Session \ {s} : call'[x] = call[x] /\ LocksKept(x) /\ TreeKept(s, x)
    /\ Roomy' => Roomy /\ \A x \in Session \ {s} : TreeFound(x)

\* A step that keeps the invariant for s, and is apart from the others.
LEMMA ApartInv ==
    ASSUME DirTreesAssumption, Inv, NEW s \in Session, Apart(s),
           TypeOK', TreesOK', CallOK(s)', Roomy' => WriterOK(s)'
    PROVE  Inv'
<1>1. TypeOK /\ CallsOK /\ WritersOK /\ CallOK(s)
  BY DEF Inv, CallsOK
<1>2. ASSUME NEW x \in Session PROVE call[x].user \in User /\ UserOf[x] \in User
  <2>1. call[x] \in Calls
    BY <1>1 DEF TypeOK
  <2> QED
    BY <2>1, SettingFacts, <1>1 DEF Calls
<1>3. ASSUME NEW x \in Session, x # s PROVE CallOK(x)'
  <2>1. CallOK(x) /\ call'[x] = call[x] /\ LocksKept(x) /\ TreeKept(s, x) /\ UNCHANGED userLock
    BY <1>1, <1>3 DEF CallsOK, Apart
  <2>2. PICK t, u : t = call[x].tree /\ u = call[x].user
    OBVIOUS
  <2>3. call[x].pc \in {"logs", "new"} => holder'[userLock'[u]] = x /\ Absent(u)'
    <3>1. call[x].pc \in {"logs", "new"} => holder[userLock[u]] = x /\ Absent(u)
      BY <2>1, <2>2 DEF CallOK
    <3> QED
      BY <1>2, <2>1, <2>2, <3>1 DEF LocksKept
  <2>4. call[x].pc = "closing" => holder'[userLock'[UserOf[x]]] = x
    <3>1. call[x].pc = "closing" => holder[userLock[UserOf[x]]] = x
      BY <2>1, Zenon DEF CallOK
    <3> QED
      BY <1>2, <2>1, <3>1 DEF LocksKept
  <2>5. ASSUME call[x].pc \in {"new", "closing"}, t # NoTree
        PROVE  /\ tree[t].open /\ Uncached(t)
               /\ call[s].pc \in {"new", "closing"} => call[s].tree # t
    BY <1>1, <1>3, <2>1, <2>2, <2>5, Zenon DEF CallOK
  <2>6. ASSUME t # NoTree
        PROVE  /\ tree'[t].user = tree[t].user
               /\ Uncached(t) /\ (call[s].pc \in {"new", "closing"} => call[s].tree # t)
                      => Uncached(t)' /\ (tree[t].open => tree'[t].open)
               /\ call'[s].tree = t => ~Uncached(t) \/ (call[s].tree = t /\ call'[s].pc # "closing")
    BY <2>1, <2>2, <2>6, Zenon DEF TreeKept
  <2>7. call[x].pc \in {"new", "closing"} /\ t # NoTree => tree'[t].open /\ Uncached(t)'
    BY <2>5, <2>6, Zenon
  <2>8. call[x].pc = "new" => /\ t # NoTree /\ tree'[t].user = u
                              /\ \A r \in Session \ {x} : call'[r].tree # t
    <3> SUFFICES ASSUME call[x].pc = "new"
                 PROVE  t # NoTree /\ tree'[t].user = u /\ \A r \in Session \ {x} : call'[r].tree # t
      OBVIOUS
    <3>1. t # NoTree /\ tree[t].user = u /\ \A r \in Session \ {x} : call[r].tree # t
      BY <2>1, <2>2, Zenon DEF CallOK
    <3>2. \A r \in Session \ {s} : call'[r] = call[r]
      BY DEF Apart
    <3> QED
      BY <1>3, <2>5, <2>6, <3>1, <3>2, Zenon
  <2>9. call[x].pc = "closing" /\ t # NoTree => \A r \in Session \ {x} : call'[r].pc = "closing" => call'[r].tree # t
    <3> SUFFICES ASSUME call[x].pc = "closing", t # NoTree, NEW r \in Session \ {x}, call'[r].pc = "closing"
                 PROVE  call'[r].tree # t
      OBVIOUS
    <3>1. call[r].pc = "closing" => call[r].tree # t
      BY <2>1, <2>2 DEF CallOK
    <3>2. r # s => call'[r] = call[r]
      BY DEF Apart
    <3> QED
      BY <2>5, <2>6, <3>1, <3>2
  <2>10. call[x].pc = "use" => t # NoTree
    BY <2>1, <2>2 DEF CallOK
  <2> QED
    BY <2>1, <2>2, <2>3, <2>4, <2>7, <2>8, <2>9, <2>10, Zenon DEF CallOK
<1>4. ASSUME Roomy', NEW x \in Session, x # s PROVE WriterOK(x)'
  <2>1. /\ WriterOK(x) /\ CallOK(x) /\ call'[x] = call[x] /\ LocksKept(x) /\ TreeKept(s, x) /\ TreeFound(x)
    BY <1>1, <1>4 DEF CallsOK, WritersOK, Apart
  <2>2. PICK t, u : t = call[x].tree /\ u = call[x].user
    OBVIOUS
  <2>3. ASSUME call[x].pc = "closing" PROVE Absent(u)'
    <3>1. u = UserOf[x] /\ Absent(u)
      BY <2>1, <2>2, <2>3, Zenon DEF WriterOK
    <3>2. holder[userLock[UserOf[x]]] = x
      BY <2>1, <2>3, Zenon DEF CallOK
    <3> QED
      BY <1>2, <2>1, <3>1, <3>2, Zenon DEF LocksKept
  <2>4. t # NoTree => tree'[t].user = tree[t].user
    BY <2>1, <2>2, Zenon DEF TreeKept
  <2>5. t # NoTree /\ tree'[t].open => ~Uncached(t)' \/ InHand(t)'
    <3>1. t # NoTree /\ tree[t].open => ~Uncached(t) \/ InHand(t)
      BY <2>1, <2>2, Zenon DEF WriterOK
    <3> QED
      BY <2>1, <2>2, <3>1, Zenon DEF TreeFound
  <2> QED
    BY <2>1, <2>2, <2>3, <2>4, <2>5, Zenon DEF WriterOK
<1> QED
  BY <1>3, <1>4 DEF Inv, CallsOK, WritersOK

\* A lock that s holds, or nobody, is the only one that changes hands.
LEMMA OneLock ==
    ASSUME DirTreesAssumption, Inv, NEW s \in Session, NEW u \in User, NEW h \in {s, NoSession},
           holder[userLock[u]] \in {s, NoSession}, holder' = [holder EXCEPT ![userLock[u]] = h]
    PROVE  /\ holder' \in [Lock -> Session \cup {NoSession}] /\ holder'[userLock[u]] = h
           /\ \A l \in Lock : holder[l] \notin {s, NoSession} => holder'[l] = holder[l]
<1>1. userLock[u] \in Lock /\ holder \in [Lock -> Session \cup {NoSession}]
  BY SettingFacts DEF Inv, TypeOK
<1> QED
  BY <1>1

\* An operation begins.
LEMMA BeginInv ==
    ASSUME DirTreesAssumption, Inv, UNCHANGED setting,
           NEW s \in Session, NEW op \in {"Use", "Delete", "Close"}, NEW u \in User, Begin(s, op, u)
    PROVE  Inv'
<1> DEFINE n == [Resting EXCEPT !.pc = IF op = "Close" THEN "close" ELSE "load", !.op = op, !.user = u]
<1>1. TypeOK /\ TreesOK
  BY DEF Inv
<1>2. /\ n \in Calls /\ n.pc \in {"load", "close"} /\ n.op = op /\ n.user = u /\ n.tree = NoTree
      /\ n.pc = "close" => op = "Close"
  BY <1>1, IdleCall, Zenon DEF Calls, Pcs
<1>3. call' = [call EXCEPT ![s] = n] /\ UNCHANGED <<iter, userTrees, tree, logs, holder, closes, evicted>>
  BY DEF Begin
<1>4. call[s].pc = "idle" /\ (op # "Use" => u = UserOf[s])
  BY DEF Begin
<1> HIDE DEF n
<1>5. Quiet(s, n)
  BY <1>1, <1>2, <1>3, <1>4 DEF Quiet, TypeOK, TreesOK, Known
<1> QED
  BY <1>5, QuietInv

\* A session goes on, perhaps with another tree.
LEMMA CallMoves ==
    ASSUME NEW c \in Calls, NEW p \in Pcs, NEW t \in Nat, NEW n, n = Moved(c, p, t)
    PROVE  n \in Calls /\ n.pc = p /\ n.op = c.op /\ n.user = c.user /\ n.tree = t
<1> DEFINE m == [c EXCEPT !.pc = p]
<1>1. m \in Calls /\ m.pc = p /\ m.op = c.op /\ m.user = c.user
  BY DEF Calls
<1> HIDE DEF m
<1>2. n = [m EXCEPT !.tree = t]
  BY DEF m, Moved
<1> QED
  BY <1>1, <1>2 DEF Calls

\* The tree of a user is found in the cache.
LEMMA LoadCachedInv ==
    ASSUME DirTreesAssumption, Inv, UNCHANGED setting, NEW s \in Session, LoadCached(s)
    PROVE  Inv'
<1>1. TypeOK /\ TreesOK /\ CallsOK /\ WritersOK
  BY DEF Inv
<1>2. PICK i \in 1..Len(userTrees) :
          /\ userTrees' = <<userTrees[i]>> \o RemoveAt(userTrees, i)
          /\ call' = [call EXCEPT ![s] = Moved(call[s], "use", userTrees[i])]
  <2>1. Place(call[s].user) \subseteq 1..Len(userTrees)
    BY <1>1 DEF Place, TypeOK
  <2> QED
    BY <2>1, Zenon DEF LoadCached, GotoWith
<1> DEFINE n == Moved(call[s], "use", userTrees[i])
           q == RemoveAt(userTrees, i)
<1>3. UNCHANGED <<setting, iter, tree, logs, holder, closes>> /\ call[s].pc = "load"
  BY DEF LoadCached
<1>4. userTrees[i] \in 1..Len(tree) /\ tree[userTrees[i]].open
  BY <1>1 DEF TreesOK, AllOpen
<1>5. /\ n \in Calls /\ n.pc = "use" /\ n.tree = userTrees[i]
      /\ n.op = call[s].op /\ n.user = call[s].user
  <2>1. PICK t : t = userTrees[i]
    OBVIOUS
  <2>2. call[s] \in Calls /\ t \in Nat /\ "use" \in Pcs
    BY <1>1, <1>4, <2>1 DEF TypeOK, Pcs
  <2>3. n = Moved(call[s], "use", t)
    BY <2>1
  <2> HIDE DEF n
  <2>4. n \in Calls /\ n.pc = "use" /\ n.tree = t /\ n.op = call[s].op /\ n.user = call[s].user
    BY <2>2, <2>3, CallMoves
  <2> QED
    BY <2>1, <2>4
<1>6. call' = [call EXCEPT ![s] = n]
  BY <1>2
<1>7. call'[s] = n /\ \A r \in Session \ {s} : call'[r] = call[r]
  BY <1>1, <1>6 DEF TypeOK
<1>8. /\ q \in Seq(Nat) /\ Len(q) = Len(userTrees) - 1
      /\ \A j \in 1..(Len(userTrees) - 1) :
             (j < i => q[j] = userTrees[j]) /\ (j >= i => q[j] = userTrees[j + 1])
  BY <1>1, RemoveAtProperties, Zenon DEF TypeOK
<1>9. /\ userTrees' \in Seq(Nat) /\ Len(userTrees') = Len(userTrees)
      /\ userTrees'[1] = userTrees[i]
      /\ \A j \in 2..Len(userTrees) : userTrees'[j] = q[j - 1]
  <2> HIDE DEF q
  <2>1. userTrees' = <<userTrees[i]>> \o q /\ userTrees[i] \in Nat /\ Len(userTrees) \in Nat
    BY <1>1, <1>2, <1>4 DEF q, TypeOK
  <2> QED
    BY <1>8, <2>1
<1> HIDE DEF n, q
\* The cache has the same trees, in another order.
<1>10. \E f \in [1..Len(userTrees) -> 1..Len(userTrees)] :
           /\ \A j \in 1..Len(userTrees) : userTrees'[j] = userTrees[f[j]]
           /\ \A j, k \in 1..Len(userTrees) : f[j] = f[k] => j = k
           /\ \A k \in 1..Len(userTrees) : \E j \in 1..Len(userTrees) : f[j] = k
  <2> DEFINE g(j) == IF j = 1 THEN i ELSE IF j - 1 < i THEN j - 1 ELSE j
             f == [j \in 1..Len(userTrees) |-> g(j)]
  <2>1. Len(userTrees) \in Nat
    BY <1>1 DEF TypeOK
  <2>2. f \in [1..Len(userTrees) -> 1..Len(userTrees)]
    BY <2>1
  <2>3. ASSUME NEW j \in 1..Len(userTrees) PROVE userTrees'[j] = userTrees[f[j]]
    <3>1. f[j] = g(j) /\ i \in 1..Len(userTrees)
      OBVIOUS
    <3>2. CASE j = 1
      BY <1>9, <3>1, <3>2
    <3>3. CASE j # 1
      <4>1. ASSUME NEW m, m = j - 1
            PROVE  /\ m \in 1..(Len(userTrees) - 1) /\ m + 1 = j
                   /\ m < i => f[j] = m /\ q[m] = userTrees[m]
                   /\ m >= i => f[j] = j /\ q[m] = userTrees[j]
        BY <1>8, <2>1, <3>1, <3>3, <4>1
      <4>2. userTrees'[j] = q[j - 1]
        BY <1>9, <2>1, <3>3
      <4>3. j - 1 < i \/ j - 1 >= i
        BY <2>1
      <4> QED
        BY <4>1, <4>2, <4>3
    <3> QED
      BY <3>2, <3>3
  <2>4. ASSUME NEW j \in 1..Len(userTrees), NEW k \in 1..Len(userTrees), f[j] = f[k] PROVE j = k
    <3>1. g(j) = g(k) /\ i \in Nat /\ j \in Nat /\ k \in Nat /\ j >= 1 /\ k >= 1 /\ i >= 1
      BY <2>1, <2>4
    <3>2. CASE j = 1 \/ k = 1
      BY <3>1, <3>2
    <3>3. CASE j # 1 /\ k # 1
      BY <3>1, <3>3
    <3> QED
      BY <3>2, <3>3
  <2>5. ASSUME NEW k \in 1..Len(userTrees) PROVE \E j \in 1..Len(userTrees) : f[j] = k
    <3>1. CASE k = i
      BY <2>1, <3>1
    <3>2. CASE k < i
      <4>1. k + 1 \in 1..Len(userTrees) /\ f[k + 1] = k
        BY <2>1, <3>2
      <4> QED
        BY <4>1
    <3>3. CASE k > i
      <4>1. f[k] = k
        BY <2>1, <3>3
      <4> QED
        BY <4>1
    <3> QED
      BY <2>1, <3>1, <3>2, <3>3
  <2> HIDE DEF f
  <2> QED
    BY <2>2, <2>3, <2>4, <2>5, Zenon
<1>11. PICK f \in [1..Len(userTrees) -> 1..Len(userTrees)] :
           /\ \A j \in 1..Len(userTrees) : userTrees'[j] = userTrees[f[j]]
           /\ \A j, k \in 1..Len(userTrees) : f[j] = f[k] => j = k
           /\ \A k \in 1..Len(userTrees) : \E j \in 1..Len(userTrees) : f[j] = k
  BY <1>10, Zenon
<1>12. TypeOK'
  BY <1>1, <1>3, <1>5, <1>6, <1>9 DEF TypeOK
<1>13. ASSUME NEW j \in 1..Len(userTrees)'
       PROVE  f[j] \in 1..Len(userTrees) /\ userTrees'[j] = userTrees[f[j]]
  BY <1>9, <1>11, Zenon
<1>14. ASSUME NEW u, Absent(u) PROVE Absent(u)'
  BY <1>3, <1>13, <1>14 DEF Absent
<1>15. ASSUME NEW t PROVE Uncached(t)' <=> Uncached(t)
  <2>1. Uncached(t) => Uncached(t)'
    BY <1>13 DEF Uncached
  <2>2. ASSUME Uncached(t)', NEW k \in 1..Len(userTrees) PROVE userTrees[k] # t
    <3>1. PICK j \in 1..Len(userTrees) : f[j] = k
      BY <1>11
    <3>2. j \in 1..Len(userTrees)' /\ userTrees'[j] = userTrees[k]
      BY <1>9, <1>11, <3>1, Zenon
    <3> QED
      BY <2>2, <3>2 DEF Uncached
  <2> QED
    BY <2>1, <2>2 DEF Uncached
<1>16. TreesOK'
  <2>1. ASSUME NEW j \in 1..Len(userTrees)', NEW k \in 1..Len(userTrees)',
               tree[userTrees'[j]].user = tree[userTrees'[k]].user
        PROVE  j = k
    <3>1. /\ f[j] \in 1..Len(userTrees) /\ f[k] \in 1..Len(userTrees)
          /\ tree[userTrees[f[j]]].user = tree[userTrees[f[k]]].user
      BY <1>13, <2>1, Zenon
    <3>2. f[j] = f[k]
      BY <1>1, <3>1, Zenon DEF TreesOK, OneEach
    <3> QED
      BY <1>9, <1>11, <3>2
  <2>2. ASSUME NEW j \in 1..Len(userTrees)'
        PROVE  userTrees'[j] \in 1..Len(tree) /\ tree[userTrees'[j]].open
    <3>1. f[j] \in 1..Len(userTrees) /\ userTrees'[j] = userTrees[f[j]]
      BY <1>13, <2>2
    <3>2. userTrees[f[j]] \in 1..Len(tree) /\ tree[userTrees[f[j]]].open
      BY <1>1, <3>1, Zenon DEF TreesOK, AllOpen
    <3> QED
      BY <3>1, <3>2, Zenon
  <2>3. ASSUME NEW x \in Session PROVE call'[x].tree \in 0..Len(tree)
    <3>1. n.tree \in 0..Len(tree)
      BY <1>1, <1>4, <1>5 DEF TypeOK
    <3> QED
      BY <1>1, <1>7, <3>1 DEF TreesOK, Known
  <2>4. OneEach'
    BY <1>3, <2>1 DEF OneEach
  <2>5. AllOpen'
    BY <1>3, <2>2 DEF AllOpen
  <2>6. Counted' /\ Known'
    BY <1>1, <1>3, <2>3 DEF TreesOK, Counted, Known
  <2> QED
    BY <2>4, <2>5, <2>6 DEF TreesOK
<1>17. ~Uncached(userTrees[i]) /\ userTrees[i] # NoTree
  BY <1>4 DEF Uncached, NoTree
<1>18. CallOK(s)'
  BY <1>5, <1>7, <1>17 DEF CallOK
<1>19. \A t : InHand(t) => InHand(t)'
  BY <1>3, <1>7 DEF InHand
<1>20. Roomy' = Roomy /\ userLock' = userLock
  BY DEF Roomy, Shutdown, userLock, LoadCached
<1>21. Roomy => WriterOK(s)'
  <2>1. Roomy => (call[s].op # "Use" => call[s].user = UserOf[s])
    BY <1>1 DEF WritersOK, WriterOK
  <2>2. PICK t : t = userTrees[i]
    OBVIOUS
  <2>3. ~Uncached(t)' /\ call'[s].tree = t
    BY <1>5, <1>7, <1>15, <1>17, <2>2
  <2> QED
    BY <1>5, <1>7, <2>1, <2>3, Zenon DEF WriterOK
<1>22. Apart(s)
  <2>1. ASSUME NEW x \in Session \ {s} PROVE LocksKept(x)
    BY <1>3, <1>14 DEF LocksKept
  <2>2. ASSUME NEW x \in Session \ {s} PROVE TreeKept(s, x)
    BY <1>3, <1>5, <1>7, <1>15, <1>17 DEF TreeKept
  <2>3. ASSUME NEW x \in Session \ {s} PROVE TreeFound(x)
    BY <1>3, <1>7, <1>15, <1>19, Zenon DEF TreeFound
  <2> QED
    BY <1>7, <1>20, <2>1, <2>2, <2>3 DEF Apart
<1> QED
  BY <1>12, <1>16, <1>18, <1>20, <1>21, <1>22, ApartInv

\* The cache has no tree of the user, and the lock is taken.
LEMMA LoadMissInv ==
    ASSUME DirTreesAssumption, Inv, UNCHANGED setting, NEW s \in Session, LoadMiss(s)
    PROVE  Inv'
<1> DEFINE n == [call[s] EXCEPT !.pc = "logs"]
<1>1. TypeOK /\ TreesOK /\ WritersOK
  BY DEF Inv
<1>2. call[s].pc = "load" /\ call[s] \in Calls
  BY <1>1 DEF LoadMiss, TypeOK
<1>3. n \in Calls /\ n.pc = "logs" /\ n.op = call[s].op /\ n.user = call[s].user /\ n.tree = call[s].tree
  BY <1>2 DEF Calls, Pcs
<1>4. /\ call' = [call EXCEPT ![s] = n] /\ UNCHANGED <<iter, userTrees, tree, logs, closes, evicted>>
      /\ holder[userLock[call[s].user]] = NoSession
      /\ holder' = [holder EXCEPT ![userLock[call[s].user]] = s]
  BY <1>1 DEF LoadMiss, Goto, Acquire, TypeOK
<1> HIDE DEF n
<1>5. /\ holder' \in [Lock -> Session \cup {NoSession}] /\ holder'[userLock[call[s].user]] = s
      /\ \A l \in Lock : holder[l] \notin {s, NoSession} => holder'[l] = holder[l]
  <2>1. call[s].user \in User
    BY <1>2 DEF Calls
  <2>2. s \in {s, NoSession} /\ holder[userLock[call[s].user]] \in {s, NoSession}
    BY <1>4
  <2> QED
    BY <1>4, <2>1, <2>2, OneLock, Zenon
<1>6. Absent(call[s].user)
  BY <1>1 DEF LoadMiss, Place, Absent, TypeOK
<1>7. Roomy => (call[s].op # "Use" => call[s].user = UserOf[s])
  BY <1>1 DEF WritersOK, WriterOK
<1>8. Quiet(s, n)
  BY <1>1, <1>2, <1>3, <1>4, <1>5, <1>6, <1>7, Zenon DEF Quiet, TypeOK, TreesOK, Known
<1> QED
  BY <1>8, QuietInv

\* A call is over, and the lock that the session has is released.
LEMMA EndInv ==
    ASSUME DirTreesAssumption, Inv, UNCHANGED setting, NEW s \in Session, LoadNone(s) \/ NewTreeFails(s)
    PROVE  Inv'
<1>1. TypeOK /\ TreesOK /\ CallOK(s)
  BY DEF Inv, CallsOK
<1>2. call[s].pc \in {"logs", "new"} /\ call[s] \in Calls
  BY <1>1 DEF LoadNone, NewTreeFails, TypeOK
<1>3. /\ call' = [call EXCEPT ![s] = Resting] /\ UNCHANGED <<iter, userTrees, tree, logs, closes, evicted>>
      /\ holder' = [holder EXCEPT ![userLock[call[s].user]] = NoSession]
  BY DEF LoadNone, NewTreeFails, Release
<1>4. /\ holder' \in [Lock -> Session \cup {NoSession}]
      /\ \A l \in Lock : holder[l] \notin {s, NoSession} => holder'[l] = holder[l]
  <2>1. call[s].user \in User /\ holder[userLock[call[s].user]] = s
    BY <1>1, <1>2 DEF Calls, CallOK
  <2>2. NoSession \in {s, NoSession} /\ holder[userLock[call[s].user]] \in {s, NoSession}
    BY <2>1
  <2> QED
    BY <1>3, <2>1, <2>2, OneLock, Zenon
<1>5. Resting \in Calls /\ Resting.pc = "idle" /\ Resting.op = "Use" /\ Resting.tree = NoTree
  BY <1>1, IdleCall
<1>6. Quiet(s, Resting)
  BY <1>1, <1>2, <1>3, <1>4, <1>5, Zenon DEF Quiet, TypeOK, TreesOK, Known
<1> QED
  BY <1>6, QuietInv

\* The logs of the user are opened: a new tree, which is not cached yet.
LEMMA NewLogsInv ==
    ASSUME DirTreesAssumption, Inv, UNCHANGED setting, NEW s \in Session, NewLogs(s)
    PROVE  Inv'
<1>0. PICK k : k = Len(tree) + 1
  OBVIOUS
<1> DEFINE n == Moved(call[s], "new", k)
           e == [user |-> call[s].user, open |-> TRUE]
<1>1. TypeOK /\ TreesOK /\ CallsOK /\ WritersOK /\ CallOK(s)
  BY DEF Inv, CallsOK
<1>2. call[s].pc = "logs" /\ call[s] \in Calls /\ Len(tree) \in Nat /\ k \in Nat /\ k > 0
  <2>1. call[s].pc = "logs"
    BY DEF NewLogs
  <2>2. call[s] \in Calls
    BY <1>1 DEF TypeOK
  <2>3. Len(tree) \in Nat
    BY <1>1, SeqShape DEF TypeOK
  <2> QED
    BY <1>0, <2>1, <2>2, <2>3
<1>3. /\ n \in Calls /\ n.pc = "new" /\ n.op = call[s].op /\ n.user = call[s].user /\ n.tree = k
      /\ e \in [user : User, open : BOOLEAN] /\ e.user = call[s].user /\ e.open = TRUE
  <2>1. call[s].user \in User /\ call[s] = [pc |-> call[s].pc, op |-> call[s].op, user |-> call[s].user, tree |-> call[s].tree]
    BY <1>2 DEF Calls
  <2>2. e \in [user : User, open : BOOLEAN] /\ e.user = call[s].user /\ e.open = TRUE
    BY <2>1
  <2>3. n \in Calls /\ n.pc = "new" /\ n.op = call[s].op /\ n.user = call[s].user /\ n.tree = k
    <3>1. "new" \in Pcs
      BY DEF Pcs
    <3>2. n = Moved(call[s], "new", k)
      OBVIOUS
    <3> HIDE DEF n
    <3> QED
      BY <1>2, <3>1, <3>2, CallMoves
  <2> QED
    BY <2>2, <2>3
<1>4. /\ call' = [call EXCEPT ![s] = n] /\ UNCHANGED <<setting, iter, userTrees, holder>>
      /\ logs' = [logs EXCEPT ![call[s].user] = TRUE]
      /\ tree' = Append(tree, e) /\ closes' = Append(closes, 0)
  <2>1. call' = [call EXCEPT ![s] = n]
    BY <1>0 DEF NewLogs, GotoWith
  <2> HIDE DEF n
  <2> QED
    BY <2>1 DEF NewLogs
<1> HIDE DEF n, e
<1>5. call'[s] = n /\ \A r \in Session \ {s} : call'[r] = call[r]
  BY <1>1, <1>4 DEF TypeOK
<1>6. /\ tree' \in Seq([user : User, open : BOOLEAN]) /\ Len(tree') = k /\ tree'[k] = e
      /\ \A t \in 1..Len(tree) : tree'[t] = tree[t]
      /\ closes' \in Seq(Nat) /\ Len(closes') = k /\ closes'[k] = 0
      /\ \A t \in 1..Len(tree) : closes'[t] = closes[t]
  BY <1>0, <1>1, <1>3, <1>4, AppendShape DEF TypeOK, TreesOK, Counted
<1>7. k \notin 1..Len(tree) /\ \A t \in 1..k : t \in 1..Len(tree) \/ t = k
  BY <1>0, <1>2
<1>8. TypeOK'
  BY <1>1, <1>3, <1>4, <1>6 DEF TypeOK
<1>9. UNCHANGED userLock
  BY DEF userLock
<1>10. \A r \in Session : call[r].tree = NoTree \/ call[r].tree \in 1..Len(tree)
  BY <1>1, <1>2 DEF TreesOK, Known, NoTree
<1>11. \A i \in 1..Len(userTrees) : userTrees[i] \in 1..Len(tree)
  BY <1>1 DEF TreesOK, AllOpen
<1>12. ASSUME NEW u PROVE Absent(u)' <=> Absent(u)
  <2>1. \A i \in 1..Len(userTrees) : tree'[userTrees[i]] = tree[userTrees[i]]
    BY <1>6, <1>11
  <2>2. userTrees' = userTrees
    BY <1>4
  <2> QED
    BY <2>1, <2>2 DEF Absent
<1>13. \A t : Uncached(t)' <=> Uncached(t)
  BY <1>4 DEF Uncached
<1>14. Uncached(k)
  BY <1>7, <1>11 DEF Uncached
<1>15. TreesOK'
  <2>1. \A t \in 1..k : closes'[t] = IF tree'[t].open THEN 0 ELSE 1
    BY <1>1, <1>3, <1>6, <1>7 DEF TreesOK, Counted
  <2>2. ASSUME NEW i \in 1..Len(userTrees) PROVE tree'[userTrees[i]] = tree[userTrees[i]]
    <3>1. \A t \in 1..Len(tree) : tree'[t] = tree[t]
      BY <1>6, Zenon
    <3> QED
      BY <1>11, <3>1, Zenon
  <2>3. ASSUME NEW i \in 1..Len(userTrees) PROVE userTrees[i] \in 1..k
    BY <1>0, <1>2, <1>11
  <2>4. iter \in 0..k /\ \A x \in Session : call'[x].tree \in 0..k
    BY <1>0, <1>1, <1>2, <1>3, <1>5 DEF TreesOK, Known
  <2>5. OneEach'
    <3>1. OneEach /\ userTrees' = userTrees
      BY <1>1, <1>4 DEF TreesOK
    <3> QED
      BY <2>2, <3>1, Zenon DEF OneEach
  <2>6. Len(tree') = k /\ Len(closes') = k
    BY <1>6
  <2>7. Counted'
    BY <2>1, <2>6 DEF Counted
  <2>8. AllOpen'
    <3>1. AllOpen /\ userTrees' = userTrees
      BY <1>1, <1>4 DEF TreesOK
    <3> QED
      BY <2>2, <2>3, <2>6, <3>1, Zenon DEF AllOpen
  <2>9. Known'
    BY <1>4, <2>4, <2>6 DEF Known
  <2> QED
    BY <2>5, <2>7, <2>8, <2>9 DEF TreesOK
<1>16. CallOK(s)'
  <2>1. holder[userLock[call[s].user]] = s /\ Absent(call[s].user)
    BY <1>1, <1>2 DEF CallOK
  <2>2. PICK w : w = n.user
    OBVIOUS
  <2>3. holder'[userLock'[w]] = s /\ Absent(w)'
    <3>1. holder' = holder /\ userLock' = userLock /\ w = call[s].user
      BY <1>3, <1>4, <1>9, <2>2
    <3> QED
      BY <1>12, <2>1, <3>1, Zenon
  <2>4. \A r \in Session \ {s} : call'[r].tree # k
    BY <1>2, <1>5, <1>7, <1>10 DEF NoTree
  <2>5. k # NoTree /\ tree'[k].user = n.user /\ tree'[k].open
    BY <1>2, <1>3, <1>6 DEF NoTree
  <2>6. Uncached(k)'
    BY <1>13, <1>14
  <2>7. call'[s] = n /\ n.pc = "new" /\ n.tree = k
    BY <1>3, <1>5
  <2> QED
    BY <2>2, <2>3, <2>4, <2>5, <2>6, <2>7 DEF CallOK
<1>17. Roomy' = Roomy
  BY DEF Roomy, Shutdown, NewLogs
<1>18. Roomy => WriterOK(s)'
  <2>1. Roomy => (call[s].op # "Use" => call[s].user = UserOf[s])
    BY <1>1 DEF WritersOK, WriterOK
  <2>2. InHand(k)'
    BY <1>3, <1>5 DEF InHand
  <2> QED
    BY <1>3, <1>5, <2>1, <2>2 DEF WriterOK
<1>19. ASSUME NEW x \in Session \ {s}, call[x].tree # NoTree
       PROVE  tree'[call[x].tree] = tree[call[x].tree] /\ call[x].tree # k
  BY <1>6, <1>7, <1>10, <1>19
<1>20. Apart(s)
  <2>1. ASSUME NEW x \in Session \ {s} PROVE LocksKept(x)
    BY <1>4, <1>12 DEF LocksKept
  <2>2. ASSUME NEW x \in Session \ {s} PROVE TreeKept(s, x)
    BY <1>3, <1>5, <1>13, <1>19, Zenon DEF TreeKept
  <2>3. \A t : InHand(t) => InHand(t)'
    BY <1>2, <1>4, <1>5 DEF InHand
  <2>4. ASSUME NEW x \in Session \ {s} PROVE TreeFound(x)
    BY <1>5, <1>13, <1>19, <2>3 DEF TreeFound
  <2> QED
    BY <1>5, <1>9, <1>17, <2>1, <2>2, <2>4 DEF Apart
<1> QED
  BY <1>8, <1>15, <1>16, <1>17, <1>18, <1>20, ApartInv

\* A tree is used, and its root perhaps deleted.
LEMMA UseInv ==
    ASSUME DirTreesAssumption, Inv, UNCHANGED setting, NEW s \in Session, Use(s)
    PROVE  Inv'
<1>1. TypeOK /\ TreesOK /\ CallsOK /\ WritersOK /\ CallOK(s)
  BY DEF Inv, CallsOK
<1>2. call[s].pc = "use" /\ call[s] \in Calls
  BY <1>1 DEF Use, TypeOK
<1> DEFINE n == call'[s]
<1>3. /\ n \in Calls /\ call' = [call EXCEPT ![s] = n]
      /\ \/ n.pc = "idle" /\ n.op = "Use" /\ n.tree = NoTree
         \/ n.pc = "close" /\ n.op = call[s].op /\ n.op # "Use" /\ n.user = call[s].user /\ n.tree = call[s].tree
  <2>1. CASE call' = [call EXCEPT ![s] = Resting]
    <3>1. n = Resting
      BY <1>1, <2>1 DEF TypeOK
    <3> HIDE DEF n
    <3> QED
      BY <1>1, <2>1, <3>1, IdleCall
  <2>2. CASE call[s].op = "Delete" /\ Goto(s, "close")
    <3> DEFINE m == [call[s] EXCEPT !.pc = "close"]
    <3>1. m \in Calls /\ m.pc = "close" /\ m.op = call[s].op /\ m.op # "Use" /\ m.user = call[s].user /\ m.tree = call[s].tree
      BY <1>2, <2>2 DEF Calls, Pcs
    <3>2. call' = [call EXCEPT ![s] = m]
      BY <1>1, <2>2 DEF Goto, TypeOK
    <3> HIDE DEF m
    <3>3. n = m
      BY <1>1, <3>2 DEF TypeOK
    <3> HIDE DEF n
    <3> QED
      BY <3>1, <3>2, <3>3
  <2> QED
    BY <2>1, <2>2 DEF Use
<1>4. UNCHANGED <<setting, iter, userTrees, tree, logs, holder, closes, evicted>>
  BY DEF Use
<1> HIDE DEF n
<1>5. Roomy => (n.op # "Use" => n.user = UserOf[s])
  BY <1>1, <1>3, Zenon DEF WritersOK, WriterOK
<1>6. Quiet(s, n)
  BY <1>1, <1>2, <1>3, <1>4, <1>5, Zenon DEF Quiet, TypeOK, TreesOK, Known
<1> QED
  BY <1>6, QuietInv

\* The logs of a tree that was closed are deleted.
LEMMA DeleteLogsInv ==
    ASSUME DirTreesAssumption, Inv, UNCHANGED setting, NEW s \in Session, DeleteLogs(s)
    PROVE  Inv'
<1>1. TypeOK /\ TreesOK
  BY DEF Inv
<1>2. call[s].pc = "logless"
  BY DEF DeleteLogs
<1>3. call' = [call EXCEPT ![s] = Resting] /\ UNCHANGED <<iter, userTrees, tree, holder, closes, evicted>>
  BY DEF DeleteLogs
<1>4. logs' \in [User -> BOOLEAN]
  <2>1. logs \in [User -> BOOLEAN] /\ logs' = [logs EXCEPT ![call[s].user] = FALSE]
    BY <1>1 DEF DeleteLogs, TypeOK
  <2> QED
    BY <2>1, Zenon
<1>5. Resting \in Calls /\ Resting.pc = "idle" /\ Resting.op = "Use" /\ Resting.tree = NoTree
  BY <1>1, IdleCall
<1>6. Quiet(s, Resting)
  BY <1>1, <1>2, <1>3, <1>4, <1>5, Zenon DEF Quiet, TypeOK, TreesOK, Known
<1> QED
  BY <1>6, QuietInv

\* The server begins to shut down.
LEMMA ShutdownBeginInv ==
    ASSUME DirTreesAssumption, Inv, UNCHANGED setting, ShutdownBegin
    PROVE  Inv'
<1>1. TypeOK /\ TreesOK /\ CallsOK /\ Shutdown \in Session /\ CallOK(Shutdown)
  BY SettingFacts DEF Inv, CallsOK, ShutdownBegin, TypeOK
<1>2. call[Shutdown].pc = "idle" /\ call[Shutdown] \in Calls
  BY <1>1 DEF ShutdownBegin, TypeOK
<1> DEFINE n == call'[Shutdown]
<1>3. /\ n \in Calls /\ call' = [call EXCEPT ![Shutdown] = n]
      /\ n.pc \in {"idle", "close", "next"} /\ n.tree = call[Shutdown].tree
  <2> DEFINE k == [call[Shutdown] EXCEPT !.pc = "next", !.op = "Close"]
  <2>1. k \in Calls /\ k.pc = "next" /\ k.tree = call[Shutdown].tree
    <3> DEFINE m == [call[Shutdown] EXCEPT !.pc = "next"]
    <3>1. m \in Calls /\ m.pc = "next" /\ m.tree = call[Shutdown].tree
      BY <1>2 DEF Calls, Pcs
    <3>2. k = [m EXCEPT !.op = "Close"]
      OBVIOUS
    <3> HIDE DEF m, k
    <3> QED
      BY <3>1, <3>2 DEF Calls
  <2>2. call' = [call EXCEPT ![Shutdown] = k]
    BY DEF ShutdownBegin
  <2> HIDE DEF k
  <2>3. n = k
    BY <1>1, <2>2 DEF TypeOK
  <2> HIDE DEF n
  <2> QED
    BY <2>1, <2>2, <2>3
<1>4. UNCHANGED <<setting, userTrees, tree, logs, holder, closes, evicted>> /\ iter' \in 0..Len(tree)
  <2>1. UNCHANGED <<setting, userTrees, tree, logs, holder, closes, evicted>>
    BY DEF ShutdownBegin
  <2>2. iter' = NoTree \/ (userTrees # << >> /\ iter' = userTrees[1])
    BY DEF ShutdownBegin
  <2>3. userTrees # << >> => 1 \in 1..Len(userTrees)
    BY <1>1, SeqShape DEF TypeOK
  <2> QED
    BY <1>1, <2>1, <2>2, <2>3, SeqShape DEF TreesOK, AllOpen, TypeOK, NoTree
<1> HIDE DEF n
<1>5. ~Roomy
  BY <1>1, SettingFacts DEF Roomy
<1>6. Quiet(Shutdown, n)
  BY <1>1, <1>2, <1>3, <1>4, <1>5 DEF Quiet, TypeOK
<1> QED
  BY <1>1, <1>6, QuietInv

\* The shutdown goes on to the next tree, or ends.
LEMMA ShutdownNextInv ==
    ASSUME DirTreesAssumption, Inv, UNCHANGED setting, ShutdownNext
    PROVE  Inv'
<1>1. TypeOK /\ TreesOK /\ CallsOK /\ Shutdown \in Session /\ CallOK(Shutdown)
  <2>1. TypeOK /\ TreesOK /\ CallsOK
    BY DEF Inv
  <2>2. Shutdown \in Session
    BY <2>1, SettingFacts DEF ShutdownNext, TypeOK
  <2> QED
    BY <2>1, <2>2 DEF CallsOK
<1>2. call[Shutdown].pc = "next" /\ call[Shutdown] \in Calls
  BY <1>1 DEF ShutdownNext, TypeOK
<1> DEFINE n == call'[Shutdown]
<1>3. /\ n \in Calls /\ call' = [call EXCEPT ![Shutdown] = n]
      /\ n.pc \in {"idle", "close", "next"} /\ n.tree = call[Shutdown].tree
  <2>1. CASE Goto(Shutdown, "idle")
    <3> DEFINE k == [call[Shutdown] EXCEPT !.pc = "idle"]
    <3>1. k \in Calls /\ k.pc = "idle" /\ k.tree = call[Shutdown].tree
      BY <1>2 DEF Calls, Pcs
    <3>2. call' = [call EXCEPT ![Shutdown] = k]
      BY <1>1, <2>1 DEF Goto, TypeOK
    <3> HIDE DEF k
    <3>3. n = k
      BY <1>1, <3>2 DEF TypeOK
    <3> HIDE DEF n
    <3> QED
      BY <3>1, <3>2, <3>3
  <2>2. CASE iter # NoTree /\ call' = [call EXCEPT ![Shutdown] = [@ EXCEPT !.pc = "close", !.user = tree[iter].user]]
    <3> DEFINE m == [call[Shutdown] EXCEPT !.pc = "close"]
               k == [m EXCEPT !.user = tree[iter].user]
    <3>1. m \in Calls /\ m.pc = "close" /\ m.tree = call[Shutdown].tree
      BY <1>2 DEF Calls, Pcs
    <3>2. tree[iter].user \in User
      <4>1. iter \in 1..Len(tree)
        BY <1>1, <2>2, SeqShape DEF TypeOK, TreesOK, Known, NoTree
      <4>2. tree \in Seq([user : User, open : BOOLEAN])
        BY <1>1 DEF TypeOK
      <4>3. tree[iter] \in [user : User, open : BOOLEAN]
        BY <4>1, <4>2, SeqElement, Zenon
      <4> QED
        BY <4>3
    <3>3. call' = [call EXCEPT ![Shutdown] = k]
      BY <2>2
    <3> HIDE DEF m
    <3>4. k \in Calls /\ k.pc = "close" /\ k.tree = call[Shutdown].tree
      BY <3>1, <3>2 DEF Calls
    <3> HIDE DEF k
    <3>5. n = k
      BY <1>1, <3>3 DEF TypeOK
    <3> HIDE DEF n
    <3> QED
      BY <3>3, <3>4, <3>5
  <2> QED
    BY <2>1, <2>2 DEF ShutdownNext
<1>4. UNCHANGED <<setting, userTrees, tree, logs, holder, closes, evicted>> /\ iter' \in 0..Len(tree)
  <2>1. UNCHANGED <<setting, userTrees, tree, logs, holder, closes, evicted>>
    BY DEF ShutdownNext
  <2>2. CASE UNCHANGED iter
    BY <1>1, <2>1, <2>2 DEF TreesOK, Known
  <2>3. CASE iter' = NoTree
    BY <1>1, <2>1, <2>3, SeqShape DEF TypeOK, NoTree
  <2>4. ASSUME NEW i \in 1..(Len(userTrees) - 1), iter' = userTrees[i + 1] PROVE iter' \in 0..Len(tree)
    <3>1. i + 1 \in 1..Len(userTrees)
      BY <1>1, SeqShape DEF TypeOK
    <3> QED
      BY <1>1, <2>4, <3>1 DEF TreesOK, AllOpen
  <2> QED
    BY <2>1, <2>2, <2>3, <2>4 DEF ShutdownNext
<1> HIDE DEF n
<1>5. ~Roomy
  BY <1>1, SettingFacts DEF Roomy
<1>6. Quiet(Shutdown, n)
  BY <1>1, <1>2, <1>3, <1>4, <1>5, Zenon DEF Quiet, TypeOK
<1> QED
  BY <1>1, <1>6, QuietInv

=============================================================================
