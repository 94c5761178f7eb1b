--------------------------- MODULE DirTreesProofs ---------------------------
(***************************************************************************)
(* The rest of the argument of DirTreesLoadProofs: the steps that make and *)
(* close trees, and the theorem.                                           *)
(***************************************************************************)
EXTENDS DirTreesLoadProofs

\* What a tree is when it has been closed.
LEMMA ClosedTree ==
    ASSUME NEW r \in [user : User, open : BOOLEAN]
    PROVE  LET e == [r EXCEPT !.open = FALSE]
           IN  e \in [user : User, open : BOOLEAN] /\ e.user = r.user /\ e.open = FALSE
<1>1. [r EXCEPT !.open = FALSE] \in [user : User, open : BOOLEAN]
  BY Zenon
<1>2. [r EXCEPT !.open = FALSE].user = r.user /\ [r EXCEPT !.open = FALSE].open = FALSE
  OBVIOUS
<1> QED
  BY <1>1, <1>2, Zenon

\* A tree that was removed is closed: nobody else has it to close.
LEMMA CloseTreeInv ==
    ASSUME DirTreesAssumption, Inv, UNCHANGED setting, NEW s \in Session, CloseTree(s)
    PROVE  Inv'
<1>0. PICK t : t = call[s].tree
  OBVIOUS
<1> DEFINE n == call'[s]
<1>1. TypeOK /\ TreesOK /\ CallsOK /\ WritersOK /\ CallOK(s)
  BY DEF Inv, CallsOK
<1>2. call[s].pc = "closing" /\ call[s] \in Calls /\ Len(tree) \in Nat /\ t \in 0..Len(tree)
  BY <1>0, <1>1, SeqShape DEF CloseTree, TypeOK, TreesOK, Known
<1>3. /\ n \in Calls /\ call' = [call EXCEPT ![s] = n]
      /\ \/ n.pc = "idle" /\ n.op = "Use" /\ n.tree = NoTree
         \/ n.pc = "logless" /\ n.op = call[s].op /\ n.user = call[s].user /\ n.tree = t
         \/ n.pc = "next" /\ n.tree = t /\ s = Shutdown
  <2>1. CASE call' = [call EXCEPT ![s] = Resting]
    <3>1. n = Resting
      BY <1>1, <2>1 DEF TypeOK
    <3> HIDE DEF n
    <3> QED
      BY <1>1, <2>1, <3>1, IdleCall
  <2>2. ASSUME NEW pc \in {"logless", "next"}, Goto(s, pc)
        PROVE  /\ n \in Calls /\ call' = [call EXCEPT ![s] = n]
               /\ n.pc = pc /\ n.op = call[s].op /\ n.user = call[s].user /\ n.tree = t
    <3> DEFINE m == [call[s] EXCEPT !.pc = pc]
    <3>1. m \in Calls /\ m.pc = pc /\ m.op = call[s].op /\ m.user = call[s].user /\ m.tree = t
      BY <1>0, <1>2 DEF Calls, Pcs
    <3>2. call' = [call EXCEPT ![s] = m]
      BY <1>1, <2>2 DEF Goto, TypeOK
    <3> HIDE DEF m
    <3>3. n = m
      BY <1>1, <3>2 DEF TypeOK
    <3> HIDE DEF n
    <3> QED
      BY <3>1, <3>2, <3>3
  <2>3. \/ call' = [call EXCEPT ![s] = Resting]
        \/ Goto(s, "logless")
        \/ s = Shutdown /\ Goto(s, "next")
    BY DEF CloseTree
  <2> HIDE DEF n
  <2> QED
    BY <2>1, <2>2, <2>3
<1>4. /\ UNCHANGED <<setting, iter, userTrees, logs>> /\ UNCHANGED userLock
      /\ holder' = [holder EXCEPT ![userLock[UserOf[s]]] = NoSession]
  BY DEF CloseTree, Release, userLock
<1>5. call'[s] = n /\ \A r \in Session \ {s} : call'[r] = call[r]
  BY <1>1, <1>3 DEF TypeOK
<1> HIDE DEF n
<1>6. /\ holder[userLock[UserOf[s]]] = s
      /\ \A l \in Lock : l # userLock[UserOf[s]] => holder'[l] = holder[l]
      /\ \A u \in User : userLock[u] \in Lock
  BY <1>1, <1>2, <1>4, SettingFacts DEF CallOK, TypeOK, userLock
<1>7. /\ tree' \in Seq([user : User, open : BOOLEAN]) /\ closes' \in Seq(Nat)
      /\ Len(tree') = Len(tree) /\ Len(closes') = Len(closes)
      /\ \A k \in 1..Len(tree) : k # t => tree'[k] = tree[k] /\ closes'[k] = closes[k]
      /\ t # NoTree => tree'[t].user = tree[t].user /\ tree'[t].open = FALSE /\ closes'[t] = closes[t] + 1
  <2>1. CASE t = NoTree
    BY <1>0, <1>1, <2>1 DEF CloseTree, TypeOK
  <2>2. CASE t # NoTree
    <3> DEFINE e == [tree[t] EXCEPT !.open = FALSE]
    <3>0. Len(closes) = Len(tree)
      BY <1>1 DEF TreesOK, Counted
    <3>1. t \in 1..Len(tree) /\ t \in 1..Len(closes)
      BY <1>2, <2>2, <3>0 DEF NoTree
    <3>2. tree \in Seq([user : User, open : BOOLEAN]) /\ closes \in Seq(Nat)
      BY <1>1 DEF TypeOK
    <3>3. tree[t] \in [user : User, open : BOOLEAN] /\ closes[t] \in Nat
      BY <3>1, <3>2, SeqElement, Zenon
    <3>4. e \in [user : User, open : BOOLEAN] /\ e.user = tree[t].user /\ e.open = FALSE
      BY <3>3, ClosedTree, Zenon
    <3>5. tree' = [tree EXCEPT ![t] = e] /\ closes' = [closes EXCEPT ![t] = closes[t] + 1]
      BY <1>0, <2>2, <3>1, <3>2 DEF CloseTree
    <3> HIDE DEF e
    <3>6. /\ tree' \in Seq([user : User, open : BOOLEAN]) /\ Len(tree') = Len(tree) /\ tree'[t] = e
          /\ \A k \in 1..Len(tree) : k # t => tree'[k] = tree[k]
      BY <3>1, <3>2, <3>4, <3>5, ExceptShape
    <3>7. /\ closes' \in Seq(Nat) /\ Len(closes') = Len(closes) /\ closes'[t] = closes[t] + 1
          /\ \A k \in 1..Len(closes) : k # t => closes'[k] = closes[k]
      BY <3>1, <3>2, <3>3, <3>5, ExceptShape
    <3> QED
      BY <1>1, <3>4, <3>6, <3>7 DEF TreesOK, Counted
  <2> QED
    BY <2>1, <2>2, Zenon
<1>8. t # NoTree => tree[t].open /\ Uncached(t)
  BY <1>0, <1>1, <1>2 DEF CallOK
<1>9. /\ \A k \in 1..Len(tree) : tree'[k].user = tree[k].user /\ (tree'[k].open => tree[k].open /\ k # t)
      /\ \A k \in 1..Len(tree) : k # t => tree'[k].open = tree[k].open
  BY <1>7, <1>8 DEF NoTree
<1>10. \A i \in 1..Len(userTrees) : userTrees[i] \in 1..Len(tree) /\ userTrees[i] # t
  BY <1>1, <1>8 DEF TreesOK, AllOpen, Uncached, NoTree
<1>11. /\ \A u : Absent(u)' <=> Absent(u)
       /\ \A k : Uncached(k)' <=> Uncached(k)
  <2>1. ASSUME NEW i \in 1..Len(userTrees) PROVE tree'[userTrees[i]].user = tree[userTrees[i]].user
    BY <1>9, <1>10
  <2>2. userTrees' = userTrees
    BY <1>4
  <2>3. \A u : Absent(u)' <=> Absent(u)
    BY <2>1, <2>2 DEF Absent
  <2> QED
    BY <2>2, <2>3 DEF Uncached
<1>12. \A r \in Session : call[r].tree \in 0..Len(tree)
  BY <1>1 DEF TreesOK, Known
<1>13. TypeOK'
  <2>1. holder' \in [Lock -> Session \cup {NoSession}]
    <3>1. holder \in [Lock -> Session \cup {NoSession}]
      BY <1>1 DEF TypeOK
    <3> QED
      BY <1>4, <3>1, Zenon
  <2>2. call' \in [Session -> Calls]
    BY <1>1, <1>3 DEF TypeOK
  <2> QED
    BY <1>1, <1>4, <1>7, <2>1, <2>2 DEF TypeOK
<1>14. TreesOK'
  <2>1. \A k \in 1..Len(tree) : closes'[k] = IF tree'[k].open THEN 0 ELSE 1
    <3>1. t # NoTree => closes[t] = 0
      BY <1>1, <1>2, <1>8 DEF TreesOK, Counted, NoTree
    <3> QED
      BY <1>1, <1>2, <1>7, <3>1 DEF TreesOK, Counted, NoTree
  <2>2. \A x \in Session : call'[x].tree \in 0..Len(tree)
    BY <1>2, <1>3, <1>5, <1>12 DEF NoTree
  <2> QED
    <3>1. OneEach'
      <4>1. OneEach
        BY <1>1 DEF TreesOK
      <4>2. ASSUME NEW i \in 1..Len(userTrees) PROVE tree'[userTrees[i]].user = tree[userTrees[i]].user
        BY <1>9, <1>10
      <4> QED
        BY <1>4, <4>1, <4>2 DEF OneEach
    <3>2. AllOpen'
      BY <1>1, <1>4, <1>7, <1>9, <1>10 DEF TreesOK, AllOpen
    <3>3. Counted' /\ Known'
      BY <1>1, <1>4, <1>7, <2>1, <2>2 DEF TreesOK, Counted, Known
    <3> QED
      BY <3>1, <3>2, <3>3 DEF TreesOK
<1>15. CallOK(s)'
  BY <1>3, <1>5 DEF CallOK
<1>16. Roomy' = Roomy
  BY DEF Roomy, Shutdown, CloseTree
<1>17. Roomy => WriterOK(s)'
  <2> SUFFICES ASSUME Roomy PROVE WriterOK(s)'
    OBVIOUS
  <2>1. call[s].op # "Use" /\ call[s].user = UserOf[s] /\ s # Shutdown
    BY <1>1, <1>2 DEF WritersOK, WriterOK, Roomy, DirTreesAssumption
  <2>2. \/ n.pc = "idle" /\ n.op = "Use" /\ n.tree = NoTree
        \/ n.pc = "logless" /\ n.op # "Use" /\ n.user = UserOf[s] /\ n.tree = t
    BY <1>3, <2>1
  <2>3. t # NoTree => ~tree'[t].open
    BY <1>7
  <2> QED
    BY <1>5, <2>2, <2>3 DEF WriterOK
<1>18. ASSUME NEW x \in Session \ {s}, call[x].tree # NoTree
       PROVE  /\ tree'[call[x].tree].user = tree[call[x].tree].user
              /\ tree'[call[x].tree].open => tree[call[x].tree].open /\ call[x].tree # t
              /\ call[x].tree # t => tree'[call[x].tree].open = tree[call[x].tree].open
  <2>1. call[x].tree \in 1..Len(tree)
    BY <1>2, <1>12, <1>18 DEF NoTree
  <2> QED
    BY <1>9, <2>1
<1>19. Apart(s)
  <2>1. ASSUME NEW x \in Session \ {s} PROVE LocksKept(x)
    <3> SUFFICES ASSUME NEW u \in User, holder[userLock[u]] = x PROVE holder'[userLock[u]] = x /\ (Absent(u) => Absent(u)')
      BY DEF LocksKept
    <3>1. userLock[u] \in Lock /\ userLock[u] # userLock[UserOf[s]]
      BY <1>6
    <3> QED
      BY <1>6, <1>11, <3>1
  <2>2. ASSUME NEW x \in Session \ {s} PROVE TreeKept(s, x)
    BY <1>0, <1>2, <1>3, <1>5, <1>11, <1>18 DEF TreeKept
  <2>3. ASSUME NEW k, k # t, InHand(k) PROVE InHand(k)'
    <3>1. PICK r \in Session : call[r].pc \in {"new", "closing"} /\ call[r].tree = k
      BY <2>3 DEF InHand
    <3>2. call'[r] = call[r]
      BY <1>0, <1>5, <2>3, <3>1
    <3> QED
      BY <3>1, <3>2 DEF InHand
  <2>4. ASSUME NEW x \in Session \ {s} PROVE TreeFound(x)
    BY <1>5, <1>11, <1>18, <2>3 DEF TreeFound
  <2> QED
    BY <1>4, <1>5, <1>16, <2>1, <2>2, <2>4 DEF Apart
<1> QED
  BY <1>13, <1>14, <1>15, <1>16, <1>17, <1>19, ApartInv

\* r has what q has but at its place i, each as often as before.
Others(q, i, r) ==
    /\ \A j \in 1..Len(r) : \E k \in 1..Len(q) : k # i /\ r[j] = q[k]
    /\ \A k \in 1..Len(q) : k # i => \E j \in 1..Len(r) : r[j] = q[k]
    /\ (\A j, k \in 1..Len(q) : q[j] = q[k] => j = k) => \A j, k \in 1..Len(r) : r[j] = r[k] => j = k

\* What RemoveAt leaves are the others.
LEMMA RemoveAtOthers ==
    ASSUME NEW S, NEW q \in Seq(S), NEW i \in 1..Len(q)
    PROVE  RemoveAt(q, i) \in Seq(S) /\ Others(q, i, RemoveAt(q, i))
<1>0. PICK r : r = RemoveAt(q, i)
  OBVIOUS
<1> DEFINE g(j) == IF j < i THEN j ELSE j + 1
<1>1. Len(q) \in Nat /\ i \in Nat /\ i >= 1 /\ i <= Len(q)
  BY SeqShape
<1>2. /\ r \in Seq(S) /\ Len(r) = Len(q) - 1
      /\ \A j \in 1..(Len(q) - 1) : (j < i => r[j] = q[j]) /\ (j >= i => r[j] = q[j + 1])
  BY <1>0, RemoveAtProperties, Zenon
<1>3. ASSUME NEW j \in 1..(Len(q) - 1) PROVE g(j) \in 1..Len(q) /\ g(j) # i /\ r[j] = q[g(j)]
  <2>1. CASE j < i
    BY <1>1, <1>2, <2>1
  <2>2. CASE j >= i
    <3>1. g(j) = j + 1 /\ j + 1 \in 1..Len(q) /\ j + 1 # i
      BY <1>1, <2>2
    <3> QED
      BY <1>2, <2>2, <3>1
  <2> QED
    BY <1>1, <2>1, <2>2
<1>4. ASSUME NEW k \in 1..Len(q), k # i PROVE \E j \in 1..(Len(q) - 1) : r[j] = q[k]
  <2>1. CASE k < i
    <3>1. k \in 1..(Len(q) - 1)
      BY <1>1, <2>1
    <3> QED
      BY <1>2, <2>1, <3>1
  <2>2. CASE k > i
    <3>1. ASSUME NEW m, m = k - 1 PROVE m \in 1..(Len(q) - 1) /\ m >= i /\ m + 1 = k
      BY <1>1, <2>2, <3>1
    <3>2. PICK m : m = k - 1
      OBVIOUS
    <3> QED
      BY <1>2, <3>1, <3>2
  <2> QED
    BY <1>1, <1>4, <2>1, <2>2
<1>5. ASSUME \A j, k \in 1..Len(q) : q[j] = q[k] => j = k,
             NEW j \in 1..(Len(q) - 1), NEW k \in 1..(Len(q) - 1), r[j] = r[k]
      PROVE  j = k
  <2>1. g(j) \in 1..Len(q) /\ g(k) \in 1..Len(q) /\ q[g(j)] = q[g(k)]
    BY <1>3, <1>5
  <2> HIDE DEF g
  <2>2. g(j) = g(k)
    BY <1>5, <2>1
  <2> QED
    BY <1>1, <2>2 DEF g
<1> HIDE DEF g
<1>6. \A j \in 1..Len(r) : \E k \in 1..Len(q) : k # i /\ r[j] = q[k]
  BY <1>2, <1>3
<1>7. \A k \in 1..Len(q) : k # i => \E j \in 1..Len(r) : r[j] = q[k]
  BY <1>2, <1>4, Zenon
<1>8. (\A j, k \in 1..Len(q) : q[j] = q[k] => j = k) => \A j, k \in 1..Len(r) : r[j] = r[k] => j = k
  BY <1>2, <1>5
<1>9. r \in Seq(S) /\ Others(q, i, r)
  BY <1>2, <1>6, <1>7, <1>8, Zenon DEF Others
<1> QED
  BY <1>0, <1>9

\* A tree is removed from the cache, which nobody else can do to it then.
LEMMA CloseRemoveInv ==
    ASSUME DirTreesAssumption, Inv, UNCHANGED setting, NEW s \in Session, CloseRemove(s)
    PROVE  Inv'
<1>0. PICK n, t : n = call'[s] /\ t = n.tree
  OBVIOUS
<1> DEFINE Removed ==
               /\ n \in Calls /\ call' = [call EXCEPT ![s] = n]
               /\ n.pc = "closing" /\ n.op = call[s].op /\ n.user = call[s].user
               /\ userTrees' \in Seq(Nat)
               /\ \A j \in 1..Len(userTrees') : \E k \in 1..Len(userTrees) : userTrees'[j] = userTrees[k] /\ userTrees[k] # t
               /\ \A j, k \in 1..Len(userTrees') : tree[userTrees'[j]].user = tree[userTrees'[k]].user => j = k
               /\ \A k \in 1..Len(userTrees) : userTrees[k] # t => \E j \in 1..Len(userTrees') : userTrees'[j] = userTrees[k]
               /\ t # NoTree => ~Uncached(t) /\ tree[t].user = n.user
               /\ \A j \in 1..Len(userTrees') : tree[userTrees'[j]].user # n.user
<1>1. TypeOK /\ TreesOK /\ CallsOK /\ WritersOK /\ CallOK(s)
  BY DEF Inv, CallsOK
<1>2. call[s].pc = "close" /\ call[s] \in Calls
  BY <1>1 DEF CloseRemove, TypeOK
<1>3. /\ UNCHANGED <<setting, iter, tree, logs, closes>> /\ UNCHANGED userLock
      /\ holder' = [holder EXCEPT ![userLock[UserOf[s]]] = s]
      /\ holder[userLock[UserOf[s]]] = NoSession
  BY DEF CloseRemove, Acquire, userLock
\* Either the tree of the user is taken out, or it is not there.
<1>4. Removed
  <2>0. "closing" \in Pcs /\ NoTree \in Nat
    BY DEF Pcs, NoTree
  <2>3. /\ \A j, k \in 1..Len(userTrees) : userTrees[j] = userTrees[k] => j = k
        /\ \A j, k \in 1..Len(userTrees) : tree[userTrees[j]].user = tree[userTrees[k]].user => j = k
    BY <1>1 DEF TreesOK, OneEach
  <2>4. userTrees \in Seq(Nat)
    BY <1>1 DEF TypeOK
  <2>1. ASSUME NEW i \in Place(call[s].user), userTrees' = RemoveAt(userTrees, i), GotoWith(s, "closing", userTrees[i])
        PROVE  Removed
    <3>1. i \in 1..Len(userTrees) /\ tree[userTrees[i]].user = call[s].user
      BY <1>1, <2>1 DEF Place, TypeOK
    <3>2. userTrees[i] \in Nat
      BY <2>4, <3>1
    <3> DEFINE m == Moved(call[s], "closing", userTrees[i])
    <3>a. m = Moved(call[s], "closing", userTrees[i])
      OBVIOUS
    <3>4. call' = [call EXCEPT ![s] = m]
      BY <2>1 DEF GotoWith
    <3> HIDE DEF m
    <3>3. m \in Calls /\ m.pc = "closing" /\ m.op = call[s].op /\ m.user = call[s].user /\ m.tree = userTrees[i]
      BY <1>2, <2>0, <3>2, <3>a, CallMoves
    <3>5. n = m /\ t = m.tree
      BY <1>0, <1>1, <3>4 DEF TypeOK
    <3>6. /\ userTrees' \in Seq(Nat)
          /\ \A j \in 1..Len(userTrees') : \E k \in 1..Len(userTrees) : k # i /\ userTrees'[j] = userTrees[k]
          /\ \A k \in 1..Len(userTrees) : k # i => \E j \in 1..Len(userTrees') : userTrees'[j] = userTrees[k]
          /\ (\A j, k \in 1..Len(userTrees) : userTrees[j] = userTrees[k] => j = k)
                => \A j, k \in 1..Len(userTrees') : userTrees'[j] = userTrees'[k] => j = k
      <4>1. i \in 1..Len(userTrees) /\ userTrees' = RemoveAt(userTrees, i)
        BY <2>1, <3>1
      <4>2. userTrees' \in Seq(Nat) /\ Others(userTrees, i, userTrees')
        BY <2>4, <4>1, RemoveAtOthers, Zenon
      <4> QED
        BY <4>2, Zenon DEF Others
    <3>7. \A j, k \in 1..Len(userTrees') : userTrees'[j] = userTrees'[k] => j = k
      BY <2>3, <3>6, Zenon
    <3>8. \A k \in 1..Len(userTrees) : k # i => userTrees[k] # userTrees[i] /\ tree[userTrees[k]].user # tree[userTrees[i]].user
      BY <2>3, <3>1, Zenon
    <3>9. \A j \in 1..Len(userTrees') : \E k \in 1..Len(userTrees) : userTrees'[j] = userTrees[k] /\ userTrees[k] # t
      <4> SUFFICES ASSUME NEW j \in 1..Len(userTrees')
                   PROVE  \E k \in 1..Len(userTrees) : userTrees'[j] = userTrees[k] /\ userTrees[k] # t
        OBVIOUS
      <4>1. PICK k \in 1..Len(userTrees) : k # i /\ userTrees'[j] = userTrees[k]
        BY <3>6, Zenon
      <4>2. t = userTrees[i]
        BY <3>3, <3>5
      <4> QED
        BY <3>8, <4>1, <4>2, Zenon
    <3>10. \A j, k \in 1..Len(userTrees') : tree[userTrees'[j]].user = tree[userTrees'[k]].user => j = k
      <4> SUFFICES ASSUME NEW j \in 1..Len(userTrees'), NEW k \in 1..Len(userTrees'),
                          tree[userTrees'[j]].user = tree[userTrees'[k]].user
                   PROVE  userTrees'[j] = userTrees'[k]
        BY <3>7, Zenon
      <4>1. PICK a \in 1..Len(userTrees) : userTrees'[j] = userTrees[a]
        BY <3>6, Zenon
      <4>2. PICK c \in 1..Len(userTrees) : userTrees'[k] = userTrees[c]
        BY <3>6, Zenon
      <4> QED
        BY <2>3, <4>1, <4>2, Zenon
    <3>11. \A k \in 1..Len(userTrees) : userTrees[k] # t => \E j \in 1..Len(userTrees') : userTrees'[j] = userTrees[k]
      BY <3>3, <3>5, <3>6, Zenon
    <3>12. t # NoTree => ~Uncached(t) /\ tree[t].user = n.user
      BY <3>1, <3>3, <3>5 DEF Uncached
    <3>13. \A j \in 1..Len(userTrees') : tree[userTrees'[j]].user # n.user
      <4>1. tree[userTrees[i]].user = n.user
        BY <3>1, <3>3, <3>5
      <4>2. ASSUME NEW j \in 1..Len(userTrees') PROVE tree[userTrees'[j]].user # n.user
        <5>1. PICK k \in 1..Len(userTrees) : k # i /\ userTrees'[j] = userTrees[k]
          BY <3>6, Zenon
        <5> QED
          BY <3>8, <4>1, <5>1
      <4> QED
        BY <4>2
    <3>14. call' = [call EXCEPT ![s] = n]
      BY <3>4, <3>5
    <3> QED
      BY <3>3, <3>5, <3>6, <3>9, <3>10, <3>11, <3>12, <3>13, <3>14, Zenon
  <2>2. ASSUME Place(call[s].user) = {}, GotoWith(s, "closing", NoTree), UNCHANGED userTrees
        PROVE  Removed
    <3> DEFINE m == Moved(call[s], "closing", NoTree)
    <3>a. m = Moved(call[s], "closing", NoTree)
      OBVIOUS
    <3>2. call' = [call EXCEPT ![s] = m]
      BY <2>2 DEF GotoWith
    <3> HIDE DEF m
    <3>1. m \in Calls /\ m.pc = "closing" /\ m.op = call[s].op /\ m.user = call[s].user /\ m.tree = NoTree
      BY <1>2, <2>0, <3>a, CallMoves
    <3>3. n = m /\ t = m.tree
      BY <1>0, <1>1, <3>2 DEF TypeOK
    <3>4. \A j \in 1..Len(userTrees) : userTrees[j] # NoTree /\ tree[userTrees[j]].user # call[s].user
      BY <1>1, <2>2 DEF Place, TypeOK, TreesOK, AllOpen, NoTree
    <3>5. /\ \A j \in 1..Len(userTrees') : \E k \in 1..Len(userTrees) : userTrees'[j] = userTrees[k] /\ userTrees[k] # t
          /\ \A k \in 1..Len(userTrees) : userTrees[k] # t => \E j \in 1..Len(userTrees') : userTrees'[j] = userTrees[k]
      BY <2>2, <3>1, <3>3, <3>4, Zenon
    <3> QED
      BY <2>2, <2>3, <2>4, <3>1, <3>2, <3>3, <3>4, <3>5
  <2> HIDE DEF Removed
  <2> QED
    BY <2>1, <2>2 DEF CloseRemove, RemoveTree
<1>5. call'[s] = n /\ n.tree = t /\ \A r \in Session \ {s} : call'[r] = call[r]
  BY <1>0, <1>1, <1>4 DEF TypeOK
<1>a. /\ \A j \in 1..Len(userTrees') : \E k \in 1..Len(userTrees) : userTrees'[j] = userTrees[k] /\ userTrees[k] # t
      /\ \A k \in 1..Len(userTrees) : userTrees[k] # t => \E j \in 1..Len(userTrees') : userTrees'[j] = userTrees[k]
      /\ \A j \in 1..Len(userTrees') : tree[userTrees'[j]].user # n.user
  BY <1>4, Zenon
<1>b. /\ n \in Calls /\ call' = [call EXCEPT ![s] = n]
      /\ n.pc = "closing" /\ n.op = call[s].op /\ n.user = call[s].user
      /\ t # NoTree => ~Uncached(t) /\ tree[t].user = n.user
  BY <1>4, Zenon
<1>c. /\ userTrees' \in Seq(Nat)
      /\ \A j, k \in 1..Len(userTrees') : tree[userTrees'[j]].user = tree[userTrees'[k]].user => j = k
  BY <1>4, Zenon
<1> HIDE DEF Removed
<1>6. /\ NoSession \notin Session /\ holder'[userLock[UserOf[s]]] = s
      /\ \A l \in Lock : l # userLock[UserOf[s]] => holder'[l] = holder[l]
      /\ \A u \in User : userLock[u] \in Lock
  BY <1>1, <1>3, SettingFacts DEF TypeOK, userLock, DirTreesAssumption
<1>7. /\ t # NoTree => t \in 1..Len(tree) /\ tree[t].open
      /\ t \in 0..Len(tree)
  <2>1. Len(tree) \in Nat
    BY <1>1, SeqShape DEF TypeOK
  <2>2. ASSUME t # NoTree PROVE t \in 1..Len(tree) /\ tree[t].open
    <3>1. PICK k \in 1..Len(userTrees) : userTrees[k] = t
      BY <1>b, <2>2 DEF Uncached
    <3> QED
      BY <1>1, <3>1 DEF TreesOK, AllOpen
  <2> QED
    BY <2>1, <2>2 DEF NoTree
<1>8. /\ \A u : Absent(u) => Absent(u)'
      /\ Absent(n.user)'
      /\ \A k : Uncached(k) => Uncached(k)'
      /\ \A k : k # t /\ ~Uncached(k) => ~Uncached(k)'
      /\ t # NoTree => Uncached(t)'
  <2>1. ASSUME NEW u, Absent(u) PROVE Absent(u)'
    <3> SUFFICES ASSUME NEW j \in 1..Len(userTrees') PROVE tree[userTrees'[j]].user # u
      BY <1>3 DEF Absent
    <3>1. PICK k \in 1..Len(userTrees) : userTrees'[j] = userTrees[k]
      BY <1>a, Zenon
    <3> QED
      BY <2>1, <3>1 DEF Absent
  <2>2. Absent(n.user)'
    BY <1>3, <1>a, Zenon DEF Absent
  <2>3. \A k : Uncached(k) => Uncached(k)'
    <3>1. \A j \in 1..Len(userTrees') : \E k \in 1..Len(userTrees) : userTrees'[j] = userTrees[k]
      BY <1>a, Zenon
    <3> QED
      BY <3>1, Zenon DEF Uncached
  <2>4. \A k : k # t /\ ~Uncached(k) => ~Uncached(k)'
    <3>1. \A k \in 1..Len(userTrees) : userTrees[k] # t => \E j \in 1..Len(userTrees') : userTrees'[j] = userTrees[k]
      BY <1>a, Zenon
    <3> QED
      BY <3>1, Zenon DEF Uncached
  <2>5. Uncached(t)'
    BY <1>a, Zenon DEF Uncached
  <2> QED
    BY <2>1, <2>2, <2>3, <2>4, <2>5
<1>9. TypeOK'
  <2>1. holder' \in [Lock -> Session \cup {NoSession}]
    <3>1. holder \in [Lock -> Session \cup {NoSession}]
      BY <1>1 DEF TypeOK
    <3> QED
      BY <1>3, <3>1, Zenon
  <2>2. call' \in [Session -> Calls]
    BY <1>1, <1>b DEF TypeOK
  <2> QED
    BY <1>1, <1>3, <1>c, <2>1, <2>2 DEF TypeOK
<1>10. TreesOK'
  <2>1. \A j \in 1..Len(userTrees') : userTrees'[j] \in 1..Len(tree) /\ tree[userTrees'[j]].open
    <3> SUFFICES ASSUME NEW j \in 1..Len(userTrees') PROVE userTrees'[j] \in 1..Len(tree) /\ tree[userTrees'[j]].open
      OBVIOUS
    <3>1. PICK k \in 1..Len(userTrees) : userTrees'[j] = userTrees[k]
      BY <1>a, Zenon
    <3>2. userTrees[k] \in 1..Len(tree) /\ tree[userTrees[k]].open
      BY <1>1 DEF TreesOK, AllOpen
    <3> QED
      BY <3>1, <3>2
  <2>2. \A x \in Session : call'[x].tree \in 0..Len(tree)
    BY <1>1, <1>5, <1>7 DEF TreesOK, Known
  <2>3. /\ Len(closes) = Len(tree) /\ iter \in 0..Len(tree)
        /\ \A k \in 1..Len(tree) : closes[k] = IF tree[k].open THEN 0 ELSE 1
    BY <1>1 DEF TreesOK, Counted, Known
  <2> QED
    <3>1. OneEach'
      BY <1>3, <1>c DEF OneEach
    <3>2. Counted' /\ AllOpen' /\ Known'
      BY <1>3, <2>1, <2>2, <2>3 DEF Counted, AllOpen, Known
    <3> QED
      BY <3>1, <3>2 DEF TreesOK
<1>11. CallOK(s)'
  <2>1. \A r \in Session \ {s} : call[r].pc = "closing" /\ t # NoTree => call[r].tree # t
    <3> SUFFICES ASSUME NEW r \in Session, call[r].pc = "closing", t # NoTree, call[r].tree = t PROVE FALSE
      BY Zenon
    <3>1. CallOK(r)
      BY <1>1 DEF CallsOK
    <3>2. Uncached(t)
      BY <3>1 DEF CallOK
    <3> QED
      BY <1>b, <3>2
  <2> QED
    BY <1>3, <1>b, <1>5, <1>6, <1>7, <1>8, <2>1 DEF CallOK
<1>12. Roomy' = Roomy
  BY DEF Roomy, Shutdown, CloseRemove
<1>13. InHand(t)' /\ \A k : InHand(k) => InHand(k)'
  BY <1>2, <1>b, <1>5 DEF InHand
<1>14. Roomy => WriterOK(s)'
  <2>1. Roomy => WriterOK(s)
    BY <1>1 DEF WritersOK
  <2> QED
    BY <1>2, <1>3, <1>b, <1>5, <1>8, <1>13, <2>1, Zenon DEF WriterOK
<1>15. Apart(s)
  <2>1. ASSUME NEW x \in Session \ {s} PROVE LocksKept(x)
    <3> SUFFICES ASSUME NEW u \in User, holder[userLock[u]] = x PROVE holder'[userLock[u]] = x /\ (Absent(u) => Absent(u)')
      BY DEF LocksKept
    <3>1. userLock[u] \in Lock /\ userLock[u] # userLock[UserOf[s]]
      BY <1>3, <1>6
    <3> QED
      BY <1>6, <1>8, <3>1
  <2>2. ASSUME NEW x \in Session \ {s} PROVE TreeKept(s, x)
    BY <1>3, <1>b, <1>5, <1>8 DEF TreeKept
  <2>3. ASSUME NEW x \in Session \ {s} PROVE TreeFound(x)
    BY <1>3, <1>5, <1>8, <1>13 DEF TreeFound
  <2> QED
    BY <1>3, <1>5, <1>12, <2>1, <2>2, <2>3 DEF Apart
<1> QED
  BY <1>9, <1>10, <1>11, <1>12, <1>14, <1>15, ApartInv

\* r is q with t before it, of which no more than max are kept.
Added(q, t, max, r) ==
    /\ r \in Seq(Nat) /\ 1 \in 1..Len(r) /\ r[1] = t
    /\ \A j \in 1..Len(r) : j # 1 => \E k \in 1..Len(q) : k = j - 1 /\ r[j] = q[k]
    /\ Len(q) + 1 <= max => \A k \in 1..Len(q) : \E j \in 1..Len(r) : r[j] = q[k]

\* What is added to the LRU comes first, and the last may fall out.
LEMMA AddedFirst ==
    ASSUME NEW q \in Seq(Nat), NEW t \in Nat, NEW max \in Nat \ {0}
    PROVE  LET a == <<t>> \o q
           IN  Added(q, t, max, SubSeq(a, 1, IF Len(a) < max THEN Len(a) ELSE max))
<1> DEFINE a == <<t>> \o q
<1>1. Len(q) \in Nat
  BY SeqShape
<1>2. /\ a \in Seq(Nat) /\ Len(a) = Len(q) + 1 /\ a[1] = t
      /\ \A j \in 2..(Len(q) + 1) : a[j] = q[j - 1]
  BY <1>1
<1> HIDE DEF a
<1>3. PICK m : m = IF Len(a) < max THEN Len(a) ELSE max
  OBVIOUS
<1>4. m \in Nat /\ m >= 1 /\ m <= Len(a) /\ (Len(a) <= max => m = Len(a))
  BY <1>1, <1>2, <1>3
<1>5. PICK r : r = SubSeq(a, 1, m)
  BY Zenon
<1>6. r \in Seq(Nat) /\ Len(r) = m /\ \A j \in 1..m : r[j] = a[j]
  BY <1>1, <1>2, <1>4, <1>5
<1>7. 1 \in 1..Len(r) /\ r[1] = t
  BY <1>2, <1>4, <1>6
<1>8. ASSUME NEW j \in 1..Len(r), j # 1 PROVE \E k \in 1..Len(q) : k = j - 1 /\ r[j] = q[k]
  <2>1. j \in 1..m /\ j \in Nat /\ j > 1 /\ j <= Len(q) + 1
    BY <1>1, <1>2, <1>4, <1>6, <1>8
  <2>2. ASSUME NEW k, k = j - 1 PROVE k \in 1..Len(q) /\ r[j] = q[k]
    <3>1. j \in 2..(Len(q) + 1) /\ k \in 1..Len(q)
      BY <1>1, <2>1, <2>2
    <3>2. r[j] = a[j]
      BY <1>6, <2>1, Zenon
    <3>3. a[j] = q[j - 1]
      BY <1>2, <3>1, Zenon
    <3> QED
      BY <2>2, <3>1, <3>2, <3>3, Zenon
  <2> QED
    BY <2>2
<1>9. ASSUME Len(q) + 1 <= max, NEW k \in 1..Len(q) PROVE \E j \in 1..Len(r) : r[j] = q[k]
  <2>1. ASSUME NEW j, j = k + 1 PROVE j \in 1..Len(r) /\ r[j] = q[k]
    <3>1. j \in 2..(Len(q) + 1) /\ j - 1 = k /\ j \in 1..m
      BY <1>1, <1>2, <1>4, <1>9, <2>1
    <3>2. a[j] = q[j - 1] /\ r[j] = a[j]
      BY <1>2, <1>6, <3>1
    <3> QED
      BY <1>6, <3>1, <3>2
  <2> QED
    BY <2>1
<1>10. Added(q, t, max, r)
  BY <1>6, <1>7, <1>8, <1>9, Zenon DEF Added
<1> QED
  BY <1>3, <1>5, <1>10 DEF a

\* A new tree is added to the cache, under the lock that kept others from
\* adding one of the same user.
LEMMA NewTreeInv ==
    ASSUME DirTreesAssumption, Inv, UNCHANGED setting, NEW s \in Session, NewTree(s)
    PROVE  Inv'
<1>0. PICK t, u : t = call[s].tree /\ u = call[s].user
  OBVIOUS
<1> DEFINE n == [call[s] EXCEPT !.pc = "use"]
<1>1. TypeOK /\ TreesOK /\ CallsOK /\ WritersOK /\ CallOK(s)
  BY DEF Inv, CallsOK
<1>2. call[s].pc = "new" /\ call[s] \in Calls /\ t \in Nat /\ u \in User
  BY <1>0, <1>1 DEF NewTree, TypeOK, Calls
<1>3. n \in Calls /\ n.pc = "use" /\ n.op = call[s].op /\ n.user = u /\ n.tree = t
  <2>1. call[s] \in Calls
    BY <1>2
  <2> QED
    BY <1>0, <2>1 DEF Calls, Pcs
<1>4. /\ call' = [call EXCEPT ![s] = n] /\ UNCHANGED <<setting, iter, tree, logs, closes>> /\ UNCHANGED userLock
      /\ holder' = [holder EXCEPT ![userLock[u]] = NoSession]
  BY <1>0, <1>1 DEF NewTree, Goto, Release, TypeOK, userLock
<1> HIDE DEF n
<1>5. call'[s] = n /\ \A r \in Session \ {s} : call'[r] = call[r]
  BY <1>1, <1>4 DEF TypeOK
<1>6. /\ holder[userLock[u]] = s /\ Absent(u)
      /\ t # NoTree /\ tree[t].user = u /\ tree[t].open /\ Uncached(t)
      /\ \A r \in Session \ {s} : call[r].tree # t
  BY <1>0, <1>1, <1>2 DEF CallOK
<1>7. t \in 1..Len(tree)
  <2>1. t \in 0..Len(tree) /\ Len(tree) \in Nat
    BY <1>0, <1>1, SeqShape DEF TreesOK, Known, TypeOK
  <2> QED
    BY <1>6, <2>1 DEF NoTree
<1>8. /\ \A l \in Lock : l # userLock[u] => holder'[l] = holder[l]
      /\ \A w \in User : userLock[w] \in Lock
  BY <1>1, <1>4, SettingFacts DEF TypeOK, userLock
<1>9. Added(userTrees, t, MaxTrees, userTrees')
  <2>1. userTrees \in Seq(Nat) /\ MaxTrees \in Nat \ {0}
    BY <1>1, SettingFacts DEF TypeOK
  <2> QED
    BY <1>0, <1>2, <2>1, AddedFirst DEF NewTree
<1>10. /\ userTrees' \in Seq(Nat) /\ 1 \in 1..Len(userTrees') /\ userTrees'[1] = t
       /\ \A j \in 1..Len(userTrees') : j # 1 => \E k \in 1..Len(userTrees) : k = j - 1 /\ userTrees'[j] = userTrees[k]
  BY <1>9, Zenon DEF Added
\* What is in the cache is the new tree, or was there before.
<1>11. \A j \in 1..Len(userTrees') : userTrees'[j] = t \/ \E k \in 1..Len(userTrees) : userTrees'[j] = userTrees[k]
  BY <1>10, Zenon
<1>12. \A w : w # u /\ Absent(w) => Absent(w)'
  <2> SUFFICES ASSUME NEW w, w # u, Absent(w) PROVE Absent(w)'
    BY Zenon
  <2> SUFFICES ASSUME NEW j \in 1..Len(userTrees') PROVE tree[userTrees'[j]].user # w
    BY <1>4 DEF Absent
  <2> QED
    BY <1>6, <1>11 DEF Absent
<1>13. \A k : k # t /\ Uncached(k) => Uncached(k)'
  BY <1>11, Zenon DEF Uncached
<1>14. ~Uncached(t)'
  BY <1>10, Zenon DEF Uncached
<1>15. TypeOK'
  <2>1. holder' \in [Lock -> Session \cup {NoSession}]
    <3>1. holder \in [Lock -> Session \cup {NoSession}]
      BY <1>1 DEF TypeOK
    <3> QED
      BY <1>4, <3>1, Zenon
  <2>2. call' \in [Session -> Calls]
    BY <1>1, <1>3, <1>4 DEF TypeOK
  <2> QED
    BY <1>1, <1>4, <1>10, <2>1, <2>2 DEF TypeOK
<1>16. TreesOK'
  <2>1. \A j \in 1..Len(userTrees') : userTrees'[j] \in 1..Len(tree) /\ tree[userTrees'[j]].open
    <3> SUFFICES ASSUME NEW j \in 1..Len(userTrees') PROVE userTrees'[j] \in 1..Len(tree) /\ tree[userTrees'[j]].open
      OBVIOUS
    <3>1. CASE userTrees'[j] = t
      BY <1>6, <1>7, <3>1
    <3>2. ASSUME NEW k \in 1..Len(userTrees), userTrees'[j] = userTrees[k] PROVE userTrees'[j] \in 1..Len(tree) /\ tree[userTrees'[j]].open
      <4>1. userTrees[k] \in 1..Len(tree) /\ tree[userTrees[k]].open
        BY <1>1 DEF TreesOK, AllOpen
      <4> QED
        BY <3>2, <4>1
    <3> QED
      BY <1>11, <3>1, <3>2, Zenon
  <2>2. \A i, j \in 1..Len(userTrees') : tree[userTrees'[i]].user = tree[userTrees'[j]].user => i = j
    <3> SUFFICES ASSUME NEW i \in 1..Len(userTrees'), NEW j \in 1..Len(userTrees'),
                        tree[userTrees'[i]].user = tree[userTrees'[j]].user
                 PROVE  i = j
      OBVIOUS
    <3>1. ASSUME NEW h \in 1..Len(userTrees'), h # 1 PROVE tree[userTrees'[h]].user # u
      <4>1. PICK k \in 1..Len(userTrees) : userTrees'[h] = userTrees[k]
        BY <1>10, <3>1, Zenon
      <4> QED
        BY <1>6, <4>1 DEF Absent
    <3>2. CASE i = 1 \/ j = 1
      BY <1>6, <1>10, <3>1, <3>2
    <3>3. CASE i # 1 /\ j # 1
      <4>1. PICK a \in 1..Len(userTrees) : a = i - 1 /\ userTrees'[i] = userTrees[a]
        BY <1>10, <3>3, Zenon
      <4>2. PICK b \in 1..Len(userTrees) : b = j - 1 /\ userTrees'[j] = userTrees[b]
        BY <1>10, <3>3, Zenon
      <4>3. a = b
        <5>1. OneEach
          BY <1>1 DEF TreesOK
        <5> QED
          BY <4>1, <4>2, <5>1, Zenon DEF OneEach
      <4>4. i \in Int /\ j \in Int
        OBVIOUS
      <4> QED
        BY <4>1, <4>2, <4>3, <4>4
    <3> QED
      BY <3>2, <3>3
  <2>3. \A x \in Session : call'[x].tree \in 0..Len(tree)
    BY <1>1, <1>3, <1>5, <1>7 DEF TreesOK, Known
  <2>4. /\ Len(closes) = Len(tree) /\ iter \in 0..Len(tree)
        /\ \A k \in 1..Len(tree) : closes[k] = IF tree[k].open THEN 0 ELSE 1
    BY <1>1 DEF TreesOK, Counted, Known
  <2> QED
    BY <1>4, <2>1, <2>2, <2>3, <2>4 DEF TreesOK, Counted, AllOpen, OneEach, Known
<1>17. CallOK(s)'
  BY <1>3, <1>5, <1>6 DEF CallOK
<1>18. Roomy' => Roomy
  BY <1>4, Zenon DEF NewTree, Roomy, Shutdown
<1>19. Roomy => WriterOK(s)'
  <2>1. Roomy => (call[s].op # "Use" => u = UserOf[s])
    BY <1>0, <1>1 DEF WritersOK, WriterOK
  <2> QED
    BY <1>3, <1>5, <1>14, <2>1 DEF WriterOK
\* Nothing falls out of the cache.
<1>20. ASSUME Roomy', NEW k, ~Uncached(k) PROVE ~Uncached(k)'
  <2>1. Len(<<t>> \o userTrees) = Len(userTrees) + 1 /\ Len(userTrees) \in Nat
    BY <1>1, <1>2 DEF TypeOK
  <2>2. ~(Len(<<t>> \o userTrees) > MaxTrees)
    BY <1>0, <1>20, Zenon DEF NewTree, Roomy
  <2>3. Len(userTrees) + 1 <= MaxTrees
    BY <1>1, <2>1, <2>2, SettingFacts
  <2>4. \A i \in 1..Len(userTrees) : \E j \in 1..Len(userTrees') : userTrees'[j] = userTrees[i]
    BY <1>9, <2>3, Zenon DEF Added
  <2> QED
    BY <1>20, <2>4, Zenon DEF Uncached
<1>21. Apart(s)
  <2>1. ASSUME NEW x \in Session \ {s} PROVE LocksKept(x)
    <3> SUFFICES ASSUME NEW w \in User, holder[userLock[w]] = x PROVE holder'[userLock[w]] = x /\ (Absent(w) => Absent(w)')
      BY DEF LocksKept
    <3>1. userLock[w] \in Lock /\ userLock[w] # userLock[u] /\ w # u
      BY <1>6, <1>8
    <3> QED
      BY <1>8, <1>12, <3>1
  <2>2. ASSUME NEW x \in Session \ {s} PROVE TreeKept(s, x)
    BY <1>3, <1>4, <1>5, <1>6, <1>13, Zenon DEF TreeKept
  <2>3. \A k : k # t /\ InHand(k) => InHand(k)'
    BY <1>0, <1>5 DEF InHand
  <2>4. ASSUME Roomy', NEW x \in Session \ {s} PROVE TreeFound(x)
    BY <1>4, <1>5, <1>6, <1>20, <2>3, <2>4, Zenon DEF TreeFound
  <2> QED
    BY <1>4, <1>5, <1>18, <2>1, <2>2, <2>4 DEF Apart
<1> QED
  BY <1>15, <1>16, <1>17, <1>18, <1>19, <1>21, ApartInv

\* Every step keeps the invariant.
LEMMA NextInv ==
    ASSUME DirTreesAssumption, Inv, [TreesNext]_<<setting, treesVars>>
    PROVE  Inv'
<1>1. CASE UNCHANGED <<setting, treesVars>>
  BY <1>1, StutterInv
<1>2. CASE TreesNext
  <2>1. UNCHANGED setting
    BY <1>2 DEF TreesNext
  <2>2. ASSUME NEW s \in Session, NEW op \in {"Use", "Delete", "Close"}, NEW u \in User, Begin(s, op, u) PROVE Inv'
    BY <2>1, <2>2, BeginInv
  <2>3. ASSUME NEW s \in Session, Step(s) PROVE Inv'
    <3>1. CASE LoadCached(s)   BY <2>1, <3>1, LoadCachedInv
    <3>2. CASE LoadMiss(s)     BY <2>1, <3>2, LoadMissInv
    <3>3. CASE LoadNone(s)     BY <2>1, <3>3, EndInv
    <3>4. CASE NewLogs(s)      BY <2>1, <3>4, NewLogsInv
    <3>5. CASE NewTree(s)      BY <2>1, <3>5, NewTreeInv
    <3>6. CASE NewTreeFails(s) BY <2>1, <3>6, EndInv
    <3>7. CASE Use(s)          BY <2>1, <3>7, UseInv
    <3>8. CASE CloseRemove(s)  BY <2>1, <3>8, CloseRemoveInv
    <3>9. CASE CloseTree(s)    BY <2>1, <3>9, CloseTreeInv
    <3>10. CASE DeleteLogs(s)  BY <2>1, <3>10, DeleteLogsInv
    <3> QED
      BY <2>3, <3>1, <3>2, <3>3, <3>4, <3>5, <3>6, <3>7, <3>8, <3>9, <3>10 DEF Step
  <2>4. CASE ShutdownBegin
    BY <2>1, <2>4, ShutdownBeginInv
  <2>5. CASE ShutdownNext
    BY <2>1, <2>5, ShutdownNextInv
  <2> QED
    BY <1>2, <2>2, <2>3, <2>4, <2>5 DEF TreesNext
<1> QED
  BY <1>1, <1>2

\* No log has two writers as long as the cache has room, a cached tree is open,
\* and no tree is closed twice (loadTreeFor, closeTree, Close, shutdown): for
\* all users, sessions and locks, and whichever users share a lock.
THEOREM TreesAlwaysRight == TreesSpec => []TreesAreRight
<1>1. TreesInit => Inv
  BY InitInv, TreesAssumption
<1>2. Inv /\ [TreesNext]_<<setting, treesVars>> => Inv'
  BY NextInv, TreesAssumption
<1>3. Inv => TreesAreRight
  BY InvRight, TreesAssumption
<1> QED
  BY <1>1, <1>2, <1>3, PTL DEF TreesSpec

=============================================================================
