----------------------------- MODULE TreeProofs -----------------------------
(***************************************************************************)
(* The structural invariants of Tree hold for every set of paths, every    *)
(* length of the log and every combination of failures.                    *)
(***************************************************************************)
EXTENDS Tree, PathsProofs

\* Path names are sequences of elements, with all their prefixes.
LEMMA PathFacts ==
    ASSUME NEW p \in Path
    PROVE  /\ p \in Seq(Elem)
           /\ Prefixes(p) \subseteq Path
           /\ Ancestors(p) \subseteq Path
           /\ p # Root => Parent(p) \in Path
<1>1. p \in Seq(Elem) /\ Prefixes(p) \subseteq Path
  BY TreeAssumption
<1> QED
  BY <1>1, PrefixesSplit, AncestorsOfKid

-----------------------------------------------------------------------------
(* Blocks and entries. *)

\* Blocks without paths are NoBlocks.
LEMMA EmptyBlocks ==
    ASSUME NEW b, IsBlocks(b)
    PROVE  b = NoBlocks <=> DOMAIN b = {}
BY DEF IsBlocks, NoBlocks

\* The entry fetched at x has below it what b has below x.
LEMMA FetchBelow ==
    ASSUME NEW b, IsBlocks(b), NEW x \in DOMAIN b
    PROVE  /\ DOMAIN Fetch(b, x).blocks =
                 {r \in Seq(Elem) \ {Root} : x \o r \in DOMAIN b}
           /\ \A r \in DOMAIN Fetch(b, x).blocks : Fetch(b, x).blocks[r] = b[x \o r]
<1> DEFINE D == {Rel(y, x) : y \in Under(b, x)}
<1>1. DOMAIN b \subseteq Seq(Elem) \ {Root} /\ x \in Seq(Elem)
  BY DEF IsBlocks
<1>2. ASSUME NEW y \in Under(b, x)
      PROVE  Rel(y, x) \in Seq(Elem) \ {Root} /\ x \o Rel(y, x) \in DOMAIN b
  <2>1. y \in DOMAIN b /\ y \in Seq(Elem) /\ y # x /\ x \in Prefixes(y)
    BY <1>1, HasPrefixIsPrefix DEF Under
  <2> QED
    BY <2>1, RelBack
<1>3. ASSUME NEW r \in Seq(Elem) \ {Root}, x \o r \in DOMAIN b
      PROVE  r \in D
  <2>1. /\ x \o r \in Seq(Elem) /\ Rel(x \o r, x) = r
        /\ x \in Prefixes(x \o r) /\ x \o r # x
    BY <1>1, RelOfConcat
  <2>2. HasPrefix(x \o r, x)
    BY <1>1, <2>1, HasPrefixIsPrefix
  <2>3. x \o r \in Under(b, x)
    BY <1>3, <2>1, <2>2 DEF Under
  <2> QED
    BY <2>1, <2>3
<1>4. D = {r \in Seq(Elem) \ {Root} : x \o r \in DOMAIN b}
  BY <1>2, <1>3
<1>5. Fetch(b, x).blocks = [r \in D |-> b[x \o r]]
  BY DEF Fetch, Dress
<1> QED
  BY <1>4, <1>5

\* What is fetched from blocks is an entry.
LEMMA FetchIsEntry ==
    ASSUME NEW b, IsBlocks(b), NEW x \in DOMAIN b
    PROVE  IsEntry(Fetch(b, x)) /\ Fetch(b, x).kind = b[x].kind
<1> DEFINE e == Fetch(b, x)
<1>1. /\ DOMAIN b \subseteq Seq(Elem) \ {Root} /\ x \in Seq(Elem) /\ b[x] \in Bare
      /\ \A r \in DOMAIN b : \A q \in Ancestors(r) \ {Root} :
            q \in DOMAIN b /\ b[q].kind = "dir"
  BY DEF IsBlocks
<1>2. /\ e = Dress(e, e.blocks) /\ Strip(e) \in Bare /\ e.kind = b[x].kind
      /\ e.blocks = [r \in DOMAIN e.blocks |-> e.blocks[r]]
  BY <1>1 DEF Fetch, Dress, Strip, Bare
<1>3. /\ DOMAIN e.blocks = {r \in Seq(Elem) \ {Root} : x \o r \in DOMAIN b}
      /\ \A r \in DOMAIN e.blocks : e.blocks[r] = b[x \o r]
  BY FetchBelow
<1> HIDE DEF e
<1>4. ASSUME NEW r \in DOMAIN e.blocks
      PROVE  /\ e.blocks[r] \in Bare
             /\ \A q \in Ancestors(r) \ {Root} :
                   q \in DOMAIN e.blocks /\ e.blocks[q].kind = "dir"
  <2>1. r \in Seq(Elem) \ {Root} /\ x \o r \in DOMAIN b /\ e.blocks[r] = b[x \o r]
    BY <1>3
  <2>2. e.blocks[r] \in Bare
    BY <2>1 DEF IsBlocks
  <2>3. ASSUME NEW q \in Ancestors(r) \ {Root}
        PROVE  q \in DOMAIN e.blocks /\ e.blocks[q].kind = "dir"
    <3>1. q \in Seq(Elem) \ {Root} /\ x \o q \in Ancestors(x \o r)
      BY <1>1, <2>1, ConcatOfAncestors
    <3>2. x \o q # Root
      BY <1>1, <3>1, RelOfConcat, ZenonT(60)
    <3>3. x \o q \in DOMAIN b /\ b[x \o q].kind = "dir"
      BY <1>1, <2>1, <3>1, <3>2
    <3> QED
      BY <1>3, <3>1, <3>3
  <2> QED
    BY <2>2, <2>3
<1>5. IsBlocks(e.blocks)
  BY <1>2, <1>3, <1>4 DEF IsBlocks
<1>6. ASSUME e.kind # "dir", NEW r \in DOMAIN e.blocks
      PROVE  FALSE
  <2>1. r \in Seq(Elem) \ {Root} /\ x \o r \in DOMAIN b
    BY <1>3
  <2>2. x \in Ancestors(x \o r) \ {Root}
    BY <1>1, <2>1, RelOfConcat
  <2> QED
    BY <1>1, <1>2, <1>6, <2>1, <2>2
<1> QED
  BY <1>2, <1>5, <1>6 DEF IsEntry, e

-----------------------------------------------------------------------------
(* Loading. *)

\* A map of nodes N with loaded directories L that a walk can reach.
Reachable(N, L) ==
    /\ IsNodes(N)
    /\ L \subseteq DOMAIN N
    /\ \A d \in L : N[d].kind = "dir"
    /\ \A p \in DOMAIN N : Ancestors(p) \subseteq L

\* The directories from the root down to some path.
Chain(D) == D \subseteq Path /\ \A d \in D : Prefixes(d) \subseteq D

\* A path read from the blocks of d is new, was read from no other directory
\* and gets the entry that the blocks hold for it.
LEMMA FreshNode ==
    ASSUME NEW N, NEW L, NEW D, Reachable(N, L), Chain(D),
           NEW d \in Unread(N, L, D), NEW y \in DOMAIN N[d].blocks,
           Parent(d \o y) \in D
    PROVE  /\ d \o y \in Path /\ d \o y \notin DOMAIN N
           /\ d \o y \in Fresh(N, L, D)
           /\ LoadNodes(N, L, D)[d \o y] = Fetch(N[d].blocks, y)
<1> DEFINE q == d \o y
<1>1. /\ d \in DOMAIN N /\ d \notin L /\ d \in Path /\ d \in Seq(Elem)
      /\ y \in Seq(Elem) \ {Root} /\ q \in Path
  BY PathFacts DEF Unread, Reachable, IsNodes, FitsAt, IsEntry, IsBlocks
<1>2. /\ q \in Seq(Elem) /\ Rel(q, d) = y
      /\ d \in Prefixes(q) /\ d \in Ancestors(q) /\ HasPrefix(q, d)
  <2>1. d \in Seq(Elem) /\ y \in Seq(Elem) /\ y # Root
    BY <1>1
  <2>2. /\ q \in Seq(Elem) /\ Rel(q, d) = y
        /\ d \in Prefixes(q) /\ d \in Ancestors(q)
    BY <2>1, RelOfConcat
  <2> QED
    BY <2>1, <2>2, HasPrefixIsPrefix
<1>3. q \notin DOMAIN N
  BY <1>1, <1>2 DEF Reachable
<1>4. q \in Fresh(N, L, D)
  BY DEF Fresh
<1>5. ASSUME NEW c \in Unread(N, L, D), HasPrefix(q, c)
      PROVE  c = d
  <2>1. c \in DOMAIN N /\ c \notin L /\ c \in Seq(Elem)
    BY PathFacts DEF Unread, Reachable, IsNodes
  <2>2. c \in Prefixes(q)
    BY <1>2, <1>5, <2>1, HasPrefixIsPrefix
  <2>3. c \in Ancestors(d) \/ c = d \/ d \in Ancestors(c)
    BY <1>2, <2>2, PrefixesChain
  <2> QED
    BY <1>1, <2>1, <2>3 DEF Reachable
<1>6. Owner(N, L, D, q) = d
  BY <1>2, <1>5 DEF Owner
<1>7. LoadNodes(N, L, D)[q] = Fetch(N[d].blocks, y)
  BY <1>2, <1>3, <1>4, <1>6 DEF LoadNodes
<1> QED
  BY <1>1, <1>3, <1>4, <1>7

\* Every new node is one of those.
LEMMA FreshOrigin ==
    ASSUME NEW N, NEW L, NEW D, NEW q \in Fresh(N, L, D)
    PROVE  \E d \in Unread(N, L, D) : \E y \in DOMAIN N[d].blocks :
              q = d \o y /\ Parent(d \o y) \in D
BY DEF Fresh

\* Loading keeps a map of nodes reachable, and the nodes that it has.
LEMMA LoadReachable ==
    ASSUME NEW N, NEW L, NEW D, Reachable(N, L), Chain(D)
    PROVE  /\ Reachable(LoadNodes(N, L, D), LoadedDirs(N, L, D))
           /\ DOMAIN N \subseteq DOMAIN LoadNodes(N, L, D)
           /\ \A p \in DOMAIN N : LoadNodes(N, L, D)[p] = N[p]
           /\ L \subseteq LoadedDirs(N, L, D)
<1> DEFINE M == LoadNodes(N, L, D)
           K == LoadedDirs(N, L, D)
<1>1. /\ DOMAIN M = DOMAIN N \cup Fresh(N, L, D)
      /\ \A p \in DOMAIN N : M[p] = N[p]
      /\ M = [p \in DOMAIN M |-> M[p]]
  BY DEF LoadNodes
<1>2. L \subseteq K /\ K = L \cup {d \in (D \cap DOMAIN M) \ L : M[d].blocks # NoBlocks}
  BY DEF LoadedDirs, Unread
<1>3. ASSUME NEW q \in Fresh(N, L, D)
      PROVE  q \in Path /\ FitsAt(M[q], q)
  <2>0. PICK d \in Unread(N, L, D) : \E y \in DOMAIN N[d].blocks :
           q = d \o y /\ Parent(d \o y) \in D
    BY FreshOrigin
  <2>1. PICK y \in DOMAIN N[d].blocks : q = d \o y /\ Parent(d \o y) \in D
    BY <2>0
  <2>2. q \in Path /\ M[q] = Fetch(N[d].blocks, y)
    BY <2>1, FreshNode
  <2>3. /\ IsBlocks(N[d].blocks) /\ d \in Seq(Elem) /\ y \in Seq(Elem)
        /\ \A r \in DOMAIN N[d].blocks : d \o r \in Path
    BY PathFacts DEF Unread, Reachable, IsNodes, FitsAt, IsEntry, IsBlocks
  <2>4. IsEntry(M[q])
    BY <2>2, <2>3, FetchIsEntry
  <2>5. ASSUME NEW r \in DOMAIN M[q].blocks
        PROVE  q \o r \in Path
    <3>1. r \in Seq(Elem) /\ y \o r \in DOMAIN N[d].blocks
      BY <2>2, <2>3, FetchBelow
    <3>2. (d \o y) \o r = d \o (y \o r)
      BY <2>3, <3>1, ConcatAssociative
    <3> QED
      BY <2>1, <2>3, <3>1, <3>2
  <2> QED
    BY <2>2, <2>4, <2>5 DEF FitsAt
<1>4. IsNodes(M)
  BY <1>1, <1>3 DEF Reachable, IsNodes
<1>5. K \subseteq DOMAIN M
  BY <1>1, <1>2 DEF Reachable
<1> HIDE DEF M, K
<1>6. \A d \in K : M[d].kind = "dir"
  <2> SUFFICES ASSUME NEW d \in K
               PROVE  M[d].kind = "dir"
    OBVIOUS
  <2>1. CASE d \in L
    BY <1>1, <2>1 DEF Reachable
  <2>2. CASE M[d].blocks # NoBlocks
    BY <1>4, <1>5, <2>2, EmptyBlocks DEF IsNodes, FitsAt, IsEntry
  <2> QED
    BY <1>2, <2>1, <2>2
<1>7. ASSUME NEW q \in DOMAIN M, NEW a \in Ancestors(q)
      PROVE  a \in K
  <2>1. CASE q \in DOMAIN N
    BY <1>2, <2>1, <1>7 DEF Reachable
  <2>2. CASE q \in Fresh(N, L, D)
    <3>0. PICK d \in Unread(N, L, D) : \E y \in DOMAIN N[d].blocks :
             q = d \o y /\ Parent(d \o y) \in D
      BY <2>2, FreshOrigin
    <3>1. PICK y \in DOMAIN N[d].blocks : q = d \o y /\ Parent(d \o y) \in D
      BY <3>0
    <3>2. /\ d \in DOMAIN N /\ d \in D /\ d \notin L /\ N[d].blocks # NoBlocks
          /\ d \in Seq(Elem) /\ y \in Seq(Elem) \ {Root}
          /\ IsBlocks(N[d].blocks)
      BY PathFacts DEF Unread, Reachable, IsNodes, FitsAt, IsEntry, IsBlocks
    <3>3. CASE a \in Ancestors(d)
      BY <1>2, <3>2, <3>3 DEF Reachable
    <3>4. CASE \E s \in Ancestors(y) : a = d \o s
      <4>1. PICK s \in Ancestors(y) : a = d \o s
        BY <3>4
      <4>2. CASE s = Root
        <5>1. a = d
          BY <3>2, <4>1, <4>2, ConcatEmptySeq DEF Root
        <5> QED
          BY <1>1, <1>2, <3>2, <5>1
      <4>3. CASE s # Root
        <5>1. s \in DOMAIN N[d].blocks /\ s \in Seq(Elem) /\ s \in Prefixes(y) /\ s # y
          BY <3>2, <4>3, PrefixesSplit DEF IsBlocks
        <5>2. /\ q \in Seq(Elem) /\ q # Root /\ a \in Seq(Elem) /\ a # Root
              /\ d \in Ancestors(a)
          <6>1. d \in Seq(Elem) /\ y \in Seq(Elem) /\ y # Root
            BY <3>2
          <6>2. d \o y \in Seq(Elem) /\ d \o y # Root
            BY <6>1, RelOfConcat
          <6>3. d \o s \in Seq(Elem) /\ d \o s # Root /\ d \in Ancestors(d \o s)
            <7>1. d \in Seq(Elem) /\ s \in Seq(Elem) /\ s # Root
              BY <4>3, <5>1, <6>1
            <7> QED
              BY <7>1, RelOfConcat
          <6> QED
            BY <3>1, <4>1, <6>2, <6>3
        <5>3. a \in Prefixes(Parent(q))
          BY <1>7, <5>2, AncestorsOfKid
        <5>4. a \in D
          BY <3>1, <5>3 DEF Chain
        <5>5. Parent(a) \in D
          <6>1. Parent(a) \in Prefixes(a)
            BY <5>2, AncestorsOfKid, PrefixesSplit
          <6> QED
            BY <5>4, <6>1 DEF Chain
        <5>6. a \notin DOMAIN N /\ a \in Fresh(N, L, D) /\ M[a] = Fetch(N[d].blocks, s)
          BY <4>1, <5>1, <5>5, FreshNode DEF M
        <5>7. a \notin L
          BY <5>6 DEF Reachable
        <5>8. Rel(y, s) \in DOMAIN M[a].blocks
          <6>1. Rel(y, s) \in Seq(Elem) \ {Root} /\ s \o Rel(y, s) = y
            BY <3>2, <5>1, RelBack
          <6>2. DOMAIN Fetch(N[d].blocks, s).blocks =
                   {r \in Seq(Elem) \ {Root} : s \o r \in DOMAIN N[d].blocks}
            BY <3>2, <5>1, FetchBelow
          <6> QED
            BY <5>6, <6>1, <6>2
        <5>9. M[a].blocks # NoBlocks
          BY <5>8 DEF NoBlocks
        <5> QED
          BY <1>1, <1>2, <5>4, <5>6, <5>7, <5>9
      <4> QED
        BY <4>2, <4>3
    <3>5. d \in Seq(Elem) /\ y \in Seq(Elem) /\ a \in Ancestors(d \o y)
      BY <1>7, <3>1, <3>2
    <3> QED
      BY <3>3, <3>4, <3>5, AncestorsOfConcat
  <2> QED
    BY <1>1, <2>1, <2>2
<1> QED
  BY <1>1, <1>2, <1>4, <1>5, <1>6, <1>7 DEF Reachable, M, K

\* Loading more directories adds nodes and changes none.
LEMMA LoadMonotone ==
    ASSUME NEW N, NEW L, NEW D, NEW E, Reachable(N, L), Chain(D), Chain(E),
           D \subseteq E, NEW p \in DOMAIN LoadNodes(N, L, D)
    PROVE  /\ p \in DOMAIN LoadNodes(N, L, E)
           /\ LoadNodes(N, L, E)[p] = LoadNodes(N, L, D)[p]
<1>1. CASE p \in DOMAIN N
  BY <1>1, LoadReachable
<1>2. CASE p \in Fresh(N, L, D)
  <2>1. PICK d \in Unread(N, L, D) : \E y \in DOMAIN N[d].blocks :
           p = d \o y /\ Parent(d \o y) \in D
    BY <1>2, FreshOrigin
  <2>2. PICK y \in DOMAIN N[d].blocks : p = d \o y /\ Parent(d \o y) \in D
    BY <2>1
  <2>3. d \in Unread(N, L, E) /\ Parent(d \o y) \in E
    BY <2>2 DEF Unread
  <2>4. LoadNodes(N, L, D)[d \o y] = Fetch(N[d].blocks, y)
    BY <2>2, FreshNode
  <2>5. /\ LoadNodes(N, L, E)[d \o y] = Fetch(N[d].blocks, y)
        /\ d \o y \in Fresh(N, L, E)
    BY <2>3, FreshNode
  <2> QED
    BY <2>2, <2>4, <2>5 DEF LoadNodes
<1> QED
  BY <1>1, <1>2 DEF LoadNodes

\* The directories above a path, with and without it, are chains.
LEMMA PathChain ==
    ASSUME NEW p \in Path
    PROVE  /\ Chain(Prefixes(p)) /\ Chain(Ancestors(p))
           /\ Ancestors(p) \subseteq Prefixes(p)
<1>1. p \in Seq(Elem) /\ Prefixes(p) \subseteq Path
  BY PathFacts
<1>2. Prefixes(p) = Ancestors(p) \cup {p}
  BY <1>1, PrefixesSplit
<1>3. \A q \in Prefixes(p) : Prefixes(q) \subseteq Prefixes(p)
  BY <1>1, PrefixesTransitive
<1>4. \A q \in Ancestors(p) : Prefixes(q) \subseteq Ancestors(p)
  BY <1>1, <1>2, PrefixesTransitive
<1> QED
  BY <1>1, <1>2, <1>3, <1>4 DEF Chain

-----------------------------------------------------------------------------
(* The tree in memory. *)

\* The dirty nodes of x are directories, closed under going up, all on the
\* list, and without blocks that are not loaded.
DirtyClosed(x) ==
    /\ \A d \in x.dirty : x.node[d].kind = "dir" /\ Ancestors(d) \subseteq x.dirty
    /\ \A d \in x.dirtyNodes : x.node[d].kind = "dir"
    /\ x.dirty \subseteq x.dirtyNodes
    /\ \A d \in x.dirty \ x.loaded : x.node[d].blocks = NoBlocks

Shape(x) == IsTree(x) /\ Reachable(x.node, x.loaded) /\ DirtyClosed(x)

\* What the root file may hold.
RootFile == IsNodes(index.root) /\ DOMAIN index.root \subseteq {Root}

\* A tree without a root is empty.
LEMMA NoRootNoNodes ==
    ASSUME NEW x, Shape(x), ~HasRoot(x)
    PROVE  DOMAIN x.node = {} /\ x.loaded = {} /\ x.dirty = {} /\ x.dirtyNodes = {}
<1>1. ASSUME NEW p \in DOMAIN x.node
      PROVE  FALSE
  <2>1. p \in Path /\ p # Root
    BY DEF Shape, IsTree, IsNodes, HasRoot
  <2>2. p \in Seq(Elem)
    BY <2>1, PathFacts
  <2>3. Root \in Ancestors(p)
    BY <2>1, <2>2, AncestorsOfKid
  <2> QED
    BY <2>3 DEF Shape, Reachable, HasRoot
<1> QED
  BY <1>1 DEF Shape, IsTree

LEMMA loadRootShape ==
    ASSUME NEW x, Shape(x), RootFile
    PROVE  /\ Shape(loadRoot(x))
           /\ loadRoot(x).dirtyNodes = x.dirtyNodes
           /\ loadRoot(x).dirty = x.dirty
<1>1. CASE HasRoot(x)
  BY <1>1 DEF loadRoot
<1>2. CASE ~HasRoot(x)
  <2>1. x.loaded = {} /\ x.dirty = {} /\ x.dirtyNodes = {}
    BY <1>2, NoRootNoNodes
  <2>2. loadRoot(x) = [node |-> index.root, loaded |-> {}, dirty |-> {},
                       dirtyNodes |-> {}]
    BY <1>2, <2>1 DEF loadRoot, Shape, IsTree
  <2>3. IsTree(loadRoot(x)) /\ DirtyClosed(loadRoot(x))
    BY <2>2 DEF IsTree, DirtyClosed, RootFile
  <2>4. Reachable(loadRoot(x).node, loadRoot(x).loaded)
    <3>1. Root \in Seq(Elem)
      BY TreeAssumption, PathFacts
    <3>2. Ancestors(Root) = {}
      BY <3>1, AncestorsOfKid
    <3> QED
      BY <2>2, <3>2 DEF Reachable, RootFile
  <2> QED
    BY <2>1, <2>2, <2>3, <2>4 DEF Shape
<1> QED
  BY <1>1, <1>2

LEMMA LoadShape ==
    ASSUME NEW x, Shape(x), NEW D, Chain(D)
    PROVE  /\ Shape(Load(x, D))
           /\ Load(x, D).dirtyNodes = x.dirtyNodes
           /\ Load(x, D).dirty = x.dirty
           /\ Load(x, D).node = LoadNodes(x.node, x.loaded, D)
           /\ Load(x, D).loaded = LoadedDirs(x.node, x.loaded, D)
<1> DEFINE M == LoadNodes(x.node, x.loaded, D)
           K == LoadedDirs(x.node, x.loaded, D)
           y == Load(x, D)
<1>1. /\ Reachable(M, K)
      /\ DOMAIN x.node \subseteq DOMAIN M
      /\ \A p \in DOMAIN x.node : M[p] = x.node[p]
      /\ x.loaded \subseteq K
  BY LoadReachable DEF Shape
<1> HIDE DEF M, K
<1>2. y = [node |-> M, loaded |-> K, dirty |-> x.dirty, dirtyNodes |-> x.dirtyNodes]
  <2>1. x = [node |-> x.node, loaded |-> x.loaded, dirty |-> x.dirty,
             dirtyNodes |-> x.dirtyNodes]
    BY DEF Shape, IsTree
  <2>2. y = [x EXCEPT !.node = M, !.loaded = K]
    BY DEF Load, M, K
  <2> HIDE DEF y
  <2> QED
    BY <2>1, <2>2
<1> HIDE DEF y
<1>3. IsTree(y)
  BY <1>1, <1>2 DEF Shape, IsTree, Reachable
<1>4. DirtyClosed(y)
  BY <1>1, <1>2 DEF Shape, IsTree, DirtyClosed
<1> QED
  BY <1>1, <1>2, <1>3, <1>4 DEF Shape, y, M, K

\* loadPath and loadDir keep the shape; what loadPath has in memory loadDir
\* has too.
LEMMA loadShape ==
    ASSUME NEW x, Shape(x), RootFile, NEW p \in Path
    PROVE  /\ Shape(loadPath(x, p)) /\ Shape(loadDir(x, p))
           /\ loadPath(x, p).dirtyNodes = x.dirtyNodes
           /\ loadDir(x, p).dirtyNodes = x.dirtyNodes
           /\ \A q \in DOMAIN loadPath(x, p).node :
                 /\ q \in DOMAIN loadDir(x, p).node
                 /\ loadDir(x, p).node[q] = loadPath(x, p).node[q]
<1> DEFINE r == loadRoot(x)
<1>1. Shape(r) /\ r.dirtyNodes = x.dirtyNodes
  BY loadRootShape
<1> HIDE DEF r
<1>2. Chain(Prefixes(p)) /\ Chain(Ancestors(p)) /\ Ancestors(p) \subseteq Prefixes(p)
  BY PathChain
<1>3. /\ Shape(Load(r, Ancestors(p)))
      /\ Load(r, Ancestors(p)).dirtyNodes = r.dirtyNodes
      /\ Load(r, Ancestors(p)).node = LoadNodes(r.node, r.loaded, Ancestors(p))
  BY <1>1, <1>2, LoadShape
<1>4. /\ Shape(Load(r, Prefixes(p)))
      /\ Load(r, Prefixes(p)).dirtyNodes = r.dirtyNodes
      /\ Load(r, Prefixes(p)).node = LoadNodes(r.node, r.loaded, Prefixes(p))
  BY <1>1, <1>2, LoadShape
<1>5. \A q \in DOMAIN LoadNodes(r.node, r.loaded, Ancestors(p)) :
         /\ q \in DOMAIN LoadNodes(r.node, r.loaded, Prefixes(p))
         /\ LoadNodes(r.node, r.loaded, Prefixes(p))[q]
               = LoadNodes(r.node, r.loaded, Ancestors(p))[q]
  <2>1. Reachable(r.node, r.loaded)
    BY <1>1 DEF Shape
  <2> QED
    BY <1>2, <2>1, LoadMonotone
<1> QED
  BY <1>1, <1>3, <1>4, <1>5 DEF loadPath, loadDir, r

\* A new sequence number changes nothing else.
LEMMA NextSeqFits ==
    ASSUME NEW e, NEW p, FitsAt(e, p)
    PROVE  /\ FitsAt(NextSeq(e), p)
           /\ NextSeq(e).kind = e.kind /\ NextSeq(e).blocks = e.blocks
<1>1. e = [kind |-> e.kind, seq |-> e.seq, val |-> e.val, blocks |-> e.blocks]
  BY DEF FitsAt, IsEntry, Dress
<1>2. Strip(e) \in Bare
  BY DEF FitsAt, IsEntry
<1>3. e.kind \in Kinds /\ e.seq \in Nat /\ e.val \in Val \cup {NoVal}
  BY <1>2 DEF Strip, Bare
<1>4. NextSeq(e) = [kind |-> e.kind, seq |-> e.seq + 1, val |-> e.val,
                    blocks |-> e.blocks]
  BY <1>1 DEF NextSeq
<1>5. Strip(NextSeq(e)) \in Bare
  BY <1>3, <1>4 DEF Strip, Bare
<1> QED
  BY <1>4, <1>5 DEF FitsAt, IsEntry, Dress

\* A tree in which only p may have to be added to the dirty nodes.
LEMMA markDirtyShape ==
    ASSUME NEW x, Shape(x), NEW p \in DOMAIN x.node, x.node[p].kind = "dir",
           p \in x.loaded \/ x.node[p].blocks = NoBlocks
    PROVE  /\ Shape(markDirty(x, p))
           /\ DOMAIN markDirty(x, p).node = DOMAIN x.node
<1> DEFINE N == x.node
           M == [q \in DOMAIN N |-> IF q \in Prefixes(p) THEN NextSeq(N[q]) ELSE N[q]]
           y == markDirty(x, p)
<1>1. /\ y = [node |-> M, loaded |-> x.loaded, dirty |-> x.dirty \cup Prefixes(p),
              dirtyNodes |-> x.dirtyNodes \cup Prefixes(p)]
  <2>1. x = [node |-> x.node, loaded |-> x.loaded, dirty |-> x.dirty,
             dirtyNodes |-> x.dirtyNodes]
    BY DEF Shape, IsTree
  <2>2. y = [x EXCEPT !.node = M, !.dirty = x.dirty \cup Prefixes(p),
                      !.dirtyNodes = x.dirtyNodes \cup Prefixes(p)]
    BY DEF markDirty
  <2> HIDE DEF y, M
  <2> QED
    BY <2>1, <2>2
<1>2. /\ \A q \in DOMAIN N : FitsAt(N[q], q)
      /\ DOMAIN N \subseteq Path /\ p \in Path
  BY DEF Shape, IsTree, IsNodes
<1>3. /\ DOMAIN M = DOMAIN N /\ M = [q \in DOMAIN M |-> M[q]]
      /\ \A q \in DOMAIN N : /\ FitsAt(M[q], q) /\ M[q].kind = N[q].kind
                            /\ M[q].blocks = N[q].blocks
  BY <1>2, NextSeqFits
<1> HIDE DEF M, y
<1>4. p \in Seq(Elem) /\ Prefixes(p) = Ancestors(p) \cup {p}
  BY <1>2, PathFacts, PrefixesSplit
<1>5. Ancestors(p) \subseteq x.loaded /\ x.loaded \subseteq DOMAIN N
  BY DEF Shape, Reachable
<1>6. \A q \in Prefixes(p) : q \in DOMAIN N /\ N[q].kind = "dir"
  BY <1>4, <1>5 DEF Shape, Reachable
<1>7. \A q \in Prefixes(p) : Ancestors(q) \subseteq Prefixes(p)
  BY <1>4, PrefixesTransitive
<1>8. IsTree(y)
  BY <1>1, <1>2, <1>3, <1>6 DEF Shape, IsTree, IsNodes
<1>9. Reachable(y.node, y.loaded)
  BY <1>1, <1>3, <1>8 DEF Shape, IsTree, Reachable
<1>10. DirtyClosed(y)
  <2>1. \A d \in y.dirty : y.node[d].kind = "dir" /\ Ancestors(d) \subseteq y.dirty
    BY <1>1, <1>3, <1>6, <1>7 DEF Shape, IsTree, DirtyClosed
  <2>2. \A d \in y.dirtyNodes : y.node[d].kind = "dir"
    BY <1>1, <1>3, <1>6 DEF Shape, IsTree, DirtyClosed
  <2>3. y.dirty \subseteq y.dirtyNodes
    BY <1>1 DEF Shape, DirtyClosed
  <2>4. \A d \in y.dirty \ y.loaded : y.node[d].blocks = NoBlocks
    BY <1>1, <1>3, <1>4, <1>5 DEF Shape, IsTree, DirtyClosed
  <2> QED
    BY <2>1, <2>2, <2>3, <2>4 DEF DirtyClosed
<1> QED
  BY <1>1, <1>3, <1>8, <1>9, <1>10 DEF Shape, y

\* put of an entry that fits keeps the shape.
LEMMA putShape ==
    ASSUME NEW x, Shape(x), RootFile, NEW p \in Path, p # Root,
           NEW e, FitsAt(e, p), CanPut(x, p)
    PROVE  Shape(put(x, p, e)) /\ p \in DOMAIN put(x, p, e).node
<1> DEFINE par == Parent(p)
           y == IF par \in x.dirty THEN loadPath(x, par) ELSE loadDir(x, par)
           old == {q \in DOMAIN y.node : HasPrefix(q, p)}
           N == [q \in (DOMAIN y.node \ old) \cup {p} |-> IF q = p THEN e ELSE y.node[q]]
           A == [node |-> N, loaded |-> (y.loaded \cup {par}) \ old,
                 dirty |-> y.dirty \ old, dirtyNodes |-> y.dirtyNodes \ old]
<1>1. put(x, p, e) =
         markDirty(A, IF e.kind = "dir" /\ e.blocks = NoBlocks THEN p ELSE par)
  BY DEF put
<1>2. /\ p \in Seq(Elem) /\ par \in Path /\ par \in Seq(Elem)
      /\ Ancestors(p) = Prefixes(par) /\ Prefixes(par) = Ancestors(par) \cup {par}
      /\ p \in Prefixes(p) /\ p \notin Ancestors(p)
  BY PathFacts, AncestorsOfKid, PrefixesSplit
<1>3. Shape(y) /\ par \in DOMAIN y.node /\ y.node[par].kind = "dir"
  <2> HIDE DEF par
  <2>0. par \in Path
    BY <1>2
  <2>1. /\ Shape(loadPath(x, par)) /\ Shape(loadDir(x, par))
        /\ \A q \in DOMAIN loadPath(x, par).node :
              /\ q \in DOMAIN loadDir(x, par).node
              /\ loadDir(x, par).node[q] = loadPath(x, par).node[q]
    BY <2>0, loadShape, ZenonT(60)
  <2>2. par \in DOMAIN loadPath(x, par).node /\ loadPath(x, par).node[par].kind = "dir"
    BY DEF CanPut, IsDir, par
  <2>3. CASE par \in x.dirty
    BY <2>1, <2>2, <2>3
  <2>4. CASE par \notin x.dirty
    BY <2>1, <2>2, <2>4
  <2> QED
    BY <2>3, <2>4
<1> HIDE DEF y, par
<1>4. /\ \A q \in DOMAIN y.node \ old : Ancestors(q) \cap old = {}
      /\ Ancestors(p) \cap old = {}
      /\ p \notin DOMAIN y.node \ old
  <2>1. \A q \in DOMAIN y.node : q \in Seq(Elem)
    BY <1>3, PathFacts DEF Shape, IsTree, IsNodes
  <2>2. \A q \in old : q \in Seq(Elem) /\ p \in Prefixes(q)
    BY <1>2, <2>1, HasPrefixIsPrefix
  <2>3. ASSUME NEW q \in DOMAIN y.node \ old, NEW a \in Ancestors(q), a \in old
        PROVE  FALSE
    <3>1. q \in Seq(Elem) /\ a \in Prefixes(q) /\ p \in Prefixes(a)
      BY <2>1, <2>2, <2>3, PrefixesSplit
    <3>2. p \in Prefixes(q)
      BY <3>1, PrefixesTransitive
    <3>3. HasPrefix(q, p)
      BY <1>2, <3>1, <3>2, HasPrefixIsPrefix
    <3> QED
      BY <3>3
  <2>4. ASSUME NEW a \in Ancestors(p), a \in old
        PROVE  FALSE
    <3>1. a \in Prefixes(p) /\ p \in Prefixes(a)
      BY <1>2, <2>2, <2>4, PrefixesSplit
    <3>2. p \in Ancestors(p)
      BY <1>2, <3>1, PrefixesTransitive
    <3> QED
      BY <1>2, <3>2
  <2>5. HasPrefix(p, p)
    BY <1>2, HasPrefixIsPrefix
  <2> QED
    BY <2>3, <2>4, <2>5
<1>5. /\ DOMAIN N = (DOMAIN y.node \ old) \cup {p}
      /\ N = [q \in DOMAIN N |-> N[q]]
      /\ N[p] = e
      /\ \A q \in DOMAIN y.node \ old : N[q] = y.node[q]
  BY <1>4
<1>6. old \subseteq DOMAIN y.node
  OBVIOUS
<1> HIDE DEF N, old
<1>7. A = [node |-> N, loaded |-> (y.loaded \cup {par}) \ old,
           dirty |-> y.dirty \ old, dirtyNodes |-> y.dirtyNodes \ old]
  OBVIOUS
<1> HIDE DEF A
<1>8. /\ IsNodes(y.node) /\ y.loaded \subseteq DOMAIN y.node
      /\ y.dirty \subseteq DOMAIN y.node /\ y.dirtyNodes \subseteq DOMAIN y.node
      /\ \A d \in y.loaded : y.node[d].kind = "dir"
      /\ \A q \in DOMAIN y.node : Ancestors(q) \subseteq y.loaded
  BY <1>3 DEF Shape, IsTree, Reachable
<1>9. par \notin old /\ par \in DOMAIN N /\ N[par].kind = "dir"
  BY <1>2, <1>3, <1>4, <1>5
<1>10. IsNodes(N)
  BY <1>5, <1>8 DEF IsNodes
<1>11. IsTree(A)
  BY <1>5, <1>7, <1>8, <1>9, <1>10 DEF IsTree
<1>12. Reachable(A.node, A.loaded)
  <2>1. \A d \in A.loaded : A.node[d].kind = "dir"
    BY <1>5, <1>7, <1>8, <1>9
  <2>2. \A q \in DOMAIN A.node : Ancestors(q) \subseteq A.loaded
    BY <1>2, <1>3, <1>4, <1>5, <1>7, <1>8
  <2> QED
    BY <1>7, <1>10, <1>11, <2>1, <2>2 DEF Reachable, IsTree
<1>13. DirtyClosed(A)
  <2>1. /\ \A d \in y.dirty : y.node[d].kind = "dir" /\ Ancestors(d) \subseteq y.dirty
        /\ \A d \in y.dirtyNodes : y.node[d].kind = "dir"
        /\ y.dirty \subseteq y.dirtyNodes
        /\ \A d \in y.dirty \ y.loaded : y.node[d].blocks = NoBlocks
    BY <1>3 DEF Shape, DirtyClosed
  <2> QED
    BY <1>4, <1>5, <1>7, <1>8, <2>1 DEF DirtyClosed
<1>14. Shape(A)
  BY <1>11, <1>12, <1>13 DEF Shape
<1>15. /\ p \in DOMAIN A.node /\ A.node[p] = e
       /\ par \in DOMAIN A.node /\ A.node[par].kind = "dir" /\ par \in A.loaded
  BY <1>5, <1>7, <1>9
<1>16. CASE e.kind = "dir" /\ e.blocks = NoBlocks
  BY <1>1, <1>14, <1>15, <1>16, markDirtyShape
<1>17. CASE ~(e.kind = "dir" /\ e.blocks = NoBlocks)
  BY <1>1, <1>14, <1>15, <1>17, markDirtyShape
<1> QED
  BY <1>16, <1>17

\* delete of a node without kids in memory keeps the shape.
LEMMA deleteShape ==
    ASSUME NEW x, Shape(x), RootFile, NEW p \in Path, p # Root, CanDelete(x, p)
    PROVE  Shape(delete(x, p))
<1> DEFINE par == Parent(p)
           y == loadDir(x, par)
           N == [q \in DOMAIN y.node \ {p} |-> y.node[q]]
           A == [node |-> N, loaded |-> y.loaded \ {p},
                 dirty |-> y.dirty \ {p}, dirtyNodes |-> y.dirtyNodes \ {p}]
<1>1. delete(x, p) = markDirty(A, par)
  BY DEF delete
<1>2. /\ p \in Seq(Elem) /\ par \in Path /\ par \in Ancestors(p) /\ p \notin Ancestors(p)
  BY PathFacts, AncestorsOfKid, PrefixesSplit
<1>3. Shape(y) /\ p \in DOMAIN y.node /\ Kids(y.node, p) = {}
  BY <1>2, loadShape DEF CanDelete
<1> HIDE DEF y, par
<1>4. ASSUME NEW q \in DOMAIN y.node, p \in Ancestors(q)
      PROVE  FALSE
  <2>1. q \in Seq(Elem)
    BY <1>3, PathFacts DEF Shape, IsTree, IsNodes
  <2>2. PICK k \in Prefixes(q) : k # Root /\ Parent(k) = p
    BY <1>4, <2>1, KidBetween
  <2>3. k \in Ancestors(q) \/ k = q
    BY <2>1, PrefixesSplit
  <2>4. k \in DOMAIN y.node
    BY <1>3, <2>3 DEF Shape, Reachable
  <2> QED
    BY <1>3, <2>2, <2>4 DEF Kids
<1>5. /\ DOMAIN N = DOMAIN y.node \ {p} /\ N = [q \in DOMAIN N |-> N[q]]
      /\ \A q \in DOMAIN N : N[q] = y.node[q]
  OBVIOUS
<1> HIDE DEF N
<1>6. A = [node |-> N, loaded |-> y.loaded \ {p}, dirty |-> y.dirty \ {p},
           dirtyNodes |-> y.dirtyNodes \ {p}]
  OBVIOUS
<1> HIDE DEF A
<1>7. /\ IsNodes(y.node) /\ y.loaded \subseteq DOMAIN y.node
      /\ y.dirty \subseteq DOMAIN y.node /\ y.dirtyNodes \subseteq DOMAIN y.node
      /\ \A d \in y.loaded : y.node[d].kind = "dir"
      /\ \A q \in DOMAIN y.node : Ancestors(q) \subseteq y.loaded
  BY <1>3 DEF Shape, IsTree, Reachable
<1>8. IsTree(A)
  BY <1>5, <1>6, <1>7 DEF IsTree, IsNodes
<1>9. Reachable(A.node, A.loaded)
  BY <1>4, <1>5, <1>6, <1>7, <1>8 DEF IsTree, Reachable
<1>10. DirtyClosed(A)
  <2>1. /\ \A d \in y.dirty : y.node[d].kind = "dir" /\ Ancestors(d) \subseteq y.dirty
        /\ \A d \in y.dirtyNodes : y.node[d].kind = "dir"
        /\ y.dirty \subseteq y.dirtyNodes
        /\ \A d \in y.dirty \ y.loaded : y.node[d].blocks = NoBlocks
    BY <1>3 DEF Shape, DirtyClosed
  <2> QED
    BY <1>4, <1>5, <1>6, <1>7, <2>1 DEF DirtyClosed
<1>11. par \in A.loaded
  BY <1>2, <1>3, <1>6, <1>7
<1>12. par \in DOMAIN A.node /\ A.node[par].kind = "dir"
  BY <1>9, <1>11 DEF Reachable
<1> QED
  BY <1>1, <1>8, <1>9, <1>10, <1>11, <1>12, markDirtyShape DEF Shape

-----------------------------------------------------------------------------
(* Storing. *)

\* What store packs for d are blocks, and they fit at d.
LEMMA PackIsBlocks ==
    ASSUME NEW N, IsNodes(N), NEW d \in Path
    PROVE  IsBlocks(Pack(N, d)) /\ \A r \in DOMAIN Pack(N, d) : d \o r \in Path
<1> DEFINE P == Pack(N, d)
<1>1. ASSUME NEW k \in Kids(N, d)
      PROVE  /\ k \in DOMAIN N /\ k \in Path /\ k \in Seq(Elem) /\ k # Root
             /\ Parent(k) = d /\ FitsAt(N[k], k)
  BY <1>1, PathFacts DEF Kids, IsNodes
<1>2. /\ DOMAIN P = UNION {{Rel(k, d)} \cup {Rel(k, d) \o r : r \in DOMAIN N[k].blocks}
                             : k \in Kids(N, d)}
      /\ \A x \in DOMAIN P :
            P[x] = IF Len(x) = 1 THEN Strip(N[Append(d, Head(x))])
                   ELSE N[Append(d, Head(x))].blocks[Tail(x)]
      /\ P = [x \in DOMAIN P |-> P[x]]
  BY DEF Pack
<1> HIDE DEF P
<1>3. ASSUME NEW k \in Kids(N, d)
      PROVE  /\ Rel(k, d) \in DOMAIN P /\ P[Rel(k, d)] = Strip(N[k])
             /\ Rel(k, d) \in Seq(Elem) \ {Root} /\ Len(Rel(k, d)) = 1
             /\ d \o Rel(k, d) = k
  <2>1. k \in Seq(Elem) /\ k # Root /\ Root \in Seq(Elem) /\ Parent(k) = d
    BY <1>1, PrefixesSplit
  <2>2. /\ Rel(k, d) \in Seq(Elem) /\ Rel(k, d) # Root /\ Len(Rel(k, d)) = 1
        /\ Append(d, Head(Rel(k, d))) = k
    <3>1. KidSplit(Elem, k, Root)
      BY <2>1, RelOfKid
    <3> QED
      BY <2>1, <3>1 DEF KidSplit
  <2>3. Rel(k, d) \in DOMAIN P
    BY <1>2
  <2>4. d \in Prefixes(k)
    BY <2>1, AncestorsOfKid, PrefixesSplit
  <2>5. d \o Rel(k, d) = k
    BY <2>1, <2>4, RelBack
  <2> QED
    BY <1>2, <2>2, <2>3, <2>5
<1>4. ASSUME NEW k \in Kids(N, d), NEW s \in DOMAIN N[k].blocks
      PROVE  /\ Rel(k, d) \o s \in DOMAIN P /\ P[Rel(k, d) \o s] = N[k].blocks[s]
             /\ s \in Seq(Elem) \ {Root} /\ Rel(k, d) \o s \in Seq(Elem) \ {Root}
             /\ d \o (Rel(k, d) \o s) = k \o s
  <2>1. s \in Seq(Elem) /\ s # Root
    BY <1>1 DEF FitsAt, IsEntry, IsBlocks
  <2>2. Len(s) \in Nat \ {0}
    BY <2>1, EmptySeq DEF Root
  <2>3. k \in Seq(Elem) /\ k # Root /\ Parent(k) = d
    BY <1>1
  <2>a. LET x == Rel(k, Parent(k))
        IN  /\ x \o s \in Seq(Elem) /\ x \o s # Root /\ Len(x \o s) = 1 + Len(s)
            /\ Append(Parent(k), Head(x \o s)) = k /\ Tail(x \o s) = s
            /\ Parent(k) \o (x \o s) = k \o s
    <3>1. KidSplit(Elem, k, s)
      BY <2>1, <2>3, RelOfKid
    <3> QED
      BY <3>1 DEF KidSplit
  <2>4. /\ Rel(k, d) \o s \in Seq(Elem) /\ Rel(k, d) \o s # Root
        /\ Len(Rel(k, d) \o s) = 1 + Len(s)
        /\ Append(d, Head(Rel(k, d) \o s)) = k /\ Tail(Rel(k, d) \o s) = s
        /\ d \o (Rel(k, d) \o s) = k \o s
    BY <2>3, <2>a, SMTT(60)
  <2>b. Rel(k, d) \o s \in {Rel(k, d) \o r : r \in DOMAIN N[k].blocks}
    OBVIOUS
  <2>5. Rel(k, d) \o s \in DOMAIN P
    BY <1>2, <2>b
  <2>6. Len(Rel(k, d) \o s) # 1
    BY <2>2, <2>4
  <2> QED
    BY <1>2, <2>1, <2>4, <2>5, <2>6
<1>5. ASSUME NEW x \in DOMAIN P
      PROVE  \E k \in Kids(N, d) :
                x = Rel(k, d) \/ \E s \in DOMAIN N[k].blocks : x = Rel(k, d) \o s
  BY <1>2
<1>6. ASSUME NEW x \in Seq(Elem), Len(x) = 1, NEW q \in Ancestors(x)
      PROVE  q = Root
  BY <1>6, SubSeqEmpty DEF Ancestors, Root
<1>7. ASSUME NEW x \in DOMAIN P
      PROVE  /\ x \in Seq(Elem) \ {Root} /\ P[x] \in Bare /\ d \o x \in Path
             /\ \A q \in Ancestors(x) \ {Root} : q \in DOMAIN P /\ P[q].kind = "dir"
  <2>1. PICK k \in Kids(N, d) :
           x = Rel(k, d) \/ \E s \in DOMAIN N[k].blocks : x = Rel(k, d) \o s
    BY <1>5
  <2>2. /\ k \in Path /\ IsEntry(N[k]) /\ IsBlocks(N[k].blocks)
        /\ \A s \in DOMAIN N[k].blocks : k \o s \in Path
        /\ Strip(N[k]) \in Bare /\ Strip(N[k]).kind = N[k].kind
    BY <1>1 DEF FitsAt, IsEntry, Strip
  <2>3. CASE x = Rel(k, d)
    BY <1>3, <1>6, <2>2, <2>3
  <2>4. CASE \E s \in DOMAIN N[k].blocks : x = Rel(k, d) \o s
    <3>1. PICK s \in DOMAIN N[k].blocks : x = Rel(k, d) \o s
      BY <2>4
    <3>2. x \in Seq(Elem) \ {Root} /\ P[x] \in Bare /\ d \o x \in Path
      BY <1>4, <2>2, <3>1 DEF IsBlocks
    <3>3. ASSUME NEW q \in Ancestors(x) \ {Root}
          PROVE  q \in DOMAIN P /\ P[q].kind = "dir"
      <4> DEFINE w == Rel(k, d)
      <4>1. w \in Seq(Elem) /\ s \in Seq(Elem) /\ q \in Ancestors(w \o s)
        BY <1>3, <1>4, <3>1
      <4> HIDE DEF w
      <4>a. q \in Ancestors(w) \/ \E u \in Ancestors(s) : q = w \o u
        BY <4>1, AncestorsOfConcat, SMTT(60)
      <4> USE DEF w
      <4>2. q \in Ancestors(Rel(k, d)) \/ \E u \in Ancestors(s) : q = Rel(k, d) \o u
        BY <4>a
      <4>3. q \notin Ancestors(Rel(k, d))
        BY <1>3, <1>6
      <4>4. PICK u \in Ancestors(s) : q = Rel(k, d) \o u
        BY <4>2, <4>3
      <4>5. CASE u = Root
        <5>1. q = Rel(k, d)
          BY <4>1, <4>4, <4>5, ConcatEmptySeq DEF Root
        <5>2. N[k].kind = "dir"
          BY <2>2 DEF IsEntry
        <5> QED
          BY <1>3, <2>2, <5>1, <5>2
      <4>6. CASE u # Root
        <5>1. u \in DOMAIN N[k].blocks /\ N[k].blocks[u].kind = "dir"
          BY <2>2, <4>6 DEF IsBlocks
        <5> QED
          BY <1>4, <4>4, <5>1
      <4> QED
        BY <4>5, <4>6
    <3> QED
      BY <3>2, <3>3
  <2> QED
    BY <2>1, <2>3, <2>4
<1>8. IsBlocks(P)
  BY <1>2, <1>7 DEF IsBlocks
<1> QED
  BY <1>7, <1>8 DEF P

\* A directory with other blocks, and fewer dirty nodes.
SetBlocks(x, d, b, E) ==
    [node |-> [x.node EXCEPT ![d].blocks = b], loaded |-> x.loaded,
     dirty |-> E, dirtyNodes |-> x.dirtyNodes]

\* The tree keeps its shape when a directory gets blocks that fit, and no node
\* that stays dirty loses a dirty ancestor or gets kids that it hides.
LEMMA SetBlocksShape ==
    ASSUME NEW x, Shape(x), NEW d \in DOMAIN x.node, x.node[d].kind = "dir",
           NEW b, IsBlocks(b), \A r \in DOMAIN b : d \o r \in Path,
           NEW E, E \subseteq x.dirty, \A q \in E : Ancestors(q) \subseteq E,
           d \in E => b = NoBlocks
    PROVE  /\ Shape(SetBlocks(x, d, b, E))
           /\ DOMAIN SetBlocks(x, d, b, E).node = DOMAIN x.node
<1> DEFINE M == [x.node EXCEPT ![d].blocks = b]
           A == SetBlocks(x, d, b, E)
<1>1. /\ A = [node |-> M, loaded |-> x.loaded, dirty |-> E,
              dirtyNodes |-> x.dirtyNodes]
      /\ A.node = M /\ A.loaded = x.loaded /\ A.dirty = E
      /\ A.dirtyNodes = x.dirtyNodes
  BY DEF SetBlocks
<1>2. x.node[d] = [kind |-> x.node[d].kind, seq |-> x.node[d].seq,
                   val |-> x.node[d].val, blocks |-> x.node[d].blocks]
  BY DEF Shape, IsTree, IsNodes, FitsAt, IsEntry, Dress
<1>3. /\ DOMAIN M = DOMAIN x.node
      /\ M = [p \in DOMAIN M |-> M[p]]
      /\ \A p \in DOMAIN x.node : p # d => M[p] = x.node[p]
      /\ M[d] = [x.node[d] EXCEPT !.blocks = b]
  OBVIOUS
<1>4. M[d] = [kind |-> x.node[d].kind, seq |-> x.node[d].seq,
              val |-> x.node[d].val, blocks |-> b]
  BY <1>2, <1>3
<1> HIDE DEF M, A
<1>5. Strip(x.node[d]) \in Bare
  BY DEF Shape, IsTree, IsNodes, FitsAt, IsEntry
<1>6. FitsAt(M[d], d) /\ M[d].kind = "dir" /\ M[d].blocks = b
  <2>1. /\ M[d].kind = x.node[d].kind /\ M[d].seq = x.node[d].seq
        /\ M[d].val = x.node[d].val /\ M[d].blocks = b
    BY <1>4
  <2>2. Strip(M[d]) \in Bare
    BY <1>5, <2>1 DEF Strip
  <2>3. M[d] = Dress(M[d], M[d].blocks)
    BY <1>4, <2>1 DEF Dress
  <2> QED
    BY <2>1, <2>2, <2>3 DEF FitsAt, IsEntry
<1>7. \A p \in DOMAIN x.node : M[p].kind = x.node[p].kind
  BY <1>3, <1>6
<1>8. IsTree(A)
  BY <1>1, <1>3, <1>6 DEF Shape, IsTree, IsNodes
<1>9. Reachable(A.node, A.loaded)
  BY <1>1, <1>3, <1>6, <1>7 DEF Shape, Reachable, IsTree, IsNodes
<1>10. DirtyClosed(A)
  <2>1. /\ x.dirty \subseteq DOMAIN x.node /\ x.dirtyNodes \subseteq DOMAIN x.node
        /\ x.dirty \subseteq x.dirtyNodes
        /\ \A q \in x.dirtyNodes : x.node[q].kind = "dir"
        /\ \A q \in x.dirty \ x.loaded : x.node[q].blocks = NoBlocks
    BY DEF Shape, DirtyClosed, IsTree
  <2>2. \A q \in x.dirtyNodes : M[q].kind = "dir"
    BY <1>7, <2>1
  <2>3. \A q \in E \ x.loaded : M[q].blocks = NoBlocks
    BY <1>3, <1>6, <2>1
  <2> QED
    BY <1>1, <2>1, <2>2, <2>3 DEF DirtyClosed
<1> QED
  BY <1>1, <1>3, <1>8, <1>9, <1>10 DEF Shape, A

\* Nothing above a path is as long.
LEMMA AncestorsAreShorter ==
    ASSUME NEW p \in Path, NEW a \in Ancestors(p)
    PROVE  Len(a) < Len(p)
<1>1. p \in Seq(Elem) /\ Len(p) \in Nat
  BY PathFacts, LenProperties
<1>2. PICK n \in 0 .. Len(p) - 1 : a = SubSeq(p, 1, n)
  BY DEF Ancestors
<1>3. Len(SubSeq(p, 1, n)) = n
  BY <1>1, SubSeqProperties
<1> QED
  BY <1>1, <1>2, <1>3

-----------------------------------------------------------------------------
(* The inductive invariant, and its parts. *)

LogOK(l) ==
    /\ l = [i \in 1..Len(l) |-> l[i]]
    /\ Len(l) \in 0..MaxLog
    /\ \A i \in 1..Len(l) : IsRecord(l[i])

IndexOK ==
    /\ index = [offset |-> index.offset, root |-> index.root]
    /\ index.offset \in 0..MaxLog
    /\ RootFile

ControlOK ==
    /\ status \in {"down", "replay", "up", "failed"}
    /\ phase \in {"idle", "store", "root", "delete", "truncate"}
    /\ cont \in {"return", "delete", "close"}
    /\ curr \in 0..MaxLog
    /\ fails \in 0..MaxFails

FlushOK ==
    /\ todo \subseteq t.dirtyNodes
    /\ phase # "idle" => status = "up" /\ HasRoot(t)
    /\ phase = "store" => t.dirty \subseteq todo
    /\ phase # "store" => todo = {}
    /\ phase \in {"root", "delete", "truncate"} => t.dirty = {}

\* The invariant is what its parts say.
LEMMA IInvParts ==
    IInv <=> Shape(t) /\ LogOK(log) /\ IndexOK /\ ControlOK /\ FlushOK
<1>1. IInv => LogOK(log) /\ IndexOK /\ ControlOK /\ FlushOK
  BY DEF IInv, TypeOK, DirtyReachesRoot, LogOK, IndexOK, RootFile, ControlOK, FlushOK
<1>2. IInv => IsTree(t) /\ Reachable(t.node, t.loaded) /\ DirtyClosed(t)
  BY DEF IInv, TypeOK, WellFormed, DirtyReachesRoot, NoHiddenKids, IsTree,
         Reachable, DirtyClosed
<1>3. ASSUME Shape(t), LogOK(log), IndexOK, ControlOK, FlushOK
      PROVE  IInv
  <2>1. TypeOK
    BY <1>3 DEF Shape, LogOK, IndexOK, RootFile, ControlOK, FlushOK, TypeOK
  <2>2. WellFormed
    BY <1>3 DEF Shape, Reachable, WellFormed
  <2>3. DirtyReachesRoot /\ NoHiddenKids
    BY <1>3 DEF Shape, DirtyClosed, FlushOK, DirtyReachesRoot, NoHiddenKids
  <2> QED
    BY <2>1, <2>2, <2>3 DEF IInv
<1> QED
  BY <1>1, <1>2, <1>3 DEF Shape

\* The same after a step.
LEMMA IInvNext ==
    ASSUME Shape(t'), LogOK(log'), IndexOK', ControlOK', FlushOK'
    PROVE  IInv'
<1>1. TypeOK'
  BY DEF Shape, LogOK, IndexOK, RootFile, ControlOK, FlushOK, TypeOK
<1>2. WellFormed'
  BY DEF Shape, Reachable, WellFormed
<1>3. DirtyReachesRoot' /\ NoHiddenKids'
  BY DEF Shape, DirtyClosed, FlushOK, DirtyReachesRoot, NoHiddenKids
<1> QED
  BY <1>1, <1>2, <1>3 DEF IInv

\* The tree that New starts with, or any tree that was closed.
LEMMA EmptyTreeShape ==
    Shape(EmptyTree) /\ EmptyTree.dirty = {} /\ EmptyTree.dirtyNodes = {}
BY DEF EmptyTree, Shape, IsTree, Reachable, DirtyClosed, IsNodes, NoNodes

\* A tree with nothing but a root in memory, not read and not dirty.
LEMMA RootOnlyShape ==
    ASSUME NEW N, IsNodes(N), DOMAIN N \subseteq {Root},
           NEW x, x = [EmptyTree EXCEPT !.node = N]
    PROVE  /\ Shape(x)
           /\ x.node = N /\ x.loaded = {} /\ x.dirty = {} /\ x.dirtyNodes = {}
<1>1. x = [node |-> N, loaded |-> {}, dirty |-> {}, dirtyNodes |-> {}]
  BY DEF EmptyTree
<1>2. \A p \in DOMAIN N : Ancestors(p) = {}
  BY DEF Ancestors, Root
<1>3. x.node = N /\ x.loaded = {} /\ x.dirty = {} /\ x.dirtyNodes = {}
  BY <1>1
<1>4. IsTree(x)
  BY <1>1, <1>3 DEF IsTree
<1>5. Reachable(x.node, x.loaded)
  BY <1>2, <1>3 DEF Reachable
<1>6. DirtyClosed(x)
  BY <1>3 DEF DirtyClosed
<1> QED
  BY <1>3, <1>4, <1>5, <1>6 DEF Shape

\* Appending a record to the log.
LEMMA LogAppend ==
    ASSUME NEW l, LogOK(l), Len(l) < MaxLog, NEW r, IsRecord(r)
    PROVE  LogOK(Append(l, r))
<1> DEFINE S == {l[i] : i \in 1..Len(l)} \cup {r}
<1>1. Len(l) \in Nat /\ l = [i \in 1..Len(l) |-> l[i]]
  BY DEF LogOK
<1>2. l \in Seq(S)
  <2>1. \A i \in 1..Len(l) : l[i] \in S
    OBVIOUS
  <2> HIDE DEF S
  <2> QED
    BY <1>1, <2>1
<1>3. /\ Append(l, r) \in Seq(S) /\ Len(Append(l, r)) = Len(l) + 1
      /\ \A i \in 1..Len(l) : Append(l, r)[i] = l[i]
      /\ Append(l, r)[Len(l) + 1] = r
  <2>1. r \in S
    OBVIOUS
  <2> HIDE DEF S
  <2> QED
    BY <1>2, <2>1, AppendProperties
<1> HIDE DEF S
<1>4. Append(l, r) = [i \in 1..Len(Append(l, r)) |-> Append(l, r)[i]]
  <2> DEFINE m == Append(l, r)
  <2>1. m \in Seq(S)
    BY <1>3
  <2> HIDE DEF m
  <2>2. m \in [1..Len(m) -> S]
    BY <2>1, LenProperties
  <2>3. m = [i \in 1..Len(m) |-> m[i]]
    BY <2>2
  <2> QED
    BY <2>3 DEF m
<1>5. Len(Append(l, r)) \in 0..MaxLog
  BY <1>1, <1>3, TreeAssumption
<1>6. \A i \in 1..Len(Append(l, r)) : IsRecord(Append(l, r)[i])
  BY <1>1, <1>3 DEF LogOK
<1> QED
  BY <1>4, <1>5, <1>6 DEF LogOK

-----------------------------------------------------------------------------
(* One lemma for each group of actions. *)

\* The invariant holds before the user's tree is first opened.
LEMMA InitInv == Init => IInv
<1> SUFFICES ASSUME Init PROVE IInv
  OBVIOUS
<1>1. Shape(t)
  BY EmptyTreeShape DEF Init
<1>2. LogOK(log)
  <2>1. Len(log) = 0 /\ log = [i \in 1..0 |-> log[i]]
    BY DEF Init
  <2> QED
    BY <2>1, TreeAssumption DEF LogOK
<1>3. IndexOK
  <2>1. index = [offset |-> 0, root |-> NoNodes] /\ 0 \in 0..MaxLog
    BY TreeAssumption DEF Init
  <2>2. IsNodes(NoNodes) /\ DOMAIN NoNodes = {}
    BY DEF IsNodes, NoNodes
  <2> QED
    BY <2>1, <2>2 DEF IndexOK, RootFile
<1>4. ControlOK /\ FlushOK
  BY TreeAssumption DEF Init, ControlOK, FlushOK
<1> QED
  BY <1>1, <1>2, <1>3, <1>4, IInvParts

\* An empty log is a log.
LEMMA EmptyLog == LogOK(<< >>)
<1>1. Len(<< >>) = 0 /\ << >> = [i \in 1..0 |-> << >>[i]]
  OBVIOUS
<1> QED
  BY <1>1, TreeAssumption DEF LogOK

\* Opening a tree, and replaying its log.
LEMMA OpenInv ==
    ASSUME IInv, Open PROVE IInv'
<1>1. Shape(t) /\ LogOK(log) /\ IndexOK /\ ControlOK /\ FlushOK
  BY IInvParts
<1>2. phase = "idle" /\ todo = {} /\ phase' = "idle" /\ todo' = {}
  BY <1>1 DEF Open, ControlOK, FlushOK
<1>3. Shape(t')
  <2>1. Shape([EmptyTree EXCEPT !.node = index.root])
    BY <1>1, RootOnlyShape DEF IndexOK, RootFile
  <2> QED
    BY <2>1, EmptyTreeShape DEF Open
<1>4. LogOK(log')
  BY <1>1 DEF Open
<1>5. IndexOK'
  <2>1. index' = [offset |-> IF index.root = NoNodes THEN 0 ELSE index.offset,
                  root |-> index.root]
    BY <1>1 DEF Open, IndexOK
  <2>2. index'.offset \in 0..MaxLog /\ index'.root = index.root
    BY <1>1, <2>1, TreeAssumption DEF IndexOK
  <2> QED
    BY <1>1, <2>1, <2>2 DEF IndexOK, RootFile
<1>6. ControlOK'
  <2>1. curr' \in 0..MaxLog
    BY <1>1, TreeAssumption DEF Open, IndexOK
  <2> QED
    BY <1>1, <2>1 DEF Open, ControlOK
<1>7. FlushOK'
  BY <1>2 DEF FlushOK
<1> QED
  BY <1>3, <1>4, <1>5, <1>6, <1>7, IInvNext

\* A record that recoverFromLog applies.
LEMMA ReplayRecordInv ==
    ASSUME IInv, ReplayRecord PROVE IInv'
<1>1. Shape(t) /\ LogOK(log) /\ IndexOK /\ ControlOK /\ FlushOK
  BY IInvParts
<1>2. phase = "idle" /\ todo = {} /\ phase' = "idle" /\ todo' = {}
  BY <1>1 DEF ReplayRecord, ControlOK, FlushOK
<1>3. curr + 1 \in 1..Len(log) /\ curr + 1 \in 0..MaxLog
  BY <1>1, TreeAssumption DEF ReplayRecord, ControlOK, LogOK, LastOffset
<1> DEFINE r == log[curr + 1]
<1>4. r.path \in Path /\ r.path # Root /\ FitsAt(r.entry, r.path)
  BY <1>1, <1>3 DEF LogOK, IsRecord
<1>5. \/ CanPut(t, r.path) /\ t' = put(t, r.path, r.entry)
      \/ CanDelete(t, r.path) /\ t' = delete(t, r.path)
  BY DEF ReplayRecord
<1>6. /\ curr' = curr + 1
      /\ UNCHANGED <<status, log, index, phase, todo, cont, fails>>
  BY DEF ReplayRecord
<1> HIDE DEF r
<1>7. RootFile
  BY <1>1 DEF IndexOK
<1>8. Shape(t')
  BY <1>1, <1>4, <1>5, <1>7, putShape, deleteShape
<1>9. LogOK(log') /\ IndexOK'
  BY <1>1, <1>6 DEF IndexOK, RootFile
<1>10. ControlOK' /\ FlushOK'
  BY <1>1, <1>2, <1>3, <1>6 DEF ControlOK, FlushOK
<1> QED
  BY <1>8, <1>9, <1>10, IInvNext

\* The end of the replay, and of the process.
LEMMA ReplayEndInv ==
    ASSUME IInv, ReplayEnd \/ Crash PROVE IInv'
<1>1. Shape(t) /\ LogOK(log) /\ IndexOK /\ ControlOK /\ FlushOK
  BY IInvParts
<1>2. phase' = "idle" /\ todo' = {}
  BY <1>1 DEF ReplayEnd, Crash, ControlOK, FlushOK
<1>3. Shape(t')
  BY <1>1, EmptyTreeShape DEF ReplayEnd, Crash
<1>4. LogOK(log')
  BY <1>1, EmptyLog DEF ReplayEnd, Crash
<1>5. IndexOK'
  BY <1>1 DEF ReplayEnd, Crash, IndexOK, RootFile
<1>6. ControlOK'
  <2>1. 0 \in 0..MaxLog
    BY TreeAssumption
  <2> QED
    BY <1>1, <1>2, <2>1 DEF ReplayEnd, Crash, ControlOK
<1>7. FlushOK'
  BY <1>2 DEF FlushOK
<1> QED
  BY <1>3, <1>4, <1>5, <1>6, <1>7, IInvNext

\* The end of an operation that called flush.
LEMMA FinishInv ==
    ASSUME IInv, NEW x, Shape(x), Finish(x), LogOK(log'), IndexOK',
           curr' = curr, fails' \in 0..MaxFails
    PROVE  IInv'
<1>1. ControlOK
  BY IInvParts
<1>2. Shape(t')
  BY EmptyTreeShape DEF Finish
<1>3. ControlOK' /\ FlushOK'
  BY <1>1 DEF Finish, ControlOK, FlushOK
<1> QED
  BY <1>2, <1>3, IInvNext

\* The start of a flush.
LEMMA StartFlushInv ==
    ASSUME IInv, Idle, NEW x, Shape(x), HasRoot(x),
           NEW c \in {"return", "delete", "close"}, StartFlush(x, c),
           LogOK(log'), UNCHANGED <<status, index, curr, fails>>
    PROVE  IInv'
<1>1. ControlOK /\ IndexOK
  BY IInvParts
<1>2. Shape(t')
  BY DEF StartFlush
<1>3. IndexOK'
  BY <1>1 DEF IndexOK, RootFile
<1>4. ControlOK'
  BY <1>1 DEF StartFlush, ControlOK
<1>5. FlushOK'
  BY DEF StartFlush, FlushOK, Idle, Shape, DirtyClosed, HasRoot
<1> QED
  BY <1>2, <1>3, <1>4, <1>5, IInvNext

\* The nodes on flush's list are directories of the tree, and no dirty node is
\* below the deepest of those left.
LEMMA TodoFacts ==
    ASSUME IInv, NEW d \in todo
    PROVE  /\ d \in Path /\ d \in DOMAIN t.node /\ t.node[d].kind = "dir"
           /\ phase = "store"
           /\ Deepest(d) => \A q \in t.dirty : d \notin Ancestors(q)
<1>1. Shape(t) /\ FlushOK
  BY IInvParts
<1>2. /\ d \in Path /\ d \in DOMAIN t.node /\ t.node[d].kind = "dir"
      /\ phase = "store" /\ t.dirty \subseteq todo /\ t.dirty \subseteq Path
  BY <1>1 DEF FlushOK, Shape, IsTree, IsNodes, DirtyClosed
<1>3. ASSUME Deepest(d), NEW q \in t.dirty, d \in Ancestors(q)
      PROVE  FALSE
  <2>1. Len(d) < Len(q)
    BY <1>2, <1>3, AncestorsAreShorter
  <2>2. Len(q) <= Len(d)
    BY <1>2, <1>3 DEF Deepest
  <2>3. Len(d) \in Nat /\ Len(q) \in Nat
    BY <1>2, PathFacts, LenProperties
  <2> QED
    BY <2>1, <2>2, <2>3
<1> QED
  BY <1>2, <1>3

\* A node that cannot be stored is left without blocks.
LEMMA DropBlocksShape ==
    ASSUME IInv, NEW d \in todo
    PROVE  Shape([t EXCEPT !.node[d].blocks = NoBlocks])
<1>1. Shape(t)
  BY IInvParts
<1>2. /\ t = [node |-> t.node, loaded |-> t.loaded, dirty |-> t.dirty,
              dirtyNodes |-> t.dirtyNodes]
      /\ \A q \in t.dirty : Ancestors(q) \subseteq t.dirty
  BY <1>1 DEF Shape, IsTree, DirtyClosed
<1>3. [t EXCEPT !.node[d].blocks = NoBlocks] = SetBlocks(t, d, NoBlocks, t.dirty)
  BY <1>2 DEF SetBlocks
<1>4. IsBlocks(NoBlocks) /\ DOMAIN NoBlocks = {}
  BY DEF IsBlocks, NoBlocks
<1>5. Shape(SetBlocks(t, d, NoBlocks, t.dirty))
  BY <1>1, <1>2, <1>4, TodoFacts, SetBlocksShape
<1> QED
  BY <1>3, <1>5

\* store of a node.
LEMMA StoreNodeInv ==
    ASSUME IInv, NEW d \in todo, StoreNode(d) PROVE IInv'
<1>1. Shape(t) /\ LogOK(log) /\ IndexOK /\ ControlOK /\ FlushOK
  BY IInvParts
<1>2. LogOK(log') /\ IndexOK' /\ curr' = curr /\ fails' \in 0..MaxFails
  BY <1>1 DEF StoreNode, IndexOK, RootFile, ControlOK
<1>3. CASE DirtyKids(d) # {}
  <2>1. Finish([t EXCEPT !.node[d].blocks = NoBlocks])
    BY <1>3 DEF StoreNode
  <2> QED
    BY <1>2, <2>1, DropBlocksShape, FinishInv
<1>4. CASE DirtyKids(d) = {}
  <2> DEFINE P == Pack(t.node, d)
             E == t.dirty \ {d}
  <2>1. /\ t' = [t EXCEPT !.node[d].blocks = P, !.dirty = E]
        /\ todo' = todo \ {d} /\ UNCHANGED <<phase, cont, status, curr, fails>>
        /\ Deepest(d)
    BY <1>4 DEF StoreNode
  <2>2. /\ t = [node |-> t.node, loaded |-> t.loaded, dirty |-> t.dirty,
                dirtyNodes |-> t.dirtyNodes]
        /\ IsNodes(t.node)
        /\ \A q \in t.dirty : Ancestors(q) \subseteq t.dirty
    BY <1>1 DEF Shape, IsTree, DirtyClosed
  <2>3. /\ d \in Path /\ d \in DOMAIN t.node /\ t.node[d].kind = "dir"
        /\ phase = "store" /\ \A q \in t.dirty : d \notin Ancestors(q)
    BY <2>1, TodoFacts
  <2>4. IsBlocks(P) /\ \A r \in DOMAIN P : d \o r \in Path
    BY <2>2, <2>3, PackIsBlocks
  <2> HIDE DEF P
  <2>5. \A q \in E : Ancestors(q) \subseteq E
    BY <2>2, <2>3
  <2>6. t' = SetBlocks(t, d, P, E)
    BY <2>1, <2>2 DEF SetBlocks
  <2>7. Shape(t') /\ DOMAIN t'.node = DOMAIN t.node
    <3>1. E \subseteq t.dirty /\ d \notin E
      OBVIOUS
    <3> HIDE DEF E
    <3>2. /\ Shape(t) /\ d \in DOMAIN t.node /\ t.node[d].kind = "dir"
          /\ IsBlocks(P) /\ (\A r \in DOMAIN P : d \o r \in Path)
          /\ E \subseteq t.dirty /\ (\A q \in E : Ancestors(q) \subseteq E)
          /\ d \in E => P = NoBlocks
      BY <1>1, <2>3, <2>4, <2>5, <3>1
    <3>3. /\ Shape(SetBlocks(t, d, P, E))
          /\ DOMAIN SetBlocks(t, d, P, E).node = DOMAIN t.node
      BY <3>2, SetBlocksShape, SMTT(30), ZenonT(60)
    <3> QED
      BY <2>6, <3>3
  <2>8. t'.dirty = E /\ t'.dirtyNodes = t.dirtyNodes
    BY <2>6 DEF SetBlocks
  <2>9. FlushOK'
    BY <1>1, <2>1, <2>3, <2>7, <2>8 DEF FlushOK, HasRoot
  <2>10. ControlOK'
    BY <1>1, <2>1 DEF ControlOK
  <2> QED
    BY <1>2, <2>7, <2>9, <2>10, IInvNext
<1> QED
  BY <1>3, <1>4

\* A node that cannot be stored.
LEMMA StoreFailsInv ==
    ASSUME IInv, NEW d \in todo, StoreFails(d) PROVE IInv'
<1>1. Shape(t) /\ LogOK(log) /\ IndexOK /\ ControlOK
  BY IInvParts
<1>2. LogOK(log') /\ IndexOK' /\ curr' = curr
  BY <1>1 DEF StoreFails, IndexOK, RootFile
<1>3. fails' \in 0..MaxFails
  BY <1>1, TreeAssumption DEF StoreFails, ControlOK
<1>4. CASE Finish(t)
  BY <1>1, <1>2, <1>3, <1>4, FinishInv
<1>5. CASE Finish([t EXCEPT !.node[d].blocks = NoBlocks])
  BY <1>2, <1>3, <1>5, DropBlocksShape, FinishInv
<1> QED
  BY <1>4, <1>5 DEF StoreFails

\* A flush whose nodes are all stored has no dirty node left to list.
LEMMA ClearListShape ==
    ASSUME IInv, phase = "store", todo = {}
    PROVE  Shape([t EXCEPT !.dirtyNodes = {}])
<1>1. Shape(t) /\ FlushOK
  BY IInvParts
<1>2. t = [node |-> t.node, loaded |-> t.loaded, dirty |-> t.dirty,
           dirtyNodes |-> t.dirtyNodes]
  BY <1>1 DEF Shape, IsTree
<1>3. t.dirty = {}
  BY <1>1 DEF FlushOK
<1> DEFINE x == [t EXCEPT !.dirtyNodes = {}]
<1>4. x = [node |-> t.node, loaded |-> t.loaded, dirty |-> {}, dirtyNodes |-> {}]
  BY <1>2, <1>3
<1>5. x.node = t.node /\ x.loaded = t.loaded /\ x.dirty = {} /\ x.dirtyNodes = {}
  BY <1>4
<1> HIDE DEF x
<1>6. IsTree(x)
  BY <1>1, <1>4, <1>5 DEF Shape, IsTree
<1>7. Reachable(x.node, x.loaded) /\ DirtyClosed(x)
  BY <1>1, <1>5 DEF Shape, DirtyClosed
<1>8. Shape(x)
  BY <1>5, <1>6, <1>7 DEF Shape
<1> QED
  BY <1>8 DEF x

\* A save that fails ends the flush.
LEMMA SaveFailsInv ==
    ASSUME IInv, SaveFails PROVE IInv'
<1>1. Shape(t) /\ LogOK(log) /\ IndexOK /\ ControlOK
  BY IInvParts
<1>2. LogOK(log') /\ IndexOK' /\ curr' = curr
  BY <1>1 DEF SaveFails, IndexOK, RootFile
<1>3. fails' \in 0..MaxFails
  BY <1>1, TreeAssumption DEF SaveFails, ControlOK
<1>4. CASE phase = "store" /\ todo = {} /\ Finish([t EXCEPT !.dirtyNodes = {}])
  BY <1>2, <1>3, <1>4, ClearListShape, FinishInv
<1>5. CASE phase = "root" /\ Finish(t)
  BY <1>1, <1>2, <1>3, <1>5, FinishInv
<1> QED
  BY <1>4, <1>5 DEF SaveFails

\* The saves that end a flush, and the end of deleteRoot.
LEMMA SaveInv ==
    ASSUME IInv, SaveOffset \/ SaveRoot \/ DeleteRootFile \/ TruncateLog
    PROVE  IInv'
<1>1. Shape(t) /\ LogOK(log) /\ IndexOK /\ ControlOK /\ FlushOK
  BY IInvParts
<1>2. index = [offset |-> index.offset, root |-> index.root]
  BY <1>1 DEF IndexOK
<1>3. CASE SaveOffset
  <2>1. t = [node |-> t.node, loaded |-> t.loaded, dirty |-> t.dirty,
             dirtyNodes |-> t.dirtyNodes]
    BY <1>1 DEF Shape, IsTree
  <2>2. t.dirty = {}
    BY <1>1, <1>3 DEF SaveOffset, FlushOK
  <2>3. t' = [node |-> t.node, loaded |-> t.loaded, dirty |-> {}, dirtyNodes |-> {}]
    BY <1>3, <2>1, <2>2 DEF SaveOffset
  <2>4. t'.node = t.node /\ t'.loaded = t.loaded /\ t'.dirty = {} /\ t'.dirtyNodes = {}
    BY <2>3
  <2>5. Shape(t')
    BY <1>3, ClearListShape DEF SaveOffset
  <2>7. index' = [offset |-> Len(log), root |-> index.root]
    BY <1>2, <1>3 DEF SaveOffset, LastOffset
  <2>8. IndexOK'
    BY <1>1, <2>7 DEF IndexOK, RootFile, LogOK
  <2>9. FlushOK'
    BY <1>1, <1>3, <2>4 DEF SaveOffset, FlushOK, HasRoot
  <2>10. ControlOK' /\ LogOK(log')
    BY <1>1, <1>3 DEF SaveOffset, ControlOK
  <2> QED
    BY <2>5, <2>8, <2>9, <2>10, IInvNext
<1>4. CASE SaveRoot
  <2>1. Root \in DOMAIN t.node /\ FitsAt(t.node[Root], Root)
    BY <1>1, <1>4 DEF SaveRoot, FlushOK, HasRoot, Shape, IsTree, IsNodes
  <2> DEFINE R == [p \in {Root} |-> t.node[Root]]
  <2>2. IsNodes(R) /\ DOMAIN R = {Root}
    BY <2>1, TreeAssumption DEF IsNodes
  <2>3. index' = [offset |-> index.offset, root |-> R]
    BY <1>2, <1>4 DEF SaveRoot
  <2> HIDE DEF R
  <2>4. IndexOK' /\ LogOK(log') /\ curr' = curr /\ fails' = fails
    BY <1>1, <1>4, <2>2, <2>3 DEF SaveRoot, IndexOK, RootFile
  <2>5. CASE cont = "delete"
    <3>1. ControlOK' /\ FlushOK' /\ Shape(t')
      BY <1>1, <1>4, <2>5 DEF SaveRoot, ControlOK, FlushOK
    <3> QED
      BY <2>4, <3>1, IInvNext
  <2>6. CASE cont # "delete"
    <3>1. Finish(t) /\ fails' \in 0..MaxFails
      BY <1>1, <1>4, <2>4, <2>6 DEF SaveRoot, ControlOK
    <3> QED
      BY <1>1, <2>4, <3>1, FinishInv
  <2> QED
    BY <2>5, <2>6
<1>5. CASE DeleteRootFile
  <2>1. index' = [offset |-> index.offset, root |-> NoNodes]
    BY <1>2, <1>5 DEF DeleteRootFile
  <2>2. IsNodes(NoNodes) /\ DOMAIN NoNodes = {}
    BY DEF IsNodes, NoNodes
  <2>3. IndexOK'
    BY <1>1, <2>1, <2>2 DEF IndexOK, RootFile
  <2>4. ControlOK' /\ FlushOK' /\ Shape(t') /\ LogOK(log')
    BY <1>1, <1>5 DEF DeleteRootFile, ControlOK, FlushOK
  <2> QED
    BY <2>3, <2>4, IInvNext
<1>6. CASE TruncateLog
  <2>1. LogOK(log') /\ IndexOK' /\ curr' = curr /\ fails' \in 0..MaxFails
    BY <1>1, <1>6, EmptyLog DEF TruncateLog, IndexOK, RootFile, ControlOK
  <2>2. Finish(EmptyTree)
    BY <1>6 DEF TruncateLog
  <2> QED
    BY <2>1, <2>2, EmptyTreeShape, FinishInv
<1> QED
  BY <1>3, <1>4, <1>5, <1>6

\* The append that ends a Put or Delete: it succeeds, fails or is torn.
LEMMA LoggedInv ==
    ASSUME IInv, Idle, NEW x, Shape(x), NEW r, IsRecord(r), Logged(x, r),
           UNCHANGED <<index, phase, todo, cont, curr>>
    PROVE  IInv'
<1>1. LogOK(log) /\ IndexOK /\ ControlOK /\ FlushOK
  BY IInvParts
<1>2. phase' = "idle" /\ todo' = {}
  BY <1>1 DEF Idle, FlushOK
<1>3. Shape(t')
  BY EmptyTreeShape DEF Logged, AppendFails, AppendTorn
<1>4. LogOK(log')
  <2>1. r = [op |-> r.op, path |-> r.path, entry |-> r.entry]
    BY DEF IsRecord, Record
  <2>2. [r EXCEPT !.op = "torn"] = [op |-> "torn", path |-> r.path, entry |-> r.entry]
    BY <2>1
  <2>3. IsRecord([r EXCEPT !.op = "torn"])
    BY <2>2 DEF IsRecord, Record
  <2> QED
    BY <1>1, <2>3, LogAppend DEF Logged, AppendFails, AppendTorn
<1>5. IndexOK'
  BY <1>1 DEF IndexOK, RootFile
<1>6. ControlOK'
  <2>1. fails' \in 0..MaxFails
    BY <1>1, TreeAssumption DEF Logged, AppendFails, AppendTorn, ControlOK
  <2> QED
    BY <1>1, <2>1 DEF Logged, AppendFails, AppendTorn, ControlOK
<1>7. FlushOK'
  BY <1>2 DEF FlushOK
<1> QED
  BY <1>3, <1>4, <1>5, <1>6, <1>7, IInvNext

\* A node is above nothing that does not have the root above it.
LEMMA NodeHasRoot ==
    ASSUME NEW x, Shape(x), NEW p \in DOMAIN x.node
    PROVE  HasRoot(x)
BY NoRootNoNodes

\* Put of a root.
LEMMA PutRootInv ==
    ASSUME IInv, PutRoot PROVE IInv'
<1>1. Shape(t) /\ LogOK(log)
  BY IInvParts
<1>2. /\ t = [node |-> t.node, loaded |-> t.loaded, dirty |-> t.dirty,
              dirtyNodes |-> t.dirtyNodes]
      /\ t.loaded = {} /\ t.dirty = {} /\ t.dirtyNodes = {}
  BY <1>1, NoRootNoNodes DEF PutRoot, Shape, IsTree
<1> DEFINE N == [p \in {Root} |-> NewDir]
           x == [EmptyTree EXCEPT !.node = N]
<1>3. [t EXCEPT !.node = N] = x
  BY <1>2 DEF EmptyTree
<1>4. IsNodes(N) /\ DOMAIN N = {Root} /\ N[Root].kind = "dir" /\ N[Root].blocks = NoBlocks
  BY TreeAssumption
  DEF IsNodes, FitsAt, IsEntry, IsBlocks, NewDir, NoBlocks, Dress, Strip, Bare, Kinds
<1>5. StartFlush(markDirty(x, Root), "return")
  BY <1>3 DEF PutRoot
<1> HIDE DEF N
<1>6. Shape(x) /\ x.node = N
  BY <1>4, RootOnlyShape
<1> HIDE DEF x
<1>7. Shape(markDirty(x, Root)) /\ HasRoot(markDirty(x, Root))
  BY <1>4, <1>6, markDirtyShape DEF HasRoot
<1> QED
  BY <1>1, <1>5, <1>7, StartFlushInv DEF PutRoot

\* Put of anything else.
LEMMA PutInv ==
    ASSUME IInv, NEW p \in Path, NEW k \in Kinds, NEW v \in Val \cup {NoVal},
           Put(p, k, v)
    PROVE  IInv'
<1>1. Shape(t) /\ RootFile /\ p # Root /\ Parent(p) \in Path
  BY IInvParts, PathFacts DEF Put, IndexOK
<1> DEFINE N == loadDir(t, Parent(p)).node
           seq == IF p \in DOMAIN N THEN N[p].seq + 1 ELSE 1
           e == IF k = "dir" THEN NewDir ELSE Leaf(k, seq, v)
<1>2. CanPut(t, p) /\ Idle /\ Logged(put(t, p, e), Record("put", p, e))
  BY DEF Put
<1>3. seq \in Nat
  <2>1. IsNodes(N)
    BY <1>1, loadShape DEF Shape, IsTree
  <2> HIDE DEF N
  <2>2. ASSUME p \in DOMAIN N PROVE N[p].seq \in Nat
    BY <2>1, <2>2 DEF IsNodes, FitsAt, IsEntry, Strip, Bare
  <2> QED
    BY <2>2
<1> HIDE DEF N, seq
<1>4. FitsAt(e, p)
  BY <1>3 DEF FitsAt, IsEntry, IsBlocks, NewDir, Leaf, NoBlocks, Dress, Strip, Bare, Kinds
<1> HIDE DEF e
<1>5. IsRecord(Record("put", p, e))
  BY <1>1, <1>4 DEF IsRecord, Record
<1>6. Shape(put(t, p, e))
  BY <1>1, <1>2, <1>4, putShape
<1> QED
  BY <1>2, <1>5, <1>6, LoggedInv DEF Put

\* PutDir.
LEMMA PutDirInv ==
    ASSUME IInv, NEW src \in Path, NEW dst \in Path, PutDir(src, dst)
    PROVE  IInv'
<1>1. Shape(t) /\ RootFile /\ LogOK(log) /\ dst # Root
  BY IInvParts DEF PutDir, IndexOK
<1> DEFINE x == loadPath(t, src)
           y == put(x, dst, x.node[src])
           r == Record("put", dst, y.node[dst])
<1>2. /\ Idle /\ IsDir(x, src) /\ CanPut(x, dst)
      /\ \A q \in DOMAIN x.node[src].blocks : dst \o q \in Path
      /\ \/ /\ Len(log) < MaxLog
            /\ log' = Append(log, r)
            /\ StartFlush(y, "return")
            /\ UNCHANGED <<status, index, curr, fails>>
         \/ Logged(y, r) /\ UNCHANGED <<index, phase, todo, cont, curr>>
  BY DEF PutDir, Logged
<1>3. Shape(x)
  BY <1>1, loadShape
<1> HIDE DEF x
<1>4. FitsAt(x.node[src], dst)
  BY <1>2, <1>3 DEF Shape, IsTree, IsNodes, IsDir, FitsAt
<1>5. Shape(y) /\ dst \in DOMAIN y.node
  BY <1>1, <1>2, <1>3, <1>4, putShape
<1> HIDE DEF y
<1>6. FitsAt(y.node[dst], dst) /\ HasRoot(y)
  BY <1>5, NodeHasRoot DEF Shape, IsTree, IsNodes
<1>7. IsRecord(r)
  BY <1>1, <1>6 DEF IsRecord, Record
<1> HIDE DEF r
<1>8. CASE Logged(y, r) /\ UNCHANGED <<index, phase, todo, cont, curr>>
  BY <1>2, <1>5, <1>7, <1>8, LoggedInv
<1>9. CASE /\ Len(log) < MaxLog
           /\ log' = Append(log, r)
           /\ StartFlush(y, "return")
           /\ UNCHANGED <<status, index, curr, fails>>
  BY <1>1, <1>2, <1>5, <1>6, <1>7, <1>9, LogAppend, StartFlushInv
<1> QED
  BY <1>2, <1>8, <1>9

\* The operations that only load.
LEMMA LoadInv ==
    ASSUME IInv, NEW p \in Path, Lookup(p) \/ List(p) PROVE IInv'
<1>1. Shape(t) /\ LogOK(log) /\ IndexOK /\ ControlOK /\ FlushOK
  BY IInvParts
<1>2. /\ t' = loadPath(t, p) \/ t' = loadDir(t, p)
      /\ Idle /\ UNCHANGED <<status, log, index, phase, todo, cont, curr, fails>>
  BY DEF Lookup, List
<1>3. Shape(t')
  BY <1>1, <1>2, loadShape DEF IndexOK
<1>4. LogOK(log') /\ IndexOK'
  BY <1>1, <1>2 DEF IndexOK, RootFile
<1>5. ControlOK' /\ FlushOK'
  BY <1>1, <1>2 DEF Idle, ControlOK, FlushOK
<1> QED
  BY <1>3, <1>4, <1>5, IInvNext

\* Delete of anything but the root.
LEMMA DeleteInv ==
    ASSUME IInv, NEW p \in Path, Delete(p) PROVE IInv'
<1>1. Shape(t) /\ RootFile /\ p # Root /\ Parent(p) \in Path
  BY IInvParts, PathFacts DEF Delete, IndexOK
<1> DEFINE x == loadDir(t, Parent(p))
           r == Record("delete", p, x.node[p])
<1>2. /\ Idle /\ CanDelete(t, p) /\ p \in DOMAIN x.node /\ Logged(delete(t, p), r)
      /\ UNCHANGED <<index, phase, todo, cont, curr>>
  BY DEF Delete, CanDelete
<1>3. Shape(x)
  BY <1>1, loadShape
<1> HIDE DEF x
<1>4. IsRecord(r)
  BY <1>1, <1>2, <1>3 DEF IsRecord, Record, Shape, IsTree, IsNodes
<1> HIDE DEF r
<1>5. Shape(delete(t, p))
  BY <1>1, <1>2, deleteShape
<1> QED
  BY <1>2, <1>4, <1>5, LoggedInv

\* The operations that flush, and the Close that does not.
LEMMA FlushInv ==
    ASSUME IInv, DeleteRoot \/ Flush \/ Close \/ CloseUnread PROVE IInv'
<1>1. Shape(t) /\ LogOK(log) /\ IndexOK /\ ControlOK /\ FlushOK
  BY IInvParts
<1>2. CASE DeleteRoot \/ Close
  BY <1>1, <1>2, StartFlushInv DEF DeleteRoot, Close
<1>3. CASE Flush
  <2>1. Shape(loadRoot(t))
    BY <1>1, loadRootShape DEF IndexOK
  <2> QED
    BY <1>1, <1>3, <2>1, StartFlushInv DEF Flush, RootExists
<1>4. CASE CloseUnread
  <2>1. Shape(t') /\ LogOK(log')
    BY <1>1, <1>4, EmptyTreeShape DEF CloseUnread
  <2>2. IndexOK'
    BY <1>1, <1>4 DEF CloseUnread, IndexOK, RootFile
  <2>3. ControlOK' /\ FlushOK'
    BY <1>1, <1>4 DEF CloseUnread, Idle, ControlOK, FlushOK
  <2> QED
    BY <2>1, <2>2, <2>3, IInvNext
<1> QED
  BY <1>2, <1>3, <1>4

-----------------------------------------------------------------------------
(* The theorems. *)

\* Every step keeps the invariant.
LEMMA NextInv == IInv /\ [Next]_vars => IInv'
<1> SUFFICES ASSUME IInv, [Next]_vars PROVE IInv'
  OBVIOUS
<1>1. CASE UNCHANGED vars
  BY <1>1 DEF vars, IInv, TypeOK, WellFormed, DirtyReachesRoot, NoHiddenKids, HasRoot
<1>2. CASE Open
  BY <1>2, OpenInv
<1>3. CASE ReplayRecord
  BY <1>3, ReplayRecordInv
<1>4. CASE ReplayEnd \/ Crash
  BY <1>4, ReplayEndInv
<1>5. CASE \E d \in todo : StoreNode(d) \/ StoreFails(d)
  BY <1>5, StoreNodeInv, StoreFailsInv
<1>6. CASE SaveOffset \/ SaveRoot \/ SaveFails \/ DeleteRootFile \/ TruncateLog
  BY <1>6, SaveInv, SaveFailsInv
<1>7. CASE PutRoot
  BY <1>7, PutRootInv
<1>8. ASSUME NEW p \in Path,
             \/ Put(p, "dir", NoVal) \/ Put(p, "link", NoVal)
             \/ \E v \in Val : Put(p, "file", v)
      PROVE  IInv'
  <2>1. PICK k \in Kinds, v \in Val \cup {NoVal} : Put(p, k, v)
    BY <1>8 DEF Kinds
  <2> QED
    BY <2>1, PutInv
<1>9. ASSUME NEW p \in Path, \E q \in Path : PutDir(p, q)
      PROVE  IInv'
  BY <1>9, PutDirInv
<1>10. ASSUME NEW p \in Path, Lookup(p) \/ List(p)
       PROVE  IInv'
  BY <1>10, LoadInv
<1>11. ASSUME NEW p \in Path, Delete(p)
       PROVE  IInv'
  BY <1>11, DeleteInv
<1>12. CASE DeleteRoot \/ Flush \/ Close \/ CloseUnread
  BY <1>12, FlushInv
<1> QED
  BY <1>1, <1>2, <1>3, <1>4, <1>5, <1>6, <1>7, <1>8, <1>9, <1>10, <1>11, <1>12
  DEF Next

\* The invariant holds in every state of every behaviour of a user's tree,
\* whichever of the failures happen.
THEOREM TreeInvariant == Spec => []IInv
BY InitInv, NextInv, PTL DEF Spec

\* The variables keep their types: every entry, in memory, in the log or in
\* the root file, is one that can be where it is.
THEOREM TypeCorrect == Spec => []TypeOK
<1>1. IInv => TypeOK
  BY DEF IInv
<1> QED
  BY <1>1, TreeInvariant, PTL

\* Every node in memory hangs below loaded directories up to the root.
THEOREM TreeStaysWellFormed == Spec => []WellFormed
<1>1. IInv => WellFormed
  BY DEF IInv
<1> QED
  BY <1>1, TreeInvariant, PTL

\* What is dirty is dirty up to the root and on flush's list, also after a
\* flush that failed, so flush loses no change.
THEOREM FlushMissesNothing == Spec => []DirtyReachesRoot
<1>1. IInv => DirtyReachesRoot
  BY DEF IInv
<1> QED
  BY <1>1, TreeInvariant, PTL

\* addKid never makes a new kids map for a directory that has stored kids.
THEOREM AddKidHidesNothing == Spec => []NoHiddenKids
<1>1. IInv => NoHiddenKids
  BY DEF IInv
<1> QED
  BY <1>1, TreeInvariant, PTL

\* flush goes through its list in an order in which store's internal error,
\* a dirty kid, is impossible.
THEOREM NoInternalError == Spec => []StoreMeetsNoDirtyKid
<1>1. ASSUME IInv, NEW d \in todo, Deepest(d), NEW k \in DirtyKids(d)
      PROVE  FALSE
  <2>1. \A q \in t.dirty : d \notin Ancestors(q)
    BY <1>1, TodoFacts
  <2>2. k \in t.dirty /\ k \in DOMAIN t.node /\ k # Root /\ Parent(k) = d
    BY <1>1 DEF DirtyKids, Kids
  <2>3. k \in Seq(Elem)
    BY <1>1, <2>2, IInvParts, PathFacts DEF Shape, IsTree, IsNodes
  <2>4. d \in Ancestors(k)
    BY <2>2, <2>3, AncestorsOfKid
  <2> QED
    BY <2>1, <2>2, <2>4
<1>2. IInv => StoreMeetsNoDirtyKid
  BY <1>1 DEF StoreMeetsNoDirtyKid
<1> QED
  BY <1>2, TreeInvariant, PTL

=============================================================================
