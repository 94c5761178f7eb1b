---------------------------- MODULE TreeDurable ----------------------------
(***************************************************************************)
(* What the log and the log index of a tree stand for, and that the tree   *)
(* implements DirTree: an operation takes effect when its record is in the *)
(* log, once, and for good.                                                *)
(***************************************************************************)
EXTENDS Tree

VARIABLE content   \* what the tree holds, worked out after each step

Attr(b) == IF b.kind = "dir" THEN [b EXCEPT !.seq = 0] ELSE b

\* Entry e at p, and all that its blocks refer to.
Spread(p, e) ==
    LET below == {p \o r : r \in DOMAIN e.blocks}
    IN  [q \in {p} \cup below |->
            Attr(IF q = p THEN Strip(e) ELSE e.blocks[Rel(q, p)])]

\* What a record of the log does to contents c.
Replay(c, r) ==
    LET rest == {q \in DOMAIN c : ~HasPrefix(q, r.path)}
        new == Spread(r.path, r.entry)
    IN  CASE r.op = "put" -> [q \in rest \cup DOMAIN new |-> IF q \in rest THEN c[q] ELSE new[q]]
          [] r.op = "delete" -> [q \in rest |-> c[q]]
          [] r.op = "torn" -> c

\* The root file's contents and, on top of it, the log from the saved offset.
\* Without a root there is nothing that a record could apply to.
Durable ==
    LET upto[i \in 0..LastOffset] ==
            IF i <= index.offset THEN Spread(Root, index.root[Root]) ELSE Replay(upto[i - 1], log[i])
    IN  IF index.root = NoNodes THEN NoNodes ELSE upto[LastOffset]

\* What clients see: the nodes in memory and what would be loaded on demand.
View ==
    LET x == Load(loadRoot(t), Path)
    IN  [p \in DOMAIN x.node |-> Attr(Strip(x.node[p]))]

\* Between the two saves that end a flush the files do not fit together.
Content == IF phase = "root" THEN View ELSE Durable

DurableInit == Init /\ content = Content
DurableNext == Next /\ content' = Content'
DurableSpec == DurableInit /\ [][DurableNext]_<<vars, content>>

-----------------------------------------------------------------------------

\* Every change that was acknowledged, and no other, survives a crash: what
\* clients see is what New would recover, where it recovers (NewNeverFails).
\* Not so after the failures append, create and window of Tree: they leave in
\* memory what is not on disk, or the offset of one tree with the root of
\* another.
SeenIsDurable == Idle => View = content

Abstract == INSTANCE DirTree

\* The tree implements DirTree, under the failures SeenIsDurable is about: each
\* Put, PutDir and Delete takes effect at once and for good, and nothing else
\* that it does changes what it holds.
ImplementsDirTree == Abstract!Spec

=============================================================================
