------------------------------ MODULE DirTree ------------------------------
(***************************************************************************)
(* What the tree of one user promises (the comments of dir/server/tree and *)
(* of upspin.DirServer): one name space, changed by one operation at a     *)
(* time.  Loading, flushing, crashing, replaying and closing do not show.  *)
(***************************************************************************)
EXTENDS Paths

CONSTANTS Path, Val, NoVal

VARIABLE content   \* what each existing path holds

Empty == [p \in {} |-> p]

\* The sequence number of a directory is its own affair.
Dir == [kind |-> "dir", seq |-> 0, val |-> NoVal]

\* The paths of contents c at which there is a directory, those where something
\* new may appear, and those from q down.
Directories(c) == {p \in DOMAIN c : c[p].kind = "dir"}
Free(c) == {p \in Path \ {Root} : p \notin DOMAIN c /\ Parent(p) \in Directories(c)}
From(c, q) == {p \in DOMAIN c : HasPrefix(p, q)}

Set(c, p, e) == [q \in DOMAIN c \cup {p} |-> IF q = p THEN e ELSE c[q]]

\* A new directory; a new file or link, with the first sequence number; a new
\* version of a file, with the next one.
MakeDirectory(c) == {Set(c, p, Dir) : p \in Free(c)}

Entries(n) == {[kind |-> "file", seq |-> n, val |-> v] : v \in Val} \cup {[kind |-> "link", seq |-> n, val |-> NoVal]}
Create(c) == {Set(c, p, e) : p \in Free(c), e \in Entries(1)}
Overwrite(c) == UNION {{Set(c, p, e) : e \in Entries(c[p].seq + 1)} : p \in {q \in DOMAIN c : c[q].kind = "file"}}

\* A copy of all that is at and below a directory appears at a free path.
Copy(c, src, dst) ==
    LET copies == {dst \o Rel(q, src) : q \in From(c, src)}
    IN  [p \in DOMAIN c \cup copies |-> IF p \in DOMAIN c THEN c[p] ELSE c[src \o Rel(p, dst)]]
Snapshot(c) == {Copy(c, src, dst) : src \in Directories(c), dst \in Free(c)}

\* Only what has nothing below it can be removed.
Remove(c) == {[q \in DOMAIN c \ {p} |-> c[q]] : p \in {q \in DOMAIN c : From(c, q) = {q}}}

\* What one operation can make of contents c.
Results(c) ==
    IF c = Empty THEN {[p \in {Root} |-> Dir]}
    ELSE MakeDirectory(c) \cup Create(c) \cup Overwrite(c) \cup Snapshot(c) \cup Remove(c)

Init == content = Empty

\* No operation leaves everything as it was.
Next == content' # content /\ content' \in Results(content)

Spec == Init /\ [][Next]_content

=============================================================================
