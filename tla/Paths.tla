------------------------------- MODULE Paths -------------------------------
(***************************************************************************)
(* Path names (path/path.go): a parsed path, without its user name, is a   *)
(* sequence of elements.                                                   *)
(***************************************************************************)
EXTENDS Naturals, Sequences

Root == << >>

\* p.Drop(1), p.First(n) for every n up to p, and for every n before p.
Parent(p) == SubSeq(p, 1, Len(p) - 1)
Prefixes(p) == {SubSeq(p, 1, n) : n \in 0..Len(p)}
Ancestors(p) == {SubSeq(p, 1, n) : n \in 0..(Len(p) - 1)}

\* q.HasPrefix(p), and the elements of q that follow p.
HasPrefix(q, p) == Len(p) <= Len(q) /\ \A i \in 1..Len(p) : q[i] = p[i]
Rel(q, p) == SubSeq(q, Len(p) + 1, Len(q))

=============================================================================
