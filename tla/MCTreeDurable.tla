--------------------------- MODULE MCTreeDurable ---------------------------
(* TreeDurable for TLC, on the paths of MCTree. *)
EXTENDS TreeDurable

CONSTANTS a, b

MCElem == {a, b}
MCPath == {<< >>, <<a>>, <<b>>, <<a, b>>}

=============================================================================
