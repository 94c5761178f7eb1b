-------------------------- MODULE MCWritebackQueue --------------------------
(* WritebackQueue for TLC: blocks x and y of one endpoint, z of another.    *)
EXTENDS WritebackQueue

CONSTANTS x, y, z, e1, e2

MCEndpointOf == [l \in Location |-> IF l = z THEN e2 ELSE e1]

\* Orderly use with failures; two endpoints and a close; and one block that is
\* put and flushed at any time, whatever fails.
MCSettings == {
    [loc |-> {x, y}, initial |-> 2, errors |-> {"timeout", "other"}, may |-> {}, fails |-> 2],
    [loc |-> {x, z}, initial |-> 2, errors |-> {}, may |-> {"close"}, fails |-> 0],
    [loc |-> {x}, initial |-> 1, errors |-> {"timeout", "other"},
     may |-> {"again", "close"}, fails |-> 1]}

=============================================================================
