------------------------------- MODULE MCTree -------------------------------
(***************************************************************************)
(* Model checking of trees: one tree, with its log and the failures it may *)
(* meet (part "tree"), and the server's cache of the trees of its users    *)
(* (part "trees").  The variables of the other part do not move.           *)
(***************************************************************************)
EXTENDS Tree, DirTrees, TLC

CONSTANTS
    Parts,                           \* the parts to check
    a, b,                            \* path elements
    alice, bob, a1, a2, b1, l1, l2   \* users, sessions and locks

VARIABLE part

\* The paths /, /a, /b and /a/b.
MCElem == {a, b}
MCPath == {<< >>, <<a>>, <<b>>, <<a, b>>}

\* Two sessions of one user and one of another.
MCUserOf == (a1 :> alice) @@ (a2 :> alice) @@ (b1 :> bob)

treeAll == <<status, t, log, index, phase, todo, cont, curr, fails>>
treesAll == <<setting, treesVars>>
all == <<part, treeAll, treesAll>>

-----------------------------------------------------------------------------
(* Settings. *)

\* Users whose names have the same lock, in a server with room for both trees;
\* and users with locks of their own, in a server that has room for one tree
\* and that a2 shuts down.
MCTreesSettings ==
    {[userLock |-> [u \in {alice, bob} |-> l1], maxTrees |-> 2, shutdown |-> NoSession, maxLoads |-> 2],
     [userLock |-> (alice :> l1) @@ (bob :> l2), maxTrees |-> 1, shutdown |-> a2, maxLoads |-> 3]}

-----------------------------------------------------------------------------

MCInit ==
    /\ part \in Parts
    /\ Init
    /\ TreesInit
    /\ part = "trees" \/ setting = CHOOSE s \in Settings : TRUE

MCNext ==
    \/ part = "tree" /\ Next /\ UNCHANGED <<part, treesAll>>
    \/ part = "trees" /\ TreesNext /\ UNCHANGED <<part, treeAll>>

MCSpec == MCInit /\ [][MCNext]_all

=============================================================================
