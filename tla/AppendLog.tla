----------------------------- MODULE AppendLog -----------------------------
(***************************************************************************)
(* What the log of a user promises: entries are appended at the end and    *)
(* stay where they are, and a reader that begins at the start or at the    *)
(* end gets every entry that follows, in order.  Readers do not outlive    *)
(* the process; the entries do.                                            *)
(***************************************************************************)
EXTENDS Integers

CONSTANTS Entry, Size, Reader

VARIABLES
    entries,  \* offset -> the entry that begins there
    pos,      \* the offset each reader reads next, or None
    got       \* the entry each reader read last, or 0

vars == <<entries, pos, got>>

None == -1

\* The offset after the last entry.
End ==
    IF DOMAIN entries = {} THEN 0
    ELSE LET last == CHOOSE o \in DOMAIN entries : \A x \in DOMAIN entries : x <= o
         IN  last + Size[entries[last]]

Init ==
    /\ entries = [o \in {} |-> 0]
    /\ pos = [r \in Reader |-> None]
    /\ got = [r \in Reader |-> 0]

Append(e) ==
    /\ entries' = [o \in DOMAIN entries \cup {End} |-> IF o = End THEN e ELSE entries[o]]
    /\ UNCHANGED <<pos, got>>

Open(r) ==
    /\ pos[r] = None
    /\ \E o \in {0, End} : pos' = [pos EXCEPT ![r] = o]
    /\ UNCHANGED <<entries, got>>

Read(r) ==
    /\ pos[r] \in DOMAIN entries
    /\ got' = [got EXCEPT ![r] = entries[pos[r]]]
    /\ pos' = [pos EXCEPT ![r] = @ + Size[entries[@]]]
    /\ UNCHANGED entries

Restart ==
    /\ pos' = [r \in Reader |-> None]
    /\ got' = [r \in Reader |-> 0]
    /\ UNCHANGED entries

Next == (\E e \in Entry : Append(e)) \/ (\E r \in Reader : Open(r) \/ Read(r)) \/ Restart

Spec == Init /\ [][Next]_vars

=============================================================================
