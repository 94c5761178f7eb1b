----------------------------- MODULE MCUpspinfs -----------------------------
(* An instance of Upspinfs: two files, a directory with a file, two threads. *)
EXTENDS Upspinfs

CONSTANTS t1, t2

a == <<"a">>
b == <<"b">>
d == <<"d">>
f == <<"d", "f">>

l == <<"l">>
x == <<"x">>

MCName == {a, b, d, f, l, x}
MCDirs == {d}
MCLinks == {l}
MCXattr == {x}

Do(op, n) == [op |-> op, name |-> n, to |-> Root]
Two(op, n, to) == [op |-> op, name |-> n, to |-> to]
Handles == {Do("Write", Root), Do("Flush", Root), Do("Release", Root)}

Base == [tree |-> {a}, plan |-> {}, max |-> 5, ops |-> {}, plain |-> FALSE]

\* A file is created, written, flushed, opened again and removed.
Editing == [Base EXCEPT !.max = 6,
              !.plan = Handles \cup {Do("Create", b), Do("Open", b), Do("Remove", b)}]
\* A file is written under one name while it is moved to another, which exists.
Moving == [Base EXCEPT !.tree = {a, b}, !.max = 7,
             !.plan = Handles \cup {Do("Lookup", a), Do("Lookup", b), Do("Open", a), Two("Rename", a, b)}]
\* Two empty files, and a duplicate, share a local file.
Sharing == [Base EXCEPT !.max = 6, !.plan = {Do("Write", Root), Do("Release", Root), Do("Lookup", a), Do("Open", a),
                                  Do("Create", b), Two("Link", a, b), Do("Open", b)}]
Plain == [Sharing EXCEPT !.plain = TRUE, !.max = 4]
\* Files that are not open are cut short.
Cutting == [Base EXCEPT !.ops = {"foreign"},
              !.plan = {Do("Lookup", a), Do("Open", a), Do("Truncate", a), Do("Remove", a), Do("Release", Root)}]
\* A directory is made, filled and emptied.
Nested == [Base EXCEPT !.tree = {}, !.max = 6,
             !.plan = {Do("Mkdir", d), Do("Create", f), Do("Release", Root), Do("Remove", f), Do("Remove", d)}]
\* A directory is renamed while a file in it is looked up.
MovingDir == [Base EXCEPT !.tree = {d, f}, !.max = 3,
                !.plan = {Do("Lookup", d), Do("Lookup", f), Two("Rename", d, b)}]
\* The kernel forgets nodes, and names are no longer known to be absent.
Forgetful == [Base EXCEPT !.tree = {}, !.max = 6, !.ops = {"forget", "expire"},
                !.plan = {Do("Lookup", b), Do("Create", b), Do("Release", Root), Do("Remove", b), Do("Symlink", l)}]
\* Lookups fail, so that a file is taken to be absent and created again.
Misled == [Base EXCEPT !.ops = {"lookfail", "expire"},
             !.plan = {Do("Lookup", a), Do("Create", a), Do("Write", Root), Do("Release", Root), Do("Remove", a)}]
\* Puts fail, access is denied, the disk is full.
Failing == [Base EXCEPT !.ops = {"putfail", "denied", "full"}, !.max = 4,
              !.plan = Handles \cup {Do("Create", x), Do("Create", b), Do("Lookup", a), Do("Open", a), Do("Truncate", a)}]

MCSettings == {Editing, Moving, Sharing, Plain, Cutting, Nested, MovingDir, Forgetful, Misled, Failing}
=============================================================================
