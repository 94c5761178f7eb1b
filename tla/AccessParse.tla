---------------------------- MODULE AccessParse ----------------------------
(***************************************************************************)
(* The text of Access and Group files (access/access.go): splitList, which *)
(* splits a line into names, and the rule of Parse about readers when the  *)
(* file is readable by all.                                                *)
(*                                                                         *)
(* A text is a sequence of characters: "x" stands for any character of a   *)
(* name.  The model grows texts and files, and what the code makes of them *)
(* is compared with what its comments say.                                 *)
(***************************************************************************)
EXTENDS Integers, Sequences, FiniteSets, FiniteSetsExt, SequencesExt

CONSTANTS
    Char,     \* "x", ",", " " and "#"
    MaxText,  \* bound on the length of a text
    Rights,   \* what a line may grant: "*", "Read" and others
    Users,    \* lists of names that a line may grant it to; All is one of the names
    All,      \* the name that stands for everyone
    MaxLines  \* bound on the number of lines of a file

ParseAssumption ==
    /\ Char = {"x", ",", " ", "#"}
    /\ {"*", "Read"} \subseteq Rights
    /\ MaxText \in Nat /\ MaxLines \in Nat

VARIABLES
    text,  \* a line: a comma- or space-separated list
    lines  \* the lines of an Access file

vars == <<text, lines>>

Init == text = << >> /\ lines = << >>

Type(c) ==
    /\ lines = << >> /\ Len(text) < MaxText
    /\ text' = Append(text, c)
    /\ UNCHANGED lines

AddLine(right, users) ==
    /\ text = << >> /\ Len(lines) < MaxLines
    /\ lines' = Append(lines, [right |-> right, users |-> users])
    /\ UNCHANGED text

Next ==
    \/ \E c \in Char : Type(c)
    \/ \E right \in Rights, users \in Users : AddLine(right, users)

Spec == Init /\ [][Next]_vars

-----------------------------------------------------------------------------
(* clean and splitList *)

\* What precedes a comment, without the spaces around it.
clean(t) ==
    LET line == SubSeq(t, 1, Min({Len(t) + 1} \cup {i \in DOMAIN t : t[i] = "#"}) - 1)
        kept == {i \in DOMAIN line : line[i] # " "}
    IN  IF kept = {} THEN << >> ELSE SubSeq(line, Min(kept), Max(kept))

isSeparator(c) == c \in {",", " "}

Bad == [ok |-> FALSE, list |-> << >>]


\* Mutant of CommasAllowed: any number of commas.
CommasFree(s) == TRUE

\* "Skip separators, but allow only one comma."
CommasAllowed(s) == Len(SelectSeq(s, LAMBDA c : c = ",")) <= 1

\* One element per iteration, from i on; an element must not be empty.
splitList(t) ==
    LET stop(i, isName) == Min({Len(t) + 1} \cup {j \in i..Len(t) : isSeparator(t[j]) = isName})
        from[i \in 1..(Len(t) + 1)] ==
            IF i > Len(t) THEN [ok |-> TRUE, list |-> << >>]
            ELSE LET j == stop(i, TRUE)
                     k == stop(j, FALSE)
                 IN  IF i = j \/ ~CommasAllowed(SubSeq(t, j, k - 1)) THEN Bad
                     ELSE [from[k] EXCEPT !.list = <<SubSeq(t, i, j - 1)>> \o @]
    IN  IF t = << >> THEN Bad ELSE from[1]

-----------------------------------------------------------------------------
(* Parse: the lists of readers *)

IsReader(l) == l.right \in {"*", "Read"}
GrantsAll(l) == Contains(l.users, All)

\* Readers are counted on a line that has All, and as one next to "*".
numReaders(ls) ==
    FoldLeft(LAMBDA n, l : CASE ~IsReader(l) \/ ~GrantsAll(l) -> n
                             [] l.right = "*" -> n + 1
                             [] OTHER -> n + Len(l.users), 0, ls)

worldReadable(ls) == \E l \in Range(ls) : IsReader(l) /\ GrantsAll(l)

\* Parse returns an error.
Rejected(ls) == numReaders(ls) > 1 /\ worldReadable(ls)

-----------------------------------------------------------------------------
\* The names of a line: the longest stretches of "x" before a comment.
Names(t) ==
    {<<i, j>> \in (DOMAIN t) \X (DOMAIN t) :
        /\ i <= j
        /\ \A k \in i..j : t[k] = "x"
        /\ \A k \in 1..i : t[k] # "#"
        /\ i = 1 \/ t[i - 1] # "x"
        /\ j = Len(t) \/ t[j + 1] # "x"}

\* splitList finds the names of a line in their order, unless a comma comes
\* before the first of them or two commas come without a name in between.
SplitIsRight ==
    LET r == splitList(clean(text))
        names == Names(text)
        Comma(i) == text[i] = "," /\ \A k \in 1..i : text[k] # "#"
        nameIn(i, j) == \E n \in names : i < n[1] /\ n[1] < j
        commasOK == \A j \in DOMAIN text :
                        Comma(j) => /\ nameIn(0, j)
                                    /\ \A i \in 1..(j - 1) : Comma(i) => nameIn(i, j)
    IN  /\ r.ok <=> names # {} /\ commasOK
        /\ r.ok => /\ Len(r.list) = Cardinality(names)
                   /\ \A n \in names :
                        r.list[Cardinality({m \in names : m[1] <= n[1]})] = SubSeq(text, n[1], n[2])

\* "Another user can have * rights": a file is not rejected when All is a
\* reader on one line and the others are readers by "*" only.
StarIsShared ==
    (/\ Cardinality({i \in DOMAIN lines : IsReader(lines[i]) /\ GrantsAll(lines[i])}) = 1
     /\ \A l \in Range(lines) : l.right = "Read" => l.users = <<All>>)
        => ~Rejected(lines)

=============================================================================
