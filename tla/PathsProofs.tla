---------------------------- MODULE PathsProofs ----------------------------
(* Facts about path names, for every set S of path elements. *)
EXTENDS Paths, SequenceTheorems, TLAPS

\* First(n) has n elements, those of p.
LEMMA FirstType ==
    ASSUME NEW S, NEW p \in Seq(S), NEW n \in 0..Len(p)
    PROVE  /\ SubSeq(p, 1, n) \in Seq(S)
           /\ Len(SubSeq(p, 1, n)) = n
           /\ \A i \in 1..n : SubSeq(p, 1, n)[i] = p[i]
OBVIOUS

\* Drop(1) of a path that is not the root is one element shorter.
LEMMA ParentType ==
    ASSUME NEW S, NEW p \in Seq(S), p # Root
    PROVE  /\ Parent(p) \in Seq(S)
           /\ Len(p) \in Nat \ {0}
           /\ Len(Parent(p)) = Len(p) - 1
<1>1. Len(p) \in Nat \ {0}
  BY EmptySeq DEF Root
<1>2. Len(p) - 1 \in 0..Len(p)
  BY <1>1
<1> QED
  BY <1>1, <1>2, FirstType DEF Parent

\* First(m) of First(n) is First(m).
LEMMA FirstFirst ==
    ASSUME NEW S, NEW p \in Seq(S), NEW n \in 0..Len(p), NEW m \in 0..n
    PROVE  SubSeq(SubSeq(p, 1, n), 1, m) = SubSeq(p, 1, m)
<1> DEFINE q == SubSeq(p, 1, n)
<1>1. q \in Seq(S) /\ Len(q) = n /\ \A i \in 1..n : q[i] = p[i]
  BY FirstType
<1>2. m \in 0..Len(p)
  OBVIOUS
<1>3. /\ SubSeq(p, 1, m) \in Seq(S)
      /\ Len(SubSeq(p, 1, m)) = m
      /\ \A i \in 1..m : SubSeq(p, 1, m)[i] = p[i]
  BY <1>2, FirstType
<1> HIDE DEF q
<1>4. /\ SubSeq(q, 1, m) \in Seq(S)
      /\ Len(SubSeq(q, 1, m)) = m
      /\ \A i \in 1..m : SubSeq(q, 1, m)[i] = q[i]
  BY <1>1, FirstType
<1>5. SubSeq(q, 1, m) = SubSeq(p, 1, m)
  BY <1>1, <1>3, <1>4, SeqEqual
<1> QED
  BY <1>5 DEF q

\* The prefixes of p are its ancestors and p; the root is one of them.
LEMMA PrefixesSplit ==
    ASSUME NEW S, NEW p \in Seq(S)
    PROVE  /\ Prefixes(p) = Ancestors(p) \cup {p}
           /\ p \notin Ancestors(p)
           /\ Prefixes(p) \subseteq Seq(S)
           /\ Root \in Prefixes(p)
           /\ Root \in Seq(S)
<1>1. Len(p) \in Nat /\ SubSeq(p, 1, Len(p)) = p
  BY SubSeqFull, LenProperties
<1>2. 0..Len(p) = (0..(Len(p) - 1)) \cup {Len(p)}
  BY <1>1
<1>3. Prefixes(p) = Ancestors(p) \cup {p}
  BY <1>1, <1>2 DEF Prefixes, Ancestors
<1>4. p \notin Ancestors(p)
  <2> SUFFICES ASSUME NEW n \in 0..(Len(p) - 1), p = SubSeq(p, 1, n)
               PROVE  FALSE
    BY DEF Ancestors
  <2> n \in 0..Len(p) /\ n # Len(p)
    BY <1>1
  <2> QED
    BY FirstType
<1>5. Prefixes(p) \subseteq Seq(S)
  BY FirstType DEF Prefixes
<1>6. SubSeq(p, 1, 0) = << >>
  BY <1>1, SubSeqEmpty
<1>7. Root \in Prefixes(p)
  BY <1>1, <1>6 DEF Prefixes, Root
<1>8. Root \in Seq(S)
  BY EmptySeq DEF Root
<1> QED
  BY <1>3, <1>4, <1>5, <1>7, <1>8

\* The prefixes of a prefix are prefixes, and of an ancestor ancestors.
LEMMA PrefixesTransitive ==
    ASSUME NEW S, NEW p \in Seq(S), NEW q \in Prefixes(p)
    PROVE  /\ q \in Seq(S)
           /\ Len(q) \in 0..Len(p)
           /\ Prefixes(q) \subseteq Prefixes(p)
           /\ Ancestors(q) \subseteq Ancestors(p)
           /\ q \in Ancestors(p) => Prefixes(q) \subseteq Ancestors(p)
<1>1. PICK n \in 0..Len(p) : q = SubSeq(p, 1, n)
  BY DEF Prefixes
<1>2. q \in Seq(S) /\ Len(q) = n /\ Len(p) \in Nat
  BY <1>1, FirstType, LenProperties
<1>3. \A m \in 0..n : SubSeq(q, 1, m) = SubSeq(p, 1, m)
  BY <1>1, FirstFirst
<1>4. Prefixes(q) \subseteq Prefixes(p)
  BY <1>2, <1>3 DEF Prefixes
<1>5. Ancestors(q) \subseteq Ancestors(p)
  BY <1>2, <1>3, SMTT(60) DEF Ancestors
<1>6. ASSUME q \in Ancestors(p)
      PROVE  Prefixes(q) \subseteq Ancestors(p)
  <2>1. PICK m \in 0..(Len(p) - 1) : q = SubSeq(p, 1, m)
    BY <1>6 DEF Ancestors
  <2>2. m = n
    BY <2>1, <1>2, FirstType
  <2> QED
    BY <2>2, <1>2, <1>3 DEF Prefixes, Ancestors
<1> QED
  BY <1>2, <1>4, <1>5, <1>6

\* Above a path there are its parent and what is above that; above the root
\* there is nothing.
LEMMA AncestorsOfKid ==
    ASSUME NEW S, NEW p \in Seq(S)
    PROVE  /\ p # Root => /\ Ancestors(p) = Prefixes(Parent(p))
                          /\ Parent(p) \in Ancestors(p)
                          /\ Root \in Ancestors(p)
           /\ Ancestors(Root) = {}
<1>1. Ancestors(Root) = {}
  <2>1. Len(Root) = 0
    BY EmptySeq DEF Root
  <2> QED
    BY <2>1 DEF Ancestors
<1>2. ASSUME p # Root
      PROVE  Ancestors(p) = Prefixes(Parent(p)) /\ Parent(p) \in Ancestors(p)
  <2>1. /\ Len(p) \in Nat \ {0}
        /\ Parent(p) \in Seq(S)
        /\ Len(Parent(p)) = Len(p) - 1
    BY <1>2, ParentType
  <2>2. \A m \in 0..(Len(p) - 1) : SubSeq(Parent(p), 1, m) = SubSeq(p, 1, m)
    <3>1. Len(p) - 1 \in 0..Len(p)
      BY <2>1
    <3> QED
      BY <3>1, FirstFirst DEF Parent
  <2>3. Parent(p) \in Ancestors(p)
    <3>1. Len(p) - 1 \in 0..(Len(p) - 1)
      BY <2>1
    <3> QED
      BY <3>1 DEF Parent, Ancestors
  <2> QED
    BY <2>1, <2>2, <2>3 DEF Prefixes, Ancestors
<1>3. p # Root => Root \in Ancestors(p)
  BY PrefixesSplit
<1> QED
  BY <1>1, <1>2, <1>3

\* HasPrefix is what its name says.
LEMMA HasPrefixIsPrefix ==
    ASSUME NEW S, NEW p \in Seq(S), NEW q \in Seq(S)
    PROVE  HasPrefix(q, p) <=> p \in Prefixes(q)
<1>1. Len(p) \in Nat /\ Len(q) \in Nat
  BY LenProperties
<1>2. ASSUME HasPrefix(q, p)
      PROVE  p \in Prefixes(q)
  <2>1. Len(p) \in 0..Len(q)
    BY <1>1, <1>2 DEF HasPrefix
  <2>2. /\ SubSeq(q, 1, Len(p)) \in Seq(S)
        /\ Len(SubSeq(q, 1, Len(p))) = Len(p)
        /\ \A i \in 1..Len(p) : SubSeq(q, 1, Len(p))[i] = q[i]
    BY <2>1, FirstType
  <2>3. p = SubSeq(q, 1, Len(p))
    <3>1. \A i \in 1..Len(p) : p[i] = SubSeq(q, 1, Len(p))[i]
      BY <1>2, <2>2 DEF HasPrefix
    <3> QED
      BY <2>2, <3>1, SeqEqual
  <2> QED
    BY <2>1, <2>3 DEF Prefixes
<1>3. ASSUME p \in Prefixes(q)
      PROVE  HasPrefix(q, p)
  <2>1. PICK n \in 0..Len(q) : p = SubSeq(q, 1, n)
    BY <1>3 DEF Prefixes
  <2> QED
    BY <2>1, <1>1, FirstType DEF HasPrefix
<1> QED
  BY <1>2, <1>3

\* Of two prefixes of one path, one is a prefix of the other.
LEMMA PrefixesChain ==
    ASSUME NEW S, NEW r \in Seq(S), NEW p \in Prefixes(r), NEW q \in Prefixes(r)
    PROVE  p \in Ancestors(q) \/ p = q \/ q \in Ancestors(p)
<1>1. PICK m \in 0..Len(r) : p = SubSeq(r, 1, m)
  BY DEF Prefixes
<1>2. PICK n \in 0..Len(r) : q = SubSeq(r, 1, n)
  BY DEF Prefixes
<1>3. Len(p) = m /\ Len(q) = n
  BY <1>1, <1>2, FirstType
<1>4. CASE m < n
  <2>1. m \in 0..n /\ m \in 0..(n - 1)
    BY <1>4
  <2>2. SubSeq(q, 1, m) = p
    BY <1>1, <1>2, <2>1, FirstFirst
  <2> QED
    BY <1>3, <2>1, <2>2 DEF Ancestors
<1>5. CASE n < m
  <2>1. n \in 0..m /\ n \in 0..(m - 1)
    BY <1>5
  <2>2. SubSeq(p, 1, n) = q
    BY <1>1, <1>2, <2>1, FirstFirst
  <2> QED
    BY <1>3, <2>1, <2>2 DEF Ancestors
<1> QED
  BY <1>1, <1>2, <1>4, <1>5

\* Between an ancestor and a path there is a kid of the ancestor.
LEMMA KidBetween ==
    ASSUME NEW S, NEW q \in Seq(S), NEW p \in Ancestors(q)
    PROVE  \E k \in Prefixes(q) : k # Root /\ Parent(k) = p
<1>1. PICK n \in 0..(Len(q) - 1) : p = SubSeq(q, 1, n)
  BY DEF Ancestors
<1>2. Len(q) \in Nat /\ n + 1 \in 0..Len(q) /\ n \in 0..(n + 1)
  BY LenProperties
<1> DEFINE k == SubSeq(q, 1, n + 1)
<1>3. k \in Seq(S) /\ Len(k) = n + 1
  BY <1>2, FirstType
<1>4. k # Root
  BY <1>3, EmptySeq DEF Root
<1>5. SubSeq(k, 1, n) = p
  BY <1>1, <1>2, FirstFirst
<1>6. Parent(k) = p
  BY <1>3, <1>5 DEF Parent
<1>7. k \in Prefixes(q)
  BY <1>2 DEF Prefixes
<1> QED
  BY <1>4, <1>6, <1>7

\* A path below p is p followed by the rest of it.
LEMMA RelBack ==
    ASSUME NEW S, NEW q \in Seq(S), NEW p \in Prefixes(q)
    PROVE  /\ Rel(q, p) \in Seq(S)
           /\ p \o Rel(q, p) = q
           /\ q # p => Rel(q, p) # Root
<1>1. PICK n \in 0..Len(q) : p = SubSeq(q, 1, n)
  BY DEF Prefixes
<1>2. p \in Seq(S) /\ Len(p) = n /\ Len(q) \in Nat
  BY <1>1, FirstType, LenProperties
<1>3. \A i \in (n + 1)..Len(q) : q[i] \in S
  <2> SUFFICES ASSUME NEW i \in (n + 1)..Len(q)
               PROVE  q[i] \in S
    OBVIOUS
  <2>1. i \in 1..Len(q)
    BY <1>2
  <2> QED
    BY <2>1, ElementOfSeq
<1>4. Rel(q, p) \in Seq(S)
  BY <1>2, <1>3, SubSeqProperties DEF Rel
<1>5. SubSeq(q, 1, n) \o SubSeq(q, n + 1, Len(q)) = SubSeq(q, 1, Len(q))
  <2>1. 1 \in 1..Len(q)+1 /\ n \in 1-1..Len(q) /\ Len(q) \in n..Len(q)
    BY <1>2
  <2> QED
    BY <2>1, ConcatAdjacentSubSeq
<1>6. p \o Rel(q, p) = q
  BY <1>1, <1>2, <1>5, SubSeqFull DEF Rel
<1>7. q # p => Rel(q, p) # Root
  BY <1>2, <1>6, ConcatEmptySeq DEF Root
<1> QED
  BY <1>4, <1>6, <1>7

\* What follows p in p \o r is r, and r is all there is.
LEMMA RelOfConcat ==
    ASSUME NEW S, NEW p \in Seq(S), NEW r \in Seq(S)
    PROVE  /\ p \o r \in Seq(S)
           /\ Rel(p \o r, p) = r
           /\ p \in Prefixes(p \o r)
           /\ r # Root => p \in Ancestors(p \o r) /\ p \o r # p /\ p \o r # Root
<1>1. /\ p \o r \in Seq(S)
      /\ Len(p \o r) = Len(p) + Len(r)
      /\ Len(p) \in Nat /\ Len(r) \in Nat
      /\ \A i \in 1 .. Len(p) + Len(r) :
            (p \o r)[i] = IF i <= Len(p) THEN p[i] ELSE r[i - Len(p)]
  BY ConcatProperties, LenProperties
<1>2. HasPrefix(p \o r, p)
  BY <1>1 DEF HasPrefix
<1>3. p \in Prefixes(p \o r)
  BY <1>1, <1>2, HasPrefixIsPrefix
<1>4. Rel(p \o r, p) \in Seq(S) /\ p \o Rel(p \o r, p) = p \o r
  BY <1>1, <1>3, RelBack
<1>5. Rel(p \o r, p) = r
  BY <1>4, ConcatSimplifications
<1>6. r # Root => p \o r # p /\ p \o r # Root
  BY ConcatEqualIffEmpty DEF Root
<1>7. r # Root => p \in Ancestors(p \o r)
  <2>1. Prefixes(p \o r) = Ancestors(p \o r) \cup {p \o r}
    BY <1>1, PrefixesSplit
  <2> QED
    BY <1>3, <1>6, <2>1
<1> QED
  BY <1>1, <1>3, <1>5, <1>6, <1>7

\* First(n) of a concatenation ends in the first path or in the second.
LEMMA AncestorsOfConcat ==
    ASSUME NEW S, NEW p \in Seq(S), NEW r \in Seq(S), NEW a \in Ancestors(p \o r)
    PROVE  \/ a \in Ancestors(p)
           \/ \E s \in Ancestors(r) : a = p \o s
<1>1. /\ p \o r \in Seq(S) /\ p \in Prefixes(p \o r)
      /\ Len(p \o r) = Len(p) + Len(r)
      /\ Len(p) \in Nat /\ Len(r) \in Nat
      /\ \A i \in 1 .. Len(p) + Len(r) :
            (p \o r)[i] = IF i <= Len(p) THEN p[i] ELSE r[i - Len(p)]
  BY ConcatProperties, LenProperties, RelOfConcat
<1>2. PICK n \in 0..(Len(p \o r) - 1) : a = SubSeq(p \o r, 1, n)
  BY DEF Ancestors
<1>3. n \in 0..Len(p \o r) /\ n \in Nat
  BY <1>1
<1>4. /\ a \in Seq(S) /\ Len(a) = n
      /\ \A i \in 1..n : a[i] = (p \o r)[i]
  BY <1>1, <1>2, <1>3, FirstType
<1>5. CASE n < Len(p)
  <2>1. n \in 0..(Len(p) - 1) /\ n \in 0..Len(p)
    BY <1>1, <1>3, <1>5
  <2>2. /\ SubSeq(p, 1, n) \in Seq(S) /\ Len(SubSeq(p, 1, n)) = n
        /\ \A i \in 1..n : SubSeq(p, 1, n)[i] = p[i]
    BY <2>1, FirstType
  <2>3. \A i \in 1..n : a[i] = SubSeq(p, 1, n)[i]
    BY <1>1, <1>4, <1>5, <2>2
  <2>4. a = SubSeq(p, 1, n)
    BY <1>4, <2>2, <2>3, SeqEqual
  <2> QED
    BY <2>1, <2>4 DEF Ancestors
<1>6. CASE n >= Len(p)
  <2> DEFINE m == n - Len(p)
             s == SubSeq(r, 1, m)
  <2>1. m \in 0..(Len(r) - 1) /\ m \in 0..Len(r) /\ n = Len(p) + m
    BY <1>1, <1>3, <1>6
  <2>2. s \in Seq(S) /\ Len(s) = m /\ \A i \in 1..m : s[i] = r[i]
    BY <2>1, FirstType
  <2>3. s \in Ancestors(r)
    BY <2>1 DEF Ancestors
  <2> HIDE DEF s
  <2>4. /\ p \o s \in Seq(S) /\ Len(p \o s) = Len(p) + m
        /\ \A i \in 1 .. Len(p) + m :
              (p \o s)[i] = IF i <= Len(p) THEN p[i] ELSE s[i - Len(p)]
    BY <2>2, ConcatProperties
  <2>5. \A i \in 1..n : a[i] = (p \o s)[i]
    <3> SUFFICES ASSUME NEW i \in 1..n
                 PROVE  a[i] = (p \o s)[i]
      OBVIOUS
    <3>1. i \in 1..(Len(p) + m) /\ i \in 1..(Len(p) + Len(r))
      BY <1>1, <2>1
    <3>2. CASE i <= Len(p)
      BY <1>1, <1>4, <2>4, <3>1, <3>2
    <3>3. CASE i > Len(p)
      <4>1. i - Len(p) \in 1..m
        BY <1>1, <2>1, <3>1, <3>3
      <4> QED
        BY <1>1, <1>4, <2>2, <2>4, <3>1, <3>3, <4>1
    <3>4. i <= Len(p) \/ i > Len(p)
      BY <1>1, <3>1
    <3> QED
      BY <3>2, <3>3, <3>4
  <2>6. a = p \o s
    BY <1>4, <2>1, <2>4, <2>5, SeqEqual
  <2> QED
    BY <2>3, <2>6
<1>7. n < Len(p) \/ n >= Len(p)
  BY <1>1, <1>3
<1> QED
  BY <1>5, <1>6, <1>7

\* A kid is its directory and one more element; what follows it in a longer
\* relative path is that path's tail.
KidSplit(S, k, s) ==
    LET x == Rel(k, Parent(k))
    IN  /\ x \in Seq(S) /\ x # Root /\ Len(x) = 1
        /\ Append(Parent(k), Head(x)) = k
        /\ x \o s \in Seq(S) /\ x \o s # Root
        /\ Len(x \o s) = 1 + Len(s)
        /\ Append(Parent(k), Head(x \o s)) = k
        /\ Tail(x \o s) = s
        /\ Parent(k) \o (x \o s) = k \o s

\* Every path but the root splits off its last element, and an extension of
\* a relative path of one element splits at its head.
LEMMA RelOfKid ==
    ASSUME NEW S, NEW k \in Seq(S), k # Root, NEW s \in Seq(S)
    PROVE  KidSplit(S, k, s)
<1> DEFINE d == Parent(k)
           x == Rel(k, d)
           n == Len(k)
<1>1. n \in Nat \ {0} /\ d \in Seq(S) /\ Len(d) = n - 1 /\ d \in Prefixes(k)
  BY ParentType, AncestorsOfKid, PrefixesSplit
<1>2. x \in Seq(S) /\ d \o x = k /\ x # Root
  <2>1. k # d
    BY <1>1
  <2> QED
    BY <1>1, <2>1, RelBack
<1> HIDE DEF x, d
<1>3. Len(x) = 1
  <2>1. Len(d \o x) = Len(d) + Len(x) /\ Len(x) \in Nat
    BY <1>1, <1>2, ConcatProperties, LenProperties
  <2>2. Len(d \o x) = n
    BY <1>2
  <2>3. Len(d) \in Nat /\ Len(d) + 1 = n
    BY <1>1
  <2>4. Len(d) + Len(x) = Len(d) + 1
    BY <2>1, <2>2, <2>3, Zenon
  <2>5. \A i, j \in Nat : i + j = i + 1 => j = 1
    OBVIOUS
  <2> QED
    BY <2>1, <2>3, <2>4, <2>5, Zenon
<1>4. Head(x) \in S /\ Head(x) = x[1]
  BY <1>2, <1>3, HeadTailProperties DEF Root
<1>5. x = <<Head(x)>>
  <2>1. <<Head(x)>> \in Seq(S) /\ Len(<<Head(x)>>) = 1 /\ <<Head(x)>>[1] = x[1]
    BY <1>4
  <2>2. \A i \in 1..Len(x) : x[i] = <<Head(x)>>[i]
    BY <1>3, <2>1
  <2> QED
    BY <1>2, <1>3, <2>1, <2>2, SeqEqual
<1>6. Append(d, Head(x)) = k
  BY <1>1, <1>2, <1>4, <1>5, AppendIsConcat
<1> DEFINE y == x \o s
<1>7. /\ y \in Seq(S) /\ Len(y) = 1 + Len(s) /\ Len(s) \in Nat
      /\ \A i \in 1 .. 1 + Len(s) : y[i] = IF i <= 1 THEN x[i] ELSE s[i - 1]
  <2>1. /\ x \o s \in Seq(S) /\ Len(x \o s) = Len(x) + Len(s)
        /\ \A i \in 1 .. Len(x) + Len(s) :
              (x \o s)[i] = IF i <= Len(x) THEN x[i] ELSE s[i - Len(x)]
    BY <1>2, ConcatProperties
  <2>2. Len(s) \in Nat
    BY LenProperties
  <2> QED
    BY <1>3, <2>1, <2>2
<1> HIDE DEF y
<1>8. y # Root
  BY <1>7, EmptySeq DEF Root
<1>9. Head(y) = Head(x)
  <2>1. y[1] = x[1]
    BY <1>7
  <2> QED
    BY <1>4, <1>7, <1>8, <2>1 DEF Root
<1>10. Tail(y) = s
  <2>1. /\ Tail(y) \in Seq(S) /\ Len(Tail(y)) = Len(y) - 1
        /\ \A i \in 1 .. Len(Tail(y)) : Tail(y)[i] = y[i + 1]
    BY <1>7, <1>8, HeadTailProperties DEF Root
  <2>2. \A i \in 1..Len(s) : y[i + 1] = s[i]
    <3> SUFFICES ASSUME NEW i \in 1..Len(s)
                 PROVE  y[i + 1] = s[i]
      OBVIOUS
    <3>1. i + 1 \in 1..(1 + Len(s)) /\ ~(i + 1 <= 1) /\ i + 1 - 1 = i
      BY <1>7
    <3> QED
      BY <1>7, <3>1
  <2>3. Len(Tail(y)) = Len(s) /\ \A i \in 1..Len(Tail(y)) : Tail(y)[i] = s[i]
    BY <1>7, <2>1, <2>2
  <2> QED
    BY <2>1, <2>3, SeqEqual
<1>11. d \o y = k \o s
  <2>1. d \in Seq(S) /\ x \in Seq(S)
    BY <1>1, <1>2
  <2>2. (d \o x) \o s = d \o (x \o s)
    BY <2>1, ConcatAssociative, SMTT(60)
  <2> QED
    BY <1>2, <2>2 DEF y
<1> QED
  BY <1>2, <1>3, <1>6, <1>7, <1>8, <1>9, <1>10, <1>11 DEF x, d, y, KidSplit

\* Below p, what is above p \o r is what is above r.
LEMMA ConcatOfAncestors ==
    ASSUME NEW S, NEW p \in Seq(S), NEW r \in Seq(S), NEW s \in Ancestors(r)
    PROVE  /\ s \in Seq(S)
           /\ p \o s \in Ancestors(p \o r)
<1>1. s \in Prefixes(r) /\ s \in Seq(S) /\ s # r
  BY PrefixesSplit
<1>2. Rel(r, s) \in Seq(S) /\ s \o Rel(r, s) = r /\ Rel(r, s) # Root
  BY <1>1, RelBack
<1>3. (p \o s) \o Rel(r, s) = p \o r
  <2>1. s \in Seq(S) /\ Rel(r, s) \in Seq(S)
    BY <1>1, <1>2
  <2>2. (p \o s) \o Rel(r, s) = p \o (s \o Rel(r, s))
    BY <2>1, ConcatAssociative, SMTT(60)
  <2> QED
    BY <1>2, <2>2
<1>4. p \o s \in Seq(S)
  BY <1>1, ConcatProperties
<1>5. p \o s \in Ancestors((p \o s) \o Rel(r, s))
  BY <1>2, <1>4, RelOfConcat
<1> QED
  BY <1>1, <1>3, <1>5

=============================================================================
