--------------------------- MODULE TopicTreeProofs ---------------------------
(***************************************************************************)
(* Proofs about TopicTree: for every set of topic names, whatever was      *)
(* opened, closed, refreshed and filtered, the rows are the nodes they     *)
(* should be, and they are a tree.                                         *)
(*                                                                         *)
(* The walk yields the rows in the lexicographic order of the paths; what  *)
(* is sorted in that order and has the parents of its nodes is a tree, and *)
(* dropping rows keeps it sorted.                                          *)
(***************************************************************************)
EXTENDS TopicTree, SequenceTheorems, FiniteSetTheorems, WellFoundedInduction, TLAPS

Path == Seq(Nat)

(* The order of paths *)

\* Up to some place they are the same, and there a ends or has the smaller segment.
ComesBefore(a, b) ==
    \E i \in 1..Len(b) :
        /\ i <= Len(a) + 1
        /\ \A k \in 1..i-1 : a[k] = b[k]
        /\ i <= Len(a) => a[i] < b[i]

Sorted(s) == \A i, j \in DOMAIN s : i < j => ComesBefore(s[i], s[j])

LEMMA PathIs ==
    ASSUME NEW a \in Path
    PROVE  Len(a) \in Nat /\ DOMAIN a = 1..Len(a) /\ \A k \in 1..Len(a) : a[k] \in Nat
BY DEF Path

LEMMA Beginning ==
    ASSUME NEW a \in Path, NEW n \in Nat, n <= Len(a)
    PROVE  /\ SubSeq(a, 1, n) \in Path /\ Len(SubSeq(a, 1, n)) = n
           /\ \A k \in 1..n : SubSeq(a, 1, n)[k] = a[k]
<1>1. Len(a) \in Nat
  BY PathIs
<1>2. \A k \in 1..n : a[k] \in Nat
  BY PathIs, <1>1
<1> QED BY <1>1, <1>2 DEF Path

LEMMA PrefixIs ==
    ASSUME NEW a \in Path, NEW b \in Path
    PROVE  IsPrefix(a, b) <=> Len(a) <= Len(b) /\ \A k \in 1..Len(a) : a[k] = b[k]
<1>1. Len(a) \in Nat /\ Len(b) \in Nat
  BY PathIs
<1>2. CASE Len(a) <= Len(b)
  <2> DEFINE u == SubSeq(a, 1, Len(a))
             v == SubSeq(b, 1, Len(a))
  <2>1. /\ u \in Path /\ v \in Path /\ Len(u) = Len(a) /\ Len(v) = Len(a)
        /\ \A k \in 1..Len(a) : u[k] = a[k] /\ v[k] = b[k]
    BY <1>1, <1>2, PathIs, Beginning
  <2>2. IsPrefix(a, b) <=> u = v
    BY <1>2 DEF IsPrefix
  <2> HIDE DEF u, v
  <2>3. u = v <=> \A k \in 1..Len(a) : u[k] = v[k]
    <3>1. ASSUME \A k \in 1..Len(a) : u[k] = v[k] PROVE u = v
      BY <2>1, <3>1, SeqEqual DEF Path
    <3> QED BY <3>1
  <2>4. (\A k \in 1..Len(a) : u[k] = v[k]) <=> (\A k \in 1..Len(a) : a[k] = b[k])
    BY <2>1
  <2> QED BY <1>2, <2>2, <2>3, <2>4
<1>3. CASE ~(Len(a) <= Len(b))
  BY <1>3 DEF IsPrefix
<1> QED BY <1>2, <1>3

LEMMA NeverBack ==
    ASSUME NEW a \in Path, NEW b \in Path, ComesBefore(a, b)
    PROVE  a # b /\ ~ComesBefore(b, a)
<1>1. PICK i \in 1..Len(b) : /\ i <= Len(a) + 1
                             /\ \A k \in 1..i-1 : a[k] = b[k]
                             /\ i <= Len(a) => a[i] < b[i]
  BY DEF ComesBefore
<1>2. Len(a) \in Nat /\ Len(b) \in Nat
  BY PathIs
<1>3. a # b
  <2> SUFFICES ASSUME a = b PROVE FALSE
    OBVIOUS
  <2>1. i <= Len(a) /\ a[i] < a[i] /\ a[i] \in Nat
    BY <1>1, <1>2, PathIs
  <2> QED BY <2>1
<1>4. ASSUME ComesBefore(b, a) PROVE FALSE
  <2>1. PICK j \in 1..Len(a) : /\ j <= Len(b) + 1
                               /\ \A k \in 1..j-1 : b[k] = a[k]
                               /\ j <= Len(b) => b[j] < a[j]
    BY <1>4 DEF ComesBefore
  <2>2. CASE i < j
    <3>1. i \in 1..j-1 /\ i <= Len(a) /\ i \in 1..Len(a)
      BY <1>2, <2>2
    <3>2. b[i] = a[i] /\ a[i] < b[i] /\ a[i] \in Nat
      BY <1>1, <2>1, <3>1, PathIs
    <3> QED BY <3>2
  <2>3. CASE j < i
    <3>1. j \in 1..i-1 /\ j <= Len(b) /\ j \in 1..Len(b)
      BY <1>2, <2>3
    <3>2. b[j] = a[j] /\ b[j] < a[j] /\ b[j] \in Nat
      BY <1>1, <2>1, <3>1, PathIs
    <3> QED BY <3>2
  <2>4. CASE i = j
    <3>1. i <= Len(a) /\ i <= Len(b) /\ i \in 1..Len(a) /\ i \in 1..Len(b)
      BY <1>2, <2>4
    <3>2. a[i] < b[i] /\ b[i] < a[i] /\ a[i] \in Nat /\ b[i] \in Nat
      BY <1>1, <2>1, <2>4, <3>1, PathIs
    <3> QED BY <3>2
  <2> QED BY <1>2, <2>2, <2>3, <2>4
<1> QED BY <1>3, <1>4

LEMMA PrefixFirst ==
    ASSUME NEW a \in Path, NEW b \in Path, IsPrefix(a, b), a # b
    PROVE  ComesBefore(a, b) /\ Len(a) < Len(b)
<1>1. /\ Len(a) \in Nat /\ Len(b) \in Nat /\ Len(a) <= Len(b)
      /\ \A k \in 1..Len(a) : a[k] = b[k]
  BY PathIs, PrefixIs
<1>2. Len(a) # Len(b)
  <2> SUFFICES ASSUME Len(a) = Len(b) PROVE FALSE
    OBVIOUS
  <2>1. a = b
    BY <1>1, SeqEqual DEF Path
  <2> QED BY <2>1
<1> DEFINE i == Len(a) + 1
<1>3. i \in 1..Len(b) /\ i <= Len(a) + 1 /\ ~(i <= Len(a)) /\ i - 1 = Len(a)
  BY <1>1, <1>2
<1> HIDE DEF i
<1> QED BY <1>1, <1>2, <1>3 DEF ComesBefore

\* What lies between a path and a path below it is below it.
LEMMA Between ==
    ASSUME NEW a \in Path, NEW x \in Path, NEW b \in Path, IsPrefix(a, b),
           ComesBefore(a, x), ComesBefore(x, b)
    PROVE  IsPrefix(a, x)
<1>1. /\ Len(a) \in Nat /\ Len(b) \in Nat /\ Len(x) \in Nat /\ Len(a) <= Len(b)
      /\ \A k \in 1..Len(a) : a[k] = b[k] /\ a[k] \in Nat
      /\ \A k \in 1..Len(x) : x[k] \in Nat
  BY PathIs, PrefixIs
<1>2. PICK i \in 1..Len(x) : /\ i <= Len(a) + 1
                             /\ \A k \in 1..i-1 : a[k] = x[k]
                             /\ i <= Len(a) => a[i] < x[i]
  BY DEF ComesBefore
<1>3. CASE i = Len(a) + 1
  <2>1. Len(a) <= Len(x) /\ \A k \in 1..Len(a) : a[k] = x[k]
    BY <1>1, <1>2, <1>3
  <2> QED BY <2>1, PrefixIs
<1>4. CASE i # Len(a) + 1
  <2>1. i <= Len(a) /\ i \in 1..Len(a) /\ a[i] < x[i] /\ b[i] < x[i]
    BY <1>1, <1>2, <1>4
  <2>2. PICK j \in 1..Len(b) : /\ j <= Len(x) + 1
                               /\ \A k \in 1..j-1 : x[k] = b[k]
                               /\ j <= Len(x) => x[j] < b[j]
    BY DEF ComesBefore
  <2>3. CASE i < j
    <3>1. i \in 1..j-1
      BY <1>1, <2>3
    <3>2. x[i] = b[i] /\ b[i] \in Nat /\ b[i] < x[i]
      BY <1>1, <2>1, <2>2, <3>1
    <3> QED BY <3>2
  <2>4. CASE j = i
    <3>1. x[i] < b[i] /\ b[i] < x[i] /\ x[i] \in Nat /\ b[i] \in Nat
      BY <1>1, <2>1, <2>2, <2>4
    <3> QED BY <3>1
  <2>5. CASE j < i
    <3>1. j \in 1..i-1 /\ j \in 1..Len(a) /\ j <= Len(x) /\ j \in 1..Len(x)
      BY <1>1, <2>1, <2>5
    <3>2. a[j] = x[j] /\ a[j] = b[j] /\ x[j] < b[j] /\ x[j] \in Nat
      BY <1>1, <1>2, <2>2, <3>1
    <3> QED BY <3>2
  <2> QED BY <1>1, <2>3, <2>4, <2>5
<1> QED BY <1>3, <1>4

\* Two that differ first at place m, and what is below them.
LEMMA BlocksApart ==
    ASSUME NEW c \in Path, NEW d \in Path, NEW x \in Path, NEW y \in Path,
           NEW m \in Nat, m > 0, Len(c) = m, Len(d) = m,
           \A k \in 1..m-1 : c[k] = d[k], c[m] < d[m], IsPrefix(c, x), IsPrefix(d, y)
    PROVE  ComesBefore(x, y)
<1>1. /\ Len(x) \in Nat /\ Len(y) \in Nat /\ m <= Len(x) /\ m <= Len(y)
      /\ \A k \in 1..m : c[k] = x[k] /\ d[k] = y[k]
  <2>1. Len(c) <= Len(x) /\ \A k \in 1..Len(c) : c[k] = x[k]
    BY PrefixIs
  <2>2. Len(d) <= Len(y) /\ \A k \in 1..Len(d) : d[k] = y[k]
    BY PrefixIs
  <2> QED BY <2>1, <2>2, PathIs
<1>2. m \in 1..Len(y) /\ m <= Len(x) + 1 /\ m \in 1..m
  BY <1>1
<1>3. \A k \in 1..m-1 : x[k] = y[k]
  <2> SUFFICES ASSUME NEW k \in 1..m-1 PROVE x[k] = y[k]
    OBVIOUS
  <2>1. k \in 1..m
    OBVIOUS
  <2> QED BY <1>1, <2>1
<1>4. x[m] < y[m]
  BY <1>1, <1>2
<1> QED BY <1>2, <1>3, <1>4 DEF ComesBefore

LEMMA FrontIs ==
    ASSUME NEW a \in Path, a # <<>>
    PROVE  /\ Front(a) \in Path /\ Len(a) > 0 /\ Len(Front(a)) = Len(a) - 1
           /\ \A k \in 1..Len(a) - 1 : Front(a)[k] = a[k]
           /\ Last(a) = a[Len(a)] /\ Last(a) \in Nat /\ IsPrefix(Front(a), a) /\ Front(a) # a
<1>1. Len(a) \in Nat /\ Len(a) > 0
  BY DEF Path
<1> DEFINE f == SubSeq(a, 1, Len(a) - 1)
<1>2. f \in Path /\ Len(f) = Len(a) - 1 /\ \A k \in 1..Len(a) - 1 : f[k] = a[k]
  <2>1. Len(a) - 1 \in Nat /\ Len(a) - 1 <= Len(a)
    BY <1>1
  <2> QED BY <2>1, Beginning
<1>3. Front(a) = f
  BY DEF Front
<1>4. Last(a) = a[Len(a)] /\ a[Len(a)] \in Nat
  BY <1>1, PathIs DEF Last
<1> HIDE DEF f
<1>5. Len(f) <= Len(a) /\ f # a
  BY <1>1, <1>2
<1>6. IsPrefix(f, a)
  BY <1>2, <1>5, PrefixIs
<1> QED BY <1>1, <1>2, <1>3, <1>4, <1>5, <1>6

LEMMA SiblingsInOrder ==
    ASSUME NEW a \in Path, NEW b \in Path, a # <<>>, b # <<>>, Front(a) = Front(b),
           ComesBefore(a, b)
    PROVE  Last(a) < Last(b)
<1>1. /\ Len(a) \in Nat /\ Len(b) \in Nat /\ Len(a) > 0 /\ Len(b) > 0
      /\ Len(a) = Len(b) /\ \A k \in 1..Len(a) - 1 : a[k] = b[k]
      /\ Last(a) = a[Len(a)] /\ Last(b) = b[Len(b)]
  <2> DEFINE f == Front(a)
  <2>1. /\ Len(a) > 0 /\ Len(f) = Len(a) - 1 /\ \A k \in 1..Len(a) - 1 : f[k] = a[k]
        /\ Last(a) = a[Len(a)]
    BY FrontIs
  <2>2. /\ Len(b) > 0 /\ Len(f) = Len(b) - 1 /\ \A k \in 1..Len(b) - 1 : f[k] = b[k]
        /\ Last(b) = b[Len(b)]
    BY FrontIs
  <2> HIDE DEF f
  <2>3. Len(a) \in Nat /\ Len(b) \in Nat
    BY PathIs
  <2> QED BY <2>1, <2>2, <2>3
<1>2. PICK i \in 1..Len(b) : /\ i <= Len(a) + 1
                             /\ \A k \in 1..i-1 : a[k] = b[k]
                             /\ i <= Len(a) => a[i] < b[i]
  BY DEF ComesBefore
<1>3. i <= Len(a) /\ a[i] < b[i] /\ a[i] \in Nat
  BY <1>1, <1>2, PathIs
<1>4. i = Len(a)
  <2> SUFFICES ASSUME i # Len(a) PROVE FALSE
    OBVIOUS
  <2>1. i \in 1..Len(a) - 1
    BY <1>1, <1>3
  <2>2. a[i] = b[i]
    BY <1>1, <2>1
  <2> QED BY <1>3, <2>2
<1> QED BY <1>1, <1>3, <1>4

-----------------------------------------------------------------------------
(* Numbers *)

LEMMA Least ==
    ASSUME NEW P \in SUBSET Nat, P # {}
    PROVE  \E o \in P : \A p \in P : o <= p
<1>1. PICK o \in P : \A p \in P : ~ (<<p, o>> \in OpToRel(<, Nat))
  BY NatLessThanWellFounded, WFMin
<1>2. ASSUME NEW p \in P PROVE o <= p
  <2>1. <<p, o>> \notin OpToRel(<, Nat)
    BY <1>1
  <2>2. ~(p < o)
    BY <2>1 DEF OpToRel
  <2> QED BY <2>2
<1> QED BY <1>2

LEMMA UpTo ==
    ASSUME NEW n \in Nat, NEW P \in SUBSET Nat, 0 \in P,
           \A k \in Nat : k < n /\ k \in P => k + 1 \in P
    PROVE  \A k \in 0..n : k \in P
<1> DEFINE Missing == {k \in 0..n : k \notin P}
<1> SUFFICES ASSUME Missing # {} PROVE FALSE
  OBVIOUS
<1>1. PICK k \in Missing : \A j \in Missing : k <= j
  <2>1. Missing \in SUBSET Nat
    OBVIOUS
  <2> HIDE DEF Missing
  <2> QED BY <2>1, Least
<1>2. k \in Nat /\ k # 0 /\ k <= n /\ k \notin P
  OBVIOUS
<1>3. k - 1 \in 0..n /\ k - 1 \notin Missing
  <2>1. k - 1 \in 0..n /\ ~(k <= k - 1)
    BY <1>2
  <2> HIDE DEF Missing
  <2> QED BY <1>1, <2>1
<1>4. k - 1 \in P
  BY <1>3
<1>5. (k - 1) + 1 \in P
  <2>1. k - 1 \in Nat /\ k - 1 < n
    BY <1>2
  <2> QED BY <1>4, <2>1
<1> QED BY <1>2, <1>5

LEMMA MaxIsIn ==
    ASSUME NEW n \in Nat, NEW T \in SUBSET (1..n), T # {}
    PROVE  Max(T) \in T /\ \A x \in T : x <= Max(T)
<1> DEFINE Bounds == {k \in Nat : \A x \in T : x <= k}
<1>1. PICK m \in Bounds : \A k \in Bounds : m <= k
  <2>1. n \in Bounds
    OBVIOUS
  <2>2. Bounds \in SUBSET Nat
    OBVIOUS
  <2> HIDE DEF Bounds
  <2> QED BY <2>1, <2>2, Least
<1>2. m \in T
  <2> SUFFICES ASSUME m \notin T PROVE FALSE
    OBVIOUS
  <2>1. ASSUME NEW x \in T PROVE x <= m - 1
    <3>1. x \in Nat /\ m \in Nat /\ x <= m /\ x # m
      OBVIOUS
    <3> QED BY <3>1
  <2>2. m - 1 \in Nat
    <3>1. PICK x \in T : TRUE
      OBVIOUS
    <3>2. x \in Nat /\ m \in Nat
      OBVIOUS
    <3>3. x <= m - 1
      BY <2>1
    <3> QED BY <3>2, <3>3
  <2>3. m - 1 \in Bounds
    BY <2>1, <2>2
  <2>4. m <= m - 1 /\ m \in Nat
    BY <1>1, <2>3
  <2> QED BY <2>4
<1>3. \A x \in T : m >= x
  OBVIOUS
<1>4. Max(T) \in T /\ \A x \in T : Max(T) >= x
  BY <1>2, <1>3 DEF Max
<1>5. \A x \in T : x \in Nat
  OBVIOUS
<1> QED BY <1>4, <1>5

-----------------------------------------------------------------------------
(* The tree *)

LEMMA PrefixesAre ==
    ASSUME NEW a \in Path
    PROVE  /\ Prefixes(a) = {p \in Path : IsPrefix(p, a)}
           /\ a \in Prefixes(a) /\ Root \in Prefixes(a)
<1>1. Len(a) \in Nat
  BY PathIs
<1>2. ASSUME NEW l \in 0..Len(a) PROVE SubSeq(a, 1, l) \in Path /\ IsPrefix(SubSeq(a, 1, l), a)
  <2> DEFINE p == SubSeq(a, 1, l)
  <2>1. p \in Path /\ Len(p) = l /\ \A k \in 1..l : p[k] = a[k]
    BY <1>1, Beginning
  <2> HIDE DEF p
  <2>2. IsPrefix(p, a)
    BY <1>1, <2>1, PrefixIs
  <2> QED BY <2>1, <2>2 DEF p
<1>3. ASSUME NEW p \in Path, IsPrefix(p, a) PROVE \E l \in 0..Len(a) : p = SubSeq(a, 1, l)
  <2>1. Len(p) \in 0..Len(a) /\ \A k \in 1..Len(p) : p[k] = a[k]
    BY <1>1, <1>3, PathIs, PrefixIs
  <2> DEFINE u == SubSeq(a, 1, Len(p))
  <2>2. u \in Path /\ Len(u) = Len(p) /\ \A k \in 1..Len(p) : u[k] = a[k]
    BY <1>1, <2>1, Beginning
  <2> HIDE DEF u
  <2>3. p = u
    BY <2>1, <2>2, SeqEqual DEF Path
  <2> QED BY <2>1, <2>3 DEF u
<1>4. Prefixes(a) = {p \in Path : IsPrefix(p, a)}
  BY <1>2, <1>3 DEF Prefixes
<1>5. IsPrefix(a, a)
  BY <1>1, PrefixIs
<1>6. Root \in Path /\ IsPrefix(Root, a)
  <2>1. <<>> \in Path /\ Len(<<>>) = 0
    BY DEF Path
  <2>2. Len(<<>>) <= Len(a) /\ \A k \in 1..Len(<<>>) : <<>>[k] = a[k]
    BY <1>1, <2>1
  <2> QED BY <2>1, <2>2, PrefixIs DEF Root
<1> QED BY <1>4, <1>5, <1>6

LEMMA PrefixTransitive ==
    ASSUME NEW a \in Path, NEW b \in Path, NEW c \in Path, IsPrefix(a, b), IsPrefix(b, c)
    PROVE  IsPrefix(a, c)
<1>1. /\ Len(a) \in Nat /\ Len(b) \in Nat /\ Len(c) \in Nat
      /\ Len(a) <= Len(b) /\ Len(b) <= Len(c)
      /\ \A k \in 1..Len(a) : a[k] = b[k]
      /\ \A k \in 1..Len(b) : b[k] = c[k]
  BY PathIs, PrefixIs
<1>2. \A k \in 1..Len(a) : a[k] = c[k]
  BY <1>1
<1> QED BY <1>1, <1>2, PrefixIs

\* Of two prefixes of a path the shorter is a prefix of the longer.
LEMMA PrefixesNest ==
    ASSUME NEW a \in Path, NEW p \in Path, NEW q \in Path, IsPrefix(p, a), IsPrefix(q, a),
           Len(p) <= Len(q)
    PROVE  IsPrefix(p, q) /\ (Len(p) = Len(q) => p = q)
<1>1. /\ Len(p) \in Nat /\ Len(q) \in Nat
      /\ \A k \in 1..Len(p) : p[k] = a[k]
      /\ \A k \in 1..Len(q) : q[k] = a[k]
  BY PathIs, PrefixIs
<1>2. \A k \in 1..Len(p) : p[k] = q[k]
  BY <1>1
<1>3. IsPrefix(p, q)
  BY <1>2, PrefixIs
<1>4. Len(p) = Len(q) => p = q
  BY <1>1, <1>2, SeqEqual DEF Path
<1> QED BY <1>3, <1>4

\* The next one on the way from n to x.
LEMMA NextOnTheWay ==
    ASSUME NEW n \in Path, NEW x \in Path, IsPrefix(n, x), n # x
    PROVE  \E c \in Path : /\ c # Root /\ Front(c) = n /\ IsPrefix(c, x) /\ Len(c) = Len(n) + 1
<1>1. Len(n) \in Nat /\ Len(x) \in Nat /\ Len(n) < Len(x)
  BY PathIs, PrefixFirst
<1> DEFINE c == SubSeq(x, 1, Len(n) + 1)
<1>2. c \in Path /\ Len(c) = Len(n) + 1 /\ \A k \in 1..Len(n) + 1 : c[k] = x[k]
  BY <1>1, Beginning
<1> HIDE DEF c
<1>3. c # <<>>
  BY <1>1, <1>2
<1>4. IsPrefix(c, x)
  BY <1>1, <1>2, PrefixIs
<1>5. Front(c) \in Path /\ Len(Front(c)) = Len(n) /\ IsPrefix(Front(c), c)
  BY <1>1, <1>2, <1>3, FrontIs
<1>6. IsPrefix(Front(c), x)
  BY <1>2, <1>4, <1>5, PrefixTransitive
<1>7. Front(c) = n
  BY <1>1, <1>5, <1>6, PrefixesNest
<1> QED BY <1>2, <1>3, <1>4, <1>7 DEF Root

LEMMA InNodes ==
    ASSUME NEW ts, NEW x
    PROVE  x \in Nodes(ts) <=> x # Root /\ \E t \in ts : x \in Prefixes(t)
<1>1. x \in Upwards(ts) <=> \E t \in ts : x \in Prefixes(t)
  BY DEF Upwards
<1> QED BY <1>1 DEF Nodes

LEMMA NodesAre ==
    ASSUME NEW ts \in SUBSET Names
    PROVE  /\ Nodes(ts) \subseteq Path /\ Root \notin Nodes(ts) /\ ts \subseteq Nodes(ts)
           /\ Nodes(ts) \subseteq Nodes(Names)
           /\ \A x \in Nodes(ts), p \in Path :
                 IsPrefix(p, x) /\ p # Root => p \in Nodes(ts)
           /\ \A x \in Nodes(ts) : \E t \in ts : IsPrefix(x, t)
           /\ ts \subseteq Path
<1>1. ts \subseteq Path /\ Root \notin ts
  BY NamesAssumption DEF Path, Root
<1>2. \A t \in ts : Prefixes(t) = {p \in Path : IsPrefix(p, t)} /\ t \in Prefixes(t)
  BY <1>1, PrefixesAre
<1>3. Nodes(ts) \subseteq Path /\ Root \notin Nodes(ts) /\ ts \subseteq Nodes(ts)
  BY <1>1, <1>2, InNodes
<1>4. \A x \in Nodes(ts) : \E t \in ts : IsPrefix(x, t)
  BY <1>2, InNodes
<1>5. ASSUME NEW x \in Nodes(ts), NEW p \in Path, IsPrefix(p, x), p # Root
      PROVE  p \in Nodes(ts)
  <2>1. PICK t \in ts : IsPrefix(x, t)
    BY <1>4
  <2>2. IsPrefix(p, t)
    BY <1>1, <1>3, <1>5, <2>1, PrefixTransitive
  <2>3. p \in Prefixes(t)
    BY <1>2, <1>5, <2>2
  <2> QED BY <1>5, <2>3, InNodes
<1>6. Nodes(ts) \subseteq Nodes(Names)
  BY InNodes
<1> QED BY <1>1, <1>3, <1>4, <1>5, <1>6

LEMMA FiniteTopicsAre ==
    ASSUME NEW ts \in FiniteTopics
    PROVE  ts \in SUBSET Names /\ IsFiniteSet(ts)
BY DEF FiniteTopics

\* No node is deeper than the longest name.
LEMMA Height ==
    ASSUME NEW ts \in FiniteTopics
    PROVE  \E h \in Nat : \A x \in Nodes(ts) : Len(x) <= h
<1>1. ts \in SUBSET Names /\ IsFiniteSet(ts)
  BY FiniteTopicsAre
<1>2. PICK n \in Nat : ExistsSurjection(1..n, ts)
  BY <1>1, FS_NatSurjection
<1>3. PICK f \in [1..n -> ts] : \A t \in ts : \E i \in 1..n : f[i] = t
  BY <1>2 DEF ExistsSurjection, Surjection
<1>4. \A i \in 1..n : Len(f[i]) \in Nat
  BY <1>1, NodesAre, PathIs
<1> DEFINE P == {k \in Nat : \E h \in Nat : \A i \in 1..n : i <= k => Len(f[i]) <= h}
<1>5. 0 \in P
  <2>1. \A i \in 1..n : ~(i <= 0)
    OBVIOUS
  <2> QED BY <2>1
<1>6. ASSUME NEW k \in Nat, k < n, k \in P PROVE k + 1 \in P
  <2>1. PICK h \in Nat : \A i \in 1..n : i <= k => Len(f[i]) <= h
    BY <1>6
  <2>2. k + 1 \in 1..n /\ Len(f[k + 1]) \in Nat
    BY <1>4, <1>6
  <2>3. PICK b \in Nat : h <= b /\ Len(f[k + 1]) <= b
    <3>1. h <= h + Len(f[k + 1]) /\ Len(f[k + 1]) <= h + Len(f[k + 1])
          /\ h + Len(f[k + 1]) \in Nat
      BY <2>2
    <3> QED BY <3>1
  <2>4. ASSUME NEW i \in 1..n, i <= k + 1 PROVE Len(f[i]) <= b
    <3>1. CASE i <= k
      BY <1>4, <2>1, <2>3, <3>1
    <3>2. CASE ~(i <= k)
      <4>1. i = k + 1
        BY <2>4, <3>2
      <4> QED BY <2>3, <4>1
    <3> QED BY <3>1, <3>2
  <2> QED BY <2>4
<1>7. n \in P
  <2>1. P \in SUBSET Nat /\ n \in 0..n
    OBVIOUS
  <2> HIDE DEF P
  <2> QED BY <1>5, <1>6, <2>1, UpTo
<1>8. PICK h \in Nat : \A i \in 1..n : i <= n => Len(f[i]) <= h
  BY <1>7
<1>9. ASSUME NEW x \in Nodes(ts) PROVE Len(x) <= h
  <2>1. PICK t \in ts : IsPrefix(x, t)
    BY <1>1, NodesAre
  <2>2. PICK i \in 1..n : f[i] = t
    BY <1>3
  <2>3. Len(t) <= h
    BY <1>8, <2>2
  <2>4. x \in Path /\ t \in Path
    BY <1>1, NodesAre
  <2>5. Len(x) \in Nat /\ Len(t) \in Nat /\ Len(x) <= Len(t)
    BY <2>1, <2>4, PathIs, PrefixIs
  <2> QED BY <2>3, <2>5
<1> QED BY <1>9

LEMMA PrefixesFinite ==
    ASSUME NEW a \in Path
    PROVE  IsFiniteSet(Prefixes(a))
<1>1. Len(a) \in Nat
  BY PathIs
<1> DEFINE f == [l \in 0..Len(a) |-> SubSeq(a, 1, l)]
<1>2. f \in Surjection(0..Len(a), Prefixes(a))
  <2>1. f \in [0..Len(a) -> Prefixes(a)]
    BY DEF Prefixes
  <2>2. \A p \in Prefixes(a) : \E l \in 0..Len(a) : f[l] = p
    BY DEF Prefixes
  <2> HIDE DEF f
  <2> QED BY <2>1, <2>2 DEF Surjection
<1>3. IsFiniteSet(0..Len(a))
  BY <1>1, FS_Interval
<1> HIDE DEF f
<1> QED BY <1>2, <1>3, FS_Surjection

LEMMA NodesFinite ==
    ASSUME NEW ts \in FiniteTopics
    PROVE  IsFiniteSet(Nodes(ts))
<1>1. ts \in SUBSET Names /\ IsFiniteSet(ts) /\ ts \subseteq Path
  BY FiniteTopicsAre, NodesAre
<1> DEFINE Each == {Prefixes(t) : t \in ts}
           f == [t \in ts |-> Prefixes(t)]
<1>2. f \in Surjection(ts, Each)
  <2>1. f \in [ts -> Each]
    OBVIOUS
  <2>2. \A p \in Each : \E t \in ts : f[t] = p
    OBVIOUS
  <2> HIDE DEF f, Each
  <2> QED BY <2>1, <2>2 DEF Surjection
<1>3. \A T \in Each : IsFiniteSet(T)
  BY <1>1, PrefixesFinite
<1>4. Upwards(ts) = UNION Each
  BY DEF Upwards
<1> HIDE DEF f, Each
<1>5. IsFiniteSet(Each)
  BY <1>1, <1>2, FS_Surjection
<1>6. IsFiniteSet(UNION Each)
  BY <1>3, <1>5, FS_UNION
<1>7. Nodes(ts) \in SUBSET Upwards(ts)
  BY DEF Nodes
<1> QED BY <1>4, <1>6, <1>7, FS_Subset

\* A finite set of paths whose last segments differ, in the order of these.
Increasing(keys, k) == \A i, j \in 1..k : i < j => Last(keys[i]) < Last(keys[j])

LEMMA InOrder ==
    ASSUME NEW B \in SUBSET Path, IsFiniteSet(B), \A x \in B : Last(x) \in Nat,
           \A x, y \in B : Last(x) = Last(y) => x = y
    PROVE  \E keys \in [1..Cardinality(B) -> B] : Increasing(keys, Cardinality(B))
<1> DEFINE Enum(T, k) == \E keys \in [1..k -> T] : Increasing(keys, k)
           P == {k \in Nat : \A T \in SUBSET B : Cardinality(T) = k => Enum(T, k)}
<1>0. \A T \in SUBSET B : IsFiniteSet(T) /\ Cardinality(T) \in Nat
  BY FS_Subset, FS_CardinalityType
<1>1. 0 \in P
  <2>1. ASSUME NEW T \in SUBSET B PROVE Enum(T, 0)
    <3> DEFINE keys == [i \in 1..0 |-> B]
    <3>1. keys \in [1..0 -> T] /\ Increasing(keys, 0)
      BY DEF Increasing
    <3> HIDE DEF keys
    <3> QED BY <3>1
  <2> HIDE DEF Enum
  <2> QED BY <2>1
<1>2. ASSUME NEW k \in Nat, k \in P PROVE k + 1 \in P
  <2>1. ASSUME NEW T \in SUBSET B, Cardinality(T) = k + 1 PROVE Enum(T, k + 1)
    <3>1. T # {} /\ IsFiniteSet(T)
      BY <1>0, <2>1, FS_EmptySet
    <3>2. PICK t \in T : \A x \in T : Last(t) <= Last(x)
      <4> DEFINE L == {Last(x) : x \in T}
      <4>1. L \in SUBSET Nat /\ L # {}
        BY <3>1
      <4>2. PICK o \in L : \A p \in L : o <= p
        <5> HIDE DEF L
        <5> QED BY <4>1, Least
      <4> QED BY <4>2
    <3> DEFINE U == T \ {t}
    <3>3. U \in SUBSET B /\ Cardinality(U) = k
      <4>1. Cardinality(U) = Cardinality(T) - 1
        BY <3>1, FS_RemoveElement
      <4>2. Cardinality(U) = k
        BY <2>1, <4>1
      <4> QED BY <4>2
    <3>4. PICK rest \in [1..k -> U] : Increasing(rest, k)
      BY <1>2, <3>3
    <3> DEFINE keys == [i \in 1..k + 1 |-> IF i = 1 THEN t ELSE rest[i - 1]]
    <3>5. keys \in [1..k + 1 -> T]
      <4>1. ASSUME NEW i \in 1..k + 1, i # 1 PROVE rest[i - 1] \in T
        <5>1. i - 1 \in 1..k
          BY <4>1
        <5> QED BY <5>1
      <4> QED BY <4>1
    <3>6. ASSUME NEW i \in 1..k + 1, NEW j \in 1..k + 1, i < j
          PROVE  Last(keys[i]) < Last(keys[j])
      <4>1. j - 1 \in 1..k /\ j # 1 /\ keys[j] = rest[j - 1] /\ rest[j - 1] \in U
        <5>1. j - 1 \in 1..k /\ j # 1
          BY <3>6
        <5> QED BY <5>1
      <4>2. CASE i = 1
        <5>1. keys[i] = t /\ Last(t) <= Last(rest[j - 1]) /\ rest[j - 1] # t
          BY <3>2, <4>1, <4>2
        <5>2. Last(t) \in Nat /\ Last(rest[j - 1]) \in Nat
              /\ Last(t) # Last(rest[j - 1])
          BY <4>1, <5>1
        <5> HIDE DEF keys
        <5> QED BY <4>1, <5>1, <5>2
      <4>3. CASE i # 1
        <5>1. i - 1 \in 1..k /\ i - 1 < j - 1
          BY <3>6, <4>3
        <5>2. keys[i] = rest[i - 1]
          BY <4>3
        <5>3. Last(rest[i - 1]) < Last(rest[j - 1])
          BY <3>4, <4>1, <5>1 DEF Increasing
        <5> HIDE DEF keys
        <5> QED BY <4>1, <5>2, <5>3
      <4> QED BY <4>2, <4>3
    <3> HIDE DEF keys
    <3>7. Increasing(keys, k + 1)
      BY <3>6 DEF Increasing
    <3> QED BY <3>5, <3>7
  <2> HIDE DEF Enum
  <2> QED BY <2>1
<1> DEFINE n == Cardinality(B)
<1>3. n \in Nat
  BY <1>0
<1>4. n \in P
  <2>1. P \in SUBSET Nat /\ n \in 0..n
    BY <1>3
  <2> HIDE DEF P, n
  <2> QED BY <1>1, <1>2, <1>3, <2>1, UpTo
<1> QED BY <1>4

Below(ts, n) == {c \in Nodes(ts) : Front(c) = n}

LEMMA BelowIs ==
    ASSUME NEW ts \in FiniteTopics, NEW n \in Nodes(ts) \union {Root}, NEW c \in Below(ts, n)
    PROVE  /\ c \in Path /\ n \in Path /\ c # Root /\ c \in Nodes(ts) /\ Front(c) = n
           /\ IsPrefix(n, c) /\ n # c /\ Len(n) \in Nat /\ Len(c) = Len(n) + 1
           /\ Last(c) = c[Len(c)] /\ Last(c) \in Nat /\ \A k \in 1..Len(n) : c[k] = n[k]
<1>1. c \in Path /\ c # Root /\ Front(c) = n /\ c \in Nodes(ts)
  BY NodesAre, FiniteTopicsAre DEF Below
<1>2. n \in Path /\ Len(n) \in Nat
  <2>1. Root \in Path
    BY DEF Root, Path
  <2> QED BY <2>1, NodesAre, FiniteTopicsAre, PathIs
<1>3. /\ Len(c) > 0 /\ Len(n) = Len(c) - 1 /\ \A k \in 1..Len(c) - 1 : n[k] = c[k]
      /\ Last(c) = c[Len(c)] /\ Last(c) \in Nat /\ IsPrefix(n, c) /\ n # c
  BY <1>1, FrontIs DEF Root
<1>4. Len(c) \in Nat
  BY <1>1, PathIs
<1>5. Len(c) = Len(n) + 1 /\ \A k \in 1..Len(n) : c[k] = n[k]
  BY <1>2, <1>3, <1>4
<1> QED BY <1>1, <1>2, <1>3, <1>5

LEMMA ChildrenAre ==
    ASSUME NEW ts \in FiniteTopics, NEW n \in Nodes(ts) \union {Root}
    PROVE  \E k \in Nat : /\ Children(ts, n) \in [1..k -> Below(ts, n)]
                          /\ Increasing(Children(ts, n), k)
                          /\ \A c \in Below(ts, n) : \E i \in 1..k : Children(ts, n)[i] = c
<1> DEFINE B == Below(ts, n)
           k == Cardinality(B)
           keys == Children(ts, n)
<1>1. B \in SUBSET Path /\ IsFiniteSet(B) /\ k \in Nat
  <2>1. B \in SUBSET Nodes(ts)
    BY DEF Below
  <2> HIDE DEF B
  <2>2. B \in SUBSET Path
    BY <2>1, NodesAre, FiniteTopicsAre
  <2> QED BY <2>1, <2>2, NodesFinite, FS_Subset, FS_CardinalityType
<1>2. ASSUME NEW c \in B PROVE Last(c) \in Nat
  BY BelowIs
<1>3. ASSUME NEW c \in B, NEW d \in B, Last(c) = Last(d) PROVE c = d
  <2>1. /\ c \in Path /\ Len(c) = Len(n) + 1 /\ Last(c) = c[Len(c)] /\ Len(n) \in Nat
        /\ \A j \in 1..Len(n) : c[j] = n[j]
    BY BelowIs
  <2>2. /\ d \in Path /\ Len(d) = Len(n) + 1 /\ Last(d) = d[Len(d)]
        /\ \A j \in 1..Len(n) : d[j] = n[j]
    BY BelowIs
  <2>3. \A j \in 1..Len(n) + 1 : c[j] = d[j]
    <3> SUFFICES ASSUME NEW j \in 1..Len(n) + 1 PROVE c[j] = d[j]
      OBVIOUS
    <3>1. CASE j = Len(n) + 1
      BY <1>3, <2>1, <2>2, <3>1
    <3>2. CASE j # Len(n) + 1
      <4>1. j \in 1..Len(n)
        BY <2>1, <3>2
      <4> QED BY <2>1, <2>2, <4>1
    <3> QED BY <3>1, <3>2
  <2> QED BY <2>1, <2>2, <2>3, SeqEqual DEF Path
<1>4. \E f \in [1..k -> B] : Increasing(f, k)
  <2> HIDE DEF B
  <2> QED BY <1>1, <1>2, <1>3, InOrder
<1>5. keys = CHOOSE f \in [1..k -> B] : \A i, j \in DOMAIN f : i < j => Last(f[i]) < Last(f[j])
  BY Zenon DEF Children, Below
<1> HIDE DEF keys, k
<1>6. \E f \in [1..k -> B] : \A i, j \in DOMAIN f : i < j => Last(f[i]) < Last(f[j])
  <2> HIDE DEF B
  <2> QED BY <1>4 DEF Increasing
<1> HIDE DEF B
<1>7. keys \in [1..k -> B] /\ \A i, j \in DOMAIN keys : i < j => Last(keys[i]) < Last(keys[j])
  BY <1>5, <1>6
<1>8. Increasing(keys, k)
  BY <1>7 DEF Increasing
<1>9. \A c \in B : \E i \in 1..k : keys[i] = c
  <2>1. ASSUME NEW i \in 1..k, NEW j \in 1..k, keys[i] = keys[j] PROVE i = j
    <3>1. Last(keys[i]) \in Nat /\ Last(keys[i]) = Last(keys[j])
      BY <1>2, <1>7, <2>1
    <3>2. ~(i < j) /\ ~(j < i)
      BY <1>7, <3>1
    <3> QED BY <1>1, <3>2
  <2>2. keys \in Injection(1..k, B)
    BY <1>7, <2>1 DEF Injection, IsInjective
  <2>3. IsFiniteSet(1..k) /\ Cardinality(1..k) = k
    BY <1>1, FS_Interval
  <2>4. Cardinality(1..k) = Cardinality(B)
    BY <2>3 DEF k
  <2>5. keys \in Surjection(1..k, B)
    BY <1>1, <2>2, <2>4, FS_Injection
  <2> QED BY <2>5 DEF Surjection
<1> QED BY <1>1, <1>7, <1>8, <1>9 DEF B, keys

-----------------------------------------------------------------------------
(* Sequences of rows *)

LEMMA ToSetOf ==
    ASSUME NEW S, NEW s \in Seq(S), NEW t \in Seq(S)
    PROVE  ToSet(s) \subseteq S /\ ToSet(s \o t) = ToSet(s) \union ToSet(t)
<1>1. ToSet(s) \subseteq S
  BY DEF ToSet
<1>2. ToSet(s \o t) = ToSet(s) \union ToSet(t)
  <2> DEFINE w == s \o t
  <2>1. /\ w \in Seq(S) /\ Len(w) = Len(s) + Len(t) /\ Len(s) \in Nat /\ Len(t) \in Nat
        /\ DOMAIN w = 1..Len(w) /\ DOMAIN s = 1..Len(s) /\ DOMAIN t = 1..Len(t)
        /\ \A i \in 1..Len(s) : w[i] = s[i]
        /\ \A i \in 1..Len(t) : w[i + Len(s)] = t[i]
    OBVIOUS
  <2> HIDE DEF w
  <2>2. ASSUME NEW x \in ToSet(w) PROVE x \in ToSet(s) \union ToSet(t)
    <3>1. PICK i \in 1..Len(w) : x = w[i]
      BY <2>1 DEF ToSet
    <3>2. CASE i <= Len(s)
      <4>1. i \in 1..Len(s)
        BY <2>1, <3>2
      <4> QED BY <2>1, <3>1, <4>1 DEF ToSet
    <3>3. CASE ~(i <= Len(s))
      <4>1. i - Len(s) \in 1..Len(t) /\ (i - Len(s)) + Len(s) = i
        BY <2>1, <3>3
      <4>2. w[i] = t[i - Len(s)]
        BY <2>1, <4>1
      <4> QED BY <2>1, <3>1, <4>1, <4>2 DEF ToSet
    <3> QED BY <3>2, <3>3
  <2>3. ASSUME NEW i \in 1..Len(s) PROVE s[i] \in ToSet(w)
    <3>1. i \in DOMAIN w /\ w[i] = s[i]
      BY <2>1
    <3> QED BY <3>1 DEF ToSet
  <2>4. ASSUME NEW i \in 1..Len(t) PROVE t[i] \in ToSet(w)
    <3>1. i + Len(s) \in DOMAIN w /\ w[i + Len(s)] = t[i]
      BY <2>1
    <3> QED BY <3>1 DEF ToSet
  <2>5. ToSet(s) \union ToSet(t) \subseteq ToSet(w)
    BY <2>1, <2>3, <2>4 DEF ToSet
  <2> QED BY <2>2, <2>5 DEF w
<1> QED BY <1>1, <1>2

LEMMA FunctionIsSeq ==
    ASSUME NEW S, NEW k \in Nat, NEW f \in [1..k -> S]
    PROVE  f \in Seq(S) /\ Len(f) = k
<1>1. f \in Seq(S)
  BY SeqDef
<1>2. DOMAIN f = 1..k /\ DOMAIN f = 1..Len(f) /\ Len(f) \in Nat
  BY <1>1, LenProperties
<1>3. Len(f) = k
  <2>1. 1..Len(f) = 1..k
    BY <1>2
  <2> QED BY <1>2, <2>1
<1> QED BY <1>1, <1>3

LEMMA SortedTogether ==
    ASSUME NEW S \in SUBSET Path, NEW s \in Seq(S), NEW t \in Seq(S), Sorted(s), Sorted(t),
           \A a \in ToSet(s), b \in ToSet(t) : ComesBefore(a, b)
    PROVE  Sorted(s \o t)
<1> DEFINE w == s \o t
<1>1. /\ w \in Seq(S) /\ Len(w) = Len(s) + Len(t) /\ Len(s) \in Nat /\ Len(t) \in Nat
      /\ DOMAIN w = 1..Len(w) /\ DOMAIN s = 1..Len(s) /\ DOMAIN t = 1..Len(t)
      /\ \A i \in 1..Len(s) : w[i] = s[i]
      /\ \A i \in 1..Len(t) : w[i + Len(s)] = t[i]
  OBVIOUS
<1> HIDE DEF w
<1>2. ASSUME NEW i \in 1..Len(w), ~(i <= Len(s))
      PROVE  i - Len(s) \in 1..Len(t) /\ w[i] = t[i - Len(s)]
  <2>1. i - Len(s) \in 1..Len(t) /\ (i - Len(s)) + Len(s) = i
    BY <1>1, <1>2
  <2> QED BY <1>1, <2>1
<1>3. ASSUME NEW i \in 1..Len(w), i <= Len(s)
      PROVE  i \in 1..Len(s) /\ w[i] = s[i]
  BY <1>1, <1>3
<1>4. ASSUME NEW i \in 1..Len(w), NEW j \in 1..Len(w), i < j PROVE ComesBefore(w[i], w[j])
  <2>1. CASE j <= Len(s)
    <3>1. i <= Len(s)
      BY <1>1, <1>4, <2>1
    <3>2. i \in DOMAIN s /\ j \in DOMAIN s /\ w[i] = s[i] /\ w[j] = s[j]
      BY <1>1, <1>3, <2>1, <3>1
    <3> QED BY <1>4, <3>2 DEF Sorted
  <2>2. CASE ~(j <= Len(s)) /\ i <= Len(s)
    <3>1. i \in DOMAIN s /\ w[i] = s[i]
      BY <1>1, <1>3, <2>2
    <3>2. j - Len(s) \in DOMAIN t /\ w[j] = t[j - Len(s)]
      BY <1>1, <1>2, <2>2
    <3>3. w[i] \in ToSet(s) /\ w[j] \in ToSet(t)
      BY <3>1, <3>2 DEF ToSet
    <3> QED BY <3>3
  <2>3. CASE ~(i <= Len(s))
    <3>1. ~(j <= Len(s))
      BY <1>1, <1>4, <2>3
    <3>2. /\ i - Len(s) \in DOMAIN t /\ w[i] = t[i - Len(s)]
          /\ j - Len(s) \in DOMAIN t /\ w[j] = t[j - Len(s)]
      BY <1>1, <1>2, <2>3, <3>1
    <3>3. i - Len(s) < j - Len(s)
      BY <1>1, <1>4
    <3> QED BY <3>2, <3>3 DEF Sorted
  <2> QED BY <2>1, <2>2, <2>3
<1>5. Sorted(w)
  BY <1>1, <1>4 DEF Sorted
<1> QED BY <1>5 DEF w

\* What is concatenated of the blocks up to each.
FlattenStep(g, blocks, i) == IF i = 1 THEN blocks[i] ELSE g[i-1] \o blocks[i]
Flattens(g, blocks) == g = [i \in 1..Len(blocks) |-> FlattenStep(g, blocks, i)]

LEMMA FlattenIs ==
    ASSUME NEW blocks, Len(blocks) # 0
    PROVE  FlattenSeq(blocks) = (CHOOSE g : Flattens(g, blocks))[Len(blocks)]
BY Zenon DEF FlattenSeq, Flattens, FlattenStep

LEMMA FlattenExists ==
    ASSUME NEW blocks, NEW n \in Nat, Len(blocks) = n
    PROVE  \E g : Flattens(g, blocks)
<1> DEFINE Good(g, m) == \A i \in 1..n : i <= m => g[i] = FlattenStep(g, blocks, i)
           P == {m \in Nat : \E g : g = [i \in 1..n |-> g[i]] /\ Good(g, m)}
<1>1. 0 \in P
  <2> DEFINE g == [i \in 1..n |-> {}]
  <2>1. g = [i \in 1..n |-> g[i]]
    OBVIOUS
  <2>2. \A i \in 1..n : ~(i <= 0)
    OBVIOUS
  <2> HIDE DEF g
  <2> QED BY <2>1, <2>2
<1>2. ASSUME NEW m \in Nat, m < n, m \in P PROVE m + 1 \in P
  <2>1. PICK g : g = [i \in 1..n |-> g[i]] /\ Good(g, m)
    BY <1>2
  <2> DEFINE h == [i \in 1..n |-> FlattenStep(g, blocks, i)]
  <2>2. h = [i \in 1..n |-> h[i]]
    OBVIOUS
  <2>3. ASSUME NEW i \in 1..n, i <= m + 1
        PROVE  h[i] = FlattenStep(h, blocks, i)
    <3>1. CASE i = 1
      BY <3>1 DEF FlattenStep
    <3>2. CASE i # 1
      <4>1. i - 1 \in 1..n /\ i - 1 <= m
        BY <2>3, <3>2
      <4>2. h[i - 1] = g[i - 1]
        BY <2>1, <4>1
      <4> QED BY <3>2, <4>2 DEF FlattenStep
    <3> QED BY <3>1, <3>2
  <2> HIDE DEF h
  <2>4. Good(h, m + 1)
    BY <2>3
  <2>5. m + 1 \in Nat
    OBVIOUS
  <2> HIDE DEF Good
  <2> QED BY <2>2, <2>4, <2>5
<1>3. n \in P
  <2>1. P \in SUBSET Nat /\ n \in 0..n
    OBVIOUS
  <2> HIDE DEF P
  <2> QED BY <1>1, <1>2, <2>1, UpTo
<1>4. PICK g : g = [i \in 1..n |-> g[i]] /\ Good(g, n)
  BY <1>3
<1>5. \A i \in 1..n : g[i] = FlattenStep(g, blocks, i)
  BY <1>4
<1>6. g = [i \in 1..n |-> FlattenStep(g, blocks, i)]
  BY <1>4, <1>5
<1> QED BY <1>6 DEF Flattens

\* Blocks that are sorted, each before the next ones, make a sorted sequence.
LEMMA Flattened ==
    ASSUME NEW S \in SUBSET Path, NEW n \in Nat, NEW blocks \in [1..n -> Seq(S)],
           \A i \in 1..n : Sorted(blocks[i]),
           \A i, j \in 1..n : i < j =>
              \A a \in ToSet(blocks[i]), b \in ToSet(blocks[j]) : ComesBefore(a, b)
    PROVE  /\ FlattenSeq(blocks) \in Seq(S) /\ Sorted(FlattenSeq(blocks))
           /\ \A x : x \in ToSet(FlattenSeq(blocks))
                        <=> \E i \in 1..n : x \in ToSet(blocks[i])
<1>1. Len(blocks) = n
  BY FunctionIsSeq
<1>2. CASE n = 0
  <2>1. blocks = <<>>
    BY <1>1, <1>2, FunctionIsSeq, EmptySeq
  <2>2. FlattenSeq(blocks) = <<>>
    BY Zenon, <1>1, <1>2, <2>1 DEF FlattenSeq
  <2>3. <<>> \in Seq(S) /\ DOMAIN <<>> = {} /\ \A i \in 1..n : FALSE
    BY <1>2
  <2>4. Sorted(<<>>) /\ ToSet(<<>>) = {}
    BY <2>3 DEF Sorted, ToSet
  <2> QED BY <2>2, <2>3, <2>4
<1>3. CASE n # 0
  <2>1. PICK g : g = [i \in 1..n |-> FlattenStep(g, blocks, i)] /\ FlattenSeq(blocks) = g[n]
    <3>1. FlattenSeq(blocks) = (CHOOSE g : Flattens(g, blocks))[n]
      BY <1>1, <1>3, FlattenIs
    <3>2. Flattens(CHOOSE g : Flattens(g, blocks), blocks)
      BY <1>1, FlattenExists
    <3> QED BY <1>1, <3>1, <3>2 DEF Flattens
  <2>2. \A i \in 1..n : g[i] = IF i = 1 THEN blocks[i] ELSE g[i - 1] \o blocks[i]
    BY <2>1 DEF FlattenStep
  <2> DEFINE Good(m) ==
        /\ g[m] \in Seq(S) /\ Sorted(g[m])
        /\ \A x : x \in ToSet(g[m]) <=> \E i \in 1..m : x \in ToSet(blocks[i])
      P == {m \in Nat : m + 1 <= n => Good(m + 1)}
  <2>3. 0 \in P
    <3>1. 1 \in 1..n /\ g[1] = blocks[1] /\ 0 + 1 = 1
      BY <1>3, <2>2
    <3>2. blocks[1] \in Seq(S) /\ Sorted(blocks[1])
      BY <3>1
    <3>3. \A i \in 1..1 : i = 1
      OBVIOUS
    <3>4. Good(1)
      BY <3>1, <3>2, <3>3
    <3> HIDE DEF Good
    <3> QED BY <3>1, <3>4
  <2>4. ASSUME NEW m \in Nat, m < n, m \in P PROVE m + 1 \in P
    <3> SUFFICES ASSUME (m + 1) + 1 <= n PROVE Good((m + 1) + 1)
      OBVIOUS
    <3> DEFINE k == m + 1
    <3>1. k \in 1..n /\ k + 1 \in 1..n /\ k + 1 # 1 /\ (k + 1) - 1 = k /\ k \in Nat /\ k <= n
      OBVIOUS
    <3>2. Good(k)
      BY <2>4, <3>1
    <3> HIDE DEF k
    <3>3. g[k + 1] = g[k] \o blocks[k + 1] /\ blocks[k + 1] \in Seq(S) /\ Sorted(blocks[k + 1])
      BY <2>2, <3>1
    <3>4. ASSUME NEW a \in ToSet(g[k]), NEW b \in ToSet(blocks[k + 1]) PROVE ComesBefore(a, b)
      <4>1. PICK i \in 1..k : a \in ToSet(blocks[i])
        BY <3>2
      <4>2. i \in 1..n /\ i < k + 1
        BY <3>1
      <4> QED BY <3>1, <4>1, <4>2
    <3>5. g[k + 1] \in Seq(S) /\ Sorted(g[k + 1])
      BY <3>2, <3>3, <3>4, SortedTogether, ConcatProperties
    <3>6. ToSet(g[k + 1]) = ToSet(g[k]) \union ToSet(blocks[k + 1])
      BY <3>2, <3>3, ToSetOf
    <3>7. ASSUME NEW x
          PROVE  x \in ToSet(g[k + 1]) <=> \E i \in 1..k + 1 : x \in ToSet(blocks[i])
      <4>1. x \in ToSet(g[k]) <=> \E i \in 1..k : x \in ToSet(blocks[i])
        BY <3>2
      <4>2. \A i : i \in 1..k + 1 <=> i \in 1..k \/ i = k + 1
        BY <3>1
      <4> QED BY <3>6, <4>1, <4>2
    <3>8. Good(k + 1)
      BY <3>5, <3>7
    <3> QED BY <3>8 DEF k
  <2>5. Good(n)
    <3>1. P \in SUBSET Nat /\ n \in 0..n /\ n - 1 \in 0..n /\ (n - 1) + 1 = n
      BY <1>3
    <3> HIDE DEF P
    <3>2. n - 1 \in P
      BY <2>3, <2>4, <3>1, UpTo
    <3> HIDE DEF Good
    <3> USE DEF P
    <3> QED BY <3>1, <3>2
  <2> QED BY <2>1, <2>5
<1> QED BY <1>2, <1>3

\* What the fold makes of the rows before.
KeepStep(g, rs, keep, T) ==
    IF T = {} THEN <<>>
    ELSE IF rs[Max(T)] \in keep THEN Append(g[T \ {Max(T)}], rs[Max(T)])
         ELSE g[T \ {Max(T)}]
Keeps(g, rs, keep) == g = [T \in SUBSET DOMAIN rs |-> KeepStep(g, rs, keep, T)]

LEMMA KeptIsFold ==
    ASSUME NEW rs, NEW keep
    PROVE  Kept(rs, keep) = (CHOOSE g : Keeps(g, rs, keep))[DOMAIN rs]
BY Zenon DEF Kept, FoldLeft, MapThenFoldSet, Keeps, KeepStep

LEMMA KeepsExists ==
    ASSUME NEW n \in Nat, NEW rs, NEW keep, DOMAIN rs = 1..n
    PROVE  \E g : Keeps(g, rs, keep)
<1> DEFINE D == SUBSET (1..n)
           Good(g, m) == \A T \in D : T \subseteq 1..m => g[T] = KeepStep(g, rs, keep, T)
           P == {m \in Nat : \E g : g = [T \in D |-> g[T]] /\ Good(g, m)}
<1>1. 0 \in P
  <2> DEFINE g == [T \in D |-> <<>>]
  <2>1. g = [T \in D |-> g[T]]
    OBVIOUS
  <2>2. ASSUME NEW T \in D, T \subseteq 1..0 PROVE g[T] = KeepStep(g, rs, keep, T)
    <3>1. T = {}
      BY <2>2
    <3> QED BY <3>1 DEF KeepStep
  <2> HIDE DEF g
  <2> QED BY <2>1, <2>2
<1>2. ASSUME NEW m \in Nat, m < n, m \in P PROVE m + 1 \in P
  <2>1. PICK g : g = [T \in D |-> g[T]] /\ Good(g, m)
    BY <1>2
  <2> DEFINE h == [T \in D |-> KeepStep(g, rs, keep, T)]
  <2>2. h = [T \in D |-> h[T]]
    OBVIOUS
  <2>3. ASSUME NEW T \in D, T \subseteq 1..(m + 1)
        PROVE  h[T] = KeepStep(h, rs, keep, T)
    <3>1. CASE T = {}
      BY <3>1 DEF KeepStep
    <3>2. CASE T # {}
      <4> DEFINE U == T \ {Max(T)}
      <4>1. Max(T) \in T /\ \A x \in T : x <= Max(T)
        BY <3>2, MaxIsIn
      <4>2. U \in D /\ U \subseteq 1..m
        <5>1. ASSUME NEW x \in U PROVE x \in 1..m
          <6>1. x \in 1..(m + 1) /\ Max(T) \in 1..(m + 1) /\ x <= Max(T) /\ x # Max(T)
            BY <2>3, <4>1
          <6> QED BY <6>1
        <5> QED BY <5>1
      <4>3. h[U] = g[U]
        BY <2>1, <4>2
      <4> QED BY <3>2, <4>3 DEF KeepStep
    <3> QED BY <3>1, <3>2
  <2> HIDE DEF h
  <2>4. Good(h, m + 1)
    BY <2>3
  <2>5. m + 1 \in Nat
    OBVIOUS
  <2> HIDE DEF Good
  <2> QED BY <2>2, <2>4, <2>5
<1>3. n \in P
  <2>1. P \in SUBSET Nat /\ n \in 0..n
    OBVIOUS
  <2> HIDE DEF P
  <2> QED BY <1>1, <1>2, <2>1, UpTo
<1>4. PICK g : g = [T \in D |-> g[T]] /\ Good(g, n)
  BY <1>3
<1>5. \A T \in D : g[T] = KeepStep(g, rs, keep, T)
  BY <1>4
<1>6. g = [T \in D |-> KeepStep(g, rs, keep, T)]
  BY <1>4, <1>5
<1> QED BY <1>6 DEF Keeps


\* The rows that are kept stay in their order.
LEMMA KeptAre ==
    ASSUME NEW S \in SUBSET Path, NEW rs \in Seq(S), Sorted(rs), NEW keep
    PROVE  /\ Kept(rs, keep) \in Seq(S) /\ Sorted(Kept(rs, keep))
           /\ \A x : x \in ToSet(Kept(rs, keep)) <=> x \in ToSet(rs) /\ x \in keep
<1> DEFINE n == Len(rs)
<1>1. n \in Nat /\ DOMAIN rs = 1..n /\ \A i \in 1..n : rs[i] \in S
  OBVIOUS
<1> HIDE DEF n
<1>2. PICK g : /\ g = [T \in SUBSET (1..n) |-> KeepStep(g, rs, keep, T)]
               /\ Kept(rs, keep) = g[1..n]
  <2>1. Keeps(CHOOSE g : Keeps(g, rs, keep), rs, keep)
    BY <1>1, KeepsExists
  <2> QED BY <1>1, <2>1, KeptIsFold DEF Keeps
<1> DEFINE Good(k) ==
      /\ g[1..k] \in Seq(S) /\ Sorted(g[1..k])
      /\ \A x : x \in ToSet(g[1..k]) <=> \E i \in 1..k : x = rs[i] /\ x \in keep
    P == {k \in Nat : k <= n => Good(k)}
<1>3. 0 \in P
  <2>1. 1..0 = {} /\ 1..0 \in SUBSET (1..n)
    OBVIOUS
  <2>2. g[1..0] = <<>>
    BY <1>2, <2>1 DEF KeepStep
  <2>3. <<>> \in Seq(S) /\ DOMAIN <<>> = {} /\ \A i \in 1..0 : FALSE
    OBVIOUS
  <2>4. Sorted(<<>>) /\ ToSet(<<>>) = {}
    BY <2>3 DEF Sorted, ToSet
  <2>5. Good(0)
    BY <2>2, <2>3, <2>4
  <2> HIDE DEF Good
  <2> QED BY <2>5
<1>4. ASSUME NEW k \in Nat, k < n, k \in P PROVE k + 1 \in P
  <2>1. Good(k)
    BY <1>1, <1>4
  <2>2. k + 1 \in 1..n /\ 1..k + 1 # {} /\ 1..k + 1 \in SUBSET (1..n)
        /\ (1..k + 1) \ {k + 1} = 1..k
    <3>1. k + 1 \in 1..n /\ k + 1 \in 1..k + 1
      BY <1>1, <1>4
    <3>2. ASSUME NEW i \in 1..k + 1 PROVE i \in 1..n /\ (i # k + 1 => i \in 1..k)
      BY <1>1, <1>4
    <3>3. ASSUME NEW i \in 1..k PROVE i \in 1..k + 1 /\ i # k + 1
      OBVIOUS
    <3> QED BY <3>1, <3>2, <3>3
  <2> DEFINE T == 1..k + 1
             r == rs[k + 1]
  <2>3. Max(T) = k + 1
    <3>1. Max(T) \in T /\ \A x \in T : x <= Max(T)
      BY <1>1, <2>2, MaxIsIn
    <3>2. Max(T) \in 1..k + 1 /\ k + 1 <= Max(T)
      BY <3>1
    <3> QED BY <3>2
  <2> HIDE DEF T
  <2>4. g[T] = IF r \in keep THEN Append(g[1..k], r) ELSE g[1..k]
    <3>1. g[T] = KeepStep(g, rs, keep, T) /\ T # {} /\ T \ {Max(T)} = 1..k
      BY <1>2, <2>2, <2>3 DEF T
    <3> QED BY <2>3, <3>1 DEF KeepStep
  <2>5. r \in S
    BY <1>1, <2>2
  <2>6. \A i : i \in 1..k + 1 <=> i \in 1..k \/ i = k + 1
    BY <1>4
  <2>7. CASE r \notin keep
    <3>1. g[T] = g[1..k]
      BY <2>4, <2>7
    <3>2. \A x : (\E i \in 1..k + 1 : x = rs[i] /\ x \in keep)
                   <=> \E i \in 1..k : x = rs[i] /\ x \in keep
      BY <2>6, <2>7
    <3>3. Good(k + 1)
      BY <2>1, <3>1, <3>2 DEF T
    <3> HIDE DEF Good
    <3> QED BY <3>3
  <2>8. CASE r \in keep
    <3> DEFINE s == g[1..k]
               u == <<r>>
    <3> HIDE DEF r
    <3>1. u \in Seq(S) /\ Len(u) = 1 /\ DOMAIN u = {1} /\ u[1] = r
      BY <2>5
    <3>2. Sorted(u) /\ ToSet(u) = {r}
      <4>1. \A i, j \in {1} : ~(i < j)
        OBVIOUS
      <4> HIDE DEF u
      <4> QED BY <3>1, <4>1 DEF Sorted, ToSet
    <3>3. s \in Seq(S) /\ Sorted(s)
          /\ \A x : x \in ToSet(s) <=> \E i \in 1..k : x = rs[i] /\ x \in keep
      BY <2>1
    <3> HIDE DEF s
    <3>4. g[T] = s \o u
      <4>1. Append(s, r) = s \o <<r>>
        BY <2>5, <3>3
      <4> QED BY <2>4, <2>8, <4>1 DEF s, u
    <3> HIDE DEF u
    <3>5. ASSUME NEW a \in ToSet(s), NEW b \in ToSet(u) PROVE ComesBefore(a, b)
      <4>1. PICK i \in 1..k : a = rs[i]
        BY <3>3
      <4>2. i \in DOMAIN rs /\ k + 1 \in DOMAIN rs /\ i < k + 1
        BY <1>1, <2>2
      <4>3. b = rs[k + 1]
        BY <3>2 DEF r
      <4> QED BY <4>1, <4>2, <4>3 DEF Sorted
    <3>6. g[T] \in Seq(S) /\ Sorted(g[T])
      BY <3>1, <3>2, <3>3, <3>4, <3>5, SortedTogether, ConcatProperties
    <3>7. ToSet(g[T]) = ToSet(s) \union {r}
      BY <3>1, <3>2, <3>3, <3>4, ToSetOf
    <3>8. ASSUME NEW x
          PROVE  x \in ToSet(g[T]) <=> \E i \in 1..k + 1 : x = rs[i] /\ x \in keep
      BY <2>6, <2>8, <3>3, <3>7 DEF r
    <3>9. Good(k + 1)
      BY <3>6, <3>8 DEF T
    <3> HIDE DEF Good
    <3> QED BY <3>9
  <2> QED BY <2>7, <2>8
<1>5. Good(n)
  <2>1. P \in SUBSET Nat /\ n \in 0..n /\ n <= n
    BY <1>1
  <2> HIDE DEF P, Good
  <2>2. n \in P
    BY <1>1, <1>3, <1>4, <2>1, UpTo
  <2> QED BY <2>1, <2>2 DEF P
<1>6. \A x : x \in ToSet(rs) <=> \E i \in 1..n : x = rs[i]
  BY <1>1 DEF ToSet
<1> QED BY <1>2, <1>5, <1>6

-----------------------------------------------------------------------------
(* The walk *)

Places(ts) == Nodes(ts) \union {Root}

\* From n on, the nodes with only open branches above them.
Seen(ts, open, n) ==
    {x \in Nodes(ts) : /\ IsPrefix(n, x)
                       /\ \A p \in Prefixes(x) \ {Root, x} :
                             IsPrefix(n, p) => p \in open \ ts}

LEMMA PlacesAre ==
    ASSUME NEW ts \in FiniteTopics
    PROVE  /\ Places(ts) \subseteq Path /\ Root \in Places(ts) /\ Nodes(ts) \subseteq Places(ts)
           /\ \A n \in Places(ts) : Len(n) \in Nat /\ (n # Root => n \in Nodes(ts))
<1>1. Root \in Path
  BY DEF Root, Path
<1>2. Places(ts) \subseteq Path
  BY <1>1, FiniteTopicsAre, NodesAre DEF Places
<1> QED BY <1>2, PathIs DEF Places

LEMMA SeenStops ==
    ASSUME NEW ts \in FiniteTopics, NEW open, NEW n \in Nodes(ts), n \in ts \/ n \notin open
    PROVE  Seen(ts, open, n) = {n}
<1>1. n \in Path /\ n # Root /\ Prefixes(n) = {p \in Path : IsPrefix(p, n)}
  BY FiniteTopicsAre, NodesAre, PrefixesAre
<1>2. n \in Seen(ts, open, n)
  <2>1. IsPrefix(n, n)
    BY <1>1, PrefixesAre
  <2>2. ASSUME NEW p \in Prefixes(n) \ {Root, n}, IsPrefix(n, p) PROVE FALSE
    <3>1. p \in Path /\ IsPrefix(p, n) /\ p # n
      BY <1>1
    <3>2. Len(p) < Len(n) /\ Len(n) <= Len(p) /\ Len(p) \in Nat /\ Len(n) \in Nat
      BY <1>1, <2>2, <3>1, PrefixFirst, PrefixIs, PathIs
    <3> QED BY <3>2
  <2> QED BY <2>1, <2>2 DEF Seen
<1>3. ASSUME NEW x \in Seen(ts, open, n), x # n PROVE FALSE
  <2>1. x \in Nodes(ts) /\ IsPrefix(n, x)
        /\ \A p \in Prefixes(x) \ {Root, x} : IsPrefix(n, p) => p \in open \ ts
    BY DEF Seen
  <2>2. x \in Path /\ Prefixes(x) = {p \in Path : IsPrefix(p, x)}
    BY <2>1, FiniteTopicsAre, NodesAre, PrefixesAre
  <2>3. n \in Prefixes(x) \ {Root, x} /\ IsPrefix(n, n)
    BY <1>1, <1>3, <2>1, <2>2, PrefixesAre
  <2> QED BY <2>1, <2>3
<1> QED BY <1>2, <1>3

LEMMA SeenGoesOn ==
    ASSUME NEW ts \in FiniteTopics, NEW open, NEW n \in Places(ts), n \notin ts,
           n \in open \union {Root}
    PROVE  \A x : x \in Seen(ts, open, n)
                    <=> \/ x = n /\ n # Root
                        \/ \E c \in Below(ts, n) : x \in Seen(ts, open, c)
<1>1. n \in Path /\ Len(n) \in Nat
  BY PlacesAre
<1>2. ASSUME n # Root PROVE n \in Seen(ts, open, n)
  <2>1. n \in Nodes(ts) /\ Prefixes(n) = {p \in Path : IsPrefix(p, n)} /\ IsPrefix(n, n)
    BY <1>1, <1>2, PlacesAre, PrefixesAre
  <2>2. ASSUME NEW p \in Prefixes(n) \ {Root, n}, IsPrefix(n, p) PROVE FALSE
    <3>1. p \in Path /\ IsPrefix(p, n) /\ p # n
      BY <2>1
    <3>2. Len(p) < Len(n) /\ Len(n) <= Len(p) /\ Len(p) \in Nat
      BY <1>1, <2>2, <3>1, PrefixFirst, PrefixIs, PathIs
    <3> QED BY <1>1, <3>2
  <2> QED BY <2>1, <2>2 DEF Seen
<1>3. ASSUME NEW x \in Seen(ts, open, n), ~(x = n /\ n # Root)
      PROVE  \E c \in Below(ts, n) : x \in Seen(ts, open, c)
  <2>1. x \in Nodes(ts) /\ IsPrefix(n, x)
        /\ \A p \in Prefixes(x) \ {Root, x} : IsPrefix(n, p) => p \in open \ ts
    BY DEF Seen
  <2>2. x \in Path /\ x # Root /\ x # n
    BY <1>3, <2>1, FiniteTopicsAre, NodesAre
  <2>3. PICK c \in Path : c # Root /\ Front(c) = n /\ IsPrefix(c, x) /\ Len(c) = Len(n) + 1
    BY <1>1, <2>1, <2>2, NextOnTheWay
  <2>4. c \in Nodes(ts)
    BY <2>1, <2>3, FiniteTopicsAre, NodesAre
  <2>5. c \in Below(ts, n)
    BY <2>3, <2>4 DEF Below
  <2>6. IsPrefix(n, c)
    BY <2>3, FrontIs DEF Root
  <2>7. ASSUME NEW p \in Prefixes(x) \ {Root, x}, IsPrefix(c, p) PROVE p \in open \ ts
    <3>1. p \in Path
      BY <2>2, PrefixesAre
    <3>2. IsPrefix(n, p)
      BY <1>1, <2>3, <2>6, <2>7, <3>1, PrefixTransitive
    <3> QED BY <2>1, <3>2
  <2>8. x \in Seen(ts, open, c)
    BY <2>1, <2>3, <2>7 DEF Seen
  <2> QED BY <2>5, <2>8
<1>4. ASSUME NEW c \in Below(ts, n), NEW x \in Seen(ts, open, c)
      PROVE  x \in Seen(ts, open, n)
  <2>1. x \in Nodes(ts) /\ IsPrefix(c, x)
        /\ \A p \in Prefixes(x) \ {Root, x} : IsPrefix(c, p) => p \in open \ ts
    BY DEF Seen
  <2>2. x \in Path /\ Prefixes(x) = {p \in Path : IsPrefix(p, x)}
    BY <2>1, FiniteTopicsAre, NodesAre, PrefixesAre
  <2>3. /\ c \in Path /\ Front(c) = n /\ IsPrefix(n, c) /\ n # c /\ Len(c) = Len(n) + 1
    BY BelowIs DEF Places
  <2>4. IsPrefix(n, x)
    BY <1>1, <2>1, <2>2, <2>3, PrefixTransitive
  <2>5. ASSUME NEW p \in Prefixes(x) \ {Root, x}, IsPrefix(n, p) PROVE p \in open \ ts
    <3>1. p \in Path /\ IsPrefix(p, x) /\ p # Root /\ Len(p) \in Nat
      BY <2>2, PathIs
    <3>2. CASE p = n
      BY <3>1, <3>2
    <3>3. CASE p # n
      <4>1. Len(n) < Len(p)
        BY <1>1, <2>5, <3>1, <3>3, PrefixFirst
      <4>2. Len(c) <= Len(p)
        BY <1>1, <2>3, <3>1, <4>1
      <4>3. IsPrefix(c, p)
        BY <2>1, <2>2, <2>3, <3>1, <4>2, PrefixesNest
      <4> QED BY <2>1, <4>3
    <3> QED BY <3>2, <3>3
  <2> QED BY <2>1, <2>4, <2>5 DEF Seen
<1> QED BY <1>2, <1>3, <1>4

LEMMA SeenFromTop ==
    ASSUME NEW ts \in FiniteTopics, NEW open
    PROVE  Seen(ts, open, Root) = {x \in Nodes(ts) : Above(x) \subseteq open \ ts}
<1>1. \A x \in Nodes(ts) : x \in Path
  BY FiniteTopicsAre, NodesAre
<1>2. \A p \in Path : IsPrefix(Root, p)
  BY PrefixesAre
<1>3. \A x \in Nodes(ts) : IsPrefix(Root, x) /\ \A p \in Prefixes(x) : IsPrefix(Root, p)
  BY <1>1, <1>2, PrefixesAre
<1> QED BY <1>3 DEF Seen, Above

\* The rows of n: those of its children after it.
RowsBelow(g, ts, n) ==
    FlattenSeq([i \in DOMAIN Children(ts, n) |-> g[Children(ts, n)[i]]])
WalkStep(g, ts, open, n) ==
    (IF n = Root THEN <<>> ELSE <<n>>)
      \o IF n \in ts \/ n \notin open \union {Root} THEN <<>> ELSE RowsBelow(g, ts, n)
Walks(g, ts, open) == g = [n \in Places(ts) |-> WalkStep(g, ts, open, n)]

LEMMA WalkIs ==
    ASSUME NEW ts, NEW open
    PROVE  WalkVisible(ts, open) = (CHOOSE g : Walks(g, ts, open))[Root]
BY Zenon DEF WalkVisible, Walks, WalkStep, RowsBelow, Places

LEMMA WalkIsLocal ==
    ASSUME NEW ts \in FiniteTopics, NEW open, NEW n \in Places(ts), NEW g, NEW h,
           \A c \in Below(ts, n) : g[c] = h[c]
    PROVE  WalkStep(g, ts, open, n) = WalkStep(h, ts, open, n)
<1> DEFINE keys == Children(ts, n)
<1>1. PICK k \in Nat : keys \in [1..k -> Below(ts, n)]
  BY ChildrenAre DEF Places
<1> HIDE DEF keys
<1>2. [i \in DOMAIN keys |-> g[keys[i]]] = [i \in DOMAIN keys |-> h[keys[i]]]
  BY <1>1
<1>3. RowsBelow(g, ts, n) = RowsBelow(h, ts, n)
  BY <1>2 DEF RowsBelow, keys
<1> QED BY <1>3 DEF WalkStep

\* The rows of all places exist: those of the deepest first.
LEMMA WalkExists ==
    ASSUME NEW ts \in FiniteTopics, NEW open
    PROVE  \E g : Walks(g, ts, open)
<1> DEFINE D == Places(ts)
<1>0. PICK top \in Nat : \A x \in D : Len(x) \in Nat /\ Len(x) <= top
  <2>1. PICK top \in Nat : \A x \in Nodes(ts) : Len(x) <= top
    BY Height
  <2>2. Len(Root) = 0
    BY DEF Root
  <2>3. \A x \in D : Len(x) <= top
    BY <2>1, <2>2 DEF Places
  <2> QED BY <2>3, PlacesAre
<1> DEFINE Good(g, m) == \A n \in D : Len(n) + m > top => g[n] = WalkStep(g, ts, open, n)
           P == {m \in Nat : \E g : g = [n \in D |-> g[n]] /\ Good(g, m)}
<1> HIDE DEF D
<1>1. 0 \in P
  <2> DEFINE g == [n \in D |-> {}]
  <2>1. g = [n \in D |-> g[n]]
    OBVIOUS
  <2>2. \A n \in D : ~(Len(n) + 0 > top)
    BY <1>0
  <2> HIDE DEF g
  <2>3. Good(g, 0)
    BY <2>2
  <2> HIDE DEF Good
  <2> QED BY <2>1, <2>3
<1>2. ASSUME NEW m \in Nat, m \in P PROVE m + 1 \in P
  <2>1. PICK g : g = [n \in D |-> g[n]] /\ Good(g, m)
    BY <1>2
  <2> DEFINE h == [n \in D |-> WalkStep(g, ts, open, n)]
  <2>2. h = [n \in D |-> h[n]]
    OBVIOUS
  <2>3. ASSUME NEW n \in D, Len(n) + (m + 1) > top
        PROVE  h[n] = WalkStep(h, ts, open, n)
    <3>1. ASSUME NEW c \in Below(ts, n) PROVE g[c] = h[c]
      <4>1. c \in D /\ Len(c) = Len(n) + 1 /\ Len(n) \in Nat
        BY BelowIs, PlacesAre DEF D, Places
      <4>2. Len(c) + m > top
        BY <2>3, <4>1
      <4> QED BY <2>1, <4>1, <4>2
    <3>2. n \in Places(ts)
      BY DEF D
    <3> HIDE DEF h
    <3>3. WalkStep(g, ts, open, n) = WalkStep(h, ts, open, n)
      BY <3>1, <3>2, WalkIsLocal
    <3> USE DEF h
    <3> QED BY <3>3
  <2> HIDE DEF h
  <2>4. Good(h, m + 1)
    BY <2>3
  <2>5. m + 1 \in Nat
    OBVIOUS
  <2> HIDE DEF Good
  <2> QED BY <2>2, <2>4, <2>5
<1>3. top + 1 \in P
  <2>1. P \in SUBSET Nat /\ top + 1 \in 0..top + 1 /\ top + 1 \in Nat
    OBVIOUS
  <2> HIDE DEF P
  <2> QED BY <1>1, <1>2, <2>1, UpTo
<1>4. PICK g : g = [n \in D |-> g[n]] /\ Good(g, top + 1)
  BY <1>3
<1>5. \A n \in D : g[n] = WalkStep(g, ts, open, n)
  BY <1>0, <1>4
<1>6. g = [n \in D |-> WalkStep(g, ts, open, n)]
  BY <1>4, <1>5
<1> QED BY <1>6 DEF Walks, D

\* What a place's rows should be.
Walked(ts, open, n, rs) ==
    rs \in Seq(Nodes(ts)) /\ Sorted(rs) /\ ToSet(rs) = Seen(ts, open, n)

LEMMA OneRow ==
    ASSUME NEW S \in SUBSET Path, NEW n \in S
    PROVE  /\ <<n>> \in Seq(S) /\ Sorted(<<n>>) /\ ToSet(<<n>>) = {n}
           /\ <<>> \in Seq(S) /\ Sorted(<<>>) /\ ToSet(<<>>) = {}
<1> DEFINE u == <<n>>
<1>1. u \in Seq(S) /\ Len(u) = 1 /\ DOMAIN u = {1} /\ u[1] = n
  OBVIOUS
<1>2. \A i, j \in {1} : ~(i < j)
  OBVIOUS
<1> HIDE DEF u
<1>3. Sorted(u) /\ ToSet(u) = {n}
  BY <1>1, <1>2 DEF Sorted, ToSet
<1>4. <<>> \in Seq(S) /\ DOMAIN <<>> = {}
  OBVIOUS
<1>5. Sorted(<<>>) /\ ToSet(<<>>) = {}
  BY <1>4 DEF Sorted, ToSet
<1> QED BY <1>1, <1>3, <1>4, <1>5 DEF u

\* If the children's rows are what they should be, so are those of n.
LEMMA WalkGoesOn ==
    ASSUME NEW ts \in FiniteTopics, NEW open, NEW n \in Places(ts), NEW g,
           \A c \in Below(ts, n) : Walked(ts, open, c, g[c])
    PROVE  Walked(ts, open, n, WalkStep(g, ts, open, n))
<1> DEFINE S == Nodes(ts)
<1>0. S \in SUBSET Path /\ n \in Path /\ Len(n) \in Nat /\ <<>> \in Seq(S)
  BY FiniteTopicsAre, NodesAre, PlacesAre
<1>1. CASE n # Root /\ (n \in ts \/ n \notin open)
  <2>1. WalkStep(g, ts, open, n) = <<n>> \o <<>> /\ n \in S
    BY <1>1, PlacesAre DEF WalkStep
  <2> HIDE DEF S
  <2>2. <<n>> \in Seq(S) /\ <<n>> \o <<>> = <<n>>
    BY <2>1
  <2>3. <<n>> \in Seq(S) /\ Sorted(<<n>>) /\ ToSet(<<n>>) = {n}
    BY <1>0, <2>1, OneRow
  <2>4. Seen(ts, open, n) = {n}
    BY <1>1, <2>1, SeenStops DEF S
  <2> QED BY <2>1, <2>2, <2>3, <2>4 DEF Walked, S
<1>2. CASE n \notin ts /\ n \in open \union {Root}
  <2> DEFINE keys == Children(ts, n)
             B == Below(ts, n)
             rest == RowsBelow(g, ts, n)
             first == IF n = Root THEN <<>> ELSE <<n>>
  <2>1. PICK k \in Nat : /\ keys \in [1..k -> B] /\ Increasing(keys, k)
                         /\ \A c \in B : \E i \in 1..k : keys[i] = c
    BY ChildrenAre DEF Places
  <2>2. \A c \in B : /\ g[c] \in Seq(S) /\ Sorted(g[c])
                     /\ ToSet(g[c]) = Seen(ts, open, c)
    BY DEF Walked
  <2> DEFINE blocks == [i \in 1..k |-> g[keys[i]]]
  <2>3. rest = FlattenSeq(blocks)
    BY <2>1 DEF RowsBelow
  <2> HIDE DEF keys, rest, B
  <2>4. /\ blocks \in [1..k -> Seq(S)]
        /\ \A i \in 1..k : /\ keys[i] \in B /\ Sorted(blocks[i])
                           /\ ToSet(blocks[i]) = Seen(ts, open, keys[i])
    BY <2>1, <2>2
  <2> HIDE DEF blocks
  <2>5. ASSUME NEW i \in 1..k, NEW j \in 1..k, i < j,
               NEW a \in ToSet(blocks[i]), NEW b \in ToSet(blocks[j])
        PROVE  ComesBefore(a, b)
    <3> DEFINE c == keys[i]
               d == keys[j]
               m == Len(n) + 1
    <3>1. c \in B /\ d \in B /\ Last(c) < Last(d)
      BY <2>1, <2>4, <2>5 DEF Increasing
    <3> HIDE DEF c, d
    <3>2. /\ c \in Path /\ Len(c) = Len(n) + 1 /\ Last(c) = c[Len(c)]
          /\ \A q \in 1..Len(n) : c[q] = n[q]
      BY <3>1, BelowIs DEF B, Places
    <3>3. /\ d \in Path /\ Len(d) = Len(n) + 1 /\ Last(d) = d[Len(d)]
          /\ \A q \in 1..Len(n) : d[q] = n[q]
      BY <3>1, BelowIs DEF B, Places
    <3>4. IsPrefix(c, a) /\ IsPrefix(d, b) /\ a \in Path /\ b \in Path
      BY <1>0, <2>4 DEF Seen, c, d
    <3>5. m \in Nat /\ m > 0 /\ m - 1 = Len(n)
      BY <1>0
    <3>6. Len(c) = m /\ Len(d) = m /\ c[m] < d[m]
      BY <3>1, <3>2, <3>3
    <3> HIDE DEF m
    <3>7. \A q \in 1..m - 1 : c[q] = d[q]
      BY <3>2, <3>3, <3>5
    <3> QED BY <3>2, <3>3, <3>4, <3>5, <3>6, <3>7, BlocksApart
  <2> HIDE DEF S
  <2>6. /\ rest \in Seq(S) /\ Sorted(rest)
        /\ \A x : x \in ToSet(rest) <=> \E i \in 1..k : x \in ToSet(blocks[i])
    BY <1>0, <2>3, <2>4, <2>5, Flattened
  <2>7. \A x : x \in ToSet(rest) <=> \E c \in B : x \in Seen(ts, open, c)
    BY <2>1, <2>4, <2>6
  <2>8. \A x : x \in Seen(ts, open, n) <=> (x = n /\ n # Root) \/ x \in ToSet(rest)
    BY <1>2, <2>7, SeenGoesOn DEF B
  <2>9. WalkStep(g, ts, open, n) = first \o rest
    BY <1>2 DEF WalkStep, rest
  <2>10. CASE n = Root
    <3>1. first \o rest = rest
      BY <2>6, <2>10
    <3>2. ToSet(rest) = Seen(ts, open, n)
      BY <2>8, <2>10
    <3> QED BY <2>6, <2>9, <3>1, <3>2 DEF Walked, S
  <2>11. CASE n # Root
    <3>1. n \in S /\ first = <<n>>
      BY <2>11, PlacesAre DEF S
    <3> HIDE DEF first
    <3>2. first \in Seq(S) /\ Sorted(first) /\ ToSet(first) = {n}
      BY <1>0, <3>1, OneRow
    <3>3. ASSUME NEW a \in ToSet(first), NEW b \in ToSet(rest) PROVE ComesBefore(a, b)
      <4>1. PICK c \in B : b \in Seen(ts, open, c)
        BY <2>7
      <4>2. IsPrefix(n, c) /\ c \in Path /\ Len(c) = Len(n) + 1
        BY BelowIs DEF B, Places
      <4>3. b \in Path /\ IsPrefix(c, b)
        BY <1>0, <4>1 DEF Seen, S
      <4>4. IsPrefix(n, b) /\ Len(b) >= Len(c) /\ Len(b) \in Nat
        BY <1>0, <4>2, <4>3, PrefixTransitive, PrefixIs, PathIs
      <4>5. n # b
        BY <1>0, <4>2, <4>4
      <4>6. a = n
        BY <3>2
      <4> QED BY <1>0, <4>3, <4>4, <4>5, <4>6, PrefixFirst
    <3>4. first \o rest \in Seq(S) /\ Sorted(first \o rest)
      BY <1>0, <2>6, <3>2, <3>3, SortedTogether, ConcatProperties
    <3>5. ToSet(first \o rest) = {n} \union ToSet(rest)
      BY <2>6, <3>2, ToSetOf
    <3>6. ToSet(first \o rest) = Seen(ts, open, n)
      BY <2>8, <2>11, <3>5
    <3> QED BY <2>9, <3>4, <3>6 DEF Walked, S
  <2> QED BY <2>10, <2>11
<1>3. Root \notin ts
  BY FiniteTopicsAre, NodesAre
<1> QED BY <1>1, <1>2, <1>3

LEMMA WalkSees ==
    ASSUME NEW ts \in FiniteTopics, NEW open
    PROVE  Walked(ts, open, Root, WalkVisible(ts, open))
<1>1. PICK g : /\ g = [n \in Places(ts) |-> WalkStep(g, ts, open, n)]
               /\ WalkVisible(ts, open) = g[Root]
  <2>1. Walks(CHOOSE g : Walks(g, ts, open), ts, open)
    BY WalkExists
  <2> QED BY <2>1, WalkIs DEF Walks
<1>2. PICK top \in Nat : \A x \in Nodes(ts) : Len(x) <= top
  BY Height
<1> DEFINE P == {m \in Nat : \A n \in Places(ts) :
                    Len(n) + m > top + 1 => Walked(ts, open, n, g[n])}
<1>3. ASSUME NEW m \in Nat,
             \A n \in Places(ts) : Len(n) + m > top + 1 => Walked(ts, open, n, g[n])
      PROVE  \A n \in Places(ts) : Len(n) + (m + 1) > top + 1 => Walked(ts, open, n, g[n])
  <2> SUFFICES ASSUME NEW n \in Places(ts), Len(n) + (m + 1) > top + 1
               PROVE  Walked(ts, open, n, g[n])
    OBVIOUS
  <2>1. ASSUME NEW c \in Below(ts, n) PROVE Walked(ts, open, c, g[c])
    <3>1. c \in Places(ts) /\ Len(c) = Len(n) + 1 /\ Len(n) \in Nat
      BY BelowIs, PlacesAre DEF Places
    <3>2. Len(c) + m > top + 1
      BY <3>1
    <3> QED BY <1>3, <3>1, <3>2
  <2>2. g[n] = WalkStep(g, ts, open, n)
    BY <1>1
  <2> QED BY <2>1, <2>2, WalkGoesOn
<1>4. 0 \in P
  <2>1. ASSUME NEW n \in Places(ts) PROVE ~(Len(n) + 0 > top + 1)
    <3>1. Len(n) \in Nat /\ (n = Root \/ n \in Nodes(ts))
      BY PlacesAre DEF Places
    <3>2. Len(Root) = 0
      BY DEF Root
    <3> QED BY <1>2, <3>1, <3>2
  <2> QED BY <2>1
<1>5. top + 2 \in P
  <2>1. P \in SUBSET Nat /\ top + 2 \in Nat /\ top + 2 \in 0..top + 2
    OBVIOUS
  <2>2. ASSUME NEW m \in Nat, m < top + 2, m \in P PROVE m + 1 \in P
    BY <1>3, <2>2
  <2> HIDE DEF P
  <2> QED BY <1>4, <2>1, <2>2, UpTo
<1>6. Root \in Places(ts) /\ Len(Root) = 0
  BY DEF Places, Root
<1>7. Len(Root) + (top + 2) > top + 1
  BY <1>6
<1> QED BY <1>1, <1>5, <1>6, <1>7

-----------------------------------------------------------------------------
(* The matches *)

FoundStep(g, ts, q, n) ==
    IF n \in ts THEN {t \in {n} : Matches(t, q)}
    ELSE UNION {g[c] : c \in ToSet(Children(ts, n))}
Finds(g, ts, q) == g = [n \in Places(ts) |-> FoundStep(g, ts, q, n)]

LEMMA MatchedIs ==
    ASSUME NEW ts, NEW q
    PROVE  Matched(ts, q) = (CHOOSE g : Finds(g, ts, q))[Root]
BY Zenon DEF Matched, Finds, FoundStep, Places

LEMMA ChildSet ==
    ASSUME NEW ts \in FiniteTopics, NEW n \in Places(ts)
    PROVE  ToSet(Children(ts, n)) = Below(ts, n)
<1> DEFINE keys == Children(ts, n)
<1>1. PICK k \in Nat : /\ keys \in [1..k -> Below(ts, n)]
                       /\ \A c \in Below(ts, n) : \E i \in 1..k : keys[i] = c
  BY ChildrenAre DEF Places
<1> HIDE DEF keys
<1>2. DOMAIN keys = 1..k /\ \A i \in 1..k : keys[i] \in Below(ts, n)
  BY <1>1
<1>3. ToSet(keys) = Below(ts, n)
  BY <1>1, <1>2 DEF ToSet
<1> QED BY <1>3 DEF keys

LEMMA FoundBelow ==
    ASSUME NEW ts \in FiniteTopics, NEW q, NEW n \in Places(ts), n \notin ts, NEW g
    PROVE  \A x : x \in FoundStep(g, ts, q, n) <=> \E c \in Below(ts, n) : x \in g[c]
<1>1. FoundStep(g, ts, q, n) = UNION {g[c] : c \in Below(ts, n)}
  BY ChildSet DEF FoundStep
<1> QED BY <1>1

LEMMA FoundExists ==
    ASSUME NEW ts \in FiniteTopics, NEW q
    PROVE  \E g : Finds(g, ts, q)
<1> DEFINE D == Places(ts)
<1>0. PICK top \in Nat : \A x \in D : Len(x) \in Nat /\ Len(x) <= top
  <2>1. PICK top \in Nat : \A x \in Nodes(ts) : Len(x) <= top
    BY Height
  <2>2. Len(Root) = 0
    BY DEF Root
  <2>3. \A x \in D : Len(x) <= top
    BY <2>1, <2>2 DEF Places
  <2> QED BY <2>3, PlacesAre
<1> DEFINE Good(g, m) == \A n \in D : Len(n) + m > top => g[n] = FoundStep(g, ts, q, n)
           P == {m \in Nat : \E g : g = [n \in D |-> g[n]] /\ Good(g, m)}
<1> HIDE DEF D
<1>1. 0 \in P
  <2> DEFINE g == [n \in D |-> {}]
  <2>1. g = [n \in D |-> g[n]]
    OBVIOUS
  <2>2. \A n \in D : ~(Len(n) + 0 > top)
    BY <1>0
  <2> HIDE DEF g
  <2>3. Good(g, 0)
    BY <2>2
  <2> HIDE DEF Good
  <2> QED BY <2>1, <2>3
<1>2. ASSUME NEW m \in Nat, m \in P PROVE m + 1 \in P
  <2>1. PICK g : g = [n \in D |-> g[n]] /\ Good(g, m)
    BY <1>2
  <2> DEFINE h == [n \in D |-> FoundStep(g, ts, q, n)]
  <2>2. h = [n \in D |-> h[n]]
    OBVIOUS
  <2>3. ASSUME NEW n \in D, Len(n) + (m + 1) > top
        PROVE  h[n] = FoundStep(h, ts, q, n)
    <3>1. ASSUME NEW c \in Below(ts, n) PROVE g[c] = h[c]
      <4>1. c \in D /\ Len(c) = Len(n) + 1 /\ Len(n) \in Nat
        BY BelowIs, PlacesAre DEF D, Places
      <4>2. Len(c) + m > top
        BY <2>3, <4>1
      <4> QED BY <2>1, <4>1, <4>2
    <3>2. n \in Places(ts)
      BY DEF D
    <3> HIDE DEF h
    <3>3. FoundStep(g, ts, q, n) = FoundStep(h, ts, q, n)
      <4>1. CASE n \in ts
        BY <4>1 DEF FoundStep
      <4>2. CASE n \notin ts
        <5>1. FoundStep(g, ts, q, n) = UNION {g[c] : c \in Below(ts, n)}
              /\ FoundStep(h, ts, q, n) = UNION {h[c] : c \in Below(ts, n)}
          BY <3>2, <4>2, ChildSet DEF FoundStep
        <5> QED BY <3>1, <5>1
      <4> QED BY <4>1, <4>2
    <3> USE DEF h
    <3> QED BY <3>3
  <2> HIDE DEF h
  <2>4. Good(h, m + 1)
    BY <2>3
  <2>5. m + 1 \in Nat
    OBVIOUS
  <2> HIDE DEF Good
  <2> QED BY <2>2, <2>4, <2>5
<1>3. top + 1 \in P
  <2>1. P \in SUBSET Nat /\ top + 1 \in 0..top + 1 /\ top + 1 \in Nat
    OBVIOUS
  <2> HIDE DEF P
  <2> QED BY <1>1, <1>2, <2>1, UpTo
<1>4. PICK g : g = [n \in D |-> g[n]] /\ Good(g, top + 1)
  BY <1>3
<1>5. \A n \in D : g[n] = FoundStep(g, ts, q, n)
  BY <1>0, <1>4
<1>6. g = [n \in D |-> FoundStep(g, ts, q, n)]
  BY <1>4, <1>5
<1> QED BY <1>6 DEF Finds, D


\* The topics seen when all branches are open, and of these the ones that match.
LEMMA MatchedAre ==
    ASSUME NEW ts \in FiniteTopics, NEW q
    PROVE  Matched(ts, q) =
             {t \in ts : Matches(t, q) /\ t \in Seen(ts, Nodes(ts), Root)}
<1> DEFINE all == Nodes(ts)
           Right(n, s) == \A x : x \in s <=> x \in ts /\ Matches(x, q) /\ x \in Seen(ts, all, n)
<1> HIDE DEF all
<1>1. PICK g : /\ g = [n \in Places(ts) |-> FoundStep(g, ts, q, n)]
               /\ Matched(ts, q) = g[Root]
  <2>1. Finds(CHOOSE g : Finds(g, ts, q), ts, q)
    BY FoundExists
  <2> QED BY <2>1, MatchedIs DEF Finds
<1>2. PICK top \in Nat : \A x \in Nodes(ts) : Len(x) <= top
  BY Height
<1>3. Root \notin ts /\ ts \subseteq Nodes(ts)
  BY FiniteTopicsAre, NodesAre
<1> DEFINE P == {m \in Nat : \A n \in Places(ts) : Len(n) + m > top + 1 => Right(n, g[n])}
<1>4. ASSUME NEW m \in Nat,
             \A n \in Places(ts) : Len(n) + m > top + 1 => Right(n, g[n])
      PROVE  \A n \in Places(ts) : Len(n) + (m + 1) > top + 1 => Right(n, g[n])
  <2> SUFFICES ASSUME NEW n \in Places(ts), Len(n) + (m + 1) > top + 1
               PROVE  Right(n, g[n])
    OBVIOUS
  <2>1. g[n] = FoundStep(g, ts, q, n)
    BY <1>1
  <2>2. CASE n \in ts
    <3>1. Seen(ts, all, n) = {n}
      BY <1>3, <2>2, SeenStops
    <3>2. g[n] = {t \in {n} : Matches(t, q)}
      BY <2>1, <2>2 DEF FoundStep
    <3> QED BY <2>2, <3>1, <3>2
  <2>3. CASE n \notin ts
    <3>1. ASSUME NEW c \in Below(ts, n) PROVE Right(c, g[c])
      <4>1. c \in Places(ts) /\ Len(c) = Len(n) + 1 /\ Len(n) \in Nat
        BY BelowIs, PlacesAre DEF Places
      <4>2. Len(c) + m > top + 1
        BY <4>1
      <4> HIDE DEF Right
      <4> QED BY <1>4, <4>1, <4>2
    <3>2. \A x : x \in g[n] <=> \E c \in Below(ts, n) : x \in g[c]
      BY <2>1, <2>3, FoundBelow
    <3>3. n \in all \union {Root}
      BY DEF all, Places
    <3>4. \A x : x \in Seen(ts, all, n)
                   <=> \/ x = n /\ n # Root
                       \/ \E c \in Below(ts, n) : x \in Seen(ts, all, c)
      BY <2>3, <3>3, SeenGoesOn
    <3>5. ASSUME NEW x
          PROVE  x \in g[n] <=> x \in ts /\ Matches(x, q) /\ x \in Seen(ts, all, n)
      <4>1. x \in ts => (x \in Seen(ts, all, n)
                           <=> \E c \in Below(ts, n) : x \in Seen(ts, all, c))
        BY <2>3, <3>4
      <4>2. x \in g[n] <=> \E c \in Below(ts, n) :
                              x \in ts /\ Matches(x, q) /\ x \in Seen(ts, all, c)
        BY <3>1, <3>2
      <4> QED BY <4>1, <4>2
    <3> QED BY <3>5
  <2> QED BY <2>2, <2>3
<1>5. 0 \in P
  <2>1. ASSUME NEW n \in Places(ts) PROVE ~(Len(n) + 0 > top + 1)
    <3>1. Len(n) \in Nat /\ (n = Root \/ n \in Nodes(ts))
      BY PlacesAre DEF Places
    <3>2. Len(Root) = 0
      BY DEF Root
    <3> QED BY <1>2, <3>1, <3>2
  <2> HIDE DEF Right
  <2> QED BY <2>1
<1>6. top + 2 \in P
  <2> HIDE DEF Right
  <2>1. P \in SUBSET Nat /\ top + 2 \in Nat /\ top + 2 \in 0..top + 2
    OBVIOUS
  <2>2. ASSUME NEW m \in Nat, m < top + 2, m \in P PROVE m + 1 \in P
    BY <1>4, <2>2
  <2> HIDE DEF P
  <2> QED BY <1>5, <2>1, <2>2, UpTo
<1>7. Root \in Places(ts) /\ Len(Root) = 0
  BY DEF Places, Root
<1>8. Right(Root, g[Root])
  <2>1. Len(Root) + (top + 2) > top + 1
    BY <1>7
  <2> HIDE DEF Right
  <2> QED BY <1>6, <1>7, <2>1
<1> QED BY <1>1, <1>8 DEF all

-----------------------------------------------------------------------------
(* The rows *)

LEMMA AboveIs ==
    ASSUME NEW ts \in FiniteTopics, NEW x \in Nodes(ts)
    PROVE  /\ x \in Path /\ x # Root /\ Above(x) \subseteq Nodes(ts) /\ x \notin Above(x)
           /\ \A p : p \in Above(x) <=> p \in Path /\ IsPrefix(p, x) /\ p # Root /\ p # x
           /\ \A p \in Above(x) : Above(p) \subseteq Above(x)
<1>1. x \in Path /\ x # Root
  BY FiniteTopicsAre, NodesAre
<1>2. \A p : p \in Above(x) <=> p \in Path /\ IsPrefix(p, x) /\ p # Root /\ p # x
  BY <1>1, PrefixesAre DEF Above
<1>3. Above(x) \subseteq Nodes(ts)
  BY <1>2, FiniteTopicsAre, NodesAre
<1>4. ASSUME NEW p \in Above(x), NEW o \in Above(p) PROVE o \in Above(x)
  <2>1. p \in Path /\ IsPrefix(p, x) /\ p # x
    BY <1>2
  <2>2. o \in Path /\ IsPrefix(o, p) /\ o # Root /\ o # p
    BY <2>1, PrefixesAre DEF Above
  <2>3. IsPrefix(o, x)
    BY <1>1, <2>1, <2>2, PrefixTransitive
  <2>4. Len(o) < Len(p) /\ Len(p) < Len(x)
    BY <1>1, <2>1, <2>2, PrefixFirst
  <2>5. Len(o) \in Nat /\ Len(p) \in Nat /\ Len(x) \in Nat
    BY <1>1, <2>1, <2>2, PathIs
  <2>6. o # x
    BY <2>4, <2>5
  <2> QED BY <1>2, <2>2, <2>3, <2>6
<1> QED BY <1>1, <1>2, <1>3, <1>4

Unhidden(ts, x) == Above(x) \intersect ts = {}
Hits(ts, q) == {t \in ts : Matches(t, q) /\ Unhidden(ts, t)}

LEMMA HitsAre ==
    ASSUME NEW ts \in FiniteTopics, NEW q
    PROVE  Matched(ts, q) = Hits(ts, q)
<1>1. \A t \in ts : t \in Nodes(ts) /\ Above(t) \subseteq Nodes(ts)
  BY AboveIs, FiniteTopicsAre, NodesAre
<1>2. \A t \in ts : t \in Seen(ts, Nodes(ts), Root) <=> Unhidden(ts, t)
  BY <1>1, SeenFromTop DEF Unhidden
<1> QED BY <1>2, MatchedAre DEF Hits

\* With a filter: the matches and what is above them.
LEMMA FilteredSet ==
    ASSUME NEW ts \in FiniteTopics, NEW q, NEW above, above = Upwards(Hits(ts, q)) \ Hits(ts, q),
           NEW x
    PROVE  x \in Seen(ts, above, Root) /\ x \in Hits(ts, q) \union above
             <=> \E t \in Hits(ts, q) : x \in Above(t) \union {t}
<1>1. \A t \in Hits(ts, q) : t \in ts /\ t \in Nodes(ts) /\ Unhidden(ts, t)
  BY FiniteTopicsAre, NodesAre DEF Hits
<1>2. \A p : p \in Upwards(Hits(ts, q)) <=> \E t \in Hits(ts, q) : p \in Prefixes(t)
  BY DEF Upwards
<1>3. ASSUME x \in Seen(ts, above, Root), x \in Hits(ts, q) \union above,
             x \notin Hits(ts, q)
      PROVE  \E t \in Hits(ts, q) : x \in Above(t)
  <2>1. x \in Nodes(ts) /\ x # Root
    BY <1>3, FiniteTopicsAre, NodesAre DEF Seen
  <2>2. PICK t \in Hits(ts, q) : x \in Prefixes(t)
    BY <1>2, <1>3
  <2>3. x # t
    BY <1>3
  <2> QED BY <2>1, <2>2, <2>3 DEF Above
<1>4. ASSUME NEW t \in Hits(ts, q), x \in Above(t) \union {t}
      PROVE  x \in Seen(ts, above, Root) /\ x \in Hits(ts, q) \union above
  <2>1. t \in ts /\ t \in Nodes(ts) /\ Above(t) \intersect ts = {}
    BY <1>1 DEF Unhidden
  <2>2. x \in Nodes(ts) /\ Above(x) \subseteq Above(t)
    BY <1>4, <2>1, AboveIs
  <2>3. ASSUME NEW p \in Above(t) PROVE p \in above \ ts
    <3>1. p \notin ts /\ p \notin Hits(ts, q)
      BY <2>1 DEF Hits
    <3>2. p \in Upwards(Hits(ts, q))
      BY <1>2 DEF Above
    <3> QED BY <3>1, <3>2
  <2>4. x \in Seen(ts, above, Root)
    BY <2>2, <2>3, SeenFromTop
  <2>5. x \in Hits(ts, q) \union above
    BY <1>4, <2>3
  <2> QED BY <2>4, <2>5
<1>5. ASSUME x \in Hits(ts, q) PROVE \E t \in Hits(ts, q) : x \in Above(t) \union {t}
  BY <1>5
<1> QED BY <1>3, <1>4, <1>5

LEMMA RowsShown ==
    ASSUME NEW ts \in FiniteTopics, NEW open, NEW q
    PROVE  /\ VisibleRows(ts, open, q) \in Seq(Nodes(ts)) /\ Sorted(VisibleRows(ts, open, q))
           /\ \A x : x \in ToSet(VisibleRows(ts, open, q)) <=>
                IF q = <<>> THEN x \in Nodes(ts) /\ Above(x) \subseteq open \ ts
                ELSE \E t \in Hits(ts, q) : x \in Above(t) \union {t}
<1>1. CASE q = <<>>
  <2>1. VisibleRows(ts, open, q) = WalkVisible(ts, open)
    BY Zenon, <1>1 DEF VisibleRows
  <2>2. Walked(ts, open, Root, WalkVisible(ts, open))
    BY WalkSees
  <2> QED BY <1>1, <2>1, <2>2, SeenFromTop DEF Walked
<1>2. CASE q # <<>>
  <2> DEFINE above == Upwards(Hits(ts, q)) \ Hits(ts, q)
             rs == WalkVisible(ts, above)
             keep == Hits(ts, q) \union above
  <2>1. VisibleRows(ts, open, q) = Kept(rs, keep)
    <3>1. Matched(ts, q) = Hits(ts, q)
      BY HitsAre
    <3> QED BY Zenon, <1>2, <3>1 DEF VisibleRows
  <2>2. \A x : x \in Seen(ts, above, Root) /\ x \in keep
                 <=> \E t \in Hits(ts, q) : x \in Above(t) \union {t}
    BY FilteredSet
  <2> HIDE DEF above
  <2>3. rs \in Seq(Nodes(ts)) /\ Sorted(rs) /\ ToSet(rs) = Seen(ts, above, Root)
    BY WalkSees DEF Walked
  <2>4. Nodes(ts) \in SUBSET Path
    BY FiniteTopicsAre, NodesAre
  <2> HIDE DEF rs, keep
  <2>5. /\ Kept(rs, keep) \in Seq(Nodes(ts)) /\ Sorted(Kept(rs, keep))
        /\ \A x : x \in ToSet(Kept(rs, keep)) <=> x \in ToSet(rs) /\ x \in keep
    BY <2>3, <2>4, KeptAre
  <2>6. \A x : x \in ToSet(Kept(rs, keep))
                 <=> \E t \in Hits(ts, q) : x \in Above(t) \union {t}
    BY <2>2, <2>3, <2>5
  <2> QED BY <1>2, <2>1, <2>5, <2>6
<1> QED BY <1>1, <1>2

\* Sorted rows that have the rows above them are a tree.
LEMMA SortedIsTree ==
    ASSUME NEW rs \in Seq(Path), Sorted(rs), <<>> \notin ToSet(rs),
           \A x \in ToSet(rs) : Front(x) # Root => Front(x) \in ToSet(rs),
           NEW i \in DOMAIN rs
    PROVE  /\ Front(rs[i]) # Root => Front(rs[i]) \in ToSet(SubSeq(rs, 1, i - 1))
           /\ \A j \in 1..i-1 :
                 /\ rs[j] # rs[i]
                 /\ Front(rs[j]) = Front(rs[i]) => Last(rs[j]) < Last(rs[i])
                 /\ IsPrefix(rs[j], rs[i]) => \A k \in j..i : IsPrefix(rs[j], rs[k])
<1>1. /\ Len(rs) \in Nat /\ DOMAIN rs = 1..Len(rs) /\ i \in 1..Len(rs)
      /\ \A k \in 1..Len(rs) : rs[k] \in Path /\ rs[k] \in ToSet(rs) /\ rs[k] # <<>>
  BY DEF ToSet
<1>2. ASSUME NEW k \in 1..Len(rs), NEW l \in 1..Len(rs), k < l PROVE ComesBefore(rs[k], rs[l])
  BY <1>1, <1>2 DEF Sorted
<1>3. ASSUME Front(rs[i]) # Root PROVE Front(rs[i]) \in ToSet(SubSeq(rs, 1, i - 1))
  <2> DEFINE x == rs[i]
             f == Front(x)
  <2>1. x \in Path /\ f \in Path /\ IsPrefix(f, x) /\ f # x
    BY <1>1, FrontIs
  <2>2. ComesBefore(f, x) /\ ~ComesBefore(x, f)
    BY <2>1, PrefixFirst, NeverBack
  <2>3. f \in ToSet(rs)
    BY <1>1, <1>3
  <2> HIDE DEF f
  <2>4. PICK j \in 1..Len(rs) : f = rs[j]
    BY <1>1, <2>3 DEF ToSet
  <2>5. j # i /\ ~(i < j)
    BY <1>1, <1>2, <2>1, <2>2, <2>4
  <2>6. j \in 1..i - 1 /\ i - 1 \in Nat /\ i - 1 <= Len(rs)
    BY <1>1, <2>5
  <2> DEFINE u == SubSeq(rs, 1, i - 1)
  <2>7. DOMAIN u = 1..i - 1 /\ \A k \in 1..i - 1 : u[k] = rs[k]
    <3> DEFINE n == i - 1
    <3>1. n \in Nat /\ n <= Len(rs) /\ Len(rs) \in Nat
      BY <1>1, <2>6
    <3> HIDE DEF n
    <3>2. /\ DOMAIN SubSeq(rs, 1, n) = 1..n
          /\ \A k \in 1..n : SubSeq(rs, 1, n)[k] = rs[k]
      BY <3>1
    <3> QED BY <3>2 DEF n
  <2> HIDE DEF u
  <2>8. f \in ToSet(u)
    BY <2>4, <2>6, <2>7 DEF ToSet
  <2> QED BY <2>8 DEF f, u
<1>4. ASSUME NEW j \in 1..i-1
      PROVE  /\ rs[j] # rs[i]
             /\ Front(rs[j]) = Front(rs[i]) => Last(rs[j]) < Last(rs[i])
             /\ IsPrefix(rs[j], rs[i]) => \A k \in j..i : IsPrefix(rs[j], rs[k])
  <2>1. j \in 1..Len(rs) /\ j < i
    BY <1>1
  <2>2. rs[j] \in Path /\ rs[i] \in Path /\ ComesBefore(rs[j], rs[i])
        /\ rs[j] # <<>> /\ rs[i] # <<>>
    BY <1>1, <1>2, <2>1
  <2>3. rs[j] # rs[i]
    BY <2>2, NeverBack
  <2>4. Front(rs[j]) = Front(rs[i]) => Last(rs[j]) < Last(rs[i])
    BY <2>2, SiblingsInOrder
  <2>5. ASSUME IsPrefix(rs[j], rs[i]), NEW k \in j..i PROVE IsPrefix(rs[j], rs[k])
    <3>1. k \in 1..Len(rs) /\ (k = j \/ k = i \/ (j < k /\ k < i))
      BY <1>1, <2>1
    <3>2. CASE k = j
      BY <2>2, <3>2, PrefixesAre
    <3>3. CASE k = i
      BY <2>5, <3>3
    <3>4. CASE j < k /\ k < i
      <4>1. rs[k] \in Path /\ ComesBefore(rs[j], rs[k]) /\ ComesBefore(rs[k], rs[i])
        BY <1>1, <1>2, <2>1, <3>1, <3>4
      <4> QED BY <2>2, <2>5, <4>1, Between
    <3> QED BY <3>1, <3>2, <3>3, <3>4
  <2> QED BY <2>3, <2>4, <2>5
<1> QED BY <1>3, <1>4

-----------------------------------------------------------------------------
(* The invariant *)

\* The rows are never stale: they are what tree, entries and filter give now.
TreeInv == TypeOK /\ rows = VisibleRows(topics, Open, query)

Entries(f) == DOMAIN f \subseteq Nodes(Names) /\ \A p \in DOMAIN f : f[p] \in BOOLEAN

LEMMA OverIs ==
    ASSUME NEW e, NEW o
    PROVE  /\ DOMAIN Over(e, o) = DOMAIN e \union DOMAIN o
           /\ \A p \in DOMAIN e : Over(e, o)[p] = e[p]
           /\ \A p \in DOMAIN o \ DOMAIN e : Over(e, o)[p] = o[p]
           /\ Entries(e) /\ Entries(o) => Entries(Over(e, o))
<1> DEFINE w == Over(e, o)
<1>1. /\ DOMAIN w = DOMAIN e \union DOMAIN o
      /\ \A p \in DOMAIN e : w[p] = e[p]
      /\ \A p \in DOMAIN o \ DOMAIN e : w[p] = o[p]
  BY DEF Over
<1> HIDE DEF w
<1>2. ASSUME Entries(e), Entries(o) PROVE Entries(w)
  <2>1. DOMAIN w \subseteq Nodes(Names)
    BY <1>1, <1>2 DEF Entries
  <2>2. ASSUME NEW p \in DOMAIN w PROVE w[p] \in BOOLEAN
    BY <1>1, <1>2 DEF Entries
  <2> QED BY <2>1, <2>2 DEF Entries
<1> QED BY <1>1, <1>2 DEF w

\* A step that gives every variable but the rows its type and recomputes them.
LEMMA RefreshKeeps ==
    ASSUME topics' \in FiniteTopics, Entries(expanded'), active' \in BOOLEAN,
           query' \in Seq(Chars), Len(query') <= MaxQuery, collapsed' \in BOOLEAN, RefreshRows
    PROVE  TreeInv'
<1>1. rows' = VisibleRows(topics', Open', query')
  BY DEF RefreshRows, Open
<1>2. rows' \in Seq(Nodes(topics'))
  BY <1>1, RowsShown
<1> QED BY <1>1, <1>2 DEF TreeInv, TypeOK, Entries

LEMMA InitIsTree == Init => TreeInv
<1> SUFFICES ASSUME Init PROVE TreeInv
  OBVIOUS
<1>1. /\ topics = {} /\ expanded = <<>> /\ rows = <<>> /\ active = FALSE /\ query = <<>>
      /\ Len(query) = 0
  BY DEF Init
<1>2. topics \in FiniteTopics
  BY <1>1, FS_EmptySet DEF FiniteTopics
<1>3. DOMAIN expanded = {}
  BY <1>1
<1>4. rows \in Seq(Nodes(topics)) /\ query \in Seq(Chars)
  BY <1>1
<1>5. VisibleRows(topics, Open, query) = <<>>
  <2> DEFINE v == VisibleRows(topics, Open, query)
  <2>1. v \in Seq(Nodes(topics)) /\ Nodes(topics) = {}
    <3>1. Nodes(topics) = {}
      BY <1>1, InNodes
    <3> QED BY <1>2, <3>1, RowsShown
  <2> HIDE DEF v
  <2>2. v = <<>>
    BY <2>1
  <2> QED BY <2>2 DEF v
<1>6. TypeOK
  <2>1. Len(query) <= MaxQuery
    BY <1>1, FilterAssumption
  <2>4. active \in BOOLEAN /\ collapsed \in BOOLEAN
    BY Zenon, <1>1 DEF Init
  <2>2. \A p \in DOMAIN expanded : expanded[p] \in BOOLEAN
    BY <1>3
  <2>3. DOMAIN expanded \subseteq Nodes(Names)
    BY <1>3
  <2> QED BY <1>2, <1>4, <2>1, <2>2, <2>3, <2>4 DEF TypeOK
<1> QED BY <1>1, <1>5, <1>6 DEF TreeInv

LEMMA NextIsTree == TreeInv /\ [Next]_vars => TreeInv'
<1> SUFFICES ASSUME TreeInv, [Next]_vars PROVE TreeInv'
  OBVIOUS
<1>0. /\ topics \in FiniteTopics /\ Entries(expanded) /\ active \in BOOLEAN
      /\ query \in Seq(Chars) /\ Len(query) <= MaxQuery /\ rows \in Seq(Nodes(topics))
      /\ rows = VisibleRows(topics, Open, query) /\ collapsed \in BOOLEAN
  BY DEF TreeInv, TypeOK, Entries
<1>n. /\ Nodes(topics) \subseteq Nodes(Names)
      /\ \A ts \in FiniteTopics : Nodes(ts) \subseteq Nodes(Names)
  BY <1>0, FiniteTopicsAre, NodesAre
<1>1. ASSUME NEW ts \in FiniteTopics, Loaded(ts) PROVE TreeInv'
  <2>1. /\ topics' = ts /\ expanded' = Over(expanded, OpenAtFirst(ts))
        /\ active' = active /\ query' = query /\ RefreshRows
        /\ collapsed' = FALSE
    BY <1>1 DEF Loaded, filterVars
  <2>2. Entries(OpenAtFirst(ts))
    BY <1>n DEF Entries, OpenAtFirst, Branches
  <2>3. Entries(expanded')
    BY <1>0, <2>1, <2>2, OverIs
  <2> QED BY <1>0, <2>1, <2>3, RefreshKeeps
<1>2. ASSUME NEW n \in Nodes(topics), Toggle(n) PROVE TreeInv'
  <2> DEFINE e == [p \in {n} |-> n \notin Open]
  <2>1. /\ expanded' = Over(e, expanded) /\ topics' = topics
        /\ active' = active /\ query' = query /\ RefreshRows
        /\ collapsed' = collapsed
    BY <1>2 DEF Toggle, filterVars
  <2>2. Entries(e)
    BY <1>n DEF Entries
  <2> HIDE DEF e
  <2>3. Entries(expanded')
    BY <1>0, <2>1, <2>2, OverIs
  <2> QED BY <1>0, <2>1, <2>3, RefreshKeeps
<1>3. CASE ExpandAll
  <2> DEFINE e == [n \in Branches(topics) |-> TRUE]
  <2>1. /\ expanded' = Over(e, expanded) /\ topics' = topics
        /\ active' = active /\ query' = query /\ RefreshRows
        /\ collapsed' = collapsed
    BY <1>3 DEF ExpandAll, filterVars
  <2>2. Entries(e)
    BY <1>n DEF Entries, Branches
  <2> HIDE DEF e
  <2>3. Entries(expanded')
    BY <1>0, <2>1, <2>2, OverIs
  <2> QED BY <1>0, <2>1, <2>3, RefreshKeeps
<1>4. CASE CollapseAll
  <2>1. /\ expanded' = <<>> /\ topics' = topics
        /\ active' = active /\ query' = query /\ RefreshRows
        /\ collapsed' = TRUE
    BY <1>4 DEF CollapseAll, filterVars
  <2>2. DOMAIN expanded' = {}
    BY <2>1
  <2>3. Entries(expanded')
    BY <2>2 DEF Entries
  <2> QED BY <1>0, <2>1, <2>3, RefreshKeeps
<1>5. ASSUME NEW on \in BOOLEAN, FilterKey(on) PROVE TreeInv'
  <2>1. /\ expanded' = expanded /\ topics' = topics
        /\ active' = on /\ query' = <<>> /\ RefreshRows /\ collapsed' = collapsed
    BY <1>5 DEF FilterKey
  <2>2. query' \in Seq(Chars) /\ Len(query') <= MaxQuery
    BY <2>1, FilterAssumption
  <2> QED BY <1>0, <2>1, <2>2, RefreshKeeps
<1>6. CASE FilterEnter
  <2>1. /\ expanded' = expanded /\ topics' = topics /\ rows' = rows
        /\ active' = FALSE /\ query' = query /\ collapsed' = collapsed
    BY <1>6 DEF FilterEnter
  <2>2. Open' = Open
    BY <2>1 DEF Open
  <2>3. TypeOK'
    BY <1>0, <2>1 DEF TypeOK, Entries
  <2> QED BY <1>0, <2>1, <2>2, <2>3 DEF TreeInv
<1>7. ASSUME NEW q \in Seq(Chars), Len(q) <= MaxQuery, FilterType(q) PROVE TreeInv'
  <2>1. /\ expanded' = expanded /\ topics' = topics
        /\ active' = active /\ query' = q /\ RefreshRows /\ collapsed' = collapsed
    BY <1>7 DEF FilterType
  <2> QED BY <1>0, <1>7, <2>1, RefreshKeeps
<1>8. CASE FilterBackspace
  <2>1. query # <<>> /\ FilterType(Front(query))
    BY <1>8 DEF FilterBackspace
  <2>2. Front(query) \in Seq(Chars) /\ Len(Front(query)) <= MaxQuery
    <3>1. Len(query) \in Nat /\ Len(query) > 0 /\ MaxQuery \in Nat
      BY <1>0, <2>1, FilterAssumption
    <3> DEFINE n == Len(query) - 1
    <3>2. n \in Nat /\ n <= Len(query) /\ n <= MaxQuery
      BY <1>0, <3>1
    <3> HIDE DEF n
    <3>3. SubSeq(query, 1, n) \in Seq(Chars) /\ Len(SubSeq(query, 1, n)) = n
      BY <1>0, <3>2
    <3> QED BY <3>2, <3>3 DEF Front, n
  <2> QED BY <1>7, <2>1, <2>2
<1>9. ASSUME NEW c \in Chars, FilterChar(c) PROVE TreeInv'
  <2>1. Len(query) < MaxQuery /\ FilterType(Append(query, c))
    BY <1>9 DEF FilterChar
  <2>2. Append(query, c) \in Seq(Chars) /\ Len(Append(query, c)) <= MaxQuery
    BY <1>0, <2>1, FilterAssumption
  <2> QED BY <1>7, <2>1, <2>2
<1>10. CASE UNCHANGED vars
  <2>1. /\ expanded' = expanded /\ topics' = topics /\ rows' = rows
        /\ active' = active /\ query' = query /\ collapsed' = collapsed
    BY <1>10 DEF vars, filterVars
  <2>2. Open' = Open
    BY <2>1 DEF Open
  <2>3. TypeOK'
    BY <1>0, <2>1 DEF TypeOK, Entries
  <2> QED BY <1>0, <2>1, <2>2, <2>3 DEF TreeInv
<1> QED BY <1>1, <1>2, <1>3, <1>4, <1>5, <1>6, <1>8, <1>9, <1>10 DEF Next

LEMMA TreeInvHolds == Spec => []TreeInv
<1>1. Init => TreeInv
  BY InitIsTree
<1>2. TreeInv /\ [Next]_vars => TreeInv'
  BY NextIsTree
<1> QED BY <1>1, <1>2, PTL DEF Spec

-----------------------------------------------------------------------------
(* Theorems *)

\* Every variable has its type, and the rows are nodes of the present tree, whatever
\* was loaded, opened and typed, with any number of topics.
THEOREM TypeCorrect == Spec => []TypeOK
<1>1. TreeInv => TypeOK
  BY DEF TreeInv
<1> QED BY <1>1, TreeInvHolds, PTL

LEMMA RowsAre ==
    ASSUME TreeInv
    PROVE  /\ topics \in FiniteTopics /\ rows \in Seq(Nodes(topics)) /\ Sorted(rows)
           /\ \A x : x \in ToSet(rows) <=>
                IF query = <<>> THEN x \in Nodes(topics) /\ Above(x) \subseteq Open \ topics
                ELSE \E t \in Hits(topics, query) : x \in Above(t) \union {t}
<1>1. topics \in FiniteTopics /\ rows = VisibleRows(topics, Open, query)
  BY DEF TreeInv, TypeOK
<1> QED BY <1>1, RowsShown

\* Exactly the nodes below open branches are shown, with a filter exactly what
\* matches and the way to it; topics below a topic never are.
THEOREM RowsShowOpen == Spec => []RowsAreWhatIsOpen
<1>1. ASSUME TreeInv PROVE RowsAreWhatIsOpen
  <2>1. /\ topics \in FiniteTopics
        /\ \A x : x \in ToSet(rows) <=>
             IF query = <<>> THEN x \in Nodes(topics) /\ Above(x) \subseteq Open \ topics
             ELSE \E t \in Hits(topics, query) : x \in Above(t) \union {t}
    BY <1>1, RowsAre
  <2>2. CASE query = <<>>
    <3>1. ToSet(rows) = {n \in {m \in Nodes(topics) : Above(m) \subseteq Open} :
                            Above(n) \intersect topics = {}}
      BY <2>1, <2>2
    <3> QED BY <2>2, <3>1 DEF RowsAreWhatIsOpen
  <2>3. CASE query # <<>>
    <3> DEFINE hits == {x \in topics \ Hidden : Matches(x, query)}
               shown == UNION {Above(t) \union {t} : t \in hits}
    <3>1. \A x : x \in ToSet(rows) <=> \E t \in Hits(topics, query) : x \in Above(t) \union {t}
      BY <2>1, <2>3
    <3>2. hits = Hits(topics, query)
      BY DEF Hits, Hidden, Unhidden
    <3> HIDE DEF hits
    <3>3. ASSUME NEW t \in hits, NEW x \in Above(t) \union {t}
          PROVE  Above(x) \intersect topics = {}
      <4>1. t \in topics /\ t \in Nodes(topics) /\ Above(t) \intersect topics = {}
        BY <2>1, <3>2, FiniteTopicsAre, NodesAre DEF Hits, Unhidden
      <4>2. Above(x) \subseteq Above(t)
        BY <2>1, <3>3, <4>1, AboveIs
      <4> QED BY <4>1, <4>2
    <3>4. \A x : x \in shown <=> \E t \in hits : x \in Above(t) \union {t}
      OBVIOUS
    <3> HIDE DEF shown
    <3>5. ToSet(rows) = {n \in shown : Above(n) \intersect topics = {}}
      BY <3>1, <3>2, <3>3, <3>4
    <3> QED BY Zenon, <2>3, <3>5 DEF RowsAreWhatIsOpen, shown, hits
  <2> QED BY <2>2, <2>3
<1> QED BY <1>1, TreeInvHolds, PTL

\* The rows are a tree: each once, below its parent, among its siblings in order, and
\* what is between it and a row above it belongs to that row, filtered or not.
THEOREM RowsFormTree == Spec => []RowsAreTree
<1>1. ASSUME TreeInv PROVE RowsAreTree
  <2>1. /\ topics \in FiniteTopics /\ rows \in Seq(Nodes(topics)) /\ Sorted(rows)
        /\ \A x : x \in ToSet(rows) <=>
             IF query = <<>> THEN x \in Nodes(topics) /\ Above(x) \subseteq Open \ topics
             ELSE \E t \in Hits(topics, query) : x \in Above(t) \union {t}
    BY <1>1, RowsAre
  <2>2. Nodes(topics) \subseteq Path /\ <<>> \notin Nodes(topics)
    BY <2>1, FiniteTopicsAre, NodesAre DEF Root
  <2>3. rows \in Seq(Path) /\ ToSet(rows) \subseteq Nodes(topics)
    <3>1. rows \in Seq(Path)
      BY <2>1, <2>2, SeqMonotonic
    <3>2. ToSet(rows) \subseteq Nodes(topics)
      BY <2>1, ToSetOf
    <3> QED BY <3>1, <3>2
  <2>4. ASSUME NEW x \in ToSet(rows), Front(x) # Root PROVE Front(x) \in ToSet(rows)
    <3> DEFINE f == Front(x)
    <3>1. x \in Nodes(topics) /\ x \in Path /\ x # <<>>
      BY <2>2, <2>3
    <3>2. f \in Path /\ IsPrefix(f, x) /\ f # x
      BY <3>1, FrontIs
    <3>3. f # Root
      BY <2>4
    <3> HIDE DEF f
    <3>4. f \in Above(x) /\ f \in Nodes(topics) /\ Above(f) \subseteq Above(x)
      BY <2>1, <3>1, <3>2, <3>3, AboveIs
    <3>5. CASE query = <<>>
      <4>1. \A y : y \in ToSet(rows) <=> y \in Nodes(topics) /\ Above(y) \subseteq Open \ topics
        BY <2>1, <3>5
      <4>2. Above(x) \subseteq Open \ topics
        BY <4>1
      <4>3. Above(f) \subseteq Open \ topics
        BY <3>4, <4>2
      <4> QED BY <3>4, <4>1, <4>3 DEF f
    <3>6. CASE query # <<>>
      <4>0. \A y : y \in ToSet(rows)
                      <=> \E t \in Hits(topics, query) : y \in Above(t) \union {t}
        BY <2>1, <3>6
      <4>1. PICK t \in Hits(topics, query) : x \in Above(t) \union {t}
        BY <4>0
      <4>2. t \in Nodes(topics)
        BY <2>1, FiniteTopicsAre, NodesAre DEF Hits
      <4>3. Above(x) \subseteq Above(t)
        BY <2>1, <4>1, <4>2, AboveIs
      <4>4. f \in Above(t) \union {t}
        BY <3>4, <4>1, <4>3
      <4> QED BY <4>0, <4>4 DEF f
    <3> QED BY <3>5, <3>6 DEF f
  <2>5. <<>> \notin ToSet(rows)
    BY <2>2, <2>3
  <2> QED BY <2>1, <2>3, <2>4, <2>5, SortedIsTree DEF RowsAreTree
<1> QED BY <1>1, TreeInvHolds, PTL

\* Until O is pressed every first-level branch has an entry.
FirstKnown == ~collapsed => DOMAIN OpenAtFirst(topics) \subseteq DOMAIN expanded

LEMMA KnownHolds == Spec => []FirstKnown
<1>1. Init => FirstKnown
  <2> SUFFICES ASSUME Init PROVE DOMAIN OpenAtFirst(topics) = {}
    BY DEF FirstKnown
  <2>1. topics = {}
    BY DEF Init
  <2>2. Nodes(topics) = {}
    BY <2>1, InNodes
  <2> QED BY <2>2 DEF OpenAtFirst, Branches
<1>2. FirstKnown /\ [Next]_vars => FirstKnown'
  <2> SUFFICES ASSUME FirstKnown, [Next]_vars PROVE FirstKnown'
    OBVIOUS
  <2>1. ASSUME NEW ts \in FiniteTopics, Loaded(ts) PROVE FirstKnown'
    <3>1. topics' = ts /\ expanded' = Over(expanded, OpenAtFirst(ts))
      BY <2>1 DEF Loaded
    <3>2. DOMAIN OpenAtFirst(ts) \subseteq DOMAIN expanded'
      BY <3>1, OverIs
    <3> QED BY <3>1, <3>2 DEF FirstKnown
  <2>2. ASSUME topics' = topics, collapsed' = collapsed, DOMAIN expanded \subseteq DOMAIN expanded'
        PROVE  FirstKnown'
    BY <2>2 DEF FirstKnown
  <2>3. ASSUME NEW n, Toggle(n) PROVE FirstKnown'
    <3>1. DOMAIN expanded \subseteq DOMAIN expanded'
      BY <2>3, OverIs DEF Toggle
    <3> QED BY <2>2, <2>3, <3>1 DEF Toggle
  <2>4. CASE ExpandAll
    <3>1. DOMAIN expanded \subseteq DOMAIN expanded'
      BY <2>4, OverIs DEF ExpandAll
    <3> QED BY <2>2, <2>4, <3>1 DEF ExpandAll
  <2>5. CASE CollapseAll
    BY <2>5 DEF CollapseAll, FirstKnown
  <2>6. ASSUME NEW on \in BOOLEAN, FilterKey(on) PROVE FirstKnown'
    BY <2>2, <2>6 DEF FilterKey
  <2>7. CASE FilterEnter
    BY <2>2, <2>7 DEF FilterEnter
  <2>8. CASE FilterBackspace
    BY <2>2, <2>8 DEF FilterBackspace, FilterType
  <2>9. ASSUME NEW c, FilterChar(c) PROVE FirstKnown'
    BY <2>2, <2>9 DEF FilterChar, FilterType
  <2>10. CASE UNCHANGED vars
    BY <2>2, <2>10 DEF vars
  <2> QED BY <2>1, <2>3, <2>4, <2>5, <2>6, <2>7, <2>8, <2>9, <2>10 DEF Next
<1> QED BY <1>1, <1>2, PTL DEF Spec

\* No load of the topics closes a branch the user had open, nor, unless O was
\* pressed since the load before, opens one that was there and closed.
THEOREM RefreshKeepsThem == Spec => RefreshKeepsChoices
<1>1. ASSUME FirstKnown, Loaded(topics')
      PROVE  /\ Open \subseteq Open'
             /\ ~collapsed => Branches(topics) \intersect Open' \subseteq Open
  <2> DEFINE first == OpenAtFirst(topics')
  <2>1. expanded' = Over(expanded, first)
    BY <1>1 DEF Loaded
  <2>2. \A n \in DOMAIN first : Len(n) = 1
    BY DEF OpenAtFirst
  <2> HIDE DEF first
  <2>3. /\ DOMAIN expanded' = DOMAIN expanded \union DOMAIN first
        /\ \A p \in DOMAIN expanded : expanded'[p] = expanded[p]
    BY <2>1, OverIs
  <2>4. Open \subseteq Open'
    BY <2>3 DEF Open
  <2>5. ASSUME ~collapsed, NEW n \in Branches(topics), n \in Open' PROVE n \in Open
    <3>1. n \in DOMAIN expanded' /\ expanded'[n]
      BY <2>5 DEF Open
    <3>2. n \in DOMAIN expanded
      <4>1. Len(n) = 1 => n \in DOMAIN OpenAtFirst(topics)
        BY DEF OpenAtFirst
      <4> QED BY <1>1, <2>2, <2>3, <2>5, <3>1, <4>1 DEF FirstKnown
    <3> QED BY <2>3, <3>1, <3>2 DEF Open
  <2> QED BY <2>4, <2>5
<1>2. FirstKnown /\ [Next]_vars => [Loaded(topics') =>
          /\ Open \subseteq Open'
          /\ ~collapsed => Branches(topics) \intersect Open' \subseteq Open]_vars
  BY <1>1
<1> QED BY <1>2, KnownHolds, PTL DEF Spec, RefreshKeepsChoices

\* topic_tree.go:141 holds after all where no topic's name continues another's: then
\* a filter shows every topic that matches it.
THEOREM MatchesShownUnlessHidden == Spec => [](Hidden = {} => MatchesAreReachable)
<1>1. ASSUME TreeInv, Hidden = {} PROVE MatchesAreReachable
  <2> SUFFICES ASSUME query # <<>>, NEW t \in topics, Matches(t, query)
               PROVE  t \in ToSet(rows)
    BY DEF MatchesAreReachable
  <2>1. \A x : x \in ToSet(rows) <=> \E y \in Hits(topics, query) : x \in Above(y) \union {y}
    BY <1>1, RowsAre
  <2>2. t \in Hits(topics, query)
    BY <1>1 DEF Hits, Unhidden, Hidden
  <2> QED BY <2>1, <2>2
<1>2. TreeInv => (Hidden = {} => MatchesAreReachable)
  BY <1>1
<1> QED BY <1>2, TreeInvHolds, PTL
=============================================================================
