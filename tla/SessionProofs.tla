--------------------------- MODULE SessionProofs ----------------------------
(***************************************************************************)
(* Proofs about Session: the clients are those of the profile shown, what  *)
(* they log in with belongs to their brokers, and the two figures that     *)
(* DescribeTopic gives out keep their bounds however the cluster changes   *)
(* and whichever requests fail.                                            *)
(*                                                                         *)
(* The sums of DescribeTopic are folds; the first section proves what the  *)
(* rest needs of them, by induction over the size of a set.                *)
(***************************************************************************)
EXTENDS Session, FiniteSetTheorems, WellFoundedInduction, TLAPS

(* Sums *)

Some(T) == CHOOSE x \in T : TRUE

\* What a fold makes of f and of the sums of smaller sets.
SumStep(g, f, T) == IF T = {} THEN 0 ELSE f[Some(T)] + g[T \ {Some(T)}]
Sums(g, f, S) == g = [T \in SUBSET S |-> SumStep(g, f, T)]

LEMMA SumIsFold ==
    ASSUME NEW f
    PROVE  SumFunction(f) = (CHOOSE g : Sums(g, f, DOMAIN f))[DOMAIN f]
BY Zenon DEF SumFunction, SumFunctionOnSet, FoldFunctionOnSet, MapThenFoldSet, Sums,
             SumStep, Some

LEMMA SumOfNone ==
    ASSUME NEW S, NEW g, NEW f, \A T \in SUBSET S : g[T] = SumStep(g, f, T)
    PROVE  {} \in SUBSET S /\ g[{}] = 0
<1>1. {} \in SUBSET S
  OBVIOUS
<1>2. g[{}] = SumStep(g, f, {})
  BY <1>1
<1>3. SumStep(g, f, {}) = 0
  BY DEF SumStep
<1> QED BY <1>1, <1>2, <1>3

LEMMA SomeIsIn == ASSUME NEW T, T # {} PROVE Some(T) \in T
BY DEF Some

LEMMA Least ==
    ASSUME NEW P \in SUBSET Nat, P # {}
    PROVE  \E o \in P : \A p \in P : o <= p
<1>1. PICK o \in P : \A p \in P : ~ (<<p, o>> \in OpToRel(<, Nat))
  BY NatLessThanWellFounded, WFMin
<1>2. ASSUME NEW p \in P PROVE o <= p
  <2>1. <<p, o>> \notin OpToRel(<, Nat)
    BY <1>1
  <2>2. ~(p < o)
    BY <2>1 DEF OpToRel
  <2> QED BY <2>2
<1> QED BY <1>2

\* Taking an element away makes a finite set smaller by one.
LEMMA OneLess ==
    ASSUME NEW S, IsFiniteSet(S), NEW T \in SUBSET S, T # {}
    PROVE  /\ T \ {Some(T)} \in SUBSET S
           /\ Cardinality(T) \in Nat /\ Cardinality(T \ {Some(T)}) \in Nat
           /\ Cardinality(T \ {Some(T)}) = Cardinality(T) - 1
<1>1. IsFiniteSet(T)
  BY FS_Subset
<1>2. IsFiniteSet(T \ {Some(T)})
      /\ Cardinality(T \ {Some(T)}) = Cardinality(T) - 1
  BY <1>1, SomeIsIn, FS_RemoveElement
<1> QED BY <1>1, <1>2, FS_CardinalityType

\* What holds of the empty set, and of a set when it holds without one element,
\* holds of every subset.
LEMMA SubsetInduction ==
    ASSUME NEW S, IsFiniteSet(S), NEW P \in SUBSET (SUBSET S), {} \in P,
           \A T \in SUBSET S : T # {} /\ T \ {Some(T)} \in P => T \in P
    PROVE  P = SUBSET S
<1> DEFINE Bad == {T \in SUBSET S : T \notin P}
           Sizes == {n \in Nat : \E T \in Bad : Cardinality(T) = n}
<1> SUFFICES ASSUME NEW B \in Bad PROVE FALSE
  OBVIOUS
<1>1. Cardinality(B) \in Sizes
  BY FS_Subset, FS_CardinalityType
<1>2. PICK n \in Sizes : \A m \in Sizes : n <= m
  <2> HIDE DEF Bad
  <2> QED BY <1>1, Least
<1>3. PICK T \in Bad : Cardinality(T) = n
  OBVIOUS
<1>4. T # {} /\ T \in SUBSET S
  OBVIOUS
<1>5. T \ {Some(T)} \in Bad
  BY <1>4, OneLess
<1>6. Cardinality(T \ {Some(T)}) \in Sizes
  BY <1>4, <1>5, OneLess
<1>7. n <= n - 1 /\ n \in Nat
  BY <1>2, <1>3, <1>4, <1>6, OneLess
<1> QED BY <1>7

\* The sums of all sets exist: those of the small sets first, a size at a time.
LEMMA SumsExist ==
    ASSUME NEW S, IsFiniteSet(S), NEW f \in [S -> Int]
    PROVE  \E g \in [SUBSET S -> Int] : Sums(g, f, S)
<1> DEFINE Upto(n) == \E g \in [SUBSET S -> Int] :
               \A T \in SUBSET S : Cardinality(T) <= n => g[T] = SumStep(g, f, T)
           Missing == {n \in Nat : ~Upto(n)}
<1>1. Upto(0)
  <2> DEFINE g == [T \in SUBSET S |-> 0]
  <2>1. ASSUME NEW T \in SUBSET S, Cardinality(T) <= 0 PROVE T = {}
    BY <2>1, FS_Subset, FS_CardinalityType, FS_EmptySet
  <2>2. \A T \in SUBSET S : Cardinality(T) <= 0 => g[T] = SumStep(g, f, T)
    BY <2>1 DEF SumStep
  <2>3. g \in [SUBSET S -> Int]
    OBVIOUS
  <2> HIDE DEF g
  <2> QED BY <2>2, <2>3
<1>2. ASSUME NEW n \in Nat, Upto(n) PROVE Upto(n + 1)
  <2>1. PICK g \in [SUBSET S -> Int] :
               \A T \in SUBSET S : Cardinality(T) <= n => g[T] = SumStep(g, f, T)
    BY <1>2
  <2> DEFINE h == [T \in SUBSET S |-> SumStep(g, f, T)]
  <2>2. ASSUME NEW T \in SUBSET S PROVE SumStep(g, f, T) \in Int
    <3>1. CASE T = {}
      BY <3>1 DEF SumStep
    <3>2. CASE T # {}
      <4>1. f[Some(T)] \in Int /\ g[T \ {Some(T)}] \in Int
        BY <3>2, SomeIsIn
      <4> QED BY <3>2, <4>1 DEF SumStep
    <3> QED BY <3>1, <3>2
  <2>3. h \in [SUBSET S -> Int]
    BY <2>2
  <2>4. ASSUME NEW T \in SUBSET S, Cardinality(T) <= n + 1
        PROVE  h[T] = SumStep(h, f, T)
    <3>1. CASE T = {}
      BY <3>1 DEF SumStep
    <3>2. CASE T # {}
      <4> DEFINE U == T \ {Some(T)}
      <4>1. U \in SUBSET S /\ Cardinality(U) <= n
        BY <2>4, <3>2, OneLess
      <4>2. h[U] = g[U]
        BY <2>1, <4>1
      <4> QED BY <3>2, <4>2 DEF SumStep
    <3> QED BY <3>1, <3>2
  <2> HIDE DEF h
  <2> QED BY <2>3, <2>4
<1>3. Missing = {}
  <2> SUFFICES ASSUME Missing # {} PROVE FALSE
    OBVIOUS
  <2>1. PICK n \in Missing : \A m \in Missing : n <= m
    <3> HIDE DEF Upto
    <3> QED BY Least
  <2>2. n \in Nat /\ n # 0
    BY <1>1
  <2>3. n - 1 \in Nat /\ n - 1 \notin Missing
    <3> HIDE DEF Upto
    <3> QED BY <2>1, <2>2
  <2>4. Upto(n - 1)
    BY <2>3
  <2>5. Upto((n - 1) + 1)
    <3> HIDE DEF Upto
    <3> QED BY <1>2, <2>3, <2>4
  <2>6. (n - 1) + 1 = n
    BY <2>2
  <2> QED BY <2>5, <2>6
<1>4. Cardinality(S) \in Nat
  BY FS_CardinalityType
<1>5. PICK g \in [SUBSET S -> Int] :
        \A T \in SUBSET S : Cardinality(T) <= Cardinality(S) => g[T] = SumStep(g, f, T)
  BY <1>3, <1>4
<1>6. \A T \in SUBSET S : g[T] = SumStep(g, f, T)
  BY <1>5, FS_Subset
<1>7. g = [T \in SUBSET S |-> SumStep(g, f, T)]
  BY <1>6
<1> QED BY <1>7 DEF Sums

LEMMA SumIs ==
    ASSUME NEW S, IsFiniteSet(S), NEW f \in [S -> Int]
    PROVE  \E g \in [SUBSET S -> Int] : Sums(g, f, S) /\ SumFunction(f) = g[S]
<1> DEFINE g == CHOOSE g : Sums(g, f, S)
<1>1. Sums(g, f, S)
  BY SumsExist
<1>2. SumFunction(f) = g[S]
  BY SumIsFold
<1> HIDE DEF g
<1>3. DOMAIN g = SUBSET S /\ \A T \in SUBSET S : g[T] = SumStep(g, f, T)
  BY <1>1 DEF Sums
<1>9. {} \in SUBSET S /\ g[{}] = 0
  BY <1>3, SumOfNone
<1> DEFINE P == {T \in SUBSET S : g[T] \in Int}
<1>4. P = SUBSET S
  <2>1. {} \in P
    BY <1>9
  <2>2. ASSUME NEW T \in SUBSET S, T # {}, T \ {Some(T)} \in P PROVE T \in P
    <3>1. f[Some(T)] \in Int /\ g[T \ {Some(T)}] \in Int
      BY <2>2, SomeIsIn
    <3> QED BY <1>3, <2>2, <3>1 DEF SumStep
  <2>3. P \in SUBSET (SUBSET S)
    OBVIOUS
  <2> HIDE DEF P
  <2> QED BY <2>1, <2>2, <2>3, SubsetInduction
<1>5. g = [T \in SUBSET S |-> g[T]]
  BY <1>1 DEF Sums
<1>6. g \in [SUBSET S -> Int]
  BY <1>4, <1>5
<1> QED BY <1>1, <1>2, <1>6

\* A sum grows with what is summed.
LEMMA SumGrows ==
    ASSUME NEW S, IsFiniteSet(S), NEW f \in [S -> Int], NEW h \in [S -> Int],
           \A x \in S : f[x] <= h[x]
    PROVE  /\ SumFunction(f) \in Int /\ SumFunction(h) \in Int
           /\ SumFunction(f) <= SumFunction(h)
<1>1. PICK F \in [SUBSET S -> Int] : Sums(F, f, S) /\ SumFunction(f) = F[S]
  BY SumIs
<1>2. PICK H \in [SUBSET S -> Int] : Sums(H, h, S) /\ SumFunction(h) = H[S]
  BY SumIs
<1>3. \A T \in SUBSET S : F[T] = SumStep(F, f, T) /\ H[T] = SumStep(H, h, T)
  BY <1>1, <1>2 DEF Sums
<1>9. {} \in SUBSET S /\ F[{}] = 0 /\ H[{}] = 0
  <2>1. \A T \in SUBSET S : F[T] = SumStep(F, f, T)
    BY <1>3
  <2>2. \A T \in SUBSET S : H[T] = SumStep(H, h, T)
    BY <1>3
  <2>3. {} \in SUBSET S /\ F[{}] = 0
    BY <2>1, SumOfNone
  <2>4. H[{}] = 0
    BY <2>2, SumOfNone
  <2> QED BY <2>3, <2>4
<1> DEFINE P == {T \in SUBSET S : F[T] <= H[T]}
<1>4. {} \in P
  BY <1>9
<1>5. ASSUME NEW T \in SUBSET S, T # {}, T \ {Some(T)} \in P PROVE T \in P
  <2> DEFINE x == Some(T)
             U == T \ {x}
  <2>1. x \in S
    BY <1>5, SomeIsIn
  <2>2. F[T] = f[x] + F[U] /\ H[T] = h[x] + H[U]
    BY <1>3, <1>5 DEF SumStep
  <2>3. f[x] \in Int /\ h[x] \in Int /\ F[U] \in Int /\ H[U] \in Int /\ f[x] <= h[x]
    BY <1>1, <1>2, <2>1
  <2>4. F[U] <= H[U]
    BY <1>5
  <2> HIDE DEF x, U
  <2> QED BY <2>2, <2>3, <2>4
<1>6. P \in SUBSET (SUBSET S)
  OBVIOUS
<1>7. P = SUBSET S
  <2> HIDE DEF P
  <2> QED BY <1>4, <1>5, <1>6, SubsetInduction
<1> QED BY <1>1, <1>2, <1>7

\* No term of a sum of naturals exceeds it.
LEMMA SumCovers ==
    ASSUME NEW S, IsFiniteSet(S), NEW f \in [S -> Nat]
    PROVE  SumFunction(f) \in Nat /\ \A x \in S : f[x] <= SumFunction(f)
<1>1. PICK F \in [SUBSET S -> Int] : Sums(F, f, S) /\ SumFunction(f) = F[S]
  BY SumIs
<1>2. \A T \in SUBSET S : F[T] = SumStep(F, f, T)
  BY <1>1 DEF Sums
<1>9. {} \in SUBSET S /\ F[{}] = 0
  BY <1>2, SumOfNone
<1> DEFINE P == {T \in SUBSET S : F[T] >= 0 /\ \A x \in T : f[x] <= F[T]}
<1>3. {} \in P
  BY <1>9
<1>4. ASSUME NEW T \in SUBSET S, T # {}, T \ {Some(T)} \in P PROVE T \in P
  <2> DEFINE x == Some(T)
             U == T \ {x}
  <2>1. x \in S
    BY <1>4, SomeIsIn
  <2>2. F[T] = f[x] + F[U]
    BY <1>2, <1>4 DEF SumStep
  <2>3. f[x] \in Nat /\ F[U] \in Int /\ F[T] \in Int
    BY <1>1, <2>1
  <2>4. F[U] >= 0 /\ \A y \in U : f[y] <= F[U]
    BY <1>4
  <2>5. ASSUME NEW y \in T PROVE f[y] <= F[T]
    <3>1. f[y] \in Nat
      OBVIOUS
    <3>2. CASE y = x
      <4> HIDE DEF x, U
      <4> QED BY <2>2, <2>3, <2>4, <3>2
    <3>3. CASE y # x
      <4>1. f[y] <= F[U]
        BY <2>4, <3>3
      <4> HIDE DEF x, U
      <4> QED BY <2>2, <2>3, <3>1, <4>1
    <3> QED BY <3>2, <3>3
  <2>6. F[T] >= 0
    <3> HIDE DEF x, U
    <3> QED BY <2>2, <2>3, <2>4
  <2> QED BY <2>5, <2>6
<1>5. P \in SUBSET (SUBSET S)
  OBVIOUS
<1>6. P = SUBSET S
  <2> HIDE DEF P
  <2> QED BY <1>3, <1>4, <1>5, SubsetInduction
<1> QED BY <1>1, <1>6
-----------------------------------------------------------------------------
(* The figures of a detail *)

Figures == {<<>>} \union {<<n>> : n \in Int}

Answers ==
    [leader : {<<>>} \union [Partitions -> Brokers],
     start : [Partitions -> Nat], end : [Partitions -> Nat],
     dirs : {<<>>} \union UNION {[bs -> [Partitions -> Nat]] : bs \in SUBSET Brokers},
     counted : Figures, held : Figures]

\* No more was counted than what the answers, as they are now, make of it.
CountedRight(a) ==
    a.counted # <<>> /\ ~recreated =>
        /\ \A p \in Partitions : a.start[p] <= a.end[p]
        /\ a.counted[1] <= SumFunction([p \in Partitions |-> a.end[p] - a.start[p]])

\* What was held is what the leaders' log dirs add up to.
HeldRight(a) ==
    a.held # <<>> /\ ~moved =>
        a.held[1] = SumFunction([p \in Partitions |-> LeaderSize(a, p)])

Undercounts(d) ==
    d.counted # <<>> /\ ~(d.messages >= d.counted[1] /\ d.messages <= d.written)
Disagrees(d) ==
    ~(d.size <= d.allSize) \/ (d.held # <<>> /\ ~(d.size = d.held[1]))

LEMMA NoDirs == DOMAIN <<>> = {}
BY Z3

LEMMA LeaderSizeInAll ==
    ASSUME NEW a \in Answers, a.leader \in [Partitions -> Brokers], NEW p \in Partitions
    PROVE  /\ LeaderSize(a, p) \in Nat /\ AllSizes(a, p) \in Nat
           /\ LeaderSize(a, p) <= AllSizes(a, p)
<1> USE ClusterAssumption
<1> DEFINE S == DOMAIN a.dirs
           f == [b \in S |-> a.dirs[b][p]]
<1>1. S \subseteq Brokers /\ \A b \in S : a.dirs[b] \in [Partitions -> Nat]
  <2>1. CASE a.dirs = <<>>
    BY <2>1, NoDirs
  <2>2. CASE a.dirs \in UNION {[bs -> [Partitions -> Nat]] : bs \in SUBSET Brokers}
    BY <2>2
  <2> QED BY <2>1, <2>2 DEF Answers
<1>2. IsFiniteSet(S)
  BY <1>1, FS_Subset
<1>3. f \in [S -> Nat]
  BY <1>1
<1>4. AllSizes(a, p) = SumFunction(f)
  BY DEF AllSizes
<1>5. SumFunction(f) \in Nat /\ \A b \in S : f[b] <= SumFunction(f)
  <2> HIDE DEF f, S
  <2> QED BY <1>2, <1>3, SumCovers
<1>6. CASE a.leader[p] \in S
  <2>1. LeaderSize(a, p) = f[a.leader[p]]
    BY <1>6 DEF LeaderSize
  <2> QED BY <1>3, <1>4, <1>5, <1>6, <2>1
<1>7. CASE a.leader[p] \notin S
  <2>1. LeaderSize(a, p) = 0
    BY <1>7 DEF LeaderSize
  <2> QED BY <1>4, <1>5, <2>1
<1> QED BY <1>6, <1>7

\* What DescribeTopic makes of such answers has neither fault.
LEMMA DetailRight ==
    ASSUME NEW a \in Answers, a.leader \in [Partitions -> Brokers],
           CountedRight(a), HeldRight(a)
    PROVE  \A d \in ToSet(Detail(a)) : ~Undercounts(d) /\ ~Disagrees(d)
<1> USE ClusterAssumption
<1> DEFINE counts == [p \in Partitions |->
                        IF a.end[p] >= a.start[p] THEN a.end[p] - a.start[p] ELSE 0]
           ends == [p \in Partitions |-> a.end[p]]
           leads == [p \in Partitions |-> LeaderSize(a, p)]
           alls == [p \in Partitions |-> AllSizes(a, p)]
           d == Detail(a)[1]
<1>1. a.start \in [Partitions -> Nat] /\ a.end \in [Partitions -> Nat]
  BY DEF Answers
<1>2. counts \in [Partitions -> Int] /\ ends \in [Partitions -> Int]
      /\ \A p \in Partitions : counts[p] <= ends[p]
  BY <1>1
<1>3. leads \in [Partitions -> Int] /\ alls \in [Partitions -> Int]
      /\ \A p \in Partitions : leads[p] <= alls[p]
  BY LeaderSizeInAll
<1>4. SumFunction(counts) <= SumFunction(ends) /\ SumFunction(counts) \in Int
  <2> HIDE DEF counts, ends
  <2> QED BY <1>2, SumGrows
<1>5. SumFunction(leads) <= SumFunction(alls)
  <2> HIDE DEF leads, alls
  <2> QED BY <1>3, SumGrows
<1>6. /\ ToSet(Detail(a)) = {d}
      /\ d.messages = SumFunction(counts) /\ d.written = SumFunction(ends)
      /\ d.size = SumFunction(leads) /\ d.allSize = SumFunction(alls)
      /\ d.counted = (IF recreated THEN <<>> ELSE a.counted)
      /\ d.held = (IF moved THEN <<>> ELSE a.held)
  <2>1. PICK r : Detail(a) = <<r>> /\ r = d
    BY Zenon DEF Detail
  <2>2. ToSet(<<r>>) = {r}
    BY DEF ToSet
  <2> QED BY <2>1, <2>2 DEF Detail
<1>7. ~Undercounts(d)
  <2> SUFFICES ASSUME d.counted # <<>>
               PROVE  d.messages >= d.counted[1] /\ d.messages <= d.written
    BY DEF Undercounts
  <2>1. ~recreated /\ d.counted = a.counted
    BY <1>6
  <2>2. PICK n \in Int : a.counted = <<n>>
    BY <2>1 DEF Answers, Figures
  <2>3. /\ \A p \in Partitions : a.start[p] <= a.end[p]
        /\ a.counted[1] <= SumFunction([p \in Partitions |-> a.end[p] - a.start[p]])
    BY <2>1 DEF CountedRight
  <2>4. \A p \in Partitions : counts[p] = a.end[p] - a.start[p]
    BY <1>1, <2>3
  <2>5. counts = [p \in Partitions |-> a.end[p] - a.start[p]]
    BY <2>4
  <2>6. n <= SumFunction(counts)
    BY <2>2, <2>3, <2>5
  <2>7. d.counted[1] = n
    BY <2>1, <2>2
  <2> HIDE DEF d, counts, ends
  <2> QED BY <1>4, <1>6, <2>6, <2>7
<1>8. ~Disagrees(d)
  <2>1. d.size <= d.allSize
    <3> HIDE DEF d, leads, alls
    <3> QED BY <1>5, <1>6
  <2>2. ASSUME d.held # <<>> PROVE d.size = d.held[1]
    <3>1. ~moved /\ d.held = a.held
      BY <1>6, <2>2
    <3>2. a.held[1] = SumFunction(leads)
      BY <2>2, <3>1 DEF HeldRight
    <3> HIDE DEF d, leads
    <3> QED BY <1>6, <3>1, <3>2
  <2> HIDE DEF d
  <2> QED BY <2>1, <2>2 DEF Disagrees
<1> HIDE DEF d
<1> QED BY <1>6, <1>7, <1>8
-----------------------------------------------------------------------------
(* DescribeTopic and the cluster *)

AdminTypes ==
    /\ log \in [Partitions -> Logs] /\ leader \in [Partitions -> Brokers]
    /\ moves \in 0..MaxMoves
    /\ asking \in 0..5
    /\ answers \in Answers
    /\ asking > 1 => answers.leader \in [Partitions -> Brokers]

\* The requests are made in an order that errs on the high side: records that go
\* after the start offsets were listed are counted, and a leader that moves makes
\* the sizes another topic's.
AdminInv ==
    /\ AdminTypes
    /\ asking \in 1..3 /\ ~recreated =>
          \A p \in Partitions : answers.start[p] <= log[p].start
    /\ asking > 1 /\ ~moved => answers.leader = leader
    /\ asking <= 3 => answers.counted = <<>>
    /\ asking <= 4 => answers.held = <<>>
    /\ CountedRight(answers) /\ HeldRight(answers)
    /\ \A d \in ToSet(detail) : ~Undercounts(d) /\ ~Disagrees(d)

adminVars == <<cluster, describing>>

\* All that the App does to them.
AdminStep ==
    \/ UNCHANGED adminVars
    \/ BeginDescribe \/ DescribeAnswered \/ DescribeFails \/ ClusterNext
    \/ EndDescribe(NoDetail)

LEMMA LogEnds ==
    ASSUME NEW l \in Logs
    PROVE  /\ l.start \in Nat /\ l.end \in Nat /\ l.start <= l.end
           /\ l.end <= MaxOffset
BY OffsetsAssumption DEF Logs

LEMMA EmptyIsLog == Empty \in [Partitions -> Logs] /\ Unled \in [Partitions -> Brokers]
<1>1. 0 \in 0..MaxOffset
  BY OffsetsAssumption
<1>2. [start |-> 0, end |-> 0] \in Logs
  BY <1>1 DEF Logs
<1>3. (CHOOSE b \in Brokers : TRUE) \in Brokers
  BY ClusterAssumption
<1> QED BY <1>2, <1>3 DEF Empty, Unled

LEMMA NoAnswersTyped ==
    /\ NoAnswers \in Answers /\ NoAnswers.counted = <<>> /\ NoAnswers.held = <<>>
    /\ \A p \in Partitions : NoAnswers.start[p] = 0
<1>1. Zero \in [Partitions -> Nat]
  BY DEF Zero
<1> QED BY <1>1 DEF NoAnswers, Answers, Figures, Zero

LEMMA NothingIsRight ==
    ASSUME NEW a, a.counted = <<>>, a.held = <<>> PROVE CountedRight(a) /\ HeldRight(a)
BY DEF CountedRight, HeldRight

LEMMA AdminInitially == AdminInit => AdminInv
<1> SUFFICES ASSUME AdminInit PROVE AdminInv
  OBVIOUS
<1>1. ToSet(detail) = {}
  BY NoDirs DEF AdminInit, NoDetail, ToSet
<1>2. CountedRight(answers) /\ HeldRight(answers)
  BY NoAnswersTyped, NothingIsRight DEF AdminInit
<1>3. AdminTypes
  BY NoAnswersTyped, EmptyIsLog, OffsetsAssumption DEF AdminInit, AdminTypes
<1> QED BY <1>1, <1>2, <1>3, NoAnswersTyped DEF AdminInit, AdminInv

\* The call ends, with a detail that is right or with none.
LEMMA EndKeepsInv ==
    ASSUME NEW d, EndDescribe(d), \A x \in ToSet(d) : ~Undercounts(x) /\ ~Disagrees(x)
    PROVE  AdminInv'
<1>1. AdminTypes'
  BY NoAnswersTyped, EmptyIsLog, OffsetsAssumption DEF EndDescribe, Topic, AdminTypes
<1>2. (CountedRight(answers) /\ HeldRight(answers))'
  BY NoAnswersTyped DEF EndDescribe, CountedRight, HeldRight
<1>3. (\A x \in ToSet(detail) : ~Undercounts(x) /\ ~Disagrees(x))'
  BY DEF EndDescribe, ToSet, Undercounts, Disagrees
<1> QED BY <1>1, <1>2, <1>3, NoAnswersTyped DEF EndDescribe, AdminInv

LEMMA BeginKeepsInv == BeginDescribe => AdminInv'
<1> SUFFICES ASSUME BeginDescribe PROVE AdminInv'
  OBVIOUS
<1>1. PICK logs \in [Partitions -> Logs], leaders \in [Partitions -> Brokers] :
        Topic(logs, leaders)
  BY DEF BeginDescribe
<1>2. log' \in [Partitions -> Logs] /\ leader' \in [Partitions -> Brokers] /\ moves' = 0
  BY <1>1 DEF Topic
<1>3. asking' = 1 /\ answers' = NoAnswers /\ detail' = <<>>
  BY DEF BeginDescribe, NoDetail
<1>4. AdminTypes'
  BY <1>2, <1>3, NoAnswersTyped, OffsetsAssumption DEF AdminTypes
<1>5. (CountedRight(answers) /\ HeldRight(answers))'
  BY <1>3, NoAnswersTyped DEF CountedRight, HeldRight
<1>6. ASSUME NEW p \in Partitions PROVE answers'.start[p] <= log'[p].start
  <2>1. log'[p].start \in Nat
    BY <1>2, LogEnds
  <2> QED BY <1>3, <2>1, NoAnswersTyped
<1>7. ToSet(detail') = {}
  BY <1>3, NoDirs DEF ToSet
<1> QED BY <1>3, <1>4, <1>5, <1>6, <1>7, NoAnswersTyped DEF AdminInv
LEMMA TheRequests ==
    /\ Len(Requests) = 5
    /\ Requests[1] = "metadata" /\ Requests[2] = "start" /\ Requests[3] = "end"
    /\ Requests[4] = "logDirs" /\ Requests[5] = "configs"
BY DEF Requests

\* A request is answered, or given up: the answers so far are as they should be
\* before the next one.
LEMMA AnsweredKeepsInv ==
    ASSUME AdminInv, asking # 0, NEW a \in Answers, Answered(a),
           a.leader \in [Partitions -> Brokers], CountedRight(a), HeldRight(a),
           asking <= 2 /\ ~recreated => \A p \in Partitions : a.start[p] <= log[p].start,
           ~moved => a.leader = leader,
           asking <= 2 => a.counted = <<>>,
           asking <= 3 => a.held = <<>>
    PROVE  AdminInv'
<1>1. asking \in 1..5
  BY DEF AdminInv, AdminTypes
<1>2. CASE asking = 5
  <2>1. EndDescribe(Detail(a))
    BY <1>2, TheRequests DEF Answered
  <2> QED BY <2>1, DetailRight, EndKeepsInv
<1>3. CASE asking # 5
  <2>1. answers' = a /\ asking' = asking + 1 /\ UNCHANGED <<detail, cluster>>
    BY <1>3, TheRequests DEF Answered
  <2>2. UNCHANGED <<detail, log, leader, moves, recreated, moved>>
    BY <2>1 DEF cluster
  <2>3. AdminTypes'
    BY <1>1, <1>3, <2>1, <2>2 DEF AdminInv, AdminTypes
  <2>4. (CountedRight(answers) /\ HeldRight(answers))'
    BY <2>1, <2>2 DEF CountedRight, HeldRight, LeaderSize
  <2>5. (\A d \in ToSet(detail) : ~Undercounts(d) /\ ~Disagrees(d))'
    BY <2>2 DEF AdminInv, ToSet, Undercounts, Disagrees
  <2>6. asking' \in 1..3 /\ ~recreated' =>
           \A p \in Partitions : answers'.start[p] <= log'[p].start
    <3> SUFFICES ASSUME asking' \in 1..3, ~recreated', NEW p \in Partitions
                 PROVE  a.start[p] <= log[p].start
      BY <2>1, <2>2
    <3>1. asking <= 2
      BY <1>1, <2>1
    <3> QED BY <2>2, <3>1
  <2>7. (asking <= 3 => answers.counted = <<>>)' /\ (asking <= 4 => answers.held = <<>>)'
    BY <1>1, <2>1
  <2>8. (asking > 1 /\ ~moved => answers.leader = leader)'
    BY <1>1, <2>1, <2>2
  <2> QED BY <2>3, <2>4, <2>5, <2>6, <2>7, <2>8 DEF AdminInv
<1> QED BY <1>2, <1>3

LEMMA MetadataKeepsInv == AdminInv /\ MetadataAnswered => AdminInv'
<1> SUFFICES ASSUME AdminInv, MetadataAnswered PROVE AdminInv'
  OBVIOUS
<1> DEFINE a == [answers EXCEPT !.leader = leader]
<1>1. asking = 1 /\ Answered(a)
  BY TheRequests DEF MetadataAnswered, Asks, AdminInv, AdminTypes
<1>2. answers \in Answers /\ leader \in [Partitions -> Brokers]
  BY DEF AdminInv, AdminTypes
<1>3. a \in Answers /\ a.leader = leader
  BY <1>2 DEF Answers
<1>4. a.start = answers.start /\ a.counted = answers.counted /\ a.held = answers.held
  BY <1>2 DEF Answers
<1>5. a.counted = <<>> /\ a.held = <<>>
  BY <1>1, <1>4 DEF AdminInv
<1>6. ~recreated => \A p \in Partitions : a.start[p] <= log[p].start
  BY <1>1, <1>4 DEF AdminInv
<1>7. CountedRight(a) /\ HeldRight(a)
  BY <1>5, NothingIsRight
<1> HIDE DEF a
<1> QED BY <1>1, <1>2, <1>3, <1>5, <1>6, <1>7, AnsweredKeepsInv

LEMMA StartKeepsInv == AdminInv /\ StartAnswered => AdminInv'
<1> SUFFICES ASSUME AdminInv, StartAnswered PROVE AdminInv'
  OBVIOUS
<1> DEFINE starts == [p \in Partitions |-> log[p].start]
           a == [answers EXCEPT !.start = starts]
<1>1. asking = 2 /\ Answered(a)
  BY TheRequests DEF StartAnswered, Asks, AdminInv, AdminTypes
<1>2. answers \in Answers /\ answers.leader \in [Partitions -> Brokers]
  BY <1>1 DEF AdminInv, AdminTypes
<1>3. starts \in [Partitions -> Nat] /\ \A p \in Partitions : starts[p] <= log[p].start
  BY LogEnds DEF AdminInv, AdminTypes
<1>4. a \in Answers /\ a.start = starts
  <2> HIDE DEF starts
  <2> QED BY <1>2, <1>3 DEF Answers
<1>5. a.leader = answers.leader /\ a.counted = answers.counted /\ a.held = answers.held
  BY <1>2 DEF Answers
<1>6. a.counted = <<>> /\ a.held = <<>> /\ (~moved => a.leader = leader)
  BY <1>1, <1>5 DEF AdminInv
<1>7. CountedRight(a) /\ HeldRight(a)
  BY <1>6, NothingIsRight
<1> HIDE DEF a, starts
<1> QED BY <1>1, <1>2, <1>3, <1>4, <1>5, <1>6, <1>7, AnsweredKeepsInv

\* The records between the ends and the starts listed before, or zero, are no
\* fewer than those there are now.
LEMMA EndOffsetsKeepInv == AdminInv /\ EndAnswered => AdminInv'
<1> SUFFICES ASSUME AdminInv, EndAnswered PROVE AdminInv'
  OBVIOUS
<1> USE ClusterAssumption
<1> DEFINE ends == [p \in Partitions |-> log[p].end]
           there == [p \in Partitions |-> log[p].end - log[p].start]
           a == [answers EXCEPT !.end = ends, !.counted = <<Records>>]
           made == [p \in Partitions |-> a.end[p] - a.start[p]]
<1>1. asking = 3 /\ Answered(a)
  BY TheRequests DEF EndAnswered, Asks, AdminInv, AdminTypes
<1>2. answers \in Answers /\ answers.leader \in [Partitions -> Brokers]
  BY <1>1 DEF AdminInv, AdminTypes
<1>3. ends \in [Partitions -> Nat] /\ there \in [Partitions -> Int]
  BY LogEnds DEF AdminInv, AdminTypes
<1>4. Records = SumFunction(there) /\ Records \in Int
  <2>1. Records = SumFunction(there)
    BY DEF Records
  <2>2. SumFunction(there) \in Int
    <3> HIDE DEF there
    <3> QED BY <1>3, SumGrows
  <2> QED BY <2>1, <2>2
<1>5. <<Records>> \in Figures
  BY <1>4 DEF Figures
<1>6. a \in Answers /\ a.end = ends /\ a.counted = <<Records>>
  <2> HIDE DEF ends
  <2> QED BY <1>2, <1>3, <1>5 DEF Answers
<1>7. a.leader = answers.leader /\ a.start = answers.start /\ a.held = answers.held
  BY <1>2 DEF Answers
<1>8. a.held = <<>> /\ (~moved => a.leader = leader)
  BY <1>1, <1>7 DEF AdminInv
<1>9. CountedRight(a)
  <2> SUFFICES ASSUME ~recreated
               PROVE  /\ \A p \in Partitions : a.start[p] <= a.end[p]
                      /\ a.counted[1] <= SumFunction(made)
    BY DEF CountedRight
  <2>1. ASSUME NEW p \in Partitions
        PROVE  /\ a.start[p] \in Nat /\ a.end[p] \in Nat
               /\ a.start[p] <= a.end[p] /\ there[p] <= made[p]
    <3>1. a.end[p] = log[p].end /\ there[p] = log[p].end - log[p].start
          /\ made[p] = a.end[p] - a.start[p]
      BY <1>6
    <3>2. a.start[p] <= log[p].start
      BY <1>1, <1>7 DEF AdminInv
    <3>3. a.start[p] \in Nat
      BY <1>6 DEF Answers
    <3>4. log[p].start \in Nat /\ log[p].end \in Nat /\ log[p].start <= log[p].end
      BY LogEnds DEF AdminInv, AdminTypes
    <3> HIDE DEF a, there, made
    <3> QED BY <3>1, <3>2, <3>3, <3>4
  <2>2. made \in [Partitions -> Int]
    BY <2>1
  <2>3. \A p \in Partitions : there[p] <= made[p]
    <3> HIDE DEF there, made
    <3> QED BY <2>1
  <2>4. SumFunction(there) <= SumFunction(made)
    <3> HIDE DEF there, made
    <3> QED BY <1>3, <2>2, <2>3, SumGrows
  <2>5. a.counted[1] = SumFunction(there)
    BY <1>4, <1>6
  <2>6. \A p \in Partitions : a.start[p] <= a.end[p]
    <3> HIDE DEF a, there, made
    <3> QED BY <2>1
  <2> HIDE DEF a, there, made
  <2> QED BY <2>4, <2>5, <2>6
<1>10. HeldRight(a)
  BY <1>8 DEF HeldRight
<1> HIDE DEF a
<1> QED BY <1>1, <1>2, <1>6, <1>7, <1>8, <1>9, <1>10, AnsweredKeepsInv
\* The leaders' dirs, of all brokers, add up to what the logs hold.
LEMMA LogDirsKeepInv ==
    ASSUME AdminInv, NEW answering \in SUBSET Brokers, LogDirsAnswered(answering)
    PROVE  AdminInv'
<1> USE ClusterAssumption
<1>1. PICK behind \in SUBSET Partitions :
          Answered([answers EXCEPT
            !.held = IF answering = Brokers THEN <<Records>> ELSE <<>>,
            !.dirs = [b \in answering |->
                        [p \in Partitions |->
                           IF b # leader[p] /\ p \in behind THEN 0
                           ELSE log[p].end - log[p].start]]])
  BY DEF LogDirsAnswered
<1> DEFINE there == [p \in Partitions |-> log[p].end - log[p].start]
           dirs == [b \in answering |->
                      [p \in Partitions |->
                         IF b # leader[p] /\ p \in behind THEN 0
                         ELSE log[p].end - log[p].start]]
           held == IF answering = Brokers THEN <<Records>> ELSE <<>>
           a == [answers EXCEPT !.held = held, !.dirs = dirs]
<1>2. asking = 4 /\ Answered(a)
  BY <1>1, TheRequests DEF LogDirsAnswered, Asks, AdminInv, AdminTypes
<1>3. answers \in Answers /\ answers.leader \in [Partitions -> Brokers]
  BY <1>2 DEF AdminInv, AdminTypes
<1>4. \A p \in Partitions : log[p].end - log[p].start \in Nat
  BY LogEnds DEF AdminInv, AdminTypes
<1>5. Records = SumFunction(there) /\ Records \in Int
  <2>1. there \in [Partitions -> Int]
    BY <1>4
  <2>2. Records = SumFunction(there)
    BY DEF Records
  <2>3. SumFunction(there) \in Int
    <3> HIDE DEF there
    <3> QED BY <2>1, SumGrows
  <2> QED BY <2>2, <2>3
<1>6. held \in Figures
  BY <1>5 DEF Figures
<1>7. dirs \in [answering -> [Partitions -> Nat]]
  BY <1>4
<1>8. a \in Answers /\ a.held = held /\ a.dirs = dirs
  <2>1. dirs \in UNION {[bs -> [Partitions -> Nat]] : bs \in SUBSET Brokers}
    <3> HIDE DEF dirs
    <3> QED BY <1>7
  <2> HIDE DEF dirs, held
  <2> QED BY <1>3, <1>6, <2>1 DEF Answers
<1>9. a.leader = answers.leader /\ a.start = answers.start /\ a.end = answers.end
      /\ a.counted = answers.counted
  BY <1>3 DEF Answers
<1>10. ~moved => a.leader = leader
  BY <1>2, <1>9 DEF AdminInv
<1>11. CountedRight(a)
  <2>1. CountedRight(answers)
    BY DEF AdminInv
  <2> HIDE DEF a
  <2> QED BY <1>9, <2>1 DEF CountedRight
<1>12. HeldRight(a)
  <2> SUFFICES ASSUME a.held # <<>>, ~moved
               PROVE  a.held[1] = SumFunction([p \in Partitions |-> LeaderSize(a, p)])
    BY DEF HeldRight
  <2>1. answering = Brokers /\ a.held = <<Records>>
    BY <1>8
  <2>2. ASSUME NEW p \in Partitions PROVE LeaderSize(a, p) = there[p]
    <3>1. a.leader[p] = leader[p] /\ leader[p] \in answering
      BY <1>10, <2>1 DEF AdminInv, AdminTypes
    <3>2. DOMAIN a.dirs = answering /\ a.dirs[leader[p]][p] = there[p]
      BY <1>8, <3>1
    <3> HIDE DEF a, there
    <3> QED BY <3>1, <3>2 DEF LeaderSize
  <2>3. [p \in Partitions |-> LeaderSize(a, p)] = [p \in Partitions |-> there[p]]
    <3> HIDE DEF a, there
    <3> QED BY <2>2
  <2>4. [p \in Partitions |-> there[p]] = there
    OBVIOUS
  <2> HIDE DEF a, there
  <2> QED BY <1>5, <2>1, <2>3, <2>4
<1> HIDE DEF a
<1> QED BY <1>2, <1>3, <1>8, <1>9, <1>10, <1>11, <1>12, AnsweredKeepsInv

\* The answers stay as they are: the configs say nothing of the figures, and a
\* request that fails leaves its answer empty.
LEMMA SameAnswersKeepInv ==
    ASSUME AdminInv, asking > 1, Answered(answers) PROVE AdminInv'
<1>1. asking \in 2..5 /\ answers \in Answers /\ answers.leader \in [Partitions -> Brokers]
  BY DEF AdminInv, AdminTypes
<1>2. CountedRight(answers) /\ HeldRight(answers) /\ (~moved => answers.leader = leader)
  BY DEF AdminInv
<1>3. asking <= 2 /\ ~recreated => \A p \in Partitions : answers.start[p] <= log[p].start
  BY <1>1 DEF AdminInv
<1>4. (asking <= 2 => answers.counted = <<>>) /\ (asking <= 3 => answers.held = <<>>)
  BY <1>1 DEF AdminInv
<1> QED BY <1>1, <1>2, <1>3, <1>4, AnsweredKeepsInv

LEMMA AnswersKeepInv == AdminInv /\ DescribeAnswered => AdminInv'
<1> SUFFICES ASSUME AdminInv, DescribeAnswered PROVE AdminInv'
  OBVIOUS
<1>1. CASE MetadataAnswered
  BY <1>1, MetadataKeepsInv
<1>2. CASE StartAnswered
  BY <1>2, StartKeepsInv
<1>3. CASE EndAnswered
  BY <1>3, EndOffsetsKeepInv
<1>4. CASE ConfigsAnswered
  <2>1. asking > 1 /\ Answered(answers)
    BY <1>4, TheRequests DEF ConfigsAnswered, Asks, AdminInv, AdminTypes
  <2> QED BY <2>1, SameAnswersKeepInv
<1>5. CASE \E answering \in SUBSET Brokers : LogDirsAnswered(answering)
  BY <1>5, LogDirsKeepInv
<1> QED BY <1>1, <1>2, <1>3, <1>4, <1>5 DEF DescribeAnswered

LEMMA NoDetailRight == \A x \in ToSet(NoDetail) : ~Undercounts(x) /\ ~Disagrees(x)
BY NoDirs DEF NoDetail, ToSet

LEMMA FailuresKeepInv == AdminInv /\ DescribeFails => AdminInv'
<1> SUFFICES ASSUME AdminInv, DescribeFails PROVE AdminInv'
  OBVIOUS
<1>1. CASE MetadataFails
  BY <1>1, NoDetailRight, EndKeepsInv DEF MetadataFails
<1>2. CASE RequestFails
  <2>1. asking > 1 /\ Answered(answers)
    BY <1>2, TheRequests DEF RequestFails, Asks, AdminInv, AdminTypes
  <2> QED BY <2>1, SameAnswersKeepInv
<1> QED BY <1>1, <1>2 DEF DescribeFails

\* The cluster moves while the answers stay: starts only grow, unless the topic is
\* made anew, and a leader that moves is noted.
LEMMA ClusterKeepsInv == AdminInv /\ ClusterNext => AdminInv'
<1> SUFFICES ASSUME AdminInv, ClusterNext PROVE AdminInv'
  OBVIOUS
<1> USE OffsetsAssumption
<1>1. UNCHANGED describing
  BY DEF ClusterNext, Append1, Delete1, MoveLeader, Recreate
<1>2. UNCHANGED <<asking, answers, detail>>
  BY <1>1 DEF describing
<1>3. log \in [Partitions -> Logs] /\ leader \in [Partitions -> Brokers]
      /\ moves \in 0..MaxMoves
  BY DEF AdminInv, AdminTypes
<1>4. /\ log' \in [Partitions -> Logs] /\ leader' \in [Partitions -> Brokers]
      /\ moves' \in 0..MaxMoves
      /\ (recreated => recreated') /\ (moved => moved')
      /\ ~moved' => leader' = leader
      /\ ~recreated' => \A p \in Partitions : log[p].start <= log'[p].start
  <2>1. ASSUME NEW q \in Partitions, Append1(q) \/ Delete1(q) PROVE <1>4
    <3>1. /\ log[q].start \in Nat /\ log[q].end \in Nat
          /\ log[q].start <= log[q].end /\ log[q].end <= MaxOffset
          /\ log[q] = [start |-> log[q].start, end |-> log[q].end]
      BY <1>3, LogEnds DEF Logs
    <3>2. PICK l \in Logs : log' = [log EXCEPT ![q] = l] /\ log[q].start <= l.start
      <4>1. CASE Append1(q)
        <5> DEFINE l == [log[q] EXCEPT !.end = @ + 1]
        <5>1. l = [start |-> log[q].start, end |-> log[q].end + 1]
          BY <3>1
        <5>2. log[q].end + 1 \in 0..MaxOffset
          BY <4>1, <3>1 DEF Append1
        <5>3. l \in Logs /\ l.start = log[q].start
          <6> HIDE DEF l
          <6> QED BY <5>1, <5>2, <3>1 DEF Logs
        <5>4. log' = [log EXCEPT ![q] = l]
          BY <4>1 DEF Append1
        <5> HIDE DEF l
        <5>5. log[q].start <= l.start
          BY <5>3, <3>1
        <5> QED BY <5>3, <5>4, <5>5
      <4>2. CASE Delete1(q)
        <5> DEFINE l == [log[q] EXCEPT !.start = @ + 1]
        <5>1. l = [start |-> log[q].start + 1, end |-> log[q].end]
          BY <3>1
        <5>2. log[q].start + 1 <= log[q].end
          BY <4>2, <3>1 DEF Delete1
        <5>3. l \in Logs /\ l.start = log[q].start + 1
          <6> HIDE DEF l
          <6> QED BY <5>1, <5>2, <3>1 DEF Logs
        <5>4. log' = [log EXCEPT ![q] = l]
          BY <4>2 DEF Delete1
        <5> HIDE DEF l
        <5>5. log[q].start <= l.start
          BY <5>3, <3>1
        <5> QED BY <5>3, <5>4, <5>5
      <4> QED BY <2>1, <4>1, <4>2
    <3>3. UNCHANGED <<leader, moves, recreated, moved>>
      BY <2>1 DEF Append1, Delete1
    <3>4. log' \in [Partitions -> Logs]
      BY <1>3, <3>2
    <3>5. ASSUME NEW p \in Partitions PROVE log[p].start <= log'[p].start
      <4>1. log[p].start \in Nat
        BY <1>3, LogEnds
      <4>2. CASE p = q
        BY <1>3, <3>2, <4>2
      <4>3. CASE p # q
        <5>1. log'[p] = log[p]
          BY <1>3, <3>2, <4>3
        <5> QED BY <4>1, <5>1
      <4> QED BY <4>2, <4>3
    <3> QED BY <1>3, <3>3, <3>4, <3>5
  <2>2. ASSUME NEW q \in Partitions, NEW b \in Brokers, MoveLeader(q, b) PROVE <1>4
    <3>1. moves' \in 0..MaxMoves
      BY <1>3, <2>2 DEF MoveLeader, Move
    <3>2. leader' \in [Partitions -> Brokers] /\ moved' /\ UNCHANGED <<log, recreated>>
      BY <1>3, <2>2 DEF MoveLeader
    <3>3. \A p \in Partitions : log[p].start <= log[p].start
      BY <1>3, LogEnds
    <3> QED BY <1>3, <3>1, <3>2, <3>3
  <2>3. ASSUME Recreate PROVE <1>4
    <3>1. moves' \in 0..MaxMoves
      BY <1>3, <2>3 DEF Recreate, Move
    <3>2. log' = Empty /\ recreated' /\ UNCHANGED <<leader, moved>>
      BY <2>3 DEF Recreate
    <3> QED BY <1>3, <3>1, <3>2, EmptyIsLog
  <2> QED BY <2>1, <2>2, <2>3 DEF ClusterNext
<1>5. AdminTypes'
  BY <1>2, <1>4 DEF AdminInv, AdminTypes
<1>6. (CountedRight(answers) /\ HeldRight(answers))'
  BY <1>2, <1>4 DEF AdminInv, CountedRight, HeldRight, LeaderSize
<1>7. (\A d \in ToSet(detail) : ~Undercounts(d) /\ ~Disagrees(d))'
  BY <1>2 DEF AdminInv, ToSet, Undercounts, Disagrees
<1>8. asking' \in 1..3 /\ ~recreated' =>
         \A p \in Partitions : answers'.start[p] <= log'[p].start
  <2> SUFFICES ASSUME asking \in 1..3, ~recreated', NEW p \in Partitions
               PROVE  answers.start[p] <= log'[p].start
    BY <1>2
  <2>1. answers.start[p] <= log[p].start
    BY <1>4 DEF AdminInv
  <2>2. log[p].start <= log'[p].start
    BY <1>4
  <2>3. answers.start[p] \in Nat
    BY DEF AdminInv, AdminTypes, Answers
  <2>4. log[p].start \in Nat /\ log'[p].start \in Nat
    BY <1>3, <1>4, LogEnds
  <2> QED BY <2>1, <2>2, <2>3, <2>4
<1>9. (asking > 1 /\ ~moved => answers.leader = leader)'
  BY <1>2, <1>4 DEF AdminInv
<1>10. (asking <= 3 => answers.counted = <<>>)' /\ (asking <= 4 => answers.held = <<>>)'
  BY <1>2 DEF AdminInv
<1> QED BY <1>5, <1>6, <1>7, <1>8, <1>9, <1>10 DEF AdminInv

LEMMA AdminStepsKeepInv == AdminInv /\ AdminStep => AdminInv'
<1> SUFFICES ASSUME AdminInv, AdminStep PROVE AdminInv'
  OBVIOUS
<1>1. CASE UNCHANGED adminVars
  BY <1>1 DEF adminVars, cluster, describing, AdminInv, AdminTypes, CountedRight,
              HeldRight, LeaderSize, ToSet, Undercounts, Disagrees
<1>2. CASE EndDescribe(NoDetail)
  BY <1>2, NoDetailRight, EndKeepsInv
<1> QED BY <1>1, <1>2, BeginKeepsInv, AnswersKeepInv, FailuresKeepInv, ClusterKeepsInv
        DEF AdminStep
-----------------------------------------------------------------------------
(* The App *)

\* A client is one or none, is open only while the App runs, and a DescribeTopic
\* is under way only then.
AppTypes ==
    /\ state \in {"starting", "running", "ended"}
    /\ open \in BOOLEAN /\ connected \in BOOLEAN /\ mine \in BOOLEAN
    /\ admin = <<>> \/ \E x : admin = <<x>>
    /\ registry = <<>> \/ \E x : registry = <<x>>
    /\ switches \in 0..MaxSwitches
    /\ switching \in Seq(ToSet(profiles)) /\ Len(switching) <= switches
    /\ open => admin # <<>> /\ state = "running"
    /\ mine => asking # 0
    /\ state # "running" => asking = 0
    /\ state = "starting" => switching = <<>>

SessionInv == AppTypes /\ ClientsAreShown /\ AdminInv

LEMMA OneOrNone ==
    ASSUME NEW p
    PROVE  /\ AdminOf(p) = <<>> \/ \E x : AdminOf(p) = <<x>>
           /\ RegistryOf(p) = <<>> \/ \E x : RegistryOf(p) = <<x>>
           /\ AdminOf(p) # <<>> <=> p.brokers # <<>>
<1>1. AdminOf(p) = <<>> \/ \E x : AdminOf(p) = <<x>>
  BY Zenon DEF AdminOf
<1>2. RegistryOf(p) = <<>> \/ \E x : RegistryOf(p) = <<x>>
  BY Zenon DEF RegistryOf
<1>3. \A x : <<x>> # <<>>
  OBVIOUS
<1>4. AdminOf(p) # <<>> <=> p.brokers # <<>>
  BY Zenon, <1>3 DEF AdminOf
<1> QED BY <1>1, <1>2, <1>4

\* A profile whose values stem from one place; only the registry's may be flags.
ProfilesOf(names, tls, from) ==
    LET places == {"", from}
        any == {"", from, "flags"}
    IN  [name : names, brokers : Seq({from}), saslUser : places, saslPass : places,
         tls : tls, srAddresses : Seq(any), srUser : any, srPass : any]

Owned(p) == \E names, tls, from : p \in ProfilesOf(names, tls, from)

LEMMA EmptyIsOf ==
    ASSUME NEW n, NEW t, NEW from
    PROVE  EmptyProfile \in ProfilesOf({"", n}, {FALSE, t}, from)
BY DEF EmptyProfile, ProfilesOf

LEMMA SeqOfMore ==
    ASSUME NEW S, NEW T, S \subseteq T, NEW s \in Seq(S) PROVE s \in Seq(T)
<1>1. \A i \in 1..Len(s) : s[i] \in T
  OBVIOUS
<1> QED BY <1>1

LEMMA ViewIsOwned ==
    ASSUME NEW raw, raw \in RawProfiles(raw.name) PROVE Owned(ToProfile(raw))
<1> DEFINE n == raw.name
           places == {"", n}
           sasl == IF raw.sasl = <<>> THEN [user |-> "", pass |-> ""] ELSE raw.sasl[1]
           basic == IF raw.basicAuth = <<>> THEN [user |-> "", pass |-> ""]
                                            ELSE raw.basicAuth[1]
<1>1. /\ raw.brokers \in Seq({n}) /\ raw.srAddresses \in Seq({n})
      /\ raw.sasl \in Logins(places) /\ raw.basicAuth \in Logins(places)
      /\ raw.srUser \in places /\ raw.srPass \in places
  BY DEF RawProfiles
<1>2. \A l \in Logins(places) : l # <<>> => l[1] \in [user : places, pass : places]
  <2> SUFFICES ASSUME NEW l \in Logins(places), l # <<>>
               PROVE  l[1] \in [user : places, pass : places]
    OBVIOUS
  <2>1. PICK login \in [user : places, pass : places] : l = <<login>>
    <3> HIDE DEF places
    <3> QED BY DEF Logins
  <2> HIDE DEF places
  <2> QED BY <2>1
<1>3. sasl \in [user : places, pass : places]
  BY <1>1, <1>2
<1>4. basic \in [user : places, pass : places]
  BY <1>1, <1>2
<1>6. OrElse(basic.user, raw.srUser) \in places /\ OrElse(basic.pass, raw.srPass) \in places
  BY <1>1, <1>4 DEF OrElse
<1>7. ToProfile(raw) =
        [name |-> n, brokers |-> raw.brokers, saslUser |-> sasl.user,
         saslPass |-> sasl.pass, tls |-> raw.tls \in {"empty", "on"},
         srAddresses |-> raw.srAddresses, srUser |-> OrElse(basic.user, raw.srUser),
         srPass |-> OrElse(basic.pass, raw.srPass)]
  BY DEF ToProfile
<1>8. raw.srAddresses \in Seq({"", n, "flags"})
  <2>1. {n} \subseteq {"", n, "flags"}
    OBVIOUS
  <2> HIDE DEF n
  <2> QED BY <1>1, <2>1, SeqOfMore
<1>9. sasl.user \in places /\ sasl.pass \in places
  BY <1>3
<1> DEFINE t == raw.tls \in {"empty", "on"}
<1>10. ToProfile(raw) \in ProfilesOf({n}, {t}, n)
  <2> DEFINE x == OrElse(basic.user, raw.srUser)
             y == OrElse(basic.pass, raw.srPass)
             u == sasl.user
             w == sasl.pass
             b == raw.brokers
             a == raw.srAddresses
  <2>1. x \in {"", n, "flags"} /\ y \in {"", n, "flags"}
    BY <1>6
  <2>2. u \in {"", n} /\ w \in {"", n} /\ b \in Seq({n}) /\ a \in Seq({"", n, "flags"})
    BY <1>1, <1>8, <1>9
  <2>3. ToProfile(raw) = [name |-> n, brokers |-> b, saslUser |-> u, saslPass |-> w,
                          tls |-> t, srAddresses |-> a, srUser |-> x, srPass |-> y]
    BY Zenon, <1>7
  <2> HIDE DEF t, x, y, u, w, b, a, n
  <2>4. [name |-> n, brokers |-> b, saslUser |-> u, saslPass |-> w, tls |-> t,
         srAddresses |-> a, srUser |-> x, srPass |-> y] \in ProfilesOf({n}, {t}, n)
    BY <2>1, <2>2 DEF ProfilesOf
  <2> QED BY Zenon, <2>3, <2>4
<1> QED BY <1>10 DEF Owned

LEMMA FileIsOwned ==
    ASSUME NEW disk \in Disks
    PROVE  \A i \in DOMAIN LoadFrom(disk).profiles : Owned(LoadFrom(disk).profiles[i])
<1>1. \A i \in DOMAIN disk.profiles :
        disk.profiles[i] \in RawProfiles(disk.profiles[i].name)
  BY PlacesAssumption
<1>2. LoadFrom(disk).profiles =
        [i \in DOMAIN disk.profiles |-> ToProfile(disk.profiles[i])]
  BY DEF LoadFrom
<1> QED BY <1>1, <1>2, ViewIsOwned

\* What Find finds is a profile of the file.
LEMMA FoundIsOwned ==
    ASSUME NEW disk \in Disks, NEW name,
           Find(LoadFrom(disk), name) # <<>>
    PROVE  \E p : Find(LoadFrom(disk), name) = <<p>> /\ Owned(p)
<1> DEFINE ps == LoadFrom(disk).profiles
           I == {i \in 1..Len(ps) : ps[i].name = name}
<1>1. /\ Len(disk.profiles) \in Nat
      /\ DOMAIN disk.profiles = 1..Len(disk.profiles)
  BY PlacesAssumption
<1>2. ps = [i \in DOMAIN disk.profiles |-> ToProfile(disk.profiles[i])]
  BY DEF LoadFrom
<1>3. \A i \in DOMAIN disk.profiles : Owned(ps[i])
  BY <1>2, FileIsOwned
<1>4. DOMAIN ps = 1..Len(disk.profiles) /\ Len(ps) = Len(disk.profiles)
  <2>1. ps \in Seq({ToProfile(disk.profiles[i]) : i \in DOMAIN disk.profiles})
    <3> DEFINE F == ToProfile(disk.profiles[1])
    <3> QED BY <1>1, <1>2
  <2>2. DOMAIN ps = 1..Len(disk.profiles)
    BY <1>1, <1>2
  <2> HIDE DEF ps
  <2> QED BY <1>1, <2>1, <2>2
<1>5. Find(LoadFrom(disk), name) =
        LET i == IF I # {} THEN Min(I) ELSE 0
        IN  IF i = 0 THEN <<>> ELSE <<ps[i]>>
  BY Zenon DEF Find, SelectInSeq
<1>6. CASE I = {}
  BY <1>5, <1>6
<1>7. CASE I # {}
  <2>1. I \in SUBSET Nat
    BY <1>1, <1>4
  <2>2. \E o \in I : \A p \in I : o <= p
    <3> HIDE DEF I
    <3> QED BY <1>7, <2>1, Least
  <2>3. Min(I) \in I
    <3> HIDE DEF I
    <3> QED BY <2>2 DEF Min
  <2>4. Min(I) \in 1..Len(ps)
    BY <2>3
  <2>5. Min(I) # 0 /\ Owned(ps[Min(I)])
    <3> DEFINE m == Min(I)
    <3>1. m \in DOMAIN disk.profiles /\ m # 0
      <4> HIDE DEF m, I, ps
      <4> QED BY <1>1, <1>4, <2>4 DEF m
    <3> HIDE DEF m, I, ps
    <3>2. Owned(ps[m])
      BY Zenon, <1>3, <3>1
    <3> QED BY <3>1, <3>2 DEF m
  <2>6. Find(LoadFrom(disk), name) = <<ps[Min(I)]>>
    BY <1>5, <1>7, <2>5
  <2> QED BY <2>5, <2>6
<1> QED BY <1>6, <1>7

LEMMA BaseIsOwned ==
    ASSUME NEW cli \in CLIs, NEW disk \in Disks PROVE Owned(Base(cli, LoadFrom(disk)))
<1> DEFINE file == LoadFrom(disk)
           found == IF file.state = "ok" THEN Selected(cli, file) ELSE <<>>
<1>1. found # <<>> => \E p : found = <<p>> /\ Owned(p)
  <2> SUFFICES ASSUME found # <<>> PROVE \E p : found = <<p>> /\ Owned(p)
    OBVIOUS
  <2>1. found = Selected(cli, file)
    OBVIOUS
  <2>2. \E n : found = Find(file, n)
    <3>1. found = Find(file, cli.profileName) \/ found = Current(file)
      BY <2>1 DEF Selected
    <3>2. Current(file) = <<>> \/ Current(file) = Find(file, file.current)
      BY DEF Current
    <3> HIDE DEF found, file
    <3> QED BY <3>1, <3>2
  <2> QED BY <2>2, FoundIsOwned
<1>2. CASE cli.brokers # <<>>
  <2> DEFINE n == OrElse(cli.profileName, "cli")
             names == {"", n}
             b == cli.brokers
             t == cli.tls
             tls == {FALSE, t}
             u == cli.saslUser
             w == cli.saslPass
  <2>1. Base(cli, file) = [EmptyProfile EXCEPT !.name = n, !.brokers = b, !.tls = t,
                                               !.saslUser = u, !.saslPass = w]
    BY <1>2 DEF Base
  <2>2. /\ b \in Seq({"flags"}) /\ t \in tls
        /\ u \in {"", "flags"} /\ w \in {"", "flags"}
    BY PlacesAssumption DEF CommandLines
  <2>3. EmptyProfile \in ProfilesOf(names, tls, "flags") /\ n \in names
    BY EmptyIsOf
  <2> HIDE DEF n, names, b, tls, t, u, w
  <2>4. Base(cli, file) \in ProfilesOf(names, tls, "flags")
    BY <2>1, <2>2, <2>3 DEF ProfilesOf
  <2> QED BY Zenon, <2>4 DEF Owned
<1>3. CASE cli.brokers = <<>>
  <2>1. Base(cli, file) = IF found = <<>> THEN EmptyProfile ELSE found[1]
    BY Zenon, <1>3 DEF Base
  <2>2. Owned(EmptyProfile)
    BY EmptyIsOf DEF Owned
  <2>3. CASE found = <<>>
    BY <2>1, <2>2, <2>3
  <2>4. CASE found # <<>>
    <3>1. PICK p : found = <<p>> /\ Owned(p)
      BY <1>1, <2>4
    <3>2. Base(cli, file) = found[1]
      BY <2>1, <2>4
    <3>3. found[1] = p
      BY <3>1
    <3> QED BY <3>1, <3>2, <3>3
  <2> QED BY <2>3, <2>4
<1> QED BY <1>2, <1>3

LEMMA ResolvedIsOwned ==
    ASSUME NEW cli \in CLIs, NEW disk \in Disks,
           ResolveProfile(cli, LoadFrom(disk)) # <<>>
    PROVE  \E p : /\ ResolveProfile(cli, LoadFrom(disk)) = <<p>>
                  /\ Owned(p) /\ p.brokers # <<>>
<1> DEFINE base == Base(cli, LoadFrom(disk))
           a == IF cli.srURL = "" THEN base.srAddresses ELSE <<cli.srURL>>
           x == OrElse(cli.srUser, base.srUser)
           y == OrElse(cli.srPass, base.srPass)
           p == [base EXCEPT !.srAddresses = a, !.srUser = x, !.srPass = y]
<1>1. PICK names, tls, from : base \in ProfilesOf(names, tls, from)
  BY BaseIsOwned DEF Owned
<1>2. /\ cli.srURL \in {"", "flags"} /\ cli.srUser \in {"", "flags"}
      /\ cli.srPass \in {"", "flags"}
  BY PlacesAssumption DEF CommandLines
<1>3. /\ base.srAddresses \in Seq({"", from, "flags"})
      /\ base.srUser \in {"", from, "flags"} /\ base.srPass \in {"", from, "flags"}
  BY <1>1 DEF ProfilesOf
<1>4. a \in Seq({"", from, "flags"}) /\ x \in {"", from, "flags"}
      /\ y \in {"", from, "flags"}
  <2> DEFINE any == {"", from, "flags"}
  <2>1. <<"flags">> \in Seq(any)
    <3>1. "flags" \in any
      OBVIOUS
    <3> HIDE DEF any
    <3> QED BY <3>1
  <2>2. a \in Seq(any)
    <3> HIDE DEF base, any
    <3>1. CASE cli.srURL = ""
      BY <1>3, <3>1 DEF any
    <3>2. CASE cli.srURL # ""
      <4>1. a = <<"flags">>
        BY <1>2, <3>2
      <4> QED BY <2>1, <4>1
    <3> QED BY <3>1, <3>2
  <2>3. x \in any
    <3> HIDE DEF base
    <3> QED BY <1>2, <1>3 DEF OrElse
  <2>4. y \in any
    <3> HIDE DEF base
    <3> QED BY <1>2, <1>3 DEF OrElse
  <2> QED BY <2>2, <2>3, <2>4
<1>5. base.brokers # <<>> /\ ResolveProfile(cli, LoadFrom(disk)) = <<p>>
  <2>1. ResolveProfile(cli, LoadFrom(disk)) = IF LoadFrom(disk).state = "bad"
            \/ base.brokers = <<>> THEN <<>> ELSE <<p>>
    BY DEF ResolveProfile
  <2> HIDE DEF base, p
  <2> QED BY <2>1
<1>6. p \in ProfilesOf(names, tls, from) /\ p.brokers = base.brokers
  <2> HIDE DEF base, a, x, y
  <2> QED BY <1>1, <1>4 DEF ProfilesOf
<1> HIDE DEF p, base
<1>7. Owned(p)
  BY <1>6 DEF Owned
<1> QED BY <1>5, <1>6, <1>7

-----------------------------------------------------------------------------
(* Steps *)

\* The clients of a running session are those of an owned profile.
OwnInv ==
    /\ \A i \in DOMAIN profiles : Owned(profiles[i])
    /\ state = "running" => Owned(prof)

Inv == SessionInv /\ OwnInv

LEMMA Initially == Init => Inv
<1> SUFFICES ASSUME Init PROVE Inv
  OBVIOUS
<1>1. AppTypes
  <2>1. \A S : <<>> \in Seq(S) /\ Len(<<>>) = 0
    OBVIOUS
  <2>2. /\ switching \in Seq(ToSet(profiles)) /\ Len(switching) <= switches
        /\ switches \in 0..MaxSwitches
    BY SwitchesAssumption, <2>1 DEF Init
  <2>3. open = FALSE /\ connected = FALSE /\ mine = FALSE /\ state = "starting"
        /\ admin = <<>> /\ registry = <<>> /\ switching = <<>> /\ asking = 0
    BY DEF Init, AdminInit
  <2> QED BY <2>2, <2>3 DEF AppTypes
<1>2. ClientsAreShown /\ OwnInv
  BY NoDirs DEF Init, ClientsAreShown, OwnInv
<1> QED BY <1>1, <1>2, AdminInitially DEF Init, Inv, SessionInv

\* What an action of the App does to DescribeTopic and the cluster.
LEMMA StepsAreAdminSteps == [Next]_vars => AdminStep
<1> SUFFICES ASSUME [Next]_vars PROVE AdminStep
  OBVIOUS
<1>1. ASSUME NEW cli \in CLIs, NEW disk \in Disks, Start(cli, LoadFrom(disk))
      PROVE  AdminStep
  BY <1>1 DEF Start, AdminStep, adminVars
<1>2. ASSUME NEW i \in DOMAIN profiles, Enter(i) PROVE AdminStep
  BY <1>2 DEF Enter, AdminStep, adminVars
<1>3. CASE ProfileSwitched
  BY <1>3 DEF ProfileSwitched, AdminStep, adminVars
<1>4. CASE LoadDetail
  BY <1>4 DEF LoadDetail, AdminStep
<1>5. CASE Describe
  BY <1>5 DEF Describe, AdminStep
<1>6. CASE ClusterMoves
  BY <1>6 DEF ClusterMoves, AdminStep
<1>7. CASE Quit
  BY <1>7 DEF Quit, AdminStep
<1>8. CASE UNCHANGED vars
  BY <1>8 DEF vars, AdminStep, adminVars
<1>9. CASE ErrorMsg
  BY <1>9 DEF ErrorMsg, AdminStep, adminVars
<1> QED BY <1>1, <1>2, <1>3, <1>4, <1>5, <1>6, <1>7, <1>8, <1>9 DEF Next

\* A step that leaves the App as it is.
LEMMA SameApp ==
    ASSUME Inv, UNCHANGED <<profiles, state, app, switching, switches>>,
           mine' \in BOOLEAN, mine' => asking' # 0, state # "running" => asking' = 0
    PROVE  (AppTypes /\ ClientsAreShown /\ OwnInv)'
<1>1. UNCHANGED <<profiles, state, prof, admin, open, registry, connected, switching,
                  switches>>
  BY DEF app
<1>2. AppTypes'
  BY <1>1 DEF Inv, SessionInv, AppTypes, ToSet
<1>3. (ClientsAreShown /\ OwnInv)'
  BY <1>1 DEF Inv, SessionInv, ClientsAreShown, OwnInv
<1> QED BY <1>2, <1>3

LEMMA StartKeepsApp ==
    ASSUME Inv, NEW cli \in CLIs, NEW disk \in Disks, Start(cli, LoadFrom(disk))
    PROVE  (AppTypes /\ ClientsAreShown /\ OwnInv)'
<1> DEFINE resolved == ResolveProfile(cli, LoadFrom(disk))
<1>1. /\ state = "starting" /\ profiles' = LoadFrom(disk).profiles
      /\ UNCHANGED <<switching, switches, mine, asking>>
  BY DEF Start, describing
<1>2. /\ open = FALSE /\ mine = FALSE /\ asking = 0 /\ switching = <<>>
      /\ connected \in BOOLEAN /\ switches \in 0..MaxSwitches
  BY <1>1 DEF Inv, SessionInv, AppTypes
<1>3. mine' = FALSE /\ asking' = 0 /\ switching' = <<>> /\ switches' = switches
  BY <1>1, <1>2
<1>4. switches' \in 0..MaxSwitches /\ switching' \in Seq(ToSet(profiles'))
      /\ Len(switching') <= switches'
  BY <1>2, <1>3, SwitchesAssumption
<1>5. \A i \in DOMAIN profiles' : Owned(profiles'[i])
  BY <1>1, FileIsOwned
<1>6. CASE resolved = <<>>
  <2>1. state' = "ended" /\ UNCHANGED <<prof, admin, open, registry, connected>>
    BY <1>6 DEF Start, app
  <2>2. AppTypes'
    BY <1>2, <1>3, <1>4, <2>1 DEF Inv, SessionInv, AppTypes
  <2> QED BY <1>5, <2>1, <2>2 DEF ClientsAreShown, OwnInv
<1>7. CASE resolved # <<>>
  <2>1. PICK p : resolved = <<p>> /\ Owned(p) /\ p.brokers # <<>>
    BY <1>7, ResolvedIsOwned
  <2>2. /\ state' = "running" /\ prof' = p
        /\ admin' = AdminOf(p) /\ open' = TRUE
        /\ registry' = RegistryOf(p) /\ connected' = TRUE
    <3>1. /\ state' = "running" /\ prof' = resolved[1]
          /\ admin' = AdminOf(prof') /\ open' = TRUE
          /\ registry' = RegistryOf(prof') /\ connected' = TRUE
      BY <1>7 DEF Start
    <3>2. resolved[1] = p
      BY <2>1
    <3> QED BY <3>1, <3>2
  <2>3. /\ admin' # <<>> /\ (admin' = <<>> \/ \E x : admin' = <<x>>)
        /\ (registry' = <<>> \/ \E x : registry' = <<x>>)
    BY <2>1, <2>2, OneOrNone
  <2>4. AppTypes'
    BY <1>3, <1>4, <2>2, <2>3 DEF AppTypes
  <2> QED BY <1>5, <2>1, <2>2, <2>4 DEF ClientsAreShown, OwnInv
<1> QED BY <1>6, <1>7

LEMMA EnterKeepsApp ==
    ASSUME Inv, NEW i \in DOMAIN profiles, Enter(i)
    PROVE  (AppTypes /\ ClientsAreShown /\ OwnInv)'
<1>1. /\ UNCHANGED <<profiles, state, prof, admin, open, registry, connected, mine,
                     asking>>
      /\ switches < MaxSwitches /\ switches' = switches + 1 /\ state = "running"
      /\ switching' = Append(switching, profiles[i])
  BY DEF Enter, app, describing
<1>2. switching \in Seq(ToSet(profiles)) /\ Len(switching) <= switches
      /\ switches \in 0..MaxSwitches
  BY DEF Inv, SessionInv, AppTypes
<1>3. profiles[i] \in ToSet(profiles)
  BY DEF ToSet
<1>4. switching' \in Seq(ToSet(profiles)) /\ Len(switching') = Len(switching) + 1
  BY <1>1, <1>2, <1>3
<1>5. switches' \in 0..MaxSwitches /\ Len(switching') <= switches'
  BY <1>1, <1>2, <1>4, SwitchesAssumption
<1>6. ToSet(profiles') = ToSet(profiles)
  BY <1>1
<1>7. AppTypes'
  BY <1>1, <1>4, <1>5, <1>6 DEF Inv, SessionInv, AppTypes
<1> QED BY <1>1, <1>7 DEF Inv, SessionInv, OwnInv, ClientsAreShown

LEMMA SwitchKeepsApp ==
    ASSUME Inv, ProfileSwitched
    PROVE  (AppTypes /\ ClientsAreShown /\ OwnInv)'
<1> DEFINE p == Head(switching)
<1>1. /\ UNCHANGED <<profiles, state, switches, asking>> /\ mine' = FALSE
      /\ state = "running" /\ switching # <<>> /\ switching' = Tail(switching)
      /\ Switch(p)
  BY DEF ProfileSwitched, describing
<1>2. switching \in Seq(ToSet(profiles)) /\ Len(switching) <= switches
      /\ switches \in 0..MaxSwitches
  BY DEF Inv, SessionInv, AppTypes
<1>3. p \in ToSet(profiles) /\ switching' \in Seq(ToSet(profiles))
      /\ Len(switching') = Len(switching) - 1
  BY <1>1, <1>2
<1>4. Owned(p)
  BY <1>3 DEF Inv, OwnInv, ToSet
<1>5. switches' \in 0..MaxSwitches /\ Len(switching') <= switches'
  BY <1>1, <1>2, <1>3
<1>6. ToSet(profiles') = ToSet(profiles)
  BY <1>1
<1> HIDE DEF p
<1>7. CASE AdminOf(p) = <<>>
  <2>1. open' = FALSE /\ connected' = FALSE /\ UNCHANGED <<prof, admin, registry>>
    BY <1>1, <1>7 DEF Switch
  <2>2. AppTypes'
    BY <1>1, <1>3, <1>5, <1>6, <2>1 DEF Inv, SessionInv, AppTypes
  <2> QED BY <1>1, <2>1, <2>2 DEF Inv, SessionInv, OwnInv, ClientsAreShown
<1>8. CASE AdminOf(p) # <<>>
  <2>1. /\ prof' = p /\ admin' = AdminOf(p) /\ open' = TRUE
        /\ registry' = RegistryOf(p) /\ connected' = TRUE
    BY <1>1, <1>8 DEF Switch
  <2>2. /\ (admin' = <<>> \/ \E x : admin' = <<x>>)
        /\ (registry' = <<>> \/ \E x : registry' = <<x>>)
    BY <2>1, OneOrNone
  <2>3. AppTypes'
    BY <1>1, <1>3, <1>5, <1>6, <1>8, <2>1, <2>2 DEF Inv, SessionInv, AppTypes
  <2> QED BY <1>1, <1>4, <2>1, <2>3 DEF Inv, SessionInv, OwnInv, ClientsAreShown
<1> QED BY <1>7, <1>8

LEMMA QuitKeepsApp ==
    ASSUME Inv, Quit PROVE (AppTypes /\ ClientsAreShown /\ OwnInv)'
<1>1. /\ UNCHANGED <<profiles, prof, admin, registry, connected, switching, switches>>
      /\ state' = "ended" /\ open' = FALSE /\ mine' = FALSE /\ asking' = 0
  BY DEF Quit, EndDescribe
<1>2. AppTypes'
  BY <1>1 DEF Inv, SessionInv, AppTypes, ToSet
<1> QED BY <1>1, <1>2 DEF Inv, SessionInv, OwnInv, ClientsAreShown

LEMMA ErrorKeepsApp ==
    ASSUME Inv, ErrorMsg PROVE (AppTypes /\ ClientsAreShown /\ OwnInv)'
<1>1. /\ UNCHANGED <<profiles, state, prof, admin, open, registry, switching, switches,
                     mine, asking>>
      /\ connected' = FALSE
  BY DEF ErrorMsg, describing
<1>2. AppTypes'
  BY <1>1 DEF Inv, SessionInv, AppTypes, ToSet
<1> QED BY <1>1, <1>2 DEF Inv, SessionInv, OwnInv, ClientsAreShown

LEMMA StepsKeepInv == Inv /\ [Next]_vars => Inv'
<1> SUFFICES ASSUME Inv, [Next]_vars PROVE Inv'
  OBVIOUS
<1>1. AdminInv'
  BY StepsAreAdminSteps, AdminStepsKeepInv DEF Inv, SessionInv
<1>2. (AppTypes /\ ClientsAreShown /\ OwnInv)'
  <2>1. ASSUME NEW cli \in CLIs, NEW disk \in Disks, Start(cli, LoadFrom(disk))
        PROVE  <1>2
    BY <2>1, StartKeepsApp
  <2>2. ASSUME NEW i \in DOMAIN profiles, Enter(i) PROVE <1>2
    BY <2>2, EnterKeepsApp
  <2>3. CASE ProfileSwitched
    BY <2>3, SwitchKeepsApp
  <2>4. CASE LoadDetail
    <3>1. /\ UNCHANGED <<profiles, state, app, switching, switches>>
          /\ mine' \in BOOLEAN /\ asking' = 1 /\ state = "running"
      BY <2>4 DEF LoadDetail, BeginDescribe, Inv, SessionInv, AppTypes
    <3> QED BY <3>1, SameApp
  <2>5. CASE Describe
    <3>1. /\ UNCHANGED <<profiles, state, app, switching, switches>>
          /\ mine' = (mine /\ asking' # 0)
      BY <2>5 DEF Describe
    <3>2. asking # 0
      BY <2>5 DEF Describe, DescribeAnswered, DescribeFails, MetadataAnswered,
                  StartAnswered, EndAnswered, LogDirsAnswered, ConfigsAnswered,
                  MetadataFails, RequestFails, Asks
    <3>3. state = "running"
      BY <3>2 DEF Inv, SessionInv, AppTypes
    <3>4. mine' \in BOOLEAN /\ (mine' => asking' # 0)
      BY <3>1
    <3> QED BY <3>1, <3>3, <3>4, SameApp
  <2>6. CASE ClusterMoves
    <3>1. UNCHANGED <<profiles, state, app, switching, switches, mine>>
          /\ state = "running"
      BY <2>6 DEF ClusterMoves
    <3>2. UNCHANGED asking
      BY <2>6 DEF ClusterMoves, ClusterNext, Append1, Delete1, MoveLeader, Recreate,
                  describing
    <3> QED BY <3>1, <3>2, SameApp DEF Inv, SessionInv, AppTypes
  <2>7. CASE Quit
    BY <2>7, QuitKeepsApp
  <2>8. CASE UNCHANGED vars
    BY <2>8, SameApp DEF vars, describing, Inv, SessionInv, AppTypes
  <2>9. CASE ErrorMsg
    BY <2>9, ErrorKeepsApp
  <2> QED BY <2>1, <2>2, <2>3, <2>4, <2>5, <2>6, <2>7, <2>8, <2>9 DEF Next
<1> QED BY <1>1, <1>2 DEF Inv, SessionInv

LEMMA Always == Spec => []Inv
BY Initially, StepsKeepInv, PTL DEF Spec

LEMMA FirstIsIn == ASSUME NEW S, NEW s \in Seq(S), s # <<>> PROVE s[1] \in S
OBVIOUS

-----------------------------------------------------------------------------
(* Theorems *)

\* The clients are one each, an open one exists, and messages, requests and the
\* cluster stay within bounds, for any profiles, partitions and brokers.
THEOREM TypeCorrect == Spec => []TypeOK
<1>1. Inv => TypeOK
  <2> SUFFICES ASSUME Inv PROVE TypeOK
    OBVIOUS
  <2>1. \A x : Len(<<x>>) = 1
    OBVIOUS
  <2>2. Len(admin) <= 1 /\ Len(registry) <= 1
    <3>1. Len(<<>>) = 0
      OBVIOUS
    <3>2. /\ admin = <<>> \/ \E x : admin = <<x>>
          /\ registry = <<>> \/ \E x : registry = <<x>>
      BY DEF Inv, SessionInv, AppTypes
    <3>3. Len(admin) = 0 \/ Len(admin) = 1
      BY <2>1, <3>1, <3>2
    <3>4. Len(registry) = 0 \/ Len(registry) = 1
      BY <2>1, <3>1, <3>2
    <3> QED BY <3>3, <3>4
  <2>3. ToSet(switching) \subseteq ToSet(profiles) /\ Len(switching) <= MaxSwitches
    <3>1. switching \in Seq(ToSet(profiles)) /\ Len(switching) <= switches
          /\ switches \in 0..MaxSwitches
      BY DEF Inv, SessionInv, AppTypes
    <3>2. ToSet(switching) \subseteq ToSet(profiles)
      <4> DEFINE S == ToSet(profiles)
      <4>1. switching \in Seq(S)
        BY <3>1
      <4> HIDE DEF S
      <4>2. ToSet(switching) \subseteq S
        BY <4>1 DEF ToSet
      <4> QED BY <4>2 DEF S
    <3> QED BY <3>1, <3>2, SwitchesAssumption
  <2>4. \A p \in Partitions : log[p].start <= log[p].end /\ log[p].end <= MaxOffset
    BY LogEnds DEF Inv, SessionInv, AdminInv, AdminTypes
  <2>5. /\ leader \in [Partitions -> Brokers] /\ moves \in 0..MaxMoves
        /\ asking \in 0..Len(Requests)
        /\ asking > 1 => answers.leader \in [Partitions -> Brokers]
    BY TheRequests DEF Inv, SessionInv, AdminInv, AdminTypes
  <2> QED BY <2>2, <2>3, <2>4, <2>5 DEF Inv, SessionInv, AppTypes, TypeOK
<1> QED BY <1>1, Always, PTL

\* Whatever switches and loads failed, the clients are those of the profile in the
\* header, and "connected" is only said of an open one.
THEOREM ClientsFollow == Spec => []ClientsAreShown
<1>1. Inv => ClientsAreShown
  BY DEF Inv, SessionInv
<1> QED BY <1>1, Always, PTL

\* Whatever file, flags and environment say, no user or password of one place is
\* sent to the brokers of another.
THEOREM CredentialsStay == Spec => []OwnCredentials
<1>1. Inv => OwnCredentials
  <2> SUFFICES ASSUME Inv, open PROVE
        LET from == admin[1].brokers[1]
        IN  /\ admin[1].sasl # <<>> => admin[1].sasl[1] = [user |-> from, pass |-> from]
            /\ registry # <<>> =>
                  {registry[1].address, registry[1].user, registry[1].pass}
                      \subseteq {"", from, "flags"}
    BY DEF OwnCredentials
  <2>1. /\ admin # <<>> /\ admin = AdminOf(prof) /\ registry = RegistryOf(prof)
        /\ Owned(prof)
    BY DEF Inv, SessionInv, AppTypes, ClientsAreShown, OwnInv
  <2>2. PICK names, tls, from : prof \in ProfilesOf(names, tls, from)
    BY <2>1 DEF Owned
  <2>3. /\ prof.brokers \in Seq({from})
        /\ prof.saslUser \in {"", from} /\ prof.saslPass \in {"", from}
        /\ prof.srAddresses \in Seq({"", from, "flags"})
        /\ prof.srUser \in {"", from, "flags"} /\ prof.srPass \in {"", from, "flags"}
    BY <2>2 DEF ProfilesOf
  <2>4. prof.brokers # <<>>
    BY <2>1, OneOrNone
  <2>5. prof.brokers[1] = from
    BY <2>3, <2>4, FirstIsIn
  <2> DEFINE login == IF prof.saslUser = "" \/ prof.saslPass = "" THEN <<>>
                      ELSE <<[user |-> prof.saslUser, pass |-> prof.saslPass]>>
             client == [brokers |-> prof.brokers, tls |-> prof.tls, sasl |-> login]
  <2>6. admin = <<client>>
    BY <2>1, <2>4 DEF AdminOf
  <2>7. admin[1] = client
    <3> HIDE DEF client
    <3> QED BY <2>6
  <2>8. admin[1].brokers[1] = from /\ admin[1].sasl = login
    <3> HIDE DEF login
    <3> QED BY <2>5, <2>7
  <2>9. login # <<>> => login[1] = [user |-> from, pass |-> from]
    <3> SUFFICES ASSUME login # <<>> PROVE login[1] = [user |-> from, pass |-> from]
      OBVIOUS
    <3>1. prof.saslUser # "" /\ prof.saslPass # ""
      OBVIOUS
    <3>2. prof.saslUser = from /\ prof.saslPass = from
      BY <2>3, <3>1
    <3>3. login = <<[user |-> from, pass |-> from]>>
      BY <3>1, <3>2
    <3> HIDE DEF login
    <3> QED BY <3>3
  <2>10. ASSUME registry # <<>>
         PROVE  {registry[1].address, registry[1].user, registry[1].pass}
                    \subseteq {"", from, "flags"}
    <3> DEFINE user == OrElse(prof.srUser, prof.saslUser)
               pass == IF user = "" THEN "" ELSE OrElse(prof.srPass, prof.saslPass)
               sr == [address |-> prof.srAddresses[1], user |-> user, pass |-> pass]
    <3>1. prof.srAddresses # <<>> /\ registry = <<sr>>
      BY <2>1, <2>10 DEF RegistryOf
    <3>2. prof.srAddresses[1] \in {"", from, "flags"}
      BY <2>3, <3>1, FirstIsIn
    <3>3. user \in {"", from, "flags"} /\ pass \in {"", from, "flags"}
      BY <2>3 DEF OrElse
    <3>4. registry[1] = sr
      <4> HIDE DEF sr
      <4> QED BY <3>1
    <3>5. registry[1].address = prof.srAddresses[1] /\ registry[1].user = user
          /\ registry[1].pass = pass
      <4> HIDE DEF user, pass
      <4> QED BY <3>4
    <3> DEFINE any == {"", from, "flags"}
    <3> HIDE DEF user, pass, any
    <3>6. registry[1].address \in any /\ registry[1].user \in any
          /\ registry[1].pass \in any
      BY <3>2, <3>3, <3>5 DEF any
    <3> QED BY <3>6 DEF any
  <2> HIDE DEF login, client
  <2> QED BY <2>8, <2>9, <2>10
<1> QED BY <1>1, Always, PTL

\* However records come and go and whichever requests fail, EstimatedMessages is no
\* less than what the topic held when its end offsets were listed, and no more than
\* what was ever written.
THEOREM EstimateOvercounts == Spec => []NeverUndercounts
<1>1. Inv => NeverUndercounts
  BY DEF Inv, SessionInv, AdminInv, Undercounts, NeverUndercounts
<1> QED BY <1>1, Always, PTL

\* SizeBytes never exceeds SizeBytesAllReplicas, and is what the topic held when all
\* brokers answered and no leader moved.
THEOREM SizesAreOfLeaders == Spec => []SizesAgree
<1>1. Inv => SizesAgree
  BY DEF Inv, SessionInv, AdminInv, Disagrees, SizesAgree
<1> QED BY <1>1, Always, PTL
=============================================================================
