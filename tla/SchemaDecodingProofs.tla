------------------------ MODULE SchemaDecodingProofs -------------------------
(***************************************************************************)
(* Proofs about SchemaDecoding: what is shown of a record is what its      *)
(* sender put in, a file is cached with everything it imports, each import *)
(* in its version where no name stands for two, and an error has a cause   *)
(* of its own, for any schemas and imports, any number of goroutines and   *)
(* any records within the width of an ID.                                  *)
(*                                                                         *)
(* The first section proves that the receivers undo the senders, the       *)
(* second follows the caches and the collected files.                      *)
(***************************************************************************)
EXTENDS SchemaDecoding, SequenceTheorems, WellFoundedInduction, TLAPS

(* Bytes *)

Byte == 0..255
Bytes == Seq(Byte)

LEMMA DropIsSeq ==
    ASSUME NEW S, NEW s \in Seq(S), NEW n \in 0..Len(s)
    PROVE  /\ Drop(s, n) \in Seq(S) /\ Len(Drop(s, n)) = Len(s) - n
           /\ \A i \in 1..Len(s) - n : Drop(s, n)[i] = s[i + n]
BY DEF Drop

LEMMA Slice ==
    ASSUME NEW S, NEW s \in Seq(S), Len(s) >= 5
    PROVE  /\ SubSeq(s, 2, 5) \in Seq(S) /\ Len(SubSeq(s, 2, 5)) = 4
           /\ \A i \in 1..4 : SubSeq(s, 2, 5)[i] = s[i + 1]
OBVIOUS

LEMMA DropBytes ==
    ASSUME NEW s \in Bytes, NEW n \in 0..Len(s)
    PROVE  /\ Drop(s, n) \in Bytes /\ Len(Drop(s, n)) = Len(s) - n
           /\ \A i \in 1..Len(s) - n : Drop(s, n)[i] = s[i + n]
BY DropIsSeq DEF Bytes

LEMMA Concat ==
    ASSUME NEW p \in Bytes, NEW s \in Bytes
    PROVE  /\ p \o s \in Bytes /\ Len(p \o s) = Len(p) + Len(s)
           /\ Len(p) \in Nat /\ Len(s) \in Nat
           /\ \A i \in 1..Len(p) : (p \o s)[i] = p[i]
           /\ \A i \in 1..Len(s) : (p \o s)[i + Len(p)] = s[i]
BY DEF Bytes

LEMMA Regroup ==
    ASSUME NEW p \in Bytes, NEW q \in Bytes, NEW r \in Bytes
    PROVE  (p \o q) \o r = p \o (q \o r)
BY ConcatAssociative DEF Bytes

\* What was put before s is dropped.
LEMMA DropPrefix ==
    ASSUME NEW S, NEW p \in Seq(S), NEW s \in Seq(S)
    PROVE  Drop(p \o s, Len(p)) = s
<1>1. p \o s \in Seq(S) /\ Len(p \o s) = Len(p) + Len(s) /\ Len(p) \in 0..Len(p \o s)
  OBVIOUS
<1>2. \A i \in 1..Len(s) : (p \o s)[i + Len(p)] = s[i]
  OBVIOUS
<1>3. /\ Drop(p \o s, Len(p)) \in Seq(S) /\ Len(Drop(p \o s, Len(p))) = Len(s)
      /\ \A i \in 1..Len(s) : Drop(p \o s, Len(p))[i] = s[i]
  <2> DEFINE w == p \o s
             n == Len(p)
  <2>1. w \in Seq(S) /\ n \in 0..Len(w) /\ Len(w) - n = Len(s)
        /\ \A i \in 1..Len(s) : w[i + n] = s[i]
    BY <1>1, <1>2
  <2> HIDE DEF w, n
  <2>2. /\ Drop(w, n) \in Seq(S) /\ Len(Drop(w, n)) = Len(w) - n
        /\ \A i \in 1..Len(w) - n : Drop(w, n)[i] = w[i + n]
    BY <2>1, DropIsSeq
  <2> QED BY <2>1, <2>2 DEF w, n
<1> DEFINE d == Drop(p \o s, Len(p))
<1> HIDE DEF d
<1>4. d \in Seq(S) /\ Len(d) = Len(s) /\ \A i \in 1..Len(s) : d[i] = s[i]
  BY <1>3 DEF d
<1>5. d = s
  BY <1>4
<1> QED BY <1>5 DEF d

LEMMA Bytewise ==
    ASSUME NEW n \in Nat
    PROVE  /\ n \div 256 \in Nat /\ n % 256 \in 0..255
           /\ n = 256 * (n \div 256) + (n % 256)
BY SMT

LEMMA FourDigits ==
    ASSUME NEW a \in Nat, NEW b \in Nat, NEW c \in Nat, NEW d \in Nat, NEW n \in Nat,
           NEW q \in Nat, NEW r \in Nat, n = 256 * q + d, q = 256 * r + c, r = 256 * a + b
    PROVE  Uint32(<<a, b, c, d>>) = n
BY SMT DEF Uint32

LEMMA Quotients ==
    ASSUME NEW id \in Nat
    PROVE  /\ (id \div 256) \div 256 = id \div 65536
           /\ (id \div 65536) \div 256 = id \div 16777216
           /\ id \div 65536 \in Nat /\ id \div 16777216 \in Nat
BY SMT

LEMMA Small == ASSUME NEW a \in Nat, a < 256 PROVE a % 256 = a
BY SMT

LEMMA FourBytes ==
    ASSUME NEW id \in Nat, IsUint32(id)
    PROVE  /\ PutUint32(id) \in Bytes /\ Len(PutUint32(id)) = 4
           /\ Uint32(PutUint32(id)) = id
<1>1. PICK r \in Nat, a \in Nat :
        /\ r = (id \div 256) \div 256 /\ a = r \div 256 /\ a < 256
        /\ PutUint32(id) = <<a % 256, r % 256, (id \div 256) % 256, id % 256>>
  <2>1. /\ (id \div 256) \div 256 = id \div 65536
        /\ (id \div 65536) \div 256 = id \div 16777216
        /\ id \div 65536 \in Nat /\ id \div 16777216 \in Nat
    BY SMT, Quotients
  <2> QED BY SMT, <2>1 DEF PutUint32, IsUint32
<1> DEFINE q == id \div 256
           b == r % 256
           c == q % 256
           d == id % 256
<1>2. q \in Nat /\ id = 256 * q + d /\ d \in 0..255
  BY Bytewise
<1>3. q = 256 * r + c /\ c \in 0..255
  <2> HIDE DEF q
  <2> QED BY <1>2, <1>1, Bytewise DEF q
<1>4. r = 256 * a + b /\ b \in 0..255
  BY <1>1, Bytewise
<1>5. PutUint32(id) = <<a, b, c, d>>
  BY <1>1, Small
<1> HIDE DEF q, b, c, d
<1>6. a \in 0..255
  BY <1>1
<1>7. Uint32(<<a, b, c, d>>) = id
  BY <1>2, <1>3, <1>4, FourDigits
<1>8. <<a, b, c, d>> \in Bytes /\ Len(<<a, b, c, d>>) = 4
  BY <1>2, <1>3, <1>4, <1>6 DEF Bytes, Byte
<1> QED BY <1>5, <1>7, <1>8

\* The magic byte, the four bytes and what follows them.
LEMMA HeaderIsRead ==
    ASSUME NEW id \in Nat, IsUint32(id), NEW body \in Bytes
    PROVE  ExtractSchemaID(EncodeAvro(body, id)) = [ok |-> TRUE, id |-> id, payload |-> body]
<1> DEFINE n == PutUint32(id)
           p == <<0>> \o n
           v == p \o body
<1>1. n \in Bytes /\ Len(n) = 4 /\ Uint32(n) = id
  BY FourBytes
<1> HIDE DEF n
<1>2. <<0>> \in Bytes /\ Len(<<0>>) = 1 /\ <<0>>[1] = 0
  BY DEF Bytes, Byte
<1>3. p \in Bytes /\ Len(p) = 5 /\ p[1] = 0 /\ \A i \in 1..4 : p[i + 1] = n[i]
  <2>1. /\ p \in Bytes /\ Len(p) = Len(<<0>>) + Len(n)
        /\ \A i \in 1..Len(<<0>>) : p[i] = <<0>>[i]
        /\ \A i \in 1..Len(n) : p[i + Len(<<0>>)] = n[i]
    BY <1>1, <1>2, Concat
  <2> HIDE DEF p
  <2> QED BY <1>1, <1>2, <2>1
<1> HIDE DEF p
<1>4. v \in Bytes /\ Len(v) >= 5 /\ Len(v) \in Nat /\ \A i \in 1..5 : v[i] = p[i]
  <2>1. /\ v \in Bytes /\ Len(v) = Len(p) + Len(body) /\ Len(body) \in Nat
        /\ \A i \in 1..Len(p) : v[i] = p[i]
    BY <1>3, Concat
  <2> HIDE DEF v
  <2> QED BY <1>3, <2>1
<1>5. v[1] = 0
  BY <1>3, <1>4
<1>6. Drop(v, 5) = body
  BY <1>3, DropPrefix DEF Bytes
<1>7. EncodeAvro(body, id) = v
  BY DEF EncodeAvro, p, n
<1> HIDE DEF v
<1> DEFINE u == SubSeq(v, 2, 5)
<1>8. u \in Bytes /\ Len(u) = 4 /\ \A i \in 1..4 : u[i] = v[i + 1]
  BY <1>4, Slice DEF Bytes
<1>9. u = n
  <2>1. \A i \in 1..4 : u[i] = n[i]
    <3> SUFFICES ASSUME NEW i \in 1..4 PROVE u[i] = n[i]
      OBVIOUS
    <3>1. i + 1 \in 1..5
      OBVIOUS
    <3>2. u[i] = v[i + 1] /\ v[i + 1] = p[i + 1] /\ p[i + 1] = n[i]
      BY <1>3, <1>4, <1>8, <3>1
    <3> QED BY <3>2
  <2> HIDE DEF u
  <2> QED BY <1>1, <1>8, <2>1 DEF Bytes
<1> HIDE DEF u
<1>10. ExtractSchemaID(v) = [ok |-> TRUE, id |-> Uint32(u), payload |-> Drop(v, 5)]
  BY <1>4, <1>5 DEF ExtractSchemaID, u
<1> QED BY <1>1, <1>6, <1>7, <1>9, <1>10

\* The header of this repository is that header before a zero.
LEMMA HeaderWithZero ==
    ASSUME NEW id \in Nat, IsUint32(id), NEW body \in Bytes
    PROVE  /\ PrependSchemaHeader(body, id) = EncodeAvro(<<0>> \o body, id)
           /\ <<0>> \o body \in Bytes
           /\ body # <<>> => StripSchemaHeaders(PrependSchemaHeader(body, id)) = body
<1> DEFINE n == PutUint32(id)
           z == <<0>>
           p == (z \o n) \o z
           v == p \o body
<1>1. n \in Bytes /\ Len(n) = 4 /\ z \in Bytes /\ Len(z) = 1 /\ z[1] = 0
  BY FourBytes DEF Bytes, Byte
<1> HIDE DEF n, z
<1>2. (z \o n) \o (z \o body) = v /\ z \o body \in Bytes
  <2>1. z \o body \in Bytes
    BY <1>1, Concat
  <2>2. (z \o n) \o (z \o body) = v
    <3> DEFINE h == z \o n
               t == z \o body
    <3>1. h \in Bytes
      BY <1>1, Concat
    <3>2. (h \o z) \o body = h \o (z \o body)
      <4> HIDE DEF h
      <4> QED BY <1>1, <3>1, Regroup
    <3> QED BY <3>2
  <2> QED BY <2>1, <2>2
<1>3. PrependSchemaHeader(body, id) = v /\ EncodeAvro(z \o body, id) = (z \o n) \o (z \o body)
  BY DEF PrependSchemaHeader, EncodeAvro, n, z
<1>4. p \in Bytes /\ Len(p) = 6 /\ p[1] = 0
  <2> DEFINE h == z \o n
  <2>1. /\ h \in Bytes /\ Len(h) = Len(z) + Len(n)
        /\ \A i \in 1..Len(z) : h[i] = z[i]
    BY <1>1, Concat
  <2> HIDE DEF h
  <2>2. h \o z \in Bytes /\ Len(h \o z) = Len(h) + Len(z)
        /\ \A i \in 1..Len(h) : (h \o z)[i] = h[i]
    BY <1>1, <2>1, Concat
  <2>3. Len(h) = 5 /\ h[1] = 0
    BY <1>1, <2>1
  <2> QED BY <1>1, <2>2, <2>3 DEF h
<1> HIDE DEF p
<1>5. v \in Bytes /\ Len(v) = 6 + Len(body) /\ v[1] = 0 /\ Len(body) \in Nat
  <2>1. /\ v \in Bytes /\ Len(v) = Len(p) + Len(body) /\ Len(body) \in Nat
        /\ \A i \in 1..Len(p) : v[i] = p[i]
    BY <1>4, Concat
  <2> HIDE DEF v
  <2> QED BY <1>4, <2>1
<1>6. Drop(v, 6) = body
  BY <1>4, DropPrefix DEF Bytes
<1>7. body # <<>> => Len(body) > 0
  BY <1>5 DEF Bytes
<1> HIDE DEF v
<1>8. body # <<>> => StripSchemaHeaders(v) = body
  BY <1>5, <1>6, <1>7 DEF StripSchemaHeaders
<1> QED BY <1>2, <1>3, <1>8 DEF z

-----------------------------------------------------------------------------
(* Message indexes *)

\* What the fold over the bytes of a number makes of its parts.
Digits(g, s) ==
    g = [T \in SUBSET DOMAIN s |->
           IF T = {} THEN 0 ELSE (s[Min(T)] % 128) + 128 * g[T \ {Min(T)}]]

LEMMA DigitsAreFold ==
    ASSUME NEW s
    PROVE  FoldRight(LAMBDA byte, acc : (byte % 128) + 128 * acc, s, 0)
               = (CHOOSE g : Digits(g, s))[DOMAIN s]
BY Zenon DEF FoldRight, MapThenFoldSet, Digits

LEMMA OneDigit ==
    ASSUME NEW s, DOMAIN s = {1}, s[1] \in 0..127
    PROVE  FoldRight(LAMBDA byte, acc : (byte % 128) + 128 * acc, s, 0) = s[1]
<1>1. Min({1}) = 1
  BY DEF Min
<1>2. {1} \in SUBSET {1} /\ {} \in SUBSET {1} /\ {1} # {} /\ {1} \ {1} = {}
  OBVIOUS
<1>3. \A T \in SUBSET {1} : T = {} \/ T = {1}
  OBVIOUS
<1>4. s[1] % 128 = s[1]
  OBVIOUS
<1> DEFINE h == [T \in SUBSET {1} |-> IF T = {} THEN 0 ELSE s[1]]
<1>5. h[{}] = 0 /\ h[{1}] = s[1]
  BY <1>2
<1>6. Digits(h, s)
  <2>1. ASSUME NEW T \in SUBSET {1}
        PROVE  h[T] = IF T = {} THEN 0 ELSE (s[Min(T)] % 128) + 128 * h[T \ {Min(T)}]
    <3>1. CASE T = {}
      BY <1>5, <3>1
    <3>2. CASE T = {1}
      <4>1. s[Min(T)] % 128 = s[1] /\ T \ {Min(T)} = {} /\ T # {}
        BY <1>1, <1>2, <1>4, <3>2
      <4>2. (s[Min(T)] % 128) + 128 * h[T \ {Min(T)}] = s[1]
        <5> HIDE DEF h
        <5>1. h[T \ {Min(T)}] = 0
          BY <1>5, <4>1
        <5> DEFINE low == s[Min(T)] % 128
                   high == h[T \ {Min(T)}]
        <5>2. low = s[1] /\ high = 0
          BY <4>1, <5>1
        <5> HIDE DEF low, high
        <5>3. low + 128 * high = s[1]
          BY <5>2
        <5> QED BY <5>3 DEF low, high
      <4>3. h[T] = s[1]
        BY <1>5, <3>2
      <4> HIDE DEF h
      <4> QED BY <4>1, <4>2, <4>3
    <3> QED BY <1>3, <3>1, <3>2
  <2>2. h = [T \in SUBSET {1} |-> h[T]]
    OBVIOUS
  <2> HIDE DEF h
  <2>3. h = [T \in SUBSET {1} |->
               IF T = {} THEN 0 ELSE (s[Min(T)] % 128) + 128 * h[T \ {Min(T)}]]
    BY <2>1, <2>2
  <2> QED BY <2>3 DEF Digits
<1> HIDE DEF h
<1> DEFINE g == CHOOSE g : Digits(g, s)
<1>7. Digits(g, s)
  BY <1>6
<1> HIDE DEF g
<1>8. \A T \in SUBSET {1} :
        g[T] = IF T = {} THEN 0 ELSE (s[Min(T)] % 128) + 128 * g[T \ {Min(T)}]
  BY <1>7 DEF Digits
<1>9. g[{}] = 0
  BY <1>2, <1>8
<1>10. g[{1}] = (s[1] % 128) + 128 * g[{}]
  BY <1>1, <1>2, <1>8
<1>11. g[{1}] = s[1]
  BY <1>4, <1>9, <1>10
<1> QED BY <1>11, DigitsAreFold DEF g

\* A zig-zag number of one byte.
LEMMA VarintOfByte ==
    ASSUME NEW p \in Bytes, Len(p) > 0, NEW k \in 0..63, p[1] = 2 * k
    PROVE  Varint(p) = [n |-> 1, v |-> k]
<1> DEFINE ends == {i \in DOMAIN p : p[i] < 128}
           s == SubSeq(p, 1, 1)
           u == FoldRight(LAMBDA byte, acc : (byte % 128) + 128 * acc, s, 0)
<1>1. 1 \in ends /\ \A i \in ends : 1 <= i /\ i \in Nat
  BY DEF Bytes
<1>2. Min(ends) = 1
  <2> HIDE DEF ends
  <2>1. \A x \in ends : (\A y \in ends : x =< y) => x = 1
    BY <1>1
  <2>2. \A y \in ends : 1 =< y
    BY <1>1
  <2> QED BY <1>1, <2>1, <2>2 DEF Min
<1>3. DOMAIN s = {1} /\ s[1] = p[1]
  BY DEF Bytes
<1>4. u = 2 * k
  <2> HIDE DEF s
  <2>1. s[1] \in 0..127
    BY <1>3
  <2>2. u = s[1]
    BY <1>3, <2>1, OneDigit
  <2> HIDE DEF u
  <2> QED BY <1>3, <2>2
<1>5. Varint(p) = [n |-> 1, v |-> IF u % 2 = 0 THEN u \div 2 ELSE -((u + 1) \div 2)]
  <2> DEFINE first == IF ends = {} THEN 0 ELSE Min(ends)
             m == IF first > 10 \/ (first = 10 /\ p[10] > 1) THEN 0 ELSE first
  <2>1. first = 1
    BY <1>1, <1>2
  <2>2. m = 1
    <3> HIDE DEF first
    <3>1. ~(first > 10) /\ first # 10
      BY <2>1
    <3> QED BY <2>1, <3>1
  <2> QED BY Zenon, <2>2 DEF Varint
<1>6. u % 2 = 0 /\ u \div 2 = k
  <2> HIDE DEF u
  <2> QED BY <1>4
<1> HIDE DEF u
<1> QED BY <1>5, <1>6

LEMMA Least ==
    ASSUME NEW P \in SUBSET Nat, P # {}
    PROVE  \E o \in P : \A p \in P : o <= p
<1>1. PICK o \in P : \A p \in P : ~ (<<p, o>> \in OpToRel(<, Nat))
  BY NatLessThanWellFounded, WFMin
<1>2. ASSUME NEW p \in P PROVE o <= p
  <2>1. <<p, o>> \notin OpToRel(<, Nat)
    BY <1>1
  <2>2. ~(p < o)
    BY <2>1 DEF OpToRel
  <2> QED BY <2>2
<1> QED BY <1>2

LEMMA UpTo ==
    ASSUME NEW n \in Nat, NEW P \in SUBSET Nat, 0 \in P,
           \A k \in Nat : k < n /\ k \in P => k + 1 \in P
    PROVE  \A k \in 0..n : k \in P
<1> DEFINE Missing == {k \in 0..n : k \notin P}
<1> SUFFICES ASSUME Missing # {} PROVE FALSE
  OBVIOUS
<1>1. PICK k \in Missing : \A j \in Missing : k <= j
  <2>1. Missing \in SUBSET Nat
    OBVIOUS
  <2> HIDE DEF Missing
  <2> QED BY <2>1, Least
<1>2. k \in Nat /\ k # 0 /\ k <= n /\ k \notin P
  OBVIOUS
<1>3. k - 1 \in 0..n /\ k - 1 \notin Missing
  <2>1. k - 1 \in 0..n /\ ~(k <= k - 1)
    BY <1>2
  <2> HIDE DEF Missing
  <2> QED BY <1>1, <2>1
<1>4. k - 1 \in P
  BY <1>3
<1>5. (k - 1) + 1 \in P
  <2>1. k - 1 \in Nat /\ k - 1 < n
    BY <1>2
  <2> QED BY <1>4, <2>1
<1> QED BY <1>2, <1>5

LEMMA MaxIsIn ==
    ASSUME NEW n \in Nat, NEW T \in SUBSET (1..n), T # {}
    PROVE  Max(T) \in T /\ \A x \in T : x <= Max(T)
<1> DEFINE Bounds == {k \in Nat : \A x \in T : x <= k}
<1>1. PICK m \in Bounds : \A k \in Bounds : m <= k
  <2>1. n \in Bounds
    OBVIOUS
  <2>2. Bounds \in SUBSET Nat
    OBVIOUS
  <2> HIDE DEF Bounds
  <2> QED BY <2>1, <2>2, Least
<1>2. m \in T
  <2> SUFFICES ASSUME m \notin T PROVE FALSE
    OBVIOUS
  <2>1. ASSUME NEW x \in T PROVE x <= m - 1
    <3>1. x \in Nat /\ m \in Nat /\ x <= m /\ x # m
      OBVIOUS
    <3> QED BY <3>1
  <2>2. m - 1 \in Nat
    <3>1. PICK x \in T : TRUE
      OBVIOUS
    <3>2. x \in Nat /\ m \in Nat
      OBVIOUS
    <3>3. x <= m - 1
      BY <2>1
    <3> QED BY <3>2, <3>3
  <2>3. m - 1 \in Bounds
    BY <2>1, <2>2
  <2>4. m <= m - 1 /\ m \in Nat
    BY <1>1, <2>3
  <2> QED BY <2>4
<1>3. \A x \in T : m >= x
  OBVIOUS
<1>4. Max(T) \in T /\ \A x \in T : Max(T) >= x
  BY <1>2, <1>3 DEF Max
<1>5. \A x \in T : x \in Nat
  OBVIOUS
<1> QED BY <1>4, <1>5

\* What the fold over the indexes makes of the ones before.
ReadStep(g, base, s, T) ==
    IF T = {} THEN base ELSE ReadIndex(g[T \ {Max(T)}], s[Max(T)])
Reads(g, base, s) == g = [T \in SUBSET DOMAIN s |-> ReadStep(g, base, s, T)]

LEMMA ReadsAreFold ==
    ASSUME NEW base, NEW s
    PROVE  FoldLeft(ReadIndex, base, s) = (CHOOSE g : Reads(g, base, s))[DOMAIN s]
BY Zenon DEF FoldLeft, MapThenFoldSet, Reads, ReadStep

\* The results of all sets exist: those of the sets below a bound first.
LEMMA ReadsExist ==
    ASSUME NEW n \in Nat, NEW base, NEW s, DOMAIN s = 1..n
    PROVE  \E g : Reads(g, base, s)
<1> DEFINE D == SUBSET (1..n)
           Good(g, m) == \A T \in D : T \subseteq 1..m => g[T] = ReadStep(g, base, s, T)
           P == {m \in Nat : \E g : g = [T \in D |-> g[T]] /\ Good(g, m)}
<1>1. 0 \in P
  <2> DEFINE g == [T \in D |-> base]
  <2>1. g = [T \in D |-> g[T]]
    OBVIOUS
  <2>2. ASSUME NEW T \in D, T \subseteq 1..0 PROVE g[T] = ReadStep(g, base, s, T)
    <3>1. T = {}
      BY <2>2
    <3> QED BY <3>1 DEF ReadStep
  <2> HIDE DEF g
  <2> QED BY <2>1, <2>2
<1>2. ASSUME NEW m \in Nat, m < n, m \in P PROVE m + 1 \in P
  <2>1. PICK g : g = [T \in D |-> g[T]] /\ Good(g, m)
    BY <1>2
  <2> DEFINE h == [T \in D |-> ReadStep(g, base, s, T)]
  <2>2. h = [T \in D |-> h[T]]
    OBVIOUS
  <2>3. ASSUME NEW T \in D, T \subseteq 1..(m + 1)
        PROVE  h[T] = ReadStep(h, base, s, T)
    <3>1. CASE T = {}
      BY <3>1 DEF ReadStep
    <3>2. CASE T # {}
      <4> DEFINE U == T \ {Max(T)}
      <4>1. Max(T) \in T /\ \A x \in T : x <= Max(T)
        BY <3>2, MaxIsIn
      <4>2. U \in D /\ U \subseteq 1..m
        <5>1. ASSUME NEW x \in U PROVE x \in 1..m
          <6>1. x \in 1..(m + 1) /\ Max(T) \in 1..(m + 1) /\ x <= Max(T) /\ x # Max(T)
            BY <2>3, <4>1
          <6> QED BY <6>1
        <5> QED BY <5>1
      <4>3. h[U] = g[U]
        BY <2>1, <4>2
      <4> QED BY <3>2, <4>3 DEF ReadStep
    <3> QED BY <3>1, <3>2
  <2> HIDE DEF h
  <2>4. Good(h, m + 1)
    BY <2>3
  <2>5. m + 1 \in Nat
    OBVIOUS
  <2> HIDE DEF Good
  <2> QED BY <2>2, <2>4, <2>5
<1>3. n \in P
  <2>1. P \in SUBSET Nat /\ n \in 0..n
    OBVIOUS
  <2> HIDE DEF P
  <2> QED BY <1>1, <1>2, <2>1, UpTo
<1>4. PICK g : g = [T \in D |-> g[T]] /\ Good(g, n)
  BY <1>3
<1>5. \A T \in D : g[T] = ReadStep(g, base, s, T)
  BY <1>4
<1>6. g = [T \in D |-> ReadStep(g, base, s, T)]
  BY <1>4, <1>5
<1> QED BY <1>6 DEF Reads

\* After k indexes: their list, and what is left of the bytes.
ReadSoFar(path, p, k) ==
    [ok |-> TRUE, panics |-> FALSE, path |-> SubSeq(path, 1, k), payload |-> Drop(p, k)]

LEMMA WithPathAndRest ==
    ASSUME NEW a, NEW b, NEW c, NEW d, NEW x, NEW y, NEW r,
           r = [ok |-> a, panics |-> b, path |-> c, payload |-> d]
    PROVE  /\ [r EXCEPT !.path = x, !.payload = y] =
                  [ok |-> a, panics |-> b, path |-> x, payload |-> y]
           /\ r.ok = a /\ r.path = c /\ r.payload = d
<1>1. [r EXCEPT !.path = x, !.payload = y] \in
        [ok : {a}, panics : {b}, path : {x}, payload : {y}]
  OBVIOUS
<1> DEFINE q == [r EXCEPT !.path = x, !.payload = y]
<1> HIDE DEF q
<1>2. q \in [ok : {a}, panics : {b}, path : {x}, payload : {y}]
  BY <1>1 DEF q
<1>3. q = [ok |-> a, panics |-> b, path |-> x, payload |-> y]
  BY <1>2
<1> QED BY <1>3 DEF q

LEMMA NextIndex ==
    ASSUME NEW path \in Seq(0..63), NEW k \in Nat, k < Len(path), NEW p \in Bytes,
           Len(p) > k, p[k + 1] = 2 * path[k + 1], NEW i
    PROVE  ReadIndex(ReadSoFar(path, p, k), i) = ReadSoFar(path, p, k + 1)
<1> DEFINE q == Drop(p, k)
           v == path[k + 1]
           acc == ReadSoFar(path, p, k)
<1>1. q \in Bytes /\ Len(q) > 0 /\ q[1] = 2 * v /\ v \in 0..63
  <2>1. k \in 0..Len(p) /\ Len(p) \in Nat
    BY DEF Bytes
  <2>2. /\ q \in Bytes /\ Len(q) = Len(p) - k
        /\ \A m \in 1..Len(p) - k : q[m] = p[m + k]
    BY <2>1, DropBytes
  <2>3. 1 \in 1..Len(p) - k /\ 1 + k = k + 1
    BY <2>1
  <2>4. q[1] = p[k + 1] /\ Len(q) > 0
    BY <2>1, <2>2, <2>3
  <2>5. v \in 0..63
    <3>1. k + 1 \in 1..Len(path)
      OBVIOUS
    <3> DEFINE S == 0..63
    <3>2. path \in Seq(S)
      OBVIOUS
    <3> HIDE DEF S
    <3>3. path[k + 1] \in S
      BY <3>1, <3>2
    <3> QED BY <3>3 DEF S
  <2> QED BY <2>2, <2>4, <2>5
<1>2. Varint(q) = [n |-> 1, v |-> v]
  <2> HIDE DEF q, v
  <2> QED BY <1>1, VarintOfByte
<1>3. Append(SubSeq(path, 1, k), v) = SubSeq(path, 1, k + 1)
  OBVIOUS
<1>4. Drop(q, 1) = Drop(p, k + 1)
  BY DEF Drop, Bytes
<1>5. ReadIndex(acc, i) =
        [ok |-> TRUE, panics |-> FALSE, path |-> Append(SubSeq(path, 1, k), v),
         payload |-> Drop(q, 1)]
  <2> DEFINE s == SubSeq(path, 1, k)
  <2>1. acc = [ok |-> TRUE, panics |-> FALSE, path |-> s, payload |-> q]
    BY DEF ReadSoFar
  <2> HIDE DEF acc, q, s
  <2>2. acc.ok = TRUE /\ acc.path = s /\ acc.payload = q
    BY <2>1
  <2>3. Varint(acc.payload).n = 1 /\ Varint(acc.payload).v = v
    BY <1>2, <2>2
  <2>4. ReadIndex(acc, i) =
          [acc EXCEPT !.path = Append(acc.path, v), !.payload = Drop(acc.payload, 1)]
    BY <2>2, <2>3 DEF ReadIndex
  <2>5. ReadIndex(acc, i) = [acc EXCEPT !.path = Append(s, v), !.payload = Drop(q, 1)]
    BY <2>2, <2>4
  <2> QED BY Zenon, <2>1, <2>5, WithPathAndRest DEF s
<1> QED BY <1>3, <1>4, <1>5 DEF ReadSoFar

\* As many indexes are read as there are.
LEMMA AllIndexes ==
    ASSUME NEW path \in Seq(0..63), NEW p \in Bytes, Len(p) >= Len(path),
           \A i \in 1..Len(path) : p[i] = 2 * path[i]
    PROVE  FoldLeft(ReadIndex, ReadSoFar(path, p, 0), [i \in 1..Len(path) |-> i])
               = ReadSoFar(path, p, Len(path))
<1> DEFINE n == Len(path)
           s == [i \in 1..n |-> i]
           base == ReadSoFar(path, p, 0)
           g == CHOOSE g : Reads(g, base, s)
           P == {k \in 0..n : g[1..k] = ReadSoFar(path, p, k)}
<1>1. n \in Nat /\ DOMAIN s = 1..n
  OBVIOUS
<1>2. Reads(g, base, s)
  <2> HIDE DEF s, base, n
  <2> QED BY <1>1, ReadsExist
<1>3. FoldLeft(ReadIndex, base, s) = g[1..n]
  <2> HIDE DEF base
  <2> QED BY <1>1, ReadsAreFold
<1> HIDE DEF g
<1>4. \A T \in SUBSET (1..n) : g[T] = ReadStep(g, base, s, T)
  <2> HIDE DEF base, s, n
  <2> QED BY <1>1, <1>2 DEF Reads
<1>5. 0 \in P
  <2>1. g[{}] = ReadStep(g, base, s, {})
    <3> HIDE DEF base, s, n
    <3> QED BY <1>4
  <2>2. ReadStep(g, base, s, {}) = base
    BY DEF ReadStep
  <2>3. 1..0 = {}
    OBVIOUS
  <2> HIDE DEF base
  <2> QED BY <1>1, <2>1, <2>2, <2>3 DEF base
<1>6. ASSUME NEW k \in Nat, k < n, k \in P PROVE k + 1 \in P
  <2> DEFINE T == 1..(k + 1)
  <2>0. k < n
    <3> HIDE DEF n, P
    <3> QED BY <1>6
  <2>1. T \in SUBSET (1..n) /\ T # {} /\ k + 1 \in 1..n
    <3>1. n \in Nat
      BY <1>1
    <3> HIDE DEF n, P, s, base
    <3>2. k + 1 \in 1..n /\ k + 1 \in T
      BY <2>0, <3>1
    <3>3. \A x \in T : x \in 1..n
      BY <2>0, <3>1
    <3> HIDE DEF T
    <3> QED BY <3>2, <3>3
  <2>2. Max(T) = k + 1
    <3>1. Max(T) \in T /\ \A x \in T : x <= Max(T)
      <4> HIDE DEF T, n
      <4> QED BY <1>1, <2>1, MaxIsIn
    <3>2. k + 1 <= Max(T) /\ Max(T) \in 1..(k + 1)
      BY <3>1
    <3> QED BY <3>2
  <2>3. T \ {k + 1} = 1..k
    OBVIOUS
  <2>4. g[T] = ReadIndex(g[1..k], s[k + 1])
    <3>1. g[T] = ReadStep(g, base, s, T)
      <4> HIDE DEF base, s, n, T
      <4> QED BY <1>4, <2>1
    <3>2. ReadStep(g, base, s, T) = ReadIndex(g[T \ {k + 1}], s[k + 1])
      <4> HIDE DEF base, s, n, T
      <4> QED BY <2>1, <2>2 DEF ReadStep
    <3> HIDE DEF base, s, n, T
    <3> QED BY <2>3, <3>1, <3>2
  <2>5. g[1..k] = ReadSoFar(path, p, k)
    BY <1>6
  <2>6. Len(p) > k /\ p[k + 1] = 2 * path[k + 1]
    <3>1. Len(p) \in Nat /\ Len(p) >= n
      BY DEF Bytes
    <3>2. p[k + 1] = 2 * path[k + 1]
      BY <2>1
    <3> HIDE DEF n, P
    <3> QED BY <1>1, <2>0, <3>1, <3>2
  <2>7. ReadIndex(ReadSoFar(path, p, k), s[k + 1]) = ReadSoFar(path, p, k + 1)
    <3>1. k < Len(path)
      BY <2>0
    <3> HIDE DEF s, P
    <3> QED BY <2>6, <3>1, NextIndex
  <2>8. k + 1 \in 0..n
    <3> HIDE DEF n, P
    <3> QED BY <1>1, <2>0
  <2> HIDE DEF s, n
  <2> QED BY <2>4, <2>5, <2>7, <2>8
<1>7. n \in P
  <2>1. P \in SUBSET Nat /\ n \in 0..n
    OBVIOUS
  <2> HIDE DEF P, n
  <2> QED BY <1>1, <1>5, <1>6, <2>1, UpTo
<1>8. g[1..n] = ReadSoFar(path, p, n)
  BY <1>7
<1> QED BY <1>3, <1>8

\* The indexes that Confluent's serializer writes, and the payload behind them.
LEMMA IndexesAreRead ==
    ASSUME NEW path \in Seq(0..63), Len(path) \in 1..63, NEW body \in Bytes
    PROVE  /\ PutIndexes(path) \o body \in Bytes
           /\ ParseMessageIndexes(PutIndexes(path) \o body) =
                 [ok |-> TRUE, panics |-> FALSE, path |-> path, payload |-> body]
<1> DEFINE n == Len(path)
<1>0. n \in 1..63 /\ DOMAIN path = 1..n /\ \A i \in 1..n : path[i] \in 0..63
  <2> DEFINE S == 0..63
  <2>1. path \in Seq(S)
    OBVIOUS
  <2> HIDE DEF S
  <2>2. DOMAIN path = 1..n /\ \A i \in 1..n : path[i] \in S
    BY <2>1
  <2> QED BY <2>2 DEF S
<1>1. ASSUME NEW k \in 0..63, NEW tail \in Bytes
      PROVE  /\ <<2 * k>> \o tail \in Bytes /\ <<2 * k>> \o tail # <<>>
             /\ Varint(<<2 * k>> \o tail) = [n |-> 1, v |-> k]
             /\ Drop(<<2 * k>> \o tail, 1) = tail
  <2> DEFINE h == <<2 * k>>
             p == h \o tail
  <2>1. h \in Bytes /\ Len(h) = 1 /\ h[1] = 2 * k
    BY DEF Bytes, Byte
  <2> HIDE DEF h
  <2>2. /\ p \in Bytes /\ Len(p) = Len(h) + Len(tail) /\ Len(tail) \in Nat
        /\ \A i \in 1..Len(h) : p[i] = h[i]
    BY <2>1, Concat
  <2>3. Drop(p, 1) = tail
    BY <2>1, DropPrefix DEF Bytes
  <2> HIDE DEF p
  <2>4. Len(p) > 0 /\ p[1] = 2 * k
    BY <2>1, <2>2
  <2>5. Varint(p) = [n |-> 1, v |-> k]
    BY <2>2, <2>4, VarintOfByte
  <2>6. p # <<>>
    BY <2>4
  <2> QED BY <2>2, <2>3, <2>5, <2>6 DEF p, h
<1>2. CASE path = <<0>>
  <2> DEFINE p == <<0>> \o body
  <2>1. 2 * 0 = 0 /\ 0 \in 0..63
    OBVIOUS
  <2>2. p \in Bytes /\ p # <<>> /\ Varint(p) = [n |-> 1, v |-> 0] /\ Drop(p, 1) = body
    BY <1>1, <2>1
  <2> HIDE DEF p
  <2>3. ParseMessageIndexes(p) =
          [[ok |-> TRUE, panics |-> FALSE, path |-> <<>>, payload |-> body]
             EXCEPT !.path = <<0>>]
    <3>1. Varint(p).n = 1 /\ Varint(p).v = 0 /\ Drop(p, Varint(p).n) = body
      BY <2>2
    <3>2. Varint(p).n # 0
      BY <3>1
    <3> QED BY Zenon, <2>2, <3>1, <3>2 DEF ParseMessageIndexes
  <2>4. ParseMessageIndexes(p) = [ok |-> TRUE, panics |-> FALSE, path |-> path, payload |-> body]
    BY <1>2, <2>3
  <2>5. PutIndexes(path) \o body = p
    BY <1>2 DEF PutIndexes, p
  <2> QED BY <2>2, <2>4, <2>5
<1>3. CASE path # <<0>>
  <2> DEFINE ds == [i \in 1..n |-> 2 * path[i]]
             rest == ds \o body
             p == <<2 * n>> \o rest
  <2>1. ds \in Bytes /\ Len(ds) = n /\ \A i \in 1..n : ds[i] = 2 * path[i]
    <3>1. \A i \in 1..n : 2 * path[i] \in Byte
      <4> SUFFICES ASSUME NEW i \in 1..n PROVE 2 * path[i] \in Byte
        OBVIOUS
      <4> DEFINE v == path[i]
      <4>1. v \in 0..63
        <5> HIDE DEF n
        <5> QED BY <1>0
      <4> HIDE DEF v
      <4>2. 2 * v \in Byte
        BY <4>1 DEF Byte
      <4> QED BY <4>2 DEF v
    <3> HIDE DEF n
    <3>2. ds \in [1..n -> Byte]
      BY <3>1
    <3>3. n \in Nat
      BY <1>0
    <3>4. ds \in Seq(Byte) /\ Len(ds) = n
      BY <3>2, <3>3
    <3> QED BY <3>4 DEF Bytes
  <2> HIDE DEF ds
  <2>2. /\ rest \in Bytes /\ Len(rest) = Len(ds) + Len(body) /\ Len(body) \in Nat
        /\ \A i \in 1..Len(ds) : rest[i] = ds[i]
    BY <2>1, Concat
  <2>3. Drop(rest, n) = body
    BY <2>1, DropPrefix DEF Bytes
  <2> HIDE DEF rest
  <2>4. p \in Bytes /\ p # <<>> /\ Varint(p) = [n |-> 1, v |-> n] /\ Drop(p, 1) = rest
    <3> HIDE DEF n
    <3>1. n \in 0..63
      BY <1>0
    <3> QED BY <1>1, <2>2, <3>1
  <2> HIDE DEF p
  <2> DEFINE base == [ok |-> TRUE, panics |-> FALSE, path |-> <<>>, payload |-> rest]
             s == [i \in 1..n |-> i]
  <2>5. ParseMessageIndexes(p) = FoldLeft(ReadIndex, base, s)
    <3> HIDE DEF n
    <3>1. n # 0 /\ ~(n < 0) /\ ~(n > MaxCap)
      BY <1>0, CapAssumption
    <3>2. Varint(p).n = 1 /\ Varint(p).v = n /\ Drop(p, Varint(p).n) = rest
      BY <2>4
    <3>3. Varint(p).n # 0 /\ Varint(p).v # 0 /\ ~(Varint(p).v < 0)
          /\ ~(Varint(p).v > MaxCap)
      BY <3>1, <3>2
    <3>4. ParseMessageIndexes(p) =
            FoldLeft(ReadIndex,
                     [ok |-> TRUE, panics |-> FALSE, path |-> <<>>,
                      payload |-> Drop(p, Varint(p).n)],
                     [i \in 1..Varint(p).v |-> i])
      BY Zenon, <2>4, <3>3 DEF ParseMessageIndexes
    <3> QED BY <3>2, <3>4
  <2>6. base = ReadSoFar(path, rest, 0)
    <3>1. SubSeq(path, 1, 0) = <<>> /\ Drop(rest, 0) = rest
      BY <2>2 DEF Drop, Bytes
    <3> QED BY <3>1 DEF ReadSoFar
  <2>7. FoldLeft(ReadIndex, ReadSoFar(path, rest, 0), s) = ReadSoFar(path, rest, n)
    <3>1. Len(rest) >= n
      <4> HIDE DEF n
      <4> QED BY <1>0, <2>1, <2>2
    <3>2. \A i \in 1..n : rest[i] = 2 * path[i]
      BY <2>1, <2>2
    <3> QED BY <2>2, <3>1, <3>2, AllIndexes
  <2>8. ReadSoFar(path, rest, n) =
          [ok |-> TRUE, panics |-> FALSE, path |-> path, payload |-> body]
    <3>1. SubSeq(path, 1, n) = path
      OBVIOUS
    <3> HIDE DEF n
    <3> QED BY <2>3, <3>1 DEF ReadSoFar
  <2>9. PutIndexes(path) \o body = p
    <3>1. (<<2 * n>> \o ds) \o body = <<2 * n>> \o (ds \o body)
      <4> DEFINE h == <<2 * n>>
      <4>1. h \in Bytes
        <5> HIDE DEF n
        <5> QED BY <1>0 DEF Bytes, Byte
      <4> HIDE DEF h
      <4>2. (h \o ds) \o body = h \o (ds \o body)
        BY <2>1, <4>1, Regroup
      <4> QED BY <4>2 DEF h
    <3>2. PutIndexes(path) = <<2 * n>> \o ds
      BY <1>0, <1>3 DEF PutIndexes, ds
    <3> QED BY <3>1, <3>2 DEF p, rest
  <2> HIDE DEF base, s
  <2>10. PutIndexes(path) \o body \in Bytes
    BY <2>4, <2>9
  <2> QED BY <2>5, <2>6, <2>7, <2>8, <2>9, <2>10
<1> QED BY <1>2, <1>3

-----------------------------------------------------------------------------
(* The inductive invariant *)

\* The caches hold answers to what they were asked.
Cached ==
    /\ DOMAIN byID \subseteq Schemas
    /\ \A id \in DOMAIN byID : byID[id] = Answer(id, id)

RefSeq == Seq([name : STRING, schema : Schemas])

\* Files under the names of references below the root, itself under its own.
FileRight(root, f) ==
    /\ Named(f) /\ Range(f) \subseteq Reached(root)
    /\ FileName[root] \in DOMAIN f /\ f[FileName[root]] = root
    /\ \A n \in DOMAIN f : n # FileName[root] =>
          \E s \in Reached(root) : \E r \in Refs(s) : r.name = n /\ r.schema = f[n]

Compiled ==
    /\ DOMAIN fileCache \subseteq Schemas
    /\ \A id \in DOMAIN fileCache :
          /\ fileCache[id].root = id
          /\ FileRight(id, fileCache[id].files) /\ Found(fileCache[id].files)

Places == {"idle", "lookup", "fetch", "render", "file", "collect"}

DecodeTypes ==
    /\ sr \in BOOLEAN /\ panicked \in BOOLEAN /\ faults \in 0..MaxFaults
    /\ pc \in [Callers -> Places] /\ rec \in [Callers -> Records \union {NoRecord}]
    /\ info \in [Callers -> Infos]
    /\ DOMAIN sources = Callers /\ \A c \in Callers : Named(sources[c])
    /\ todo \in [Callers -> RefSeq] /\ failed \in [Callers -> BOOLEAN]
    /\ DOMAIN result = Callers

\* Every import of what is collected has its name there or is to do, and nothing
\* is that no reference below the root names.
Reaching(root, f, ahead) ==
    /\ FileRight(root, f)
    /\ \A q \in ToSet(ahead) : \E s \in Reached(root) : q \in Refs(s)
    /\ \A n \in DOMAIN f : \A r \in Refs(f[n]) : r.name \in DOMAIN f \/ r \in ToSet(ahead)

\* A goroutine at work has a header, then the schema of its ID, then the message
\* indexes, and it shows nothing yet.
Works(c) ==
    /\ rec[c] \in Records /\ Header(c).ok /\ result[c].as = "nothing"
    /\ pc[c] \in {"render", "file", "collect"} =>
          Header(c).id \in Schemas /\ info[c] = Answer(Header(c).id, Header(c).id)
    /\ pc[c] \in {"file", "collect"} =>
          Type[Header(c).id] = "PROTOBUF" /\ Indexes(c).ok
    /\ pc[c] = "collect" => Reaching(Header(c).id, sources[c], todo[c])

TrulyShown(r, shown) ==
    r.by \in {"rp", "avro", "proto"} /\ shown.as # "nothing" =>
        /\ shown.as # "plain"
        /\ shown.as = "message" => shown.path = r.path
        /\ shown.as \in {"message", "text"} =>
              shown.schema = r.id /\ shown.payload = r.payload

\* There is no such record or no such message, or the schema has imports in a circle
\* or two by one name.
Hopeless(r) ==
    \/ r.by = "raw" \/ r.path \notin Messages[r.id]
    \/ ImportsCircle(HeaderOf[r].id) \/ ~Unambiguous(HeaderOf[r].id)

Rests(c) ==
    /\ result[c].as \in {"nothing", "plain", "hex", "text", "message", "error"}
    /\ TrulyShown(rec[c], result[c])
    /\ result[c].as = "error" => failed[c] \/ Hopeless(rec[c])

RestsOrWorks(c) == IF pc[c] = "idle" THEN Rests(c) ELSE Works(c)

DecodeInv ==
    /\ DecodeTypes /\ Cached /\ Compiled
    /\ \A c \in Callers : RestsOrWorks(c)

-----------------------------------------------------------------------------
(* What is imported *)

LEMMA ToSetOf ==
    ASSUME NEW S, NEW s \in Seq(S), NEW t \in Seq(S)
    PROVE  /\ ToSet(s) \subseteq S /\ ToSet(s \o t) = ToSet(s) \union ToSet(t)
           /\ s # <<>> => /\ Head(s) \in S /\ Tail(s) \in Seq(S)
                          /\ ToSet(s) = {Head(s)} \union ToSet(Tail(s))
<1>1. ToSet(s) \subseteq S
  BY DEF ToSet
<1>2. ToSet(s \o t) = ToSet(s) \union ToSet(t)
  <2> DEFINE w == s \o t
  <2>1. /\ w \in Seq(S) /\ Len(w) = Len(s) + Len(t) /\ Len(s) \in Nat /\ Len(t) \in Nat
        /\ DOMAIN w = 1..Len(w) /\ DOMAIN s = 1..Len(s) /\ DOMAIN t = 1..Len(t)
        /\ \A i \in 1..Len(s) : w[i] = s[i]
        /\ \A i \in 1..Len(t) : w[i + Len(s)] = t[i]
    OBVIOUS
  <2> HIDE DEF w
  <2>2. ASSUME NEW x \in ToSet(w) PROVE x \in ToSet(s) \union ToSet(t)
    <3>1. PICK i \in 1..Len(w) : x = w[i]
      BY <2>1 DEF ToSet
    <3>2. CASE i <= Len(s)
      <4>1. i \in 1..Len(s)
        BY <2>1, <3>2
      <4> QED BY <2>1, <3>1, <4>1 DEF ToSet
    <3>3. CASE ~(i <= Len(s))
      <4>1. i - Len(s) \in 1..Len(t) /\ (i - Len(s)) + Len(s) = i
        BY <2>1, <3>3
      <4>2. w[i] = t[i - Len(s)]
        BY <2>1, <4>1
      <4> QED BY <2>1, <3>1, <4>1, <4>2 DEF ToSet
    <3> QED BY <3>2, <3>3
  <2>3. ASSUME NEW i \in 1..Len(s) PROVE s[i] \in ToSet(w)
    <3>1. i \in DOMAIN w /\ w[i] = s[i]
      BY <2>1
    <3> QED BY <3>1 DEF ToSet
  <2>4. ASSUME NEW i \in 1..Len(t) PROVE t[i] \in ToSet(w)
    <3>1. i + Len(s) \in DOMAIN w /\ w[i + Len(s)] = t[i]
      BY <2>1
    <3> QED BY <3>1 DEF ToSet
  <2>5. ToSet(s) \union ToSet(t) \subseteq ToSet(w)
    BY <2>1, <2>3, <2>4 DEF ToSet
  <2> QED BY <2>2, <2>5 DEF w
<1>3. ASSUME s # <<>>
      PROVE  /\ Head(s) \in S /\ Tail(s) \in Seq(S)
             /\ ToSet(s) = {Head(s)} \union ToSet(Tail(s))
  <2> DEFINE u == Tail(s)
             n == Len(s)
  <2>1. /\ u \in Seq(S) /\ n \in Nat /\ n > 0 /\ Len(u) = n - 1 /\ Head(s) = s[1]
        /\ DOMAIN s = 1..n /\ DOMAIN u = 1..n - 1 /\ s[1] \in S
        /\ \A i \in 1..n - 1 : u[i] = s[i + 1]
    BY <1>3
  <2> HIDE DEF u, n
  <2>2. ASSUME NEW i \in 1..n PROVE s[i] \in {s[1]} \union ToSet(u)
    <3>1. CASE i # 1
      <4>1. i - 1 \in DOMAIN u /\ (i - 1) + 1 = i /\ i - 1 \in 1..n - 1
        BY <2>1, <3>1
      <4>2. u[i - 1] = s[i]
        BY <2>1, <4>1
      <4> QED BY <4>1, <4>2 DEF ToSet
    <3> QED BY <3>1
  <2>3. ASSUME NEW i \in 1..n - 1 PROVE u[i] \in ToSet(s)
    <3>1. i + 1 \in DOMAIN s /\ u[i] = s[i + 1]
      BY <2>1
    <3> QED BY <3>1 DEF ToSet
  <2>4. ToSet(s) \subseteq {s[1]} \union ToSet(u)
    BY <2>1, <2>2 DEF ToSet
  <2>5. ToSet(u) \subseteq ToSet(s) /\ s[1] \in ToSet(s)
    <3>1. 1 \in DOMAIN s
      BY <2>1
    <3> QED BY <2>1, <2>3, <3>1 DEF ToSet
  <2> QED BY <2>1, <2>4, <2>5 DEF u
<1> QED BY <1>1, <1>2, <1>3

LEMMA RefsOf ==
    ASSUME NEW s \in Schemas
    PROVE  /\ References[s] \in RefSeq /\ Refs(s) \subseteq [name : STRING, schema : Schemas]
           /\ Direct(s) \subseteq Schemas
<1>1. References[s] \in RefSeq
  BY SchemasAssumption DEF RefSeq
<1>2. Refs(s) \subseteq [name : STRING, schema : Schemas]
  BY <1>1, ToSetOf DEF Refs, RefSeq
<1> QED BY <1>1, <1>2 DEF Direct

\* Imports[root] is the least set of schemas that has what root and its own refer to.
LEMMA LeastImports ==
    ASSUME NEW root \in Schemas
    PROVE  /\ Imports[root] \subseteq Schemas
           /\ Direct(root) \subseteq Imports[root]
           /\ \A s \in Imports[root] : Direct(s) \subseteq Imports[root]
           /\ \A files \in SUBSET Schemas :
                 Direct(root) \subseteq files /\ Closed(files)
                    => Imports[root] \subseteq files
<1>1. \A s \in Schemas : Direct(s) \subseteq Schemas
  BY RefsOf
<1>2. Imports[root] = {s \in Schemas : \A files \in SUBSET Schemas :
         Direct(root) \subseteq files /\ Closed(files) => s \in files}
  BY Zenon DEF Imports
<1>3. Imports[root] \subseteq Schemas
  BY <1>2
<1>4. ASSUME NEW files \in SUBSET Schemas, Direct(root) \subseteq files, Closed(files)
      PROVE  Imports[root] \subseteq files
  BY <1>2, <1>4
<1>5. Direct(root) \subseteq Imports[root]
  BY <1>1, <1>2
<1>6. ASSUME NEW s \in Imports[root] PROVE Direct(s) \subseteq Imports[root]
  <2> SUFFICES ASSUME NEW t \in Direct(s), NEW files \in SUBSET Schemas,
                      Direct(root) \subseteq files, Closed(files)
               PROVE  t \in files
    BY <1>1, <1>2, <1>3
  <2>1. s \in files
    BY <1>4
  <2> QED BY <2>1 DEF Closed
<1> QED BY <1>3, <1>4, <1>5, <1>6

LEMMA ReachedIsClosed ==
    ASSUME NEW root \in Schemas
    PROVE  /\ root \in Reached(root) /\ Reached(root) \subseteq Schemas
           /\ \A s \in Reached(root) : Direct(s) \subseteq Reached(root)
BY LeastImports DEF Reached

\* Collecting begins, goes on and ends with every import there by its name.
LEMMA ReachingBegins ==
    ASSUME NEW root \in Schemas
    PROVE  Reaching(root, With(<<>>, FileName[root], root), References[root])
<1> DEFINE f == With(<<>>, FileName[root], root)
<1>1. DOMAIN f = {FileName[root]} /\ f[FileName[root]] = root
  BY DEF With
<1>2. FileName[root] \in STRING
  BY SchemasAssumption
<1> HIDE DEF f
<1>3. Range(f) = {root}
  BY <1>1 DEF Range
<1>4. FileRight(root, f)
  BY <1>1, <1>2, <1>3, ReachedIsClosed DEF FileRight, Named
<1> QED BY <1>1, <1>4, ReachedIsClosed DEF Reaching, Refs, f

LEMMA ReachingSkips ==
    ASSUME NEW root, NEW f, NEW ahead \in RefSeq, ahead # <<>>,
           Head(ahead).name \in DOMAIN f, Reaching(root, f, ahead)
    PROVE  Reaching(root, f, Tail(ahead))
<1>1. ToSet(ahead) = {Head(ahead)} \union ToSet(Tail(ahead))
  BY ToSetOf DEF RefSeq
<1> QED BY <1>1 DEF Reaching

LEMMA ReachingFetches ==
    ASSUME NEW root \in Schemas, NEW f, NEW ahead \in RefSeq, ahead # <<>>,
           Head(ahead).name \notin DOMAIN f, Reaching(root, f, ahead)
    PROVE  Reaching(root, With(f, Head(ahead).name, Head(ahead).schema),
                    References[Head(ahead).schema] \o Tail(ahead))
<1> DEFINE h == Head(ahead)
           rest == Tail(ahead)
           refs == References[h.schema]
           g == With(f, h.name, h.schema)
<1>1. /\ ToSet(ahead) = {h} \union ToSet(rest) /\ rest \in RefSeq
      /\ h.name \in STRING /\ h.schema \in Schemas
  <2>1. ToSet(ahead) = {h} \union ToSet(rest) /\ rest \in RefSeq
        /\ h \in [name : STRING, schema : Schemas]
    BY ToSetOf DEF RefSeq
  <2> QED BY <2>1
<1> HIDE DEF h, rest
<1>2. refs \in RefSeq
  BY <1>1, RefsOf
<1>3. ToSet(refs \o rest) = Refs(h.schema) \union ToSet(rest)
  <2>1. ToSet(refs \o rest) = ToSet(refs) \union ToSet(rest)
    <3> HIDE DEF refs
    <3> QED BY <1>1, <1>2, ToSetOf DEF RefSeq
  <2> QED BY <2>1 DEF Refs
<1> HIDE DEF refs
<1>4. PICK s \in Reached(root) : h \in Refs(s)
  BY <1>1 DEF Reaching
<1>5. h.schema \in Reached(root)
  <2>1. h.schema \in Direct(s)
    BY <1>4 DEF Direct
  <2> QED BY <1>4, <2>1, ReachedIsClosed
<1>6. /\ DOMAIN g = DOMAIN f \union {h.name} /\ g[h.name] = h.schema
      /\ h.name \notin DOMAIN f /\ \A n \in DOMAIN f : g[n] = f[n]
  BY DEF With, h
<1> HIDE DEF g
<1>7. Range(g) = Range(f) \union {h.schema}
  BY <1>6 DEF Range
<1>8. FileRight(root, g)
  <2>1. Named(g) /\ Range(g) \subseteq Reached(root)
    BY <1>1, <1>5, <1>6, <1>7 DEF Reaching, FileRight, Named
  <2>2. FileName[root] \in DOMAIN g /\ g[FileName[root]] = root
    BY <1>6 DEF Reaching, FileRight
  <2>3. ASSUME NEW n \in DOMAIN g, n # FileName[root]
        PROVE  \E t \in Reached(root) : \E r \in Refs(t) : r.name = n /\ r.schema = g[n]
    <3>1. CASE n = h.name
      BY <1>4, <1>6, <3>1
    <3>2. CASE n # h.name
      BY <1>6, <2>3, <3>2 DEF Reaching, FileRight
    <3> QED BY <3>1, <3>2
  <2> QED BY <2>1, <2>2, <2>3 DEF FileRight
<1>9. \A q \in ToSet(refs \o rest) : \E t \in Reached(root) : q \in Refs(t)
  BY <1>1, <1>3, <1>5 DEF Reaching
<1>10. ASSUME NEW n \in DOMAIN g, NEW r \in Refs(g[n])
       PROVE  r.name \in DOMAIN g \/ r \in ToSet(refs \o rest)
  <2>1. CASE n = h.name
    BY <1>3, <1>6, <1>10, <2>1
  <2>2. CASE n # h.name
    <3>1. n \in DOMAIN f /\ r \in Refs(f[n])
      BY <1>6, <1>10, <2>2
    <3>2. r.name \in DOMAIN f \/ r \in ToSet(ahead)
      BY <3>1 DEF Reaching
    <3> QED BY <1>1, <1>3, <1>6, <3>2
  <2> QED BY <2>1, <2>2
<1>11. Reaching(root, g, refs \o rest)
  BY <1>8, <1>9, <1>10 DEF Reaching
<1> QED BY <1>11 DEF g, h, rest, refs

LEMMA ReachingEnds ==
    ASSUME NEW root, NEW f, Reaching(root, f, <<>>)
    PROVE  FileRight(root, f) /\ Found(f)
<1>1. ToSet(<<>>) = {}
  BY DEF ToSet
<1> QED BY <1>1 DEF Reaching, Found

\* Where no name stands for two schemas, each import is in the version its reference
\* names, and nothing that is reached is missing.
LEMMA NothingSkewed ==
    ASSUME NEW root \in Schemas, NEW f, FileRight(root, f), Found(f), Unambiguous(root)
    PROVE  ~Skewed(f) /\ Range(f) = Reached(root)
<1>1. ASSUME NEW n \in DOMAIN f, NEW r \in Refs(f[n])
      PROVE  r.name \in DOMAIN f /\ f[r.name] = r.schema
  <2>1. r.name \in DOMAIN f
    BY <1>1 DEF Found
  <2>2. f[n] \in Reached(root)
    BY DEF FileRight, Range
  <2>3. CASE r.name = FileName[root]
    <3>1. r.schema = root
      BY <1>1, <2>2, <2>3 DEF Unambiguous
    <3> QED BY <2>1, <2>3, <3>1 DEF FileRight
  <2>4. CASE r.name # FileName[root]
    <3>1. PICK s \in Reached(root) : \E q \in Refs(s) :
             q.name = r.name /\ q.schema = f[r.name]
      BY <2>1, <2>4 DEF FileRight
    <3>2. PICK q \in Refs(s) : q.name = r.name /\ q.schema = f[r.name]
      BY <3>1
    <3>3. q.schema = r.schema
      BY <1>1, <2>2, <3>2 DEF Unambiguous
    <3> QED BY <2>1, <3>2, <3>3
  <2> QED BY <2>3, <2>4
<1>2. ~Skewed(f)
  BY <1>1 DEF Skewed
<1>3. ASSUME NEW s \in Range(f) PROVE Direct(s) \subseteq Range(f)
  <2>1. PICK n \in DOMAIN f : s = f[n]
    BY <1>3 DEF Range
  <2> SUFFICES ASSUME NEW r \in Refs(s) PROVE r.schema \in Range(f)
    BY DEF Direct
  <2>2. r.name \in DOMAIN f /\ f[r.name] = r.schema
    BY <1>1, <2>1
  <2> QED BY <2>2 DEF Range
<1>4. root \in Range(f) /\ Range(f) \in SUBSET Schemas /\ Closed(Range(f))
  BY <1>3 DEF FileRight, Named, Range, Closed
<1>5. Imports[root] \subseteq Range(f)
  BY <1>3, <1>4, LeastImports
<1>6. Range(f) = Reached(root)
  BY <1>4, <1>5 DEF FileRight, Reached
<1> QED BY <1>2, <1>6

\* And a circle of names is one of schemas.
LEMMA CircleOfImports ==
    ASSUME NEW root \in Schemas, NEW f, FileRight(root, f), Found(f), Unambiguous(root),
           Circular(f)
    PROVE  ImportsCircle(root)
<1>1. PICK names \in SUBSET DOMAIN f :
        names # {} /\ \A n \in names : \E r \in Refs(f[n]) : r.name \in names
  BY DEF Circular
<1> DEFINE circle == {f[n] : n \in names}
<1>2. circle \in SUBSET Reached(root) /\ circle # {}
  BY <1>1 DEF FileRight, Range
<1>3. ASSUME NEW s \in circle PROVE Direct(s) \intersect circle # {}
  <2>1. PICK n \in names : s = f[n]
    BY <1>3
  <2>2. PICK r \in Refs(f[n]) : r.name \in names
    BY <1>1
  <2>3. f[r.name] = r.schema
    BY <1>1, <2>2, NothingSkewed DEF Skewed
  <2>4. r.schema \in circle
    BY <2>2, <2>3
  <2>5. r.schema \in Direct(s)
    BY <2>1, <2>2 DEF Direct
  <2> QED BY <2>4, <2>5
<1> HIDE DEF circle
<1> QED BY <1>2, <1>3 DEF ImportsCircle

-----------------------------------------------------------------------------
(* What a goroutine shows *)

\* What a sender wrote is what the receivers read.
LEMMA SentIsRead ==
    ASSUME NEW r \in Records, r.by # "raw"
    PROVE  /\ HeaderOf[r].ok = TRUE /\ HeaderOf[r].id = r.id /\ r.id \in Schemas
           /\ Type[r.id] # "PROTOBUF" => HeaderOf[r].payload = r.payload
           /\ Type[r.id] = "PROTOBUF" =>
                 IndexesOf[r] = [ok |-> TRUE, panics |-> FALSE, path |-> r.path,
                                 payload |-> r.payload]
<1>1. /\ r.by \in {"rp", "avro", "proto"} /\ r.id \in Schemas
      /\ r.path \in Seq(0..63) /\ r.payload \in Bytes
      /\ r.by = "avro" <=> Type[r.id] # "PROTOBUF"
      /\ r.by = "rp" => r.path = <<0>>
      /\ r.by = "proto" => Len(r.path) \in 1..63
  BY RecordsAssumption DEF Bytes, Byte
<1>2. r.id \in Nat /\ IsUint32(r.id)
  BY <1>1, SchemasAssumption
<1>3. HeaderOf[r] = ExtractSchemaID(Value(r))
      /\ IndexesOf[r] = ParseMessageIndexes(HeaderOf[r].payload)
  BY DEF HeaderOf, IndexesOf
<1>4. CASE r.by = "avro"
  <2>1. Value(r) = EncodeAvro(r.payload, r.id)
    BY <1>4 DEF Value
  <2>2. HeaderOf[r] = [ok |-> TRUE, id |-> r.id, payload |-> r.payload]
    BY <1>1, <1>2, <1>3, <2>1, HeaderIsRead
  <2> QED BY <1>1, <1>4, <2>2
<1>5. ASSUME NEW path \in Seq(0..63), Len(path) \in 1..63, r.path = path,
             r.by # "avro", Value(r) = EncodeAvro(PutIndexes(path) \o r.payload, r.id)
      PROVE  /\ HeaderOf[r].ok = TRUE /\ HeaderOf[r].id = r.id
             /\ IndexesOf[r] = [ok |-> TRUE, panics |-> FALSE, path |-> r.path,
                                payload |-> r.payload]
  <2> DEFINE body == PutIndexes(path) \o r.payload
  <2>1. /\ body \in Bytes
        /\ ParseMessageIndexes(body) =
              [ok |-> TRUE, panics |-> FALSE, path |-> path, payload |-> r.payload]
    BY <1>1, <1>5, IndexesAreRead
  <2>2. Value(r) = EncodeAvro(body, r.id)
    BY <1>5
  <2> HIDE DEF body
  <2>3. HeaderOf[r] = [ok |-> TRUE, id |-> r.id, payload |-> body]
    BY <1>2, <1>3, <2>1, <2>2, HeaderIsRead
  <2>4. HeaderOf[r].ok = TRUE /\ HeaderOf[r].id = r.id /\ HeaderOf[r].payload = body
    BY <2>3
  <2>5. IndexesOf[r] = ParseMessageIndexes(body)
    BY <1>3, <2>4
  <2>6. r.path = path
    BY <1>5
  <2> QED BY <2>1, <2>4, <2>5, <2>6
<1>6. CASE r.by = "rp"
  <2>1. Value(r) = EncodeAvro(<<0>> \o r.payload, r.id)
    BY <1>1, <1>2, <1>6, HeaderWithZero DEF Value
  <2>2. PutIndexes(<<0>>) = <<0>>
    BY DEF PutIndexes
  <2>3. <<0>> \in Seq(0..63) /\ Len(<<0>>) \in 1..63
    OBVIOUS
  <2>4. Value(r) = EncodeAvro(PutIndexes(<<0>>) \o r.payload, r.id)
    BY <2>1, <2>2
  <2>5. r.path = <<0>> /\ r.by # "avro"
    BY <1>1, <1>6
  <2> QED BY <1>1, <1>5, <1>6, <2>3, <2>4, <2>5
<1>7. CASE r.by = "proto"
  <2>1. Value(r) = EncodeAvro(PutIndexes(r.path) \o r.payload, r.id)
    BY <1>7 DEF Value, EncodeProto
  <2>2. Len(r.path) \in 1..63 /\ r.by # "avro"
    BY <1>1, <1>7
  <2> QED BY <1>1, <1>5, <1>7, <2>1, <2>2
<1> QED BY <1>1, <1>4, <1>6, <1>7

\* What other goroutines do is nothing to this one, but for the caches.
LEMMA Apart ==
    ASSUME NEW d, RestsOrWorks(d),
           pc'[d] = pc[d], rec'[d] = rec[d], info'[d] = info[d], sources'[d] = sources[d],
           todo'[d] = todo[d], failed'[d] = failed[d], result'[d] = result[d]
    PROVE  RestsOrWorks(d)'
<1>1. Rests(d) => Rests(d)'
  BY DEF Rests
<1>2. Works(d) => Works(d)'
  BY DEF Works, Header, Indexes
<1> QED BY <1>1, <1>2 DEF RestsOrWorks

LEMMA NothingNamed == Named(<<>>)
BY DEF Named, Range

\* A goroutine that returns shows what it may show, and lets go of the rest.
LEMMA ShowReturns ==
    ASSUME NEW c \in Callers, NEW what, DecodeInv, Show(c, what),
           panicked' \in BOOLEAN, faults' \in 0..MaxFaults,
           failed' \in [Callers -> BOOLEAN],
           \A d \in Callers : d # c => failed'[d] = failed[d],
           what.as \in {"nothing", "plain", "hex", "text", "message", "error"},
           TrulyShown(rec[c], what),
           what.as = "error" => failed'[c] \/ Hopeless(rec[c])
    PROVE  DecodeTypes' /\ \A d \in Callers : RestsOrWorks(d)'
<1>1. DecodeTypes'
  <2>1. NoInfo \in Infos /\ <<>> \in RefSeq /\ "idle" \in Places
    BY DEF NoInfo, Infos, Places, RefSeq
  <2>2. /\ DOMAIN sources' = Callers /\ sources'[c] = <<>>
        /\ \A d \in Callers : d # c => sources'[d] = sources[d]
    BY DEF Show, DecodeInv, DecodeTypes
  <2>3. \A d \in Callers : Named(sources'[d])
    BY <2>2, NothingNamed DEF DecodeInv, DecodeTypes
  <2> QED BY <2>1, <2>2, <2>3 DEF Show, Goes, DecodeInv, DecodeTypes
<1>2. /\ pc'[c] = "idle" /\ result'[c] = what /\ rec' = rec
      /\ \A d \in Callers : d # c =>
            /\ pc'[d] = pc[d] /\ info'[d] = info[d] /\ sources'[d] = sources[d]
            /\ todo'[d] = todo[d] /\ result'[d] = result[d]
  BY DEF Show, Goes, DecodeInv, DecodeTypes
<1>3. RestsOrWorks(c)'
  <2>1. Rests(c)'
    BY <1>2 DEF Rests
  <2> QED BY <1>2, <2>1 DEF RestsOrWorks
<1>4. ASSUME NEW d \in Callers, d # c PROVE RestsOrWorks(d)'
  BY <1>2, <1>4, Apart DEF DecodeInv
<1> QED BY <1>1, <1>3, <1>4

LEMMA ErrorReturns ==
    ASSUME NEW c \in Callers, DecodeInv, ShowError(c),
           panicked' \in BOOLEAN, faults' \in 0..MaxFaults,
           failed' \in [Callers -> BOOLEAN],
           \A d \in Callers : d # c => failed'[d] = failed[d],
           failed'[c] \/ Hopeless(rec[c])
    PROVE  DecodeTypes' /\ \A d \in Callers : RestsOrWorks(d)'
<1> DEFINE what == [Nothing EXCEPT !.as = "error"]
<1>1. what.as = "error"
  BY DEF Nothing
<1>2. TrulyShown(rec[c], what)
  BY <1>1 DEF TrulyShown
<1>3. Show(c, what)
  BY DEF ShowError
<1> HIDE DEF what
<1> QED BY <1>1, <1>2, <1>3, ShowReturns

LEMMA AtWork ==
    ASSUME NEW c \in Callers, DecodeInv, pc[c] # "idle"
    PROVE  Works(c)
BY DEF DecodeInv, RestsOrWorks

\* Whatever there is in the record, what sent it is what is taken for its header.
LEMMA OfSender ==
    ASSUME NEW c \in Callers, Works(c), rec[c].by # "raw"
    PROVE  /\ Header(c).id = rec[c].id
           /\ Type[rec[c].id] # "PROTOBUF" => Header(c).payload = rec[c].payload
           /\ Type[rec[c].id] = "PROTOBUF" =>
                 Indexes(c) = [ok |-> TRUE, panics |-> FALSE, path |-> rec[c].path,
                               payload |-> rec[c].payload]
BY SentIsRead DEF Works, Header, Indexes

-----------------------------------------------------------------------------
(* Every step keeps the invariant *)

LEMMA InitDecodes == Init => DecodeInv
<1> SUFFICES ASSUME Init PROVE DecodeInv
  OBVIOUS
<1>1. DecodeTypes
  <2>1. NoInfo \in Infos /\ <<>> \in RefSeq /\ "idle" \in Places
    BY DEF NoInfo, Infos, Places, RefSeq
  <2>2. 0 \in 0..MaxFaults /\ Configured \subseteq BOOLEAN
    BY SettingsAssumption
  <2>3. sr \in BOOLEAN /\ panicked \in BOOLEAN /\ faults \in 0..MaxFaults
    BY <2>2 DEF Init
  <2>4. /\ pc \in [Callers -> Places] /\ info \in [Callers -> Infos]
        /\ rec \in [Callers -> Records \union {NoRecord}]
        /\ failed \in [Callers -> BOOLEAN] /\ DOMAIN result = Callers
    BY <2>1 DEF Init
  <2>5. DOMAIN sources = Callers /\ \A c \in Callers : Named(sources[c])
    BY NothingNamed DEF Init
  <2>6. todo \in [Callers -> RefSeq]
    BY <2>1 DEF Init
  <2> QED BY <2>3, <2>4, <2>5, <2>6 DEF DecodeTypes
<1>2. DOMAIN byID = {} /\ DOMAIN fileCache = {}
  BY DEF Init
<1>3. ASSUME NEW c \in Callers PROVE RestsOrWorks(c)
  <2>1. pc[c] = "idle" /\ result[c] = Nothing
    BY DEF Init
  <2>2. result[c].as = "nothing"
    BY <2>1 DEF Nothing
  <2> QED BY <2>1, <2>2 DEF RestsOrWorks, Rests, TrulyShown
<1> QED BY <1>1, <1>2, <1>3 DEF DecodeInv, Cached, Compiled

LEMMA DecodeKeeps ==
    ASSUME NEW c \in Callers, NEW r \in Records, DecodeInv, Decode(c, r)
    PROVE  DecodeInv'
<1> DEFINE h == HeaderOf[r]
           shown == [Nothing EXCEPT !.as = IF h.ok THEN "hex" ELSE "plain",
                                    !.payload = h.payload]
<1>1. DecodeTypes'
  <2>1. "lookup" \in Places
    BY DEF Places
  <2> QED BY <2>1 DEF Decode, Goes, DecodeInv, DecodeTypes
<1>2. Cached' /\ Compiled'
  BY DEF Decode, DecodeInv, Cached, Compiled
<1>3. rec'[c] = r /\ pc[c] = "idle"
  BY DEF Decode, DecodeInv, DecodeTypes
<1>4. ASSUME NEW d \in Callers, d # c PROVE RestsOrWorks(d)'
  <2>1. /\ pc'[d] = pc[d] /\ rec'[d] = rec[d] /\ info'[d] = info[d]
        /\ sources'[d] = sources[d] /\ todo'[d] = todo[d] /\ failed'[d] = failed[d]
        /\ result'[d] = result[d]
    BY <1>4 DEF Decode, Goes, DecodeInv, DecodeTypes
  <2> QED BY <2>1, Apart DEF DecodeInv
<1>5. RestsOrWorks(c)'
  <2>1. CASE h.ok /\ sr
    <3>1. pc'[c] = "lookup" /\ result'[c] = Nothing
      BY <2>1 DEF Decode, Goes, DecodeInv, DecodeTypes
    <3>2. Works(c)'
      BY <1>3, <2>1, <3>1 DEF Works, Header, Nothing
    <3> QED BY <3>1, <3>2 DEF RestsOrWorks
  <2>2. CASE ~(h.ok /\ sr)
    <3>1. pc'[c] = "idle" /\ result'[c] = shown
      BY <1>3, <2>2 DEF Decode, DecodeInv, DecodeTypes
    <3>2. shown.as = IF h.ok THEN "hex" ELSE "plain"
      BY DEF Nothing
    <3>3. TrulyShown(r, shown)
      <4>1. CASE r.by = "raw"
        BY <4>1 DEF TrulyShown
      <4>2. CASE r.by # "raw"
        <5>1. shown.as = "hex"
          BY <3>2, <4>2, SentIsRead
        <5> HIDE DEF shown
        <5> QED BY <5>1 DEF TrulyShown
      <4> QED BY <4>1, <4>2
    <3> HIDE DEF shown, h
    <3>4. Rests(c)'
      BY <1>3, <3>1, <3>2, <3>3 DEF Rests
    <3> QED BY <3>1, <3>4 DEF RestsOrWorks
  <2> QED BY <2>1, <2>2
<1> QED BY <1>1, <1>2, <1>4, <1>5 DEF DecodeInv

LEMMA LookupKeeps ==
    ASSUME NEW c \in Callers, DecodeInv, Lookup(c)
    PROVE  DecodeInv'
<1> DEFINE id == Header(c).id
<1>1. DecodeTypes'
  <2>1. "render" \in Places /\ "fetch" \in Places
    BY DEF Places
  <2>2. ASSUME id \in DOMAIN byID PROVE byID[id] \in Infos
    <3>1. byID[id] = Answer(id, id) /\ id \in Schemas
      BY <2>2 DEF DecodeInv, Cached
    <3> QED BY <3>1 DEF Answer, Infos
  <2> HIDE DEF id
  <2>3. info' \in [Callers -> Infos]
    BY <2>2 DEF Lookup, DecodeInv, DecodeTypes, id
  <2>4. pc' \in [Callers -> Places]
    BY <2>1 DEF Lookup, Goes, DecodeInv, DecodeTypes
  <2> QED BY <2>3, <2>4 DEF Lookup, DecodeInv, DecodeTypes
<1>2. Cached' /\ Compiled'
  BY DEF Lookup, DecodeInv, Cached, Compiled
<1>3. ASSUME NEW d \in Callers, d # c PROVE RestsOrWorks(d)'
  <2>1. /\ pc'[d] = pc[d] /\ rec'[d] = rec[d] /\ info'[d] = info[d]
        /\ sources'[d] = sources[d] /\ todo'[d] = todo[d] /\ failed'[d] = failed[d]
        /\ result'[d] = result[d]
    BY <1>3 DEF Lookup, Goes, DecodeInv, DecodeTypes
  <2> QED BY <2>1, Apart DEF DecodeInv
<1>4. Works(c) /\ rec' = rec /\ result' = result
  BY AtWork DEF Lookup
<1>5. RestsOrWorks(c)'
  <2>1. CASE id \in DOMAIN byID
    <3>1. pc'[c] = "render" /\ info'[c] = byID[id]
      BY <2>1 DEF Lookup, Goes, DecodeInv, DecodeTypes
    <3>2. byID[id] = Answer(id, id) /\ id \in Schemas
      BY <2>1 DEF DecodeInv, Cached
    <3>3. Works(c)'
      BY <1>4, <3>1, <3>2 DEF Works, Header
    <3> QED BY <3>1, <3>3 DEF RestsOrWorks
  <2>2. CASE id \notin DOMAIN byID
    <3>1. pc'[c] = "fetch"
      BY <2>2 DEF Lookup, Goes, DecodeInv, DecodeTypes
    <3>2. Works(c)'
      BY <1>4, <3>1 DEF Works, Header
    <3> QED BY <3>1, <3>2 DEF RestsOrWorks
  <2> QED BY <2>1, <2>2
<1> QED BY <1>1, <1>2, <1>3, <1>5 DEF DecodeInv

LEMMA FetchedKeeps ==
    ASSUME NEW c \in Callers, DecodeInv, Fetched(c)
    PROVE  DecodeInv'
<1> DEFINE id == Header(c).id
<1>1. id \in Schemas
  BY DEF Fetched
<1>2. DecodeTypes'
  <2>1. "render" \in Places /\ Answer(id, id) \in Infos
    BY <1>1 DEF Places, Answer, Infos
  <2> QED BY <2>1 DEF Fetched, Goes, DecodeInv, DecodeTypes
<1>3. Cached'
  <2>1. byID' = [x \in DOMAIN byID \union {id} |->
                   IF x = id THEN Answer(id, id) ELSE byID[x]]
    BY DEF Fetched, With
  <2> HIDE DEF id
  <2> QED BY <1>1, <2>1 DEF DecodeInv, Cached
<1>4. Compiled'
  BY DEF Fetched, DecodeInv, Compiled
<1>5. ASSUME NEW d \in Callers, d # c PROVE RestsOrWorks(d)'
  <2>1. /\ pc'[d] = pc[d] /\ rec'[d] = rec[d] /\ info'[d] = info[d]
        /\ sources'[d] = sources[d] /\ todo'[d] = todo[d] /\ failed'[d] = failed[d]
        /\ result'[d] = result[d]
    BY <1>5 DEF Fetched, Goes, DecodeInv, DecodeTypes
  <2> QED BY <2>1, Apart DEF DecodeInv
<1>6. RestsOrWorks(c)'
  <2>1. Works(c) /\ rec' = rec /\ result' = result
    BY AtWork DEF Fetched
  <2>2. pc'[c] = "render" /\ info'[c] = Answer(id, id)
    BY DEF Fetched, Goes, DecodeInv, DecodeTypes
  <2>3. Works(c)'
    BY <1>1, <2>1, <2>2 DEF Works, Header
  <2> QED BY <2>2, <2>3 DEF RestsOrWorks
<1> QED BY <1>2, <1>3, <1>4, <1>5, <1>6 DEF DecodeInv

LEMMA FetchFailsKeeps ==
    ASSUME NEW c \in Callers, DecodeInv, FetchFails(c)
    PROVE  DecodeInv'
<1>1. /\ panicked' \in BOOLEAN /\ failed' \in [Callers -> BOOLEAN] /\ failed'[c] = TRUE
      /\ \A d \in Callers : d # c => failed'[d] = failed[d]
  BY DEF FetchFails, DecodeInv, DecodeTypes
<1>2. faults' \in 0..MaxFaults
  BY SettingsAssumption DEF FetchFails, DecodeInv, DecodeTypes
<1>3. DecodeTypes' /\ \A d \in Callers : RestsOrWorks(d)'
  BY <1>1, <1>2, ErrorReturns DEF FetchFails
<1>4. Cached' /\ Compiled'
  BY DEF FetchFails, DecodeInv, Cached, Compiled
<1> QED BY <1>3, <1>4 DEF DecodeInv

LEMMA RenderKeeps ==
    ASSUME NEW c \in Callers, DecodeInv, Render(c)
    PROVE  DecodeInv'
<1> DEFINE r == rec[c]
<1>1. Works(c) /\ r \in Records /\ info[c].schema = Header(c).id
      /\ Type[info[c].schema] # "PROTOBUF"
  BY AtWork DEF Render, Works, Answer
<1>2. /\ panicked' \in BOOLEAN /\ failed' \in [Callers -> BOOLEAN] /\ failed' = failed
      /\ faults' \in 0..MaxFaults
  BY DEF Render, DecodeInv, DecodeTypes
<1>3. Cached' /\ Compiled'
  BY DEF Render, DecodeInv, Cached, Compiled
<1>4. CASE Unreadable(c)
  <2>1. ShowError(c) /\ Hopeless(r)
    BY <1>4 DEF Render, Unreadable, Hopeless
  <2>2. DecodeTypes' /\ \A d \in Callers : RestsOrWorks(d)'
    BY <1>2, <2>1, ErrorReturns
  <2> QED BY <1>3, <2>2 DEF DecodeInv
<1>5. CASE ~Unreadable(c)
  <2> DEFINE known == Type[info[c].schema] \in {"AVRO", "JSON"}
             what == [as |-> IF known THEN "text" ELSE "hex", schema |-> info[c].schema,
                      path |-> <<>>, payload |-> Header(c).payload]
  <2>1. Show(c, what)
    BY <1>5 DEF Render
  <2>2. /\ what.as \in {"text", "hex"} /\ what.schema = info[c].schema
        /\ what.payload = Header(c).payload
    OBVIOUS
  <2> HIDE DEF what
  <2>3. TrulyShown(r, what)
    <3>1. CASE r.by = "raw"
      BY <3>1 DEF TrulyShown
    <3>2. CASE r.by # "raw"
      <4>1. what.schema = r.id /\ what.payload = r.payload
        BY <1>1, <2>2, <3>2, OfSender
      <4> QED BY <2>2, <4>1 DEF TrulyShown
    <3> QED BY <3>1, <3>2
  <2>4. what.as \in {"nothing", "plain", "hex", "text", "message", "error"} /\ what.as # "error"
    BY <2>2
  <2>5. DecodeTypes' /\ \A d \in Callers : RestsOrWorks(d)'
    BY <1>2, <2>1, <2>3, <2>4, ShowReturns
  <2> QED BY <1>3, <2>5 DEF DecodeInv
<1> QED BY <1>4, <1>5

LEMMA RenderProtoKeeps ==
    ASSUME NEW c \in Callers, DecodeInv, RenderProto(c)
    PROVE  DecodeInv'
<1>1. /\ Works(c) /\ rec[c] \in Records /\ info[c].schema = Header(c).id
      /\ Type[Header(c).id] = "PROTOBUF"
  BY AtWork DEF RenderProto, Works, Answer
<1>2. /\ failed' = failed /\ failed \in [Callers -> BOOLEAN] /\ faults' \in 0..MaxFaults
      /\ panicked' \in BOOLEAN
  BY DEF RenderProto, ShowError, DecodeInv, DecodeTypes
<1>3. Cached' /\ Compiled'
  BY DEF RenderProto, DecodeInv, Cached, Compiled
<1>4. CASE Indexes(c).ok /\ Goes(c, "file")
           /\ UNCHANGED <<sr, rec, info, sources, todo, result, panicked>>
  <2>1. DecodeTypes'
    <3>1. "file" \in Places
      BY DEF Places
    <3> QED BY <1>2, <1>4, <3>1 DEF Goes, DecodeInv, DecodeTypes
  <2>2. ASSUME NEW d \in Callers, d # c PROVE RestsOrWorks(d)'
    <3>1. pc'[d] = pc[d]
      BY <1>4, <2>2 DEF Goes, DecodeInv, DecodeTypes
    <3> QED BY <1>2, <1>4, <3>1, Apart DEF DecodeInv
  <2>3. RestsOrWorks(c)'
    <3>1. pc'[c] = "file"
      BY <1>4 DEF Goes, DecodeInv, DecodeTypes
    <3>2. pc[c] = "render"
      BY DEF RenderProto
    <3>3. Works(c)'
      BY <1>1, <1>4, <3>1, <3>2 DEF Works, Header, Indexes
    <3> QED BY <3>1, <3>3 DEF RestsOrWorks
  <2> QED BY <1>3, <2>1, <2>2, <2>3 DEF DecodeInv
<1>5. CASE ~Indexes(c).ok /\ ~Indexes(c).panics /\ ShowError(c)
  <2>1. rec[c].by = "raw"
    BY <1>1, <1>5, OfSender
  <2>2. Hopeless(rec[c])
    BY <2>1 DEF Hopeless
  <2>3. DecodeTypes' /\ \A d \in Callers : RestsOrWorks(d)'
    BY <1>2, <1>5, <2>2, ErrorReturns
  <2> QED BY <1>3, <2>3 DEF DecodeInv
<1>6. CASE UNCHANGED <<sr, pc, rec, info, sources, todo, result>>
  <2>1. DecodeTypes'
    BY <1>2, <1>6 DEF DecodeInv, DecodeTypes
  <2>2. ASSUME NEW d \in Callers PROVE RestsOrWorks(d)'
    BY <1>2, <1>6, Apart DEF DecodeInv
  <2> QED BY <1>3, <2>1, <2>2 DEF DecodeInv
<1> QED BY <1>4, <1>5, <1>6 DEF RenderProto

\* A message is shown if the indexes lead to one of the schema of the record.
LEMMA ShowMessageReturns ==
    ASSUME NEW c \in Callers, NEW file, DecodeInv, pc[c] \in {"file", "collect"},
           file.root = Header(c).id, ShowMessage(c, file), UNCHANGED <<panicked, faults, failed>>
    PROVE  DecodeTypes' /\ \A d \in Callers : RestsOrWorks(d)'
<1> DEFINE r == rec[c]
           what == [as |-> "message", schema |-> file.root, path |-> Indexes(c).path,
                    payload |-> Indexes(c).payload]
<1>1. Works(c) /\ r \in Records /\ Type[Header(c).id] = "PROTOBUF" /\ Header(c).id \in Schemas
  BY AtWork DEF Works
<1>2. /\ failed' \in [Callers -> BOOLEAN] /\ faults' \in 0..MaxFaults /\ panicked' \in BOOLEAN
      /\ failed' = failed
  BY DEF DecodeInv, DecodeTypes
<1>3. ASSUME r.by # "raw"
      PROVE  /\ file.root = r.id /\ Indexes(c).path = r.path
             /\ Indexes(c).payload = r.payload
  <2>1. /\ Header(c).id = r.id
        /\ Indexes(c) = [ok |-> TRUE, panics |-> FALSE, path |-> r.path,
                         payload |-> r.payload]
    BY <1>1, <1>3, OfSender
  <2> QED BY <2>1
<1>4. CASE InRange(file, Indexes(c).path) /\ ~Unreadable(c)
  <2>1. Show(c, what)
    BY <1>4 DEF ShowMessage
  <2>2. /\ what.as = "message" /\ what.schema = file.root
        /\ what.path = Indexes(c).path /\ what.payload = Indexes(c).payload
    OBVIOUS
  <2> HIDE DEF what
  <2>3. TrulyShown(r, what)
    <3>1. CASE r.by = "raw"
      BY <3>1 DEF TrulyShown
    <3>2. CASE r.by # "raw"
      BY <1>3, <2>2, <3>2 DEF TrulyShown
    <3> QED BY <3>1, <3>2
  <2>4. what.as \in {"nothing", "plain", "hex", "text", "message", "error"} /\ what.as # "error"
    BY <2>2
  <2> QED BY <1>2, <2>1, <2>3, <2>4, ShowReturns
<1>5. CASE ~(InRange(file, Indexes(c).path) /\ ~Unreadable(c))
  <2>1. ShowError(c)
    BY <1>5 DEF ShowMessage
  <2>2. Hopeless(r)
    <3>1. CASE r.by = "raw"
      BY <3>1 DEF Hopeless
    <3>2. CASE r.by # "raw"
      <4>1. ~Unreadable(c)
        BY <3>2 DEF Unreadable
      <4>2. PICK i \in DOMAIN r.path : SubSeq(r.path, 1, i) \notin Messages[r.id]
        BY <1>3, <1>5, <3>2, <4>1 DEF InRange
      <4>3. r.id \in Schemas
        BY <1>1, <3>2, SentIsRead
      <4>4. r.path \notin Messages[r.id]
        BY <4>2, <4>3, SchemasAssumption
      <4> QED BY <4>4 DEF Hopeless
    <3> QED BY <3>1, <3>2
  <2> QED BY <1>2, <2>1, <2>2, ErrorReturns
<1> QED BY <1>4, <1>5

LEMMA FileLookupKeeps ==
    ASSUME NEW c \in Callers, DecodeInv, FileLookup(c)
    PROVE  DecodeInv'
<1> DEFINE id == Header(c).id
<1>1. Works(c) /\ pc[c] = "file" /\ id \in Schemas /\ info[c].ID = id /\ info[c].schema = id
  BY AtWork DEF FileLookup, Works, Answer
<1>2. Cached' /\ Compiled'
  BY DEF FileLookup, DecodeInv, Cached, Compiled
<1>3. UNCHANGED <<panicked, faults, failed>>
  BY DEF FileLookup
<1>4. CASE id \in DOMAIN fileCache
  <2>1. ShowMessage(c, fileCache[id])
    BY <1>1, <1>4 DEF FileLookup
  <2>2. fileCache[id].root = id
    BY <1>4 DEF DecodeInv, Compiled
  <2>3. DecodeTypes' /\ \A d \in Callers : RestsOrWorks(d)'
    BY <1>1, <1>3, <2>1, <2>2, ShowMessageReturns
  <2> QED BY <1>2, <2>3 DEF DecodeInv
<1>5. CASE id \notin DOMAIN fileCache
  <2> DEFINE f == With(<<>>, FileName[id], id)
  <2>1. /\ Goes(c, "collect") /\ sources' = [sources EXCEPT ![c] = f]
        /\ todo' = [todo EXCEPT ![c] = References[id]]
        /\ UNCHANGED <<sr, rec, info, result>>
    BY <1>1, <1>5 DEF FileLookup
  <2>2. /\ References[id] \in RefSeq /\ "collect" \in Places
        /\ Reaching(id, f, References[id]) /\ Named(f)
    <3> HIDE DEF id
    <3>1. Reaching(id, f, References[id])
      BY <1>1, ReachingBegins
    <3> HIDE DEF f
    <3> QED BY <1>1, <3>1, RefsOf DEF Places, Reaching, FileRight
  <2> HIDE DEF f
  <2>3. DecodeTypes'
    <3> HIDE DEF id
    <3>1. /\ DOMAIN sources' = Callers /\ sources'[c] = f
          /\ \A d \in Callers : d # c => sources'[d] = sources[d]
      BY <2>1 DEF DecodeInv, DecodeTypes
    <3>2. \A d \in Callers : Named(sources'[d])
      BY <2>2, <3>1 DEF DecodeInv, DecodeTypes
    <3>3. todo' \in [Callers -> RefSeq]
      BY <2>1, <2>2 DEF DecodeInv, DecodeTypes
    <3> QED BY <1>3, <2>1, <2>2, <3>1, <3>2, <3>3 DEF Goes, DecodeInv, DecodeTypes
  <2>4. ASSUME NEW d \in Callers, d # c PROVE RestsOrWorks(d)'
    <3>1. pc'[d] = pc[d] /\ sources'[d] = sources[d] /\ todo'[d] = todo[d]
      BY <2>1, <2>4 DEF Goes, DecodeInv, DecodeTypes
    <3> QED BY <1>3, <2>1, <3>1, Apart DEF DecodeInv
  <2>5. RestsOrWorks(c)'
    <3>1. pc'[c] = "collect" /\ sources'[c] = f /\ todo'[c] = References[id]
      BY <2>1 DEF Goes, DecodeInv, DecodeTypes
    <3>2. Works(c)'
      BY <1>1, <2>1, <2>2, <3>1 DEF Works, Header, Indexes
    <3> QED BY <3>1, <3>2 DEF RestsOrWorks
  <2> QED BY <1>2, <2>3, <2>4, <2>5 DEF DecodeInv
<1> QED BY <1>4, <1>5

\* A step of the collection, with what is collected and to do after it.
LEMMA CollectKeeps ==
    ASSUME NEW c \in Callers, DecodeInv, pc[c] = "collect",
           NEW files, NEW ahead \in RefSeq, Reaching(Header(c).id, files, ahead),
           DOMAIN sources' = Callers, sources'[c] = files,
           \A d \in Callers : d # c => sources'[d] = sources[d],
           todo' = [todo EXCEPT ![c] = ahead],
           UNCHANGED <<sr, byID, fileCache, pc, rec, info, failed, result, panicked, faults>>
    PROVE  DecodeInv'
<1>1. DecodeTypes'
  <2>1. \A d \in Callers : Named(sources'[d])
    BY DEF Reaching, FileRight, DecodeInv, DecodeTypes
  <2> QED BY <2>1 DEF DecodeInv, DecodeTypes
<1>2. Cached' /\ Compiled'
  BY DEF DecodeInv, Cached, Compiled
<1>3. ASSUME NEW d \in Callers, d # c PROVE RestsOrWorks(d)'
  <2>1. sources'[d] = sources[d] /\ todo'[d] = todo[d]
    BY <1>3 DEF DecodeInv, DecodeTypes
  <2> QED BY <2>1, Apart DEF DecodeInv
<1>4. RestsOrWorks(c)'
  <2>1. sources'[c] = files /\ todo'[c] = ahead
    BY DEF DecodeInv, DecodeTypes
  <2>2. Works(c)'
    BY <2>1, AtWork DEF Works, Header, Indexes
  <2> QED BY <2>2 DEF RestsOrWorks
<1> QED BY <1>1, <1>2, <1>3, <1>4 DEF DecodeInv

LEMMA SkipReferenceKeeps ==
    ASSUME NEW c \in Callers, DecodeInv, SkipReference(c)
    PROVE  DecodeInv'
<1> DEFINE ahead == todo[c]
           files == sources[c]
<1>1. /\ Works(c) /\ pc[c] = "collect" /\ ahead # <<>>
      /\ Head(ahead).name \in DOMAIN files
  BY AtWork DEF SkipReference, Collected
<1>2. ahead \in RefSeq
  BY DEF DecodeInv, DecodeTypes
<1>3. Reaching(Header(c).id, files, ahead)
  BY <1>1 DEF Works
<1>4. /\ todo' = [todo EXCEPT ![c] = Tail(ahead)]
      /\ UNCHANGED <<sr, byID, fileCache, pc, rec, info, failed, result, panicked, faults>>
      /\ DOMAIN sources' = Callers /\ sources'[c] = files
      /\ \A d \in Callers : d # c => sources'[d] = sources[d]
  BY DEF SkipReference, DecodeInv, DecodeTypes
<1> HIDE DEF ahead, files
<1>5. Reaching(Header(c).id, files, Tail(ahead))
  BY <1>1, <1>2, <1>3, ReachingSkips
<1>6. Tail(ahead) \in RefSeq
  BY <1>1, <1>2, ToSetOf DEF RefSeq
<1> QED BY <1>1, <1>4, <1>5, <1>6, CollectKeeps

LEMMA FetchReferenceKeeps ==
    ASSUME NEW c \in Callers, DecodeInv, FetchReference(c)
    PROVE  DecodeInv'
<1> DEFINE ahead == todo[c]
           f == sources[c]
           files == With(f, Head(ahead).name, Head(ahead).schema)
           next == References[Head(ahead).schema] \o Tail(ahead)
<1>1. /\ Works(c) /\ pc[c] = "collect" /\ ahead # <<>>
      /\ Head(ahead).name \notin DOMAIN f
  BY AtWork DEF FetchReference, Collected
<1>2. ahead \in RefSeq
  BY DEF DecodeInv, DecodeTypes
<1>3. Reaching(Header(c).id, f, ahead) /\ Header(c).id \in Schemas
  BY <1>1 DEF Works
<1>4. /\ sources' = [sources EXCEPT ![c] = files] /\ todo' = [todo EXCEPT ![c] = next]
      /\ UNCHANGED <<sr, byID, fileCache, pc, rec, info, failed, result, panicked, faults>>
  BY DEF FetchReference
<1> HIDE DEF ahead, f
<1>5. Reaching(Header(c).id, files, next)
  BY <1>1, <1>2, <1>3, ReachingFetches
<1>6. next \in RefSeq
  <2>1. Head(ahead) \in [name : STRING, schema : Schemas] /\ Tail(ahead) \in RefSeq
    BY <1>1, <1>2, ToSetOf DEF RefSeq
  <2>2. References[Head(ahead).schema] \in RefSeq
    BY <2>1, RefsOf
  <2> QED BY <2>1, <2>2 DEF RefSeq
<1> HIDE DEF files, next
<1>7. /\ DOMAIN sources' = Callers /\ sources'[c] = files
      /\ \A d \in Callers : d # c => sources'[d] = sources[d]
  BY <1>4 DEF DecodeInv, DecodeTypes
<1> QED BY <1>1, <1>4, <1>5, <1>6, <1>7, CollectKeeps

LEMMA FetchReferenceFailsKeeps ==
    ASSUME NEW c \in Callers, DecodeInv, FetchReferenceFails(c)
    PROVE  DecodeInv'
<1>1. /\ panicked' \in BOOLEAN /\ failed' \in [Callers -> BOOLEAN] /\ failed'[c] = TRUE
      /\ \A d \in Callers : d # c => failed'[d] = failed[d]
  BY DEF FetchReferenceFails, DecodeInv, DecodeTypes
<1>2. faults' \in 0..MaxFaults
  BY SettingsAssumption DEF FetchReferenceFails, DecodeInv, DecodeTypes
<1>3. DecodeTypes' /\ \A d \in Callers : RestsOrWorks(d)'
  BY <1>1, <1>2, ErrorReturns DEF FetchReferenceFails
<1>4. Cached' /\ Compiled'
  BY DEF FetchReferenceFails, DecodeInv, Cached, Compiled
<1> QED BY <1>3, <1>4 DEF DecodeInv

LEMMA CompileKeeps ==
    ASSUME NEW c \in Callers, DecodeInv, Compile(c)
    PROVE  DecodeInv'
<1> DEFINE id == Header(c).id
           f == sources[c]
           file == [root |-> info[c].schema, files |-> f]
<1>1. /\ Works(c) /\ pc[c] = "collect" /\ id \in Schemas /\ info[c].ID = id
      /\ info[c].schema = id /\ todo[c] = <<>> /\ Reaching(id, f, todo[c])
  BY AtWork DEF Compile, Works, Answer
<1>2. FileRight(id, f) /\ Found(f)
  <2>1. Reaching(id, f, <<>>)
    BY <1>1
  <2> HIDE DEF f, id
  <2> QED BY <2>1, ReachingEnds
<1>3. Cached' /\ UNCHANGED <<panicked, faults, failed>>
  BY DEF Compile, DecodeInv, Cached
<1>4. file.root = id /\ file.files = f
  BY <1>1
<1>5. CASE fileCache' = With(fileCache, info[c].ID, file) /\ ShowMessage(c, file)
  <2> HIDE DEF file, f, id
  <2>1. /\ DOMAIN fileCache' = DOMAIN fileCache \union {id} /\ fileCache'[id] = file
        /\ \A x \in DOMAIN fileCache : x # id => fileCache'[x] = fileCache[x]
    BY <1>1, <1>5 DEF With
  <2>2. Compiled'
    BY <1>1, <1>2, <1>4, <2>1 DEF DecodeInv, Compiled
  <2>3. DecodeTypes' /\ \A d \in Callers : RestsOrWorks(d)'
    BY <1>1, <1>3, <1>4, <1>5, ShowMessageReturns DEF id
  <2> QED BY <1>3, <2>2, <2>3 DEF DecodeInv
<1>6. CASE (~Found(f) \/ Circular(f) \/ Skewed(f)) /\ ShowError(c) /\ UNCHANGED fileCache
  <2>1. Hopeless(rec[c])
    <3>1. ASSUME Unambiguous(id) PROVE ImportsCircle(id)
      <4> HIDE DEF f, id
      <4>1. Circular(f)
        BY <1>1, <1>2, <1>6, <3>1, NothingSkewed
      <4> QED BY <1>1, <1>2, <3>1, <4>1, CircleOfImports
    <3> QED BY <3>1 DEF Hopeless, Header
  <2>2. /\ failed' \in [Callers -> BOOLEAN] /\ faults' \in 0..MaxFaults
        /\ panicked' \in BOOLEAN /\ failed' = failed
    BY <1>3 DEF DecodeInv, DecodeTypes
  <2>3. DecodeTypes' /\ \A d \in Callers : RestsOrWorks(d)'
    BY <1>6, <2>1, <2>2, ErrorReturns
  <2>4. Compiled'
    BY <1>6 DEF DecodeInv, Compiled
  <2> QED BY <1>3, <2>3, <2>4 DEF DecodeInv
<1> QED BY <1>5, <1>6 DEF Compile

LEMMA NextKeeps == DecodeInv /\ [Next]_vars => DecodeInv'
<1> SUFFICES ASSUME DecodeInv, [Next]_vars PROVE DecodeInv'
  OBVIOUS
<1>1. CASE Next
  <2>1. PICK c \in Callers : (\E r \in Records : Decode(c, r)) \/ Step(c)
    BY <1>1 DEF Next
  <2>2. CASE \E r \in Records : Decode(c, r)
    BY <2>2, DecodeKeeps
  <2>3. CASE Step(c)
    BY <2>3, LookupKeeps, FetchedKeeps, FetchFailsKeeps, RenderKeeps, RenderProtoKeeps,
       FileLookupKeeps, SkipReferenceKeeps, FetchReferenceKeeps, FetchReferenceFailsKeeps,
       CompileKeeps DEF Step
  <2> QED BY <2>1, <2>2, <2>3
<1>2. CASE UNCHANGED vars
  <2>1. DecodeTypes' /\ Cached' /\ Compiled'
    BY <1>2 DEF vars, DecodeInv, DecodeTypes, Cached, Compiled
  <2>2. ASSUME NEW d \in Callers PROVE RestsOrWorks(d)'
    BY <1>2, Apart DEF vars, DecodeInv
  <2> QED BY <2>1, <2>2 DEF DecodeInv
<1> QED BY <1>1, <1>2

LEMMA DecodeInvHolds == Spec => []DecodeInv
<1> QED BY InitDecodes, NextKeeps, PTL DEF Spec

-----------------------------------------------------------------------------
(* The theorems *)

\* Caches, goroutines and what they show keep their types, whatever the records say
\* and however many goroutines decode them.
THEOREM TypeCorrect == Spec => []TypeOK
<1>1. DecodeInv => TypeOK
  <2> SUFFICES ASSUME DecodeInv PROVE TypeOK
    OBVIOUS
  <2>1. /\ DOMAIN byID \subseteq Schemas
        /\ \A id \in DOMAIN byID : byID[id] \in Infos
    BY DEF DecodeInv, Cached, Answer, Infos
  <2>2. ASSUME NEW id \in DOMAIN fileCache
        PROVE  fileCache[id].root \in Schemas /\ Named(fileCache[id].files)
    BY DEF DecodeInv, Compiled, FileRight
  <2>3. ASSUME NEW c \in Callers, pc[c] \in {"render", "file", "collect"} PROVE info[c].ID > 0
    <3>0. pc[c] # "idle"
      BY <2>3
    <3>1. Header(c).id \in Schemas /\ info[c].ID = Header(c).id
      <4>1. Works(c)
        BY <3>0, AtWork
      <4>2. Header(c).id \in Schemas /\ info[c] = Answer(Header(c).id, Header(c).id)
        BY <2>3, <4>1 DEF Works
      <4> QED BY <4>2 DEF Answer
    <3>2. Header(c).id \in Nat \ {0}
      BY <3>1, SchemasAssumption
    <3> DEFINE id == Header(c).id
    <3> HIDE DEF id
    <3>3. info[c].ID = id /\ id \in Nat \ {0}
      BY <3>1, <3>2 DEF id
    <3> QED BY <3>3
  <2>4. ASSUME NEW c \in Callers
        PROVE  Named(sources[c]) /\ {r.schema : r \in ToSet(todo[c])} \subseteq Schemas
    <3>1. todo[c] \in RefSeq /\ Named(sources[c])
      BY DEF DecodeInv, DecodeTypes
    <3>2. ToSet(todo[c]) \subseteq [name : STRING, schema : Schemas]
      BY <3>1, ToSetOf DEF RefSeq
    <3> QED BY <3>1, <3>2
  <2>5. ASSUME NEW c \in Callers
        PROVE  result[c].as \in {"nothing", "plain", "hex", "text", "message", "error"}
    BY DEF DecodeInv, RestsOrWorks, Rests, Works
  <2>6. DOMAIN fileCache \subseteq Schemas
    BY DEF DecodeInv, Compiled
  <2> QED BY <2>1, <2>2, <2>3, <2>4, <2>5, <2>6
          DEF TypeOK, DecodeInv, DecodeTypes, Places
<1> QED BY <1>1, DecodeInvHolds, PTL

\* A compiled file is cached under the ID of its root with a file for every import,
\* by its name, and none from outside; where no name stands for two schemas, the
\* files are exactly the ones the references lead to, each in the version they name.
THEOREM ImportsExact == Spec => []ImportsComplete
<1>1. DecodeInv => ImportsComplete
  <2> SUFFICES ASSUME DecodeInv, NEW id \in DOMAIN fileCache, NEW f,
                      f = fileCache[id].files
               PROVE  /\ fileCache[id].root = id /\ f[FileName[id]] = id
                      /\ Range(f) \subseteq Reached(id) /\ Found(f)
                      /\ Unambiguous(id) => Range(f) = Reached(id) /\ ~Skewed(f)
    BY DEF ImportsComplete
  <2>1. id \in Schemas /\ fileCache[id].root = id /\ FileRight(id, f) /\ Found(f)
    BY DEF DecodeInv, Compiled
  <2>2. Unambiguous(id) => Range(f) = Reached(id) /\ ~Skewed(f)
    BY <2>1, NothingSkewed
  <2> QED BY <2>1, <2>2 DEF FileRight
<1> QED BY <1>1, DecodeInvHolds, PTL

\* What decodeValue shows of a record is the schema, message and payload that its
\* serializer wrote, for every ID of four bytes, path and payload.
THEOREM ShownFaithfully == Spec => []ShownAsSent
<1>1. DecodeInv => ShownAsSent
  <2> SUFFICES ASSUME DecodeInv, NEW c \in Callers PROVE TrulyShown(rec[c], result[c])
    BY DEF ShownAsSent, TrulyShown
  <2>1. CASE pc[c] = "idle"
    BY <2>1 DEF DecodeInv, RestsOrWorks, Rests
  <2>2. CASE pc[c] # "idle"
    BY <2>2, AtWork DEF Works, TrulyShown
  <2> QED BY <2>1, <2>2
<1> QED BY <1>1, DecodeInvHolds, PTL

\* decodeValue fails only if a request of this call failed, the record is none or
\* names no message, or the imports of its schema form a circle or have a name twice.
THEOREM ErrorsAreOwn == Spec => []ErrorsHaveCause
<1>1. DecodeInv => ErrorsHaveCause
  <2> SUFFICES ASSUME DecodeInv, NEW c \in Callers, result[c].as = "error"
               PROVE  failed[c] \/ Hopeless(rec[c])
    BY DEF ErrorsHaveCause, Hopeless, NoSuchMessage, Header
  <2>1. CASE pc[c] = "idle"
    BY <2>1 DEF DecodeInv, RestsOrWorks, Rests
  <2>2. CASE pc[c] # "idle"
    BY <2>2, AtWork DEF Works
  <2> QED BY <2>1, <2>2
<1> QED BY <1>1, DecodeInvHolds, PTL

\* StripSchemaHeaders takes off what PrependSchemaHeader put on, and leaves a value
\* alone that has no header.
THEOREM StripsOwnHeader == Spec => []StripUndoesPrepend
<1>1. ASSUME NEW r \in Records
      PROVE  /\ r.by = "rp" /\ r.payload # <<>> => StripSchemaHeaders(Value(r)) = r.payload
             /\ r.by = "raw" /\ ~HeaderOf[r].ok => StripSchemaHeaders(Value(r)) = r.payload
  <2>1. r.payload \in Bytes
    BY RecordsAssumption DEF Bytes, Byte
  <2>2. ASSUME r.by = "rp", r.payload # <<>> PROVE StripSchemaHeaders(Value(r)) = r.payload
    <3>1. r.id \in Nat /\ IsUint32(r.id)
      BY <2>2, RecordsAssumption, SchemasAssumption
    <3>2. Value(r) = PrependSchemaHeader(r.payload, r.id)
      BY <2>2 DEF Value
    <3> QED BY <2>1, <2>2, <3>1, <3>2, HeaderWithZero
  <2>3. ASSUME r.by = "raw", ~HeaderOf[r].ok
        PROVE  StripSchemaHeaders(Value(r)) = r.payload
    <3> DEFINE v == r.payload
    <3>1. Value(r) = v /\ HeaderOf[r] = ExtractSchemaID(Value(r))
      BY <2>3 DEF Value, HeaderOf
    <3>2. ~ExtractSchemaID(v).ok
      BY <2>3, <3>1
    <3>3. Len(v) \in Nat
      BY <2>1 DEF Bytes
    <3> HIDE DEF v
    <3>4. Len(v) < 5 \/ v[1] # 0
      BY <3>2 DEF ExtractSchemaID
    <3>5. StripSchemaHeaders(v) = v
      BY <3>3, <3>4 DEF StripSchemaHeaders
    <3> QED BY <3>1, <3>5 DEF v
  <2> QED BY <2>2, <2>3
<1>2. DecodeInv => StripUndoesPrepend
  <2> SUFFICES ASSUME DecodeInv, NEW c \in Callers
               PROVE  /\ rec[c].by = "rp" /\ rec[c].payload # <<>> =>
                            StripSchemaHeaders(Value(rec[c])) = rec[c].payload
                      /\ rec[c].by = "raw" /\ ~Header(c).ok =>
                            StripSchemaHeaders(Value(rec[c])) = rec[c].payload
    BY DEF StripUndoesPrepend
  <2>1. CASE rec[c] \in Records
    BY <1>1, <2>1 DEF Header
  <2>2. CASE rec[c] = NoRecord
    BY <2>2 DEF NoRecord
  <2> QED BY <2>1, <2>2 DEF DecodeInv, DecodeTypes
<1> QED BY <1>2, DecodeInvHolds, PTL

\* A panic comes from a record that no serializer wrote: its header names a
\* Protobuf schema and parseProtoMessageIndexes panics on what follows.
PanicHasCause ==
    panicked =>
        \E c \in Callers :
            /\ rec[c].by = "raw" /\ Header(c).ok /\ Header(c).id \in Schemas
            /\ Type[Header(c).id] = "PROTOBUF" /\ Indexes(c).panics

\* What a serializer wrote makes no goroutine panic, for every ID, message path
\* and payload: what NeverPanics says holds in a cluster where every record with
\* a Protobuf schema has its indexes from a serializer.
THEOREM PanicsOnRawOnly == Spec => []PanicHasCause
<1>1. Init => PanicHasCause
  BY DEF Init, PanicHasCause
<1>2. DecodeInv /\ PanicHasCause /\ [Next]_vars => PanicHasCause'
  <2> SUFFICES ASSUME DecodeInv, PanicHasCause, [Next]_vars, panicked'
               PROVE  \E c \in Callers :
                         /\ rec'[c].by = "raw" /\ Header(c)'.ok /\ Header(c)'.id \in Schemas
                         /\ Type[Header(c)'.id] = "PROTOBUF" /\ Indexes(c)'.panics
    BY DEF PanicHasCause
  <2>1. CASE Next
    <3>1. ~panicked
      BY <2>1 DEF Next
    <3>2. PICK c \in Callers : (\E r \in Records : Decode(c, r)) \/ Step(c)
      BY <2>1 DEF Next
    <3>3. Step(c)
      BY <3>1, <3>2 DEF Decode
    <3>4. RenderProto(c)
      BY <3>1, <3>3
      DEF Step, Lookup, Fetched, FetchFails, Render, FileLookup, SkipReference,
          FetchReference, FetchReferenceFails, Compile
    <3>5. Indexes(c).panics /\ UNCHANGED rec
      BY <3>1, <3>4 DEF RenderProto
    <3>6. /\ Works(c) /\ Header(c).ok /\ Header(c).id \in Schemas
          /\ Type[Header(c).id] = "PROTOBUF"
      <4>1. pc[c] = "render" /\ Type[info[c].schema] = "PROTOBUF"
        BY <3>4 DEF RenderProto
      <4>2. Works(c)
        BY <4>1, AtWork
      <4> QED BY <4>1, <4>2 DEF Works, Answer
    <3>7. rec[c].by = "raw"
      <4> SUFFICES ASSUME rec[c].by # "raw" PROVE FALSE
        OBVIOUS
      <4>1. Indexes(c) = [ok |-> TRUE, panics |-> FALSE, path |-> rec[c].path,
                          payload |-> rec[c].payload]
        BY <3>6, OfSender
      <4> QED BY <3>5, <4>1
    <3> QED BY <3>5, <3>6, <3>7 DEF Header, Indexes
  <2>2. CASE UNCHANGED vars
    BY <2>2 DEF vars, PanicHasCause, Header, Indexes
  <2> QED BY <2>1, <2>2
<1> QED BY <1>1, <1>2, DecodeInvHolds, PTL DEF Spec
=============================================================================
